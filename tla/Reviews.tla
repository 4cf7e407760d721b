------------------------------ MODULE Reviews ------------------------------
(***************************************************************************)
(* The reviews of organizations: OrgReviewsService over the tables         *)
(* org_review, appointment (its rating) and organization (its rating and   *)
(* number of reviews), together with what AppointmentsService does to the  *)
(* rows of appointment meanwhile.                                          *)
(*                                                                         *)
(* A slot is one request; each await on the database ends a step.  create  *)
(* starts two statements at once and awaits both (Promise.all): it goes on *)
(* when both are done, throws when the first fails, and leaves the other   *)
(* running.                                                                *)
(*                                                                         *)
(* Data: the rating of an organization and its number of reviews are       *)
(* functions of the reviews updateOrgRating has summed, and are kept as    *)
(* the set of those.                                                       *)
(***************************************************************************)
EXTENDS FiniteSets

CONSTANTS
    Appt,      \* the appointments of users
    Org,       \* the ids of organizations
    Slot,      \* the requests that can be in flight at the same time
    Rating,    \* the ratings a request body may have
    Ops,       \* the operations clients call besides create
    Faulty,    \* whether statements may fail and the process may die
    None

ASSUME ReviewsAssumption ==
    /\ Ops \subseteq {"removeReview", "removeBooking", "updateBooking"}
    /\ Faulty \in BOOLEAN
    /\ None \notin Appt \cup Org \cup Rating

Review == [appt : Appt, org : Org, rating : Rating]

VARIABLES
    booked,    \* appointment: those that have a row
    rating,    \* appointment: the rating of each, or None
    reviews,   \* org_review
    shown,     \* organization: the reviews its rating was computed from
    req,       \* what each slot is doing
    \* History variables: no action reads them.
    shared,    \* the slots that were not alone with their organization
    settled,   \* organizations untouched since an unshared create rated them
    disturbed  \* appointments on which requests overlapped or one stopped midway

vars == <<booked, rating, reviews, shown, req, shared, settled, disturbed>>

Request ==
    [pc     : {"idle", "existing", "appointment", "both", "sum", "publish",
               "thrown", "edit"},
     appt   : Appt \cup {None},
     org    : Org \cup {None},
     rating : Rating \cup {None},
     todo   : SUBSET {"review", "rating"},  \* pending in Promise.all
     sum    : SUBSET Review]                \* what updateOrgRating has read

\* A request before it starts a statement.
Start(pc, a, o, r) ==
    [pc |-> pc, appt |-> a, org |-> o, rating |-> r, todo |-> {}, sum |-> {}]

Idle == Start("idle", None, None, None)

\* Users have had their appointments; nothing is rated yet.
Init ==
    /\ booked = Appt
    /\ rating = [a \in Appt |-> None]
    /\ reviews = {}
    /\ shown = [o \in Org |-> {}]
    /\ req = [s \in Slot |-> Idle]
    /\ shared = {}
    /\ settled = {}
    /\ disturbed = {}

-----------------------------------------------------------------------------
(* Helpers *)

Reviewed(a) == \E v \in reviews : v.appt = a

\* The reviews of an organization.
Of(o) == {v \in reviews : v.org = o}

\* The slots at work on an appointment, and those on an organization.
Handling(a) == {s \in Slot : req[s].appt = a}
Visiting(o) == {s \in Slot : req[s].org = o}

Goto(s, pc) == req' = [req EXCEPT ![s].pc = pc]
Finish(s) == req' = [req EXCEPT ![s] = Idle]

\* create has started the first of its writes and not run the last.
Midway(s) == req[s].pc \in {"both", "thrown", "sum", "publish"}

\* Whatever comes to an appointment overlaps with the requests that are there.
Meet(a) == disturbed' = IF Handling(a) = {} THEN disturbed ELSE disturbed \cup {a}

-----------------------------------------------------------------------------
(* OrgReviewsService.create *)

BeginCreate(s, a, o, r) ==
    /\ req[s] = Idle
    /\ req' = [req EXCEPT ![s] = Start("existing", a, o, r)]
    /\ shared' = IF Visiting(o) = {} THEN shared \ {s}
                 ELSE shared \cup {s} \cup Visiting(o)
    /\ Meet(a)
    /\ UNCHANGED <<booked, rating, reviews, shown, settled>>

\* Mutant: reviews are not looked for.
CheckExistingSkipped(s) ==
    /\ req[s].pc = "existing"
    /\ Goto(s, "appointment")
    /\ UNCHANGED <<booked, rating, reviews, shown, shared, settled, disturbed>>

\* The appointment has a review: the request is refused.
CheckExisting(s) ==
    /\ req[s].pc = "existing"
    /\ IF Reviewed(req[s].appt) THEN Finish(s) ELSE Goto(s, "appointment")
    /\ UNCHANGED <<booked, rating, reviews, shown, shared, settled, disturbed>>

FindAppointment(s) ==
    /\ req[s].pc = "appointment"
    /\ IF req[s].appt \in booked
         THEN req' = [req EXCEPT ![s].pc = "both", ![s].todo = {"review", "rating"}]
         ELSE Finish(s)
    /\ UNCHANGED <<booked, rating, reviews, shown, shared, settled, disturbed>>

\* One of the two statements is done: with both, create goes on; after a
\* failure nothing is left but to let the other one end.
Done(r, item) ==
    IF r.todo \ {item} # {} THEN [r EXCEPT !.todo = r.todo \ {item}]
    ELSE IF r.pc = "thrown" THEN Idle
    ELSE [r EXCEPT !.pc = "sum", !.todo = {}]

Thrown(r, item) ==
    IF r.todo \ {item} # {}
      THEN [r EXCEPT !.pc = "thrown", !.todo = r.todo \ {item}]
      ELSE Idle

Settle(s, item) == req' = [req EXCEPT ![s] = Done(req[s], item)]
Fail(s, item) == req' = [req EXCEPT ![s] = Thrown(req[s], item)]

\* The insert fails when the appointment has a review, by the unique
\* appointmentId, or has gone.
SaveReview(s) ==
    LET a == req[s].appt
        o == req[s].org IN
    /\ "review" \in req[s].todo
    /\ \/ /\ a \in booked /\ ~Reviewed(a)
          /\ reviews' = reviews \cup {[appt |-> a, org |-> o, rating |-> req[s].rating]}
          /\ settled' = settled \ {o}
          /\ Settle(s, "review")
          /\ UNCHANGED disturbed
       \/ /\ a \notin booked \/ Reviewed(a)
          /\ Fail(s, "review")
          /\ disturbed' = disturbed \cup {a}
          /\ UNCHANGED <<reviews, settled>>
    /\ UNCHANGED <<booked, rating, shown, shared>>

\* An UPDATE, which finds no row when the appointment has gone.
RateAppointment(s) ==
    LET a == req[s].appt IN
    /\ "rating" \in req[s].todo
    /\ rating' = [rating EXCEPT ![a] = IF a \in booked THEN req[s].rating ELSE None]
    /\ Settle(s, "rating")
    /\ UNCHANGED <<booked, reviews, shown, shared, settled, disturbed>>

\* SUM and COUNT.  Without a review the rating is NaN, which makes the UPDATE
\* fail: the organization keeps its last rating.
SumReviews(s) ==
    /\ req[s].pc = "sum"
    /\ req' = [req EXCEPT ![s].pc = "publish", ![s].sum = Of(req[s].org)]
    /\ UNCHANGED <<booked, rating, reviews, shown, shared, settled, disturbed>>

\* Mutant: the new reviews are added to the old rating.
PublishRatingAdded(s) ==
    LET o == req[s].org IN
    /\ req[s].pc = "publish"
    /\ shown' = [shown EXCEPT ![o] = @ \cup req[s].sum]
    /\ settled' = IF s \in shared THEN settled ELSE settled \cup {o}
    /\ Finish(s)
    /\ UNCHANGED <<booked, rating, reviews, shared, disturbed>>

PublishRating(s) ==
    LET o == req[s].org IN
    /\ req[s].pc = "publish"
    /\ \/ /\ req[s].sum # {}
          /\ shown' = [shown EXCEPT ![o] = req[s].sum]
          /\ settled' = IF s \in shared THEN settled ELSE settled \cup {o}
          /\ UNCHANGED disturbed
       \/ /\ req[s].sum = {}
          /\ disturbed' = disturbed \cup {req[s].appt}
          /\ UNCHANGED <<shown, settled>>
    /\ Finish(s)
    /\ UNCHANGED <<booked, rating, reviews, shared>>

-----------------------------------------------------------------------------
(* OrgReviewsService.remove, and what becomes of appointments meanwhile *)

\* remove deletes whatever row has the id, and rates nothing again.
RemoveReview(v) ==
    /\ "removeReview" \in Ops
    /\ v \in reviews
    /\ reviews' = reviews \ {v}
    /\ shared' = shared \cup Visiting(v.org)
    /\ settled' = settled \ {v.org}
    /\ UNCHANGED <<booked, rating, shown, req, disturbed>>

\* The review goes with its appointment.
RemoveBooking(a) ==
    LET gone == {v \in reviews : v.appt = a}
        hit  == {v.org : v \in gone} IN
    /\ "removeBooking" \in Ops
    /\ a \in booked
    /\ booked' = booked \ {a}
    /\ rating' = [rating EXCEPT ![a] = None]
    /\ reviews' = reviews \ gone
    /\ shared' = shared \cup UNION {Visiting(o) : o \in hit}
    /\ settled' = settled \ hit
    /\ Meet(a)
    /\ UNCHANGED <<shown, req>>

\* AppointmentsService.update reads the row, ...
ReadBooking(s, a) ==
    /\ "updateBooking" \in Ops
    /\ req[s] = Idle
    /\ a \in booked
    /\ req' = [req EXCEPT ![s] = Start("edit", a, None, rating[a])]
    /\ Meet(a)
    /\ UNCHANGED <<booked, rating, reviews, shown, shared, settled>>

\* Mutant: update saves a new entity, without the rating of the row.
SaveBookingAnew(s) ==
    /\ req[s].pc = "edit"
    /\ booked' = booked \cup {req[s].appt}
    /\ rating' = [rating EXCEPT ![req[s].appt] = None]
    /\ Finish(s)
    /\ UNCHANGED <<reviews, shown, shared, settled, disturbed>>

\* ... and saves all of it, the rating it has read included, which inserts the
\* row again if it has gone; or it throws before, at items it cannot insert.
SaveBooking(s) ==
    LET a == req[s].appt IN
    /\ req[s].pc = "edit"
    /\ \/ /\ booked' = booked \cup {a}
          /\ rating' = [rating EXCEPT ![a] = req[s].rating]
       \/ UNCHANGED <<booked, rating>>
    /\ Finish(s)
    /\ UNCHANGED <<reviews, shown, shared, settled, disturbed>>

-----------------------------------------------------------------------------
(* Failures *)

StatementFails(s) ==
    /\ Faulty
    /\ req[s] # Idle
    /\ \/ req[s].todo = {} /\ Finish(s)
       \/ \E item \in req[s].todo : Fail(s, item)
    /\ disturbed' = IF Midway(s) THEN disturbed \cup {req[s].appt} ELSE disturbed
    /\ UNCHANGED <<booked, rating, reviews, shown, shared, settled>>

\* The process dies and starts again: every request in flight is lost.
Crash ==
    /\ Faulty
    /\ req' = [s \in Slot |-> Idle]
    /\ disturbed' = disturbed \cup {req[s].appt : s \in {t \in Slot : Midway(t)}}
    /\ UNCHANGED <<booked, rating, reviews, shown, shared, settled>>

-----------------------------------------------------------------------------
(* The specification *)

Step(s) ==
    \/ CheckExisting(s) \/ FindAppointment(s) \/ SaveReview(s)
    \/ RateAppointment(s) \/ SumReviews(s) \/ PublishRating(s)
    \/ SaveBooking(s)

Next ==
    \/ \E s \in Slot :
          \/ \E a \in Appt, o \in Org, r \in Rating : BeginCreate(s, a, o, r)
          \/ \E a \in Appt : ReadBooking(s, a)
          \/ Step(s)
          \/ StatementFails(s)
    \/ \E v \in reviews : RemoveReview(v)
    \/ \E a \in Appt : RemoveBooking(a)
    \/ Crash

Spec == Init /\ [][Next]_vars

-----------------------------------------------------------------------------
(* Properties *)

\* Every variable has its type.
TypeOK ==
    /\ booked \subseteq Appt
    /\ rating \in [Appt -> Rating \cup {None}]
    /\ reviews \subseteq Review
    /\ shown \in [Org -> SUBSET Review]
    /\ req \in [Slot -> Request]
    /\ shared \subseteq Slot
    /\ settled \subseteq Org
    /\ disturbed \subseteq Appt

\* A create that was alone with its organization leaves it with the rating of
\* exactly its reviews, whatever removals, failures and lost updates came
\* before: updateOrgRating sums anew, and no older sum is still on its way.
RatingCurrent == \A o \in settled : shown[o] = Of(o)

Rated(a) == \A v \in reviews : v.appt = a => rating[a] = v.rating

\* The two writes create starts at once agree: an appointment whose handlers
\* neither overlapped nor stopped midway has the rating of its review, through
\* later refused reviews, removals and updates of the booking.
AppointmentRated ==
    \A a \in Appt \ disturbed : Handling(a) = {} => Rated(a)

-----------------------------------------------------------------------------
(* The inductive invariant behind the safety properties *)

\* What a slot carries at each statement of its handler.
WellFormed(r) ==
    /\ r.pc = "idle" <=> r = Idle
    /\ r.pc # "idle" => r.appt \in Appt
    /\ r.pc \notin {"idle", "edit"} => r.org \in Org /\ r.rating \in Rating
    /\ r.pc = "edit" => r.org = None
    /\ r.todo # {} <=> r.pc \in {"both", "thrown"}

\* An appointment has one review at most, and is there as long as it.
Keyed ==
    /\ \A v, w \in reviews : v.appt = w.appt => v = w
    /\ \A v \in reviews : v.appt \in booked

\* A slot that is not shared is the only one of its organization, and nothing
\* changes the reviews it has summed.
Unshared(s) ==
    /\ \A t \in Slot : req[s].org # None /\ req[t].org = req[s].org => t = s
    /\ req[s].pc = "publish" => req[s].sum = Of(req[s].org)

\* create has saved its review.
Saved(r) ==
    \/ r.pc \in {"sum", "publish"}
    \/ r.pc = "both" /\ "review" \notin r.todo

\* How far the handler of s, alone with its appointment a, has got with it.
Underway(s, a) ==
    LET r == req[s] IN
    /\ r.pc = "appointment" \/ "review" \in r.todo => ~Reviewed(a)
    /\ r.pc \in {"existing", "sum", "publish", "edit"} => Rated(a)
    /\ r.pc = "edit" => r.rating = rating[a]
    /\ r.todo = {"rating"} => \A v \in reviews : v.appt = a => v.rating = r.rating
    /\ r.todo = {"review"} => a \in booked /\ rating[a] = r.rating
    /\ r.pc \in {"both", "sum", "publish"} => a \in booked
    /\ r.pc # "thrown"

OneAtATime(a) ==
    /\ \A s, t \in Handling(a) : s = t
    /\ \A s \in Handling(a) : Underway(s, a)
    /\ Handling(a) = {} => Rated(a)

RInv ==
    /\ TypeOK
    /\ \A s \in Slot : WellFormed(req[s])
    /\ Keyed
    /\ \A s \in Slot \ shared : Unshared(s)
    /\ \A s \in Slot : Saved(req[s]) => req[s].org \notin settled
    /\ RatingCurrent
    /\ \A a \in Appt \ disturbed : OneAtATime(a)

=============================================================================
