--------------------------- MODULE ReviewsProofs ---------------------------
(* Proofs about Reviews for any number of appointments, organizations and
   requests. *)
EXTENDS Reviews, TLAPS

-----------------------------------------------------------------------------
(* The moves of a slot *)

\* The slot s goes on with the same request, as r, or is done with it.
Moves(s, r) ==
    /\ req[s].pc # "idle"
    /\ req' = [req EXCEPT ![s] = r]
    /\ r \in Request
    /\ WellFormed(r)
    /\ r = Idle \/ (/\ r.pc # "idle"
                    /\ r.appt = req[s].appt
                    /\ r.org = req[s].org
                    /\ r.rating = req[s].rating)

Formed == req \in [Slot -> Request] /\ \A s \in Slot : WellFormed(req[s])

LEMMA IdleFormed == Idle \in Request /\ WellFormed(Idle) /\ Idle.pc = "idle"
  BY DEF Start, Idle, Request, WellFormed

LEMMA FinishMoves ==
    ASSUME NEW s \in Slot, req[s].pc # "idle", Finish(s)
    PROVE  Moves(s, Idle)
  BY IdleFormed DEF Finish, Moves

LEMMA GotoMoves ==
    ASSUME Formed, NEW s \in Slot, req[s].pc \in {"existing", "appointment"},
           NEW r \in {[req[s] EXCEPT !.pc = "appointment"],
                      [req[s] EXCEPT !.pc = "both", !.todo = {"review", "rating"}]},
           req' = [req EXCEPT ![s] = r]
    PROVE  Moves(s, r)
<1>1. req[s] \in Request /\ WellFormed(req[s])
  BY DEF Formed
<1>2. req[s].todo = {}
  BY <1>1 DEF WellFormed
<1>3. r \in Request
  BY <1>1 DEF Request
<1>4. /\ r.pc \in {"appointment", "both"} /\ r.appt = req[s].appt
      /\ r.org = req[s].org /\ r.rating = req[s].rating
      /\ r.todo # {} <=> r.pc = "both"
  BY <1>1, <1>2 DEF Request
<1>5. r # Idle
  BY <1>4 DEF Start, Idle
<1>6. WellFormed(r)
  BY <1>1, <1>4, <1>5 DEF WellFormed
<1>7. QED BY <1>3, <1>4, <1>6 DEF Moves

LEMMA DoneMoves ==
    ASSUME Formed, NEW s \in Slot, NEW item \in req[s].todo, Settle(s, item)
    PROVE  Moves(s, Done(req[s], item))
<1> DEFINE q == req[s]
           r == Done(q, item)
<1>1. q \in Request /\ WellFormed(q) /\ q.pc \in {"both", "thrown"}
  BY DEF Formed, WellFormed
<1>2. CASE q.todo \ {item} # {}
  <2>1. r = [q EXCEPT !.todo = q.todo \ {item}]
    BY <1>2 DEF Done
  <2>2. r \in Request /\ r.pc = q.pc /\ r.appt = q.appt /\ r.org = q.org
        /\ r.rating = q.rating /\ r.todo # {}
    BY <1>1, <1>2, <2>1 DEF Request
  <2>3. QED BY <1>1, <2>2 DEF Moves, Settle, WellFormed, Start, Idle
<1>3. CASE q.todo \ {item} = {} /\ q.pc = "thrown"
  BY <1>1, <1>3, IdleFormed DEF Moves, Settle, Done
<1>4. CASE q.todo \ {item} = {} /\ q.pc # "thrown"
  <2>1. r = [q EXCEPT !.pc = "sum", !.todo = {}]
    BY <1>4 DEF Done
  <2>2. r \in Request /\ r.pc = "sum" /\ r.appt = q.appt /\ r.org = q.org
        /\ r.rating = q.rating /\ r.todo = {}
    BY <1>1, <2>1 DEF Request
  <2>3. QED BY <1>1, <2>2 DEF Moves, Settle, WellFormed, Start, Idle
<1>5. QED BY <1>2, <1>3, <1>4

LEMMA FailMoves ==
    ASSUME Formed, NEW s \in Slot, NEW item \in req[s].todo, Fail(s, item)
    PROVE  /\ Moves(s, Thrown(req[s], item))
           /\ Thrown(req[s], item).pc \in {"idle", "thrown"}
<1> DEFINE q == req[s]
           r == Thrown(q, item)
<1>1. q \in Request /\ WellFormed(q) /\ q.pc \in {"both", "thrown"}
  BY DEF Formed, WellFormed
<1>2. CASE q.todo \ {item} # {}
  <2>1. r = [q EXCEPT !.pc = "thrown", !.todo = q.todo \ {item}]
    BY <1>2 DEF Thrown
  <2>2. r \in Request /\ r.pc = "thrown" /\ r.appt = q.appt /\ r.org = q.org
        /\ r.rating = q.rating /\ r.todo # {}
    BY <1>1, <1>2, <2>1 DEF Request
  <2>3. QED BY <1>1, <2>2 DEF Moves, Fail, WellFormed, Start, Idle
<1>3. CASE q.todo \ {item} = {}
  BY <1>1, <1>3, IdleFormed DEF Moves, Fail, Thrown
<1>4. QED BY <1>2, <1>3

LEMMA SumMoves ==
    ASSUME Formed, reviews \subseteq Review, NEW s \in Slot, SumReviews(s)
    PROVE  Moves(s, [req[s] EXCEPT !.pc = "publish", !.sum = Of(req[s].org)])
<1> DEFINE q == req[s]
           r == [q EXCEPT !.pc = "publish", !.sum = Of(q.org)]
<1>1. q \in Request /\ WellFormed(q) /\ q.pc = "sum"
  BY DEF Formed, SumReviews
<1>2. r \in Request /\ r.pc = "publish" /\ r.appt = q.appt /\ r.org = q.org
      /\ r.rating = q.rating /\ r.todo = q.todo
  BY <1>1 DEF Request, Of
<1>3. QED BY <1>1, <1>2 DEF Moves, SumReviews, WellFormed, Start, Idle

\* What a move leaves as it was.
LEMMA MovesFormed ==
    ASSUME Formed, NEW s \in Slot, NEW r, Moves(s, r)
    PROVE  /\ Formed'
           /\ req'[s] = r
           /\ \A t \in Slot \ {s} : req'[t] = req[t]
  BY DEF Formed, Moves

LEMMA StepMoves ==
    ASSUME TypeOK, Formed, NEW s \in Slot, Step(s) \/ StatementFails(s)
    PROVE  \E r : Moves(s, r)
<1>1. CASE CheckExisting(s)
  BY <1>1, FinishMoves, GotoMoves DEF CheckExisting, Goto
<1>2. CASE FindAppointment(s)
  <2>1. CASE req[s].appt \in booked
    <3> DEFINE r == [req[s] EXCEPT !.pc = "both", !.todo = {"review", "rating"}]
    <3>1. req' = [req EXCEPT ![s] = r]
      BY <1>2, <2>1 DEF FindAppointment, Formed, Request
    <3>2. QED BY <1>2, <3>1, GotoMoves DEF FindAppointment
  <2>2. QED BY <1>2, <2>1, FinishMoves DEF FindAppointment
<1>3. CASE SaveReview(s)
  BY <1>3, DoneMoves, FailMoves DEF SaveReview
<1>4. CASE RateAppointment(s)
  BY <1>4, DoneMoves DEF RateAppointment
<1>5. CASE SumReviews(s)
  BY <1>5, SumMoves DEF TypeOK
<1>6. CASE PublishRating(s)
  BY <1>6, FinishMoves DEF PublishRating
<1>7. CASE SaveBooking(s)
  BY <1>7, FinishMoves DEF SaveBooking
<1>8. CASE StatementFails(s)
  <2>1. req[s].pc # "idle"
    BY <1>8 DEF StatementFails, Formed, WellFormed
  <2>2. QED BY <1>8, <2>1, FinishMoves, FailMoves DEF StatementFails
<1>9. QED BY <1>1, <1>2, <1>3, <1>4, <1>5, <1>6, <1>7, <1>8 DEF Step

\* A request arrives.
LEMMA BeginForms ==
    ASSUME Formed, NEW s \in Slot, NEW r \in Request, WellFormed(r),
           req' = [req EXCEPT ![s] = r]
    PROVE  /\ Formed'
           /\ req'[s] = r
           /\ \A t \in Slot \ {s} : req'[t] = req[t]
  BY DEF Formed

\* The requests BeginCreate and ReadBooking make.
LEMMA CreationFormed ==
    ASSUME NEW a \in Appt, NEW o \in Org, NEW r \in Rating
    PROVE  /\ Start("existing", a, o, r) \in Request
           /\ WellFormed(Start("existing", a, o, r))
  BY DEF Start, Idle, Request, WellFormed

LEMMA EditFormed ==
    ASSUME TypeOK, NEW a \in Appt
    PROVE  /\ Start("edit", a, None, rating[a]) \in Request
           /\ WellFormed(Start("edit", a, None, rating[a]))
<1>1. rating[a] \in Rating \cup {None}
  BY DEF TypeOK
<1>2. QED BY <1>1 DEF Start, Idle, Request, WellFormed

-----------------------------------------------------------------------------
(* Types *)

LEMMA NextFormed ==
    ASSUME TypeOK, Formed, [Next]_vars
    PROVE  Formed'
<1>1. ASSUME NEW s \in Slot, NEW a \in Appt, NEW o \in Org, NEW r \in Rating,
             BeginCreate(s, a, o, r)
      PROVE  Formed'
  BY <1>1, CreationFormed, BeginForms DEF BeginCreate
<1>2. ASSUME NEW s \in Slot, NEW a \in Appt, ReadBooking(s, a)
      PROVE  Formed'
  BY <1>2, EditFormed, BeginForms DEF ReadBooking
<1>3. ASSUME NEW s \in Slot, Step(s) \/ StatementFails(s)
      PROVE  Formed'
  BY <1>3, StepMoves, MovesFormed
<1>4. CASE (\E v \in reviews : RemoveReview(v)) \/ (\E a \in Appt : RemoveBooking(a))
           \/ UNCHANGED vars
  BY <1>4 DEF RemoveReview, RemoveBooking, vars, Formed
<1>5. CASE Crash
  BY <1>5, IdleFormed DEF Crash, Formed
<1>6. QED BY <1>1, <1>2, <1>3, <1>4, <1>5 DEF Next

LEMMA NextTypes ==
    ASSUME TypeOK, Formed, [Next]_vars
    PROVE  TypeOK'
<1> USE DEF TypeOK
<1>0. Formed' /\ \A s \in Slot : req[s] \in Request /\ WellFormed(req[s])
  BY NextFormed DEF Formed
<1>1. ASSUME NEW s \in Slot, NEW a \in Appt, NEW o \in Org, NEW r \in Rating,
             BeginCreate(s, a, o, r)
      PROVE  TypeOK'
  BY <1>0, <1>1 DEF BeginCreate, Meet, Visiting, Formed
<1>2. ASSUME NEW s \in Slot, NEW a \in Appt, ReadBooking(s, a)
      PROVE  TypeOK'
  BY <1>0, <1>2 DEF ReadBooking, Meet, Formed
<1>3. ASSUME NEW s \in Slot, Step(s)
      PROVE  TypeOK'
  <2>1. CASE CheckExisting(s) \/ FindAppointment(s) \/ SumReviews(s)
    BY <1>0, <2>1 DEF CheckExisting, FindAppointment, SumReviews, Formed
  <2>2. CASE SaveReview(s)
    <3>1. req[s].pc \in {"both", "thrown"}
      BY <1>0, <2>2 DEF SaveReview, WellFormed
    <3>2. req[s].appt \in Appt /\ req[s].org \in Org /\ req[s].rating \in Rating
      BY <1>0, <3>1 DEF WellFormed
    <3>3. QED BY <1>0, <2>2, <3>2 DEF SaveReview, Review, Formed
  <2>3. CASE RateAppointment(s)
    <3>1. req[s].rating \in Rating \cup {None}
      BY <1>0 DEF Request
    <3>2. QED BY <1>0, <2>3, <3>1 DEF RateAppointment, Formed
  <2>4. CASE PublishRating(s)
    <3>1. req[s].appt \in Appt /\ req[s].org \in Org /\ req[s].sum \subseteq Review
      BY <1>0, <2>4 DEF PublishRating, WellFormed, Request
    <3>2. QED BY <1>0, <2>4, <3>1 DEF PublishRating, Formed
  <2>5. CASE SaveBooking(s)
    <3>1. req[s].appt \in Appt /\ req[s].rating \in Rating \cup {None}
      BY <1>0, <2>5 DEF SaveBooking, WellFormed, Request
    <3>2. QED BY <1>0, <2>5, <3>1 DEF SaveBooking, Formed
  <2>6. QED BY <1>3, <2>1, <2>2, <2>3, <2>4, <2>5 DEF Step
<1>4. ASSUME NEW s \in Slot, StatementFails(s)
      PROVE  TypeOK'
  <2>1. req[s].appt \in Appt
    BY <1>0, <1>4 DEF StatementFails, WellFormed
  <2>2. QED BY <1>0, <1>4, <2>1 DEF StatementFails, Formed
<1>5. ASSUME NEW v \in reviews, RemoveReview(v)
      PROVE  TypeOK'
  BY <1>5 DEF RemoveReview, Visiting
<1>6. ASSUME NEW a \in Appt, RemoveBooking(a)
      PROVE  TypeOK'
  BY <1>6 DEF RemoveBooking, Visiting, Meet
<1>7. CASE Crash
  <2>1. \A s \in Slot : Midway(s) => req[s].appt \in Appt
    BY <1>0 DEF Midway, WellFormed
  <2>2. QED BY <1>0, <1>7, <2>1 DEF Crash, Formed
<1>8. CASE UNCHANGED vars
  BY <1>8 DEF vars
<1>9. QED BY <1>1, <1>2, <1>3, <1>4, <1>5, <1>6, <1>7, <1>8 DEF Next

-----------------------------------------------------------------------------
(* The ratings of organizations *)

OrgInv ==
    /\ \A s \in Slot \ shared : Unshared(s)
    /\ \A s \in Slot : Saved(req[s]) => req[s].org \notin settled
    /\ RatingCurrent

\* A slot that moves on and touches no review and no organization.
LEMMA QuietMove ==
    ASSUME Formed, OrgInv, NEW s \in Slot, NEW r, Moves(s, r),
           UNCHANGED <<reviews, shown, shared, settled>>,
           Saved(r) => Saved(req[s]),
           r.pc = "publish" => r.sum = Of(r.org)
    PROVE  OrgInv'
<1>1. req'[s] = r /\ \A t \in Slot \ {s} : req'[t] = req[t]
  BY MovesFormed
<1>2. r.org = None \/ r.org = req[s].org
  BY DEF Moves, Idle, Start
<1>3. \A o : Of(o)' = Of(o)
  BY DEF Of
<1>4. ASSUME NEW t \in Slot \ shared
      PROVE  Unshared(t)'
  <2>1. Unshared(t)
    BY DEF OrgInv
  <2>2. \A u \in Slot : req'[t].org # None /\ req'[u].org = req'[t].org => u = t
    BY <1>1, <1>2, <2>1 DEF Unshared
  <2>3. req'[t].pc = "publish" => req'[t].sum = Of(req'[t].org)
    BY <1>1, <2>1 DEF Unshared
  <2>4. QED BY <1>3, <2>2, <2>3 DEF Unshared
<1>5. ASSUME NEW t \in Slot, Saved(req'[t])
      PROVE  req'[t].org \notin settled
  <2>1. CASE t = s
    <3>1. r # Idle
      BY <1>1, <1>5, <2>1 DEF Saved, Idle, Start
    <3>2. r.org = req[s].org
      BY <3>1 DEF Moves
    <3>3. QED BY <1>1, <1>5, <2>1, <3>2 DEF OrgInv
  <2>2. CASE t # s
    BY <1>1, <1>5, <2>2 DEF OrgInv
  <2>3. QED BY <2>1, <2>2
<1>6. RatingCurrent'
  BY <1>3 DEF OrgInv, RatingCurrent
<1>7. QED BY <1>4, <1>5, <1>6 DEF OrgInv, Saved

LEMMA SavedOnlyByReview ==
    ASSUME Formed, NEW s \in Slot, NEW item \in req[s].todo
    PROVE  /\ item = "rating" /\ Saved(Done(req[s], item)) => Saved(req[s])
           /\ ~Saved(Thrown(req[s], item))
           /\ Done(req[s], item).pc # "publish"
           /\ Thrown(req[s], item).pc # "publish"
<1> DEFINE q == req[s]
<1>1. q \in Request /\ WellFormed(q) /\ q.pc \in {"both", "thrown"}
  BY DEF Formed, WellFormed
<1>2. CASE q.todo \ {item} # {}
  <2>1. /\ Done(q, item) = [q EXCEPT !.todo = q.todo \ {item}]
        /\ Thrown(q, item) = [q EXCEPT !.pc = "thrown", !.todo = q.todo \ {item}]
    BY <1>2 DEF Done, Thrown
  <2>2. /\ Done(q, item).pc = q.pc /\ Done(q, item).todo = q.todo \ {item}
        /\ Thrown(q, item).pc = "thrown"
    BY <1>1, <2>1 DEF Request
  <2>3. QED BY <1>1, <2>2 DEF Saved
<1>3. CASE q.todo \ {item} = {}
  <2>1. Thrown(q, item).pc = "idle" /\ Done(q, item).pc \in {"idle", "sum"}
    BY <1>1, <1>3 DEF Thrown, Done, Idle, Start, Request
  <2>2. Done(q, item).pc = "sum" => q.pc = "both"
    BY <1>1, <1>3 DEF Done, Idle, Start
  <2>3. item = "rating" => "review" \notin q.todo
    BY <1>3
  <2>4. QED BY <2>1, <2>2, <2>3 DEF Saved
<1>4. QED BY <1>2, <1>3

LEMMA OrgsBegin ==
    ASSUME TypeOK, Formed, OrgInv, NEW s \in Slot, NEW a \in Appt, NEW o \in Org,
           NEW r \in Rating, BeginCreate(s, a, o, r)
    PROVE  OrgInv'
<1> DEFINE q == Start("existing", a, o, r)
<1>1. req'[s] = q /\ \A t \in Slot \ {s} : req'[t] = req[t]
  BY CreationFormed, BeginForms DEF BeginCreate
<1>2. q.pc = "existing" /\ q.org = o /\ ~Saved(q)
  BY DEF Start, Saved
<1>3. reviews' = reviews /\ shown' = shown /\ settled' = settled
  BY DEF BeginCreate
<1>4. \A x : Of(x)' = Of(x)
  BY <1>3 DEF Of
<1>5. ASSUME NEW t \in Slot \ shared'
      PROVE  Unshared(t)'
  <2>1. CASE Visiting(o) = {}
    <3>1. \A u \in Slot \ {s} : req'[u].org # o
      BY <1>1, <2>1 DEF Visiting
    <3>2. t # s => Unshared(t)
      BY <2>1, <1>5 DEF BeginCreate, OrgInv
    <3>3. QED BY <1>1, <1>2, <1>4, <3>1, <3>2 DEF Unshared
  <2>2. CASE Visiting(o) # {}
    <3>1. t # s /\ t \notin Visiting(o) /\ t \in Slot \ shared
      BY <2>2, <1>5 DEF BeginCreate
    <3>2. Unshared(t) /\ req[t].org # o
      BY <3>1 DEF OrgInv, Visiting
    <3>3. QED BY <1>1, <1>2, <1>4, <3>1, <3>2 DEF Unshared
  <2>3. QED BY <2>1, <2>2
<1>6. \A t \in Slot : Saved(req'[t]) => req'[t].org \notin settled'
  BY <1>1, <1>2, <1>3 DEF OrgInv
<1>7. RatingCurrent'
  BY <1>3, <1>4 DEF OrgInv, RatingCurrent
<1>8. QED BY <1>5, <1>6, <1>7 DEF OrgInv, Saved

LEMMA OrgsRead ==
    ASSUME TypeOK, Formed, OrgInv, NEW s \in Slot, NEW a \in Appt, ReadBooking(s, a)
    PROVE  OrgInv'
<1> DEFINE q == Start("edit", a, None, rating[a])
<1>1. req'[s] = q /\ \A t \in Slot \ {s} : req'[t] = req[t]
  BY EditFormed, BeginForms DEF ReadBooking
<1>2. q.pc = "edit" /\ q.org = None /\ ~Saved(q)
  BY DEF Start, Saved
<1>3. UNCHANGED <<reviews, shown, shared, settled>>
  BY DEF ReadBooking
<1>4. \A x : Of(x)' = Of(x)
  BY <1>3 DEF Of
<1>5. \A t \in Slot \ shared' : Unshared(t)'
  BY <1>1, <1>2, <1>3, <1>4 DEF OrgInv, Unshared
<1>6. \A t \in Slot : Saved(req'[t]) => req'[t].org \notin settled'
  BY <1>1, <1>2, <1>3 DEF OrgInv
<1>7. RatingCurrent'
  BY <1>3, <1>4 DEF OrgInv, RatingCurrent
<1>8. QED BY <1>5, <1>6, <1>7 DEF OrgInv, Saved

\* The only slot of its organization saves the review, or one of several, whose
\* organization is then not settled.
LEMMA OrgsSave ==
    ASSUME TypeOK, Formed, OrgInv, NEW s \in Slot, SaveReview(s)
    PROVE  OrgInv'
<1> DEFINE a == req[s].appt
           o == req[s].org
<1>1. CASE (a \notin booked \/ Reviewed(a)) /\ Fail(s, "review")
             /\ UNCHANGED <<reviews, settled>>
  BY <1>1, FailMoves, SavedOnlyByReview, QuietMove DEF SaveReview
<1>2. CASE /\ reviews' = reviews \cup {[appt |-> a, org |-> o, rating |-> req[s].rating]}
           /\ settled' = settled \ {o}
           /\ Settle(s, "review")
  <2>1. UNCHANGED <<shown, shared>> /\ "review" \in req[s].todo
    BY DEF SaveReview
  <2>2. PICK r : Moves(s, r) /\ r.pc # "publish"
    BY <1>2, <2>1, DoneMoves, SavedOnlyByReview
  <2>3. req'[s] = r /\ \A t \in Slot \ {s} : req'[t] = req[t]
    BY <2>2, MovesFormed
  <2>4. r.org = None \/ r.org = o
    BY <2>2 DEF Moves, Idle, Start
  <2>5. req[s] \in Request /\ o \in Org
    BY <2>1 DEF Formed, WellFormed
  <2>6. \A x : x # o => Of(x)' = Of(x)
    BY <1>2 DEF Of
  <2>7. ASSUME NEW t \in Slot \ shared'
        PROVE  Unshared(t)'
    <3>1. Unshared(t) /\ t \notin shared
      BY <2>1, <2>7 DEF OrgInv
    <3>2. \A u \in Slot : req'[t].org # None /\ req'[u].org = req'[t].org => u = t
      BY <2>3, <2>4, <3>1 DEF Unshared
    <3>3. t # s => req[t].org # o \/ req[t].org = None
      BY <3>1 DEF Unshared
    <3>4. req'[t].pc = "publish" => req'[t].sum = Of(req[t].org)'
      BY <2>2, <2>3, <2>6, <3>1, <3>3, ReviewsAssumption
         DEF Unshared, Formed, WellFormed
    <3>5. QED BY <3>2, <3>4 DEF Unshared
  <2>8. ASSUME NEW t \in Slot, Saved(req'[t])
        PROVE  req'[t].org \notin settled'
    <3>1. CASE t = s
      <4>1. r # Idle
        BY <2>3, <2>8, <3>1 DEF Saved, Idle, Start
      <4>2. QED BY <1>2, <2>2, <2>3, <3>1, <4>1 DEF Moves
    <3>2. QED BY <1>2, <2>3, <2>8, <3>1 DEF OrgInv
  <2>9. RatingCurrent'
    BY <1>2, <2>1, <2>6 DEF OrgInv, RatingCurrent
  <2>10. QED BY <2>7, <2>8, <2>9 DEF OrgInv, Saved
<1>3. QED BY <1>1, <1>2 DEF SaveReview

LEMMA OrgsPublish ==
    ASSUME TypeOK, Formed, OrgInv, NEW s \in Slot, PublishRating(s)
    PROVE  OrgInv'
<1> DEFINE o == req[s].org
<1>1. req[s].pc = "publish" /\ o \in Org /\ Saved(req[s]) /\ o # None
  BY ReviewsAssumption DEF PublishRating, Formed, WellFormed, Saved
<1>2. Moves(s, Idle)
  BY <1>1, FinishMoves DEF PublishRating
<1>3. CASE req[s].sum = {}
  BY <1>2, <1>3, QuietMove DEF PublishRating, Saved, Idle, Start
<1>4. CASE req[s].sum # {}
  <2>1. /\ UNCHANGED <<reviews, shared>>
        /\ shown' = [shown EXCEPT ![o] = req[s].sum]
        /\ settled' = IF s \in shared THEN settled ELSE settled \cup {o}
    BY <1>4 DEF PublishRating
  <2>2. req'[s] = Idle /\ \A t \in Slot \ {s} : req'[t] = req[t]
    BY <1>2, MovesFormed
  <2>3. \A x : Of(x)' = Of(x)
    BY <2>1 DEF Of
  <2>4. Idle.org = None /\ Idle.pc = "idle" /\ ~Saved(Idle)
    BY DEF Idle, Start, Saved
  <2>5. \A t \in Slot \ shared' : Unshared(t)'
    BY <2>1, <2>2, <2>3, <2>4 DEF OrgInv, Unshared
  <2>6. s \notin shared => req[s].sum = Of(o) /\ \A t \in Slot \ {s} : req[t].org # o
    BY <1>1 DEF OrgInv, Unshared
  <2>7. \A t \in Slot : Saved(req'[t]) => req'[t].org \notin settled'
    BY <2>1, <2>2, <2>4, <2>6 DEF OrgInv
  <2>8. o \in settled' => req[s].sum = Of(o)
    BY <1>1, <2>1, <2>6 DEF OrgInv
  <2>9. \A x \in settled' : shown'[x] = Of(x)
    <3>1. shown'[o] = req[s].sum /\ \A x \in Org \ {o} : shown'[x] = shown[x]
      BY <1>1, <2>1 DEF TypeOK
    <3>2. settled' \subseteq Org /\ settled' \ {o} \subseteq settled
      BY <1>1, <2>1 DEF TypeOK
    <3>3. QED BY <2>8, <3>1, <3>2 DEF OrgInv, RatingCurrent
  <2>10. RatingCurrent'
    BY <2>3, <2>9 DEF RatingCurrent
  <2>11. QED BY <2>5, <2>7, <2>10 DEF OrgInv, Saved
<1>5. QED BY <1>3, <1>4

\* Reviews of some organizations go; whoever is at work on those is shared.
LEMMA OrgsLose ==
    ASSUME Formed, OrgInv, NEW hit,
           UNCHANGED <<shown, req>>,
           shared \subseteq shared', settled' = settled \ hit,
           \A s \in Slot : req[s].org \in hit => s \in shared',
           \A o : o \notin hit => Of(o)' = Of(o)
    PROVE  OrgInv'
<1>1. \A s \in Slot \ shared' : Unshared(s)'
  BY DEF OrgInv, Unshared
<1>2. RatingCurrent'
  BY DEF OrgInv, RatingCurrent
<1>3. QED BY <1>1, <1>2 DEF OrgInv, Saved

LEMMA NextOrgs ==
    ASSUME TypeOK, Formed, OrgInv, [Next]_vars
    PROVE  OrgInv'
<1>1. ASSUME NEW s \in Slot, Step(s)
      PROVE  OrgInv'
  <2>1. CASE CheckExisting(s)
    <3>1. \/ Finish(s) /\ req[s].pc # "idle"
          \/ req' = [req EXCEPT ![s] = [req[s] EXCEPT !.pc = "appointment"]]
      BY <2>1 DEF CheckExisting, Goto
    <3>2. [req[s] EXCEPT !.pc = "appointment"].pc = "appointment"
      BY DEF Formed, Request
    <3>3. QED BY <2>1, <3>1, <3>2, FinishMoves, GotoMoves, QuietMove
              DEF CheckExisting, Saved, Idle, Start
  <2>2. CASE FindAppointment(s)
    <3> DEFINE r == [req[s] EXCEPT !.pc = "both", !.todo = {"review", "rating"}]
    <3>1. r.pc = "both" /\ r.todo = {"review", "rating"}
      BY DEF Formed, Request
    <3>2. \/ Finish(s) /\ req[s].pc # "idle"
          \/ req' = [req EXCEPT ![s] = r]
      BY <2>2 DEF FindAppointment, Formed, Request
    <3>3. QED BY <2>2, <3>1, <3>2, FinishMoves, GotoMoves, QuietMove
              DEF FindAppointment, Saved, Idle, Start
  <2>3. CASE RateAppointment(s)
    BY <2>3, DoneMoves, SavedOnlyByReview, QuietMove DEF RateAppointment
  <2>4. CASE SumReviews(s)
    <3> DEFINE r == [req[s] EXCEPT !.pc = "publish", !.sum = Of(req[s].org)]
    <3>1. r.org = req[s].org /\ r.sum = Of(req[s].org)
      BY DEF Formed, Request
    <3>2. Saved(req[s])
      BY <2>4 DEF SumReviews, Saved
    <3>3. QED BY <2>4, <3>1, <3>2, SumMoves, QuietMove DEF SumReviews, TypeOK
  <2>5. CASE SaveBooking(s)
    BY <2>5, FinishMoves, QuietMove DEF SaveBooking, Saved, Idle, Start
  <2>6. QED BY <1>1, <2>1, <2>2, <2>3, <2>4, <2>5, OrgsSave, OrgsPublish DEF Step
<1>2. ASSUME NEW s \in Slot, StatementFails(s)
      PROVE  OrgInv'
  <2>1. req[s].pc # "idle"
    BY <1>2 DEF StatementFails, Formed, WellFormed
  <2>2. CASE Finish(s)
    BY <1>2, <2>1, <2>2, FinishMoves, QuietMove DEF StatementFails, Saved, Idle, Start
  <2>3. CASE \E item \in req[s].todo : Fail(s, item)
    BY <1>2, <2>3, FailMoves, SavedOnlyByReview, QuietMove DEF StatementFails
  <2>4. QED BY <1>2, <2>2, <2>3 DEF StatementFails
<1>3. ASSUME NEW v \in reviews, RemoveReview(v)
      PROVE  OrgInv'
  <2>1. \A o : o \notin {v.org} => Of(o)' = Of(o)
    BY <1>3 DEF RemoveReview, Of
  <2>2. \A s \in Slot : req[s].org \in {v.org} => s \in shared'
    BY <1>3 DEF RemoveReview, Visiting
  <2>3. QED BY <1>3, <2>1, <2>2, OrgsLose DEF RemoveReview
<1>4. ASSUME NEW a \in Appt, RemoveBooking(a)
      PROVE  OrgInv'
  <2> DEFINE gone == {v \in reviews : v.appt = a}
             hit == {v.org : v \in gone}
  <2>1. \A o : o \notin hit => Of(o)' = Of(o)
    BY <1>4 DEF RemoveBooking, Of
  <2>2. \A s \in Slot : req[s].org \in hit => s \in shared'
    BY <1>4 DEF RemoveBooking, Visiting
  <2>3. QED BY <1>4, <2>1, <2>2, OrgsLose DEF RemoveBooking
<1>5. CASE Crash
  <2>1. \A o : Of(o)' = Of(o)
    BY <1>5 DEF Crash, Of
  <2>2. \A s \in Slot : req'[s].org = None /\ req'[s].pc = "idle"
    BY <1>5 DEF Crash, Idle, Start
  <2>3. \A s \in Slot : Unshared(s)' /\ ~Saved(req[s])'
    BY <2>2 DEF Unshared, Saved
  <2>4. RatingCurrent'
    BY <1>5, <2>1 DEF Crash, OrgInv, RatingCurrent
  <2>5. QED BY <2>3, <2>4 DEF OrgInv
<1>6. CASE UNCHANGED vars
  BY <1>6 DEF vars, OrgInv, Unshared, Saved, RatingCurrent, Of
<1>7. QED BY <1>1, <1>2, <1>3, <1>4, <1>5, <1>6, OrgsBegin, OrgsRead DEF Next

-----------------------------------------------------------------------------
(* The ratings of appointments *)

ApptInv == \A a \in Appt \ disturbed : OneAtATime(a)

\* What a step of others may not change for the requests of appointment a.
LEMMA Elsewhere ==
    ASSUME NEW a \in Appt, OneAtATime(a),
           \A s \in Slot : /\ req'[s].appt = a <=> req[s].appt = a
                           /\ req[s].appt = a => req'[s] = req[s],
           \A v : v.appt = a => (v \in reviews' <=> v \in reviews),
           rating'[a] = rating[a], a \in booked' <=> a \in booked
    PROVE  OneAtATime(a)'
<1>1. Handling(a)' = Handling(a)
  BY DEF Handling
<1>2. (Reviewed(a)' <=> Reviewed(a)) /\ (Rated(a)' <=> Rated(a))
  BY DEF Reviewed, Rated
<1>3. ASSUME NEW s \in Handling(a)
      PROVE  Underway(s, a)'
  <2>1. req'[s] = req[s] /\ Underway(s, a)
    BY DEF Handling, OneAtATime
  <2>2. QED BY <1>2, <2>1 DEF Underway
<1>4. QED BY <1>1, <1>2, <1>3 DEF OneAtATime

\* The step of the only request of its appointment.
LEMMA OwnMove ==
    ASSUME TypeOK, Formed, NEW s \in Slot, NEW r, Moves(s, r),
           NEW a \in Appt, a = req[s].appt, OneAtATime(a),
           r = Idle => Rated(a)',
           r # Idle => Underway(s, a)'
    PROVE  OneAtATime(a)'
<1>1. req'[s] = r /\ \A t \in Slot \ {s} : req'[t] = req[t]
  BY MovesFormed
<1>2. a # None /\ s \in Handling(a)
  BY ReviewsAssumption DEF Handling
<1>3. Handling(a) = {s}
  BY <1>2 DEF OneAtATime
<1>4. CASE r = Idle
  <2>1. Handling(a)' = {}
    BY <1>1, <1>2, <1>3, <1>4 DEF Handling, Idle, Start
  <2>2. QED BY <1>4, <2>1 DEF OneAtATime
<1>5. CASE r # Idle
  <2>1. Handling(a)' = {s}
    BY <1>1, <1>2, <1>3, <1>5 DEF Handling, Moves
  <2>2. QED BY <1>5, <2>1 DEF OneAtATime
<1>6. QED BY <1>4, <1>5

\* The appointments are in order when the one of the moving slot is, and the step
\* changes nothing of another.
LEMMA ApptsMove ==
    ASSUME TypeOK, Formed, NEW s \in Slot, NEW r, Moves(s, r),
           NEW b \in Appt, b = req[s].appt,
           ApptInv, disturbed \subseteq disturbed',
           \A v : v.appt # b => (v \in reviews' <=> v \in reviews),
           \A a \in Appt \ {b} :
              rating'[a] = rating[a] /\ (a \in booked' <=> a \in booked),
           b \notin disturbed' => (r = Idle => Rated(b)') /\ (r # Idle => Underway(s, b)')
    PROVE  ApptInv'
<1>1. req'[s] = r /\ \A t \in Slot \ {s} : req'[t] = req[t]
  BY MovesFormed
<1>2. r.appt = None \/ r.appt = b
  BY DEF Moves, Idle, Start
<1>3. ASSUME NEW a \in Appt \ disturbed', a # b
      PROVE  OneAtATime(a)'
  <2>1. OneAtATime(a) /\ a # None
    BY ReviewsAssumption DEF ApptInv
  <2>2. \A t \in Slot : /\ req'[t].appt = a <=> req[t].appt = a
                        /\ req[t].appt = a => req'[t] = req[t]
    BY <1>1, <1>2, <1>3, <2>1
  <2>3. QED BY <1>3, <2>1, <2>2, Elsewhere
<1>4. b \notin disturbed' => OneAtATime(b)'
  BY OwnMove DEF ApptInv
<1>5. QED BY <1>3, <1>4 DEF ApptInv

LEMMA ApptsCheck ==
    ASSUME TypeOK, Formed, ApptInv, NEW s \in Slot, CheckExisting(s)
    PROVE  ApptInv'
<1>1. PICK b \in Appt : b = req[s].appt
  BY DEF CheckExisting, Formed, WellFormed
<1>2. b \notin disturbed => Underway(s, b)
  BY <1>1 DEF ApptInv, OneAtATime, Handling
<1>3. CASE Reviewed(b)
  <2>1. Moves(s, Idle)
    BY <1>1, <1>3, FinishMoves DEF CheckExisting
  <2>2. b \notin disturbed' => Rated(b)'
    BY <1>1, <1>2 DEF CheckExisting, Underway, Rated
  <2>3. QED BY <1>1, <2>1, <2>2, ApptsMove DEF CheckExisting
<1>4. CASE ~Reviewed(b)
  <2> DEFINE r == [req[s] EXCEPT !.pc = "appointment"]
  <2>1. Moves(s, r)
    BY <1>1, <1>4, GotoMoves DEF CheckExisting, Goto
  <2>2. r.pc = "appointment" /\ r.todo = {}
    BY DEF Formed, Request, CheckExisting, WellFormed
  <2>3. req'[s] = r
    BY <2>1, MovesFormed
  <2>4. Underway(s, b)'
    BY <1>4, <2>2, <2>3 DEF Underway, CheckExisting, Reviewed
  <2>5. r # Idle
    BY <2>2 DEF Idle, Start
  <2>6. QED BY <1>1, <2>1, <2>4, <2>5, ApptsMove DEF CheckExisting
<1>5. QED BY <1>3, <1>4

LEMMA ApptsFind ==
    ASSUME TypeOK, Formed, ApptInv, NEW s \in Slot, FindAppointment(s)
    PROVE  ApptInv'
<1>1. PICK b \in Appt : b = req[s].appt
  BY DEF FindAppointment, Formed, WellFormed
<1>2. b \notin disturbed => ~Reviewed(b)
  BY <1>1 DEF FindAppointment, ApptInv, OneAtATime, Handling, Underway
<1>3. UNCHANGED <<booked, rating, reviews, disturbed>>
  BY DEF FindAppointment
<1>4. CASE b \notin booked
  <2>1. Moves(s, Idle)
    BY <1>1, <1>4, FinishMoves DEF FindAppointment
  <2>2. b \notin disturbed' => Rated(b)'
    BY <1>2, <1>3 DEF Reviewed, Rated
  <2>3. QED BY <1>1, <1>3, <2>1, <2>2, ApptsMove
<1>5. CASE b \in booked
  <2> DEFINE r == [req[s] EXCEPT !.pc = "both", !.todo = {"review", "rating"}]
  <2>1. req' = [req EXCEPT ![s] = r] /\ req[s].pc = "appointment"
    BY <1>1, <1>5 DEF FindAppointment, Formed, Request
  <2>2. Moves(s, r)
    BY <2>1, GotoMoves
  <2>3. r.pc = "both" /\ r.todo = {"review", "rating"}
    BY DEF Formed, Request
  <2>4. req'[s] = r
    BY <2>2, MovesFormed
  <2>5. b \notin disturbed' => Underway(s, b)'
    BY <1>2, <1>3, <1>5, <2>3, <2>4 DEF Underway, Reviewed
  <2>6. r # Idle
    BY <2>3 DEF Idle, Start
  <2>7. QED BY <1>1, <1>3, <2>2, <2>5, <2>6, ApptsMove
<1>6. QED BY <1>4, <1>5

\* What a slot alone with its appointment knows before one of the two writes.
LEMMA Writing ==
    ASSUME Formed, ApptInv, NEW s \in Slot, NEW b \in Appt \ disturbed,
           b = req[s].appt, NEW item \in req[s].todo
    PROVE  /\ req[s] \in Request
           /\ req[s].pc = "both" /\ req[s].todo \subseteq {"review", "rating"}
           /\ b \in booked /\ Underway(s, b)
<1>1. Underway(s, b) /\ req[s] \in Request /\ WellFormed(req[s])
  BY DEF ApptInv, OneAtATime, Handling, Formed
<1>2. QED BY <1>1 DEF Underway, WellFormed, Request

LEMMA ApptsSave ==
    ASSUME TypeOK, Formed, ApptInv, NEW s \in Slot, SaveReview(s)
    PROVE  ApptInv'
<1>1. PICK b \in Appt : b = req[s].appt
  BY DEF SaveReview, Formed, WellFormed
<1>2. UNCHANGED <<booked, rating>> /\ "review" \in req[s].todo
  BY DEF SaveReview
<1>3. CASE /\ b \notin booked \/ Reviewed(b)
           /\ Fail(s, "review")
           /\ disturbed' = disturbed \cup {b}
           /\ UNCHANGED reviews
  BY <1>1, <1>2, <1>3, FailMoves, ApptsMove
<1>4. CASE /\ b \in booked /\ ~Reviewed(b)
           /\ reviews' = reviews \cup
                 {[appt |-> b, org |-> req[s].org, rating |-> req[s].rating]}
           /\ Settle(s, "review")
           /\ UNCHANGED disturbed
  <2> DEFINE r == Done(req[s], "review")
  <2>0. Moves(s, r)
    BY <1>2, <1>4, DoneMoves
  <2>1. Moves(s, r) /\ req'[s] = r
    BY <2>0, MovesFormed
  <2>2. \A v : v.appt # b => (v \in reviews' <=> v \in reviews)
    BY <1>4
  <2>3. \A v \in reviews' : v.appt = b => v.rating = req[s].rating
    BY <1>4 DEF Reviewed
  <2>4. ASSUME b \notin disturbed'
        PROVE  r # Idle /\ Underway(s, b)'
    <3>1. /\ req[s] \in Request
          /\ req[s].pc = "both" /\ req[s].todo \subseteq {"review", "rating"}
          /\ b \in booked /\ Underway(s, b)
      BY <1>1, <1>2, <1>4, <2>4, Writing
    <3>2. CASE req[s].todo = {"review"}
      <4>1. r.pc = "sum" /\ r.todo = {}
        BY <3>1, <3>2 DEF Done, Request
      <4>2. rating'[b] = req[s].rating
        BY <1>2, <3>1, <3>2 DEF Underway
      <4>3. Rated(b)'
        BY <2>3, <4>2 DEF Rated
      <4>4. QED BY <1>2, <2>1, <3>1, <4>1, <4>3 DEF Underway, Idle, Start
    <3>3. CASE req[s].todo = {"review", "rating"}
      <4>1. r.pc = "both" /\ r.todo = {"rating"} /\ r.rating = req[s].rating
        BY <3>1, <3>3 DEF Done, Request
      <4>2. QED BY <1>2, <2>1, <2>3, <3>1, <4>1 DEF Underway, Idle, Start
    <3>4. QED BY <1>2, <3>1, <3>2, <3>3
  <2>5. QED BY <1>1, <1>2, <1>4, <2>1, <2>2, <2>4, ApptsMove
<1>5. QED BY <1>1, <1>3, <1>4 DEF SaveReview

LEMMA ApptsRate ==
    ASSUME TypeOK, Formed, ApptInv, NEW s \in Slot, RateAppointment(s)
    PROVE  ApptInv'
<1>1. PICK b \in Appt : b = req[s].appt
  BY DEF RateAppointment, Formed, WellFormed
<1>2. /\ UNCHANGED <<booked, reviews, disturbed>>
      /\ "rating" \in req[s].todo /\ Settle(s, "rating")
      /\ rating' = [rating EXCEPT ![b] = IF b \in booked THEN req[s].rating ELSE None]
  BY <1>1 DEF RateAppointment
<1> DEFINE r == Done(req[s], "rating")
<1>3. Moves(s, r) /\ req'[s] = r
  BY <1>2, DoneMoves, MovesFormed
<1>4. \A a \in Appt \ {b} : rating'[a] = rating[a]
  BY <1>2 DEF TypeOK
<1>5. ASSUME b \notin disturbed'
      PROVE  r # Idle /\ Underway(s, b)'
  <2>1. /\ req[s] \in Request
        /\ req[s].pc = "both" /\ req[s].todo \subseteq {"review", "rating"}
        /\ b \in booked /\ Underway(s, b)
    BY <1>1, <1>2, <1>5, Writing
  <2>2. rating'[b] = req[s].rating
    BY <1>2, <2>1 DEF TypeOK
  <2>3. CASE req[s].todo = {"rating"}
    <3>1. r.pc = "sum" /\ r.todo = {}
      BY <2>1, <2>3 DEF Done, Request
    <3>2. Rated(b)'
      BY <1>2, <2>1, <2>2, <2>3 DEF Underway, Rated
    <3>3. QED BY <1>2, <1>3, <2>1, <3>1, <3>2 DEF Underway, Idle, Start
  <2>4. CASE req[s].todo = {"review", "rating"}
    <3>1. r.pc = "both" /\ r.todo = {"review"} /\ r.rating = req[s].rating
      BY <2>1, <2>4 DEF Done, Request
    <3>2. ~Reviewed(b)'
      BY <1>2, <2>1, <2>4 DEF Underway, Reviewed
    <3>3. QED BY <1>2, <1>3, <2>1, <2>2, <3>1, <3>2 DEF Underway, Idle, Start
  <2>5. QED BY <1>2, <2>1, <2>3, <2>4
<1>6. QED BY <1>1, <1>2, <1>3, <1>4, <1>5, ApptsMove

LEMMA ApptsSum ==
    ASSUME TypeOK, Formed, ApptInv, NEW s \in Slot, SumReviews(s)
    PROVE  ApptInv'
<1>1. PICK b \in Appt : b = req[s].appt
  BY DEF SumReviews, Formed, WellFormed
<1>2. UNCHANGED <<booked, rating, reviews, disturbed>> /\ req[s].pc = "sum"
  BY DEF SumReviews
<1> DEFINE r == [req[s] EXCEPT !.pc = "publish", !.sum = Of(req[s].org)]
<1>3. Moves(s, r) /\ req'[s] = r
  BY SumMoves, MovesFormed DEF TypeOK
<1>4. r.pc = "publish" /\ r.todo = {}
  BY <1>2 DEF Formed, Request, WellFormed
<1>5. b \notin disturbed => Underway(s, b)
  BY <1>1 DEF ApptInv, OneAtATime, Handling
<1>6. b \notin disturbed' => Underway(s, b)'
  BY <1>2, <1>3, <1>4, <1>5 DEF Underway, Rated
<1>7. r # Idle
  BY <1>4 DEF Idle, Start
<1>8. QED BY <1>1, <1>2, <1>3, <1>6, <1>7, ApptsMove

LEMMA ApptsPublish ==
    ASSUME TypeOK, Formed, ApptInv, NEW s \in Slot, PublishRating(s)
    PROVE  ApptInv'
<1>1. PICK b \in Appt : b = req[s].appt
  BY DEF PublishRating, Formed, WellFormed
<1>2. /\ UNCHANGED <<booked, rating, reviews>> /\ req[s].pc = "publish" /\ Finish(s)
      /\ disturbed \subseteq disturbed'
  BY DEF PublishRating
<1>3. Moves(s, Idle)
  BY <1>2, FinishMoves
<1>4. b \notin disturbed' => Rated(b)'
  BY <1>1, <1>2 DEF ApptInv, OneAtATime, Handling, Underway, Rated
<1>5. QED BY <1>1, <1>2, <1>3, <1>4, ApptsMove

LEMMA ApptsEdit ==
    ASSUME TypeOK, Formed, ApptInv, NEW s \in Slot, SaveBooking(s)
    PROVE  ApptInv'
<1>1. PICK b \in Appt : b = req[s].appt
  BY DEF SaveBooking, Formed, WellFormed
<1>2. UNCHANGED <<reviews, disturbed>> /\ req[s].pc = "edit" /\ Finish(s)
  BY DEF SaveBooking
<1>3. Moves(s, Idle)
  BY <1>2, FinishMoves
<1>4. \A a \in Appt \ {b} : rating'[a] = rating[a] /\ (a \in booked' <=> a \in booked)
  BY <1>1 DEF SaveBooking, TypeOK
<1>5. b \notin disturbed => Rated(b) /\ req[s].rating = rating[b]
  BY <1>1, <1>2 DEF ApptInv, OneAtATime, Handling, Underway
<1>6. b \notin disturbed => rating'[b] = rating[b]
  BY <1>1, <1>5 DEF SaveBooking, TypeOK
<1>7. b \notin disturbed' => Rated(b)'
  BY <1>2, <1>5, <1>6 DEF Rated
<1>8. QED BY <1>1, <1>2, <1>3, <1>4, <1>7, ApptsMove

\* A request that has written nothing leaves its appointment rated.
LEMMA IdleTablesKept ==
    ASSUME Formed, ApptInv, UNCHANGED <<rating, reviews>>,
           NEW s \in Slot, NEW b \in Appt \ disturbed, b = req[s].appt, ~Midway(s)
    PROVE  Rated(b)'
<1>1. Underway(s, b) /\ req[s].pc \in {"existing", "appointment", "edit"}
  BY ReviewsAssumption DEF ApptInv, OneAtATime, Handling, Midway, Formed, WellFormed,
                           Request, Idle, Start
<1>2. Rated(b)
  BY <1>1 DEF Underway, Reviewed, Rated
<1>3. QED BY <1>2 DEF Rated

LEMMA ApptsFail ==
    ASSUME TypeOK, Formed, ApptInv, NEW s \in Slot, StatementFails(s)
    PROVE  ApptInv'
<1>1. PICK b \in Appt : b = req[s].appt
  BY DEF StatementFails, Formed, WellFormed
<1>2. /\ UNCHANGED <<booked, rating, reviews>> /\ disturbed \subseteq disturbed'
      /\ req[s].pc # "idle"
      /\ b \notin disturbed' => ~Midway(s) /\ b \notin disturbed
  BY <1>1 DEF StatementFails, Formed, WellFormed
<1>3. CASE Finish(s)
  <2>1. Moves(s, Idle)
    BY <1>2, <1>3, FinishMoves
  <2>2. b \notin disturbed' => Rated(b)'
    BY <1>1, <1>2, IdleTablesKept
  <2>3. QED BY <1>1, <1>2, <2>1, <2>2, ApptsMove
<1>4. CASE \E item \in req[s].todo : Fail(s, item)
  <2>1. PICK item \in req[s].todo : Fail(s, item)
    BY <1>4
  <2>2. b \in disturbed'
    BY <1>1, <2>1 DEF StatementFails, Midway, Formed, WellFormed
  <2>3. QED BY <1>1, <1>2, <2>1, <2>2, FailMoves, ApptsMove
<1>5. QED BY <1>3, <1>4 DEF StatementFails

\* A request arrives at appointment b.
LEMMA ApptsMeet ==
    ASSUME TypeOK, Formed, ApptInv, NEW s \in Slot, NEW b \in Appt, NEW r,
           req[s] = Idle, req' = [req EXCEPT ![s] = r],
           r.appt = b, r.pc \in {"existing", "edit"}, r.todo = {},
           r.pc = "edit" => r.rating = rating[b],
           UNCHANGED <<booked, rating, reviews>>, Meet(b)
    PROVE  ApptInv'
<1>1. req'[s] = r /\ \A t \in Slot \ {s} : req'[t] = req[t]
  BY DEF TypeOK
<1>2. \A a \in Appt : req[s].appt # a
  BY ReviewsAssumption DEF Idle, Start
<1>3. ASSUME NEW a \in Appt \ disturbed'
      PROVE  OneAtATime(a)'
  <2>1. OneAtATime(a) /\ a \notin disturbed
    BY DEF ApptInv, Meet
  <2>2. CASE a = b
    <3>1. Handling(a) = {} /\ Rated(a)
      BY <1>3, <2>1, <2>2 DEF Meet, OneAtATime
    <3>2. Handling(a)' = {s} /\ Rated(a)'
      BY <1>1, <2>2, <3>1 DEF Handling, Rated
    <3>3. Underway(s, a)'
      BY <1>1, <2>2, <3>2 DEF Underway
    <3>4. QED BY <3>2, <3>3 DEF OneAtATime
  <2>3. CASE a # b
    <3>1. \A t \in Slot : /\ req'[t].appt = a <=> req[t].appt = a
                          /\ req[t].appt = a => req'[t] = req[t]
      BY <1>1, <1>2, <2>3
    <3>2. QED BY <2>1, <3>1, Elsewhere
  <2>4. QED BY <2>2, <2>3
<1>4. QED BY <1>3 DEF ApptInv

LEMMA ApptsRemoveReview ==
    ASSUME ApptInv, NEW v \in reviews, RemoveReview(v)
    PROVE  ApptInv'
<1>1. UNCHANGED <<booked, rating, req, disturbed>> /\ reviews' \subseteq reviews
  BY DEF RemoveReview
<1>2. ASSUME NEW a \in Appt \ disturbed
      PROVE  OneAtATime(a)'
  <2>1. OneAtATime(a) /\ Handling(a)' = Handling(a)
    BY <1>1 DEF ApptInv, Handling
  <2>2. (Rated(a) => Rated(a)') /\ (~Reviewed(a) => ~Reviewed(a)')
    BY <1>1 DEF Rated, Reviewed
  <2>3. \A s \in Handling(a) : Underway(s, a) => Underway(s, a)'
    BY <1>1, <2>2 DEF Underway
  <2>4. QED BY <2>1, <2>2, <2>3 DEF OneAtATime
<1>3. QED BY <1>1, <1>2 DEF ApptInv

LEMMA ApptsRemoveBooking ==
    ASSUME TypeOK, ApptInv, NEW b \in Appt, RemoveBooking(b)
    PROVE  ApptInv'
<1>1. /\ booked' = booked \ {b} /\ Meet(b) /\ UNCHANGED req
      /\ reviews' = reviews \ {v \in reviews : v.appt = b}
      /\ \A a \in Appt \ {b} : rating'[a] = rating[a]
  BY DEF RemoveBooking, TypeOK
<1>2. ASSUME NEW a \in Appt \ disturbed'
      PROVE  OneAtATime(a)'
  <2>1. OneAtATime(a) /\ a \notin disturbed
    BY <1>1 DEF ApptInv, Meet
  <2>2. CASE a = b
    <3>1. Handling(a)' = {}
      BY <1>1, <1>2, <2>1, <2>2 DEF Meet, Handling
    <3>2. Rated(a)'
      BY <1>1, <2>2 DEF Rated
    <3>3. QED BY <3>1, <3>2 DEF OneAtATime
  <2>3. CASE a # b
    BY <1>1, <2>1, <2>3, Elsewhere
  <2>4. QED BY <2>2, <2>3
<1>3. QED BY <1>2 DEF ApptInv

LEMMA ApptsCrash ==
    ASSUME TypeOK, Formed, ApptInv, Crash
    PROVE  ApptInv'
<1>1. /\ UNCHANGED <<booked, rating, reviews>>
      /\ req' = [s \in Slot |-> Idle]
      /\ disturbed' = disturbed \cup {req[s].appt : s \in {t \in Slot : Midway(t)}}
  BY DEF Crash
<1>2. ASSUME NEW a \in Appt \ disturbed'
      PROVE  OneAtATime(a)'
  <2>1. OneAtATime(a) /\ a \notin disturbed
    BY <1>1 DEF ApptInv
  <2>2. Handling(a)' = {}
    BY <1>1, ReviewsAssumption DEF Handling, Idle, Start
  <2>3. CASE Handling(a) = {}
    BY <1>1, <2>1, <2>2, <2>3 DEF OneAtATime, Rated
  <2>4. ASSUME NEW s \in Handling(a)
        PROVE  Rated(a)'
    <3>1. s \in Slot /\ a = req[s].appt /\ ~Midway(s)
      BY <1>1, <1>2 DEF Handling
    <3>2. QED BY <1>1, <2>1, <3>1, IdleTablesKept
  <2>5. QED BY <2>2, <2>3, <2>4 DEF OneAtATime
<1>3. QED BY <1>2 DEF ApptInv

LEMMA NextAppts ==
    ASSUME TypeOK, Formed, ApptInv, [Next]_vars
    PROVE  ApptInv'
<1>1. ASSUME NEW s \in Slot, NEW a \in Appt, NEW o \in Org, NEW r \in Rating,
             BeginCreate(s, a, o, r)
      PROVE  ApptInv'
  <2> DEFINE q == Start("existing", a, o, r)
  <2>1. q.appt = a /\ q.pc = "existing" /\ q.todo = {}
    BY DEF Start
  <2>2. /\ req[s] = Idle /\ req' = [req EXCEPT ![s] = q]
        /\ UNCHANGED <<booked, rating, reviews>> /\ Meet(a)
    BY <1>1 DEF BeginCreate
  <2> HIDE DEF q
  <2>3. QED BY <2>1, <2>2, ApptsMeet
<1>2. ASSUME NEW s \in Slot, NEW a \in Appt, ReadBooking(s, a)
      PROVE  ApptInv'
  <2> DEFINE q == Start("edit", a, None, rating[a])
  <2>1. q.appt = a /\ q.pc = "edit" /\ q.todo = {} /\ q.rating = rating[a]
    BY DEF Start
  <2>2. /\ req[s] = Idle /\ req' = [req EXCEPT ![s] = q]
        /\ UNCHANGED <<booked, rating, reviews>> /\ Meet(a)
    BY <1>2 DEF ReadBooking
  <2> HIDE DEF q
  <2>3. QED BY <2>1, <2>2, ApptsMeet
<1>3. ASSUME NEW s \in Slot, Step(s)
      PROVE  ApptInv'
  BY <1>3, ApptsCheck, ApptsFind, ApptsSave, ApptsRate, ApptsSum, ApptsPublish, ApptsEdit
     DEF Step
<1>4. CASE UNCHANGED vars
  BY <1>4 DEF vars, ApptInv, OneAtATime, Handling, Underway, Rated, Reviewed
<1>5. QED BY <1>1, <1>2, <1>3, <1>4, ApptsFail, ApptsRemoveReview, ApptsRemoveBooking,
             ApptsCrash DEF Next

-----------------------------------------------------------------------------
(* One review per appointment, as long as it lasts *)

LEMMA NextKeyed ==
    ASSUME TypeOK, Formed, Keyed, [Next]_vars
    PROVE  Keyed'
<1>1. ASSUME NEW s \in Slot, SaveReview(s)
      PROVE  Keyed'
  BY <1>1 DEF SaveReview, Keyed, Reviewed
<1>2. ASSUME NEW s \in Slot, SaveBooking(s)
      PROVE  Keyed'
  BY <1>2 DEF SaveBooking, Keyed
<1>3. ASSUME NEW v \in reviews, RemoveReview(v)
      PROVE  Keyed'
  BY <1>3 DEF RemoveReview, Keyed
<1>4. ASSUME NEW a \in Appt, RemoveBooking(a)
      PROVE  Keyed'
  BY <1>4 DEF RemoveBooking, Keyed
<1>5. CASE UNCHANGED <<booked, reviews>>
  BY <1>5 DEF Keyed
<1>6. ASSUME NEW s \in Slot,
             \/ \E a \in Appt, o \in Org, r \in Rating : BeginCreate(s, a, o, r)
             \/ \E a \in Appt : ReadBooking(s, a)
             \/ CheckExisting(s) \/ FindAppointment(s) \/ RateAppointment(s)
             \/ SumReviews(s) \/ PublishRating(s) \/ StatementFails(s)
      PROVE  UNCHANGED <<booked, reviews>>
  BY <1>6 DEF BeginCreate, ReadBooking, CheckExisting, FindAppointment, RateAppointment,
              SumReviews, PublishRating, StatementFails
<1>7. Crash \/ UNCHANGED vars => UNCHANGED <<booked, reviews>>
  BY DEF Crash, vars
<1>8. QED BY <1>1, <1>2, <1>3, <1>4, <1>5, <1>6, <1>7 DEF Next, Step

-----------------------------------------------------------------------------
(* The theorems *)

LEMMA RInvParts == RInv <=> TypeOK /\ Formed /\ Keyed /\ OrgInv /\ ApptInv
  BY DEF RInv, TypeOK, Formed, OrgInv, ApptInv

LEMMA InitRInv == Init => RInv
<1> SUFFICES ASSUME Init PROVE RInv
  OBVIOUS
<1> USE DEF Init
<1>1. TypeOK /\ Formed
  BY IdleFormed DEF TypeOK, Formed
<1>2. Keyed
  BY DEF Keyed
<1>3. OrgInv
  BY DEF OrgInv, Unshared, Saved, RatingCurrent, Idle, Start
<1>4. ApptInv
  BY ReviewsAssumption DEF ApptInv, OneAtATime, Handling, Rated, Idle, Start
<1>5. QED BY <1>1, <1>2, <1>3, <1>4, RInvParts

LEMMA NextRInv == RInv /\ [Next]_vars => RInv'
<1> SUFFICES ASSUME RInv, [Next]_vars PROVE RInv'
  OBVIOUS
<1>1. TypeOK /\ Formed /\ Keyed /\ OrgInv /\ ApptInv
  BY RInvParts
<1>2. TypeOK' /\ Formed' /\ Keyed' /\ OrgInv' /\ ApptInv'
  BY <1>1, NextTypes, NextFormed, NextKeyed, NextOrgs, NextAppts
<1>3. QED BY <1>2 DEF RInv, Formed, OrgInv, ApptInv

\* In every behaviour of create, remove and the handlers of appointments, with
\* any failures, the invariant RInv holds.
THEOREM ReviewsInvariant == Spec => []RInv
  BY InitRInv, NextRInv, PTL DEF Spec

\* Every variable of the model of OrgReviewsService keeps its type.
THEOREM ReviewsTypes == Spec => []TypeOK
<1>1. RInv => TypeOK
  BY DEF RInv
<1>2. QED BY <1>1, ReviewsInvariant, PTL

\* updateOrgRating, run by a create alone with its organization, leaves the
\* rating of exactly its reviews, until a review of it comes or goes.
THEOREM OrgRatings == Spec => []RatingCurrent
<1>1. RInv => RatingCurrent
  BY DEF RInv
<1>2. QED BY <1>1, ReviewsInvariant, PTL

\* The review and the rating of an appointment, which create writes at the same
\* time, agree when no handler of it overlapped with another or stopped midway.
THEOREM AppointmentRatings == Spec => []AppointmentRated
<1>1. RInv => AppointmentRated
  BY DEF RInv, OneAtATime, AppointmentRated
<1>2. QED BY <1>1, ReviewsInvariant, PTL

=============================================================================
