----------------------------- MODULE Onboarding -----------------------------
(***************************************************************************)
(* How an organization comes to be and opens to the public: AuthService    *)
(* .createOrganization with the listener it starts, the opening hours      *)
(* (OrgScheduleService, PublicationService.updateManySchedule), the        *)
(* profile and its publication (PublicationService), and MembersService    *)
(* create, update and remove, rivals for an e-mail address; over the       *)
(* tables organization, member and org_schedule.                           *)
(*                                                                         *)
(* A slot is one HTTP request; each await on the database ends a step.     *)
(* The transaction of updateManySchedule holds none of its statements,     *)
(* which go through other connections.                                     *)
(*                                                                         *)
(* Data: of the opening hours the number of rows of each day is kept and   *)
(* not the times, so an update of the times of one row changes nothing,    *)
(* and a body may name a day twice, which nothing keeps it from; a         *)
(* slug, made from a fresh UUID, is named after the slot that made it; of  *)
(* what an update of a member may change, the e-mail.                      *)
(***************************************************************************)
EXTENDS Naturals

CONSTANTS
    Org,       \* ids of organizations; each is handed out once, which bounds a run
    Served,    \* the organizations whose staff send requests
    Email,     \* e-mail addresses
    Member,    \* ids of members; one that has left no trace is handed out again
    Day,       \* days of the week
    Bodies,    \* the multisets of days a body of opening hours may name
    Default,   \* the days of defaultScheduleData
    Details,   \* what a profile needs besides its address
    Slot,      \* the requests that can be in flight at the same time
    Ops,       \* the operations clients call
    Faulty,    \* whether statements may fail and the process may die
    None

ASSUME OnboardingAssumption ==
    /\ Served \subseteq Org
    /\ Default \subseteq Day
    /\ "address" \notin Details
    /\ Bodies \subseteq [Day -> Nat]
    /\ Ops \subseteq {"register", "addMember", "updateMember", "removeMember", "createHour",
                      "removeHour", "updateHours", "reopen", "locate", "describe", "publish",
                      "removeOrg"}
    /\ Faulty \in BOOLEAN
    /\ None \notin Org \cup Email \cup Member \cup Slot

VARIABLES
    orgs,       \* organization
    members,    \* member
    hours,      \* org_schedule: how many rows each day of an organization has
    listening,  \* the organizations whose default hours are being saved
    used,       \* the ids handed out
    req,        \* what each slot is doing
    \* History variables: no action reads them.
    asked,      \* the rows of each day an organization was last asked to have
    blurred     \* what of an organization requests that overlapped, or one
                \* that stopped midway, have left as nobody asked

vars == <<orgs, members, hours, listening, used, req, asked, blurred>>

\* What publishing asks for besides the name, which is there from the start.
Parts == Details \cup {"address"}

OrgRow == [email : Email, profile : SUBSET Parts, slug : Slot \cup {None},
           published : BOOLEAN]

MemberRow == [email : Email, org : Org, root : BOOLEAN]

ASSUME NoneAssumption == None \notin OrgRow \cup MemberRow

\* Multisets of days: rows of the table, or schedules of a body.
Days == [Day -> Nat]
Closed == [d \in Day |-> 0]
Once(D) == [d \in Day |-> IF d \in D THEN 1 ELSE 0]
Plus(h, k) == [d \in Day |-> h[d] + k[d]]

Request ==
    [pc     : {"idle", "organization", "member", "add", "change", "hour", "begin", "clear",
               "refill", "commit", "locate", "publish"},
     org    : Org \cup {None},
     email  : Email \cup {None},
     member : Member \cup {None},  \* change: the member it has read
     root   : BOOLEAN,             \* change: whether that is an owner
     days   : Days,
     slug   : Slot \cup {None},    \* locate: the slug it has read
     tx     : BOOLEAN,             \* it has opened a transaction
     raced  : BOOLEAN]             \* history: its e-mail was taken after its check

Idle == [pc |-> "idle", org |-> None, email |-> None, member |-> None, root |-> FALSE,
         days |-> Closed, slug |-> None, tx |-> FALSE, raced |-> FALSE]

Init ==
    /\ orgs = [o \in Org |-> None]
    /\ members = [m \in Member |-> None]
    /\ hours = [o \in Org |-> Closed]
    /\ listening = {}
    /\ used = {}
    /\ req = [s \in Slot |-> Idle]
    /\ asked = [o \in Org |-> Closed]
    /\ blurred = [o \in Org |-> {}]

-----------------------------------------------------------------------------
(* Helpers *)

Become(s, r) == req' = [req EXCEPT ![s] = r]
Goto(s, pc) == Become(s, [req[s] EXCEPT !.pc = pc])
Exists(o) == orgs[o] # None

\* Somebody can log in and send requests for the organization.  The tokens of
\* one that has been removed get nothing done: there are no rows to change.
Staffed(o) == o \in Served /\ \E m \in Member : members[m] # None /\ members[m].org = o

\* The unique e-mail of a member other than m.
TakenBut(m, e) == \E n \in Member \ {m} : members[n] # None /\ members[n].email = e
Taken(e) == TakenBut(None, e)

\* An id of no member, which no request has read.
Fresh(m) == members[m] = None /\ \A t \in Slot : req[t].member # m

\* The slot ends with a save that takes an e-mail, maybe from a registration
\* that has found it free.
Take(s, e) ==
    req' = [t \in Slot |->
              IF t = s THEN Idle
              ELSE IF req[t].pc \in {"organization", "member"} /\ req[t].email = e
                THEN [req[t] EXCEPT !.raced = TRUE]
              ELSE req[t]]

\* Requests between the first and the last statement of a change.
At(o, pcs) == {s \in Slot : req[s].pc \in pcs /\ req[s].org = o}
HoursBusy(o) == o \in listening \/ At(o, {"hour", "refill"}) # {}

Blur(o, what) == blurred' = [blurred EXCEPT ![o] = @ \cup {what}]
BlurIf(condition, o, what) ==
    IF condition THEN Blur(o, what) ELSE UNCHANGED blurred

-----------------------------------------------------------------------------
(* AuthService.createOrganization and its listener *)

\* Mutant: whether the e-mail is taken is not looked up.
CheckEmailSkipped(s, e) ==
    /\ "register" \in Ops
    /\ req[s] = Idle
    /\ Become(s, [Idle EXCEPT !.pc = "organization", !.email = e])
    /\ UNCHANGED <<orgs, members, hours, listening, used, asked, blurred>>

\* A member's e-mail is refused.
CheckEmail(s, e) ==
    /\ "register" \in Ops
    /\ req[s] = Idle
    /\ ~Taken(e)
    /\ Become(s, [Idle EXCEPT !.pc = "organization", !.email = e])
    /\ UNCHANGED <<orgs, members, hours, listening, used, asked, blurred>>

\* The organization is saved first; its e-mail is unique.
SaveOrganization(s) ==
    LET e == req[s].email IN
    /\ req[s].pc = "organization"
    /\ \/ \E o \in Org \ used :
             /\ \A p \in Org : Exists(p) => orgs[p].email # e
             /\ orgs' = [orgs EXCEPT ![o] = [email |-> e, profile |-> {}, slug |-> None,
                                             published |-> FALSE]]
             /\ used' = used \cup {o}
             /\ Become(s, [req[s] EXCEPT !.pc = "member", !.org = o])
       \/ /\ \E p \in Org : Exists(p) /\ orgs[p].email = e
          /\ Become(s, Idle)
          /\ UNCHANGED <<orgs, used>>
    /\ UNCHANGED <<members, hours, listening, asked, blurred>>

\* Then its owner, and organization.created is emitted; an e-mail taken since
\* leaves an organization that nobody owns.
SaveOwner(s) ==
    LET o == req[s].org
        e == req[s].email IN
    /\ req[s].pc = "member"
    /\ \/ /\ ~Taken(e)
          /\ \E m \in Member :
                /\ Fresh(m)
                /\ members' = [members EXCEPT ![m] = [email |-> e, org |-> o, root |-> TRUE]]
          /\ listening' = listening \cup {o}
          /\ asked' = [asked EXCEPT ![o] = Once(Default)]
          /\ Take(s, e)
          /\ UNCHANGED blurred
       \/ /\ Taken(e)
          /\ BlurIf(req[s].raced, o, "owner")
          /\ Become(s, Idle)
          /\ UNCHANGED <<members, listening, asked>>
    /\ UNCHANGED <<orgs, hours, used>>

\* createMany, which nobody awaits.
SaveDefaultHours(o) ==
    /\ o \in listening
    /\ Exists(o)
    /\ hours' = [hours EXCEPT ![o] = Plus(@, Once(Default))]
    /\ listening' = listening \ {o}
    /\ UNCHANGED <<orgs, members, used, req, asked, blurred>>

-----------------------------------------------------------------------------
(* MembersService.create, update and remove *)

CheckMember(s, o, e) ==
    /\ "addMember" \in Ops
    /\ req[s] = Idle
    /\ Staffed(o)
    /\ ~Taken(e)
    /\ Become(s, [Idle EXCEPT !.pc = "add", !.org = o, !.email = e])
    /\ UNCHANGED <<orgs, members, hours, listening, used, asked, blurred>>

SaveMember(s) ==
    LET e == req[s].email
        o == req[s].org IN
    /\ req[s].pc = "add"
    /\ \/ /\ ~Taken(e) /\ Exists(o)
          /\ \E m \in Member :
                /\ Fresh(m)
                /\ members' = [members EXCEPT ![m] = [email |-> e, org |-> o, root |-> FALSE]]
          /\ Take(s, e)
       \/ /\ Taken(e) \/ ~Exists(o)
          /\ Become(s, Idle)
          /\ UNCHANGED members
    /\ UNCHANGED <<orgs, hours, listening, used, asked, blurred>>

\* update reads a member of whichever organization, by id, and assigns the
\* body, which may have an e-mail or none.
ReadMember(s, m, e) ==
    /\ "updateMember" \in Ops
    /\ req[s] = Idle
    /\ \E p \in Org : Staffed(p)
    /\ members[m] # None
    /\ Become(s, [Idle EXCEPT !.pc = "change", !.member = m, !.org = members[m].org,
                             !.root = members[m].root,
                             !.email = IF e = None THEN members[m].email ELSE e])
    /\ UNCHANGED <<orgs, members, hours, listening, used, asked, blurred>>

\* The save of the entity: nobody has looked whether the e-mail is taken, one
\* changed since is changed back, and a member removed since is inserted again.
SaveChanges(s) ==
    LET m == req[s].member
        e == req[s].email
        o == req[s].org IN
    /\ req[s].pc = "change"
    /\ \/ /\ ~TakenBut(m, e) /\ Exists(o)
          /\ members' = [members EXCEPT ![m] = [email |-> e, org |-> o, root |-> req[s].root]]
          /\ Take(s, e)
       \/ /\ TakenBut(m, e) \/ ~Exists(o)
          /\ Become(s, Idle)
          /\ UNCHANGED members
    /\ UNCHANGED <<orgs, hours, listening, used, asked, blurred>>

\* Mutant: remove does not spare the owner.
RemoveAnyMember(o, m) ==
    /\ "removeMember" \in Ops
    /\ Staffed(o)
    /\ members[m] # None /\ members[m].org = o
    /\ members' = [members EXCEPT ![m] = None]
    /\ UNCHANGED <<orgs, hours, listening, used, req, asked, blurred>>

\* remove spares the owner.
RemoveMember(o, m) ==
    /\ "removeMember" \in Ops
    /\ Staffed(o)
    /\ members[m] # None /\ members[m].org = o /\ ~members[m].root
    /\ members' = [members EXCEPT ![m] = None]
    /\ UNCHANGED <<orgs, hours, listening, used, req, asked, blurred>>

-----------------------------------------------------------------------------
(* The opening hours *)

\* OrgScheduleService.create refuses a day that has a row.
CheckHour(s, o, d) ==
    /\ "createHour" \in Ops
    /\ req[s] = Idle
    /\ Staffed(o)
    /\ hours[o][d] = 0
    /\ Become(s, [Idle EXCEPT !.pc = "hour", !.org = o, !.days = Once({d})])
    /\ BlurIf(HoursBusy(o), o, "hours")
    /\ UNCHANGED <<orgs, members, hours, listening, used, asked>>

\* What a save of new rows does, if their organization is still there.
InsertHours(s) ==
    LET o == req[s].org IN
    hours' = IF Exists(o) THEN [hours EXCEPT ![o] = Plus(@, req[s].days)] ELSE hours

SaveHour(s) ==
    /\ req[s].pc = "hour"
    /\ InsertHours(s)
    /\ asked' = [asked EXCEPT ![req[s].org] =
                    [d \in Day |-> IF req[s].days[d] = 0 THEN @[d] ELSE req[s].days[d]]]
    /\ Become(s, Idle)
    /\ UNCHANGED <<orgs, members, listening, used, blurred>>

\* remove deletes the row it is given, whatever checkOwnership answers.
RemoveHour(o, d) ==
    /\ "removeHour" \in Ops
    /\ \E p \in Org : Staffed(p)
    /\ hours[o][d] > 0
    /\ hours' = [hours EXCEPT ![o][d] = @ - 1]
    /\ asked' = [asked EXCEPT ![o][d] = IF @ = 0 THEN 0 ELSE @ - 1]
    /\ UNCHANGED <<orgs, members, listening, used, req, blurred>>

\* updateMany, and updateManySchedule once it has its transaction.
UpdateHours(s, o, body) ==
    /\ req[s] = Idle
    /\ Staffed(o)
    /\ \/ "updateHours" \in Ops /\ Become(s, [Idle EXCEPT !.pc = "clear", !.org = o, !.days = body])
       \/ "reopen" \in Ops /\ Become(s, [Idle EXCEPT !.pc = "begin", !.org = o, !.days = body])
    /\ UNCHANGED <<orgs, members, hours, listening, used, asked, blurred>>

StartTransaction(s) ==
    /\ req[s].pc = "begin"
    /\ Become(s, [req[s] EXCEPT !.pc = "clear", !.tx = TRUE])
    /\ UNCHANGED <<orgs, members, hours, listening, used, asked, blurred>>

\* Mutant: the new hours are added to the old.
ClearHoursNot(s) ==
    /\ req[s].pc = "clear"
    /\ Goto(s, "refill")
    /\ asked' = [asked EXCEPT ![req[s].org] = req[s].days]
    /\ BlurIf(HoursBusy(req[s].org), req[s].org, "hours")
    /\ UNCHANGED <<orgs, members, hours, listening, used>>

ClearHours(s) ==
    /\ req[s].pc = "clear"
    /\ hours' = [hours EXCEPT ![req[s].org] = Closed]
    /\ Goto(s, "refill")
    /\ asked' = [asked EXCEPT ![req[s].org] = req[s].days]
    /\ BlurIf(HoursBusy(req[s].org), req[s].org, "hours")
    /\ UNCHANGED <<orgs, members, listening, used>>

SaveHours(s) ==
    /\ req[s].pc = "refill"
    /\ InsertHours(s)
    /\ Become(s, IF req[s].tx THEN [req[s] EXCEPT !.pc = "commit"] ELSE Idle)
    /\ UNCHANGED <<orgs, members, listening, used, asked, blurred>>

\* Nothing was written in the transaction.
Commit(s) ==
    /\ req[s].pc = "commit"
    /\ Become(s, Idle)
    /\ UNCHANGED <<orgs, members, hours, listening, used, asked, blurred>>

-----------------------------------------------------------------------------
(* The profile and its publication *)

\* updateLocation keeps the slug it finds or makes one.
ReadSlug(s, o) ==
    /\ "locate" \in Ops
    /\ req[s] = Idle
    /\ Staffed(o)
    /\ Exists(o)
    /\ Become(s, [Idle EXCEPT !.pc = "locate", !.org = o, !.slug = orgs[o].slug])
    /\ BlurIf(\E t \in At(o, {"locate"}) : req[t].slug = None, o, "slug")
    /\ UNCHANGED <<orgs, members, hours, listening, used, asked>>

\* Mutant: every change of the location makes a new slug.
UpdateLocationAnew(s) ==
    LET o == req[s].org IN
    /\ req[s].pc = "locate"
    /\ orgs' = IF Exists(o)
                 THEN [orgs EXCEPT ![o].profile = @ \cup {"address"}, ![o].slug = s]
                 ELSE orgs
    /\ Become(s, Idle)
    /\ UNCHANGED <<members, hours, listening, used, asked, blurred>>

UpdateLocation(s) ==
    LET o    == req[s].org
        slug == IF req[s].slug = None THEN s ELSE req[s].slug IN
    /\ req[s].pc = "locate"
    /\ orgs' = IF Exists(o)
                 THEN [orgs EXCEPT ![o].profile = @ \cup {"address"}, ![o].slug = slug]
                 ELSE orgs
    /\ Become(s, Idle)
    /\ UNCHANGED <<members, hours, listening, used, asked, blurred>>

\* updateTypes and uploadImages.
Describe(o, part) ==
    /\ "describe" \in Ops
    /\ Staffed(o)
    /\ Exists(o)
    /\ orgs' = [orgs EXCEPT ![o].profile = @ \cup {part}]
    /\ UNCHANGED <<members, hours, listening, used, req, asked, blurred>>

\* Mutant: the address is not asked for.
CheckProfileLoosely(s, o) ==
    /\ "publish" \in Ops
    /\ req[s] = Idle
    /\ Staffed(o)
    /\ Exists(o)
    /\ Parts \ {"address"} \subseteq orgs[o].profile
    /\ Become(s, [Idle EXCEPT !.pc = "publish", !.org = o])
    /\ UNCHANGED <<orgs, members, hours, listening, used, asked, blurred>>

\* publishOrganization asks for all parts of the profile.
CheckProfile(s, o) ==
    /\ "publish" \in Ops
    /\ req[s] = Idle
    /\ Staffed(o)
    /\ Exists(o)
    /\ Parts \subseteq orgs[o].profile
    /\ Become(s, [Idle EXCEPT !.pc = "publish", !.org = o])
    /\ UNCHANGED <<orgs, members, hours, listening, used, asked, blurred>>

Publish(s) ==
    LET o == req[s].org IN
    /\ req[s].pc = "publish"
    /\ orgs' = IF Exists(o) THEN [orgs EXCEPT ![o].published = TRUE] ELSE orgs
    /\ Become(s, Idle)
    /\ UNCHANGED <<members, hours, listening, used, asked, blurred>>

\* removeOrg: members and hours go with the organization.
RemoveOrg(o) ==
    /\ "removeOrg" \in Ops
    /\ Staffed(o)
    /\ Exists(o)
    /\ orgs' = [orgs EXCEPT ![o] = None]
    /\ members' = [m \in Member |-> IF members[m] # None /\ members[m].org = o
                                      THEN None ELSE members[m]]
    /\ hours' = [hours EXCEPT ![o] = Closed]
    /\ UNCHANGED <<listening, used, req, asked, blurred>>

-----------------------------------------------------------------------------
(* Failures *)

\* What the end of a request leaves as nobody asked.
Spoils(s) ==
    CASE req[s].pc = "refill" -> {"hours"}
      [] req[s].pc = "member" -> {"owner"}
      [] OTHER -> {}

Lost(o) == (UNION {Spoils(s) : s \in {t \in Slot : req[t].org = o}})
             \cup (IF o \in listening THEN {"hours"} ELSE {})

\* The process dies and starts again: what is in flight is lost, listeners too.
Die ==
    /\ req' = [s \in Slot |-> Idle]
    /\ listening' = {}
    /\ blurred' = [o \in Org |-> blurred[o] \cup Lost(o)]
    /\ UNCHANGED <<orgs, members, hours, used, asked>>

Crash == Faulty /\ Die

\* Nobody handles the error of the listener's save, which ends the process.
ListenerFails(o) ==
    /\ o \in listening
    /\ ~Exists(o)
    /\ Die

\* An error ends the request; no rollback brings back what it deleted.
StatementFails(s) ==
    /\ Faulty
    /\ req[s].pc # "idle"
    /\ Become(s, Idle)
    /\ blurred' = [o \in Org |-> IF o = req[s].org THEN blurred[o] \cup Spoils(s)
                                 ELSE blurred[o]]
    /\ UNCHANGED <<orgs, members, hours, listening, used, asked>>

-----------------------------------------------------------------------------
(* The specification *)

Begin(s) ==
    \/ \E e \in Email : CheckEmail(s, e)
    \/ \E o \in Org : \/ \E e \in Email : CheckMember(s, o, e)
                      \/ \E d \in Day : CheckHour(s, o, d)
                      \/ \E body \in Bodies : UpdateHours(s, o, body)
                      \/ ReadSlug(s, o)
                      \/ CheckProfile(s, o)
    \/ \E m \in Member, e \in Email \cup {None} : ReadMember(s, m, e)

Step(s) ==
    \/ SaveOrganization(s) \/ SaveOwner(s) \/ SaveMember(s) \/ SaveChanges(s)
    \/ SaveHour(s) \/ StartTransaction(s) \/ ClearHours(s) \/ SaveHours(s) \/ Commit(s)
    \/ UpdateLocation(s) \/ Publish(s)

Next ==
    \/ \E s \in Slot : Begin(s) \/ Step(s) \/ StatementFails(s)
    \/ \E o \in Org : \/ SaveDefaultHours(o) \/ ListenerFails(o)
                      \/ \E m \in Member : RemoveMember(o, m)
                      \/ \E d \in Day : RemoveHour(o, d)
                      \/ \E part \in Details : Describe(o, part)
                      \/ RemoveOrg(o)
    \/ Crash

Spec == Init /\ [][Next]_vars

-----------------------------------------------------------------------------
(* Properties *)

\* Every variable has its type.
TypeOK ==
    /\ orgs \in [Org -> OrgRow \cup {None}]
    /\ members \in [Member -> MemberRow \cup {None}]
    /\ hours \in [Org -> Days]
    /\ listening \subseteq Org
    /\ used \subseteq Org
    /\ req \in [Slot -> Request]
    /\ asked \in [Org -> Days]
    /\ blurred \in [Org -> SUBSET {"hours", "slug", "owner"}]

Owned(o) ==
    \E m \in Member : members[m] # None /\ members[m].org = o /\ members[m].root

\* createOrganization saves organization and owner one after the other: an
\* organization nobody owns is being registered, or its registration was cut
\* short or lost its e-mail to a member who was given it after the check, be
\* it by create or by update.
OwnedOrExcused ==
    \A o \in Org : Exists(o) =>
        Owned(o) \/ At(o, {"member"}) # {} \/ "owner" \in blurred[o]

\* Unless changes of its hours overlapped or one was cut short, an organization
\* has the rows it was asked to have: those of the last default or body, a day
\* as often as that names it, with one more of each day created since, which
\* had none, and without those removed.  Between the delete and the save of a
\* body, and before the default hours are saved, it has none.
HoursAsAsked ==
    \A o \in Org : Exists(o) /\ "hours" \notin blurred[o] =>
        \/ hours[o] = asked[o]
        \/ hours[o] = Closed /\ (o \in listening \/ At(o, {"refill"}) # {})

\* What is published has the slug its public page is found by and the types
\* that page reads, although publishing checks neither slug nor row again.
PublicPage ==
    \A o \in Org : Exists(o) /\ orgs[o].published =>
        orgs[o].slug # None /\ Parts \subseteq orgs[o].profile

\* The address of the public page never changes, unless two requests that
\* found no slug overlapped.
SlugStays ==
    [][\A o \in Org :
         Exists(o) /\ Exists(o)' /\ orgs[o].slug # None /\ "slug" \notin blurred[o]
         => orgs'[o].slug = orgs[o].slug]_vars

-----------------------------------------------------------------------------
(* The inductive invariant behind the safety properties *)

\* What a slot carries at each statement of its handler.
WellFormed(r) ==
    /\ r.pc = "idle" <=> r = Idle
    /\ r.pc \in {"organization", "member", "add", "change"} => r.email \in Email
    /\ r.pc = "organization" => r.org = None
    /\ r.pc \notin {"idle", "organization"} => r.org \in Org
    /\ r.pc = "change" <=> r.member \in Member

\* An id that was not handed out has left no trace.
Blank(o) ==
    /\ orgs[o] = None
    /\ hours[o] = Closed
    /\ o \notin listening
    /\ asked[o] = Closed

\* Members belong to an organization.
Tied(m) == members[m] # None => Exists(members[m].org)

\* What an update has read of a member and writes again: no other request
\* changes that, nor has read anything else, and the id is nobody else's
\* meanwhile.
Holding(s) ==
    LET m == req[s].member IN
    req[s].pc = "change" =>
        /\ members[m] # None => members[m].org = req[s].org /\ members[m].root = req[s].root
        /\ \A t \in Slot : req[t].member = m => req[t].org = req[s].org /\ req[t].root = req[s].root

UniqueEmails == \A o, p \in Org : Exists(o) /\ Exists(p) /\ orgs[o].email = orgs[p].email
                                => o = p

\* A registration in flight: its e-mail is free or was taken since, and its
\* organization is its own.
Registering(s) ==
    LET e == req[s].email
        o == req[s].org IN
    /\ req[s].pc \in {"organization", "member"} /\ Taken(e) => req[s].raced
    /\ req[s].pc = "member" =>
          /\ Exists(o) /\ orgs[o].email = e
          /\ \A m \in Member : members[m] # None => members[m].org # o
          /\ \A t \in Slot : req[t].org = o => t = s
          /\ o \notin listening /\ hours[o] = Closed

\* Where nothing is blurred, one change of the hours is under way at most, and
\* what it has read or deleted is still so.
HoursInOrder(o) ==
    /\ \A s, t \in At(o, {"hour", "refill"}) : s = t
    /\ o \in listening => At(o, {"hour", "refill"}) = {} /\ hours[o] = Closed
                           /\ asked[o] = Once(Default)
    /\ \A s \in At(o, {"refill"}) : hours[o] = Closed /\ asked[o] = req[s].days
    /\ \A s \in At(o, {"hour"}) : \A d \in Day : req[s].days[d] = 0 \/ hours[o][d] = 0
    /\ o \notin listening /\ At(o, {"refill"}) = {} => hours[o] = asked[o]

SlugInOrder(o) ==
    \A s \in At(o, {"locate"}) :
        /\ req[s].slug = orgs[o].slug
        /\ req[s].slug = None => At(o, {"locate"}) = {s}

\* The slug comes with the address, and what publishing has checked stays.
Presentable(o) ==
    /\ "address" \in orgs[o].profile => orgs[o].slug # None
    /\ At(o, {"publish"}) # {} \/ orgs[o].published => Parts \subseteq orgs[o].profile

IInv ==
    /\ TypeOK
    /\ \A s \in Slot : WellFormed(req[s]) /\ req[s].org \in used \cup {None}
    /\ \A o \in Org \ used : Blank(o)
    /\ \A m \in Member : Tied(m)
    /\ UniqueEmails
    /\ \A s \in Slot : Registering(s) /\ Holding(s)
    /\ OwnedOrExcused
    /\ \A o \in Org : Exists(o) =>
          /\ Presentable(o)
          /\ "hours" \notin blurred[o] => HoursInOrder(o)
          /\ "slug" \notin blurred[o] => SlugInOrder(o)

=============================================================================
