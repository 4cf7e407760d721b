-------------------------- MODULE OnboardingProofs --------------------------
(* Proofs about Onboarding for any number of organizations, members, e-mails,
   days, schedules in a body and requests. *)
EXTENDS Onboarding, TLAPS

-----------------------------------------------------------------------------
(* What a step does to the requests *)

Formed ==
    /\ req \in [Slot -> Request]
    /\ \A s \in Slot : WellFormed(req[s]) /\ req[s].org \in used \cup {None}

\* The slot s goes on as r.
Moves(s, r) ==
    /\ req' = [req EXCEPT ![s] = r]
    /\ r \in Request
    /\ WellFormed(r)

LEMMA IdleFormed ==
    Idle \in Request /\ WellFormed(Idle) /\ Idle.pc = "idle" /\ Idle.org = None
<1>1. Closed \in Days
  BY DEF Closed, Days
<1>2. None \notin Member
  BY OnboardingAssumption
<1>3. QED BY <1>1, <1>2 DEF Idle, Request, WellFormed

LEMMA MovesFormed ==
    ASSUME Formed, used \subseteq used', NEW s \in Slot, NEW r, Moves(s, r),
           r.org \in used' \cup {None}
    PROVE  /\ Formed'
           /\ req'[s] = r
           /\ \A t \in Slot \ {s} : req'[t] = req[t]
  BY DEF Formed, Moves

LEMMA FinishMoves ==
    ASSUME NEW s \in Slot, Become(s, Idle)
    PROVE  Moves(s, Idle)
  BY IdleFormed DEF Become, Moves

\* Somebody belongs to the organization.
Peopled(o) == \E m \in Member : members[m] # None /\ members[m].org = o

\* Requests are only taken for organizations whose id was handed out.
LEMMA StaffedUsed ==
    ASSUME IInv, NEW o \in Org, Staffed(o)
    PROVE  o \in used /\ Peopled(o)
  BY DEF IInv, Staffed, Peopled, Tied, Blank, Exists

\* A request that arrives, with what its handler has checked or read.
Arrives(s, r) ==
    /\ Moves(s, r)
    /\ req[s] = Idle
    /\ r.pc \in {"organization", "add", "change", "hour", "clear", "begin", "locate", "publish"}
    /\ r.org \in used \cup {None}
    /\ r.org # None => Peopled(r.org)
    /\ r.pc = "organization" => ~Taken(r.email)
    /\ r.pc = "change" => /\ members[r.member] # None
                          /\ members[r.member].org = r.org
                          /\ members[r.member].root = r.root
    /\ r.pc = "publish" => Parts \subseteq orgs[r.org].profile
    /\ r.pc = "locate" =>
          /\ r.slug = orgs[r.org].slug
          /\ (\E t \in At(r.org, {"locate"}) : req[t].slug = None)
                => "slug" \in blurred'[r.org]
    /\ r.pc = "hour" =>
          /\ \A d \in Day : r.days[d] = 0 \/ hours[r.org][d] = 0
          /\ HoursBusy(r.org) => "hours" \in blurred'[r.org]

LEMMA BeginArrives ==
    ASSUME Formed, IInv, NEW s \in Slot, Begin(s)
    PROVE  \E r : Arrives(s, r)
<1> USE DEF Become, Moves, Idle, Request, WellFormed, Arrives
<1>0. Closed \in Days /\ \A D : Once(D) \in Days
  BY DEF Closed, Once, Days
<1>n. None \notin Member
  BY OnboardingAssumption
<1>1. ASSUME NEW e \in Email, CheckEmail(s, e)
      PROVE  Arrives(s, [Idle EXCEPT !.pc = "organization", !.email = e])
  BY <1>0, <1>n, <1>1 DEF CheckEmail
<1>2. ASSUME NEW o \in Org, NEW e \in Email, CheckMember(s, o, e)
      PROVE  Arrives(s, [Idle EXCEPT !.pc = "add", !.org = o, !.email = e])
  BY <1>0, <1>n, <1>2, StaffedUsed DEF CheckMember
<1>3. ASSUME NEW o \in Org, NEW d \in Day, CheckHour(s, o, d)
      PROVE  Arrives(s, [Idle EXCEPT !.pc = "hour", !.org = o, !.days = Once({d})])
  <2> DEFINE r == [Idle EXCEPT !.pc = "hour", !.org = o, !.days = Once({d})]
  <2>1. o \in used /\ Peopled(o)
    BY <1>3, StaffedUsed DEF CheckHour
  <2>2. r \in Request /\ WellFormed(r) /\ r.pc = "hour" /\ r.org = o /\ r.days = Once({d})
    BY <1>0, <1>n
  <2>3. req[s] = Idle /\ req' = [req EXCEPT ![s] = r] /\ hours[o][d] = 0
    BY <1>3 DEF CheckHour
  <2>4. HoursBusy(o) => "hours" \in blurred'[o]
    BY <1>3 DEF CheckHour, BlurIf, Blur, IInv, TypeOK
  <2>5. \A e \in Day : r.days[e] = 0 \/ hours[o][e] = 0
    BY <2>2, <2>3 DEF Once
  <2> HIDE DEF r
  <2>6. Arrives(s, r)
    BY <2>1, <2>2, <2>3, <2>4, <2>5 DEF Arrives, Moves
  <2>7. QED BY <2>6, Zenon DEF r
<1>4. ASSUME NEW o \in Org, NEW body \in Bodies, UpdateHours(s, o, body)
      PROVE  \/ Arrives(s, [Idle EXCEPT !.pc = "clear", !.org = o, !.days = body])
             \/ Arrives(s, [Idle EXCEPT !.pc = "begin", !.org = o, !.days = body])
  <2>1. body \in Days
    BY OnboardingAssumption DEF Days
  <2>2. QED BY <1>0, <1>n, <1>4, <2>1, StaffedUsed DEF UpdateHours
<1>5. ASSUME NEW o \in Org, ReadSlug(s, o)
      PROVE  Arrives(s, [Idle EXCEPT !.pc = "locate", !.org = o, !.slug = orgs[o].slug])
  <2>1. orgs[o].slug \in Slot \cup {None}
    BY <1>5 DEF IInv, TypeOK, ReadSlug, Exists, OrgRow
  <2> DEFINE r == [Idle EXCEPT !.pc = "locate", !.org = o, !.slug = orgs[o].slug]
  <2>2. o \in used /\ Peopled(o)
    BY <1>5, StaffedUsed DEF ReadSlug
  <2>3. /\ r \in Request /\ WellFormed(r)
        /\ r.pc = "locate" /\ r.org = o /\ r.slug = orgs[o].slug
    BY <1>0, <1>n, <2>1
  <2>4. req[s] = Idle /\ req' = [req EXCEPT ![s] = r]
    BY <1>5 DEF ReadSlug
  <2>5. (\E t \in At(o, {"locate"}) : req[t].slug = None) => "slug" \in blurred'[o]
    BY <1>5 DEF ReadSlug, BlurIf, Blur, IInv, TypeOK
  <2> HIDE DEF r
  <2>6. Arrives(s, r)
    BY <2>2, <2>3, <2>4, <2>5 DEF Arrives, Moves
  <2>7. QED BY <2>6, Zenon DEF r
<1>6. ASSUME NEW o \in Org, CheckProfile(s, o)
      PROVE  Arrives(s, [Idle EXCEPT !.pc = "publish", !.org = o])
  BY <1>0, <1>n, <1>6, StaffedUsed DEF CheckProfile
<1>7. ASSUME NEW m \in Member, NEW e \in Email \cup {None}, ReadMember(s, m, e)
      PROVE  \E r : Arrives(s, r)
  <2> DEFINE f == IF e = None THEN members[m].email ELSE e
             r == [Idle EXCEPT !.pc = "change", !.member = m, !.org = members[m].org,
                               !.root = members[m].root, !.email = f]
  <2>1. members[m] \in MemberRow /\ members[m] # None
    BY <1>7 DEF ReadMember, IInv, TypeOK
  <2>2. members[m].org \in Org /\ members[m].root \in BOOLEAN /\ f \in Email
    BY <2>1 DEF MemberRow
  <2>3. members[m].org \in used /\ Peopled(members[m].org)
    BY <2>1, <2>2 DEF IInv, Tied, Blank, Exists, Peopled
  <2>4. /\ r \in Request /\ WellFormed(r) /\ r.pc = "change" /\ r.member = m
        /\ r.org = members[m].org /\ r.root = members[m].root
    BY <1>0, <2>2
  <2>5. req[s] = Idle /\ req' = [req EXCEPT ![s] = r]
    BY <1>7 DEF ReadMember
  <2> HIDE DEF r, f
  <2>6. Arrives(s, r)
    BY <2>1, <2>3, <2>4, <2>5 DEF Arrives, Moves
  <2>7. QED BY <2>6
<1> HIDE DEF Become, Moves, Idle, Request, WellFormed, Arrives
<1>8. QED BY <1>1, <1>2, <1>3, <1>4, <1>5, <1>6, <1>7, Zenon DEF Begin

-----------------------------------------------------------------------------
(* The requests stay well formed *)

LEMMA InFlight ==
    ASSUME Formed, NEW s \in Slot, req[s].pc # "idle"
    PROVE  /\ req[s] \in Request
           /\ req[s].pc \notin {"idle", "organization"} => req[s].org \in Org \cap used
           /\ req[s].pc \in {"organization", "member", "add", "change"} => req[s].email \in Email
           /\ req[s].pc = "change" <=> req[s].member \in Member
  BY OnboardingAssumption DEF Formed, WellFormed

\* One step later in the same request.
LEMMA Onward ==
    ASSUME Formed, NEW s \in Slot, req[s].pc \notin {"idle", "organization"},
           NEW r \in Request, r.pc \in {"clear", "refill", "commit"}, r.org = req[s].org,
           req[s].pc # "change", r.member = req[s].member
    PROVE  WellFormed(r) /\ r.org \in used
  BY InFlight, IdleFormed DEF WellFormed

\* What a step of a request makes of it.
Ahead(s) ==
    CASE req[s].pc = "begin"  -> [req[s] EXCEPT !.pc = "clear", !.tx = TRUE]
      [] req[s].pc = "clear"  -> [req[s] EXCEPT !.pc = "refill"]
      [] req[s].pc = "refill" -> IF req[s].tx THEN [req[s] EXCEPT !.pc = "commit"] ELSE Idle
      [] OTHER -> Idle

Raced(s) ==
    [t \in Slot |->
        IF t = s THEN Idle
        ELSE IF req[t].pc \in {"organization", "member"} /\ req[t].email = req[s].email
             THEN [req[t] EXCEPT !.raced = TRUE]
             ELSE req[t]]

Registered(s, o) == [req[s] EXCEPT !.pc = "member", !.org = o]

LEMMA AheadMoves ==
    ASSUME Formed, NEW s \in Slot, req[s].pc # "idle"
    PROVE  /\ Ahead(s) \in Request /\ WellFormed(Ahead(s))
           /\ Ahead(s).org \in used \cup {None}
<1>1. req[s] \in Request /\ req[s].tx \in BOOLEAN
  BY InFlight DEF Request
<1>2. CASE req[s].pc \in {"clear", "begin"}
  <2>1. Ahead(s) \in Request /\ Ahead(s).pc \in {"clear", "refill"} /\ Ahead(s).org = req[s].org
          /\ Ahead(s).member = req[s].member
    BY <1>1, <1>2 DEF Ahead, Request
  <2>2. QED BY <2>1, <1>2, Onward
<1>3. CASE req[s].pc = "refill"
  <2>1. ASSUME req[s].tx = TRUE
        PROVE  Ahead(s) \in Request /\ Ahead(s).pc = "commit" /\ Ahead(s).org = req[s].org
              /\ Ahead(s).member = req[s].member
    BY <1>1, <1>3, <2>1 DEF Ahead, Request
  <2>2. ASSUME req[s].tx = FALSE
        PROVE  Ahead(s) = Idle
    BY <1>3, <2>2 DEF Ahead
  <2>3. CASE req[s].tx = TRUE
    BY <2>1, <2>3, <1>3, Onward
  <2>4. CASE req[s].tx = FALSE
    BY <2>2, <2>4, IdleFormed
  <2>5. QED BY <2>3, <2>4, <1>1
<1>4. CASE req[s].pc \notin {"begin", "clear", "refill"}
  BY <1>4, IdleFormed DEF Ahead
<1>5. QED BY <1>2, <1>3, <1>4

LEMMA RacedFormed ==
    ASSUME Formed, NEW s \in Slot, req' = Raced(s), used' = used
    PROVE  Formed'
<1>1. ASSUME NEW t \in Slot
      PROVE  req'[t] \in Request /\ WellFormed(req'[t]) /\ req'[t].org \in used \cup {None}
  <2>1. req[t] \in Request /\ WellFormed(req[t]) /\ req[t].org \in used \cup {None}
    BY DEF Formed
  <2>2. CASE req'[t] = Idle \/ req'[t] = req[t]
    BY <2>1, <2>2, IdleFormed
  <2>3. CASE req[t].pc \in {"organization", "member"} /\ req'[t] = [req[t] EXCEPT !.raced = TRUE]
    <3>1. /\ req'[t] \in Request /\ req'[t].pc = req[t].pc /\ req'[t].org = req[t].org
          /\ req'[t].email = req[t].email /\ req'[t].member = req[t].member
      BY <2>1, <2>3 DEF Request
    <3>2. QED BY <2>1, <2>3, <3>1, IdleFormed DEF WellFormed
  <2>4. QED BY <2>2, <2>3 DEF Raced
<1>2. QED BY <1>1 DEF Formed, Raced

\* Every step of a request ends it, or takes it one statement further; only a
\* member that is saved touches other requests.
LEMMA StepAhead ==
    ASSUME Formed, NEW s \in Slot, Step(s)
    PROVE  /\ req[s].pc # "idle"
           /\ \/ /\ used' = used
                 /\ req' = [req EXCEPT ![s] = Ahead(s)]
              \/ /\ SaveOwner(s) \/ SaveMember(s) \/ SaveChanges(s)
                 /\ used' = used
                 /\ req' = Raced(s)
              \/ /\ SaveOrganization(s)
                 /\ \E o \in Org \ used : /\ used' = used \cup {o}
                                          /\ req' = [req EXCEPT ![s] = Registered(s, o)]
              \/ /\ SaveOrganization(s) /\ used' = used
                 /\ req' = [req EXCEPT ![s] = Idle]
<1> USE DEF Become, Goto
<1>1. CASE SaveOrganization(s)
  BY <1>1, Zenon DEF SaveOrganization, Registered
<1>2. CASE SaveOwner(s) \/ SaveMember(s) \/ SaveChanges(s)
  <2>1. req[s].pc \in {"member", "add", "change"} /\ used' = used
    BY <1>2 DEF SaveOwner, SaveMember, SaveChanges
  <2>2. req' = [req EXCEPT ![s] = Idle] \/ req' = Raced(s)
    BY <1>2, Zenon DEF SaveOwner, SaveMember, SaveChanges, Take, Raced
  <2>3. QED BY <1>2, <2>1, <2>2 DEF Ahead
<1>3. CASE SaveHour(s)
  BY <1>3 DEF SaveHour, Ahead
<1>4. CASE StartTransaction(s)
  BY <1>4 DEF StartTransaction, Ahead
<1>5. CASE ClearHours(s)
  BY <1>5 DEF ClearHours, Ahead
<1>6. CASE SaveHours(s)
  BY <1>6 DEF SaveHours, Ahead
<1>7. CASE Commit(s)
  BY <1>7 DEF Commit, Ahead
<1>8. CASE UpdateLocation(s)
  BY <1>8 DEF UpdateLocation, Ahead
<1>9. CASE Publish(s)
  BY <1>9 DEF Publish, Ahead
<1>10. QED
  BY <1>1, <1>2, <1>3, <1>4, <1>5, <1>6, <1>7, <1>8, <1>9 DEF Step

\* Whatever a step makes of its own request, the others carry what they carried.
Others(s) ==
    \A t \in Slot \ {s} :
        /\ req'[t].pc = req[t].pc /\ req'[t].org = req[t].org
        /\ req'[t].email = req[t].email /\ req'[t].days = req[t].days
        /\ req'[t].member = req[t].member /\ req'[t].root = req[t].root
        /\ req'[t].slug = req[t].slug
        /\ req[t].raced => req'[t].raced

LEMMA StepOthers ==
    ASSUME Formed, NEW s \in Slot, Step(s)
    PROVE  /\ Others(s)
           /\ \/ req'[s] = Ahead(s) /\ used' = used
              \/ /\ SaveOwner(s) \/ SaveMember(s) \/ SaveChanges(s)
                 /\ req'[s] = Idle /\ used' = used
              \/ SaveOrganization(s) /\ req'[s] = Idle /\ used' = used
              \/ SaveOrganization(s)
                   /\ \E o \in Org \ used : used' = used \cup {o} /\ req'[s] = Registered(s, o)
<1>1. req \in [Slot -> Request]
  BY DEF Formed
<1>2. ASSUME req' = Raced(s) PROVE Others(s) /\ req'[s] = Idle
  <2>1. ASSUME NEW t \in Slot \ {s}
        PROVE  req'[t] = req[t] \/ req'[t] = [req[t] EXCEPT !.raced = TRUE]
    BY <1>2 DEF Raced
  <2>2. \A t \in Slot : req[t] \in Request
    BY <1>1
  <2>3. Others(s)
    BY <2>1, <2>2 DEF Others, Request
  <2>4. QED BY <2>3, <1>2 DEF Raced
<1>3. ASSUME NEW r, req' = [req EXCEPT ![s] = r]
      PROVE  Others(s) /\ req'[s] = r
  BY <1>1, <1>3 DEF Others
<1>4. \/ used' = used /\ req' = [req EXCEPT ![s] = Ahead(s)]
      \/ /\ SaveOwner(s) \/ SaveMember(s) \/ SaveChanges(s)
         /\ used' = used /\ req' = Raced(s)
      \/ SaveOrganization(s)
           /\ \E o \in Org \ used : /\ used' = used \cup {o}
                                    /\ req' = [req EXCEPT ![s] = Registered(s, o)]
      \/ SaveOrganization(s) /\ used' = used /\ req' = [req EXCEPT ![s] = Idle]
  BY StepAhead
<1>5. CASE used' = used /\ req' = [req EXCEPT ![s] = Ahead(s)]
  BY <1>3, <1>5
<1>6. CASE /\ SaveOwner(s) \/ SaveMember(s) \/ SaveChanges(s)
           /\ used' = used /\ req' = Raced(s)
  BY <1>2, <1>6
<1>7. CASE SaveOrganization(s) /\ used' = used /\ req' = [req EXCEPT ![s] = Idle]
  BY <1>3, <1>7
<1>8. CASE /\ SaveOrganization(s)
           /\ \E o \in Org \ used : /\ used' = used \cup {o}
                                    /\ req' = [req EXCEPT ![s] = Registered(s, o)]
  <2>1. PICK o \in Org \ used : /\ used' = used \cup {o}
                                /\ req' = [req EXCEPT ![s] = Registered(s, o)]
    BY <1>8
  <2>2. Others(s) /\ req'[s] = Registered(s, o)
    BY <2>1, <1>3
  <2>3. QED BY <1>8, <2>1, <2>2
<1>9. QED BY <1>4, <1>5, <1>6, <1>7, <1>8, Zenon

\* All but the first statement of a registration: what is left of the request
\* belongs to the same organization.
LEMMA StepGoesOn ==
    ASSUME Formed, NEW s \in Slot, Step(s), req[s].pc # "organization"
    PROVE  /\ Others(s) /\ used' = used
           /\ \/ req'[s] = Idle
              \/ /\ req'[s].org = req[s].org /\ req'[s].days = req[s].days
                 /\ req'[s].member = req[s].member /\ req'[s].root = req[s].root
                 /\ \/ req[s].pc = "begin" /\ req'[s].pc = "clear"
                    \/ req[s].pc = "clear" /\ req'[s].pc = "refill"
                    \/ req[s].pc = "refill" /\ req'[s].pc = "commit"
           /\ req[s].pc = "clear" => req'[s].pc = "refill"
<1>1. ~SaveOrganization(s)
  BY DEF SaveOrganization
<1>2. req[s] \in Request
        /\ (SaveOwner(s) \/ SaveMember(s) \/ SaveChanges(s) => Ahead(s) = Idle)
  BY StepAhead, InFlight DEF SaveOwner, SaveMember, SaveChanges, Ahead
<1>3. Others(s) /\ used' = used /\ req'[s] = Ahead(s)
  BY <1>1, <1>2, StepOthers
<1>4. CASE req[s].pc \in {"begin", "clear"}
  BY <1>2, <1>3, <1>4 DEF Ahead, Request
<1>5. CASE req[s].pc = "refill"
  <2>1. CASE Ahead(s) = Idle
    BY <1>3, <1>5, <2>1
  <2>2. CASE Ahead(s) = [req[s] EXCEPT !.pc = "commit"]
    BY <1>2, <1>3, <1>5, <2>2 DEF Request
  <2>3. QED BY <1>5, <2>1, <2>2 DEF Ahead
<1>6. CASE req[s].pc \notin {"begin", "clear", "refill"}
  BY <1>3, <1>6 DEF Ahead
<1>7. QED BY <1>3, <1>4, <1>5, <1>6

\* A save that takes an e-mail for a member: a new one, or the one that an
\* update has read.
Enrols(s, m, row) ==
    /\ row \in MemberRow /\ row.email = req[s].email /\ row.org = req[s].org
    /\ Exists(row.org)
    /\ members' = [members EXCEPT ![m] = row]
    /\ req' = Raced(s)
    /\ \/ Fresh(m)
       \/ req[s].pc = "change" /\ req[s].member = m /\ row.root = req[s].root

LEMMA Enrolment ==
    ASSUME IInv, NEW s \in Slot, SaveOwner(s) \/ SaveMember(s) \/ SaveChanges(s)
    PROVE  /\ req[s].pc \in {"member", "add", "change"} /\ UNCHANGED <<orgs, hours, used>>
           /\ \/ members' = members /\ req' = [req EXCEPT ![s] = Idle]
              \/ \E m \in Member : \E row : Enrols(s, m, row)
<1>1. Formed
  BY DEF IInv, TypeOK, Formed
<1>2. req[s].pc \in {"member", "add", "change"} /\ UNCHANGED <<orgs, hours, used>>
  BY DEF SaveOwner, SaveMember, SaveChanges
<1>3. /\ req[s].org \in Org /\ req[s].email \in Email /\ req[s].root \in BOOLEAN
      /\ req[s].pc = "change" => req[s].member \in Member
  BY <1>1, <1>2, InFlight DEF Request
<1> DEFINE e == req[s].email
           o == req[s].org
           Row(root) == [email |-> e, org |-> o, root |-> root]
<1>4. \A root \in BOOLEAN : Row(root) \in MemberRow /\ Row(root).email = e
                             /\ Row(root).org = o /\ Row(root).root = root
  BY <1>3 DEF MemberRow
<1>5. CASE SaveOwner(s)
  <2>1. Exists(o)
    BY <1>5 DEF IInv, Registering, SaveOwner
  <2>2. CASE Taken(e)
    BY <1>5, <2>2 DEF SaveOwner, Become
  <2>3. CASE ~Taken(e)
    <3>1. PICK m \in Member : Fresh(m) /\ members' = [members EXCEPT ![m] = Row(TRUE)]
      BY <1>5, <2>3 DEF SaveOwner
    <3>2. req' = Raced(s)
      BY <1>5, <2>3, Zenon DEF SaveOwner, Take, Raced
    <3> HIDE DEF Row
    <3>3. Enrols(s, m, Row(TRUE))
      BY <1>4, <2>1, <3>1, <3>2 DEF Enrols
    <3>4. QED BY <1>2, <3>3
  <2>4. QED BY <1>2, <2>2, <2>3
<1>6. CASE SaveMember(s)
  <2>1. CASE Taken(e) \/ ~Exists(o)
    BY <1>6, <2>1 DEF SaveMember, Become
  <2>2. CASE ~Taken(e) /\ Exists(o)
    <3>1. PICK m \in Member : Fresh(m) /\ members' = [members EXCEPT ![m] = Row(FALSE)]
      BY <1>6, <2>2 DEF SaveMember
    <3>2. req' = Raced(s)
      BY <1>6, <2>2, Zenon DEF SaveMember, Take, Raced
    <3> HIDE DEF Row
    <3>3. Enrols(s, m, Row(FALSE))
      BY <1>4, <2>2, <3>1, <3>2 DEF Enrols
    <3>4. QED BY <1>2, <3>3
  <2>3. QED BY <1>2, <2>1, <2>2
<1>7. CASE SaveChanges(s)
  <2>1. CASE TakenBut(req[s].member, e) \/ ~Exists(o)
    BY <1>7, <2>1 DEF SaveChanges, Become
  <2>2. CASE ~TakenBut(req[s].member, e) /\ Exists(o)
    <3>1. /\ members' = [members EXCEPT ![req[s].member] = Row(req[s].root)]
          /\ req[s].pc = "change"
      BY <1>7, <2>2 DEF SaveChanges
    <3>2. req' = Raced(s)
      BY <1>7, <2>2, Zenon DEF SaveChanges, Take, Raced
    <3> HIDE DEF Row
    <3>3. Enrols(s, req[s].member, Row(req[s].root))
      BY <1>3, <1>4, <2>2, <3>1, <3>2 DEF Enrols
    <3>4. QED BY <1>2, <1>3, <3>1, <3>3
  <2>3. QED BY <1>2, <2>1, <2>2
<1>8. QED BY <1>5, <1>6, <1>7

LEMMA EnrolsOne ==
    ASSUME IInv, NEW s \in Slot, NEW m \in Member, NEW row, Enrols(s, m, row)
    PROVE  /\ members'[m] = row /\ row # None
           /\ \A n \in Member \ {m} : members'[n] = members[n]
           /\ \A e : Taken(e)' => Taken(e) \/ e = req[s].email
<1>1. members'[m] = row /\ row # None /\ \A n \in Member \ {m} : members'[n] = members[n]
  BY NoneAssumption DEF Enrols, IInv, TypeOK
<1>2. row.email = req[s].email
  BY DEF Enrols
<1>3. QED BY <1>1, <1>2 DEF Taken, TakenBut

LEMMA MemberRemoved ==
    ASSUME TypeOK, NEW o \in Org, NEW m \in Member, RemoveMember(o, m)
    PROVE  /\ UNCHANGED <<orgs, hours, listening, used, req, asked, blurred>>
           /\ \A n \in Member : \/ members'[n] = members[n]
                                \/ members'[n] = None /\ ~members[n].root
  BY DEF RemoveMember, TypeOK

LEMMA Steps ==
    ASSUME IInv, Next
    PROVE  \/ \E s \in Slot : Begin(s) /\ UNCHANGED used
           \/ \E s \in Slot : Step(s)
           \/ \E s \in Slot : StatementFails(s)
           \/ Die
           \/ \E o \in Org : \E m \in Member : RemoveMember(o, m)
           \/ /\ UNCHANGED <<used, req>>
              /\ \E o \in Org : \/ SaveDefaultHours(o)
                                \/ \E d \in Day : RemoveHour(o, d)
                                \/ \E part \in Details : Describe(o, part)
                                \/ RemoveOrg(o)
<1>1. ASSUME NEW s \in Slot, Begin(s) PROVE UNCHANGED used
  BY <1>1, Zenon DEF Begin, CheckEmail, CheckMember, CheckHour, UpdateHours, ReadSlug, CheckProfile,
     ReadMember
<1>2. ASSUME NEW o \in Org,
             \/ SaveDefaultHours(o)
             \/ \E d \in Day : RemoveHour(o, d)
             \/ \E part \in Details : Describe(o, part)
             \/ RemoveOrg(o)
      PROVE  UNCHANGED <<used, req>>
  BY <1>2, Zenon DEF SaveDefaultHours, RemoveHour, Describe, RemoveOrg
<1>3. QED BY <1>1, <1>2, Zenon DEF Next, Crash, ListenerFails

LEMMA FormedStep ==
    ASSUME IInv, [Next]_vars
    PROVE  Formed' /\ used \subseteq used'
<1>1. Formed
  BY DEF IInv, TypeOK, Formed
<1>2. CASE UNCHANGED <<req, used>>
  BY <1>1, <1>2 DEF Formed
<1>3. ASSUME NEW s \in Slot, Begin(s), UNCHANGED used
      PROVE  Formed'
  BY <1>1, <1>3, BeginArrives, MovesFormed DEF Arrives
<1>4. ASSUME NEW s \in Slot, Step(s)
      PROVE  Formed' /\ used \subseteq used'
  <2>1. CASE used' = used /\ req' = [req EXCEPT ![s] = Ahead(s)]
    BY <1>1, <1>4, <2>1, AheadMoves, StepAhead, MovesFormed DEF Moves
  <2>2. CASE used' = used /\ req' = Raced(s)
    BY <1>1, <2>2, RacedFormed
  <2>3. ASSUME NEW o \in Org \ used, used' = used \cup {o}, SaveOrganization(s),
               req' = [req EXCEPT ![s] = Registered(s, o)]
        PROVE  Formed'
    <3>1. req[s].pc = "organization" /\ req[s] \in Request /\ req[s].email \in Email
            /\ req[s].member \notin Member
      BY <1>1, <2>3, InFlight DEF SaveOrganization
    <3>2. Registered(s, o) \in Request /\ Registered(s, o).pc = "member"
            /\ Registered(s, o).org = o /\ Registered(s, o).email = req[s].email
            /\ Registered(s, o).member = req[s].member
      BY <3>1 DEF Registered, Request
    <3>3. WellFormed(Registered(s, o))
      BY <3>1, <3>2, IdleFormed DEF WellFormed
    <3>4. QED BY <1>1, <2>3, <3>2, <3>3, MovesFormed DEF Moves
  <2>4. CASE used' = used /\ req' = [req EXCEPT ![s] = Idle]
    BY <1>1, <2>4, IdleFormed, MovesFormed DEF Moves
  <2>5. QED BY <1>1, <1>4, <2>1, <2>2, <2>3, <2>4, StepAhead
<1>5. ASSUME NEW s \in Slot, StatementFails(s)
      PROVE  Formed' /\ used' = used
  BY <1>1, <1>5, FinishMoves, MovesFormed, IdleFormed DEF StatementFails
<1>6. CASE Die
  BY <1>1, <1>6, IdleFormed DEF Die, Formed
<1>7. CASE UNCHANGED vars
  BY <1>2, <1>7 DEF vars
<1>8. ASSUME NEW o \in Org, NEW m \in Member, RemoveMember(o, m)
      PROVE  UNCHANGED <<req, used>>
  BY <1>8 DEF RemoveMember
<1>9. QED BY <1>2, <1>3, <1>4, <1>5, <1>6, <1>7, <1>8, Steps, Zenon DEF Die

-----------------------------------------------------------------------------
(* Types *)

\* A request that arrives writes nothing.
LEMMA BeginFrame ==
    ASSUME NEW s \in Slot, Begin(s)
    PROVE  /\ UNCHANGED <<orgs, members, hours, listening, used, asked>>
           /\ \/ UNCHANGED blurred
              \/ \E o \in Org : Blur(o, "hours") \/ Blur(o, "slug")
  BY Zenon DEF Begin, CheckEmail, CheckMember, CheckHour, UpdateHours, ReadSlug, CheckProfile,
     ReadMember, BlurIf

\* A change of the row of an organization.
Edits(o) ==
    /\ Exists(o)
    /\ orgs' \in [Org -> OrgRow \cup {None}]
    /\ \A p \in Org \ {o} : orgs'[p] = orgs[p]
    /\ orgs'[o] \in OrgRow
    /\ orgs'[o].email = orgs[o].email

LEMMA EditsRow ==
    ASSUME TypeOK, NEW o \in Org, Exists(o), NEW row \in OrgRow, row.email = orgs[o].email,
           orgs' = [orgs EXCEPT ![o] = row]
    PROVE  Edits(o) /\ orgs'[o] = row
  BY DEF Edits, TypeOK

LEMMA Located ==
    ASSUME TypeOK, Formed, NEW s \in Slot, UpdateLocation(s), Exists(req[s].org)
    PROVE  /\ Edits(req[s].org)
           /\ orgs'[req[s].org].profile = orgs[req[s].org].profile \cup {"address"}
           /\ orgs'[req[s].org].slug = IF req[s].slug = None THEN s ELSE req[s].slug
           /\ orgs'[req[s].org].published = orgs[req[s].org].published
<1>1. req[s].org \in Org /\ req[s].slug \in Slot \cup {None}
  BY InFlight DEF UpdateLocation, Request
<1> DEFINE slug == IF req[s].slug = None THEN s ELSE req[s].slug
           row  == [orgs[req[s].org] EXCEPT !.profile = @ \cup {"address"}, !.slug = slug]
<1>2. orgs[req[s].org] \in OrgRow
  BY <1>1 DEF TypeOK, Exists
<1>3. /\ row \in OrgRow
      /\ row.email = orgs[req[s].org].email
      /\ row.profile = orgs[req[s].org].profile \cup {"address"}
      /\ row.slug = slug
      /\ row.published = orgs[req[s].org].published
  BY <1>1, <1>2 DEF OrgRow, Parts
<1>4. orgs' = [orgs EXCEPT ![req[s].org] = row]
  BY <1>1 DEF UpdateLocation, TypeOK
<1> HIDE DEF row
<1>5. Edits(req[s].org) /\ orgs'[req[s].org] = row
  BY <1>1, <1>3, <1>4, EditsRow
<1>6. QED BY <1>3, <1>5

LEMMA Published ==
    ASSUME TypeOK, Formed, NEW s \in Slot, Publish(s), Exists(req[s].org)
    PROVE  /\ Edits(req[s].org)
           /\ orgs'[req[s].org].profile = orgs[req[s].org].profile
           /\ orgs'[req[s].org].slug = orgs[req[s].org].slug
<1>1. req[s].org \in Org
  BY InFlight DEF Publish
<1> DEFINE row == [orgs[req[s].org] EXCEPT !.published = TRUE]
<1>2. orgs[req[s].org] \in OrgRow
  BY <1>1 DEF TypeOK, Exists
<1>3. /\ row \in OrgRow
      /\ row.email = orgs[req[s].org].email
      /\ row.profile = orgs[req[s].org].profile
      /\ row.slug = orgs[req[s].org].slug
  BY <1>2 DEF OrgRow
<1>4. orgs' = [orgs EXCEPT ![req[s].org] = row]
  BY <1>1 DEF Publish, TypeOK
<1> HIDE DEF row
<1>5. Edits(req[s].org) /\ orgs'[req[s].org] = row
  BY <1>1, <1>3, <1>4, EditsRow
<1>6. QED BY <1>3, <1>5

LEMMA Described ==
    ASSUME TypeOK, NEW o \in Org, NEW part \in Details, Describe(o, part)
    PROVE  /\ Edits(o)
           /\ orgs'[o].profile = orgs[o].profile \cup {part}
           /\ orgs'[o].slug = orgs[o].slug
           /\ orgs'[o].published = orgs[o].published
<1> DEFINE row == [orgs[o] EXCEPT !.profile = @ \cup {part}]
<1>1. orgs[o] \in OrgRow /\ Exists(o)
  BY DEF TypeOK, Exists, Describe
<1>2. /\ row \in OrgRow
      /\ row.email = orgs[o].email
      /\ row.profile = orgs[o].profile \cup {part}
      /\ row.slug = orgs[o].slug
      /\ row.published = orgs[o].published
  BY <1>1 DEF OrgRow, Parts
<1>3. orgs' = [orgs EXCEPT ![o] = row]
  BY DEF Describe, TypeOK
<1> HIDE DEF row
<1>4. Edits(o) /\ orgs'[o] = row
  BY <1>1, <1>2, <1>3, EditsRow
<1>5. QED BY <1>2, <1>4

LEMMA PlusDays ==
    ASSUME NEW h \in Days, NEW k \in Days
    PROVE  Plus(h, k) \in Days
  BY DEF Plus, Days

LEMMA TypeStep ==
    ASSUME IInv, [Next]_vars
    PROVE  TypeOK'
<1>1. TypeOK /\ Formed
  BY DEF IInv, TypeOK, Formed
<1>2. req' \in [Slot -> Request] /\ used \subseteq used'
  BY FormedStep DEF Formed
<1>3. CASE UNCHANGED vars
  BY <1>1, <1>3 DEF vars, TypeOK
<1> USE <1>1, <1>2
<1>4. ASSUME NEW s \in Slot, Begin(s)
      PROVE  TypeOK'
  BY <1>4, BeginFrame DEF TypeOK, Blur
<1>5. ASSUME NEW s \in Slot, SaveOrganization(s)
      PROVE  TypeOK'
  <2>1. CASE UNCHANGED <<orgs, used>>
    BY <1>5, <2>1 DEF SaveOrganization, TypeOK
  <2>2. ASSUME NEW o \in Org, used' = used \cup {o},
               orgs' = [orgs EXCEPT ![o] = [email |-> req[s].email, profile |-> {},
                                            slug |-> None, published |-> FALSE]]
        PROVE  TypeOK'
    <3>1. req[s].email \in Email
      BY <1>5, InFlight DEF SaveOrganization
    <3>2. orgs' \in [Org -> OrgRow \cup {None}]
      BY <2>2, <3>1 DEF TypeOK, OrgRow
    <3>3. QED BY <1>5, <2>2, <3>2 DEF SaveOrganization, TypeOK
  <2>3. QED BY <1>5, <2>1, <2>2 DEF SaveOrganization
<1>6. ASSUME NEW s \in Slot, SaveOwner(s) \/ SaveMember(s) \/ SaveChanges(s)
      PROVE  members' \in [Member -> MemberRow \cup {None}]
  <2>1. CASE members' = members
    BY <2>1 DEF TypeOK
  <2>2. ASSUME NEW m \in Member, NEW row, Enrols(s, m, row)
        PROVE  members' \in [Member -> MemberRow \cup {None}]
    BY <2>2 DEF Enrols, TypeOK
  <2>3. QED BY <1>6, <2>1, <2>2, Enrolment
<1>7. ASSUME NEW s \in Slot, SaveOwner(s) \/ SaveMember(s) \/ SaveChanges(s)
      PROVE  TypeOK'
  <2>1. CASE SaveOwner(s)
    <3>1. req[s].org \in Org
      BY <2>1, InFlight DEF SaveOwner
    <3>2. asked' \in [Org -> Days]
      <4>1. Once(Default) \in Days
        BY DEF Once, Days
      <4>2. asked' = asked \/ asked' = [asked EXCEPT ![req[s].org] = Once(Default)]
        BY <2>1, Zenon DEF SaveOwner
      <4>3. QED BY <4>1, <4>2 DEF TypeOK
    <3>3. blurred' \in [Org -> SUBSET {"hours", "slug", "owner"}]
      <4>1. blurred' = blurred
              \/ blurred' = [blurred EXCEPT ![req[s].org] = @ \cup {"owner"}]
        BY <2>1 DEF SaveOwner, BlurIf, Blur
      <4>2. QED BY <3>1, <4>1 DEF TypeOK
    <3>4. listening' \subseteq Org /\ UNCHANGED <<orgs, hours, used>>
      BY <2>1, <3>1 DEF SaveOwner, TypeOK
    <3>5. QED BY <1>6, <2>1, <3>2, <3>3, <3>4 DEF TypeOK
  <2>2. CASE SaveMember(s) \/ SaveChanges(s)
    BY <1>6, <2>2 DEF SaveMember, SaveChanges, TypeOK
  <2>3. QED BY <1>7, <2>1, <2>2
<1>8. ASSUME NEW s \in Slot, SaveHour(s)
      PROVE  TypeOK'
  <2>1. req[s].org \in Org /\ req[s].days \in Days
    BY <1>8, InFlight DEF SaveHour, Request
  <2>2. hours' \in [Org -> Days]
    BY <1>8, <2>1, PlusDays DEF SaveHour, InsertHours, TypeOK
  <2>3. [d \in Day |-> IF req[s].days[d] = 0 THEN asked[req[s].org][d] ELSE req[s].days[d]] \in Days
    BY <2>1 DEF TypeOK, Days
  <2>4. asked' \in [Org -> Days]
    BY <1>8, <2>1, <2>3 DEF SaveHour, TypeOK
  <2>5. QED BY <1>8, <2>2, <2>4 DEF SaveHour, TypeOK
<1>9. ASSUME NEW s \in Slot, StartTransaction(s) \/ Commit(s)
      PROVE  TypeOK'
  BY <1>9 DEF StartTransaction, Commit, TypeOK
<1>10. ASSUME NEW s \in Slot, ClearHours(s)
       PROVE  TypeOK'
  <2>1. req[s].org \in Org /\ req[s].days \in Days /\ Closed \in Days
    BY <1>10, InFlight DEF ClearHours, Request, Closed, Days
  <2>2. QED BY <1>10, <2>1 DEF ClearHours, TypeOK, BlurIf, Blur
<1>11. ASSUME NEW s \in Slot, SaveHours(s)
       PROVE  TypeOK'
  <2>1. req[s].org \in Org /\ req[s].days \in Days
    BY <1>11, InFlight DEF SaveHours, Request
  <2>2. hours' \in [Org -> Days]
    BY <1>11, <2>1, PlusDays DEF SaveHours, InsertHours, TypeOK
  <2>3. QED BY <1>11, <2>2 DEF SaveHours, TypeOK
<1>12. ASSUME NEW s \in Slot, UpdateLocation(s)
       PROVE  TypeOK'
  <2>1. CASE Exists(req[s].org)
    BY <1>12, <2>1, Located DEF UpdateLocation, Edits, TypeOK
  <2>2. CASE ~Exists(req[s].org)
    BY <1>12, <2>2 DEF UpdateLocation, TypeOK
  <2>3. QED BY <2>1, <2>2
<1>13. ASSUME NEW s \in Slot, Publish(s)
       PROVE  TypeOK'
  <2>1. CASE Exists(req[s].org)
    BY <1>13, <2>1, Published DEF Publish, Edits, TypeOK
  <2>2. CASE ~Exists(req[s].org)
    BY <1>13, <2>2 DEF Publish, TypeOK
  <2>3. QED BY <2>1, <2>2
<1>14. ASSUME NEW s \in Slot, StatementFails(s)
       PROVE  TypeOK'
  BY <1>14 DEF StatementFails, Spoils, TypeOK
<1>15. CASE Die
  <2>1. \A s \in Slot : Spoils(s) \subseteq {"hours", "slug", "owner"}
    BY DEF Spoils
  <2>2. blurred' \in [Org -> SUBSET {"hours", "slug", "owner"}]
    <3>1. ASSUME NEW o \in Org
          PROVE  Lost(o) \subseteq {"hours", "slug", "owner"}
      <4>1. UNION {Spoils(s) : s \in {t \in Slot : req[t].org = o}}
               \subseteq {"hours", "slug", "owner"}
        BY <2>1, Zenon
      <4>2. QED BY <4>1 DEF Lost
    <3>2. blurred' = [o \in Org |-> blurred[o] \cup Lost(o)]
      BY <1>15 DEF Die
    <3>3. \A o \in Org : blurred[o] \cup Lost(o) \in SUBSET {"hours", "slug", "owner"}
      BY <3>1 DEF TypeOK
    <3>4. QED BY <3>2, <3>3
  <2>3. QED BY <1>15, <2>2 DEF Die, TypeOK
<1>16. ASSUME NEW o \in Org, SaveDefaultHours(o)
       PROVE  TypeOK'
  <2>1. Once(Default) \in Days
    BY DEF Once, Days
  <2>2. hours' \in [Org -> Days]
    BY <1>16, <2>1, PlusDays DEF SaveDefaultHours, TypeOK
  <2>3. QED BY <1>16, <2>2 DEF SaveDefaultHours, TypeOK
<1>17. ASSUME NEW o \in Org, NEW d \in Day, RemoveHour(o, d)
       PROVE  TypeOK'
  <2>1. /\ hours[o] \in [Day -> Nat] /\ hours[o][d] - 1 \in Nat
        /\ asked[o] \in [Day -> Nat]
        /\ (IF asked[o][d] = 0 THEN 0 ELSE asked[o][d] - 1) \in Nat
    BY <1>17 DEF RemoveHour, TypeOK, Days
  <2>2. /\ hours' = [hours EXCEPT ![o] = [hours[o] EXCEPT ![d] = hours[o][d] - 1]]
        /\ asked' = [asked EXCEPT ![o] = [asked[o] EXCEPT ![d] =
                                           IF asked[o][d] = 0 THEN 0 ELSE asked[o][d] - 1]]
    BY <1>17 DEF RemoveHour
  <2>3. hours' \in [Org -> Days] /\ asked' \in [Org -> Days]
    BY <2>1, <2>2 DEF TypeOK, Days
  <2>4. QED BY <1>17, <2>3 DEF RemoveHour, TypeOK
<1>18. ASSUME NEW o \in Org, NEW part \in Details, Describe(o, part)
       PROVE  TypeOK'
  BY <1>18, Described DEF Describe, Edits, TypeOK
<1>19. ASSUME NEW o \in Org, RemoveOrg(o)
       PROVE  TypeOK'
  BY <1>19 DEF RemoveOrg, Closed, Days, TypeOK
<1>20. ASSUME NEW o \in Org, NEW m \in Member, RemoveMember(o, m)
       PROVE  TypeOK'
  BY <1>20 DEF RemoveMember, TypeOK
<1>21. QED
  BY <1>3, <1>4, <1>5, <1>7, <1>8, <1>9, <1>10, <1>11, <1>12, <1>13, <1>14, <1>15,
     <1>16, <1>17, <1>18, <1>19, <1>20, Steps, Zenon DEF Step

-----------------------------------------------------------------------------
(* Ids that were not handed out *)

LEMMA BlankStep ==
    ASSUME IInv, [Next]_vars
    PROVE  \A o \in Org \ used' : Blank(o)'
<1>1. TypeOK /\ Formed
  BY DEF IInv, TypeOK, Formed
<1>2. SUFFICES ASSUME NEW o \in Org, o \notin used'
               PROVE  Blank(o)'
  OBVIOUS
<1>3. o \notin used
  BY <1>2, FormedStep
<1>4. Blank(o)
  BY <1>3 DEF IInv
<1>5. CASE UNCHANGED <<orgs, hours, listening, asked>>
  BY <1>4, <1>5 DEF Blank, Closed
<1>6. ASSUME NEW s \in Slot, Step(s)
      PROVE  Blank(o)'
  <2>1. req[s].pc \notin {"idle", "organization"} => req[s].org \in Org /\ req[s].org # o
    BY <1>1, <1>3, InFlight
  <2> USE <1>1, <1>4, <2>1 DEF Blank, Closed
  <2>2. CASE SaveOrganization(s)
    <3>1. orgs'[o] = None
      BY <1>2, <2>2 DEF SaveOrganization, TypeOK
    <3>2. QED BY <2>2, <3>1 DEF SaveOrganization
  <2>3. CASE SaveOwner(s)
    BY <2>3 DEF SaveOwner, TypeOK
  <2>4. CASE SaveMember(s) \/ SaveChanges(s) \/ StartTransaction(s) \/ Commit(s)
    BY <1>5, <2>4 DEF SaveMember, SaveChanges, StartTransaction, Commit
  <2>5. CASE SaveHour(s)
    BY <2>5 DEF SaveHour, InsertHours, TypeOK
  <2>6. CASE ClearHours(s)
    BY <2>6 DEF ClearHours, TypeOK
  <2>7. CASE SaveHours(s)
    BY <2>7 DEF SaveHours, InsertHours, TypeOK
  <2>8. CASE UpdateLocation(s)
    BY <2>8 DEF UpdateLocation, TypeOK
  <2>9. CASE Publish(s)
    BY <2>9 DEF Publish, TypeOK
  <2>10. QED BY <1>6, <2>2, <2>3, <2>4, <2>5, <2>6, <2>7, <2>8, <2>9, Zenon DEF Step
<1>7. ASSUME NEW p \in Org,
             \/ SaveDefaultHours(p)
             \/ \E d \in Day : RemoveHour(p, d)
             \/ \E part \in Details : Describe(p, part)
             \/ RemoveOrg(p)
      PROVE  Blank(o)'
  <2>1. p # o
    <3>1. CASE SaveDefaultHours(p)
      BY <3>1, <1>4 DEF SaveDefaultHours, Blank
    <3>2. CASE Staffed(p)
      BY <3>2, <1>3, StaffedUsed
    <3>3. CASE \E d \in Day : RemoveHour(p, d)
      BY <3>3, <1>4 DEF RemoveHour, Blank, Closed
    <3>4. QED BY <1>7, <3>1, <3>2, <3>3 DEF Describe, RemoveOrg
  <2> USE <1>1, <1>4, <2>1 DEF Blank, Closed
  <2>2. CASE SaveDefaultHours(p)
    BY <2>2 DEF SaveDefaultHours, TypeOK
  <2>3. ASSUME NEW d \in Day, RemoveHour(p, d)
        PROVE  Blank(o)'
    BY <2>3 DEF RemoveHour, TypeOK
  <2>4. ASSUME NEW part \in Details, Describe(p, part)
        PROVE  Blank(o)'
    BY <2>4 DEF Describe, TypeOK
  <2>5. CASE RemoveOrg(p)
    BY <2>5 DEF RemoveOrg, TypeOK
  <2>6. QED BY <1>7, <2>2, <2>3, <2>4, <2>5, Zenon
<1>8. CASE Die
  <2>1. /\ UNCHANGED <<orgs, hours, asked>>
        /\ listening' = {}
    BY <1>8 DEF Die
  <2>2. QED BY <2>1, <1>4 DEF Blank, Closed
<1>9. ASSUME NEW s \in Slot, Begin(s) \/ StatementFails(s)
      PROVE  UNCHANGED <<orgs, hours, listening, asked>>
  BY <1>9, BeginFrame DEF StatementFails
<1>10. ASSUME NEW p \in Org, NEW m \in Member, RemoveMember(p, m)
       PROVE  UNCHANGED <<orgs, hours, listening, asked>>
  BY <1>10 DEF RemoveMember
<1>11. QED BY <1>5, <1>6, <1>7, <1>8, <1>9, <1>10, Steps, Zenon DEF vars

-----------------------------------------------------------------------------
(* Members, owners and e-mails *)

\* The organizations there are keep their e-mails, and no member changes.
SameEmails ==
    /\ members' = members
    /\ \A o \in Org : /\ Exists(o)' <=> Exists(o)
                      /\ Exists(o) => orgs'[o].email = orgs[o].email

LEMMA SameEmailsTied ==
    ASSUME IInv, SameEmails
    PROVE  (\A m \in Member : Tied(m)') /\ UniqueEmails'
<1>1. \A m \in Member : members[m] # None => members[m].org \in Org
  BY DEF IInv, TypeOK, MemberRow
<1>2. \A m \in Member : Tied(m)'
  BY <1>1 DEF IInv, SameEmails, Tied
<1>3. UniqueEmails'
  BY DEF IInv, SameEmails, UniqueEmails
<1>4. QED BY <1>2, <1>3

LEMMA EditsEmails ==
    ASSUME NEW o \in Org, Edits(o), members' = members
    PROVE  SameEmails
  BY NoneAssumption DEF Edits, SameEmails, Exists

LEMMA SameEmailsSteps ==
    ASSUME TypeOK, Formed, NEW s \in Slot,
           \/ SaveHour(s) \/ StartTransaction(s) \/ ClearHours(s) \/ SaveHours(s)
           \/ Commit(s) \/ UpdateLocation(s) \/ Publish(s)
    PROVE  SameEmails
<1>2. ASSUME UNCHANGED <<orgs, members>>
      PROVE  SameEmails
  BY <1>2 DEF SameEmails, Exists
<1>3. CASE UpdateLocation(s)
  <2>1. req[s].org \in Org
    BY <1>3, InFlight DEF UpdateLocation
  <2>2. CASE Exists(req[s].org)
    BY <1>3, <2>1, <2>2, Located, EditsEmails DEF UpdateLocation
  <2>3. CASE ~Exists(req[s].org)
    <3>1. UNCHANGED <<orgs, members>>
      BY <1>3, <2>3 DEF UpdateLocation, Exists
    <3>2. QED BY <3>1, <1>2
  <2>4. QED BY <2>2, <2>3
<1>4. CASE Publish(s)
  <2>1. req[s].org \in Org
    BY <1>4, InFlight DEF Publish
  <2>2. CASE Exists(req[s].org)
    BY <1>4, <2>1, <2>2, Published, EditsEmails DEF Publish
  <2>3. CASE ~Exists(req[s].org)
    <3>1. UNCHANGED <<orgs, members>>
      BY <1>4, <2>3 DEF Publish, Exists
    <3>2. QED BY <3>1, <1>2
  <2>4. QED BY <2>2, <2>3
<1>5. CASE \/ SaveHour(s) \/ StartTransaction(s) \/ ClearHours(s) \/ SaveHours(s) \/ Commit(s)
  BY <1>2, <1>5 DEF SaveHour, StartTransaction, ClearHours, SaveHours, Commit
<1>6. QED BY <1>3, <1>4, <1>5

LEMMA SameEmailsElse ==
    ASSUME TypeOK, NEW o \in Org,
           \/ SaveDefaultHours(o)
           \/ \E d \in Day : RemoveHour(o, d)
           \/ \E part \in Details : Describe(o, part)
    PROVE  SameEmails
<1>1. ASSUME NEW part \in Details, Describe(o, part)
      PROVE  SameEmails
  BY <1>1, Described, EditsEmails DEF Describe
<1>2. CASE UNCHANGED <<orgs, members>>
  BY <1>2 DEF SameEmails, Exists
<1>3. QED BY <1>1, <1>2 DEF SaveDefaultHours, RemoveHour

LEMMA MostlySameEmails ==
    ASSUME IInv, [Next]_vars
    PROVE  \/ SameEmails
           \/ \E s \in Slot : \/ SaveOrganization(s)
                             \/ SaveOwner(s) \/ SaveMember(s) \/ SaveChanges(s)
           \/ \E o \in Org : RemoveOrg(o) \/ \E m \in Member : RemoveMember(o, m)
<1>1. TypeOK /\ Formed
  BY DEF IInv, TypeOK, Formed
<1>2. ASSUME UNCHANGED <<orgs, members>>
      PROVE  SameEmails
  BY <1>2 DEF SameEmails, Exists
<1>3. ASSUME NEW s \in Slot, Begin(s) \/ StatementFails(s)
      PROVE  SameEmails
  BY <1>2, <1>3, BeginFrame DEF StatementFails
<1>4. Die => SameEmails
  BY <1>2 DEF Die
<1>5. QED
  BY <1>1, <1>2, <1>3, <1>4, SameEmailsSteps, SameEmailsElse, Steps, Zenon DEF Step, vars

LEMMA EmailStep ==
    ASSUME IInv, [Next]_vars
    PROVE  (\A m \in Member : Tied(m)') /\ UniqueEmails'
<1>1. TypeOK /\ Formed /\ TypeOK'
  BY TypeStep DEF IInv, TypeOK, Formed
<1>2. CASE SameEmails
  BY <1>2, SameEmailsTied
<1>3. ASSUME NEW s \in Slot, SaveOrganization(s)
      PROVE  (\A m \in Member : Tied(m)') /\ UniqueEmails'
  <2>1. CASE UNCHANGED orgs
    BY <1>2, <1>3, <2>1 DEF SaveOrganization, SameEmails, Exists
  <2>2. ASSUME NEW o \in Org \ used,
               \A p \in Org : Exists(p) => orgs[p].email # req[s].email,
               orgs' = [orgs EXCEPT ![o] = [email |-> req[s].email, profile |-> {},
                                            slug |-> None, published |-> FALSE]]
        PROVE  (\A m \in Member : Tied(m)') /\ UniqueEmails'
    <3>1. /\ orgs'[o].email = req[s].email
          /\ \A p \in Org \ {o} : orgs'[p] = orgs[p]
          /\ members' = members
      BY <1>1, <1>3, <2>2 DEF TypeOK, SaveOrganization
    <3>2. ~Exists(o)
      BY <2>2 DEF IInv, Blank, Exists
    <3>3. ASSUME NEW m \in Member PROVE Tied(m)'
      <4>1. members[m] # None => members[m].org \in Org \ {o}
        BY <1>1, <3>2 DEF IInv, TypeOK, MemberRow, Tied
      <4>2. QED BY <3>1, <4>1 DEF IInv, Tied, Exists
    <3>4. UniqueEmails'
      BY <2>2, <3>1, <3>2 DEF IInv, UniqueEmails, Exists
    <3>5. QED BY <3>3, <3>4
  <2>3. QED BY <1>3, <2>1, <2>2 DEF SaveOrganization
<1>4. ASSUME NEW s \in Slot, SaveOwner(s) \/ SaveMember(s) \/ SaveChanges(s)
      PROVE  (\A m \in Member : Tied(m)') /\ UniqueEmails'
  <2>1. CASE members' = members
    BY <1>2, <1>4, <2>1, Enrolment DEF SameEmails, Exists
  <2>2. ASSUME NEW m \in Member, NEW row, Enrols(s, m, row)
        PROVE  (\A n \in Member : Tied(n)') /\ UniqueEmails'
    <3>1. Exists(row.org) /\ orgs' = orgs
      BY <1>4, <2>2, Enrolment DEF Enrols
    <3>2. \A n \in Member : Tied(n)'
      BY <2>2, <3>1, EnrolsOne DEF IInv, Tied, Exists
    <3>3. UniqueEmails'
      BY <3>1 DEF IInv, UniqueEmails, Exists
    <3>4. QED BY <3>2, <3>3
  <2>3. QED BY <1>4, <2>1, <2>2, Enrolment
<1>5. ASSUME NEW o \in Org, RemoveOrg(o)
      PROVE  (\A m \in Member : Tied(m)') /\ UniqueEmails'
  <2>1. orgs'[o] = None /\ \A p \in Org \ {o} : orgs'[p] = orgs[p]
    BY <1>1, <1>5 DEF RemoveOrg, TypeOK
  <2>2. ASSUME NEW m \in Member PROVE Tied(m)'
    <3>1. CASE members'[m] = None
      BY <3>1 DEF Tied
    <3>2. CASE members'[m] # None
      <4>1. members'[m] = members[m] /\ members[m].org \in Org \ {o}
        BY <1>1, <1>5, <3>2 DEF RemoveOrg, TypeOK, MemberRow
      <4>2. QED BY <2>1, <4>1 DEF IInv, Tied, Exists
    <3>3. QED BY <3>1, <3>2
  <2>3. UniqueEmails'
    BY <2>1 DEF IInv, UniqueEmails, Exists
  <2>4. QED BY <2>2, <2>3
<1>6. ASSUME NEW o \in Org, NEW m \in Member, RemoveMember(o, m)
      PROVE  (\A n \in Member : Tied(n)') /\ UniqueEmails'
  <2>1. orgs' = orgs /\ \A n \in Member : members'[n] \in {members[n], None}
    BY <1>1, <1>6, MemberRemoved
  <2>2. \A n \in Member : Tied(n)'
    BY <2>1 DEF IInv, Tied, Exists
  <2>3. UniqueEmails'
    BY <2>1 DEF IInv, UniqueEmails, Exists
  <2>4. QED BY <2>2, <2>3
<1>7. QED BY <1>2, <1>3, <1>4, <1>5, <1>6, MostlySameEmails

-----------------------------------------------------------------------------
(* Registrations in flight *)

\* A registration whose organization the step leaves alone stays in order.
LEMMA RegisteringFrame ==
    ASSUME IInv, NEW s \in Slot, SameEmails,
           req'[s].pc = req[s].pc, req'[s].org = req[s].org, req'[s].email = req[s].email,
           req[s].raced => req'[s].raced,
           req[s].pc = "member" =>
               /\ \A t \in Slot : req'[t].org = req[s].org => req[t].org = req[s].org
               /\ req[s].org \notin listening'
               /\ hours'[req[s].org] = hours[req[s].org]
    PROVE  Registering(s)'
<1>1. req[s].pc = "member" => req[s].org \in Org
  BY DEF IInv, WellFormed
<1>2. Registering(s)
  BY DEF IInv
<1>3. CASE req[s].pc = "organization"
  BY <1>2, <1>3 DEF Registering, SameEmails, Taken, TakenBut
<1>4. CASE req[s].pc = "member"
  BY <1>1, <1>2, <1>4 DEF Registering, SameEmails, Taken, TakenBut, Closed
<1>5. QED BY <1>3, <1>4 DEF Registering

\* Nobody belongs to an organization being registered.
LEMMA RegisteringAlone ==
    ASSUME IInv, NEW s \in Slot, req[s].pc = "member"
    PROVE  ~Peopled(req[s].org) /\ ~Staffed(req[s].org)
  BY DEF IInv, Registering, Peopled, Staffed

LEMMA RegisteringBegin ==
    ASSUME IInv, NEW s \in Slot, Begin(s), NEW t \in Slot
    PROVE  Registering(t)'
<1>1. Formed /\ TypeOK
  BY DEF IInv, TypeOK, Formed
<1>2. PICK r : Arrives(s, r)
  BY <1>1, BeginArrives
<1>3. /\ req'[s] = r
      /\ \A u \in Slot \ {s} : req'[u] = req[u]
  BY <1>1, <1>2 DEF Arrives, Moves, Formed
<1>4. /\ UNCHANGED <<orgs, members, hours, listening>>
      /\ SameEmails
  BY BeginFrame DEF SameEmails, Exists
<1>5. CASE t = s
  BY <1>2, <1>3, <1>4, <1>5 DEF Arrives, Registering, Taken, TakenBut
<1>6. CASE t # s
  <2>1. ASSUME req[t].pc = "member"
        PROVE  r.org # req[t].org /\ req[t].org \notin listening
    <3>1. req[t].org # None
      BY <1>1, <2>1, InFlight, OnboardingAssumption
    <3>2. QED
      BY <1>2, <2>1, <3>1, RegisteringAlone DEF Arrives, IInv, Registering
  <2>2. req[t].pc = "member" =>
          \A u \in Slot : req'[u].org = req[t].org => req[u].org = req[t].org
    BY <1>3, <2>1
  <2>3. QED BY <1>3, <1>4, <1>6, <2>1, <2>2, RegisteringFrame
<1>7. QED BY <1>5, <1>6

LEMMA RegisteringSaveOrganization ==
    ASSUME IInv, NEW s \in Slot, SaveOrganization(s), NEW t \in Slot
    PROVE  Registering(t)'
<1>1. Formed /\ TypeOK /\ Formed'
  BY FormedStep DEF IInv, TypeOK, Formed, Next, Step
<1>2. req[s].pc = "organization" /\ req[s] \in Request /\ req[s].email \in Email
  BY <1>1, InFlight DEF SaveOrganization
<1>3. CASE orgs' = orgs /\ req' = [req EXCEPT ![s] = Idle]
  <2>1. SameEmails
    BY <1>3 DEF SaveOrganization, SameEmails, Exists
  <2>2. req'[s] = Idle /\ \A u \in Slot \ {s} : req'[u] = req[u]
    BY <1>1, <1>3 DEF Formed
  <2>3. CASE t = s
    BY <2>2, <2>3, IdleFormed DEF Registering
  <2>4. CASE t # s
    <3>1. req[t].pc = "member" => req[t].org # None
      BY <1>1, InFlight, OnboardingAssumption
    <3>2. req[t].pc = "member" =>
            /\ \A u \in Slot : req'[u].org = req[t].org => req[u].org = req[t].org
            /\ req[t].org \notin listening' /\ hours'[req[t].org] = hours[req[t].org]
      BY <3>1, <2>2, IdleFormed DEF IInv, Registering, SaveOrganization
    <3>3. QED BY <2>1, <2>2, <2>4, <3>2, RegisteringFrame
  <2>5. QED BY <2>3, <2>4
<1>4. ASSUME NEW o \in Org \ used,
             \A p \in Org : Exists(p) => orgs[p].email # req[s].email,
             orgs' = [orgs EXCEPT ![o] = [email |-> req[s].email, profile |-> {},
                                          slug |-> None, published |-> FALSE]],
             req' = [req EXCEPT ![s] = Registered(s, o)]
      PROVE  Registering(t)'
  <2>1. /\ Exists(o)' /\ orgs'[o].email = req[s].email
        /\ \A p \in Org \ {o} : orgs'[p] = orgs[p]
        /\ UNCHANGED <<members, hours, listening>>
    <3>1. [email |-> req[s].email, profile |-> {}, slug |-> None, published |-> FALSE] \in OrgRow
      BY <1>2 DEF OrgRow
    <3>2. QED BY <1>1, <1>4, <3>1, NoneAssumption DEF TypeOK, Exists, SaveOrganization
  <2>2. /\ Blank(o) /\ ~Exists(o)
        /\ \A u \in Slot : req[u].org # o
    BY OnboardingAssumption DEF IInv, Blank, Exists
  <2>3. /\ \A u \in Slot \ {s} : req'[u] = req[u]
        /\ req'[s] = Registered(s, o)
    BY <1>1, <1>4 DEF Formed
  <2>4. req'[s].pc = "member" /\ req'[s].org = o /\ req'[s].email = req[s].email
          /\ req'[s].raced = req[s].raced
    BY <1>2, <2>3 DEF Registered, Request
  <2>5. /\ \A m \in Member : members[m] # None => members[m].org # o
        /\ \A e : Taken(e)' <=> Taken(e)
    BY <2>1, <2>2 DEF IInv, TypeOK, MemberRow, Tied, Taken, TakenBut
  <2>6. CASE t = s
    <3>1. Taken(req[s].email) => req[s].raced
      BY <1>2 DEF IInv, Registering
    <3>2. QED BY <2>1, <2>2, <2>3, <2>4, <2>5, <2>6, <3>1 DEF Registering, Blank, Closed
  <2>7. CASE t # s
    <3>1. Registering(t) /\ (req[t].pc = "member" => req[t].org \in Org \ {o})
      BY <1>1, <2>2, InFlight DEF IInv
    <3>2. QED BY <2>1, <2>2, <2>3, <2>4, <2>5, <2>7, <3>1 DEF Registering, Exists, Closed
  <2>8. QED BY <2>6, <2>7
<1>5. QED BY <1>3, <1>4, Zenon DEF SaveOrganization, Become, Registered

\* The steps of other requests that belong to an organization do not touch one
\* that is being registered.
LEMMA RegisteringApart ==
    ASSUME IInv, NEW s \in Slot, req[s].pc \notin {"idle", "organization"},
           NEW t \in Slot \ {s}, req[t].pc = "member"
    PROVE  req[s].org # req[t].org
  BY DEF IInv, Registering

LEMMA RegisteringEnrols ==
    ASSUME IInv, NEW s \in Slot, SaveOwner(s) \/ SaveMember(s) \/ SaveChanges(s), NEW t \in Slot
    PROVE  Registering(t)'
<1>1. Formed /\ TypeOK
  BY DEF IInv, TypeOK, Formed
<1>2. req[s].pc \in {"member", "add", "change"} /\ UNCHANGED <<orgs, hours>>
  BY Enrolment
<1>3. Step(s) /\ req[s].org \in Org /\ listening' \subseteq listening \cup {req[s].org}
  BY <1>1, <1>2, InFlight DEF Step, SaveOwner, SaveMember, SaveChanges
<1>4. req'[s] = Idle /\ Others(s)
  <2>1. Ahead(s) = Idle
    BY <1>2 DEF Ahead
  <2>2. ~SaveOrganization(s)
    BY <1>2 DEF SaveOrganization
  <2>3. QED BY <1>1, <1>3, <2>1, <2>2, StepOthers
<1>5. CASE t = s
  BY <1>4, <1>5, IdleFormed DEF Registering
<1>6. CASE t # s
  <2>1. /\ Registering(t)
        /\ req[t].pc = "member" => req[t].org \in Org /\ req[s].org # req[t].org
    BY <1>1, <1>2, <1>6, InFlight, RegisteringApart DEF IInv
  <2>2. /\ req'[t].pc = req[t].pc /\ req'[t].org = req[t].org
        /\ req'[t].email = req[t].email /\ (req[t].raced => req'[t].raced)
    BY <1>4, <1>6 DEF Others
  <2>3. /\ req[t].pc \in {"organization", "member"} /\ Taken(req[t].email)' => req'[t].raced
        /\ req[t].pc = "member" =>
              \A n \in Member : members'[n] # None => members'[n].org # req[t].org
    <3>1. CASE members' = members
      BY <2>1, <2>2, <3>1 DEF Registering, Taken, TakenBut
    <3>2. ASSUME NEW m \in Member, NEW row, Enrols(s, m, row)
          PROVE  <2>3
      <4>1. req[t].pc \in {"organization", "member"} /\ req[t].email = req[s].email
              => req'[t].raced
        <5>1. req[t] \in Request
          BY <1>1 DEF Formed
        <5>2. QED BY <1>6, <3>2, <5>1 DEF Enrols, Raced, Request
      <4>2. req[t].pc \in {"organization", "member"} /\ Taken(req[t].email)' => req'[t].raced
        BY <2>1, <2>2, <3>2, <4>1, EnrolsOne DEF Registering
      <4>3. row.org = req[s].org
        BY <3>2 DEF Enrols
      <4>4. req[t].pc = "member" =>
              \A n \in Member : members'[n] # None => members'[n].org # req[t].org
        BY <2>1, <3>2, <4>3, EnrolsOne DEF Registering
      <4>5. QED BY <4>2, <4>4
    <3>3. QED BY <3>1, <3>2, Enrolment
  <2>4. CASE req[t].pc = "organization"
    BY <2>2, <2>3, <2>4 DEF Registering, Taken, TakenBut
  <2>5. CASE req[t].pc = "member"
    <3>1. req[t].org # None
      BY <2>1, <2>5, OnboardingAssumption
    <3>2. \A u \in Slot : req'[u].org = req[t].org => u = t
      BY <1>4, <2>1, <2>5, <3>1, IdleFormed DEF Registering, Others
    <3>3. QED
      BY <1>2, <1>3, <2>1, <2>2, <2>3, <2>5, <3>2 DEF Registering, Taken, TakenBut, Exists, Closed
  <2>6. QED BY <2>2, <2>4, <2>5 DEF Registering
<1>7. QED BY <1>5, <1>6

LEMMA RegisteringStep ==
    ASSUME IInv, [Next]_vars, NEW t \in Slot
    PROVE  Registering(t)'
<1>1. Formed /\ TypeOK /\ Registering(t)
  BY DEF IInv, TypeOK, Formed
<1>2. req[t].pc = "member" => req[t].org \in Org /\ req[t].org # None
  BY <1>1, InFlight, OnboardingAssumption
<1>3. CASE UNCHANGED vars
  BY <1>1, <1>3 DEF vars, Registering, Taken, TakenBut, Exists, Closed
<1>4. ASSUME NEW s \in Slot,
             \/ Begin(s) \/ SaveOrganization(s)
             \/ SaveOwner(s) \/ SaveMember(s) \/ SaveChanges(s)
      PROVE  Registering(t)'
  BY <1>4, RegisteringBegin, RegisteringSaveOrganization, RegisteringEnrols
<1>5. ASSUME NEW s \in Slot, SameEmails, Others(s),
             req'[s] = Idle \/ req'[s].pc \notin {"organization", "member"},
             req'[s].org \in {req[s].org, None},
             t # s /\ req[t].pc = "member" => /\ req[t].org \notin listening'
                                              /\ hours'[req[t].org] = hours[req[t].org]
      PROVE  Registering(t)'
  <2>1. CASE t = s
    BY <1>5, <2>1, IdleFormed DEF Registering
  <2>2. CASE t # s
    <3>1. \A u \in Slot : req'[u].org \in {req[u].org, None}
      BY <1>5 DEF Others
    <3>2. QED BY <1>2, <1>5, <2>2, <3>1, RegisteringFrame DEF Others
  <2>3. QED BY <2>1, <2>2
<1>6. ASSUME NEW s \in Slot,
             \/ SaveHour(s) \/ StartTransaction(s) \/ ClearHours(s) \/ SaveHours(s)
             \/ Commit(s) \/ UpdateLocation(s) \/ Publish(s)
      PROVE  Registering(t)'
  <2>1. /\ req[s].pc \notin {"idle", "organization", "member", "add", "change"}
        /\ listening' = listening
    BY <1>6 DEF SaveHour, StartTransaction, ClearHours, SaveHours, Commit, UpdateLocation, Publish
  <2>2. /\ Others(s)
        /\ req'[s] = Idle \/ req'[s].pc \notin {"organization", "member"}
        /\ req'[s].org \in {req[s].org, None}
    BY <1>1, <1>6, <2>1, StepGoesOn, IdleFormed DEF Step
  <2>3. SameEmails
    BY <1>1, <1>6, SameEmailsSteps
  <2>4. t # s /\ req[t].pc = "member" => hours'[req[t].org] = hours[req[t].org]
    <3>1. SUFFICES ASSUME t # s, req[t].pc = "member"
                   PROVE  hours'[req[t].org] = hours[req[t].org]
      OBVIOUS
    <3>2. req[s].org # req[t].org /\ req[t].org \in Org
      BY <1>2, <2>1, <3>1, RegisteringApart
    <3>3. CASE ClearHours(s)
      BY <1>1, <3>2, <3>3 DEF ClearHours, TypeOK
    <3>4. CASE SaveHour(s) \/ SaveHours(s)
      BY <1>1, <3>2, <3>4 DEF SaveHour, SaveHours, InsertHours, TypeOK
    <3>5. CASE hours' = hours
      BY <3>5
    <3>6. QED BY <1>6, <3>3, <3>4, <3>5 DEF StartTransaction, Commit, UpdateLocation, Publish
  <2>5. t # s /\ req[t].pc = "member" => req[t].org \notin listening'
    BY <1>1, <2>1 DEF Registering
  <2>6. QED BY <1>5, <2>2, <2>3, <2>4, <2>5
<1>7. ASSUME NEW s \in Slot, StatementFails(s)
      PROVE  Registering(t)'
  <2>1. Others(s) /\ req'[s] = Idle /\ UNCHANGED <<orgs, members, hours, listening>>
    BY <1>1, <1>7 DEF StatementFails, Become, Formed, Others
  <2>2. SameEmails
    BY <2>1 DEF SameEmails, Exists
  <2>3. QED BY <1>1, <1>5, <2>1, <2>2, IdleFormed DEF Registering
<1>8. CASE Die
  <2>1. req'[t] = Idle
    BY <1>8 DEF Die
  <2>2. QED BY <2>1, IdleFormed DEF Registering
<1>9. ASSUME NEW o \in Org, UNCHANGED req,
             \/ SaveDefaultHours(o)
             \/ \E d \in Day : RemoveHour(o, d)
             \/ \E part \in Details : Describe(o, part)
      PROVE  Registering(t)'
  <2>1. req[t].pc = "member" => req[t].org # o /\ req[t].org \notin listening
    BY <1>1, <1>9, RegisteringAlone
       DEF Registering, SaveDefaultHours, RemoveHour, Describe, Closed
  <2>2. req[t].pc = "member" => hours'[req[t].org] = hours[req[t].org]
    BY <1>1, <1>2, <1>9, <2>1 DEF SaveDefaultHours, RemoveHour, Describe, TypeOK
  <2>3. listening' \subseteq listening
    BY <1>9 DEF SaveDefaultHours, RemoveHour, Describe
  <2>4. SameEmails
    BY <1>1, <1>9, SameEmailsElse
  <2>5. QED BY <1>9, <2>1, <2>2, <2>3, <2>4, RegisteringFrame
<1>10. ASSUME NEW o \in Org, RemoveOrg(o)
       PROVE  Registering(t)'
  <2>1. req[t].pc = "member" => req[t].org # o
    BY <1>10, RegisteringAlone DEF RemoveOrg
  <2>2. /\ \A m \in Member : members'[m] \in {members[m], None}
        /\ UNCHANGED <<req, listening>>
    BY <1>10 DEF RemoveOrg
  <2>3. \A p \in Org \ {o} : orgs'[p] = orgs[p] /\ hours'[p] = hours[p]
    BY <1>1, <1>10 DEF RemoveOrg, TypeOK
  <2>4. \A e : Taken(e)' => Taken(e)
    BY <2>2 DEF Taken, TakenBut
  <2>5. CASE req[t].pc = "organization"
    BY <1>1, <2>2, <2>4, <2>5 DEF Registering
  <2>6. CASE req[t].pc = "member"
    BY <1>1, <1>2, <2>1, <2>2, <2>3, <2>4, <2>6 DEF Registering, Exists, Closed
  <2>7. QED BY <2>2, <2>5, <2>6 DEF Registering
<1>11. ASSUME NEW o \in Org, NEW m \in Member, RemoveMember(o, m)
       PROVE  Registering(t)'
  <2>1. /\ UNCHANGED <<orgs, hours, listening, req>>
        /\ \A n \in Member : members'[n] \in {members[n], None}
    BY <1>1, <1>11, MemberRemoved
  <2>2. \A e : Taken(e)' => Taken(e)
    BY <2>1 DEF Taken, TakenBut
  <2>3. CASE req[t].pc = "organization"
    BY <1>1, <2>1, <2>2, <2>3 DEF Registering
  <2>4. CASE req[t].pc = "member"
    BY <1>1, <2>1, <2>2, <2>4 DEF Registering, Exists, Closed
  <2>5. QED BY <2>1, <2>3, <2>4 DEF Registering
<1>12. QED
  BY <1>3, <1>4, <1>6, <1>7, <1>8, <1>9, <1>10, <1>11, Steps, Zenon DEF Step

-----------------------------------------------------------------------------
(* Updates of members in flight *)

\* A step that changes no member but removes some, and no update in flight.
LEMMA HoldingFrame ==
    ASSUME IInv, NEW t \in Slot, Formed',
           \A n \in Member : members'[n] \in {members[n], None},
           \A u \in Slot : \/ req'[u].member \notin Member
                           \/ /\ req'[u].member = req[u].member
                              /\ req'[u].org = req[u].org /\ req'[u].root = req[u].root
    PROVE  Holding(t)'
<1>1. SUFFICES ASSUME req'[t].pc = "change"
               PROVE  Holding(t)'
  BY DEF Holding
<1>2. req'[t].member \in Member
  BY <1>1 DEF Formed, WellFormed
<1>3. /\ req'[t].member = req[t].member
      /\ req'[t].org = req[t].org /\ req'[t].root = req[t].root
  BY <1>2
<1>4. req[t].pc = "change" /\ Holding(t)
  BY <1>2, <1>3 DEF IInv, WellFormed
<1>5. \A u \in Slot : req'[u].member = req[t].member
                        => /\ req[u].member = req[t].member
                           /\ req'[u].org = req[u].org /\ req'[u].root = req[u].root
  BY <1>2, <1>3
<1>6. QED BY <1>2, <1>3, <1>4, <1>5 DEF Holding

LEMMA HoldingBegin ==
    ASSUME IInv, NEW s \in Slot, Begin(s), NEW t \in Slot
    PROVE  Holding(t)'
<1>1. Formed /\ members' = members
  BY BeginFrame DEF IInv, TypeOK, Formed
<1>2. PICK r : Arrives(s, r)
  BY <1>1, BeginArrives
<1>3. req'[s] = r /\ WellFormed(r) /\ \A u \in Slot \ {s} : req'[u] = req[u]
  BY <1>1, <1>2 DEF Arrives, Moves, Formed
<1>4. SUFFICES ASSUME req'[t].pc = "change"
               PROVE  Holding(t)'
  BY DEF Holding
<1>5. \A u \in Slot \ {s} : req[u].member \in Member => req[u].pc = "change" /\ Holding(u)
  BY DEF IInv, WellFormed
<1>6. r.member \in Member => /\ members[r.member] # None
                             /\ members[r.member].org = r.org
                             /\ members[r.member].root = r.root
  BY <1>2, <1>3 DEF Arrives, WellFormed
<1>7. req'[t].member \in Member
  BY <1>3, <1>4, <1>5 DEF IInv, WellFormed
<1>8. CASE t = s
  BY <1>1, <1>3, <1>5, <1>6, <1>7, <1>8 DEF Holding
<1>9. CASE t # s
  BY <1>1, <1>3, <1>5, <1>6, <1>7, <1>9 DEF Holding
<1>10. QED BY <1>8, <1>9

LEMMA HoldingEnrols ==
    ASSUME IInv, NEW s \in Slot, NEW m \in Member, NEW row, Enrols(s, m, row), NEW t \in Slot
    PROVE  Holding(t)'
<1>1. Formed
  BY DEF IInv, TypeOK, Formed
<1>2. \A u \in Slot : \/ req'[u] = Idle
                      \/ /\ req'[u].pc = req[u].pc /\ req'[u].member = req[u].member
                         /\ req'[u].org = req[u].org /\ req'[u].root = req[u].root
  <2>1. \A u \in Slot : req[u] \in Request
    BY <1>1 DEF Formed
  <2>2. ASSUME NEW u \in Slot
        PROVE  req'[u] \in {Idle, req[u], [req[u] EXCEPT !.raced = TRUE]}
    BY DEF Enrols, Raced
  <2>3. QED BY <2>1, <2>2 DEF Request
<1>3. SUFFICES ASSUME req'[t].pc = "change"
               PROVE  Holding(t)'
  BY DEF Holding
<1>4. /\ req[t].pc = "change" /\ req[t].member \in Member /\ Holding(t)
      /\ req'[t].member = req[t].member
      /\ req'[t].org = req[t].org /\ req'[t].root = req[t].root
  BY <1>2, <1>3, IdleFormed DEF IInv, WellFormed
<1>5. Idle.member \notin Member
  BY IdleFormed DEF WellFormed
<1>6. \A u \in Slot : req'[u].member = req[t].member
                        => req'[u].org = req[t].org /\ req'[u].root = req[t].root
  BY <1>2, <1>4, <1>5 DEF Holding
<1>7. CASE req[t].member = m
  <2>1. /\ req[s].member = m
        /\ row.org = req[s].org /\ row.root = req[s].root
    BY <1>7 DEF Enrols, Fresh
  <2>2. req[s].org = req[t].org /\ req[s].root = req[t].root
    BY <1>4, <1>7, <2>1 DEF Holding
  <2>3. QED BY <1>4, <1>6, <1>7, <2>1, <2>2, EnrolsOne DEF Holding
<1>8. CASE req[t].member # m
  BY <1>4, <1>6, <1>8, EnrolsOne DEF Holding
<1>9. QED BY <1>7, <1>8

LEMMA HoldingStep ==
    ASSUME IInv, [Next]_vars, NEW t \in Slot
    PROVE  Holding(t)'
<1>1. Formed /\ TypeOK /\ Formed'
  BY FormedStep DEF IInv, TypeOK, Formed
<1>2. CASE UNCHANGED req /\ \A n \in Member : members'[n] \in {members[n], None}
  BY <1>1, <1>2, HoldingFrame
<1>3. Idle.member \notin Member
  BY IdleFormed DEF WellFormed
<1>4. ASSUME NEW s \in Slot, Others(s), members' = members,
             req'[s].member \notin Member
      PROVE  Holding(t)'
  <2>1. \A u \in Slot : \/ req'[u].member \notin Member
                        \/ /\ req'[u].member = req[u].member
                           /\ req'[u].org = req[u].org /\ req'[u].root = req[u].root
    BY <1>4 DEF Others
  <2>2. QED BY <1>1, <1>4, <2>1, HoldingFrame
<1>5. ASSUME NEW s \in Slot, Step(s)
      PROVE  Holding(t)'
  <2>1. CASE SaveOwner(s) \/ SaveMember(s) \/ SaveChanges(s)
    <3>1. CASE members' = members /\ req' = [req EXCEPT ![s] = Idle]
      <4>1. Others(s) /\ req'[s] = Idle
        BY <1>1, <3>1 DEF Others, Formed
      <4>2. QED BY <1>3, <1>4, <3>1, <4>1
    <3>2. QED BY <2>1, <3>1, Enrolment, HoldingEnrols
  <2>2. CASE ~(SaveOwner(s) \/ SaveMember(s) \/ SaveChanges(s))
    <3>1. req[s].pc \notin {"idle", "member", "add", "change"} /\ members' = members
      BY <1>5, <2>2, Zenon DEF Step, SaveOrganization, SaveHour, StartTransaction, ClearHours,
         SaveHours, Commit, UpdateLocation, Publish
    <3>2. req[s] \in Request /\ req[s].member \notin Member
      BY <1>1, <3>1 DEF Formed, WellFormed
    <3>3. Others(s) /\ req'[s].member \notin Member
      <4>1. CASE req[s].pc = "organization"
        <5>1. \A p : Registered(s, p).member = req[s].member
          BY <3>2 DEF Registered, Request
        <5>2. Ahead(s) = Idle
          BY <4>1 DEF Ahead
        <5>3. QED BY <1>1, <1>3, <1>5, <3>2, <5>1, <5>2, StepOthers
      <4>2. CASE req[s].pc # "organization"
        BY <1>1, <1>3, <1>5, <3>2, <4>2, StepGoesOn
      <4>3. QED BY <4>1, <4>2
    <3>4. QED BY <1>4, <3>1, <3>3
  <2>3. QED BY <2>1, <2>2
<1>6. ASSUME NEW s \in Slot, StatementFails(s)
      PROVE  Holding(t)'
  <2>1. Others(s) /\ req'[s] = Idle /\ members' = members
    BY <1>1, <1>6 DEF StatementFails, Become, Formed, Others
  <2>2. QED BY <1>3, <1>4, <2>1
<1>7. CASE Die
  <2>1. req'[t] = Idle
    BY <1>7 DEF Die
  <2>2. QED BY <2>1, IdleFormed DEF Holding
<1>8. ASSUME NEW o \in Org,
             \/ SaveDefaultHours(o)
             \/ \E d \in Day : RemoveHour(o, d)
             \/ \E part \in Details : Describe(o, part)
             \/ RemoveOrg(o)
             \/ \E m \in Member : RemoveMember(o, m)
      PROVE  UNCHANGED req /\ \A n \in Member : members'[n] \in {members[n], None}
  BY <1>1, <1>8, MemberRemoved DEF SaveDefaultHours, RemoveHour, Describe, RemoveOrg
<1>9. UNCHANGED vars => UNCHANGED <<req, members>>
  BY DEF vars
<1>10. QED BY <1>2, <1>5, <1>6, <1>7, <1>8, <1>9, HoldingBegin, Steps, Zenon

-----------------------------------------------------------------------------
(* Owners *)

\* What was blurred once stays so.
LEMMA BlurredGrows ==
    ASSUME IInv, [Next]_vars, NEW o \in Org
    PROVE  blurred[o] \subseteq blurred'[o]
<1>1. TypeOK
  BY DEF IInv
<1>2. CASE UNCHANGED blurred
  BY <1>2
<1>3. ASSUME NEW p \in Org, NEW what, Blur(p, what)
      PROVE  blurred[o] \subseteq blurred'[o]
  BY <1>1, <1>3 DEF Blur, TypeOK
<1>4. ASSUME NEW s \in Slot, Begin(s)
      PROVE  blurred[o] \subseteq blurred'[o]
  BY <1>2, <1>3, <1>4, BeginFrame
<1>5. ASSUME NEW s \in Slot, Step(s)
      PROVE  blurred[o] \subseteq blurred'[o]
  <2>1. CASE SaveOwner(s)
    <3>1. req[s].org \in Org
      BY <2>1, InFlight DEF SaveOwner, IInv, TypeOK, Formed
    <3>2. QED BY <1>2, <1>3, <2>1, <3>1 DEF SaveOwner, BlurIf
  <2>2. CASE ClearHours(s)
    <3>1. req[s].org \in Org
      BY <2>2, InFlight DEF ClearHours, IInv, TypeOK, Formed
    <3>2. QED BY <1>2, <1>3, <2>2, <3>1 DEF ClearHours, BlurIf
  <2>3. CASE UNCHANGED blurred
    BY <2>3
  <2>4. QED
    BY <1>5, <2>1, <2>2, <2>3, Zenon DEF Step, SaveOrganization, SaveMember, SaveChanges,
       SaveHour, StartTransaction, SaveHours, Commit, UpdateLocation, Publish
<1>6. CASE Die
  BY <1>6 DEF Die
<1>7. ASSUME NEW s \in Slot, StatementFails(s)
      PROVE  blurred[o] \subseteq blurred'[o]
  BY <1>7 DEF StatementFails
<1>8. ASSUME NEW p \in Org,
             \/ SaveDefaultHours(p)
             \/ \E d \in Day : RemoveHour(p, d)
             \/ \E part \in Details : Describe(p, part)
             \/ RemoveOrg(p)
      PROVE  UNCHANGED blurred
  BY <1>8, Zenon DEF SaveDefaultHours, RemoveHour, Describe, RemoveOrg
<1>9. ASSUME NEW p \in Org, NEW m \in Member, RemoveMember(p, m)
      PROVE  UNCHANGED blurred
  BY <1>9 DEF RemoveMember
<1>10. QED BY <1>2, <1>4, <1>5, <1>6, <1>7, <1>8, <1>9, Steps, Zenon DEF vars

\* An owner stays until the organization goes.
LEMMA OwnedStays ==
    ASSUME IInv, [Next]_vars, NEW o \in Org, Owned(o), Exists(o)'
    PROVE  Owned(o)'
<1>1. TypeOK /\ Formed
  BY DEF IInv, TypeOK, Formed
<1>2. CASE members' = members
  BY <1>2 DEF Owned
<1>3. ASSUME NEW s \in Slot, SaveOwner(s) \/ SaveMember(s) \/ SaveChanges(s)
      PROVE  Owned(o)'
  <2>1. ASSUME NEW m \in Member, NEW row, Enrols(s, m, row)
        PROVE  Owned(o)'
    <3>1. PICK n \in Member : members[n] # None /\ members[n].org = o /\ members[n].root
      BY DEF Owned
    <3>2. CASE n # m
      BY <2>1, <3>1, <3>2, EnrolsOne DEF Owned
    <3>3. CASE n = m
      <4>1. /\ req[s].pc = "change" /\ req[s].member = m
            /\ row.org = req[s].org /\ row.root = req[s].root
        BY <2>1, <3>1, <3>3 DEF Enrols, Fresh
      <4>2. row.org = o /\ row.root
        BY <3>1, <3>3, <4>1 DEF IInv, Holding
      <4>3. QED BY <2>1, <4>2, EnrolsOne DEF Owned
    <3>4. QED BY <3>2, <3>3
  <2>2. QED BY <1>2, <1>3, <2>1, Enrolment
<1>4. ASSUME NEW p \in Org, RemoveOrg(p)
      PROVE  Owned(o)'
  <2>1. p # o
    BY <1>1, <1>4 DEF RemoveOrg, TypeOK, Exists
  <2>2. \A n \in Member : members[n] # None /\ members[n].org = o => members'[n] = members[n]
    BY <1>4, <2>1 DEF RemoveOrg
  <2>3. QED BY <2>2 DEF Owned
<1>5. ASSUME NEW s \in Slot, SaveOrganization(s)
      PROVE  members' = members
  BY <1>5 DEF SaveOrganization
<1>6. ASSUME NEW p \in Org, NEW m \in Member, RemoveMember(p, m)
      PROVE  Owned(o)'
  <2>1. PICK n \in Member : members[n] # None /\ members[n].org = o /\ members[n].root
    BY DEF Owned
  <2>2. members'[n] = members[n]
    BY <1>1, <1>6, <2>1, MemberRemoved
  <2>3. QED BY <2>1, <2>2 DEF Owned
<1>7. QED BY <1>2, <1>3, <1>4, <1>5, <1>6, MostlySameEmails, Zenon DEF SameEmails

LEMMA OwnedStep ==
    ASSUME IInv, [Next]_vars
    PROVE  OwnedOrExcused'
<1>1. TypeOK /\ Formed /\ TypeOK'
  BY TypeStep DEF IInv, TypeOK, Formed
<1>2. SUFFICES ASSUME NEW o \in Org, Exists(o)'
               PROVE  Owned(o)' \/ At(o, {"member"})' # {} \/ "owner" \in blurred'[o]
  BY DEF OwnedOrExcused
<1>3. CASE ~Exists(o)
  <2>1. PICK s \in Slot : SaveOrganization(s)
    <3>1. ~SameEmails
      BY <1>2, <1>3 DEF SameEmails
    <3>2. ASSUME NEW s \in Slot, SaveOwner(s) \/ SaveMember(s) \/ SaveChanges(s) PROVE FALSE
      BY <1>2, <1>3, <3>2, Enrolment DEF Exists
    <3>3. ASSUME NEW p \in Org, RemoveOrg(p) PROVE FALSE
      BY <1>1, <1>2, <1>3, <3>3 DEF RemoveOrg, TypeOK, Exists
    <3>4. ASSUME NEW p \in Org, NEW m \in Member, RemoveMember(p, m) PROVE FALSE
      BY <1>2, <1>3, <3>4 DEF RemoveMember, Exists
    <3>5. QED BY <3>1, <3>2, <3>3, <3>4, MostlySameEmails, Zenon
  <2>2. req[s] \in Request
    BY <1>1 DEF TypeOK
  <2>3. req' = [req EXCEPT ![s] = Registered(s, o)]
    <3>1. PICK p \in Org : /\ req' = [req EXCEPT ![s] = Registered(s, p)]
                           /\ \A q \in Org \ {p} : orgs'[q] = orgs[q]
      <4>1. orgs' # orgs
        BY <1>2, <1>3 DEF Exists
      <4>2. PICK p \in Org \ used :
               /\ orgs' = [orgs EXCEPT ![p] = [email |-> req[s].email, profile |-> {},
                                               slug |-> None, published |-> FALSE]]
               /\ req' = [req EXCEPT ![s] = Registered(s, p)]
        BY <2>1, <4>1, Zenon DEF SaveOrganization, Become, Registered
      <4>3. QED BY <1>1, <4>2 DEF TypeOK
    <3>2. QED BY <1>2, <1>3, <3>1 DEF Exists
  <2>4. s \in At(o, {"member"})'
    BY <1>1, <2>2, <2>3 DEF Registered, Request, At, Formed
  <2>5. QED BY <2>4
<1>4. CASE Owned(o)
  BY <1>2, <1>4, OwnedStays
<1>5. CASE "owner" \in blurred[o]
  BY <1>5, BlurredGrows
<1>6. ASSUME NEW s \in Slot, req[s].pc = "member", req[s].org = o
      PROVE  Owned(o)' \/ At(o, {"member"})' # {} \/ "owner" \in blurred'[o]
  <2>1. CASE req'[s].pc = "member" /\ req'[s].org = o
    BY <2>1 DEF At
  <2>2. CASE SaveOwner(s)
    <3>1. CASE ~Taken(req[s].email)
      <4>1. PICK m \in Member :
               members' = [members EXCEPT ![m] = [email |-> req[s].email, org |-> o, root |-> TRUE]]
        BY <1>6, <2>2, <3>1 DEF SaveOwner
      <4>2. [email |-> req[s].email, org |-> o, root |-> TRUE] \in MemberRow
        BY <1>1, <1>6, InFlight DEF MemberRow
      <4>3. members'[m] # None /\ members'[m].org = o /\ members'[m].root
        BY <1>1, <4>1, <4>2, NoneAssumption DEF TypeOK
      <4>4. QED BY <4>3 DEF Owned
    <3>2. CASE Taken(req[s].email)
      <4>1. req[s].raced
        BY <1>6, <3>2 DEF IInv, Registering
      <4>2. Blur(o, "owner")
        BY <1>6, <2>2, <3>2, <4>1 DEF SaveOwner, BlurIf
      <4>3. QED BY <1>1, <4>2 DEF Blur, TypeOK
    <3>3. QED BY <3>1, <3>2
  <2>3. CASE StatementFails(s)
    <3>1. Spoils(s) = {"owner"}
      BY <1>6 DEF Spoils
    <3>2. QED BY <1>1, <1>6, <2>3, <3>1 DEF StatementFails
  <2>4. CASE Die
    <3>1. "owner" \in Spoils(s)
      BY <1>6 DEF Spoils
    <3>2. "owner" \in Lost(o)
      BY <1>6, <3>1 DEF Lost
    <3>3. QED BY <2>4, <3>2 DEF Die
  <2>5. ASSUME NEW u \in Slot \ {s}, Begin(u) \/ Step(u) \/ StatementFails(u)
        PROVE  req'[s].pc = "member" /\ req'[s].org = o
    <3>1. CASE Begin(u)
      <4>1. PICK r : Arrives(u, r)
        BY <1>1, <3>1, BeginArrives
      <4>2. QED BY <1>1, <1>6, <4>1 DEF Arrives, Moves, Formed
    <3>2. CASE Step(u)
      BY <1>1, <1>6, <3>2, StepOthers DEF Others
    <3>3. CASE StatementFails(u)
      BY <1>1, <1>6, <3>3 DEF StatementFails, Become, Formed
    <3>4. QED BY <2>5, <3>1, <3>2, <3>3
  <2>6. ~Begin(s)
    <3>1. \A r : ~Arrives(s, r)
      BY <1>6, IdleFormed DEF Arrives
    <3>2. QED BY <1>1, <3>1, BeginArrives
  <2>7. Step(s) => SaveOwner(s)
    BY <1>6 DEF Step, SaveOrganization, SaveMember, SaveChanges, SaveHour, StartTransaction,
                ClearHours, SaveHours, Commit, UpdateLocation, Publish
  <2>8. UNCHANGED req \/ (\E p \in Org : \E m \in Member : RemoveMember(p, m))
          => req'[s].pc = "member" /\ req'[s].org = o
    BY <1>6 DEF RemoveMember
  <2>9. QED
    BY <2>1, <2>2, <2>3, <2>4, <2>5, <2>6, <2>7, <2>8, Steps DEF vars
<1>7. QED BY <1>3, <1>4, <1>5, <1>6 DEF IInv, OwnedOrExcused, At

-----------------------------------------------------------------------------
(* The rows of organizations and the requests that write them *)

\* A request that is about to write a row was there before, or has just read it.
LEMMA Waiting ==
    ASSUME IInv, [Next]_vars, NEW t \in Slot,
           req'[t].pc \in {"hour", "locate", "publish"}
    PROVE  \/ /\ req'[t].pc = req[t].pc /\ req'[t].org = req[t].org
              /\ req'[t].days = req[t].days /\ req'[t].slug = req[t].slug
           \/ (Arrives(t, req'[t]) /\ UNCHANGED <<orgs, hours, listening, asked>>)
<1>1. Formed /\ TypeOK
  BY DEF IInv, TypeOK, Formed
<1>2. CASE UNCHANGED req
  BY <1>2
<1>3. ASSUME NEW s \in Slot, Begin(s)
      PROVE  req'[t] = req[t]
                \/ (Arrives(t, req'[t]) /\ UNCHANGED <<orgs, hours, listening, asked>>)
  <2>1. PICK r : Arrives(s, r)
    BY <1>1, <1>3, BeginArrives
  <2>2. req'[s] = r /\ \A u \in Slot \ {s} : req'[u] = req[u]
    BY <1>1, <2>1 DEF Arrives, Moves, Formed
  <2>3. QED BY <1>3, <2>1, <2>2, BeginFrame
<1>4. ASSUME NEW s \in Slot, Step(s)
      PROVE  t # s /\ Others(s)
  <2>1. CASE SaveOrganization(s)
    <3>1. req[s] \in Request
      BY <1>1 DEF Formed
    <3>2. \A o : Registered(s, o).pc = "member"
      BY <3>1 DEF Registered, Request
    <3>3. Ahead(s) = Idle
      BY <2>1 DEF Ahead, SaveOrganization
    <3>4. req'[s].pc \in {"idle", "member"} /\ Others(s)
      BY <1>1, <1>4, <3>2, <3>3, StepOthers, IdleFormed
    <3>5. QED BY <3>4
  <2>2. CASE ~SaveOrganization(s)
    <3>1. req[s].pc # "organization"
      BY <1>4, <2>2 DEF Step, SaveOwner, SaveMember, SaveChanges, SaveHour, StartTransaction,
                        ClearHours, SaveHours, Commit, UpdateLocation, Publish
    <3>2. QED BY <1>1, <1>4, <3>1, StepGoesOn, IdleFormed
  <2>3. QED BY <2>1, <2>2
<1>5. ASSUME NEW s \in Slot, StatementFails(s)
      PROVE  req'[t] = req[t]
  BY <1>1, <1>5, IdleFormed DEF StatementFails, Become, Formed
<1>6. ~Die
  BY IdleFormed DEF Die
<1>7. ASSUME NEW o \in Org, NEW m \in Member, RemoveMember(o, m)
      PROVE  req'[t] = req[t]
  BY <1>7 DEF RemoveMember
<1>8. QED BY <1>2, <1>3, <1>4, <1>5, <1>6, <1>7, Steps DEF vars, Others

\* Who can change the row of an organization that stays.
LEMMA RowChanges ==
    ASSUME IInv, [Next]_vars, NEW o \in Org, Exists(o), Exists(o)', orgs'[o] # orgs[o]
    PROVE  \/ \E s \in Slot : /\ UpdateLocation(s) \/ Publish(s)
                              /\ req[s].org = o
           \/ \E part \in Details : Describe(o, part)
<1>1. Formed /\ TypeOK
  BY DEF IInv, TypeOK, Formed
<1>2. ASSUME NEW s \in Slot, UpdateLocation(s) \/ Publish(s)
      PROVE  req[s].org = o
  <2>1. req[s].org \in Org
    BY <1>1, <1>2, InFlight DEF UpdateLocation, Publish
  <2>2. QED BY <1>1, <1>2, <2>1 DEF UpdateLocation, Publish, TypeOK
<1>3. ASSUME NEW s \in Slot, SaveOrganization(s)
      PROVE  FALSE
  <2>1. PICK p \in Org \ used :
           orgs' = [orgs EXCEPT ![p] = [email |-> req[s].email, profile |-> {},
                                        slug |-> None, published |-> FALSE]]
    BY <1>3, Zenon DEF SaveOrganization
  <2>2. ~Exists(p)
    BY DEF IInv, Blank, Exists
  <2>3. QED BY <1>1, <2>1, <2>2 DEF TypeOK
<1>4. ASSUME NEW p \in Org, RemoveOrg(p)
      PROVE  FALSE
  BY <1>1, <1>4 DEF RemoveOrg, TypeOK, Exists
<1>5. ASSUME NEW p \in Org, NEW part \in Details, Describe(p, part)
      PROVE  p = o
  BY <1>1, <1>5 DEF Describe, TypeOK
<1>6. ASSUME NEW s \in Slot,
             \/ Begin(s) \/ StatementFails(s) \/ SaveOwner(s) \/ SaveMember(s) \/ SaveChanges(s)
             \/ SaveHour(s) \/ StartTransaction(s) \/ ClearHours(s) \/ SaveHours(s) \/ Commit(s)
      PROVE  FALSE
  BY <1>6, BeginFrame DEF StatementFails, SaveOwner, SaveMember, SaveChanges, SaveHour, StartTransaction,
     ClearHours, SaveHours, Commit
<1>7. ASSUME NEW p \in Org, SaveDefaultHours(p) \/ \E d \in Day : RemoveHour(p, d)
      PROVE  FALSE
  BY <1>7 DEF SaveDefaultHours, RemoveHour
<1>8. ~Die /\ orgs' # orgs
  BY DEF Die
<1>9. ASSUME NEW p \in Org, NEW m \in Member, RemoveMember(p, m)
      PROVE  FALSE
  BY <1>9 DEF RemoveMember
<1>10. QED
  BY <1>2, <1>3, <1>4, <1>5, <1>6, <1>7, <1>8, <1>9, Steps, Zenon DEF Step, vars

\* A row that was not there is new.
LEMMA NewRow ==
    ASSUME IInv, [Next]_vars, NEW o \in Org, ~Exists(o), Exists(o)'
    PROVE  /\ o \notin used
           /\ orgs'[o].profile = {} /\ orgs'[o].slug = None /\ ~orgs'[o].published
           /\ UNCHANGED <<hours, listening, asked>>
           /\ \A t \in Slot : req'[t].org = o => req'[t].pc = "member"
<1>1. Formed /\ TypeOK
  BY DEF IInv, TypeOK, Formed
<1>2. PICK s \in Slot : SaveOrganization(s)
  <2>1. ~SameEmails
    BY DEF SameEmails
  <2>2. ASSUME NEW s \in Slot, SaveOwner(s) \/ SaveMember(s) \/ SaveChanges(s) PROVE FALSE
    BY <2>2, Enrolment DEF Exists
  <2>3. ASSUME NEW p \in Org, RemoveOrg(p) PROVE FALSE
    BY <1>1, <2>3 DEF RemoveOrg, TypeOK, Exists
  <2>4. ASSUME NEW p \in Org, NEW m \in Member, RemoveMember(p, m) PROVE FALSE
    BY <2>4 DEF RemoveMember, Exists
  <2>5. QED BY <2>1, <2>2, <2>3, <2>4, MostlySameEmails, Zenon
<1>3. PICK p \in Org \ used :
         /\ orgs' = [orgs EXCEPT ![p] = [email |-> req[s].email, profile |-> {},
                                         slug |-> None, published |-> FALSE]]
         /\ req' = [req EXCEPT ![s] = Registered(s, p)]
  <2>1. orgs' # orgs
    BY DEF Exists
  <2>2. QED BY <1>2, <2>1, Zenon DEF SaveOrganization, Become, Registered
<1>4. p = o
  BY <1>1, <1>3 DEF TypeOK, Exists
<1>5. req[s] \in Request /\ \A t \in Slot : req[t].org # o
  BY <1>1, <1>3, <1>4, OnboardingAssumption DEF Formed
<1>6. req'[s].pc = "member" /\ \A t \in Slot \ {s} : req'[t] = req[t]
  BY <1>1, <1>3, <1>5 DEF Registered, Request, Formed
<1>7. orgs'[o] = [email |-> req[s].email, profile |-> {}, slug |-> None, published |-> FALSE]
  BY <1>1, <1>3, <1>4 DEF TypeOK
<1>8. orgs'[o].profile = {} /\ orgs'[o].slug = None /\ ~orgs'[o].published
  BY <1>7
<1>9. UNCHANGED <<hours, listening, asked>>
  BY <1>2 DEF SaveOrganization
<1>10. \A t \in Slot : req'[t].org = o => req'[t].pc = "member"
  BY <1>5, <1>6
<1>11. QED BY <1>3, <1>4, <1>8, <1>9, <1>10

LEMMA PresentableStep ==
    ASSUME IInv, [Next]_vars, NEW o \in Org, Exists(o)'
    PROVE  Presentable(o)'
<1>1. Formed /\ TypeOK
  BY DEF IInv, TypeOK, Formed
<1>2. CASE ~Exists(o)
  BY <1>2, NewRow DEF Presentable, At
<1>3. CASE Exists(o)
  <2>1. Presentable(o)
    BY <1>3 DEF IInv
  <2>2. At(o, {"publish"})' # {} => Parts \subseteq orgs[o].profile
    <3>1. SUFFICES ASSUME NEW t \in Slot, req'[t].pc = "publish", req'[t].org = o
                   PROVE  Parts \subseteq orgs[o].profile
      BY DEF At
    <3>2. QED BY <2>1, <3>1, Waiting DEF Presentable, At, Arrives
  <2>3. CASE orgs'[o] = orgs[o]
    BY <2>1, <2>2, <2>3 DEF Presentable
  <2>4. ASSUME NEW s \in Slot, UpdateLocation(s), req[s].org = o
        PROVE  Presentable(o)'
    <3>1. req[s].slug \in Slot \cup {None}
      BY <1>1 DEF Formed, Request
    <3>2. orgs'[o].slug # None
      BY <1>1, <1>3, <2>4, <3>1, Located, OnboardingAssumption
    <3>3. orgs[o].profile \subseteq orgs'[o].profile /\ orgs'[o].published = orgs[o].published
      BY <1>1, <1>3, <2>4, Located
    <3>4. QED BY <2>1, <2>2, <3>2, <3>3 DEF Presentable
  <2>5. ASSUME NEW s \in Slot, Publish(s), req[s].org = o
        PROVE  Presentable(o)'
    <3>1. s \in At(o, {"publish"})
      BY <2>5 DEF At, Publish
    <3>2. orgs'[o].profile = orgs[o].profile /\ orgs'[o].slug = orgs[o].slug
      BY <1>1, <1>3, <2>5, Published
    <3>3. QED BY <2>1, <3>1, <3>2 DEF Presentable
  <2>6. ASSUME NEW part \in Details, Describe(o, part)
        PROVE  Presentable(o)'
    <3>1. /\ orgs'[o].profile = orgs[o].profile \cup {part}
          /\ orgs'[o].slug = orgs[o].slug /\ orgs'[o].published = orgs[o].published
      BY <1>1, <2>6, Described
    <3>2. part # "address"
      BY OnboardingAssumption
    <3>3. QED BY <2>1, <2>2, <3>1, <3>2 DEF Presentable
  <2>7. QED BY <1>3, <2>3, <2>4, <2>5, <2>6, RowChanges
<1>4. QED BY <1>2, <1>3

LEMMA SlugKept ==
    ASSUME IInv, [Next]_vars, NEW o \in Org, Exists(o), Exists(o)', "slug" \notin blurred[o],
           orgs[o].slug # None
    PROVE  orgs'[o].slug = orgs[o].slug
<1>1. Formed /\ TypeOK
  BY DEF IInv, TypeOK, Formed
<1>2. ASSUME NEW s \in Slot, UpdateLocation(s), req[s].org = o
      PROVE  orgs'[o].slug = orgs[o].slug
  <2>1. req[s].slug = orgs[o].slug
    BY <1>2 DEF IInv, SlugInOrder, At, UpdateLocation
  <2>2. QED BY <1>1, <1>2, <2>1, Located
<1>3. ASSUME NEW s \in Slot, Publish(s), req[s].org = o
      PROVE  orgs'[o].slug = orgs[o].slug
  BY <1>1, <1>3, Published
<1>4. ASSUME NEW part \in Details, Describe(o, part)
      PROVE  orgs'[o].slug = orgs[o].slug
  BY <1>1, <1>4, Described
<1>5. QED BY <1>2, <1>3, <1>4, RowChanges

LEMMA SlugStep ==
    ASSUME IInv, [Next]_vars, NEW o \in Org, Exists(o)', "slug" \notin blurred'[o]
    PROVE  SlugInOrder(o)'
<1>1. Formed /\ TypeOK /\ "slug" \notin blurred[o]
  BY BlurredGrows DEF IInv, TypeOK, Formed
<1>2. CASE ~Exists(o)
  BY <1>2, NewRow DEF SlugInOrder, At
<1>3. CASE Exists(o)
  <2>1. SlugInOrder(o)
    BY <1>1, <1>3 DEF IInv
  <2>2. SUFFICES ASSUME NEW t \in At(o, {"locate"})'
                 PROVE  /\ req'[t].slug = orgs'[o].slug
                        /\ req'[t].slug = None =>
                              \A u \in At(o, {"locate"})' : u = t
    BY DEF SlugInOrder
  <2> DEFINE Stays(u) == u \in At(o, {"locate"}) /\ req'[u].slug = req[u].slug
             Comes(u) == /\ Arrives(u, req'[u]) /\ UNCHANGED orgs
                         /\ req'[u].slug = orgs[o].slug
                         /\ \A v \in At(o, {"locate"}) : req[v].slug # None
  <2>3. ASSUME NEW u \in At(o, {"locate"})'
        PROVE  Stays(u) \/ Comes(u)
    <3>1. u \in Slot /\ req'[u].pc = "locate" /\ req'[u].org = o
      BY DEF At
    <3>2. QED BY <1>1, <3>1, Waiting DEF At, Arrives
  <2>4. ASSUME NEW u \in At(o, {"locate"})', NEW v \in At(o, {"locate"})', Comes(u), Comes(v)
        PROVE  u = v
    <3>1. u \in Slot /\ v \in Slot
      BY DEF At
    <3>2. req[v].pc = "idle" /\ req'[v].pc = "locate"
      BY <2>4, IdleFormed DEF Arrives, At
    <3>3. u # v => req'[v] = req[v]
      BY <1>1, <2>4, <3>1 DEF Arrives, Moves, Formed
    <3>4. QED BY <3>2, <3>3
  <2>5. CASE orgs'[o].slug = orgs[o].slug
    <3>1. req'[t].slug = orgs'[o].slug
      BY <2>1, <2>3, <2>5 DEF SlugInOrder
    <3>2. ASSUME req'[t].slug = None, NEW u \in At(o, {"locate"})'
          PROVE  u = t
      <4>1. CASE Stays(t) /\ Stays(u)
        BY <2>1, <3>2, <4>1 DEF SlugInOrder
      <4>2. CASE Comes(t) /\ Comes(u)
        BY <2>4, <4>2
      <4>3. CASE Stays(t) /\ Comes(u)
        BY <3>2, <4>3
      <4>4. CASE Comes(t) /\ Stays(u)
        BY <2>1, <3>2, <4>4 DEF SlugInOrder
      <4>5. QED BY <2>3, <4>1, <4>2, <4>3, <4>4
    <3>3. QED BY <3>1, <3>2
  <2>6. CASE orgs'[o].slug # orgs[o].slug
    <3>1. PICK s \in Slot : UpdateLocation(s) /\ req[s].org = o
      <4>1. ASSUME NEW s \in Slot, Publish(s), req[s].org = o
            PROVE  FALSE
        BY <1>1, <1>3, <2>6, <4>1, Published
      <4>2. ASSUME NEW part \in Details, Describe(o, part)
            PROVE  FALSE
        BY <1>1, <2>6, <4>2, Described
      <4>3. QED BY <1>3, <2>6, <4>1, <4>2, RowChanges
    <3>2. s \in At(o, {"locate"}) /\ req[s].slug = None
      <4>1. s \in At(o, {"locate"})
        BY <3>1 DEF At, UpdateLocation
      <4>2. req[s].slug = orgs[o].slug
        BY <2>1, <4>1 DEF SlugInOrder
      <4>3. orgs[o].slug = None
        BY <1>1, <1>3, <2>6, SlugKept
      <4>4. QED BY <4>1, <4>2, <4>3
    <3>3. req'[s] = Idle
      BY <1>1, <3>1 DEF UpdateLocation, Become, Formed
    <3>4. t # s
      BY <3>3, IdleFormed DEF At
    <3>5. QED BY <2>1, <2>3, <3>2, <3>4 DEF SlugInOrder
  <2>7. QED BY <2>5, <2>6
<1>4. QED BY <1>2, <1>3

-----------------------------------------------------------------------------
(* The opening hours *)

\* The requests between the two statements of a change.
Changing(t, o) == req[t].pc \in {"hour", "refill"} /\ req[t].org = o
Same(t) == req'[t].pc = req[t].pc /\ req'[t].org = req[t].org /\ req'[t].days = req[t].days

\* A step that leaves the hours of an organization alone, and the requests that
\* are changing them.
LEMMA HoursFrame ==
    ASSUME NEW o \in Org, HoursInOrder(o),
           hours'[o] = hours[o], asked'[o] = asked[o], o \in listening' <=> o \in listening,
           \A t \in Slot : Changing(t, o)' \/ (Changing(t, o) /\ req[t].pc = "refill") => Same(t)
    PROVE  HoursInOrder(o)'
<1>1. /\ At(o, {"hour", "refill"})' \subseteq At(o, {"hour", "refill"})
      /\ At(o, {"hour"})' \subseteq At(o, {"hour"})
      /\ At(o, {"refill"})' = At(o, {"refill"})
      /\ \A t \in At(o, {"hour", "refill"})' : req'[t].days = req[t].days
  BY DEF At, Changing, Same
<1>2. \A t \in At(o, {"hour"})' \cup At(o, {"refill"})' : t \in At(o, {"hour", "refill"})'
  BY DEF At
<1>3. QED BY <1>1, <1>2 DEF HoursInOrder, Closed

\* Where no change is under way, the rows are those asked for.
LEMMA HoursSettled ==
    ASSUME NEW o \in Org, o \notin listening', \A t \in Slot : ~Changing(t, o)',
           hours'[o] = asked'[o]
    PROVE  HoursInOrder(o)'
<1>1. At(o, {"hour", "refill"})' = {} /\ At(o, {"hour"})' = {} /\ At(o, {"refill"})' = {}
  BY DEF At, Changing
<1>2. QED BY <1>1 DEF HoursInOrder

\* Changing in terms of the invariant.
LEMMA HoursFacts ==
    ASSUME NEW o \in Org, HoursInOrder(o)
    PROVE  /\ \A s, t \in Slot : Changing(s, o) /\ Changing(t, o) => s = t
           /\ o \in listening => \A t \in Slot : ~Changing(t, o)
           /\ o \in listening => hours[o] = Closed /\ asked[o] = Once(Default)
           /\ \A t \in Slot : Changing(t, o) /\ req[t].pc = "refill"
                                 => hours[o] = Closed /\ asked[o] = req[t].days
           /\ \A t \in Slot : Changing(t, o) /\ req[t].pc = "hour"
                                 => \A d \in Day : req[t].days[d] = 0 \/ hours[o][d] = 0
           /\ o \notin listening /\ (\A t \in Slot : ~(Changing(t, o) /\ req[t].pc = "refill"))
                 => hours[o] = asked[o]
<1>1. \A t \in Slot : /\ Changing(t, o) <=> t \in At(o, {"hour", "refill"})
                      /\ Changing(t, o) /\ req[t].pc = "refill" <=> t \in At(o, {"refill"})
                      /\ Changing(t, o) /\ req[t].pc = "hour" <=> t \in At(o, {"hour"})
  BY DEF Changing, At
<1>2. /\ At(o, {"hour", "refill"}) \subseteq Slot
      /\ At(o, {"refill"}) \subseteq Slot
  BY DEF At
<1>3. QED BY <1>1, <1>2 DEF HoursInOrder

LEMMA HoursNewRow ==
    ASSUME IInv, [Next]_vars, NEW o \in Org, ~Exists(o), Exists(o)'
    PROVE  HoursInOrder(o)'
<1>1. Blank(o) /\ hours' = hours /\ listening' = listening /\ asked' = asked
  BY NewRow DEF IInv
<1>2. \A t \in Slot : ~Changing(t, o)'
  BY NewRow DEF Changing
<1>3. hours'[o] = asked'[o] /\ o \notin listening'
  BY <1>1 DEF Blank
<1>4. QED BY <1>2, <1>3, HoursSettled

LEMMA HoursBegin ==
    ASSUME IInv, NEW s \in Slot, Begin(s), NEW o \in Org, HoursInOrder(o),
           "hours" \notin blurred'[o]
    PROVE  HoursInOrder(o)'
<1>1. Formed /\ TypeOK
  BY DEF IInv, TypeOK, Formed
<1>2. PICK r : Arrives(s, r)
  BY <1>1, BeginArrives
<1>3. /\ req'[s] = r /\ \A t \in Slot \ {s} : req'[t] = req[t]
      /\ req[s].pc = "idle" /\ r.pc # "refill"
      /\ UNCHANGED <<orgs, hours, listening, asked>>
  BY <1>1, <1>2, BeginFrame, IdleFormed DEF Arrives, Moves, Formed
<1>4. CASE r.pc = "hour" /\ r.org = o
  <2>1. ~HoursBusy(o) /\ \A d \in Day : r.days[d] = 0 \/ hours[o][d] = 0
    BY <1>2, <1>4 DEF Arrives
  <2>2. o \notin listening /\ At(o, {"hour", "refill"}) = {}
    BY <2>1 DEF HoursBusy
  <2>3. /\ At(o, {"hour", "refill"})' = {s} /\ At(o, {"hour"})' = {s}
        /\ At(o, {"refill"})' = {} /\ At(o, {"refill"}) = {}
    BY <1>3, <1>4, <2>2 DEF At
  <2>4. QED BY <1>3, <2>1, <2>2, <2>3 DEF HoursInOrder
<1>5. CASE ~(r.pc = "hour" /\ r.org = o)
  <2>1. \A t \in Slot : Changing(t, o)' \/ (Changing(t, o) /\ req[t].pc = "refill") => Same(t)
    BY <1>3, <1>5 DEF Changing, Same
  <2>2. QED BY <1>3, <2>1, HoursFrame
<1>6. QED BY <1>4, <1>5

\* Statements of a change of other opening hours.
LEMMA HoursElsewhere ==
    ASSUME IInv, NEW s \in Slot, Step(s), NEW o \in Org, Exists(o), req[s].org # o,
           HoursInOrder(o)
    PROVE  HoursInOrder(o)'
<1>1. Formed /\ TypeOK
  BY DEF IInv, TypeOK, Formed
<1>2. Others(s)
  BY <1>1, StepOthers
<1>3. ~Changing(s, o)' /\ ~Changing(s, o)
  <2>1. CASE req[s].pc = "organization"
    <3>1. req[s] \in Request /\ Ahead(s) = Idle
      BY <1>1, <2>1 DEF Ahead, Formed
    <3>2. \A p : Registered(s, p).pc = "member"
      BY <3>1 DEF Registered, Request
    <3>3. req'[s].pc \in {"idle", "member"}
      BY <1>1, <3>1, <3>2, StepOthers, IdleFormed
    <3>4. QED BY <2>1, <3>3 DEF Changing
  <2>2. CASE req[s].pc # "organization"
    BY <1>1, <2>2, StepGoesOn, IdleFormed DEF Changing
  <2>3. QED BY <2>1, <2>2
<1>4. hours'[o] = hours[o] /\ asked'[o] = asked[o] /\ (o \in listening' <=> o \in listening)
  <2>1. CASE SaveOwner(s)
    BY <1>1, <2>1 DEF SaveOwner, TypeOK
  <2>2. CASE SaveHour(s)
    BY <1>1, <2>2 DEF SaveHour, InsertHours, TypeOK
  <2>3. CASE ClearHours(s)
    BY <1>1, <2>3 DEF ClearHours, TypeOK
  <2>4. CASE SaveHours(s)
    BY <1>1, <2>4 DEF SaveHours, InsertHours, TypeOK
  <2>5. CASE UNCHANGED <<hours, asked, listening>>
    BY <2>5
  <2>6. QED
    BY <2>1, <2>2, <2>3, <2>4, <2>5, Zenon DEF Step, SaveOrganization, SaveMember, SaveChanges,
       StartTransaction, Commit, UpdateLocation, Publish
<1>5. \A t \in Slot : Changing(t, o)' \/ (Changing(t, o) /\ req[t].pc = "refill") => Same(t)
  BY <1>2, <1>3 DEF Changing, Same, Others
<1>6. QED BY <1>4, <1>5, HoursFrame

LEMMA HoursSaveOwner ==
    ASSUME IInv, NEW s \in Slot, SaveOwner(s), NEW o \in Org, Exists(o), req[s].org = o,
           HoursInOrder(o)
    PROVE  HoursInOrder(o)'
<1>1. Formed /\ TypeOK
  BY DEF IInv, TypeOK, Formed
<1>2. req'[s] = Idle /\ Others(s)
  <2>1. req[s].pc = "member" /\ Step(s)
    BY DEF SaveOwner, Step
  <2>2. Ahead(s) = Idle /\ ~SaveOrganization(s)
    BY <2>1 DEF Ahead, SaveOrganization
  <2>3. QED BY <1>1, <2>1, <2>2, StepOthers
<1>3. /\ req[s].pc = "member" /\ hours[o] = Closed /\ UNCHANGED hours
      /\ \A t \in Slot : req[t].org = o => t = s
  BY DEF IInv, Registering, SaveOwner
<1>4. CASE ~Taken(req[s].email)
  <2>1. asked'[o] = Once(Default) /\ o \in listening'
    BY <1>1, <1>4 DEF SaveOwner, TypeOK
  <2>2. /\ At(o, {"hour", "refill"})' = {} /\ At(o, {"hour"})' = {}
        /\ At(o, {"refill"})' = {}
    BY <1>2, <1>3, IdleFormed DEF At, Others
  <2>3. QED BY <1>3, <2>1, <2>2 DEF HoursInOrder, Closed, Once
<1>5. CASE Taken(req[s].email)
  <2>1. UNCHANGED <<asked, listening>>
    BY <1>5 DEF SaveOwner
  <2>2. \A t \in Slot : Changing(t, o)' \/ (Changing(t, o) /\ req[t].pc = "refill") => Same(t)
    BY <1>2, <1>3, IdleFormed DEF Changing, Same, Others
  <2>3. QED BY <1>3, <2>1, <2>2, HoursFrame
<1>6. QED BY <1>4, <1>5

\* Rows added to none are the rows asked for.
LEMMA PlusClosed ==
    ASSUME NEW k \in Days
    PROVE  Plus(Closed, k) = k
  BY DEF Plus, Closed, Days

LEMMA HoursSaveHour ==
    ASSUME IInv, NEW s \in Slot, SaveHour(s), NEW o \in Org, Exists(o), req[s].org = o,
           HoursInOrder(o)
    PROVE  HoursInOrder(o)'
<1>1. Formed /\ TypeOK /\ req[s].days \in [Day -> Nat] /\ hours[o] \in [Day -> Nat]
  BY DEF IInv, TypeOK, Formed, Request, Days
<1>2. req'[s] = Idle /\ (\A t \in Slot \ {s} : req'[t] = req[t]) /\ UNCHANGED listening
  BY <1>1 DEF SaveHour, Become, Formed
<1>3. Changing(s, o) /\ req[s].pc = "hour"
  BY DEF Changing, SaveHour
<1>4. /\ o \notin listening
      /\ \A t \in Slot : Changing(t, o) => t = s
      /\ \A d \in Day : req[s].days[d] = 0 \/ hours[o][d] = 0
      /\ hours[o] = asked[o]
  BY <1>3, HoursFacts
<1>5. /\ hours'[o] = Plus(hours[o], req[s].days)
      /\ asked'[o] = [d \in Day |-> IF req[s].days[d] = 0 THEN asked[o][d] ELSE req[s].days[d]]
  BY <1>1 DEF SaveHour, InsertHours, TypeOK
<1>6. \A d \in Day : hours[o][d] + req[s].days[d]
                        = IF req[s].days[d] = 0 THEN asked[o][d] ELSE req[s].days[d]
  BY <1>1, <1>4
<1>7. hours'[o] = asked'[o]
  BY <1>5, <1>6 DEF Plus
<1>8. \A t \in Slot : ~Changing(t, o)'
  BY <1>2, <1>4, IdleFormed DEF Changing
<1>9. QED BY <1>2, <1>4, <1>7, <1>8, HoursSettled

LEMMA HoursClear ==
    ASSUME IInv, NEW s \in Slot, ClearHours(s), NEW o \in Org, Exists(o), req[s].org = o,
           HoursInOrder(o), "hours" \notin blurred'[o]
    PROVE  HoursInOrder(o)'
<1>1. Formed /\ TypeOK /\ req[s] \in Request
  BY DEF IInv, TypeOK, Formed
<1>2. ~HoursBusy(o)
  BY <1>1 DEF ClearHours, BlurIf, Blur, TypeOK
<1>3. o \notin listening /\ At(o, {"hour", "refill"}) = {}
  BY <1>2 DEF HoursBusy
<1>4. /\ hours'[o] = Closed /\ asked'[o] = req[s].days /\ UNCHANGED listening
      /\ req' = [req EXCEPT ![s] = [req[s] EXCEPT !.pc = "refill"]]
  BY <1>1 DEF ClearHours, Goto, Become, TypeOK
<1>5. /\ req'[s].pc = "refill" /\ req'[s].org = o /\ req'[s].days = req[s].days
      /\ \A t \in Slot \ {s} : req'[t] = req[t]
  BY <1>1, <1>4 DEF Formed, Request
<1>6. /\ At(o, {"hour", "refill"})' = {s} /\ At(o, {"refill"})' = {s}
      /\ At(o, {"hour"})' = {}
  BY <1>3, <1>5 DEF At
<1>7. QED BY <1>3, <1>4, <1>5, <1>6 DEF HoursInOrder, Closed

LEMMA HoursRefill ==
    ASSUME IInv, NEW s \in Slot, SaveHours(s), NEW o \in Org, Exists(o), req[s].org = o,
           HoursInOrder(o)
    PROVE  HoursInOrder(o)'
<1>1. Formed /\ TypeOK /\ req[s].days \in Days
  BY DEF IInv, TypeOK, Formed, Request
<1>2. Changing(s, o) /\ req[s].pc = "refill" /\ UNCHANGED <<listening, asked>>
  BY DEF Changing, SaveHours
<1>3. /\ o \notin listening
      /\ \A t \in Slot : Changing(t, o) => t = s
      /\ hours[o] = Closed /\ asked[o] = req[s].days
  BY <1>2, HoursFacts
<1>4. hours'[o] = Plus(hours[o], req[s].days)
  BY <1>1 DEF SaveHours, InsertHours, TypeOK
<1>5. hours'[o] = asked'[o]
  BY <1>1, <1>2, <1>3, <1>4, PlusClosed
<1>6. \A t \in Slot : ~Changing(t, o)'
  <2>1. req'[s] = Idle \/ req'[s].pc = "commit"
    BY <1>1, <1>2, StepGoesOn DEF Step
  <2>2. Others(s)
    BY <1>1, <1>2, StepGoesOn DEF Step
  <2>3. QED BY <1>3, <2>1, <2>2, IdleFormed DEF Changing, Others
<1>7. QED BY <1>2, <1>3, <1>5, <1>6, HoursSettled

LEMMA HoursDefault ==
    ASSUME IInv, NEW o \in Org, SaveDefaultHours(o), HoursInOrder(o)
    PROVE  HoursInOrder(o)'
<1>1. /\ UNCHANGED <<req, asked>> /\ o \notin listening'
      /\ hours'[o] = Plus(hours[o], Once(Default))
  BY DEF SaveDefaultHours, IInv, TypeOK
<1>2. hours[o] = Closed /\ asked[o] = Once(Default) /\ \A t \in Slot : ~Changing(t, o)
  BY HoursFacts DEF SaveDefaultHours
<1>3. Once(Default) \in Days
  BY DEF Once, Days
<1>4. hours'[o] = asked'[o]
  BY <1>1, <1>2, <1>3, PlusClosed
<1>5. \A t \in Slot : ~Changing(t, o)'
  BY <1>1, <1>2 DEF Changing
<1>6. QED BY <1>1, <1>4, <1>5, HoursSettled

LEMMA HoursRemove ==
    ASSUME IInv, NEW o \in Org, NEW d \in Day, RemoveHour(o, d), HoursInOrder(o)
    PROVE  HoursInOrder(o)'
<1>1. /\ UNCHANGED <<req, listening>>
      /\ hours[o] \in [Day -> Nat] /\ hours[o][d] > 0
      /\ hours'[o] = [hours[o] EXCEPT ![d] = @ - 1]
      /\ asked'[o] = [asked[o] EXCEPT ![d] = IF @ = 0 THEN 0 ELSE @ - 1]
  BY DEF RemoveHour, IInv, TypeOK, Days
<1>2. hours[o] # Closed
  BY <1>1 DEF Closed
<1>3. /\ o \notin listening
      /\ \A t \in Slot : ~(Changing(t, o) /\ req[t].pc = "refill")
      /\ hours[o] = asked[o]
  BY <1>2, HoursFacts
<1>4. hours'[o] = asked'[o]
  BY <1>1, <1>3
<1>5. At(o, {"refill"})' = {} /\ At(o, {"hour", "refill"})' = At(o, {"hour", "refill"})
        /\ At(o, {"hour"})' = At(o, {"hour"})
  BY <1>1, <1>3 DEF At, Changing
<1>6. \A e \in Day : hours[o][e] = 0 => hours'[o][e] = 0
  BY <1>1
<1>7. \A s \in At(o, {"hour"}) : \A e \in Day : req[s].days[e] = 0 \/ hours'[o][e] = 0
  BY <1>6 DEF HoursInOrder
<1>8. QED BY <1>1, <1>3, <1>4, <1>5, <1>7 DEF HoursInOrder

LEMMA HoursFail ==
    ASSUME IInv, NEW s \in Slot, StatementFails(s), NEW o \in Org, HoursInOrder(o),
           "hours" \notin blurred'[o]
    PROVE  HoursInOrder(o)'
<1>1. Formed /\ TypeOK
  BY DEF IInv, TypeOK, Formed
<1>2. req'[s] = Idle /\ (\A t \in Slot \ {s} : req'[t] = req[t])
        /\ UNCHANGED <<hours, asked, listening>>
  BY <1>1 DEF StatementFails, Become, Formed
<1>3. ~(Changing(s, o) /\ req[s].pc = "refill")
  <2>1. SUFFICES ASSUME req[s].org = o, req[s].pc = "refill"
                 PROVE  "hours" \in blurred'[o]
    BY DEF Changing
  <2>2. Spoils(s) = {"hours"}
    BY <2>1 DEF Spoils
  <2>3. QED BY <2>1, <2>2 DEF StatementFails
<1>4. \A t \in Slot : Changing(t, o)' \/ (Changing(t, o) /\ req[t].pc = "refill") => Same(t)
  BY <1>2, <1>3, IdleFormed DEF Changing, Same
<1>5. QED BY <1>2, <1>4, HoursFrame

LEMMA HoursDie ==
    ASSUME IInv, Die, NEW o \in Org, HoursInOrder(o), "hours" \notin blurred'[o]
    PROVE  HoursInOrder(o)'
<1>1. /\ UNCHANGED <<hours, asked>> /\ listening' = {}
      /\ \A t \in Slot : req'[t] = Idle
  BY DEF Die
<1>2. "hours" \notin Lost(o)
  BY DEF Die
<1>3. o \notin listening
  BY <1>2 DEF Lost
<1>4. ASSUME NEW t \in Slot, Changing(t, o), req[t].pc = "refill"
      PROVE  FALSE
  <2>1. "hours" \in Spoils(t)
    BY <1>4 DEF Spoils
  <2>2. QED BY <1>2, <1>4, <2>1 DEF Lost, Changing
<1>5. \A t \in Slot : Changing(t, o)' \/ (Changing(t, o) /\ req[t].pc = "refill") => Same(t)
  BY <1>1, <1>4, IdleFormed DEF Changing
<1>6. QED BY <1>1, <1>3, <1>5, HoursFrame

LEMMA HoursOwn ==
    ASSUME IInv, NEW s \in Slot, Step(s), NEW o \in Org, Exists(o), req[s].org = o,
           HoursInOrder(o), "hours" \notin blurred'[o]
    PROVE  HoursInOrder(o)'
<1>1. Formed /\ TypeOK
  BY DEF IInv, TypeOK, Formed
<1>2. ~SaveOrganization(s)
  BY OnboardingAssumption DEF IInv, WellFormed, SaveOrganization
<1>3. CASE \/ SaveMember(s) \/ SaveChanges(s) \/ StartTransaction(s) \/ Commit(s)
           \/ UpdateLocation(s) \/ Publish(s)
  <2>1. /\ req[s].pc \in {"add", "change", "begin", "commit", "locate", "publish"}
        /\ UNCHANGED <<hours, asked, listening>>
    BY <1>3 DEF SaveMember, SaveChanges, StartTransaction, Commit, UpdateLocation, Publish
  <2>2. Others(s) /\ req'[s].pc \notin {"hour", "refill"}
    BY <1>1, <2>1, StepGoesOn, IdleFormed
  <2>3. \A t \in Slot : Changing(t, o)' \/ (Changing(t, o) /\ req[t].pc = "refill") => Same(t)
    BY <2>1, <2>2 DEF Changing, Same, Others
  <2>4. QED BY <2>1, <2>3, HoursFrame
<1>4. QED
  BY <1>2, <1>3, HoursSaveOwner, HoursSaveHour, HoursClear, HoursRefill DEF Step

LEMMA HoursStep ==
    ASSUME IInv, [Next]_vars, NEW o \in Org, Exists(o)', "hours" \notin blurred'[o]
    PROVE  HoursInOrder(o)'
<1>1. Formed /\ TypeOK /\ "hours" \notin blurred[o]
  BY BlurredGrows DEF IInv, TypeOK, Formed
<1>2. CASE ~Exists(o)
  BY <1>2, HoursNewRow
<1>3. CASE Exists(o)
  <2>1. HoursInOrder(o)
    BY <1>1, <1>3 DEF IInv
  <2>2. CASE UNCHANGED req /\ hours'[o] = hours[o] /\ asked'[o] = asked[o]
               /\ (o \in listening' <=> o \in listening)
    BY <2>1, <2>2, HoursFrame DEF Changing, Same
  <2>3. ASSUME NEW s \in Slot, Step(s)
        PROVE  HoursInOrder(o)'
    BY <1>3, <2>1, <2>3, HoursOwn, HoursElsewhere
  <2>4. ASSUME NEW p \in Org, UNCHANGED req,
               \/ SaveDefaultHours(p)
               \/ \E d \in Day : RemoveHour(p, d)
               \/ \E part \in Details : Describe(p, part)
               \/ RemoveOrg(p)
        PROVE  HoursInOrder(o)'
    <3>1. CASE p = o /\ ~RemoveOrg(p)
      <4>1. CASE \E part \in Details : Describe(p, part)
        BY <2>2, <2>4, <4>1 DEF Describe
      <4>2. QED BY <2>1, <2>4, <3>1, <4>1, HoursDefault, HoursRemove
    <3>2. ~(p = o /\ RemoveOrg(p))
      BY <1>1 DEF RemoveOrg, Exists, TypeOK
    <3>3. CASE p # o
      <4>1. hours'[o] = hours[o]
        BY <1>1, <2>4, <3>3 DEF SaveDefaultHours, RemoveHour, Describe, RemoveOrg, TypeOK
      <4>2. asked'[o] = asked[o] /\ (o \in listening' <=> o \in listening)
        BY <1>1, <2>4, <3>3 DEF SaveDefaultHours, RemoveHour, Describe, RemoveOrg, TypeOK
      <4>3. QED BY <2>2, <2>4, <4>1, <4>2
    <3>4. QED BY <3>1, <3>2, <3>3
  <2>5. UNCHANGED vars \/ (\E p \in Org : \E m \in Member : RemoveMember(p, m))
          => HoursInOrder(o)'
    BY <2>2 DEF vars, RemoveMember
  <2>6. QED
    BY <2>1, <2>3, <2>4, <2>5, HoursBegin, HoursFail, HoursDie, Steps, Zenon
<1>4. QED BY <1>2, <1>3

-----------------------------------------------------------------------------
(* The theorems *)

\* The state after Init, and after every step from a state of the invariant.
LEMMA InitInvariant ==
    ASSUME Init
    PROVE  IInv
<1>1. TypeOK
  BY IdleFormed DEF Init, TypeOK, Closed, Days
<1>2. \A s \in Slot : WellFormed(req[s]) /\ req[s].org = None /\ req[s].pc = "idle"
  BY IdleFormed DEF Init
<1>3. \A o \in Org : ~Exists(o) /\ Blank(o)
  BY DEF Init, Exists, Blank, Closed
<1>4. \A m \in Member : Tied(m)
  BY DEF Init, Tied
<1>5. UniqueEmails /\ OwnedOrExcused
  BY <1>3 DEF UniqueEmails, OwnedOrExcused
<1>6. \A s \in Slot : Registering(s) /\ Holding(s)
  BY <1>2 DEF Registering, Holding
<1>7. QED BY <1>1, <1>2, <1>3, <1>4, <1>5, <1>6 DEF IInv

LEMMA NextInvariant ==
    ASSUME IInv, [Next]_vars
    PROVE  IInv'
<1>1. \A s \in Slot : Registering(s)' /\ Holding(s)'
  BY RegisteringStep, HoldingStep
<1>2. \A s \in Slot : WellFormed(req'[s]) /\ req'[s].org \in used' \cup {None}
  BY FormedStep DEF Formed
<1>3. ASSUME NEW o \in Org, Exists(o)'
      PROVE  /\ Presentable(o)'
             /\ "hours" \notin blurred'[o] => HoursInOrder(o)'
             /\ "slug" \notin blurred'[o] => SlugInOrder(o)'
  BY <1>3, PresentableStep, HoursStep, SlugStep
<1>4. QED
  BY <1>1, <1>2, <1>3, TypeStep, BlankStep, EmailStep, OwnedStep DEF IInv, WellFormed

\* The invariant of the onboarding of organizations (AuthService
\* .createOrganization, OrgScheduleService, PublicationService) holds throughout.
THEOREM OnboardingInvariant == Spec => []IInv
<1>1. Init => IInv
  BY InitInvariant
<1>2. IInv /\ [Next]_vars => IInv'
  BY NextInvariant
<1>3. QED BY <1>1, <1>2, PTL DEF Spec

\* Every variable keeps its type.
THEOREM OnboardingTypes == Spec => []TypeOK
<1>1. IInv => TypeOK
  BY DEF IInv
<1>2. QED BY <1>1, OnboardingInvariant, PTL

\* An organization without an owner is one whose registration, the two saves of
\* createOrganization, is under way, was cut short or lost its e-mail to a
\* member whom MembersService.create or update gave it after the check.
THEOREM Ownership == Spec => []OwnedOrExcused
<1>1. IInv => OwnedOrExcused
  BY DEF IInv
<1>2. QED BY <1>1, OnboardingInvariant, PTL

\* Changes of the opening hours that neither overlap nor stop midway leave the
\* rows that were asked for last, each day as often as the body names it.
THEOREM OpeningHours == Spec => []HoursAsAsked
<1>1. ASSUME IInv
      PROVE  HoursAsAsked
  <2>1. SUFFICES ASSUME NEW o \in Org, Exists(o), "hours" \notin blurred[o]
                 PROVE  \/ hours[o] = asked[o]
                        \/ hours[o] = Closed /\ (o \in listening \/ At(o, {"refill"}) # {})
    BY DEF HoursAsAsked
  <2>2. HoursInOrder(o)
    BY <1>1, <2>1 DEF IInv
  <2>3. QED BY <2>2 DEF HoursInOrder
<1>2. IInv => HoursAsAsked
  BY <1>1
<1>3. QED BY <1>2, OnboardingInvariant, PTL

\* What publishOrganization has opened to the public has a slug and all that
\* the public page reads.
THEOREM PublicPages == Spec => []PublicPage
<1>1. ASSUME IInv
      PROVE  PublicPage
  <2>1. SUFFICES ASSUME NEW o \in Org, Exists(o), orgs[o].published
                 PROVE  orgs[o].slug # None /\ Parts \subseteq orgs[o].profile
    BY DEF PublicPage
  <2>2. QED BY <1>1, <2>1 DEF IInv, Presentable, Parts
<1>2. IInv => PublicPage
  BY <1>1
<1>3. QED BY <1>2, OnboardingInvariant, PTL

\* updateLocation never moves a public page that has its address, as long as no
\* two requests that found none overlap.
THEOREM SlugsStay == Spec => SlugStays
<1>1. ASSUME IInv, [Next]_vars
      PROVE  \A o \in Org :
               Exists(o) /\ Exists(o)' /\ orgs[o].slug # None /\ "slug" \notin blurred[o]
               => orgs'[o].slug = orgs[o].slug
  BY <1>1, SlugKept
<1>2. QED BY <1>1, OnboardingInvariant, PTL DEF Spec, SlugStays

=============================================================================
