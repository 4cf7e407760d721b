--------------------------- MODULE BookingProofs ---------------------------
(* Proofs about Booking for any number of appointments, requests, baskets    *)
(* and start times, and, after them, about the connections of Pool, which    *)
(* the bookings' transactions hold, for any number of those and of calls.    *)
EXTENDS Booking, Pool, FiniteSetTheorems, SequenceTheorems, TLAPS

-----------------------------------------------------------------------------
(* Type correctness *)

LEMMA IdleType == Idle \in Request
  BY DEF Idle, Arriving, Request, Body, NoBody, Status, Op

LEMMA BodyType == ASSUME NEW op, NEW body \in Bodies(op) PROVE body \in Body
<1>1. CASE op \in {"create", "update"}
  <2>1. body \in [basket : Basket, start : StartTimes, status : DtoStatus]
    BY <1>1 DEF Bodies
  <2>2. QED BY <2>1, BookingAssumption DEF Body
<1>2. CASE op = "reschedule"
  <2>1. body \in [basket : {None}, start : StartTimes, status : {"pending"}]
    BY <1>2 DEF Bodies
  <2>2. QED BY <2>1, BookingAssumption DEF Body, Status
<1>3. CASE op \notin {"create", "update", "reschedule"}
  BY <1>3 DEF Bodies, Body, NoBody, Status
<1>4. QED BY <1>1, <1>2, <1>3

\* The slot changes are all of these kinds.
LEMMA FinishType == ASSUME TypeOK, NEW s \in Slot, Finish(s)
                    PROVE  req' \in [Slot -> Request]
  BY IdleType DEF Finish, TypeOK

LEMMA GotoType ==
    ASSUME TypeOK, NEW s \in Slot,
           NEW pc \in {"insert", "items", "save", "find", "clear", "pay"},
           Goto(s, pc)
    PROVE  req' \in [Slot -> Request]
  BY DEF Goto, TypeOK, Request

LEMMA ThrowType == ASSUME TypeOK, NEW s \in Slot, req[s] # Idle,
                          req[s].id # None, Throw(s)
                   PROVE  req' \in [Slot -> Request] /\ disturbed' \subseteq Appt
  BY FinishType DEF Throw, Finish, TypeOK, Request

\* What a slot has in hand when it is at work.
LEMMA ArrivingType ==
    ASSUME NEW op \in Op, NEW pc \in {"insert", "read"}, NEW a \in Appt,
           NEW body \in Body
    PROVE  Arriving(op, pc, a, body) \in Request
  BY DEF Arriving, Request

LEMMA EntityType ==
    ASSUME TypeOK, NEW s \in Slot, req[s].body.basket \in Basket
    PROVE  Entity(s) \in Row /\ Batch(s) \in Items
<1>1. req[s].body \in Body
  BY DEF TypeOK, Request
<1>2. Time[req[s].body.basket] \in Nat /\ Cost[req[s].body.basket] \in Nat
  BY BookingAssumption
<1>3. QED BY <1>1, <1>2 DEF Entity, Batch, Row, Items, Body

\* Ending a request, or all of them, keeps slots well formed.
LEMMA FinishInv ==
    ASSUME TypeInv, NEW s \in Slot, Finish(s), used' = used
    PROVE  req' \in [Slot -> Request] /\ \A t \in Slot : WellFormed(t)'
<1>1. req' \in [Slot -> Request]
  BY FinishType DEF TypeInv
<1>2. ASSUME NEW t \in Slot PROVE WellFormed(t)'
  <2>1. CASE t = s
    BY <2>1 DEF Finish, TypeInv, TypeOK, WellFormed, Idle, Arriving
  <2>2. CASE t # s
    BY <2>2 DEF Finish, TypeInv, TypeOK, WellFormed, Idle
  <2>3. QED BY <2>1, <2>2
<1>3. QED BY <1>1, <1>2

LEMMA DieInv ==
    ASSUME TypeInv, Die, used' = used
    PROVE  /\ req' \in [Slot -> Request]
           /\ disturbed' \subseteq Appt
           /\ \A t \in Slot : WellFormed(t)'
<1>1. req' \in [Slot -> Request]
  BY IdleType DEF Die
<1>2. ASSUME NEW t \in Slot, Midway(t) PROVE req[t].id \in Appt
  BY <1>2 DEF TypeInv, TypeOK, WellFormed, Midway, Request
<1>3. disturbed' \subseteq Appt
  BY <1>2 DEF Die, TypeInv, TypeOK
<1>4. \A t \in Slot : WellFormed(t)'
  BY DEF Die, WellFormed, Idle, Arriving
<1>5. QED BY <1>1, <1>3, <1>4

LEMMA ThrowInv ==
    ASSUME TypeInv, NEW s \in Slot, req[s] # Idle, Throw(s), used' = used
    PROVE  /\ req' \in [Slot -> Request]
           /\ disturbed' \subseteq Appt
           /\ \A t \in Slot : WellFormed(t)'
<1>1. req[s].id \in Appt
  BY DEF TypeInv, TypeOK, WellFormed, Request
<1>2. disturbed' \subseteq Appt
  BY <1>1 DEF Throw, TypeInv, TypeOK
<1>3. QED BY <1>2, FinishInv DEF Throw

\* A slot that moves on at a place its operation has.
LEMMA GotoInv ==
    ASSUME TypeInv, NEW s \in Slot, used' = used, req[s].pc # "idle",
           NEW pc \in {"items", "save", "find"},
           Goto(s, pc),
           pc \in {"items", "save"} => req[s].op \in {"create", "update"},
           pc = "find" => req[s].op = "complete"
    PROVE  req' \in [Slot -> Request] /\ \A t \in Slot : WellFormed(t)'
<1>1. req' \in [Slot -> Request]
  BY GotoType DEF TypeInv
<1>2. ASSUME NEW t \in Slot PROVE WellFormed(t)'
  <2>1. CASE t = s
    BY <2>1 DEF Goto, TypeInv, TypeOK, WellFormed, Idle, Arriving, Request
  <2>2. CASE t # s
    BY <2>2 DEF Goto, TypeInv, TypeOK, WellFormed, Idle
  <2>3. QED BY <2>1, <2>2
<1>3. QED BY <1>1, <1>2

LEMMA ReadInv ==
    ASSUME TypeInv, NEW s \in Slot, NEW op \in Op \ {"create"},
           NEW refused, NEW next \in {"clear", "write", "erase"},
           Read(s, op, refused, next), next = "clear" <=> op = "update"
    PROVE  TypeInv'
<1> DEFINE a == req[s].id
<1>1. a \in Appt /\ used' = used
  BY DEF TypeInv, TypeOK, WellFormed, Request, Read, At, Idle, Arriving
<1>2. CASE ~(Exists(a) /\ rows[a].status \notin refused)
  BY <1>2, FinishInv DEF Read, TypeInv, TypeOK
<1>3. CASE Exists(a) /\ rows[a].status \notin refused
  <2>1. rows[a].cost \in Nat /\ items[a].time \in Nat
    BY <1>1, <1>3 DEF TypeInv, TypeOK, Exists, Row, Items
  <2>2. req' \in [Slot -> Request]
    BY <1>3, <2>1 DEF Read, TypeInv, TypeOK, Request
  <2>3. ASSUME NEW t \in Slot PROVE WellFormed(t)'
    <3>1. CASE t = s
      BY <3>1, <1>3 DEF Read, At, TypeInv, TypeOK, WellFormed, Idle, Arriving, Request
    <3>2. CASE t # s
      BY <3>2, <1>3 DEF Read, TypeInv, TypeOK, WellFormed, Idle
    <3>3. QED BY <3>1, <3>2
  <2>4. QED BY <2>2, <2>3 DEF Read, TypeInv, TypeOK
<1>4. QED BY <1>2, <1>3

LEMMA InitType == Init => TypeInv
<1> SUFFICES ASSUME Init PROVE TypeInv
  OBVIOUS
<1>1. TypeOK
  BY IdleType DEF Init, TypeOK, Items, NoItems
<1>2. \A s \in Slot : WellFormed(s)
  BY DEF Init, WellFormed, Idle, Arriving
<1>3. QED BY <1>1, <1>2 DEF TypeInv

LEMMA BeginType ==
    ASSUME TypeInv, NEW s \in Slot, NEW op \in Op,
           BeginCreate(s) \/ Begin(s, op)
    PROVE  TypeInv'
<1>1. CASE BeginCreate(s)
  <2>1. PICK a \in Appt \ used, body \in Bodies("create") :
          /\ req' = [req EXCEPT ![s] = Arriving("create", "insert", a, body)]
          /\ used' = used \cup {a}
    BY <1>1 DEF BeginCreate
  <2>2. Arriving("create", "insert", a, body) \in Request
    BY ArrivingType, BodyType DEF Op
  <2>3. body.basket \in Basket
    BY DEF Bodies
  <2>4. ASSUME NEW t \in Slot PROVE WellFormed(t)'
    BY <2>1, <2>3 DEF WellFormed, Arriving, Idle, TypeInv, TypeOK
  <2>5. QED BY <1>1, <2>1, <2>2, <2>4 DEF BeginCreate, TypeInv, TypeOK
<1>2. CASE Begin(s, op)
  <2>1. PICK a \in used, body \in Bodies(op) :
          /\ req' = [req EXCEPT ![s] = Arriving(op, "read", a, body)]
          /\ disturbed' = IF Quiet(a) THEN disturbed ELSE disturbed \cup {a}
    BY <1>2 DEF Begin
  <2>2. a \in Appt /\ op # "create" /\ used' = used
    BY <1>2 DEF TypeInv, TypeOK, Begin
  <2>3. Arriving(op, "read", a, body) \in Request
    BY <2>2, ArrivingType, BodyType
  <2>4. op = "update" => body.basket \in Basket
    BY DEF Bodies
  <2>5. ASSUME NEW t \in Slot PROVE WellFormed(t)'
    BY <2>1, <2>2, <2>4 DEF WellFormed, Arriving, Idle, TypeInv, TypeOK
  <2>6. QED BY <1>2, <2>1, <2>2, <2>3, <2>5 DEF Begin, TypeInv, TypeOK
<1>3. QED BY <1>1, <1>2

LEMMA StepType ==
    ASSUME TypeInv, NEW s \in Slot, Step(s)
    PROVE  TypeInv'
<1> DEFINE a == req[s].id
<1>1. req[s].pc # "idle" => a \in Appt
  BY DEF TypeInv, TypeOK, WellFormed
<1>2. req[s] \in Request /\ req[s].body \in Body
  BY DEF TypeInv, TypeOK, Request
<1>3. CASE Insert(s)
  <2>1. [status |-> req[s].body.status, start |-> req[s].body.start,
         end |-> 0, cost |-> 0] \in Row
    BY <1>2 DEF Row, Body
  <2>2. QED BY <1>1, <1>3, <2>1, GotoInv DEF Insert, At, TypeInv, TypeOK
<1>4. CASE SaveBookingItems(s)
  <2>1. req[s].op \in {"create", "update"} /\ req[s] # Idle
    BY <1>4 DEF SaveBookingItems, TypeInv, WellFormed, Idle, Arriving
  <2>2. CASE Throw(s) /\ items' = items
    BY <1>4, <2>1, <2>2, ThrowInv DEF SaveBookingItems, TypeInv, TypeOK
  <2>3. CASE /\ items' = [items EXCEPT ![a] = Plus(@, Batch(s))]
             /\ Goto(s, "save") /\ disturbed' = disturbed
    <3>1. Batch(s) \in Items
      BY <2>1, EntityType DEF TypeInv, WellFormed
    <3>2. Plus(items[a], Batch(s)) \in Items
      BY <3>1, <1>1, <1>4 DEF Plus, Items, TypeInv, TypeOK, SaveBookingItems
    <3>3. QED
      BY <1>4, <2>1, <2>3, <3>2, GotoInv DEF SaveBookingItems, TypeInv, TypeOK
  <2>4. QED BY <1>4, <2>2, <2>3 DEF SaveBookingItems
<1>5. CASE SaveCreated(s)
  <2>1. Entity(s) \in Row /\ Batch(s) \in Items /\ NoItems \in Items
    BY <1>5, EntityType DEF SaveCreated, At, TypeInv, WellFormed, NoItems, Items
  <2>2. QED BY <1>1, <1>5, <2>1, FinishInv DEF SaveCreated, At, TypeInv, TypeOK
<1>6. CASE ReadForUpdate(s)
  BY <1>6, ReadInv DEF ReadForUpdate, Op
<1>7. CASE ClearItems(s)
  <2>1. NoItems \in Items
    BY DEF NoItems, Items
  <2>2. QED BY <1>1, <1>7, <2>1, GotoInv DEF ClearItems, At, TypeInv, TypeOK
<1>8. CASE SaveUpdated(s)
  <2>1. Entity(s) \in Row
    BY <1>8, EntityType DEF SaveUpdated, At, TypeInv, WellFormed
  <2>2. QED BY <1>1, <1>8, <2>1, FinishInv DEF SaveUpdated, At, TypeInv, TypeOK
<1>9. ASSUME NEW st \in Status, SetStatus(s, st), req[s].pc # "idle"
      PROVE  rows' \in [Appt -> Row \cup {None}]
  BY <1>1, <1>9 DEF SetStatus, TypeInv, TypeOK, Row
<1>10. CASE ReadForConfirm(s)
  BY <1>10, ReadInv DEF ReadForConfirm, Op
<1>11. CASE ConfirmBooking(s)
  BY <1>9, <1>11, FinishInv DEF ConfirmBooking, At, Status, TypeInv, TypeOK
<1>12. CASE ReadForCancel(s)
  BY <1>12, ReadInv DEF ReadForCancel, Op
<1>13. CASE CancelBooking(s)
  BY <1>9, <1>13, FinishInv DEF CancelBooking, At, Status, TypeInv, TypeOK
<1>14. CASE ReadForComplete(s)
  BY <1>14, ReadInv DEF ReadForComplete, Op
<1>15. CASE CompleteBooking(s)
  <2>1. due' \in [Appt -> Nat \cup {None}]
    BY <1>1, <1>15 DEF CompleteBooking, At, Exists, TypeInv, TypeOK, Row
  <2>2. QED
    BY <1>9, <1>15, <2>1, GotoInv DEF CompleteBooking, At, Status, TypeInv, TypeOK
<1>16. CASE FindPayment(s)
  <2>1. req' \in [Slot -> Request]
    <3>1. CASE payment[a] # None
      <4>1. req' = [req EXCEPT ![s] = [req[s] EXCEPT !.pc = "pay", !.known = TRUE]]
        BY <1>16, <3>1 DEF FindPayment
      <4>2. [req[s] EXCEPT !.pc = "pay", !.known = TRUE] \in Request
        BY <1>2 DEF Request
      <4>3. QED BY <4>1, <4>2 DEF TypeInv, TypeOK
    <3>2. CASE payment[a] = None
      <4>1. req' = [req EXCEPT ![s] = [req[s] EXCEPT !.pc = "pay", !.known = FALSE]]
        BY <1>16, <3>2 DEF FindPayment
      <4>2. [req[s] EXCEPT !.pc = "pay", !.known = FALSE] \in Request
        BY <1>2 DEF Request
      <4>3. QED BY <4>1, <4>2 DEF TypeInv, TypeOK
    <3>3. QED BY <3>1, <3>2
  <2>2. ASSUME NEW t \in Slot PROVE WellFormed(t)'
    BY <1>16 DEF FindPayment, At, WellFormed, TypeInv, TypeOK, Idle, Arriving, Request
  <2>3. QED BY <1>16, <2>1, <2>2 DEF FindPayment, TypeInv, TypeOK
<1>17. CASE SavePayment(s)
  <2>1. CASE Die /\ payment' = payment
    BY <1>17, <2>1, DieInv DEF SavePayment, TypeInv, TypeOK
  <2>2. CASE /\ payment' = [payment EXCEPT ![a] = req[s].price]
             /\ Finish(s) /\ disturbed' = disturbed
    BY <1>1, <1>2, <1>17, <2>2, FinishInv
    DEF SavePayment, At, TypeInv, TypeOK, Request
  <2>3. QED BY <1>17, <2>1, <2>2 DEF SavePayment
<1>18. CASE ReadForReschedule(s)
  BY <1>18, ReadInv DEF ReadForReschedule, Op
<1>19. CASE RescheduleBooking(s)
  <2>1. req[s].body.start \in Nat /\ req[s].total \in Nat
    BY <1>2 DEF Body, Request
  <2>2. rows' \in [Appt -> Row \cup {None}]
    <3>1. CASE rows[a] = None
      BY <1>1, <1>19, <3>1 DEF RescheduleBooking, At, TypeInv, TypeOK
    <3>2. CASE rows[a] # None
      <4>1. rows[a] \in Row
        BY <1>1, <1>19, <3>2 DEF RescheduleBooking, At, TypeInv, TypeOK
      <4>2. [rows[a] EXCEPT !.start = req[s].body.start,
                            !.end = req[s].body.start + req[s].total] \in Row
        <5>1. req[s].body.start + req[s].total \in Nat
          BY <2>1
        <5>2. QED BY <2>1, <4>1, <5>1, Zenon DEF Row
      <4>3. QED
        BY <1>1, <1>19, <3>2, <4>2 DEF RescheduleBooking, At, TypeInv, TypeOK
    <3>3. QED BY <3>1, <3>2
  <2>3. QED BY <1>19, <2>2, FinishInv DEF RescheduleBooking, TypeInv, TypeOK
<1>20. CASE ReadForRemove(s)
  BY <1>20, ReadInv DEF ReadForRemove, Op
<1>21. CASE Erase(s)
  <2>1. NoItems \in Items
    BY DEF NoItems, Items
  <2>2. QED BY <1>1, <1>21, <2>1, FinishInv DEF Erase, At, TypeInv, TypeOK
<1>22. QED
  BY <1>3, <1>4, <1>5, <1>6, <1>7, <1>8, <1>10, <1>11, <1>12, <1>13, <1>14,
     <1>15, <1>16, <1>17, <1>18, <1>19, <1>20, <1>21 DEF Step

LEMMA FaultType ==
    ASSUME TypeInv, Crash \/ \E s \in Slot : StatementFails(s)
    PROVE  TypeInv'
<1>1. CASE Crash
  BY <1>1, DieInv DEF Crash, TypeInv, TypeOK
<1>2. CASE \E s \in Slot : StatementFails(s)
  BY <1>2, DieInv, ThrowInv DEF StatementFails, TypeInv, TypeOK
<1>3. QED BY <1>1, <1>2

LEMMA NextType == TypeInv /\ [Next]_vars => TypeInv'
<1> SUFFICES ASSUME TypeInv, [Next]_vars PROVE TypeInv'
  OBVIOUS
<1>1. CASE UNCHANGED vars
  BY <1>1 DEF vars, TypeInv, TypeOK, WellFormed
<1>2. CASE Next
  BY <1>2, BeginType, StepType, FaultType DEF Next, Op
<1>3. QED BY <1>1, <1>2

\* Every variable has its type in every reachable state, and a slot at work
\* carries what its operation reads, whatever failed or was left behind.
THEOREM TypeCorrect == Spec => []TypeInv
<1>1. Init => TypeInv
  BY InitType
<1>2. TypeInv /\ [Next]_vars => TypeInv'
  BY NextType
<1>3. QED BY <1>1, <1>2, PTL DEF Spec

-----------------------------------------------------------------------------
(* The inductive invariant.  A statement of a slot touches one booking, so   *)
(* what it must preserve is about that booking alone.                        *)

\* A step of slot s touches its booking a, and no other slot.
Local(s, a) ==
    /\ \A b \in Appt \ {a} :
          /\ rows'[b] = rows[b] /\ items'[b] = items[b]
          /\ payment'[b] = payment[b] /\ due'[b] = due[b]
          /\ b \in removed' <=> b \in removed
          /\ b \in disturbed' <=> b \in disturbed
    /\ \A t \in Slot \ {s} : req'[t] = req[t]
    /\ req'[s] = Idle \/ (req'[s].id = a /\ req'[s].pc # "insert")
    /\ a \in disturbed => a \in disturbed'
    /\ used' = used

\* What is left to show of a local step: its own booking is as it should be.
Kept(s, a) ==
    /\ ~Exists(a)' => payment'[a] = None /\ items'[a] = NoItems
    /\ a \notin disturbed' =>
          /\ req'[s].id = a => Underway(s, a)'
          /\ (req'[s].id = a => ~Midway(s)') => InOrder(a)'
          /\ a \in removed' => ~Exists(a)'

LEMMA LocalStep ==
    ASSUME IInv, TypeInv', NEW s \in Slot, NEW a \in Appt,
           req[s].pc # "idle", req[s].id = a, Local(s, a), Kept(s, a)
    PROVE  IInv'
<1>1. a \in used
  BY DEF IInv, TypeInv, TypeOK, WellFormed
<1>2. Idle.id = None /\ Idle.pc = "idle" /\ None \notin Appt
  BY BookingAssumption DEF Idle, Arriving
<1>3. BlankUntilInserted'
  <2>1. ASSUME NEW b \in Appt \ used PROVE Blank(b)' /\ b \notin removed'
    BY <1>1, <2>1 DEF Local, Blank, IInv, BlankUntilInserted
  <2>2. ASSUME NEW t \in Slot, req'[t].pc = "insert"
        PROVE  /\ Blank(req[t].id)' /\ req'[t].id \notin removed'
               /\ \A u \in Slot : req'[u].id = req'[t].id => u = t
    <3>1. t # s /\ req'[t] = req[t]
      BY <2>2, <1>2 DEF Local
    <3>2. req[t].id # a /\ req[t].id \in Appt
      BY <3>1, <2>2 DEF IInv, BlankUntilInserted, TypeInv, TypeOK, WellFormed
    <3>3. Blank(req[t].id) /\ req[t].id \notin removed
      BY <3>1, <2>2 DEF IInv, BlankUntilInserted
    <3>4. ASSUME NEW u \in Slot, req'[u].id = req'[t].id PROVE u = t
      <4>1. u # s
        BY <3>1, <3>2, <3>4, <1>2 DEF Local
      <4>2. QED BY <4>1, <3>1, <3>4, <2>2 DEF Local, IInv, BlankUntilInserted
    <3>5. QED
      <4>1. PICK b \in Appt : b = req[t].id
        BY <3>2
      <4>2. b = req'[t].id /\ Blank(b)' /\ b \notin removed'
        BY <3>1, <3>2, <3>3, <4>1 DEF Local, Blank
      <4>3. QED BY <4>2, <3>4 DEF Blank
  <2>3. QED BY <2>1, <2>2 DEF Local, BlankUntilInserted
<1>4. NothingOutlivesAppointment'
  <2>1. ASSUME NEW b \in Appt, ~Exists(b)'
        PROVE  payment'[b] = None /\ items'[b] = NoItems
    <3>1. CASE b = a
      BY <2>1, <3>1 DEF Kept
    <3>2. CASE b # a
      BY <2>1, <3>2 DEF Local, Exists, IInv, NothingOutlivesAppointment
    <3>3. QED BY <3>1, <3>2
  <2>2. QED BY <2>1 DEF NothingOutlivesAppointment
<1>5. ASSUME NEW b \in Appt \ disturbed' PROVE OneAtATime(b)'
  <2>1. CASE b = a
    <3>1. a \notin disturbed /\ a \notin disturbed'
      BY <2>1 DEF Local
    <3>2. \A t \in Slot \ {s} : req'[t].id # a
      BY <3>1, <1>1 DEF Local, IInv, OneAtATime
    <3>3. QED BY <2>1, <3>1, <3>2 DEF Kept, OneAtATime
  <2>2. CASE b # a
    <3>1. OneAtATime(b) /\ b \notin disturbed
      BY <2>2 DEF Local, IInv
    <3>2. req[s].id # b /\ req'[s].id # b
      BY <2>2, <1>2 DEF Local
    <3>3. /\ Exists(b)' <=> Exists(b)
          /\ Consistent(b)' <=> Consistent(b)
          /\ InOrder(b)' <=> InOrder(b)
      BY <2>2 DEF Local, Exists, Consistent, InOrder
    <3>4. ASSUME NEW t \in Slot, req'[t].id = b
          PROVE  /\ req[t].id = b /\ t # s
                 /\ Underway(t, b)' <=> Underway(t, b)
                 /\ Midway(t)' <=> Midway(t)
      <4>1. t # s /\ req'[t] = req[t]
        BY <3>2, <3>4 DEF Local
      <4>2. Batch(t)' = Batch(t)
        BY <4>1 DEF Batch
      <4>3. QED BY <4>1, <4>2, <3>3, <3>4, <2>2
                DEF Local, Underway, Midway
    <3>5. \A t \in Slot : req[t].id = b => req'[t].id = b /\ (Midway(t)' <=> Midway(t))
      BY <3>2 DEF Local, Midway
    <3>6. QED BY <3>1, <3>3, <3>4, <3>5, <2>2 DEF OneAtATime, Local
  <2>3. QED BY <2>1, <2>2
<1>6. QED BY <1>3, <1>4, <1>5 DEF IInv

\* When the process dies, what stays undisturbed was in nobody's hands.
LEMMA DieStep ==
    ASSUME IInv, TypeInv', Die,
           UNCHANGED <<rows, items, payment, used, removed, due>>
    PROVE  IInv'
<1>1. \A s \in Slot : req'[s] = Idle
  BY DEF Die
<1>2. Idle.id = None /\ Idle.pc = "idle" /\ None \notin Appt
  BY BookingAssumption DEF Idle, Arriving
<1>3. BlankUntilInserted' /\ NothingOutlivesAppointment'
  BY <1>1, <1>2 DEF IInv, BlankUntilInserted, NothingOutlivesAppointment, Blank, Exists
<1>4. ASSUME NEW b \in Appt \ disturbed' PROVE OneAtATime(b)'
  <2>1. OneAtATime(b) /\ \A s \in Slot : req[s].id = b => ~Midway(s)
    BY DEF Die, IInv
  <2>2. InOrder(b)' /\ (b \in removed' => ~Exists(b)')
    BY <2>1 DEF OneAtATime, InOrder, Consistent, Exists
  <2>3. QED BY <1>1, <1>2, <2>2 DEF OneAtATime
<1>5. QED BY <1>3, <1>4 DEF IInv

\* What the invariant says of the booking a slot is at work on.
LEMMA InHand ==
    ASSUME IInv, NEW s \in Slot, req[s].pc # "idle"
    PROVE  /\ req[s].id \in Appt
           /\ req[s].id \notin disturbed =>
                /\ Underway(s, req[s].id)
                /\ ~Midway(s) => InOrder(req[s].id)
                /\ req[s].id \in removed => ~Exists(req[s].id)
           /\ ~Exists(req[s].id) => /\ payment[req[s].id] = None
                                    /\ items[req[s].id] = NoItems
<1>1. req[s].id \in Appt
  BY DEF IInv, TypeInv, TypeOK, WellFormed
<1>2. PICK a \in Appt : a = req[s].id
  BY <1>1
<1>3. ~Exists(a) => payment[a] = None /\ items[a] = NoItems
  BY DEF IInv, NothingOutlivesAppointment
<1>4. ASSUME a \notin disturbed
      PROVE  /\ Underway(s, a) /\ (~Midway(s) => InOrder(a))
             /\ a \in removed => ~Exists(a)
  <2>1. OneAtATime(a)
    BY <1>4 DEF IInv
  <2>2. QED BY <1>2, <2>1 DEF OneAtATime
<1>5. QED BY <1>2, <1>3, <1>4

LEMMA IdleFacts == Idle.id = None /\ Idle.pc = "idle" /\ None \notin Appt
  BY BookingAssumption DEF Idle, Arriving

\* A handler's read, found or refused.
LEMMA ReadStep ==
    ASSUME IInv, TypeInv', NEW s \in Slot, NEW op \in Op \ {"create"},
           NEW refused, NEW next \in {"clear", "write", "erase"},
           op \in {"confirm", "cancel"} => "completed" \in refused,
           Read(s, op, refused, next)
    PROVE  IInv'
<1>1. PICK a \in Appt : a = req[s].id /\ req[s].pc = "read" /\ req[s].op = op
  BY InHand DEF Read, At
<1>2. /\ a \notin disturbed => InOrder(a) /\ (a \in removed => ~Exists(a))
      /\ ~Exists(a) => payment[a] = None /\ items[a] = NoItems
  BY <1>1, InHand DEF Midway
<1>3. UNCHANGED <<rows, items, payment, used, removed, disturbed, due>>
  BY DEF Read
<1>4. InOrder(a)' <=> InOrder(a)
  BY <1>3 DEF InOrder, Consistent, Exists
<1>5. CASE ~(Exists(a) /\ rows[a].status \notin refused)
  <2>1. req' = [req EXCEPT ![s] = Idle]
    BY <1>1, <1>5 DEF Read, Finish
  <2>2. req'[s] = Idle /\ \A t \in Slot \ {s} : req'[t] = req[t]
    BY <2>1 DEF IInv, TypeInv, TypeOK
  <2>3. Local(s, a)
    BY <1>3, <2>2 DEF Local
  <2>4. Kept(s, a)
    BY <1>2, <1>3, <1>4, <2>2, IdleFacts DEF Kept, Exists
  <2>5. QED BY <1>1, <2>3, <2>4, LocalStep
<1>6. CASE Exists(a) /\ rows[a].status \notin refused
  <2>1. /\ req'[s].pc = next /\ req'[s].id = a /\ req'[s].op = op
        /\ req'[s].price = IF op = "complete" THEN rows[a].cost ELSE 0
        /\ req'[s].total = IF op = "reschedule" THEN items[a].time ELSE 0
        /\ \A t \in Slot \ {s} : req'[t] = req[t]
    BY <1>1, <1>6 DEF Read, IInv, TypeInv, TypeOK, Request
  <2>2. Local(s, a)
    BY <1>3, <2>1 DEF Local
  <2>3. Underway(s, a)'
    BY <1>3, <1>6, <2>1 DEF Underway, Exists
  <2>4. Kept(s, a)
    BY <1>2, <1>3, <1>4, <1>6, <2>1, <2>3 DEF Kept, Exists
  <2>5. QED BY <1>1, <2>2, <2>4, LocalStep
<1>7. QED BY <1>5, <1>6

\* A handler throws and leaves what it has written.
LEMMA ThrowStep ==
    ASSUME IInv, TypeInv', NEW s \in Slot, req[s].pc # "idle", Throw(s),
           UNCHANGED <<rows, items, payment, used, removed, due>>
    PROVE  IInv'
<1>1. PICK a \in Appt : a = req[s].id
  BY InHand
<1>2. req'[s] = Idle /\ \A t \in Slot \ {s} : req'[t] = req[t]
  BY DEF Throw, Finish, IInv, TypeInv, TypeOK
<1>3. Local(s, a)
  BY <1>1, <1>2 DEF Local, Throw
<1>4. InOrder(a)' <=> InOrder(a)
  BY DEF InOrder, Consistent, Exists
<1>5. Kept(s, a)
  BY <1>1, <1>2, <1>4, InHand, IdleFacts DEF Kept, Exists, Throw
<1>6. QED BY <1>1, <1>3, <1>5, LocalStep

LEMMA InitStep == Init => IInv
<1> SUFFICES ASSUME Init PROVE IInv
  OBVIOUS
<1>1. TypeInv
  BY InitType
<1>2. BlankUntilInserted /\ NothingOutlivesAppointment
  BY IdleFacts DEF Init, BlankUntilInserted, NothingOutlivesAppointment, Blank, Exists
<1>3. \A a \in Appt : OneAtATime(a)
  BY IdleFacts DEF Init, OneAtATime, InOrder, Exists
<1>4. QED BY <1>1, <1>2, <1>3 DEF IInv

\* A request takes slot s: a create of a new id, or any other request.
LEMMA ArriveStep ==
    ASSUME IInv, TypeInv', NEW s \in Slot, NEW a \in Appt, NEW o, NEW body,
           NEW pc \in {"insert", "read"},
           req' = [req EXCEPT ![s] = Arriving(o, pc, a, body)],
           req[s] = Idle,
           UNCHANGED <<rows, items, payment, removed, due>>,
           \/ /\ pc = "insert" /\ a \notin used /\ used' = used \cup {a}
              /\ disturbed' = disturbed
           \/ /\ pc = "read" /\ a \in used /\ used' = used
              /\ \A t \in Slot : ~(At(t, "create", "insert") /\ req[t].id = a)
              /\ disturbed' = IF Quiet(a) THEN disturbed ELSE disturbed \cup {a}
    PROVE  IInv'
<1>2. /\ req'[s].id = a /\ req'[s].pc = pc
      /\ \A t \in Slot \ {s} : req'[t] = req[t]
  BY DEF Arriving, IInv, TypeInv, TypeOK
<1>3. \A t \in Slot : req[t].id # None => req[t].id \in used /\ req[t].pc # "idle"
  BY IdleFacts DEF IInv, TypeInv, WellFormed
<1>4. \A t \in Slot : req[t].pc = "insert" => At(t, "create", "insert") /\ t # s
  BY IdleFacts DEF At, IInv, TypeInv, WellFormed
<1>5. BlankUntilInserted'
  <2>1. \A b \in Appt \ used' : Blank(b)' /\ b \notin removed'
    BY DEF Blank, IInv, BlankUntilInserted
  <2>2. ASSUME NEW t \in Slot, NEW b, req'[t].pc = "insert", b = req'[t].id
        PROVE  /\ Blank(b)' /\ b \notin removed'
               /\ \A u \in Slot : req'[u].id = b => u = t
    <3>1. CASE t = s
      <4>1. b = a /\ a \notin used
        BY <1>2, <2>2, <3>1
      <4>2. Blank(b)' /\ b \notin removed'
        BY <4>1 DEF Blank, IInv, BlankUntilInserted
      <4>3. QED BY <1>2, <1>3, <3>1, <4>1, <4>2, IdleFacts
    <3>2. CASE t # s
      <4>1. req[t].pc = "insert" /\ b = req[t].id
        BY <1>2, <2>2, <3>2
      <4>2. b # a
        BY <1>3, <1>4, <4>1, IdleFacts DEF IInv, TypeInv, WellFormed, At
      <4>3. QED BY <1>2, <4>1, <4>2 DEF Blank, IInv, BlankUntilInserted
    <3>3. QED BY <3>1, <3>2
  <2>3. QED BY <2>1, <2>2 DEF BlankUntilInserted, Blank
<1>6. NothingOutlivesAppointment'
  BY DEF IInv, NothingOutlivesAppointment, Exists
<1>7. ASSUME NEW b \in Appt \ disturbed' PROVE OneAtATime(b)'
  <2>1. OneAtATime(b) /\ b \notin disturbed
    BY DEF IInv
  <2>2. (InOrder(b)' <=> InOrder(b)) /\ (Exists(b)' <=> Exists(b))
    BY DEF InOrder, Consistent, Exists
  <2>3. CASE b = a
    <3>1. \A t \in Slot : req[t].id # a
      BY <1>3, <2>3, IdleFacts DEF Quiet
    <3>2. \A t \in Slot : req'[t].id = a => t = s
      BY <1>2, <3>1
    <3>3. InOrder(b)
      BY <2>1, <2>3, <3>1 DEF OneAtATime
    <3>4. Underway(s, b)'
      BY <1>2 DEF Underway
    <3>5. QED BY <2>1, <2>2, <2>3, <3>2, <3>3, <3>4 DEF OneAtATime
  <2>4. CASE b # a
    <3>1. req[s].id # b /\ req'[s].id # b
      BY <1>2, <2>4, IdleFacts
    <3>2. ASSUME NEW t \in Slot, t # s
          PROVE  /\ req'[t].id = req[t].id
                 /\ Underway(t, b)' <=> Underway(t, b)
                 /\ Midway(t)' <=> Midway(t)
      <4>1. req'[t] = req[t] /\ Batch(t)' = Batch(t)
        BY <1>2, <3>2 DEF Batch
      <4>2. QED BY <4>1 DEF Underway, Midway, Exists, Consistent
    <3>3. QED BY <2>1, <2>2, <3>1, <3>2 DEF OneAtATime
  <2>5. QED BY <2>3, <2>4
<1>8. QED BY <1>5, <1>6, <1>7 DEF IInv

LEMMA BeginStep ==
    ASSUME IInv, TypeInv', NEW s \in Slot, NEW op \in Op,
           BeginCreate(s) \/ Begin(s, op)
    PROVE  IInv'
<1>1. CASE BeginCreate(s)
  <2>1. PICK a \in Appt \ used, body \in Bodies("create") :
          /\ req' = [req EXCEPT ![s] = Arriving("create", "insert", a, body)]
          /\ used' = used \cup {a}
    BY <1>1 DEF BeginCreate
  <2>2. /\ req[s] = Idle /\ disturbed' = disturbed
        /\ UNCHANGED <<rows, items, payment, removed, due>>
    BY <1>1 DEF BeginCreate
  <2>3. QED BY <2>1, <2>2, ArriveStep
<1>2. CASE Begin(s, op)
  <2>1. PICK a \in used, body \in Bodies(op) :
          /\ \A t \in Slot : ~(At(t, "create", "insert") /\ req[t].id = a)
          /\ req' = [req EXCEPT ![s] = Arriving(op, "read", a, body)]
          /\ disturbed' = IF Quiet(a) THEN disturbed ELSE disturbed \cup {a}
    BY <1>2 DEF Begin
  <2>2. /\ req[s] = Idle /\ a \in Appt /\ used' = used
        /\ UNCHANGED <<rows, items, payment, removed, due>>
    BY <1>2 DEF Begin, IInv, TypeInv, TypeOK
  <2>3. QED BY <2>1, <2>2, ArriveStep
<1>3. QED BY <1>1, <1>2

LEMMA FinishFacts ==
    ASSUME TypeInv, NEW s \in Slot, Finish(s)
    PROVE  req'[s] = Idle /\ \A t \in Slot \ {s} : req'[t] = req[t]
  BY DEF Finish, TypeInv, TypeOK

LEMMA GotoFacts ==
    ASSUME TypeInv, NEW s \in Slot, NEW pc, Goto(s, pc)
    PROVE  /\ req'[s].id = req[s].id /\ req'[s].pc = pc
           /\ req'[s].op = req[s].op /\ req'[s].body = req[s].body
           /\ req'[s].price = req[s].price /\ req'[s].known = req[s].known
           /\ \A t \in Slot \ {s} : req'[t] = req[t]
  BY DEF Goto, TypeInv, TypeOK, Request

LEMMA InsertStep ==
    ASSUME IInv, TypeInv', NEW s \in Slot, Insert(s)
    PROVE  IInv'
<1>1. PICK a \in Appt : a = req[s].id /\ req[s].pc = "insert"
  BY InHand DEF Insert, At
<1>2. Blank(a) /\ a \notin removed
  BY <1>1 DEF IInv, BlankUntilInserted
<1>3. /\ req'[s].id = a /\ req'[s].pc = "items" /\ req'[s].body = req[s].body
      /\ \A t \in Slot \ {s} : req'[t] = req[t]
  BY <1>1, GotoFacts DEF Insert, IInv
<1>4. Local(s, a)
  BY <1>1, <1>3 DEF Local, Insert, IInv, TypeInv, TypeOK
<1>5. Exists(a)' /\ rows'[a].status = req[s].body.status
  <2>1. [status |-> req[s].body.status, start |-> req[s].body.start,
         end |-> 0, cost |-> 0] \in Row
    BY DEF IInv, TypeInv, TypeOK, Request, Body, Row
  <2>2. QED BY <1>1, <2>1, BookingAssumption DEF Insert, Exists, IInv, TypeInv, TypeOK
<1>6. Kept(s, a)
  BY <1>2, <1>3, <1>5 DEF Kept, Underway, Midway, Blank, Insert
<1>7. QED BY <1>1, <1>4, <1>6, LocalStep

LEMMA ClearStep ==
    ASSUME IInv, TypeInv', NEW s \in Slot, ClearItems(s)
    PROVE  IInv'
<1>1. PICK a \in Appt : a = req[s].id /\ req[s].pc = "clear"
  BY InHand DEF ClearItems, At
<1>2. /\ req'[s].id = a /\ req'[s].pc = "items" /\ req'[s].op = "update"
      /\ \A t \in Slot \ {s} : req'[t] = req[t]
  BY <1>1, GotoFacts DEF ClearItems, At, IInv
<1>3. Local(s, a)
  BY <1>1, <1>2 DEF Local, ClearItems, IInv, TypeInv, TypeOK
<1>4. items'[a] = NoItems /\ payment'[a] = payment[a] /\ due'[a] = due[a]
  BY <1>1 DEF ClearItems, IInv, TypeInv, TypeOK
<1>5. Kept(s, a)
  BY <1>1, <1>2, <1>4, InHand DEF Kept, Underway, Midway, ClearItems, Exists, InOrder
<1>6. QED BY <1>1, <1>3, <1>5, LocalStep

LEMMA ItemsStep ==
    ASSUME IInv, TypeInv', NEW s \in Slot, SaveBookingItems(s)
    PROVE  IInv'
<1>1. PICK a \in Appt : a = req[s].id /\ req[s].pc = "items"
  BY InHand DEF SaveBookingItems
<1>2. CASE Throw(s) /\ items' = items
  BY <1>1, <1>2, ThrowStep DEF SaveBookingItems
<1>3. CASE /\ Exists(a) /\ items' = [items EXCEPT ![a] = Plus(@, Batch(s))]
           /\ Goto(s, "save") /\ disturbed' = disturbed
  <2>1. /\ req'[s].id = a /\ req'[s].pc = "save" /\ req'[s].body = req[s].body
        /\ req'[s].op = req[s].op
        /\ \A t \in Slot \ {s} : req'[t] = req[t]
    BY <1>1, <1>3, GotoFacts DEF IInv
  <2>2. Local(s, a)
    BY <1>1, <1>3, <2>1 DEF Local, SaveBookingItems, IInv, TypeInv, TypeOK
  <2>3. items'[a] = Plus(items[a], Batch(s)) /\ Exists(a)'
    BY <1>3 DEF SaveBookingItems, Exists, IInv, TypeInv, TypeOK
  <2>4. Batch(s)' = Batch(s) /\ Batch(s) \in Items
    BY <1>1, <2>1, EntityType DEF Batch, IInv, TypeInv, WellFormed
  <2>5. items[a] = NoItems => items'[a] = Batch(s)
    <3>1. {} \cup Batch(s).by = Batch(s).by
      OBVIOUS
    <3>2. 0 + Batch(s).time = Batch(s).time /\ 0 + Batch(s).cost = Batch(s).cost
      BY <2>4 DEF Items
    <3>3. Batch(s) = [by |-> Batch(s).by, time |-> Batch(s).time,
                      cost |-> Batch(s).cost]
      BY DEF Batch
    <3>4. Plus(NoItems, Batch(s)) = Batch(s)
      BY <3>1, <3>2, <3>3 DEF Plus, NoItems
    <3>5. QED BY <2>3, <3>4
  <2>6. Kept(s, a)
    BY <1>1, <2>1, <2>3, <2>4, <2>5, <1>3, InHand
    DEF Kept, Underway, Midway, SaveBookingItems, Exists
  <2>7. QED BY <1>1, <2>2, <2>6, LocalStep
<1>4. QED BY <1>1, <1>2, <1>3 DEF SaveBookingItems

\* The two saves that end a create and an update.
LEMMA SaveStep ==
    ASSUME IInv, TypeInv', NEW s \in Slot, SaveCreated(s) \/ SaveUpdated(s)
    PROVE  IInv'
<1>1. PICK a \in Appt : a = req[s].id /\ req[s].pc = "save"
  BY InHand DEF SaveCreated, SaveUpdated, At
<1>2. req'[s] = Idle /\ \A t \in Slot \ {s} : req'[t] = req[t]
  BY FinishFacts DEF SaveCreated, SaveUpdated, IInv
<1>3. Local(s, a)
  BY <1>1, <1>2 DEF Local, SaveCreated, SaveUpdated, IInv, TypeInv, TypeOK
<1>4. Entity(s) \in Row /\ Batch(s) \in Items
  BY EntityType DEF SaveCreated, SaveUpdated, At, IInv, TypeInv, WellFormed
<1>5. rows'[a] = Entity(s) /\ Exists(a)'
  BY <1>1, <1>4, BookingAssumption
  DEF SaveCreated, SaveUpdated, Exists, IInv, TypeInv, TypeOK
<1>6. items[a] = Batch(s) => items'[a] = Batch(s)
  BY <1>1 DEF SaveCreated, SaveUpdated, Batch, IInv, TypeInv, TypeOK
<1>7. items'[a] = Batch(s) => Consistent(a)'
  <2>1. /\ Entity(s).end = Entity(s).start + Batch(s).time
        /\ Entity(s).cost = Batch(s).cost /\ Batch(s).by # {}
    BY DEF Entity, Batch
  <2>2. QED BY <1>5, <2>1 DEF Consistent
<1>8. Kept(s, a)
  BY <1>1, <1>2, <1>5, <1>6, <1>7, InHand, IdleFacts
  DEF Kept, Underway, InOrder, SaveCreated, SaveUpdated, Exists
<1>9. QED BY <1>1, <1>3, <1>8, LocalStep

\* confirm, cancel and complete write one column; no other step reads it for
\* the totals.
LEMMA StatusFacts ==
    ASSUME IInv, NEW s \in Slot, NEW a \in Appt, a = req[s].id, NEW st,
           st \in Status, SetStatus(s, st), items' = items
    PROVE  /\ \A b \in Appt \ {a} : rows'[b] = rows[b]
           /\ Exists(a) => Exists(a)' /\ (Consistent(a)' <=> Consistent(a))
           /\ ~Exists(a) => ~Exists(a)'
<1>1. \A b \in Appt \ {a} : rows'[b] = rows[b]
  BY DEF SetStatus, IInv, TypeInv, TypeOK
<1>2. CASE Exists(a)
  <2>1. rows'[a] = [rows[a] EXCEPT !.status = st]
    BY <1>2 DEF SetStatus, Exists, IInv, TypeInv, TypeOK
  <2>2. rows[a] \in Row
    BY <1>2 DEF Exists, IInv, TypeInv, TypeOK
  <2>3. rows'[a] \in Row /\ rows'[a].end = rows[a].end
        /\ rows'[a].start = rows[a].start /\ rows'[a].cost = rows[a].cost
    BY <2>1, <2>2 DEF Row
  <2>4. QED BY <1>1, <1>2, <2>3, BookingAssumption DEF Exists, Consistent
<1>3. CASE ~Exists(a)
  BY <1>1, <1>3 DEF SetStatus, Exists, IInv, TypeInv, TypeOK
<1>4. QED BY <1>1, <1>2, <1>3

LEMMA ConfirmCancelStep ==
    ASSUME IInv, TypeInv', NEW s \in Slot, ConfirmBooking(s) \/ CancelBooking(s)
    PROVE  IInv'
<1>1. PICK a \in Appt : a = req[s].id /\ req[s].pc = "write"
  BY InHand DEF ConfirmBooking, CancelBooking, At
<1>2. PICK st \in Status : SetStatus(s, st)
  BY DEF ConfirmBooking, CancelBooking, Status
<1>3. Finish(s) /\ UNCHANGED <<items, payment, used, removed, disturbed, due>>
  BY DEF ConfirmBooking, CancelBooking
<1>4. req'[s] = Idle /\ \A t \in Slot \ {s} : req'[t] = req[t]
  BY <1>3, FinishFacts DEF IInv
<1>5. /\ \A b \in Appt \ {a} : rows'[b] = rows[b]
      /\ Exists(a) => Exists(a)' /\ (Consistent(a)' <=> Consistent(a))
      /\ ~Exists(a) => ~Exists(a)'
  BY <1>1, <1>2, <1>3, StatusFacts
<1>6. Local(s, a)
  BY <1>1, <1>3, <1>4, <1>5 DEF Local
<1>7. Kept(s, a)
  BY <1>1, <1>3, <1>4, <1>5, InHand, IdleFacts DEF Kept, InOrder, Midway
<1>8. QED BY <1>1, <1>6, <1>7, LocalStep

LEMMA CompleteStep ==
    ASSUME IInv, TypeInv', NEW s \in Slot, CompleteBooking(s)
    PROVE  IInv'
<1>1. PICK a \in Appt : /\ a = req[s].id /\ req[s].pc = "write"
                        /\ req[s].op = "complete"
  BY InHand DEF CompleteBooking, At
<1>2. /\ req'[s].id = a /\ req'[s].pc = "find" /\ req'[s].price = req[s].price
      /\ \A t \in Slot \ {s} : req'[t] = req[t]
  BY <1>1, GotoFacts DEF CompleteBooking, IInv
<1>3. /\ \A b \in Appt \ {a} : rows'[b] = rows[b]
      /\ Exists(a) => Exists(a)' /\ (Consistent(a)' <=> Consistent(a))
      /\ ~Exists(a) => ~Exists(a)'
  BY <1>1, StatusFacts DEF CompleteBooking, Status
<1>4. Local(s, a)
  BY <1>1, <1>2, <1>3 DEF Local, CompleteBooking, IInv, TypeInv, TypeOK
<1>5. Exists(a) => due'[a] = rows[a].cost
  BY <1>1 DEF CompleteBooking, IInv, TypeInv, TypeOK
<1>6. Kept(s, a)
  BY <1>1, <1>2, <1>3, <1>5, InHand
  DEF Kept, InOrder, Midway, Underway, CompleteBooking
<1>7. QED BY <1>1, <1>4, <1>6, LocalStep

LEMMA RescheduleStep ==
    ASSUME IInv, TypeInv', NEW s \in Slot, RescheduleBooking(s)
    PROVE  IInv'
<1>1. PICK a \in Appt : /\ a = req[s].id /\ req[s].pc = "write"
                        /\ req[s].op = "reschedule"
  BY InHand DEF RescheduleBooking, At
<1>2. req'[s] = Idle /\ \A t \in Slot \ {s} : req'[t] = req[t]
  BY FinishFacts DEF RescheduleBooking, IInv
<1>3. Local(s, a)
  BY <1>1, <1>2 DEF Local, RescheduleBooking, IInv, TypeInv, TypeOK
<1>4. ~Exists(a) => ~Exists(a)'
  BY <1>1 DEF RescheduleBooking, Exists, IInv, TypeInv, TypeOK
<1>5. ASSUME Exists(a)
      PROVE  /\ rows'[a].end = rows'[a].start + req[s].total
             /\ rows'[a].cost = rows[a].cost
  <2>1. rows[a] \in Row
    BY <1>5 DEF Exists, IInv, TypeInv, TypeOK
  <2>2. rows'[a] = [rows[a] EXCEPT !.start = req[s].body.start,
                                   !.end = req[s].body.start + req[s].total]
    BY <1>1, <1>5 DEF RescheduleBooking, Exists, IInv, TypeInv, TypeOK
  <2>3. QED BY <2>1, <2>2 DEF Row
<1>6. Kept(s, a)
  <2>1. UNCHANGED <<items, payment, removed, disturbed, due>>
    BY DEF RescheduleBooking
  <2>2. ASSUME a \notin disturbed
        PROVE  InOrder(a)' /\ (a \in removed => ~Exists(a))
    <3>1. /\ InOrder(a) /\ Underway(s, a)
          /\ a \in removed => ~Exists(a)
      BY <1>1, <2>2, InHand DEF Midway
    <3>2. CASE Exists(a)
      <4>1. req[s].total = items[a].time
        BY <1>1, <3>1 DEF Underway
      <4>2. Consistent(a)'
        BY <1>5, <2>1, <3>1, <3>2, <4>1 DEF Consistent, InOrder
      <4>3. QED BY <2>1, <3>1, <4>2 DEF InOrder
    <3>3. CASE ~Exists(a)
      BY <1>4, <2>1, <3>1, <3>3 DEF InOrder
    <3>4. QED BY <3>2, <3>3
  <2>3. ~Exists(a)' => payment'[a] = None /\ items'[a] = NoItems
    <3>1. Exists(a) => Exists(a)'
      <4>1. ASSUME Exists(a) PROVE rows'[a] \in Row
        <5>1. rows[a] \in Row /\ req[s].body.start \in Nat
              /\ req[s].total \in Nat
          BY <4>1 DEF Exists, IInv, TypeInv, TypeOK, Request, Body
        <5>2. req[s].body.start + req[s].total \in Nat
          BY <5>1
        <5>3. [rows[a] EXCEPT !.start = req[s].body.start,
                              !.end = req[s].body.start + req[s].total] \in Row
          BY <5>1, <5>2, Zenon DEF Row
        <5>4. rows'[a] = [rows[a] EXCEPT !.start = req[s].body.start,
                                  !.end = req[s].body.start + req[s].total]
          BY <1>1, <4>1 DEF RescheduleBooking, Exists, IInv, TypeInv, TypeOK
        <5>5. QED BY <5>3, <5>4
      <4>2. QED BY <4>1, BookingAssumption DEF Exists
    <3>2. QED BY <1>1, <2>1, <3>1, InHand
  <2>4. QED BY <1>2, <1>4, <2>1, <2>2, <2>3, IdleFacts DEF Kept
<1>7. QED BY <1>1, <1>3, <1>6, LocalStep

LEMMA FindStep ==
    ASSUME IInv, TypeInv', NEW s \in Slot, FindPayment(s)
    PROVE  IInv'
<1>1. PICK a \in Appt : a = req[s].id /\ req[s].pc = "find"
  BY InHand DEF FindPayment, At
<1>2. /\ req'[s].id = a /\ req'[s].pc = "pay" /\ req'[s].price = req[s].price
      /\ req'[s].op = req[s].op /\ (req'[s].known <=> payment[a] # None)
      /\ \A t \in Slot \ {s} : req'[t] = req[t]
  BY <1>1 DEF FindPayment, IInv, TypeInv, TypeOK, Request
<1>3. UNCHANGED <<rows, items, payment, used, removed, disturbed, due>>
  BY DEF FindPayment
<1>4. Local(s, a)
  BY <1>1, <1>2, <1>3 DEF Local
<1>5. Kept(s, a)
  <2>1. ASSUME a \notin disturbed PROVE Underway(s, a)' /\ (a \in removed => ~Exists(a))
    <3>1. /\ Exists(a) /\ Consistent(a) /\ due[a] = req[s].price
          /\ a \in removed => ~Exists(a)
      BY <1>1, <2>1, InHand DEF Underway
    <3>2. Exists(a)' /\ Consistent(a)' /\ due'[a] = req'[s].price
      BY <1>2, <1>3, <3>1 DEF Exists, Consistent
    <3>3. req'[s].known <=> payment'[a] # None
      BY <1>2, <1>3
    <3>4. QED BY <1>2, <3>1, <3>2, <3>3, SMT DEF Underway
  <2>2. ~Exists(a)' => payment'[a] = None /\ items'[a] = NoItems
    BY <1>1, <1>3, InHand DEF Exists
  <2>3. Midway(s)' /\ (Exists(a)' <=> Exists(a))
    BY <1>2, <1>3 DEF Midway, Exists
  <2>4. QED BY <1>2, <1>3, <2>1, <2>2, <2>3 DEF Kept
<1>6. QED BY <1>1, <1>4, <1>5, LocalStep

LEMMA PayStep ==
    ASSUME IInv, TypeInv', NEW s \in Slot, SavePayment(s)
    PROVE  IInv'
<1>1. PICK a \in Appt : a = req[s].id /\ req[s].pc = "pay"
  BY InHand DEF SavePayment, At
<1>2. CASE Die /\ payment' = payment
  BY <1>2, DieStep DEF SavePayment
<1>3. CASE /\ Exists(a) /\ payment' = [payment EXCEPT ![a] = req[s].price]
           /\ Finish(s) /\ disturbed' = disturbed
  <2>1. req'[s] = Idle /\ \A t \in Slot \ {s} : req'[t] = req[t]
    BY <1>3, FinishFacts DEF IInv
  <2>2. Local(s, a)
    BY <1>1, <1>3, <2>1 DEF Local, SavePayment, IInv, TypeInv, TypeOK
  <2>3. payment'[a] = req[s].price
    BY <1>1, <1>3 DEF IInv, TypeInv, TypeOK
  <2>4. UNCHANGED <<rows, items, removed, due>>
    BY DEF SavePayment
  <2>5. Kept(s, a)
    BY <1>1, <1>3, <2>1, <2>3, <2>4, InHand, IdleFacts
    DEF Kept, Underway, InOrder, Exists, Consistent
  <2>6. QED BY <1>1, <2>2, <2>5, LocalStep
<1>4. QED BY <1>1, <1>2, <1>3 DEF SavePayment

LEMMA EraseStep ==
    ASSUME IInv, TypeInv', NEW s \in Slot, Erase(s)
    PROVE  IInv'
<1>1. PICK a \in Appt : a = req[s].id /\ req[s].pc = "erase"
  BY InHand DEF Erase, At
<1>2. req'[s] = Idle /\ \A t \in Slot \ {s} : req'[t] = req[t]
  BY FinishFacts DEF Erase, IInv
<1>3. Local(s, a)
  BY <1>1, <1>2 DEF Local, Erase, IInv, TypeInv, TypeOK
<1>4. rows'[a] = None /\ items'[a] = NoItems /\ payment'[a] = None /\ due'[a] = None
  BY <1>1 DEF Erase, IInv, TypeInv, TypeOK
<1>5. Kept(s, a)
  BY <1>2, <1>4, IdleFacts DEF Kept, Exists, InOrder
<1>6. QED BY <1>1, <1>3, <1>5, LocalStep

LEMMA NextStep == IInv /\ [Next]_vars => IInv'
<1> SUFFICES ASSUME IInv, [Next]_vars PROVE IInv'
  OBVIOUS
<1>1. TypeInv'
  BY NextType DEF IInv
<1>2. CASE UNCHANGED vars
  <2>1. UNCHANGED <<rows, items, payment, used, req, removed, disturbed, due>>
    BY <1>2 DEF vars
  <2>2. \A a \in Appt : OneAtATime(a)' <=> OneAtATime(a)
    BY <2>1 DEF OneAtATime, Underway, InOrder, Consistent, Exists, Midway, Batch
  <2>3. QED
    BY <1>1, <2>1, <2>2
    DEF IInv, BlankUntilInserted, Blank, NothingOutlivesAppointment, Exists
<1>3. CASE \E s \in Slot : BeginCreate(s) \/ \E op \in Op : Begin(s, op)
  BY <1>1, <1>3, BeginStep DEF Op
<1>4. ASSUME NEW s \in Slot, Step(s) PROVE IInv'
  <2>1. CASE \/ ReadForUpdate(s) \/ ReadForConfirm(s) \/ ReadForCancel(s)
            \/ ReadForComplete(s) \/ ReadForReschedule(s) \/ ReadForRemove(s)
    <3>1. CASE ReadForUpdate(s)
      BY <1>1, <3>1, ReadStep DEF ReadForUpdate, Op
    <3>2. CASE ReadForConfirm(s)
      BY <1>1, <3>2, ReadStep DEF ReadForConfirm, Op
    <3>3. CASE ReadForCancel(s)
      BY <1>1, <3>3, ReadStep DEF ReadForCancel, Op
    <3>4. CASE ReadForComplete(s)
      BY <1>1, <3>4, ReadStep DEF ReadForComplete, Op
    <3>5. CASE ReadForReschedule(s)
      BY <1>1, <3>5, ReadStep DEF ReadForReschedule, Op
    <3>6. CASE ReadForRemove(s)
      BY <1>1, <3>6, ReadStep DEF ReadForRemove, Op
    <3>7. QED BY <2>1, <3>1, <3>2, <3>3, <3>4, <3>5, <3>6
  <2>2. QED
    BY <1>1, <1>4, <2>1, InsertStep, ItemsStep, SaveStep, ClearStep,
       ConfirmCancelStep, CompleteStep, FindStep, PayStep, RescheduleStep,
       EraseStep
    DEF Step
<1>5. CASE Crash
  BY <1>1, <1>5, DieStep DEF Crash
<1>6. ASSUME NEW s \in Slot, StatementFails(s) PROVE IInv'
  <2>1. req[s].pc # "idle"
    BY <1>6 DEF StatementFails, IInv, TypeInv, WellFormed
  <2>2. QED BY <1>1, <1>6, <2>1, DieStep, ThrowStep DEF StatementFails
<1>7. QED BY <1>2, <1>3, <1>4, <1>5, <1>6 DEF Next

\* The inductive invariant holds in every reachable state.
THEOREM Invariant == Spec => []IInv
<1>1. Init => IInv
  BY InitStep
<1>2. IInv /\ [Next]_vars => IInv'
  BY NextStep
<1>3. QED BY <1>1, <1>2, PTL DEF Spec

-----------------------------------------------------------------------------
(* What follows from it *)

\* However many requests there are: the totals of a booking at rest agree with
\* its items unless handlers overlapped on it or one stopped midway.
THEOREM Totals == Spec => []TotalsMatchItems
<1>1. IInv => TotalsMatchItems
  BY DEF IInv, TotalsMatchItems, OneAtATime, InOrder, Quiet
<1>2. QED BY <1>1, Invariant, PTL

\* The payment of a booking at rest is the price at its last completion, with
\* the same proviso.
THEOREM Payments == Spec => []PaidAsCompleted
<1>1. IInv => PaidAsCompleted
  BY DEF IInv, PaidAsCompleted, OneAtATime, InOrder, Quiet
<1>2. QED BY <1>1, Invariant, PTL

\* No payment and no booking item outlives its appointment, in any interleaving.
THEOREM NoLeftovers == Spec => []NothingOutlivesAppointment
<1>1. IInv => NothingOutlivesAppointment
  BY DEF IInv
<1>2. QED BY <1>1, Invariant, PTL

\* A removed booking is inserted again only by a handler that overlapped with
\* its removal.
THEOREM Removal == Spec => []RemovedStaysRemoved
<1>1. IInv => RemovedStaysRemoved
  BY DEF IInv, RemovedStaysRemoved, OneAtATime, TypeInv, TypeOK
<1>2. QED BY <1>1, Invariant, PTL

\* A completion is undone only by the whole-entity save of update, as long as
\* nobody else was at work on the booking.
THEOREM Completion == Spec => CompletionStands
<1>1. ASSUME IInv, [Next]_vars, NEW a \in Appt \ disturbed,
             Exists(a), rows[a].status = "completed", rows'[a] # None
      PROVE  \/ rows'[a].status = "completed"
             \/ \E s \in Slot : At(s, "update", "save") /\ req[s].id = a
  <2>1. OneAtATime(a)
    BY <1>1 DEF IInv
  <2>2. CASE rows'[a] = rows[a]
    BY <1>1, <2>2
  <2>3. ASSUME NEW s \in Slot, Step(s), rows'[a] # rows[a]
        PROVE  \/ rows'[a].status = "completed"
               \/ At(s, "update", "save") /\ req[s].id = a
    <3>1. req[s].id = a => Underway(s, a)
      BY <2>1 DEF OneAtATime
    <3>2. CASE Insert(s)
      <4>1. req[s].id # a
        BY <1>1, <3>2 DEF Insert, At, IInv, BlankUntilInserted, Blank, Exists
      <4>2. QED BY <2>3, <3>2, <4>1 DEF Insert, IInv, TypeInv, TypeOK
    <3>3. CASE SaveCreated(s)
      <4>1. req[s].id = a
        BY <2>3, <3>3 DEF SaveCreated, IInv, TypeInv, TypeOK
      <4>2. rows'[a] = Entity(s)
        <5>1. rows' = [rows EXCEPT ![req[s].id] = Entity(s)]
          BY <3>3 DEF SaveCreated
        <5>2. rows \in [Appt -> Row \cup {None}]
          BY <1>1 DEF IInv, TypeInv, TypeOK
        <5>3. QED BY <4>1, <5>1, <5>2
      <4>3. rows[a].status = req[s].body.status
        BY <3>1, <3>3, <4>1 DEF SaveCreated, At, Underway
      <4>4. QED BY <1>1, <4>2, <4>3 DEF Entity
    <3>4. CASE SaveUpdated(s)
      BY <2>3, <3>4 DEF SaveUpdated, IInv, TypeInv, TypeOK
    <3>5. CASE ConfirmBooking(s) \/ CancelBooking(s)
      <4>1. req[s].id # a
        BY <1>1, <3>1, <3>5 DEF ConfirmBooking, CancelBooking, At, Underway
      <4>2. PICK st : SetStatus(s, st)
        BY <3>5 DEF ConfirmBooking, CancelBooking
      <4>3. QED BY <2>3, <4>1, <4>2 DEF SetStatus, IInv, TypeInv, TypeOK
    <3>6. CASE CompleteBooking(s)
      <4>1. req[s].id = a
        BY <2>3, <3>6 DEF CompleteBooking, SetStatus, IInv, TypeInv, TypeOK
      <4>2. rows'[a] = [rows[a] EXCEPT !.status = "completed"] /\ rows[a] \in Row
        BY <1>1, <3>6, <4>1
        DEF CompleteBooking, SetStatus, Exists, IInv, TypeInv, TypeOK
      <4>3. QED BY <4>2 DEF Row
    <3>7. CASE RescheduleBooking(s)
      <4>1. req[s].id = a
        BY <2>3, <3>7 DEF RescheduleBooking, IInv, TypeInv, TypeOK
      <4>2. rows[a] \in Row
            /\ rows'[a] = [rows[a] EXCEPT !.start = req[s].body.start,
                                    !.end = req[s].body.start + req[s].total]
        BY <1>1, <3>7, <4>1
        DEF RescheduleBooking, Exists, IInv, TypeInv, TypeOK
      <4>3. QED BY <1>1, <4>2 DEF Row
    <3>8. CASE Erase(s)
      BY <1>1, <2>3, <3>8 DEF Erase, IInv, TypeInv, TypeOK
    <3>9. CASE UNCHANGED rows
      BY <2>3, <3>9
    <3>10. QED
      BY <2>3, <3>2, <3>3, <3>4, <3>5, <3>6, <3>7, <3>8, <3>9
      DEF Step, SaveBookingItems, ClearItems, FindPayment, SavePayment, Read,
          ReadForUpdate, ReadForConfirm, ReadForCancel, ReadForComplete,
          ReadForReschedule, ReadForRemove
  <2>4. QED
    BY <1>1, <2>2, <2>3 DEF Next, BeginCreate, Begin, StatementFails, Crash, vars
<1>2. IInv /\ [Next]_vars =>
        [\A a \in Appt \ disturbed :
           Exists(a) /\ rows[a].status = "completed" /\ rows'[a] # None
             => \/ rows'[a].status = "completed"
                \/ \E s \in Slot : At(s, "update", "save") /\ req[s].id = a]_vars
  BY <1>1
<1>3. QED BY <1>2, Invariant, PTL DEF Spec, CompletionStands

-----------------------------------------------------------------------------
(* Pool: the handlers and their steps *)

\* What the proofs use of the steps of a handler.
Orderly(h) ==
    LET t == Handlers[h].steps IN
    /\ t \in Seq({"connect", "own", "one", "two", "release"})
    /\ Len(t) \in 1 .. 9
    /\ \A k \in 1 .. Len(t) :
          /\ t[k] = "connect" => ~Connected(h, k) /\ k < Len(t)
          /\ t[k] = "own" => Connected(h, k) /\ k < Len(t)
          /\ (t[k] = "release") <=> (k = Len(t) /\ Connected(h, k))

LEMMA RunnerOrderly ==
    ASSUME NEW h, NEW t \in Seq({"connect", "own", "one", "two", "release"}),
           Handlers[h].steps = t, NEW n \in 2 .. 9, Len(t) = n, t[n] = "release",
           NEW c \in 1 .. n - 1, t[c] = "connect",
           \A k \in 1 .. c - 1 : t[k] = "one",
           \A k \in c + 1 .. n - 1 : t[k] \in {"own", "one", "two"}
    PROVE  Orderly(h)
<1>1. \A k \in 1 .. Len(t) : Connected(h, k) <=> k > c
  BY DEF Connected
<1>2. ASSUME NEW k \in 1 .. Len(t)
      PROVE  /\ t[k] = "connect" => k = c
             /\ t[k] = "own" => c < k /\ k < Len(t)
             /\ (t[k] = "release") <=> (k = Len(t))
  <2>1. k \in 1 .. c - 1 \/ k = c \/ k \in c + 1 .. Len(t) - 1 \/ k = Len(t)
    OBVIOUS
  <2>2. QED BY <2>1
<1>3. QED BY <1>1, <1>2 DEF Orderly

LEMMA HandlersOrderly == \A h \in Handler : Orderly(h)
<1> USE DEF Does
<1>1. DOMAIN Handlers = {"createByUser", "createByOrg", "updateBooking",
                         "createSale", "publishHours", "plain"}
  BY DEF Handlers
<1>2. Orderly("createByUser")
  <2> DEFINE t == <<"connect", "own", "two", "one", "two", "one", "one", "own", "release">>
  <2>1. Handlers["createByUser"].steps = t
    BY DEF Handlers, CreateByUser
  <2>2. t \in Seq({"connect", "own", "one", "two", "release"}) /\ Len(t) = 9
    OBVIOUS
  <2>3. /\ t[1] = "connect" /\ t[9] = "release"
        /\ \A k \in 1 .. 1 - 1 : t[k] = "one"
        /\ \A k \in 1 + 1 .. 9 - 1 : t[k] \in {"own", "one", "two"}
    OBVIOUS
  <2> HIDE DEF t
  <2>4. 9 \in 2 .. 9 /\ 1 \in 1 .. 9 - 1
    OBVIOUS
  <2>5. QED BY <2>1, <2>2, <2>3, <2>4, RunnerOrderly
<1>3. Orderly("createByOrg")
  <2> DEFINE t == <<"connect", "own", "one", "one", "two", "one", "one", "own", "release">>
  <2>1. Handlers["createByOrg"].steps = t
    BY DEF Handlers, CreateByOrg
  <2>2. t \in Seq({"connect", "own", "one", "two", "release"}) /\ Len(t) = 9
    OBVIOUS
  <2>3. /\ t[1] = "connect" /\ t[9] = "release"
        /\ \A k \in 1 .. 1 - 1 : t[k] = "one"
        /\ \A k \in 1 + 1 .. 9 - 1 : t[k] \in {"own", "one", "two"}
    OBVIOUS
  <2> HIDE DEF t
  <2>4. 9 \in 2 .. 9 /\ 1 \in 1 .. 9 - 1
    OBVIOUS
  <2>5. QED BY <2>1, <2>2, <2>3, <2>4, RunnerOrderly
<1>4. Orderly("updateBooking")
  <2> DEFINE t == <<"one", "connect", "own", "one", "two", "one", "one", "own", "release">>
  <2>1. Handlers["updateBooking"].steps = t
    BY DEF Handlers, UpdateBooking
  <2>2. t \in Seq({"connect", "own", "one", "two", "release"}) /\ Len(t) = 9
    OBVIOUS
  <2>3. /\ t[2] = "connect" /\ t[9] = "release"
        /\ \A k \in 1 .. 2 - 1 : t[k] = "one"
        /\ \A k \in 2 + 1 .. 9 - 1 : t[k] \in {"own", "one", "two"}
    OBVIOUS
  <2> HIDE DEF t
  <2>4. 9 \in 2 .. 9 /\ 2 \in 1 .. 9 - 1
    OBVIOUS
  <2>5. QED BY <2>1, <2>2, <2>3, <2>4, RunnerOrderly
<1>5. Orderly("createSale")
  <2> DEFINE t == <<"connect", "own", "one", "one", "one", "one", "own", "release">>
  <2>1. Handlers["createSale"].steps = t
    BY DEF Handlers, CreateSale
  <2>2. t \in Seq({"connect", "own", "one", "two", "release"}) /\ Len(t) = 8
    OBVIOUS
  <2>3. /\ t[1] = "connect" /\ t[8] = "release"
        /\ \A k \in 1 .. 1 - 1 : t[k] = "one"
        /\ \A k \in 1 + 1 .. 8 - 1 : t[k] \in {"own", "one", "two"}
    OBVIOUS
  <2> HIDE DEF t
  <2>4. 8 \in 2 .. 9 /\ 1 \in 1 .. 8 - 1
    OBVIOUS
  <2>5. QED BY <2>1, <2>2, <2>3, <2>4, RunnerOrderly
<1>6. Orderly("publishHours")
  <2> DEFINE t == <<"connect", "own", "one", "one", "own", "release">>
  <2>1. Handlers["publishHours"].steps = t
    BY DEF Handlers, PublishHours
  <2>2. t \in Seq({"connect", "own", "one", "two", "release"}) /\ Len(t) = 6
    OBVIOUS
  <2>3. /\ t[1] = "connect" /\ t[6] = "release"
        /\ \A k \in 1 .. 1 - 1 : t[k] = "one"
        /\ \A k \in 1 + 1 .. 6 - 1 : t[k] \in {"own", "one", "two"}
    OBVIOUS
  <2> HIDE DEF t
  <2>4. 6 \in 2 .. 9 /\ 1 \in 1 .. 6 - 1
    OBVIOUS
  <2>5. QED BY <2>1, <2>2, <2>3, <2>4, RunnerOrderly
<1>7. Orderly("plain")
  <2>1. Handlers["plain"].steps = <<"one">>
    BY DEF Handlers, Plain
  <2>2. QED BY <2>1 DEF Orderly, Connected
<1>8. QED BY <1>1, <1>2, <1>3, <1>4, <1>5, <1>6, <1>7 DEF Handler

-----------------------------------------------------------------------------
(* What a step makes of a request *)

\* A query runner keeps its connection to the last step, which gives it back.
LEMMA StaysConnected ==
    ASSUME NEW h \in Handler, NEW k \in 1 .. Len(Handlers[h].steps)
    PROVE  /\ Len(Handlers[h].steps) \in 1 .. 9
           /\ Connected(h, k + 1) <=> (Connected(h, k) \/ Handlers[h].steps[k] = "connect")
           /\ Connected(h, k) => /\ Connected(h, Len(Handlers[h].steps))
                                 /\ Handlers[h].steps[Len(Handlers[h].steps)] = "release"
           /\ Handlers[h].steps[k] \in {"connect", "own", "one", "two", "release"}
           /\ Handlers[h].steps[k] = "connect" => ~Connected(h, k) /\ k < Len(Handlers[h].steps)
           /\ Handlers[h].steps[k] = "own" => Connected(h, k) /\ k < Len(Handlers[h].steps)
           /\ Handlers[h].steps[k] = "release" => Connected(h, k) /\ k = Len(Handlers[h].steps)
<1> DEFINE t == Handlers[h].steps
<1>1. Orderly(h)
  BY HandlersOrderly
<1>2. Len(t) \in 1 .. 9 /\ t \in Seq({"connect", "own", "one", "two", "release"})
  BY <1>1 DEF Orderly
<1>3. Connected(h, k + 1) <=> (Connected(h, k) \/ t[k] = "connect")
  BY <1>2 DEF Connected
<1>4. Connected(h, k) => Connected(h, Len(t))
  BY <1>2 DEF Connected
<1>5. QED BY <1>1, <1>2, <1>3, <1>4 DEF Orderly

\* A request whose handler is not over is at a step of it.
LEMMA StepIs ==
    ASSUME NEW r \in CallState, Fit(r), r.does # Nothing
    PROVE  r.does \in Handler /\ r.step \in 1 .. Len(Handlers[r.does].steps)
  BY DEF Fit, CallState, Over, NoCall, Last

LEMMA IdleFit == NoCall \in CallState /\ Fit(NoCall) /\ Uses(NoCall) = 0 /\ NoCall.waits = 0
<1>1. NoCall \in CallState
  BY DEF NoCall, CallState
<1>2. NoCall = Over(NoCall) /\ NoCall.waits = 0 /\ NoCall.runs = 0 /\ ~NoCall.holds
  BY DEF NoCall, Over
<1>3. QED BY <1>1, <1>2 DEF Fit, Uses

\* What is left of a handler that is over.
LEMMA OverFit ==
    ASSUME NEW r \in CallState, r.waits + r.runs <= 1
    PROVE  Over(r) \in CallState /\ Fit(Over(r)) /\ Uses(Over(r)) = r.runs /\ Over(r).waits = r.waits
<1> DEFINE o == Over(r)
<1>1. r.waits \in 0 .. 2 /\ r.runs \in 0 .. 2
  BY DEF CallState
<1>4. /\ o \in CallState /\ o.waits = r.waits /\ o.runs = r.runs /\ ~o.holds
      /\ o = Over(o)
  <2>1. o.waits = r.waits /\ o.runs = r.runs /\ ~o.holds
    BY DEF Over, NoCall
  <2>2. o \in CallState
    BY <1>1, IdleFit DEF Over, CallState
  <2>3. Over(o) = Over(r)
    BY <2>1 DEF Over
  <2>4. QED BY <2>1, <2>2, <2>3
<1> HIDE DEF o
<1>3. Fit(o) /\ Uses(o) = r.runs
  BY <1>1, <1>4 DEF Fit, Uses
<1>5. QED BY <1>3, <1>4 DEF o

\* A handler that is at a step and does not hold a connection it should not.
LEMMA StepsOn ==
    ASSUME NEW r \in CallState, r.does # Nothing, r.waits = 0, r.runs = 0,
           r.step \in 1 .. Last(r) - 1,
           r.holds <=> (Connected(r.does, r.step) \/ Facing(r, {"connect"}))
    PROVE  LET g == [r EXCEPT !.step = @ + 1, !.asks = FALSE] IN
           g \in CallState /\ Fit(g) /\ Uses(g) = Uses(r) /\ g.waits = 0
<1> DEFINE g == [r EXCEPT !.step = @ + 1, !.asks = FALSE]
<1>1. r.does \in Handler /\ r.step \in 1 .. Len(Handlers[r.does].steps)
  BY DEF CallState, Last
<1>2. Len(Handlers[r.does].steps) \in 1 .. 9
  BY <1>1, StaysConnected
<1>a. r.step + 1 \in 0 .. 9
  <2>1. PICK n \in 1 .. 9 : n = Len(Handlers[r.does].steps)
    BY <1>2
  <2>2. r.step \in 1 .. n - 1
    BY <2>1 DEF Last
  <2>3. QED BY <2>2
<1>3. /\ g \in CallState /\ g.does = r.does /\ g.step = r.step + 1 /\ ~g.asks
      /\ g.waits = 0 /\ g.runs = 0 /\ g.holds = r.holds
  BY <1>a DEF CallState
<1>4. g.holds <=> Connected(g.does, g.step)
  BY <1>1, <1>3, StaysConnected DEF Facing
<1>5. g.step \in 1 .. Last(g)
  BY <1>1, <1>2, <1>3 DEF Last
<1>6. Fit(g)
  BY <1>3, <1>4, <1>5 DEF Fit
<1>7. QED BY <1>3, <1>6 DEF Uses

\* Who has waited is given a connection.
LEMMA GivenFit ==
    ASSUME NEW r \in CallState, Fit(r), r.waits > 0
    PROVE  LET g == Given([r EXCEPT !.waits = @ - 1], 1) IN
           g \in CallState /\ Fit(g) /\ Uses(g) = Uses(r) + 1 /\ g.waits = r.waits - 1
<1> DEFINE q == [r EXCEPT !.waits = @ - 1]
           g == Given(q, 1)
<1>1. /\ q \in CallState /\ q.does = r.does /\ q.step = r.step /\ q.holds = r.holds
      /\ q.asks = r.asks /\ q.waits = r.waits - 1 /\ q.runs = r.runs
  BY DEF CallState
<1>2. CASE Facing(q, {"connect"})
  <2>1. r.does # Nothing /\ Facing(r, {"connect"})
    BY <1>1, <1>2 DEF Facing
  <2>2. r.does \in Handler /\ r.step \in 1 .. Len(Handlers[r.does].steps)
    BY <2>1, StepIs
  <2>3. r.asks /\ r.waits = 1 /\ r.runs = 0 /\ ~r.holds
    <3>1. ~Connected(r.does, r.step)
      BY <2>1, <2>2, StaysConnected DEF Facing
    <3>2. r # Over(r)
      BY <2>1 DEF Over, NoCall
    <3>3. r.waits \in Nat /\ r.runs \in Nat
      BY DEF CallState
    <3>4. ~Facing(r, {"one", "two"}) /\ ~Facing(r, {"two"}) /\ ~Facing(r, {"release"})
      BY <2>1 DEF Facing
    <3>5. QED BY <3>1, <3>2, <3>3, <3>4 DEF Fit
  <2>4. r.step \in 1 .. Last(r) - 1
    BY <2>1, <2>2, StaysConnected DEF Facing, Last
  <2> DEFINE k == [q EXCEPT !.holds = TRUE]
  <2> HIDE DEF q
  <2>5. /\ k \in CallState /\ k.does = r.does /\ k.step = r.step /\ k.holds
        /\ k.asks /\ k.waits = 0 /\ k.runs = 0
    <3>1. k \in CallState /\ k.does = q.does /\ k.step = q.step /\ k.holds
          /\ k.asks = q.asks /\ k.waits = q.waits /\ k.runs = q.runs
      BY <1>1 DEF CallState
    <3>2. q.waits = 0 /\ q.runs = 0 /\ q.asks
      BY <1>1, <2>3
    <3>3. QED BY <1>1, <3>1, <3>2
  <2>6. g = [k EXCEPT !.step = @ + 1, !.asks = FALSE]
    BY <1>2, <2>2, <2>4, <2>5, StaysConnected DEF Given, Onward, Last
  <2>7. Facing(k, {"connect"}) /\ k.step \in 1 .. Last(k) - 1 /\ Uses(k) = 1 /\ Uses(r) = 0
    BY <2>1, <2>3, <2>4, <2>5 DEF Facing, Last, Uses
  <2> HIDE DEF k, g
  <2>8. g \in CallState /\ Fit(g) /\ Uses(g) = Uses(k) /\ g.waits = 0
    BY <2>1, <2>5, <2>6, <2>7, StepsOn
  <2>9. QED BY <2>3, <2>7, <2>8 DEF g, q
<1>3. CASE ~Facing(q, {"connect"})
  <2>1. g = [q EXCEPT !.runs = @ + 1]
    BY <1>3 DEF Given
  <2>2. r.waits + r.runs <= 2
    BY DEF Fit, CallState
  <2>a. r.waits \in 0 .. 2 /\ r.runs \in 0 .. 2 /\ r.runs + 1 \in 0 .. 2
    BY <2>2 DEF CallState
  <2> HIDE DEF q, g
  <2>3. /\ g \in CallState /\ g.does = r.does /\ g.step = r.step /\ g.holds = r.holds
        /\ g.asks = r.asks /\ g.waits = r.waits - 1 /\ g.runs = r.runs + 1
    BY <1>1, <2>1, <2>a DEF CallState
  <2>4. ASSUME NEW S PROVE Facing(g, S) <=> Facing(r, S)
    BY <2>3 DEF Facing
  <2>5. ~Facing(r, {"connect"}) /\ Last(g) = Last(r)
    BY <1>1, <1>3, <2>3 DEF Facing, Last
  <2>6. g.waits + g.runs = r.waits + r.runs
    BY <2>3 DEF CallState
  <2>7. r = Over(r) => g = Over(g)
    BY <2>3 DEF Over, NoCall, CallState
  <2>8. Fit(g)
    BY <2>3, <2>4, <2>5, <2>6, <2>7 DEF Fit
  <2>9. Uses(g) = Uses(r) + 1
    BY <2>3 DEF Uses, CallState
  <2>10. QED BY <2>3, <2>8, <2>9 DEF g, q
<1>4. QED BY <1>2, <1>3

\* One of its statements is over.
LEMMA OneLess ==
    ASSUME NEW r \in CallState, Fit(r), r.runs > 0
    PROVE  LET q == [r EXCEPT !.runs = @ - 1] IN
           /\ q \in CallState /\ q.does = r.does /\ q.step = r.step /\ q.holds = r.holds
           /\ q.asks = r.asks /\ q.waits = r.waits /\ q.runs = r.runs - 1
           /\ Uses(q) = Uses(r) - 1 /\ q.waits + q.runs <= 1
           /\ ~r.asks \/ q.waits + q.runs > 0 => Fit(q)
           /\ r.asks => r.does # Nothing /\ ~Facing(r, {"connect"})
<1> DEFINE q == [r EXCEPT !.runs = @ - 1]
<1>1. r.waits \in 0 .. 2 /\ r.runs \in 1 .. 2 /\ r.runs - 1 \in 0 .. 2
  BY DEF CallState
<1>2. /\ q \in CallState /\ q.does = r.does /\ q.step = r.step /\ q.holds = r.holds
      /\ q.asks = r.asks /\ q.waits = r.waits /\ q.runs = r.runs - 1
  BY <1>1 DEF CallState
<1> HIDE DEF q
<1>3. Uses(q) = Uses(r) - 1
  BY <1>1, <1>2 DEF Uses
<1>4. r.waits + r.runs <= 2
  BY <1>1 DEF Fit
<1>5. r = Over(r) => q = Over(q) /\ ~r.asks
  BY <1>2, <1>1 DEF Over, NoCall, CallState
<1>6. \A S : Facing(q, S) <=> Facing(r, S)
  BY <1>2 DEF Facing
<1>7. Last(q) = Last(r)
  BY <1>2 DEF Last
<1>8. ASSUME r.asks PROVE r.does # Nothing /\ ~Facing(r, {"connect"})
  <2>1. r.does # Nothing
    BY <1>5, <1>8 DEF Fit
  <2>2. Facing(r, {"connect"}) => ~Facing(r, {"one", "two"}) /\ ~Facing(r, {"two"})
    BY DEF Facing
  <2>3. QED BY <1>1, <1>5, <1>8, <2>1, <2>2 DEF Fit
<1>9. ASSUME ~r.asks \/ q.waits + q.runs > 0 PROVE Fit(q)
  <2>1. CASE r = Over(r)
    BY <1>1, <1>2, <1>4, <1>5, <2>1 DEF Fit
  <2>2. CASE r # Over(r)
    <3>1. /\ r.does # Nothing /\ r.step \in 1 .. Last(r)
          /\ r.holds <=> Connected(r.does, r.step)
      BY <2>2 DEF Fit
    <3>2. CASE ~r.asks
      <4>1. r.waits + r.runs = 1
        BY <1>1, <2>2, <3>2 DEF Fit
      <4>2. QED BY <1>1, <1>2, <1>7, <3>1, <3>2, <4>1 DEF Fit
    <3>3. CASE r.asks
      <4>1. q.waits + q.runs > 0
        BY <1>9, <3>3
      <4>2. r.waits + r.runs = 2 /\ Facing(r, {"two"})
        BY <1>1, <1>2, <2>2, <3>3, <4>1 DEF Fit
      <4>3. q.waits + q.runs = 1 /\ Facing(q, {"one", "two"})
        BY <1>1, <1>2, <4>2 DEF Facing
      <4>4. QED BY <1>2, <1>7, <3>1, <3>3, <4>3 DEF Fit
    <3>4. QED BY <3>2, <3>3
  <2>3. QED BY <2>1, <2>2
<1>10. QED BY <1>1, <1>2, <1>3, <1>4, <1>8, <1>9 DEF q

\* A statement ends, and its handler may go on.
LEMMA EndsFit ==
    ASSUME NEW r \in CallState, Fit(r), r.runs > 0
    PROVE  LET e == Onward([r EXCEPT !.runs = @ - 1]) IN
           e \in CallState /\ Fit(e) /\ Uses(e) = Uses(r) - 1 /\ e.waits = r.waits
<1> DEFINE q == [r EXCEPT !.runs = @ - 1]
<1>1. /\ q \in CallState /\ q.does = r.does /\ q.step = r.step /\ q.holds = r.holds
      /\ q.asks = r.asks /\ q.waits = r.waits /\ q.runs = r.runs - 1
      /\ Uses(q) = Uses(r) - 1 /\ q.waits + q.runs <= 1
      /\ ~r.asks \/ q.waits + q.runs > 0 => Fit(q)
      /\ r.asks => r.does # Nothing /\ ~Facing(r, {"connect"})
  BY OneLess
<1> HIDE DEF q
<1>2. CASE ~q.asks \/ q.waits + q.runs > 0
  BY <1>1, <1>2 DEF Onward, q
<1>3. CASE q.asks /\ ~(q.waits + q.runs > 0)
  <2>1. q.waits = 0 /\ q.runs = 0
    BY <1>1, <1>3 DEF CallState
  <2>2. r.does # Nothing /\ ~Facing(r, {"connect"})
    BY <1>1, <1>3
  <2>3. r.does \in Handler /\ r.step \in 1 .. Len(Handlers[r.does].steps)
    BY <2>2, StepIs
  <2>4. /\ r.holds <=> Connected(r.does, r.step)
        /\ ~Facing(r, {"release"})
    <3>1. r # Over(r)
      BY <2>2 DEF Over, NoCall
    <3>2. Facing(r, {"one", "two"}) \/ Facing(r, {"two"})
      BY <1>1, <1>3, <2>2, <3>1 DEF Fit
    <3>3. QED BY <3>1, <3>2 DEF Fit, Facing
  <2>5. CASE q.step = Last(q)
    <3>1. ~q.holds
      BY <1>1, <2>2, <2>3, <2>4, <2>5, StaysConnected DEF Last, Facing
    <3>2. Onward(q) = Over(q) /\ Uses(q) = 0
      BY <1>1, <1>3, <2>1, <2>5, <3>1 DEF Onward, Uses
    <3>3. Over(q) \in CallState /\ Fit(Over(q)) /\ Uses(Over(q)) = 0 /\ Over(q).waits = 0
      BY <1>1, <2>1, OverFit
    <3>4. QED BY <1>1, <2>1, <3>2, <3>3 DEF q
  <2>6. CASE q.step # Last(q)
    <3>1. Onward(q) = [q EXCEPT !.step = @ + 1, !.asks = FALSE]
      BY <1>3, <2>1, <2>6 DEF Onward
    <3>2. q.step \in 1 .. Last(q) - 1
      <4>1. PICK n \in 1 .. 9 : n = Len(Handlers[r.does].steps)
        BY <2>3, StaysConnected
      <4>2. r.step \in 1 .. n /\ Last(q) = n
        BY <1>1, <2>3, <4>1 DEF Last
      <4>3. QED BY <1>1, <2>6, <4>2
    <3>3. q.holds <=> (Connected(q.does, q.step) \/ Facing(q, {"connect"}))
      BY <1>1, <2>2, <2>4 DEF Facing
    <3>4. q.does # Nothing
      BY <1>1, <2>2
    <3> DEFINE e == [q EXCEPT !.step = @ + 1, !.asks = FALSE]
    <3>5. e \in CallState /\ Fit(e) /\ Uses(e) = Uses(q) /\ e.waits = 0
      BY <1>1, <2>1, <3>2, <3>3, <3>4, StepsOn
    <3> HIDE DEF e
    <3>6. Onward(q) = e
      BY <3>1 DEF e
    <3>7. QED BY <1>1, <2>1, <3>5, <3>6 DEF q
  <2>7. QED BY <2>5, <2>6
<1>4. QED BY <1>2, <1>3

\* An error ends the handler, or takes it to its finally.
LEMMA ThrownFit ==
    ASSUME NEW q \in CallState, q.does # Nothing, q.waits + q.runs <= 1,
           q.step \in 1 .. Last(q), q.holds <=> Connected(q.does, q.step)
    PROVE  /\ Thrown(q) \in CallState /\ Fit(Thrown(q)) /\ Thrown(q).waits = q.waits
           /\ Uses(Thrown(q)) + (IF Leaks(q) THEN 1 ELSE 0) = Uses(q)
<1>1. q.waits \in 0 .. 2 /\ q.runs \in 0 .. 2
  BY DEF CallState
<1>2. CASE Inside(q)
  <2> DEFINE f == [q EXCEPT !.step = Last(q), !.asks = FALSE]
  <2>1. q.does \in Handler /\ q.step \in 1 .. Len(Handlers[q.does].steps)
    BY DEF CallState, Last
  <2>2. /\ Last(q) \in 1 .. 9 /\ Connected(q.does, Last(q))
        /\ Handlers[q.does].steps[Last(q)] = "release"
    BY <1>2, <2>1, StaysConnected DEF Inside, Last
  <2>3. /\ f \in CallState /\ f.does = q.does /\ f.step = Last(q) /\ ~f.asks
        /\ f.holds = q.holds /\ f.waits = q.waits /\ f.runs = q.runs
    <3>1. PICK n \in 0 .. 9 : n = Last(q)
      BY <2>2
    <3>2. f = [q EXCEPT !.step = n, !.asks = FALSE]
      BY <3>1
    <3> HIDE DEF f
    <3>3. /\ f \in CallState /\ f.does = q.does /\ f.step = n /\ ~f.asks
          /\ f.holds = q.holds /\ f.waits = q.waits /\ f.runs = q.runs
      BY <3>2 DEF CallState
    <3>4. QED BY <3>1, <3>3
  <2>4. Thrown(q) = f /\ ~Leaks(q)
    BY <1>2 DEF Thrown, Leaks
  <2> HIDE DEF f
  <2>5. /\ f.does # Nothing /\ Last(f) = Last(q) /\ f.step \in 1 .. Last(f)
        /\ f.holds <=> Connected(f.does, f.step)
        /\ Facing(f, {"release"})
    BY <1>2, <2>2, <2>3 DEF Last, Facing, Inside
  <2>6. f.waits + f.runs = 0 \/ f.waits + f.runs = 1
    BY <1>1, <2>3
  <2>7. Fit(f)
    BY <2>3, <2>5, <2>6 DEF Fit
  <2>8. Uses(f) = Uses(q) /\ Uses(q) \in Nat
    BY <1>1, <2>3 DEF Uses
  <2>9. QED BY <2>3, <2>4, <2>7, <2>8
<1>3. CASE ~Inside(q)
  <2>1. Thrown(q) = Over(q) /\ (Leaks(q) <=> q.holds)
    BY <1>3 DEF Thrown, Leaks
  <2>2. /\ Over(q) \in CallState /\ Fit(Over(q)) /\ Over(q).waits = q.waits
        /\ Uses(Over(q)) = q.runs
    BY OverFit
  <2>3. QED BY <1>1, <2>1, <2>2 DEF Uses
<1>4. QED BY <1>2, <1>3

\* A statement fails.
LEMMA FailsFit ==
    ASSUME NEW r \in CallState, Fit(r), r.runs > 0
    PROVE  LET q == [r EXCEPT !.runs = @ - 1]
               f == IF q.asks THEN Thrown(q) ELSE q
           IN  /\ f \in CallState /\ Fit(f) /\ f.waits = r.waits
               /\ Uses(f) + (IF q.asks /\ Leaks(q) THEN 1 ELSE 0) = Uses(r) - 1
<1> DEFINE q == [r EXCEPT !.runs = @ - 1]
<1>1. /\ q \in CallState /\ q.does = r.does /\ q.step = r.step /\ q.holds = r.holds
      /\ q.asks = r.asks /\ q.waits = r.waits /\ q.runs = r.runs - 1
      /\ Uses(q) = Uses(r) - 1 /\ q.waits + q.runs <= 1
      /\ ~r.asks \/ q.waits + q.runs > 0 => Fit(q)
      /\ r.asks => r.does # Nothing /\ ~Facing(r, {"connect"})
  BY OneLess
<1> HIDE DEF q
<1>2. CASE ~q.asks
  <2>1. Uses(q) \in Nat
    BY <1>1 DEF Uses, CallState
  <2>2. QED BY <1>1, <1>2, <2>1 DEF q
<1>3. CASE q.asks
  <2>1. r.does # Nothing /\ r # Over(r)
    BY <1>1, <1>3 DEF Over, NoCall
  <2>2. q.does # Nothing /\ q.step \in 1 .. Last(q) /\ (q.holds <=> Connected(q.does, q.step))
    BY <1>1, <2>1 DEF Fit, Last
  <2>3. /\ Thrown(q) \in CallState /\ Fit(Thrown(q)) /\ Thrown(q).waits = q.waits
        /\ Uses(Thrown(q)) + (IF Leaks(q) THEN 1 ELSE 0) = Uses(q)
    BY <1>1, <2>2, ThrownFit
  <2>4. QED BY <1>1, <1>3, <2>3 DEF q
<1>4. QED BY <1>2, <1>3

\* The statements of the query runner itself.
LEMMA OwnFit ==
    ASSUME NEW r \in CallState, Fit(r), Facing(r, {"own"})
    PROVE  LET g == [r EXCEPT !.step = @ + 1] IN
           /\ g \in CallState /\ Fit(g) /\ g.waits = r.waits /\ Uses(g) = Uses(r)
           /\ Thrown(r) \in CallState /\ Fit(Thrown(r)) /\ Thrown(r).waits = r.waits
           /\ Uses(Thrown(r)) + (IF Leaks(r) THEN 1 ELSE 0) = Uses(r)
<1>1. r.does # Nothing /\ r # Over(r)
  BY DEF Facing, Over, NoCall
<1>2. r.does \in Handler /\ r.step \in 1 .. Len(Handlers[r.does].steps)
  BY <1>1, StepIs
<1>3. ~Facing(r, {"connect"}) /\ ~Facing(r, {"one", "two"}) /\ ~Facing(r, {"two"}) /\ ~Facing(r, {"release"})
  BY DEF Facing
<1>4. /\ ~r.asks /\ r.waits + r.runs = 0
      /\ r.step \in 1 .. Last(r) /\ (r.holds <=> Connected(r.does, r.step))
  BY <1>1, <1>3 DEF Fit
<1>5. r.waits = 0 /\ r.runs = 0
  BY <1>4 DEF CallState
<1>6. r.step \in 1 .. Last(r) - 1
  <2>1. PICK n \in 1 .. 9 : n = Last(r)
    BY <1>2, StaysConnected DEF Last
  <2>2. r.step < n
    BY <1>2, <2>1, StaysConnected DEF Last, Facing
  <2>3. QED BY <1>4, <2>1, <2>2
<1> DEFINE e == [r EXCEPT !.step = @ + 1, !.asks = FALSE]
           g == [r EXCEPT !.step = @ + 1]
<1>7. e \in CallState /\ Fit(e) /\ Uses(e) = Uses(r) /\ e.waits = 0
  BY <1>1, <1>3, <1>4, <1>5, <1>6, StepsOn
<1>8. e = g
  <2>1. r = [r EXCEPT !.asks = FALSE]
    BY <1>4 DEF CallState
  <2>2. e = [[r EXCEPT !.asks = FALSE] EXCEPT !.step = r.step + 1]
    BY DEF CallState
  <2>3. QED BY <2>1, <2>2
<1> HIDE DEF e, g
<1>9. g \in CallState /\ Fit(g) /\ Uses(g) = Uses(r) /\ g.waits = r.waits
  BY <1>5, <1>7, <1>8
<1>10. /\ Thrown(r) \in CallState /\ Fit(Thrown(r)) /\ Thrown(r).waits = r.waits
       /\ Uses(Thrown(r)) + (IF Leaks(r) THEN 1 ELSE 0) = Uses(r)
  BY <1>1, <1>4, ThrownFit
<1>11. QED BY <1>9, <1>10 DEF g

\* The connections a step gets at once, and its places in line for the others.
LEMMA AskFit ==
    ASSUME NEW r \in CallState, Fit(r), Facing(r, {"connect", "one", "two"}), ~r.asks,
           NEW n \in 1 .. 2, n = IF Facing(r, {"two"}) THEN 2 ELSE 1, NEW m \in 0 .. n
    PROVE  LET g == Given([r EXCEPT !.asks = TRUE, !.waits = @ + n - m], m) IN
           /\ g \in CallState /\ Fit(g) /\ Uses(g) = Uses(r) + m
           /\ r.waits = 0 /\ g.waits = n - m
<1>1. r.does # Nothing /\ r # Over(r)
  BY DEF Facing, Over, NoCall
<1>2. r.does \in Handler /\ r.step \in 1 .. Len(Handlers[r.does].steps)
  BY <1>1, StepIs
<1>3. ~Facing(r, {"release"}) /\ (Facing(r, {"connect"}) => ~Facing(r, {"two"}))
  BY DEF Facing
<1>4. r.waits + r.runs = 0 /\ r.step \in 1 .. Last(r) /\ (r.holds <=> Connected(r.does, r.step))
  BY <1>1, <1>3 DEF Fit
<1>5. r.waits = 0 /\ r.runs = 0
  BY <1>4 DEF CallState
<1> DEFINE q == [r EXCEPT !.asks = TRUE, !.waits = @ + n - m]
<1>6. /\ q \in CallState /\ q.does = r.does /\ q.step = r.step /\ q.holds = r.holds
      /\ q.asks /\ q.waits = n - m /\ q.runs = 0
  <2>1. n - m \in 0 .. 2
    OBVIOUS
  <2>a. r.waits + n - m = n - m
    BY <1>5
  <2>2. q = [r EXCEPT !.asks = TRUE, !.waits = n - m]
    BY <2>a
  <2> HIDE DEF q
  <2>3. QED BY <1>5, <2>1, <2>2 DEF CallState
<1> HIDE DEF q
<1>7. (\A S : Facing(q, S) <=> Facing(r, S)) /\ Last(q) = Last(r)
  BY <1>6 DEF Facing, Last
<1>8. Uses(q) = Uses(r) /\ Uses(r) \in Nat
  BY <1>5, <1>6 DEF Uses
<1>9. CASE Facing(r, {"connect"}) /\ m = 1
  <2> DEFINE k == [q EXCEPT !.holds = TRUE]
  <2>1. n = 1 /\ ~r.holds /\ q.waits = 0
    BY <1>2, <1>3, <1>4, <1>6, <1>9, StaysConnected DEF Facing
  <2>2. /\ k \in CallState /\ k.does = r.does /\ k.step = r.step /\ k.holds
        /\ k.asks /\ k.waits = 0 /\ k.runs = 0
    BY <1>6, <2>1 DEF CallState
  <2> HIDE DEF k
  <2>3. Facing(k, {"connect"}) /\ Last(k) = Last(r) /\ Uses(k) = 1 /\ Uses(r) = 0
    BY <1>5, <1>9, <2>1, <2>2 DEF Facing, Last, Uses
  <2>4. k.step \in 1 .. Last(k) - 1
    <3>1. PICK l \in 1 .. 9 : l = Last(r)
      BY <1>2, StaysConnected DEF Last
    <3>2. r.step < l
      BY <1>2, <1>9, <3>1, StaysConnected DEF Last, Facing
    <3>3. QED BY <1>4, <2>2, <2>3, <3>1, <3>2
  <2> DEFINE g == [k EXCEPT !.step = @ + 1, !.asks = FALSE]
  <2>5. g \in CallState /\ Fit(g) /\ Uses(g) = Uses(k) /\ g.waits = 0
    BY <1>1, <2>2, <2>3, <2>4, StepsOn
  <2>6. k.step # Last(k)
    <3>1. PICK l \in 1 .. 9 : l = Last(r)
      BY <1>2, StaysConnected DEF Last
    <3>2. QED BY <2>3, <2>4, <3>1
  <2>7. Given(q, m) = g
    BY <1>7, <1>9, <2>2, <2>6 DEF Given, Onward, k
  <2> HIDE DEF g
  <2>8. QED BY <1>5, <1>9, <2>1, <2>3, <2>5, <2>7 DEF q
<1>10. CASE ~(Facing(r, {"connect"}) /\ m = 1)
  <2> DEFINE g == [q EXCEPT !.runs = @ + m]
  <2>1. Given(q, m) = g
    BY <1>7, <1>10 DEF Given
  <2>2. /\ g \in CallState /\ g.does = r.does /\ g.step = r.step /\ g.holds = r.holds
        /\ g.asks /\ g.waits = n - m /\ g.runs = m
    <3>1. m \in 0 .. 2 /\ g = [q EXCEPT !.runs = m]
      BY <1>6
    <3> HIDE DEF g
    <3>2. QED BY <1>6, <3>1 DEF CallState
  <2> HIDE DEF g
  <2>3. (\A S : Facing(g, S) <=> Facing(r, S)) /\ Last(g) = Last(r)
    BY <2>2 DEF Facing, Last
  <2>4. g.waits + g.runs = n
    BY <2>2
  <2>6. CASE ~Facing(r, {"two"})
    <3>1. n = 1 /\ (Facing(r, {"one", "two"}) \/ (Facing(r, {"connect"}) /\ m = 0))
      BY <1>10, <2>6 DEF Facing
    <3>2. Fit(g)
      BY <1>1, <1>4, <2>2, <2>3, <2>4, <3>1 DEF Fit
    <3>3. Uses(g) = Uses(r) + m
      BY <1>5, <2>2 DEF Uses
    <3>4. QED BY <1>5, <2>1, <2>2, <3>2, <3>3 DEF q
  <2>7. Uses(g) = Uses(r) + m
    BY <1>5, <2>2 DEF Uses
  <2>8. CASE Facing(r, {"two"})
    <3>1. Fit(g)
      BY <1>1, <1>4, <2>2, <2>3, <2>4, <2>8 DEF Fit
    <3>2. QED BY <1>5, <2>1, <2>2, <2>7, <3>1 DEF q
  <2>9. QED BY <2>6, <2>8
<1>11. QED BY <1>9, <1>10

\* A request begins, and the finally of a handler ends it.
LEMMA BegunFit ==
    ASSUME NEW h \in Handler
    PROVE  LET g == [NoCall EXCEPT !.does = h, !.step = 1] IN
           g \in CallState /\ Fit(g) /\ Uses(g) = 0 /\ g.waits = 0
<1> DEFINE g == [NoCall EXCEPT !.does = h, !.step = 1]
<1>1. /\ g \in CallState /\ g.does = h /\ g.step = 1 /\ ~g.holds /\ ~g.asks
      /\ g.waits = 0 /\ g.runs = 0
  <2>1. g.does = h /\ g.step = 1 /\ ~g.holds /\ ~g.asks /\ g.waits = 0 /\ g.runs = 0
    BY DEF NoCall
  <2>2. PICK a : a = [NoCall EXCEPT !.does = h]
    OBVIOUS
  <2>a. a \in CallState
    BY <2>2, IdleFit DEF CallState
  <2>b. g = [a EXCEPT !.step = 1]
    BY <2>2 DEF NoCall
  <2> HIDE DEF g
  <2>4. g \in CallState
    BY <2>a, <2>b DEF CallState
  <2>3. QED BY <2>1, <2>4
<1> HIDE DEF g
<1>2. 1 \in 1 .. Last(g) /\ h # Nothing
  <2>1. PICK n \in 1 .. 9 : n = Len(Handlers[h].steps)
    BY HandlersOrderly DEF Orderly
  <2>2. Last(g) = n
    BY <1>1, <2>1 DEF Last
  <2>3. QED BY <2>2, PoolAssumption
<1>3. ~Connected(h, 1)
  BY DEF Connected
<1>4. Fit(g) /\ Uses(g) = 0
  BY <1>1, <1>2, <1>3 DEF Fit, Uses
<1>5. QED BY <1>1, <1>4 DEF g

LEMMA ReleasedFit ==
    ASSUME NEW r \in CallState, Fit(r), Facing(r, {"release"})
    PROVE  /\ Over(r) \in CallState /\ Fit(Over(r)) /\ Over(r).waits = r.waits
           /\ Uses(Over(r)) = Uses(r) - 1
<1>1. r.does # Nothing /\ r # Over(r)
  BY DEF Facing, Over, NoCall
<1>2. r.does \in Handler /\ r.step \in 1 .. Len(Handlers[r.does].steps)
  BY <1>1, StepIs
<1>3. Connected(r.does, r.step)
  BY <1>2, StaysConnected DEF Facing
<1>4. ~Facing(r, {"connect"}) /\ ~Facing(r, {"one", "two"}) /\ ~Facing(r, {"two"})
  BY DEF Facing
<1>5. r.holds /\ r.waits + r.runs <= 1 /\ r.runs \in 0 .. 2
  BY <1>1, <1>3, <1>4 DEF Fit, CallState
<1>6. /\ Over(r) \in CallState /\ Fit(Over(r)) /\ Over(r).waits = r.waits
      /\ Uses(Over(r)) = r.runs
  BY <1>5, OverFit
<1>7. QED BY <1>5, <1>6 DEF Uses

-----------------------------------------------------------------------------
(* Counting connections *)

\* One row of connections more.
LEMMA RowAdded ==
    ASSUME NEW P, IsFiniteSet(P), NEW c, NEW n \in Nat,
           P \cap ({c} \X (1 .. n)) = {}
    PROVE  /\ IsFiniteSet(P \cup ({c} \X (1 .. n)))
           /\ Cardinality(P \cup ({c} \X (1 .. n))) = Cardinality(P) + n
           /\ Cardinality(P) \in Nat
<1>1. IsFiniteSet({c}) /\ Cardinality({c}) = 1
  BY FS_Singleton
<1>2. IsFiniteSet(1 .. n) /\ Cardinality(1 .. n) = n
  BY FS_Interval
<1>3. IsFiniteSet({c} \X (1 .. n)) /\ Cardinality({c} \X (1 .. n)) = n
  <2>1. PICK A, B : A = {c} /\ B = 1 .. n
    OBVIOUS
  <2>2. /\ IsFiniteSet(A \X B)
        /\ Cardinality(A \X B) = Cardinality(A) * Cardinality(B)
    BY <1>1, <1>2, <2>1, FS_Product
  <2>3. Cardinality(A) * Cardinality(B) = n
    BY <1>1, <1>2, <2>1
  <2>4. QED BY <2>1, <2>2, <2>3
<1>4. Cardinality(P) \in Nat /\ Cardinality({}) = 0
  BY FS_CardinalityType, FS_EmptySet
<1> DEFINE K == {c} \X (1 .. n)
<1>5. /\ IsFiniteSet(P \cup K)
      /\ Cardinality(P \cup K) = Cardinality(P) + Cardinality(K) - Cardinality({})
  BY <1>3, FS_Union
<1>6. QED BY <1>3, <1>4, <1>5

LEMMA UsesType == \A r \in CallState : Uses(r) \in 0 .. 3
  BY DEF CallState, Uses

\* What one call does changes the connections in use by what it does to its own.
LEMMA InUseChanged ==
    ASSUME NEW all \in [Call -> CallState], NEW s \in Call, NEW r \in CallState,
           NEW new, new = [all EXCEPT ![s] = r]
    PROVE  /\ Cardinality(InUse(all)) \in Nat
           /\ Cardinality(InUse(new)) \in Nat
           /\ Cardinality(InUse(new)) + Uses(all[s]) = Cardinality(InUse(all)) + Uses(r)
<1> DEFINE Rest == UNION {{t} \X (1 .. Uses(all[t])) : t \in Call \ {s}}
<1>1. Uses(r) \in 0 .. 3 /\ \A t \in Call : Uses(all[t]) \in 0 .. 3
  BY UsesType
<1>2. IsFiniteSet(Rest)
  <2>1. IsFiniteSet(1 .. 3) /\ IsFiniteSet(Call)
    <3>a. \A n \in Nat : IsFiniteSet(1 .. n)
      BY FS_Interval
    <3>1. IsFiniteSet(1 .. 3)
      BY <3>a
    <3>2. QED BY <3>1, PoolAssumption
  <2>2. PICK A, B : A = Call /\ B = 1 .. 3
    OBVIOUS
  <2>3. IsFiniteSet(A \X B)
    BY <2>1, <2>2, FS_Product
  <2>4. Rest \subseteq A \X B
    BY <1>1, <2>2
  <2> HIDE DEF Rest
  <2>5. QED BY <2>3, <2>4, FS_Subset
<1>3. /\ InUse(all) = Rest \cup ({s} \X (1 .. Uses(all[s])))
      /\ Rest \cap ({s} \X (1 .. Uses(all[s]))) = {}
  BY DEF InUse
<1>4. /\ InUse(new) = Rest \cup ({s} \X (1 .. Uses(r)))
      /\ Rest \cap ({s} \X (1 .. Uses(r))) = {}
  <2>1. new[s] = r /\ \A t \in Call \ {s} : new[t] = all[t]
    OBVIOUS
  <2>2. UNION {{t} \X (1 .. Uses(new[t])) : t \in Call \ {s}} = Rest
    BY <2>1
  <2>3. QED BY <2>1, <2>2 DEF InUse
<1> HIDE DEF Rest
<1>5. PICK a, b : a = Uses(all[s]) /\ b = Uses(r)
  OBVIOUS
<1>6. a \in Nat /\ b \in Nat
  BY <1>1, <1>5
<1>7. Cardinality(InUse(all)) = Cardinality(Rest) + a /\ Cardinality(Rest) \in Nat
  <2>1. InUse(all) = Rest \cup ({s} \X (1 .. a)) /\ Rest \cap ({s} \X (1 .. a)) = {}
    BY <1>3, <1>5
  <2>2. /\ Cardinality(Rest \cup ({s} \X (1 .. a))) = Cardinality(Rest) + a
        /\ Cardinality(Rest) \in Nat
    BY <1>2, <1>6, <2>1, RowAdded
  <2>3. QED BY <2>1, <2>2
<1>8. Cardinality(InUse(new)) = Cardinality(Rest) + b
  <2>1. InUse(new) = Rest \cup ({s} \X (1 .. b)) /\ Rest \cap ({s} \X (1 .. b)) = {}
    BY <1>4, <1>5
  <2>2. Cardinality(Rest \cup ({s} \X (1 .. b))) = Cardinality(Rest) + b
    BY <1>2, <1>6, <2>1, RowAdded
  <2>3. QED BY <2>1, <2>2
<1>9. QED BY <1>5, <1>6, <1>7, <1>8

LEMMA NoneInUse == Cardinality(InUse([s \in Call |-> NoCall])) = 0
<1>1. Uses(NoCall) = 0
  BY IdleFit
<1>2. InUse([s \in Call |-> NoCall]) = {}
  BY <1>1 DEF InUse
<1>3. QED BY <1>2, FS_EmptySet

\* Who is first in line leaves it.
LEMMA PlacesTail ==
    ASSUME NEW q \in Seq(Call), q # <<>>, NEW s \in Call
    PROVE  /\ Cardinality(InLine(q, s)) \in Nat
           /\ Cardinality(InLine(Tail(q), s))
                 = Cardinality(InLine(q, s)) - (IF s = Head(q) THEN 1 ELSE 0)
           /\ s = Head(q) => Cardinality(InLine(q, s)) >= 1
<1> DEFINE A == InLine(q, s)
           B == InLine(Tail(q), s)
           f == [i \in B |-> i + 1]
<1>1. /\ Len(q) \in Nat \ {0} /\ DOMAIN q = 1 .. Len(q) /\ Head(q) = q[1]
      /\ Tail(q) \in Seq(Call) /\ Len(Tail(q)) = Len(q) - 1
      /\ \A i \in 1 .. Len(q) - 1 : Tail(q)[i] = q[i + 1]
  OBVIOUS
<1>2. IsFiniteSet(A) /\ IsFiniteSet(B)
  <2>1. IsFiniteSet(1 .. Len(q)) /\ A \subseteq 1 .. Len(q) /\ B \subseteq 1 .. Len(q)
    BY <1>1, FS_Interval DEF InLine
  <2> HIDE DEF A, B
  <2>2. QED BY <2>1, FS_Subset
<1>3. ExistsBijection(B, A \ {1})
  <2>1. \A i \in B : i \in 1 .. Len(q) - 1 /\ i + 1 \in A \ {1}
    BY <1>1 DEF InLine
  <2>2. \A j \in A \ {1} : j - 1 \in B /\ (j - 1) + 1 = j
    BY <1>1 DEF InLine
  <2> HIDE DEF A, B
  <2>3. f \in [B -> A \ {1}] /\ \A i \in B : f[i] = i + 1
    BY <2>1
  <2>4. \A i, j \in B : f[i] = f[j] => i = j
    BY <2>1, <2>3
  <2>5. \A j \in A \ {1} : \E i \in B : f[i] = j
    BY <2>2, <2>3
  <2> HIDE DEF f
  <2>6. f \in Injection(B, A \ {1}) /\ f \in Surjection(B, A \ {1})
    BY <2>3, <2>4, <2>5 DEF Injection, IsInjective, Surjection
  <2>7. QED BY <2>6 DEF ExistsBijection, Bijection
<1>4. 1 \in A <=> s = Head(q)
  BY <1>1 DEF InLine
<1> HIDE DEF A, B, f
<1>5. /\ IsFiniteSet(A \ {1})
      /\ Cardinality(A \ {1}) = IF 1 \in A THEN Cardinality(A) - 1 ELSE Cardinality(A)
  BY <1>2, FS_RemoveElement
<1>6. Cardinality(B) = Cardinality(A \ {1})
  BY <1>2, <1>3, <1>5, FS_Bijection
<1>7. Cardinality(A) \in Nat /\ Cardinality(B) \in Nat
  BY <1>2, FS_CardinalityType
<1>8. QED BY <1>4, <1>5, <1>6, <1>7 DEF A, B

\* Somebody joins the line, with k places.
LEMMA PlacesAppended ==
    ASSUME NEW q \in Seq(Call), NEW s \in Call, NEW t \in Call, NEW k \in 0 .. 2
    PROVE  LET p == q \o Places(s, k) IN
           /\ p \in Seq(Call)
           /\ k = 0 => p = q
           /\ Cardinality(InLine(q, t)) \in Nat
           /\ Cardinality(InLine(p, t))
                 = Cardinality(InLine(q, t)) + (IF t = s THEN k ELSE 0)
<1> DEFINE a == Places(s, k)
           p == q \o a
           N == Len(q) + 1 .. Len(q) + k
<1>1. a \in Seq(Call) /\ Len(a) = k /\ \A i \in 1 .. k : a[i] = s
  BY DEF Places
<1>2. /\ p \in Seq(Call) /\ Len(p) = Len(q) + k /\ Len(q) \in Nat
      /\ \A i \in 1 .. Len(p) : p[i] = IF i <= Len(q) THEN q[i] ELSE a[i - Len(q)]
  BY <1>1
<1>3. \A i \in N : p[i] = s
  BY <1>1, <1>2
<1>4. k = 0 => p = q
  BY <1>2
<1> HIDE DEF p
<1>5. InLine(p, t) = InLine(q, t) \cup (IF t = s THEN N ELSE {})
  <2>1. DOMAIN p = 1 .. Len(p) /\ DOMAIN q = 1 .. Len(q)
    BY <1>2
  <2>2. \A i \in 1 .. Len(p) : i \in 1 .. Len(q) \/ i \in N
    BY <1>2
  <2>3. \A i \in 1 .. Len(q) : i \in 1 .. Len(p) /\ p[i] = q[i]
    BY <1>2
  <2>4. \A i \in N : i \in 1 .. Len(p) /\ p[i] = s
    BY <1>2, <1>3
  <2> HIDE DEF N
  <2>5. QED BY <2>1, <2>2, <2>3, <2>4 DEF InLine
<1>6. InLine(q, t) \cap N = {}
  BY <1>2 DEF InLine
<1>7. IsFiniteSet(N) /\ Cardinality(N) = k
  BY <1>2, FS_Interval
<1>8. IsFiniteSet(InLine(q, t))
  <2>1. InLine(q, t) \subseteq 1 .. Len(q)
    BY <1>2 DEF InLine
  <2>2. IsFiniteSet(1 .. Len(q))
    BY <1>2, FS_Interval
  <2>3. QED BY <2>1, <2>2, FS_Subset
<1>9. Cardinality(InLine(q, t)) \in Nat /\ Cardinality({}) = 0
  BY <1>8, FS_CardinalityType, FS_EmptySet
<1> HIDE DEF N
<1>10. Cardinality(InLine(q, t) \cup N) = Cardinality(InLine(q, t)) + Cardinality(N) - Cardinality({})
  BY <1>6, <1>7, <1>8, FS_Union
<1>11. ASSUME t = s
       PROVE Cardinality(InLine(p, t)) = Cardinality(InLine(q, t)) + (IF t = s THEN k ELSE 0)
  <2>1. InLine(p, t) = InLine(q, t) \cup N
    BY <1>5, <1>11
  <2>2. Cardinality(InLine(p, t)) = Cardinality(InLine(q, t)) + k
    <3>1. PICK a1, b1 : a1 = Cardinality(InLine(q, t)) /\ b1 = Cardinality(InLine(p, t))
      OBVIOUS
    <3>2. a1 \in Nat /\ b1 = a1 + k - 0
      BY <1>7, <1>9, <1>10, <2>1, <3>1
    <3>3. b1 = a1 + k
      BY <3>2
    <3>4. QED BY <3>1, <3>3
  <2>3. QED BY <1>11, <2>2
<1>12. ASSUME t # s
       PROVE Cardinality(InLine(p, t)) = Cardinality(InLine(q, t)) + (IF t = s THEN k ELSE 0)
  <2>1. InLine(p, t) = InLine(q, t)
    BY <1>5, <1>12
  <2>2. QED BY <1>9, <1>12, <2>1
<1>13. QED BY <1>2, <1>4, <1>9, <1>11, <1>12 DEF p

-----------------------------------------------------------------------------
(* The invariant of Pool *)

\* A call takes a step by itself.
LEMMA BecomeStep ==
    ASSUME PoolInv, NEW s \in Call, NEW r \in CallState, Fit(r), Become(s, r),
           UNCHANGED <<queue, free>>, r.waits = calls[s].waits, leaked' \in Nat,
           Uses(r) + leaked' = Uses(calls[s]) + leaked
    PROVE  PoolInv'
<1>1. /\ PoolTypes /\ free + leaked + Cardinality(InUse(calls)) = Size
      /\ \A t \in Call : Fit(calls[t]) /\ calls[t].waits = Cardinality(InLine(queue, t))
      /\ free > 0 => queue = <<>>
  BY DEF PoolInv
<1>2. PICK all : all = calls
  OBVIOUS
<1>3. PICK new : new = calls'
  OBVIOUS
<1>4. all \in [Call -> CallState] /\ new = [all EXCEPT ![s] = r]
  BY <1>1, <1>2, <1>3 DEF Become, PoolTypes
<1>5. /\ Cardinality(InUse(all)) \in Nat
      /\ Cardinality(InUse(new)) \in Nat
      /\ Cardinality(InUse(new)) + Uses(all[s]) = Cardinality(InUse(all)) + Uses(r)
  BY <1>4, InUseChanged
<1>6. Uses(all[s]) \in Nat /\ Uses(r) \in Nat
  BY <1>4, UsesType
<1>7. new \in [Call -> CallState]
  BY <1>4
<1>8. \A t \in Call : Fit(new[t]) /\ new[t].waits = Cardinality(InLine(queue, t))
  BY <1>1, <1>2, <1>4
<1>9. Size \in Nat /\ free \in Nat /\ leaked \in Nat
  BY <1>1, PoolAssumption DEF PoolTypes
<1>10. free + leaked' + Cardinality(InUse(new)) = Size
  <2>1. PICK i, j, u, v, m :
           /\ i = Cardinality(InUse(all)) /\ j = Cardinality(InUse(new))
           /\ u = Uses(all[s]) /\ v = Uses(r) /\ m = leaked'
    OBVIOUS
  <2>2. /\ i \in Nat /\ j \in Nat /\ u \in Nat /\ v \in Nat /\ m \in Nat
        /\ free + leaked + i = Size /\ j + u = i + v /\ v + m = u + leaked
    BY <1>1, <1>2, <1>5, <1>6, <2>1
  <2>3. free + m + j = Size
    BY <1>9, <2>2
  <2>4. QED BY <2>1, <2>3
<1>11. leaked' \in 0 .. Size
  BY <1>5, <1>9, <1>10
<1>12. PoolTypes'
  BY <1>1, <1>3, <1>7, <1>11 DEF PoolTypes
<1>13. InUse(calls)' = InUse(new)
  BY <1>3 DEF InUse
<1>14. \A t \in Call : InLine(queue, t)' = InLine(queue, t)
  BY DEF InLine
<1>15. QED BY <1>1, <1>3, <1>8, <1>10, <1>12, <1>13, <1>14 DEF PoolInv

\* A connection comes back.
LEMMA GiveBackStep ==
    ASSUME PoolInv, NEW all \in [Call -> CallState], GiveBack(all),
           \A s \in Call : Fit(all[s]) /\ all[s].waits = calls[s].waits,
           leaked' \in Nat,
           free + leaked' + Cardinality(InUse(all)) + 1 = Size,
           Cardinality(InUse(all)) \in Nat
    PROVE  PoolInv'
<1>1. /\ PoolTypes /\ free \in Nat /\ leaked \in Nat /\ queue \in Seq(Call) /\ Size \in Nat
      /\ \A t \in Call : all[t].waits = Cardinality(InLine(queue, t))
      /\ free > 0 => queue = <<>>
  BY PoolAssumption DEF PoolInv, PoolTypes
<1>2. CASE queue = <<>>
  <2>1. free' = free + 1 /\ calls' = all /\ queue' = queue
    BY <1>2 DEF GiveBack
  <2>2. InUse(calls)' = InUse(all) /\ \A t \in Call : InLine(queue, t)' = InLine(queue, t)
    BY <2>1 DEF InUse, InLine
  <2>3. free' \in 0 .. Size /\ leaked' \in 0 .. Size
    BY <1>1, <2>1
  <2>4. PoolTypes'
    BY <1>1, <2>1, <2>3 DEF PoolTypes
  <2>5. free' + leaked' + Cardinality(InUse(all)) = Size
    BY <1>1, <2>1
  <2>6. QED BY <1>1, <1>2, <2>1, <2>2, <2>4, <2>5 DEF PoolInv
<1>3. CASE queue # <<>>
  <2>1. PICK q : q = queue
    OBVIOUS
  <2>2. q \in Seq(Call) /\ q # <<>>
    BY <1>1, <1>3, <2>1
  <2>3. PICK h \in Call : h = Head(q)
    BY <2>2
  <2>4. PICK g : g = Served(all[h])
    OBVIOUS
  <2>5. PICK new : new = [all EXCEPT ![h] = g]
    OBVIOUS
  <2>a. /\ calls' = [all EXCEPT ![Head(queue)] = Served(@)]
        /\ queue' = Tail(queue) /\ free' = free
    BY <1>3 DEF GiveBack
  <2>b. h = Head(queue)
    BY <2>1, <2>3
  <2>c. free = 0
    BY <1>1, <1>3
  <2>d. calls' = [all EXCEPT ![h] = g]
    BY <2>4, <2>a, <2>b
  <2>6. calls' = new /\ queue' = Tail(q) /\ free' = free /\ free = 0
    BY <2>1, <2>5, <2>a, <2>c, <2>d, Zenon
  <2>7. \A t \in Call :
           /\ Cardinality(InLine(q, t)) \in Nat
           /\ Cardinality(InLine(Tail(q), t))
                 = Cardinality(InLine(q, t)) - (IF t = h THEN 1 ELSE 0)
           /\ t = h => Cardinality(InLine(q, t)) >= 1
    BY <2>2, <2>3, PlacesTail
  <2>8. all[h] \in CallState /\ Fit(all[h]) /\ all[h].waits > 0
    BY <1>1, <2>1, <2>7
  <2>9. g \in CallState /\ Fit(g) /\ Uses(g) = Uses(all[h]) + 1 /\ g.waits = all[h].waits - 1
    BY <2>4, <2>8, GivenFit DEF Served
  <2>10. /\ Cardinality(InUse(new)) \in Nat
         /\ Cardinality(InUse(new)) + Uses(all[h]) = Cardinality(InUse(all)) + Uses(g)
    BY <2>5, <2>9, InUseChanged
  <2>11. Uses(all[h]) \in Nat
    BY <2>8, UsesType
  <2>12. free + leaked' + Cardinality(InUse(new)) = Size
    <3>1. PICK i, j, u, m :
             /\ i = Cardinality(InUse(all)) /\ j = Cardinality(InUse(new))
             /\ u = Uses(all[h]) /\ m = leaked'
      OBVIOUS
    <3>2. /\ i \in Nat /\ j \in Nat /\ u \in Nat /\ m \in Nat
          /\ free + m + i + 1 = Size /\ j + u = i + (u + 1)
      BY <2>9, <2>10, <2>11, <3>1
    <3>3. free + m + j = Size
      BY <1>1, <3>2
    <3>4. QED BY <3>1, <3>3
  <2>13. new \in [Call -> CallState] /\ \A t \in Call : Fit(new[t])
    BY <2>5, <2>9
  <2>14. ASSUME NEW t \in Call PROVE new[t].waits = Cardinality(InLine(Tail(q), t))
    <3>1. CASE t = h
      BY <1>1, <2>1, <2>5, <2>7, <2>9, <3>1
    <3>2. CASE t # h
      BY <1>1, <2>1, <2>5, <2>7, <3>2
    <3>3. QED BY <3>1, <3>2
  <2>15. leaked' \in 0 .. Size /\ free' \in 0 .. Size
    BY <1>1, <2>6, <2>10, <2>12
  <2>16. Tail(q) \in Seq(Call)
    BY <2>2
  <2>17. PoolTypes'
    BY <2>6, <2>13, <2>15, <2>16 DEF PoolTypes
  <2>18. InUse(calls)' = InUse(new) /\ \A t \in Call : InLine(queue, t)' = InLine(Tail(q), t)
    BY <2>6 DEF InUse, InLine
  <2>19. QED BY <2>6, <2>12, <2>13, <2>14, <2>17, <2>18 DEF PoolInv
<1>4. QED BY <1>2, <1>3

\* A call ends with one connection less, which comes back.
LEMMA LessStep ==
    ASSUME PoolInv, NEW s \in Call, NEW r \in CallState, Fit(r),
           r.waits = calls[s].waits, leaked' \in Nat,
           Uses(r) + leaked' = Uses(calls[s]) + leaked - 1,
           GiveBack([calls EXCEPT ![s] = r])
    PROVE  PoolInv'
<1>1. /\ PoolTypes /\ free + leaked + Cardinality(InUse(calls)) = Size
      /\ \A t \in Call : Fit(calls[t])
      /\ free \in Nat /\ leaked \in Nat /\ Size \in Nat
  BY PoolAssumption DEF PoolInv, PoolTypes
<1>2. PICK all : all = calls
  OBVIOUS
<1>3. PICK new : new = [all EXCEPT ![s] = r]
  OBVIOUS
<1>4. all \in [Call -> CallState] /\ new = [all EXCEPT ![s] = r]
  BY <1>1, <1>2, <1>3 DEF PoolTypes
<1>a. new \in [Call -> CallState]
  BY <1>4
<1>5. /\ Cardinality(InUse(all)) \in Nat
      /\ Cardinality(InUse(new)) \in Nat
      /\ Cardinality(InUse(new)) + Uses(all[s]) = Cardinality(InUse(all)) + Uses(r)
  BY <1>4, InUseChanged
<1>6. Uses(all[s]) \in Nat /\ Uses(r) \in Nat
  BY <1>4, UsesType
<1>7. free + leaked' + Cardinality(InUse(new)) + 1 = Size
  <2>1. PICK i, j, u, v, m :
           /\ i = Cardinality(InUse(all)) /\ j = Cardinality(InUse(new))
           /\ u = Uses(all[s]) /\ v = Uses(r) /\ m = leaked'
    OBVIOUS
  <2>2. /\ i \in Nat /\ j \in Nat /\ u \in Nat /\ v \in Nat /\ m \in Nat
        /\ free + leaked + i = Size /\ j + u = i + v /\ v + m = u + leaked - 1
    BY <1>1, <1>2, <1>5, <1>6, <2>1
  <2>3. free + m + j + 1 = Size
    BY <1>1, <2>2
  <2>4. QED BY <2>1, <2>3
<1>8. \A t \in Call : Fit(new[t]) /\ new[t].waits = calls[t].waits
  BY <1>1, <1>2, <1>3, <1>4
<1>9. GiveBack(new)
  BY <1>2, <1>3
<1>10. QED BY <1>a, <1>5, <1>7, <1>8, <1>9, GiveBackStep

\* Someone begins, and the connections as they are stay so.
LEMMA CallStep ==
    ASSUME PoolInv, NEW s \in Call, NEW h \in Handler, Arrive(s, h)
    PROVE  PoolInv'
<1>1. PICK g : g = [NoCall EXCEPT !.does = h, !.step = 1]
  OBVIOUS
<1>2. g \in CallState /\ Fit(g) /\ Uses(g) = 0 /\ g.waits = 0
  BY <1>1, BegunFit
<1>3. calls[s] = NoCall /\ Become(s, g) /\ UNCHANGED <<free, queue, leaked>>
  BY <1>1 DEF Arrive
<1>4. Uses(calls[s]) = 0 /\ calls[s].waits = 0
  BY <1>3, IdleFit
<1>5. leaked \in Nat /\ leaked' = leaked
  BY <1>3, PoolAssumption DEF PoolInv, PoolTypes
<1>6. QED BY <1>2, <1>3, <1>4, <1>5, BecomeStep

LEMMA OwnStep ==
    ASSUME PoolInv, NEW s \in Call, Own(s)
    PROVE  PoolInv'
<1>1. PICK r : r = calls[s]
  OBVIOUS
<1>2. r \in CallState /\ Fit(r) /\ Facing(r, {"own"}) /\ leaked \in Nat
  BY <1>1, PoolAssumption DEF PoolInv, PoolTypes, Own
<1>3. PICK g : g = [r EXCEPT !.step = @ + 1]
  OBVIOUS
<1>4. g \in CallState /\ Fit(g) /\ g.waits = r.waits /\ Uses(g) = Uses(r)
  BY <1>2, <1>3, OwnFit
<1>5. Become(s, g) /\ UNCHANGED <<free, queue, leaked>>
  BY <1>1, <1>3 DEF Own
<1>6. Uses(g) + leaked' = Uses(calls[s]) + leaked /\ leaked' \in Nat
  BY <1>1, <1>2, <1>4, <1>5
<1>7. QED BY <1>1, <1>4, <1>5, <1>6, BecomeStep

LEMMA OwnFailsStep ==
    ASSUME PoolInv, NEW s \in Call, OwnFails(s)
    PROVE  PoolInv'
<1>1. PICK r : r = calls[s]
  OBVIOUS
<1>2. r \in CallState /\ Fit(r) /\ Facing(r, {"own"}) /\ leaked \in Nat
  BY <1>1, PoolAssumption DEF PoolInv, PoolTypes, OwnFails
<1>3. PICK g : g = Thrown(r)
  OBVIOUS
<1>4. /\ g \in CallState /\ Fit(g) /\ g.waits = r.waits
      /\ Uses(g) + (IF Leaks(r) THEN 1 ELSE 0) = Uses(r)
  BY <1>2, <1>3, OwnFit
<1>5. /\ Become(s, g) /\ UNCHANGED <<free, queue>>
      /\ leaked' = IF Leaks(r) THEN leaked + 1 ELSE leaked
  BY <1>1, <1>3 DEF OwnFails
<1>6. Uses(g) + leaked' = Uses(calls[s]) + leaked /\ leaked' \in Nat
  <2>1. Uses(g) \in Nat
    BY <1>4, UsesType
  <2>2. QED BY <1>1, <1>2, <1>4, <1>5, <2>1
<1>7. QED BY <1>1, <1>4, <1>5, <1>6, BecomeStep

LEMMA EndsStep ==
    ASSUME PoolInv, NEW s \in Call, QueryEnds(s)
    PROVE  PoolInv'
<1>1. PICK r : r = calls[s]
  OBVIOUS
<1>2. r \in CallState /\ Fit(r) /\ r.runs > 0 /\ leaked \in Nat
  BY <1>1, PoolAssumption DEF PoolInv, PoolTypes, QueryEnds
<1>3. PICK e : e = Onward([r EXCEPT !.runs = @ - 1])
  OBVIOUS
<1>4. e \in CallState /\ Fit(e) /\ Uses(e) = Uses(r) - 1 /\ e.waits = r.waits
  BY <1>2, <1>3, EndsFit
<1>5. GiveBack([calls EXCEPT ![s] = e]) /\ leaked' = leaked
  BY <1>1, <1>3 DEF QueryEnds
<1>6. Uses(e) + leaked' = Uses(calls[s]) + leaked - 1 /\ leaked' \in Nat
  <2>1. Uses(e) \in Nat /\ Uses(r) \in Nat
    BY <1>2, <1>4, UsesType
  <2>2. QED BY <1>1, <1>2, <1>4, <1>5, <2>1
<1>7. QED BY <1>1, <1>4, <1>5, <1>6, LessStep

LEMMA ReleaseStep ==
    ASSUME PoolInv, NEW s \in Call, ReleaseRunner(s)
    PROVE  PoolInv'
<1>1. PICK r : r = calls[s]
  OBVIOUS
<1>2. r \in CallState /\ Fit(r) /\ Facing(r, {"release"}) /\ leaked \in Nat
  BY <1>1, PoolAssumption DEF PoolInv, PoolTypes, ReleaseRunner
<1>3. PICK o : o = Over(r)
  OBVIOUS
<1>4. o \in CallState /\ Fit(o) /\ o.waits = r.waits /\ Uses(o) = Uses(r) - 1
  BY <1>2, <1>3, ReleasedFit
<1>5. GiveBack([calls EXCEPT ![s] = o]) /\ leaked' = leaked
  BY <1>1, <1>3 DEF ReleaseRunner
<1>6. Uses(o) + leaked' = Uses(calls[s]) + leaked - 1 /\ leaked' \in Nat
  <2>1. Uses(o) \in Nat /\ Uses(r) \in Nat
    BY <1>2, <1>4, UsesType
  <2>2. QED BY <1>1, <1>2, <1>4, <1>5, <2>1
<1>7. QED BY <1>1, <1>4, <1>5, <1>6, LessStep

LEMMA FailsStep ==
    ASSUME PoolInv, NEW s \in Call, QueryFails(s)
    PROVE  PoolInv'
<1>1. PICK r : r = calls[s]
  OBVIOUS
<1>2. r \in CallState /\ Fit(r) /\ r.runs > 0 /\ leaked \in Nat
  BY <1>1, PoolAssumption DEF PoolInv, PoolTypes, QueryFails
<1>3. PICK q : q = [r EXCEPT !.runs = @ - 1]
  OBVIOUS
<1>4. PICK f : f = IF q.asks THEN Thrown(q) ELSE q
  OBVIOUS
<1>5. /\ f \in CallState /\ Fit(f) /\ f.waits = r.waits
      /\ Uses(f) + (IF q.asks /\ Leaks(q) THEN 1 ELSE 0) = Uses(r) - 1
  BY <1>2, <1>3, <1>4, FailsFit
<1>6. /\ GiveBack([calls EXCEPT ![s] = f])
      /\ leaked' = IF q.asks /\ Leaks(q) THEN leaked + 1 ELSE leaked
  BY <1>1, <1>3, <1>4 DEF QueryFails
<1>7. Uses(f) + leaked' = Uses(calls[s]) + leaked - 1 /\ leaked' \in Nat
  <2>1. Uses(f) \in Nat /\ Uses(r) \in Nat
    BY <1>2, <1>5, UsesType
  <2>2. QED BY <1>1, <1>2, <1>5, <1>6, <2>1
<1>8. QED BY <1>1, <1>5, <1>6, <1>7, LessStep

\* A step asks, and gets what there is: only when that is not enough it gets
\* in line.
LEMMA AskStep ==
    ASSUME PoolInv, NEW s \in Call, Ask(s)
    PROVE  PoolInv'
<1>1. PICK all : all = calls
  OBVIOUS
<1>2. /\ PoolTypes /\ free + leaked + Cardinality(InUse(all)) = Size
      /\ \A t \in Call : Fit(all[t]) /\ all[t].waits = Cardinality(InLine(queue, t))
      /\ free > 0 => queue = <<>>
      /\ all \in [Call -> CallState] /\ queue \in Seq(Call)
      /\ free \in Nat /\ leaked \in Nat /\ Size \in Nat
  BY <1>1, PoolAssumption DEF PoolInv, PoolTypes
<1>3. PICK r : r = all[s]
  OBVIOUS
<1>4. PICK n \in 1 .. 2 : n = IF Facing(r, {"two"}) THEN 2 ELSE 1
  OBVIOUS
<1>5. PICK m : m = IF n <= free THEN n ELSE free
  OBVIOUS
<1>6. m \in 0 .. n /\ m <= free /\ (m < n => m = free) /\ n - m \in 0 .. 2
  BY <1>2, <1>5
<1>7. PICK g : g = Given([r EXCEPT !.asks = TRUE, !.waits = @ + n - m], m)
  OBVIOUS
<1>8. /\ Facing(r, {"connect", "one", "two"}) /\ ~r.asks
      /\ free' = free - m
      /\ queue' = queue \o Places(s, n - m)
      /\ Become(s, g)
      /\ leaked' = leaked
  BY <1>1, <1>3, <1>4, <1>5, <1>7 DEF Ask
<1>9. r \in CallState /\ Fit(r)
  BY <1>2, <1>3
<1>10. /\ g \in CallState /\ Fit(g) /\ Uses(g) = Uses(r) + m
       /\ r.waits = 0 /\ g.waits = n - m
  BY <1>4, <1>6, <1>7, <1>8, <1>9, AskFit
<1>11. PICK new : new = [all EXCEPT ![s] = g]
  OBVIOUS
<1>12. calls' = new
  BY <1>1, <1>8, <1>11 DEF Become
<1>13. /\ Cardinality(InUse(all)) \in Nat
       /\ Cardinality(InUse(new)) \in Nat
       /\ Cardinality(InUse(new)) + Uses(all[s]) = Cardinality(InUse(all)) + Uses(g)
  BY <1>2, <1>10, <1>11, InUseChanged
<1>14. free' + leaked' + Cardinality(InUse(new)) = Size
  <2>1. PICK i, j, u, f :
           /\ i = Cardinality(InUse(all)) /\ j = Cardinality(InUse(new))
           /\ u = Uses(r) /\ f = free'
    OBVIOUS
  <2>2. u \in Nat
    BY <1>9, <2>1, UsesType
  <2>3. /\ i \in Nat /\ j \in Nat /\ free + leaked + i = Size /\ j + u = i + (u + m)
        /\ f = free - m
    BY <1>2, <1>3, <1>8, <1>10, <1>13, <2>1
  <2>4. f + leaked + j = Size
    BY <1>2, <1>6, <2>2, <2>3
  <2>5. QED BY <1>8, <2>1, <2>4
<1>15. PICK k \in 0 .. 2 : k = n - m
  BY <1>6
<1>16. PICK p : p = queue'
  OBVIOUS
<1>17. p = queue \o Places(s, k)
  BY <1>8, <1>15, <1>16
<1>18. ASSUME NEW t \in Call
       PROVE  /\ p \in Seq(Call) /\ (k = 0 => p = queue)
              /\ new[t].waits = Cardinality(InLine(p, t))
  <2>1. PICK q : q = queue
    OBVIOUS
  <2>2. q \in Seq(Call) /\ p = q \o Places(s, k)
    BY <1>2, <1>17, <2>1
  <2>3. /\ p \in Seq(Call) /\ (k = 0 => p = q)
        /\ Cardinality(InLine(q, t)) \in Nat
        /\ Cardinality(InLine(p, t)) = Cardinality(InLine(q, t)) + (IF t = s THEN k ELSE 0)
    <3>1. LET o == q \o Places(s, k) IN
          /\ o \in Seq(Call) /\ (k = 0 => o = q)
          /\ Cardinality(InLine(q, t)) \in Nat
          /\ Cardinality(InLine(o, t)) = Cardinality(InLine(q, t)) + (IF t = s THEN k ELSE 0)
      BY <2>2, PlacesAppended
    <3>2. QED BY <2>2, <3>1
  <2>4. all[t].waits = Cardinality(InLine(q, t))
    BY <1>2, <2>1
  <2>5. CASE t = s
    <3>1. new[t].waits = k /\ all[t].waits = 0
      BY <1>2, <1>3, <1>10, <1>11, <1>15, <2>5
    <3>2. QED BY <2>1, <2>3, <2>4, <2>5, <3>1
  <2>6. CASE t # s
    <3>1. new[t] = all[t]
      BY <1>2, <1>11, <2>6
    <3>2. QED BY <2>1, <2>3, <2>4, <2>6, <3>1
  <2>7. QED BY <2>5, <2>6
<1>19. free' > 0 => p = <<>>
  BY <1>2, <1>6, <1>8, <1>15, <1>18
<1>20. new \in [Call -> CallState] /\ \A t \in Call : Fit(new[t])
  BY <1>2, <1>10, <1>11
<1>21. free' \in 0 .. Size /\ leaked' \in 0 .. Size
  BY <1>2, <1>6, <1>8, <1>13
<1>22. PoolTypes'
  BY <1>12, <1>16, <1>18, <1>20, <1>21 DEF PoolTypes
<1>23. InUse(calls)' = InUse(new) /\ \A t \in Call : InLine(queue, t)' = InLine(p, t)
  BY <1>12, <1>16 DEF InUse, InLine
<1>24. QED BY <1>12, <1>14, <1>16, <1>18, <1>19, <1>20, <1>22, <1>23 DEF PoolInv

\* Everything is as it is when the process has just started.
LEMMA NewPool ==
    /\ PoolInit => PoolInv
    /\ Restart => PoolInv'
<1>1. PICK none : none = [s \in Call |-> NoCall]
  OBVIOUS
<1>2. /\ none \in [Call -> CallState] /\ Cardinality(InUse(none)) = 0
      /\ \A s \in Call : Fit(none[s]) /\ none[s].waits = 0
  BY <1>1, IdleFit, NoneInUse
<1>3. /\ Size \in Nat /\ Size \in 0 .. Size /\ 0 \in 0 .. Size
      /\ <<>> \in Seq(Call) /\ Size + 0 + 0 = Size
  BY PoolAssumption
<1>4. \A s \in Call : Cardinality(InLine(<<>>, s)) = 0
  <2>1. \A s \in Call : InLine(<<>>, s) = {}
    BY DEF InLine
  <2>2. QED BY <2>1, FS_EmptySet
<1>5. ASSUME PoolInit PROVE PoolInv
  <2>1. calls = none /\ free = Size /\ queue = <<>> /\ leaked = 0
    BY <1>1, <1>5 DEF PoolInit
  <2>2. PoolTypes
    BY <1>2, <1>3, <2>1 DEF PoolTypes
  <2>3. free + leaked + Cardinality(InUse(calls)) = Size
    BY <1>2, <1>3, <2>1
  <2>4. \A s \in Call : Fit(calls[s]) /\ calls[s].waits = Cardinality(InLine(queue, s))
    BY <1>2, <1>4, <2>1
  <2>5. QED BY <2>1, <2>2, <2>3, <2>4 DEF PoolInv
<1>6. ASSUME Restart PROVE PoolInv'
  <2>1. calls' = none /\ free' = Size /\ queue' = <<>> /\ leaked' = 0
    BY <1>1, <1>6 DEF Restart
  <2>2. PoolTypes'
    BY <1>2, <1>3, <2>1 DEF PoolTypes
  <2>3. InUse(calls)' = InUse(none) /\ \A s \in Call : InLine(queue, s)' = InLine(<<>>, s)
    BY <2>1 DEF InUse, InLine
  <2>4. free' + leaked' + Cardinality(InUse(none)) = Size
    BY <1>2, <1>3, <2>1
  <2>5. \A s \in Call : Fit(calls'[s]) /\ calls'[s].waits = Cardinality(InLine(<<>>, s))
    BY <1>2, <1>4, <2>1
  <2>6. QED BY <2>1, <2>2, <2>3, <2>4, <2>5 DEF PoolInv
<1>7. QED BY <1>5, <1>6

LEMMA PoolStep ==
    ASSUME PoolInv, [PoolNext]_poolVars
    PROVE  PoolInv'
<1>1. ASSUME NEW s \in Call, NEW h \in Handler, Arrive(s, h) PROVE PoolInv'
  BY <1>1, CallStep
<1>2. ASSUME NEW s \in Call, Ask(s) PROVE PoolInv'
  BY <1>2, AskStep
<1>3. ASSUME NEW s \in Call, Own(s) PROVE PoolInv'
  BY <1>3, OwnStep
<1>4. ASSUME NEW s \in Call, QueryEnds(s) PROVE PoolInv'
  BY <1>4, EndsStep
<1>5. ASSUME NEW s \in Call, ReleaseRunner(s) PROVE PoolInv'
  BY <1>5, ReleaseStep
<1>6. ASSUME NEW s \in Call, QueryFails(s) PROVE PoolInv'
  BY <1>6, FailsStep
<1>7. ASSUME NEW s \in Call, OwnFails(s) PROVE PoolInv'
  BY <1>7, OwnFailsStep
<1>8. ASSUME Restart PROVE PoolInv'
  BY <1>8, NewPool
<1>9. ASSUME UNCHANGED poolVars PROVE PoolInv'
  BY <1>9 DEF poolVars, PoolInv, PoolTypes, InUse, InLine
<1>10. QED BY <1>1, <1>2, <1>3, <1>4, <1>5, <1>6, <1>7, <1>8, <1>9 DEF PoolNext, Advance

-----------------------------------------------------------------------------
(* The theorems about Pool *)

\* Every connection is free, at work, kept by a query runner or lost; nobody
\* waits while one is free; and those in line are those who wait: whatever the
\* size of the pool, and however many requests there are.
THEOREM PoolInvariant ==
    PoolSpec => []PoolInv
<1>1. PoolInit => PoolInv
  BY NewPool
<1>2. PoolInv /\ [PoolNext]_poolVars => PoolInv'
  BY PoolStep
<1>3. QED BY <1>1, <1>2, PTL DEF PoolSpec

\* When nobody's statement is at work, the connections in use are the query
\* runners'.
LEMMA HoldersCounted ==
    ASSUME PoolTypes, \A s \in Call : calls[s].runs = 0
    PROVE  Cardinality(InUse(calls)) = Cardinality(Holders) /\ Cardinality(Holders) \in Nat
<1>1. \A s \in Call : Uses(calls[s]) = IF s \in Holders THEN 1 ELSE 0
  BY DEF Uses, Holders
<1>2. InUse(calls) = Holders \X {1}
  <2>1. \A k \in 1 .. 1 : k = 1
    OBVIOUS
  <2>2. 1 \in 1 .. 1 /\ 1 .. 0 = {}
    OBVIOUS
  <2>3. ASSUME NEW s \in Call
        PROVE  {s} \X (1 .. Uses(calls[s])) = IF s \in Holders THEN {<<s, 1>>} ELSE {}
    <3>1. CASE s \in Holders
      <4>1. 1 .. Uses(calls[s]) = {1}
        BY <1>1, <2>1, <2>2, <3>1
      <4>2. QED BY <3>1, <4>1
    <3>2. CASE s \notin Holders
      <4>1. 1 .. Uses(calls[s]) = {}
        BY <1>1, <2>2, <3>2
      <4>2. QED BY <3>2, <4>1
    <3>3. QED BY <3>1, <3>2
  <2>4. InUse(calls) = UNION {IF s \in Holders THEN {<<s, 1>>} ELSE {} : s \in Call}
    BY <2>3 DEF InUse
  <2>5. Holders \subseteq Call
    BY DEF Holders
  <2>6. UNION {IF s \in Holders THEN {<<s, 1>>} ELSE {} : s \in Call} = Holders \X {1}
    BY <2>5
  <2>7. QED BY <2>4, <2>6
<1>3. IsFiniteSet(Holders) /\ Cardinality(Holders) \in Nat
  <2>1. Holders \subseteq Call /\ IsFiniteSet(Call)
    BY PoolAssumption DEF Holders
  <2>2. QED BY <2>1, FS_Subset, FS_CardinalityType
<1>4. IsFiniteSet({1}) /\ Cardinality({1}) = 1
  BY FS_Singleton
<1>5. PICK A, B : A = Holders /\ B = {1}
  OBVIOUS
<1>6. Cardinality(A \X B) = Cardinality(A) * Cardinality(B)
  BY <1>3, <1>4, <1>5, FS_Product
<1>7. Cardinality(A) * Cardinality(B) = Cardinality(A)
  BY <1>3, <1>4, <1>5
<1>8. QED BY <1>2, <1>3, <1>5, <1>6, <1>7

\* Requests wait for each other for ever only when all connections that are
\* not lost are kept by transactions.
THEOREM Starvation ==
    PoolSpec => []StarvedByTransactions
<1>1. ASSUME PoolInv PROVE StarvedByTransactions
  <2>1. ASSUME Starved PROVE Cardinality(Holders) + leaked = Size
    <3>1. queue # <<>> /\ \A s \in Call : calls[s].runs = 0
      BY <2>1 DEF Starved
    <3>2. PoolTypes /\ free = 0 /\ leaked \in Nat
      BY <1>1, <3>1, PoolAssumption DEF PoolInv, PoolTypes
    <3>3. free + leaked + Cardinality(InUse(calls)) = Size
      BY <1>1 DEF PoolInv
    <3>4. Cardinality(InUse(calls)) = Cardinality(Holders) /\ Cardinality(Holders) \in Nat
      BY <3>1, <3>2, HoldersCounted
    <3>5. PICK c : c = Cardinality(Holders)
      OBVIOUS
    <3>6. QED BY <3>2, <3>3, <3>4, <3>5
  <2>2. QED BY <2>1 DEF StarvedByTransactions
<1>2. PoolSpec => []PoolInv
  BY PoolInvariant
<1>3. QED BY <1>1, <1>2, PTL

=============================================================================
