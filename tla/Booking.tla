------------------------------ MODULE Booking ------------------------------
(***************************************************************************)
(* The appointments of an organization: AppointmentsService with the       *)
(* payments PaymentsService makes for them, over the tables appointment,   *)
(* booking_item and payment.                                               *)
(*                                                                         *)
(* A slot is one HTTP request with everything it starts, the promises it   *)
(* does not await included; each await on the database ends a step, so     *)
(* handlers of different slots interleave there.  No handler's statements  *)
(* run inside the transaction its query runner opens (they go through the  *)
(* injected repositories, that is through other pooled connections), so    *)
(* every statement takes effect at once and a rollback undoes nothing.     *)
(* Repository.save is one step: it writes every column of the entity it is *)
(* given, inserting the row again if it has gone.                          *)
(*                                                                         *)
(* Data: what a request books is a basket, with the total duration and     *)
(* price of its services; booking items are kept as the sum over the rows  *)
(* of an appointment and the slots that inserted them; the total columns   *)
(* of an appointment, which one statement writes, are its cost.            *)
(***************************************************************************)
EXTENDS Naturals

CONSTANTS
    Appt,        \* the ids of appointments
    Slot,        \* the requests that can be in flight at the same time
    Basket,      \* what the bookingItems of a request body may be
    Bookable,    \* those whose services and members the organization has
    Time, Cost,  \* total duration and discounted price of each basket
    StartTimes,  \* the start times a request body may have
    DtoStatus,   \* the statuses a request body may have
    Ops,         \* the operations clients call
    Faulty,      \* whether statements may fail and the process may die
    None

Status == {"pending", "confirmed", "cancelled", "completed"}
Op == {"create", "update", "confirm", "cancel", "complete", "reschedule",
       "remove"}

Row == [status : Status, start : Nat, end : Nat, cost : Nat]

ASSUME BookingAssumption ==
    /\ Bookable \subseteq Basket
    /\ Time \in [Basket -> Nat]
    /\ Cost \in [Basket -> Nat]
    /\ StartTimes \subseteq Nat
    /\ DtoStatus \subseteq Status
    /\ Ops \subseteq Op
    /\ Faulty \in BOOLEAN
    /\ None \notin Appt \cup Basket
    /\ None \notin Nat
    /\ None \notin Row

VARIABLES
    rows,       \* appointment: a row of each id, or None
    items,      \* booking_item: the rows of each appointment, summed
    payment,    \* payment: the amount paid for each appointment, or None
    used,       \* the ids that have been handed out
    req,        \* what each slot is doing
    \* History variables: no action reads them.
    removed,    \* the appointments a remove request has deleted
    disturbed,  \* those on which handlers overlapped or one stopped midway
    due         \* the price at the last completion through completeBooking

vars == <<rows, items, payment, used, req, removed, disturbed, due>>

Items == [by : SUBSET Slot, time : Nat, cost : Nat]
NoItems == [by |-> {}, time |-> 0, cost |-> 0]

Body == [basket : Basket \cup {None}, start : Nat, status : Status]
NoBody == [basket |-> None, start |-> 0, status |-> "pending"]

\* The bodies the DTOs of each operation let through.
Bodies(op) ==
    IF op \in {"create", "update"}
      THEN [basket : Basket, start : StartTimes, status : DtoStatus]
    ELSE IF op = "reschedule"
      THEN [basket : {None}, start : StartTimes, status : {"pending"}]
    ELSE {NoBody}

Request ==
    [op    : Op \cup {"none"},
     pc    : {"idle", "insert", "read", "clear", "items", "save", "write",
              "find", "pay", "erase"},
     id    : Appt \cup {None},
     body  : Body,
     price : Nat,       \* complete: the discountPrice of the row it read
     total : Nat,       \* reschedule: the duration of the items it read
     known : BOOLEAN]   \* complete: whether it found a payment

Arriving(op, pc, a, body) ==
    [op |-> op, pc |-> pc, id |-> a, body |-> body, price |-> 0,
     total |-> 0, known |-> FALSE]

Idle == Arriving("none", "idle", None, NoBody)

Init ==
    /\ rows = [a \in Appt |-> None]
    /\ items = [a \in Appt |-> NoItems]
    /\ payment = [a \in Appt |-> None]
    /\ used = {}
    /\ req = [s \in Slot |-> Idle]
    /\ removed = {}
    /\ disturbed = {}
    /\ due = [a \in Appt |-> None]

-----------------------------------------------------------------------------
(* Helpers *)

At(s, op, pc) == req[s].op = op /\ req[s].pc = pc
Quiet(a) == \A s \in Slot : req[s].id # a
Exists(a) == rows[a] # None

\* The slot goes on to its next statement, or has run its last.
Goto(s, pc) == req' = [req EXCEPT ![s].pc = pc]
Finish(s) == req' = [req EXCEPT ![s] = Idle]

\* The slot has run some of the statements of its operation and not all.
Midway(s) == req[s].pc \in {"items", "save", "find", "pay"}

\* The handler throws: what it has written stays.
Throw(s) ==
    /\ Finish(s)
    /\ disturbed' = IF Midway(s) THEN disturbed \cup {req[s].id} ELSE disturbed

\* The process dies and starts again: every request in flight is lost.
Die ==
    /\ req' = [s \in Slot |-> Idle]
    /\ disturbed' = disturbed \cup {req[s].id : s \in {t \in Slot : Midway(t)}}

\* What saveBookingItems inserts for a request.
Batch(s) == [by |-> {s}, time |-> Time[req[s].body.basket],
             cost |-> Cost[req[s].body.basket]]

Plus(x, y) == [by |-> x.by \cup y.by, time |-> x.time + y.time,
               cost |-> x.cost + y.cost]

\* The entity create and update hand to their last save, with the totals
\* calculateTimeAndPrice returns for the items the request inserted.
Entity(s) == [status |-> req[s].body.status,
              start  |-> req[s].body.start,
              end    |-> req[s].body.start + Time[req[s].body.basket],
              cost   |-> Cost[req[s].body.basket]]

-----------------------------------------------------------------------------
(* Requests arrive *)

BeginCreate(s) ==
    /\ "create" \in Ops
    /\ req[s] = Idle
    /\ \E a \in Appt \ used, body \in Bodies("create") :
          /\ req' = [req EXCEPT ![s] = Arriving("create", "insert", a, body)]
          /\ used' = used \cup {a}
    /\ UNCHANGED <<rows, items, payment, removed, disturbed, due>>

\* A request on an appointment that was created, be it still there or not.
Begin(s, op) ==
    /\ op \in Ops \ {"create"}
    /\ req[s] = Idle
    /\ \E a \in used, body \in Bodies(op) :
          /\ \A t \in Slot : ~(At(t, "create", "insert") /\ req[t].id = a)
          /\ req' = [req EXCEPT ![s] = Arriving(op, "read", a, body)]
          /\ disturbed' = IF Quiet(a) THEN disturbed ELSE disturbed \cup {a}
    /\ UNCHANGED <<rows, items, payment, used, removed, due>>

-----------------------------------------------------------------------------
(* create and createClientAppointment; update *)

\* The first save of create: status and start from the body, totals zero.
Insert(s) ==
    /\ At(s, "create", "insert")
    /\ rows' = [rows EXCEPT ![req[s].id] =
                   [status |-> req[s].body.status, start |-> req[s].body.start,
                    end |-> 0, cost |-> 0]]
    /\ Goto(s, "items")
    /\ UNCHANGED <<items, payment, used, removed, disturbed, due>>

\* getBookingById, which every other handler starts with.  A handler with a
\* status check refuses the statuses in `refused`.
Read(s, op, refused, next) ==
    LET a == req[s].id IN
    /\ At(s, op, "read")
    /\ IF Exists(a) /\ rows[a].status \notin refused
          THEN req' = [req EXCEPT ![s].pc = next,
                        ![s].price = IF op = "complete" THEN rows[a].cost ELSE 0,
                        ![s].total = IF op = "reschedule" THEN items[a].time
                                                          ELSE 0]
          ELSE Finish(s)
    /\ UNCHANGED <<rows, items, payment, used, removed, disturbed, due>>

ReadForUpdate(s) == Read(s, "update", {}, "clear")

\* update deletes the items before anything that can still fail.
ClearItems(s) ==
    /\ At(s, "update", "clear")
    /\ items' = [items EXCEPT ![req[s].id] = NoItems]
    /\ Goto(s, "items")
    /\ UNCHANGED <<rows, payment, used, removed, disturbed, due>>

\* saveBookingItems: throws when a service or member is missing, and the
\* foreign key makes the insert fail when the appointment has gone.
SaveBookingItems(s) ==
    LET a == req[s].id IN
    /\ req[s].pc = "items"
    /\ \/ /\ req[s].body.basket \in Bookable /\ Exists(a)
          /\ items' = [items EXCEPT ![a] = Plus(@, Batch(s))]
          /\ Goto(s, "save")
          /\ UNCHANGED disturbed
       \/ /\ ~(req[s].body.basket \in Bookable /\ Exists(a))
          /\ Throw(s)
          /\ UNCHANGED items
    /\ UNCHANGED <<rows, payment, used, removed, due>>

\* The last save of create.  The entity carries bookingItems, so the rows of
\* other requests lose their appointmentId and only its own stay.
SaveCreated(s) ==
    LET a == req[s].id IN
    /\ At(s, "create", "save")
    /\ rows' = [rows EXCEPT ![a] = Entity(s)]
    /\ items' = [items EXCEPT ![a] = IF s \in @.by THEN Batch(s) ELSE NoItems]
    /\ Finish(s)
    /\ UNCHANGED <<payment, used, removed, disturbed, due>>

\* The last save of update.
SaveUpdated(s) ==
    /\ At(s, "update", "save")
    /\ rows' = [rows EXCEPT ![req[s].id] = Entity(s)]
    /\ Finish(s)
    /\ UNCHANGED <<items, payment, used, removed, disturbed, due>>

-----------------------------------------------------------------------------
(* confirmBooking, cancelBooking, completeBooking, rescheduleBooking *)

ReadForConfirm(s) == Read(s, "confirm", {"completed"}, "write")
\* Mutant: cancelBooking does not look at the status.
ReadForCancelUnguarded(s) == Read(s, "cancel", {}, "write")

ReadForCancel(s) == Read(s, "cancel", {"completed"}, "write")
ReadForComplete(s) == Read(s, "complete", {}, "write")
ReadForReschedule(s) == Read(s, "reschedule", {}, "write")

\* UPDATE appointment SET status WHERE id: no row matches if it has gone.
SetStatus(s, st) ==
    rows' = [rows EXCEPT ![req[s].id] =
                IF @ = None THEN None ELSE [@ EXCEPT !.status = st]]

ConfirmBooking(s) ==
    /\ At(s, "confirm", "write")
    /\ SetStatus(s, "confirmed")
    /\ Finish(s)
    /\ UNCHANGED <<items, payment, used, removed, disturbed, due>>

CancelBooking(s) ==
    /\ At(s, "cancel", "write")
    /\ SetStatus(s, "cancelled")
    /\ Finish(s)
    /\ UNCHANGED <<items, payment, used, removed, disturbed, due>>

\* Mutant: the payment is forgotten.
CompleteBookingUnpaid(s) ==
    /\ At(s, "complete", "write")
    /\ SetStatus(s, "completed")
    /\ due' = [due EXCEPT ![req[s].id] = IF @ = None THEN req[s].price ELSE @]
    /\ Finish(s)
    /\ UNCHANGED <<items, payment, used, removed, disturbed>>

\* The answer leaves here; the payment is made by a promise nobody awaits.
CompleteBooking(s) ==
    LET a == req[s].id IN
    /\ At(s, "complete", "write")
    /\ SetStatus(s, "completed")
    /\ due' = [due EXCEPT ![a] = IF Exists(a) THEN rows[a].cost ELSE @]
    /\ Goto(s, "find")
    /\ UNCHANGED <<items, payment, used, removed, disturbed>>

\* Mutant: the end time stays behind.
RescheduleBookingStart(s) ==
    /\ At(s, "reschedule", "write")
    /\ rows' = [rows EXCEPT ![req[s].id] =
                   IF @ = None THEN None ELSE [@ EXCEPT !.start = req[s].body.start]]
    /\ Finish(s)
    /\ UNCHANGED <<items, payment, used, removed, disturbed, due>>

RescheduleBooking(s) ==
    LET t == req[s].body.start IN
    /\ At(s, "reschedule", "write")
    /\ rows' = [rows EXCEPT ![req[s].id] =
                   IF @ = None THEN None
                   ELSE [@ EXCEPT !.start = t, !.end = t + req[s].total]]
    /\ Finish(s)
    /\ UNCHANGED <<items, payment, used, removed, disturbed, due>>

-----------------------------------------------------------------------------
(* createPaymentByAppointment and remove *)

FindPayment(s) ==
    /\ At(s, "complete", "find")
    /\ req' = [req EXCEPT ![s].pc = "pay",
                          ![s].known = payment[req[s].id] # None]
    /\ UNCHANGED <<rows, items, payment, used, removed, disturbed, due>>

\* Mutant: a payment that is found is left as it is.
SavePaymentOnce(s) ==
    /\ At(s, "complete", "pay")
    /\ payment' = [payment EXCEPT ![req[s].id] =
                      IF Exists(req[s].id) /\ @ = None THEN req[s].price ELSE @]
    /\ Finish(s)
    /\ UNCHANGED <<rows, items, used, removed, disturbed, due>>

\* The save of the payment.  The foreign key refuses it when the appointment
\* has gone, the unique appointmentId when it would be a second payment; the
\* rejection is handled nowhere and takes the process down.
SavePayment(s) ==
    LET a == req[s].id IN
    /\ At(s, "complete", "pay")
    /\ \/ /\ Exists(a)
          /\ payment[a] = None \/ req[s].known
          /\ payment' = [payment EXCEPT ![a] = req[s].price]
          /\ Finish(s)
          /\ UNCHANGED disturbed
       \/ /\ ~(Exists(a) /\ (payment[a] = None \/ req[s].known))
          /\ Die
          /\ UNCHANGED payment
    /\ UNCHANGED <<rows, items, used, removed, due>>

ReadForRemove(s) == Read(s, "remove", {}, "erase")

\* Mutant: the payment is not deleted with the appointment.
EraseRow(s) ==
    LET a == req[s].id IN
    /\ At(s, "remove", "erase")
    /\ rows' = [rows EXCEPT ![a] = None]
    /\ items' = [items EXCEPT ![a] = NoItems]
    /\ removed' = removed \cup {a}
    /\ due' = [due EXCEPT ![a] = None]
    /\ Finish(s)
    /\ UNCHANGED <<payment, used, disturbed>>

\* Mutant: a soft delete, which the other handlers do not know of.
EraseSoftly(s) ==
    /\ At(s, "remove", "erase")
    /\ SetStatus(s, "cancelled")
    /\ removed' = removed \cup {req[s].id}
    /\ Finish(s)
    /\ UNCHANGED <<items, payment, used, disturbed, due>>

\* The delete nobody awaits; items and payment go with the appointment.
Erase(s) ==
    LET a == req[s].id IN
    /\ At(s, "remove", "erase")
    /\ rows' = [rows EXCEPT ![a] = None]
    /\ items' = [items EXCEPT ![a] = NoItems]
    /\ payment' = [payment EXCEPT ![a] = None]
    /\ removed' = removed \cup {a}
    /\ due' = [due EXCEPT ![a] = None]
    /\ Finish(s)
    /\ UNCHANGED <<used, disturbed>>

-----------------------------------------------------------------------------
(* Faults *)

\* A statement fails and has no effect: a handler rejects, a promise nobody
\* awaits takes the process down.  (A statement that did take effect and whose
\* answer was lost leaves what a failure of the next statement leaves.)
StatementFails(s) ==
    /\ Faulty
    /\ req[s] # Idle
    /\ IF req[s].pc \in {"find", "pay", "erase"} THEN Die ELSE Throw(s)
    /\ UNCHANGED <<rows, items, payment, used, removed, due>>

Crash ==
    /\ Faulty
    /\ \E s \in Slot : req[s] # Idle
    /\ Die
    /\ UNCHANGED <<rows, items, payment, used, removed, due>>

-----------------------------------------------------------------------------

Step(s) ==
    \/ Insert(s) \/ SaveBookingItems(s) \/ SaveCreated(s)
    \/ ReadForUpdate(s) \/ ClearItems(s) \/ SaveUpdated(s)
    \/ ReadForConfirm(s) \/ ConfirmBooking(s)
    \/ ReadForCancel(s) \/ CancelBooking(s)
    \/ ReadForComplete(s) \/ CompleteBooking(s)
    \/ FindPayment(s) \/ SavePayment(s)
    \/ ReadForReschedule(s) \/ RescheduleBooking(s)
    \/ ReadForRemove(s) \/ Erase(s)

Next ==
    \/ \E s \in Slot :
          \/ BeginCreate(s)
          \/ \E op \in Op : Begin(s, op)
          \/ Step(s)
          \/ StatementFails(s)
    \/ Crash

Spec == Init /\ [][Next]_vars

\* The event loop goes on with the promise of a payment, whose two statements
\* the database answers while the pool has a connection for them (see Pool).
\* Nothing is assumed of clients, nor of create and update, which may wait for
\* a connection forever.
Fairness == \A s \in Slot : WF_vars(FindPayment(s)) /\ WF_vars(SavePayment(s))
FairSpec == Spec /\ Fairness

-----------------------------------------------------------------------------
(* Properties *)

\* Every variable has its type.
TypeOK ==
    /\ rows \in [Appt -> Row \cup {None}]
    /\ items \in [Appt -> Items]
    /\ payment \in [Appt -> Nat \cup {None}]
    /\ used \subseteq Appt
    /\ req \in [Slot -> Request]
    /\ removed \subseteq Appt
    /\ disturbed \subseteq Appt
    /\ due \in [Appt -> Nat \cup {None}]

Consistent(a) ==
    /\ items[a].by # {}
    /\ rows[a].end = rows[a].start + items[a].time
    /\ rows[a].cost = items[a].cost

\* After any sequence of create, update, reschedule and the rest, a booking
\* whose handlers neither overlapped nor stopped midway has items, ends when
\* they are over and costs what they cost: the columns the handlers compute at
\* different moments (totals from the items inserted, the end of a reschedule
\* from the items read) never drift from the booking_item rows.
TotalsMatchItems ==
    \A a \in Appt \ disturbed :
        Exists(a) /\ Quiet(a) => Consistent(a)

\* A booking is charged once, by its last completion through completeBooking
\* and at its price at that moment, although completeBooking computes the
\* amount from a row read earlier and leaves the payment to a promise that runs
\* after the answer.  A booking never so completed has no payment.
PaidAsCompleted ==
    \A a \in Appt \ disturbed : Quiet(a) => payment[a] = due[a]

\* In every interleaving, whatever failed, the payment and the items of an
\* appointment go with it: a payment that a late promise saves, or items a slow
\* handler inserts, never outlive the appointment they are for.
NothingOutlivesAppointment ==
    \A a \in Appt : ~Exists(a) => payment[a] = None /\ items[a] = NoItems

\* A removed booking stays removed when no other handler overlapped with the
\* removal: only the whole-entity save of a handler that had read the row
\* before can insert it again.
RemovedStaysRemoved ==
    \A a \in removed \ disturbed : ~Exists(a)

\* confirm and cancel never undo a completion they could have seen: a booking
\* nobody else was handling leaves the completed status by update or remove.
CompletionStands ==
    [][\A a \in Appt \ disturbed :
          Exists(a) /\ rows[a].status = "completed" /\ rows'[a] # None
             => \/ rows'[a].status = "completed"
                \/ \E s \in Slot : At(s, "update", "save") /\ req[s].id = a]_vars

\* The payment promised by completeBooking is made, unless the process died or
\* another handler was at work on the booking.
PaymentFollows ==
    \A a \in Appt :
        (due[a] # None) ~> (payment[a] = due[a] \/ a \in disturbed)

-----------------------------------------------------------------------------
(* The inductive invariant behind the safety properties *)

\* What a slot at work carries, and which operation can be where.
WellFormed(s) ==
    LET r == req[s] IN
    /\ r.pc = "idle" <=> r = Idle
    /\ r.pc # "idle" => r.id \in used
    /\ r.op \in {"create", "update"} => r.body.basket \in Basket
    /\ r.pc = "insert" => r.op = "create"
    /\ r.pc = "clear" => r.op = "update"
    /\ r.pc \in {"items", "save"} => r.op \in {"create", "update"}
    /\ r.pc \in {"find", "pay"} => r.op = "complete"

TypeInv == TypeOK /\ \A s \in Slot : WellFormed(s)

Blank(a) == rows[a] = None /\ items[a] = NoItems /\ payment[a] = None /\ due[a] = None

\* Ids not handed out, or whose create has not inserted a row yet, are blank.
BlankUntilInserted ==
    /\ \A a \in Appt \ used : Blank(a) /\ a \notin removed
    /\ \A s \in Slot : req[s].pc = "insert" =>
          /\ Blank(req[s].id) /\ req[s].id \notin removed
          /\ \A t \in Slot : req[t].id = req[s].id => t = s

\* A booking nobody is in the middle of changing is in order.
InOrder(a) == (Exists(a) => Consistent(a)) /\ payment[a] = due[a]

\* What the handler of s relies on, having read its booking a, and has left of
\* it so far.
Underway(s, a) ==
    LET r == req[s] IN
    /\ r.pc \in {"clear", "write", "erase", "items", "save", "find", "pay"}
          => Exists(a)
    /\ r.pc = "write" /\ r.op = "reschedule" => r.total = items[a].time
    /\ r.pc = "write" /\ r.op = "complete" => r.price = rows[a].cost
    /\ r.pc = "write" /\ r.op \in {"confirm", "cancel"}
          => rows[a].status # "completed"
    /\ r.pc \in {"items", "save"} /\ r.op = "create"
          => rows[a].status = r.body.status
    /\ r.pc = "items" => items[a] = NoItems /\ payment[a] = due[a]
    /\ r.pc = "save" => items[a] = Batch(s) /\ payment[a] = due[a]
    /\ r.pc \in {"find", "pay"} => Consistent(a) /\ due[a] = r.price
    /\ r.pc = "pay" => (r.known <=> payment[a] # None)

\* A booking that is not disturbed has one handler at work on it at most.
OneAtATime(a) ==
    /\ \A s, t \in Slot : req[s].id = a /\ req[t].id = a => s = t
    /\ \A s \in Slot : req[s].id = a => Underway(s, a)
    /\ (\A s \in Slot : req[s].id = a => ~Midway(s)) => InOrder(a)
    /\ a \in removed => ~Exists(a)

IInv ==
    /\ TypeInv
    /\ BlankUntilInserted
    /\ NothingOutlivesAppointment
    /\ \A a \in Appt \ disturbed : OneAtATime(a)

-----------------------------------------------------------------------------
(* What a comment of the source says and the code does not do *)

\* update is a transaction, its comments say: a booking whose create has gone
\* through, which is to say that it has an end time, keeps items when an update
\* of it throws.
BookedItemsSurvive ==
    \A a \in Appt :
        Quiet(a) /\ Exists(a) /\ rows[a].end > 0 => items[a].by # {}

=============================================================================
