-------------------------------- MODULE Pool ---------------------------------
(***************************************************************************)
(* The connections to MySQL.  TypeOrmModule.forRoot gives no limit: the    *)
(* pool of mysql2 has its ten, makes those who find none wait in line and  *)
(* never tells them to stop.  Five handlers open a transaction on a query  *)
(* runner, which keeps one connection for itself, and run their statements *)
(* through repositories, which take another for each.                      *)
(*                                                                         *)
(* A call is one HTTP request.  Its handler is the sequence of its steps:  *)
(*   "connect"   the query runner takes a connection and keeps it          *)
(*   "own"       a statement on that connection: begin or commit           *)
(*   "one"       a repository's call, on a connection of its own           *)
(*   "two"       two at once, by Promise.all                               *)
(*   "release"   the finally: the query runner gives its connection back   *)
(*                                                                         *)
(* Data: what the statements do is left to the modules of their            *)
(* components; here they take a connection, end or fail.                   *)
(*                                                                         *)
(* The names differ from those of Booking, so that a module can extend     *)
(* both.                                                                   *)
(***************************************************************************)
EXTENDS Naturals, Sequences, FiniteSets

CONSTANTS
    Call,      \* the requests that can be in flight at the same time
    Size,      \* connectionLimit
    Faults,    \* whether statements may fail and the process may die
    Nothing

-----------------------------------------------------------------------------
(* The handlers, and the first step inside their try.                      *)

Does(try, steps) == [try |-> try, steps |-> steps]

CreateByUser ==
    Does(2, <<"connect", "own", "two", "one", "two", "one", "one", "own", "release">>)

CreateByOrg ==
    Does(3, <<"connect", "own", "one", "one", "two", "one", "one", "own", "release">>)

\* The delete of the items comes before the try.
UpdateBooking ==
    Does(5, <<"one", "connect", "own", "one", "two", "one", "one", "own", "release">>)

CreateSale ==
    Does(3, <<"connect", "own", "one", "one", "one", "one", "own", "release">>)

PublishHours ==
    Does(3, <<"connect", "own", "one", "one", "own", "release">>)

\* All others, call by call.
Plain == Does(1, <<"one">>)

Handlers ==
    [createByUser |-> CreateByUser, createByOrg |-> CreateByOrg,
     updateBooking |-> UpdateBooking, createSale |-> CreateSale,
     publishHours |-> PublishHours, plain |-> Plain]

Handler == DOMAIN Handlers

ASSUME PoolAssumption ==
    /\ IsFiniteSet(Call)
    /\ Size \in Nat \ {0}
    /\ Faults \in BOOLEAN
    /\ Nothing \notin Handler

-----------------------------------------------------------------------------

VARIABLES
    free,    \* how many connections nobody has
    queue,   \* who waits for one, in line
    leaked,  \* how many will never be given back
    calls      \* what each call is doing

poolVars == <<free, queue, leaked, calls>>

CallState ==
    [does  : Handler \cup {Nothing},
     step  : 0 .. 9,
     holds : BOOLEAN,   \* its query runner has a connection
     asks  : BOOLEAN,   \* the step has asked for what it needs
     waits : 0 .. 2,    \* its places in the queue
     runs  : 0 .. 2]    \* its statements at work, each on a connection

NoCall == [does |-> Nothing, step |-> 0, holds |-> FALSE, asks |-> FALSE, waits |-> 0, runs |-> 0]

PoolInit ==
    /\ free = Size
    /\ queue = <<>>
    /\ leaked = 0
    /\ calls = [s \in Call |-> NoCall]

-----------------------------------------------------------------------------
(* Helpers *)

Become(s, r) == calls' = [calls EXCEPT ![s] = r]

Facing(r, steps) == r.does # Nothing /\ Handlers[r.does].steps[r.step] \in steps

Last(r) == Len(Handlers[r.does].steps)

\* Of a handler that is over only what it has asked for and not awaited is
\* left.
Over(r) == [NoCall EXCEPT !.waits = r.waits, !.runs = r.runs]

\* A handler goes on when all the step has asked for is done.
Onward(r) ==
    IF ~r.asks \/ r.waits + r.runs > 0 THEN r
    ELSE IF r.step = Last(r) THEN Over(r)
    ELSE [r EXCEPT !.step = @ + 1, !.asks = FALSE]

\* n connections more, for the query runner or for statements.
Given(r, n) ==
    IF Facing(r, {"connect"}) /\ n = 1 THEN Onward([r EXCEPT !.holds = TRUE])
    ELSE [r EXCEPT !.runs = @ + n]

\* What it has waited for it has.
Served(r) == Given([r EXCEPT !.waits = @ - 1], 1)

\* Mutant: whoever has waited least is served.
GiveBackToLast(all) ==
    IF queue = <<>>
    THEN /\ free' = free + 1
         /\ calls' = all
         /\ UNCHANGED queue
    ELSE LET h == queue[Len(queue)] IN
         /\ calls' = [all EXCEPT ![h] = Served(@)]
         /\ queue' = SubSeq(queue, 1, Len(queue) - 1)
         /\ UNCHANGED free

\* Mutant: nobody in line is told.
GiveBackUntold(all) ==
    /\ free' = free + 1
    /\ calls' = all
    /\ UNCHANGED queue

\* A connection comes back, and the calls are at all: who is first in line
\* gets it.
GiveBack(all) ==
    IF queue = <<>>
    THEN /\ free' = free + 1
         /\ calls' = all
         /\ UNCHANGED queue
    ELSE LET h == Head(queue) IN
         /\ calls' = [all EXCEPT ![h] = Served(@)]
         /\ queue' = Tail(queue)
         /\ UNCHANGED free

-----------------------------------------------------------------------------
(* The steps of a handler *)

Arrive(s, h) ==
    /\ calls[s] = NoCall
    /\ Become(s, [NoCall EXCEPT !.does = h, !.step = 1])
    /\ UNCHANGED <<free, queue, leaked>>

\* n places in line for s.
Places(s, n) == [i \in 1 .. n |-> s]

\* The connections there are at once, and a place in line for each other.
Ask(s) ==
    LET n == IF Facing(calls[s], {"two"}) THEN 2 ELSE 1
        m == IF n <= free THEN n ELSE free
    IN
    /\ Facing(calls[s], {"connect", "one", "two"})
    /\ ~calls[s].asks
    /\ free' = free - m
    /\ queue' = queue \o Places(s, n - m)
    /\ Become(s, Given([calls[s] EXCEPT !.asks = TRUE, !.waits = @ + n - m], m))
    /\ UNCHANGED leaked

Own(s) ==
    /\ Facing(calls[s], {"own"})
    /\ Become(s, [calls[s] EXCEPT !.step = @ + 1])
    /\ UNCHANGED <<free, queue, leaked>>

QueryEnds(s) ==
    LET r == [calls[s] EXCEPT !.runs = @ - 1] IN
    /\ calls[s].runs > 0
    /\ GiveBack([calls EXCEPT ![s] = Onward(r)])
    /\ UNCHANGED leaked

\* Mutant: there is no finally.
ReleaseRunnerNot(s) ==
    /\ Facing(calls[s], {"release"})
    /\ Become(s, Over(calls[s]))
    /\ UNCHANGED <<free, queue, leaked>>

ReleaseRunner(s) ==
    /\ Facing(calls[s], {"release"})
    /\ GiveBack([calls EXCEPT ![s] = Over(@)])
    /\ UNCHANGED leaked

-----------------------------------------------------------------------------
(* Faults *)

\* An error is thrown: inside the try it leads to the rollback and the
\* finally, before it the handler is over, and what it holds is lost.
Inside(r) == r.holds /\ r.step >= Handlers[r.does].try

Thrown(r) == IF Inside(r) THEN [r EXCEPT !.step = Last(r), !.asks = FALSE] ELSE Over(r)

Leaks(r) == r.holds /\ ~Inside(r)

\* Of two statements at once the other goes on, awaited by nobody.
QueryFails(s) ==
    LET r == [calls[s] EXCEPT !.runs = @ - 1] IN
    /\ Faults
    /\ calls[s].runs > 0
    /\ GiveBack([calls EXCEPT ![s] = IF r.asks THEN Thrown(r) ELSE r])
    /\ leaked' = IF r.asks /\ Leaks(r) THEN leaked + 1 ELSE leaked

OwnFails(s) ==
    /\ Faults
    /\ Facing(calls[s], {"own"})
    /\ Become(s, Thrown(calls[s]))
    /\ leaked' = IF Leaks(calls[s]) THEN leaked + 1 ELSE leaked
    /\ UNCHANGED <<free, queue>>

\* The process dies and is started again.
Restart ==
    /\ Faults
    /\ free' = Size
    /\ queue' = <<>>
    /\ leaked' = 0
    /\ calls' = [s \in Call |-> NoCall]

Advance(s) ==
    \/ Ask(s)
    \/ Own(s)
    \/ QueryEnds(s)
    \/ ReleaseRunner(s)

PoolNext ==
    \/ \E s \in Call :
          \/ \E h \in Handler : Arrive(s, h)
          \/ Advance(s)
          \/ QueryFails(s)
          \/ OwnFails(s)
    \/ Restart

PoolSpec == PoolInit /\ [][PoolNext]_poolVars

\* MySQL ends every statement, and Node goes on with every handler.
PoolFairness == \A s \in Call : WF_poolVars(Advance(s))

FairPoolSpec == PoolSpec /\ PoolFairness

-----------------------------------------------------------------------------
(* Properties *)

\* Every variable keeps its type.
PoolTypes ==
    /\ free \in 0 .. Size
    /\ queue \in Seq(Call)
    /\ leaked \in 0 .. Size
    /\ calls \in [Call -> CallState]

Holders == {s \in Call : calls[s].holds}

\* The connections that a call has, and all that the calls have.
Uses(r) == r.runs + (IF r.holds THEN 1 ELSE 0)
InUse(all) == UNION {{s} \X (1 .. Uses(all[s])) : s \in Call}

\* A query runner has its connection from its first step to its last; a step
\* has asked for what it waits for or runs, save a statement of a pair whose
\* other one has failed.
Connected(h, k) == \E j \in 1 .. k - 1 : Handlers[h].steps[j] = "connect"

Fit(r) ==
    LET n == r.waits + r.runs IN
    \/ r = Over(r) /\ n <= 1
    \/ /\ r.does # Nothing
       /\ r.step \in 1 .. Last(r)
       /\ r.holds <=> Connected(r.does, r.step)
       /\ \/ ~r.asks /\ (n = 0 \/ (n = 1 /\ Facing(r, {"release"})))
          \/ r.asks /\ n = 1 /\ (Facing(r, {"one", "two"}) \/ (Facing(r, {"connect"}) /\ r.runs = 0))
          \/ r.asks /\ n = 2 /\ Facing(r, {"two"})

\* Where s is in the line q.
InLine(q, s) == {i \in DOMAIN q : q[i] = s}

\* Every connection is free, at work, kept by a query runner or lost, whoever
\* fails at which point and whatever goes on without being awaited; nobody
\* waits while one is free; and those in line are those who wait.
PoolInv ==
    /\ PoolTypes
    /\ \A s \in Call : Fit(calls[s])
    /\ free + leaked + Cardinality(InUse(calls)) = Size
    /\ free > 0 => queue = <<>>
    /\ \A s \in Call : calls[s].waits = Cardinality(InLine(queue, s))

\* Whoever has a connection waits for another.
Starved ==
    /\ queue # <<>>
    /\ \A s \in Call : calls[s].runs = 0 /\ (calls[s].holds => calls[s].asks /\ calls[s].waits > 0)

\* Requests wait for each other for ever only when all connections that are
\* not lost are kept by transactions, which wait for one more each.
StarvedByTransactions == Starved => Cardinality(Holders) + leaked = Size

\* A request that has begun ends, however many are in front of it in line,
\* unless transactions and losses have used up the pool.
EndsOrStarves == \A s \in Call : (calls[s] # NoCall) ~> (calls[s] = NoCall \/ Starved)

=============================================================================
