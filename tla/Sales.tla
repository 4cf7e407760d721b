------------------------------- MODULE Sales -------------------------------
(***************************************************************************)
(* The quick sales of an organization: SalesService with the payments it   *)
(* starts, the products it sells, and the ReduceStock jobs that SaleQueue  *)
(* works off, over the tables sale, sale_item, payment and product and a   *)
(* Bull queue in Redis.                                                    *)
(*                                                                         *)
(* A slot is one POST /sales request with the payment it does not await.   *)
(* As in Booking, no statement runs inside the query runner's transaction: *)
(* each takes effect at once, and a rollback undoes nothing.               *)
(*                                                                         *)
(* Bull keeps a job through a restart of the process.  A job that was      *)
(* active when the process died is stalled: it is handed out again, at     *)
(* most MaxStalled times.  One job is active at a time; the order in which *)
(* waiting jobs are taken is left open, since decrements commute.          *)
(*                                                                         *)
(* Data: a cart gives the quantity of each product; prices are the cost of *)
(* the whole cart, which a sale fixes when it is made.                     *)
(***************************************************************************)
EXTENDS Integers, FiniteSets

CONSTANTS
    Product,     \* the ids of products
    Sale,        \* the ids of sales
    Slot,        \* the requests that can be in flight at the same time
    Cart,        \* what the saleItems of a request body may be
    Doubled,     \* those that name a product twice
    Cost,        \* discounted price of each cart
    StockLevels, \* the stock a product body may give
    MaxStalled,  \* Bull's maxStalledCount
    Ops,         \* the optional operations clients call
    Faulty,      \* whether statements may fail and the process may die
    None

ASSUME SalesAssumption ==
    /\ Product \cap Sale = {}
    /\ Cart \subseteq [Product -> Nat]
    /\ Doubled \subseteq Cart
    /\ Cost \in [Cart -> Nat]
    /\ StockLevels \subseteq Int
    /\ MaxStalled \in Nat
    /\ Ops \subseteq {"updateProduct", "removeProduct", "removeSale"}
    /\ Faulty \in BOOLEAN
    /\ None \notin Int \cup Cart \cup Sale

VARIABLES
    stock,    \* product: the stock of each, None if there is no row
    sale,     \* sale: totalPrice of each, None if there is no row
    items,    \* sale_item: the sales whose items are in the table
    payment,  \* payment: the amount paid for each sale, or None
    used,     \* the ids of products and sales that have been handed out
    cart,     \* the saleItems of each sale's request, and its job's data
    req,      \* what each slot is doing
    job,      \* the state of each sale's ReduceStock job
    stalls,   \* how often it was handed out again
    broken,   \* the jobs one of whose decrements has failed
    left,     \* the decrements the job has started that have not ended
    \* History variables: no action reads them.
    cut,      \* how often each product was decremented for each sale
    opening,  \* the stock each product was created or last updated with
    removed,  \* the sales that were deleted
    exposed,  \* products whose stock check does not cover what follows it
    upset     \* the products that a failure or an update has touched

tables == <<stock, sale, items, payment, used, cart>>
history == <<cut, opening, removed, exposed, upset>>
queue == <<job, stalls, broken, left>>
vars == <<tables, req, queue, history>>

Request ==
    [pc     : {"idle", "sale", "products", "items", "total", "commit",
               "enqueue", "answered"},
     id     : Sale \cup {None},
     pay    : BOOLEAN,   \* savePayment of the body
     paying : BOOLEAN]   \* whether the payment's promise is pending

Idle == [pc |-> "idle", id |-> None, pay |-> FALSE, paying |-> FALSE]

JobState == {"none", "waiting", "active", "stalled", "completed", "failed"}

Init ==
    /\ stock = [p \in Product |-> None]
    /\ sale = [c \in Sale |-> None]
    /\ items = {}
    /\ payment = [c \in Sale |-> None]
    /\ used = {}
    /\ cart = [c \in Sale |-> None]
    /\ req = [s \in Slot |-> Idle]
    /\ job = [c \in Sale |-> "none"]
    /\ stalls = [c \in Sale |-> 0]
    /\ broken = {}
    /\ left = [c \in Sale |-> {}]
    /\ cut = [c \in Sale |-> [p \in Product |-> 0]]
    /\ opening = [p \in Product |-> None]
    /\ removed = {}
    /\ exposed = {}
    /\ upset = {}

-----------------------------------------------------------------------------
(* Helpers *)

Listed(p) == stock[p] # None
Exists(c) == sale[c] # None

\* The products of the sale c.
Lines(c) == IF cart[c] = None THEN {} ELSE {p \in Product : cart[c][p] > 0}

\* The slots at work on the sale c.
Busy(c) == {s \in Slot : req[s].id = c}

\* A request that has passed the stock check and has yet to queue its job.
Checked(s) == req[s].pc \in {"items", "total", "commit", "enqueue"}

\* The sale c is going to take p from the stock.
Claims(c, p) ==
    /\ p \in Lines(c)
    /\ \/ \E s \in Busy(c) : Checked(s)
       \/ job[c] \in {"waiting", "stalled"}
       \/ p \in left[c]

Goto(s, pc) == req' = [req EXCEPT ![s].pc = pc]

\* The handler answers or throws; the slot stays for a pending payment.
Leave(s) ==
    req' = [req EXCEPT ![s] = IF @.paying THEN [@ EXCEPT !.pc = "answered"] ELSE Idle]

\* The process dies and starts again.  Bull finds the active job stalled; the
\* decrements it had started and that did not reach the database are lost.
Die ==
    LET hit == {c \in Sale : job[c] = "active" \/ left[c] # {} \/ Busy(c) # {}} IN
    /\ req' = [s \in Slot |-> Idle]
    /\ job' = [c \in Sale |-> IF job[c] = "active" THEN "stalled" ELSE job[c]]
    /\ left' = [c \in Sale |-> {}]
    /\ UNCHANGED <<stalls, broken>>
    /\ upset' = upset \cup UNION {Lines(c) : c \in hit}
    /\ exposed' = exposed \cup
                     UNION {Lines(c) : c \in {d \in Sale : job[d] = "active"}}

-----------------------------------------------------------------------------
(* ProductsService: what an organization does to its products *)

AddProduct(p, n) ==
    /\ p \notin used
    /\ used' = used \cup {p}
    /\ stock' = [stock EXCEPT ![p] = n]
    /\ opening' = [opening EXCEPT ![p] = n]
    /\ exposed' = IF n < 0 THEN exposed \cup {p} ELSE exposed
    /\ UNCHANGED <<sale, items, payment, cart, req, queue, cut, removed, upset>>

\* update writes the stock of the body over whatever the jobs have left.  If
\* the row goes before the save, the insert fails: the body has no orgId.
UpdateProduct(p, n) ==
    LET amid == \E c \in Sale : Claims(c, p) IN
    /\ "updateProduct" \in Ops
    /\ Listed(p)
    /\ stock' = [stock EXCEPT ![p] = n]
    /\ opening' = [opening EXCEPT ![p] = n]
    /\ exposed' = IF amid \/ n < 0 THEN exposed \cup {p} ELSE exposed
    /\ upset' = upset \cup {p}
    /\ UNCHANGED <<sale, items, payment, used, cart, req, queue, cut, removed>>

\* The foreign key of sale_item sets productId to NULL.
RemoveProduct(p) ==
    /\ "removeProduct" \in Ops
    /\ Listed(p)
    /\ stock' = [stock EXCEPT ![p] = None]
    /\ UNCHANGED <<sale, items, payment, used, cart, req, queue, history>>

-----------------------------------------------------------------------------
(* SalesService.create *)

BeginSale(s) ==
    /\ req[s] = Idle
    /\ \E c \in Sale \ used, body \in Cart, pay \in BOOLEAN :
          /\ req' = [req EXCEPT ![s] = [pc |-> "sale", id |-> c, pay |-> pay,
                                        paying |-> FALSE]]
          /\ cart' = [cart EXCEPT ![c] = body]
          /\ used' = used \cup {c}
    /\ UNCHANGED <<stock, sale, items, payment, queue, history>>

\* The first save: totalPrice has its default, 0.
SaveSale(s) ==
    /\ req[s].pc = "sale"
    /\ sale' = [sale EXCEPT ![req[s].id] = 0]
    /\ Goto(s, "products")
    /\ UNCHANGED <<stock, items, payment, used, cart, queue, history>>

\* Mutant: the stock check is off by one.
EnoughByOne(c) ==
    /\ cart[c] \notin Doubled
    /\ \A p \in Lines(c) : Listed(p) /\ stock[p] + 1 >= cart[c][p]

\* getProductsByIds finds each product once, so a cart that names one twice
\* fails its count; then every line asks for no more than the stock.
Enough(c) ==
    /\ cart[c] \notin Doubled
    /\ \A p \in Lines(c) : Listed(p) /\ stock[p] >= cart[c][p]

\* saveSaleItems up to its save.
CheckProducts(s) ==
    LET c == req[s].id IN
    /\ req[s].pc = "products"
    /\ \/ /\ Enough(c)
          /\ Goto(s, "items")
          /\ exposed' = exposed \cup
                           {p \in Lines(c) : \E d \in Sale \ {c} : Claims(d, p)}
       \/ /\ ~Enough(c)
          /\ Leave(s)
          /\ UNCHANGED exposed
    /\ UNCHANGED <<tables, queue, cut, opening, removed, upset>>

\* The save of saveSaleItems; its foreign keys make it fail when the sale or a
\* product has gone.
SaveSaleItems(s) ==
    LET c == req[s].id
        ok == Exists(c) /\ \A p \in Lines(c) : Listed(p) IN
    /\ req[s].pc = "items"
    /\ \/ ok /\ items' = items \cup {c} /\ Goto(s, "total")
       \/ ~ok /\ Leave(s) /\ UNCHANGED items
    /\ UNCHANGED <<stock, sale, payment, used, cart, queue, history>>

\* The second save, which inserts the sale again if it has gone.
SaveTotal(s) ==
    /\ req[s].pc = "total"
    /\ sale' = [sale EXCEPT ![req[s].id] = Cost[cart[req[s].id]]]
    /\ Goto(s, "commit")
    /\ UNCHANGED <<stock, items, payment, used, cart, queue, history>>

\* Mutant: the payment is forgotten.
CommitOnly(s) ==
    /\ req[s].pc = "commit"
    /\ req' = [req EXCEPT ![s].pc = "enqueue"]
    /\ UNCHANGED <<tables, queue, history>>

\* commitTransaction, of an empty transaction; then the payment is started and
\* not awaited.
Commit(s) ==
    /\ req[s].pc = "commit"
    /\ req' = [req EXCEPT ![s].pc = "enqueue", ![s].paying = req[s].pay]
    /\ UNCHANGED <<tables, queue, history>>

\* Mutant: the job is queued twice, as by a retry of an unanswered add.
EnqueueAgain(s) ==
    LET c == req[s].id IN
    /\ req[s].pc = "enqueue"
    /\ job' = [job EXCEPT ![c] = "waiting"]
    /\ \/ Leave(s)
       \/ job[c] = "none" /\ UNCHANGED req
    /\ UNCHANGED <<tables, stalls, broken, left, history>>

\* Mutant: the job is put off, in a state the worker does not look at.
EnqueueDelayed(s) ==
    /\ req[s].pc = "enqueue"
    /\ job' = [job EXCEPT ![req[s].id] = "delayed"]
    /\ Leave(s)
    /\ UNCHANGED <<tables, stalls, broken, left, history>>

\* saleQueue.add; then the answer.
Enqueue(s) ==
    /\ req[s].pc = "enqueue"
    /\ job' = [job EXCEPT ![req[s].id] = "waiting"]
    /\ Leave(s)
    /\ UNCHANGED <<tables, stalls, broken, left, history>>

\* Mutant: no foreign key from payment to sale.
SavePaymentAnyway(s) ==
    LET c == req[s].id IN
    /\ req[s].paying
    /\ payment' = [payment EXCEPT ![c] = Cost[cart[c]]]
    /\ req' = [req EXCEPT ![s] = IF @.pc = "answered" THEN Idle
                                 ELSE [@ EXCEPT !.paying = FALSE]]
    /\ UNCHANGED <<stock, sale, items, used, cart, queue, history>>

\* createPaymentBySales, with the amount create computed.  When the sale has
\* gone the foreign key rejects the insert, nobody handles the rejection, and
\* the process dies.
SavePayment(s) ==
    LET c == req[s].id IN
    /\ req[s].paying
    /\ \/ /\ Exists(c)
          /\ payment' = [payment EXCEPT ![c] = Cost[cart[c]]]
          /\ req' = [req EXCEPT ![s] = IF @.pc = "answered" THEN Idle
                                       ELSE [@ EXCEPT !.paying = FALSE]]
          /\ UNCHANGED <<queue, exposed, upset>>
       \/ ~Exists(c) /\ Die /\ UNCHANGED payment
    /\ UNCHANGED <<stock, sale, items, used, cart, cut, opening, removed>>

\* remove deletes whatever row has the id; items and payment go with it.  The
\* stock is not given back, and the job is not taken off the queue.
RemoveSale(c) ==
    /\ "removeSale" \in Ops
    /\ Exists(c)
    /\ sale' = [sale EXCEPT ![c] = None]
    /\ items' = items \ {c}
    /\ payment' = [payment EXCEPT ![c] = None]
    /\ removed' = removed \cup {c}
    /\ UNCHANGED <<stock, used, cart, req, queue, cut, opening, exposed, upset>>

-----------------------------------------------------------------------------
(* SaleQueue and reduceStock *)

StartJob(c) ==
    /\ job[c] = "waiting"
    /\ \A d \in Sale : job[d] # "active"
    /\ job' = [job EXCEPT ![c] = "active"]
    /\ broken' = broken \ {c}
    /\ left' = [left EXCEPT ![c] = Lines(c)]
    /\ UNCHANGED <<tables, req, stalls, history>>

\* Mutant: every line takes one piece from the stock.
DecrementOne(c, p) ==
    /\ p \in left[c]
    /\ left' = [left EXCEPT ![c] = @ \ {p}]
    /\ stock' = [stock EXCEPT ![p] = IF Listed(p) THEN @ - 1 ELSE None]
    /\ cut' = [cut EXCEPT ![c][p] = IF Listed(p) THEN @ + 1 ELSE @]
    /\ UNCHANGED <<sale, items, payment, used, cart, req, job, stalls, broken,
                   opening, removed, exposed, upset>>

\* One UPDATE, which finds no row when the product has gone.
Decrement(c, p) ==
    /\ p \in left[c]
    /\ left' = [left EXCEPT ![c] = @ \ {p}]
    /\ stock' = [stock EXCEPT ![p] = IF Listed(p) THEN @ - cart[c][p] ELSE None]
    /\ cut' = [cut EXCEPT ![c][p] = IF Listed(p) THEN @ + 1 ELSE @]
    /\ UNCHANGED <<sale, items, payment, used, cart, req, job, stalls, broken,
                   opening, removed, exposed, upset>>

\* Mutant: the job does not wait for its decrements.
CompleteJobEarly(c) ==
    /\ job[c] = "active"
    /\ job' = [job EXCEPT ![c] = "completed"]
    /\ UNCHANGED <<tables, req, stalls, broken, left, history>>

\* Promise.all ends with the last decrement or the first that fails, which
\* reduceStock logs: the job is completed either way.
CompleteJob(c) ==
    /\ job[c] = "active"
    /\ left[c] = {} \/ c \in broken
    /\ job' = [job EXCEPT ![c] = "completed"]
    /\ UNCHANGED <<tables, req, stalls, broken, left, history>>

\* Bull's check for stalled jobs.
Requeue(c) ==
    /\ job[c] = "stalled"
    /\ \/ /\ stalls[c] < MaxStalled
          /\ job' = [job EXCEPT ![c] = "waiting"]
          /\ stalls' = [stalls EXCEPT ![c] = @ + 1]
       \/ /\ stalls[c] >= MaxStalled
          /\ job' = [job EXCEPT ![c] = "failed"]
          /\ UNCHANGED stalls
    /\ UNCHANGED <<tables, req, broken, left, history>>

-----------------------------------------------------------------------------
(* Failures *)

\* The statement a handler is at fails; the catch clause throws.
StatementFails(s) ==
    /\ Faulty
    /\ req[s].pc \notin {"idle", "answered"}
    /\ Leave(s)
    /\ upset' = upset \cup Lines(req[s].id)
    /\ UNCHANGED <<tables, queue, cut, opening, removed, exposed>>

DecrementFails(c, p) ==
    /\ Faulty
    /\ p \in left[c]
    /\ left' = [left EXCEPT ![c] = @ \ {p}]
    /\ broken' = broken \cup {c}
    /\ upset' = upset \cup {p}
    /\ UNCHANGED <<tables, req, job, stalls, cut, opening, removed, exposed>>

Crash == Faulty /\ Die /\ UNCHANGED <<tables, cut, opening, removed>>

-----------------------------------------------------------------------------
(* The specification *)

Step(s) ==
    \/ SaveSale(s) \/ CheckProducts(s) \/ SaveSaleItems(s) \/ SaveTotal(s)
    \/ Commit(s) \/ Enqueue(s) \/ SavePayment(s)

Work(c) ==
    \/ StartJob(c) \/ CompleteJob(c) \/ Requeue(c)
    \/ \E p \in Product : Decrement(c, p)

Next ==
    \/ \E p \in Product : \/ \E n \in StockLevels : AddProduct(p, n) \/ UpdateProduct(p, n)
                          \/ RemoveProduct(p)
    \/ \E s \in Slot : BeginSale(s) \/ Step(s) \/ StatementFails(s)
    \/ \E c \in Sale : \/ Work(c) \/ RemoveSale(c)
                       \/ \E p \in Product : DecrementFails(c, p)
    \/ Crash

Spec == Init /\ [][Next]_vars

\* Requests and the worker go on; nothing obliges clients, or failures.
FairSpec ==
    /\ Spec
    /\ \A s \in Slot : WF_vars(Step(s))
    /\ \A c \in Sale : WF_vars(Work(c))

-----------------------------------------------------------------------------
(* Properties *)

\* The types of the tables, the queue and the requests.
TypeOK ==
    /\ stock \in [Product -> Int \cup {None}]
    /\ sale \in [Sale -> Nat \cup {None}]
    /\ items \subseteq Sale
    /\ payment \in [Sale -> Nat \cup {None}]
    /\ used \subseteq Product \cup Sale
    /\ cart \in [Sale -> Cart \cup {None}]
    /\ req \in [Slot -> Request]
    /\ job \in [Sale -> JobState]
    /\ stalls \in [Sale -> Nat]
    /\ broken \subseteq Sale
    /\ left \in [Sale -> SUBSET Product]
    /\ cut \in [Sale -> [Product -> Nat]]
    /\ opening \in [Product -> Int \cup {None}]
    /\ removed \subseteq Sale
    /\ exposed \subseteq Product
    /\ upset \subseteq Product

\* The stock check of saveSaleItems holds until the job has run: a product
\* whose sales did not overlap, from one's check to its decrement, and that was
\* not updated meanwhile, is never sold below zero.
NotOversold == \A p \in Product \ exposed : Listed(p) => stock[p] >= 0

\* A ReduceStock job decrements each product of its sale once per delivery at
\* most, and has done so at least once when it completes without an error.
ReducedPerDelivery ==
    \A c \in Sale : \A p \in Lines(c) :
        /\ cut[c][p] <= stalls[c] + 1
        /\ job[c] = "completed" /\ c \notin broken /\ Listed(p)
              => cut[c][p] >= 1

\* A payment is for a sale that is there, of its total, which is the cost of
\* what was sold; its items are there too, unless the sale was deleted while
\* create was at work and create put it back.
PaidInFull ==
    \A c \in Sale :
        payment[c] # None => /\ sale[c] = payment[c]
                             /\ sale[c] = Cost[cart[c]]
                             /\ c \in items \/ c \in removed

Settled ==
    /\ \A s \in Slot : req[s] = Idle
    /\ \A c \in Sale : /\ job[c] \in {"none", "completed", "failed"}
                       /\ left[c] = {}

\* The sales of p: those with items, and the deleted ones that had a job.
Sold(p) == {c \in items \cup {d \in removed : job[d] # "none"} : p \in Lines(c)}

\* The pieces of p that are in the carts of the sales C.
Pieces(C, p) == UNION {{c} \X (1 .. cart[c][p]) : c \in C}

\* Once all requests and jobs have ended, what is missing from the stock of a
\* product is what sale_item says was sold of it: create, the queue and the
\* worker lose nothing and count nothing twice as long as nothing fails.
SettledStock ==
    Settled => \A p \in Product \ upset :
        Listed(p) => stock[p] = opening[p] - Cardinality(Pieces(Sold(p), p))

\* Without failures, every sale with items is taken from the stock.
EverySaleReduced ==
    \A c \in Sale :
        c \in items ~> \A p \in Lines(c) : cut[c][p] = 1 \/ ~Listed(p)

\* The payment that create starts and does not await is made.
PaymentFollowsSale ==
    \A c \in Sale :
        (\E s \in Busy(c) : req[s].pc = "commit" /\ req[s].pay) ~> payment[c] # None

-----------------------------------------------------------------------------
(* The inductive invariant behind the safety properties *)

\* The id of a slot is its own until the job is queued or given up; a sale
\* whose request is before the enqueue has no job.
Owned ==
    /\ \A s \in Slot : (req[s].pc = "idle") <=> (req[s] = Idle)
    /\ \A s \in Slot : req[s].pc # "idle" => req[s].id \in used \cap Sale
    /\ \A s, t \in Slot : req[s].pc # "idle" /\ req[s].id = req[t].id => s = t
    /\ \A s \in Slot : req[s].pc \in {"sale", "products", "items", "total", "commit",
                                      "enqueue"} => job[req[s].id] = "none"
    /\ \A s \in Slot : req[s].paying => req[s].pc \in {"enqueue", "answered"}
    /\ \A c \in Sale : c \in used <=> cart[c] # None
    /\ \A c \in Sale : job[c] # "none" => c \in used

\* Only ids that were handed out appear anywhere.
Known ==
    /\ \A p \in Product : Listed(p) => p \in used
    /\ \A s \in Slot : Checked(s) => Lines(req[s].id) \subseteq used
    /\ \A c \in Sale : job[c] # "none" => Lines(c) \subseteq used
    /\ \A c \in Sale \ used : payment[c] = None

\* Which decrements a job has run in which state.
JobInOrder(c) ==
    /\ left[c] \subseteq Lines(c)
    /\ left[c] # {} => job[c] = "active" \/ (job[c] = "completed" /\ c \in broken)
    /\ stalls[c] <= MaxStalled
    /\ job[c] = "none" => stalls[c] = 0
    /\ \A p \in Product :
          /\ cut[c][p] <= stalls[c] + 1
          /\ job[c] = "none" => cut[c][p] = 0
          /\ job[c] = "waiting" \/ p \in left[c] => cut[c][p] <= stalls[c]
          /\ job[c] \in {"active", "completed"} /\ c \notin broken /\ p \in Lines(c) /\ Listed(p)
                => cut[c][p] >= 1 \/ p \in left[c]

\* A product that is not exposed is claimed by one sale at most, and has what
\* it claims.
Covered(p) ==
    /\ \A c, d \in Sale : Claims(c, p) /\ Claims(d, p) => c = d
    /\ \A c \in Sale : Claims(c, p) /\ Listed(p) => cart[c][p] <= stock[p]
    /\ \A c \in Sale : p \in Lines(c) => job[c] # "stalled"
    /\ Listed(p) => stock[p] >= 0

\* What create has written of a sale by the time it gets to each statement.
SaleInOrder(s) ==
    LET c == req[s].id IN
    /\ req[s].pc \in {"commit", "enqueue", "answered"}
          => sale[c] \in {None, Cost[cart[c]]}
    /\ req[s].pc \in {"total", "commit", "enqueue", "answered"}
          => c \in items \/ c \in removed
    /\ req[s].pc \in {"sale", "products", "items", "total", "commit"}
          => payment[c] = None

\* A sale whose items are in the table is on its way to its job, or has one,
\* unless something failed; a job is of a sale that had items.
SaleAhead(c) ==
    /\ c \in items => c \in used
    /\ c \in items /\ job[c] = "none" =>
          \/ Lines(c) \subseteq upset
          \/ \E s \in Busy(c) : req[s].pc \in {"total", "commit", "enqueue"}
    /\ job[c] # "none" => c \in items \cup removed

\* Where nothing failed, a job is handed out once and leaves no line out.
LinesTaken(c, p) ==
    /\ cut[c][p] > 0 => p \in Lines(c)
    /\ p \in Lines(c) \ upset =>
          /\ stalls[c] = 0
          /\ job[c] \notin {"stalled", "failed"}
          /\ Listed(p) /\ job[c] \in {"active", "completed"}
                => cut[c][p] >= 1 \/ p \in left[c]

\* The sales p was taken from the stock for.
Cut(p) == {c \in Sale : cut[c][p] > 0}

\* What is missing from the stock of p is what has been taken for sales.
Balanced(p) ==
    Listed(p) => /\ opening[p] # None
                 /\ IsFiniteSet(Pieces(Cut(p), p))
                 /\ stock[p] = opening[p] - Cardinality(Pieces(Cut(p), p))

SInv ==
    /\ TypeOK
    /\ Owned
    /\ Known
    /\ \A c \in Sale : JobInOrder(c)
    /\ \A p \in Product \ exposed : Covered(p)
    /\ \A s \in Slot : SaleInOrder(s)
    /\ PaidInFull
    /\ \A c \in Sale : SaleAhead(c) /\ \A p \in Product : LinesTaken(c, p)
    /\ \A p \in Product \ upset : Balanced(p)

=============================================================================
