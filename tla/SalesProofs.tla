---------------------------- MODULE SalesProofs ----------------------------
(* Proofs about Sales for any number of products, sales, requests and carts. *)
EXTENDS Sales, FiniteSetTheorems, TLAPS

-----------------------------------------------------------------------------
(* What the moves of a slot have in common *)

Early == {"sale", "products", "items", "total", "commit", "enqueue"}

\* The slot s goes on with the same sale, or is done with it.
Moves(s, r) ==
    /\ req[s].pc # "idle"
    /\ r \in Request
    /\ req' = [req EXCEPT ![s] = r]
    /\ r # Idle => /\ r.pc # "idle"
                   /\ r.id = req[s].id
                   /\ r.paying => r.pc \in {"enqueue", "answered"}
                   /\ r.pc \in Early => req[s].pc \in Early

LEMMA IdleType == Idle \in Request
  BY DEF Idle, Request

LEMMA GotoMoves ==
    ASSUME TypeOK, Owned, NEW s \in Slot, req[s].pc \in Early \ {"enqueue"},
           NEW pc \in Early, Goto(s, pc)
    PROVE  Moves(s, [req[s] EXCEPT !.pc = pc])
<1>1. req[s] \in Request /\ req[s] # Idle /\ ~req[s].paying
  BY DEF TypeOK, Owned, Idle, Early
<1>2. QED BY <1>1 DEF Goto, TypeOK, Moves, Request, Early

\* What Leave makes of the slot.
Left(s) == IF req[s].paying THEN [req[s] EXCEPT !.pc = "answered"] ELSE Idle

LEMMA LeaveMoves ==
    ASSUME TypeOK, Owned, NEW s \in Slot, req[s].pc # "idle", Leave(s)
    PROVE  Moves(s, Left(s))
<1>1. req[s] \in Request
  BY DEF TypeOK
<1>2. Left(s) \in Request
  BY <1>1, IdleType DEF Left, Request
<1>3. req' = [req EXCEPT ![s] = Left(s)]
  BY DEF Leave, Left
<1>4. ASSUME Left(s) # Idle
      PROVE  Left(s).pc = "answered" /\ Left(s).id = req[s].id
  BY <1>1, <1>4 DEF Left, Request
<1>5. QED BY <1>2, <1>3, <1>4 DEF Moves, Early

\* The other slots stay where they are, and no two share a sale.
LEMMA MovesOwned ==
    ASSUME TypeOK, Owned, NEW s \in Slot, NEW r, Moves(s, r),
           used' = used, cart' = cart,
           \A c \in Sale : job'[c] # job[c]
                => c = req[s].id /\ r.pc \notin Early
    PROVE  Owned' /\ req' \in [Slot -> Request]
<1>1. req' \in [Slot -> Request] /\ req \in [Slot -> Request]
  BY DEF Moves, TypeOK
<1>2. /\ req'[s] = r
      /\ \A t \in Slot \ {s} : req'[t] = req[t]
  BY <1>1 DEF Moves
<1>3. req[s].pc # "idle" /\ r \in Request /\ Idle.pc = "idle" /\ ~Idle.paying
  BY DEF Moves, Idle
<1>4. ASSUME NEW t \in Slot PROVE req'[t].pc = "idle" <=> req'[t] = Idle
  BY <1>2, <1>3, <1>4 DEF Owned, Moves
<1>5. ASSUME NEW t \in Slot, req'[t].pc # "idle"
      PROVE  req'[t].id = req[t].id /\ req[t].pc # "idle"
  BY <1>2, <1>3, <1>5 DEF Moves
<1>6. ASSUME NEW t \in Slot, req'[t].pc \in Early
      PROVE  req[t].pc \in Early
  BY <1>2, <1>3, <1>6 DEF Moves, Early
<1>7. ASSUME NEW t \in Slot, req'[t].paying
      PROVE  req'[t].pc \in {"enqueue", "answered"}
  BY <1>2, <1>3, <1>7 DEF Moves, Owned
<1>8. ASSUME NEW t \in Slot, req'[t].pc \in Early
      PROVE  job'[req'[t].id] = "none"
  <2>1. /\ req[t].pc \in Early /\ req'[t].id = req[t].id /\ req[t].pc # "idle"
        /\ req[t].id \in Sale
    BY <1>5, <1>6, <1>8 DEF Early, Owned
  <2>2. job[req[t].id] = "none"
    BY <2>1 DEF Owned, Early
  <2>3. req[t].id = req[s].id => t = s
    BY <2>1, <1>3 DEF Owned
  <2>4. req[t].id = req[s].id => r.pc \in Early
    BY <2>3, <1>2, <1>8
  <2>5. QED BY <2>1, <2>2, <2>4
<1>9. ASSUME NEW t \in Slot, NEW u \in Slot, req'[t].pc # "idle",
             req'[t].id = req'[u].id
      PROVE  t = u
  <2>1. req'[t].id = req[t].id /\ req[t].pc # "idle" /\ req[t].id \in Sale
    BY <1>5, <1>9 DEF Owned
  <2>2. req'[u].pc # "idle"
    BY <2>1, <1>9, <1>4, SalesAssumption DEF Idle
  <2>3. req'[u].id = req[u].id
    BY <2>2, <1>5
  <2>4. QED BY <2>1, <2>3, <1>9 DEF Owned
<1>10. ASSUME NEW c \in Sale, job'[c] # "none" PROVE c \in used
  BY <1>3, <1>10 DEF Owned
<1>11. QED
  BY <1>1, <1>4, <1>5, <1>7, <1>8, <1>9, <1>10 DEF Owned, Early

\* Death leaves no request, and no job active.
LEMMA DieOwned ==
    ASSUME TypeOK, Owned, Die, used' = used, cart' = cart
    PROVE  Owned' /\ req' \in [Slot -> Request] /\ job' \in [Sale -> JobState]
<1>1. req' = [s \in Slot |-> Idle] /\ req' \in [Slot -> Request]
  BY IdleType DEF Die
<1>2. job' \in [Sale -> JobState]
  BY DEF Die, TypeOK, JobState
<1>3. \A c \in Sale : job'[c] = "none" <=> job[c] = "none"
  BY DEF Die, TypeOK, JobState
<1>4. Idle.pc = "idle" /\ ~Idle.paying
  BY DEF Idle
<1>5. QED BY <1>1, <1>2, <1>3, <1>4 DEF Owned

\* Every step of a request moves its slot, or kills the process.
LEMMA StepMoves ==
    ASSUME TypeOK, Owned, NEW s \in Slot, Step(s) \/ StatementFails(s)
    PROVE  \/ Die
           \/ \E r : /\ Moves(s, r)
                     /\ \A c \in Sale : job'[c] # job[c]
                                           => c = req[s].id /\ r.pc \notin Early
<1> USE DEF Early, queue
<1>1. CASE SaveSale(s)
  <2>1. Moves(s, [req[s] EXCEPT !.pc = "products"])
    BY <1>1, GotoMoves DEF SaveSale
  <2>2. QED BY <1>1, <2>1 DEF SaveSale
<1>2. CASE CheckProducts(s)
  <2>1. Moves(s, [req[s] EXCEPT !.pc = "items"]) \/ Moves(s, Left(s))
    BY <1>2, GotoMoves, LeaveMoves DEF CheckProducts
  <2>2. QED BY <1>2, <2>1 DEF CheckProducts
<1>3. CASE SaveSaleItems(s)
  <2>1. Moves(s, [req[s] EXCEPT !.pc = "total"]) \/ Moves(s, Left(s))
    BY <1>3, GotoMoves, LeaveMoves DEF SaveSaleItems
  <2>2. QED BY <1>3, <2>1 DEF SaveSaleItems
<1>4. CASE SaveTotal(s)
  <2>1. Moves(s, [req[s] EXCEPT !.pc = "commit"])
    BY <1>4, GotoMoves DEF SaveTotal
  <2>2. QED BY <1>4, <2>1 DEF SaveTotal
<1>5. CASE Commit(s)
  <2>1. Moves(s, [req[s] EXCEPT !.pc = "enqueue", !.paying = req[s].pay])
    BY <1>5 DEF Commit, Moves, TypeOK, Request
  <2>2. QED BY <1>5, <2>1 DEF Commit
<1>6. CASE Enqueue(s)
  <2>1. Moves(s, Left(s))
    BY <1>6, LeaveMoves DEF Enqueue
  <2>2. Left(s).pc \notin Early
    BY DEF Left, Idle, TypeOK, Request
  <2>3. \A c \in Sale : job'[c] # job[c] => c = req[s].id
    BY <1>6 DEF Enqueue, TypeOK
  <2>4. QED BY <2>1, <2>2, <2>3
<1>7. CASE SavePayment(s) /\ ~Die
  <2> DEFINE r == IF req[s].pc = "answered" THEN Idle
                  ELSE [req[s] EXCEPT !.paying = FALSE]
  <2>1. req' = [req EXCEPT ![s] = r] /\ job' = job /\ req[s].paying
    BY <1>7 DEF SavePayment
  <2>2. req[s] \in Request /\ req[s].pc \in {"enqueue", "answered"}
    BY <2>1 DEF TypeOK, Owned
  <2>3. r \in Request
    BY <2>2, IdleType DEF Request
  <2>4. Moves(s, r)
    <3>1. CASE req[s].pc = "answered"
      BY <3>1, <2>1, <2>2, <2>3 DEF Moves
    <3>2. CASE req[s].pc = "enqueue"
      BY <3>2, <2>1, <2>2, <2>3 DEF Moves, Request
    <3>3. QED BY <3>1, <3>2, <2>2
  <2>5. QED BY <2>1, <2>4
<1>8. CASE StatementFails(s)
  <2>1. Moves(s, Left(s))
    BY <1>8, LeaveMoves DEF StatementFails
  <2>2. QED BY <1>8, <2>1 DEF StatementFails
<1>9. QED
  BY <1>1, <1>2, <1>3, <1>4, <1>5, <1>6, <1>7, <1>8 DEF Step

LEMMA OwnedStep == SInv /\ [Next]_vars => Owned' /\ req' \in [Slot -> Request]
<1> SUFFICES ASSUME SInv, [Next]_vars PROVE Owned' /\ req' \in [Slot -> Request]
  OBVIOUS
<1>0. TypeOK /\ Owned
  BY DEF SInv
<1>1. ASSUME NEW s \in Slot, Step(s) \/ StatementFails(s)
      PROVE  Owned' /\ req' \in [Slot -> Request]
  <2>1. used' = used /\ cart' = cart
    BY <1>1 DEF Step, StatementFails, tables, SaveSale, CheckProducts,
                SaveSaleItems, SaveTotal, Commit, Enqueue, SavePayment
  <2>2. QED BY <1>0, <1>1, <2>1, StepMoves, MovesOwned, DieOwned
<1>2. CASE Crash
  BY <1>0, <1>2, DieOwned DEF Crash, tables
<1>3. ASSUME NEW s \in Slot, BeginSale(s)
      PROVE  Owned' /\ req' \in [Slot -> Request]
  <2>1. PICK c \in Sale \ used, body \in Cart, pay \in BOOLEAN :
          /\ req' = [req EXCEPT ![s] = [pc |-> "sale", id |-> c, pay |-> pay,
                                        paying |-> FALSE]]
          /\ cart' = [cart EXCEPT ![c] = body]
          /\ used' = used \cup {c}
    BY <1>3 DEF BeginSale
  <2>2. job' = job /\ req[s] = Idle
    BY <1>3 DEF BeginSale, queue
  <2>3. req' \in [Slot -> Request]
    BY <2>1, <1>0 DEF TypeOK, Request
  <2>4. job[c] = "none"
    BY <1>0 DEF Owned
  <2>5. \A d \in Sale : d \in used' <=> cart'[d] # None
    BY <2>1, <1>0, SalesAssumption DEF Owned, TypeOK
  <2>6. /\ req'[s].id = c /\ req'[s].pc = "sale" /\ ~req'[s].paying
        /\ \A t \in Slot \ {s} : req'[t] = req[t]
        /\ \A t \in Slot : req[t].id # c
    BY <2>1, <1>0, SalesAssumption DEF TypeOK, Owned, Idle
  <2>7. QED
    BY <2>1, <2>2, <2>3, <2>4, <2>5, <2>6, <1>0 DEF Owned, Idle
<1>4. ASSUME NEW p \in Product, NEW n, AddProduct(p, n)
      PROVE  Owned' /\ req' \in [Slot -> Request]
  BY <1>4, <1>0, SalesAssumption DEF AddProduct, Owned, TypeOK, queue
<1>5. ASSUME NEW c \in Sale,
             Work(c) \/ \E p \in Product : DecrementFails(c, p)
      PROVE  Owned' /\ req' \in [Slot -> Request]
  <2>1. req' = req /\ used' = used /\ cart' = cart
    BY <1>5 DEF Work, DecrementFails, StartJob, CompleteJob, Requeue,
                Decrement, tables, queue
  <2>2. \A d \in Sale : job[d] = "none" <=> job'[d] = "none"
    <3>1. CASE StartJob(c) \/ CompleteJob(c)
      BY <3>1, <1>0 DEF StartJob, CompleteJob, TypeOK
    <3>2. CASE Requeue(c)
      BY <3>2, <1>0 DEF Requeue, TypeOK
    <3>3. CASE \E p \in Product : Decrement(c, p) \/ DecrementFails(c, p)
      BY <3>3, <1>0 DEF Decrement, DecrementFails, TypeOK
    <3>4. QED BY <1>5, <3>1, <3>2, <3>3 DEF Work
  <2>3. QED BY <2>1, <2>2, <1>0 DEF Owned, TypeOK
<1>6. CASE \/ UNCHANGED vars
           \/ \E c \in Sale : RemoveSale(c)
           \/ \E p \in Product : RemoveProduct(p)
           \/ \E p \in Product, n \in StockLevels : UpdateProduct(p, n)
  <2>1. req' = req /\ used' = used /\ cart' = cart /\ job' = job
    BY <1>6 DEF vars, tables, queue, RemoveSale, RemoveProduct, UpdateProduct
  <2>2. QED BY <2>1, <1>0 DEF Owned, TypeOK
<1>7. QED
  BY <1>1, <1>2, <1>3, <1>4, <1>5, <1>6 DEF Next

-----------------------------------------------------------------------------
(* Type correctness *)

\* A sale whose create is under way has a cart.
LEMMA CartType ==
    ASSUME TypeOK, Owned, NEW s \in Slot, req[s].pc # "idle"
    PROVE  req[s].id \in Sale /\ cart[req[s].id] \in Cart
  BY SalesAssumption DEF TypeOK, Owned

LEMMA LinesType ==
    ASSUME TypeOK, NEW c \in Sale
    PROVE  /\ Lines(c) \subseteq Product
           /\ \A p \in Lines(c) : cart[c] # None /\ cart[c][p] \in Nat \ {0}
  BY SalesAssumption DEF TypeOK, Lines

LEMMA DieType ==
    ASSUME TypeOK, Owned, Die, used' = used, cart' = cart
    PROVE  /\ job' \in [Sale -> JobState]
           /\ stalls' = stalls /\ broken' = broken
           /\ left' \in [Sale -> SUBSET Product]
           /\ exposed' \subseteq Product
           /\ upset' \subseteq Product
<1>1. job' \in [Sale -> JobState] /\ left' \in [Sale -> SUBSET Product]
  BY DieOwned DEF Die
<1>2. QED BY <1>1, LinesType DEF Die, TypeOK

LEMMA TypeStep == SInv /\ [Next]_vars => TypeOK'
<1> SUFFICES ASSUME SInv, [Next]_vars PROVE TypeOK'
  OBVIOUS
<1>0. TypeOK /\ Owned /\ req' \in [Slot -> Request]
  BY OwnedStep DEF SInv
<1> USE DEF tables, history, queue, JobState
<1>1. ASSUME NEW s \in Slot, BeginSale(s) PROVE TypeOK'
  BY <1>0, <1>1 DEF BeginSale, TypeOK
<1>2. ASSUME NEW s \in Slot, SaveSale(s) PROVE TypeOK'
  BY <1>0, <1>2 DEF SaveSale, TypeOK
<1>3. ASSUME NEW s \in Slot, CheckProducts(s) PROVE TypeOK'
  <2>1. exposed' \subseteq Product
    BY <1>0, <1>3, CartType, LinesType DEF CheckProducts, TypeOK
  <2>2. QED BY <1>0, <1>3, <2>1 DEF CheckProducts, TypeOK
<1>4. ASSUME NEW s \in Slot, SaveSaleItems(s) PROVE TypeOK'
  <2>1. req[s].id \in Sale
    BY <1>0, <1>4, CartType DEF SaveSaleItems
  <2>2. QED BY <1>0, <1>4, <2>1 DEF SaveSaleItems, TypeOK
<1>5. ASSUME NEW s \in Slot, SaveTotal(s) PROVE TypeOK'
  <2>1. Cost[cart[req[s].id]] \in Nat
    BY <1>0, <1>5, CartType, SalesAssumption DEF SaveTotal
  <2>2. QED BY <1>0, <1>5, <2>1 DEF SaveTotal, TypeOK
<1>6. ASSUME NEW s \in Slot, Commit(s) PROVE TypeOK'
  BY <1>0, <1>6 DEF Commit, TypeOK
<1>7. ASSUME NEW s \in Slot, Enqueue(s) PROVE TypeOK'
  <2>1. job' \in [Sale -> JobState]
    BY <1>0, <1>7 DEF Enqueue, TypeOK
  <2>2. QED BY <1>0, <1>7, <2>1 DEF Enqueue, TypeOK
<1>8. ASSUME NEW s \in Slot, SavePayment(s) PROVE TypeOK'
  <2>1. CASE ~Exists(req[s].id)
    <3>1. Die /\ UNCHANGED <<stock, sale, items, payment, used, cart, cut, opening, removed>>
      BY <1>8, <2>1 DEF SavePayment
    <3>2. QED BY <1>0, <3>1, DieType DEF TypeOK
  <2>2. CASE Exists(req[s].id)
    <3>1. Cost[cart[req[s].id]] \in Nat
      BY <1>0, <1>8, CartType, SalesAssumption DEF SavePayment, Owned
    <3>2. UNCHANGED <<stock, sale, items, used, cart, queue, history>>
      BY <1>8, <2>2 DEF SavePayment
    <3>3. payment' = [payment EXCEPT ![req[s].id] = Cost[cart[req[s].id]]]
      BY <1>8, <2>2 DEF SavePayment
    <3>4. QED BY <1>0, <3>1, <3>2, <3>3 DEF TypeOK
  <2>3. QED BY <2>1, <2>2
<1>9. ASSUME NEW s \in Slot, StatementFails(s) PROVE TypeOK'
  <2>1. upset' \subseteq Product
    BY <1>0, <1>9, CartType, LinesType DEF StatementFails, TypeOK
  <2>2. QED BY <1>0, <1>9, <2>1 DEF StatementFails, TypeOK
<1>10. CASE Crash
  <2>1. Die /\ UNCHANGED <<tables, cut, opening, removed>>
    BY <1>10 DEF Crash
  <2>2. QED BY <1>0, <2>1, DieType DEF TypeOK
<1>11. ASSUME NEW p \in Product, NEW n \in StockLevels,
              AddProduct(p, n) \/ UpdateProduct(p, n)
       PROVE  TypeOK'
  <2>1. n \in Int
    BY SalesAssumption
  <2>2. CASE AddProduct(p, n)
    BY <1>0, <2>1, <2>2 DEF AddProduct, TypeOK
  <2>3. CASE UpdateProduct(p, n)
    <3>1. exposed' \subseteq Product
      BY <1>0, <2>3 DEF UpdateProduct, TypeOK
    <3>2. QED BY <1>0, <2>1, <2>3, <3>1 DEF UpdateProduct, TypeOK
  <2>4. QED BY <1>11, <2>2, <2>3
<1>12. ASSUME NEW p \in Product, RemoveProduct(p) PROVE TypeOK'
  BY <1>0, <1>12 DEF RemoveProduct, TypeOK
<1>13. ASSUME NEW c \in Sale, RemoveSale(c) PROVE TypeOK'
  BY <1>0, <1>13 DEF RemoveSale, TypeOK
<1>14. ASSUME NEW c \in Sale, StartJob(c) PROVE TypeOK'
  <2>1. job' \in [Sale -> JobState]
    BY <1>0, <1>14 DEF StartJob, TypeOK
  <2>2. QED BY <1>0, <1>14, <2>1, LinesType DEF StartJob, TypeOK
<1>15. ASSUME NEW c \in Sale, CompleteJob(c) PROVE TypeOK'
  <2>1. job' \in [Sale -> JobState]
    BY <1>0, <1>15 DEF CompleteJob, TypeOK
  <2>2. QED BY <1>0, <1>15, <2>1 DEF CompleteJob, TypeOK
<1>16. ASSUME NEW c \in Sale, Requeue(c) PROVE TypeOK'
  <2>1. job' \in [Sale -> JobState]
    BY <1>0, <1>16 DEF Requeue, TypeOK
  <2>2. stalls' \in [Sale -> Nat]
    BY <1>0, <1>16 DEF Requeue, TypeOK
  <2>3. QED BY <1>0, <1>16, <2>1, <2>2 DEF Requeue, TypeOK
<1>17. ASSUME NEW c \in Sale, NEW p \in Product, Decrement(c, p) PROVE TypeOK'
  <2>1. cart[c][p] \in Nat
    BY <1>0, <1>17, LinesType DEF Decrement, SInv, JobInOrder
  <2>2. stock' \in [Product -> Int \cup {None}]
    BY <1>0, <1>17, <2>1 DEF Decrement, TypeOK, Listed
  <2>3. cut' \in [Sale -> [Product -> Nat]]
    BY <1>0, <1>17 DEF Decrement, TypeOK
  <2>4. QED BY <1>0, <1>17, <2>2, <2>3 DEF Decrement, TypeOK
<1>18. ASSUME NEW c \in Sale, NEW p \in Product, DecrementFails(c, p) PROVE TypeOK'
  <2>1. job' \in [Sale -> JobState]
    BY <1>0, <1>18 DEF DecrementFails, TypeOK
  <2>2. QED BY <1>0, <1>18, <2>1 DEF DecrementFails, TypeOK
<1>19. CASE UNCHANGED vars
  BY <1>0, <1>19 DEF vars, TypeOK
<1>20. QED
  BY <1>1, <1>2, <1>3, <1>4, <1>5, <1>6, <1>7, <1>8, <1>9, <1>10, <1>11, <1>12,
     <1>13, <1>14, <1>15, <1>16, <1>17, <1>18, <1>19 DEF Next, Step, Work

-----------------------------------------------------------------------------
(* Ids, carts and checked requests *)

\* Nothing changes the cart of a sale that exists.
LEMMA LinesKept ==
    ASSUME NEW c \in Sale, cart'[c] = cart[c]
    PROVE  Lines(c)' = Lines(c)
  BY DEF Lines

\* A request passes the stock check at CheckProducts and nowhere else.
LEMMA CheckedStep ==
    ASSUME TypeOK, Owned, NEW s \in Slot, Step(s) \/ StatementFails(s),
           NEW t \in Slot, Checked(t)'
    PROVE  /\ req'[t].id = req[t].id /\ req[t].id \in Sale
           /\ Checked(t) \/ (t = s /\ CheckProducts(s) /\ Enough(req[s].id))
<1>1. PICK r : Moves(s, r)
  BY StepMoves, IdleType DEF Die, Checked, Idle
<1>2. CASE t # s
  <2>1. req'[t] = req[t]
    BY <1>1, <1>2 DEF Moves, TypeOK
  <2>2. Checked(t)
    BY <2>1 DEF Checked
  <2>3. QED BY <2>1, <2>2 DEF Owned, Checked
<1>3. CASE t = s
  <2>1. req'[s] = r /\ req[s].pc # "idle" /\ r # Idle
    BY <1>1, <1>3 DEF Moves, TypeOK, Checked, Idle
  <2>2. req'[s].id = req[s].id /\ req[s].id \in Sale
    BY <1>1, <2>1 DEF Moves, Owned
  <2>3. req[s].pc \in Early
    BY <1>1, <1>3, <2>1 DEF Moves, Checked, Early
  <2>4. CASE SaveSale(s)
    BY <1>3, <2>4 DEF SaveSale, Goto, Checked, TypeOK
  <2>5. CASE CheckProducts(s)
    <3>1. CASE ~Enough(req[s].id)
      <4>1. Leave(s) /\ req[s].pc = "products"
        BY <2>5, <3>1 DEF CheckProducts
      <4>2. req'[s] = Left(s)
        BY <4>1 DEF Leave, Left, TypeOK
      <4>3. Left(s).pc \in {"answered", "idle"}
        BY DEF Left, Idle, TypeOK, Request
      <4>4. QED BY <1>3, <4>2, <4>3 DEF Checked
    <3>2. QED BY <1>3, <2>2, <2>5, <3>1
  <2>6. CASE StatementFails(s)
    <3>1. req'[s] = Left(s)
      BY <2>6 DEF StatementFails, Leave, Left, TypeOK
    <3>2. Left(s).pc \in {"answered", "idle"}
      BY DEF Left, Idle, TypeOK, Request
    <3>3. QED BY <1>3, <3>1, <3>2 DEF Checked
  <2>7. CASE \/ SaveSaleItems(s) \/ SaveTotal(s) \/ Commit(s) \/ Enqueue(s)
             \/ SavePayment(s)
    <3>1. Checked(s)
      BY <2>3, <2>7 DEF SaveSaleItems, SaveTotal, Commit, Enqueue, SavePayment,
                        Owned, Checked, Early
    <3>2. QED BY <1>3, <2>2, <3>1
  <2>8. QED BY <2>4, <2>5, <2>6, <2>7 DEF Step
<1>4. QED BY <1>2, <1>3

\* Only Enqueue makes a job.
LEMMA JobMade ==
    ASSUME TypeOK, Owned, NEW s \in Slot, Step(s) \/ StatementFails(s),
           NEW c \in Sale, job'[c] # "none", job[c] = "none"
    PROVE  c = req[s].id /\ Checked(s)
<1>1. CASE Enqueue(s)
  BY <1>1 DEF Enqueue, TypeOK, Checked
<1>2. CASE Die
  BY <1>2 DEF Die
<1>3. CASE job' = job
  BY <1>3
<1>4. QED
  BY <1>1, <1>2, <1>3 DEF Step, StatementFails, SaveSale, CheckProducts,
     SaveSaleItems, SaveTotal, Commit, SavePayment, queue

LEMMA KnownStep == SInv /\ [Next]_vars => Known'
<1> SUFFICES ASSUME SInv, [Next]_vars PROVE Known'
  OBVIOUS
<1>0. TypeOK /\ Owned /\ Known /\ Owned'
  BY OwnedStep DEF SInv
<1> USE DEF tables, history, queue
<1>1. ASSUME NEW s \in Slot, Step(s) \/ StatementFails(s) PROVE Known'
  <2>1. UNCHANGED <<stock, used, cart>>
    BY <1>1 DEF Step, StatementFails, SaveSale, CheckProducts, SaveSaleItems,
                SaveTotal, Commit, Enqueue, SavePayment
  <2>2. \A c \in Sale : Lines(c)' = Lines(c)
    BY <2>1, LinesKept
  <2>3. ASSUME NEW t \in Slot, Checked(t)' PROVE Lines(req[t].id)' \subseteq used
    <3>1. /\ req'[t].id = req[t].id /\ req[t].id \in Sale
          /\ Checked(t) \/ (t = s /\ Enough(req[s].id))
      BY <1>0, <1>1, <2>3, CheckedStep
    <3>2. CASE Checked(t)
      BY <1>0, <2>2, <3>1, <3>2 DEF Known
    <3>3. CASE t = s /\ Enough(req[s].id)
      BY <1>0, <2>2, <3>1, <3>3, LinesType DEF Known, Enough
    <3>4. QED BY <3>1, <3>2, <3>3
  <2>4. ASSUME NEW c \in Sale, job'[c] # "none" PROVE Lines(c) \subseteq used
    <3>1. CASE job[c] # "none"
      BY <1>0, <3>1 DEF Known
    <3>2. CASE job[c] = "none"
      BY <1>0, <1>1, <2>4, <3>2, JobMade DEF Known
    <3>3. QED BY <3>1, <3>2
  <2>5. ASSUME NEW c \in Sale \ used PROVE payment'[c] = None
    <3>1. payment'[c] = payment[c] \/ (c = req[s].id /\ req[s].pc # "idle")
      BY <1>0, <1>1 DEF Step, StatementFails, SaveSale, CheckProducts,
         SaveSaleItems, SaveTotal, Commit, Enqueue, SavePayment, TypeOK, Owned
    <3>2. QED BY <1>0, <3>1 DEF Known, Owned
  <2>6. QED BY <1>0, <2>1, <2>2, <2>3, <2>4, <2>5 DEF Known, Listed
<1>2. CASE Crash
  <2>1. \A c \in Sale : Lines(c)' = Lines(c)
    BY <1>2, LinesKept DEF Crash
  <2>2. QED BY <1>0, <1>2, <2>1 DEF Crash, Die, Known, Listed, Checked, Idle
<1>3. ASSUME NEW s \in Slot, BeginSale(s) PROVE Known'
  <2>1. PICK c \in Sale \ used, body \in Cart, pay \in BOOLEAN :
          /\ req' = [req EXCEPT ![s] = [pc |-> "sale", id |-> c, pay |-> pay,
                                        paying |-> FALSE]]
          /\ cart' = [cart EXCEPT ![c] = body]
          /\ used' = used \cup {c}
    BY <1>3 DEF BeginSale
  <2>2. UNCHANGED <<stock, payment, job>>
    BY <1>3 DEF BeginSale
  <2>3. \A d \in Sale : d # c => Lines(d)' = Lines(d)
    BY <1>0, <2>1, LinesKept DEF TypeOK
  <2>4. ASSUME NEW t \in Slot, Checked(t)'
        PROVE  Checked(t) /\ req'[t].id = req[t].id /\ req[t].id \in Sale \ {c}
    BY <1>0, <2>1, <2>4 DEF Checked, TypeOK, Owned
  <2>5. job[c] = "none"
    BY <1>0 DEF Owned
  <2>6. QED BY <1>0, <2>1, <2>2, <2>3, <2>4, <2>5 DEF Known, Listed
<1>4. ASSUME NEW p \in Product, NEW n, AddProduct(p, n) PROVE Known'
  <2>1. \A c \in Sale : Lines(c)' = Lines(c)
    BY <1>4, LinesKept DEF AddProduct
  <2>2. \A t \in Slot : Checked(t)' => Checked(t) /\ req[t].id \in Sale
    BY <1>0, <1>4 DEF AddProduct, Checked, Owned
  <2>3. QED BY <1>0, <1>4, <2>1, <2>2 DEF AddProduct, Known, Listed, TypeOK
<1>5. ASSUME NEW c \in Sale,
             \/ Work(c) \/ RemoveSale(c)
             \/ \E p \in Product : DecrementFails(c, p)
      PROVE  Known'
  <2>1. UNCHANGED <<req, cart, used>>
    BY <1>5 DEF Work, StartJob, CompleteJob, Requeue, Decrement, DecrementFails,
                RemoveSale
  <2>2. \A d \in Sale : Lines(d)' = Lines(d)
    BY <2>1, LinesKept
  <2>3. \A t \in Slot : Checked(t)' => Checked(t) /\ req[t].id \in Sale
    BY <1>0, <2>1 DEF Checked, Owned
  <2>4. \A p \in Product : Listed(p)' => Listed(p)
    BY <1>0, <1>5 DEF Work, StartJob, CompleteJob, Requeue, Decrement,
       DecrementFails, RemoveSale, Listed, TypeOK
  <2>5. \A d \in Sale : job'[d] # "none" => job[d] # "none"
    BY <1>0, <1>5 DEF Work, StartJob, CompleteJob, Requeue, Decrement,
       DecrementFails, RemoveSale, TypeOK
  <2>6. \A d \in Sale : payment[d] = None => payment'[d] = None
    BY <1>0, <1>5 DEF Work, StartJob, CompleteJob, Requeue, Decrement,
       DecrementFails, RemoveSale, TypeOK
  <2>7. QED BY <1>0, <2>1, <2>2, <2>3, <2>4, <2>5, <2>6 DEF Known
<1>6. ASSUME NEW p \in Product,
             RemoveProduct(p) \/ \E n \in StockLevels : UpdateProduct(p, n)
      PROVE  Known'
  <2>1. UNCHANGED <<req, cart, used, job, payment>>
    BY <1>6 DEF RemoveProduct, UpdateProduct
  <2>2. \A d \in Sale : Lines(d)' = Lines(d)
    BY <2>1, LinesKept
  <2>3. \A t \in Slot : Checked(t)' => Checked(t) /\ req[t].id \in Sale
    BY <1>0, <2>1 DEF Checked, Owned
  <2>4. \A q \in Product : Listed(q)' => Listed(q)
    BY <1>0, <1>6 DEF RemoveProduct, UpdateProduct, Listed, TypeOK
  <2>5. QED BY <1>0, <2>1, <2>2, <2>3, <2>4 DEF Known
<1>7. CASE UNCHANGED vars
  BY <1>0, <1>7 DEF vars, Known, Listed, Lines, Checked
<1>8. QED
  BY <1>1, <1>2, <1>3, <1>4, <1>5, <1>6, <1>7 DEF Next

-----------------------------------------------------------------------------
(* The jobs *)

\* A step that touches neither the queue nor the counts, and lists no product.
LEMMA JobKept ==
    ASSUME TypeOK, NEW c \in Sale, JobInOrder(c), UNCHANGED queue,
           cut' = cut, cart'[c] = cart[c],
           \A p \in Product : Listed(p)' => Listed(p)
    PROVE  JobInOrder(c)'
<1>1. Lines(c)' = Lines(c)
  BY LinesKept
<1>2. QED BY <1>1 DEF JobInOrder, queue

\* A job that does not exist is in order with any cart.
LEMMA NoJobInOrder ==
    ASSUME TypeOK, NEW c \in Sale, JobInOrder(c), job[c] = "none",
           UNCHANGED queue, cut' = cut
    PROVE  JobInOrder(c)'
<1>1. left[c] = {}
  BY DEF JobInOrder
<1>2. QED BY <1>1 DEF JobInOrder, queue

LEMMA DieJobs ==
    ASSUME TypeOK, NEW c \in Sale, JobInOrder(c), Die,
           UNCHANGED <<stock, cart, cut>>
    PROVE  JobInOrder(c)'
<1>1. Lines(c)' = Lines(c)
  BY LinesKept
<1>2. /\ left'[c] = {} /\ stalls' = stalls /\ broken' = broken
      /\ job'[c] = IF job[c] = "active" THEN "stalled" ELSE job[c]
  BY DEF Die
<1>3. job[c] = "completed" /\ c \notin broken => left[c] = {}
  BY DEF JobInOrder
<1>4. \A p \in Product : Listed(p)' <=> Listed(p)
  BY DEF Listed
<1>5. QED BY <1>1, <1>2, <1>3, <1>4 DEF JobInOrder, TypeOK

LEMMA JobStep == SInv /\ [Next]_vars => \A c \in Sale : JobInOrder(c)'
<1> SUFFICES ASSUME SInv, [Next]_vars, NEW c \in Sale PROVE JobInOrder(c)'
  OBVIOUS
<1>0. TypeOK /\ Owned /\ Known /\ JobInOrder(c) /\ Lines(c) \subseteq Product
  BY LinesType DEF SInv
<1> USE DEF tables, history
<1>1. ASSUME NEW s \in Slot, Step(s) \/ StatementFails(s) PROVE JobInOrder(c)'
  <2>1. CASE Enqueue(s)
    <3>1. job[req[s].id] = "none" /\ req[s].id \in Sale
      BY <1>0, <2>1 DEF Enqueue, Owned
    <3>2. UNCHANGED <<stock, cart, cut, stalls, broken, left>>
      BY <2>1 DEF Enqueue
    <3>3. CASE c = req[s].id
      <4>1. job'[c] = "waiting" /\ job[c] = "none" /\ Lines(c)' = Lines(c)
        BY <1>0, <2>1, <3>1, <3>2, <3>3, LinesKept DEF Enqueue, TypeOK
      <4>2. QED BY <1>0, <3>2, <4>1 DEF JobInOrder, TypeOK
    <3>4. CASE c # req[s].id
      <4>1. job'[c] = job[c] /\ Lines(c)' = Lines(c)
        BY <1>0, <2>1, <3>2, <3>4, LinesKept DEF Enqueue, TypeOK
      <4>2. QED BY <1>0, <3>2, <4>1 DEF JobInOrder, Listed
    <3>5. QED BY <3>3, <3>4
  <2>2. CASE SavePayment(s) /\ ~Exists(req[s].id)
    BY <1>0, <2>2, DieJobs DEF SavePayment
  <2>3. CASE \/ SaveSale(s) \/ CheckProducts(s) \/ SaveSaleItems(s) \/ SaveTotal(s)
             \/ Commit(s) \/ StatementFails(s)
             \/ SavePayment(s) /\ Exists(req[s].id)
    <3>1. UNCHANGED <<queue, stock, cart, cut>>
      BY <2>3 DEF SaveSale, CheckProducts, SaveSaleItems, SaveTotal, Commit,
                  StatementFails, SavePayment
    <3>2. QED BY <1>0, <3>1, JobKept DEF Listed
  <2>4. QED BY <1>1, <2>1, <2>2, <2>3 DEF Step
<1>2. CASE Crash
  BY <1>0, <1>2, DieJobs DEF Crash
<1>3. ASSUME NEW s \in Slot, BeginSale(s) PROVE JobInOrder(c)'
  <2>1. PICK d \in Sale \ used, body \in Cart : cart' = [cart EXCEPT ![d] = body]
    BY <1>3 DEF BeginSale
  <2>2. UNCHANGED <<queue, stock, cut>>
    BY <1>3 DEF BeginSale
  <2>3. CASE c = d
    <3>1. job[c] = "none"
      BY <1>0, <2>1, <2>3 DEF Owned
    <3>2. QED BY <1>0, <2>2, <3>1, NoJobInOrder
  <2>4. CASE c # d
    BY <1>0, <2>1, <2>2, <2>4, JobKept DEF Listed, TypeOK
  <2>5. QED BY <2>3, <2>4
<1>4. ASSUME NEW p \in Product, NEW n, AddProduct(p, n) PROVE JobInOrder(c)'
  <2>1. UNCHANGED <<queue, cart, cut>> /\ p \notin used
    BY <1>4 DEF AddProduct
  <2>2. CASE job[c] = "none"
    BY <1>0, <2>1, <2>2, NoJobInOrder
  <2>3. CASE job[c] # "none"
    <3>1. p \notin Lines(c) /\ Lines(c)' = Lines(c)
      BY <1>0, <2>1, <2>3, LinesKept DEF Known
    <3>2. \A q \in Lines(c) : Listed(q)' => Listed(q)
      BY <1>0, <1>4, <3>1 DEF AddProduct, Listed, TypeOK
    <3>3. QED BY <1>0, <2>1, <3>1, <3>2 DEF JobInOrder, queue
  <2>4. QED BY <2>2, <2>3
<1>5. ASSUME NEW p \in Product, NEW n, RemoveProduct(p) \/ UpdateProduct(p, n)
      PROVE  JobInOrder(c)'
  <2>1. UNCHANGED <<queue, cart, cut>>
    BY <1>5 DEF RemoveProduct, UpdateProduct
  <2>2. \A q \in Product : Listed(q)' => Listed(q)
    BY <1>0, <1>5 DEF RemoveProduct, UpdateProduct, Listed, TypeOK
  <2>3. QED BY <1>0, <2>1, <2>2, JobKept
<1>6. ASSUME NEW d \in Sale, RemoveSale(d) PROVE JobInOrder(c)'
  BY <1>0, <1>6, JobKept DEF RemoveSale, Listed
<1>7. ASSUME NEW d \in Sale, StartJob(d) PROVE JobInOrder(c)'
  <2>1. UNCHANGED <<stock, cart, cut, stalls>> /\ Lines(c)' = Lines(c)
    BY <1>7, LinesKept DEF StartJob
  <2>2. CASE c = d
    <3>1. /\ job[c] = "waiting" /\ job'[c] = "active" /\ left'[c] = Lines(c)
          /\ c \notin broken'
      BY <1>0, <1>7, <2>2 DEF StartJob, TypeOK
    <3>2. QED BY <1>0, <2>1, <3>1 DEF JobInOrder, Listed, TypeOK
  <2>3. CASE c # d
    <3>1. job'[c] = job[c] /\ left'[c] = left[c] /\ (c \in broken' <=> c \in broken)
      BY <1>0, <1>7, <2>3 DEF StartJob, TypeOK
    <3>2. QED BY <1>0, <2>1, <3>1 DEF JobInOrder, Listed
  <2>4. QED BY <2>2, <2>3
<1>8. ASSUME NEW d \in Sale, CompleteJob(d) PROVE JobInOrder(c)'
  <2>1. UNCHANGED <<stock, cart, cut, stalls, left, broken>> /\ Lines(c)' = Lines(c)
    BY <1>8, LinesKept DEF CompleteJob
  <2>2. CASE c = d
    <3>1. /\ job[c] = "active" /\ job'[c] = "completed"
          /\ left[c] = {} \/ c \in broken
      BY <1>0, <1>8, <2>2 DEF CompleteJob, TypeOK
    <3>2. QED BY <1>0, <2>1, <3>1 DEF JobInOrder, Listed
  <2>3. CASE c # d
    <3>1. job'[c] = job[c]
      BY <1>0, <1>8, <2>3 DEF CompleteJob, TypeOK
    <3>2. QED BY <1>0, <2>1, <3>1 DEF JobInOrder, Listed
  <2>4. QED BY <2>2, <2>3
<1>9. ASSUME NEW d \in Sale, Requeue(d) PROVE JobInOrder(c)'
  <2>1. UNCHANGED <<stock, cart, cut, left, broken>> /\ Lines(c)' = Lines(c)
    BY <1>9, LinesKept DEF Requeue
  <2>2. CASE c = d
    <3>1. /\ job[c] = "stalled" /\ left[c] = {}
          /\ \/ job'[c] = "waiting" /\ stalls'[c] = stalls[c] + 1
                 /\ stalls'[c] <= MaxStalled
             \/ job'[c] = "failed" /\ stalls'[c] = stalls[c]
      BY <1>0, <1>9, <2>2, SalesAssumption DEF Requeue, TypeOK, JobInOrder
    <3>2. stalls[c] \in Nat /\ \A p \in Product : cut[c][p] \in Nat
      BY <1>0 DEF TypeOK
    <3>3. QED BY <1>0, <2>1, <3>1, <3>2 DEF JobInOrder, Listed
  <2>3. CASE c # d
    <3>1. job'[c] = job[c] /\ stalls'[c] = stalls[c]
      BY <1>0, <1>9, <2>3 DEF Requeue, TypeOK
    <3>2. QED BY <1>0, <2>1, <3>1 DEF JobInOrder, Listed
  <2>4. QED BY <2>2, <2>3
<1>10. ASSUME NEW d \in Sale, NEW p \in Product, Decrement(d, p)
       PROVE  JobInOrder(c)'
  <2>1. UNCHANGED <<cart, stalls, job, broken>> /\ Lines(c)' = Lines(c)
    BY <1>10, LinesKept DEF Decrement
  <2>2. \A q \in Product : Listed(q)' => Listed(q)
    BY <1>0, <1>10 DEF Decrement, Listed, TypeOK
  <2>3. CASE c = d
    <3>1. /\ p \in left[c] /\ left'[c] = left[c] \ {p}
          /\ \A q \in Product \ {p} : cut'[c][q] = cut[c][q]
          /\ cut'[c][p] = IF Listed(p) THEN cut[c][p] + 1 ELSE cut[c][p]
      BY <1>0, <1>10, <2>3 DEF Decrement, TypeOK
    <3>2. stalls[c] \in Nat /\ \A q \in Product : cut[c][q] \in Nat
      BY <1>0 DEF TypeOK
    <3>3. job[c] \notin {"none", "waiting"}
      BY <1>0, <3>1 DEF JobInOrder
    <3>4. QED BY <1>0, <2>1, <2>2, <3>1, <3>2, <3>3 DEF JobInOrder
  <2>4. CASE c # d
    <3>1. left'[c] = left[c] /\ cut'[c] = cut[c]
      BY <1>0, <1>10, <2>4 DEF Decrement, TypeOK
    <3>2. QED BY <1>0, <2>1, <2>2, <3>1 DEF JobInOrder
  <2>5. QED BY <2>3, <2>4
<1>11. ASSUME NEW d \in Sale, NEW p \in Product, DecrementFails(d, p)
       PROVE  JobInOrder(c)'
  <2>1. UNCHANGED <<stock, cart, stalls, job, cut>> /\ Lines(c)' = Lines(c)
    BY <1>11, LinesKept DEF DecrementFails
  <2>2. CASE c = d
    <3>1. p \in left[c] /\ left'[c] = left[c] \ {p} /\ c \in broken'
      BY <1>0, <1>11, <2>2 DEF DecrementFails, TypeOK
    <3>2. QED BY <1>0, <2>1, <3>1 DEF JobInOrder
  <2>3. CASE c # d
    <3>1. left'[c] = left[c] /\ (c \in broken' <=> c \in broken)
      BY <1>0, <1>11, <2>3 DEF DecrementFails, TypeOK
    <3>2. QED BY <1>0, <2>1, <3>1 DEF JobInOrder, Listed
  <2>4. QED BY <2>2, <2>3
<1>12. CASE UNCHANGED vars
  BY <1>0, <1>12, JobKept DEF vars, Listed
<1>13. QED
  BY <1>1, <1>2, <1>3, <1>4, <1>5, <1>6, <1>7, <1>8, <1>9, <1>10, <1>11, <1>12
     DEF Next, Work

-----------------------------------------------------------------------------
(* The stock check covers what follows it *)

\* A step that makes no claim on p, adds no stalled job of it and leaves its
\* stock alone.
LEMMA CoveredKept ==
    ASSUME TypeOK, NEW p \in Product, Covered(p),
           stock'[p] = stock[p] \/ stock'[p] = None,
           \A c \in Sale : Claims(c, p)' => Claims(c, p) /\ cart'[c] = cart[c],
           \A c \in Sale : job'[c] = "stalled" /\ p \in Lines(c)'
                              => job[c] = "stalled" /\ p \in Lines(c)
    PROVE  Covered(p)'
  BY DEF Covered, Listed

\* The claims of a request go on as long as it is between check and enqueue.
LEMMA SlotClaims ==
    ASSUME TypeOK, Owned, NEW s \in Slot, Step(s) \/ StatementFails(s),
           ~Enqueue(s), UNCHANGED <<cart, job, left>>,
           NEW p \in Product, NEW c \in Sale, Claims(c, p)'
    PROVE  Claims(c, p) \/ (CheckProducts(s) /\ Enough(c) /\ c = req[s].id)
<1>1. Lines(c)' = Lines(c) /\ p \in Lines(c)
  BY LinesKept DEF Claims
<1>2. CASE job[c] \in {"waiting", "stalled"} \/ p \in left[c]
  BY <1>1, <1>2 DEF Claims
<1>3. CASE \E t \in Slot : req'[t].id = c /\ Checked(t)'
  <2>1. PICK t \in Slot : req'[t].id = c /\ Checked(t)'
    BY <1>3
  <2>2. /\ req[t].id = c
        /\ Checked(t) \/ (t = s /\ CheckProducts(s) /\ Enough(req[s].id))
    BY <2>1, CheckedStep
  <2>3. QED BY <1>1, <2>2 DEF Claims, Busy
<1>4. QED BY <1>1, <1>2, <1>3 DEF Claims, Busy

LEMMA DieCovered ==
    ASSUME TypeOK, NEW p \in Product \ exposed', Covered(p), Die,
           UNCHANGED <<stock, cart>>
    PROVE  Covered(p)'
<1>1. \A c \in Sale : Lines(c)' = Lines(c)
  BY LinesKept
<1>2. \A c \in Sale : job[c] = "active" => p \notin Lines(c)
  BY DEF Die
<1>3. ASSUME NEW c \in Sale, Claims(c, p)' PROVE Claims(c, p)
  <2>1. p \in Lines(c) /\ job'[c] \in {"waiting", "stalled"}
    BY <1>1, <1>3 DEF Die, Claims, Busy, Checked, Idle
  <2>2. job[c] \in {"waiting", "stalled"}
    BY <1>2, <2>1 DEF Die
  <2>3. QED BY <2>1, <2>2 DEF Claims
<1>4. ASSUME NEW c \in Sale, job'[c] = "stalled", p \in Lines(c)'
      PROVE  job[c] = "stalled" /\ p \in Lines(c)
  BY <1>1, <1>2, <1>4 DEF Die
<1>5. QED BY <1>3, <1>4, CoveredKept

LEMMA CoveredStep ==
    SInv /\ [Next]_vars => \A p \in Product \ exposed' : Covered(p)'
<1> SUFFICES ASSUME SInv, [Next]_vars, NEW p \in Product \ exposed'
             PROVE  Covered(p)'
  OBVIOUS
<1>a. TypeOK /\ Owned /\ Known /\ \A c \in Sale : JobInOrder(c) /\ Lines(c) \subseteq Product
  BY LinesType DEF SInv
<1>b. Covered(p)
  <2>1. exposed \subseteq exposed'
    BY DEF Next, Step, Work, vars, history, Die, AddProduct, UpdateProduct,
       RemoveProduct, BeginSale, SaveSale, CheckProducts, SaveSaleItems, SaveTotal,
       Commit, Enqueue, SavePayment, RemoveSale, StartJob, CompleteJob, Requeue,
       Decrement, DecrementFails, StatementFails, Crash
  <2>2. QED BY <2>1 DEF SInv
<1> USE DEF tables, history, queue
<1>1. ASSUME NEW s \in Slot, Step(s) \/ StatementFails(s), ~CheckProducts(s)
      PROVE  Covered(p)'
  <2>1. CASE Enqueue(s)
    <3>1. UNCHANGED <<stock, cart, left>> /\ req[s].pc = "enqueue"
      BY <2>1 DEF Enqueue
    <3>2. /\ job'[req[s].id] = "waiting" /\ req[s].id \in Sale
          /\ \A c \in Sale : c # req[s].id => job'[c] = job[c]
      BY <1>a, <2>1 DEF Enqueue, TypeOK, Owned
    <3>3. \A c \in Sale : Lines(c)' = Lines(c)
      BY <3>1, LinesKept
    <3>4. ASSUME NEW c \in Sale, Claims(c, p)' PROVE Claims(c, p)
      <4>1. p \in Lines(c)
        BY <3>3, <3>4 DEF Claims
      <4>2. CASE c = req[s].id
        BY <3>1, <4>1, <4>2 DEF Claims, Busy, Checked
      <4>3. CASE c # req[s].id /\ (job'[c] \in {"waiting", "stalled"} \/ p \in left'[c])
        BY <3>1, <3>2, <4>1, <4>3 DEF Claims
      <4>4. CASE \E t \in Slot : req'[t].id = c /\ Checked(t)'
        BY <1>a, <1>1, <4>1, <4>4, CheckedStep DEF Claims, Busy
      <4>5. QED BY <3>4, <4>2, <4>3, <4>4 DEF Claims, Busy
    <3>5. QED BY <1>a, <1>b, <3>1, <3>2, <3>3, <3>4, CoveredKept
  <2>2. CASE SavePayment(s) /\ ~Exists(req[s].id)
    BY <1>a, <1>b, <2>2, DieCovered DEF SavePayment
  <2>3. CASE \/ SaveSale(s) \/ SaveSaleItems(s) \/ SaveTotal(s)
             \/ Commit(s) \/ StatementFails(s)
             \/ SavePayment(s) /\ Exists(req[s].id)
    <3>1. UNCHANGED <<stock, cart, job, left>>
      BY <2>3 DEF SaveSale, SaveSaleItems, SaveTotal, Commit, StatementFails,
                  SavePayment
    <3>2. CASE Enqueue(s)
      BY <2>1, <3>2
    <3>3. CASE ~Enqueue(s)
      <4>1. \A c \in Sale : Claims(c, p)' => Claims(c, p)
        BY <1>a, <1>1, <3>1, <3>3, SlotClaims
      <4>2. QED BY <1>a, <1>b, <3>1, <4>1, CoveredKept, LinesKept
    <3>4. QED BY <3>2, <3>3
  <2>4. QED BY <1>1, <2>1, <2>2, <2>3 DEF Step
<1>2. ASSUME NEW s \in Slot, CheckProducts(s) PROVE Covered(p)'
  <2>1. UNCHANGED <<stock, cart, job, left>>
    BY <1>2 DEF CheckProducts
  <2>2. req[s].id \in Sale /\ \A c \in Sale : Lines(c)' = Lines(c)
    BY <1>a, <1>2, <2>1, LinesKept DEF CheckProducts, Owned
  <2>3. ~Enqueue(s)
    BY <1>2 DEF CheckProducts, Enqueue
  <2>4. ASSUME NEW c \in Sale, Claims(c, p)'
        PROVE  Claims(c, p) \/ (c = req[s].id /\ Enough(c))
    BY <1>a, <1>2, <2>1, <2>3, <2>4, SlotClaims DEF Step
  <2>5. CASE Enough(req[s].id) /\ p \in Lines(req[s].id)
    <3>1. \A d \in Sale \ {req[s].id} : ~Claims(d, p)
      BY <1>2, <2>5 DEF CheckProducts
    <3>2. \A c \in Sale : Claims(c, p)' => c = req[s].id
      BY <2>4, <3>1
    <3>3. cart[req[s].id][p] <= stock[p]
      BY <1>a, <2>2, <2>5, LinesType DEF Enough, TypeOK, Listed
    <3>4. QED BY <1>b, <2>1, <2>2, <3>2, <3>3 DEF Covered, Listed
  <2>6. CASE ~(Enough(req[s].id) /\ p \in Lines(req[s].id))
    <3>1. \A c \in Sale : Claims(c, p)' => Claims(c, p)
      BY <2>2, <2>4, <2>6 DEF Claims
    <3>2. QED BY <1>a, <1>b, <2>1, <2>2, <3>1, CoveredKept
  <2>7. QED BY <2>5, <2>6
<1>3. CASE Crash
  BY <1>a, <1>b, <1>3, DieCovered DEF Crash
<1>4. ASSUME NEW s \in Slot, BeginSale(s) PROVE Covered(p)'
  <2>1. PICK d \in Sale \ used, body \in Cart, pay \in BOOLEAN :
          /\ req' = [req EXCEPT ![s] = [pc |-> "sale", id |-> d, pay |-> pay,
                                        paying |-> FALSE]]
          /\ cart' = [cart EXCEPT ![d] = body]
    BY <1>4 DEF BeginSale
  <2>2. UNCHANGED <<stock, job, left>>
    BY <1>4 DEF BeginSale
  <2>3. job[d] = "none" /\ left[d] = {} /\ \A t \in Slot : req[t].id # d
    BY <1>a, <2>1, SalesAssumption DEF Owned, JobInOrder, Idle
  <2>4. \A c \in Sale : c # d => Lines(c)' = Lines(c) /\ cart'[c] = cart[c]
    BY <1>a, <2>1, LinesKept DEF TypeOK
  <2>5. \A t \in Slot : Checked(t)' => Checked(t) /\ req'[t].id = req[t].id
    BY <1>a, <2>1 DEF Checked, TypeOK
  <2>6. ASSUME NEW c \in Sale, Claims(c, p)' PROVE Claims(c, p) /\ c # d
    BY <2>2, <2>3, <2>4, <2>5, <2>6 DEF Claims, Busy
  <2>7. QED BY <1>a, <1>b, <2>2, <2>3, <2>4, <2>6, CoveredKept
<1>5. ASSUME NEW q \in Product, NEW n \in StockLevels, AddProduct(q, n)
      PROVE  Covered(p)'
  <2>1. UNCHANGED <<cart, req, job, left>>
    BY <1>5 DEF AddProduct
  <2>2. \A c \in Sale : Lines(c)' = Lines(c) /\ (Claims(c, p)' <=> Claims(c, p))
    BY <2>1, LinesKept DEF Claims, Busy, Checked
  <2>3. CASE p # q
    <3>1. stock'[p] = stock[p]
      BY <1>a, <1>5, <2>3 DEF AddProduct, TypeOK
    <3>2. QED BY <1>a, <1>b, <2>1, <2>2, <3>1, CoveredKept
  <2>4. CASE p = q
    <3>1. p \notin used /\ stock'[p] >= 0
      BY <1>a, <1>5, <2>4, SalesAssumption DEF AddProduct, TypeOK
    <3>2. ASSUME NEW c \in Sale, Claims(c, p) PROVE FALSE
      <4>1. p \in Lines(c)
        BY <3>2 DEF Claims
      <4>2. left[c] # {} => job[c] # "none"
        BY <1>a DEF JobInOrder
      <4>3. QED BY <1>a, <3>1, <3>2, <4>1, <4>2 DEF Claims, Known, Busy
    <3>3. \A c \in Sale : p \in Lines(c) => job[c] # "stalled"
      BY <1>a, <3>1 DEF Known
    <3>4. QED BY <2>1, <2>2, <3>1, <3>2, <3>3 DEF Covered
  <2>5. QED BY <2>3, <2>4
<1>6. ASSUME NEW q \in Product, NEW n \in StockLevels, UpdateProduct(q, n)
      PROVE  Covered(p)'
  <2>1. UNCHANGED <<cart, req, job, left>>
    BY <1>6 DEF UpdateProduct
  <2>2. \A c \in Sale : Lines(c)' = Lines(c) /\ (Claims(c, p)' <=> Claims(c, p))
    BY <2>1, LinesKept DEF Claims, Busy, Checked
  <2>3. CASE p # q
    <3>1. stock'[p] = stock[p]
      BY <1>a, <1>6, <2>3 DEF UpdateProduct, TypeOK
    <3>2. QED BY <1>a, <1>b, <2>1, <2>2, <3>1, CoveredKept
  <2>4. CASE p = q
    <3>1. n \in Int
      BY SalesAssumption
    <3>2. stock'[p] >= 0 /\ ~ \E c \in Sale : Claims(c, p)
      BY <1>a, <1>6, <2>4, <3>1 DEF UpdateProduct, TypeOK
    <3>3. QED BY <1>b, <2>1, <2>2, <3>2 DEF Covered
  <2>5. QED BY <2>3, <2>4
<1>7. ASSUME NEW q \in Product, RemoveProduct(q) PROVE Covered(p)'
  <2>1. UNCHANGED <<cart, req, job, left>>
    BY <1>7 DEF RemoveProduct
  <2>2. \A c \in Sale : Lines(c)' = Lines(c) /\ (Claims(c, p)' <=> Claims(c, p))
    BY <2>1, LinesKept DEF Claims, Busy, Checked
  <2>3. stock'[p] \in {stock[p], None}
    BY <1>a, <1>7 DEF RemoveProduct, TypeOK
  <2>4. QED BY <1>a, <1>b, <2>1, <2>2, <2>3, CoveredKept
<1>8. CASE UNCHANGED vars \/ \E c \in Sale : RemoveSale(c)
  <2>1. UNCHANGED <<cart, req, job, left, stock>>
    BY <1>8 DEF vars, RemoveSale
  <2>2. \A c \in Sale : Lines(c)' = Lines(c) /\ (Claims(c, p)' <=> Claims(c, p))
    BY <2>1, LinesKept DEF Claims, Busy, Checked
  <2>3. QED BY <1>a, <1>b, <2>1, <2>2, CoveredKept
<1>9. ASSUME NEW d \in Sale, StartJob(d) PROVE Covered(p)'
  <2>1. UNCHANGED <<stock, cart, req>> /\ \A c \in Sale : Lines(c)' = Lines(c)
    BY <1>9, LinesKept DEF StartJob
  <2>2. /\ job[d] = "waiting" /\ job'[d] = "active"
        /\ \A c \in Sale : c # d => job'[c] = job[c] /\ left'[c] = left[c]
    BY <1>a, <1>9 DEF StartJob, TypeOK
  <2>3. \A c \in Sale : Claims(c, p)' => Claims(c, p)
    BY <2>1, <2>2 DEF Claims, Busy, Checked
  <2>4. QED BY <1>a, <1>b, <2>1, <2>2, <2>3, CoveredKept
<1>10. ASSUME NEW d \in Sale, CompleteJob(d) PROVE Covered(p)'
  <2>1. UNCHANGED <<stock, cart, req, left>> /\ \A c \in Sale : Lines(c)' = Lines(c)
    BY <1>10, LinesKept DEF CompleteJob
  <2>2. job'[d] = "completed" /\ \A c \in Sale : c # d => job'[c] = job[c]
    BY <1>a, <1>10 DEF CompleteJob, TypeOK
  <2>3. \A c \in Sale : Claims(c, p)' => Claims(c, p)
    BY <2>1, <2>2 DEF Claims, Busy, Checked
  <2>4. QED BY <1>a, <1>b, <2>1, <2>2, <2>3, CoveredKept
<1>11. ASSUME NEW d \in Sale, Requeue(d) PROVE Covered(p)'
  <2>1. UNCHANGED <<stock, cart, req, left>> /\ \A c \in Sale : Lines(c)' = Lines(c)
    BY <1>11, LinesKept DEF Requeue
  <2>2. /\ job[d] = "stalled" /\ job'[d] \in {"waiting", "failed"}
        /\ \A c \in Sale : c # d => job'[c] = job[c]
    BY <1>a, <1>11 DEF Requeue, TypeOK
  <2>3. p \notin Lines(d)
    BY <1>b, <2>2 DEF Covered
  <2>4. \A c \in Sale : Claims(c, p)' => Claims(c, p)
    BY <2>1, <2>2, <2>3 DEF Claims, Busy, Checked
  <2>5. QED BY <1>a, <1>b, <2>1, <2>2, <2>4, CoveredKept
<1>12. ASSUME NEW d \in Sale, NEW q \in Product, DecrementFails(d, q)
       PROVE  Covered(p)'
  <2>1. UNCHANGED <<stock, cart, req, job>> /\ \A c \in Sale : Lines(c)' = Lines(c)
    BY <1>12, LinesKept DEF DecrementFails
  <2>2. \A c \in Sale : left'[c] \subseteq left[c]
    BY <1>a, <1>12 DEF DecrementFails, TypeOK
  <2>3. \A c \in Sale : Claims(c, p)' => Claims(c, p)
    BY <2>1, <2>2 DEF Claims, Busy, Checked
  <2>4. QED BY <1>a, <1>b, <2>1, <2>3, CoveredKept
<1>13. ASSUME NEW d \in Sale, NEW q \in Product, Decrement(d, q)
       PROVE  Covered(p)'
  <2>1. UNCHANGED <<cart, req, job>> /\ \A c \in Sale : Lines(c)' = Lines(c)
    BY <1>13, LinesKept DEF Decrement
  <2>2. q \in left[d] /\ \A c \in Sale : left'[c] = IF c = d THEN left[c] \ {q} ELSE left[c]
    BY <1>a, <1>13 DEF Decrement, TypeOK
  <2>3. \A c \in Sale : Claims(c, p)' => Claims(c, p)
    BY <2>1, <2>2 DEF Claims, Busy, Checked
  <2>4. CASE p # q
    <3>1. stock'[p] = stock[p]
      BY <1>a, <1>13, <2>4 DEF Decrement, TypeOK
    <3>2. QED BY <1>a, <1>b, <2>1, <2>3, <3>1, CoveredKept
  <2>5. CASE p = q
    <3>1. Claims(d, p)
      BY <1>a, <2>2, <2>5 DEF Claims, JobInOrder
    <3>2. ~Claims(d, p)'
      <4>1. job[d] \notin {"none", "waiting", "stalled"} /\ p \notin left'[d]
        BY <1>a, <2>2, <2>5 DEF JobInOrder
      <4>2. \A t \in Slot : req[t].id = d => ~Checked(t)
        BY <1>a, <4>1 DEF Owned, Checked
      <4>3. QED BY <2>1, <4>1, <4>2 DEF Claims, Busy, Checked
    <3>3. \A c \in Sale : ~Claims(c, p)'
      BY <1>b, <2>3, <3>1, <3>2 DEF Covered
    <3>4. Listed(p)' => stock'[p] >= 0
      <4>1. CASE Listed(p)
        <5>1. stock'[p] = stock[p] - cart[d][p] /\ stock[p] \in Int
          BY <1>a, <1>13, <2>5, <4>1 DEF Decrement, TypeOK, Listed
        <5>2. cart[d][p] \in Nat /\ cart[d][p] <= stock[p]
          BY <1>a, <1>b, <3>1, <4>1, LinesType DEF Covered, Claims
        <5>3. QED BY <5>1, <5>2
      <4>2. CASE ~Listed(p)
        BY <1>a, <1>13, <2>5, <4>2 DEF Decrement, TypeOK, Listed
      <4>3. QED BY <4>1, <4>2
    <3>5. QED BY <1>b, <2>1, <3>3, <3>4 DEF Covered
  <2>6. QED BY <2>4, <2>5
<1>14. QED
  BY <1>1, <1>2, <1>3, <1>4, <1>5, <1>6, <1>7, <1>8, <1>9, <1>10, <1>11, <1>12,
     <1>13 DEF Next, Work

-----------------------------------------------------------------------------
(* The sale rows and their payments *)

\* A step that writes neither sales nor payments.
LEMMA RowsKept ==
    ASSUME SInv, TypeOK', UNCHANGED <<sale, items, payment>>, removed \subseteq removed',
           \A c \in Sale : payment[c] # None => cart'[c] = cart[c]
    PROVE  PaidInFull'
  BY DEF SInv, PaidInFull

LEMMA PaidStep == SInv /\ [Next]_vars => PaidInFull' /\ \A s \in Slot : SaleInOrder(s)'
<1> SUFFICES ASSUME SInv, [Next]_vars
             PROVE  PaidInFull' /\ \A t \in Slot : SaleInOrder(t)'
  OBVIOUS
<1>0. /\ TypeOK /\ Owned /\ Known /\ PaidInFull /\ TypeOK'
      /\ \A t \in Slot : SaleInOrder(t)
  BY TypeStep DEF SInv
<1> USE DEF tables, history, queue
<1>1. ASSUME NEW s \in Slot, NEW r, Moves(s, r), cart' = cart,
             UNCHANGED <<sale, items, payment, removed>>,
             r.pc \in {"commit", "enqueue", "answered"}
                => req[s].pc \in {"commit", "enqueue", "answered"},
             r.pc = "total" => req[s].id \in items \cup removed,
             r.pc \in {"sale", "products", "items", "total", "commit"}
                => req[s].pc \in {"sale", "products", "items", "total", "commit"}
      PROVE  PaidInFull' /\ \A t \in Slot : SaleInOrder(t)'
  <2>1. PaidInFull'
    BY <1>0, <1>1, RowsKept
  <2>2. ASSUME NEW t \in Slot, t # s PROVE SaleInOrder(t)'
    BY <1>0, <1>1, <2>2 DEF Moves, TypeOK, SaleInOrder
  <2>3. SaleInOrder(s)'
    <3>1. CASE r = Idle
      BY <1>0, <1>1, <3>1 DEF Moves, TypeOK, SaleInOrder, Idle
    <3>2. CASE r # Idle
      BY <1>0, <1>1, <3>2 DEF Moves, TypeOK, SaleInOrder
    <3>3. QED BY <3>1, <3>2
  <2>4. QED BY <2>1, <2>2, <2>3
<1>2. ASSUME NEW s \in Slot, req[s].pc # "idle"
      PROVE  /\ req[s] \in Request /\ req[s].id \in Sale
             /\ Cost[cart[req[s].id]] \in Nat
             /\ \A t \in Slot \ {s} : req[t].id # req[s].id
  BY <1>0, <1>2, CartType, SalesAssumption DEF TypeOK, Owned
<1>3. ASSUME NEW s \in Slot, Leave(s), req[s].pc # "idle", cart' = cart,
             UNCHANGED <<sale, items, payment, removed>>
      PROVE  PaidInFull' /\ \A t \in Slot : SaleInOrder(t)'
  <2>1. Moves(s, Left(s))
    BY <1>0, <1>3, LeaveMoves
  <2>2. /\ Left(s).pc \in {"answered", "idle"}
        /\ Left(s).pc = "answered" => req[s].pc \in {"enqueue", "answered"}
    BY <1>0, <1>2, <1>3 DEF Left, Idle, Owned, Request
  <2>3. QED BY <1>1, <1>3, <2>1, <2>2
<1>4. ASSUME NEW s \in Slot, CheckProducts(s)
      PROVE  PaidInFull' /\ \A t \in Slot : SaleInOrder(t)'
  <2>1. UNCHANGED <<sale, items, payment, removed, cart>> /\ req[s].pc = "products"
    BY <1>4 DEF CheckProducts
  <2>2. CASE Leave(s)
    BY <1>3, <2>1, <2>2
  <2>3. CASE Goto(s, "items")
    <3>1. Moves(s, [req[s] EXCEPT !.pc = "items"])
      BY <1>0, <2>1, <2>3, GotoMoves DEF Early
    <3>2. [req[s] EXCEPT !.pc = "items"].pc = "items"
      BY <1>2, <2>1 DEF Request
    <3>3. QED BY <1>1, <2>1, <3>1, <3>2
  <2>4. QED BY <1>4, <2>2, <2>3 DEF CheckProducts
<1>5. ASSUME NEW s \in Slot, Commit(s)
      PROVE  PaidInFull' /\ \A t \in Slot : SaleInOrder(t)'
  <2> DEFINE r == [req[s] EXCEPT !.pc = "enqueue", !.paying = req[s].pay]
  <2>1. UNCHANGED <<sale, items, payment, removed, cart>> /\ req[s].pc = "commit"
    BY <1>5 DEF Commit
  <2>2. Moves(s, r) /\ r.pc = "enqueue"
    BY <1>0, <1>5, <2>1 DEF Commit, Moves, TypeOK, Request, Early
  <2>3. QED BY <1>1, <2>1, <2>2
<1>6. ASSUME NEW s \in Slot, Enqueue(s) \/ StatementFails(s)
      PROVE  PaidInFull' /\ \A t \in Slot : SaleInOrder(t)'
  BY <1>3, <1>6 DEF Enqueue, StatementFails
<1>7. ASSUME NEW s \in Slot, SaveSale(s)
      PROVE  PaidInFull' /\ \A t \in Slot : SaleInOrder(t)'
  <2>1. /\ req[s].pc = "sale" /\ UNCHANGED <<items, payment, removed, cart>>
        /\ sale' = [sale EXCEPT ![req[s].id] = 0]
        /\ req' = [req EXCEPT ![s].pc = "products"]
    BY <1>7 DEF SaveSale, Goto
  <2>2. payment[req[s].id] = None
    BY <1>0, <2>1 DEF SaleInOrder
  <2>3. PaidInFull'
    BY <1>0, <2>1, <2>2 DEF PaidInFull, TypeOK
  <2>4. ASSUME NEW t \in Slot PROVE SaleInOrder(t)'
    <3>1. CASE t = s
      BY <1>0, <1>2, <2>1, <2>2, <3>1 DEF SaleInOrder, TypeOK, Request
    <3>2. CASE t # s
      <4>1. req'[t] = req[t] /\ req[t].id # req[s].id
        BY <1>0, <1>2, <2>1, <3>2 DEF TypeOK
      <4>2. req[t].id \in Sale => sale'[req[t].id] = sale[req[t].id]
        BY <1>0, <2>1, <4>1 DEF TypeOK
      <4>3. req[t].pc # "idle" => req[t].id \in Sale
        BY <1>2
      <4>4. QED BY <1>0, <2>1, <4>1, <4>2, <4>3 DEF SaleInOrder
    <3>3. QED BY <3>1, <3>2
  <2>5. QED BY <2>3, <2>4
<1>8. ASSUME NEW s \in Slot, SaveTotal(s)
      PROVE  PaidInFull' /\ \A t \in Slot : SaleInOrder(t)'
  <2>1. /\ req[s].pc = "total" /\ UNCHANGED <<items, payment, removed, cart>>
        /\ sale' = [sale EXCEPT ![req[s].id] = Cost[cart[req[s].id]]]
        /\ req' = [req EXCEPT ![s].pc = "commit"]
    BY <1>8 DEF SaveTotal, Goto
  <2>2. payment[req[s].id] = None /\ req[s].id \in items \cup removed
    BY <1>0, <2>1 DEF SaleInOrder
  <2>3. PaidInFull'
    BY <1>0, <2>1, <2>2 DEF PaidInFull, TypeOK
  <2>4. ASSUME NEW t \in Slot PROVE SaleInOrder(t)'
    <3>1. CASE t = s
      BY <1>0, <1>2, <2>1, <2>2, <3>1 DEF SaleInOrder, TypeOK, Request
    <3>2. CASE t # s
      <4>1. req'[t] = req[t] /\ req[t].id # req[s].id
        BY <1>0, <1>2, <2>1, <3>2 DEF TypeOK
      <4>2. req[t].id \in Sale => sale'[req[t].id] = sale[req[t].id]
        BY <1>0, <2>1, <4>1 DEF TypeOK
      <4>3. req[t].pc # "idle" => req[t].id \in Sale
        BY <1>2
      <4>4. QED BY <1>0, <2>1, <4>1, <4>2, <4>3 DEF SaleInOrder
    <3>3. QED BY <3>1, <3>2
  <2>5. QED BY <2>3, <2>4
<1>9. ASSUME NEW s \in Slot, SaveSaleItems(s)
      PROVE  PaidInFull' /\ \A t \in Slot : SaleInOrder(t)'
  <2>1. UNCHANGED <<sale, payment, removed, cart>> /\ req[s].pc = "items"
    BY <1>9 DEF SaveSaleItems
  <2>2. CASE Leave(s) /\ UNCHANGED items
    BY <1>3, <2>1, <2>2
  <2>3. CASE items' = items \cup {req[s].id} /\ Goto(s, "total")
    <3>1. req' = [req EXCEPT ![s].pc = "total"]
      BY <2>3 DEF Goto
    <3>2. PaidInFull'
      BY <1>0, <2>1, <2>3 DEF PaidInFull
    <3>3. ASSUME NEW t \in Slot PROVE SaleInOrder(t)'
      BY <1>0, <1>2, <2>1, <2>3, <3>1 DEF SaleInOrder, TypeOK, Request
    <3>4. QED BY <3>2, <3>3
  <2>4. QED BY <1>9, <2>2, <2>3 DEF SaveSaleItems
<1>10. ASSUME Die, UNCHANGED <<sale, items, payment, removed, cart>>
       PROVE  PaidInFull' /\ \A t \in Slot : SaleInOrder(t)'
  <2>1. \A t \in Slot : req'[t].pc = "idle"
    BY <1>10 DEF Die, Idle
  <2>2. QED BY <1>0, <1>10, <2>1, RowsKept DEF SaleInOrder
<1>11. ASSUME NEW s \in Slot, SavePayment(s)
       PROVE  PaidInFull' /\ \A t \in Slot : SaleInOrder(t)'
  <2>1. CASE ~Exists(req[s].id)
    BY <1>10, <1>11, <2>1 DEF SavePayment
  <2>2. CASE Exists(req[s].id)
    <3> DEFINE r == IF req[s].pc = "answered" THEN Idle
                    ELSE [req[s] EXCEPT !.paying = FALSE]
    <3>1. /\ UNCHANGED <<sale, items, removed, cart>>
          /\ payment' = [payment EXCEPT ![req[s].id] = Cost[cart[req[s].id]]]
          /\ req' = [req EXCEPT ![s] = r]
          /\ req[s].pc \in {"enqueue", "answered"}
      BY <1>0, <1>11, <2>2 DEF SavePayment, Owned
    <3>2. /\ sale[req[s].id] = Cost[cart[req[s].id]]
          /\ req[s].id \in items \cup removed
      BY <1>0, <2>2, <3>1 DEF SaleInOrder, Exists
    <3>3. PaidInFull'
      BY <1>0, <3>1, <3>2 DEF PaidInFull, TypeOK
    <3>4. r.pc \in {"idle", "enqueue"} /\ (r.pc = "enqueue" => r.id = req[s].id)
      BY <1>2, <3>1 DEF Idle, Request
    <3>5. req'[s] = r /\ \A t \in Slot \ {s} : req'[t] = req[t]
      BY <1>0, <3>1 DEF TypeOK
    <3>6. SaleInOrder(s)'
      BY <3>1, <3>2, <3>4, <3>5 DEF SaleInOrder
    <3>7. ASSUME NEW t \in Slot \ {s} PROVE SaleInOrder(t)'
      <4>1. req[t].id # req[s].id /\ req'[t] = req[t]
        BY <1>2, <3>1, <3>5
      <4>2. req[t].id \in Sale => payment'[req[t].id] = payment[req[t].id]
        BY <1>0, <3>1, <4>1 DEF TypeOK
      <4>3. req[t].pc # "idle" => req[t].id \in Sale
        BY <1>2
      <4>4. QED BY <1>0, <3>1, <4>1, <4>2, <4>3 DEF SaleInOrder
    <3>8. QED BY <3>3, <3>6, <3>7
  <2>3. QED BY <2>1, <2>2
<1>12. ASSUME NEW s \in Slot, BeginSale(s)
       PROVE  PaidInFull' /\ \A t \in Slot : SaleInOrder(t)'
  <2>1. PICK d \in Sale \ used, body \in Cart, pay \in BOOLEAN :
          /\ req' = [req EXCEPT ![s] = [pc |-> "sale", id |-> d, pay |-> pay,
                                        paying |-> FALSE]]
          /\ cart' = [cart EXCEPT ![d] = body]
    BY <1>12 DEF BeginSale
  <2>2. UNCHANGED <<sale, items, payment, removed>>
    BY <1>12 DEF BeginSale
  <2>3. payment[d] = None /\ \A c \in Sale : c # d => cart'[c] = cart[c]
    BY <1>0, <2>1 DEF Known, TypeOK
  <2>4. PaidInFull'
    BY <1>0, <2>2, <2>3, RowsKept
  <2>5. ASSUME NEW t \in Slot PROVE SaleInOrder(t)'
    <3>1. CASE t = s
      BY <1>0, <2>1, <2>2, <2>3, <3>1 DEF SaleInOrder, TypeOK
    <3>2. CASE t # s
      <4>1. req'[t] = req[t]
        BY <1>0, <2>1, <3>2 DEF TypeOK
      <4>2. req[t].pc # "idle" => req[t].id \in Sale /\ req[t].id # d
        BY <1>0, <2>1 DEF Owned
      <4>3. QED BY <1>0, <2>2, <2>3, <4>1, <4>2 DEF SaleInOrder
    <3>3. QED BY <3>1, <3>2
  <2>6. QED BY <2>4, <2>5
<1>13. ASSUME NEW c \in Sale, RemoveSale(c)
       PROVE  PaidInFull' /\ \A t \in Slot : SaleInOrder(t)'
  <2>1. /\ sale' = [sale EXCEPT ![c] = None] /\ items' = items \ {c}
        /\ payment' = [payment EXCEPT ![c] = None]
        /\ removed' = removed \cup {c} /\ req' = req /\ cart' = cart
    BY <1>13 DEF RemoveSale
  <2>2. PaidInFull'
    BY <1>0, <2>1 DEF PaidInFull, TypeOK
  <2>3. ASSUME NEW t \in Slot PROVE SaleInOrder(t)'
    <3>1. req[t].pc # "idle" => req[t].id \in Sale
      BY <1>2
    <3>2. QED BY <1>0, <2>1, <3>1 DEF SaleInOrder, TypeOK
  <2>4. QED BY <2>2, <2>3
<1>14. ASSUME UNCHANGED <<req, sale, items, payment, removed, cart>>
       PROVE  PaidInFull' /\ \A t \in Slot : SaleInOrder(t)'
  BY <1>0, <1>14, RowsKept DEF SaleInOrder
<1>15. ASSUME NEW c \in Sale,
              Work(c) \/ \E p \in Product : DecrementFails(c, p)
       PROVE  PaidInFull' /\ \A t \in Slot : SaleInOrder(t)'
  <2>1. UNCHANGED <<req, sale, items, payment, removed, cart>>
    BY <1>15 DEF Work, StartJob, CompleteJob, Requeue, Decrement, DecrementFails
  <2>2. QED BY <1>14, <2>1
<1>16. ASSUME NEW p \in Product,
              \/ RemoveProduct(p)
              \/ \E n \in StockLevels : AddProduct(p, n) \/ UpdateProduct(p, n)
       PROVE  PaidInFull' /\ \A t \in Slot : SaleInOrder(t)'
  <2>1. UNCHANGED <<req, sale, items, payment, removed, cart>>
    BY <1>16 DEF AddProduct, RemoveProduct, UpdateProduct
  <2>2. QED BY <1>14, <2>1
<1>17. QED
  BY <1>4, <1>5, <1>6, <1>7, <1>8, <1>9, <1>10, <1>11, <1>12, <1>13, <1>14,
     <1>15, <1>16 DEF Next, Step, Crash, vars

-----------------------------------------------------------------------------
(* What is taken from the stock is what was sold *)

Due == {"total", "commit", "enqueue"}

LEMMA UpsetGrows == [Next]_vars => upset \subseteq upset'
  BY DEF Next, Step, Work, vars, history, Die, AddProduct, UpdateProduct,
     RemoveProduct, BeginSale, SaveSale, CheckProducts, SaveSaleItems, SaveTotal,
     Commit, Enqueue, SavePayment, RemoveSale, StartJob, CompleteJob, Requeue,
     Decrement, DecrementFails, StatementFails, Crash

\* A step that leaves the items alone and lets the request of c go on.
LEMMA AheadKept ==
    ASSUME NEW c \in Sale, SaleAhead(c), upset \subseteq upset',
           cart'[c] = cart[c], UNCHANGED <<items, removed>>, used \subseteq used',
           (job'[c] = "none") <=> (job[c] = "none"),
           \A s \in Busy(c) : req[s].pc \in Due
                => \/ Lines(c) \subseteq upset'
                   \/ req'[s].id = c /\ req'[s].pc \in Due
    PROVE  SaleAhead(c)'
<1>1. Lines(c)' = Lines(c)
  BY LinesKept
<1>2. QED BY <1>1 DEF SaleAhead, Busy, Due

LEMMA DieAhead ==
    ASSUME TypeOK, NEW c \in Sale, SaleAhead(c), Die,
           UNCHANGED <<items, removed, used, cart>>
    PROVE  SaleAhead(c)'
<1>1. (job'[c] = "none") <=> (job[c] = "none")
  BY DEF Die
<1>2. upset \subseteq upset' /\ (Busy(c) # {} => Lines(c) \subseteq upset')
  BY DEF Die
<1>3. QED BY <1>1, <1>2, AheadKept

LEMMA AheadStep == SInv /\ [Next]_vars => \A c \in Sale : SaleAhead(c)'
<1> SUFFICES ASSUME SInv, [Next]_vars, NEW c \in Sale PROVE SaleAhead(c)'
  OBVIOUS
<1>0. /\ TypeOK /\ Owned /\ SaleAhead(c) /\ upset \subseteq upset'
      /\ \A s \in Slot : SaleInOrder(s)
  BY UpsetGrows DEF SInv
<1> USE DEF tables, history, queue
<1>1. ASSUME NEW s \in Slot, UNCHANGED <<items, removed, used, cart, job>>,
             \A t \in Slot \ {s} : req'[t] = req[t],
             req[s].pc \in Due => \/ Lines(req[s].id) \subseteq upset'
                                  \/ req'[s].id = req[s].id /\ req'[s].pc \in Due
      PROVE  SaleAhead(c)'
  BY <1>0, <1>1, AheadKept DEF Busy
<1>2. ASSUME NEW s \in Slot, SaveSale(s) \/ CheckProducts(s) PROVE SaleAhead(c)'
  BY <1>0, <1>1, <1>2 DEF SaveSale, CheckProducts, Goto, Leave, TypeOK, Due
<1>3. ASSUME NEW s \in Slot, SaveTotal(s) \/ Commit(s) PROVE SaleAhead(c)'
  BY <1>0, <1>1, <1>3 DEF SaveTotal, Commit, Goto, TypeOK, Request, Due
<1>4. ASSUME NEW s \in Slot, StatementFails(s) PROVE SaleAhead(c)'
  BY <1>0, <1>1, <1>4 DEF StatementFails, Leave, TypeOK
<1>5. ASSUME NEW s \in Slot, SaveSaleItems(s) PROVE SaleAhead(c)'
  <2>1. CASE Leave(s) /\ UNCHANGED items
    BY <1>0, <1>1, <1>5, <2>1 DEF SaveSaleItems, Leave, TypeOK, Due
  <2>2. CASE items' = items \cup {req[s].id} /\ Goto(s, "total")
    <3>1. /\ req'[s].id = req[s].id /\ req'[s].pc = "total" /\ req[s].pc = "items"
          /\ \A t \in Slot \ {s} : req'[t] = req[t]
          /\ UNCHANGED <<removed, used, cart, job>>
      BY <1>0, <1>5, <2>2 DEF SaveSaleItems, Goto, TypeOK, Request
    <3>2. req[s].id \in used
      BY <1>0, <3>1 DEF Owned
    <3>3. CASE c = req[s].id
      BY <1>0, <3>1, <3>2, <3>3, <2>2 DEF SaleAhead, Busy
    <3>4. CASE c # req[s].id
      <4>1. Lines(c)' = Lines(c)
        BY <3>1, LinesKept
      <4>2. QED BY <1>0, <3>1, <3>4, <2>2, <4>1 DEF SaleAhead, Busy
    <3>5. QED BY <3>3, <3>4
  <2>3. QED BY <1>5, <2>1, <2>2 DEF SaveSaleItems
<1>6. ASSUME NEW s \in Slot, Enqueue(s) PROVE SaleAhead(c)'
  <2>1. /\ req[s].pc = "enqueue" /\ \A t \in Slot \ {s} : req'[t] = req[t]
        /\ UNCHANGED <<items, removed, used, cart>>
        /\ job' = [job EXCEPT ![req[s].id] = "waiting"]
    BY <1>0, <1>6 DEF Enqueue, Leave, TypeOK
  <2>2. CASE c = req[s].id
    <3>1. job'[c] = "waiting" /\ c \in items \cup removed /\ c \in used
      BY <1>0, <2>1, <2>2 DEF TypeOK, SaleInOrder, Owned
    <3>2. QED BY <1>0, <2>1, <3>1 DEF SaleAhead
  <2>3. CASE c # req[s].id
    <3>1. job'[c] = job[c]
      BY <1>0, <2>1, <2>3 DEF TypeOK
    <3>2. QED BY <1>0, <2>1, <2>3, <3>1, AheadKept DEF Busy
  <2>4. QED BY <2>2, <2>3
<1>7. ASSUME NEW s \in Slot, SavePayment(s) PROVE SaleAhead(c)'
  <2>1. CASE ~Exists(req[s].id)
    BY <1>0, <1>7, <2>1, DieAhead DEF SavePayment
  <2>2. CASE Exists(req[s].id)
    <3>1. /\ UNCHANGED <<items, removed, used, cart, job>>
          /\ req' = [req EXCEPT ![s] = IF @.pc = "answered" THEN Idle
                                       ELSE [@ EXCEPT !.paying = FALSE]]
      BY <1>7, <2>2 DEF SavePayment
    <3>2. QED BY <1>0, <1>1, <3>1 DEF TypeOK, Request, Due
  <2>3. QED BY <2>1, <2>2
<1>8. CASE Crash
  BY <1>0, <1>8, DieAhead DEF Crash
<1>9. ASSUME NEW s \in Slot, BeginSale(s) PROVE SaleAhead(c)'
  <2>1. PICK d \in Sale \ used, body \in Cart, pay \in BOOLEAN :
          /\ req' = [req EXCEPT ![s] = [pc |-> "sale", id |-> d, pay |-> pay,
                                        paying |-> FALSE]]
          /\ cart' = [cart EXCEPT ![d] = body]
          /\ used' = used \cup {d}
    BY <1>9 DEF BeginSale
  <2>2. UNCHANGED <<items, removed, job, upset>> /\ req[s] = Idle
    BY <1>9 DEF BeginSale
  <2>3. CASE c = d
    BY <1>0, <2>1, <2>2, <2>3 DEF SaleAhead, Owned
  <2>4. CASE c # d
    <3>1. cart'[c] = cart[c] /\ \A t \in Slot : req[t].pc \in Due => req'[t] = req[t]
      BY <1>0, <2>1, <2>2, <2>4 DEF TypeOK, Idle, Due
    <3>2. QED BY <1>0, <2>1, <2>2, <3>1, AheadKept DEF Busy
  <2>5. QED BY <2>3, <2>4
<1>10. ASSUME NEW d \in Sale, RemoveSale(d) PROVE SaleAhead(c)'
  <2>1. Lines(c)' = Lines(c)
    BY <1>10, LinesKept DEF RemoveSale
  <2>2. QED BY <1>0, <1>10, <2>1 DEF RemoveSale, SaleAhead, Busy
<1>11. ASSUME UNCHANGED <<items, removed, cart, req>>, used \subseteq used',
              (job'[c] = "none") <=> (job[c] = "none")
       PROVE  SaleAhead(c)'
  BY <1>0, <1>11, AheadKept DEF Busy
<1>12. ASSUME NEW d \in Sale,
              Work(d) \/ \E p \in Product : DecrementFails(d, p)
       PROVE  SaleAhead(c)'
  <2>1. UNCHANGED <<items, removed, cart, req, used>>
    BY <1>12 DEF Work, StartJob, CompleteJob, Requeue, Decrement, DecrementFails
  <2>2. (job'[c] = "none") <=> (job[c] = "none")
    BY <1>0, <1>12 DEF Work, StartJob, CompleteJob, Requeue, Decrement,
       DecrementFails, TypeOK
  <2>3. QED BY <1>11, <2>1, <2>2
<1>13. ASSUME NEW p \in Product,
              \/ RemoveProduct(p)
              \/ \E n \in StockLevels : AddProduct(p, n) \/ UpdateProduct(p, n)
       PROVE  SaleAhead(c)'
  <2>1. UNCHANGED <<items, removed, cart, req, job>> /\ used \subseteq used'
    BY <1>13 DEF AddProduct, RemoveProduct, UpdateProduct
  <2>2. QED BY <1>11, <2>1
<1>14. CASE UNCHANGED vars
  BY <1>11, <1>14 DEF vars
<1>15. QED
  BY <1>2, <1>3, <1>4, <1>5, <1>6, <1>7, <1>8, <1>9, <1>10, <1>12, <1>13, <1>14
     DEF Next, Step

\* A step that touches neither the queue nor the counts, and does not list p.
LEMMA TakenKept ==
    ASSUME NEW c \in Sale, NEW p \in Product, LinesTaken(c, p),
           UNCHANGED <<queue, cut>>, cart'[c] = cart[c], upset \subseteq upset',
           Listed(p)' => Listed(p)
    PROVE  LinesTaken(c, p)'
<1>1. Lines(c)' = Lines(c)
  BY LinesKept
<1>2. QED BY <1>1 DEF LinesTaken, queue

\* Nothing was taken for a sale that has no job.
LEMMA NoJobTaken ==
    ASSUME NEW c \in Sale, NEW p \in Product, JobInOrder(c), job[c] = "none",
           UNCHANGED <<queue, cut>>
    PROVE  LinesTaken(c, p)'
<1>1. cut[c][p] = 0 /\ stalls[c] = 0
  BY DEF JobInOrder
<1>2. QED BY <1>1 DEF LinesTaken, queue

LEMMA DieTaken ==
    ASSUME NEW c \in Sale, NEW p \in Product, LinesTaken(c, p), Die,
           UNCHANGED <<stock, cart, cut>>
    PROVE  LinesTaken(c, p)'
<1>1. Lines(c)' = Lines(c) /\ Listed(p)' = Listed(p)
  BY LinesKept DEF Listed
<1>2. p \in Lines(c) \ upset' => p \notin upset /\ job[c] # "active" /\ left[c] = {}
  BY DEF Die
<1>3. job[c] # "active" => job'[c] = job[c]
  BY DEF Die
<1>4. stalls' = stalls
  BY DEF Die
<1>5. QED BY <1>1, <1>2, <1>3, <1>4 DEF LinesTaken

LEMMA TakenStep ==
    SInv /\ [Next]_vars => \A c \in Sale : \A p \in Product : LinesTaken(c, p)'
<1> SUFFICES ASSUME SInv, [Next]_vars, NEW c \in Sale, NEW p \in Product
             PROVE  LinesTaken(c, p)'
  OBVIOUS
<1>0. /\ TypeOK /\ Owned /\ Known /\ JobInOrder(c) /\ LinesTaken(c, p)
      /\ upset \subseteq upset'
  BY UpsetGrows DEF SInv
<1> USE DEF tables, history
<1>1. ASSUME NEW s \in Slot, Step(s) \/ StatementFails(s) PROVE LinesTaken(c, p)'
  <2>1. CASE Enqueue(s)
    <3>1. job[req[s].id] = "none" /\ req[s].id \in Sale
      BY <1>0, <2>1 DEF Enqueue, Owned
    <3>2. UNCHANGED <<stock, cart, cut, stalls, left, upset>> /\ Lines(c)' = Lines(c)
      BY <2>1, LinesKept DEF Enqueue
    <3>3. CASE c = req[s].id
      <4>1. job'[c] = "waiting" /\ stalls[c] = 0
        BY <1>0, <2>1, <3>1, <3>3 DEF Enqueue, TypeOK, JobInOrder
      <4>2. QED BY <1>0, <3>2, <4>1 DEF LinesTaken
    <3>4. CASE c # req[s].id
      <4>1. job'[c] = job[c]
        BY <1>0, <2>1, <3>4 DEF Enqueue, TypeOK
      <4>2. QED BY <1>0, <3>2, <4>1 DEF LinesTaken, Listed
    <3>5. QED BY <3>3, <3>4
  <2>2. CASE SavePayment(s) /\ ~Exists(req[s].id)
    BY <1>0, <2>2, DieTaken DEF SavePayment
  <2>3. CASE \/ SaveSale(s) \/ CheckProducts(s) \/ SaveSaleItems(s) \/ SaveTotal(s)
             \/ Commit(s) \/ StatementFails(s)
             \/ SavePayment(s) /\ Exists(req[s].id)
    <3>1. UNCHANGED <<queue, stock, cart, cut>>
      BY <2>3 DEF SaveSale, CheckProducts, SaveSaleItems, SaveTotal, Commit,
                  StatementFails, SavePayment
    <3>2. QED BY <1>0, <3>1, TakenKept DEF Listed
  <2>4. QED BY <1>1, <2>1, <2>2, <2>3 DEF Step
<1>2. CASE Crash
  BY <1>0, <1>2, DieTaken DEF Crash
<1>3. ASSUME NEW s \in Slot, BeginSale(s) PROVE LinesTaken(c, p)'
  <2>1. PICK d \in Sale \ used, body \in Cart : cart' = [cart EXCEPT ![d] = body]
    BY <1>3 DEF BeginSale
  <2>2. UNCHANGED <<queue, stock, cut>>
    BY <1>3 DEF BeginSale
  <2>3. CASE c = d
    <3>1. job[c] = "none"
      BY <1>0, <2>1, <2>3 DEF Owned
    <3>2. QED BY <1>0, <2>2, <3>1, NoJobTaken
  <2>4. CASE c # d
    BY <1>0, <2>1, <2>2, <2>4, TakenKept DEF Listed, TypeOK
  <2>5. QED BY <2>3, <2>4
<1>4. ASSUME NEW q \in Product, NEW n, AddProduct(q, n) PROVE LinesTaken(c, p)'
  <2>1. UNCHANGED <<queue, cart, cut>> /\ q \notin used
    BY <1>4 DEF AddProduct
  <2>2. CASE job[c] = "none"
    BY <1>0, <2>1, <2>2, NoJobTaken
  <2>3. CASE job[c] # "none"
    <3>1. q \notin Lines(c) /\ Lines(c)' = Lines(c)
      BY <1>0, <2>1, <2>3, LinesKept DEF Known
    <3>2. p \in Lines(c) => Listed(p)' = Listed(p)
      BY <1>0, <1>4, <3>1 DEF AddProduct, Listed, TypeOK
    <3>3. QED BY <1>0, <2>1, <3>1, <3>2 DEF LinesTaken, queue
  <2>4. QED BY <2>2, <2>3
<1>5. ASSUME NEW q \in Product, NEW n, RemoveProduct(q) \/ UpdateProduct(q, n)
      PROVE  LinesTaken(c, p)'
  <2>1. UNCHANGED <<queue, cart, cut>>
    BY <1>5 DEF RemoveProduct, UpdateProduct
  <2>2. Listed(p)' => Listed(p)
    BY <1>0, <1>5 DEF RemoveProduct, UpdateProduct, Listed, TypeOK
  <2>3. QED BY <1>0, <2>1, <2>2, TakenKept
<1>6. ASSUME NEW d \in Sale, RemoveSale(d) PROVE LinesTaken(c, p)'
  BY <1>0, <1>6, TakenKept DEF RemoveSale, Listed
<1>7. ASSUME NEW d \in Sale, StartJob(d) PROVE LinesTaken(c, p)'
  <2>1. UNCHANGED <<stock, cart, cut, stalls>> /\ Lines(c)' = Lines(c)
    BY <1>7, LinesKept DEF StartJob
  <2>2. CASE c = d
    <3>1. job'[c] = "active" /\ left'[c] = Lines(c)
      BY <1>0, <1>7, <2>2 DEF StartJob, TypeOK
    <3>2. QED BY <1>0, <2>1, <3>1 DEF LinesTaken
  <2>3. CASE c # d
    <3>1. job'[c] = job[c] /\ left'[c] = left[c]
      BY <1>0, <1>7, <2>3 DEF StartJob, TypeOK
    <3>2. QED BY <1>0, <2>1, <3>1 DEF LinesTaken, Listed
  <2>4. QED BY <2>2, <2>3
<1>8. ASSUME NEW d \in Sale, CompleteJob(d) PROVE LinesTaken(c, p)'
  <2>1. UNCHANGED <<stock, cart, cut, stalls, left>> /\ Lines(c)' = Lines(c)
    BY <1>8, LinesKept DEF CompleteJob
  <2>2. CASE c = d
    <3>1. job[c] = "active" /\ job'[c] = "completed"
      BY <1>0, <1>8, <2>2 DEF CompleteJob, TypeOK
    <3>2. QED BY <1>0, <2>1, <3>1 DEF LinesTaken, Listed
  <2>3. CASE c # d
    <3>1. job'[c] = job[c]
      BY <1>0, <1>8, <2>3 DEF CompleteJob, TypeOK
    <3>2. QED BY <1>0, <2>1, <3>1 DEF LinesTaken, Listed
  <2>4. QED BY <2>2, <2>3
<1>9. ASSUME NEW d \in Sale, Requeue(d) PROVE LinesTaken(c, p)'
  <2>1. UNCHANGED <<stock, cart, cut, left>> /\ Lines(c)' = Lines(c)
    BY <1>9, LinesKept DEF Requeue
  <2>2. CASE c = d
    <3>1. p \in Lines(c) => p \in upset
      BY <1>0, <1>9, <2>2 DEF Requeue, LinesTaken
    <3>2. QED BY <1>0, <2>1, <3>1 DEF LinesTaken
  <2>3. CASE c # d
    <3>1. job'[c] = job[c] /\ stalls'[c] = stalls[c]
      BY <1>0, <1>9, <2>3 DEF Requeue, TypeOK
    <3>2. QED BY <1>0, <2>1, <3>1 DEF LinesTaken, Listed
  <2>4. QED BY <2>2, <2>3
<1>10. ASSUME NEW d \in Sale, NEW q \in Product, Decrement(d, q)
       PROVE  LinesTaken(c, p)'
  <2>1. UNCHANGED <<cart, stalls, job, upset>> /\ Lines(c)' = Lines(c)
    BY <1>10, LinesKept DEF Decrement
  <2>2. Listed(p)' => Listed(p)
    BY <1>0, <1>10 DEF Decrement, Listed, TypeOK
  <2>3. CASE c = d /\ p = q
    <3>1. /\ p \in Lines(c)
          /\ cut'[c][p] = IF Listed(p) THEN cut[c][p] + 1 ELSE cut[c][p]
          /\ cut[c][p] \in Nat
      BY <1>0, <1>10, <2>3 DEF Decrement, TypeOK, JobInOrder
    <3>2. QED BY <1>0, <2>1, <2>2, <3>1 DEF LinesTaken
  <2>4. CASE c # d \/ p # q
    <3>1. cut'[c][p] = cut[c][p] /\ (p \in left'[c] <=> p \in left[c])
      BY <1>0, <1>10, <2>4 DEF Decrement, TypeOK
    <3>2. QED BY <1>0, <2>1, <2>2, <3>1 DEF LinesTaken
  <2>5. QED BY <2>3, <2>4
<1>11. ASSUME NEW d \in Sale, NEW q \in Product, DecrementFails(d, q)
       PROVE  LinesTaken(c, p)'
  <2>1. UNCHANGED <<stock, cart, stalls, job, cut>> /\ Lines(c)' = Lines(c)
    BY <1>11, LinesKept DEF DecrementFails
  <2>2. p \in upset' \/ (p \in left'[c] <=> p \in left[c])
    BY <1>0, <1>11 DEF DecrementFails, TypeOK
  <2>3. QED BY <1>0, <2>1, <2>2 DEF LinesTaken, Listed
<1>12. CASE UNCHANGED vars
  BY <1>0, <1>12, TakenKept DEF vars, Listed
<1>13. QED
  BY <1>1, <1>2, <1>3, <1>4, <1>5, <1>6, <1>7, <1>8, <1>9, <1>10, <1>11, <1>12
     DEF Next, Work

\* No piece is taken before there is a job, so a new cart changes none.
LEMMA PiecesKept ==
    ASSUME NEW p \in Product, UNCHANGED cut,
           \A c \in Sale : cut[c][p] > 0 => cart'[c] = cart[c]
    PROVE  Pieces(Cut(p), p)' = Pieces(Cut(p), p)
<1>1. Cut(p)' = Cut(p)
  BY DEF Cut
<1>2. \A c \in Cut(p) : {c} \X (1 .. cart'[c][p]) = {c} \X (1 .. cart[c][p])
  BY DEF Cut
<1>3. QED BY <1>1, <1>2 DEF Pieces

\* One row of pieces more.
LEMMA RowAdded ==
    ASSUME NEW P, IsFiniteSet(P), NEW c, NEW n \in Nat,
           P \cap ({c} \X (1 .. n)) = {}
    PROVE  /\ IsFiniteSet(P \cup ({c} \X (1 .. n)))
           /\ Cardinality(P \cup ({c} \X (1 .. n))) = Cardinality(P) + n
           /\ Cardinality(P) \in Nat
<1>1. IsFiniteSet({c}) /\ Cardinality({c}) = 1
  BY FS_Singleton
<1>2. IsFiniteSet(1 .. n) /\ Cardinality(1 .. n) = n
  BY FS_Interval
<1>3. IsFiniteSet({c} \X (1 .. n)) /\ Cardinality({c} \X (1 .. n)) = n
  <2>1. PICK A, B : A = {c} /\ B = 1 .. n
    OBVIOUS
  <2>2. /\ IsFiniteSet(A \X B)
        /\ Cardinality(A \X B) = Cardinality(A) * Cardinality(B)
    BY <1>1, <1>2, <2>1, FS_Product
  <2>3. Cardinality(A) * Cardinality(B) = n
    BY <1>1, <1>2, <2>1
  <2>4. QED BY <2>1, <2>2, <2>3
<1>4. Cardinality(P) \in Nat /\ Cardinality({}) = 0
  BY FS_CardinalityType, FS_EmptySet
<1> DEFINE K == {c} \X (1 .. n)
<1>5. /\ IsFiniteSet(P \cup K)
      /\ Cardinality(P \cup K) = Cardinality(P) + Cardinality(K) - Cardinality({})
  BY <1>3, FS_Union
<1>6. QED BY <1>3, <1>4, <1>5

\* The pieces of one sale more.
LEMMA PiecesAdded ==
    ASSUME NEW C, NEW c, c \notin C, NEW p, IsFiniteSet(Pieces(C, p)),
           cart[c][p] \in Nat
    PROVE  /\ IsFiniteSet(Pieces(C \cup {c}, p))
           /\ Cardinality(Pieces(C \cup {c}, p))
                 = Cardinality(Pieces(C, p)) + cart[c][p]
           /\ Cardinality(Pieces(C, p)) \in Nat
<1>1. PICK P, n : P = Pieces(C, p) /\ n = cart[c][p]
  OBVIOUS
<1>2. Pieces(C \cup {c}, p) = P \cup ({c} \X (1 .. n))
  BY <1>1 DEF Pieces
<1>3. P \cap ({c} \X (1 .. n)) = {}
  BY <1>1 DEF Pieces
<1>4. IsFiniteSet(P) /\ n \in Nat
  BY <1>1
<1>5. /\ IsFiniteSet(P \cup ({c} \X (1 .. n)))
      /\ Cardinality(P \cup ({c} \X (1 .. n))) = Cardinality(P) + n
      /\ Cardinality(P) \in Nat
  BY <1>3, <1>4, RowAdded
<1>6. QED BY <1>1, <1>2, <1>5

\* A step that takes nothing from the stock of p and lists nothing.
LEMMA BalancedKept ==
    ASSUME NEW p \in Product, Balanced(p), UNCHANGED cut, opening'[p] = opening[p],
           \A c \in Sale : cut[c][p] > 0 => cart'[c] = cart[c],
           stock'[p] = stock[p] \/ stock'[p] = None
    PROVE  Balanced(p)'
<1>1. Pieces(Cut(p), p)' = Pieces(Cut(p), p)
  BY PiecesKept
<1>2. QED BY <1>1 DEF Balanced, Listed

LEMMA BalancedStep ==
    SInv /\ [Next]_vars => \A p \in Product \ upset' : Balanced(p)'
<1> SUFFICES ASSUME SInv, [Next]_vars, NEW p \in Product \ upset'
             PROVE  Balanced(p)'
  OBVIOUS
<1>0. /\ TypeOK /\ Owned /\ Known /\ Balanced(p) /\ p \notin upset
      /\ \A c \in Sale : JobInOrder(c) /\ LinesTaken(c, p)
  BY UpsetGrows DEF SInv
<1>a. ASSUME NEW c \in Sale, cut[c][p] > 0 PROVE c \in used /\ p \in used
  <2>1. p \in Lines(c)
    BY <1>0, <1>a DEF LinesTaken
  <2>2. job[c] # "none"
    BY <1>0, <1>a DEF JobInOrder
  <2>3. QED BY <1>0, <2>1, <2>2 DEF Owned, Known
<1> USE DEF tables, history, queue
<1>1. ASSUME UNCHANGED <<stock, cart, opening, cut>> PROVE Balanced(p)'
  BY <1>0, <1>1, BalancedKept
<1>2. ASSUME NEW s \in Slot, Step(s) \/ StatementFails(s) PROVE Balanced(p)'
  BY <1>1, <1>2 DEF Step, StatementFails, SaveSale, CheckProducts, SaveSaleItems,
     SaveTotal, Commit, Enqueue, SavePayment
<1>3. ASSUME NEW s \in Slot, BeginSale(s) PROVE Balanced(p)'
  <2>1. PICK d \in Sale \ used, body \in Cart : cart' = [cart EXCEPT ![d] = body]
    BY <1>3 DEF BeginSale
  <2>2. \A c \in Sale : cut[c][p] > 0 => cart'[c] = cart[c]
    BY <1>0, <1>a, <2>1 DEF TypeOK
  <2>3. QED BY <1>0, <1>3, <2>2, BalancedKept DEF BeginSale
<1>4. ASSUME NEW q \in Product, NEW n \in StockLevels, AddProduct(q, n)
      PROVE  Balanced(p)'
  <2>1. UNCHANGED <<cart, cut>> /\ q \notin used
    BY <1>4 DEF AddProduct
  <2>2. CASE p # q
    BY <1>0, <1>4, <2>1, <2>2, BalancedKept DEF AddProduct, TypeOK, Balanced, Listed
  <2>3. CASE p = q
    <3>1. Cut(p)' = {}
      BY <1>0, <1>a, <2>1, <2>3 DEF Cut, TypeOK
    <3>2. Pieces(Cut(p), p)' = {}
      BY <3>1 DEF Pieces
    <3>3. stock'[p] = n /\ opening'[p] = n /\ n \in Int /\ n # None
      BY <1>0, <1>4, <2>3, SalesAssumption DEF AddProduct, TypeOK
    <3>4. QED BY <3>2, <3>3, FS_EmptySet DEF Balanced
  <2>4. QED BY <2>2, <2>3
<1>5. ASSUME NEW q \in Product, NEW n \in StockLevels, UpdateProduct(q, n)
      PROVE  Balanced(p)'
  <2>1. p # q /\ UNCHANGED <<cart, cut>>
    BY <1>5 DEF UpdateProduct
  <2>2. stock'[p] = stock[p] /\ opening'[p] = opening[p]
    BY <1>0, <1>5, <2>1 DEF UpdateProduct, TypeOK
  <2>3. Pieces(Cut(p), p)' = Pieces(Cut(p), p)
    BY <2>1, PiecesKept
  <2>4. QED BY <1>0, <2>2, <2>3 DEF Balanced, Listed
<1>6. ASSUME NEW q \in Product, RemoveProduct(q) PROVE Balanced(p)'
  BY <1>0, <1>6, BalancedKept DEF RemoveProduct, TypeOK
<1>7. ASSUME NEW c \in Sale, NEW q \in Product, Decrement(c, q)
      PROVE  Balanced(p)'
  <2>1. UNCHANGED <<cart, opening>> /\ q \in left[c]
    BY <1>7 DEF Decrement
  <2>2. CASE p = q /\ Listed(p)
    <3>1. p \in Lines(c) /\ cart[c][p] \in Nat
      BY <1>0, <2>1, <2>2, LinesType DEF JobInOrder
    <3>2. cut[c][p] = 0
      BY <1>0, <2>1, <2>2, <3>1 DEF JobInOrder, LinesTaken, TypeOK
    <3>3. /\ cut'[c][p] = 1
          /\ \A d \in Sale \ {c} : cut'[d][p] = cut[d][p]
          /\ stock'[p] = stock[p] - cart[c][p]
      BY <1>0, <1>7, <2>2, <3>2 DEF Decrement, TypeOK
    <3>4. c \notin Cut(p) /\ Cut(p)' = Cut(p) \cup {c}
      BY <3>2, <3>3 DEF Cut
    <3>5. Pieces(Cut(p), p)' = Pieces(Cut(p) \cup {c}, p)
      BY <2>1, <3>4 DEF Pieces
    <3>6. PICK C : C = Cut(p) /\ c \notin C
      BY <3>4
    <3>7. /\ IsFiniteSet(Pieces(C, p)) /\ opening[p] \in Int
          /\ stock[p] = opening[p] - Cardinality(Pieces(C, p))
      BY <1>0, <2>2, <3>6 DEF Balanced, TypeOK
    <3>8. /\ IsFiniteSet(Pieces(C \cup {c}, p))
          /\ Cardinality(Pieces(C \cup {c}, p))
                = Cardinality(Pieces(C, p)) + cart[c][p]
          /\ Cardinality(Pieces(C, p)) \in Nat
      BY <3>1, <3>6, <3>7, PiecesAdded
    <3>9. stock'[p] = opening[p] - Cardinality(Pieces(C \cup {c}, p))
      BY <3>1, <3>3, <3>7, <3>8
    <3>10. QED BY <1>0, <2>1, <2>2, <3>5, <3>6, <3>8, <3>9 DEF Balanced
  <2>3. CASE p = q /\ ~Listed(p)
    BY <1>0, <1>7, <2>3 DEF Decrement, TypeOK, Listed, Balanced
  <2>4. CASE p # q
    <3>1. /\ stock'[p] = stock[p]
          /\ \A d \in Sale : cut'[d][p] = cut[d][p]
      BY <1>0, <1>7, <2>4 DEF Decrement, TypeOK
    <3>2. Pieces(Cut(p), p)' = Pieces(Cut(p), p)
      BY <2>1, <3>1 DEF Pieces, Cut
    <3>3. QED BY <1>0, <2>1, <3>1, <3>2 DEF Balanced, Listed
  <2>5. QED BY <2>2, <2>3, <2>4
<1>8. ASSUME NEW c \in Sale,
             \/ StartJob(c) \/ CompleteJob(c) \/ Requeue(c) \/ RemoveSale(c)
             \/ \E q \in Product : DecrementFails(c, q)
      PROVE  Balanced(p)'
  BY <1>1, <1>8 DEF StartJob, CompleteJob, Requeue, RemoveSale, DecrementFails
<1>9. CASE Crash \/ UNCHANGED vars
  BY <1>1, <1>9 DEF Crash, vars
<1>10. QED
  BY <1>2, <1>3, <1>4, <1>5, <1>6, <1>7, <1>8, <1>9 DEF Next, Work

-----------------------------------------------------------------------------
(* The invariant and what it implies *)

LEMMA InitSInv == Init => SInv
<1> SUFFICES ASSUME Init PROVE SInv
  OBVIOUS
<1>1. TypeOK
  BY SalesAssumption, IdleType DEF Init, TypeOK, JobState
<1>2. Owned /\ Known
  BY DEF Init, Owned, Known, Idle, Listed, Checked
<1>3. \A c \in Sale : Lines(c) = {} /\ JobInOrder(c)
  BY SalesAssumption DEF Init, Lines, JobInOrder
<1>4. \A p \in Product : Covered(p)
  BY <1>3 DEF Init, Covered, Claims, Listed
<1>5. PaidInFull /\ \A s \in Slot : SaleInOrder(s)
  BY DEF Init, PaidInFull, SaleInOrder, Idle
<1>6. ASSUME NEW c \in Sale
      PROVE  SaleAhead(c) /\ \A p \in Product : LinesTaken(c, p)
  BY <1>3 DEF Init, SaleAhead, LinesTaken
<1>7. \A p \in Product : Balanced(p)
  BY DEF Init, Balanced, Listed
<1>8. QED BY <1>1, <1>2, <1>3, <1>4, <1>5, <1>6, <1>7 DEF SInv

\* The invariant holds of every reachable state of sales, stock and queue.
THEOREM SalesInvariant == Spec => []SInv
<1>1. SInv /\ [Next]_vars => SInv'
  BY TypeStep, OwnedStep, KnownStep, JobStep, CoveredStep, PaidStep, AheadStep,
     TakenStep, BalancedStep DEF SInv
<1>2. QED BY InitSInv, <1>1, PTL DEF Spec

\* The tables, the queue and the requests of SalesService keep their types.
THEOREM SalesTypes == Spec => []TypeOK
<1>1. SInv => TypeOK
  BY DEF SInv
<1>2. QED BY <1>1, SalesInvariant, PTL

\* The stock check suffices for sales that do not overlap.
THEOREM CheckedStock == Spec => []NotOversold
<1>1. SInv => NotOversold
  BY DEF SInv, NotOversold, Covered
<1>2. QED BY <1>1, SalesInvariant, PTL

\* A job decrements each product once per delivery, and at least once.
THEOREM Reductions == Spec => []ReducedPerDelivery
<1>1. SInv => ReducedPerDelivery
  <2> SUFFICES ASSUME SInv, NEW c \in Sale, NEW p \in Lines(c)
               PROVE  /\ cut[c][p] <= stalls[c] + 1
                      /\ job[c] = "completed" /\ c \notin broken /\ Listed(p)
                            => cut[c][p] >= 1
    BY DEF ReducedPerDelivery
  <2>1. JobInOrder(c) /\ p \in Product
    BY LinesType DEF SInv
  <2>2. job[c] = "completed" /\ c \notin broken => left[c] = {}
    BY <2>1 DEF JobInOrder
  <2>3. QED BY <2>1, <2>2 DEF JobInOrder
<1>2. QED BY <1>1, SalesInvariant, PTL

\* Payments of sales are for sales that are there, and of their totals.
THEOREM SalePayments == Spec => []PaidInFull
<1>1. SInv => PaidInFull
  BY DEF SInv
<1>2. QED BY <1>1, SalesInvariant, PTL

\* When all has ended, the sales of a product are those it was taken for.
LEMMA SettledCut ==
    ASSUME SInv, Settled, NEW p \in Product \ upset, Listed(p)
    PROVE  Sold(p) = Cut(p)
<1>0. TypeOK /\ Owned /\ \A c \in Sale : JobInOrder(c) /\ SaleAhead(c) /\ LinesTaken(c, p)
  BY DEF SInv
<1>1. ASSUME NEW c \in Sold(p) PROVE c \in Cut(p)
  <2>1. c \in Sale /\ p \in Lines(c) /\ p \notin upset
    BY <1>0 DEF Sold, TypeOK
  <2>2. c \in items => job[c] # "none"
    BY <1>0, <2>1 DEF SaleAhead, Busy, Settled, Idle
  <2>3. job[c] = "completed" /\ left[c] = {}
    BY <1>0, <2>1, <2>2 DEF Sold, Settled, LinesTaken
  <2>4. cut[c][p] >= 1
    BY <1>0, <2>1, <2>3 DEF LinesTaken
  <2>5. QED BY <1>0, <2>1, <2>4 DEF Cut, TypeOK
<1>2. ASSUME NEW c \in Cut(p) PROVE c \in Sold(p)
  <2>1. c \in Sale /\ cut[c][p] > 0 /\ p \in Lines(c)
    BY <1>0 DEF Cut, LinesTaken
  <2>2. job[c] # "none"
    BY <1>0, <2>1 DEF JobInOrder
  <2>3. QED BY <1>0, <2>1, <2>2 DEF Sold, SaleAhead
<1>3. QED BY <1>1, <1>2

\* What create, the queue and the worker take from a stock is what was sold.
THEOREM StockSettled == Spec => []SettledStock
<1>1. SInv => SettledStock
  BY SettledCut DEF SInv, SettledStock, Balanced
<1>2. QED BY <1>1, SalesInvariant, PTL
=============================================================================
