--------------------------- MODULE CatalogProofs ---------------------------
(* Proofs about Catalog for any number of categories, services, packages,
   names and requests. *)
EXTENDS Catalog, FiniteSetTheorems, TLAPS

-----------------------------------------------------------------------------
(* The requests *)

Requests == req \in [Slot -> Request] /\ \A s \in Slot : Fit(req[s])

LEMMA IdleFits == Idle \in Request /\ Fit(Idle) /\ Idle.pc = "idle" /\ Idle.todo = {}
  BY DEF Idle, Request, Fit, List, Handling, Saving

\* Slot s goes on as r; of the others at most the lists they have read change.
Moves(s, r) ==
    /\ r \in Request
    /\ \/ req' = [req EXCEPT ![s] = r]
       \/ req' = [t \in Slot |-> IF t = s THEN r
                                 ELSE [req[t] EXCEPT !.list = Dated(@)]]

LEMMA MovesTyped ==
    ASSUME req \in [Slot -> Request], NEW s \in Slot, NEW r, Moves(s, r)
    PROVE  /\ req' \in [Slot -> Request]
           /\ req'[s] = r
           /\ \A t \in Slot \ {s} :
                 \/ req'[t] = req[t]
                 \/ req'[t] = [req[t] EXCEPT !.list = Dated(@)]
<1>1. CASE req' = [req EXCEPT ![s] = r]
  BY <1>1 DEF Moves
<1>2. CASE req' = [t \in Slot |-> IF t = s THEN r
                                  ELSE [req[t] EXCEPT !.list = Dated(@)]]
  <2>1. ASSUME NEW q \in Request
        PROVE  [q EXCEPT !.list = Dated(@)] \in Request
    BY DEF Request, List, Dated
  <2>2. QED BY <1>2, <2>1 DEF Moves
<1>3. QED BY <1>1, <1>2 DEF Moves

\* Fit says nothing of the list a request has read.
LEMMA FitDated ==
    ASSUME NEW q \in Request, Fit(q)
    PROVE  Fit([q EXCEPT !.list = Dated(@)])
<1> DEFINE r == [q EXCEPT !.list = Dated(@)]
<1>1. /\ r.pc = q.pc /\ r.cat = q.cat /\ r.old = q.old
      /\ r.svc = q.svc /\ r.row = q.row /\ r.todo = q.todo
  BY DEF Request
<1> HIDE DEF r
<1>2. Fit(r)
  BY <1>1 DEF Fit
<1>3. QED BY <1>2 DEF r

-----------------------------------------------------------------------------
(* The ids asked for and the counts *)

LEMMA CountedNat ==
    ASSUME NEW c
    PROVE  IsFiniteSet({v \in Svc : asked[v] = c}) /\ Counted(c) \in Nat
<1>1. IsFiniteSet({v \in Svc : asked[v] = c})
  BY CatalogAssumption, FS_Subset
<1>2. QED BY <1>1, FS_CardinalityType DEF Counted

\* A new service of c counts in c.
LEMMA CountedOnce ==
    ASSUME asked \in [Svc -> Cat \cup {None}], NEW v \in Svc, NEW c \in Cat,
           asked[v] = None, asked' = [asked EXCEPT ![v] = c]
    PROVE  /\ Counted(c)' = Counted(c) + 1
           /\ \A d \in Cat \ {c} : Counted(d)' = Counted(d)
<1>1. {w \in Svc : asked'[w] = c} = {w \in Svc : asked[w] = c} \cup {v}
  BY CatalogAssumption
<1>2. v \notin {w \in Svc : asked[w] = c}
  BY CatalogAssumption
<1>3. Counted(c)' = Counted(c) + 1
  <2> DEFINE S == {w \in Svc : asked[w] = c}
  <2>1. IsFiniteSet(S)
    BY CountedNat
  <2> HIDE DEF S
  <2>2. Cardinality(S \cup {v}) = IF v \in S THEN Cardinality(S) ELSE Cardinality(S) + 1
    BY <2>1, FS_AddElement
  <2>3. QED BY <1>1, <1>2, <2>2 DEF Counted, S
<1>4. ASSUME NEW d \in Cat \ {c}
      PROVE  Counted(d)' = Counted(d)
  <2>1. {w \in Svc : asked'[w] = d} = {w \in Svc : asked[w] = d}
    BY CatalogAssumption
  <2>2. QED BY <2>1 DEF Counted
<1>5. QED BY <1>3, <1>4

\* Ids are handed out and asked for, and stay so.
Grown ==
    /\ used \subseteq used'
    /\ \A v \in used \cap Svc : asked'[v] = asked[v]
    /\ \A c \in Cat : Counted(c)' \in Nat /\ Counted(c) <= Counted(c)'

LEMMA GrownQuiet == UNCHANGED <<used, asked>> => Grown
  BY CountedNat DEF Grown, Counted

LEMMA GrownFit ==
    ASSUME Grown, Kinds, NEW q \in Request, Fit(q)
    PROVE  Fit(q)'
<1>1. q.svc \in Svc \cup {None} /\ q.row \in ServiceRow \cup {None} /\ None \notin Svc
  BY CatalogAssumption DEF Request
<1>2. q.pc \in Handling => q.svc \in used \cap Svc /\ asked'[q.svc] = asked[q.svc]
  BY <1>1 DEF Fit, Grown
<1>3. q.pc \in Saving => /\ q.old \in CategoryRow /\ q.old.count \in Nat
                         /\ q.cat \in Cat /\ q.row.parts \subseteq Svc
                         /\ Counted(q.cat) \in Nat /\ Counted(q.cat)' \in Nat
                         /\ Counted(q.cat) <= Counted(q.cat)'
  <2> SUFFICES ASSUME q.pc \in Saving PROVE /\ q.old \in CategoryRow /\ q.old.count \in Nat
                         /\ q.cat \in Cat /\ q.row.parts \subseteq Svc
                         /\ Counted(q.cat) \in Nat /\ Counted(q.cat)' \in Nat
                         /\ Counted(q.cat) <= Counted(q.cat)'
    OBVIOUS
  <2>1. q.old \in CategoryRow /\ q.row \in ServiceRow /\ q.row.cat = q.cat
    BY <1>1 DEF Fit, Saving, Handling, Request
  <2>2. QED BY <2>1, CountedNat DEF Grown, CategoryRow, ServiceRow
<1>4. q.pc \in Saving => q.old.count <= Counted(q.cat)'
  BY <1>3 DEF Fit
<1>5. q.pc \in {"create", "both"} => q.old.count < Counted(q.cat)'
  BY <1>3 DEF Fit, Saving
<1>6. q.pc \in {"package", "save"} => \A v \in q.row.parts : asked'[v] # None
  BY <1>3 DEF Fit, Saving, Kinds, Grown
<1>7. QED BY <1>1, <1>2, <1>4, <1>5, <1>6 DEF Fit, Grown

\* Whoever is not at work stays fit.
LEMMA MovesFit ==
    ASSUME Requests, Kinds, Grown, NEW s \in Slot, NEW r, Moves(s, r), Fit(r)'
    PROVE  Requests'
<1>1. req' \in [Slot -> Request] /\ req'[s] = r
  BY MovesTyped DEF Requests
<1>2. ASSUME NEW t \in Slot, t # s
      PROVE  Fit(req[t])'
  <2> DEFINE q == req'[t]
  <2>1. q = req[t] \/ q = [req[t] EXCEPT !.list = Dated(@)]
    BY <1>2, MovesTyped DEF Requests
  <2>2. q \in Request /\ Fit(q)
    BY <1>1, <1>2, <2>1, FitDated DEF Requests
  <2>3. QED BY <2>2, GrownFit DEF Fit
<1>3. QED BY <1>1, <1>2 DEF Requests

-----------------------------------------------------------------------------
(* The steps that change no table *)

Quiet(s) ==
    /\ UNCHANGED <<cats, svcs, used, asked>>
    /\ \E r : Moves(s, r) /\ Fit(r)

LEMMA BecomeMoves ==
    ASSUME NEW s \in Slot, NEW r \in Request, Become(s, r)
    PROVE  Moves(s, r)
  BY DEF Become, Moves

LEMMA ListQuiet ==
    ASSUME CInv, NEW s \in Slot,
           MissList(s) \/ QueryList(s) \/ FillCache(s) \/ ClearLast(s)
    PROVE  Quiet(s)
<1>1. CASE MissList(s)
  <2> DEFINE r == [Idle EXCEPT !.pc = "query"]
  <2>1. r \in Request /\ Fit(r)
    BY IdleFits DEF Idle, Request, Fit, List, Handling, Saving
  <2>2. QED BY <1>1, <2>1, BecomeMoves DEF MissList, Quiet
<1>2. CASE QueryList(s)
  <2> DEFINE r == [Idle EXCEPT !.pc = "fill", !.list = "current"]
  <2>1. r \in Request /\ Fit(r)
    BY IdleFits DEF Idle, Request, Fit, List, Handling, Saving
  <2>2. QED BY <1>2, <2>1, BecomeMoves DEF QueryList, Quiet
<1>3. CASE FillCache(s)
  BY <1>3, IdleFits, BecomeMoves DEF FillCache, Quiet
<1>4. CASE ClearLast(s)
  BY <1>4, IdleFits, BecomeMoves DEF ClearLast, Quiet
<1>5. QED BY <1>1, <1>2, <1>3, <1>4

LEMMA NewRow ==
    ASSUME NEW n \in Name
    PROVE  LET row == [name |-> n, count |-> 0]
           IN  row \in CategoryRow /\ row # None /\ row.count = 0
<1> DEFINE row == [name |-> n, count |-> 0]
<1>1. row \in CategoryRow
  BY DEF CategoryRow
<1>2. QED BY <1>1, NoneAssumption

LEMMA NameQuiet ==
    ASSUME CInv, NEW s \in Slot, NEW n \in Name, CheckName(s, n)
    PROVE  Quiet(s)
<1> DEFINE row == [name |-> n, count |-> 0]
           r == [Idle EXCEPT !.pc = "insert", !.old = row]
<1>1. r \in Request /\ Fit(r)
  BY NewRow DEF Idle, Request, Fit, List, Handling, Saving
<1>2. QED BY <1>1, BecomeMoves DEF CheckName, Quiet

LEMMA CategoryQuiet ==
    ASSUME CInv, NEW s \in Slot, NEW c \in Cat, NEW n \in Name, FindCategory(s, c, n)
    PROVE  Quiet(s)
<1> DEFINE row == [name |-> n, count |-> 0]
           r == [Idle EXCEPT !.pc = "rename", !.cat = c, !.old = row]
           q == [Idle EXCEPT !.pc = "drop", !.cat = c]
<1>1. r \in Request /\ Fit(r)
  BY NewRow, CatalogAssumption DEF Idle, Request, Fit, List, Handling, Saving
<1>2. q \in Request /\ Fit(q)
  BY CatalogAssumption DEF Idle, Request, Fit, List, Handling, Saving
<1>3. QED BY <1>1, <1>2, BecomeMoves DEF FindCategory, Quiet

LEMMA FitDefined ==
    ASSUME NEW r \in Request, Fit(r)
    PROVE  /\ r.pc \in Handling => r.svc \in Svc /\ r.row \in ServiceRow
           /\ r.pc \in Saving \cup {"parts"} => r.cat \in Cat
           /\ r.pc \in Saving => r.old \in CategoryRow
           /\ r.pc = "delete" => r.svc \in Svc
<1>1. r.pc \in Handling => r.svc \in Svc /\ r.row \in ServiceRow
  BY DEF Request, Fit
<1>2. r.pc \in Saving \cup {"parts"} => r.cat \in Cat
  BY <1>1 DEF Fit, Saving, Handling, ServiceRow
<1>3. QED BY <1>1, <1>2 DEF Request, Fit

LEMMA CreateQuiet ==
    ASSUME CInv, NEW s \in Slot, StartCreate(s)
    PROVE  Quiet(s)
<1> DEFINE q == req[s]
           r == [q EXCEPT !.pc = "both", !.todo = {"count", "save"}]
<1>1. q \in Request /\ Fit(q) /\ q.pc = "create"
  BY DEF CInv, TypeOK, StartCreate
<1>2. r \in Request /\ r.pc = "both" /\ r.todo # {}
  BY <1>1 DEF Request
<1>3. /\ r.cat = q.cat /\ r.old = q.old /\ r.svc = q.svc /\ r.row = q.row
  BY <1>1 DEF Request
<1> HIDE DEF r, q
<1>4. Fit(r)
  BY <1>1, <1>2, <1>3 DEF Fit, Handling, Saving
<1>5. QED BY <1>2, <1>4, BecomeMoves DEF StartCreate, Quiet, r, q

\* What getServicesByIds finds are services for good.
LEMMA PackageQuiet ==
    ASSUME CInv, NEW s \in Slot, ReadParts(s) \/ StartPackage(s)
    PROVE  Quiet(s)
<1> DEFINE q == req[s]
<1>1. q \in Request /\ Fit(q)
  BY DEF CInv, TypeOK
<1>2. CASE ReadParts(s)
  <2> DEFINE r == [q EXCEPT !.pc = "package", !.old = cats[q.cat]]
  <2>1. q.pc = "parts" /\ q.cat \in Cat /\ q.svc \in Svc /\ q.row \in ServiceRow
    BY <1>1, <1>2, FitDefined DEF ReadParts, Handling
  <2>2. CASE cats[q.cat] # None /\ Includable(q.row.parts)
    <3>1. /\ r \in Request /\ r.pc = "package" /\ r.old = cats[q.cat] /\ r.cat = q.cat
          /\ r.svc = q.svc /\ r.row = q.row /\ r.todo = q.todo
      BY <1>1, <2>1 DEF Request, CInv, TypeOK
    <3>2. r.old # None /\ r.old.count <= Counted(r.cat)
      BY <2>1, <2>2, <3>1 DEF CInv, CountBounded
    <3>3. \A v \in r.row.parts : v \in Svc /\ asked[v] # None
      BY <2>1, <2>2, <3>1 DEF CInv, Kinds, Includable, Single, ServiceRow
    <3> HIDE DEF r
    <3>4. Fit(r)
      BY <1>1, <2>1, <3>1, <3>2, <3>3 DEF Fit, Handling, Saving
    <3>5. QED BY <1>2, <2>2, <3>1, <3>4, BecomeMoves DEF ReadParts, Quiet, r
  <2>3. CASE ~(cats[q.cat] # None /\ Includable(q.row.parts))
    BY <1>2, <2>3, IdleFits, BecomeMoves DEF ReadParts, Quiet
  <2>4. QED BY <2>2, <2>3
<1>3. CASE StartPackage(s)
  <2> DEFINE r == [q EXCEPT !.pc = "save"]
  <2>1. /\ r \in Request /\ r.pc = "save" /\ r.old = q.old /\ r.cat = q.cat
        /\ r.svc = q.svc /\ r.row = q.row /\ r.todo = q.todo /\ q.pc = "package"
    BY <1>1, <1>3 DEF Request, StartPackage
  <2> HIDE DEF r
  <2>2. Fit(r)
    BY <1>1, <2>1 DEF Fit, Handling, Saving
  <2>3. QED BY <1>3, <2>1, <2>2, BecomeMoves DEF StartPackage, Quiet, r
<1>4. QED BY <1>2, <1>3

\* A service that is read has its category, and keeps its kind.
LEMMA FindQuiet ==
    ASSUME CInv, NEW s \in Slot, NEW v \in Svc, NEW c \in Cat, FindService(s, v, c)
    PROVE  Quiet(s)
<1> DEFINE row == svcs[v]
           r == [Idle EXCEPT !.pc = "category", !.svc = v, !.cat = c, !.row = row]
           q == [Idle EXCEPT !.pc = "strip", !.svc = v, !.row = row,
                             !.cat = row.cat, !.old = cats[row.cat]]
<1>1. /\ row \in ServiceRow /\ row # None /\ row.cat \in Cat /\ v \in used
      /\ (row.package <=> asked[v] = None)
  BY NoneAssumption DEF FindService, CInv, TypeOK, Kinds, ServiceRow
<1>2. /\ cats[row.cat] \in CategoryRow /\ cats[row.cat] # None
      /\ cats[row.cat].count <= Counted(row.cat)
  BY <1>1 DEF CInv, TypeOK, ServicesCategorized, CountBounded
<1> HIDE DEF row
<1>3. r \in Request /\ Fit(r)
  <2>1. r \in Request /\ r.pc = "category" /\ r.svc = v /\ r.cat = c /\ r.row = row /\ r.todo = {}
    BY <1>1 DEF Idle, Request, List
  <2> HIDE DEF r
  <2>2. QED BY <1>1, <2>1, CatalogAssumption DEF Fit, Handling, Saving
<1>4. q \in Request /\ Fit(q)
  <2>1. /\ q \in Request /\ q.pc = "strip" /\ q.svc = v /\ q.cat = row.cat /\ q.row = row
        /\ q.todo = {} /\ q.old = cats[row.cat]
    BY <1>1, <1>2 DEF Idle, Request, List
  <2> HIDE DEF q
  <2>2. QED BY <1>1, <1>2, <2>1, CatalogAssumption DEF Fit, Handling, Saving
<1>5. QED BY <1>3, <1>4, BecomeMoves DEF FindService, Quiet, row

LEMMA NewCategoryQuiet ==
    ASSUME CInv, NEW s \in Slot, FindNewCategory(s)
    PROVE  Quiet(s)
<1> DEFINE q == req[s]
           r == [q EXCEPT !.pc = "update", !.old = cats[q.cat], !.row.cat = q.cat]
<1>1. q \in Request /\ Fit(q) /\ q.pc = "category"
  BY DEF CInv, TypeOK, FindNewCategory
<1>2. q.cat \in Cat /\ q.svc \in Svc /\ q.row \in ServiceRow
  BY <1>1, FitDefined DEF Fit, Handling, Request
<1>3. CASE cats[q.cat] = None
  BY <1>3, IdleFits, BecomeMoves DEF FindNewCategory, Quiet
<1>4. CASE cats[q.cat] # None
  <2>1. [q.row EXCEPT !.cat = q.cat] \in ServiceRow
    BY <1>2 DEF ServiceRow
  <2>2. /\ r \in Request /\ r.pc = "update" /\ r.svc = q.svc /\ r.cat = q.cat
        /\ r.row = [q.row EXCEPT !.cat = q.cat] /\ r.todo = q.todo /\ r.old = cats[q.cat]
    BY <1>1, <1>2, <1>4, <2>1 DEF Request, CInv, TypeOK
  <2>3. r.row # None /\ r.row.cat = q.cat /\ r.row.package = q.row.package
    BY <1>2, <2>1, <2>2, NoneAssumption DEF ServiceRow
  <2>4. r.old # None /\ r.old.count <= Counted(r.cat)
    BY <1>2, <1>4, <2>2 DEF CInv, CountBounded
  <2> HIDE DEF r
  <2>5. Fit(r)
    BY <1>1, <1>2, <2>2, <2>3, <2>4 DEF Fit, Handling, Saving
  <2>6. QED BY <1>4, <2>2, <2>5, BecomeMoves DEF FindNewCategory, Quiet, r
<1>5. QED BY <1>3, <1>4

LEMMA FailureQuiet ==
    ASSUME CInv, NEW s \in Slot, StatementFails(s)
    PROVE  Quiet(s)
<1> DEFINE q == req[s]
           r == [q EXCEPT !.todo = {"count"}]
<1>1. q \in Request /\ Fit(q)
  BY DEF CInv, TypeOK
<1>2. CASE "count" \in q.todo
  <2>1. /\ r \in Request /\ r.pc = q.pc /\ r.cat = q.cat /\ r.old = q.old
        /\ r.svc = q.svc /\ r.row = q.row /\ r.todo = {"count"} /\ q.todo # {}
    BY <1>1, <1>2 DEF Request
  <2> HIDE DEF r
  <2>2. Fit(r)
    BY <1>1, <2>1 DEF Fit
  <2>3. QED BY <1>2, <2>1, <2>2, BecomeMoves DEF StatementFails, Quiet, r
<1>3. CASE "count" \notin q.todo
  BY <1>3, IdleFits, BecomeMoves DEF StatementFails, Quiet
<1>4. QED BY <1>2, <1>3

-----------------------------------------------------------------------------
(* The tables *)

Tables ==
    /\ cats \in [Cat -> CategoryRow \cup {None}]
    /\ svcs \in [Svc -> ServiceRow \cup {None}]
    /\ used \subseteq Cat \cup Svc
    /\ asked \in [Svc -> Cat \cup {None}]
    /\ Kinds
    /\ ServicesCategorized
    /\ PackagesOfServices
    /\ CountBounded

LEMMA TablesHold == CInv => Tables /\ Requests
  BY DEF CInv, TypeOK, Tables, Requests

LEMMA TablesQuiet ==
    ASSUME Tables, UNCHANGED <<cats, svcs, used, asked>>
    PROVE  Tables'
  BY DEF Tables, Kinds, ServicesCategorized, PackagesOfServices, Single, CountBounded, Counted

\* A category is inserted or written, with a count nobody invented.
LEMMA CategoryWritten ==
    ASSUME Tables, NEW c \in Cat, NEW row \in CategoryRow, row.count <= Counted(c),
           cats' = [cats EXCEPT ![c] = row],
           used' \in {used, used \cup {c}}, UNCHANGED <<svcs, asked>>
    PROVE  Tables' /\ Grown
<1>1. row # None
  BY NoneAssumption
<1>2. \A d \in Cat : cats'[d] = IF d = c THEN row ELSE cats[d]
  BY DEF Tables
<1>3. cats' \in [Cat -> CategoryRow \cup {None}] /\ used' \subseteq Cat \cup Svc
  BY DEF Tables
<1>4. Kinds' /\ PackagesOfServices'
  BY DEF Tables, Kinds, PackagesOfServices, Single
<1>5. ServicesCategorized'
  BY <1>1, <1>2 DEF Tables, ServicesCategorized, ServiceRow
<1>6. \A d \in Cat : Counted(d)' = Counted(d)
  BY DEF Counted
<1>7. CountBounded'
  BY <1>2, <1>6 DEF Tables, CountBounded
<1>8. Grown
  <2>1. \A d \in Cat : Counted(d) \in Nat
    BY CountedNat
  <2>2. \A d \in Cat : Counted(d)' \in Nat /\ Counted(d) <= Counted(d)'
    BY <1>6, <2>1
  <2>3. QED BY <2>2 DEF Grown
<1>9. QED BY <1>3, <1>4, <1>5, <1>7, <1>8 DEF Tables

\* A service is saved, and its category with it.
LEMMA ServiceSaved ==
    ASSUME Tables, NEW v \in Svc \cap used, NEW row \in ServiceRow, NEW old \in CategoryRow,
           (row.package <=> asked[v] = None),
           \A w \in row.parts : svcs[w] # None /\ asked[w] # None,
           old.count <= Counted(row.cat),
           cats' = [cats EXCEPT ![row.cat] = old],
           svcs' = [svcs EXCEPT ![v] = row],
           UNCHANGED <<used, asked>>
    PROVE  Tables'
<1>1. row # None /\ old # None /\ row.cat \in Cat /\ row.parts \subseteq Svc
  BY NoneAssumption DEF ServiceRow
<1>2. \A d \in Cat : cats'[d] = IF d = row.cat THEN old ELSE cats[d]
  BY DEF Tables
<1>3. \A w \in Svc : svcs'[w] = IF w = v THEN row ELSE svcs[w]
  BY DEF Tables
<1>4. /\ cats' \in [Cat -> CategoryRow \cup {None}]
      /\ svcs' \in [Svc -> ServiceRow \cup {None}]
  BY <1>1 DEF Tables
<1>5. Kinds'
  BY <1>3 DEF Tables, Kinds
<1>6. ServicesCategorized'
  BY <1>1, <1>2, <1>3 DEF Tables, ServicesCategorized, ServiceRow
<1>7. \A w \in Svc : svcs[w] # None => svcs'[w] # None
  BY <1>1, <1>3
<1>8. PackagesOfServices'
  <2> SUFFICES ASSUME NEW u \in Svc, svcs'[u] # None, NEW w \in svcs'[u].parts
               PROVE  w \in Svc /\ Single(w)'
    BY DEF PackagesOfServices
  <2>1. w \in Svc /\ svcs[w] # None /\ asked[w] # None
    <3>1. CASE u = v
      BY <1>1, <1>3, <3>1
    <3>2. CASE u # v
      <4>1. w \in Svc /\ Single(w)
        BY <1>3, <3>2 DEF Tables, PackagesOfServices, ServiceRow
      <4>2. QED BY <4>1 DEF Single, Tables, Kinds
    <3>3. QED BY <3>1, <3>2
  <2>2. QED BY <1>5, <1>7, <2>1 DEF Single, Kinds
<1>9. \A d \in Cat : Counted(d)' = Counted(d)
  BY DEF Counted
<1>10. CountBounded'
  BY <1>2, <1>9 DEF Tables, CountBounded
<1>11. QED BY <1>4, <1>5, <1>6, <1>8, <1>10 DEF Tables

\* A service is deleted, and its rows of service_package with it.
LEMMA ServiceDeleted ==
    ASSUME Tables, NEW v \in Svc,
           svcs' = [w \in Svc |-> IF w = v \/ svcs[w] = None THEN None
                                  ELSE [svcs[w] EXCEPT !.parts = @ \ {v}]],
           UNCHANGED <<cats, used, asked>>
    PROVE  Tables'
<1>1. ASSUME NEW w \in Svc
      PROVE  \/ svcs'[w] = None
             \/ /\ w # v /\ svcs[w] # None /\ svcs'[w] \in ServiceRow
                /\ svcs'[w].cat = svcs[w].cat /\ svcs'[w].package = svcs[w].package
                /\ svcs'[w].parts = svcs[w].parts \ {v}
  BY DEF Tables, ServiceRow
<1>2. \A w \in Svc : w # v /\ svcs[w] # None => svcs'[w] # None
  <2>1. ASSUME NEW w \in Svc, w # v, svcs[w] # None
        PROVE  svcs'[w] \in ServiceRow
    BY <2>1 DEF Tables, ServiceRow
  <2>2. QED BY <2>1, NoneAssumption
<1>3. svcs' \in [Svc -> ServiceRow \cup {None}]
  BY <1>1
<1>4. Kinds' /\ ServicesCategorized'
  BY <1>1 DEF Tables, Kinds, ServicesCategorized
<1>5. PackagesOfServices'
  <2> SUFFICES ASSUME NEW u \in Svc, svcs'[u] # None, NEW w \in svcs'[u].parts
               PROVE  Single(w)'
    BY DEF PackagesOfServices
  <2>1. w \in svcs[u].parts /\ w # v /\ svcs[u] # None
    BY <1>1
  <2>2. w \in Svc /\ Single(w)
    BY <2>1 DEF Tables, PackagesOfServices, ServiceRow
  <2>3. QED BY <1>1, <1>2, <2>1, <2>2 DEF Single
<1>6. CountBounded'
  BY DEF Tables, CountBounded, Counted
<1>7. QED BY <1>3, <1>4, <1>5, <1>6 DEF Tables

-----------------------------------------------------------------------------
(* The steps that write *)

LEMMA OvertakeMoves ==
    ASSUME NEW s \in Slot, NEW r \in Request, Overtake(s, r)
    PROVE  Moves(s, r)
  BY DEF Overtake, Moves

LEMMA ClearFits ==
    /\ [Idle EXCEPT !.pc = "clear"] \in Request
    /\ Fit([Idle EXCEPT !.pc = "clear"])
  BY DEF Idle, Request, Fit, List, Handling, Saving

LEMMA OvertakeFit ==
    ASSUME Tables, Requests, NEW s \in Slot, NEW r \in Request, Fit(r), Overtake(s, r),
           UNCHANGED <<used, asked>>
    PROVE  Requests'
<1>1. Fit(r)'
  BY GrownQuiet, GrownFit DEF Tables
<1>2. QED BY <1>1, OvertakeMoves, MovesFit, GrownQuiet DEF Tables

LEMMA InsertStep ==
    ASSUME CInv, NEW s \in Slot, InsertCategory(s)
    PROVE  Tables' /\ Requests'
<1> DEFINE q == req[s]
           r == [Idle EXCEPT !.pc = "clear"]
<1>1. q \in Request /\ Fit(q) /\ q.pc = "insert"
  BY DEF CInv, TypeOK, InsertCategory
<1>2. q.old \in CategoryRow /\ q.old.count = 0
  BY <1>1 DEF Fit, Request
<1>3. PICK c \in Cat \ used : /\ cats' = [cats EXCEPT ![c] = q.old]
                              /\ used' = used \cup {c}
                              /\ UNCHANGED <<svcs, asked>>
  BY DEF InsertCategory
<1>4. q.old.count <= Counted(c)
  <2>1. Counted(c) \in Nat
    BY CountedNat
  <2>2. QED BY <1>2, <2>1
<1>5. Tables' /\ Grown
  BY <1>2, <1>3, <1>4, TablesHold, CategoryWritten
<1>6. Moves(s, r)
  BY ClearFits, OvertakeMoves DEF InsertCategory, WriteFirst
<1>7. Fit(r)'
  BY <1>5, ClearFits, GrownFit, TablesHold DEF Tables
<1>8. QED BY <1>5, <1>6, <1>7, MovesFit, TablesHold DEF Tables

LEMMA RenameStep ==
    ASSUME CInv, NEW s \in Slot, RenameCategory(s)
    PROVE  Tables' /\ Requests'
<1> DEFINE q == req[s]
<1>1. q \in Request /\ Fit(q) /\ q.pc = "rename"
  BY DEF CInv, TypeOK, RenameCategory
<1>2. q.old \in CategoryRow /\ q.cat \in Cat
  BY <1>1 DEF Fit, Request
<1>3. Tables'
  <2>1. CASE cats[q.cat] = None
    <3>1. UNCHANGED <<cats, svcs, used, asked>>
      BY <1>2, <2>1 DEF RenameCategory, CInv, TypeOK
    <3>2. QED BY <3>1, TablesHold, TablesQuiet
  <2>2. CASE cats[q.cat] # None
    <3> DEFINE row == [cats[q.cat] EXCEPT !.name = q.old.name]
    <3>1. cats[q.cat] \in CategoryRow /\ cats[q.cat].count <= Counted(q.cat)
      BY <1>2, <2>2 DEF CInv, TypeOK, CountBounded
    <3>2. row \in CategoryRow /\ row.count <= Counted(q.cat)
      BY <1>2, <3>1 DEF CategoryRow
    <3>3. cats' = [cats EXCEPT ![q.cat] = row] /\ UNCHANGED <<svcs, used, asked>>
      BY <2>2 DEF RenameCategory
    <3>4. QED BY <1>2, <3>2, <3>3, TablesHold, CategoryWritten
  <2>3. QED BY <2>1, <2>2
<1>4. Requests'
  BY IdleFits, OvertakeFit, TablesHold DEF RenameCategory, WriteUnkeyed, WriteLast
<1>5. QED BY <1>3, <1>4

LEMMA DropStep ==
    ASSUME CInv, NEW s \in Slot, DropCategory(s)
    PROVE  Tables' /\ Requests'
<1> DEFINE c == req[s].cat
<1>1. CASE /\ \A v \in Svc : svcs[v] # None => svcs[v].cat # c
           /\ cats' = [cats EXCEPT ![c] = None]
           /\ WriteUnkeyed(s)
  <2>1. UNCHANGED <<svcs, used, asked>>
    BY DEF DropCategory
  <2>2. \A d \in Cat : cats'[d] = cats[d] \/ (cats'[d] = None /\ d = c)
    BY <1>1 DEF CInv, TypeOK
  <2>3. cats' \in [Cat -> CategoryRow \cup {None}]
    BY <1>1 DEF CInv, TypeOK
  <2>4. ServicesCategorized'
    BY <1>1, <2>1, <2>2 DEF CInv, TypeOK, ServicesCategorized, ServiceRow
  <2>5. CountBounded'
    BY <2>1, <2>2 DEF CInv, CountBounded, Counted
  <2>6. Tables'
    BY <2>1, <2>3, <2>4, <2>5, TablesHold DEF Tables, Kinds, PackagesOfServices, Single
  <2>7. Requests'
    BY <1>1, <2>1, IdleFits, OvertakeFit, TablesHold DEF WriteUnkeyed, WriteLast
  <2>8. QED BY <2>6, <2>7
<1>2. CASE Become(s, Idle) /\ UNCHANGED cats
  <2>1. Fit(Idle)'
    BY IdleFits, GrownQuiet, GrownFit, TablesHold DEF Tables, DropCategory
  <2>2. QED BY <1>2, <2>1, IdleFits, BecomeMoves, MovesFit, GrownQuiet, TablesHold, TablesQuiet
            DEF Tables, DropCategory
<1>3. QED BY <1>1, <1>2 DEF DropCategory

\* What is left of a create when one of its two statements has ended.
LEMMA WithoutFits ==
    ASSUME NEW q \in Request, Fit(q), NEW item \in q.todo
    PROVE  Without(q, item) \in Request /\ Fit(Without(q, item))
<1> DEFINE r == [q EXCEPT !.todo = q.todo \ {item}]
<1>1. CASE q.todo \ {item} = {}
  BY <1>1, IdleFits DEF Without
<1>2. CASE q.todo \ {item} # {}
  <2>1. /\ r \in Request /\ r.pc = q.pc /\ r.cat = q.cat /\ r.old = q.old
        /\ r.svc = q.svc /\ r.row = q.row /\ r.todo # {} /\ q.todo # {}
    BY <1>2 DEF Request
  <2> HIDE DEF r
  <2>2. Fit(r)
    BY <2>1 DEF Fit
  <2>3. QED BY <1>2, <2>1, <2>2 DEF Without, r
<1>3. QED BY <1>1, <1>2

LEMMA CountStep ==
    ASSUME CInv, NEW s \in Slot, CountUsage(s)
    PROVE  Tables' /\ Requests'
<1> DEFINE q == req[s]
<1>1. q \in Request /\ Fit(q) /\ q.pc = "both" /\ "count" \in q.todo
  BY DEF CInv, TypeOK, CountUsage, Fit
<1>2. q.old \in CategoryRow /\ q.cat \in Cat /\ q.old.count < Counted(q.cat)
  BY <1>1, FitDefined DEF Fit, Saving
<1>3. Tables'
  <2>1. CASE cats[q.cat] = None
    <3>1. UNCHANGED <<cats, svcs, used, asked>>
      BY <1>2, <2>1 DEF CountUsage, CInv, TypeOK
    <3>2. QED BY <3>1, TablesHold, TablesQuiet
  <2>2. CASE cats[q.cat] # None
    <3> DEFINE row == [cats[q.cat] EXCEPT !.count = q.old.count + 1]
    <3>1. cats[q.cat] \in CategoryRow
      BY <1>2, <2>2 DEF CInv, TypeOK
    <3>2. Counted(q.cat) \in Nat
      BY CountedNat
    <3>3. row \in CategoryRow /\ row.count <= Counted(q.cat)
      BY <1>2, <3>1, <3>2 DEF CategoryRow
    <3>4. cats' = [cats EXCEPT ![q.cat] = row] /\ UNCHANGED <<svcs, used, asked>>
      BY <2>2 DEF CountUsage
    <3>5. QED BY <1>2, <3>3, <3>4, TablesHold, CategoryWritten
  <2>3. QED BY <2>1, <2>2
<1>4. Requests'
  BY <1>1, WithoutFits, OvertakeFit, TablesHold DEF CountUsage, WriteLast
<1>5. QED BY <1>3, <1>4

LEMMA SaveCreatedStep ==
    ASSUME CInv, NEW s \in Slot, SaveCreated(s)
    PROVE  Tables' /\ Requests'
<1> DEFINE q == req[s]
<1>1. q \in Request /\ Fit(q) /\ q.pc = "both" /\ "save" \in q.todo
  BY DEF CInv, TypeOK, SaveCreated, Fit
<1>2. /\ q.old \in CategoryRow /\ q.cat \in Cat /\ q.old.count <= Counted(q.cat)
      /\ q.svc \in Svc \cap used /\ q.row \in ServiceRow /\ q.row.cat = q.cat
      /\ q.row.parts = {} /\ (q.row.package <=> asked[q.svc] = None)
  BY <1>1, FitDefined, CatalogAssumption DEF Fit, Saving, Handling
<1>3. Tables'
  BY <1>2, TablesHold, ServiceSaved DEF SaveCreated
<1>4. Requests'
  BY <1>1, WithoutFits, OvertakeFit, TablesHold DEF SaveCreated, WriteLast
<1>5. QED BY <1>3, <1>4

LEMMA SavePackageStep ==
    ASSUME CInv, NEW s \in Slot, SavePackage(s)
    PROVE  Tables' /\ Requests'
<1> DEFINE q == req[s]
<1>1. q \in Request /\ Fit(q) /\ q.pc = "save"
  BY DEF CInv, TypeOK, SavePackage
<1>2. /\ q.old \in CategoryRow /\ q.cat \in Cat /\ q.old.count <= Counted(q.cat)
      /\ q.svc \in Svc \cap used /\ q.row \in ServiceRow /\ q.row.cat = q.cat
      /\ (q.row.package <=> asked[q.svc] = None)
      /\ \A v \in q.row.parts : asked[v] # None
  BY <1>1, FitDefined, CatalogAssumption DEF Fit, Saving, Handling
<1>3. CASE /\ \A v \in q.row.parts : svcs[v] # None
           /\ cats' = [cats EXCEPT ![q.cat] = q.old]
           /\ svcs' = [svcs EXCEPT ![q.svc] = q.row]
           /\ WriteLast(s, Idle)
  <2>1. Tables'
    BY <1>2, <1>3, TablesHold, ServiceSaved DEF SavePackage
  <2>2. Requests'
    BY <1>3, IdleFits, OvertakeFit, TablesHold DEF SavePackage, WriteLast
  <2>3. QED BY <2>1, <2>2
<1>4. CASE Become(s, Idle) /\ UNCHANGED <<cats, svcs>>
  <2>1. Fit(Idle)'
    BY IdleFits, GrownQuiet, GrownFit, TablesHold DEF Tables, SavePackage
  <2>2. QED BY <1>4, <2>1, IdleFits, BecomeMoves, MovesFit, GrownQuiet, TablesHold, TablesQuiet
            DEF Tables, SavePackage
<1>5. QED BY <1>3, <1>4 DEF SavePackage

LEMMA ResavedRow ==
    ASSUME Tables, NEW q \in Request, Fit(q), q.pc \in {"update", "strip"}
    PROVE  /\ Resaved(q) \in ServiceRow
           /\ Resaved(q).cat = q.cat
           /\ Resaved(q).package <=> asked[q.svc] = None
           /\ \A w \in Resaved(q).parts : svcs[w] # None /\ asked[w] # None
<1>1. /\ q.row \in ServiceRow /\ q.svc \in Svc /\ q.row.cat = q.cat
      /\ (q.row.package <=> asked[q.svc] = None)
  BY FitDefined DEF Fit, Saving, Handling
<1> DEFINE P == IF svcs[q.svc] = None THEN {} ELSE svcs[q.svc].parts
<1>2. P \subseteq Svc /\ \A w \in P : Single(w)
  BY <1>1 DEF Tables, PackagesOfServices, ServiceRow
<1>3. \A w \in P : svcs[w] # None /\ asked[w] # None
  BY <1>2 DEF Tables, Kinds, Single
<1>4. Resaved(q) = [q.row EXCEPT !.parts = P]
  BY DEF Resaved
<1> HIDE DEF P
<1>5. QED BY <1>1, <1>2, <1>3, <1>4 DEF ServiceRow

LEMMA SaveUpdatedStep ==
    ASSUME CInv, NEW s \in Slot, SaveUpdated(s)
    PROVE  Tables' /\ Requests'
<1> DEFINE q == req[s]
           row == Resaved(q)
<1>1. q \in Request /\ Fit(q) /\ q.pc = "update"
  BY DEF CInv, TypeOK, SaveUpdated
<1>2. /\ q.old \in CategoryRow /\ q.old.count <= Counted(q.cat) /\ q.svc \in Svc \cap used
  BY <1>1, FitDefined, CatalogAssumption DEF Fit, Saving, Handling
<1>3. /\ row \in ServiceRow /\ row.cat = q.cat /\ (row.package <=> asked[q.svc] = None)
      /\ \A w \in row.parts : svcs[w] # None /\ asked[w] # None
  BY <1>1, TablesHold, ResavedRow
<1>4. /\ cats' = [cats EXCEPT ![row.cat] = q.old] /\ svcs' = [svcs EXCEPT ![q.svc] = row]
      /\ UNCHANGED <<used, asked>>
  BY <1>3 DEF SaveUpdated
<1> HIDE DEF row
<1>5. Tables'
  BY <1>2, <1>3, <1>4, TablesHold, ServiceSaved
<1>6. Requests'
  BY <1>4, ClearFits, OvertakeFit, TablesHold DEF SaveUpdated, WriteFirst
<1>7. QED BY <1>5, <1>6

LEMMA StripStep ==
    ASSUME CInv, NEW s \in Slot, StripService(s)
    PROVE  Tables' /\ Requests'
<1> DEFINE q == req[s]
           row == IF q.row.package THEN [q.row EXCEPT !.parts = {}] ELSE Resaved(q)
           r == [Idle EXCEPT !.pc = "delete", !.svc = q.svc]
<1>1. q \in Request /\ Fit(q) /\ q.pc = "strip"
  BY DEF CInv, TypeOK, StripService
<1>2. /\ q.old \in CategoryRow /\ q.old.count <= Counted(q.cat) /\ q.svc \in Svc \cap used
      /\ q.row \in ServiceRow /\ q.row.cat = q.cat /\ (q.row.package <=> asked[q.svc] = None)
  BY <1>1, FitDefined, CatalogAssumption DEF Fit, Saving, Handling
<1>3. /\ row \in ServiceRow /\ row.cat = q.cat /\ (row.package <=> asked[q.svc] = None)
      /\ \A w \in row.parts : svcs[w] # None /\ asked[w] # None
  <2>1. CASE q.row.package
    BY <1>2, <2>1 DEF ServiceRow
  <2>2. CASE ~q.row.package
    BY <1>1, <2>2, TablesHold, ResavedRow
  <2>3. QED BY <2>1, <2>2
<1>4. /\ cats' = [cats EXCEPT ![row.cat] = q.old] /\ svcs' = [svcs EXCEPT ![q.svc] = row]
      /\ UNCHANGED <<used, asked>> /\ Overtake(s, r)
  BY <1>3 DEF StripService, WriteFirst
<1>5. r \in Request /\ Fit(r)
  BY <1>2, CatalogAssumption DEF Idle, Request, Fit, List, Handling, Saving
<1> HIDE DEF row, r
<1>6. Tables'
  BY <1>2, <1>3, <1>4, TablesHold, ServiceSaved
<1>7. Requests'
  BY <1>4, <1>5, OvertakeFit, TablesHold
<1>8. QED BY <1>6, <1>7

LEMMA DeleteStep ==
    ASSUME CInv, NEW s \in Slot, DeleteService(s)
    PROVE  Tables' /\ Requests'
<1>1. req[s].svc \in Svc
  BY FitDefined DEF CInv, TypeOK, DeleteService
<1>2. Tables'
  BY <1>1, TablesHold, ServiceDeleted DEF DeleteService
<1>3. Requests'
  BY ClearFits, OvertakeFit, TablesHold DEF DeleteService, WriteFirst
<1>4. QED BY <1>2, <1>3

-----------------------------------------------------------------------------
(* The steps that hand out an id *)

LEMMA BeginCreateStep ==
    ASSUME CInv, NEW s \in Slot, NEW c \in Cat, NEW v \in Svc, BeginCreate(s, c, v)
    PROVE  Tables' /\ Requests'
<1> DEFINE row == [cat |-> c, package |-> FALSE, parts |-> {}, size |-> 0]
<1>0. PICK r : r = [Idle EXCEPT !.pc = "create", !.cat = c, !.old = cats[c], !.svc = v,
                                !.row = row]
  OBVIOUS
<1>1. /\ v \notin used /\ used' = used \cup {v} /\ asked' = [asked EXCEPT ![v] = c]
      /\ UNCHANGED <<cats, svcs>> /\ req' = [req EXCEPT ![s] = r]
  BY <1>0 DEF BeginCreate, Become
<1>2. asked[v] = None /\ svcs[v] = None
  BY <1>1, TablesHold DEF Tables, Kinds
<1>3. Counted(c)' = Counted(c) + 1 /\ \A d \in Cat \ {c} : Counted(d)' = Counted(d)
  BY <1>1, <1>2, TablesHold, CountedOnce DEF Tables
<1>4. \A d \in Cat : Counted(d) \in Nat
  BY CountedNat
<1>5. Grown
  <2>1. \A d \in Cat : Counted(d)' \in Nat /\ Counted(d) <= Counted(d)'
    BY <1>3, <1>4
  <2>2. \A w \in used \cap Svc : asked'[w] = asked[w]
    BY <1>1, TablesHold DEF Tables
  <2>3. QED BY <1>1, <2>1, <2>2 DEF Grown
<1>6. Kinds'
  BY <1>1, <1>2, TablesHold DEF Tables, Kinds
<1>7. CountBounded'
  <2> SUFFICES ASSUME NEW d \in Cat, cats[d] # None
               PROVE  cats[d].count <= Counted(d)'
    BY <1>1 DEF CountBounded
  <2>1. cats[d].count \in Nat /\ cats[d].count <= Counted(d)
    BY TablesHold DEF Tables, CountBounded, CategoryRow
  <2>2. QED BY <1>4, <1>5, <2>1 DEF Grown
<1>8. Tables'
  <2>1. used' \subseteq Cat \cup Svc /\ asked' \in [Svc -> Cat \cup {None}]
    BY <1>1, TablesHold DEF Tables
  <2>2. ServicesCategorized' /\ PackagesOfServices'
    BY <1>1, TablesHold DEF Tables, ServicesCategorized, PackagesOfServices, Single
  <2>3. QED BY <1>1, <1>6, <1>7, <2>1, <2>2, TablesHold DEF Tables
<1>9. r \in Request /\ Fit(r)'
  <2>1. row \in ServiceRow /\ row # None
    <3>1. row \in ServiceRow
      BY DEF ServiceRow
    <3>2. QED BY <3>1, NoneAssumption
  <2>2. cats[c] \in CategoryRow /\ cats[c] # None /\ cats[c].count \in Nat
        /\ cats[c].count <= Counted(c)
    BY TablesHold DEF BeginCreate, Tables, CountBounded, CategoryRow
  <2>3. row.cat = c /\ row.parts = {} /\ row.package = FALSE
    OBVIOUS
  <2> HIDE DEF row
  <2>4. /\ r \in Request /\ r.pc = "create" /\ r.cat = c /\ r.old = cats[c] /\ r.svc = v
        /\ r.row = row /\ r.todo = {}
    BY <1>0, <2>1, <2>2 DEF Idle, Request, List
  <2>5. asked'[v] = c /\ c # None /\ v # None
    BY <1>1, CatalogAssumption, TablesHold DEF Tables
  <2>6. cats[c].count < Counted(c)' /\ cats[c].count <= Counted(c)'
    BY <1>3, <1>4, <2>2
  <2>7. QED BY <1>1, <2>1, <2>2, <2>3, <2>4, <2>5, <2>6 DEF Fit, Handling, Saving
<1>10. Requests'
  BY <1>1, <1>5, <1>9, MovesFit, TablesHold DEF Moves, Tables
<1>11. QED BY <1>8, <1>10

LEMMA BeginPackageStep ==
    ASSUME CInv, NEW s \in Slot, NEW c \in Cat, NEW P \in SUBSET Svc, NEW v \in Svc,
           BeginPackage(s, c, P, v)
    PROVE  Tables' /\ Requests'
<1> DEFINE row == Package(c, P)
           r == [Idle EXCEPT !.pc = "parts", !.cat = c, !.svc = v, !.row = row]
<1>1. /\ used' = used \cup {v} /\ req' = [req EXCEPT ![s] = r]
      /\ UNCHANGED <<cats, svcs, asked>>
  BY DEF BeginPackage, Become
<1>2. asked[v] = None
  BY TablesHold DEF BeginPackage, Tables, Kinds
<1>3. Tables' /\ Grown
  <2>1. \A d \in Cat : Counted(d) \in Nat /\ Counted(d)' = Counted(d)
    BY <1>1, CountedNat DEF Counted
  <2>2. Grown
    BY <1>1, <2>1 DEF Grown
  <2>3. CountBounded'
    BY <1>1, <2>1, TablesHold DEF Tables, CountBounded
  <2>4. Kinds' /\ ServicesCategorized' /\ PackagesOfServices'
    BY <1>1, TablesHold DEF Tables, Kinds, ServicesCategorized, PackagesOfServices, Single
  <2>5. QED BY <1>1, <2>2, <2>3, <2>4, TablesHold DEF Tables
<1>4. r \in Request /\ Fit(r)'
  <2>1. Cardinality(P) \in Nat
    BY CatalogAssumption, FS_Subset, FS_CardinalityType
  <2>2. row \in ServiceRow /\ row.cat = c /\ row.package = TRUE
    BY <2>1 DEF Package, ServiceRow
  <2>3. row # None
    BY <2>2, NoneAssumption
  <2> HIDE DEF row
  <2>4. /\ r \in Request /\ r.pc = "parts" /\ r.cat = c /\ r.svc = v
        /\ r.row = row /\ r.todo = {}
    BY <2>2 DEF Idle, Request, List
  <2> HIDE DEF r
  <2>5. QED BY <1>1, <1>2, <2>2, <2>3, <2>4, CatalogAssumption DEF Fit, Handling, Saving
<1>5. QED BY <1>1, <1>3, <1>4, MovesFit, TablesHold DEF Moves, Tables

-----------------------------------------------------------------------------
(* The invariant *)

LEMMA QuietStep ==
    ASSUME CInv, NEW s \in Slot, Quiet(s)
    PROVE  Tables' /\ Requests'
<1>1. PICK r : Moves(s, r) /\ Fit(r)
  BY DEF Quiet
<1>2. Fit(r)'
  BY <1>1, GrownQuiet, GrownFit, TablesHold DEF Quiet, Moves, Tables
<1>3. QED BY <1>1, <1>2, TablesHold, TablesQuiet, GrownQuiet, MovesFit DEF Quiet, Tables

LEMMA BeginStep ==
    ASSUME CInv, NEW s \in Slot, Begin(s)
    PROVE  Tables' /\ Requests'
<1>1. CASE MissList(s)
  BY <1>1, ListQuiet, QuietStep
<1>2. CASE \E n \in Name : CheckName(s, n)
  BY <1>2, NameQuiet, QuietStep
<1>3. CASE \E c \in Cat, n \in Name : FindCategory(s, c, n)
  BY <1>3, CategoryQuiet, QuietStep
<1>4. CASE \E c \in Cat, v \in Svc : BeginCreate(s, c, v)
  BY <1>4, BeginCreateStep
<1>5. CASE \E c \in Cat, v \in Svc : FindService(s, v, c)
  BY <1>5, FindQuiet, QuietStep
<1>6. CASE \E c \in Cat, P \in SUBSET Svc, v \in Svc : BeginPackage(s, c, P, v)
  BY <1>6, BeginPackageStep
<1>7. QED BY <1>1, <1>2, <1>3, <1>4, <1>5, <1>6 DEF Begin

LEMMA StepStep ==
    ASSUME CInv, NEW s \in Slot, Step(s)
    PROVE  Tables' /\ Requests'
<1>1. CASE QueryList(s) \/ FillCache(s) \/ ClearLast(s)
  BY <1>1, ListQuiet, QuietStep
<1>2. CASE InsertCategory(s) \/ RenameCategory(s) \/ DropCategory(s)
  BY <1>2, InsertStep, RenameStep, DropStep
<1>3. CASE StartCreate(s) \/ ReadParts(s) \/ StartPackage(s) \/ FindNewCategory(s)
  BY <1>3, CreateQuiet, PackageQuiet, NewCategoryQuiet, QuietStep
<1>4. CASE CountUsage(s) \/ SaveCreated(s) \/ SavePackage(s)
  BY <1>4, CountStep, SaveCreatedStep, SavePackageStep
<1>5. CASE SaveUpdated(s) \/ StripService(s) \/ DeleteService(s)
  BY <1>5, SaveUpdatedStep, StripStep, DeleteStep
<1>6. QED BY <1>1, <1>2, <1>3, <1>4, <1>5 DEF Step

LEMMA OutsideStep ==
    ASSUME CInv, Expire \/ Crash \/ UNCHANGED vars
    PROVE  Tables' /\ Requests'
<1>1. UNCHANGED <<cats, svcs, used, asked>>
  BY DEF Expire, Crash, vars
<1>2. \A r \in Request : Fit(r) => Fit(r)'
  BY <1>1, GrownQuiet, GrownFit, TablesHold DEF Tables
<1>3. \A s \in Slot : req'[s] \in {req[s], Idle}
  BY DEF Expire, Crash, vars
<1>4. req' \in [Slot -> Request]
  BY IdleFits, TablesHold DEF Requests, Expire, Crash, vars
<1>5. ASSUME NEW s \in Slot
      PROVE  Fit(req[s])'
  <2>1. req'[s] \in Request /\ Fit(req'[s])
    BY <1>3, IdleFits, TablesHold DEF Requests
  <2>2. QED BY <1>1, <2>1, GrownQuiet, GrownFit, TablesHold DEF Tables, Fit
<1>6. QED BY <1>1, <1>4, <1>5, TablesHold, TablesQuiet DEF Requests

-----------------------------------------------------------------------------
(* The cached list *)

\* Nobody makes a list dated, and who was to clear it still is.
LEMMA KeptCurrent ==
    ASSUME CInv, NEW s \in Slot, NEW r, Become(s, r),
           cache' = "dated" => cache = "dated" /\ (late => late'),
           cache' = "dated" => req[s].pc \notin {"clear", "delete"} \/ late'
    PROVE  ListCurrent'
<1> SUFFICES ASSUME cache' = "dated", ~late'
             PROVE  \E t \in Slot : req'[t].pc \in {"clear", "delete"}
  BY DEF ListCurrent
<1>1. PICK t \in Slot : req[t].pc \in {"clear", "delete"}
  BY DEF CInv, ListCurrent
<1>2. req'[t] = req[t]
  BY <1>1 DEF Become, CInv, TypeOK
<1>3. QED BY <1>1, <1>2

LEMMA IdleIs == Idle.pc \notin {"clear", "delete"}
  BY DEF Idle

LEMMA BeginCurrent ==
    ASSUME CInv, NEW s \in Slot, Begin(s)
    PROVE  ListCurrent'
<1>1. UNCHANGED <<cache, late>> /\ req[s] = Idle /\ \E r : Become(s, r)
  BY DEF Begin, MissList, CheckName, FindCategory, BeginCreate, FindService, BeginPackage
<1>2. QED BY <1>1, KeptCurrent, IdleIs

LEMMA StepCurrent ==
    ASSUME CInv, NEW s \in Slot, Step(s)
    PROVE  ListCurrent'
<1> USE NoneAssumption
<1>1. CASE QueryList(s) \/ ReadParts(s) \/ FindNewCategory(s)
  <2>1. UNCHANGED <<cache, late>> /\ \E r : Become(s, r)
    BY <1>1 DEF QueryList, ReadParts, FindNewCategory
  <2>2. req[s].pc \notin {"clear", "delete"}
    BY <1>1 DEF QueryList, ReadParts, FindNewCategory
  <2>3. QED BY <2>1, <2>2, KeptCurrent
<1>2. CASE ClearLast(s) \/ StartCreate(s) \/ StartPackage(s)
  BY <1>2 DEF ClearLast, StartCreate, StartPackage, ClearCache, ListCurrent
<1>3. CASE FillCache(s)
  BY <1>3 DEF FillCache, ListCurrent
<1>4. CASE \E r : WriteLast(s, r)
  BY <1>4 DEF WriteLast, Overtake, Dated, ListCurrent
<1>5. CASE \E r : WriteFirst(s, r) /\ r.pc \in {"clear", "delete"}
  BY <1>5 DEF WriteFirst, Overtake, ListCurrent
<1>6. CASE Become(s, Idle) /\ req[s].pc \in {"drop", "save"} /\ UNCHANGED <<cache, late>>
  BY <1>6, KeptCurrent
<1>7. CASE InsertCategory(s) \/ SaveUpdated(s) \/ StripService(s) \/ DeleteService(s)
  <2>1. [Idle EXCEPT !.pc = "clear"].pc = "clear"
        /\ \A v : [Idle EXCEPT !.pc = "delete", !.svc = v].pc = "delete"
    BY DEF Idle
  <2>2. QED BY <1>5, <1>7, <2>1 DEF InsertCategory, SaveUpdated, StripService, DeleteService
<1>8. CASE RenameCategory(s) \/ CountUsage(s) \/ SaveCreated(s)
  BY <1>4, <1>8 DEF RenameCategory, WriteUnkeyed, CountUsage, SaveCreated
<1>9. CASE DropCategory(s) \/ SavePackage(s)
  BY <1>4, <1>6, <1>9 DEF DropCategory, WriteUnkeyed, SavePackage
<1>10. QED BY <1>1, <1>2, <1>3, <1>7, <1>8, <1>9 DEF Step

LEMMA OtherCurrent ==
    ASSUME CInv,
           (\E s \in Slot : StatementFails(s)) \/ Expire \/ Crash \/ UNCHANGED vars
    PROVE  ListCurrent'
<1>1. ASSUME NEW s \in Slot, StatementFails(s)
      PROVE  ListCurrent'
  <2>1. /\ cache' = cache /\ (late => late') /\ \E r : Become(s, r)
        /\ cache = "dated" => req[s].pc \notin {"clear", "delete"} \/ late'
    BY <1>1, NoneAssumption DEF StatementFails
  <2>2. QED BY <2>1, KeptCurrent
<1>2. CASE Expire \/ Crash
  BY <1>2, NoneAssumption DEF Expire, Crash, ClearCache, ListCurrent
<1>3. CASE UNCHANGED vars
  BY <1>3 DEF vars, CInv, ListCurrent
<1>4. QED BY <1>1, <1>2, <1>3

LEMMA CacheTyped ==
    ASSUME CInv, [Next]_vars
    PROVE  cache' \in List /\ late' \in BOOLEAN
<1>0. cache \in List /\ late \in BOOLEAN /\ \A s \in Slot : req[s].list \in List
  BY DEF CInv, TypeOK, Request
<1>1. ASSUME NEW s \in Slot, Begin(s)
      PROVE  UNCHANGED <<cache, late>>
  BY <1>1 DEF Begin, MissList, CheckName, FindCategory, BeginCreate, FindService, BeginPackage
<1>2. ASSUME NEW s \in Slot, Step(s)
      PROVE  cache' \in List /\ late' \in BOOLEAN
  <2>1. CASE QueryList(s) \/ FillCache(s) \/ ClearLast(s) \/ StartCreate(s) \/ ReadParts(s)
             \/ StartPackage(s) \/ FindNewCategory(s)
    BY <1>0, <2>1 DEF QueryList, FillCache, ClearLast, StartCreate, ReadParts, StartPackage,
                      FindNewCategory, ClearCache, List
  <2>2. CASE \E r : WriteFirst(s, r) \/ WriteLast(s, r)
    BY <1>0, <2>2 DEF WriteFirst, WriteLast, Overtake, Dated, List
  <2>3. CASE InsertCategory(s) \/ SaveUpdated(s) \/ StripService(s) \/ DeleteService(s)
    BY <2>2, <2>3 DEF InsertCategory, SaveUpdated, StripService, DeleteService
  <2>4. CASE RenameCategory(s) \/ CountUsage(s) \/ SaveCreated(s)
    BY <2>2, <2>4 DEF RenameCategory, WriteUnkeyed, CountUsage, SaveCreated
  <2>5. CASE DropCategory(s) \/ SavePackage(s)
    BY <1>0, <2>2, <2>5 DEF DropCategory, WriteUnkeyed, SavePackage
  <2>6. QED BY <1>2, <2>1, <2>3, <2>4, <2>5 DEF Step
<1>3. CASE (\E s \in Slot : StatementFails(s)) \/ Expire \/ Crash \/ UNCHANGED vars
  BY <1>0, <1>3 DEF StatementFails, Expire, Crash, ClearCache, vars, List
<1>4. QED BY <1>0, <1>1, <1>2, <1>3 DEF Next

-----------------------------------------------------------------------------
(* The theorems *)

LEMMA InitHolds == Init => CInv
<1> SUFFICES ASSUME Init PROVE CInv
  OBVIOUS
<1>1. TypeOK
  BY IdleFits DEF Init, TypeOK, List
<1>2. ListCurrent
  BY NoneAssumption DEF Init, ListCurrent
<1>3. Kinds /\ ServicesCategorized /\ PackagesOfServices /\ CountBounded
  BY DEF Init, Kinds, ServicesCategorized, PackagesOfServices, CountBounded
<1>4. \A s \in Slot : Fit(req[s])
  BY IdleFits DEF Init
<1>5. QED BY <1>1, <1>2, <1>3, <1>4 DEF CInv

LEMMA NextHolds == CInv /\ [Next]_vars => CInv'
<1> SUFFICES ASSUME CInv, [Next]_vars PROVE CInv'
  OBVIOUS
<1>1. Tables' /\ Requests'
  BY BeginStep, StepStep, FailureQuiet, QuietStep, OutsideStep DEF Next
<1>2. ListCurrent'
  BY BeginCurrent, StepCurrent, OtherCurrent DEF Next
<1>3. QED BY <1>1, <1>2, CacheTyped DEF CInv, TypeOK, Tables, Requests

\* The inductive invariant: every request of services and categories carries
\* what still stands, at each of its statements.
THEOREM CatalogInvariant == Spec => []CInv
  BY InitHolds, NextHolds, PTL DEF Spec

\* Every variable keeps its type.
THEOREM CatalogTypes == Spec => []TypeOK
<1>1. CInv => TypeOK
  BY DEF CInv
<1>2. QED BY <1>1, CatalogInvariant, PTL

\* A cached list of categories that is out of date is about to be cleared, but
\* after the writers and failures named by late.
THEOREM CachedList == Spec => []ListCurrent
<1>1. CInv => ListCurrent
  BY DEF CInv
<1>2. QED BY <1>1, CatalogInvariant, PTL

\* No service ever loses its category, whoever drops, renames or saves it.
THEOREM Categorized == Spec => []ServicesCategorized
<1>1. CInv => ServicesCategorized
  BY DEF CInv
<1>2. QED BY <1>1, CatalogInvariant, PTL

\* Packages include services that exist and are no packages.
THEOREM Packages == Spec => []PackagesOfServices
<1>1. CInv => PackagesOfServices
  BY DEF CInv
<1>2. QED BY <1>1, CatalogInvariant, PTL

\* No category counts more services than were created in it.
THEOREM Counts == Spec => []CountBounded
<1>1. CInv => CountBounded
  BY DEF CInv
<1>2. QED BY <1>1, CatalogInvariant, PTL

=============================================================================
