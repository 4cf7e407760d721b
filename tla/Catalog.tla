------------------------------ MODULE Catalog ------------------------------
(***************************************************************************)
(* The catalogue of one organization: ServicesService and                  *)
(* CategoriesService over the tables service, service_package and          *)
(* category, and the list of categories with their services that           *)
(* CategoriesService.findAll keeps in the cache.                           *)
(*                                                                         *)
(* The cache is in the memory of the process: del and set take effect at   *)
(* once.  Each await on the database ends a step; the reads of one         *)
(* Promise.all are one step.  A service is saved with its category, which  *)
(* cascades: the save writes the category back as it was read, and         *)
(* inserts it again if it has gone.                                        *)
(*                                                                         *)
(* Data: a list, cached or on its way to the cache, is "current" when it   *)
(* is what the database holds and "dated" when something was written       *)
(* after it was read.                                                      *)
(***************************************************************************)
EXTENDS Naturals, FiniteSets

CONSTANTS
    Cat,       \* ids of categories; each is handed out once, which bounds a run
    Svc,       \* ids of services and packages, likewise
    Name,      \* names of categories
    Slot,      \* the requests that can be in flight at the same time
    MinParts,  \* the services a package has at least (2, in CreatePackageDto)
    Ops,       \* the operations clients call
    Faulty,    \* whether statements may fail and the process may die
    None

ASSUME CatalogAssumption ==
    /\ IsFiniteSet(Svc)
    /\ Ops \subseteq {"list", "addCategory", "renameCategory", "dropCategory",
                      "addService", "updateService", "removeService",
                      "addPackage", "updatePackage"}
    /\ MinParts \in Nat
    /\ Faulty \in BOOLEAN
    /\ None \notin Cat \cup Svc \cup Name
    /\ Cat \cap Svc = {}

VARIABLES
    cats,    \* category
    svcs,    \* service, with the services each package includes
    used,    \* the ids handed out
    cache,   \* the cached list, or None
    req,     \* what each slot is doing
    \* History variables: no action reads them.
    asked,   \* the category a new service was to count in
    late     \* the cached list dates from before a write that clears it no more

vars == <<cats, svcs, used, cache, req, asked, late>>

CategoryRow == [name : Name, count : Nat]

\* size is the serviceCount column, parts are the rows of service_package.
ServiceRow == [cat : Cat, package : BOOLEAN, parts : SUBSET Svc, size : Nat]

ASSUME NoneAssumption == None \notin CategoryRow \cup ServiceRow \cup {"current", "dated"}

List == {None, "current", "dated"}

Request ==
    [pc   : {"idle", "query", "fill", "insert", "rename", "drop", "clear", "create",
             "both", "parts", "package", "save", "category", "update", "strip", "delete"},
     cat  : Cat \cup {None},
     old  : CategoryRow \cup {None},  \* the category as it was read, or is to be
     svc  : Svc \cup {None},
     row  : ServiceRow \cup {None},   \* the service as it was read, or is to be
     todo : SUBSET {"count", "save"}, \* the statements create has started
     list : List]                     \* what findAll has read

Idle == [pc |-> "idle", cat |-> None, old |-> None, svc |-> None, row |-> None,
         todo |-> {}, list |-> None]

Init ==
    /\ cats = [c \in Cat |-> None]
    /\ svcs = [v \in Svc |-> None]
    /\ used = {}
    /\ cache = None
    /\ req = [s \in Slot |-> Idle]
    /\ asked = [v \in Svc |-> None]
    /\ late = FALSE

-----------------------------------------------------------------------------
(* Helpers *)

Become(s, r) == req' = [req EXCEPT ![s] = r]

Dated(l) == IF l = None THEN None ELSE "dated"

\* Slot s writes and goes on as r: every list is of before.
Overtake(s, r) ==
    /\ req' = [t \in Slot |-> IF t = s THEN r
                              ELSE [req[t] EXCEPT !.list = Dated(@)]]
    /\ cache' = Dated(cache)

\* A write that is followed by clearCache, and one that came after it.
WriteFirst(s, r) == Overtake(s, r) /\ UNCHANGED late
WriteLast(s, r) == Overtake(s, r) /\ late' = (late \/ cache # None)

\* A write of update or remove of a category: the controller asks for no role
\* there, so the request has no organization and the key they clear is nobody's.
WriteUnkeyed(s) == WriteLast(s, Idle)

ClearCache == cache' = None /\ late' = FALSE

Single(v) == svcs[v] # None /\ ~svcs[v].package

\* getServicesByIds of a body that names the services P.
Includable(P) == Cardinality(P) >= MinParts /\ \A v \in P : Single(v)

-----------------------------------------------------------------------------
(* CategoriesService.findAll *)

\* The list is not in the cache, ...
MissList(s) ==
    /\ "list" \in Ops
    /\ req[s] = Idle
    /\ cache = None
    /\ Become(s, [Idle EXCEPT !.pc = "query"])
    /\ UNCHANGED <<cats, svcs, used, cache, asked, late>>

QueryList(s) ==
    /\ req[s].pc = "query"
    /\ Become(s, [Idle EXCEPT !.pc = "fill", !.list = "current"])
    /\ UNCHANGED <<cats, svcs, used, cache, asked, late>>

\* ... and is put there, whatever was written or cleared since it was read.
FillCache(s) ==
    /\ req[s].pc = "fill"
    /\ cache' = req[s].list
    /\ late' = (req[s].list = "dated")
    /\ Become(s, Idle)
    /\ UNCHANGED <<cats, svcs, used, asked>>

\* CacheTTL.long is over.
Expire ==
    /\ cache # None
    /\ ClearCache
    /\ UNCHANGED <<cats, svcs, used, req, asked>>

-----------------------------------------------------------------------------
(* The writers of categories *)

\* A name that is taken is refused; the check and the insert are two statements.
CheckName(s, n) ==
    /\ "addCategory" \in Ops
    /\ req[s] = Idle
    /\ \A c \in Cat : cats[c] # None => cats[c].name # n
    /\ Become(s, [Idle EXCEPT !.pc = "insert", !.old = [name |-> n, count |-> 0]])
    /\ UNCHANGED <<cats, svcs, used, cache, asked, late>>

\* Mutant: serviceCount has no default.
InsertCategoryUncounted(s) ==
    \E c \in Cat \ used :
       /\ req[s].pc = "insert"
       /\ cats' = [cats EXCEPT ![c] = [name |-> req[s].old.name, count |-> None]]
       /\ used' = used \cup {c}
       /\ WriteFirst(s, [Idle EXCEPT !.pc = "clear"])
       /\ UNCHANGED <<svcs, asked>>

InsertCategory(s) ==
    \E c \in Cat \ used :
       /\ req[s].pc = "insert"
       /\ cats' = [cats EXCEPT ![c] = req[s].old]
       /\ used' = used \cup {c}
       /\ WriteFirst(s, [Idle EXCEPT !.pc = "clear"])
       /\ UNCHANGED <<svcs, asked>>

\* update and remove look for the category first.
FindCategory(s, c, n) ==
    /\ req[s] = Idle
    /\ cats[c] # None
    /\ \/ /\ "renameCategory" \in Ops
          /\ Become(s, [Idle EXCEPT !.pc = "rename", !.cat = c,
                                    !.old = [name |-> n, count |-> 0]])
       \/ /\ "dropCategory" \in Ops
          /\ Become(s, [Idle EXCEPT !.pc = "drop", !.cat = c])
    /\ UNCHANGED <<cats, svcs, used, cache, asked, late>>

\* An UPDATE, which may find no row.
RenameCategory(s) ==
    LET c == req[s].cat IN
    /\ req[s].pc = "rename"
    /\ cats' = [cats EXCEPT ![c] = IF @ = None THEN None
                                   ELSE [@ EXCEPT !.name = req[s].old.name]]
    /\ WriteUnkeyed(s)
    /\ UNCHANGED <<svcs, used, asked>>

\* Mutant: the foreign key does not keep a category that has services.
DropCategoryAnyway(s) ==
    LET c == req[s].cat IN
    /\ req[s].pc = "drop"
    /\ cats' = [cats EXCEPT ![c] = None]
    /\ WriteUnkeyed(s)
    /\ UNCHANGED <<svcs, used, asked>>

\* A category that has services cannot go.
DropCategory(s) ==
    LET c == req[s].cat IN
    /\ req[s].pc = "drop"
    /\ \/ /\ \A v \in Svc : svcs[v] # None => svcs[v].cat # c
          /\ cats' = [cats EXCEPT ![c] = None]
          /\ WriteUnkeyed(s)
       \/ /\ \E v \in Svc : svcs[v] # None /\ svcs[v].cat = c
          /\ Become(s, Idle)
          /\ UNCHANGED <<cats, cache, late>>
    /\ UNCHANGED <<svcs, used, asked>>

\* What is left to the writers that clear the cache last.
ClearLast(s) ==
    /\ req[s].pc = "clear"
    /\ ClearCache
    /\ Become(s, Idle)
    /\ UNCHANGED <<cats, svcs, used, asked>>

-----------------------------------------------------------------------------
(* ServicesService.create *)

\* The reads: the category and the members.
BeginCreate(s, c, v) ==
    /\ "addService" \in Ops
    /\ req[s] = Idle
    /\ cats[c] # None
    /\ v \notin used
    /\ used' = used \cup {v}
    /\ asked' = [asked EXCEPT ![v] = c]
    /\ Become(s, [Idle EXCEPT !.pc = "create", !.cat = c, !.old = cats[c], !.svc = v,
                  !.row = [cat |-> c, package |-> FALSE, parts |-> {}, size |-> 0]])
    /\ UNCHANGED <<cats, svcs, cache, late>>

\* The cache is cleared and both writes are started; only the save is awaited.
StartCreate(s) ==
    /\ req[s].pc = "create"
    /\ ClearCache
    /\ Become(s, [req[s] EXCEPT !.pc = "both", !.todo = {"count", "save"}])
    /\ UNCHANGED <<cats, svcs, used, asked>>

Without(r, item) ==
    IF r.todo \ {item} = {} THEN Idle ELSE [r EXCEPT !.todo = @ \ {item}]

\* Mutant: the service is counted for itself and for its package.
CountUsageTwice(s) ==
    LET c == req[s].cat IN
    /\ "count" \in req[s].todo
    /\ cats' = [cats EXCEPT ![c] = IF @ = None THEN None
                                   ELSE [@ EXCEPT !.count = req[s].old.count + 2]]
    /\ WriteLast(s, Without(req[s], "count"))
    /\ UNCHANGED <<svcs, used, asked>>

CountUsage(s) ==
    LET c == req[s].cat IN
    /\ "count" \in req[s].todo
    /\ cats' = [cats EXCEPT ![c] = IF @ = None THEN None
                                   ELSE [@ EXCEPT !.count = req[s].old.count + 1]]
    /\ WriteLast(s, Without(req[s], "count"))
    /\ UNCHANGED <<svcs, used, asked>>

SaveCreated(s) ==
    /\ "save" \in req[s].todo
    /\ cats' = [cats EXCEPT ![req[s].cat] = req[s].old]
    /\ svcs' = [svcs EXCEPT ![req[s].svc] = req[s].row]
    /\ WriteLast(s, Without(req[s], "save"))
    /\ UNCHANGED <<used, asked>>

-----------------------------------------------------------------------------
(* ServicesService.createPackage and updatePackage *)

Package(c, P) == [cat |-> c, package |-> TRUE, parts |-> P, size |-> Cardinality(P)]

BeginPackage(s, c, P, v) ==
    /\ req[s] = Idle
    /\ \/ "addPackage" \in Ops /\ v \notin used
       \/ "updatePackage" \in Ops /\ svcs[v] # None /\ svcs[v].package
    /\ used' = used \cup {v}
    /\ Become(s, [Idle EXCEPT !.pc = "parts", !.cat = c, !.svc = v, !.row = Package(c, P)])
    /\ UNCHANGED <<cats, svcs, cache, asked, late>>

\* Mutant: a package may include packages.
ReadPartsAny(s) ==
    /\ req[s].pc = "parts"
    /\ IF cats[req[s].cat] # None /\ \A v \in req[s].row.parts : svcs[v] # None
         THEN Become(s, [req[s] EXCEPT !.pc = "package", !.old = cats[req[s].cat]])
         ELSE Become(s, Idle)
    /\ UNCHANGED <<cats, svcs, used, cache, asked, late>>

\* The category, the members and the services to include.
ReadParts(s) ==
    /\ req[s].pc = "parts"
    /\ IF cats[req[s].cat] # None /\ Includable(req[s].row.parts)
         THEN Become(s, [req[s] EXCEPT !.pc = "package", !.old = cats[req[s].cat]])
         ELSE Become(s, Idle)
    /\ UNCHANGED <<cats, svcs, used, cache, asked, late>>

StartPackage(s) ==
    /\ req[s].pc = "package"
    /\ ClearCache
    /\ Become(s, [req[s] EXCEPT !.pc = "save"])
    /\ UNCHANGED <<cats, svcs, used, asked>>

\* The rows of service_package need their services.
SavePackage(s) ==
    LET r == req[s] IN
    /\ r.pc = "save"
    /\ \/ /\ \A v \in r.row.parts : svcs[v] # None
          /\ cats' = [cats EXCEPT ![r.cat] = r.old]
          /\ svcs' = [svcs EXCEPT ![r.svc] = r.row]
          /\ WriteLast(s, Idle)
       \/ /\ \E v \in r.row.parts : svcs[v] = None
          /\ Become(s, Idle)
          /\ UNCHANGED <<cats, svcs, cache, late>>
    /\ UNCHANGED <<used, asked>>

-----------------------------------------------------------------------------
(* ServicesService.update and remove *)

\* The service is read, for remove with its category.
FindService(s, v, c) ==
    /\ req[s] = Idle
    /\ svcs[v] # None
    /\ \/ /\ "updateService" \in Ops
          /\ Become(s, [Idle EXCEPT !.pc = "category", !.svc = v, !.cat = c,
                                    !.row = svcs[v]])
       \/ /\ "removeService" \in Ops
          /\ Become(s, [Idle EXCEPT !.pc = "strip", !.svc = v, !.row = svcs[v],
                        !.cat = svcs[v].cat, !.old = cats[svcs[v].cat]])
    /\ UNCHANGED <<cats, svcs, used, cache, asked, late>>

FindNewCategory(s) ==
    LET c == req[s].cat IN
    /\ req[s].pc = "category"
    /\ IF cats[c] = None THEN Become(s, Idle)
       ELSE Become(s, [req[s] EXCEPT !.pc = "update", !.old = cats[c], !.row.cat = c])
    /\ UNCHANGED <<cats, svcs, used, cache, asked, late>>

\* save with the services a row of the table includes now, none if it is new.
Resaved(r) ==
    [r.row EXCEPT !.parts = IF svcs[r.svc] = None THEN {} ELSE svcs[r.svc].parts]

\* Mutant: update leaves the cache alone.
SaveUpdatedUncleared(s) ==
    /\ req[s].pc = "update"
    /\ cats' = [cats EXCEPT ![req[s].cat] = req[s].old]
    /\ svcs' = [svcs EXCEPT ![req[s].svc] = Resaved(req[s])]
    /\ WriteFirst(s, Idle)
    /\ UNCHANGED <<used, asked>>

SaveUpdated(s) ==
    /\ req[s].pc = "update"
    /\ cats' = [cats EXCEPT ![req[s].cat] = req[s].old]
    /\ svcs' = [svcs EXCEPT ![req[s].svc] = Resaved(req[s])]
    /\ WriteFirst(s, [Idle EXCEPT !.pc = "clear"])
    /\ UNCHANGED <<used, asked>>

\* remove saves the service without members, and a package without services, ...
StripService(s) ==
    LET r == req[s] IN
    /\ r.pc = "strip"
    /\ cats' = [cats EXCEPT ![r.cat] = r.old]
    /\ svcs' = [svcs EXCEPT ![r.svc] = IF r.row.package THEN [r.row EXCEPT !.parts = {}]
                                       ELSE Resaved(r)]
    /\ WriteFirst(s, [Idle EXCEPT !.pc = "delete", !.svc = r.svc])
    /\ UNCHANGED <<used, asked>>

\* ... and deletes it; it leaves the packages that include it.
DeleteService(s) ==
    LET d == req[s].svc IN
    /\ req[s].pc = "delete"
    /\ svcs' = [v \in Svc |-> IF v = d \/ svcs[v] = None THEN None
                              ELSE [svcs[v] EXCEPT !.parts = @ \ {d}]]
    /\ WriteFirst(s, [Idle EXCEPT !.pc = "clear"])
    /\ UNCHANGED <<cats, used, asked>>

-----------------------------------------------------------------------------
(* Failures *)

\* A crash empties the cache.
Crash ==
    /\ Faulty
    /\ ClearCache
    /\ req' = [s \in Slot |-> Idle]
    /\ UNCHANGED <<cats, svcs, used, asked>>

\* An error ends the request, and what it wrote before stays without a clear;
\* nobody handles an error of the count, which ends the process (Crash).
StatementFails(s) ==
    /\ Faulty
    /\ req[s].pc \notin {"idle", "clear"}
    /\ Become(s, IF "count" \in req[s].todo THEN [req[s] EXCEPT !.todo = {"count"}]
                 ELSE Idle)
    /\ late' = (late \/ (req[s].pc = "delete" /\ cache # None))
    /\ UNCHANGED <<cats, svcs, used, cache, asked>>

-----------------------------------------------------------------------------
(* The specification *)

Begin(s) ==
    \/ MissList(s)
    \/ \E n \in Name : CheckName(s, n)
    \/ \E c \in Cat, n \in Name : FindCategory(s, c, n)
    \/ \E c \in Cat, v \in Svc : BeginCreate(s, c, v) \/ FindService(s, v, c)
    \/ \E c \in Cat, P \in SUBSET Svc, v \in Svc : BeginPackage(s, c, P, v)

Step(s) ==
    \/ QueryList(s) \/ FillCache(s)
    \/ InsertCategory(s) \/ RenameCategory(s) \/ DropCategory(s) \/ ClearLast(s)
    \/ StartCreate(s) \/ CountUsage(s) \/ SaveCreated(s)
    \/ ReadParts(s) \/ StartPackage(s) \/ SavePackage(s)
    \/ FindNewCategory(s) \/ SaveUpdated(s) \/ StripService(s) \/ DeleteService(s)

Next ==
    \/ \E s \in Slot : Begin(s) \/ Step(s) \/ StatementFails(s)
    \/ Expire
    \/ Crash

Spec == Init /\ [][Next]_vars

-----------------------------------------------------------------------------
(* Properties *)

\* Every variable has its type.
TypeOK ==
    /\ cats \in [Cat -> CategoryRow \cup {None}]
    /\ svcs \in [Svc -> ServiceRow \cup {None}]
    /\ used \subseteq Cat \cup Svc
    /\ cache \in List
    /\ req \in [Slot -> Request]
    /\ asked \in [Svc -> Cat \cup {None}]
    /\ late \in BOOLEAN

\* The cached list is what the database holds, or the request that made it dated
\* is about to clear it.  The rest is late: the writers that clear the cache
\* first or clear nobody's key, a list that was read before a write and cached
\* after it, and a removal that failed half way.
ListCurrent ==
    cache = "dated" => late \/ \E s \in Slot : req[s].pc \in {"clear", "delete"}

\* However the writers of services and categories overlap, a service never loses
\* its category: one that is dropped while a service of it is on its way comes
\* back with the service.
ServicesCategorized ==
    \A v \in Svc : svcs[v] # None => cats[svcs[v].cat] # None

\* What a package includes is there and is no package itself, whatever was
\* removed, updated or saved again meanwhile.
PackagesOfServices ==
    \A v \in Svc : svcs[v] # None => \A w \in svcs[v].parts : Single(w)

Counted(c) == Cardinality({v \in Svc : asked[v] = c})

\* Creates of services that overlap may lose counts, and never invent one.
CountBounded == \A c \in Cat : cats[c] # None => cats[c].count <= Counted(c)

-----------------------------------------------------------------------------
(* The inductive invariant behind the safety properties *)

\* An id is the one of a service or of a package for good: those asked for by
\* create are services.
Kinds ==
    \A v \in Svc :
       /\ asked[v] # None => v \in used
       /\ svcs[v] # None => v \in used /\ (svcs[v].package <=> asked[v] = None)

\* Where a request is when it has a service in hand, and when it is going to
\* save it with the category it has read.
Handling == {"create", "both", "parts", "package", "save", "category", "update", "strip"}
Saving == {"create", "both", "package", "save", "update", "strip"}

\* What a request carries, and that it still stands.
Fit(r) ==
    /\ r.svc \in used \cup {None}
    /\ r.todo # {} <=> r.pc = "both"
    /\ r.pc \in {"insert", "rename"} => r.old # None /\ r.old.count = 0
    /\ r.pc \in {"rename", "drop", "category"} => r.cat # None
    /\ r.pc \in Handling \cup {"delete"} => r.svc # None
    /\ r.pc \in Handling => r.row # None /\ (r.row.package <=> asked[r.svc] = None)
    /\ r.pc \in Saving \cup {"parts"} => r.row.cat = r.cat
    /\ r.pc \in Saving => r.old # None /\ r.old.count <= Counted(r.cat)
    /\ r.pc \in {"create", "both"} => r.row.parts = {} /\ r.old.count < Counted(r.cat)
    /\ r.pc \in {"package", "save"} => \A v \in r.row.parts : asked[v] # None

CInv ==
    /\ TypeOK
    /\ ListCurrent
    /\ Kinds
    /\ ServicesCategorized
    /\ PackagesOfServices
    /\ CountBounded
    /\ \A s \in Slot : Fit(req[s])

=============================================================================
