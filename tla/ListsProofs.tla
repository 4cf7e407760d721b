----------------------------- MODULE ListsProofs -----------------------------
(* Proofs about Lists for any number of pages, requests and writes, and any
   lifetimes of the entries. *)
EXTENDS Lists, TLAPS

-----------------------------------------------------------------------------
(* The tables of the module *)

LEMMA HandlerLength ==
    ASSUME NEW h \in Handler
    PROVE  Len(Handlers[h].steps) \in 1 .. 4
  BY DEF Handler, Handlers, Does, CreateClient, UpdateClient, RemoveClient, CreateProduct,
         UpdateProduct, RemoveProduct, ReduceStock, CreateBrand, UpdateBrand, RemoveBrand,
         EmailByOrg, RemoveEmail, CreateMember, UpdateMember, RemoveMember, AssignMembers,
         DefaultSchedule, CreateSchedule, UpdateSchedule, UpdateSchedules, RemoveSchedule,
         CreateFavourite, RemoveFavourite, RemoveFavourites, CreateUser, UpdateProfile,
         RemoveUser, SampleBrand, SampleProduct, ChangeBooking, ChangeDetails,
         ChangeOrganization, RemoveOrg, RemoveService, RemoveCategory, CreatePassword, Staff

LEMMA Lifetimes ==
    ASSUME NEW l \in List
    PROVE  Listed[l].ttl \in 1 .. Longest
  BY ListsAssumption
     DEF List, Listed, Longest, ClientList, ProductList, BrandList, EmailList, MemberList,
         ScheduleList, FavouriteList, UserList, Profile, AppointmentList, OrgDetails

LEMMA SharedKeys ==
    ASSUME NEW l \in List, ~Listed[l].keyed, l \in Paged
    PROVE  l = "users"
  BY DEF Paged

\* The courses handlers take.
ClearedLast ==
    {<<"write", "clear">>, <<"check", "write", "clear">>,
     <<"check", "check", "write", "clear">>, <<"check", "write", "write", "clear">>}

Courses ==
    ClearedLast \cup {<<"write">>, <<"check", "write">>, <<"check", "check", "write">>,
                      <<"check", "write", "write">>, <<"check", "clear", "write">>}

LEMMA HandlerCourse ==
    ASSUME NEW h \in Handler
    PROVE  Handlers[h].steps \in Courses
  BY DEF Courses, ClearedLast, Handler, Handlers, Does, CreateClient, UpdateClient, RemoveClient, CreateProduct,
         UpdateProduct, RemoveProduct, ReduceStock, CreateBrand, UpdateBrand, RemoveBrand,
         EmailByOrg, RemoveEmail, CreateMember, UpdateMember, RemoveMember, AssignMembers,
         DefaultSchedule, CreateSchedule, UpdateSchedule, UpdateSchedules, RemoveSchedule,
         CreateFavourite, RemoveFavourite, RemoveFavourites, CreateUser, UpdateProfile,
         RemoveUser, SampleBrand, SampleProduct, ChangeBooking, ChangeDetails,
         ChangeOrganization, RemoveOrg, RemoveService, RemoveCategory, CreatePassword, Staff

LEMMA HandlerClears ==
    ASSUME NEW h \in Handler, NEW l \in Handlers[h].changes, <<h, l>> \notin Leaves
    PROVE  /\ Handlers[h].steps \in ClearedLast
           /\ Handlers[h].clears = l \/ (h = "createMember" /\ l = "schedules")
<1>1. l \in List
  BY DEF List, Listed, Handler, Handlers, Does, CreateClient, UpdateClient, RemoveClient, CreateProduct,
             UpdateProduct, RemoveProduct, ReduceStock, CreateBrand, UpdateBrand, RemoveBrand,
             EmailByOrg, RemoveEmail, CreateMember, UpdateMember, RemoveMember, AssignMembers,
             DefaultSchedule, CreateSchedule, UpdateSchedule, UpdateSchedules, RemoveSchedule,
             CreateFavourite, RemoveFavourite, RemoveFavourites, CreateUser, UpdateProfile,
             RemoveUser, SampleBrand, SampleProduct, ChangeBooking, ChangeDetails,
             ChangeOrganization, RemoveOrg, RemoveService, RemoveCategory, CreatePassword, Staff
<1>2. l \notin {"appointments", "details"} /\ h \notin {"removeUser", "removeOrg"}
  BY <1>1 DEF Leaves
<1>3. /\ l = "favourites"
            => h \notin {"createFavourite", "removeFavourites", "changeOrganization"}
      /\ l = "members"
            => h \notin {"createPassword", "assignMembers", "removeService", "removeCategory"}
      /\ l = "schedules"
            => h \notin {"createPassword", "updateMember", "removeMember", "createSchedule",
                         "removeSchedule"}
      /\ l = "users" => h \notin {"createUser", "updateProfile"}
  BY DEF Leaves
<1>4. /\ l = "clients" => h # "removeClient"
      /\ l = "products" => h \notin {"reduceStock", "sampleProduct"}
      /\ l = "brands" => h # "sampleBrand"
      /\ l = "emails" => h # "emailByOrg"
  BY DEF Leaves
<1>5. QED
  BY <1>2, <1>3, <1>4
     DEF ClearedLast, Handler, Handlers, Does, CreateClient, UpdateClient, RemoveClient, CreateProduct,
             UpdateProduct, RemoveProduct, ReduceStock, CreateBrand, UpdateBrand, RemoveBrand,
             EmailByOrg, RemoveEmail, CreateMember, UpdateMember, RemoveMember, AssignMembers,
             DefaultSchedule, CreateSchedule, UpdateSchedule, UpdateSchedules, RemoveSchedule,
             CreateFavourite, RemoveFavourite, RemoveFavourites, CreateUser, UpdateProfile,
             RemoveUser, SampleBrand, SampleProduct, ChangeBooking, ChangeDetails,
             ChangeOrganization, RemoveOrg, RemoveService, RemoveCategory, CreatePassword, Staff

\* No handler looks for something once it has written.
LEMMA ChecksFirst ==
    ASSUME NEW c \in Courses, NEW i \in 1 .. Len(c), NEW k \in 1 .. Len(c),
           c[i] = "check", c[k] = "write"
    PROVE  i < k
<1>1. CASE c = <<"write", "clear">> \/ c = <<"write">>
  BY <1>1
<1>2. CASE c = <<"check", "write", "clear">> \/ c = <<"check", "write">>
  BY <1>2
<1>3. CASE c = <<"check", "check", "write", "clear">> \/ c = <<"check", "check", "write">>
  BY <1>3
<1>4. CASE c = <<"check", "write", "write", "clear">> \/ c = <<"check", "write", "write">>
  BY <1>4
<1>5. CASE c = <<"check", "clear", "write">>
  BY <1>5
<1>6. QED BY <1>1, <1>2, <1>3, <1>4, <1>5 DEF Courses, ClearedLast

\* After its last write comes the clear.
LEMMA WritesThenClears ==
    ASSUME NEW c \in ClearedLast, NEW i \in 1 .. Len(c), c[i] = "write"
    PROVE  i < Len(c) /\ c[Len(c)] = "clear"
<1>1. CASE c = <<"write", "clear">>
  BY <1>1
<1>2. CASE c = <<"check", "write", "clear">>
  BY <1>2
<1>3. CASE c = <<"check", "check", "write", "clear">>
  BY <1>3
<1>4. CASE c = <<"check", "write", "write", "clear">>
  BY <1>4
<1>5. QED BY <1>1, <1>2, <1>3, <1>4 DEF ClearedLast

\* Who listens, and to what.
LEMMA ScheduleListener ==
    /\ Listeners \cup Routed \subseteq Handler
    /\ {"query", "fill"} \cap Handler = {}
    /\ Handlers["defaultSchedule"].changes = {"schedules"}
    /\ \A h \in Listeners : "schedules" \in Handlers[h].changes => h = "defaultSchedule"
<1>1. {"query", "fill"} \cap Handler = {}
  BY DEF Handler, Handlers
<1>2. Listeners \subseteq Handler
  BY DEF Handler, Handlers, Listeners
<1>3. Routed \subseteq Handler
  BY DEF Handler, Handlers, Routed, ClientsController, ProductsController, BrandsController,
         EmailsController, MembersController, MemberScheduleController,
         FavouritesController, UsersController
<1>4. /\ Handlers["defaultSchedule"].changes = {"schedules"}
      /\ Handlers["sampleBrand"].changes = {"brands"}
      /\ Handlers["sampleProduct"].changes = {"products"}
  BY DEF Handlers, DefaultSchedule, SampleBrand, SampleProduct, Does
<1>5. QED BY <1>1, <1>2, <1>3, <1>4 DEF Listeners

LEMMA DefaultScheduleIs ==
    /\ Handlers["defaultSchedule"].clears = "schedules"
    /\ Handlers["defaultSchedule"].steps = <<"check", "write", "clear">>
  BY DEF Handlers, DefaultSchedule, Does

-----------------------------------------------------------------------------
(* The inductive invariant *)

\* A handler is at one of its steps and changes the list, and only the lists
\* with more than one page are asked for another page than the first.
WellFormed(s) ==
    /\ Works(s) => req[s].step \in 1 .. Len(Doing(s).steps) /\ Changes(req[s].does)
    /\ req[s].does \in {"query", "fill"} => req[s].page = 1 \/ list \in Paged

ListsInv ==
    /\ TypeOK
    /\ \A s \in Slot : WellFormed(s)
    /\ PageAsked
    /\ ClearedAfterWrite

-----------------------------------------------------------------------------
(* What a step does to the requests *)

LEMMA IdleIs ==
    /\ Idle \in Request /\ Idle.does = None /\ Idle.does \notin Handler \cup {"query", "fill"}
    /\ 1 \in Page
  BY ListsAssumption, NoneAssumption DEF Idle, Request, Page, Version

\* The slot s goes on as r.
Moves(s, r) ==
    /\ Become(s, r)
    /\ r \in Request
    /\ r.does \in Handler =>
          r.step \in 1 .. Len(Handlers[r.does].steps) /\ Changes(r.does)
    /\ r.does \in {"query", "fill"} => r.page = 1 \/ list \in Paged

LEMMA MovesFormed ==
    ASSUME ListsInv, NEW s \in Slot, NEW r, Moves(s, r), list' = list
    PROVE  /\ req' \in [Slot -> Request]
           /\ \A t \in Slot : WellFormed(t)'
           /\ req'[s] = r
           /\ \A t \in Slot \ {s} : req'[t] = req[t]
<1>1. req' \in [Slot -> Request] /\ req'[s] = r /\ \A t \in Slot \ {s} : req'[t] = req[t]
  BY DEF ListsInv, TypeOK, Moves, Become
<1>2. ASSUME NEW t \in Slot
      PROVE  WellFormed(t)'
  <2>1. CASE t = s
    BY <1>1, <2>1, list' = list DEF Moves, WellFormed, Works, Doing, Changes
  <2>2. CASE t # s
    BY <1>1, <2>2, list' = list DEF ListsInv, WellFormed, Works, Doing, Changes
  <2>3. QED BY <2>1, <2>2
<1>3. QED BY <1>1, <1>2

LEMMA IdleMoves ==
    ASSUME ListsInv, NEW s \in Slot, Become(s, Idle)
    PROVE  Moves(s, Idle)
  BY IdleIs DEF Moves

\* A handler goes on to its next step, or ends.
LEMMA ProceedMoves ==
    ASSUME ListsInv, NEW s \in Slot, Works(s), Proceed(s)
    PROVE  \E r : /\ Moves(s, r)
                  /\ \/ r = Idle /\ req[s].step = Len(Doing(s).steps)
                     \/ /\ r.does = req[s].does /\ r.step = req[s].step + 1
                        /\ req[s].step < Len(Doing(s).steps)
<1>1. /\ req[s] \in Request /\ req[s].does \in Handler
      /\ req[s].step \in 1 .. Len(Doing(s).steps) /\ Changes(req[s].does)
      /\ Len(Doing(s).steps) \in 1 .. 4
  BY HandlerLength DEF ListsInv, TypeOK, WellFormed, Works, Doing
<1>2. CASE req[s].step = Len(Doing(s).steps)
  BY <1>2, IdleMoves DEF Proceed
<1>3. CASE req[s].step # Len(Doing(s).steps)
  <2> DEFINE r == [req[s] EXCEPT !.step = @ + 1]
  <2>1. /\ r \in Request /\ r.does = req[s].does /\ r.step = req[s].step + 1
        /\ r.step \in 1 .. Len(Doing(s).steps) /\ req[s].step < Len(Doing(s).steps)
    <3> DEFINE n == Len(Doing(s).steps)
    <3>1. n \in 1 .. 4 /\ req[s].step \in 1 .. n /\ req[s].step # n
      BY <1>1, <1>3
    <3> HIDE DEF n
    <3>2. req[s].step + 1 \in 1 .. n /\ req[s].step + 1 \in 0 .. 4 /\ req[s].step < n
      BY <3>1
    <3>3. r \in Request /\ r.does = req[s].does /\ r.step = req[s].step + 1
      BY <1>1, <3>2 DEF Request
    <3>4. QED BY <3>2, <3>3 DEF n
  <2>2. Become(s, r)
    BY <1>3 DEF Proceed
  <2> HIDE DEF r
  <2>3. r.does \notin {"query", "fill"}
    BY <1>1, <2>1, ScheduleListener
  <2>4. Moves(s, r)
    BY <1>1, <2>1, <2>2, <2>3 DEF Moves, Doing
  <2>5. QED BY <2>1, <2>4
<1>4. QED BY <1>2, <1>3

-----------------------------------------------------------------------------
(* Who owes a clear *)

\* What the others owe is still owed after a step of s, and what s owes if s
\* sees to it.
LEMMA OwedStays ==
    ASSUME NEW s \in Slot, list' = list, \A t \in Slot \ {s} : req'[t] = req[t],
           Owing(s) /\ Doing(s).clears = list => Owed',
           list = "schedules" /\ emitted > 0 => Owed',
           list = "schedules" /\ req[s].does = "defaultSchedule" => Owed',
           list = "schedules" /\ req[s].does = "createMember" /\ Owing(s) => Owed',
           Owed
    PROVE  Owed'
<1>1. ASSUME NEW t \in Slot, t # s
      PROVE  /\ Owing(t) => Owing(t)'
             /\ req'[t].does = req[t].does /\ Doing(t)' = Doing(t)
  BY <1>1 DEF Owing, Behind, Ahead, Works, Doing
<1>2. CASE \E t \in Slot : Owing(t) /\ Doing(t).clears = list
  BY <1>1, <1>2 DEF Owed
<1>3. CASE list = "schedules" /\ Announced
  BY <1>1, <1>3 DEF Owed, Announced
<1>4. QED BY <1>2, <1>3 DEF Owed

\* One that works on no handler owes nothing.
LEMMA FreeOwesNothing ==
    ASSUME NEW s \in Slot, list' = list, \A t \in Slot \ {s} : req'[t] = req[t],
           req[s].does \notin Handler, list = "schedules" /\ emitted > 0 => Owed', Owed
    PROVE  Owed'
<1>1. ~Owing(s)
  BY DEF Owing, Behind, Works
<1>2. req[s].does # "defaultSchedule" /\ req[s].does # "createMember"
  BY ScheduleListener DEF Handler, Handlers
<1>3. QED BY <1>1, <1>2, OwedStays

\* Nothing happens to the cache.
LEMMA CacheKept ==
    ASSUME ListsInv, UNCHANGED <<list, watched, version, cache>>,
           excused \subseteq excused', excused' \subseteq Page, emitted' \in Nat,
           req' \in [Slot -> Request], \A t \in Slot : WellFormed(t)',
           Owed => Owed' \/ 1 \in excused'
    PROVE  ListsInv'
<1>1. TypeOK'
  BY DEF ListsInv, TypeOK
<1>2. PageAsked' /\ ClearedAfterWrite'
  BY DEF ListsInv, PageAsked, ClearedAfterWrite
<1>3. QED BY <1>1, <1>2 DEF ListsInv

-----------------------------------------------------------------------------
(* The steps of the handlers *)

LEMMA StartMoves ==
    ASSUME ListsInv, NEW s \in Slot, NEW h \in Handler, Changes(h), Start(s, h)
    PROVE  \E r : Moves(s, r) /\ r.does = h
<1> DEFINE r == [Idle EXCEPT !.does = h, !.step = 1]
<1>1. r \in Request /\ r.does = h /\ r.step = 1
  <2>1. Idle \in Request
    BY IdleIs
  <2>2. h \in Handler \cup {"query", "fill", None} /\ 1 \in 0 .. 4
    OBVIOUS
  <2>3. QED BY <2>1, <2>2 DEF Request
<1>2. Become(s, r)
  BY DEF Start
<1> HIDE DEF r
<1>3. h \notin {"query", "fill"} /\ Len(Handlers[h].steps) \in 1 .. 4
  BY ScheduleListener, HandlerLength
<1>4. 1 \in 1 .. Len(Handlers[h].steps)
  <2> DEFINE n == Len(Handlers[h].steps)
  <2>1. n \in 1 .. 4
    BY <1>3
  <2> HIDE DEF n
  <2>2. 1 \in 1 .. n
    BY <2>1
  <2>3. QED BY <2>2 DEF n
<1>5. Moves(s, r)
  BY <1>1, <1>2, <1>3, <1>4 DEF Moves
<1>6. QED BY <1>1, <1>5

LEMMA BeginStep ==
    ASSUME ListsInv, NEW s \in Slot, NEW h \in Handler, Begin(s, h) \/ StartListener(s, h)
    PROVE  ListsInv'
<1>1. PICK r : Moves(s, r) /\ r.does = h
  BY StartMoves DEF Begin, StartListener
<1>2. /\ UNCHANGED <<list, watched, version, cache, excused>>
      /\ req[s] = Idle /\ Changes(h)
      /\ \/ emitted' = emitted
         \/ emitted > 0 /\ emitted' = emitted - 1 /\ h \in Listeners
  BY DEF Begin, StartListener, Start
<1>3. /\ req' \in [Slot -> Request] /\ \A t \in Slot : WellFormed(t)'
      /\ req'[s].does = h /\ \A t \in Slot \ {s} : req'[t] = req[t]
  BY <1>1, <1>2, MovesFormed
<1>4. emitted \in Nat /\ emitted' \in Nat /\ excused \subseteq Page
  BY <1>2 DEF ListsInv, TypeOK
<1>5. ASSUME list = "schedules", emitted > 0
      PROVE  Owed'
  <2>1. emitted' > 0 \/ h = "defaultSchedule"
    BY <1>2, <1>5, ScheduleListener DEF Changes
  <2>2. QED BY <1>2, <1>3, <1>5, <2>1 DEF Owed, Announced
<1>6. Owed => Owed'
  BY <1>2, <1>3, <1>5, IdleIs, FreeOwesNothing
<1>7. QED BY <1>2, <1>3, <1>4, <1>6, CacheKept

LEMMA CheckStep ==
    ASSUME ListsInv, NEW s \in Slot, Check(s)
    PROVE  ListsInv'
<1> DEFINE c == Doing(s).steps
           i == req[s].step
<1>1. /\ Works(s) /\ c[i] = "check" /\ i \in 1 .. Len(c) /\ c \in Courses
      /\ Len(c) \in 1 .. 4
  BY HandlerCourse, HandlerLength DEF Check, At, Works, Doing, ListsInv, WellFormed
<1>2. UNCHANGED <<list, watched, version, cache, emitted, excused>>
  BY DEF Check
<1>3. ~Owing(s)
  <2>1. ASSUME NEW k \in 1 .. i - 1, c[k] = "write"
        PROVE  FALSE
    <3>1. k \in 1 .. Len(c) /\ k < i
      BY <1>1
    <3>2. i < k
      BY <1>1, <2>1, <3>1, ChecksFirst
    <3>3. QED BY <1>1, <3>1, <3>2
  <2>2. QED BY <2>1 DEF Owing, Behind
<1> HIDE DEF c, i
<1>4. PICK r : /\ Moves(s, r)
               /\ req[s].does = "defaultSchedule" => r.does = "defaultSchedule"
  <2>1. CASE Proceed(s)
    <3>1. PICK r : /\ Moves(s, r)
                   /\ \/ r = Idle /\ i = Len(c)
                      \/ r.does = req[s].does
      BY <1>1, <2>1, ProceedMoves DEF c, i
    <3>2. CASE req[s].does = "defaultSchedule"
      <4>1. c = <<"check", "write", "clear">>
        BY <3>2, DefaultScheduleIs DEF c, Doing
      <4>2. i # Len(c)
        BY <1>1, <4>1
      <4>3. QED BY <3>1, <4>2
    <3>3. QED BY <3>1, <3>2
  <2>2. CASE req[s].does \notin Listeners /\ Become(s, Idle)
    BY <2>2, IdleMoves DEF Listeners
  <2>3. QED BY <2>1, <2>2 DEF Check
<1>5. /\ req' \in [Slot -> Request] /\ \A t \in Slot : WellFormed(t)'
      /\ req'[s] = r /\ \A t \in Slot \ {s} : req'[t] = req[t]
  BY <1>2, <1>4, MovesFormed
<1>6. /\ list = "schedules" /\ emitted > 0 => Owed'
      /\ list = "schedules" /\ req[s].does = "defaultSchedule" => Owed'
  BY <1>2, <1>4, <1>5 DEF Owed, Announced
<1>7. Owed => Owed'
  BY <1>2, <1>3, <1>5, <1>6, OwedStays
<1>8. emitted \in Nat /\ excused \subseteq Page
  BY DEF ListsInv, TypeOK
<1>9. QED BY <1>2, <1>5, <1>7, <1>8, CacheKept

LEMMA WriteStep ==
    ASSUME ListsInv, NEW s \in Slot, Write(s)
    PROVE  ListsInv'
<1> DEFINE h == req[s].does
           c == Doing(s).steps
           i == req[s].step
<1>1. /\ h \in Handler /\ Works(s) /\ c[i] = "write" /\ i \in 1 .. Len(c) /\ Changes(h)
      /\ Len(c) \in 1 .. 4 /\ c = Handlers[h].steps
  BY HandlerLength DEF Write, At, Works, Doing, ListsInv, WellFormed
<1>2. /\ version' = version + 1 /\ version' \in Version /\ version \in Nat
      /\ excused' = IF <<h, list>> \in Leaves THEN excused \cup {1} ELSE excused
      /\ UNCHANGED <<list, watched, cache, emitted>>
  BY ListsAssumption DEF Write, ListsInv, TypeOK, Version
<1>3. PICK r : /\ Moves(s, r)
               /\ \/ r = Idle /\ i = Len(c)
                  \/ r.does = h /\ r.step = i + 1 /\ i < Len(c)
  BY <1>1, ProceedMoves DEF Write
<1>4. /\ req' \in [Slot -> Request] /\ \A t \in Slot : WellFormed(t)'
      /\ req'[s] = r /\ \A t \in Slot \ {s} : req'[t] = req[t]
  BY <1>2, <1>3, MovesFormed
<1>5. TypeOK'
  BY <1>2, <1>4, IdleIs DEF ListsInv, TypeOK
<1>6. PageAsked'
  BY <1>2 DEF ListsInv, PageAsked
<1>7. CASE <<h, list>> \in Leaves
  BY <1>2, <1>4, <1>5, <1>6, <1>7 DEF ListsInv, ClearedAfterWrite
<1>8. CASE <<h, list>> \notin Leaves
  <2>1. list \in Handlers[h].changes
    BY <1>1 DEF Changes
  <2>2. c \in ClearedLast /\ (Handlers[h].clears = list \/ (h = "createMember" /\ list = "schedules"))
    BY <1>1, <1>8, <2>1, HandlerClears
  <2>3. i < Len(c) /\ c[Len(c)] = "clear"
    BY <1>1, <2>2, WritesThenClears
  <2>4. r.does = h /\ r.step = i + 1
    BY <1>1, <1>3, <2>3
  <2>5. Works(s)' /\ Doing(s)' = Handlers[h]
    BY <1>1, <1>4, <2>4 DEF Works, Doing
  <2> DEFINE n == Len(c)
  <2>6. i \in 1 .. (i + 1) - 1 /\ n \in i + 1 .. n
    BY <1>1, <2>3
  <2>7. Owing(s)'
    BY <1>1, <1>4, <2>3, <2>4, <2>5, <2>6 DEF Owing, Behind, Ahead
  <2>8. Owed'
    BY <1>2, <1>4, <2>2, <2>4, <2>5, <2>7 DEF Owed, Announced
  <2>9. QED BY <1>4, <1>5, <1>6, <2>8 DEF ListsInv, ClearedAfterWrite
<1>9. QED BY <1>7, <1>8

LEMMA ClearStep ==
    ASSUME ListsInv, NEW s \in Slot, Clear(s)
    PROVE  ListsInv'
<1>1. Works(s) /\ Proceed(s) /\ UNCHANGED <<list, watched, version>>
  BY DEF Clear, At
<1>2. PICK r : Moves(s, r)
  BY <1>1, ProceedMoves
<1>3. /\ req' \in [Slot -> Request] /\ \A t \in Slot : WellFormed(t)'
      /\ req'[s] = r /\ \A t \in Slot \ {s} : req'[t] = req[t]
  BY <1>1, <1>2, MovesFormed
<1>4. /\ emitted' = IF req[s].does = "createMember" /\ Changes("defaultSchedule")
                    THEN emitted + 1 ELSE emitted
      /\ emitted \in Nat /\ emitted' \in Nat /\ excused \subseteq Page
  BY DEF Clear, ListsInv, TypeOK
<1>5. CASE cache' = [cache EXCEPT ![1] = None] /\ excused' = excused \ {1}
  <2>1. TypeOK'
    BY <1>1, <1>3, <1>4, <1>5, IdleIs DEF ListsInv, TypeOK
  <2>2. cache'[1] = None /\ \A p \in Page : cache'[p] # None => cache'[p] = cache[p]
    BY <1>5, IdleIs DEF ListsInv, TypeOK
  <2>3. PageAsked' /\ ClearedAfterWrite'
    BY <1>1, <2>2 DEF ListsInv, PageAsked, ClearedAfterWrite
  <2>4. QED BY <1>3, <2>1, <2>3 DEF ListsInv
<1>6. CASE Doing(s).clears # list /\ UNCHANGED <<cache, excused>>
  <2>1. list = "schedules" => req[s].does # "defaultSchedule"
    BY <1>6, DefaultScheduleIs DEF Doing
  <2>2. list = "schedules" => Changes("defaultSchedule")
    BY ScheduleListener DEF Changes
  <2>3. /\ list = "schedules" /\ emitted > 0 => Owed'
        /\ list = "schedules" /\ req[s].does = "createMember" => Owed'
    BY <1>1, <1>4, <2>2 DEF Owed, Announced
  <2>4. Owed => Owed'
    BY <1>1, <1>3, <1>6, <2>1, <2>3, OwedStays
  <2>5. QED BY <1>1, <1>3, <1>4, <1>6, <2>4, CacheKept
<1>7. QED BY <1>5, <1>6 DEF Clear

-----------------------------------------------------------------------------
(* The steps of findAll *)

\* What a reader will put where.
LEMMA Keys ==
    ASSUME ListsInv, NEW s \in Slot, req[s].does \in {"query", "fill"}
    PROVE  /\ KeyOf(req[s].page) \in Page
           /\ list # "users" => KeyOf(req[s].page) = req[s].page
<1>1. list \in List /\ req[s].page \in Page /\ (req[s].page = 1 \/ list \in Paged)
  BY DEF ListsInv, TypeOK, Request, WellFormed
<1>2. CASE Listed[list].keyed
  BY <1>1, <1>2 DEF KeyOf
<1>3. CASE ~Listed[list].keyed
  BY <1>1, <1>3, IdleIs, SharedKeys DEF KeyOf
<1>4. QED BY <1>2, <1>3

LEMMA ReadStep ==
    ASSUME ListsInv, NEW s \in Slot, Query(s) \/ \E p \in Page : Miss(s, p)
    PROVE  ListsInv'
<1>1. PICK r : Moves(s, r)
  <2>1. ASSUME NEW p \in Page, Miss(s, p)
        PROVE  \E r : Moves(s, r)
    <3> DEFINE r == [Idle EXCEPT !.does = "query", !.page = p]
    <3>1. r \in Request /\ r.does = "query" /\ r.page = p
      BY IdleIs DEF Request
    <3>2. Become(s, r) /\ (p = 1 \/ list \in Paged)
      BY <2>1 DEF Miss
    <3> HIDE DEF r
    <3>3. QED BY <3>1, <3>2, ScheduleListener DEF Moves
  <2>2. ASSUME Query(s)
        PROVE  \E r : Moves(s, r)
    <3> DEFINE r == [req[s] EXCEPT !.does = "fill", !.got = version]
    <3>1. /\ req[s] \in Request /\ version \in Version
          /\ req[s].page = 1 \/ list \in Paged
      BY <2>2 DEF Query, ListsInv, TypeOK, WellFormed
    <3>2. r \in Request /\ r.does = "fill" /\ r.page = req[s].page
      BY <3>1 DEF Request
    <3>3. Become(s, r)
      BY <2>2 DEF Query
    <3> HIDE DEF r
    <3>4. QED BY <3>1, <3>2, <3>3, ScheduleListener DEF Moves
  <2>3. QED BY <2>1, <2>2
<1>2. UNCHANGED <<list, watched, version, cache, emitted, excused>>
  BY DEF Query, Miss
<1>3. /\ req' \in [Slot -> Request] /\ \A t \in Slot : WellFormed(t)'
      /\ \A t \in Slot \ {s} : req'[t] = req[t]
  BY <1>1, <1>2, MovesFormed
<1>4. req[s].does \notin Handler
  BY IdleIs, ScheduleListener DEF Query, Miss
<1>5. Owed => Owed'
  BY <1>2, <1>3, <1>4, FreeOwesNothing DEF Owed, Announced
<1>6. emitted \in Nat /\ excused \subseteq Page
  BY DEF ListsInv, TypeOK
<1>7. QED BY <1>2, <1>3, <1>5, <1>6, CacheKept

LEMMA FillStep ==
    ASSUME ListsInv, NEW s \in Slot, Fill(s)
    PROVE  ListsInv'
<1> DEFINE k == KeyOf(req[s].page)
           e == [got |-> req[s].got, page |-> req[s].page, left |-> Listed[list].ttl]
<1>1. /\ req[s].does = "fill" /\ req[s] \in Request
      /\ k \in Page /\ (list # "users" => k = req[s].page)
  BY Keys DEF Fill, ListsInv, TypeOK
<1>2. /\ cache' = [cache EXCEPT ![k] = e]
      /\ excused' = IF req[s].got = version THEN excused \ {k} ELSE excused \cup {k}
      /\ Become(s, Idle)
      /\ UNCHANGED <<list, watched, version, emitted>>
  BY DEF Fill
<1>3. e \in Entry /\ e.got = req[s].got /\ e.page = req[s].page
  BY <1>1, Lifetimes DEF Entry, Request, ListsInv, TypeOK
<1> HIDE DEF k, e
<1>4. /\ req' \in [Slot -> Request] /\ \A t \in Slot : WellFormed(t)'
      /\ \A t \in Slot \ {s} : req'[t] = req[t]
  BY <1>2, IdleMoves, MovesFormed
<1>5. TypeOK'
  BY <1>1, <1>2, <1>3, <1>4 DEF ListsInv, TypeOK
<1>6. cache'[k] = e /\ \A p \in Page \ {k} : cache'[p] = cache[p]
  BY <1>1, <1>2 DEF ListsInv, TypeOK
<1>7. PageAsked'
  BY <1>1, <1>2, <1>3, <1>6 DEF ListsInv, PageAsked
<1>8. Owed => Owed'
  <2>1. req[s].does \notin Handler
    BY <1>1, ScheduleListener
  <2>2. QED BY <1>2, <1>4, <2>1, FreeOwesNothing DEF Owed, Announced
<1>9. ClearedAfterWrite'
  <2>1. CASE k = 1
    BY <1>2, <1>3, <1>6, <2>1 DEF ClearedAfterWrite
  <2>2. CASE k # 1
    BY <1>2, <1>6, <1>8, <2>2, IdleIs DEF ListsInv, ClearedAfterWrite
  <2>3. QED BY <2>1, <2>2
<1>10. QED BY <1>4, <1>5, <1>7, <1>9 DEF ListsInv

-----------------------------------------------------------------------------
(* Time and faults *)

LEMMA OlderEntry ==
    ASSUME NEW e \in Entry \cup {None}
    PROVE  /\ Older(e) \in Entry \cup {None}
           /\ Older(e) # None => e # None /\ Older(e).got = e.got /\ Older(e).page = e.page
<1>1. CASE e = None \/ e.left = 1
  BY <1>1 DEF Older
<1>2. CASE e # None /\ e.left # 1
  <2>1. e \in Entry /\ Longest \in Nat
    BY <1>2, ListsAssumption DEF Longest
  <2>2. e.left - 1 \in 1 .. Longest
    BY <1>2, <2>1 DEF Entry
  <2>3. [e EXCEPT !.left = @ - 1] \in Entry
    BY <2>1, <2>2 DEF Entry
  <2>4. /\ [e EXCEPT !.left = @ - 1].got = e.got
        /\ [e EXCEPT !.left = @ - 1].page = e.page
    BY <2>1 DEF Entry
  <2>5. QED BY <1>2, <2>3, <2>4 DEF Older
<1>3. QED BY <1>1, <1>2

\* What is kept is what was kept before.
LEMMA TickKeeps ==
    ASSUME ListsInv, Tick, NEW p \in Page
    PROVE  /\ cache'[p] \in Entry \cup {None}
           /\ cache'[p] # None => /\ cache[p] # None /\ cache'[p].got = cache[p].got
                                  /\ cache'[p].page = cache[p].page
                                  /\ p \notin excused' => p \notin excused
<1>1. cache[p] \in Entry \cup {None}
  BY DEF ListsInv, TypeOK
<1>2. cache'[p] = Older(cache[p]) /\ excused' = excused \ {q \in Page : Older(cache[q]) = None}
  BY DEF Tick
<1>3. QED BY <1>1, <1>2, OlderEntry

LEMMA SameRequests ==
    ASSUME UNCHANGED <<list, req, emitted>>
    PROVE  /\ Owed <=> Owed'
           /\ \A t \in Slot : WellFormed(t) => WellFormed(t)'
  BY DEF Owed, Announced, Owing, Behind, Ahead, Works, Doing, WellFormed, Changes

LEMMA TickStep ==
    ASSUME ListsInv, Tick
    PROVE  ListsInv'
<1>1. /\ UNCHANGED <<list, watched, version, req, emitted>>
      /\ cache' = [p \in Page |-> Older(cache[p])] /\ excused' \subseteq excused
  BY DEF Tick
<1>2. cache' \in [Page -> Entry \cup {None}]
  BY <1>1, OlderEntry DEF ListsInv, TypeOK
<1>3. TypeOK'
  BY <1>1, <1>2 DEF ListsInv, TypeOK
<1>4. PageAsked'
  BY <1>1, TickKeeps DEF ListsInv, PageAsked
<1>5. ClearedAfterWrite'
  BY <1>1, TickKeeps, SameRequests, IdleIs DEF ListsInv, ClearedAfterWrite
<1>6. QED BY <1>1, <1>3, <1>4, <1>5, SameRequests DEF ListsInv

LEMMA FailStep ==
    ASSUME ListsInv, NEW s \in Slot, StatementFails(s)
    PROVE  ListsInv'
<1>1. /\ UNCHANGED <<list, watched, version, cache, emitted>>
      /\ excused' = IF Owing(s) THEN excused \cup {1} ELSE excused
      /\ Become(s, Idle)
      /\ req[s].does # "defaultSchedule"
  BY DEF StatementFails, Unawaited, Listeners
<1>2. /\ req' \in [Slot -> Request] /\ \A t \in Slot : WellFormed(t)'
      /\ \A t \in Slot \ {s} : req'[t] = req[t]
  BY <1>1, IdleMoves, MovesFormed
<1>3. Owed => Owed' \/ 1 \in excused'
  <2>1. CASE Owing(s)
    BY <1>1, <2>1
  <2>2. CASE ~Owing(s)
    <3>1. list = "schedules" /\ emitted > 0 => Owed'
      BY <1>1 DEF Owed, Announced
    <3>2. QED BY <1>1, <1>2, <2>2, <3>1, OwedStays
  <2>3. QED BY <2>1, <2>2
<1>4. emitted \in Nat /\ excused' \subseteq Page /\ excused \subseteq excused'
  BY <1>1, IdleIs DEF ListsInv, TypeOK
<1>5. QED BY <1>1, <1>2, <1>3, <1>4, CacheKept

LEMMA CrashStep ==
    ASSUME ListsInv, Crash
    PROVE  ListsInv'
<1>1. /\ cache' = [p \in Page |-> None] /\ req' = [s \in Slot |-> Idle]
      /\ emitted' = 0 /\ excused' = {} /\ UNCHANGED <<list, watched, version>>
  BY DEF Crash
<1>2. TypeOK'
  BY <1>1, IdleIs DEF ListsInv, TypeOK
<1>3. \A t \in Slot : WellFormed(t)'
  BY <1>1, IdleIs DEF WellFormed, Works
<1>4. PageAsked' /\ ClearedAfterWrite'
  BY <1>1, IdleIs DEF PageAsked, ClearedAfterWrite
<1>5. QED BY <1>2, <1>3, <1>4 DEF ListsInv

-----------------------------------------------------------------------------
(* The theorems *)

LEMMA InitInv == Init => ListsInv
<1> SUFFICES ASSUME Init PROVE ListsInv
  OBVIOUS
<1>1. 0 \in Version /\ {} \subseteq Page
  BY ListsAssumption DEF Version
<1>2. TypeOK
  BY <1>1, IdleIs DEF Init, TypeOK
<1>3. \A s \in Slot : WellFormed(s)
  BY IdleIs DEF Init, WellFormed, Works
<1>4. PageAsked /\ ClearedAfterWrite
  BY IdleIs DEF Init, PageAsked, ClearedAfterWrite
<1>5. QED BY <1>2, <1>3, <1>4 DEF ListsInv

LEMMA StepInv == ListsInv /\ [Next]_vars => ListsInv'
<1> SUFFICES ASSUME ListsInv, [Next]_vars
             PROVE  ListsInv'
  OBVIOUS
<1>1. ASSUME NEW s \in Slot, Advance(s)
      PROVE  ListsInv'
  BY <1>1, CheckStep, WriteStep, ClearStep, ReadStep, FillStep DEF Advance
<1>2. CASE UNCHANGED vars
  BY <1>2, SameRequests
     DEF vars, ListsInv, TypeOK, PageAsked, ClearedAfterWrite
<1>3. QED
  BY <1>1, <1>2, BeginStep, ReadStep, FailStep, TickStep, CrashStep DEF Next

\* Every reachable state satisfies the inductive invariant.
THEOREM ListsInvariant == Spec => []ListsInv
  BY InitInv, StepInv, PTL DEF Spec

\* Every variable of Lists keeps its type.
THEOREM ListsTypes == Spec => []TypeOK
<1>1. ListsInv => TypeOK
  BY DEF ListsInv
<1>2. QED BY <1>1, ListsInvariant, PTL

\* A reader is never answered with another page than he asked for, except of the
\* list of users (UsersService.findAll).
THEOREM PagesAsked == Spec => []PageAsked
<1>1. ListsInv => PageAsked
  BY DEF ListsInv
<1>2. QED BY <1>1, ListsInvariant, PTL

\* A first page is out of date only while a handler that changed it has yet to
\* clear it, or as one of the exceptions left it (the del calls of the services).
THEOREM WritersClear == Spec => []ClearedAfterWrite
<1>1. ListsInv => ClearedAfterWrite
  BY DEF ListsInv
<1>2. QED BY <1>1, ListsInvariant, PTL

-----------------------------------------------------------------------------
(* Every page is a StaleList, as far as its steps go *)

\* After a step readers can be given what they could be given before, and the
\* list as it is now.
LEMMA KnownStep ==
    ASSUME UNCHANGED <<list, watched>>,
           cache'[watched] # None => cache'[watched].got \in Known(watched),
           \A t \in Slot : req'[t].does = "fill" => req'[t] = req[t] \/ req'[t].got = version'
    PROVE  Known(watched)' \subseteq Known(watched) \cup {version'}
<1> SUFFICES ASSUME NEW v \in Known(watched)', v # version'
             PROVE  v \in Known(watched)
  OBVIOUS
<1>1. CASE cache'[watched] # None /\ v = cache'[watched].got
  BY <1>1
<1>2. CASE \E t \in Slot : /\ req'[t].does = "fill" /\ KeyOf(req[t].page)' = watched
                           /\ v = req'[t].got
  <2>1. PICK t \in Slot : /\ req'[t].does = "fill" /\ KeyOf(req[t].page)' = watched
                          /\ v = req'[t].got
    BY <1>2
  <2>2. req'[t] = req[t] /\ KeyOf(req[t].page) = watched
    BY <2>1 DEF KeyOf
  <2>3. QED BY <2>1, <2>2 DEF Known
<1>3. QED BY <1>1, <1>2 DEF Known

LEMMA StaleStep ==
    ASSUME Known(watched)' \subseteq Known(watched) \cup {version'}, watched' = watched,
           \/ version' = version
           \/ version' = version + 1 /\ version' \in Version
    PROVE  Abstract!Next
<1>1. version \in Known(watched) /\ version' \in Known(watched)'
  BY DEF Known
<1>2. CASE version' = version
  <2>1. Known(watched)' \in SUBSET Known(watched)
    BY <1>1, <1>2
  <2>2. Known(watched)' = Known(watched)' \cup {version}
    BY <1>1, <1>2
  <2>3. QED BY <1>2, <2>1, <2>2 DEF Abstract!Next, Abstract!Forget
<1>3. CASE version' = version + 1 /\ version' \in Version
  <2> DEFINE K == Known(watched)' \ {version'}
  <2>1. K \in SUBSET Known(watched) /\ Known(watched)' = K \cup {version'}
    BY <1>1
  <2>2. QED BY <1>3, <2>1 DEF Abstract!Next, Abstract!Write
<1>4. QED BY <1>2, <1>3

\* What was in the cache could be given, and what a reader is about to put there.
LEMMA KnownHeld ==
    /\ cache[watched] # None => cache[watched].got \in Known(watched)
    /\ \A t \in Slot : req[t].does = "fill" /\ KeyOf(req[t].page) = watched
                          => req[t].got \in Known(watched)
  BY DEF Known

LEMMA HandlerStale ==
    ASSUME ListsInv, NEW s \in Slot,
           \/ \E h \in Handler : Begin(s, h) \/ StartListener(s, h)
           \/ Check(s) \/ Write(s) \/ Clear(s) \/ StatementFails(s)
    PROVE  Abstract!Next
<1>1. /\ UNCHANGED <<list, watched>> /\ watched \in Page
      /\ version' = version \/ (version' = version + 1 /\ version' \in Version)
  BY ListsAssumption
     DEF ListsInv, TypeOK, Version, Begin, StartListener, Check, Write, Clear, StatementFails
<1>2. \E r : Moves(s, r) /\ r.does # "fill"
  <2>1. ASSUME NEW h \in Handler, Begin(s, h) \/ StartListener(s, h)
        PROVE  \E r : Moves(s, r) /\ r.does # "fill"
    BY <2>1, StartMoves, ScheduleListener DEF Begin, StartListener
  <2>2. CASE Works(s) /\ Proceed(s)
    BY <2>2, ProceedMoves, ScheduleListener, IdleIs DEF Works
  <2>3. CASE Become(s, Idle)
    BY <2>3, IdleMoves, IdleIs
  <2>4. QED BY <2>1, <2>2, <2>3 DEF Check, Write, Clear, StatementFails, At
<1>3. \A t \in Slot : req'[t].does = "fill" => req'[t] = req[t]
  BY <1>1, <1>2, MovesFormed
<1>4. cache'[watched] # None => cache'[watched] = cache[watched]
  BY <1>1 DEF ListsInv, TypeOK, Begin, StartListener, Check, Write, Clear, StatementFails
<1>5. Known(watched)' \subseteq Known(watched) \cup {version'}
  BY <1>1, <1>3, <1>4, KnownHeld, KnownStep
<1>6. QED BY <1>1, <1>5, StaleStep

LEMMA ReaderStale ==
    ASSUME ListsInv, NEW s \in Slot, Query(s) \/ Fill(s) \/ \E p \in Page : Miss(s, p)
    PROVE  Abstract!Next
<1>1. UNCHANGED <<list, watched, version>> /\ watched \in Page
  BY DEF ListsInv, TypeOK, Query, Fill, Miss
<1>2. ASSUME NEW t \in Slot, req'[t].does = "fill"
      PROVE  req'[t] = req[t] \/ req'[t].got = version'
  <2>1. CASE t = s
    <3>1. CASE Query(s)
      BY <1>1, <2>1, <3>1 DEF ListsInv, TypeOK, Request, Become, Query
    <3>2. CASE Fill(s)
      BY <1>2, <2>1, <3>2, IdleIs DEF ListsInv, TypeOK, Become, Fill
    <3>3. CASE \E p \in Page : Miss(s, p)
      <4>1. PICK p \in Page : req'[s] = [Idle EXCEPT !.does = "query", !.page = p]
        BY <3>3 DEF ListsInv, TypeOK, Become, Miss
      <4>2. req'[s].does = "query"
        BY <4>1 DEF Idle
      <4>3. QED BY <1>2, <2>1, <4>2
    <3>4. QED BY <3>1, <3>2, <3>3
  <2>2. CASE t # s
    BY <2>2 DEF ListsInv, TypeOK, Become, Query, Fill, Miss
  <2>3. QED BY <2>1, <2>2
<1>3. ASSUME cache'[watched] # None
      PROVE  cache'[watched].got \in Known(watched)
  <2>1. CASE Fill(s) /\ KeyOf(req[s].page) = watched
    <3>1. cache'[watched].got = req[s].got /\ req[s].does = "fill"
      BY <1>1, <2>1 DEF Fill, ListsInv, TypeOK
    <3>2. QED BY <2>1, <3>1, KnownHeld
  <2>2. CASE ~(Fill(s) /\ KeyOf(req[s].page) = watched)
    <3>1. cache'[watched] = cache[watched]
      BY <1>1, <2>2 DEF Fill, Query, Miss, ListsInv, TypeOK
    <3>2. QED BY <1>3, <3>1, KnownHeld
  <2>3. QED BY <2>1, <2>2
<1>4. Known(watched)' \subseteq Known(watched) \cup {version'}
  BY <1>1, <1>2, <1>3, KnownStep
<1>5. QED BY <1>1, <1>4, StaleStep

LEMMA TimeStale ==
    ASSUME ListsInv, Tick \/ Crash
    PROVE  Abstract!Next
<1>1. UNCHANGED <<list, watched, version>> /\ watched \in Page
  BY DEF ListsInv, TypeOK, Tick, Crash
<1>2. \A t \in Slot : req'[t].does = "fill" => req'[t] = req[t]
  BY IdleIs DEF Tick, Crash
<1>3. cache'[watched] # None => cache'[watched].got \in Known(watched)
  <2>1. CASE Tick
    BY <1>1, <2>1, TickKeeps, KnownHeld
  <2>2. CASE Crash
    BY <1>1, <2>2 DEF Crash
  <2>3. QED BY <2>1, <2>2
<1>4. Known(watched)' \subseteq Known(watched) \cup {version'}
  BY <1>1, <1>2, <1>3, KnownStep
<1>5. QED BY <1>1, <1>4, StaleStep

LEMMA InitStale == Init => Abstract!Init
<1> SUFFICES ASSUME Init PROVE Abstract!Init
  OBVIOUS
<1>1. version = 0 /\ cache[watched] = None /\ \A t \in Slot : req[t].does # "fill"
  BY IdleIs DEF Init
<1>2. Known(watched) = {0}
  BY <1>1 DEF Known
<1>3. QED BY <1>1, <1>2 DEF Abstract!Init

LEMMA StepStale == ListsInv /\ [Next]_vars => [Abstract!Next]_(Abstract!view)
<1> SUFFICES ASSUME ListsInv, [Next]_vars
             PROVE  [Abstract!Next]_(Abstract!view)
  OBVIOUS
<1>1. ASSUME NEW s \in Slot, Advance(s)
      PROVE  Abstract!Next
  BY <1>1, HandlerStale, ReaderStale DEF Advance
<1>2. CASE UNCHANGED vars
  BY <1>2 DEF vars, Abstract!view, Known, KeyOf
<1>3. CASE Next
  BY <1>1, <1>3, HandlerStale, ReaderStale, TimeStale DEF Next
<1>4. QED BY <1>2, <1>3

\* What the readers of a page can be given changes as a StaleList says: a state
\* of the list that nobody can be given any more never comes back, whatever the
\* handlers clear (the safety part of Refines; that old states are outgrown is
\* for the runs).
THEOREM ImplementsStaleList == Spec => Abstract!Safety
  BY InitStale, StepStale, ListsInvariant, PTL DEF Spec, Abstract!Safety

=============================================================================
