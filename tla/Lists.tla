-------------------------------- MODULE Lists --------------------------------
(***************************************************************************)
(* The lists that are kept in the cache: the findAll of clients, products, *)
(* brands, e-mails, members, member schedules, favourites and users, the   *)
(* profile and the appointments of a user and the page of an organization, *)
(* with every handler that changes what they show.                         *)
(*                                                                         *)
(* The cache is in the memory of the process: get, set and del take effect *)
(* at once, awaited or not.  Each await on the database ends a step.  A    *)
(* handler is the sequence of its steps: check (a read that may end it),   *)
(* write (a statement that changes lists), clear (del of the first page).  *)
(*                                                                         *)
(* Data: the state of a list is the number of writes it has seen, of one   *)
(* organization or user.  No handler decides anything by a list, so lists  *)
(* do not depend on each other and a behaviour is about one of them.       *)
(***************************************************************************)
EXTENDS Naturals, Sequences, FiniteSets

CONSTANTS
    Pages,       \* the pages a list has
    Slot,        \* the requests and listeners at work at the same time
    MaxVersion,  \* the writes of the list in a run
    Normal, Long, VeryLong, FiveMinutes,  \* CacheTTL, and 5 * 60, in ticks
    Faulty,      \* whether statements may fail and the process may die
    None

ASSUME ListsAssumption ==
    /\ Pages \in Nat \ {0}
    /\ MaxVersion \in Nat
    /\ {Normal, Long, VeryLong, FiveMinutes} \subseteq Nat \ {0}
    /\ Faulty \in BOOLEAN

-----------------------------------------------------------------------------
(* The lists: how long they are kept, and whether each page has a key.     *)

ClientList      == [ttl |-> VeryLong, keyed |-> TRUE]
ProductList     == [ttl |-> VeryLong, keyed |-> TRUE]
BrandList       == [ttl |-> VeryLong, keyed |-> FALSE]
EmailList       == [ttl |-> Normal, keyed |-> TRUE]
MemberList      == [ttl |-> Long, keyed |-> FALSE]
ScheduleList    == [ttl |-> VeryLong, keyed |-> FALSE]
FavouriteList   == [ttl |-> VeryLong, keyed |-> TRUE]
UserList        == [ttl |-> Normal, keyed |-> FALSE]   \* 'users', whatever the page
Profile         == [ttl |-> FiveMinutes, keyed |-> FALSE]
AppointmentList == [ttl |-> FiveMinutes, keyed |-> TRUE]
OrgDetails      == [ttl |-> VeryLong, keyed |-> FALSE]

Listed ==
    [clients |-> ClientList, products |-> ProductList, brands |-> BrandList,
     emails |-> EmailList, members |-> MemberList, schedules |-> ScheduleList,
     favourites |-> FavouriteList, users |-> UserList, profile |-> Profile,
     appointments |-> AppointmentList, details |-> OrgDetails]

List == DOMAIN Listed

\* The lists a browser can ask a second page of.
Paged == {l \in List : Listed[l].keyed} \cup {"users"}

Page == 1 .. Pages

-----------------------------------------------------------------------------
(* The handlers: the lists they change, the one they clear and their steps. *)

Does(changes, clears, steps) == [changes |-> changes, clears |-> clears, steps |-> steps]

\* Mutant: update clears first, like remove.
UpdateClientClearingFirst == Does({"clients"}, "clients", <<"check", "clear", "write">>)

CreateClient == Does({"clients"}, "clients", <<"write", "clear">>)
UpdateClient == Does({"clients"}, "clients", <<"check", "write", "clear">>)
RemoveClient == Does({"clients"}, "clients", <<"check", "clear", "write">>)

CreateProduct == Does({"products"}, "products", <<"write", "clear">>)
UpdateProduct == Does({"products"}, "products", <<"check", "write", "clear">>)
RemoveProduct == Does({"products"}, "products", <<"check", "write", "clear">>)
\* A sale's job counts the stock down.
ReduceStock == Does({"products"}, "products", <<"write">>)

CreateBrand == Does({"brands"}, "brands", <<"check", "write", "clear">>)
UpdateBrand == Does({"brands"}, "brands", <<"check", "check", "write", "clear">>)
RemoveBrand == Does({"brands"}, "brands", <<"check", "write", "clear">>)

\* The mail to clients, members or others is saved, without awaiting it or
\* clearing the list.
EmailByOrg  == Does({"emails"}, "emails", <<"check", "write">>)
RemoveEmail == Does({"emails"}, "emails", <<"write", "clear">>)

\* The schedules are listed with their members, whom the public page shows too.
Staff == {"members", "schedules", "details"}

CreateMember == Does(Staff, "members", <<"check", "check", "write", "clear">>)
UpdateMember == Does(Staff, "members", <<"check", "check", "write", "clear">>)
\* The items that were booked with the member lose him.
RemoveMember == Does(Staff \cup {"appointments"}, "members", <<"check", "write", "clear">>)
\* The password is not listed, the time of the update is.
CreatePassword == Does(Staff, "members", <<"check", "write">>)

\* The services of ServicesService name their members.  One that is removed,
\* or goes with its category, is taken from them and from the items booked.
AssignMembers  == Does({"members", "details"}, "members", <<"check", "write">>)
RemoveService  ==
    Does({"members", "details", "appointments"}, "members", <<"check", "write", "write">>)
RemoveCategory == Does({"members", "details", "appointments"}, "members", <<"check", "write">>)

\* createMany, the listener of member.created.
DefaultSchedule == Does({"schedules"}, "schedules", <<"check", "write", "clear">>)
CreateSchedule  == Does({"schedules"}, "schedules", <<"check", "write">>)
UpdateSchedule  == Does({"schedules"}, "schedules", <<"write", "clear">>)
UpdateSchedules == Does({"schedules"}, "schedules", <<"check", "write", "write", "clear">>)
\* Its orgId has no decorator: the key it clears is schedule:undefined.
RemoveSchedule  == Does({"schedules"}, "schedules", <<"check", "check", "write">>)

CreateFavourite  == Does({"favourites"}, "favourites", <<"write">>)
RemoveFavourite  == Does({"favourites"}, "favourites", <<"write", "clear">>)
\* An organization that was added twice: an error, and the list is kept.
RemoveFavourites == Does({"favourites"}, "favourites", <<"write">>)

CreateUser    == Does({"users"}, "users", <<"check", "write">>)
UpdateProfile == Does({"users", "profile"}, "profile", <<"check", "write", "clear">>)
\* The favourites go with the user, the appointments stay without one.
RemoveUser    ==
    Does({"users", "profile", "favourites", "appointments"}, "profile", <<"write">>)

\* A new organization is given a brand and a product to look at.
SampleBrand   == Does({"brands"}, "brands", <<"write">>)
SampleProduct == Does({"products"}, "products", <<"write">>)

\* Whatever is done to a booking, and to the opening hours: each statement
\* counts for itself, as nobody clears what they are shown in.
ChangeBooking == Does({"appointments"}, "appointments", <<"check", "write">>)
ChangeDetails == Does({"details"}, "details", <<"check", "write">>)

\* An organization's own columns, which PublicationService and a review's
\* rating write, are shown with the favourites and the appointments of users.
ChangeOrganization ==
    Does({"details", "favourites", "appointments"}, "details", <<"check", "write">>)
\* All that is the organization's goes with it.
RemoveOrg ==
    Does({"clients", "products", "brands", "emails", "members", "schedules", "details",
          "favourites", "appointments"}, "details", <<"write">>)

Handlers ==
    [createClient |-> CreateClient, updateClient |-> UpdateClient,
     removeClient |-> RemoveClient, createProduct |-> CreateProduct,
     updateProduct |-> UpdateProduct, removeProduct |-> RemoveProduct,
     reduceStock |-> ReduceStock, createBrand |-> CreateBrand,
     updateBrand |-> UpdateBrand, removeBrand |-> RemoveBrand,
     emailByOrg |-> EmailByOrg, removeEmail |-> RemoveEmail,
     createMember |-> CreateMember, updateMember |-> UpdateMember,
     removeMember |-> RemoveMember, createPassword |-> CreatePassword,
     assignMembers |-> AssignMembers, removeService |-> RemoveService,
     removeCategory |-> RemoveCategory,
     defaultSchedule |-> DefaultSchedule, createSchedule |-> CreateSchedule,
     updateSchedule |-> UpdateSchedule, updateSchedules |-> UpdateSchedules,
     removeSchedule |-> RemoveSchedule, createFavourite |-> CreateFavourite,
     removeFavourite |-> RemoveFavourite, removeFavourites |-> RemoveFavourites,
     createUser |-> CreateUser, updateProfile |-> UpdateProfile,
     removeUser |-> RemoveUser, sampleBrand |-> SampleBrand,
     sampleProduct |-> SampleProduct, changeBooking |-> ChangeBooking,
     changeDetails |-> ChangeDetails, changeOrganization |-> ChangeOrganization,
     removeOrg |-> RemoveOrg]

Handler == DOMAIN Handlers

\* What the routes of each controller start, beside its queries.
ClientsController        == {"createClient", "updateClient", "removeClient"}
ProductsController       == {"createProduct", "updateProduct", "removeProduct"}
BrandsController         == {"createBrand", "updateBrand", "removeBrand"}
EmailsController         == {"emailByOrg", "removeEmail"}
MembersController        == {"createMember", "updateMember", "removeMember"}
MemberScheduleController == {"createSchedule", "updateSchedule", "updateSchedules",
                             "removeSchedule"}
FavouritesController     == {"createFavourite", "removeFavourite", "removeFavourites"}
UsersController          == {"updateProfile", "removeUser"}

\* Those that requests and jobs start.
Routed ==
    ClientsController \cup ProductsController \cup BrandsController
        \cup EmailsController \cup MembersController \cup MemberScheduleController
        \cup FavouritesController \cup UsersController
        \cup {"reduceStock", "createPassword", "assignMembers", "removeService",
              "removeCategory", "createUser", "changeBooking", "changeDetails",
              "changeOrganization", "removeOrg"}

\* Those that events start: member.created, and organization.created.
Listeners == {"defaultSchedule", "sampleBrand", "sampleProduct"}

\* Nobody awaits them: if a statement of theirs fails, the process ends.
Unawaited == {"emailByOrg"} \cup Listeners

\* The lists a handler leaves as they are in the cache, or clears too soon:
\* nobody clears appointments and details, and who removes a user or an
\* organization clears nothing.
Leaves ==
    (Handler \X {"appointments", "details"})
    \cup ({"removeUser", "removeOrg"} \X List)
    \cup ({"createFavourite", "removeFavourites", "changeOrganization"} \X {"favourites"})
    \cup ({"createPassword", "assignMembers", "removeService", "removeCategory"}
              \X {"members"})
    \cup ({"createPassword", "updateMember", "removeMember", "createSchedule",
           "removeSchedule"} \X {"schedules"})
    \cup ({"createUser", "updateProfile"} \X {"users"})
    \cup {<<"removeClient", "clients">>, <<"reduceStock", "products">>,
           <<"sampleProduct", "products">>, <<"sampleBrand", "brands">>,
           <<"emailByOrg", "emails">>}

-----------------------------------------------------------------------------

VARIABLES
    list,     \* the list the behaviour is about: it never changes
    watched,  \* the page whose readers the refinement looks at: nor does it
    version,  \* how often the list has been written
    cache,    \* what is kept of each page
    req,      \* what each slot is doing
    emitted,  \* the events whose listener has not started
    excused   \* history, read by no action: the pages that were left stale

vars == <<list, watched, version, cache, req, emitted, excused>>

Version == 0 .. MaxVersion

Longest == Normal + Long + VeryLong + FiveMinutes

\* What is kept: the list as it was, a page of it, and the ticks it has left.
Entry == [got : Version, page : Page, left : 1 .. Longest]

\* A handler at one of its steps, or a findAll that has missed.
Request ==
    [does : Handler \cup {"query", "fill", None},
     step : 0 .. 4,
     page : Page,
     got  : Version]

ASSUME NoneAssumption == None \notin Handler \cup {"query", "fill"} \cup Entry

Idle == [does |-> None, step |-> 0, page |-> 1, got |-> 0]

\* Mutant: every key leaves the page out.
KeyOfAny(p) == 1

\* The key of a page; that of the list of users leaves the page out.
KeyOf(p) == IF Listed[list].keyed THEN p ELSE 1

\* The organization has just been registered.
New == list \in SampleBrand.changes \cup SampleProduct.changes

Init ==
    /\ list \in List
    /\ watched \in Page
    /\ version = 0
    /\ cache = [p \in Page |-> None]
    /\ req = [s \in Slot |-> Idle]
    /\ emitted = IF New THEN 1 ELSE 0
    /\ excused = {}

-----------------------------------------------------------------------------
(* Helpers *)

Become(s, r) == req' = [req EXCEPT ![s] = r]

Works(s) == req[s].does \in Handler

Doing(s) == Handlers[req[s].does]

\* The step a handler is at, and what is behind and ahead of it.
At(s, what) == Works(s) /\ Doing(s).steps[req[s].step] = what

Behind(s, what) ==
    Works(s) /\ \E i \in 1 .. req[s].step - 1 : Doing(s).steps[i] = what

Ahead(s, what) ==
    Works(s) /\ \E i \in req[s].step .. Len(Doing(s).steps) : Doing(s).steps[i] = what

Proceed(s) ==
    Become(s, IF req[s].step = Len(Doing(s).steps) THEN Idle
              ELSE [req[s] EXCEPT !.step = @ + 1])

Start(s, h) ==
    /\ req[s] = Idle
    /\ Become(s, [Idle EXCEPT !.does = h, !.step = 1])

Changes(h) == list \in Handlers[h].changes

-----------------------------------------------------------------------------
(* Handlers *)

Begin(s, h) ==
    /\ h \in Routed
    /\ Changes(h)
    /\ Start(s, h)
    /\ UNCHANGED <<list, watched, version, cache, emitted, excused>>

\* What a handler looks for is there, or it ends.
Check(s) ==
    /\ At(s, "check")
    /\ \/ Proceed(s)
       \/ (req[s].does \notin Listeners /\ Become(s, Idle))
    /\ UNCHANGED <<list, watched, version, cache, emitted, excused>>

Write(s) ==
    /\ At(s, "write")
    /\ version < MaxVersion
    /\ version' = version + 1
    /\ excused' = IF <<req[s].does, list>> \in Leaves THEN excused \cup {1} ELSE excused
    /\ Proceed(s)
    /\ UNCHANGED <<list, watched, cache, emitted>>

\* createMember emits member.created as it clears; other lists than that of
\* the schedules are nothing to the listener.
Clear(s) ==
    /\ At(s, "clear")
    /\ \/ /\ Doing(s).clears = list
          /\ cache' = [cache EXCEPT ![1] = None]
          /\ excused' = excused \ {1}
       \/ /\ Doing(s).clears # list
          /\ UNCHANGED <<cache, excused>>
    /\ emitted' = IF req[s].does = "createMember" /\ Changes("defaultSchedule")
                  THEN emitted + 1 ELSE emitted
    /\ Proceed(s)
    /\ UNCHANGED <<list, watched, version>>

StartListener(s, h) ==
    /\ emitted > 0
    /\ h \in Listeners
    /\ Changes(h)
    /\ Start(s, h)
    /\ emitted' = emitted - 1
    /\ UNCHANGED <<list, watched, version, cache, excused>>

-----------------------------------------------------------------------------
(* findAll *)

\* What is not there is looked up; what is there is answered and changes
\* nothing.
Miss(s, p) ==
    /\ p = 1 \/ list \in Paged
    /\ req[s] = Idle
    /\ cache[KeyOf(p)] = None
    /\ Become(s, [Idle EXCEPT !.does = "query", !.page = p])
    /\ UNCHANGED <<list, watched, version, cache, emitted, excused>>

Query(s) ==
    /\ req[s].does = "query"
    /\ Become(s, [req[s] EXCEPT !.does = "fill", !.got = version])
    /\ UNCHANGED <<list, watched, version, cache, emitted, excused>>

\* The answer may be out of date by now, and is kept all the same.
Fill(s) ==
    LET k == KeyOf(req[s].page) IN
    /\ req[s].does = "fill"
    /\ cache' = [cache EXCEPT ![k] = [got |-> req[s].got, page |-> req[s].page,
                                     left |-> Listed[list].ttl]]
    /\ excused' = IF req[s].got = version THEN excused \ {k} ELSE excused \cup {k}
    /\ Become(s, Idle)
    /\ UNCHANGED <<list, watched, version, emitted>>

-----------------------------------------------------------------------------
(* Time and faults *)

\* Mutant: what is about to expire is kept.
OlderForEver(e) == IF e = None \/ e.left = 1 THEN e ELSE [e EXCEPT !.left = @ - 1]

Older(e) == IF e = None \/ e.left = 1 THEN None ELSE [e EXCEPT !.left = @ - 1]

Tick ==
    /\ \E p \in Page : cache[p] # None
    /\ cache' = [p \in Page |-> Older(cache[p])]
    /\ excused' = excused \ {p \in Page : Older(cache[p]) = None}
    /\ UNCHANGED <<list, watched, version, req, emitted>>

\* It has changed the list and still has one to clear.
Owing(s) == Behind(s, "write") /\ Ahead(s, "clear")

\* A statement fails, or was executed and its answer is lost: what is ahead is
\* not done.
StatementFails(s) ==
    /\ Faulty
    /\ req[s] # Idle
    /\ req[s].does \notin Unawaited
    /\ excused' = IF Owing(s) THEN excused \cup {1} ELSE excused
    /\ Become(s, Idle)
    /\ UNCHANGED <<list, watched, version, cache, emitted>>

Crash ==
    /\ Faulty
    /\ cache' = [p \in Page |-> None]
    /\ req' = [s \in Slot |-> Idle]
    /\ emitted' = 0
    /\ excused' = {}
    /\ UNCHANGED <<list, watched, version>>

Advance(s) ==
    \/ Check(s)
    \/ Write(s)
    \/ Clear(s)
    \/ Query(s)
    \/ Fill(s)

Next ==
    \/ \E s \in Slot :
          \/ \E h \in Handler : Begin(s, h) \/ StartListener(s, h)
          \/ \E p \in Page : Miss(s, p)
          \/ Advance(s)
          \/ StatementFails(s)
    \/ Tick
    \/ Crash

Spec == Init /\ [][Next]_vars

\* Node goes on with every request, and time with every entry.
Fairness ==
    /\ \A s \in Slot : WF_vars(Advance(s))
    /\ WF_vars(Tick)

FairSpec == Spec /\ Fairness

-----------------------------------------------------------------------------
(* Properties *)

\* Every variable keeps its type.
TypeOK ==
    /\ list \in List
    /\ watched \in Page
    /\ version \in Version
    /\ cache \in [Page -> Entry \cup {None}]
    /\ req \in [Slot -> Request]
    /\ emitted \in Nat
    /\ excused \in SUBSET Page

\* The listener of member.created will save schedules and clear their list.
Announced ==
    \/ emitted > 0
    \/ \E s \in Slot : \/ req[s].does = "defaultSchedule"
                       \/ (req[s].does = "createMember" /\ Owing(s))

\* Somebody has changed the list and is about to clear it.
Owed ==
    \/ \E s \in Slot : Owing(s) /\ Doing(s).clears = list
    \/ list = "schedules" /\ Announced

\* The first page of a list is out of date only as long as a handler that has
\* changed it has yet to clear it, unless the handler is one of those that
\* leave it, was stopped midway, or a reader whose lookup came before the
\* change has filled it after.
ClearedAfterWrite ==
    cache[1] # None /\ cache[1].got # version /\ 1 \notin excused => Owed

\* A reader is never answered with another page than he asked for, except of
\* the list of users, whose pages share a key.
PageAsked == list # "users" => \A p \in Page : cache[p] # None => cache[p].page = p

\* The states of the list a reader of page p can still be given.
Known(p) ==
    {version}
        \cup (IF cache[p] = None THEN {} ELSE {cache[p].got})
        \cup {req[s].got : s \in {t \in Slot : req[t].does = "fill" /\ KeyOf(req[t].page) = p}}

Abstract == INSTANCE StaleList WITH table <- version, known <- Known(watched)

\* Every page of every list is a StaleList: what readers are given is never
\* older again than what all have outgrown, and all outgrow it in the end,
\* though only first pages are cleared and some handlers clear nothing.
Refines == Abstract!Spec

=============================================================================
