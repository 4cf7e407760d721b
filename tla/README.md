# fresha-api in TLA+

A verification project for the back end of a booking platform: NestJS, TypeORM
over MySQL, Bull queues over Redis and a cache in memory. Organizations publish services;
users and clients book appointments; organizations sell products. The code is
one Node process; what makes it hard is that every `await` on the database is
a point where another request runs, and that its transactions do not do what
they seem to.

## 1. How the system behaves

Three facts hold throughout the code and shape every module here.

* **Interleaving at awaits.** A handler runs alone until it awaits a statement.
  Statements of different handlers interleave freely; one statement is atomic.
  `Repository.save` looks for the row and writes what differs, in a transaction of its
  own; it is modelled as one statement. It brings all columns to what the entity it was
  given says, and inserts the row again when it has gone.
* **Transactions are empty.** `createQueryRunner` opens a transaction on one pooled
  connection, but the handlers work through the injected repositories, which use
  other connections. The transaction that is committed or rolled back has no
  statement in it. Every statement takes effect at once, and a rollback undoes
  nothing.
* **Promises nobody awaits.** Several writes (the payment of a completion or of a
  sale, the delete of an appointment, the usage count of a category) are started
  and left. The answer may leave before them; a rejection has no handler, and Node
  ends the process, with every request it was serving.

### Inventory

| component | state | operations | talks to | what is hard | what makes it correct |
|---|---|---|---|---|---|
| Appointments | `appointment`, `booking_item` | create, createClientAppointment, update, confirm, cancel, complete, reschedule, remove | payments, emails, services, members | check-then-write on the status; whole-entity saves; items deleted before what can fail; a delete nobody awaits | totals follow items; completions stand; what is removed stays so |
| Payments | `payment` | createPaymentByAppointment, createPaymentBySales | called by the two above and below | find-then-save, not awaited; unique and foreign keys that reject | a completion or sale is charged once, its own price |
| Sales, SaleQueue | `sale`, `sale_item`, Redis jobs | create, remove, ReduceStock | products, payments, Bull | the stock is checked now and reduced later; jobs delivered again after a crash | a stock that was checked alone is not oversold; each sale taken from the stock once per delivery |
| Products | `product`, page cache | create, update, remove | sales, cache, S3 | writes a stock read earlier; only page 1 of the cache deleted | stock agrees with what was sold |
| Services, Categories | `service`, `category`, cache `<org>:categories` | create, update, remove, packages | cache, members | key deleted before the write; count = snapshot + 1 | cached list is at most as old as its TTL; count = services |
| Org reviews | `org_review`, ratings of appointment and organization | create, remove | appointments, organizations | `Promise.all` of two writes; SUM then UPDATE | ratings are those of the reviews |
| Auth, sessions | `token_session`, `member`, `organization`, the cookies of browsers | register, login, refresh, logout, cron cleanup | emails, org schedule (event) | check-then-insert; several inserts with no transaction; a logout nobody awaits, answers out of order | one organization per member e-mail; a cookie has its session; logging out ends it |
| Emails, OTP | `otp`, `email`, emailQueue | getOTP, confirmOTP, create, createByOrg | Bull, mailer | check one OTP, confirm whichever is there | only a code presented in time is confirmed; the newest mailed is the one stored |
| Publication | `organization` | basic info, types, location, images, schedule, publish | org schedule, S3 | delete-then-save in an empty transaction; slug set once | a published organization has what publishing checks |
| Org schedule, member schedule | `org_schedule`, `member_schedule`, cache | createMany (on events), updateMany, remove | auth, members (events) | listener not awaited; delete-then-save | a row for each time a day was asked for |
| Members | `member` | create, update, remove | member schedule (event) | check-then-insert; an update that checks nothing and saves the whole row it read | unique e-mail; every organization keeps its owner |
| Users, favourites, clients, brands, product categories | one table each, some cached | CRUD | cache | duplicates, stale pages | no stale page beyond its TTL |
| Cache | keys with a TTL, in the memory of the process | get, set, del | most services | order of delete, write and set; lists read before a write and cached after it | writers clear what they change; old states are outgrown |
| Database connections | pool of 10 | acquire, release | all | a handler holds one and needs another; a leak on an error path | every connection is accounted for; requests starve only when transactions hold the pool |
| Notifications | `notification`, socket rooms | create, emit | Bull, sockets | room names joined and emitted to | |
| Files | S3 objects, tags | upload, tag, delete | S3 | outcome ignored | |
| Search, time slots, statistics | none | queries | | | |
| Leaves, closed days, subscriptions, pricings, admins, org types, features, branches, member reviews | one table each | single-statement CRUD | | | |
| Security, utilities | none | guards, pure helpers | | | |

`PROJECT.json` lists them with their files, and every hazard with its line.

## 2. Plan

1. **Booking**, with the payments of completions: *done, proved*.
2. **Sales**, with products, the queue and payments of sales: *done, proved*.
3. **Reviews**: ratings of organizations and appointments: *done, proved*.
4. **Catalog**: services, packages and categories, with the cached list of categories:
   *done, proved*.
5. **Onboarding**: registration, its event, the opening hours, publication, members:
   *done, proved*.
6. **Otp**: one-time passwords, their table and their mails, with a clock: *done, proved*.
7. **Sessions**: logging in, renewing, logging out, cookies, the cron job: *done, proved*.
8. **Lists** and **StaleList**: the eleven other cached lists with all their writers,
   and what a cached list promises its readers: *done; the invariants and the safety part
   of the refinement proved*.
9. **Pool**: the connections, and handlers that hold one and need another: *done,
   proved*.

What a further step could add: a composition of Booking and Sales over one payment
table, which they share without reading each other's rows.

## 3. Modules

| module | what it is |
|---|---|
| `Booking`, `BookingProofs` | appointments and their payments |
| `Sales`, `SalesProofs` | quick sales, products, the SaleQueue, payments of sales |
| `Reviews`, `ReviewsProofs` | reviews, and the ratings of organizations and appointments |
| `Catalog`, `CatalogProofs` | services, packages, categories, the cached list of categories |
| `Onboarding`, `OnboardingProofs` | registration of organizations, their hours, their profile and its publication, members |
| `Otp`, `OtpProofs` | one-time passwords, who is sent one, who confirms one, the mails |
| `Sessions`, `SessionsProofs` | sessions, cookies, logging in and out |
| `Lists`, `ListsProofs` | the lists kept in the cache and every handler that changes them |
| `StaleList` | abstract: what a cached list promises its readers |
| `Pool`, at the end of `BookingProofs` | the connections to MySQL and the handlers that wait for them |
| `MC…` | the constants of the instances of each |

### Booking

A slot (`req[s]`) is one HTTP request with all it starts; its `pc` names the next
statement. `Begin…` is the arrival of a request; `Insert`, `ReadFor…`, `ClearItems`,
`SaveBookingItems`, `SaveCreated`, `SaveUpdated`, `ConfirmBooking`, `CancelBooking`,
`CompleteBooking`, `FindPayment`, `SavePayment`, `RescheduleBooking` and `Erase` are
one statement each, with the code around it up to the next await. Throws, early
returns and refused statuses are branches of the statement they follow.
`StatementFails` and `Crash` may happen at any point.

* `rows`, `items`, `payment` are the tables. Items are kept as the sum of the
  durations and prices of an appointment's rows, with the slots that inserted them:
  no property tells one item from another.
* A basket stands for the `bookingItems` of a body. `Bookable` are those whose
  services and members exist; the others make `saveBookingItems` throw.
* The DTOs oblige create and update to carry items, start and status.
* Foreign keys: `booking_item` and `payment` cascade with their appointment and refuse
  an insert without it; `payment.appointmentId` is unique.
* `removed`, `disturbed`, `due` are history variables. A booking is *disturbed* once
  two requests on it overlapped, or one stopped between its first and its last write.
  The properties that the code can only keep for a booking handled by one request at
  a time are stated for the others; `NothingOutlivesAppointment` has no such condition.

### Sales

A slot is one POST /sales with the payment it leaves behind (`paying`). `SaveSale`,
`CheckProducts`, `SaveSaleItems`, `SaveTotal`, `Commit`, `Enqueue` are the statements
of `create`; `SavePayment` is the promise. The worker is `StartJob`, `Decrement` (one
per line, in any order, as `Promise.all` runs them) and `CompleteJob`, which ends the
job with the last decrement or with the first that fails. `Die` leaves the active job
stalled; `Requeue` is Bull's check for stalled jobs, which gives up after
`MaxStalled`. Products are created, updated (the stock of the body is written over
whatever is there) and removed (decrements then find no row).

A product is *exposed* once its stock check no longer covers what follows it: two
sales claimed it at the same time, it was updated while one did, or a job stalled. It
is *upset* once a failure or an update has touched it. `cut` counts the decrements of
each sale.

### Reviews

A slot is one POST of a review, or one update of an appointment. `CheckExisting` and
`FindAppointment` are the reads of `create`; then its `Promise.all` has two statements
pending (`todo`), `SaveReview` and `RateAppointment`, which end in either order. When
the first fails, `create` throws and the other still runs (`thrown`).
`SumReviews` and `PublishRating` are `updateOrgRating`. `RemoveReview` is one DELETE;
`RemoveBooking` takes the review with it (the foreign key cascades); `ReadBooking` and
`SaveBooking` are what `AppointmentsService.update` does to the rating of a row.

* The rating of an organization and its `totalReviews` are functions of the reviews that
  were summed; `shown` keeps those. Without a review the rating is NaN and the UPDATE
  fails.
* `rating[a]` = `None` stands for the column's default.
* Users review their own appointments; the queries turn away anyone else before a write.
* An organization is *settled* from a rating by a create that was alone with it
  (not `shared`) until one of its reviews comes or goes.

### Catalog

A slot is one request to services or categories. `WriteUnkeyed` is the write of a
category that is renamed or removed: the routes ask for no role, so there is no
organization in the request and the key that is cleared is nobody's. `MissList`, `QueryList` and `FillCache`
are `findAll` on a miss (a hit changes nothing). `create` of a category, and
`update` and `remove` of services, write and then clear (`ClearLast`); `create` of a service,
`createPackage` and `updatePackage` clear and then write (`StartCreate`,
`StartPackage`). `create` starts `CountUsage` and `SaveCreated` together and waits for
the second only.

* The relation of a service to its category cascades: each save of a service writes
  the category back as it was read (`old`), or inserts it again. The foreign key
  refuses to delete a category that has services. `service_package` cascades.
* A list is `"current"` or `"dated"`; any write, even one that changes nothing of it,
  dates the lists read before. `late` says that nobody is going to clear a dated list.
* Prices and durations follow from the services included and are left out; the members
  a body names are found or the request ends.

### Onboarding

A slot is one request. `CheckEmail`, `SaveOrganization` and `SaveOwner` are the
statements of `createOrganization`; the last emits `organization.created`, whose
listener (`SaveDefaultHours`) is one more process, `listening`, until its save ends;
the foreign key rejects it when the organization has gone, and the rejection ends the
process (`ListenerFails`). `CheckMember` and `SaveMember` are `MembersService.create`,
`ReadMember` and `SaveChanges` its `update`: the other two ways to take an e-mail. An update
does not look whether its e-mail is taken (the unique column refuses it), and saves the whole
member as it was read, which puts back an e-mail changed and a member removed meanwhile. `CheckHour`/`SaveHour` and `ClearHours`/`SaveHours` are
the two check-or-delete-then-save handlers of the opening hours; the version in
`PublicationService` wraps the second in `StartTransaction` and `Commit`, which hold
nothing. `ReadSlug`/`UpdateLocation` and `CheckProfile`/`Publish` read and then write
the row of the organization.

* `orgs`, `members`, `hours` are the tables; of `org_schedule` the number of rows of
  each day. Members and hours cascade with their organization. The id of a member that has
  left no trace, in the table or in a request, is handed out again.
* Requests come from members that exist (`Staffed`); a delete of hours may come from
  staff of any organization, since `remove` ignores the answer of `checkOwnership`.
* A body of opening hours is a multiset of days: nothing in the DTO, the service or the entity
  keeps it from naming a day twice. `Bodies` are those a run sends; the proofs allow any.
* `asked[o]` are the rows last asked for. `blurred[o]` names what requests that
  overlapped or stopped midway have left as nobody asked: the hours, the slug, the
  owner. The properties excuse those and nothing else; `PublicPage` excuses nothing.

### Otp

A slot is one request. `Draw` is the start of `getOTP`, reached from the four handlers
that call it (`GetOTP`, `CheckExistEmail`, `ForgetPassword`, `AdminGetOtp`), each with its
own guard. `FindOTP` is the look-up; then `repository.save` is `InsertOTP` for a new row,
and for one that exists two statements, `LoadOTP` (the select it compares with) and
`WriteOTP` (the update of the columns that differ). This is the one module that tells
the two apart, for a confirmation can come between them: the select then saw a row that
is not confirmed, and the update leaves `isConfirmed` alone. `QueueMail` is the job nobody
awaits; `SendMail` and `MailFails` are the queue. `CheckValidOTP` and `MarkConfirmed` are
`confirmOTP`, started by `ConfirmOTP` or `AdminLogin` with a code from the inbox.

* Codes are numbered in the order they are drawn: two draws of `generateOpt` are taken to
  differ (it draws from 900,000 codes).
* `crossed` names e-mails for which requests overlapped since the last one that was
  alone; `blurred` those whose code was written across a confirmation; `dropped` the
  codes whose mail was lost. The properties excuse these.

### Sessions

A slot is one request of a browser; a *jar* is its cookie, `oid` on the pages of staff
and `sid` on those of customers (`staff` says which). `CreateUser`, `SaveToken`,
`FindSession` are the statements; `Answer` is the response that reaches the browser and
sets its cookie, in whatever order responses come, and `LoseAnswer` one that does not.
`LogoutOrganization` and `LogoutUser` start a delete (`DeleteSession`) that nobody awaits
and answer; the first sets the cookie again, the second clears it.
`RemoveExpiredSessions` is the cron job.

* Passwords are right: a wrong one changes nothing. The access token is stateless.
* `ended` are the sessions somebody asked to end, `forgotten` those whose delete a crash
  took away, `out` the browsers whose last request was a logout that met no other.

### Lists and StaleList

`Lists` is one module for eleven lists. `Listed` gives each its lifetime and says
whether a page has a key of its own; `Handlers` gives each handler the lists it changes,
the one it clears and its steps (`check`, `write`, `clear`), read off the code; the
actions interpret the steps. `list` is fixed by the initial state, so that a run covers
all eleven. `Miss`, `Query` and `Fill` are `findAll` when the key is not there: look, read
the database, store. The version of a list is the number of writes it has seen.

* A list is changed by whoever writes a row or column it shows: beside its own service, for
  instance, publishing and reviews change the organization that favourites and appointments are
  listed with (`ChangeOrganization`), a password stamps the member that schedules are listed
  with, and a service that is removed leaves its members and the items booked.
* `Leaves` names the handlers that leave a list they change in the cache, or clear it
  before the write: 46 of the 64 pairs of a handler and a list it changes. It is
  part of what `ClearedAfterWrite` says, and a reviewer of the code should read it.
* `updateSchedules` writes twice and clears once; `removeSchedule` clears
  `schedule:undefined`, since its `orgId` has no decorator (member-schedule.controller.ts:79).
* `createMember` emits `member.created`; its listener makes the schedules.

`StaleList` is the abstract specification of one page: readers may be given states
that are out of date, but a state that nobody can be given any more never comes back,
and each state left behind is out of reach in the end. `Refines` says that each page of
each list implements it, with `table` the version and `known` what is in the cache and
what readers have queried and not yet stored. (`watched` picks the page.)

### Pool

A call is one request (`Pool` has names of its own, so that a module can extend it and
`Booking`); its handler is a sequence of steps that take a connection and keep it
(`connect`), use the one kept (`own`), take one for a statement (`one`), take two at once
(`two`) or give the kept one back (`release`). The five handlers with a query runner
are spelt out, all others are `Plain`. `Ask` takes what is free and stands in line for the
rest; a connection that comes back goes to the first in line (`GiveBack`).
`QueryFails` and `OwnFails` throw: from inside the try to the `finally`, from before it
past the handler, and what the query runner holds is then lost.

## 4. What the runs check

| run | instance | states | shows |
|---|---|---|---|
| `booking` | 1 booking, 2 requests, 2 baskets, all operations, faults | 1.25 M | the inductive invariant `IInv`, `PaidAsCompleted`, `NothingOutlivesAppointment`, `RemovedStaysRemoved`, `CompletionStands` |
| `booking_live` | 1 booking, 2 requests, 2 start times, 5 operations, faults | 191 k | `TotalsMatchItems`; a completion is paid |
| `booking_rollback` | 1 booking, 1 request, no faults | | *violation*: a booking made with its items loses them to an update that fails |
| `sales` | 1 product, 2 sales, 2 requests, carts of 1 and 2 of a stock of 2, 1 stall, faults | 336 k | `SInv`, `NotOversold`, `ReducedPerDelivery`, `PaidInFull`, `SettledStock` |
| `sales_live` | 2 products, 2 sales, 1 request, a refused cart and a doubled one | 132 k | every sale is taken from the stock; every payment is made |
| `reviews` | 2 appointments, 1 organization, 2 requests, ratings 1 and 5, removals, updates, faults | 1.24 M | `RInv`, `RatingCurrent`, `AppointmentRated` |
| `catalog` | 2 categories, 2 names, 2 services or packages, 2 requests, all operations, faults | 671 k | `CInv`, `ListCurrent`, `ServicesCategorized`, `PackagesOfServices`, `CountBounded` |
| `onboarding` | 2 organizations (staff of 1 send requests), 2 e-mails, 2 members, 1 day named twice by a body, 2 requests, all operations, faults | 747 k | `IInv`, `OwnedOrExcused`, `HoursAsAsked`, `PublicPage`, `SlugStays` |
| `otp` | 1 e-mail, 2 requests, 3 codes, a code lives 1 tick of 1, faults | 335 k | `ConfirmedAsGiven`, `LatestCodeStands`; a stored code is mailed or its mail was lost |
| `sessions` | 1 browser of either kind, 2 accounts, 2 requests, 3 sessions, 2 ticks, faults | 872 k | `CookieGood`, `LogoutStays`, `LogoutDeletes` |
| `lists` | each of 11 lists, 2 pages, 2 requests or listeners, 2 writes, faults | 316 k | `ClearedAfterWrite`, `PageAsked`; the cache implements `StaleList` |
| `pool` | 3 requests of any kind, 2 connections, faults | 220 k | `PoolInv`, `StarvedByTransactions`; every request ends unless transactions starve it |

`IInv`, `SInv`, `RInv`, `CInv` and `PoolInv` are inductive and contain the type invariants of
their modules; those of `Otp`, `Sessions` and `Lists` are proved and not run.

**Bounds.** One booking is enough for `Booking`: no action reads or writes a second
one, apart from a crash that hits all requests at once. Two requests make every pair
of handlers overlap at every statement; what a third can add, the proofs cover. Two
baskets and two start times make a stale duration, price or start visible. In
`Sales`, two sales and a stock that covers one of the bigger carts make them compete;
`MaxStalled` = 1 is Bull's default. In `Reviews`, two
appointments of one organization let two creates race for its rating and for one
appointment; two ratings tell the old from the new. In
`Catalog` the second category and name let services move and names be taken;
`MinParts` is 1, and not 2 as in the DTO, so that two services suffice for a package. In `Onboarding` a second organization competes for the e-mails of the first, whose staff
alone send requests (`Served`): they add and update members while the other registers. Two
e-mails allow two members at a time; days do not interact, so one is enough, which a body
names twice (`Twice`) and the default hours once; `Details` is one part besides the address. Ids of
organizations are handed out once, which bounds every run.
Deadlock is checked where the system can always go on; where ids run out and no
request is left to make (`sales_live`, `onboarding`, `otp`, `sessions`, `lists`), or where the
system can starve (`pool`), it may stop.

In `Otp` nothing relates two e-mails but the process that dies for all; with two requests
and three codes, a third request can follow two that overlapped, and the clock can pass
the deadline of a code that was checked. In `Sessions` the two requests of one browser are
those that race for its cookie; two accounts tell whose session it is; three sessions let
one be renewed twice. In `Lists` lists share nothing, which is why one at a time is
enough, two pages tell the page that is cleared from those that are not, and two writes
let a reader be one and two behind; the lifetimes of `CacheTTL` are one tick and five minutes,
the longest, two. In `Pool` two connections and three requests are the smallest
that starve with one request outside; the handlers are complete.

**Fairness.** In `Booking`, `FairSpec` is weak fairness of `FindPayment` and `SavePayment` alone, which
start from a completion that has been answered: MySQL ends the two statements of the payment.
It asks nothing of handlers that may stand in line for ever. In `Sales` it is weak fairness of
the steps of each request and of the worker: Bull hands out waiting jobs and checks
stalled ones. Both take for granted that a statement gets a connection; what becomes of requests
when connections are lost or kept is the question of `Pool`, whose `EndsOrStarves` assumes
only that statements end and handlers go on. Nothing obliges clients to call,
statements to fail or the process to die. `PaymentFollows` excuses bookings disturbed
by a crash; `EverySaleReduced` and `PaymentFollowsSale` are checked without faults,
since a failure between the save and the enqueue loses the job: the code has no retry.

In `Otp`, `Sessions` and `Lists`, `Advance` is a step of a started request, and Node goes on with
each; Bull sends every mail it has (`SendMail`) or drops it; in `Lists` time passes
for every entry (`Tick`), since expiry is by the clock. In `Pool`, `Advance` says that
MySQL ends each statement and a handler takes its next step; a place in line is served by
the connection that comes back, and needs no fairness of its own.

**Finding.** `booking_rollback`: the comments of `update` mark the start and the commit of a
transaction (appointments.service.ts 355 and 374). The run makes a booking with its items; an
update whose body names a missing service deletes them (359), throws while it saves the new ones
(362) and rolls back a transaction that holds nothing. The answer says that the update failed;
the booking has no items left (`BookedItemsSurvive`).

**Remarks.** What the code does and one might not expect, as the models have it:

* A confirmation or cancellation that has read its booking before a completion writes
  its status over the completion (`CompletionStands` excuses bookings disturbed so).
* "Not enought stock" is decided when the sale is made, and the stock is reduced by a job
  later: two sales can be promised the same stock (`NotOversold` excuses them).
* A registration has found its e-mail free, and a member is added with it, or an update gives
  it to one, before the owner is saved: the organization stays, without an owner
  (`OwnedOrExcused` excuses those).
* A body of opening hours that names a day twice makes two rows of it; `create` would have
  refused the second (`HoursAsAsked` counts them as asked for).
* Favourites, appointments and the public page go on showing an organization as it was before
  its profile, its publication or its rating changed, until they expire (`Leaves`).
* Two reviews at once, or a removal, leave an organization with an older rating
  (`RatingCurrent`); a package keeps its price and count when a service of it goes.
* Pages of a list other than the first are cleared by nobody; all pages of the users
  share a key, so that a page may be answered with another (`PageAsked` excepts them).
* `update` and `remove` in categories.controller.ts and in sales.controller.ts have no `@Role`: the `orgId` they read is
  undefined. Two writes of organizations convert a UUID with `+id`, which is NaN, and
  find no row. The sample service of a new organization belongs to a category without
  organization.
* A browser of staff that logs out is given its cookie again for five days; only the
  delete of the session keeps it from being renewed.

Each property has a mutant of the code (an operator defined beside the action it
replaces, commented "Mutant") that breaks it.

## 5. What is proved

For every number of bookings, requests, products, sales, baskets, carts, stalls,
services, categories, organizations, members, e-mails, days, codes, ticks, sessions, browsers, pages,
writes and connections, from the assumptions on the constants that each module names
(finite or infinite sets alike, save the services of `Catalog` and the requests of `Pool`,
which are counted; `None` is no value of any column):

* `BookingProofs`: `TypeCorrect`, `Invariant`, and from it `Totals`, `Payments`,
  `NoLeftovers`, `Removal` and the action property `Completion`; of `Pool`,
  `PoolInvariant`, and from it `Starvation`.
* `SalesProofs`: `SalesInvariant`, and from it `SalesTypes`, `CheckedStock`,
  `Reductions`, `SalePayments`, `StockSettled`.
* `ReviewsProofs`: `ReviewsInvariant`, and from it `ReviewsTypes`, `OrgRatings`,
  `AppointmentRatings`.
* `CatalogProofs`: `CatalogInvariant`, and from it `CatalogTypes`, `CachedList`,
  `Categorized`, `Packages`, `Counts`.
* `OnboardingProofs`: `OnboardingInvariant`, and from it `OnboardingTypes`, `Ownership`,
  `OpeningHours`, `PublicPages` and the action property `SlugsStay`.
* `OtpProofs`: `OtpInvariant`, and from it `OtpTypes`, `Confirmed`, `Latest`.
* `SessionsProofs`: `SessionsInvariant`, and from it `SessionsTypes`, `CookiesGood`,
  `LoggedOutStays`, `LogoutEnds`.
* `ListsProofs`: `ListsInvariant`, and from it `ListsTypes`, `PagesAsked`, `WritersClear`; and
  `ImplementsStaleList`, that initial states and steps of `Lists` map to those of `StaleList`.

*Booking.* None of the properties is inductive. `IInv` adds that ids handed out and not
yet inserted are blank, and, for a booking that is not disturbed, `OneAtATime`: one
request at most is on it; what that request has read is still so (`Underway`: the
price it will charge, the duration it will add, the status it has checked); and unless
it is midway the booking is `InOrder`. The step proof has one lemma per action; the
disturbed bookings need only the types and `NothingOutlivesAppointment`, which the
foreign keys keep.

*Sales.* `SInv` adds that a request owns its sale until the job is queued (`Owned`), what
a job has decremented in each state (`JobInOrder`: in `waiting` no more often than it
stalled, in `active` each line is done or left), that a product not exposed is claimed
by one sale at most and has what it claims (`Covered`), and what `create` has written
of a sale at each statement (`SaleInOrder`). For `SettledStock` it follows the pieces of a
product from the cart to the stock: a sale with items is going to have its job or has it
(`SaleAhead`), a job leaves out no line (`LinesTaken`), and what the stock has lost is what
was taken for sales (`Balanced`). The sums over sales are the cardinalities of sets of
pieces, one for each piece in a cart (`Pieces`): a decrement adds one row to such a set
(`PiecesAdded`), and when all is settled the two sets, of what was sold and of what was
taken, are the same (`SettledCut`). No sale needs to be one of finitely many.

*Reviews.* `RInv` has a part for organizations and one for appointments, proved apart. A
slot that is not shared is the only one of its organization and what it has summed is
still true (`Unshared`); an organization with a saved review not yet rated is not
settled. For an undisturbed appointment, `OneAtATime` says that one request at most
handles it and how far the two parallel writes have got (`Underway`). Both parts have
a lemma for a slot that only moves on (`QuietMove`, `ApptsMove`), used by most actions.

*Catalog.* `CInv` adds to the properties that an id stays that of a service or of a package
(`Kinds`), and what a request has in hand at each statement and that it still stands
(`Fit`): the category it is going to save again with a service is one that was read with a
count creates account for, a `create` that has yet to count has a service that is not
counted, and the parts of a package are ids of services. Most statements only move a
request on (`Quiet`, with a lemma for the tables they leave alone, `TablesQuiet`); those
that write a table go through one lemma for each kind of row (`CategoryWritten`,
`ServiceSaved`, `ServiceDeleted`). That ids are handed out only once (`Grown`) is what keeps the
rest of the requests fit meanwhile.

*Onboarding.* `IInv` adds what each statement of a handler carries (`WellFormed`), that ids
not handed out have left no trace (`Blank`), that members belong to an organization there is
(`Tied`), that the e-mails of organizations are unique, and that a registration midway is
alone with its organization and has its e-mail free or lost to a member (`Registering`):
without it, `SaveOwner` could find its e-mail taken with nobody to blame. `Holding` is about
updates of members: requests that have read the same member carry the same organization and
the same word on whether he owns it, and so does his row, if it is there; this is why a
save of what was read makes nobody an owner, and leaves the owner one. A member that is
inserted goes through one lemma (`Enrols`, `EnrolsOne`), be it by `create`, a registration or an
update that puts him back. `HoursInOrder` and `SlugInOrder` say that an organization not blurred
has one change under way at most and that what it has read still holds; days are counted
in multisets (`PlusDays`, `PlusClosed`). `Presentable` ties the slug to the address, which is
what lets publishing do without asking for it. A lemma frames the requests an action
leaves alone, so that the step proof handles each conjunct once.

*Otp.* `OtpInv` says of each request what it knows and still holds (`Fit`): the code it has
checked is the one stored unless the row was written since (`blurred`), a save that saw
an unconfirmed row and finds it confirmed has been cut by the confirmation, and a
request for a code that has met no other (`Alone`) has a newer code than any mailed.
`Stored` says of each row that its code has been mailed, is about to be or was dropped. One
lemma serves every step that changes only its request (`QuietStep`), one both saves
(`SaveStep`), one all that leaves requests alone (`OutsideStep`).

*Sessions.* `SessionsInv` adds to the properties that ids are handed out once, that what a
request or a response carries names a session made for its account that will live as
long as the cookie it sets, that deletes under way are of sessions asked to end, and
who is alone with a browser that has logged out.

*Lists.* The tables of the module are turned into facts once (`HandlerCourse`,
`HandlerClears`): every handler takes one of eight courses, and one that is not in `Leaves` ends
with the clear of what it changed, or hands it to its listener. `ListsInv` then needs
only the types and that handlers are at one of their steps (`WellFormed`); the step proof
follows who owes a clear (`Owed`) through each action (`OwedStays`). For the refinement, `KnownStep`
shows that what readers can be given only shrinks, but for the current version.

*Pool.* What is proved of the handlers is read off their steps once (`Orderly`): a connection
is taken at most once, statements of a transaction come after that, and the release is the
last step. `PoolInv` says of each request which of its promises may still be open at the
step it has come to (`Fit`): one at most where a statement has failed and the other of its pair
goes on, which is why no release ever gives back more than there is. Each kind of step has a
lemma about the one request (`AskFit`, `EndsFit`, `FailsFit`, `GivenFit`...). The connections
of all requests are counted as one set of pairs (`InUse`), so that a request that changes by
itself changes the count by its own share (`InUseChanged`), and the line is counted by the
places of each request in it (`InLine`: `PlacesTail`, `PlacesAppended`). Steps are then of three
kinds: one request alone (`BecomeStep`), one that gives a connection back to whoever is first
in line (`GiveBackStep`, `LessStep`), and `Ask`. The proof stands behind that of `Booking`,
whose transactions are three of the five that hold a connection.

Model-checked only: liveness (fairness and ENABLED are out of the prover's reach), that is
`PaymentFollows`, `EverySaleReduced`, `PaymentFollowsSale`, `EndsOrStarves` and
the mails of `Otp`, and with it the second half of `Refines`, that old states are outgrown.
Every safety property that a passing run checks is a theorem.

## 6. What is not modelled

Reads that change nothing, the wording and delivery of mails and notifications, prices
digit by digit, and the components marked `not_modelled` in `PROJECT.json`, each with its
reason: notifications and files are I/O whose outcome no handler looks at; search and
statistics are queries; leaves, closed days, subscriptions and pricings are
single-statement writes of tables no handler decides by; security is a stateless guard; the rest is configuration.
Of the components marked `partly`, the note says which columns or handlers are left out.
Orders of two statements inside one `Repository.save` are distinguished only in `Otp`,
where they matter: elsewhere its transaction makes it atomic for the others, but for the
select it starts with, whose age the other modules do not use.
