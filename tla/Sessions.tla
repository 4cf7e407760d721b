------------------------------ MODULE Sessions ------------------------------
(***************************************************************************)
(* Being logged in: the handlers of AuthService and UserAuthService that   *)
(* make, renew and end a session, over the tables token_session and user,  *)
(* the cookie each browser keeps, and the job that removes what has        *)
(* expired.                                                                *)
(*                                                                         *)
(* A slot is one HTTP request; each await on the database ends a step and  *)
(* the answer reaches the browser in a step of its own.  The delete of a   *)
(* logout is not awaited: it and the answer come in either order.          *)
(*                                                                         *)
(* Data: a jar is what one browser keeps under one of the cookie names,    *)
(* oid for staff or sid for customers, with the access token that came     *)
(* with it.  Passwords are right: a wrong one changes nothing.  A request  *)
(* without its cookie changes nothing either.                              *)
(***************************************************************************)
EXTENDS Naturals

CONSTANTS
    Account,    \* members and users
    Customer,   \* the accounts of users
    Jar,        \* the cookies of the browsers
    MaxId,      \* the sessions made in a run
    Slot,       \* the requests that can be in flight at the same time
    MaxTime,    \* the clock stops here
    Life,       \* of a session: 7 days
    CookieLife, \* of a cookie: 5 days
    Faulty,     \* whether statements and answers may fail and the process may die
    None

ASSUME SessionsAssumption ==
    /\ Customer \subseteq Account
    /\ MaxTime \in Nat
    /\ Life \in Nat
    /\ CookieLife \in 0 .. Life
    /\ Faulty \in BOOLEAN
    /\ MaxId \in Nat
    /\ None \notin Account \cup Jar

VARIABLES
    staff,      \* the jars of the cookie oid; it never changes
    registered, \* the accounts there are
    sessions,   \* token_session
    made,       \* how many sessions have been made; ids are in that order
    jars,       \* the cookie of each browser
    dropping,   \* the deletes that logouts have started
    now,        \* the clock
    req,        \* what each slot is doing
    \* History variables: no action reads them.
    ended,      \* the sessions a logout was asked to end
    forgotten,  \* those whose delete was lost
    out         \* the browsers whose last request was a logout, alone

vars == <<staff, registered, sessions, made, jars, dropping, now, req, ended, forgotten, out>>

Id == 1 .. MaxId
Time == 0 .. MaxTime
Until == 0 .. (MaxTime + Life)

TokenSession == [account : Account, until : Until]

Cookie == [id : Id, account : Account, until : Until]

Drop == [id : Id, account : Account]

ASSUME NoneAssumption == None \notin TokenSession \cup Cookie \cup Id

Request ==
    [pc      : {"idle", "create", "find", "save", "answer"},
     jar     : Jar \cup {None},
     account : Account \cup {None},
     id      : Id \cup {None},
     until   : Until,
     logout  : BOOLEAN,
     lone    : BOOLEAN]   \* history: no other request of the browser has met it

Idle == [pc |-> "idle", jar |-> None, account |-> None, id |-> None, until |-> 0,
         logout |-> FALSE, lone |-> FALSE]

Init ==
    /\ staff \in SUBSET Jar
    /\ registered = {}
    /\ sessions = [i \in Id |-> None]
    /\ made = 0
    /\ jars = [j \in Jar |-> None]
    /\ dropping = {}
    /\ now = 0
    /\ req = [s \in Slot |-> Idle]
    /\ ended = {}
    /\ forgotten = {}
    /\ out = {}

-----------------------------------------------------------------------------
(* Helpers *)

Become(s, r) == req' = [req EXCEPT ![s] = r]
Goto(s, pc) == Become(s, [req[s] EXCEPT !.pc = pc])

RequestsOf(j) == {s \in Slot : req[s].pc # "idle" /\ req[s].jar = j}

\* Browser j sends a request.
Send(s, j, r) ==
    /\ req[s] = Idle
    /\ req' = [t \in Slot |->
                 IF t = s THEN [r EXCEPT !.jar = j, !.lone = RequestsOf(j) = {}]
                 ELSE [req[t] EXCEPT !.lone = @ /\ req[t].jar # j]]

\* Members log in on the pages of staff, users on those of customers.
Page(j, a) == j \in staff <=> a \notin Customer

\* The cookie a browser sends.
Holds(j) == jars[j] # None /\ jars[j].until > now

-----------------------------------------------------------------------------
(* Logging in and registering *)

\* The account is found and its password compared.
Login(s, j, a) ==
    /\ Page(j, a)
    /\ a \in registered
    /\ Send(s, j, [Idle EXCEPT !.pc = "save", !.account = a])
    /\ out' = out \ {j}
    /\ UNCHANGED <<staff, registered, sessions, made, jars, dropping, now, ended, forgotten>>

LoginOrganization(s, j, a) == a \notin Customer /\ Login(s, j, a)

LoginUser(s, j, a) == a \in Customer /\ Login(s, j, a)

\* An e-mail nobody has registers.
Register(s, j, a) ==
    /\ Page(j, a)
    /\ a \notin registered
    /\ Send(s, j, [Idle EXCEPT !.pc = "create", !.account = a])
    /\ out' = out \ {j}
    /\ UNCHANGED <<staff, registered, sessions, made, jars, dropping, now, ended, forgotten>>

RegisterUser(s, j, a) == a \in Customer /\ Register(s, j, a)

\* An organization is made with its first member.
CreateOrganization(s, j, a) == a \notin Customer /\ Register(s, j, a)

\* loginWithProvider: a user who is not there yet is created.
LoginWithProvider(s, j, a) ==
    /\ Page(j, a)
    /\ a \in Customer
    /\ Send(s, j, [Idle EXCEPT !.pc = IF a \in registered THEN "save" ELSE "create",
                               !.account = a])
    /\ out' = out \ {j}
    /\ UNCHANGED <<staff, registered, sessions, made, jars, dropping, now, ended, forgotten>>

\* The e-mail of a user is unique, like that of a member: of two who register
\* it one is refused.
CreateUser(s) ==
    /\ req[s].pc = "create"
    /\ \/ /\ req[s].account \notin registered
          /\ registered' = registered \cup {req[s].account}
          /\ Goto(s, "save")
       \/ /\ req[s].account \in registered
          /\ Become(s, Idle)
          /\ UNCHANGED registered
    /\ UNCHANGED <<staff, sessions, made, jars, dropping, now, ended, forgotten, out>>

\* The session and, with it, the cookie of the answer.
SaveToken(s) ==
    /\ req[s].pc = "save"
    /\ made < MaxId
    /\ made' = made + 1
    /\ sessions' = [sessions EXCEPT ![made + 1] = [account |-> req[s].account,
                                                   until |-> now + Life]]
    /\ Become(s, [req[s] EXCEPT !.pc = "answer", !.id = made + 1, !.until = now + CookieLife])
    /\ UNCHANGED <<staff, registered, jars, dropping, now, ended, forgotten, out>>

-----------------------------------------------------------------------------
(* Renewing *)

\* The cookie names the session.
Refresh(s, j) ==
    /\ Holds(j)
    /\ Send(s, j, [Idle EXCEPT !.pc = "find", !.account = jars[j].account,
                               !.id = jars[j].id])
    /\ UNCHANGED <<staff, registered, sessions, made, jars, dropping, now, ended, forgotten, out>>

RefreshUser(s, j) == j \notin staff /\ Refresh(s, j)

RefreshOrganization(s, j) == j \in staff /\ Refresh(s, j)

Usable(i) == sessions[i] # None /\ sessions[i].until >= now

\* Mutant: the session found is ended, as when refresh tokens are rotated.
FindSessionRotating(s) ==
    /\ req[s].pc = "find"
    /\ \/ /\ Usable(req[s].id)
          /\ Become(s, [req[s] EXCEPT !.pc = "save", !.id = None,
                                      !.account = sessions[req[s].id].account])
          /\ sessions' = [sessions EXCEPT ![req[s].id] = None]
       \/ /\ ~Usable(req[s].id)
          /\ Become(s, Idle)
          /\ UNCHANGED sessions
    /\ UNCHANGED <<staff, registered, made, jars, dropping, now, ended, forgotten, out>>

\* The session found is kept and another one is made.  One that is not there
\* is an error, like one that has expired.
FindSession(s) ==
    /\ req[s].pc = "find"
    /\ \/ /\ Usable(req[s].id)
          /\ Become(s, [req[s] EXCEPT !.pc = "save", !.id = None,
                                      !.account = sessions[req[s].id].account])
       \/ /\ ~Usable(req[s].id)
          /\ Become(s, Idle)
    /\ UNCHANGED <<staff, registered, sessions, made, jars, dropping, now, ended, forgotten, out>>

-----------------------------------------------------------------------------
(* Ending *)

\* The delete of the session is started, and the answer sets the cookie to
\* the session of id.
Logout(s, j, id, until) ==
    /\ Holds(j)
    /\ Send(s, j, [Idle EXCEPT !.pc = "answer", !.account = jars[j].account, !.logout = TRUE,
                               !.id = id, !.until = until])
    /\ dropping' = dropping \cup {[id |-> jars[j].id, account |-> jars[j].account]}
    /\ ended' = ended \cup {jars[j].id}
    /\ UNCHANGED <<staff, registered, sessions, made, jars, now, forgotten, out>>

\* The cookie of staff is given five more days.
LogoutOrganization(s, j) ==
    /\ j \in staff
    /\ Holds(j)
    /\ Logout(s, j, jars[j].id, now + CookieLife)

\* Mutant: so is that of a customer.
LogoutUserKeepingCookie(s, j) ==
    /\ j \notin staff
    /\ Holds(j)
    /\ Logout(s, j, jars[j].id, now + CookieLife)

\* That of a customer is cleared.
LogoutUser(s, j) == j \notin staff /\ Logout(s, j, None, 0)

\* Mutant: id and account change places, and no row matches.
DeleteSessionNot(d) ==
    /\ d \in dropping
    /\ dropping' = dropping \ {d}
    /\ UNCHANGED <<staff, registered, sessions, made, jars, now, req, ended, forgotten, out>>

\* The delete names the session and its account.
DeleteSession(d) ==
    /\ d \in dropping
    /\ dropping' = dropping \ {d}
    /\ sessions' = IF sessions[d.id] # None /\ sessions[d.id].account = d.account
                   THEN [sessions EXCEPT ![d.id] = None]
                   ELSE sessions
    /\ UNCHANGED <<staff, registered, made, jars, now, req, ended, forgotten, out>>

Expired(i) == sessions[i] # None /\ sessions[i].until < now

\* The cron job; nobody awaits its delete either.
RemoveExpiredSessions ==
    /\ \E i \in Id : Expired(i)
    /\ sessions' = [i \in Id |-> IF Expired(i) THEN None ELSE sessions[i]]
    /\ UNCHANGED <<staff, registered, made, jars, dropping, now, req, ended, forgotten, out>>

-----------------------------------------------------------------------------
(* The browser, the clock and faults *)

\* The answer arrives: a cookie without a session, or out of date, is none.
Answer(s) ==
    LET j == req[s].jar IN
    /\ req[s].pc = "answer"
    /\ jars' = [jars EXCEPT ![j] =
                  IF req[s].id = None THEN None
                  ELSE [id |-> req[s].id, account |-> req[s].account, until |-> req[s].until]]
    /\ out' = IF req[s].logout /\ req[s].lone THEN out \cup {j} ELSE out
    /\ Become(s, Idle)
    /\ UNCHANGED <<staff, registered, sessions, made, dropping, now, ended, forgotten>>

LoseAnswer(s) ==
    /\ Faulty
    /\ req[s].pc = "answer"
    /\ Become(s, Idle)
    /\ UNCHANGED <<staff, registered, sessions, made, jars, dropping, now, ended, forgotten, out>>

Tick ==
    /\ now < MaxTime
    /\ now' = now + 1
    /\ UNCHANGED <<staff, registered, sessions, made, jars, dropping, req, ended, forgotten, out>>

StatementFails(s) ==
    /\ Faulty
    /\ req[s].pc \in {"create", "find", "save"}
    /\ Become(s, Idle)
    /\ UNCHANGED <<staff, registered, sessions, made, jars, dropping, now, ended, forgotten, out>>

\* The process dies and is started again.  A delete nobody awaits that fails
\* is a rejection nobody handles, and ends it too.
Crash ==
    /\ Faulty
    /\ req' = [s \in Slot |-> Idle]
    /\ dropping' = {}
    /\ forgotten' = forgotten \cup {d.id : d \in dropping}
    /\ UNCHANGED <<staff, registered, sessions, made, jars, now, ended, out>>

Advance(s) ==
    \/ CreateUser(s)
    \/ SaveToken(s)
    \/ FindSession(s)
    \/ Answer(s)

Next ==
    \/ \E s \in Slot, j \in Jar :
          \/ \E a \in Account : \/ LoginOrganization(s, j, a)
                                \/ LoginUser(s, j, a)
                                \/ RegisterUser(s, j, a)
                                \/ CreateOrganization(s, j, a)
                                \/ LoginWithProvider(s, j, a)
          \/ RefreshUser(s, j)
          \/ RefreshOrganization(s, j)
          \/ LogoutOrganization(s, j)
          \/ LogoutUser(s, j)
    \/ \E s \in Slot : Advance(s) \/ LoseAnswer(s) \/ StatementFails(s)
    \/ \E d \in dropping : DeleteSession(d)
    \/ RemoveExpiredSessions
    \/ Tick
    \/ Crash

Spec == Init /\ [][Next]_vars

-----------------------------------------------------------------------------
(* Properties *)

\* Every variable keeps its type.
TypeOK ==
    /\ staff \in SUBSET Jar
    /\ registered \in SUBSET Account
    /\ sessions \in [Id -> TokenSession \cup {None}]
    /\ made \in 0 .. MaxId
    /\ jars \in [Jar -> Cookie \cup {None}]
    /\ dropping \in SUBSET Drop
    /\ now \in Time
    /\ req \in [Slot -> Request]
    /\ ended \in SUBSET Id
    /\ forgotten \in SUBSET Id
    /\ out \in SUBSET Jar

\* A browser whose cookie has not expired can renew its session, unless it
\* has asked to end it: the session is there, of the same account, and not
\* yet expired, however answers are lost or come out of order and whatever
\* the cron job and other logouts have removed.
CookieGood ==
    \A j \in Jar : Holds(j) /\ jars[j].id \notin ended =>
        Usable(jars[j].id) /\ sessions[jars[j].id].account = jars[j].account

\* A customer who has logged out, with no other request of the browser on its
\* way, stays logged out until he asks to log in.
LogoutStays == \A j \in out \ staff : jars[j] = None

\* A session that was to be ended is gone, or the delete that will end it is
\* on its way, unless the process died first.
LogoutDeletes ==
    \A i \in ended \ forgotten :
        sessions[i] = None \/ [id |-> i, account |-> sessions[i].account] \in dropping

=============================================================================
