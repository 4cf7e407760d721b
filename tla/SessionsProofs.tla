--------------------------- MODULE SessionsProofs ---------------------------
(* Proofs about Sessions for any number of accounts, browsers, sessions and
   requests, and any lifetimes of which that of a cookie is the shorter. *)
EXTENDS Sessions, TLAPS

-----------------------------------------------------------------------------
(* The inductive invariant *)

\* What is known of a request by where it is.
WellFormed(r) ==
    /\ r \in Request
    /\ r.pc # "idle" => r.jar \in Jar
    /\ r.pc \in {"create", "save"} => r.account \in Account
    /\ r.pc = "find" => r.id \in Id
    /\ r.pc = "answer" /\ r.id # None => r.account \in Account
    /\ r.logout => r.pc \in {"idle", "answer"}
    /\ r.logout /\ r.pc = "answer" /\ r.jar \notin staff => r.id = None

\* A session that was made, and is of the account while it lasts.
Matches(i, a) == i \in 1 .. made /\ (sessions[i] # None => sessions[i].account = a)

\* A session lasts as long as its cookie, unless a logout ends it.
Backed(i, until) ==
    \/ i \in ended
    \/ until < now
    \/ sessions[i] # None /\ sessions[i].until >= until

CookiesBacked ==
    \A j \in Jar : jars[j] # None =>
        Matches(jars[j].id, jars[j].account) /\ Backed(jars[j].id, jars[j].until)

AnswersBacked ==
    \A s \in Slot : req[s].pc = "answer" /\ req[s].id # None =>
        Matches(req[s].id, req[s].account) /\ Backed(req[s].id, req[s].until)

\* A request nobody has met is the only one of its browser.
LoneAlone ==
    \A s, t \in Slot :
        req[s].pc # "idle" /\ req[s].lone /\ t \in RequestsOf(req[s].jar) => t = s

\* A browser that has logged out keeps no cookie, and nothing is on its way.
OutAlone == \A j \in out \ staff : jars[j] = None /\ RequestsOf(j) = {}

SessionsInv ==
    /\ TypeOK
    /\ \A s \in Slot : WellFormed(req[s])
    /\ ended \subseteq 1 .. made
    /\ \A d \in dropping : d.id \in ended
    /\ CookiesBacked
    /\ AnswersBacked
    /\ LogoutDeletes
    /\ LoneAlone
    /\ OutAlone

-----------------------------------------------------------------------------
(* Requests *)

LEMMA IdleFormed == WellFormed(Idle) /\ Idle.pc = "idle"
  BY SessionsAssumption DEF WellFormed, Idle, Request, Until

\* A request that goes on, or ends, keeps its browser and nobody new meets it.
LEMMA GoesOn ==
    ASSUME SessionsInv, NEW s \in Slot, NEW r, WellFormed(r), Become(s, r),
           staff' = staff,
           r.pc = "idle" \/ (req[s].pc # "idle" /\ r.jar = req[s].jar /\ r.lone = req[s].lone)
    PROVE  /\ req' \in [Slot -> Request]
           /\ \A t \in Slot : WellFormed(req[t])'
           /\ LoneAlone'
           /\ \A k : RequestsOf(k)' \subseteq RequestsOf(k)
           /\ jars' = jars /\ out' = out => OutAlone'
           /\ req'[s] = r
           /\ \A t \in Slot \ {s} : req'[t] = req[t]
<1>1. req \in [Slot -> Request] /\ req' = [req EXCEPT ![s] = r] /\ r \in Request
  BY DEF SessionsInv, TypeOK, Become, WellFormed
<1>2. \A t \in Slot : req'[t] = IF t = s THEN r ELSE req[t]
  BY <1>1
<1>3. \A t \in Slot : WellFormed(req[t])'
  BY <1>2, staff' = staff DEF SessionsInv, WellFormed
<1>4. ASSUME NEW t \in Slot, NEW j, t \in RequestsOf(j)'
      PROVE  t \in RequestsOf(j)
  BY <1>2, <1>4 DEF RequestsOf
<1>5. LoneAlone'
  <2> SUFFICES ASSUME NEW t \in Slot, NEW u \in Slot, req'[t].pc # "idle", req'[t].lone,
                      u \in RequestsOf(req[t].jar)'
               PROVE  u = t
    BY DEF LoneAlone
  <2>1. req[t].pc # "idle" /\ req[t].lone /\ req[t].jar = req'[t].jar
    BY <1>2
  <2>2. u \in RequestsOf(req[t].jar)
    BY <1>4, <2>1 DEF RequestsOf
  <2>3. QED BY <2>1, <2>2 DEF SessionsInv, LoneAlone
<1>6. ASSUME jars' = jars, out' = out
      PROVE  OutAlone'
  <2> SUFFICES ASSUME NEW j \in out \ staff
               PROVE  jars[j] = None /\ RequestsOf(j)' = {}
    BY <1>6 DEF OutAlone
  <2>1. jars[j] = None /\ RequestsOf(j) = {}
    BY DEF SessionsInv, OutAlone
  <2>2. RequestsOf(j)' \subseteq Slot
    BY DEF RequestsOf
  <2>3. QED BY <1>4, <2>1, <2>2
<1>7. \A k : RequestsOf(k)' \subseteq RequestsOf(k)
  BY <1>4 DEF RequestsOf
<1>8. QED BY <1>1, <1>2, <1>3, <1>5, <1>6, <1>7

\* Meeting another request changes nothing else.
LEMMA Relabelled ==
    ASSUME NEW r, WellFormed(r), NEW b \in BOOLEAN
    PROVE  WellFormed([r EXCEPT !.lone = b])
  BY DEF WellFormed, Request

\* A browser that does not count as logged out, or no longer, sends a request.
LEMMA Arrives ==
    ASSUME SessionsInv, NEW s \in Slot, NEW j \in Jar, NEW r, Send(s, j, r),
           r.pc # "idle", WellFormed([r EXCEPT !.jar = j]),
           staff' = staff, jars' = jars, out' \subseteq out, j \notin out' \ staff
    PROVE  /\ req' \in [Slot -> Request]
           /\ \A t \in Slot : WellFormed(req[t])'
           /\ LoneAlone'
           /\ OutAlone'
           /\ \A t \in Slot : req'[t].pc = "answer" =>
                 \/ /\ req[t].pc = "answer" /\ req'[t].id = req[t].id
                    /\ req'[t].account = req[t].account /\ req'[t].until = req[t].until
                 \/ /\ r.pc = "answer" /\ req'[t].id = r.id
                    /\ req'[t].account = r.account /\ req'[t].until = r.until
<1> DEFINE Met(t) == [req[t] EXCEPT !.lone = req[t].lone /\ req[t].jar # j]
           Sent == [[r EXCEPT !.jar = j] EXCEPT !.lone = (RequestsOf(j) = {})]
<1>1. \A t \in Slot : req[t] \in Request /\ WellFormed(req[t])
  BY DEF SessionsInv, TypeOK
<1>2. req[s].pc = "idle"
  <2>1. req[s] = Idle
    BY Zenon DEF Send
  <2>2. QED BY <2>1, IdleFormed
<1>3. \A t \in Slot : req'[t] = IF t = s THEN Sent ELSE Met(t)
  BY DEF Send
<1>4. /\ WellFormed(Sent)
      /\ Sent.pc = r.pc /\ Sent.jar = j /\ Sent.lone = (RequestsOf(j) = {})
      /\ Sent.id = r.id /\ Sent.account = r.account /\ Sent.until = r.until
  <2>1. WellFormed(Sent)
    BY Relabelled
  <2>2. [r EXCEPT !.jar = j] \in Request
    BY DEF WellFormed
  <2>3. QED BY <2>1, <2>2 DEF Request
<1>5. \A t \in Slot : /\ WellFormed(Met(t))
                      /\ Met(t).pc = req[t].pc /\ Met(t).jar = req[t].jar
                      /\ Met(t).id = req[t].id /\ Met(t).account = req[t].account
                      /\ Met(t).until = req[t].until
                      /\ Met(t).lone = (req[t].lone /\ req[t].jar # j)
  <2> SUFFICES ASSUME NEW t \in Slot
               PROVE  /\ WellFormed(Met(t))
                      /\ Met(t).pc = req[t].pc /\ Met(t).jar = req[t].jar
                      /\ Met(t).id = req[t].id /\ Met(t).account = req[t].account
                      /\ Met(t).until = req[t].until
                      /\ Met(t).lone = (req[t].lone /\ req[t].jar # j)
    OBVIOUS
  <2>1. WellFormed(Met(t))
    BY <1>1, Relabelled
  <2>2. QED BY <2>1, <1>1 DEF Request
<1> HIDE DEF Met, Sent
<1>6. req' \in [Slot -> Request]
  <2>1. \A t \in Slot : req'[t] \in Request
    BY <1>3, <1>4, <1>5 DEF WellFormed
  <2>2. req' = [t \in Slot |-> req'[t]]
    BY DEF Send
  <2>3. QED BY <2>1, <2>2
<1>7. \A t \in Slot : WellFormed(req[t])'
  BY <1>3, <1>4, <1>5, staff' = staff DEF WellFormed
<1>8. ASSUME NEW t \in Slot, t # s, NEW k
      PROVE  t \in RequestsOf(k)' <=> t \in RequestsOf(k)
  BY <1>3, <1>5, <1>8 DEF RequestsOf
<1>9. LoneAlone'
  <2> SUFFICES ASSUME NEW t \in Slot, NEW u \in Slot, req'[t].pc # "idle", req'[t].lone,
                      u \in RequestsOf(req[t].jar)', u # t
               PROVE  FALSE
    BY DEF LoneAlone
  <2>1. CASE t = s
    <3>1. RequestsOf(j) = {} /\ req'[t].jar = j
      BY <1>3, <1>4, <2>1
    <3>2. u \in RequestsOf(j)
      BY <1>8, <2>1, <3>1 DEF RequestsOf
    <3>3. QED BY <3>1, <3>2
  <2>2. CASE t # s
    <3>1. req[t].lone /\ req[t].jar # j /\ req'[t].jar = req[t].jar /\ req[t].pc # "idle"
      BY <1>3, <1>5, <2>2
    <3>2. CASE u = s
      BY <1>3, <1>4, <3>1, <3>2 DEF RequestsOf
    <3>3. CASE u # s
      <4>1. u \in RequestsOf(req[t].jar)
        BY <1>8, <3>1, <3>3 DEF RequestsOf
      <4>2. QED BY <3>1, <4>1 DEF SessionsInv, LoneAlone
    <3>4. QED BY <3>2, <3>3
  <2>3. QED BY <2>1, <2>2
<1>10. OutAlone'
  <2> SUFFICES ASSUME NEW k \in out' \ staff
               PROVE  jars[k] = None /\ RequestsOf(k)' = {}
    BY DEF OutAlone
  <2>1. k # j /\ jars[k] = None /\ RequestsOf(k) = {}
    BY DEF SessionsInv, OutAlone
  <2>2. s \notin RequestsOf(k)'
    BY <1>3, <1>4, <2>1 DEF RequestsOf
  <2>3. RequestsOf(k)' \subseteq Slot
    BY DEF RequestsOf
  <2>4. QED BY <1>8, <2>1, <2>2, <2>3
<1>11. QED BY <1>3, <1>4, <1>5, <1>6, <1>7, <1>9, <1>10

-----------------------------------------------------------------------------
(* Sessions *)

\* What was made stays as it was, or goes as a logout or the cron job wants it.
Persists ==
    /\ made \in Nat /\ made' \in Nat /\ made <= made'
    /\ now \in Nat /\ now' \in Nat /\ now <= now'
    /\ ended \subseteq ended'
    /\ \A i \in 1 .. made :
          \/ sessions'[i] = sessions[i]
          \/ sessions'[i] = None /\ (i \in ended' \/ Expired(i))

LEMMA StillBacked ==
    ASSUME SessionsInv, Persists, NEW i, NEW a, NEW u \in Until, Matches(i, a), Backed(i, u)
    PROVE  Matches(i, a)' /\ Backed(i, u)'
<1>1. i \in Id /\ made \in 0 .. MaxId /\ MaxId \in Nat /\ MaxTime \in Nat /\ Life \in Nat
  BY SessionsAssumption DEF SessionsInv, TypeOK, Matches, Id
<1>2. sessions[i] # None => sessions[i].until \in Nat
  BY <1>1 DEF SessionsInv, TypeOK, TokenSession, Until
<1>3. u \in Nat
  BY <1>1 DEF Until
<1>4. Matches(i, a)'
  BY <1>1 DEF Matches, Persists
<1>5. Backed(i, u)'
  BY <1>1, <1>2, <1>3 DEF Matches, Backed, Persists, Expired
<1>6. QED BY <1>4, <1>5

LEMMA CookiesStay ==
    ASSUME SessionsInv, Persists, jars' = jars
    PROVE  CookiesBacked'
<1> SUFFICES ASSUME NEW j \in Jar, jars[j] # None
             PROVE  Matches(jars[j].id, jars[j].account)' /\ Backed(jars[j].id, jars[j].until)'
  BY DEF CookiesBacked, Matches, Backed
<1>1. jars[j].until \in Until
  BY DEF SessionsInv, TypeOK, Cookie
<1>2. QED BY <1>1, StillBacked DEF SessionsInv, CookiesBacked

LEMMA AnswersStay ==
    ASSUME SessionsInv, Persists,
           \A t \in Slot : req'[t].pc = "answer" /\ req'[t].id # None =>
              \/ /\ req[t].pc = "answer" /\ req'[t].id = req[t].id
                 /\ req'[t].account = req[t].account /\ req'[t].until = req[t].until
              \/ Matches(req[t].id, req[t].account)' /\ Backed(req[t].id, req[t].until)'
    PROVE  AnswersBacked'
<1> SUFFICES ASSUME NEW t \in Slot, req'[t].pc = "answer", req'[t].id # None,
                    req[t].pc = "answer", req'[t].id = req[t].id,
                    req'[t].account = req[t].account, req'[t].until = req[t].until
             PROVE  Matches(req[t].id, req[t].account)' /\ Backed(req[t].id, req[t].until)'
  BY DEF AnswersBacked
<1>1. PICK i, a, u : /\ i = req[t].id /\ a = req[t].account /\ u = req[t].until
                     /\ u \in Until /\ Matches(i, a) /\ Backed(i, u)
  BY DEF SessionsInv, TypeOK, Request, AnswersBacked
<1>2. Matches(i, a)' /\ Backed(i, u)'
  BY <1>1, StillBacked
<1>3. QED BY <1>1, <1>2 DEF Matches, Backed

\* What does not touch the sessions keeps the sessions part of the invariant.
LEMMA SessionsUntouched ==
    ASSUME SessionsInv, UNCHANGED <<staff, sessions, made, jars, dropping, now, ended, forgotten>>,
           registered' \in SUBSET Account, out' \in SUBSET Jar,
           req' \in [Slot -> Request], \A t \in Slot : WellFormed(req[t])',
           LoneAlone', OutAlone',
           \A t \in Slot : req'[t].pc = "answer" =>
              /\ req[t].pc = "answer" /\ req'[t].id = req[t].id
              /\ req'[t].account = req[t].account /\ req'[t].until = req[t].until
    PROVE  SessionsInv'
<1>1. made \in Nat /\ now \in Nat
  BY SessionsAssumption DEF SessionsInv, TypeOK, Time
<1>2. Persists
  BY <1>1 DEF Persists
<1>3. TypeOK'
  BY DEF SessionsInv, TypeOK
<1>4. CookiesBacked' /\ AnswersBacked'
  BY <1>2, CookiesStay, AnswersStay
<1>5. LogoutDeletes'
  BY DEF SessionsInv, LogoutDeletes
<1>6. QED BY <1>3, <1>4, <1>5 DEF SessionsInv

-----------------------------------------------------------------------------
(* The steps of the browsers *)

\* Logging in and registering.
LEMMA EnterStep ==
    ASSUME SessionsInv, NEW s \in Slot, NEW j \in Jar, NEW a \in Account,
           \/ Login(s, j, a) \/ Register(s, j, a) \/ LoginWithProvider(s, j, a)
    PROVE  SessionsInv'
<1>1. PICK p \in {"create", "save"} : Send(s, j, [Idle EXCEPT !.pc = p, !.account = a])
  BY Zenon DEF Login, Register, LoginWithProvider
<1> DEFINE r == [Idle EXCEPT !.pc = p, !.account = a]
<1>2. r.pc = p /\ WellFormed([r EXCEPT !.jar = j])
  <2> DEFINE q == [r EXCEPT !.jar = j]
  <2>1. Idle \in Request /\ ~Idle.logout
    BY SessionsAssumption DEF Idle, Request, Until
  <2>2. r \in Request /\ r.pc = p /\ q \in Request /\ q.pc = p /\ q.jar = j
    BY <2>1 DEF Request
  <2>3. q.account = a /\ ~q.logout
    BY <2>1 DEF Request
  <2> HIDE DEF q
  <2>4. WellFormed(q)
    BY <2>2, <2>3 DEF WellFormed
  <2>5. QED BY <2>2, <2>4 DEF q
<1>3. /\ UNCHANGED <<staff, registered, sessions, made, jars, dropping, now, ended, forgotten>>
      /\ out' = out \ {j}
  BY DEF Login, Register, LoginWithProvider
<1>4. Send(s, j, r)
  BY <1>1
<1> HIDE DEF r
<1>5. /\ req' \in [Slot -> Request] /\ \A t \in Slot : WellFormed(req[t])'
      /\ LoneAlone' /\ OutAlone'
      /\ \A t \in Slot : req'[t].pc = "answer" =>
            /\ req[t].pc = "answer" /\ req'[t].id = req[t].id
            /\ req'[t].account = req[t].account /\ req'[t].until = req[t].until
  BY <1>2, <1>3, <1>4, Arrives
<1>6. registered' \in SUBSET Account /\ out' \in SUBSET Jar
  BY <1>3 DEF SessionsInv, TypeOK
<1>7. QED BY <1>3, <1>5, <1>6, SessionsUntouched

\* A browser that holds a cookie has not logged out.
LEMMA HolderIn ==
    ASSUME SessionsInv, NEW j \in Jar, Holds(j)
    PROVE  j \notin out \ staff /\ jars[j] # None /\ jars[j] \in Cookie
  BY DEF SessionsInv, OutAlone, Holds, TypeOK

LEMMA RefreshStep ==
    ASSUME SessionsInv, NEW s \in Slot, NEW j \in Jar, Refresh(s, j)
    PROVE  SessionsInv'
<1> DEFINE r == [Idle EXCEPT !.pc = "find", !.account = jars[j].account, !.id = jars[j].id]
<1>1. j \notin out \ staff /\ jars[j].account \in Account /\ jars[j].id \in Id
  BY HolderIn DEF Refresh, Cookie
<1>2. r.pc = "find" /\ WellFormed([r EXCEPT !.jar = j])
  <2> DEFINE q == [r EXCEPT !.jar = j]
  <2>1. Idle \in Request /\ ~Idle.logout
    BY SessionsAssumption DEF Idle, Request, Until
  <2>2. r \in Request /\ r.pc = "find" /\ q \in Request /\ q.pc = "find" /\ q.jar = j
    BY <1>1, <2>1 DEF Request
  <2>3. q.id = jars[j].id /\ ~q.logout
    BY <1>1, <2>1 DEF Request
  <2> HIDE DEF q
  <2>4. WellFormed(q)
    BY <1>1, <2>2, <2>3 DEF WellFormed
  <2>5. QED BY <2>2, <2>4 DEF q
<1>3. Send(s, j, r)
  BY DEF Refresh
<1>4. UNCHANGED <<staff, registered, sessions, made, jars, dropping, now, ended, forgotten, out>>
  BY DEF Refresh
<1> HIDE DEF r
<1>5. /\ req' \in [Slot -> Request] /\ \A t \in Slot : WellFormed(req[t])'
      /\ LoneAlone' /\ OutAlone'
      /\ \A t \in Slot : req'[t].pc = "answer" =>
            /\ req[t].pc = "answer" /\ req'[t].id = req[t].id
            /\ req'[t].account = req[t].account /\ req'[t].until = req[t].until
  BY <1>1, <1>2, <1>3, <1>4, Arrives
<1>6. registered' \in SUBSET Account /\ out' \in SUBSET Jar
  BY <1>4 DEF SessionsInv, TypeOK
<1>7. QED BY <1>4, <1>5, <1>6, SessionsUntouched

LEMMA LogoutStep ==
    ASSUME SessionsInv, NEW s \in Slot, NEW j \in Jar, NEW id \in {jars[j].id, None},
           NEW until \in Until, j \in staff \/ id = None, Logout(s, j, id, until)
    PROVE  SessionsInv'
<1> DEFINE r == [Idle EXCEPT !.pc = "answer", !.account = jars[j].account, !.logout = TRUE,
                             !.id = id, !.until = until]
           c == jars[j]
<1>1. /\ j \notin out \ staff /\ c.account \in Account /\ c.id \in Id
      /\ Matches(c.id, c.account)
  <2>1. j \notin out \ staff /\ c # None /\ c \in Cookie
    BY HolderIn DEF Logout
  <2>2. QED BY <2>1 DEF Cookie, SessionsInv, CookiesBacked
<1>2. /\ r.pc = "answer" /\ r.id = id /\ r.account = c.account /\ r.until = until
      /\ WellFormed([r EXCEPT !.jar = j])
  <2> DEFINE q == [r EXCEPT !.jar = j]
  <2>1. Idle \in Request
    BY IdleFormed DEF WellFormed
  <2>2. /\ r \in Request
        /\ r.pc = "answer" /\ r.id = id /\ r.account = c.account /\ r.until = until
    BY <1>1, <2>1 DEF Request
  <2>3. q \in Request /\ q.pc = "answer" /\ q.jar = j /\ q.id = id /\ q.account = c.account
    BY <1>1, <2>1 DEF Request
  <2> HIDE DEF q
  <2>4. WellFormed(q)
    BY <1>1, <2>3 DEF WellFormed
  <2>5. QED BY <2>2, <2>4 DEF q
<1>3. /\ Send(s, j, r)
      /\ dropping' = dropping \cup {[id |-> c.id, account |-> c.account]}
      /\ ended' = ended \cup {c.id}
      /\ UNCHANGED <<staff, registered, sessions, made, jars, now, forgotten, out>>
  BY DEF Logout
<1> HIDE DEF r
<1>4. /\ req' \in [Slot -> Request] /\ \A t \in Slot : WellFormed(req[t])'
      /\ LoneAlone' /\ OutAlone'
      /\ \A t \in Slot : req'[t].pc = "answer" =>
            \/ /\ req[t].pc = "answer" /\ req'[t].id = req[t].id
               /\ req'[t].account = req[t].account /\ req'[t].until = req[t].until
            \/ req'[t].id = id /\ req'[t].account = c.account /\ req'[t].until = until
  BY <1>1, <1>2, <1>3, Arrives
<1>5. TypeOK'
  <2>1. [id |-> c.id, account |-> c.account] \in Drop
    BY <1>1 DEF Drop
  <2>2. QED BY <1>1, <1>3, <1>4, <2>1 DEF SessionsInv, TypeOK
<1>6. ended' \subseteq 1 .. made' /\ \A d \in dropping' : d.id \in ended'
  <2>1. c.id \in 1 .. made /\ c.id \in ended'
    BY <1>1, <1>3 DEF Matches
  <2>2. ended' \subseteq 1 .. made'
    BY <1>3, <2>1 DEF SessionsInv
  <2>3. ASSUME NEW d \in dropping'
        PROVE  d.id \in ended'
    <3>1. CASE d \in dropping
      BY <1>3, <3>1 DEF SessionsInv
    <3>2. CASE d = [id |-> c.id, account |-> c.account]
      BY <2>1, <3>2
    <3>3. QED BY <1>3, <3>1, <3>2
  <2>4. QED BY <2>2, <2>3
<1>7. Persists
  BY <1>3, SessionsAssumption DEF Persists, SessionsInv, TypeOK, Time
<1>8. CookiesBacked'
  BY <1>3, <1>7, CookiesStay
<1>9. AnswersBacked'
  <2>1. ASSUME NEW t \in Slot, req'[t].pc = "answer", req'[t].id # None
        PROVE  \/ /\ req[t].pc = "answer" /\ req'[t].id = req[t].id
                  /\ req'[t].account = req[t].account /\ req'[t].until = req[t].until
               \/ Matches(req[t].id, req[t].account)' /\ Backed(req[t].id, req[t].until)'
    <3>1. CASE req'[t].id = id /\ req'[t].account = c.account /\ req'[t].until = until
      BY <1>1, <1>3, <2>1, <3>1 DEF Matches, Backed
    <3>2. QED BY <1>4, <2>1, <3>1
  <2>2. QED BY <1>7, <2>1, AnswersStay
<1>10. LogoutDeletes'
  BY <1>1, <1>3 DEF SessionsInv, LogoutDeletes, Matches
<1>11. QED BY <1>4, <1>5, <1>6, <1>8, <1>9, <1>10 DEF SessionsInv

-----------------------------------------------------------------------------
(* The steps of the requests *)

\* A request that makes no session goes on, or ends.
LEMMA RequestStep ==
    ASSUME SessionsInv, NEW s \in Slot,
           CreateUser(s) \/ FindSession(s) \/ LoseAnswer(s) \/ StatementFails(s)
    PROVE  SessionsInv'
<1>1. PICK r : /\ Become(s, r) /\ WellFormed(r) /\ r.pc # "answer"
               /\ \/ r.pc = "idle"
                  \/ req[s].pc # "idle" /\ r.jar = req[s].jar /\ r.lone = req[s].lone
  <2>1. req[s] \in Request /\ WellFormed(req[s])
    BY DEF SessionsInv, TypeOK
  <2>2. CASE Become(s, Idle)
    BY <2>2, IdleFormed
  <2>3. CASE req[s].pc = "create" /\ Goto(s, "save")
    <3> DEFINE r == [req[s] EXCEPT !.pc = "save"]
    <3>1. WellFormed(r) /\ r.pc = "save" /\ r.jar = req[s].jar /\ r.lone = req[s].lone
      BY <2>1, <2>3 DEF WellFormed, Request
    <3>2. Become(s, r)
      BY <2>3 DEF Goto
    <3> HIDE DEF r
    <3>3. QED BY <2>3, <3>1, <3>2
  <2>4. CASE /\ req[s].pc = "find" /\ Usable(req[s].id)
             /\ Become(s, [req[s] EXCEPT !.pc = "save", !.id = None,
                                         !.account = sessions[req[s].id].account])
    <3> DEFINE a == sessions[req[s].id].account
               r == [req[s] EXCEPT !.pc = "save", !.id = None, !.account = a]
    <3>1. a \in Account
      BY <2>1, <2>4 DEF WellFormed, Usable, SessionsInv, TypeOK, TokenSession
    <3> HIDE DEF a
    <3>2. WellFormed(r) /\ r.pc = "save" /\ r.jar = req[s].jar /\ r.lone = req[s].lone
      BY <2>1, <2>4, <3>1 DEF WellFormed, Request
    <3>3. Become(s, r)
      BY <2>4 DEF a
    <3> HIDE DEF r
    <3>4. QED BY <2>4, <3>2, <3>3
  <2>5. QED BY <2>2, <2>3, <2>4, Zenon DEF CreateUser, FindSession, LoseAnswer, StatementFails
<1>2. /\ UNCHANGED <<staff, sessions, made, jars, dropping, now, ended, forgotten, out>>
      /\ registered' \in SUBSET Account
  <2>1. CASE CreateUser(s)
    BY <2>1 DEF CreateUser, SessionsInv, TypeOK, WellFormed
  <2>2. CASE FindSession(s) \/ LoseAnswer(s) \/ StatementFails(s)
    BY <2>2 DEF FindSession, LoseAnswer, StatementFails, SessionsInv, TypeOK
  <2>3. QED BY <2>1, <2>2
<1>3. /\ req' \in [Slot -> Request] /\ \A t \in Slot : WellFormed(req[t])'
      /\ LoneAlone' /\ OutAlone'
      /\ req'[s] = r /\ \A t \in Slot \ {s} : req'[t] = req[t]
  BY <1>1, <1>2, GoesOn
<1>4. \A t \in Slot : req'[t].pc = "answer" => req'[t] = req[t]
  BY <1>1, <1>3
<1>5. out' \in SUBSET Jar
  BY <1>2 DEF SessionsInv, TypeOK
<1>6. QED BY <1>2, <1>3, <1>4, <1>5, SessionsUntouched

LEMMA SaveTokenStep ==
    ASSUME SessionsInv, NEW s \in Slot, SaveToken(s)
    PROVE  SessionsInv'
<1> DEFINE n == made + 1
           a == req[s].account
           u == now + CookieLife
           row == [account |-> a, until |-> now + Life]
           r == [req[s] EXCEPT !.pc = "answer", !.id = n, !.until = u]
<1>1. /\ req[s] \in Request /\ WellFormed(req[s]) /\ req[s].pc = "save"
      /\ a \in Account /\ ~req[s].logout
  BY DEF SessionsInv, TypeOK, SaveToken, WellFormed
<1>2. /\ made \in Nat /\ n \in Id /\ n \in 0 .. MaxId
      /\ now \in Nat /\ u \in Until /\ now + Life \in Until /\ now + Life >= u
  BY SessionsAssumption DEF SessionsInv, TypeOK, SaveToken, Id, Time, Until
<1>3. /\ made' = n /\ sessions' = [sessions EXCEPT ![n] = row]
      /\ Become(s, r)
      /\ UNCHANGED <<staff, registered, jars, dropping, now, ended, forgotten, out>>
  BY DEF SaveToken
<1>4. row \in TokenSession /\ row.account = a /\ row.until >= u /\ row # None
  BY <1>1, <1>2, NoneAssumption DEF TokenSession
<1>5. /\ r.pc = "answer" /\ r.id = n /\ r.account = a /\ r.until = u
      /\ r.jar = req[s].jar /\ r.lone = req[s].lone /\ WellFormed(r)
  <2> HIDE DEF a, u, n
  <2>1. r \in Request /\ r.pc = "answer" /\ r.id = n /\ r.until = u
        /\ r.jar = req[s].jar /\ r.lone = req[s].lone /\ r.logout = req[s].logout
        /\ r.account = req[s].account
    BY <1>1, <1>2 DEF Request
  <2> HIDE DEF r
  <2>2. WellFormed(r)
    BY <1>1, <2>1 DEF WellFormed, a
  <2>3. QED BY <2>1, <2>2 DEF a
<1>6. sessions'[n] = row /\ \A i \in 1 .. made : sessions'[i] = sessions[i]
  BY <1>2, <1>3 DEF SessionsInv, TypeOK, Id
<1> HIDE DEF r, row
<1>7. /\ req' \in [Slot -> Request] /\ \A t \in Slot : WellFormed(req[t])'
      /\ LoneAlone' /\ OutAlone'
      /\ req'[s] = r /\ \A t \in Slot \ {s} : req'[t] = req[t]
  BY <1>1, <1>3, <1>5, GoesOn
<1>8. TypeOK'
  <2>1. sessions' \in [Id -> TokenSession \cup {None}]
    BY <1>3, <1>4 DEF SessionsInv, TypeOK
  <2>2. QED BY <1>2, <1>3, <1>7, <2>1 DEF SessionsInv, TypeOK
<1>9. Persists
  BY <1>2, <1>3, <1>6 DEF Persists
<1>10. CookiesBacked'
  BY <1>3, <1>9, CookiesStay
<1>11. AnswersBacked'
  <2>1. Matches(req[s].id, req[s].account)' /\ Backed(req[s].id, req[s].until)'
    <3>1. req'[s].id = n /\ req'[s].account = a /\ req'[s].until = u
      BY <1>5, <1>7
    <3>2. n \in 1 .. made' /\ sessions'[n].account = a /\ sessions'[n] # None
          /\ sessions'[n].until >= u
      BY <1>2, <1>3, <1>4, <1>6
    <3>3. QED BY <3>1, <3>2 DEF Matches, Backed
  <2>2. QED BY <1>7, <1>9, <2>1, AnswersStay
<1>12. ended' \subseteq 1 .. made' /\ LogoutDeletes'
  <2>1. ended \subseteq 1 .. made
    BY DEF SessionsInv
  <2>2. QED BY <1>2, <1>3, <1>6, <2>1 DEF SessionsInv, LogoutDeletes
<1>13. QED BY <1>3, <1>7, <1>8, <1>10, <1>11, <1>12 DEF SessionsInv

LEMMA AnswerStep ==
    ASSUME SessionsInv, NEW s \in Slot, Answer(s)
    PROVE  SessionsInv'
<1> DEFINE j == req[s].jar
           c == [id |-> req[s].id, account |-> req[s].account, until |-> req[s].until]
<1>1. /\ req[s] \in Request /\ WellFormed(req[s]) /\ req[s].pc = "answer" /\ j \in Jar
      /\ s \in RequestsOf(j)
  BY DEF SessionsInv, TypeOK, Answer, WellFormed, RequestsOf
<1>2. /\ jars' = [jars EXCEPT ![j] = IF req[s].id = None THEN None ELSE c]
      /\ out' = IF req[s].logout /\ req[s].lone THEN out \cup {j} ELSE out
      /\ Become(s, Idle)
      /\ UNCHANGED <<staff, registered, sessions, made, dropping, now, ended, forgotten>>
  BY DEF Answer
<1>3. req[s].id # None => c \in Cookie /\ Matches(c.id, c.account) /\ Backed(c.id, c.until)
  BY <1>1 DEF WellFormed, Request, Cookie, SessionsInv, AnswersBacked
<1> HIDE DEF c
<1>4. jars' \in [Jar -> Cookie \cup {None}]
  BY <1>1, <1>2, <1>3 DEF SessionsInv, TypeOK
<1>5. /\ req' \in [Slot -> Request] /\ \A t \in Slot : WellFormed(req[t])'
      /\ LoneAlone'
      /\ \A k : RequestsOf(k)' \subseteq RequestsOf(k)
      /\ req'[s] = Idle /\ \A t \in Slot \ {s} : req'[t] = req[t]
  BY <1>2, IdleFormed, GoesOn
<1>6. TypeOK'
  BY <1>1, <1>2, <1>4, <1>5 DEF SessionsInv, TypeOK
<1>7. Persists
  BY <1>2, SessionsAssumption DEF Persists, SessionsInv, TypeOK, Time
<1>8. AnswersBacked'
  BY <1>5, <1>7, IdleFormed, AnswersStay
<1>9. CookiesBacked'
  <2> SUFFICES ASSUME NEW k \in Jar, jars'[k] # None
               PROVE  Matches(jars[k].id, jars[k].account)' /\ Backed(jars[k].id, jars[k].until)'
    BY DEF CookiesBacked
  <2>1. CASE k = j
    <3>1. jars'[k] = c /\ req[s].id # None
      BY <1>1, <1>2, <2>1 DEF SessionsInv, TypeOK
    <3>2. QED BY <1>2, <1>3, <3>1 DEF Matches, Backed
  <2>2. CASE k # j
    <3>1. jars'[k] = jars[k]
      BY <1>1, <1>2, <2>2 DEF SessionsInv, TypeOK
    <3>2. QED BY <1>2, <3>1 DEF SessionsInv, CookiesBacked, Matches, Backed
  <2>3. QED BY <2>1, <2>2
<1>10. OutAlone'
  <2> SUFFICES ASSUME NEW k \in out' \ staff
               PROVE  jars'[k] = None /\ RequestsOf(k)' = {}
    BY <1>2 DEF OutAlone
  <2>1. CASE k \in out
    <3>1. jars[k] = None /\ RequestsOf(k) = {} /\ k # j
      BY <1>1, <2>1 DEF SessionsInv, OutAlone
    <3>2. QED BY <1>1, <1>2, <1>5, <3>1 DEF SessionsInv, TypeOK
  <2>2. CASE k \notin out
    <3>1. k = j /\ req[s].logout /\ req[s].lone
      BY <1>2, <2>2
    <3>2. req[s].id = None
      BY <1>1, <3>1 DEF WellFormed
    <3>3. jars'[k] = None
      BY <1>1, <1>2, <3>1, <3>2 DEF SessionsInv, TypeOK
    <3>4. RequestsOf(j) \subseteq {s}
      BY <1>1, <3>1 DEF SessionsInv, LoneAlone, RequestsOf
    <3>5. s \notin RequestsOf(k)'
      BY <1>5, IdleFormed DEF RequestsOf
    <3>6. QED BY <1>5, <3>1, <3>3, <3>4, <3>5
  <2>3. QED BY <2>1, <2>2
<1>11. LogoutDeletes'
  BY <1>2 DEF SessionsInv, LogoutDeletes
<1>12. QED BY <1>2, <1>5, <1>6, <1>8, <1>9, <1>10, <1>11 DEF SessionsInv

-----------------------------------------------------------------------------
(* The steps that are not those of a request *)

\* Nothing is sent and no answer comes.
LEMMA AsideStep ==
    ASSUME SessionsInv, Persists, TypeOK', LogoutDeletes',
           UNCHANGED <<staff, made, jars, req, ended, out>>,
           dropping' \subseteq dropping
    PROVE  SessionsInv'
<1>1. CookiesBacked' /\ AnswersBacked'
  BY CookiesStay, AnswersStay
<1>2. \A t \in Slot : WellFormed(req[t])'
  BY DEF SessionsInv, WellFormed
<1>3. LoneAlone' /\ OutAlone'
  BY DEF SessionsInv, LoneAlone, OutAlone, RequestsOf
<1>4. QED BY <1>1, <1>2, <1>3 DEF SessionsInv

LEMMA DeleteStep ==
    ASSUME SessionsInv, NEW d \in dropping, DeleteSession(d)
    PROVE  SessionsInv'
<1>1. d \in Drop /\ d.id \in ended
  BY DEF SessionsInv, TypeOK
<1>2. /\ dropping' = dropping \ {d}
      /\ sessions' = IF sessions[d.id] # None /\ sessions[d.id].account = d.account
                     THEN [sessions EXCEPT ![d.id] = None] ELSE sessions
      /\ UNCHANGED <<staff, registered, made, jars, now, req, ended, forgotten, out>>
  BY DEF DeleteSession
<1>3. TypeOK'
  BY <1>1, <1>2 DEF SessionsInv, TypeOK
<1>4. \A i \in Id : sessions'[i] = sessions[i] \/ (sessions'[i] = None /\ i = d.id)
  BY <1>1, <1>2 DEF SessionsInv, TypeOK
<1>5. Persists
  BY <1>1, <1>2, <1>4, SessionsAssumption DEF Persists, SessionsInv, TypeOK, Time, Id
<1>6. LogoutDeletes'
  <2> SUFFICES ASSUME NEW i \in ended \ forgotten, sessions'[i] # None
               PROVE  [id |-> i, account |-> sessions'[i].account] \in dropping'
    BY <1>2 DEF LogoutDeletes
  <2>1. i \in Id
    BY DEF SessionsInv, TypeOK
  <2>2. sessions'[i] = sessions[i]
    BY <1>4, <2>1
  <2>3. [id |-> i, account |-> sessions[i].account] \in dropping
    BY <2>2 DEF SessionsInv, LogoutDeletes
  <2>4. CASE i = d.id
    <3>1. sessions[i].account # d.account
      BY <1>1, <1>2, <2>1, <2>2, <2>4 DEF SessionsInv, TypeOK
    <3>2. [id |-> i, account |-> sessions[i].account].account # d.account
      BY <3>1
    <3>3. QED BY <1>2, <2>2, <2>3, <3>2
  <2>5. CASE i # d.id
    <3>1. [id |-> i, account |-> sessions[i].account].id # d.id
      BY <2>5
    <3>2. QED BY <1>2, <2>2, <2>3, <3>1
  <2>6. QED BY <2>4, <2>5
<1>7. QED BY <1>2, <1>3, <1>5, <1>6, AsideStep

LEMMA RemoveExpiredStep ==
    ASSUME SessionsInv, RemoveExpiredSessions
    PROVE  SessionsInv'
<1>1. /\ sessions' = [i \in Id |-> IF Expired(i) THEN None ELSE sessions[i]]
      /\ UNCHANGED <<staff, registered, made, jars, dropping, now, req, ended, forgotten, out>>
  BY DEF RemoveExpiredSessions
<1>2. TypeOK'
  BY <1>1 DEF SessionsInv, TypeOK
<1>3. Persists
  BY <1>1, SessionsAssumption DEF Persists, SessionsInv, TypeOK, Time, Id
<1>4. LogoutDeletes'
  BY <1>1 DEF SessionsInv, TypeOK, LogoutDeletes
<1>5. QED BY <1>1, <1>2, <1>3, <1>4, AsideStep

LEMMA TickStep ==
    ASSUME SessionsInv, Tick
    PROVE  SessionsInv'
<1>1. now' = now + 1 /\ now' \in Time /\ now \in Nat
  BY SessionsAssumption DEF Tick, SessionsInv, TypeOK, Time
<1>2. UNCHANGED <<staff, registered, sessions, made, jars, dropping, req, ended, forgotten, out>>
  BY DEF Tick
<1>3. TypeOK'
  BY <1>1, <1>2 DEF SessionsInv, TypeOK
<1>4. Persists
  BY <1>1, <1>2, SessionsAssumption DEF Persists, SessionsInv, TypeOK
<1>5. LogoutDeletes'
  BY <1>2 DEF SessionsInv, LogoutDeletes
<1>6. QED BY <1>2, <1>3, <1>4, <1>5, AsideStep

LEMMA CrashStep ==
    ASSUME SessionsInv, Crash
    PROVE  SessionsInv'
<1>1. /\ req' = [s \in Slot |-> Idle] /\ dropping' = {}
      /\ forgotten' = forgotten \cup {d.id : d \in dropping}
      /\ UNCHANGED <<staff, registered, sessions, made, jars, now, ended, out>>
  BY DEF Crash
<1>2. \A t \in Slot : req'[t] = Idle /\ req'[t].pc = "idle"
  BY <1>1, IdleFormed
<1>3. req' \in [Slot -> Request] /\ \A t \in Slot : WellFormed(req[t])'
  BY <1>1, <1>2, IdleFormed DEF WellFormed
<1>4. forgotten' \subseteq Id
  BY <1>1 DEF SessionsInv, TypeOK, Drop
<1>5. TypeOK'
  BY <1>1, <1>3, <1>4 DEF SessionsInv, TypeOK
<1>6. Persists
  BY <1>1, SessionsAssumption DEF Persists, SessionsInv, TypeOK, Time
<1>7. CookiesBacked' /\ AnswersBacked'
  BY <1>1, <1>2, <1>6, CookiesStay, AnswersStay
<1>8. LoneAlone' /\ OutAlone'
  BY <1>1, <1>2 DEF SessionsInv, LoneAlone, OutAlone, RequestsOf
<1>9. LogoutDeletes'
  <2> SUFFICES ASSUME NEW i \in ended, i \notin forgotten'
               PROVE  sessions[i] = None
    BY <1>1 DEF LogoutDeletes
  <2>1. ASSUME NEW a, [id |-> i, account |-> a] \in dropping
        PROVE  FALSE
    <3>1. [id |-> i, account |-> a].id = i
      OBVIOUS
    <3>2. QED BY <1>1, <2>1, <3>1
  <2>2. QED BY <1>1, <2>1 DEF SessionsInv, LogoutDeletes
<1>10. QED BY <1>1, <1>3, <1>5, <1>7, <1>8, <1>9 DEF SessionsInv

-----------------------------------------------------------------------------
(* The theorems *)

LEMMA InitInv == Init => SessionsInv
<1> SUFFICES ASSUME Init PROVE SessionsInv
  OBVIOUS
<1> USE SessionsAssumption
<1>1. \A t \in Slot : req[t] = Idle /\ req[t].pc = "idle"
  BY IdleFormed DEF Init
<1>2. req \in [Slot -> Request] /\ \A t \in Slot : WellFormed(req[t])
  BY <1>1, IdleFormed DEF Init, WellFormed
<1>3. TypeOK
  BY <1>2 DEF Init, TypeOK, Time
<1>4. CookiesBacked /\ AnswersBacked /\ LogoutDeletes
  BY <1>1 DEF Init, CookiesBacked, AnswersBacked, LogoutDeletes
<1>5. LoneAlone /\ OutAlone
  BY <1>1 DEF Init, LoneAlone, OutAlone
<1>6. QED BY <1>2, <1>3, <1>4, <1>5 DEF SessionsInv, Init

LEMMA StepInv == SessionsInv /\ [Next]_vars => SessionsInv'
<1> SUFFICES ASSUME SessionsInv, [Next]_vars
             PROVE  SessionsInv'
  OBVIOUS
<1>1. ASSUME NEW s \in Slot, NEW j \in Jar, NEW a \in Account,
             \/ LoginOrganization(s, j, a) \/ LoginUser(s, j, a)
             \/ RegisterUser(s, j, a) \/ CreateOrganization(s, j, a)
             \/ LoginWithProvider(s, j, a)
      PROVE  SessionsInv'
  BY <1>1, EnterStep DEF LoginOrganization, LoginUser, RegisterUser, CreateOrganization
<1>2. ASSUME NEW s \in Slot, NEW j \in Jar, RefreshUser(s, j) \/ RefreshOrganization(s, j)
      PROVE  SessionsInv'
  BY <1>2, RefreshStep DEF RefreshUser, RefreshOrganization
<1>3. ASSUME NEW s \in Slot, NEW j \in Jar, LogoutOrganization(s, j)
      PROVE  SessionsInv'
  <2>1. now + CookieLife \in Until
    BY SessionsAssumption DEF SessionsInv, TypeOK, Time, Until
  <2>2. j \in staff /\ Logout(s, j, jars[j].id, now + CookieLife)
    BY <1>3 DEF LogoutOrganization
  <2>3. QED BY <2>1, <2>2, LogoutStep
<1>4. ASSUME NEW s \in Slot, NEW j \in Jar, LogoutUser(s, j)
      PROVE  SessionsInv'
  <2>1. 0 \in Until
    BY SessionsAssumption DEF Until
  <2>2. Logout(s, j, None, 0)
    BY <1>4 DEF LogoutUser
  <2>3. QED BY <2>1, <2>2, LogoutStep
<1>5. ASSUME NEW s \in Slot, Advance(s) \/ LoseAnswer(s) \/ StatementFails(s)
      PROVE  SessionsInv'
  BY <1>5, RequestStep, SaveTokenStep, AnswerStep DEF Advance
<1>6. CASE UNCHANGED vars
  BY <1>6 DEF vars, SessionsInv, TypeOK, WellFormed, CookiesBacked, AnswersBacked, Matches,
              Backed, LogoutDeletes, LoneAlone, OutAlone, RequestsOf
<1>7. QED
  BY <1>1, <1>2, <1>3, <1>4, <1>5, <1>6, DeleteStep, RemoveExpiredStep, TickStep, CrashStep
     DEF Next

\* Every reachable state satisfies the inductive invariant.
THEOREM SessionsInvariant == Spec => []SessionsInv
  BY InitInv, StepInv, PTL DEF Spec

\* Every variable of Sessions keeps its type.
THEOREM SessionsTypes == Spec => []TypeOK
<1>1. SessionsInv => TypeOK
  BY DEF SessionsInv
<1>2. QED BY <1>1, SessionsInvariant, PTL

\* A browser with a cookie that has not expired can renew its session, unless it
\* has asked to end it (AuthService.refresh, logout and removeExpiredSessions).
THEOREM CookiesGood == Spec => []CookieGood
<1>1. ASSUME SessionsInv, NEW j \in Jar, Holds(j), jars[j].id \notin ended
      PROVE  Usable(jars[j].id) /\ sessions[jars[j].id].account = jars[j].account
  <2> DEFINE i == jars[j].id
             u == jars[j].until
  <2>1. jars[j] # None /\ u > now /\ jars[j] \in Cookie
    BY <1>1, HolderIn DEF Holds
  <2>2. Matches(i, jars[j].account) /\ Backed(i, u)
    BY <1>1, <2>1 DEF SessionsInv, CookiesBacked
  <2>3. now \in Nat /\ u \in Nat /\ i \in Id
    BY <1>1, <2>1, SessionsAssumption DEF SessionsInv, TypeOK, Time, Cookie, Until
  <2>4. sessions[i] # None /\ sessions[i].until >= u
    BY <1>1, <2>1, <2>2, <2>3 DEF Backed
  <2>5. sessions[i].until \in Nat
    BY <1>1, <2>3, <2>4, SessionsAssumption DEF SessionsInv, TypeOK, TokenSession, Until
  <2>6. QED BY <2>1, <2>2, <2>3, <2>4, <2>5 DEF Matches, Usable
<1>2. SessionsInv => CookieGood
  BY <1>1 DEF CookieGood
<1>3. QED BY <1>2, SessionsInvariant, PTL

\* A customer who has logged out, alone, stays logged out
\* (UserAuthController.handleLogout).
THEOREM LoggedOutStays == Spec => []LogoutStays
<1>1. SessionsInv => LogoutStays
  BY DEF SessionsInv, OutAlone, LogoutStays
<1>2. QED BY <1>1, SessionsInvariant, PTL

\* A session that was to be ended is gone or about to go, unless the process died
\* first (AuthService.logout, whose delete nobody awaits).
THEOREM LogoutEnds == Spec => []LogoutDeletes
<1>1. SessionsInv => LogoutDeletes
  BY DEF SessionsInv
<1>2. QED BY <1>1, SessionsInvariant, PTL

=============================================================================
