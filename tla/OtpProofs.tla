------------------------------ MODULE OtpProofs ------------------------------
(* Proofs about Otp for any number of e-mails, requests, codes and ticks. *)
EXTENDS Otp, TLAPS

-----------------------------------------------------------------------------
(* The inductive invariant *)

Asks(s, e) == req[s].pc \in Asking /\ req[s].email = e

\* What a request knows is still so: its row is there, the code it has checked
\* is the one stored, and a confirmation its save has not read has cut it.  A
\* request for a code that has met no other has a newer code than any mailed.
Fit(r) ==
    /\ r.pc # "idle" => r.email \in Email
    /\ r.pc \in Asking => /\ r.code \in 1 .. drawn
                          /\ r.expires = since[r.code] + Lifetime
                          /\ r.lone \/ r.email \in crossed
    /\ r.pc \in {"load", "write", "mail", "mark"} => otps[r.email] # None
    /\ r.pc = "mark" => /\ r.code \in given[r.email]
                        /\ r.email \in blurred \/ otps[r.email].code = r.code
    /\ r.pc = "write" /\ otps[r.email].confirmed => r.was \/ r.cut
    /\ r.pc \in Asking /\ r.lone => /\ \A d \in MailsTo(r.email) : d <= r.code
                                    /\ r.pc = "mail" => otps[r.email].code = r.code

Alone(s) ==
    req[s].pc \in Asking /\ req[s].lone => \A t \in Slot \ {s} : ~Asks(t, req[s].email)

\* The code of a row has been mailed, or is about to be, and is the newest one
\* mailed when requests have not crossed.
Stored(e) ==
    /\ \A d \in MailsTo(e) : d <= drawn
    /\ otps[e] # None =>
          /\ otps[e].code \in 1 .. drawn
          /\ otps[e].expires = since[otps[e].code] + Lifetime
          /\ otps[e].confirmed => e \in blurred \/ otps[e].code \in given[e]
          /\ \/ otps[e].code \in MailsTo(e) \cup dropped
             \/ \E s \in Slot : req[s].pc = "mail" /\ req[s].email = e /\ req[s].code = otps[e].code
          /\ e \in crossed \/ \A d \in MailsTo(e) : d <= otps[e].code

OtpInv ==
    /\ TypeOK
    /\ \A s \in Slot : Fit(req[s]) /\ Alone(s)
    /\ \A e \in Email : Stored(e)

-----------------------------------------------------------------------------
(* Frames *)

LEMMA IdleIs == Idle \in Request /\ Fit(Idle) /\ Idle.pc = "idle"
  BY OtpAssumption DEF Idle, Request, Fit, Deadline, Asking, Time

\* What never happens: a code is taken back, its time changed or its mail
\* found again.
Grows ==
    /\ drawn' \in Nat /\ drawn <= drawn'
    /\ \A c \in 1 .. drawn : since'[c] = since[c]
    /\ dropped \subseteq dropped'

\* What the row of an e-mail and its history keep when nothing is done to them.
Keeps(e) ==
    /\ otps'[e] = otps[e]
    /\ MailsTo(e)' \subseteq MailsTo(e)
    /\ given[e] \subseteq given'[e]
    /\ e \in blurred => e \in blurred'
    /\ e \in crossed => e \in crossed'

LEMMA FitKept ==
    ASSUME OtpInv, NEW r \in Request, Fit(r), Grows, r.pc # "idle" => Keeps(r.email)
    PROVE  Fit(r)'
<1>1. drawn \in Nat
  BY OtpAssumption DEF OtpInv, TypeOK
<1>2. CASE r.pc = "idle"
  BY <1>2 DEF Fit, Asking
<1>3. CASE r.pc # "idle"
  <2>1. r.pc \in Asking => r.code \in 1 .. drawn' /\ since'[r.code] = since[r.code]
    BY <1>1 DEF Fit, Grows
  <2>2. QED BY <1>3, <2>1 DEF Fit, Keeps
<1>4. QED BY <1>2, <1>3

LEMMA StoredKept ==
    ASSUME OtpInv, NEW e \in Email, Grows, Keeps(e),
           \A c \in MailsTo(e) : c \in MailsTo(e)' \cup dropped',
           \A t \in Slot : req[t].pc = "mail" /\ req[t].email = e =>
               \/ req[t].code \in dropped'
               \/ req'[t].pc = "mail" /\ req'[t].email = e /\ req'[t].code = req[t].code
    PROVE  Stored(e)'
<1>1. drawn \in Nat /\ MailsTo(e) \subseteq Code /\ Code \subseteq Nat /\ Stored(e)
  BY OtpAssumption DEF OtpInv, TypeOK, MailsTo, Code
<1>2. \A d \in MailsTo(e)' : d <= drawn'
  <2>1. \A d \in MailsTo(e) : d \in Nat /\ d <= drawn
    BY <1>1 DEF Stored
  <2>2. QED BY <1>1, <2>1 DEF Grows, Keeps
<1>3. CASE otps[e] = None
  BY <1>2, <1>3 DEF Stored, Keeps
<1>4. CASE otps[e] # None
  <2> DEFINE c == otps[e].code
  <2>1. c \in 1 .. drawn' /\ since'[c] = since[c]
    BY <1>1, <1>4 DEF Stored, Grows
  <2>2. \/ c \in MailsTo(e)' \cup dropped'
        \/ \E t \in Slot : req'[t].pc = "mail" /\ req'[t].email = e /\ req'[t].code = c
    <3>1. CASE c \in MailsTo(e) \cup dropped
      BY <3>1 DEF Grows
    <3>2. CASE \E t \in Slot : req[t].pc = "mail" /\ req[t].email = e /\ req[t].code = c
      BY <3>2
    <3>3. QED BY <1>1, <1>4, <3>1, <3>2 DEF Stored
  <2>3. QED BY <1>1, <1>2, <1>4, <2>1, <2>2 DEF Stored, Keeps
<1>5. QED BY <1>3, <1>4

\* Requests for a code go on, or end.
LEMMA AloneKept ==
    ASSUME OtpInv,
           \A t \in Slot : req'[t].pc \in Asking =>
               /\ req[t].pc \in Asking /\ req'[t].email = req[t].email
               /\ req'[t].lone => req[t].lone
    PROVE  \A t \in Slot : Alone(t)'
  BY DEF OtpInv, Alone, Asks

\* Nothing but the request itself changes, and what was given.
LEMMA QuietStep ==
    ASSUME OtpInv, NEW s \in Slot, NEW r \in Request, Become(s, r), req[s].pc # "mail",
           UNCHANGED <<otps, admins, secret, jobs, inbox, drawn, now, since, crossed, blurred, dropped>>,
           given' \in [Email -> SUBSET Code], \A e \in Email : given[e] \subseteq given'[e],
           r.pc \in Asking => /\ req[s].pc \in Asking /\ r.email = req[s].email
                              /\ r.lone = req[s].lone,
           Fit(r)'
    PROVE  OtpInv'
<1>1. req' \in [Slot -> Request] /\ req'[s] = r /\ \A t \in Slot \ {s} : req'[t] = req[t]
  BY DEF OtpInv, TypeOK, Become
<1>2. TypeOK'
  BY <1>1 DEF OtpInv, TypeOK
<1>3. Grows /\ \A e \in Email : Keeps(e)
  BY OtpAssumption DEF Grows, Keeps, MailsTo, OtpInv, TypeOK
<1>4. ASSUME NEW t \in Slot
      PROVE  Fit(req[t])'
  <2>1. CASE t = s
    BY <1>1, <2>1 DEF Fit, MailsTo
  <2>2. CASE t # s
    <3>1. PICK q \in Request : q = req[t] /\ Fit(q)
      BY DEF OtpInv, TypeOK
    <3>2. Fit(q)'
      BY <1>3, <3>1, FitKept DEF Fit
    <3>3. QED BY <1>1, <2>2, <3>1, <3>2 DEF Fit, MailsTo
  <2>3. QED BY <2>1, <2>2
<1>5. \A t \in Slot : Alone(t)'
  BY <1>1, AloneKept
<1>6. ASSUME NEW e \in Email
      PROVE  Stored(e)'
  <2>1. MailsTo(e)' = MailsTo(e)
    BY DEF MailsTo
  <2>2. QED BY <1>1, <1>3, <2>1, StoredKept
<1>7. QED BY <1>2, <1>4, <1>5, <1>6 DEF OtpInv

-----------------------------------------------------------------------------
(* The steps of a request for a code *)

LEMMA DrawStep ==
    ASSUME OtpInv, NEW s \in Slot, NEW e \in Email, Draw(s, e)
    PROVE  OtpInv'
<1> DEFINE n == drawn + 1
           r == [Idle EXCEPT !.pc = "find", !.email = e, !.code = n,
                             !.expires = now + Lifetime, !.lone = AskersOf(e) = {}]
<1>1. /\ drawn \in Nat /\ n \in Code /\ n \in Nat /\ n \in 1 .. n /\ now \in Time
      /\ now + Lifetime \in Deadline /\ Code \subseteq Nat
  <2>1. drawn \in 0 .. MaxCode /\ drawn < MaxCode /\ now \in 0 .. MaxTime
    BY DEF Draw, OtpInv, TypeOK, Time
  <2>2. /\ drawn \in Nat /\ n \in 1 .. MaxCode /\ n \in 1 .. n /\ n \in Nat
        /\ now + Lifetime \in 0 .. (MaxTime + Lifetime)
    BY <2>1, OtpAssumption
  <2>3. QED BY <2>1, <2>2, OtpAssumption DEF Code, Time, Deadline
<1>2. /\ req[s] = Idle /\ drawn' = n /\ since' = [since EXCEPT ![n] = now]
      /\ crossed' = IF AskersOf(e) = {} THEN crossed ELSE crossed \cup {e}
      /\ UNCHANGED <<otps, admins, secret, jobs, inbox, now, given, blurred, dropped>>
  BY DEF Draw
<1>3. /\ r \in Request /\ r.pc = "find" /\ r.email = e /\ r.code = n
      /\ r.expires = now + Lifetime /\ r.lone = (AskersOf(e) = {})
  BY <1>1, IdleIs DEF Request, Idle
<1>4. /\ req'[s] = r
      /\ \A t \in Slot \ {s} :
            req'[t] = [req[t] EXCEPT !.lone = @ /\ t \notin AskersOf(e)]
      /\ DOMAIN req' = Slot /\ req' = [t \in Slot |-> req'[t]]
  BY DEF Draw
<1> HIDE DEF n, r
<1>5. ASSUME NEW t \in Slot \ {s}
      PROVE  /\ req'[t] \in Request /\ req'[t].pc = req[t].pc /\ req'[t].email = req[t].email
             /\ req'[t].code = req[t].code /\ req'[t].expires = req[t].expires
             /\ req'[t].was = req[t].was /\ req'[t].cut = req[t].cut
             /\ req'[t].lone = (req[t].lone /\ t \notin AskersOf(e))
  <2>1. req[t] \in Request /\ (req[t].lone /\ t \notin AskersOf(e)) \in BOOLEAN
    BY DEF OtpInv, TypeOK, Request
  <2>2. req'[t] = [req[t] EXCEPT !.lone = req[t].lone /\ t \notin AskersOf(e)]
    BY <1>4
  <2>3. QED BY <2>1, <2>2 DEF Request
<1>6. /\ since' \in [Code -> Time] /\ since'[n] = now
      /\ \A c \in 1 .. drawn : since'[c] = since[c]
  BY <1>1, <1>2 DEF OtpInv, TypeOK, n
<1>7. TypeOK'
  <2>1. req' \in [Slot -> Request]
    BY <1>3, <1>4, <1>5
  <2>2. drawn' \in 0 .. MaxCode
    BY <1>1, <1>2 DEF Code
  <2>3. QED BY <1>2, <1>6, <2>1, <2>2 DEF OtpInv, TypeOK
<1>8. Grows /\ \A f \in Email : Keeps(f) /\ MailsTo(f)' = MailsTo(f)
  BY <1>1, <1>2, <1>6 DEF Grows, Keeps, MailsTo, n
<1>9. \A c \in MailsTo(e) : c <= n
  <2>1. \A c \in MailsTo(e) : c \in Nat /\ c <= drawn
    BY <1>1 DEF OtpInv, Stored, MailsTo
  <2>2. QED BY <1>1, <2>1 DEF n
<1>10. Fit(req[s])'
  BY <1>1, <1>2, <1>3, <1>4, <1>6, <1>8, <1>9 DEF Fit, Asking
<1>11. ASSUME NEW t \in Slot \ {s}
       PROVE  Fit(req[t])'
  <2>1. PICK q \in Request : q = req[t] /\ Fit(q)
    BY DEF OtpInv, TypeOK
  <2>2. Fit(q)'
    BY <1>8, <2>1, FitKept DEF Fit
  <2>3. t \in AskersOf(e) => e \in crossed'
    BY <1>2
  <2>4. req'[t].pc \in Asking => req'[t].lone \/ req'[t].email \in crossed'
    BY <1>5, <2>1, <2>2, <2>3 DEF Fit, AskersOf
  <2>5. MailsTo(q.email)' = MailsTo(req[t].email)'
    BY <1>5, <2>1 DEF MailsTo
  <2>6. QED BY <1>5, <2>1, <2>2, <2>4, <2>5 DEF Fit
<1>12. ASSUME NEW t \in Slot
       PROVE  Alone(t)'
  <2>1. CASE t = s
    <3>1. ASSUME req'[s].lone, NEW u \in Slot \ {s}, req'[u].pc \in Asking, req'[u].email = e
          PROVE  FALSE
      <4>1. AskersOf(e) = {}
        BY <1>3, <1>4, <3>1
      <4>2. u \in AskersOf(e)
        BY <1>5, <3>1 DEF AskersOf
      <4>3. QED BY <4>1, <4>2
    <3>2. QED BY <1>3, <1>4, <2>1, <3>1 DEF Alone, Asks
  <2>2. CASE t # s
    <3> SUFFICES ASSUME req'[t].pc \in Asking, req'[t].lone, NEW u \in Slot \ {t},
                        req'[u].pc \in Asking, req'[u].email = req'[t].email
                 PROVE  FALSE
      BY DEF Alone, Asks
    <3>1. req[t].pc \in Asking /\ req[t].lone /\ t \notin AskersOf(e) /\ req[t].email # e
      BY <1>5, <2>2 DEF AskersOf
    <3>2. u # s
      BY <1>3, <1>4, <1>5, <2>2, <3>1
    <3>3. Asks(u, req[t].email)
      BY <1>5, <2>2, <3>2 DEF Asks
    <3>4. QED BY <3>1, <3>3 DEF OtpInv, Alone
  <2>3. QED BY <2>1, <2>2
<1>13. ASSUME NEW f \in Email
       PROVE  Stored(f)'
  <2>1. \A t \in Slot : req[t].pc = "mail" =>
            req'[t].pc = "mail" /\ req'[t].email = req[t].email /\ req'[t].code = req[t].code
    BY <1>2, <1>5, IdleIs
  <2>2. QED BY <1>8, <2>1, StoredKept
<1>14. QED BY <1>7, <1>10, <1>11, <1>12, <1>13 DEF OtpInv

LEMMA ReadStep ==
    ASSUME OtpInv, NEW s \in Slot, FindOTP(s) \/ LoadOTP(s)
    PROVE  OtpInv'
<1> DEFINE q == req[s]
           e == q.email
<1>1. /\ q \in Request /\ Fit(q) /\ q.pc \in {"find", "load"} /\ e \in Email
  BY DEF FindOTP, LoadOTP, OtpInv, TypeOK, Fit
<1>2. PICK r \in Request :
        /\ Become(s, r)
        /\ r.email = e /\ r.code = q.code /\ r.expires = q.expires /\ r.lone = q.lone
        /\ \/ r.pc = "insert"
           \/ r.pc = "load" /\ otps[e] # None
           \/ r.pc = "write" /\ r.was = otps[e].confirmed /\ otps[e] # None
  <2>1. CASE FindOTP(s)
    <3> DEFINE r == [q EXCEPT !.pc = IF otps[e] = None THEN "insert" ELSE "load"]
    <3>1. Become(s, r)
      BY <2>1 DEF FindOTP, Goto
    <3>2. /\ r \in Request /\ r.pc = IF otps[e] = None THEN "insert" ELSE "load"
          /\ r.email = e /\ r.code = q.code /\ r.expires = q.expires /\ r.lone = q.lone
      BY <1>1 DEF Request
    <3> HIDE DEF r
    <3>3. QED BY <3>1, <3>2
  <2>2. CASE LoadOTP(s)
    <3>1. otps[e] # None /\ otps[e].confirmed \in BOOLEAN
      BY <1>1, <2>2 DEF LoadOTP, Fit, OtpInv, TypeOK, OtpRow
    <3> DEFINE w == otps[e].confirmed
               r == [q EXCEPT !.pc = "write", !.was = w]
    <3>2. Become(s, r) /\ w \in BOOLEAN
      BY <2>2, <3>1 DEF LoadOTP
    <3> HIDE DEF w
    <3>3. /\ r \in Request /\ r.pc = "write" /\ r.was = w
          /\ r.email = e /\ r.code = q.code /\ r.expires = q.expires /\ r.lone = q.lone
      BY <1>1, <3>2 DEF Request
    <3> HIDE DEF r
    <3>4. QED BY <3>1, <3>2, <3>3 DEF w
  <2>3. QED BY <2>1, <2>2
<1>3. UNCHANGED <<otps, admins, secret, jobs, inbox, drawn, now, since, given, crossed, blurred, dropped>>
  BY DEF FindOTP, LoadOTP
<1>4. Fit(r)
  BY <1>1, <1>2 DEF Fit, Asking, MailsTo
<1>5. Fit(r)'
  BY <1>3, <1>4 DEF Fit, MailsTo
<1>6. q.pc \in Asking /\ given \in [Email -> SUBSET Code]
  BY <1>1 DEF Asking, OtpInv, TypeOK
<1>7. QED BY <1>1, <1>2, <1>3, <1>5, <1>6, QuietStep

\* A request ends.
LEMMA EndStep ==
    ASSUME OtpInv, NEW s \in Slot, Become(s, Idle), req[s].pc # "mail",
           UNCHANGED <<otps, admins, secret, jobs, inbox, drawn, now, since, given, crossed, blurred, dropped>>
    PROVE  OtpInv'
<1>1. PICK r \in Request : r = Idle
  BY IdleIs
<1>2. Fit(r)' /\ r.pc \notin Asking /\ Become(s, r)
  BY <1>1, IdleIs DEF Fit, Asking, Become
<1>3. QED BY <1>2, QuietStep DEF OtpInv, TypeOK

LEMMA StatementStep ==
    ASSUME OtpInv, NEW s \in Slot, StatementFails(s)
    PROVE  OtpInv'
  BY EndStep DEF StatementFails

\* s puts its code in the row of its e-mail.  The row stays confirmed only if
\* the confirmation is known to have crossed the save.
LEMMA SaveStep ==
    ASSUME OtpInv, NEW s \in Slot, NEW e \in Email, NEW b \in BOOLEAN,
           req[s].pc \in {"insert", "write"}, e = req[s].email,
           Put(e, [code |-> req[s].code, expires |-> req[s].expires, confirmed |-> b]),
           Goto(s, "mail"), Uncross(s),
           blurred' \in SUBSET Email, \A f \in Email \ {e} : f \in blurred => f \in blurred',
           b => e \in blurred' /\ otps[e] # None /\ otps[e].confirmed,
           \A t \in Slot : req[t].pc = "mark" /\ req[t].email = e => e \in blurred',
           UNCHANGED <<admins, secret, jobs, inbox, drawn, now, since, given, dropped>>
    PROVE  OtpInv'
<1> DEFINE q == req[s]
           row == [code |-> q.code, expires |-> q.expires, confirmed |-> b]
           r == [q EXCEPT !.pc = "mail"]
<1>1. /\ q \in Request /\ Fit(q) /\ Alone(s) /\ q.pc \in Asking
      /\ q.code \in 1 .. drawn /\ q.expires = since[q.code] + Lifetime
      /\ q.code \in Code /\ (q.lone \/ e \in crossed)
  BY OtpAssumption DEF OtpInv, TypeOK, Fit, Asking, Code
<1>2. /\ row \in OtpRow /\ row # None
      /\ row.code = q.code /\ row.expires = q.expires /\ row.confirmed = b
  BY <1>1, NoneAssumption DEF OtpRow, Request
<1>3. /\ r \in Request /\ r.pc = "mail" /\ r.email = e /\ r.code = q.code
      /\ r.expires = q.expires /\ r.lone = q.lone
  BY <1>1 DEF Request
<1>4. otps' = [otps EXCEPT ![e] = row] /\ req' = [req EXCEPT ![s] = r]
  BY DEF Put, Goto, Become
<1> HIDE DEF row, r
<1>5. /\ otps'[e] = row /\ \A f \in Email \ {e} : otps'[f] = otps[f]
      /\ req'[s] = r /\ \A t \in Slot \ {s} : req'[t] = req[t]
      /\ otps' \in [Email -> OtpRow \cup {None}] /\ req' \in [Slot -> Request]
  BY <1>2, <1>3, <1>4 DEF OtpInv, TypeOK
<1>6. /\ crossed' \in SUBSET Email /\ \A f \in Email \ {e} : f \in crossed => f \in crossed'
      /\ ~q.lone => crossed' = crossed
  BY DEF Uncross, OtpInv, TypeOK
<1>7. TypeOK'
  BY <1>5, <1>6 DEF OtpInv, TypeOK
<1>8. /\ Grows /\ \A f \in Email : MailsTo(f)' = MailsTo(f)
      /\ \A f \in Email \ {e} : Keeps(f)
  BY <1>5, <1>6, OtpAssumption DEF Grows, Keeps, MailsTo, OtpInv, TypeOK
<1>9. Fit(req[s])'
  BY <1>1, <1>2, <1>3, <1>5, <1>6, <1>8 DEF Fit, Asking
<1>10. ASSUME NEW t \in Slot \ {s}
       PROVE  Fit(req[t])'
  <2>1. PICK p \in Request : p = req[t] /\ Fit(p)
    BY DEF OtpInv, TypeOK
  <2>2. CASE p.email # e \/ p.pc = "idle"
    <3>1. Fit(p)'
      BY <1>8, <2>1, <2>2, FitKept DEF Fit
    <3>2. QED BY <1>5, <2>1, <3>1 DEF Fit, MailsTo
  <2>3. CASE p.email = e /\ p.pc # "idle"
    <3>1. p.pc \in Asking => e \in crossed' /\ ~p.lone
      <4> SUFFICES ASSUME p.pc \in Asking
                   PROVE  ~q.lone /\ ~p.lone
        BY <1>1, <1>6
      <4>1. Asks(s, e) /\ Asks(t, e)
        BY <1>1, <2>1, <2>3 DEF Asks
      <4>2. QED BY <1>1, <2>1, <2>3, <4>1 DEF Alone, OtpInv
    <3>2. p.pc = "mark" => e \in blurred'
      BY <2>1, <2>3
    <3>3. p.pc = "write" /\ b => p.was \/ p.cut
      BY <2>1, <2>3 DEF Fit
    <3>4. Fit(p)'
      BY <1>2, <1>5, <1>8, <2>1, <2>3, <3>1, <3>2, <3>3 DEF Fit
    <3>5. QED BY <1>5, <2>1, <3>4 DEF Fit, MailsTo
  <2>4. QED BY <2>2, <2>3
<1>11. \A t \in Slot : Alone(t)'
  BY <1>1, <1>3, <1>5, AloneKept
<1>12. ASSUME NEW f \in Email
       PROVE  Stored(f)'
  <2>1. CASE f = e
    <3>1. \A d \in MailsTo(e)' : d <= drawn
      BY <1>8 DEF OtpInv, Stored
    <3>2. e \in crossed' \/ \A d \in MailsTo(e)' : d <= q.code
      BY <1>1, <1>6, <1>8 DEF Fit
    <3>3. \E t \in Slot : req'[t].pc = "mail" /\ req'[t].email = e /\ req'[t].code = q.code
      BY <1>3, <1>5
    <3>4. QED BY <1>1, <1>2, <1>5, <2>1, <3>1, <3>2, <3>3 DEF Stored
  <2>2. CASE f # e
    BY <1>3, <1>5, <1>8, <2>2, StoredKept
  <2>3. QED BY <2>1, <2>2
<1>13. QED BY <1>7, <1>9, <1>10, <1>11, <1>12 DEF OtpInv

LEMMA InsertStep ==
    ASSUME OtpInv, NEW s \in Slot, InsertOTP(s)
    PROVE  OtpInv'
<1> DEFINE e == req[s].email
<1>1. e \in Email /\ req[s].pc = "insert"
  BY DEF InsertOTP, OtpInv, Fit
<1>2. CASE Become(s, Idle)
  <2>1. CASE UNCHANGED <<otps, crossed>>
    BY <1>1, <1>2, <2>1, EndStep DEF InsertOTP
  <2>2. CASE ~UNCHANGED <<otps, crossed>>
    <3>1. Goto(s, "mail")
      BY <2>2 DEF InsertOTP
    <3>2. [req[s] EXCEPT !.pc = "mail"].pc = "mail"
      BY DEF OtpInv, TypeOK, Request
    <3>3. req'[s].pc = "mail" /\ req'[s].pc = "idle"
      BY <1>2, <3>1, <3>2, IdleIs DEF Goto, Become, OtpInv, TypeOK
    <3>4. QED BY <3>3
  <2>3. QED BY <2>1, <2>2
<1>3. CASE ~Become(s, Idle)
  <2>1. /\ otps[e] = None /\ Goto(s, "mail") /\ Uncross(s)
        /\ Put(e, [code |-> req[s].code, expires |-> req[s].expires, confirmed |-> FALSE])
        /\ UNCHANGED <<admins, secret, jobs, inbox, drawn, now, since, given, blurred, dropped>>
    BY <1>3 DEF InsertOTP
  <2>2. \A t \in Slot : req[t].pc = "mark" => req[t].email # e
    BY <2>1 DEF OtpInv, Fit
  <2>3. blurred \in SUBSET Email
    BY DEF OtpInv, TypeOK
  <2>4. QED BY <1>1, <2>1, <2>2, <2>3, SaveStep
<1>4. QED BY <1>2, <1>3

LEMMA WriteStep ==
    ASSUME OtpInv, NEW s \in Slot, WriteOTP(s)
    PROVE  OtpInv'
<1> DEFINE e == req[s].email
           b == otps[e].confirmed /\ ~req[s].was
<1>1. e \in Email /\ req[s].pc = "write" /\ otps[e] # None /\ Fit(req[s])
  BY DEF WriteOTP, OtpInv, Fit
<1>2. b \in BOOLEAN /\ (b => otps[e].confirmed)
  OBVIOUS
<1>3. b => req[s].cut
  BY <1>1 DEF Fit
<1>4. /\ Goto(s, "mail") /\ Uncross(s)
      /\ Put(e, [code |-> req[s].code, expires |-> req[s].expires, confirmed |-> b])
      /\ blurred' = IF req[s].cut \/ MarkersOf(e) # {} THEN blurred \cup {e} ELSE blurred \ {e}
      /\ UNCHANGED <<admins, secret, jobs, inbox, drawn, now, since, given, dropped>>
  BY DEF WriteOTP
<1> HIDE DEF b
<1>5. \A t \in Slot : req[t].pc = "mark" /\ req[t].email = e => e \in blurred'
  BY <1>4 DEF MarkersOf
<1>6. blurred' \in SUBSET Email /\ \A f \in Email \ {e} : f \in blurred => f \in blurred'
  BY <1>1, <1>4 DEF OtpInv, TypeOK
<1>7. b => e \in blurred'
  BY <1>3, <1>4
<1>8. QED BY <1>1, <1>2, <1>4, <1>5, <1>6, <1>7, SaveStep

LEMMA MailStep ==
    ASSUME OtpInv, NEW s \in Slot, QueueMail(s)
    PROVE  OtpInv'
<1>0. PICK e \in Email : e = req[s].email
  BY DEF QueueMail, OtpInv, Fit
<1> DEFINE q == req[s]
           m == [email |-> e, code |-> q.code]
<1>1. /\ q \in Request /\ Fit(q) /\ q.pc = "mail" /\ Alone(s)
      /\ q.code \in 1 .. drawn /\ q.code \in Code /\ (q.lone \/ e \in crossed)
      /\ Code \subseteq Nat /\ otps[e] # None
  BY <1>0, OtpAssumption DEF QueueMail, OtpInv, TypeOK, Fit, Asking, Code
<1>2. /\ jobs' = jobs \cup {m} /\ Become(s, Idle)
      /\ UNCHANGED <<otps, admins, secret, inbox, drawn, now, since, given, crossed, blurred, dropped>>
  BY <1>0 DEF QueueMail
<1>3. /\ req'[s] = Idle /\ \A t \in Slot \ {s} : req'[t] = req[t]
      /\ req' \in [Slot -> Request]
  BY <1>2, IdleIs DEF OtpInv, TypeOK, Become
<1>4. /\ m \in Mail
      /\ MailsTo(e)' = MailsTo(e) \cup {q.code}
      /\ \A f \in Email \ {e} : MailsTo(f)' = MailsTo(f)
  <2>1. m \in Mail
    BY <1>1 DEF Mail
  <2>2. \A f \in Email, c \in Code : [email |-> f, code |-> c] = m <=> f = e /\ c = q.code
    OBVIOUS
  <2> HIDE DEF m
  <2>3. MailsTo(e)' = MailsTo(e) \cup {q.code}
    BY <1>1, <1>2, <2>2 DEF MailsTo
  <2>4. \A f \in Email \ {e} : MailsTo(f)' = MailsTo(f)
    BY <1>2, <2>2 DEF MailsTo
  <2>5. QED BY <2>1, <2>3, <2>4
<1>5. TypeOK'
  BY <1>2, <1>3, <1>4 DEF OtpInv, TypeOK
<1>6. Grows /\ \A f \in Email \ {e} : Keeps(f)
  BY <1>2, <1>4, OtpAssumption DEF Grows, Keeps, OtpInv, TypeOK
<1>7. ASSUME NEW t \in Slot
      PROVE  Fit(req[t])'
  <2>1. CASE t = s
    BY <1>3, <2>1, IdleIs DEF Fit, Asking
  <2>2. CASE t # s /\ (req[t].email # e \/ req[t].pc = "idle")
    <3>1. PICK p \in Request : p = req[t] /\ Fit(p)
      BY DEF OtpInv, TypeOK
    <3>2. Fit(p)'
      BY <1>6, <2>2, <3>1, FitKept DEF Fit
    <3>3. QED BY <1>3, <2>2, <3>1, <3>2 DEF Fit, MailsTo
  <2>3. CASE t # s /\ req[t].email = e /\ req[t].pc # "idle"
    <3>1. Fit(req[t]) /\ req'[t] = req[t]
      BY <1>3, <2>3 DEF OtpInv
    <3>2. ~(req[t].pc \in Asking /\ req[t].lone)
      <4>1. Asks(s, e)
        BY <1>0, <1>1 DEF Asks, Asking
      <4>2. QED BY <2>3, <4>1 DEF OtpInv, Alone
    <3>3. QED BY <1>0, <1>2, <3>1, <3>2 DEF Fit
  <2>4. QED BY <2>1, <2>2, <2>3
<1>8. \A t \in Slot : Alone(t)'
  BY <1>3, IdleIs, AloneKept DEF Asking
<1>9. ASSUME NEW f \in Email
      PROVE  Stored(f)'
  <2>1. CASE f = e
    <3>1. Stored(e) /\ otps'[e] = otps[e]
      BY <1>1, <1>2 DEF OtpInv
    <3>2. \A d \in MailsTo(e)' : d <= drawn'
      <4>1. drawn' = drawn /\ q.code <= drawn /\ \A d \in MailsTo(e) : d <= drawn
        BY <1>1, <1>2, <3>1 DEF Stored
      <4>2. QED BY <1>4, <4>1
    <3>3. e \in crossed \/ (otps[e].code = q.code /\ \A d \in MailsTo(e) : d <= q.code)
      BY <1>0, <1>1 DEF Fit, Asking
    <3>4. e \in crossed' \/ \A d \in MailsTo(e)' : d <= otps[e].code
      <4>1. q.code <= q.code
        BY <1>1
      <4>2. QED BY <1>2, <1>4, <3>3, <4>1
    <3>5. \/ otps[e].code \in MailsTo(e)' \cup dropped'
          \/ \E t \in Slot : req'[t].pc = "mail" /\ req'[t].email = e /\ req'[t].code = otps[e].code
      <4>1. CASE otps[e].code \in MailsTo(e) \cup dropped
        BY <1>2, <1>4, <4>1
      <4>2. CASE \E t \in Slot : req[t].pc = "mail" /\ req[t].email = e /\ req[t].code = otps[e].code
        BY <1>3, <1>4, <4>2
      <4>3. QED BY <1>1, <3>1, <4>1, <4>2 DEF Stored
    <3>6. QED BY <1>1, <1>2, <2>1, <3>1, <3>2, <3>4, <3>5 DEF Stored
  <2>2. CASE f # e
    BY <1>0, <1>3, <1>4, <1>6, <2>2, StoredKept
  <2>3. QED BY <2>1, <2>2
<1>10. QED BY <1>5, <1>7, <1>8, <1>9 DEF OtpInv

-----------------------------------------------------------------------------
(* The steps of a confirmation *)

LEMMA PresentStep ==
    ASSUME OtpInv, NEW s \in Slot, NEW e \in Email, NEW c \in Code, Present(s, e, c)
    PROVE  OtpInv'
<1> DEFINE r == [Idle EXCEPT !.pc = "check", !.email = e, !.code = c]
<1>1. r \in Request /\ r.pc = "check" /\ r.email = e
  BY IdleIs DEF Request
<1>2. /\ Become(s, r) /\ req[s] = Idle
      /\ UNCHANGED <<otps, admins, secret, jobs, inbox, drawn, now, since, given, crossed, blurred, dropped>>
  BY DEF Present
<1> HIDE DEF r
<1>3. PICK q \in Request : q = r
  BY <1>1
<1>4. Fit(q)' /\ q.pc \notin Asking /\ Become(s, q)
  BY <1>1, <1>2, <1>3 DEF Fit, Asking
<1>5. req[s].pc # "mail" /\ given \in [Email -> SUBSET Code]
  BY <1>2, IdleIs DEF OtpInv, TypeOK
<1>6. QED BY <1>2, <1>4, <1>5, QuietStep

LEMMA CheckStep ==
    ASSUME OtpInv, NEW s \in Slot, CheckValidOTP(s)
    PROVE  OtpInv'
<1> DEFINE q == req[s]
           e == q.email
<1>1. q \in Request /\ q.pc = "check" /\ e \in Email /\ given \in [Email -> SUBSET Code]
  BY DEF CheckValidOTP, OtpInv, TypeOK, Fit
<1>2. CASE Valid(otps[e], q.code) /\ Goto(s, "mark") /\ given' = [given EXCEPT ![e] = @ \cup {q.code}]
  <2> DEFINE r == [q EXCEPT !.pc = "mark"]
  <2>1. Become(s, r) /\ r \in Request /\ r.pc = "mark" /\ r.email = e /\ r.code = q.code
    BY <1>1, <1>2 DEF Goto, Request
  <2> HIDE DEF r
  <2>2. PICK p \in Request : p = r
    BY <2>1
  <2>3. otps[e] # None /\ otps[e].code = q.code /\ q.code \in Code
    <3>1. otps[e] # None /\ otps[e].code = q.code
      BY <1>2 DEF Valid
    <3>2. QED BY <1>1, <3>1 DEF OtpInv, TypeOK, OtpRow
  <2>4. /\ given' \in [Email -> SUBSET Code] /\ q.code \in given'[e]
        /\ \A f \in Email : given[f] \subseteq given'[f]
    BY <1>1, <1>2, <2>3
  <2>5. UNCHANGED <<otps, admins, secret, jobs, inbox, drawn, now, since, crossed, blurred, dropped>>
    BY DEF CheckValidOTP
  <2>6. Fit(p)' /\ p.pc \notin Asking
    BY <1>1, <2>1, <2>2, <2>3, <2>4, <2>5 DEF Fit, Asking
  <2>7. QED BY <1>1, <2>1, <2>2, <2>4, <2>5, <2>6, QuietStep
<1>3. CASE Become(s, Idle) /\ UNCHANGED given
  BY <1>1, <1>3, EndStep DEF CheckValidOTP
<1>4. QED BY <1>2, <1>3 DEF CheckValidOTP

LEMMA MarkStep ==
    ASSUME OtpInv, NEW s \in Slot, MarkConfirmed(s)
    PROVE  OtpInv'
<1>0. PICK e \in Email : e = req[s].email
  BY DEF MarkConfirmed, OtpInv, Fit
<1> DEFINE row == [otps[e] EXCEPT !.confirmed = TRUE]
           Cut(t) == req[t].cut \/ (req[t].pc = "write" /\ req[t].email = e)
<1>1. /\ req[s].pc = "mark" /\ Fit(req[s]) /\ otps[e] \in OtpRow
      /\ otps[e].code \in given[e] \/ e \in blurred
  BY <1>0 DEF MarkConfirmed, OtpInv, TypeOK, Fit
<1>2. /\ otps' = [otps EXCEPT ![e] = row]
      /\ req' = [t \in Slot |-> IF t = s THEN Idle ELSE [req[t] EXCEPT !.cut = Cut(t)]]
      /\ UNCHANGED <<admins, secret, jobs, inbox, drawn, now, since, given, crossed, blurred, dropped>>
  BY <1>0 DEF MarkConfirmed, Put
<1>3. /\ row \in OtpRow /\ row # None /\ row.code = otps[e].code
      /\ row.expires = otps[e].expires /\ otps[e] # None
  BY <1>1, NoneAssumption DEF OtpRow
<1>4. /\ otps' \in [Email -> OtpRow \cup {None}] /\ otps'[e] = row
      /\ \A f \in Email \ {e} : otps'[f] = otps[f]
  BY <1>2, <1>3 DEF OtpInv, TypeOK
<1> HIDE DEF row
<1>5. ASSUME NEW t \in Slot \ {s}
      PROVE  /\ req'[t] \in Request /\ req'[t].pc = req[t].pc /\ req'[t].email = req[t].email
             /\ req'[t].code = req[t].code /\ req'[t].expires = req[t].expires
             /\ req'[t].was = req[t].was /\ req'[t].lone = req[t].lone
             /\ req'[t].cut = Cut(t)
  <2>1. req[t] \in Request /\ Cut(t) \in BOOLEAN
    BY DEF OtpInv, TypeOK, Request
  <2>2. req'[t] = [req[t] EXCEPT !.cut = Cut(t)]
    BY <1>2
  <2> HIDE DEF Cut
  <2>3. QED BY <2>1, <2>2 DEF Request
<1>6. req'[s] = Idle /\ req' \in [Slot -> Request]
  <2>1. req'[s] = Idle /\ req' = [t \in Slot |-> req'[t]]
    BY <1>2
  <2>2. QED BY <1>5, <2>1, IdleIs
<1>7. TypeOK'
  BY <1>2, <1>4, <1>6 DEF OtpInv, TypeOK
<1>8. /\ Grows /\ \A f \in Email : MailsTo(f)' = MailsTo(f)
      /\ \A f \in Email \ {e} : Keeps(f)
  BY <1>2, <1>4, OtpAssumption DEF Grows, Keeps, MailsTo, OtpInv, TypeOK
<1>9. ASSUME NEW t \in Slot
      PROVE  Fit(req[t])'
  <2>1. CASE t = s
    BY <1>6, <2>1, IdleIs DEF Fit, Asking
  <2>2. CASE t # s /\ req[t].pc = "idle"
    BY <1>5, <2>2 DEF Fit, Asking
  <2>3. CASE t # s /\ req[t].pc # "idle"
    <3>1. /\ req[t] \in Request /\ Fit(req[t])
          /\ MailsTo(req[t].email)' = MailsTo(req[t].email)
      <4>1. Fit(req[t]) /\ req'[t].email = req[t].email
        BY <1>5, <2>3 DEF OtpInv
      <4>2. QED BY <1>2, <4>1 DEF MailsTo, OtpInv, TypeOK
    <3>2. \/ otps'[req[t].email] = otps[req[t].email]
          \/ /\ req[t].email = e /\ otps'[e].code = otps[e].code /\ otps'[e] # None
             /\ req[t].pc = "write" => req'[t].cut
      <4>1. CASE req[t].email = e
        <5>1. req[t].pc = "write" => req'[t].cut
          BY <1>5, <2>3, <4>1
        <5>2. QED BY <1>3, <1>4, <4>1, <5>1
      <4>2. CASE req[t].email # e
        BY <1>4, <2>3, <3>1, <4>2 DEF Fit
      <4>3. QED BY <4>1, <4>2
    <3>3. req[t].cut => req'[t].cut
      BY <1>5, <2>3
    <3>4. QED BY <1>2, <1>5, <2>3, <3>1, <3>2, <3>3 DEF Fit
  <2>4. QED BY <2>1, <2>2, <2>3
<1>10. \A t \in Slot : Alone(t)'
  BY <1>5, <1>6, IdleIs, AloneKept DEF Asking
<1>11. \A t \in Slot : req[t].pc = "mail" =>
            req'[t].pc = "mail" /\ req'[t].email = req[t].email /\ req'[t].code = req[t].code
  BY <1>1, <1>5
<1>12. ASSUME NEW f \in Email
       PROVE  Stored(f)'
  <2>1. CASE f = e
    <3>1. Stored(e)
      BY DEF OtpInv
    <3>2. QED BY <1>1, <1>2, <1>3, <1>4, <1>8, <1>11, <2>1, <3>1 DEF Stored
  <2>2. CASE f # e
    BY <1>8, <1>11, <2>2, StoredKept
  <2>3. QED BY <2>1, <2>2
<1>13. QED BY <1>7, <1>9, <1>10, <1>12 DEF OtpInv

-----------------------------------------------------------------------------
(* Mails, the clock, crashes *)

\* No request for a code or confirmation goes on: at most all of them end.
LEMMA OutsideStep ==
    ASSUME OtpInv, UNCHANGED <<otps, drawn, since, given, crossed, blurred>>,
           req' = req \/ req' = [s \in Slot |-> Idle],
           admins' \in SUBSET Admin, secret' \in SUBSET Member, jobs' \in SUBSET Mail,
           inbox' \in SUBSET Mail, now' \in Time, dropped' \in SUBSET Code,
           dropped \subseteq dropped', jobs' \cup inbox' \subseteq jobs \cup inbox,
           \A m \in (jobs \cup inbox) \ (jobs' \cup inbox') : m.code \in dropped',
           \A t \in Slot : req[t].pc = "mail" => req' = req \/ req[t].code \in dropped'
    PROVE  OtpInv'
<1>1. req' \in [Slot -> Request] /\ \A t \in Slot : req'[t] = req[t] \/ req'[t] = Idle
  BY IdleIs DEF OtpInv, TypeOK
<1>2. TypeOK'
  BY <1>1 DEF OtpInv, TypeOK
<1>3. Grows /\ \A e \in Email : Keeps(e)
  <2>1. \A e \in Email : MailsTo(e)' \subseteq MailsTo(e)
    BY DEF MailsTo
  <2>2. QED BY <2>1, OtpAssumption DEF Grows, Keeps, OtpInv, TypeOK
<1>4. ASSUME NEW t \in Slot
      PROVE  Fit(req[t])'
  <2>1. CASE req'[t] = Idle
    BY <2>1, IdleIs DEF Fit, Asking
  <2>2. CASE req'[t] = req[t]
    <3>1. PICK q \in Request : q = req[t] /\ Fit(q)
      BY DEF OtpInv, TypeOK
    <3>2. Fit(q)'
      BY <1>3, <3>1, FitKept DEF Fit
    <3>3. QED BY <2>2, <3>1, <3>2 DEF Fit, MailsTo
  <2>3. QED BY <1>1, <2>1, <2>2
<1>5. \A t \in Slot : Alone(t)'
  BY <1>1, IdleIs, AloneKept DEF Asking
<1>6. ASSUME NEW e \in Email
      PROVE  Stored(e)'
  <2>1. ASSUME NEW c \in MailsTo(e)
        PROVE  c \in MailsTo(e)' \cup dropped'
    <3> DEFINE m == [email |-> e, code |-> c]
    <3>1. m \in jobs \cup inbox /\ c \in Code /\ m.code = c
      BY DEF MailsTo
    <3>2. CASE m \in jobs' \cup inbox'
      BY <3>1, <3>2 DEF MailsTo
    <3>3. CASE m \notin jobs' \cup inbox'
      BY <3>1, <3>3
    <3>4. QED BY <3>2, <3>3
  <2>2. QED BY <1>3, <2>1, StoredKept
<1>7. QED BY <1>2, <1>4, <1>5, <1>6 DEF OtpInv

LEMMA AdminStep ==
    ASSUME OtpInv, NEW e \in Email, CreateAdmin(e) \/ RemoveAdmin(e) \/ CreatePassword(e)
    PROVE  OtpInv'
<1>1. /\ UNCHANGED <<otps, jobs, inbox, drawn, now, req, since, given, crossed, blurred, dropped>>
      /\ admins' \in SUBSET Admin /\ secret' \in SUBSET Member
  BY DEF CreateAdmin, RemoveAdmin, CreatePassword, OtpInv, TypeOK
<1>2. QED BY <1>1, OutsideStep DEF OtpInv, TypeOK

LEMMA SendStep ==
    ASSUME OtpInv, NEW m \in jobs, SendMail(m) \/ MailFails(m)
    PROVE  OtpInv'
<1>1. m \in Mail /\ m.code \in Code /\ inbox \subseteq Mail /\ jobs \subseteq Mail
  BY DEF OtpInv, TypeOK, Mail
<1>2. /\ UNCHANGED <<otps, admins, secret, drawn, now, req, since, given, crossed, blurred>>
      /\ jobs' = jobs \ {m}
      /\ \/ inbox' = inbox \cup {m} /\ dropped' = dropped
         \/ inbox' = inbox /\ dropped' = dropped \cup {m.code}
  BY DEF SendMail, MailFails
<1>3. QED BY <1>1, <1>2, OutsideStep DEF OtpInv, TypeOK

LEMMA TickStep ==
    ASSUME OtpInv, Tick
    PROVE  OtpInv'
<1>1. now' \in Time
  BY OtpAssumption DEF Tick, OtpInv, TypeOK, Time
<1>2. QED BY <1>1, OutsideStep DEF Tick, OtpInv, TypeOK

LEMMA CrashStep ==
    ASSUME OtpInv, Crash
    PROVE  OtpInv'
<1>1. \A t \in Slot : req[t].pc = "mail" => req[t].code \in Code
  BY OtpAssumption DEF OtpInv, TypeOK, Fit, Asking, Code
<1>2. QED BY <1>1, OutsideStep DEF Crash, OtpInv, TypeOK

-----------------------------------------------------------------------------
(* The theorems *)

LEMMA InitInv == Init => OtpInv
<1> SUFFICES ASSUME Init PROVE OtpInv
  OBVIOUS
<1>1. 0 \in 0 .. MaxCode /\ 0 \in Time /\ Code \subseteq Nat
  BY OtpAssumption DEF Time, Code
<1>2. TypeOK
  BY <1>1, IdleIs DEF Init, TypeOK
<1>3. \A s \in Slot : Fit(req[s]) /\ Alone(s)
  BY IdleIs DEF Init, Alone, Asking
<1>4. \A e \in Email : Stored(e)
  BY DEF Init, Stored, MailsTo
<1>5. QED BY <1>2, <1>3, <1>4 DEF OtpInv

LEMMA StepInv == OtpInv /\ [Next]_vars => OtpInv'
<1> SUFFICES ASSUME OtpInv, [Next]_vars
             PROVE  OtpInv'
  OBVIOUS
<1>1. ASSUME NEW s \in Slot, NEW e \in Email, Ask(s, e)
      PROVE  OtpInv'
  BY <1>1, DrawStep DEF Ask, GetOTP, CheckExistEmail, ForgetPassword, AdminGetOtp
<1>2. ASSUME NEW s \in Slot, NEW e \in Email, NEW c \in Code,
             ConfirmOTP(s, e, c) \/ AdminLogin(s, e, c)
      PROVE  OtpInv'
  BY <1>2, PresentStep DEF ConfirmOTP, AdminLogin
<1>3. ASSUME NEW s \in Slot, Advance(s)
      PROVE  OtpInv'
  BY <1>3, ReadStep, InsertStep, WriteStep, MailStep, CheckStep, MarkStep DEF Advance
<1>4. CASE UNCHANGED vars
  BY <1>4, OutsideStep DEF vars, OtpInv, TypeOK
<1>5. QED
  BY <1>1, <1>2, <1>3, <1>4, StatementStep, AdminStep, SendStep, TickStep, CrashStep DEF Next

\* Every reachable state satisfies the inductive invariant.
THEOREM OtpInvariant == Spec => []OtpInv
  BY InitInv, StepInv, PTL DEF Spec

\* Every variable of Otp keeps its type.
THEOREM OtpTypes == Spec => []TypeOK
<1>1. OtpInv => TypeOK
  BY DEF OtpInv
<1>2. QED BY <1>1, OtpInvariant, PTL

\* A code that stands as confirmed was presented in time, unless it was saved
\* across the confirmation of another (EmailsService.confirmOTP).
THEOREM Confirmed == Spec => []ConfirmedAsGiven
<1>1. OtpInv => ConfirmedAsGiven
  BY DEF OtpInv, Stored, ConfirmedAsGiven
<1>2. QED BY <1>1, OtpInvariant, PTL

\* The code stored is the newest that was mailed, unless requests for a code of
\* the e-mail overlapped (EmailsService.getOTP).
THEOREM Latest == Spec => []LatestCodeStands
<1>1. ASSUME OtpInv
      PROVE  LatestCodeStands
  <2> SUFFICES ASSUME NEW e \in Email, otps[e] # None, AskersOf(e) = {}, e \notin crossed
               PROVE  /\ otps[e].expires = since[otps[e].code] + Lifetime
                      /\ otps[e].code \in MailsTo(e) \/ otps[e].code \in dropped
                      /\ \A d \in MailsTo(e) : d <= otps[e].code
    BY DEF LatestCodeStands
  <2>1. Stored(e)
    BY <1>1 DEF OtpInv
  <2>2. \A s \in Slot : ~(req[s].pc = "mail" /\ req[s].email = e)
    BY DEF AskersOf, Asking
  <2>3. QED BY <2>1, <2>2 DEF Stored
<1>2. QED BY <1>1, OtpInvariant, PTL

=============================================================================
