--------------------------------- MODULE Otp ---------------------------------
(***************************************************************************)
(* One-time passwords: EmailsService.getOTP and confirmOTP over the table  *)
(* otp, the handlers of AuthService and AdminAuthService that call them,   *)
(* and the mails the emailQueue carries.                                   *)
(*                                                                         *)
(* A slot is one HTTP request; each await on the database ends a step.     *)
(* repository.save of a row that exists is two statements, a select it     *)
(* compares with and an update of the columns that differ; of a new row,   *)
(* one insert.  The job is added by createWithoutSave, which nobody        *)
(* awaits.                                                                 *)
(*                                                                         *)
(* Data: codes are numbered in the order they are drawn; two draws of      *)
(* generateOpt are taken to differ.  Of a mail only the code is kept.      *)
(***************************************************************************)
EXTENDS Naturals

CONSTANTS
    Email,     \* e-mail addresses
    Member,    \* those of members ...
    Admin,     \* those that can be made admins
    Slot,      \* the requests that can be in flight at the same time
    MaxCode,   \* the codes drawn in a run
    MaxTime,   \* the clock stops here
    Lifetime,  \* how long a code is good: 300000 ms
    Faulty,    \* whether statements and mails may fail and the process may die
    None

ASSUME OtpAssumption ==
    /\ Member \subseteq Email
    /\ Admin \subseteq Email
    /\ MaxCode \in Nat
    /\ MaxTime \in Nat
    /\ Lifetime \in Nat
    /\ Faulty \in BOOLEAN
    /\ None \notin Email

VARIABLES
    otps,     \* otp, by its unique e-mail
    admins,   \* admin
    secret,   \* the members who have a password
    jobs,     \* emailQueue: the mails waiting or being sent
    inbox,    \* the mails that have arrived
    drawn,    \* how many codes have been drawn
    now,      \* the clock
    req,      \* what each slot is doing
    \* History variables: no action reads them.
    since,    \* when each code was drawn
    given,    \* the codes that were checked and found right, by e-mail
    crossed,  \* the e-mails for which requests for a code last overlapped
    blurred,  \* the e-mails whose code was written across a confirmation
    dropped   \* the codes whose mail was lost

vars == <<otps, admins, secret, jobs, inbox, drawn, now, req, since, given, crossed, blurred, dropped>>

Code == 1 .. MaxCode
Time == 0 .. MaxTime
Deadline == 0 .. (MaxTime + Lifetime)

OtpRow == [code : Code, expires : Deadline, confirmed : BOOLEAN]

Mail == [email : Email, code : Code]

ASSUME NoneAssumption == None \notin OtpRow

Request ==
    [pc    : {"idle", "find", "insert", "load", "write", "mail", "check", "mark"},
     email : Email \cup {None},
     code  : Code \cup {0},
     expires : Deadline,
     was   : BOOLEAN,   \* isConfirmed as the save has read it
     lone  : BOOLEAN,   \* history: no other request for a code has met it
     cut   : BOOLEAN]   \* history: a confirmation came between select and update

Idle == [pc |-> "idle", email |-> None, code |-> 0, expires |-> 0, was |-> FALSE,
         lone |-> FALSE, cut |-> FALSE]

Init ==
    /\ otps = [e \in Email |-> None]
    /\ admins = {}
    /\ secret = {}
    /\ jobs = {}
    /\ inbox = {}
    /\ drawn = 0
    /\ now = 0
    /\ req = [s \in Slot |-> Idle]
    /\ since = [c \in Code |-> 0]
    /\ given = [e \in Email |-> {}]
    /\ crossed = {}
    /\ blurred = {}
    /\ dropped = {}

-----------------------------------------------------------------------------
(* Helpers *)

Become(s, r) == req' = [req EXCEPT ![s] = r]
Goto(s, pc) == Become(s, [req[s] EXCEPT !.pc = pc])

Asking == {"find", "insert", "load", "write", "mail"}

\* The slots between the first and the last step of a request for a code.
AskersOf(e) == {s \in Slot : req[s].pc \in Asking /\ req[s].email = e}

MarkersOf(e) == {s \in Slot : req[s].pc = "mark" /\ req[s].email = e}

MailsTo(e) == {c \in Code : [email |-> e, code |-> c] \in jobs \cup inbox}

Put(e, row) == otps' = [otps EXCEPT ![e] = row]

\* A request that met no other has stored the newest code.
Uncross(s) == crossed' = IF req[s].lone THEN crossed \ {req[s].email} ELSE crossed

-----------------------------------------------------------------------------
(* EmailsService.getOTP *)

\* The code and its deadline are made first.
Draw(s, e) ==
    /\ req[s] = Idle
    /\ drawn < MaxCode
    /\ drawn' = drawn + 1
    /\ since' = [since EXCEPT ![drawn + 1] = now]
    /\ req' = [t \in Slot |->
                 IF t = s THEN [Idle EXCEPT !.pc = "find", !.email = e, !.code = drawn + 1,
                                            !.expires = now + Lifetime,
                                            !.lone = AskersOf(e) = {}]
                 ELSE [req[t] EXCEPT !.lone = @ /\ t \notin AskersOf(e)]]
    /\ crossed' = IF AskersOf(e) = {} THEN crossed ELSE crossed \cup {e}
    /\ UNCHANGED <<otps, admins, secret, jobs, inbox, now, given, blurred, dropped>>

\* AuthService.getOTP sends a code to whoever asks.
GetOTP(s, e) == Draw(s, e)

\* A member who has a password is asked for it; all others get a code.
CheckExistEmail(s, e) == e \notin secret /\ Draw(s, e)

ForgetPassword(s, e) == e \in Member /\ Draw(s, e)

AdminGetOtp(s, e) == e \in admins /\ Draw(s, e)

Ask(s, e) ==
    \/ GetOTP(s, e)
    \/ CheckExistEmail(s, e)
    \/ ForgetPassword(s, e)
    \/ AdminGetOtp(s, e)

\* Mutant: the mail is queued before the save.
FindOTPMailingFirst(s) ==
    /\ req[s].pc = "find"
    /\ jobs' = jobs \cup {[email |-> req[s].email, code |-> req[s].code]}
    /\ Goto(s, IF otps[req[s].email] = None THEN "insert" ELSE "load")
    /\ UNCHANGED <<otps, admins, secret, inbox, drawn, now, since, given, crossed, blurred, dropped>>

FindOTP(s) ==
    /\ req[s].pc = "find"
    /\ Goto(s, IF otps[req[s].email] = None THEN "insert" ELSE "load")
    /\ UNCHANGED <<otps, admins, secret, jobs, inbox, drawn, now, since, given, crossed, blurred, dropped>>

\* The e-mail is unique: of two first requests one fails, and sends no mail.
InsertOTP(s) ==
    LET e == req[s].email IN
    /\ req[s].pc = "insert"
    /\ \/ /\ otps[e] = None
          /\ Put(e, [code |-> req[s].code, expires |-> req[s].expires, confirmed |-> FALSE])
          /\ Goto(s, "mail")
          /\ Uncross(s)
       \/ /\ otps[e] # None
          /\ Become(s, Idle)
          /\ UNCHANGED <<otps, crossed>>
    /\ UNCHANGED <<admins, secret, jobs, inbox, drawn, now, since, given, blurred, dropped>>

\* The save selects the row to compare with ...
LoadOTP(s) ==
    /\ req[s].pc = "load"
    /\ Become(s, [req[s] EXCEPT !.pc = "write", !.was = otps[req[s].email].confirmed])
    /\ UNCHANGED <<otps, admins, secret, jobs, inbox, drawn, now, since, given, crossed, blurred, dropped>>

\* Mutant: isConfirmed is left as it is.
WriteOTPStillConfirmed(s) ==
    LET e == req[s].email IN
    /\ req[s].pc = "write"
    /\ Put(e, [code |-> req[s].code, expires |-> req[s].expires,
               confirmed |-> otps[e].confirmed])
    /\ Goto(s, "mail")
    /\ Uncross(s)
    /\ blurred' = IF req[s].cut \/ MarkersOf(e) # {} THEN blurred \cup {e} ELSE blurred \ {e}
    /\ UNCHANGED <<admins, secret, jobs, inbox, drawn, now, since, given, dropped>>

\* ... and updates what differs: isConfirmed only if it was true.
WriteOTP(s) ==
    LET e == req[s].email IN
    /\ req[s].pc = "write"
    /\ Put(e, [code |-> req[s].code, expires |-> req[s].expires,
               confirmed |-> otps[e].confirmed /\ ~req[s].was])
    /\ Goto(s, "mail")
    /\ Uncross(s)
    /\ blurred' = IF req[s].cut \/ MarkersOf(e) # {} THEN blurred \cup {e} ELSE blurred \ {e}
    /\ UNCHANGED <<admins, secret, jobs, inbox, drawn, now, since, given, dropped>>

\* Mutant: a mail that waits is replaced.
QueueMailOver(s) ==
    /\ req[s].pc = "mail"
    /\ jobs' = {[email |-> req[s].email, code |-> req[s].code]}
    /\ Become(s, Idle)
    /\ UNCHANGED <<otps, admins, secret, inbox, drawn, now, since, given, crossed, blurred, dropped>>

\* createWithoutSave adds the job.
QueueMail(s) ==
    /\ req[s].pc = "mail"
    /\ jobs' = jobs \cup {[email |-> req[s].email, code |-> req[s].code]}
    /\ Become(s, Idle)
    /\ UNCHANGED <<otps, admins, secret, inbox, drawn, now, since, given, crossed, blurred, dropped>>

-----------------------------------------------------------------------------
(* EmailsService.confirmOTP, by AuthService.confirmOTP or AdminAuthService *)
(* .login                                                                  *)

\* Somebody presents a code he has been mailed, by now right or wrong.
Present(s, e, c) ==
    /\ req[s] = Idle
    /\ [email |-> e, code |-> c] \in inbox
    /\ Become(s, [Idle EXCEPT !.pc = "check", !.email = e, !.code = c])
    /\ UNCHANGED <<otps, admins, secret, jobs, inbox, drawn, now, since, given, crossed, blurred, dropped>>

ConfirmOTP(s, e, c) == Present(s, e, c)

\* An admin logs in with a code; he is looked for first.
AdminLogin(s, e, c) == e \in admins /\ Present(s, e, c)

Valid(row, c) == row # None /\ row.code = c /\ row.expires > now

CheckValidOTP(s) ==
    LET e == req[s].email IN
    /\ req[s].pc = "check"
    /\ \/ /\ Valid(otps[e], req[s].code)
          /\ Goto(s, "mark")
          /\ given' = [given EXCEPT ![e] = @ \cup {req[s].code}]
       \/ /\ ~Valid(otps[e], req[s].code)
          /\ Become(s, Idle)
          /\ UNCHANGED given
    /\ UNCHANGED <<otps, admins, secret, jobs, inbox, drawn, now, since, crossed, blurred, dropped>>

\* Whatever code the e-mail has by now is marked; a save that has selected
\* the row does not know.
MarkConfirmed(s) ==
    LET e == req[s].email IN
    /\ req[s].pc = "mark"
    /\ Put(e, [otps[e] EXCEPT !.confirmed = TRUE])
    /\ req' = [t \in Slot |->
                 IF t = s THEN Idle
                 ELSE [req[t] EXCEPT !.cut = @ \/ (req[t].pc = "write" /\ req[t].email = e)]]
    /\ UNCHANGED <<admins, secret, jobs, inbox, drawn, now, since, given, crossed, blurred, dropped>>

-----------------------------------------------------------------------------
(* Admins, and the passwords of members *)

\* Nothing here is read twice, so each of these is one step: that of its write.

\* The e-mail of an admin is unique, and one who is there is refused.
CreateAdmin(e) ==
    /\ e \in Admin \ admins
    /\ admins' = admins \cup {e}
    /\ UNCHANGED <<otps, secret, jobs, inbox, drawn, now, req, since, given, crossed, blurred, dropped>>

RemoveAdmin(e) ==
    /\ e \in admins
    /\ admins' = admins \ {e}
    /\ UNCHANGED <<otps, secret, jobs, inbox, drawn, now, req, since, given, crossed, blurred, dropped>>

\* The member is found, and the password hashed and written.
CreatePassword(e) ==
    /\ e \in Member
    /\ secret' = secret \cup {e}
    /\ UNCHANGED <<otps, admins, jobs, inbox, drawn, now, req, since, given, crossed, blurred, dropped>>

-----------------------------------------------------------------------------
(* The queue, the clock and faults *)

\* Several jobs are processed at a time, in any order.
SendMail(m) ==
    /\ m \in jobs
    /\ jobs' = jobs \ {m}
    /\ inbox' = inbox \cup {m}
    /\ UNCHANGED <<otps, admins, secret, drawn, now, req, since, given, crossed, blurred, dropped>>

\* A job that fails is not tried again.
MailFails(m) ==
    /\ Faulty
    /\ m \in jobs
    /\ jobs' = jobs \ {m}
    /\ dropped' = dropped \cup {m.code}
    /\ UNCHANGED <<otps, admins, secret, inbox, drawn, now, req, since, given, crossed, blurred>>

Tick ==
    /\ now < MaxTime
    /\ now' = now + 1
    /\ UNCHANGED <<otps, admins, secret, jobs, inbox, drawn, req, since, given, crossed, blurred, dropped>>

StatementFails(s) ==
    /\ Faulty
    /\ req[s].pc \notin {"idle", "mail"}
    /\ Become(s, Idle)
    /\ UNCHANGED <<otps, admins, secret, jobs, inbox, drawn, now, since, given, crossed, blurred, dropped>>

\* The process dies and is started again; the queue is in Redis.  A job that
\* cannot be added is a rejection nobody handles, and ends the process too.
Crash ==
    /\ Faulty
    /\ req' = [s \in Slot |-> Idle]
    /\ dropped' = dropped \cup {req[s].code : s \in {t \in Slot : req[t].pc = "mail"}}
    /\ UNCHANGED <<otps, admins, secret, jobs, inbox, drawn, now, since, given, crossed, blurred>>

Advance(s) ==
    \/ FindOTP(s)
    \/ InsertOTP(s)
    \/ LoadOTP(s)
    \/ WriteOTP(s)
    \/ QueueMail(s)
    \/ CheckValidOTP(s)
    \/ MarkConfirmed(s)

Next ==
    \/ \E s \in Slot :
          \/ \E e \in Email :
                \/ Ask(s, e)
                \/ \E c \in Code : ConfirmOTP(s, e, c) \/ AdminLogin(s, e, c)
          \/ Advance(s)
          \/ StatementFails(s)
    \/ \E e \in Email : CreateAdmin(e) \/ RemoveAdmin(e) \/ CreatePassword(e)
    \/ \E m \in jobs : SendMail(m) \/ MailFails(m)
    \/ Tick
    \/ Crash

Spec == Init /\ [][Next]_vars

\* Node goes on with every request, and Bull with every job.
Fairness ==
    /\ \A s \in Slot : WF_vars(Advance(s))
    /\ \A m \in Mail : WF_vars(SendMail(m))

FairSpec == Spec /\ Fairness

-----------------------------------------------------------------------------
(* Properties *)

\* Every variable keeps its type.
TypeOK ==
    /\ otps \in [Email -> OtpRow \cup {None}]
    /\ admins \in SUBSET Admin
    /\ secret \in SUBSET Member
    /\ jobs \in SUBSET Mail
    /\ inbox \in SUBSET Mail
    /\ drawn \in 0 .. MaxCode
    /\ now \in Time
    /\ req \in [Slot -> Request]
    /\ since \in [Code -> Time]
    /\ given \in [Email -> SUBSET Code]
    /\ crossed \in SUBSET Email
    /\ blurred \in SUBSET Email
    /\ dropped \in SUBSET Code

\* A code that stands as confirmed is one that somebody presented in time,
\* unless it was written while a confirmation of another was on its way.
ConfirmedAsGiven ==
    \A e \in Email : otps[e] # None /\ otps[e].confirmed /\ e \notin blurred
                        => otps[e].code \in given[e]

\* Once requests for a code are over, the code stored is the newest that was
\* mailed, and good for its full time, unless requests overlapped since the
\* last that did not, or its mail was lost.  So the last mail a user has
\* asked for holds the code that will be accepted.
LatestCodeStands ==
    \A e \in Email : otps[e] # None /\ AskersOf(e) = {} /\ e \notin crossed =>
        LET c == otps[e].code IN
        /\ otps[e].expires = since[c] + Lifetime
        /\ c \in MailsTo(e) \/ c \in dropped
        /\ \A d \in MailsTo(e) : d <= c

\* A code that has been stored is mailed, unless its mail is lost.
CodeArrives ==
    \A e \in Email, c \in Code :
        (otps[e] # None /\ otps[e].code = c)
            ~> ([email |-> e, code |-> c] \in inbox \/ c \in dropped)

=============================================================================
