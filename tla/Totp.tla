-------------------------------- MODULE Totp --------------------------------
(***************************************************************************)
(* The second factor of one account: the TOTP columns of its users row,    *)
(* its backup codes, and the handlers over them: beginTotpEnrolment,       *)
(* confirmTotpEnrolment, disableTotp and login.                            *)
(*                                                                         *)
(* Every handler reads the row once, decides on what it read (login        *)
(* spends an Argon2 verification in between) and then runs its writes.     *)
(* A write is one step: the two that open a transaction update the users   *)
(* row first and touch the backup codes after it, so whatever overlaps     *)
(* them on either table waits for the COMMIT or precedes it.               *)
(***************************************************************************)
EXTENDS Integers

CONSTANTS
  Request,     \* requests, each handled once
  Enrolled,    \* what drew the secret and codes of a factor set up before the start
  Slot,        \* the places of a set of backup codes (ten in the code)
  MaxStep,     \* bound on the clock, in steps of PERIOD seconds
  None         \* SQL's NULL, and a request without a code

Draw   == Request \cup {Enrolled}
Steps  == 0 .. MaxStep
Window == 1

TotpCode   == [secret : Draw, step : Steps]
BackupCode == [drawn : Draw, slot : Slot]

ASSUME ConstantsAssumption ==
  /\ Enrolled \notin Request
  /\ Slot # {}
  /\ MaxStep \in Nat
  /\ None \notin Draw /\ None \notin Int
  /\ None \notin TotpCode /\ None \notin BackupCode
  /\ TotpCode \cap BackupCode = {}

VARIABLES
  user,       \* totp_secret, totp_enabled and totp_last_step
  codes,      \* totp_backup_codes: a row is absent, fresh or used
  now,        \* the server's clock
  pc,         \* where each request is, and how it ended
  kind,       \* which handler it runs
  code,       \* the code it presents
  row,        \* the row its handler read
  generation, \* history: how often the factor was set up or taken down
  consumed    \* history: the generation in which a request spent its code

vars == <<user, codes, now, pc, kind, code, row, generation, consumed>>

Row == [secret : Draw \cup {None}, enabled : BOOLEAN, last_step : Steps \cup {None}]
Terminal == {"ok", "refused", "failed"}

Off == [secret |-> None, enabled |-> FALSE, last_step |-> None]
\* An enrolment begun and not confirmed.
Begun == [secret |-> Enrolled, enabled |-> FALSE, last_step |-> None]
On  == [secret |-> Enrolled, enabled |-> TRUE, last_step |-> 0]

CodesOf(d) == [drawn : {d}, slot : Slot]

-----------------------------------------------------------------------------
Init ==
  /\ \/ user \in {Off, Begun} /\ codes = [b \in BackupCode |-> "absent"]
     \/ /\ user = On
        /\ codes = [b \in BackupCode |->
                      IF b \in CodesOf(Enrolled) THEN "fresh" ELSE "absent"]
  /\ now = 0
  /\ pc   = [r \in Request |-> "idle"]
  /\ kind = [r \in Request |-> "none"]
  /\ code = [r \in Request |-> None]
  /\ row  = [r \in Request |-> None]
  /\ generation = 0
  /\ consumed = [r \in Request |-> None]

Goto(r, label) == pc' = [pc EXCEPT ![r] = label]

\* verifyCode: the code of a step at most Window away from the clock.
Matches(secret, c) ==
  /\ c \in TotpCode
  /\ c.secret = secret
  /\ now - Window <= c.step /\ c.step <= now + Window

(* A request arrives, and its handler reads the row: findTotpById, or      *)
(* findByEmail in login, whose password is right.                          *)
Read(r, k, c) ==
  /\ pc[r] = "idle"
  /\ kind' = [kind EXCEPT ![r] = k]
  /\ code' = [code EXCEPT ![r] = c]
  /\ row'  = [row EXCEPT ![r] = user]
  /\ Goto(r, "checking")
  /\ UNCHANGED <<user, codes, now, generation, consumed>>

Checking(r, k) == pc[r] = "checking" /\ kind[r] = k

\* The conditions under which a handler turns away before it writes.
TurnsAway(r) ==
  \/ kind[r] = "begin" /\ row[r].enabled
  \/ kind[r] = "confirm" /\ (row[r].enabled \/ ~Matches(row[r].secret, code[r]))
  \/ kind[r] = "disable" /\ ~row[r].enabled
  \/ kind[r] = "login" /\ row[r].enabled /\ code[r] = None

Refuse(r) ==
  /\ pc[r] = "checking" /\ TurnsAway(r)
  /\ Goto(r, "refused")
  /\ UNCHANGED <<user, codes, now, kind, code, row, generation, consumed>>

-----------------------------------------------------------------------------
(* beginTotpEnrolment: setSecret stores a new secret, not enabled.         *)
SetSecret(r) ==
  /\ Checking(r, "begin") /\ ~TurnsAway(r)
  /\ user' = [secret |-> r, enabled |-> FALSE, last_step |-> None]
  /\ generation' = generation + 1
  /\ Goto(r, "ok")
  /\ UNCHANGED <<codes, now, kind, code, row, consumed>>

\* Mutation of Enable: the UPDATE has no guard on the secret.
EnableUnguarded(r) ==
  /\ Checking(r, "confirm") /\ ~TurnsAway(r)
  /\ user' = [user EXCEPT !.enabled = TRUE, !.last_step = code[r].step]
  /\ codes' = [b \in BackupCode |-> IF b \in CodesOf(r) THEN "fresh" ELSE "absent"]
  /\ generation' = generation + 1
  /\ Goto(r, "ok")
  /\ UNCHANGED <<now, kind, code, row, consumed>>

(* confirmTotpEnrolment: enable, WHERE totp_secret IS NOT NULL, and the    *)
(* new set of backup codes, in one transaction.                            *)
Enable(r) ==
  /\ Checking(r, "confirm") /\ ~TurnsAway(r) /\ user.secret # None
  /\ user' = [user EXCEPT !.enabled = TRUE, !.last_step = code[r].step]
  /\ codes' = [b \in BackupCode |-> IF b \in CodesOf(r) THEN "fresh" ELSE "absent"]
  /\ generation' = generation + 1
  /\ Goto(r, "ok")
  /\ UNCHANGED <<now, kind, code, row, consumed>>

(* ... and the error when it matches no row.                               *)
EnableFails(r) ==
  /\ Checking(r, "confirm") /\ ~TurnsAway(r) /\ user.secret = None
  /\ Goto(r, "failed")
  /\ UNCHANGED <<user, codes, now, kind, code, row, generation, consumed>>

-----------------------------------------------------------------------------
(* checkTotp, in login and disableTotp.                                    *)
Asked(r) == pc[r] = "checking" /\ kind[r] \in {"login", "disable"} /\ ~TurnsAway(r) /\ row[r].enabled

Pass(r) == Goto(r, "passed") /\ consumed' = [consumed EXCEPT ![r] = generation]

Last(u)       == IF u.last_step = None THEN -1 ELSE u.last_step
Unspent(step) == Last(user) < step

\* Mutation of ConsumeStep: the comparison is made on the row read before.
ConsumeStepStale(r) ==
  /\ Asked(r) /\ Matches(row[r].secret, code[r])
  /\ Last(row[r]) < code[r].step
  /\ user' = [user EXCEPT !.last_step = code[r].step]
  /\ Pass(r)
  /\ UNCHANGED <<codes, now, kind, code, row, generation>>

\* consumeStep: COALESCE(totp_last_step, -1) < step.
ConsumeStep(r) ==
  /\ Asked(r) /\ Matches(row[r].secret, code[r])
  /\ Unspent(code[r].step)
  /\ user' = [user EXCEPT !.last_step = code[r].step]
  /\ Pass(r)
  /\ UNCHANGED <<codes, now, kind, code, row, generation>>

\* Mutation of ConsumeBackupCode: the UPDATE has no used_at guard.
ConsumeBackupCodeAgain(r) ==
  /\ Asked(r) /\ ~Matches(row[r].secret, code[r])
  /\ code[r] \in BackupCode /\ codes[code[r]] # "absent"
  /\ codes' = [codes EXCEPT ![code[r]] = "used"]
  /\ Pass(r)
  /\ UNCHANGED <<user, now, kind, code, row, generation>>

\* consumeBackupCode: used_at IS NULL.
ConsumeBackupCode(r) ==
  /\ Asked(r) /\ ~Matches(row[r].secret, code[r])
  /\ code[r] \in BackupCode /\ codes[code[r]] = "fresh"
  /\ codes' = [codes EXCEPT ![code[r]] = "used"]
  /\ Pass(r)
  /\ UNCHANGED <<user, now, kind, code, row, generation>>

\* Neither UPDATE matched.
WrongCode(r) ==
  /\ Asked(r)
  /\ IF Matches(row[r].secret, code[r])
     THEN ~Unspent(code[r].step)
     ELSE ~(code[r] \in BackupCode /\ codes[code[r]] = "fresh")
  /\ Goto(r, "refused")
  /\ UNCHANGED <<user, codes, now, kind, code, row, generation, consumed>>

(* login, past the factor or without one: the session is issued.           *)
IssueSession(r) ==
  /\ \/ Checking(r, "login") /\ ~row[r].enabled
     \/ pc[r] = "passed" /\ kind[r] = "login"
  /\ Goto(r, "ok")
  /\ UNCHANGED <<user, codes, now, kind, code, row, generation, consumed>>

(* disableTotp: the columns and the backup codes, in one transaction.      *)
Disable(r) ==
  /\ pc[r] = "passed" /\ kind[r] = "disable"
  /\ user' = Off
  /\ codes' = [b \in BackupCode |-> "absent"]
  /\ generation' = generation + 1
  /\ Goto(r, "ok")
  /\ UNCHANGED <<now, kind, code, row, consumed>>

(* The process dies or the connection is lost before the next write.       *)
Fail(r) ==
  /\ pc[r] \in {"checking", "passed"}
  /\ Goto(r, "failed")
  /\ UNCHANGED <<user, codes, now, kind, code, row, generation, consumed>>

Tick ==
  /\ now < MaxStep
  /\ now' = now + 1
  /\ UNCHANGED <<user, codes, pc, kind, code, row, generation, consumed>>

Finished ==
  /\ \A r \in Request : pc[r] \in Terminal
  /\ UNCHANGED vars

-----------------------------------------------------------------------------
\* Codes somebody may hold: those an authenticator computes from a secret it
\* was shown, and those of the sets that were handed out.
Shown(r)     == kind[r] = "begin" /\ pc[r] = "ok"
HandedOut(r) == kind[r] = "confirm" /\ pc[r] = "ok"

Known(c) ==
  \/ /\ c \in TotpCode
     /\ c.secret = Enrolled \/ \E r \in Request : r = c.secret /\ Shown(r)
  \/ /\ c \in BackupCode
     /\ c.drawn = Enrolled \/ \E r \in Request : r = c.drawn /\ HandedOut(r)

Arrive(r) ==
  \/ Read(r, "begin", None)
  \/ Read(r, "login", None)
  \/ \E c \in TotpCode : Known(c) /\ Read(r, "confirm", c)
  \/ \E c \in TotpCode \cup BackupCode :
       Known(c) /\ (Read(r, "disable", c) \/ Read(r, "login", c))

Step(r) ==
  \/ Refuse(r) \/ SetSecret(r) \/ Enable(r) \/ EnableFails(r)
  \/ ConsumeStep(r) \/ ConsumeBackupCode(r) \/ WrongCode(r)
  \/ IssueSession(r) \/ Disable(r)

Next ==
  \/ \E r \in Request : Arrive(r) \/ Step(r) \/ Fail(r)
  \/ Tick
  \/ Finished

Spec == Init /\ [][Next]_vars

-----------------------------------------------------------------------------
(* Properties *)

\* Every variable holds what the code keeps there.
TypeOK ==
  /\ user \in Row
  /\ codes \in [BackupCode -> {"absent", "fresh", "used"}]
  /\ now \in Steps
  /\ pc \in [Request -> {"idle", "checking", "passed"} \cup Terminal]
  /\ kind \in [Request -> {"none", "begin", "confirm", "disable", "login"}]
  /\ code \in [Request -> TotpCode \cup BackupCode \cup {None}]
  /\ row \in [Request -> Row \cup {None}]
  /\ generation \in Nat
  /\ consumed \in [Request -> Nat \cup {None}]

\* A factor that is on has its secret and, as the way back from a lost phone,
\* the whole set of codes one confirmation handed out: enrolments, disables and
\* confirmations that overlap or die half-way never leave it without either.
FactorIsWhole ==
  user.enabled =>
    /\ user.secret # None
    /\ \E d \in Draw : {b \in BackupCode : codes[b] # "absent"} = CodesOf(d)

\* A backup code lets one request pass, however many present it at once.
BackupCodeSpentOnce ==
  \A r, q \in Request :
    consumed[r] # None /\ consumed[q] # None /\ code[r] = code[q] /\ code[r] \in BackupCode
      => r = q

\* As long as nobody sets the factor up again or takes it down, one TOTP code lets
\* one request pass, however many present it while it is valid.
StepSpentOnce ==
  \A r, q \in Request :
    /\ consumed[r] # None /\ consumed[r] = consumed[q]
    /\ code[r] \in TotpCode /\ code[r] = code[q]
    => r = q
=============================================================================
