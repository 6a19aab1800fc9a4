------------------------------ MODULE Account ------------------------------
(***************************************************************************)
(* One row of the users table and the handlers that read and replace its   *)
(* credentials: login, changePassword, upgradeKdf, completeRecovery and    *)
(* regenerateRecoveryKit; and the refresh that renews a login's session    *)
(* without looking at the row.                                             *)
(*                                                                         *)
(* Every handler reads the row once (one SELECT), spends a long time in    *)
(* Argon2 (the awaits of serverVerifyAuth and serverStoreAuth), and then   *)
(* writes by id, without looking at the row again.  The read and the write *)
(* are separate steps here; requests interleave between them.  A change of *)
(* password and a recovery write in a transaction: its statements hold the *)
(* lock of the users row and have read the sessions to revoke, and show    *)
(* nothing until COMMIT.  (A login's INSERT takes only a key-share lock on *)
(* the users row, which does not conflict; so does a refresh's.)           *)
(*                                                                         *)
(* A session is known by the request that drew its refresh token.  Of      *)
(* refresh (RefreshTokens has the whole of it) there is what a revocation  *)
(* can miss: it reads the token, and in a later statement claims it, which *)
(* looks at used_at only, and commits a successor.  The revocations it     *)
(* runs itself are left out: they end sessions, never keep one.            *)
(*                                                                         *)
(* Cryptography is abstracted to what the checks tell apart.  A credential *)
(* is what one derivation of a password produces, named by the password,   *)
(* the strength of the parameters and the salt (the request that drew it). *)
(* auth_hash verifies exactly the credential it was made from, wrapped_dek *)
(* opens under exactly the credential it was made from; a recovery kit is  *)
(* named by the request that drew its key.                                 *)
(***************************************************************************)
EXTENDS Naturals

CONSTANTS
  Password,    \* master passwords the user picks from
  Request,     \* requests, each handled once
  Signup,      \* what drew the account's first salt and kit, and its first login's token
  FirstPw,     \* the password the account was created with
  Strength,    \* strengths of KDF parameters that pass the schema
  DefaultKdf,  \* the strength of DEFAULT_KDF_PARAMS
  None         \* no value

Draw == Request \cup {Signup}
Cred == [pw : Password, kdf : Strength, salt : Draw]
Row  == [auth_hash : Cred, kdf : Cred, wrapped_dek : Cred,
         recovery_auth_hash : Draw, recovery_wrapped_dek : Draw]

ASSUME ConstantsAssumption ==
  /\ FirstPw \in Password
  /\ Strength \subseteq Nat /\ DefaultKdf \in Strength
  /\ Signup \notin Request
  /\ None \notin Cred /\ None \notin Row

VARIABLES
  user,     \* the row of the account
  pc,       \* where each request is, and how it ended
  kind,     \* which handler it runs
  proof,    \* the credential, kit or refresh token a request proves itself with
  next,     \* the credential a request asks to install
  row,      \* the row the handler read
  reply,    \* the wrapped_dek a login answered with
  session,  \* the refresh token a request issued: none, live, spent or revoked
  target,   \* the sessions the revocation of an open transaction selected
  epoch,    \* history: number of revocations run, committed or not
  changed,  \* history: the epoch of the last password change or recovery committed
  bornAt,   \* history: the epoch of the login a session comes from
  carried   \* history: the epoch of the last revocation that a refresh in flight
            \* carried the session past

inputs == <<kind, proof, next, row>>
vars == <<user, pc, inputs, reply, session, target, epoch, changed, bornAt, carried>>

Kinds    == {"login", "refresh", "changePassword", "upgradeKdf", "completeRecovery",
             "regenerateRecoveryKit"}
Terminal == {"ok", "rejected", "failed"}

-----------------------------------------------------------------------------
FirstCred(kdf) == [pw |-> FirstPw, kdf |-> kdf, salt |-> Signup]

Init ==
  /\ \E kdf \in Strength :
       user = [auth_hash |-> FirstCred(kdf), kdf |-> FirstCred(kdf),
               wrapped_dek |-> FirstCred(kdf),
               recovery_auth_hash |-> Signup, recovery_wrapped_dek |-> Signup]
  /\ pc      = [r \in Request |-> "idle"]
  /\ kind    = [r \in Request |-> "none"]
  /\ proof   = [r \in Request |-> None]
  /\ next    = [r \in Request |-> None]
  /\ row     = [r \in Request |-> None]
  /\ reply   = [r \in Request |-> None]
  /\ session = [s \in Draw |-> IF s = Signup THEN "live" ELSE "none"]
  /\ target  = [r \in Request |-> {}]
  /\ epoch   = 0
  /\ changed = 0
  /\ bornAt  = [s \in Draw |-> 0]
  /\ carried = [s \in Draw |-> 0]

Goto(r, label) == pc' = [pc EXCEPT ![r] = label]

(* A request arrives, and its handler reads the row: findByEmail, findById *)
(* or findRecoveryByEmail.                                                 *)
Read(r, k, p, c) ==
  /\ pc[r] = "idle"
  /\ kind'   = [kind EXCEPT ![r] = k]
  /\ proof'  = [proof EXCEPT ![r] = p]
  /\ next'   = [next EXCEPT ![r] = c]
  /\ row'    = [row EXCEPT ![r] = user]
  /\ Goto(r, "verifying")
  /\ UNCHANGED <<user, reply, session, target, epoch, changed, bornAt, carried>>

\* serverVerifyAuth, against what was read.
Verified(r) ==
  IF kind[r] = "completeRecovery"
  THEN proof[r] = row[r].recovery_auth_hash
  ELSE proof[r] = row[r].auth_hash

\* Mutation of StrongEnough: recovery forgets the check.
StrongUnlessRecovery(r) ==
  kind[r] \in {"changePassword", "upgradeKdf"} => next[r].kdf >= DefaultKdf

\* refuseWeakKdf: the handlers that install a credential compare its
\* parameters with the current defaults, after the proof.
StrongEnough(r) ==
  kind[r] \in {"changePassword", "upgradeKdf", "completeRecovery"}
    => next[r].kdf >= DefaultKdf

(* The proof was wrong, or the parameters too weak: 401 or 400, no write.  *)
Reject(r) ==
  /\ pc[r] = "verifying"
  /\ ~(Verified(r) /\ StrongEnough(r))
  /\ Goto(r, "rejected")
  /\ UNCHANGED <<user, inputs, reply, session, target, epoch, changed, bornAt, carried>>

Accept(r) ==
  /\ pc[r] = "verifying"
  /\ Verified(r) /\ StrongEnough(r)
  /\ Goto(r, "writing")
  /\ UNCHANGED <<user, inputs, reply, session, target, epoch, changed, bornAt, carried>>

-----------------------------------------------------------------------------
(* The writes.  updateCredentials and upgradeKdf are one UPDATE of the     *)
(* salt, the parameters, the verifier and the wrapper.                     *)
WithCredential(u, c) ==
  [u EXCEPT !.auth_hash = c, !.kdf = c, !.wrapped_dek = c]

\* Mutation of WithKit: the new kit's verifier is not stored.
WithWrapperOnly(u, k) ==
  [u EXCEPT !.recovery_wrapped_dek = k]

\* updateRecoveryWrapper: verifier and wrapper of the new kit, one UPDATE.
WithKit(u, k) ==
  [u EXCEPT !.recovery_auth_hash = k, !.recovery_wrapped_dek = k]

\* A handler past its proof runs the one statement that is its write.
Write(r, k) ==
  /\ pc[r] = "writing" /\ kind[r] = k
  /\ Goto(r, "ok")

\* A transaction that updated the users row has it locked until it ends.
RowLocked == \E q \in Request : pc[q] = "committing"

\* Mutation of IssueSession: the answer is built from a second SELECT.
IssueSessionRereads(r) ==
  /\ Write(r, "login")
  /\ session' = [session EXCEPT ![r] = "live"]
  /\ bornAt'  = [bornAt EXCEPT ![r] = epoch]
  /\ reply'   = [reply EXCEPT ![r] = user.wrapped_dek]
  /\ UNCHANGED <<user, inputs, target, epoch, changed, carried>>

(* login: issueSession, and the answer carries the wrapper that was read.  *)
IssueSession(r) ==
  /\ Write(r, "login")
  /\ session' = [session EXCEPT ![r] = "live"]
  /\ bornAt'  = [bornAt EXCEPT ![r] = epoch]
  /\ reply'   = [reply EXCEPT ![r] = row[r].wrapped_dek]
  /\ UNCHANGED <<user, inputs, target, epoch, changed, carried>>

(* refresh: findByHash and the checks on what it returned.                 *)
RefreshFound(r, s) ==
  /\ pc[r] = "idle" /\ session[s] # "none"
  /\ kind'  = [kind EXCEPT ![r] = "refresh"]
  /\ proof' = [proof EXCEPT ![r] = s]
  /\ Goto(r, IF session[s] = "live" THEN "rotating" ELSE "rejected")
  /\ UNCHANGED <<user, next, row, reply, session, target, epoch, changed, bornAt, carried>>

\* The token a refresh holds was alive when it read it; since then a revocation
\* has selected it, and may have committed.
Overtaken(s) ==
  session[s] = "revoked" \/ \E q \in Request : pc[q] = "committing" /\ s \in target[q]

(* refresh: markUsed, which looks at used_at only, the successor's INSERT  *)
(* and COMMIT.  It waits for a revocation that has locked the row and goes *)
(* on when that is over; one that wants the row waits for the refresh.     *)
Rotate(r) ==
  LET s == proof[r] IN
  /\ pc[r] = "rotating" /\ session[s] # "spent"
  /\ session' = [session EXCEPT ![s] = "spent", ![r] = "live"]
  /\ bornAt'  = [bornAt EXCEPT ![r] = bornAt[s]]
  /\ carried' = [carried EXCEPT ![r] = IF Overtaken(s) THEN epoch ELSE carried[s]]
  /\ Goto(r, "ok")
  /\ UNCHANGED <<user, inputs, reply, target, epoch, changed>>

ClaimLost(r) ==
  /\ pc[r] = "rotating" /\ session[proof[r]] = "spent"
  /\ Goto(r, "rejected")
  /\ UNCHANGED <<user, inputs, reply, session, target, epoch, changed, bornAt, carried>>

(* upgradeKdf: one UPDATE on the pool, no revocation.                      *)
UpgradeKdf(r) ==
  /\ Write(r, "upgradeKdf") /\ ~RowLocked
  /\ user' = WithCredential(user, next[r])
  /\ UNCHANGED <<inputs, reply, session, target, epoch, changed, bornAt, carried>>

(* regenerateRecoveryKit: the kit only, one UPDATE on the pool.            *)
RegenerateRecoveryKit(r) ==
  /\ Write(r, "regenerateRecoveryKit") /\ ~RowLocked
  /\ user' = WithKit(user, r)
  /\ UNCHANGED <<inputs, reply, session, target, epoch, changed, bornAt, carried>>

(* changePassword and completeRecovery: the statements of the transaction. *)
(* The UPDATE of the users row waits for its lock; revokeAllForUser then   *)
(* selects the sessions it sees.                                           *)
UpdateAndRevoke(r) ==
  /\ pc[r] = "writing" /\ kind[r] \in {"changePassword", "completeRecovery"}
  /\ ~RowLocked
  /\ target' = [target EXCEPT ![r] = {s \in Draw : session[s] = "live"}]
  /\ epoch' = epoch + 1
  /\ Goto(r, "committing")
  /\ UNCHANGED <<user, inputs, reply, session, changed, bornAt, carried>>

\* The COMMIT: the selected tokens are revoked with the credential change.  The
\* successor of one that a refresh has claimed meanwhile was not selected.
Commit(r, k) ==
  /\ pc[r] = "committing" /\ kind[r] = k
  /\ session' = [s \in Draw |->
       IF s \in target[r] /\ session[s] = "live" THEN "revoked" ELSE session[s]]
  /\ changed' = epoch
  /\ Goto(r, "ok")
  /\ UNCHANGED <<inputs, reply, target, epoch, bornAt, carried>>

ChangePassword(r) ==
  /\ Commit(r, "changePassword")
  /\ user' = WithCredential(user, next[r])

\* Mutation of CompleteRecovery: the revocation is not in the transaction and
\* the process may die before it.
RecoverThenRevoke(r) ==
  /\ pc[r] = "committing" /\ kind[r] = "completeRecovery"
  /\ user' = WithKit(WithCredential(user, next[r]), r)
  /\ changed' = epoch
  /\ Goto(r, "ok")
  /\ UNCHANGED <<inputs, reply, session, target, epoch, bornAt, carried>>

CompleteRecovery(r) ==
  /\ Commit(r, "completeRecovery")
  /\ user' = WithKit(WithCredential(user, next[r]), r)

(* The process dies, or the connection is lost, before the write commits:  *)
(* an open transaction is rolled back.                                     *)
Fail(r) ==
  /\ pc[r] \in {"verifying", "rotating", "writing", "committing"}
  /\ Goto(r, "failed")
  /\ UNCHANGED <<user, inputs, reply, session, target, epoch, changed, bornAt, carried>>

Finished ==
  /\ \A r \in Request : pc[r] \in Terminal
  /\ UNCHANGED vars
-----------------------------------------------------------------------------
\* The credential a client asks to install is derived with a salt of its own;
\* an upgrade keeps the password the request was proved with.
NewCred(r) == [pw : Password, kdf : Strength, salt : {r}]

\* A proof is what the account's credential (or kit) of the moment derives, or
\* None: another password, an older salt and a retired kit are all refused alike.
Arrive(r) ==
  \/ \E p \in {user.auth_hash, None} :
       \/ Read(r, "login", p, None)
       \/ Read(r, "regenerateRecoveryKit", p, None)
       \/ \E c \in NewCred(r) : Read(r, "changePassword", p, c)
  \/ \E c \in NewCred(r) : c.pw = user.auth_hash.pw /\ Read(r, "upgradeKdf", user.auth_hash, c)
  \/ \E c \in NewCred(r) : Read(r, "upgradeKdf", None, c)
  \/ \E k \in {user.recovery_auth_hash, None}, c \in NewCred(r) :
       Read(r, "completeRecovery", k, c)
  \/ \E s \in Draw : RefreshFound(r, s)

Step(r) ==
  \/ Reject(r) \/ Accept(r) \/ Rotate(r) \/ ClaimLost(r)
  \/ IssueSession(r) \/ UpgradeKdf(r) \/ RegenerateRecoveryKit(r)
  \/ UpdateAndRevoke(r) \/ ChangePassword(r) \/ CompleteRecovery(r)

Next ==
  \/ \E r \in Request : Arrive(r) \/ Step(r) \/ Fail(r)
  \/ Finished

Spec == Init /\ [][Next]_vars

-----------------------------------------------------------------------------
(* Properties *)

\* Every variable holds what the code keeps there.
TypeOK ==
  /\ user \in Row
  /\ pc \in [Request -> {"idle", "verifying", "rotating", "writing", "committing"} \cup Terminal]
  /\ kind \in [Request -> Kinds \cup {"none"}]
  /\ proof \in [Request -> Cred \cup Draw \cup {None}]
  /\ next \in [Request -> Cred \cup {None}]
  /\ row \in [Request -> Row \cup {None}]
  /\ reply \in [Request -> Cred \cup {None}]
  /\ session \in [Draw -> {"none", "live", "spent", "revoked"}]
  /\ target \in [Request -> SUBSET Draw]
  /\ epoch \in Nat
  /\ changed \in Nat
  /\ bornAt \in [Draw -> Nat]
  /\ carried \in [Draw -> Nat]
  /\ \A r \in Request : pc[r] = "rotating" => proof[r] \in Draw

\* Whatever requests overlap and crash, the account never ends up half
\* changed: one and the same password passes the check, matches the salt the
\* client is served and opens the vault key; one and the same recovery key
\* proves itself and opens it too.
DoorsAgree ==
  /\ user.auth_hash = user.wrapped_dek /\ user.auth_hash = user.kdf
  /\ user.recovery_auth_hash = user.recovery_wrapped_dek

\* accountService.refuseWeakKdf: once the account's parameters meet the current
\* defaults, or anything but signup has written them, they never fall below.
PolicyKept ==
  user.kdf.kdf >= DefaultKdf \/ user.kdf.salt = Signup

\* A session that is alive comes from a login after the revocation of the last
\* completed password change or recovery, wherever those two crash and in whatever
\* order they overlap; or from a refresh that had read its token before that
\* revocation and committed after the revocation's snapshot.  Nothing else, and no
\* refresh that ended earlier or began later, keeps a session past them.
NoSessionOutlivesChange ==
  \A s \in Draw :
    session[s] = "live" => bornAt[s] >= changed \/ carried[s] >= changed

\* The wrapper a login answers with opens under the very credential the login
\* was verified with, although the row may have been replaced in between.
LoginReplyOpens ==
  \A r \in Request : reply[r] # None => reply[r] = proof[r]

-----------------------------------------------------------------------------
(* What a comment says, without the exception for overlapping requests.     *)

\* accountService.upgradeKdf: "The password is unchanged".
UpgradeKeepsPassword ==
  [][ \A r \in Request : UpgradeKdf(r) => user'.auth_hash.pw = user.auth_hash.pw ]_vars
=============================================================================
