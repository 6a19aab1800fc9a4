--------------------------- MODULE RefreshTokens ---------------------------
(***************************************************************************)
(* The refresh-token table of the server and the request handlers that     *)
(* read and write it: login (issueSession), refresh, logout, the mass      *)
(* revocation of a password change or recovery, and the hourly sweep; and  *)
(* the connection pool they share.                                         *)
(*                                                                         *)
(* A step is one SQL statement as PostgreSQL runs it under READ COMMITTED: *)
(*   - refresh_tokens holds COMMITTED rows only.  What an open refresh     *)
(*     transaction has written (used_at on the token it claimed) stays in  *)
(*     that handler until COMMIT and vanishes when the handler fails.      *)
(*   - a claimed row is locked until the transaction ends.  markUsed, a    *)
(*     revocation and the sweep wait for the locks of the rows they want,  *)
(*     then look at the committed version of each row again.  An UPDATE    *)
(*     that finds on this second look that the row no longer qualifies     *)
(*     has locked it all the same, and a transaction keeps its locks.      *)
(*   - a revocation or sweep touches the rows its snapshot selected when   *)
(*     the statement began: a row committed after that is not seen.        *)
(* Statements other than refresh's run in their own transaction.           *)
(*                                                                         *)
(* The pool of db.js lends at most PoolSize connections: one to a          *)
(* statement on the pool for as long as it runs, one to a transaction from *)
(* BEGIN to its end.  A refresh that revokes needs a second one while it   *)
(* keeps its first.  Who finds none idle waits in connect(), without limit.*)
(***************************************************************************)
EXTENDS Naturals, FiniteSets

CONSTANTS
  Token,      \* refresh tokens: one row each, named by their random value
  Family,     \* family_id values, one per login
  User,       \* accounts
  Request,    \* requests, each handled once
  NoRow,      \* what a SELECT that matches nothing returns
  NoToken,    \* the token of a request that holds none
  PoolSize,   \* the pool's max
  TTL,        \* REFRESH_TOKEN_TTL_DAYS, in ticks of the clock
  MaxTime     \* bound on the clock

Row == [family : Family, user : User, expires : Nat,
        used : BOOLEAN, revoked : BOOLEAN]

ASSUME SentinelAssumption == NoRow \notin Row /\ NoToken \notin Token
ASSUME PoolAssumption == PoolSize \in Nat \ {0} /\ IsFiniteSet(Request)
ASSUME TimeAssumption == TTL \in Nat \ {0} /\ MaxTime \in Nat

VARIABLES
  refresh_tokens, \* the committed table: Token -> row or NoRow
  issued,         \* tokens and family ids generated so far (random, never reused)
  now,            \* the clock the server and the database share
  kind,           \* which handler a request runs
  pc,             \* where the handler is, and how it ended
  tok,            \* the token the request presented
  seen,           \* the row findByHash returned to the handler
  late,           \* refreshes whose markUsed waited for the row and lost it: they
                  \* have it locked
  target,         \* rows selected by the snapshot of the handler's UPDATE or DELETE
  minted,         \* the token a completed login or refresh answered with
  quiet,          \* history: families a revocation has met no refresh in flight on
  ended           \* history: families revoked with no refresh in flight

requestVars == <<kind, pc, tok, seen, late, target, minted>>
vars == <<refresh_tokens, issued, now, requestVars, quiet, ended>>

-----------------------------------------------------------------------------
(* State predicates *)

Terminal == {"ok", "refused", "revoked", "failed"}
Working  == {"claim", "marking", "claimed", "revoke", "revoking", "sweeping"}

Present(t)   == refresh_tokens[t] # NoRow
Expired(row) == row.expires <= now

\* A token the server would exchange for a new pair.
Spendable(t) ==
  /\ Present(t)
  /\ ~refresh_tokens[t].used
  /\ ~refresh_tokens[t].revoked
  /\ ~Expired(refresh_tokens[t])

\* Mutation of HoldsLock: findByHash locks the row it reads (FOR UPDATE), so a
\* refresh that finds it spent has it locked too.
HoldsLockOnReuse(r) == pc[r] = "claimed" \/ (kind[r] = "refresh" /\ pc[r] \in {"revoke", "revoking"})

\* markUsed has matched the row, or has waited for it and lost, and the
\* transaction is still open.
HoldsLock(r) == pc[r] = "claimed" \/ r \in late
Locked(t)    == \E r \in Request : HoldsLock(r) /\ tok[r] = t

\* A refresh of family f has passed its checks and not yet ended.
InFlight(r, f) == pc[r] \in {"claim", "marking", "claimed"} /\ seen[r].family = f

FamilyRows(f) == {t \in Token : Present(t) /\ refresh_tokens[t].family = f}
UserRows(u)   == {t \in Token : Present(t) /\ refresh_tokens[t].user = u}

FreshToken  == Token \ issued
FreshFamily == Family \ issued

\* The connections in use: a transaction's, and that of a statement on the pool.
InTransaction(r) ==
  kind[r] \in {"refresh", "credentials"} /\ pc[r] \in Working
OnPool(r) ==
  \/ kind[r] \in {"refresh", "logout"} /\ pc[r] = "revoking"
  \/ pc[r] = "sweeping"
Leases ==
  {r \in Request : InTransaction(r)} \X {"transaction"}
    \cup {r \in Request : OnPool(r)} \X {"statement"}
IdleConn == Cardinality(Leases) < PoolSize

-----------------------------------------------------------------------------
Init ==
  /\ refresh_tokens = [t \in Token |-> NoRow]
  /\ issued = {}
  /\ now = 0
  /\ kind   = [r \in Request |-> "none"]
  /\ pc     = [r \in Request |-> "idle"]
  /\ tok    = [r \in Request |-> NoToken]
  /\ seen   = [r \in Request |-> NoRow]
  /\ late   = {}
  /\ target = [r \in Request |-> {}]
  /\ minted = [r \in Request |-> NoToken]
  /\ quiet  = [r \in Request |-> {}]
  /\ ended  = {}

Goto(r, label) == pc' = [pc EXCEPT ![r] = label]

\* The statement is over: its snapshot is dropped.
Forget(r) == target' = [target EXCEPT ![r] = {}] /\ quiet' = [quiet EXCEPT ![r] = {}]

\* A request got a connection, and its handler runs its first statement.
Start(r, k, label) ==
  /\ pc[r] = "idle" /\ IdleConn
  /\ kind' = [kind EXCEPT ![r] = k]
  /\ Goto(r, label)

(* findByHash, for a token somebody was given.  A token that was swept and *)
(* a string that never was a token get the same answer: no row.            *)
Find(r, t) ==
  /\ t \in issued
  /\ tok'  = [tok EXCEPT ![r] = t]
  /\ seen' = [seen EXCEPT ![r] = refresh_tokens[t]]

-----------------------------------------------------------------------------
(* POST /login, after the credentials were verified: issueSession.  The    *)
(* refresh token is one INSERT on the pool, in a family of its own.        *)
Login(r, u, f, t) ==
  /\ Start(r, "login", "ok")
  /\ f \in FreshFamily /\ t \in FreshToken
  /\ refresh_tokens' = [refresh_tokens EXCEPT ![t] =
       [family |-> f, user |-> u, expires |-> now + TTL,
        used |-> FALSE, revoked |-> FALSE]]
  /\ issued' = issued \cup {f, t}
  /\ minted' = [minted EXCEPT ![r] = t]
  /\ UNCHANGED <<now, tok, seen, late, target, quiet, ended>>

(* POST /refresh.  The SELECT and the three checks on what it returned.    *)
RefreshRefused(r, t) ==
  /\ Start(r, "refresh", "refused")
  /\ Find(r, t)
  /\ Present(t) => refresh_tokens[t].revoked \/ Expired(refresh_tokens[t])
  /\ UNCHANGED <<refresh_tokens, issued, now, late, target, minted, quiet, ended>>

RefreshReuse(r, t) ==
  /\ Start(r, "refresh", "revoke")
  /\ Find(r, t)
  /\ Present(t)
  /\ ~refresh_tokens[t].revoked
  /\ ~Expired(refresh_tokens[t])
  /\ refresh_tokens[t].used
  /\ UNCHANGED <<refresh_tokens, issued, now, late, target, minted, quiet, ended>>

\* Mutation of RefreshFound: the revoked_at check is gone.
RefreshFoundUnrevoked(r, t) ==
  /\ Start(r, "refresh", "claim")
  /\ Find(r, t)
  /\ Present(t) /\ ~refresh_tokens[t].used /\ ~Expired(refresh_tokens[t])
  /\ quiet' = [q \in Request |-> quiet[q] \ {refresh_tokens[t].family}]
  /\ UNCHANGED <<refresh_tokens, issued, now, late, target, minted, ended>>

RefreshFound(r, t) ==
  /\ Start(r, "refresh", "claim")
  /\ Find(r, t)
  /\ Spendable(t)
  /\ quiet' = [q \in Request |-> quiet[q] \ {refresh_tokens[t].family}]
  /\ UNCHANGED <<refresh_tokens, issued, now, late, target, minted, ended>>

\* Mutations of ClaimWon: the UPDATE has no used_at guard; the UPDATE runs on
\* the pool instead of the transaction's client.
ClaimWonUnguarded(r) ==
  /\ pc[r] = "marking"
  /\ ~Locked(tok[r])
  /\ Present(tok[r])
  /\ Goto(r, "claimed")
  /\ UNCHANGED <<refresh_tokens, issued, now, kind, tok, seen, late, target, minted,
                 quiet, ended>>

ClaimWonOnPool(r) ==
  /\ pc[r] = "marking"
  /\ Present(tok[r]) /\ ~refresh_tokens[tok[r]].used
  /\ refresh_tokens' = [refresh_tokens EXCEPT ![tok[r]].used = TRUE]
  /\ Goto(r, "claimed")
  /\ UNCHANGED <<issued, now, kind, tok, seen, late, target, minted, quiet, ended>>

(* markUsed: UPDATE ... WHERE id = $1 AND used_at IS NULL.  It selects the  *)
(* row as it is committed when it begins ...                               *)
MarkUsed(r) ==
  /\ pc[r] = "claim"
  /\ Present(tok[r]) /\ ~refresh_tokens[tok[r]].used
  /\ Goto(r, "marking")
  /\ UNCHANGED <<refresh_tokens, issued, now, kind, tok, seen, late, target, minted,
                 quiet, ended>>

ClaimMissed(r) ==
  /\ pc[r] = "claim"
  /\ Present(tok[r]) => refresh_tokens[tok[r]].used
  /\ Goto(r, "revoke")
  /\ UNCHANGED <<refresh_tokens, issued, now, kind, tok, seen, late, target, minted,
                 quiet, ended>>

(* ... waits while another transaction has it, and looks at used_at again: *)
(* not at revoked_at or expires_at, which were checked on the row read     *)
(* before.                                                                 *)
ClaimWon(r) ==
  /\ pc[r] = "marking"
  /\ ~Locked(tok[r])
  /\ Present(tok[r]) /\ ~refresh_tokens[tok[r]].used
  /\ Goto(r, "claimed")
  /\ UNCHANGED <<refresh_tokens, issued, now, kind, tok, seen, late, target, minted,
                 quiet, ended>>

(* The loser has locked the row it did not change, if there still is one.  *)
ClaimLost(r) ==
  /\ pc[r] = "marking"
  /\ ~Locked(tok[r])
  /\ Present(tok[r]) => refresh_tokens[tok[r]].used
  /\ late' = IF Present(tok[r]) THEN late \cup {r} ELSE late
  /\ Goto(r, "revoke")
  /\ UNCHANGED <<refresh_tokens, issued, now, kind, tok, seen, target, minted,
                 quiet, ended>>

\* Mutation of Rotate: the successor lives for a full TTL from now.
RotateSliding(r, c) ==
  /\ pc[r] = "claimed"
  /\ c \in FreshToken
  /\ refresh_tokens' = [refresh_tokens EXCEPT
       ![tok[r]].used = TRUE,
       ![c] = [family |-> seen[r].family, user |-> seen[r].user,
               expires |-> now + TTL, used |-> FALSE, revoked |-> FALSE]]
  /\ issued' = issued \cup {c}
  /\ minted' = [minted EXCEPT ![r] = c]
  /\ Goto(r, "ok")
  /\ UNCHANGED <<now, kind, tok, seen, late, target, quiet, ended>>

(* INSERT of the successor and COMMIT.  The inserted row is invisible and  *)
(* unlocked until COMMIT, so the two statements are one step.              *)
Rotate(r, c) ==
  /\ pc[r] = "claimed"
  /\ c \in FreshToken
  /\ refresh_tokens' = [refresh_tokens EXCEPT
       ![tok[r]].used = TRUE,
       ![c] = [family |-> seen[r].family, user |-> seen[r].user,
               expires |-> seen[r].expires, used |-> FALSE, revoked |-> FALSE]]
  /\ issued' = issued \cup {c}
  /\ minted' = [minted EXCEPT ![r] = c]
  /\ Goto(r, "ok")
  /\ UNCHANGED <<now, kind, tok, seen, late, target, quiet, ended>>

(* POST /logout: findByHash, silent on an unknown token.                   *)
LogoutUnknown(r, t) ==
  /\ Start(r, "logout", "ok")
  /\ Find(r, t)
  /\ ~Present(t)
  /\ UNCHANGED <<refresh_tokens, issued, now, late, target, minted, quiet, ended>>

LogoutFound(r, t) ==
  /\ Start(r, "logout", "revoke")
  /\ Find(r, t)
  /\ Present(t)
  /\ UNCHANGED <<refresh_tokens, issued, now, late, target, minted, quiet, ended>>

\* Mutation of RevokeFamily: only the presented token is revoked.
RevokePresented(r) ==
  LET f == seen[r].family IN
  /\ pc[r] = "revoke" /\ IdleConn
  /\ target' = [target EXCEPT ![r] = {tok[r]}]
  /\ quiet' = [quiet EXCEPT ![r] = {f} \ {g \in Family : \E q \in Request : InFlight(q, g)}]
  /\ Goto(r, "revoking")
  /\ UNCHANGED <<refresh_tokens, issued, now, kind, tok, seen, late, minted, ended>>

(* revokeFamily takes its snapshot: for logout, for a spent token that     *)
(* came back and for the loser of a claim.  On the last two paths it runs  *)
(* on a connection of its own while the refresh transaction is still open  *)
(* (that one has written nothing and is rolled back afterwards), and waits *)
(* for the pool to have one.                                               *)
RevokeFamily(r) ==
  LET f == seen[r].family IN
  /\ pc[r] = "revoke" /\ IdleConn
  /\ target' = [target EXCEPT ![r] =
       {t \in FamilyRows(f) : ~refresh_tokens[t].revoked}]
  /\ quiet' = [quiet EXCEPT ![r] = {f} \ {g \in Family : \E q \in Request : InFlight(q, g)}]
  /\ Goto(r, "revoking")
  /\ UNCHANGED <<refresh_tokens, issued, now, kind, tok, seen, late, minted, ended>>

\* Mutation of RevokeAllForUser: inside the transaction, but on the pool.
RevokeAllForUserOnPool(r, u) ==
  /\ Start(r, "credentials", "revoke")
  /\ \E t \in UserRows(u) : seen' = [seen EXCEPT ![r] = refresh_tokens[t]]
  /\ UNCHANGED <<refresh_tokens, issued, now, tok, late, target, minted, quiet, ended>>

(* revokeAllForUser takes its snapshot, inside the transaction of a        *)
(* password change or a recovery.                                          *)
RevokeAllForUser(r, u) ==
  /\ Start(r, "credentials", "revoking")
  /\ target' = [target EXCEPT ![r] =
       {t \in UserRows(u) : ~refresh_tokens[t].revoked}]
  /\ quiet' = [quiet EXCEPT ![r] =
       {refresh_tokens[t].family : t \in UserRows(u)}
         \ {g \in Family : \E q \in Request : InFlight(q, g)}]
  /\ UNCHANGED <<refresh_tokens, issued, now, tok, seen, late, minted, ended>>

(* The UPDATE has every row lock it waited for and commits; a refresh is   *)
(* then rolled back.  To the UPDATE the refresh's own transaction is one   *)
(* like any other: the loser of a claim waits for itself.                  *)
RevokeCommit(r) ==
  /\ pc[r] = "revoking"
  /\ \A t \in target[r] : ~Locked(t)
  /\ late' = late \ {r}
  /\ refresh_tokens' = [t \in Token |->
       IF t \in target[r] /\ Present(t)
       THEN [refresh_tokens[t] EXCEPT !.revoked = TRUE]
       ELSE refresh_tokens[t]]
  /\ ended' = ended \cup quiet[r]
  /\ Forget(r)
  /\ Goto(r, "revoked")
  /\ UNCHANGED <<issued, now, kind, tok, seen, minted>>

(* The sweep at boot and every hour: deleteExpired.                        *)
Sweep(r) ==
  /\ Start(r, "sweep", "sweeping")
  /\ target' = [target EXCEPT ![r] =
       {t \in Token : Present(t) /\ refresh_tokens[t].expires < now}]
  /\ UNCHANGED <<refresh_tokens, issued, now, tok, seen, late, minted, quiet, ended>>

SweepCommit(r) ==
  /\ pc[r] = "sweeping"
  /\ \A t \in target[r] : ~Locked(t)
  /\ refresh_tokens' = [t \in Token |->
       IF t \in target[r] THEN NoRow ELSE refresh_tokens[t]]
  /\ Forget(r)
  /\ Goto(r, "ok")
  /\ UNCHANGED <<issued, now, kind, tok, seen, late, minted, ended>>

(* The process dies or the connection is lost between two statements: the  *)
(* open transaction is rolled back and the caller gets no answer.          *)
Fail(r) ==
  /\ pc[r] \in Working
  /\ late' = late \ {r}
  /\ Forget(r)
  /\ Goto(r, "failed")
  /\ UNCHANGED <<refresh_tokens, issued, now, kind, tok, seen, minted, ended>>

Tick ==
  /\ now < MaxTime
  /\ now' = now + 1
  /\ UNCHANGED <<refresh_tokens, issued, requestVars, quiet, ended>>

(* Every request was handled.                                              *)
Finished ==
  /\ \A r \in Request : pc[r] \in Terminal
  /\ UNCHANGED vars

-----------------------------------------------------------------------------
\* What a handler does once it is running.
Step(r) ==
  \/ MarkUsed(r) \/ ClaimMissed(r) \/ ClaimWon(r) \/ ClaimLost(r)
  \/ \E c \in Token : Rotate(r, c)
  \/ RevokeFamily(r) \/ RevokeCommit(r) \/ SweepCommit(r)

\* A request arrives.
Arrive(r) ==
  \/ \E u \in User, f \in Family, t \in Token : Login(r, u, f, t)
  \/ \E t \in Token : RefreshRefused(r, t) \/ RefreshReuse(r, t) \/ RefreshFound(r, t)
  \/ \E t \in Token : LogoutUnknown(r, t) \/ LogoutFound(r, t)
  \/ \E u \in User : RevokeAllForUser(r, u)
  \/ Sweep(r)

Next ==
  \/ \E r \in Request : Arrive(r) \/ Step(r) \/ Fail(r)
  \/ Tick
  \/ Finished

Spec == Init /\ [][Next]_vars

\* A handler that can take its next statement eventually does: the event
\* loop runs every ready callback, PostgreSQL wakes the waiters of a lock and the
\* pool serves its waiters in turn.
\* Nothing makes a request arrive, a failure happen or the clock move.
Fairness == \A r \in Request : WF_vars(Step(r))
FairSpec == Spec /\ Fairness

-----------------------------------------------------------------------------
(* Properties *)

\* Every variable holds what the code keeps there.
TypeOK ==
  /\ refresh_tokens \in [Token -> Row \cup {NoRow}]
  /\ issued \subseteq Token \cup Family
  /\ now \in Nat
  /\ kind \in [Request -> {"none", "login", "refresh", "logout", "credentials", "sweep"}]
  /\ pc \in [Request -> {"idle"} \cup Working \cup Terminal]
  /\ tok \in [Request -> Token \cup {NoToken}]
  /\ seen \in [Request -> Row \cup {NoRow}]
  /\ late \subseteq Request
  /\ target \in [Request -> SUBSET Token]
  /\ minted \in [Request -> Token \cup {NoToken}]
  /\ quiet \in [Request -> SUBSET Family]
  /\ ended \subseteq Family
  /\ \A r \in Request :
       pc[r] \in {"claim", "marking", "claimed", "revoke"} => seen[r] \in Row /\ tok[r] \in Token

\* A login session is a chain: however many refreshes run at once, at most one
\* token of a family is unspent.  Two would be two holders the reuse
\* detection of authService.refresh could never tell apart.
OneUnspentToken ==
  \A t, u \in Token :
    /\ Present(t) /\ ~refresh_tokens[t].used
    /\ Present(u) /\ ~refresh_tokens[u].used
    /\ refresh_tokens[t].family = refresh_tokens[u].family
    => t = u

\* "The new token inherits the OLD expiry": all tokens of a family belong to
\* one user and die together, whatever the number of rotations and whenever
\* they ran, so a session cannot be renewed past its login's lifetime.
NoSlidingSession ==
  \A t, u \in Token :
    /\ Present(t) /\ Present(u)
    /\ refresh_tokens[t].family = refresh_tokens[u].family
    => /\ refresh_tokens[t].expires = refresh_tokens[u].expires
       /\ refresh_tokens[t].user = refresh_tokens[u].user

\* When one token is presented twice and the second request was refused as a
\* reuse, early (it read a spent row) or late (it lost the conditional UPDATE),
\* what the first request got in exchange is no longer good: the revocation's
\* snapshot never misses it.
DoubleSpendKillsSuccessor ==
  \A r, q \in Request :
    /\ kind[r] = "refresh" /\ pc[r] = "revoked"
    /\ kind[q] = "refresh" /\ pc[q] = "ok"
    /\ tok[q] = tok[r]
    => ~Spendable(minted[q])

\* A family revoked while none of its refreshes was in flight is dead for
\* good: all its rows stay revoked and no handler can add a live one.
EndedStaysEnded ==
  \A f \in ended : \A t \in FamilyRows(f) : refresh_tokens[t].revoked

\* A token is spent in the very step that makes its successor visible: a
\* crash, a rollback or a lost race never leaves the holder with a spent token
\* and nothing in exchange.
RotationIsAtomic ==
  [][ \A t \in Token :
        (/\ Present(t) /\ ~refresh_tokens[t].used
         /\ Present(t)' /\ refresh_tokens'[t].used)
        => \E c \in Token :
             /\ ~Present(c) /\ Present(c)'
             /\ refresh_tokens'[c].family = refresh_tokens[t].family
             /\ ~refresh_tokens'[c].used ]_vars

\* What a handler waits for: a row lock, its own transaction's included, or a
\* connection of the pool.
Waits(r) ==
  \/ pc[r] = "marking" /\ Locked(tok[r])
  \/ pc[r] \in {"revoking", "sweeping"} /\ \E t \in target[r] : Locked(t)
  \/ pc[r] = "revoke" /\ ~IdleConn

\* No connection is idle, and every one is held by a refresh that waits for
\* another.
Starved ==
  /\ ~IdleConn
  /\ \A l \in Leases : kind[l[1]] = "refresh" /\ pc[l[1]] = "revoke"

\* If requests are under way and every one of them waits, then the nested
\* revokeFamily of a refresh is the reason: it starved the pool, or it wants a
\* row that its own transaction, or another loser's, has locked.  No other order
\* of statements, locks and connections brings the handlers to a stop.
StopIsNested ==
  /\ \E r \in Request : pc[r] \in Working
  /\ \A r \in Request : pc[r] \in Working => Waits(r)
  => Starved \/ late # {}

\* Every request is answered or fails, the waits for row locks and connections
\* end, unless the pool is starved or the loser of a claim waits, for itself or
\* for a connection.
RequestsFinish ==
  \A r \in Request :
    pc[r] \in Working ~> pc[r] \in Terminal \/ Starved \/ \E q \in late : Waits(q)

-----------------------------------------------------------------------------
(* What a comment says, without the exception for a claim that was lost late. *)

\* authService.refresh: "Revocation must COMMIT even though the request fails":
\* one that a refresh has to run is committed, unless the server fails.
RevocationCommits ==
  \A r \in Request :
    kind[r] = "refresh" /\ pc[r] = "revoke" ~> pc[r] \in {"revoked", "failed"}

-----------------------------------------------------------------------------
(* The promise *)

\* The token of a family that is left to exchange.
Unspent(f) == {t \in FamilyRows(f) : ~refresh_tokens[t].used}
SessionOf(f) ==
  IF Unspent(f) = {} THEN NoRow
  ELSE LET t == CHOOSE t \in Unspent(f) : TRUE
       IN  [token |-> t, user |-> refresh_tokens[t].user,
            deadline |-> refresh_tokens[t].expires, open |-> ~refresh_tokens[t].revoked]

Session == [token : Token, user : User, deadline : Nat, open : BOOLEAN]
ASSUME SessionAssumption == NoRow \notin Session

Promise == INSTANCE LoginSessions WITH
  NoSession <- NoRow,
  session   <- [f \in Family |-> SessionOf(f)],
  dead      <- ended

\* The handlers together keep the promise: whatever their statements do
\* between each other, a family of rows behaves as one session that is opened
\* once, exchanged token for token, closed and forgotten.
SessionsAsPromised == Promise!Spec
=============================================================================
