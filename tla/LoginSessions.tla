--------------------------- MODULE LoginSessions ---------------------------
(***************************************************************************)
(* What the refresh tokens promise, without table, handlers or locks: a    *)
(* login opens a session, which is one token at a time.  The token is      *)
(* exchanged for a fresh one; the account and the deadline of the login    *)
(* stay.  A session may be closed, and closed for good, and is forgotten   *)
(* once its deadline has passed.  RefreshTokens implements this.           *)
(***************************************************************************)
EXTENDS Naturals

CONSTANTS
  Token,     \* tokens a holder may have
  Family,    \* sessions
  User,      \* accounts
  NoSession, \* no token of the session is left to exchange
  TTL        \* lifetime of a session

VARIABLES
  session,  \* the token of each session, its account, its deadline, whether it is open
  dead,     \* sessions closed for good
  issued,   \* tokens and sessions that were ever given out
  now

vars == <<session, dead, issued, now>>

Init ==
  /\ session = [f \in Family |-> NoSession]
  /\ dead = {} /\ issued = {} /\ now = 0

Open(f, u, t) ==
  /\ f \notin issued /\ t \notin issued
  /\ session' = [session EXCEPT ![f] = [token |-> t, user |-> u, deadline |-> now + TTL, open |-> TRUE]]
  /\ issued' = issued \cup {f, t}
  /\ UNCHANGED <<dead, now>>

\* An exchange that was under way when the session was closed opens it again,
\* unless it was closed for good.
Exchange(f, t) ==
  /\ session[f] # NoSession
  /\ f \notin dead /\ t \notin issued
  /\ session' = [session EXCEPT ![f] = [token |-> t, user |-> session[f].user,
                                        deadline |-> session[f].deadline, open |-> TRUE]]
  /\ issued' = issued \cup {t}
  /\ UNCHANGED <<dead, now>>

Closed(s) ==
  IF s = NoSession THEN NoSession
  ELSE [token |-> s.token, user |-> s.user, deadline |-> s.deadline, open |-> FALSE]

\* A revocation closes sessions, some of them for good.
Close(F, D) ==
  /\ session' = [f \in Family |-> IF f \in F THEN Closed(session[f]) ELSE session[f]]
  /\ dead' = dead \cup D
  /\ \A f \in D : session'[f] = Closed(session[f])
  /\ UNCHANGED <<issued, now>>

Forget(F) ==
  /\ \A f \in F : session[f] # NoSession /\ session[f].deadline < now
  /\ session' = [f \in Family |-> IF f \in F THEN NoSession ELSE session[f]]
  /\ UNCHANGED <<dead, issued, now>>

Tick ==
  /\ now' = now + 1
  /\ UNCHANGED <<session, dead, issued>>

Next ==
  \/ \E f \in Family, u \in User, t \in Token : Open(f, u, t)
  \/ \E f \in Family, t \in Token : Exchange(f, t)
  \/ \E F \in SUBSET Family, D \in SUBSET Family : Close(F, D)
  \/ \E F \in SUBSET Family : Forget(F)
  \/ Tick

Spec == Init /\ [][Next]_vars
=============================================================================
