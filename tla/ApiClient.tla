----------------------------- MODULE ApiClient -----------------------------
(***************************************************************************)
(* The tokens of one browser tab: api/client.js, the parts of api/auth.js  *)
(* and VaultContext.jsx that set and clear them, and the server's side of  *)
(* the refresh protocol as far as the client can tell (a session is alive  *)
(* with one current token, or dead).                                       *)
(*                                                                         *)
(* The tab is single-threaded: a step is what runs between two awaits.     *)
(* When a refresh settles, its slot is cleared and everybody who awaits it *)
(* continues before anything else runs, so settling is one step.  Answers  *)
(* travel for as long as they like, and may be lost.  An operation outlives *)
(* the lock of the tab that began it: nothing cancels it.                  *)
(***************************************************************************)
EXTENDS Naturals

CONSTANTS
  Call,      \* calls of request(); a refresh is named by the call that starts it
  Change,    \* those that are the POST of a password change
  Session,   \* logins of the tab, numbered as they come, and their families
  None       \* null

Token == [session : Session, n : Nat]

\* A logout is named by the login that lock() ended, or by the password change
\* whose answer called lock().
Logout == Session \cup Change

ASSUME ChangeAssumption == Change \subseteq Call /\ Session \cap Call = {}
ASSUME SessionAssumption == Session \subseteq Nat
ASSUME NoneAssumption == None \notin Token \cup Session \cup Call \cup Nat

VARIABLES
  accessToken, refreshToken, refreshInFlight,  \* client.js
  opening,   \* the login whose answer came and whose wrapper is being opened
  unlocked,  \* the login the tab is unlocked by, or None
  call,      \* where each call is
  bearer,    \* the access token it was sent with and has no answer about yet
  awaited,   \* the refresh it awaits
  refresh,   \* where the refresh a call started is
  posted,    \* the refresh token it posted
  logout,    \* where each logout is
  captured,  \* the refresh token it posted
  current,   \* server: the number of a family's unspent token; None before login
  dead,      \* server: revoked families
  expired,   \* access tokens past their ten minutes
  reused,    \* history: families killed because a spent token came back
  stray,     \* history: what a locked tab holds, it got from a refresh that settled
             \* after the tokens were cleared, or from a login that did not open
  crossed    \* history: the login of the tab, if an earlier one's refresh or logout
             \* replaced or cleared its tokens, or it lost them while it was opened

tokens == <<accessToken, refreshToken, refreshInFlight>>
login  == <<opening, unlocked>>
calls  == <<call, bearer, awaited>>
server == <<current, dead, expired, reused>>
vars == <<tokens, login, calls, refresh, posted, logout, captured, server,
                 stray, crossed>>

\* A refresh whose promise has not settled.
Pending(p) == refresh[p] \in {"posted", "rotated", "denied"}
LoggingOut(l) == logout[l] \in {"posted", "served"}

Quiescent == (\A p \in Call : ~Pending(p)) /\ (\A l \in Logout : ~LoggingOut(l))

\* The login the tab is being opened for or unlocked by.
Tenant == IF opening # None THEN opening ELSE unlocked
Locked == Tenant = None

-----------------------------------------------------------------------------
Init ==
  /\ accessToken = None /\ refreshToken = None /\ refreshInFlight = None
  /\ opening = None /\ unlocked = None
  /\ call     = [c \in Call |-> "idle"]
  /\ bearer   = [c \in Call |-> None]
  /\ awaited  = [c \in Call |-> None]
  /\ refresh  = [c \in Call |-> "none"]
  /\ posted   = [c \in Call |-> None]
  /\ logout   = [l \in Logout |-> "none"]
  /\ captured = [l \in Logout |-> None]
  /\ current  = [s \in Session |-> None]
  /\ dead = {} /\ expired = {} /\ reused = {}
  /\ stray = FALSE
  /\ crossed = None

\* clearToken: the slot is emptied whatever refresh is in it, and that one goes on.
ClearToken ==
  /\ accessToken' = None /\ refreshToken' = None /\ refreshInFlight' = None
  /\ stray' = FALSE

(* login: the server opened a family and answered with its first tokens.   *)
(* They are kept, and unwrapDEK is awaited.                                *)
Login(s) ==
  /\ opening = None /\ unlocked = None
  /\ current[s] = None /\ \A x \in Session : x < s => current[x] # None
  /\ current' = [current EXCEPT ![s] = 0]
  /\ accessToken'  = [session |-> s, n |-> 0]
  /\ refreshToken' = [session |-> s, n |-> 0]
  /\ opening' = s /\ stray' = FALSE
  /\ UNCHANGED <<refreshInFlight, unlocked, calls, refresh, posted, logout, captured, dead,
                 expired, reused, crossed>>

\* The wrapper opened, or it did not: then the tokens stay.
Unlock ==
  /\ opening # None
  /\ opening' = None /\ unlocked' = opening
  /\ UNCHANGED <<tokens, calls, refresh, posted, logout, captured, server, stray, crossed>>

UnlockFails ==
  /\ opening # None
  /\ opening' = None /\ stray' = TRUE
  /\ UNCHANGED <<tokens, unlocked, calls, refresh, posted, logout, captured, server, crossed>>

-----------------------------------------------------------------------------
(* An operation of the unlocked vault begins; before its request it may     *)
(* derive a key and seal.                                                  *)
Begin(c) ==
  /\ call[c] = "idle" /\ unlocked # None
  /\ call' = [call EXCEPT ![c] = "begun"]
  /\ UNCHANGED <<tokens, login, bearer, awaited, refresh, posted, logout, captured, server,
                 stray, crossed>>

(* request: send with the access token of the moment, in whatever tab.     *)
Send(c) ==
  /\ call[c] = "begun"
  /\ call'   = [call EXCEPT ![c] = "sent"]
  /\ bearer' = [bearer EXCEPT ![c] = accessToken]
  /\ UNCHANGED <<tokens, login, awaited, refresh, posted, logout, captured, server,
                 stray, crossed>>

Awaits(c, p)   == call[c] = "waiting" /\ awaited[c] = p
Outstanding(c) == call[c] \in {"sent", "resent"}
Accepted(c)    == bearer[c] # None /\ bearer[c] \notin expired

\* The call is over, and what it was sent with forgotten.
End(c, how) ==
  /\ call'   = [call EXCEPT ![c] = how]
  /\ bearer' = [bearer EXCEPT ![c] = None]
  /\ UNCHANGED <<tokens, login, awaited, refresh, posted, logout, captured,
                 server, stray, crossed>>

\* An answer other than a 401 about the access token, or none at all.  One that
\* tells of a changed password has ChangeAnswered.
Answered(c)     == Outstanding(c) /\ Accepted(c) /\ End(c, "done")
NetworkError(c) == (Outstanding(c) \/ call[c] = "changed") /\ End(c, "failed")

\* A 401 about the token with nothing to refresh with, or on the retry.
GivesUp(c) ==
  /\ ~Accepted(c)
  /\ call[c] = "resent" \/ (call[c] = "sent" /\ refreshToken = None)
  /\ End(c, "failed")

\* Mutation of RefreshOnce: no slot, every caller posts.
RefreshEach(c) ==
  /\ refreshInFlight' = c
  /\ refresh' = [refresh EXCEPT ![c] = "posted"]
  /\ posted'  = [posted EXCEPT ![c] = refreshToken]
  /\ awaited' = [awaited EXCEPT ![c] = c]

\* refreshOnce: await the refresh in flight, or start one.
RefreshOnce(c) ==
  \/ /\ refreshInFlight # None
     /\ awaited' = [awaited EXCEPT ![c] = refreshInFlight]
     /\ UNCHANGED <<refreshInFlight, refresh, posted>>
  \/ /\ refreshInFlight = None
     /\ refreshInFlight' = c
     /\ refresh' = [refresh EXCEPT ![c] = "posted"]
     /\ posted'  = [posted EXCEPT ![c] = refreshToken]
     /\ awaited' = [awaited EXCEPT ![c] = c]

(* A 401 about the token: refresh, then retry.                             *)
Unauthorized(c) ==
  /\ call[c] = "sent" /\ ~Accepted(c) /\ refreshToken # None
  /\ call'   = [call EXCEPT ![c] = "waiting"]
  /\ bearer' = [bearer EXCEPT ![c] = None]
  /\ RefreshOnce(c)
  /\ UNCHANGED <<accessToken, refreshToken, login, logout, captured, server,
                 stray, crossed>>

-----------------------------------------------------------------------------
\* A promise that has settled is dropped with what it had posted.
Forget(p) ==
  /\ awaited' = [c \in Call |-> IF Awaits(c, p) THEN None ELSE awaited[c]]
  /\ posted'  = [posted EXCEPT ![p] = IF refresh[p] = "posted" THEN @ ELSE None]

\* Mutation of SettleOk: only the call that started the refresh goes on.
SettleStarterOnly(p) ==
  LET next == [posted[p] EXCEPT !.n = @ + 1] IN
  /\ refresh[p] = "rotated"
  /\ accessToken' = next /\ refreshToken' = next /\ refreshInFlight' = None
  /\ refresh' = [refresh EXCEPT ![p] = "settled"]
  /\ call'   = [call EXCEPT ![p] = "resent"]
  /\ bearer' = [bearer EXCEPT ![p] = next]
  /\ stray'   = (stray \/ (Locked /\ refreshInFlight # p))
  /\ crossed' = IF posted[p].session # Tenant THEN Tenant ELSE crossed
  /\ UNCHANGED <<login, awaited, posted, logout, captured, server>>

\* Mutation of SettleOk: the rotated refresh token is not kept.
SettleKeepsSpent(p) ==
  LET next == [posted[p] EXCEPT !.n = @ + 1] IN
  /\ refresh[p] = "rotated"
  /\ accessToken' = next /\ refreshInFlight' = None
  /\ refresh' = [refresh EXCEPT ![p] = "settled"]
  /\ call'   = [c \in Call |-> IF Awaits(c, p) THEN "resent" ELSE call[c]]
  /\ bearer' = [c \in Call |-> IF Awaits(c, p) THEN next ELSE bearer[c]]
  /\ Forget(p)
  /\ UNCHANGED <<refreshToken, login, logout, captured, server, stray, crossed>>

(* The refresh succeeded: its tokens are installed, the slot is cleared    *)
(* whoever is in it, and all that awaited it retry.                        *)
SettleOk(p) ==
  LET next == [posted[p] EXCEPT !.n = @ + 1] IN
  /\ refresh[p] = "rotated"
  /\ accessToken' = next /\ refreshToken' = next /\ refreshInFlight' = None
  /\ refresh' = [refresh EXCEPT ![p] = "settled"]
  /\ call'   = [c \in Call |-> IF Awaits(c, p) THEN "resent" ELSE call[c]]
  /\ bearer' = [c \in Call |-> IF Awaits(c, p) THEN next ELSE bearer[c]]
  /\ Forget(p)
  /\ stray'   = (stray \/ (Locked /\ refreshInFlight # p))
  /\ crossed' = IF posted[p].session # Tenant THEN Tenant ELSE crossed
  /\ UNCHANGED <<login, logout, captured, server>>

\* Mutation of SettleFail: onSessionLost is not called.
SettleFailSilent(p) ==
  /\ Pending(p)
  /\ refresh' = [refresh EXCEPT ![p] = IF @ = "posted" THEN "abandoned" ELSE "settled"]
  /\ call' = [c \in Call |-> IF Awaits(c, p) THEN "failed" ELSE call[c]]
  /\ Forget(p) /\ ClearToken
  /\ crossed' = IF opening # None THEN opening ELSE crossed
  /\ UNCHANGED <<login, bearer, logout, captured, server>>

(* It failed, by an answer other than 2xx or by none: all that awaited it  *)
(* fail, the tokens are cleared and onSessionLost locks the vault.  lock() *)
(* finds no refresh token, so it posts no logout.                          *)
SettleFail(p) ==
  /\ Pending(p)
  /\ refresh' = [refresh EXCEPT ![p] = IF @ = "posted" THEN "abandoned" ELSE "settled"]
  /\ call' = [c \in Call |-> IF Awaits(c, p) THEN "failed" ELSE call[c]]
  /\ Forget(p) /\ ClearToken
  /\ unlocked' = None
  /\ crossed' = IF opening # None THEN opening ELSE crossed
  /\ UNCHANGED <<opening, bearer, logout, captured, server>>

-----------------------------------------------------------------------------
(* lock.  Local teardown first, then logout() posts the refresh token of   *)
(* the moment, whichever login it is of, or finds none.                    *)
LockTab(l) ==
  /\ unlocked' = None
  /\ \/ /\ refreshToken # None
        /\ logout'   = [logout EXCEPT ![l] = "posted"]
        /\ captured' = [captured EXCEPT ![l] = refreshToken]
        /\ UNCHANGED <<tokens, stray>>
     \/ /\ refreshToken = None
        /\ ClearToken
        /\ UNCHANGED <<logout, captured>>
  /\ UNCHANGED <<opening, bearer, awaited, refresh, posted, server>>

\* The button or the idle timer.
Lock ==
  /\ unlocked # None
  /\ LockTab(unlocked)
  /\ UNCHANGED <<call, crossed>>

(* changePassword hears that it succeeded, and locks the tab it finds: the *)
(* one it was called in, a locked one, or one that is opening or open for  *)
(* a later login.                                                          *)
ChangeAnswered(c) ==
  /\ call[c] = "changed"
  /\ LockTab(c)
  /\ call'    = [call EXCEPT ![c] = "done"]
  /\ crossed' = IF opening # None THEN opening ELSE crossed

\* Mutation of LogoutSettles: a failed request keeps the tokens.
LogoutKeepsTokens(l) ==
  /\ LoggingOut(l)
  /\ logout' = [logout EXCEPT ![l] = IF @ = "served" THEN "ended" ELSE "unheard"]
  /\ captured' = [captured EXCEPT ![l] = IF logout[l] = "served" THEN None ELSE @]
  /\ IF logout[l] = "served" THEN ClearToken ELSE UNCHANGED <<tokens, stray>>
  /\ crossed' = IF captured[l].session # Tenant THEN Tenant ELSE crossed
  /\ UNCHANGED <<login, calls, refresh, posted, server>>

(* The logout was answered, or failed: the tokens are cleared all the same. *)
LogoutSettles(l) ==
  /\ LoggingOut(l)
  /\ logout' = [logout EXCEPT ![l] = IF @ = "served" THEN "ended" ELSE "unheard"]
  /\ captured' = [captured EXCEPT ![l] = IF logout[l] = "served" THEN None ELSE @]
  /\ ClearToken
  /\ crossed' = IF captured[l].session # Tenant THEN Tenant ELSE crossed
  /\ UNCHANGED <<login, calls, refresh, posted, server>>

-----------------------------------------------------------------------------
(* The server.  A refresh rotates the family's unspent token; a spent one  *)
(* kills the family; a rate limit answers without looking.  A request the   *)
(* tab has given up may still arrive.                                      *)
ServeRefresh(p) ==
  LET t == posted[p]
      Answer(a) ==
        /\ refresh' = [refresh EXCEPT ![p] = IF @ = "posted" THEN a ELSE "settled"]
        /\ posted'  = [posted EXCEPT ![p] = IF refresh[p] = "posted" THEN @ ELSE None]
  IN
  /\ refresh[p] \in {"posted", "abandoned"}
  /\ \/ /\ t.session \notin dead /\ t.n = current[t.session]
        /\ current' = [current EXCEPT ![t.session] = @ + 1]
        /\ Answer("rotated")
        /\ UNCHANGED <<dead, reused>>
     \/ /\ t.session \notin dead /\ t.n < current[t.session]
        /\ dead' = dead \cup {t.session} /\ reused' = reused \cup {t.session}
        /\ Answer("denied")
        /\ UNCHANGED current
     \/ /\ Answer("denied")
        /\ UNCHANGED <<current, dead, reused>>
  /\ UNCHANGED <<tokens, login, calls, logout, captured, expired, stray, crossed>>

ServeLogout(l) ==
  /\ logout[l] \in {"posted", "unheard"}
  /\ logout' = [logout EXCEPT ![l] = IF @ = "posted" THEN "served" ELSE "ended"]
  /\ captured' = [captured EXCEPT ![l] = IF logout[l] = "posted" THEN @ ELSE None]
  /\ dead' = dead \cup {captured[l].session}
  /\ UNCHANGED <<tokens, login, calls, refresh, posted, current, expired,
                 reused, stray, crossed>>

\* A password change commits: the sessions of the account are dead.  The logins of
\* the tab are taken to be of one account.
ServeChange(c) ==
  /\ c \in Change /\ Outstanding(c) /\ Accepted(c)
  /\ call' = [call EXCEPT ![c] = "changed"]
  /\ bearer' = [bearer EXCEPT ![c] = None]
  /\ dead' = {s \in Session : current[s] # None}
  /\ UNCHANGED <<tokens, login, awaited, refresh, posted, logout, captured, current,
                 expired, reused, stray, crossed>>

\* Ten minutes pass: the access tokens issued so far are no good any more.
ExpireAccess ==
  /\ expired' = UNION {[session : {s}, n : 0 .. current[s]] : s \in {x \in Session : current[x] # None}}
  /\ expired' # expired
  /\ UNCHANGED <<tokens, login, calls, refresh, posted, logout, captured, current, dead,
                 reused, stray, crossed>>

Finished ==
  /\ Locked /\ Quiescent
  /\ \A s \in Session : current[s] # None
  /\ \A c \in Call : call[c] \in {"idle", "done", "failed"}
  /\ UNCHANGED vars

-----------------------------------------------------------------------------
\* What ends by itself: a derivation, and every fetch, which is answered or fails.
Step(c) ==
  \/ Send(c)
  \/ Answered(c) \/ ChangeAnswered(c) \/ NetworkError(c) \/ GivesUp(c) \/ Unauthorized(c)
  \/ SettleOk(c) \/ SettleFail(c)

Next ==
  \/ \E s \in Session : Login(s)
  \/ \E l \in Logout : ServeLogout(l) \/ LogoutSettles(l)
  \/ \E c \in Call : Begin(c) \/ Step(c) \/ ServeRefresh(c) \/ ServeChange(c)
  \/ Unlock \/ UnlockFails \/ Lock \/ ExpireAccess \/ Finished

Spec == Init /\ [][Next]_vars

\* The browser reports every fetch as answered or failed.  Nothing makes the
\* user log in, lock or call, or a token expire.
Fairness == \A c \in Call : WF_vars(Step(c))
FairSpec == Spec /\ Fairness

-----------------------------------------------------------------------------
(* Properties *)

\* Every variable holds what the code keeps there.
TypeOK ==
  /\ {accessToken, refreshToken} \subseteq Token \cup {None}
  /\ refreshInFlight \in Call \cup {None}
  /\ {opening, unlocked} \subseteq Session \cup {None}
  /\ opening = None \/ unlocked = None
  /\ call \in [Call -> {"idle", "begun", "sent", "waiting", "resent", "changed", "done", "failed"}]
  /\ bearer \in [Call -> Token \cup {None}]
  /\ awaited \in [Call -> Call \cup {None}]
  /\ refresh \in [Call -> {"none", "posted", "rotated", "denied", "abandoned", "settled"}]
  /\ posted \in [Call -> Token \cup {None}]
  /\ logout \in [Logout -> {"none", "posted", "served", "ended", "unheard"}]
  /\ captured \in [Logout -> Token \cup {None}]
  /\ current \in [Session -> Nat \cup {None}]
  /\ dead \subseteq Session /\ reused \subseteq dead
  /\ expired \subseteq Token
  /\ stray \in BOOLEAN
  /\ crossed \in Session \cup {None}
  /\ \A p \in Call : Pending(p) => posted[p] \in Token
  /\ \A l \in Logout : LoggingOut(l) \/ logout[l] = "unheard" => captured[l] \in Token
  /\ \A c \in Call : call[c] = "changed" => c \in Change

\* refreshOnce: "One rotation, one new token, no false positive."  However many
\* calls are refused at once, whatever is cleared, lost or limited meanwhile and
\* however late the answers of earlier sessions, the tab never posts a refresh
\* token a second time after it was spent.
NoFalsePositive == reused = {}

\* An unlocked tab holds the tokens of its own login until it locks.  There are
\* three ways to lose them and stay open: the late answer to a refresh or a logout
\* of an earlier login; a refresh that fails while the login is being opened; the
\* late answer to a password change that locks the tab then.
TokensFollowSession ==
  unlocked # None /\ unlocked # crossed =>
    refreshToken # None /\ refreshToken.session = unlocked

\* ... and they are what the server will take: unless a refresh of that session is
\* under way, the tab's next one is not a reuse.
NextRefreshWorks ==
  /\ unlocked # None /\ unlocked # crossed /\ unlocked \notin dead
  /\ \A p \in Call : Pending(p) => posted[p].session # unlocked
  => refreshToken # None /\ refreshToken.n = current[unlocked]

\* Locked, and nothing in flight: no token is left, even if the logout failed;
\* unless the last refresh to settle found the tokens cleared and brought its own,
\* or the last login did not open.
NothingKept == Locked /\ Quiescent /\ ~stray => accessToken = None /\ refreshToken = None

\* Every call is answered or fails, those that wait for another call's refresh
\* and those whose tab was locked meanwhile included.
EveryCallEnds ==
  \A c \in Call : call[c] = "begun" ~> call[c] \in {"done", "failed"}
=============================================================================
