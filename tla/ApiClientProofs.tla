-------------------------- MODULE ApiClientProofs --------------------------
(***************************************************************************)
(* Proofs about ApiClient, for any number of calls, password changes among *)
(* them, and any number of logins of the tab, one after the other.         *)
(***************************************************************************)
EXTENDS ApiClient, TLAPS

\* A refresh whose token is used up from the tab's point of view: it has not
\* settled, or its request may still reach the server.
InFlight(p) == Pending(p) \/ refresh[p] = "abandoned"

\* A call starts one refresh at most, when it is first refused.
StartsOnce == \A c \in Call : call[c] \in {"idle", "begun", "sent"} => refresh[c] = "none"

\* Tokens are of sessions that were opened.
Known ==
  /\ refreshToken # None => current[refreshToken.session] \in Nat
  /\ \A p \in Call : InFlight(p) =>
       posted[p] \in Token /\ current[posted[p].session] \in Nat
  /\ \A l \in Logout : LoggingOut(l) => current[captured[l].session] \in Nat

\* The slot holds a refresh that has not settled.
SlotPending == refreshInFlight # None => Pending(refreshInFlight)

\* A session is in one pair of hands: the tab's token, or one refresh in flight.
\* The tab keeps the token it has posted only as long as its refresh has the slot.
OneHolder ==
  /\ \A p \in Call :
       InFlight(p) /\ refreshToken # None /\ refreshToken.session = posted[p].session
         => refreshToken = posted[p] /\ refreshInFlight = p
  /\ \A p, q \in Call :
       InFlight(p) /\ InFlight(q) /\ p # q => posted[p].session # posted[q].session

\* What is in those hands is unspent until the server has seen it.
Unspent ==
  /\ \A p \in Call : refresh[p] \in {"posted", "abandoned"} =>
       posted[p].n = current[posted[p].session]
  /\ \A p \in Call : refresh[p] = "rotated" =>
       posted[p].n + 1 = current[posted[p].session]
  /\ /\ refreshToken # None
     /\ \A p \in Call : InFlight(p) => posted[p].session # refreshToken.session
     => refreshToken.n = current[refreshToken.session]

\* Until another session crosses it, the tab's login has its own tokens, and no
\* logout of it is under way: one that is was posted by a password change, while the
\* login was being opened.
TenantHolds ==
  Tenant # None =>
    /\ Tenant # crossed => refreshToken # None /\ refreshToken.session = Tenant
    /\ \A l \in Logout : LoggingOut(l) /\ captured[l].session = Tenant => crossed = Tenant

\* While a token is left in a locked tab, or the slot may bring one, a logout is on
\* its way.
LogoutUnderWay ==
  Locked /\ ~stray /\ (accessToken # None \/ refreshToken # None \/ refreshInFlight # None)
    => \E l \in Logout : LoggingOut(l)

IInv ==
  /\ TypeOK /\ StartsOnce /\ Known /\ SlotPending /\ OneHolder /\ Unspent /\ NoFalsePositive
  /\ TenantHolds /\ LogoutUnderWay

-----------------------------------------------------------------------------
LEMMA Kinds ==
  /\ None \notin Token /\ None \notin Session /\ None \notin Call /\ None \notin Nat
  /\ \A t \in Token : t.session \in Session /\ t.n \in Nat
  /\ \A t \in Token : [t EXCEPT !.n = @ + 1] \in Token
                      /\ [t EXCEPT !.n = @ + 1].session = t.session
                      /\ [t EXCEPT !.n = @ + 1].n = t.n + 1
BY NoneAssumption DEF Token

LEMMA InitInv == Init => IInv
<1> SUFFICES ASSUME Init
             PROVE  IInv
  OBVIOUS
<1> USE DEF Init
<1>1. \A p \in Call : refresh[p] = "none" /\ ~Pending(p) /\ ~InFlight(p)
  BY DEF InFlight, Pending
<1>2. \A l \in Logout : ~LoggingOut(l)
  BY DEF LoggingOut
<1>3. TypeOK
  BY <1>1, <1>2, Kinds DEF TypeOK
<1>4. StartsOnce /\ Known /\ SlotPending /\ OneHolder /\ Unspent /\ NoFalsePositive
  BY <1>1, <1>2 DEF StartsOnce, Known, SlotPending, OneHolder, Unspent, NoFalsePositive
<1>5. TenantHolds /\ LogoutUnderWay
  BY DEF TenantHolds, LogoutUnderWay, Tenant
<1> QED
  BY <1>3, <1>4, <1>5 DEF IInv

\* The steps that leave the tokens, the refreshes and the logouts alone.
LEMMA QuietInv ==
  ASSUME IInv, \/ \E c \in Call : \/ Begin(c) \/ Send(c) \/ ServeChange(c)
                                  \/ \E h \in {"done", "failed"} : End(c, h)
               \/ Unlock \/ UnlockFails \/ ExpireAccess \/ UNCHANGED vars
  PROVE  IInv'
<1>1. UNCHANGED <<tokens, awaited, refresh, posted, logout, captured, current, reused, crossed>>
  BY DEF Begin, Send, ServeChange, End, Unlock, UnlockFails, ExpireAccess, vars, tokens, calls,
         login, server
<1>2. /\ {opening', unlocked'} \subseteq Session \cup {None}
      /\ opening' = None \/ unlocked' = None
      /\ stray' \in BOOLEAN
      /\ Tenant' # None => Tenant' = Tenant
      /\ Locked' /\ ~stray' => Locked /\ ~stray
  <2>1. CASE Unlock
    BY <2>1, Kinds DEF IInv, TypeOK, Unlock, Locked, Tenant
  <2>2. CASE UnlockFails
    BY <2>2, Kinds DEF IInv, TypeOK, UnlockFails, Locked, Tenant
  <2>3. CASE UNCHANGED <<login, stray>>
    BY <2>3 DEF IInv, TypeOK, login, Locked, Tenant
  <2> QED
    BY <2>1, <2>2, <2>3 DEF Begin, Send, ServeChange, End, ExpireAccess, vars
<1>3. /\ call' \in [Call -> {"idle", "begun", "sent", "waiting", "resent", "changed", "done",
                             "failed"}]
      /\ bearer' \in [Call -> Token \cup {None}]
      /\ \A c \in Call : call'[c] = "changed" => c \in Change
  BY DEF IInv, TypeOK, Begin, Send, ServeChange, End, Unlock, UnlockFails, ExpireAccess, vars,
         tokens, calls, login, server
<1>4. expired' \subseteq Token
  <2>1. CASE ExpireAccess
    <3>1. \A s \in Session : current[s] # None => 0 .. current[s] \subseteq Nat
      BY DEF IInv, TypeOK
    <3> QED
      BY <2>1, <3>1 DEF ExpireAccess, Token
  <2> QED
    BY <2>1 DEF IInv, TypeOK, Begin, Send, ServeChange, End, Unlock, UnlockFails, vars, calls,
                server
<1>5. dead' \subseteq Session /\ reused' \subseteq dead'
  BY <1>1 DEF IInv, TypeOK, NoFalsePositive, Begin, Send, ServeChange, End, Unlock, UnlockFails,
              ExpireAccess, vars, server
<1>6. TypeOK'
  BY <1>1, <1>2, <1>3, <1>4, <1>5 DEF IInv, TypeOK, tokens, Pending, LoggingOut
<1>7. StartsOnce'
  <2>1. \A c \in Call : call'[c] \in {"idle", "begun", "sent"} =>
          call[c] \in {"idle", "begun", "sent"}
    BY DEF IInv, TypeOK, Begin, Send, ServeChange, End, Unlock, UnlockFails, ExpireAccess, vars,
           calls
  <2> QED
    BY <1>1, <2>1 DEF IInv, StartsOnce
<1>8. Known' /\ SlotPending' /\ OneHolder' /\ Unspent' /\ NoFalsePositive'
  BY <1>1 DEF IInv, Known, SlotPending, OneHolder, Unspent, NoFalsePositive, tokens, InFlight,
              Pending, LoggingOut
<1>9. TenantHolds' /\ LogoutUnderWay'
  BY <1>1, <1>2 DEF IInv, TenantHolds, LogoutUnderWay, tokens, LoggingOut
<1> QED
  BY <1>6, <1>7, <1>8, <1>9 DEF IInv

LEMMA LoginInv ==
  ASSUME IInv, NEW s \in Session, Login(s)
  PROVE  IInv'
<1> USE Kinds DEF IInv, TypeOK, Login, calls
<1>1. TypeOK' /\ StartsOnce'
  <2>1. [session |-> s, n |-> 0] \in Token
    BY DEF Token
  <2>2. current' \in [Session -> Nat \cup {None}]
    OBVIOUS
  <2>3. \A p \in Call : (Pending(p))' <=> Pending(p)
    BY DEF Pending
  <2>4. \A l \in Logout : (LoggingOut(l))' <=> LoggingOut(l)
    BY DEF LoggingOut
  <2> QED
    BY <2>1, <2>2, <2>3, <2>4 DEF StartsOnce
<1>2. /\ \A x \in Session : x # s => current'[x] = current[x]
      /\ current'[s] = 0 /\ current[s] \notin Nat
  OBVIOUS
<1>3. \A p \in Call : InFlight(p) => posted[p] \in Token /\ posted[p].session # s
  BY <1>2 DEF Known
<1>4. \A p \in Call : (InFlight(p))' <=> InFlight(p)
  BY DEF InFlight, Pending
<1>5. refreshToken' # None /\ refreshToken'.session = s /\ refreshToken'.n = 0
  BY DEF Token
<1>6. \A l \in Logout : /\ (LoggingOut(l))' <=> LoggingOut(l)
                        /\ LoggingOut(l) => captured[l] \in Token /\ captured[l].session # s
  BY <1>2 DEF Known, LoggingOut
<1>7. Known' /\ SlotPending'
  BY <1>2, <1>3, <1>4, <1>5, <1>6 DEF Known, SlotPending, Pending
<1>8. OneHolder' /\ NoFalsePositive'
  BY <1>3, <1>4, <1>5 DEF OneHolder, NoFalsePositive
<1>9. Unspent'
  BY <1>2, <1>3, <1>4, <1>5 DEF Unspent, InFlight, Pending
<1>10. TenantHolds' /\ LogoutUnderWay'
  <2>1. Tenant' = s /\ ~Locked'
    BY DEF Tenant, Locked
  <2> QED
    BY <1>5, <1>6, <2>1 DEF TenantHolds, LogoutUnderWay
<1> QED
  BY <1>1, <1>7, <1>8, <1>9, <1>10

LEMMA UnauthorizedInv ==
  ASSUME IInv, NEW c \in Call, Unauthorized(c)
  PROVE  IInv'
<1> USE Kinds DEF IInv, TypeOK, Unauthorized, server, login
<1>1. TenantHolds'
  BY DEF TenantHolds, Tenant, LoggingOut
<1>2. LogoutUnderWay'
  BY DEF LogoutUnderWay, Locked, Tenant, LoggingOut
<1>3. CASE refreshInFlight # None
  <2>1. UNCHANGED <<refreshInFlight, refresh, posted>> /\ awaited' \in [Call -> Call \cup {None}]
    BY <1>3 DEF RefreshOnce
  <2>2. TypeOK' /\ StartsOnce'
    BY <2>1 DEF Pending, LoggingOut, StartsOnce
  <2>3. Known' /\ SlotPending' /\ OneHolder' /\ Unspent' /\ NoFalsePositive'
    BY <2>1 DEF Known, SlotPending, OneHolder, Unspent, NoFalsePositive, InFlight, Pending,
                LoggingOut
  <2> QED
    BY <1>1, <1>2, <2>2, <2>3
<1>4. CASE refreshInFlight = None
  <2>1. /\ refreshInFlight' = c /\ awaited' = [awaited EXCEPT ![c] = c]
        /\ refresh' = [refresh EXCEPT ![c] = "posted"]
        /\ posted' = [posted EXCEPT ![c] = refreshToken]
        /\ refreshToken \in Token
    BY <1>4 DEF RefreshOnce
  <2>2. \A p \in Call : InFlight(p) => posted[p].session # refreshToken.session
    BY <1>4 DEF OneHolder
  <2>3. refreshToken.n = current[refreshToken.session]
    BY <2>2 DEF Unspent
  <2>4. /\ \A p \in Call : p # c => /\ refresh'[p] = refresh[p] /\ posted'[p] = posted[p]
                                    /\ ((InFlight(p))' <=> InFlight(p))
                                    /\ ((Pending(p))' <=> Pending(p))
        /\ refresh'[c] = "posted" /\ posted'[c] = refreshToken /\ (Pending(c))' /\ (InFlight(c))'
    BY <2>1 DEF InFlight, Pending
  <2>5. TypeOK' /\ StartsOnce'
    BY <2>1, <2>4 DEF Pending, LoggingOut, StartsOnce
  <2>6. Known' /\ SlotPending' /\ NoFalsePositive'
    BY <2>1, <2>4 DEF Known, SlotPending, NoFalsePositive, LoggingOut
  <2>7. OneHolder'
    BY <2>1, <2>2, <2>4 DEF OneHolder
  <2>8. Unspent'
    BY <2>1, <2>2, <2>3, <2>4 DEF Unspent
  <2> QED
    BY <1>1, <1>2, <2>5, <2>6, <2>7, <2>8
<1> QED
  BY <1>3, <1>4

LEMMA SettleOkInv ==
  ASSUME IInv, NEW p \in Call, SettleOk(p)
  PROVE  IInv'
<1> USE Kinds DEF IInv, TypeOK, SettleOk, Forget, server, login
<1> DEFINE next == [posted[p] EXCEPT !.n = @ + 1]
<1>1. /\ posted[p] \in Token /\ next \in Token
      /\ next.session = posted[p].session /\ next.n = current[next.session]
      /\ refreshToken' = next /\ accessToken' = next
  BY DEF Pending, Unspent
<1> HIDE DEF next
<1>2. \A q \in Call : /\ (InFlight(q))' <=> InFlight(q) /\ q # p
                      /\ (Pending(q))' <=> Pending(q) /\ q # p
                      /\ q # p => refresh'[q] = refresh[q] /\ posted'[q] = posted[q]
  BY DEF InFlight, Pending
<1>3. InFlight(p) /\ Pending(p) /\ refresh'[p] = "settled"
  BY DEF InFlight, Pending
<1>4. \A q \in Call : InFlight(q) /\ q # p => posted[q].session # next.session
  BY <1>1, <1>3 DEF OneHolder
<1>5. Tenant' = Tenant /\ Tenant \in Session \cup {None}
  BY DEF Tenant
<1>6. TypeOK'
  <2>1. bearer' = [c \in Call |-> IF Awaits(c, p) THEN next ELSE bearer[c]]
    BY DEF next
  <2>2. /\ call' \in [Call -> {"idle", "begun", "sent", "waiting", "resent", "changed", "done",
                               "failed"}]
        /\ \A c \in Call : call'[c] = "changed" => c \in Change
    OBVIOUS
  <2>3. /\ awaited' \in [Call -> Call \cup {None}] /\ posted' \in [Call -> Token \cup {None}]
        /\ stray' \in BOOLEAN /\ crossed' \in Session \cup {None}
    BY <1>5
  <2>4. \A q \in Call : (Pending(q))' => posted'[q] \in Token
    BY <1>2
  <2> QED
    BY <1>1, <2>1, <2>2, <2>3, <2>4 DEF LoggingOut
<1>7. StartsOnce'
  BY <1>2 DEF StartsOnce, Awaits
<1>8. Known' /\ SlotPending' /\ NoFalsePositive'
  BY <1>1, <1>2, <1>3 DEF Known, SlotPending, NoFalsePositive, LoggingOut
<1>9. OneHolder'
  BY <1>1, <1>2, <1>4 DEF OneHolder
<1>10. Unspent'
  BY <1>1, <1>2, <1>3 DEF Unspent
<1>11. TenantHolds'
  BY <1>1, <1>5 DEF TenantHolds, LoggingOut
<1>12. LogoutUnderWay'
  BY <1>5 DEF LogoutUnderWay, LoggingOut, Locked
<1> QED
  BY <1>6, <1>7, <1>8, <1>9, <1>10, <1>11, <1>12

LEMMA SettleFailInv ==
  ASSUME IInv, NEW p \in Call, SettleFail(p)
  PROVE  IInv'
<1> USE Kinds DEF IInv, TypeOK, SettleFail, Forget, ClearToken, server
<1>1. \A q \in Call : /\ (InFlight(q))' => InFlight(q) /\ posted'[q] = posted[q]
                      /\ (Pending(q))' <=> Pending(q) /\ q # p
                      /\ q # p => refresh'[q] = refresh[q] /\ posted'[q] = posted[q]
  BY DEF InFlight, Pending
<1>2. /\ refresh[p] = "posted" => refresh'[p] = "abandoned" /\ posted'[p] = posted[p]
      /\ refresh[p] # "posted" => refresh'[p] = "settled"
  OBVIOUS
<1>3. TypeOK'
  <2>1. /\ call' \in [Call -> {"idle", "begun", "sent", "waiting", "resent", "changed", "done",
                               "failed"}]
        /\ \A c \in Call : call'[c] = "changed" => c \in Change
    OBVIOUS
  <2> QED
    BY <1>1, <2>1 DEF LoggingOut
<1>4. StartsOnce'
  BY <1>1 DEF StartsOnce, Awaits, Pending
<1>5. Known' /\ SlotPending' /\ NoFalsePositive'
  BY <1>1 DEF Known, SlotPending, NoFalsePositive, LoggingOut
<1>6. OneHolder' /\ Unspent'
  BY <1>1, <1>2 DEF OneHolder, Unspent
<1>7. TenantHolds' /\ LogoutUnderWay'
  BY DEF TenantHolds, LogoutUnderWay, Tenant
<1> QED
  BY <1>3, <1>4, <1>5, <1>6, <1>7

\* lock, for whichever reason.
LEMMA LockTabInv ==
  ASSUME IInv, NEW l \in Logout, LockTab(l),
         call' = call \/ (\E c \in Call : call' = [call EXCEPT ![c] = "done"]),
         crossed' = IF opening # None THEN opening ELSE crossed
  PROVE  IInv'
<1> USE Kinds DEF IInv, TypeOK, LockTab, ClearToken, server
<1>1. \A q \in Call : /\ (InFlight(q))' <=> InFlight(q)
                      /\ (Pending(q))' <=> Pending(q)
  BY DEF InFlight, Pending
<1>2. /\ call' \in [Call -> {"idle", "begun", "sent", "waiting", "resent", "changed", "done",
                             "failed"}]
      /\ \A c \in Call : call'[c] = "changed" => c \in Change
      /\ \A c \in Call : call'[c] \in {"idle", "begun", "sent"} =>
           call[c] \in {"idle", "begun", "sent"}
  OBVIOUS
<1>3. Tenant' = opening /\ (opening # None => crossed' = opening)
  BY DEF Tenant
<1>4. TenantHolds'
  BY <1>3 DEF TenantHolds
<1>5. StartsOnce'
  BY <1>2 DEF StartsOnce
<1>6. CASE refreshToken = None
  <2>1. /\ refreshToken' = None /\ accessToken' = None /\ refreshInFlight' = None
        /\ stray' = FALSE
        /\ UNCHANGED <<logout, captured>>
    BY <1>6
  <2>2. TypeOK'
    <3>1. \A k \in Logout : (LoggingOut(k))' <=> LoggingOut(k)
      BY <2>1 DEF LoggingOut
    <3>2. crossed' \in Session \cup {None}
      OBVIOUS
    <3> QED
      BY <1>1, <1>2, <2>1, <3>1, <3>2
  <2>3. Known' /\ SlotPending' /\ OneHolder' /\ Unspent' /\ NoFalsePositive'
    BY <1>1, <2>1 DEF Known, SlotPending, OneHolder, Unspent, NoFalsePositive, LoggingOut
  <2>4. LogoutUnderWay'
    BY <2>1 DEF LogoutUnderWay
  <2> QED
    BY <1>4, <1>5, <2>2, <2>3, <2>4
<1>7. CASE refreshToken # None
  <2>1. /\ UNCHANGED <<tokens, stray>>
        /\ logout' = [logout EXCEPT ![l] = "posted"]
        /\ captured' = [captured EXCEPT ![l] = refreshToken]
        /\ refreshToken \in Token
    BY <1>7
  <2>2. TypeOK'
    BY <1>1, <1>2, <2>1 DEF LoggingOut, tokens
  <2>3. Known' /\ SlotPending' /\ OneHolder' /\ Unspent' /\ NoFalsePositive'
    BY <1>1, <2>1 DEF Known, SlotPending, OneHolder, Unspent, NoFalsePositive, tokens, LoggingOut
  <2>4. LogoutUnderWay'
    BY <2>1 DEF LogoutUnderWay, LoggingOut
  <2> QED
    BY <1>4, <1>5, <2>2, <2>3, <2>4
<1> QED
  BY <1>6, <1>7

LEMMA LockInv ==
  ASSUME IInv, Lock \/ \E c \in Call : ChangeAnswered(c)
  PROVE  IInv'
<1>1. CASE Lock
  BY <1>1, LockTabInv DEF Lock, Logout, IInv, TypeOK
<1>2. ASSUME NEW c \in Call, ChangeAnswered(c)
      PROVE  IInv'
  <2>1. c \in Logout
    BY <1>2 DEF ChangeAnswered, Logout, IInv, TypeOK
  <2> QED
    BY <1>2, <2>1, LockTabInv DEF ChangeAnswered
<1> QED
  BY <1>1, <1>2

LEMMA LogoutSettlesInv ==
  ASSUME IInv, NEW l \in Logout, LogoutSettles(l)
  PROVE  IInv'
<1> USE Kinds DEF IInv, TypeOK, LogoutSettles, ClearToken, server, calls, login
<1>1. \A q \in Call : /\ (InFlight(q))' <=> InFlight(q)
                      /\ (Pending(q))' <=> Pending(q)
  BY DEF InFlight, Pending
<1>2. \A k \in Logout : (LoggingOut(k))' => /\ LoggingOut(k) /\ k # l
                                            /\ logout'[k] = logout[k] /\ captured'[k] = captured[k]
  BY DEF LoggingOut
<1>3. Tenant' = Tenant /\ Tenant \in Session \cup {None}
  BY DEF Tenant
<1>4. TypeOK' /\ StartsOnce'
  BY <1>1, <1>3 DEF LoggingOut, StartsOnce
<1>5. Known' /\ SlotPending' /\ OneHolder' /\ Unspent' /\ NoFalsePositive'
  BY <1>1, <1>2 DEF Known, SlotPending, OneHolder, Unspent, NoFalsePositive
<1>6. TenantHolds' /\ LogoutUnderWay'
  BY <1>2, <1>3 DEF TenantHolds, LogoutUnderWay
<1> QED
  BY <1>4, <1>5, <1>6

-----------------------------------------------------------------------------
LEMMA ServeRefreshInv ==
  ASSUME IInv, NEW p \in Call, ServeRefresh(p)
  PROVE  IInv'
<1> USE Kinds DEF IInv, TypeOK, ServeRefresh, tokens, calls, login
<1> DEFINE s == posted[p].session
<1>1. InFlight(p) /\ posted[p] \in Token /\ posted[p].n = current[s] /\ s \in Session
  BY DEF InFlight, Pending, Known, Unspent
<1>2. /\ UNCHANGED <<dead, reused>>
      /\ \/ /\ current' = [current EXCEPT ![s] = @ + 1]
            /\ refresh' = [refresh EXCEPT ![p] = IF @ = "posted" THEN "rotated" ELSE "settled"]
         \/ /\ current' = current
            /\ refresh' = [refresh EXCEPT ![p] = IF @ = "posted" THEN "denied" ELSE "settled"]
      /\ posted' = [posted EXCEPT ![p] = IF refresh[p] = "posted" THEN @ ELSE None]
  BY <1>1
<1>3. \A q \in Call : /\ (InFlight(q))' => InFlight(q) /\ posted'[q] = posted[q]
                      /\ (Pending(q))' <=> Pending(q)
                      /\ q # p => refresh'[q] = refresh[q] /\ posted'[q] = posted[q]
                      /\ refresh[q] = "none" => refresh'[q] = "none"
                      /\ q # p => ((InFlight(q))' <=> InFlight(q))
  BY <1>2 DEF InFlight, Pending
<1>4. /\ \A x \in Session : current[x] \in Nat => current'[x] \in Nat
      /\ \A x \in Session : x # s => current'[x] = current[x]
      /\ current'[s] \in {current[s], current[s] + 1}
      /\ current' \in [Session -> Nat \cup {None}]
  BY <1>1, <1>2
<1>5. TypeOK' /\ StartsOnce'
  <2>1. refresh' \in [Call -> {"none", "posted", "rotated", "denied", "abandoned", "settled"}]
        /\ posted' \in [Call -> Token \cup {None}]
    BY <1>2
  <2>2. \A q \in Call : (Pending(q))' => (InFlight(q))' /\ Pending(q)
    BY <1>3 DEF InFlight
  <2>3. \A q \in Call : (Pending(q))' => posted'[q] \in Token
    BY <1>3, <2>2
  <2>4. \A k \in Logout : (LoggingOut(k))' <=> LoggingOut(k)
    BY DEF LoggingOut
  <2> QED
    BY <1>2, <1>3, <1>4, <2>1, <2>3, <2>4 DEF StartsOnce
<1>6. Known' /\ SlotPending' /\ OneHolder' /\ NoFalsePositive'
  BY <1>2, <1>3, <1>4 DEF Known, SlotPending, OneHolder, NoFalsePositive, LoggingOut
<1>7. Unspent'
  <2>1. \A q \in Call : InFlight(q) /\ q # p =>
          posted[q].session \in Session /\ current'[posted[q].session] = current[posted[q].session]
    BY <1>1, <1>4 DEF OneHolder, Known
  <2>2. ASSUME NEW q \in Call, refresh'[q] \in {"posted", "abandoned"}
        PROVE  posted'[q].n = current'[posted'[q].session]
    <3>1. q # p
      BY <1>2, <2>2
    <3> QED
      BY <1>3, <2>1, <2>2, <3>1 DEF Unspent, InFlight, Pending
  <2>3. ASSUME NEW q \in Call, refresh'[q] = "rotated"
        PROVE  posted'[q].n + 1 = current'[posted'[q].session]
    <3>1. CASE q = p
      BY <1>1, <1>2, <2>3, <3>1
    <3>2. CASE q # p
      BY <1>3, <2>1, <2>3, <3>2 DEF Unspent, InFlight, Pending
    <3> QED
      BY <3>1, <3>2
  <2>4. ASSUME refreshToken # None,
               \A q \in Call : (InFlight(q))' => posted'[q].session # refreshToken.session
        PROVE  refreshToken.n = current'[refreshToken.session]
    <3>1. refreshToken.session # s
      <4>1. SUFFICES ASSUME refreshToken.session = s
                     PROVE  FALSE
        OBVIOUS
      <4>2. refreshInFlight = p
        BY <1>1, <2>4, <4>1 DEF OneHolder
      <4> QED
        BY <1>3, <2>4, <4>1, <4>2 DEF SlotPending, InFlight
    <3>2. \A q \in Call : InFlight(q) => posted[q].session # refreshToken.session
      BY <1>3, <2>4, <3>1
    <3> QED
      BY <1>4, <2>4, <3>1, <3>2 DEF Unspent
  <2> QED
    BY <2>2, <2>3, <2>4 DEF Unspent
<1>8. TenantHolds' /\ LogoutUnderWay'
  BY DEF TenantHolds, LogoutUnderWay, LoggingOut, Locked, Tenant
<1> QED
  BY <1>5, <1>6, <1>7, <1>8

LEMMA ServeLogoutInv ==
  ASSUME IInv, NEW l \in Logout, ServeLogout(l)
  PROVE  IInv'
<1> USE Kinds DEF IInv, TypeOK, ServeLogout, tokens, calls, login
<1>1. \A k \in Logout : /\ (LoggingOut(k))' <=> LoggingOut(k)
                        /\ LoggingOut(k) => captured'[k] = captured[k]
  BY DEF LoggingOut
<1>2. TypeOK' /\ StartsOnce'
  <2>1. captured[l] \in Token
    BY DEF LoggingOut
  <2> QED
    BY <1>1, <2>1 DEF Pending, StartsOnce
<1>3. Known' /\ SlotPending' /\ OneHolder' /\ Unspent' /\ NoFalsePositive'
  BY <1>1 DEF Known, SlotPending, OneHolder, Unspent, NoFalsePositive, InFlight, Pending
<1>4. TenantHolds' /\ LogoutUnderWay'
  BY <1>1 DEF TenantHolds, LogoutUnderWay, Locked, Tenant
<1> QED
  BY <1>2, <1>3, <1>4

LEMMA StepInv == IInv /\ [Next]_vars => IInv'
<1> SUFFICES ASSUME IInv, [Next]_vars
             PROVE  IInv'
  OBVIOUS
<1>1. ASSUME NEW s \in Session, Login(s)
      PROVE  IInv'
  BY <1>1, LoginInv
<1>2. ASSUME NEW l \in Logout, ServeLogout(l) \/ LogoutSettles(l)
      PROVE  IInv'
  BY <1>2, ServeLogoutInv, LogoutSettlesInv
<1>3. ASSUME NEW c \in Call, Begin(c) \/ Step(c) \/ ServeRefresh(c) \/ ServeChange(c)
      PROVE  IInv'
  <2>1. CASE Begin(c) \/ Send(c) \/ Answered(c) \/ NetworkError(c) \/ GivesUp(c) \/ ServeChange(c)
    BY <2>1, QuietInv DEF Answered, NetworkError, GivesUp
  <2>2. CASE \/ Unauthorized(c) \/ SettleOk(c) \/ SettleFail(c) \/ ServeRefresh(c)
             \/ ChangeAnswered(c)
    BY <2>2, UnauthorizedInv, SettleOkInv, SettleFailInv, ServeRefreshInv, LockInv
  <2> QED
    BY <1>3, <2>1, <2>2 DEF Step
<1>4. CASE Unlock \/ UnlockFails \/ ExpireAccess \/ Finished \/ UNCHANGED vars
  BY <1>4, QuietInv DEF Finished
<1>5. CASE Lock
  BY <1>5, LockInv
<1> QED
  BY <1>1, <1>2, <1>3, <1>4, <1>5 DEF Next

LEMMA Invariance == Spec => []IInv
BY InitInv, StepInv, PTL DEF Spec

-----------------------------------------------------------------------------
(* The client's variables are of their kinds, and a refresh or logout that *)
(* may still reach the server carries a token.                             *)
THEOREM TypeCorrect == Spec => []TypeOK
BY Invariance, PTL DEF IInv

(* client.refreshOnce: the tab never posts a spent refresh token, however  *)
(* its calls, logins, locks and the answers to them interleave.            *)
THEOREM RefreshIsSingle == Spec => []NoFalsePositive
BY Invariance, PTL DEF IInv

(* An unlocked tab holds the tokens of its own login, unless what an       *)
(* earlier login left in flight replaced or cleared them, or a late answer *)
(* cleared them while the login was being opened.                          *)
THEOREM TokensAreOfSession == Spec => []TokensFollowSession
<1>1. IInv => TokensFollowSession
  <2>1. IInv /\ unlocked # None => Tenant = unlocked
    BY DEF IInv, TypeOK, Tenant
  <2> QED
    BY <2>1 DEF IInv, TenantHolds, TokensFollowSession
<1> QED
  BY <1>1, Invariance, PTL

(* ... and while no refresh of that session is under way, its refresh      *)
(* token is the one the server will take.                                  *)
THEOREM TokenIsUnspent == Spec => []NextRefreshWorks
<1>1. ASSUME IInv, unlocked # None, unlocked # crossed,
             \A p \in Call : Pending(p) => posted[p].session # unlocked
      PROVE  refreshToken # None /\ refreshToken.n = current[unlocked]
  <2>1. refreshToken # None /\ refreshToken.session = unlocked
    BY <1>1 DEF IInv, TypeOK, TenantHolds, Tenant
  <2>2. \A p \in Call : InFlight(p) => posted[p].session # refreshToken.session
    <3>1. SUFFICES ASSUME NEW p \in Call, InFlight(p), posted[p].session = refreshToken.session
                   PROVE  FALSE
      OBVIOUS
    <3>2. refreshInFlight = p
      BY <1>1, <2>1, <3>1 DEF IInv, OneHolder
    <3>3. Pending(p)
      BY <1>1, <3>2, Kinds DEF IInv, SlotPending
    <3> QED
      BY <1>1, <2>1, <3>1, <3>3
  <2> QED
    BY <1>1, <2>1, <2>2 DEF IInv, Unspent
<1>2. IInv => NextRefreshWorks
  BY <1>1 DEF NextRefreshWorks
<1> QED
  BY <1>2, Invariance, PTL

(* lock and logout: a locked tab with nothing in flight holds no token,    *)
(* unless a refresh brought its own after they were cleared, or the last   *)
(* login did not open.                                                     *)
THEOREM LockWipes == Spec => []NothingKept
<1>1. IInv => NothingKept
  <2>1. IInv /\ Quiescent => refreshInFlight = None
    BY DEF IInv, TypeOK, SlotPending, Quiescent
  <2> QED
    BY <2>1 DEF IInv, LogoutUnderWay, NothingKept, Quiescent
<1> QED
  BY <1>1, Invariance, PTL
=============================================================================
