------------------------ MODULE RefreshTokensProofs ------------------------
(***************************************************************************)
(* Proofs about RefreshTokens, for any number of tokens, families, users   *)
(* and concurrent requests.                                                *)
(***************************************************************************)
EXTENDS RefreshTokens, TLAPS

-----------------------------------------------------------------------------
(* The parts of the inductive invariant that no run states on its own.     *)

\* A row's identifiers were generated before the row appeared, so a fresh
\* identifier names no row and no family.
RowsIssued ==
  \A t \in Token : Present(t) => t \in issued /\ refresh_tokens[t].family \in issued

\* What a handler read stays true of the row's immutable columns.
SeenAgrees ==
  \A r \in Request :
    pc[r] \in {"claim", "marking", "claimed"} /\ Present(tok[r]) =>
      /\ refresh_tokens[tok[r]].family = seen[r].family
      /\ refresh_tokens[tok[r]].user = seen[r].user
      /\ refresh_tokens[tok[r]].expires = seen[r].expires

SeenIssued ==
  \A r \in Request :
    pc[r] \in {"claim", "marking", "claimed", "revoke"} =>
      tok[r] \in issued /\ seen[r].family \in issued

\* A claimed row is still there and still unspent as far as anybody else sees.
ClaimHolds ==
  \A r \in Request :
    pc[r] = "claimed" => Present(tok[r]) /\ ~refresh_tokens[tok[r]].used

\* The row lock has one holder: who claimed the token, or lost the claim late and
\* revokes.
LockExclusive ==
  /\ \A r \in late : pc[r] \in {"revoke", "revoking"}
  /\ \A r, q \in Request : HoldsLock(r) /\ HoldsLock(q) /\ tok[r] = tok[q] => r = q

\* No refresh works for a family that has ended ...
EndedUndisturbed ==
  \A f \in ended : f \in issued /\ \A q \in Request : ~InFlight(q, f)

\* ... or that a revocation is about to end, and that revocation has selected
\* every row of the family that is not revoked yet.
QuietUndisturbed ==
  \A r \in Request : pc[r] = "revoking" =>
    \A f \in quiet[r] :
      /\ f \in issued
      /\ \A q \in Request : ~InFlight(q, f)
      /\ \A t \in FamilyRows(f) : refresh_tokens[t].revoked \/ t \in target[r]

IInv ==
  /\ TypeOK
  /\ RowsIssued /\ SeenAgrees /\ SeenIssued
  /\ ClaimHolds /\ LockExclusive
  /\ OneUnspentToken /\ NoSlidingSession
  /\ EndedUndisturbed /\ QuietUndisturbed /\ EndedStaysEnded

-----------------------------------------------------------------------------
(* Type correctness *)

LEMMA InitTypeOK == Init => TypeOK
BY SentinelAssumption, TimeAssumption DEF Init, TypeOK, Working, Terminal

LEMMA ArriveTypeOK ==
  ASSUME TypeOK, NEW r \in Request, Arrive(r)
  PROVE  TypeOK'
<1> USE DEF TypeOK, Working, Terminal, Row, Start, Goto, Find, requestVars
<1>1. ASSUME NEW u \in User, NEW f \in Family, NEW t \in Token, Login(r, u, f, t)
      PROVE  TypeOK'
  <2>1. refresh_tokens' \in [Token -> Row \cup {NoRow}]
    BY <1>1, TimeAssumption DEF Login
  <2> QED
    BY <1>1, <2>1 DEF Login, FreshToken, FreshFamily
<1>2. ASSUME NEW t \in Token, RefreshRefused(r, t) \/ RefreshReuse(r, t)
      PROVE  TypeOK'
  BY <1>2 DEF RefreshRefused, RefreshReuse, Present
<1>3. ASSUME NEW t \in Token, RefreshFound(r, t)
      PROVE  TypeOK'
  BY <1>3 DEF RefreshFound, Present, Spendable
<1>4. ASSUME NEW t \in Token, LogoutUnknown(r, t) \/ LogoutFound(r, t)
      PROVE  TypeOK'
  BY <1>4 DEF LogoutUnknown, LogoutFound, Present
<1>5. ASSUME NEW u \in User, RevokeAllForUser(r, u)
      PROVE  TypeOK'
  <2>1. {refresh_tokens[t].family : t \in UserRows(u)} \subseteq Family
    BY DEF UserRows, Present
  <2>2. UserRows(u) \subseteq Token
    BY DEF UserRows
  <2> QED
    BY <1>5, <2>1, <2>2 DEF RevokeAllForUser
<1>6. ASSUME Sweep(r)
      PROVE  TypeOK'
  BY <1>6 DEF Sweep
<1> QED
  BY <1>1, <1>2, <1>3, <1>4, <1>5, <1>6 DEF Arrive

LEMMA StepTypeOK ==
  ASSUME TypeOK, ClaimHolds, NEW r \in Request, Step(r) \/ Fail(r)
  PROVE  TypeOK'
<1> USE DEF TypeOK, Working, Terminal, Row, Goto, Forget, requestVars
<1>1. CASE MarkUsed(r) \/ ClaimMissed(r) \/ ClaimWon(r) \/ ClaimLost(r)
  BY <1>1 DEF MarkUsed, ClaimMissed, ClaimWon, ClaimLost
<1>2. ASSUME NEW c \in Token, Rotate(r, c)
      PROVE  TypeOK'
  <2>1. refresh_tokens[tok[r]] \in Row /\ seen[r] \in Row /\ tok[r] \in Token
    BY <1>2 DEF Rotate, ClaimHolds, Present
  <2>2. [refresh_tokens[tok[r]] EXCEPT !.used = TRUE] \in Row
    BY <2>1
  <2>3. refresh_tokens' \in [Token -> Row \cup {NoRow}]
    BY <1>2, <2>1, <2>2 DEF Rotate
  <2> QED
    BY <1>2, <2>3 DEF Rotate, FreshToken
<1>3. CASE RevokeFamily(r)
  <2>1. FamilyRows(seen[r].family) \subseteq Token
    BY DEF FamilyRows
  <2> QED
    BY <1>3, <2>1 DEF RevokeFamily
<1>4. CASE RevokeCommit(r)
  <2>1. ASSUME NEW row \in Row
        PROVE  [row EXCEPT !.revoked = TRUE] \in Row
    OBVIOUS
  <2>2. refresh_tokens' \in [Token -> Row \cup {NoRow}]
    BY <1>4, <2>1 DEF RevokeCommit, Present
  <2> QED
    BY <1>4, <2>2 DEF RevokeCommit
<1>5. CASE SweepCommit(r)
  BY <1>5 DEF SweepCommit
<1>6. CASE Fail(r)
  BY <1>6 DEF Fail
<1> QED
  BY <1>1, <1>2, <1>3, <1>4, <1>5, <1>6 DEF Step
-----------------------------------------------------------------------------
(* Every action preserves the invariant *)

LEMMA LoginInv ==
  ASSUME IInv, NEW r \in Request, NEW u \in User, NEW f \in Family, NEW t \in Token,
         Login(r, u, f, t)
  PROVE  (RowsIssued /\ SeenAgrees /\ SeenIssued /\ ClaimHolds /\ LockExclusive
          /\ OneUnspentToken /\ NoSlidingSession
          /\ EndedUndisturbed /\ QuietUndisturbed /\ EndedStaysEnded)'
<1> USE DEF IInv, TypeOK
<1> DEFINE new == [family |-> f, user |-> u, expires |-> now + TTL,
                   used |-> FALSE, revoked |-> FALSE]
<1>a. f \notin issued /\ t \notin issued /\ issued' = issued \cup {f, t}
  BY DEF Login, FreshToken, FreshFamily
<1>b. refresh_tokens' = [refresh_tokens EXCEPT ![t] = new]
  BY DEF Login
<1>c. new \in Row /\ new # NoRow
  <2>1. new \in Row
    BY TimeAssumption DEF Row
  <2> QED
    BY <2>1, SentinelAssumption
<1>d. ~Present(t) /\ Present(t)' /\ refresh_tokens'[t] = new
  BY <1>a, <1>b, <1>c DEF RowsIssued, Present
<1>e. \A v \in Token \ {t} : refresh_tokens'[v] = refresh_tokens[v]
  BY <1>b
<1>f. \A v \in Token : Present(v) => refresh_tokens[v].family # f
  BY <1>a DEF RowsIssued
<1>g. \A v \in Token \ {t} : Present(v)' <=> Present(v)
  BY <1>e DEF Present
<1>h. /\ pc[r] = "idle" /\ pc' = [pc EXCEPT ![r] = "ok"]
      /\ UNCHANGED <<tok, seen, late, target, quiet, ended>>
  BY DEF Login, Start, Goto
<1>i. \A q \in Request : pc'[q] \in {"claim", "marking", "claimed"} =>
        /\ pc[q] = pc'[q]
        /\ tok[q] \in Token \ {t}
  BY <1>a, <1>h DEF SeenIssued
<1> HIDE DEF new
<1>1. RowsIssued'
  BY <1>a, <1>d, <1>e, <1>g DEF RowsIssued, new
<1>2. SeenAgrees'
  BY <1>e, <1>g, <1>h, <1>i DEF SeenAgrees
<1>3. SeenIssued'
  BY <1>a, <1>h DEF SeenIssued
<1>4. ClaimHolds'
  BY <1>e, <1>g, <1>h, <1>i DEF ClaimHolds
<1>5. LockExclusive'
  BY <1>h DEF LockExclusive, HoldsLock
<1>6. OneUnspentToken'
  BY <1>d, <1>e, <1>f, <1>g DEF OneUnspentToken, new
<1>7. NoSlidingSession'
  BY <1>d, <1>e, <1>f, <1>g DEF NoSlidingSession, new
<1>8. EndedUndisturbed'
  BY <1>a, <1>h DEF EndedUndisturbed, InFlight
<1>9. QuietUndisturbed'
  BY <1>a, <1>d, <1>e, <1>g, <1>h DEF QuietUndisturbed, InFlight, FamilyRows, new
<1>10. EndedStaysEnded'
  BY <1>a, <1>d, <1>e, <1>g, <1>h DEF EndedStaysEnded, EndedUndisturbed, FamilyRows, new
<1> QED
  BY <1>1, <1>2, <1>3, <1>4, <1>5, <1>6, <1>7, <1>8, <1>9, <1>10

LEMMA RefreshFoundInv ==
  ASSUME IInv, NEW r \in Request, NEW t \in Token,
         RefreshFound(r, t)
  PROVE  (RowsIssued /\ SeenAgrees /\ SeenIssued /\ ClaimHolds /\ LockExclusive
          /\ OneUnspentToken /\ NoSlidingSession
          /\ EndedUndisturbed /\ QuietUndisturbed /\ EndedStaysEnded)'
<1> USE DEF IInv, TypeOK
<1>1. RowsIssued'
  BY DEF RowsIssued, Present, RefreshFound, Start, Goto, Find, Spendable
<1>2. SeenAgrees'
  BY DEF SeenAgrees, Present, RefreshFound, Start, Goto, Find, Spendable
<1>3. SeenIssued'
  BY DEF SeenIssued, RowsIssued, Present, RefreshFound, Start, Goto, Find, Spendable
<1>4. ClaimHolds'
  BY DEF ClaimHolds, Present, Locked, HoldsLock, RefreshFound, Start, Goto, Find, Spendable
<1>5. LockExclusive'
  BY DEF LockExclusive, HoldsLock, Locked, RefreshFound, Start, Goto, Find, Spendable
<1>6. OneUnspentToken'
  BY DEF OneUnspentToken, Present, RefreshFound, Start, Goto, Find, Spendable
<1>7. NoSlidingSession'
  BY DEF NoSlidingSession, Present, RefreshFound, Start, Goto, Find, Spendable
<1>8. EndedUndisturbed'
  <2>1. refresh_tokens[t].family \notin ended
    BY DEF RefreshFound, Spendable, EndedStaysEnded, FamilyRows
  <2> QED
    BY <2>1 DEF EndedUndisturbed, InFlight, RefreshFound, Start, Goto, Find
<1>9. QuietUndisturbed'
  BY DEF QuietUndisturbed, InFlight, FamilyRows, Present, RefreshFound, Start, Goto, Find, Spendable
<1>10. EndedStaysEnded'
  BY DEF EndedStaysEnded, FamilyRows, Present, RefreshFound, Start, Goto, Find, Spendable
<1> QED
  BY <1>1, <1>2, <1>3, <1>4, <1>5, <1>6, <1>7, <1>8, <1>9, <1>10

LEMMA ClaimInv ==
  ASSUME IInv, NEW r \in Request,
         MarkUsed(r) \/ ClaimMissed(r) \/ ClaimWon(r) \/ ClaimLost(r)
  PROVE  (RowsIssued /\ SeenAgrees /\ SeenIssued /\ ClaimHolds /\ LockExclusive
          /\ OneUnspentToken /\ NoSlidingSession
          /\ EndedUndisturbed /\ QuietUndisturbed /\ EndedStaysEnded)'
<1> USE DEF IInv, TypeOK
<1>1. RowsIssued'
  BY DEF RowsIssued, Present, MarkUsed, ClaimMissed, ClaimWon, ClaimLost, Goto
<1>2. SeenAgrees'
  BY DEF SeenAgrees, Present, MarkUsed, ClaimMissed, ClaimWon, ClaimLost, Goto
<1>3. SeenIssued'
  BY DEF SeenIssued, RowsIssued, Present, MarkUsed, ClaimMissed, ClaimWon, ClaimLost, Goto
<1>4. ClaimHolds'
  BY DEF ClaimHolds, Present, Locked, HoldsLock, MarkUsed, ClaimMissed, ClaimWon, ClaimLost, Goto
<1>5. LockExclusive'
  BY DEF LockExclusive, HoldsLock, Locked, MarkUsed, ClaimMissed, ClaimWon, ClaimLost, Goto
<1>6. OneUnspentToken'
  BY DEF OneUnspentToken, Present, MarkUsed, ClaimMissed, ClaimWon, ClaimLost, Goto
<1>7. NoSlidingSession'
  BY DEF NoSlidingSession, Present, MarkUsed, ClaimMissed, ClaimWon, ClaimLost, Goto
<1>8. EndedUndisturbed'
  BY DEF EndedUndisturbed, InFlight, MarkUsed, ClaimMissed, ClaimWon, ClaimLost, Goto
<1>9. QuietUndisturbed'
  BY DEF QuietUndisturbed, InFlight, FamilyRows, Present, MarkUsed, ClaimMissed, ClaimWon, ClaimLost, Goto
<1>10. EndedStaysEnded'
  BY DEF EndedStaysEnded, FamilyRows, Present, MarkUsed, ClaimMissed, ClaimWon, ClaimLost, Goto
<1> QED
  BY <1>1, <1>2, <1>3, <1>4, <1>5, <1>6, <1>7, <1>8, <1>9, <1>10

LEMMA RotateInv ==
  ASSUME IInv, NEW r \in Request, NEW c \in Token,
         Rotate(r, c)
  PROVE  (RowsIssued /\ SeenAgrees /\ SeenIssued /\ ClaimHolds /\ LockExclusive
          /\ OneUnspentToken /\ NoSlidingSession
          /\ EndedUndisturbed /\ QuietUndisturbed /\ EndedStaysEnded)'
<1> USE DEF IInv, TypeOK
<1> DEFINE old == refresh_tokens[tok[r]]
           spent == [old EXCEPT !.used = TRUE]
           new == [family |-> seen[r].family, user |-> seen[r].user,
                   expires |-> seen[r].expires, used |-> FALSE, revoked |-> FALSE]
<1>a. /\ pc[r] = "claimed" /\ pc' = [pc EXCEPT ![r] = "ok"]
      /\ c \notin issued /\ issued' = issued \cup {c}
      /\ UNCHANGED <<tok, seen, late, target, quiet, ended>>
  BY DEF Rotate, Goto, FreshToken
<1>b. tok[r] \in Token /\ seen[r] \in Row /\ Present(tok[r]) /\ old \in Row /\ ~old.used
  BY <1>a DEF ClaimHolds, Present
<1>c. old.family = new.family /\ old.user = new.user /\ old.expires = new.expires
  BY <1>a, <1>b DEF SeenAgrees
<1>d. ~Present(c) /\ c # tok[r]
  BY <1>a, <1>b DEF RowsIssued
<1>e. new \in Row /\ new # NoRow /\ ~new.used
  <2>1. new \in Row /\ ~new.used
    BY <1>b DEF Row
  <2> QED
    BY <2>1, SentinelAssumption
<1>f. /\ spent \in Row /\ spent # NoRow /\ spent.used
      /\ spent.family = old.family /\ spent.user = old.user
      /\ spent.expires = old.expires /\ spent.revoked = old.revoked
  <2> HIDE DEF old
  <2>1. /\ spent \in Row /\ spent.used
        /\ spent.family = old.family /\ spent.user = old.user
        /\ spent.expires = old.expires /\ spent.revoked = old.revoked
    BY <1>b DEF Row
  <2> QED
    BY <2>1, SentinelAssumption
<1>g. refresh_tokens' = [refresh_tokens EXCEPT ![tok[r]] = spent, ![c] = new]
  BY <1>b, <1>d DEF Rotate
<1> HIDE DEF old, spent, new
<1>h. /\ refresh_tokens'[tok[r]] = spent /\ refresh_tokens'[c] = new
      /\ Present(tok[r])' /\ Present(c)'
  BY <1>a, <1>b, <1>d, <1>e, <1>f, <1>g DEF Present
<1>i. \A v \in Token \ {c, tok[r]} :
        refresh_tokens'[v] = refresh_tokens[v] /\ (Present(v)' <=> Present(v))
  BY <1>b, <1>g DEF Present
<1>j. \A q \in Request : q # r /\ pc'[q] \in {"claim", "marking", "claimed"} =>
        pc[q] = pc'[q] /\ tok[q] \in Token \ {c}
  BY <1>a DEF SeenIssued
<1>k. \A q \in Request : pc'[q] \in {"claim", "marking", "claimed", "revoke", "revoking"} =>
        q # r /\ pc[q] = pc'[q]
  BY <1>a
<1>l. InFlight(r, new.family)
  BY <1>a, <1>c DEF InFlight, new
<1>1. RowsIssued'
  BY <1>a, <1>b, <1>c, <1>f, <1>h, <1>i DEF RowsIssued, old
<1>2. SeenAgrees'
  <2> SUFFICES ASSUME NEW q \in Request, pc'[q] \in {"claim", "marking", "claimed"}, Present(tok[q])'
               PROVE  /\ refresh_tokens'[tok[q]].family = seen[q].family
                      /\ refresh_tokens'[tok[q]].user = seen[q].user
                      /\ refresh_tokens'[tok[q]].expires = seen[q].expires
    BY <1>a DEF SeenAgrees
  <2>1. pc[q] = pc'[q] /\ tok[q] \in Token \ {c}
    BY <1>j, <1>k
  <2>2. CASE tok[q] = tok[r]
    BY <1>b, <1>f, <1>h, <2>1, <2>2 DEF SeenAgrees, old
  <2>3. CASE tok[q] # tok[r]
    BY <1>a, <1>i, <2>1, <2>3 DEF SeenAgrees
  <2> QED
    BY <2>2, <2>3
<1>3. SeenIssued'
  BY <1>a, <1>k DEF SeenIssued
<1>4. ClaimHolds'
  <2> SUFFICES ASSUME NEW q \in Request, pc'[q] = "claimed"
               PROVE  Present(tok[q])' /\ ~refresh_tokens'[tok[q]].used
    BY <1>a DEF ClaimHolds
  <2>1. q # r /\ pc[q] = "claimed" /\ tok[q] \in Token \ {c}
    BY <1>j, <1>k
  <2>2. tok[q] # tok[r]
    BY <1>a, <2>1 DEF LockExclusive, HoldsLock
  <2> QED
    BY <1>a, <1>i, <2>1, <2>2 DEF ClaimHolds, Present
<1>5. LockExclusive'
  BY <1>a, <1>k DEF LockExclusive, HoldsLock
<1>6. OneUnspentToken'
  \* The spent token was the family's only unspent one; now its successor is.
  <2>1. \A v \in Token \ {c, tok[r]} :
          Present(v) /\ ~refresh_tokens[v].used => refresh_tokens[v].family # new.family
    BY <1>b, <1>c DEF OneUnspentToken, old
  <2> QED
    BY <1>b, <1>f, <1>h, <1>i, <2>1 DEF OneUnspentToken
<1>7. NoSlidingSession'
  <2>1. \A v \in Token : Present(v) /\ refresh_tokens[v].family = old.family =>
          refresh_tokens[v].expires = old.expires /\ refresh_tokens[v].user = old.user
    BY <1>b DEF NoSlidingSession, old
  <2>2. \A v \in Token : Present(v)' /\ refresh_tokens'[v].family = old.family =>
          refresh_tokens'[v].expires = old.expires /\ refresh_tokens'[v].user = old.user
    BY <1>c, <1>f, <1>h, <1>i, <2>1
  <2>3. \A v \in Token : Present(v)' /\ refresh_tokens'[v].family # old.family =>
          v \in Token \ {c, tok[r]}
    BY <1>c, <1>f, <1>h
  <2> QED
    BY <1>i, <2>2, <2>3 DEF NoSlidingSession
<1>8. EndedUndisturbed'
  BY <1>a, <1>k DEF EndedUndisturbed, InFlight
<1>9. QuietUndisturbed'
  <2> SUFFICES ASSUME NEW q \in Request, pc'[q] = "revoking", NEW f \in quiet[q]
               PROVE  /\ f \in issued'
                      /\ \A p \in Request : ~InFlight(p, f)'
                      /\ \A v \in FamilyRows(f)' : refresh_tokens'[v].revoked \/ v \in target[q]
    BY <1>a DEF QuietUndisturbed
  <2>1. /\ f \in issued /\ \A p \in Request : ~InFlight(p, f)
        /\ \A v \in FamilyRows(f) : refresh_tokens[v].revoked \/ v \in target[q]
    BY <1>k DEF QuietUndisturbed
  <2>2. new.family # f /\ spent.family # f
    BY <1>c, <1>f, <1>l, <2>1
  <2>3. FamilyRows(f)' \subseteq FamilyRows(f) \ {c, tok[r]}
    BY <1>h, <1>i, <2>2 DEF FamilyRows
  <2>4. \A p \in Request : ~InFlight(p, f)'
    BY <1>a, <1>k, <2>1 DEF InFlight
  <2> QED
    BY <1>a, <1>i, <2>1, <2>3, <2>4 DEF FamilyRows
<1>10. EndedStaysEnded'
  <2> SUFFICES ASSUME NEW f \in ended, NEW v \in FamilyRows(f)'
               PROVE  refresh_tokens'[v].revoked
    BY <1>a DEF EndedStaysEnded
  <2>1. new.family # f /\ spent.family # f
    BY <1>c, <1>f, <1>l DEF EndedUndisturbed
  <2>2. v \in Token \ {c, tok[r]} /\ v \in FamilyRows(f)
    BY <1>h, <1>i, <2>1 DEF FamilyRows
  <2> QED
    BY <1>i, <2>2 DEF EndedStaysEnded
<1> QED
  BY <1>1, <1>2, <1>3, <1>4, <1>5, <1>6, <1>7, <1>8, <1>9, <1>10

LEMMA RevokeFamilyInv ==
  ASSUME IInv, NEW r \in Request,
         RevokeFamily(r)
  PROVE  (RowsIssued /\ SeenAgrees /\ SeenIssued /\ ClaimHolds /\ LockExclusive
          /\ OneUnspentToken /\ NoSlidingSession
          /\ EndedUndisturbed /\ QuietUndisturbed /\ EndedStaysEnded)'
<1> USE DEF IInv, TypeOK
<1>1. RowsIssued'
  BY DEF RowsIssued, Present, RevokeFamily, Goto
<1>2. SeenAgrees'
  BY DEF SeenAgrees, Present, RevokeFamily, Goto
<1>3. SeenIssued'
  BY DEF SeenIssued, RowsIssued, Present, RevokeFamily, Goto
<1>4. ClaimHolds'
  BY DEF ClaimHolds, Present, Locked, HoldsLock, RevokeFamily, Goto
<1>5. LockExclusive'
  BY DEF LockExclusive, HoldsLock, Locked, RevokeFamily, Goto
<1>6. OneUnspentToken'
  BY DEF OneUnspentToken, Present, RevokeFamily, Goto
<1>7. NoSlidingSession'
  BY DEF NoSlidingSession, Present, RevokeFamily, Goto
<1>8. EndedUndisturbed'
  BY DEF EndedUndisturbed, InFlight, RevokeFamily, Goto
<1>9. QuietUndisturbed'
  <2> DEFINE f == seen[r].family
  <2> SUFFICES ASSUME NEW q \in Request, pc'[q] = "revoking", NEW g \in quiet'[q]
               PROVE  /\ g \in issued
                      /\ \A p \in Request : ~InFlight(p, g)
                      /\ \A v \in FamilyRows(g) : refresh_tokens[v].revoked \/ v \in target'[q]
    BY DEF RevokeFamily, Goto, QuietUndisturbed, InFlight, FamilyRows, Present
  <2>1. CASE q = r
    <3>1. g = f /\ g \in Family /\ \A p \in Request : ~InFlight(p, g)
      <4>1. f \in Family
        BY DEF RevokeFamily, Row
      <4>2. g \in {f} \ {h \in Family : \E p \in Request : InFlight(p, h)}
        BY <2>1 DEF RevokeFamily
      <4> QED
        BY <4>1, <4>2
    <3>2. target'[r] = {t \in FamilyRows(f) : ~refresh_tokens[t].revoked}
      BY DEF RevokeFamily
    <3>3. f \in issued
      BY DEF RevokeFamily, SeenIssued
    <3> QED
      BY <2>1, <3>1, <3>2, <3>3
  <2>2. CASE q # r
    BY <2>2 DEF RevokeFamily, Goto, QuietUndisturbed
  <2> QED
    BY <2>1, <2>2
<1>10. EndedStaysEnded'
  BY DEF EndedStaysEnded, FamilyRows, Present, RevokeFamily, Goto
<1> QED
  BY <1>1, <1>2, <1>3, <1>4, <1>5, <1>6, <1>7, <1>8, <1>9, <1>10

LEMMA RevokeAllForUserInv ==
  ASSUME IInv, NEW r \in Request, NEW u \in User,
         RevokeAllForUser(r, u)
  PROVE  (RowsIssued /\ SeenAgrees /\ SeenIssued /\ ClaimHolds /\ LockExclusive
          /\ OneUnspentToken /\ NoSlidingSession
          /\ EndedUndisturbed /\ QuietUndisturbed /\ EndedStaysEnded)'
<1> USE DEF IInv, TypeOK
<1>1. RowsIssued'
  BY DEF RowsIssued, Present, RevokeAllForUser, Start, Goto, UserRows
<1>2. SeenAgrees'
  BY DEF SeenAgrees, Present, RevokeAllForUser, Start, Goto, UserRows
<1>3. SeenIssued'
  BY DEF SeenIssued, RowsIssued, Present, RevokeAllForUser, Start, Goto, UserRows
<1>4. ClaimHolds'
  BY DEF ClaimHolds, Present, Locked, HoldsLock, RevokeAllForUser, Start, Goto, UserRows
<1>5. LockExclusive'
  BY DEF LockExclusive, HoldsLock, Locked, RevokeAllForUser, Start, Goto, UserRows
<1>6. OneUnspentToken'
  BY DEF OneUnspentToken, Present, RevokeAllForUser, Start, Goto, UserRows
<1>7. NoSlidingSession'
  BY DEF NoSlidingSession, Present, RevokeAllForUser, Start, Goto, UserRows
<1>8. EndedUndisturbed'
  BY DEF EndedUndisturbed, InFlight, RevokeAllForUser, Start, Goto, UserRows
<1>9. QuietUndisturbed'
  <2> SUFFICES ASSUME NEW q \in Request, pc'[q] = "revoking", NEW g \in quiet'[q]
               PROVE  /\ g \in issued
                      /\ \A p \in Request : ~InFlight(p, g)
                      /\ \A v \in FamilyRows(g) : refresh_tokens[v].revoked \/ v \in target'[q]
    BY DEF RevokeAllForUser, Start, Goto, QuietUndisturbed, InFlight, FamilyRows, Present
  <2>1. CASE q = r
    <3>1. /\ g \in {refresh_tokens[t].family : t \in UserRows(u)}
          /\ g \notin {h \in Family : \E p \in Request : InFlight(p, h)}
      BY <2>1 DEF RevokeAllForUser
    <3>2. PICK t \in UserRows(u) : g = refresh_tokens[t].family
      BY <3>1
    <3>3. /\ t \in Token /\ Present(t) /\ refresh_tokens[t].user = u
          /\ g \in Family /\ g \in issued
      BY <3>2 DEF UserRows, RowsIssued, Present, Row
    <3>4. \A p \in Request : ~InFlight(p, g)
      BY <3>1, <3>3
    \* The rows of a family belong to one user, so the snapshot has them all.
    <3>5. FamilyRows(g) \subseteq UserRows(u)
      BY <3>2, <3>3 DEF FamilyRows, UserRows, NoSlidingSession
    <3>6. target'[r] = {v \in UserRows(u) : ~refresh_tokens[v].revoked}
      BY DEF RevokeAllForUser
    <3> QED
      BY <2>1, <3>3, <3>4, <3>5, <3>6
  <2>2. CASE q # r
    BY <2>2 DEF RevokeAllForUser, Start, Goto, QuietUndisturbed
  <2> QED
    BY <2>1, <2>2
<1>10. EndedStaysEnded'
  BY DEF EndedStaysEnded, FamilyRows, Present, RevokeAllForUser, Start, Goto, UserRows
<1> QED
  BY <1>1, <1>2, <1>3, <1>4, <1>5, <1>6, <1>7, <1>8, <1>9, <1>10

LEMMA RevokeCommitInv ==
  ASSUME IInv, NEW r \in Request,
         RevokeCommit(r)
  PROVE  (RowsIssued /\ SeenAgrees /\ SeenIssued /\ ClaimHolds /\ LockExclusive
          /\ OneUnspentToken /\ NoSlidingSession
          /\ EndedUndisturbed /\ QuietUndisturbed /\ EndedStaysEnded)'
<1> USE DEF IInv, TypeOK
<1>1. RowsIssued'
  BY DEF RowsIssued, Present, RevokeCommit, Goto, Forget
<1>2. SeenAgrees'
  BY DEF SeenAgrees, Present, RevokeCommit, Goto, Forget
<1>3. SeenIssued'
  BY DEF SeenIssued, RowsIssued, Present, RevokeCommit, Goto, Forget
<1>4. ClaimHolds'
  BY DEF ClaimHolds, Present, Locked, HoldsLock, RevokeCommit, Goto, Forget
<1>5. LockExclusive'
  BY DEF LockExclusive, HoldsLock, Locked, RevokeCommit, Goto, Forget
<1>6. OneUnspentToken'
  BY DEF OneUnspentToken, Present, RevokeCommit, Goto, Forget
<1>7. NoSlidingSession'
  BY DEF NoSlidingSession, Present, RevokeCommit, Goto, Forget
<1>8. EndedUndisturbed'
  <2>1. \A f \in quiet[r] : f \in issued /\ \A q \in Request : ~InFlight(q, f)
    BY DEF RevokeCommit, QuietUndisturbed
  <2>2. \A q \in Request, f \in ended' : ~InFlight(q, f)
    BY <2>1 DEF RevokeCommit, EndedUndisturbed
  <2> QED
    BY <2>1, <2>2 DEF EndedUndisturbed, InFlight, RevokeCommit, Goto
<1>9. QuietUndisturbed'
  BY DEF QuietUndisturbed, InFlight, FamilyRows, Present, RevokeCommit, Goto, Forget
<1>10. EndedStaysEnded'
  <2> SUFFICES ASSUME NEW f \in ended', NEW t \in FamilyRows(f)'
               PROVE  refresh_tokens'[t].revoked
    BY DEF EndedStaysEnded
  <2>1. /\ t \in Token
        /\ t \in target[r] /\ Present(t) =>
             refresh_tokens'[t] = [refresh_tokens[t] EXCEPT !.revoked = TRUE]
        /\ ~(t \in target[r] /\ Present(t)) => refresh_tokens'[t] = refresh_tokens[t]
    BY DEF RevokeCommit, FamilyRows
  <2>2. t \in FamilyRows(f)
    <3>1. CASE t \in target[r] /\ Present(t)
      <4>1. refresh_tokens[t] \in Row
        BY <2>1, <3>1 DEF Present
      <4>2. refresh_tokens'[t].family = refresh_tokens[t].family
        BY <2>1, <3>1, <4>1 DEF Row
      <4> QED
        BY <3>1, <4>2 DEF FamilyRows
    <3>2. CASE ~(t \in target[r] /\ Present(t))
      BY <2>1, <3>2 DEF FamilyRows, Present
    <3> QED
      BY <3>1, <3>2
  <2>3. refresh_tokens[t].revoked \/ t \in target[r]
    BY <2>2 DEF RevokeCommit, EndedStaysEnded, QuietUndisturbed
  <2>4. refresh_tokens[t] \in Row
    BY <2>2 DEF FamilyRows, Present
  <2> QED
    BY <2>1, <2>2, <2>3, <2>4 DEF FamilyRows, Row
<1> QED
  BY <1>1, <1>2, <1>3, <1>4, <1>5, <1>6, <1>7, <1>8, <1>9, <1>10

LEMMA SweepCommitInv ==
  ASSUME IInv, NEW r \in Request,
         SweepCommit(r)
  PROVE  (RowsIssued /\ SeenAgrees /\ SeenIssued /\ ClaimHolds /\ LockExclusive
          /\ OneUnspentToken /\ NoSlidingSession
          /\ EndedUndisturbed /\ QuietUndisturbed /\ EndedStaysEnded)'
<1> USE DEF IInv, TypeOK
<1>1. RowsIssued'
  BY DEF RowsIssued, Present, SweepCommit, Goto, Forget
<1>2. SeenAgrees'
  BY DEF SeenAgrees, Present, SweepCommit, Goto, Forget
<1>3. SeenIssued'
  BY DEF SeenIssued, RowsIssued, Present, SweepCommit, Goto, Forget
<1>4. ClaimHolds'
  BY DEF ClaimHolds, Present, Locked, HoldsLock, SweepCommit, Goto, Forget
<1>5. LockExclusive'
  BY DEF LockExclusive, HoldsLock, Locked, SweepCommit, Goto, Forget
<1>6. OneUnspentToken'
  BY DEF OneUnspentToken, Present, SweepCommit, Goto, Forget
<1>7. NoSlidingSession'
  BY DEF NoSlidingSession, Present, SweepCommit, Goto, Forget
<1>8. EndedUndisturbed'
  BY DEF EndedUndisturbed, InFlight, SweepCommit, Goto, Forget
<1>9. QuietUndisturbed'
  BY DEF QuietUndisturbed, InFlight, FamilyRows, Present, SweepCommit, Goto, Forget
<1>10. EndedStaysEnded'
  BY DEF EndedStaysEnded, FamilyRows, Present, SweepCommit, Goto, Forget
<1> QED
  BY <1>1, <1>2, <1>3, <1>4, <1>5, <1>6, <1>7, <1>8, <1>9, <1>10

LEMMA QuietlyInv ==
  ASSUME IInv, NEW r \in Request,
         \/ \E t \in Token : RefreshRefused(r, t) \/ RefreshReuse(r, t)
         \/ \E t \in Token : LogoutUnknown(r, t) \/ LogoutFound(r, t)
         \/ Sweep(r) \/ Fail(r)
  PROVE  (RowsIssued /\ SeenAgrees /\ SeenIssued /\ ClaimHolds /\ LockExclusive
          /\ OneUnspentToken /\ NoSlidingSession
          /\ EndedUndisturbed /\ QuietUndisturbed /\ EndedStaysEnded)'
<1> USE DEF IInv, TypeOK
<1>1. RowsIssued'
  BY DEF RowsIssued, Present, RefreshRefused, RefreshReuse, LogoutUnknown, LogoutFound, Sweep, Fail, Working, Start, Goto, Find, Forget
<1>2. SeenAgrees'
  BY DEF SeenAgrees, Present, RefreshRefused, RefreshReuse, LogoutUnknown, LogoutFound, Sweep, Fail, Working, Start, Goto, Find, Forget
<1>3. SeenIssued'
  BY DEF SeenIssued, RowsIssued, Present, RefreshRefused, RefreshReuse, LogoutUnknown, LogoutFound, Sweep, Fail, Working, Start, Goto, Find, Forget
<1>4. ClaimHolds'
  BY DEF ClaimHolds, Present, Locked, HoldsLock, RefreshRefused, RefreshReuse, LogoutUnknown, LogoutFound, Sweep, Fail, Working, Start, Goto, Find, Forget
<1>5. LockExclusive'
  BY DEF LockExclusive, HoldsLock, Locked, RefreshRefused, RefreshReuse, LogoutUnknown, LogoutFound, Sweep, Fail, Working, Start, Goto, Find, Forget
<1>6. OneUnspentToken'
  BY DEF OneUnspentToken, Present, RefreshRefused, RefreshReuse, LogoutUnknown, LogoutFound, Sweep, Fail, Working, Start, Goto, Find, Forget
<1>7. NoSlidingSession'
  BY DEF NoSlidingSession, Present, RefreshRefused, RefreshReuse, LogoutUnknown, LogoutFound, Sweep, Fail, Working, Start, Goto, Find, Forget
<1>8. EndedUndisturbed'
  BY DEF EndedUndisturbed, InFlight, RefreshRefused, RefreshReuse, LogoutUnknown, LogoutFound, Sweep, Fail, Working, Start, Goto, Find, Forget
<1>9. QuietUndisturbed'
  BY DEF QuietUndisturbed, InFlight, FamilyRows, Present, RefreshRefused, RefreshReuse, LogoutUnknown, LogoutFound, Sweep, Fail, Working, Start, Goto, Find, Forget
<1>10. EndedStaysEnded'
  BY DEF EndedStaysEnded, FamilyRows, Present, RefreshRefused, RefreshReuse, LogoutUnknown, LogoutFound, Sweep, Fail, Working, Start, Goto, Find, Forget
<1> QED
  BY <1>1, <1>2, <1>3, <1>4, <1>5, <1>6, <1>7, <1>8, <1>9, <1>10

-----------------------------------------------------------------------------
(* The theorems *)

LEMMA InitInv == Init => IInv
<1> SUFFICES ASSUME Init
             PROVE  IInv
  OBVIOUS
<1>1. TypeOK
  BY InitTypeOK
<1>2. RowsIssued /\ OneUnspentToken /\ NoSlidingSession
  BY DEF Init, RowsIssued, OneUnspentToken, NoSlidingSession, Present
<1>3. SeenAgrees /\ SeenIssued /\ ClaimHolds /\ LockExclusive
  BY DEF Init, SeenAgrees, SeenIssued, ClaimHolds, LockExclusive, HoldsLock
<1>4. EndedUndisturbed /\ QuietUndisturbed /\ EndedStaysEnded
  BY DEF Init, EndedUndisturbed, QuietUndisturbed, EndedStaysEnded
<1> QED
  BY <1>1, <1>2, <1>3, <1>4 DEF IInv

LEMMA StutterInv ==
  ASSUME IInv, Tick \/ UNCHANGED vars
  PROVE  IInv'
<1>1. now' \in Nat
  BY DEF Tick, vars, IInv, TypeOK
<1>2. UNCHANGED <<refresh_tokens, issued, kind, pc, tok, seen, late, target, minted, quiet, ended>>
  BY DEF Tick, vars, requestVars
<1>3. TypeOK'
  BY <1>1, <1>2 DEF IInv, TypeOK
<1>4. (RowsIssued /\ OneUnspentToken /\ NoSlidingSession)'
  BY <1>2 DEF IInv, RowsIssued, OneUnspentToken, NoSlidingSession, Present
<1>5. (SeenAgrees /\ SeenIssued /\ ClaimHolds /\ LockExclusive)'
  BY <1>2 DEF IInv, SeenAgrees, SeenIssued, ClaimHolds, LockExclusive, HoldsLock, Present
<1>6. (EndedUndisturbed /\ QuietUndisturbed /\ EndedStaysEnded)'
  BY <1>2 DEF IInv, EndedUndisturbed, QuietUndisturbed, EndedStaysEnded, InFlight, FamilyRows, Present
<1> QED
  BY <1>3, <1>4, <1>5, <1>6 DEF IInv

LEMMA NextInv == IInv /\ [Next]_vars => IInv'
<1> SUFFICES ASSUME IInv, [Next]_vars
             PROVE  IInv'
  OBVIOUS
<1>1. ASSUME NEW r \in Request, Arrive(r)
      PROVE  IInv'
  <2>1. TypeOK'
    BY <1>1, ArriveTypeOK DEF IInv
  <2> QED
    BY <1>1, <2>1, LoginInv, RefreshFoundInv, RevokeAllForUserInv, QuietlyInv DEF Arrive, IInv
<1>2. ASSUME NEW r \in Request, Step(r) \/ Fail(r)
      PROVE  IInv'
  <2>1. TypeOK'
    BY <1>2, StepTypeOK DEF IInv
  <2> QED
    BY <1>2, <2>1, ClaimInv, RotateInv, RevokeFamilyInv, RevokeCommitInv, SweepCommitInv,
       QuietlyInv DEF Step, IInv
<1> QED
  BY <1>1, <1>2, StutterInv DEF Next, Finished

\* The inductive invariant of the table and its handlers.
THEOREM Invariance == Spec => []IInv
BY InitInv, NextInv, PTL DEF Spec

\* Every reachable table, clock and handler state is of the declared kind; in
\* particular a handler that is about to claim a token or revoke a family
\* always has the row it read.
THEOREM TypeCorrect == Spec => []TypeOK
<1>1. IInv => TypeOK
  BY DEF IInv
<1> QED
  BY <1>1, Invariance, PTL

\* However many refreshes, logouts, revocations, sweeps and crashes interleave,
\* a login session has at most one unspent token (reuse detection rests on it).
THEOREM SessionIsAChain == Spec => []OneUnspentToken
<1>1. IInv => OneUnspentToken
  BY DEF IInv
<1> QED
  BY <1>1, Invariance, PTL

\* No interleaving lets a session outlive the expiry its login was given, or
\* move to another account.
THEOREM SessionDoesNotSlide == Spec => []NoSlidingSession
<1>1. IInv => NoSlidingSession
  BY DEF IInv
<1> QED
  BY <1>1, Invariance, PTL

\* A revocation no refresh overlapped is final: the exact condition under which
\* logout, reuse detection, password change and recovery do end a session.
THEOREM UndisturbedRevocationIsFinal == Spec => []EndedStaysEnded
<1>1. IInv => EndedStaysEnded
  BY DEF IInv
<1> QED
  BY <1>1, Invariance, PTL

-----------------------------------------------------------------------------
(* Atomic rotation, and the fate of what a doubly spent token bought        *)

\* A crash, a rollback or a lost race never costs a client its token: a token
\* becomes spent only in the step that publishes its successor.
THEOREM RotationAtomic == Spec => RotationIsAtomic
<1> DEFINE A == \A t \in Token :
        (/\ Present(t) /\ ~refresh_tokens[t].used
         /\ Present(t)' /\ refresh_tokens'[t].used)
        => \E c \in Token :
             /\ ~Present(c) /\ Present(c)'
             /\ refresh_tokens'[c].family = refresh_tokens[t].family
             /\ ~refresh_tokens'[c].used
<1>1. IInv /\ [Next]_vars => [A]_vars
  <2> SUFFICES ASSUME IInv, Next, NEW t \in Token,
                      Present(t), ~refresh_tokens[t].used,
                      Present(t)', refresh_tokens'[t].used
               PROVE  \E c \in Token :
                        /\ ~Present(c) /\ Present(c)'
                        /\ refresh_tokens'[c].family = refresh_tokens[t].family
                        /\ ~refresh_tokens'[c].used
    OBVIOUS
  <2>1. refresh_tokens[t] \in Row /\ refresh_tokens' # refresh_tokens
    BY DEF IInv, TypeOK, Present
  <2>2. ASSUME NEW r \in Request, NEW u \in User, NEW f \in Family, NEW v \in Token,
               Login(r, u, f, v)
        PROVE  FALSE
    <3>1. v # t
      BY <2>2 DEF Login, FreshToken, IInv, RowsIssued
    <3> QED
      BY <2>2, <3>1 DEF Login, IInv, TypeOK
  <2>3. ASSUME NEW r \in Request, RevokeCommit(r) \/ SweepCommit(r)
        PROVE  FALSE
    BY <2>1, <2>3 DEF RevokeCommit, SweepCommit, Present, Row
  <2>4. PICK r \in Request, c \in Token : Rotate(r, c)
    <3>1. ASSUME NEW r \in Request, Arrive(r)
          PROVE  FALSE
      BY <2>1, <2>2, <3>1 DEF Arrive, RefreshRefused, RefreshReuse, RefreshFound,
           LogoutUnknown, LogoutFound, RevokeAllForUser, Sweep
    <3>2. ASSUME NEW r \in Request, Step(r) \/ Fail(r)
          PROVE  \E c \in Token : Rotate(r, c)
      BY <2>1, <2>3, <3>2 DEF Step, MarkUsed, ClaimMissed, ClaimWon, ClaimLost, RevokeFamily, Fail
    <3>3. ~Tick /\ ~Finished
      BY <2>1 DEF Tick, Finished, vars
    <3> QED
      BY <3>1, <3>2, <3>3 DEF Next
  <2>5. /\ tok[r] \in Token /\ refresh_tokens[tok[r]] \in Row
        /\ refresh_tokens[tok[r]].family = seen[r].family
        /\ ~Present(c) /\ c # tok[r]
    BY <2>4 DEF Rotate, FreshToken, IInv, TypeOK, ClaimHolds, SeenAgrees, RowsIssued, Present
  <2>6. /\ refresh_tokens'[c] = [family |-> seen[r].family, user |-> seen[r].user,
              expires |-> seen[r].expires, used |-> FALSE, revoked |-> FALSE]
        /\ \A v \in Token \ {c, tok[r]} : refresh_tokens'[v] = refresh_tokens[v]
    BY <2>4, <2>5 DEF Rotate, IInv, TypeOK
  <2>7. t = tok[r]
    BY <2>5, <2>6
  <2>8. refresh_tokens'[c] \in Row
    BY <2>4, <2>6 DEF Rotate, IInv, TypeOK, Row
  <2>9. Present(c)'
    BY <2>8, SentinelAssumption DEF Present
  <2> QED
    BY <2>5, <2>6, <2>7, <2>9
<1> QED
  BY <1>1, Invariance, PTL DEF Spec, RotationIsAtomic

\* q exchanged its token for another one.
Rotated(q) == kind[q] = "refresh" /\ pc[q] = "ok"

\* r found its token spent, or lost the race for it.
Rejecting(r) == kind[r] = "refresh" /\ pc[r] \in {"revoke", "revoking", "revoked"}

\* Two handlers that found the same token found the same family.
SeenFamily ==
  \A r \in Request : seen[r] # NoRow =>
    /\ tok[r] \in Token /\ tok[r] \in issued
    /\ Present(tok[r]) => refresh_tokens[tok[r]].family = seen[r].family
    /\ \A q \in Request : seen[q] # NoRow /\ tok[q] = tok[r] => seen[q].family = seen[r].family

RotatedMinted ==
  \A q \in Request : Rotated(q) =>
    /\ seen[q] # NoRow /\ minted[q] \in Token /\ minted[q] \in issued
    /\ Present(minted[q]) => refresh_tokens[minted[q]].family = seen[q].family

\* Once a reuse is noticed nobody can claim that token any more.
RejectedIsSpent ==
  \A r \in Request : Rejecting(r) =>
    seen[r] # NoRow /\ (Present(tok[r]) => refresh_tokens[tok[r]].used)

\* From its snapshot on, the revocation has every token bought with this one.
SuccessorDoomed ==
  \A r, q \in Request :
    /\ Rejecting(r) /\ pc[r] # "revoke"
    /\ Rotated(q) /\ tok[q] = tok[r] /\ Present(minted[q])
    => \/ refresh_tokens[minted[q]].revoked
       \/ pc[r] = "revoking" /\ minted[q] \in target[r]

SweepKind == \A r \in Request : pc[r] = "sweeping" => kind[r] = "sweep"

SInv == SeenFamily /\ RotatedMinted /\ RejectedIsSpent /\ SuccessorDoomed /\ SweepKind

LEMMA LoginSInv ==
  ASSUME IInv, SInv, NEW r \in Request, NEW u \in User, NEW f \in Family, NEW t \in Token,
         Login(r, u, f, t)
  PROVE  SInv'
<1> USE DEF SInv, IInv, TypeOK
<1>a. /\ \A v \in Token \ {t} : refresh_tokens'[v] = refresh_tokens[v]
      /\ t \notin issued
      /\ UNCHANGED <<tok, seen, target>>
      /\ \A q \in Request : q # r => pc'[q] = pc[q] /\ kind'[q] = kind[q] /\ minted'[q] = minted[q]
      /\ pc'[r] = "ok" /\ kind'[r] = "login"
  BY DEF Login, Start, Goto, FreshToken
<1>1. SeenFamily'
  BY DEF SeenFamily, Present, Login, Start, Goto, FreshToken, FreshFamily
<1>2. RotatedMinted'
  BY DEF RotatedMinted, Rotated, Present, Login, Start, Goto, FreshToken, FreshFamily
<1>3. RejectedIsSpent'
  <2>1. \A q \in Request : Rejecting(q)' => Rejecting(q)
    BY <1>a DEF Rejecting
  <2>2. \A q \in Request : Rejecting(q) => tok[q] \in Token \ {t}
    BY <1>a DEF RejectedIsSpent, SeenFamily
  <2> QED
    BY <1>a, <2>1, <2>2 DEF RejectedIsSpent, Present
<1>4. SuccessorDoomed'
  <2>1. \A q \in Request : Rejecting(q)' => Rejecting(q) /\ pc'[q] = pc[q]
    BY <1>a DEF Rejecting
  <2>2. \A q \in Request : Rotated(q)' => Rotated(q) /\ minted'[q] = minted[q]
    BY <1>a DEF Rotated
  <2>3. \A q \in Request : Rotated(q) => minted[q] \in Token \ {t}
    BY <1>a DEF RotatedMinted, Present
  <2> QED
    BY <1>a, <2>1, <2>2, <2>3 DEF SuccessorDoomed, Present
<1>5. SweepKind'
  BY DEF SweepKind, Login, Start, Goto, FreshToken, FreshFamily
<1> QED
  BY <1>1, <1>2, <1>3, <1>4, <1>5

LEMMA FindSInv ==
  ASSUME IInv, SInv, NEW r \in Request, NEW t \in Token,
         \/ RefreshRefused(r, t) \/ RefreshReuse(r, t) \/ RefreshFound(r, t)
         \/ LogoutUnknown(r, t) \/ LogoutFound(r, t)
  PROVE  SInv'
<1> USE DEF SInv, IInv, TypeOK
<1>1. SeenFamily'
  BY DEF SeenFamily, Present, RefreshRefused, RefreshReuse, RefreshFound, LogoutUnknown, LogoutFound, Spendable, Start, Goto, Find
<1>2. RotatedMinted'
  BY DEF RotatedMinted, Rotated, Present, RefreshRefused, RefreshReuse, RefreshFound, LogoutUnknown, LogoutFound, Spendable, Start, Goto, Find
<1>3. RejectedIsSpent'
  BY DEF RejectedIsSpent, Rejecting, Present, RefreshRefused, RefreshReuse, RefreshFound, LogoutUnknown, LogoutFound, Spendable, Start, Goto, Find
<1>4. SuccessorDoomed'
  BY DEF SuccessorDoomed, Rejecting, Rotated, Present, RefreshRefused, RefreshReuse, RefreshFound, LogoutUnknown, LogoutFound, Spendable, Start, Goto, Find
<1>5. SweepKind'
  BY DEF SweepKind, RefreshRefused, RefreshReuse, RefreshFound, LogoutUnknown, LogoutFound, Spendable, Start, Goto, Find
<1> QED
  BY <1>1, <1>2, <1>3, <1>4, <1>5

LEMMA ClaimSInv ==
  ASSUME IInv, SInv, NEW r \in Request,
         MarkUsed(r) \/ ClaimMissed(r) \/ ClaimWon(r) \/ ClaimLost(r)
  PROVE  SInv'
<1> USE DEF SInv, IInv, TypeOK
<1>1. SeenFamily'
  BY DEF SeenFamily, Present, MarkUsed, ClaimMissed, ClaimWon, ClaimLost, Goto
<1>2. RotatedMinted'
  BY DEF RotatedMinted, Rotated, Present, MarkUsed, ClaimMissed, ClaimWon, ClaimLost, Goto
<1>3. RejectedIsSpent'
  <2>1. pc[r] \in {"claim", "marking"} /\ seen[r] # NoRow
    BY SentinelAssumption DEF MarkUsed, ClaimMissed, ClaimWon, ClaimLost
  <2>2. UNCHANGED <<refresh_tokens, kind, tok, seen>>
    BY DEF MarkUsed, ClaimMissed, ClaimWon, ClaimLost
  <2>3. pc'[r] = "revoke" => (Present(tok[r]) => refresh_tokens[tok[r]].used)
    BY DEF MarkUsed, ClaimMissed, ClaimWon, ClaimLost, Goto
  <2>4. \A q \in Request : q # r => (Rejecting(q)' <=> Rejecting(q))
    BY <2>2 DEF MarkUsed, ClaimMissed, ClaimWon, ClaimLost, Goto, Rejecting
  <2>5. Rejecting(r)' => pc'[r] = "revoke"
    BY DEF MarkUsed, ClaimMissed, ClaimWon, ClaimLost, Goto, Rejecting
  <2> QED
    BY <2>1, <2>2, <2>3, <2>4, <2>5 DEF RejectedIsSpent, Present
<1>4. SuccessorDoomed'
  BY DEF SuccessorDoomed, Rejecting, Rotated, Present, MarkUsed, ClaimMissed, ClaimWon, ClaimLost, Goto
<1>5. SweepKind'
  BY DEF SweepKind, MarkUsed, ClaimMissed, ClaimWon, ClaimLost, Goto
<1> QED
  BY <1>1, <1>2, <1>3, <1>4, <1>5

LEMMA RotateSInv ==
  ASSUME IInv, SInv, NEW r \in Request, NEW c \in Token,
         Rotate(r, c)
  PROVE  SInv'
<1> USE DEF SInv, IInv, TypeOK
<1>a. /\ pc[r] = "claimed" /\ c \notin issued /\ c \in issued' /\ issued \subseteq issued'
      /\ pc' = [pc EXCEPT ![r] = "ok"] /\ minted' = [minted EXCEPT ![r] = c]
      /\ UNCHANGED <<kind, tok, seen, target>>
  BY DEF Rotate, Goto, FreshToken
<1>b. /\ tok[r] \in Token /\ seen[r] \in Row /\ seen[r] # NoRow
      /\ refresh_tokens[tok[r]] \in Row /\ ~refresh_tokens[tok[r]].used
      /\ Present(tok[r]) /\ ~Present(c) /\ c # tok[r]
      /\ refresh_tokens[tok[r]].family = seen[r].family
  BY <1>a, SentinelAssumption DEF ClaimHolds, Present, RowsIssued, SeenAgrees
<1>c. /\ refresh_tokens'[tok[r]] = [refresh_tokens[tok[r]] EXCEPT !.used = TRUE]
      /\ refresh_tokens'[c].family = seen[r].family
      /\ \A v \in Token \ {c, tok[r]} : refresh_tokens'[v] = refresh_tokens[v]
  BY <1>b DEF Rotate
<1>d. /\ refresh_tokens'[tok[r]].used
      /\ refresh_tokens'[tok[r]].family = refresh_tokens[tok[r]].family
      /\ refresh_tokens'[tok[r]].revoked = refresh_tokens[tok[r]].revoked
  BY <1>b, <1>c DEF Row
<1>e. \A v \in Token \ {c} : refresh_tokens'[v] # NoRow =>
        /\ Present(v)
        /\ refresh_tokens'[v].family = refresh_tokens[v].family
        /\ refresh_tokens'[v].revoked = refresh_tokens[v].revoked
        /\ refresh_tokens[v].used => refresh_tokens'[v].used
  BY <1>b, <1>c, <1>d DEF Present
<1>1. SeenFamily'
  <2> SUFFICES ASSUME NEW q \in Request, seen[q] # NoRow
               PROVE  /\ tok[q] \in issued'
                      /\ Present(tok[q])' => refresh_tokens'[tok[q]].family = seen[q].family
    BY <1>a DEF SeenFamily
  <2>1. tok[q] \in Token \ {c} /\ tok[q] \in issued
    BY <1>a DEF SeenFamily
  <2> QED
    BY <1>a, <1>e, <2>1 DEF SeenFamily, Present
<1>2. RotatedMinted'
  <2> SUFFICES ASSUME NEW q \in Request, Rotated(q)'
               PROVE  /\ seen[q] # NoRow /\ minted'[q] \in Token /\ minted'[q] \in issued'
                      /\ refresh_tokens'[minted'[q]] # NoRow => refresh_tokens'[minted'[q]].family = seen[q].family
    BY <1>a DEF RotatedMinted, Present
  <2>1. CASE q = r
    BY <1>a, <1>b, <1>c, <2>1
  <2>2. CASE q # r
    <3>1. Rotated(q) /\ minted'[q] = minted[q] /\ minted[q] \in Token \ {c}
      BY <1>a, <2>2 DEF Rotated, RotatedMinted
    <3> QED
      BY <1>a, <1>e, <3>1 DEF RotatedMinted
  <2> QED
    BY <2>1, <2>2
<1>3. RejectedIsSpent'
  <2> SUFFICES ASSUME NEW q \in Request, Rejecting(q)'
               PROVE  /\ seen[q] # NoRow
                      /\ Present(tok[q])' => refresh_tokens'[tok[q]].used
    BY <1>a DEF RejectedIsSpent
  <2>1. Rejecting(q)
    BY <1>a DEF Rejecting
  <2>2. tok[q] \in Token \ {c}
    BY <1>a, <2>1 DEF SeenFamily, RejectedIsSpent
  <2> QED
    BY <1>a, <1>e, <2>1, <2>2 DEF RejectedIsSpent, Present
<1>4. SuccessorDoomed'
  <2> SUFFICES ASSUME NEW p \in Request, NEW q \in Request,
                      Rejecting(p)', pc'[p] # "revoke",
                      Rotated(q)', tok[q] = tok[p],
                      refresh_tokens'[minted'[q]] # NoRow
               PROVE  \/ refresh_tokens'[minted'[q]].revoked
                      \/ pc'[p] = "revoking" /\ minted'[q] \in target[p]
    BY <1>a DEF SuccessorDoomed, Present
  <2>1. Rejecting(p) /\ p # r /\ pc'[p] = pc[p]
    BY <1>a DEF Rejecting
  <2>2. tok[p] # tok[r]
    BY <1>b, <2>1 DEF RejectedIsSpent
  <2>3. q # r /\ Rotated(q) /\ minted'[q] = minted[q] /\ minted[q] \in Token \ {c}
    BY <1>a, <2>2 DEF Rotated, RotatedMinted
  <2>4. Present(minted[q]) /\ refresh_tokens'[minted[q]].revoked = refresh_tokens[minted[q]].revoked
    BY <1>e, <2>3
  <2> QED
    BY <2>1, <2>3, <2>4 DEF SuccessorDoomed
<1>5. SweepKind'
  BY DEF SweepKind, Rotate, Goto, FreshToken
<1> QED
  BY <1>1, <1>2, <1>3, <1>4, <1>5

LEMMA RevokeFamilySInv ==
  ASSUME IInv, SInv, NEW r \in Request,
         RevokeFamily(r)
  PROVE  SInv'
<1> USE DEF SInv, IInv, TypeOK
<1>1. SeenFamily'
  BY DEF SeenFamily, Present, RevokeFamily, Goto, FamilyRows
<1>2. RotatedMinted'
  BY DEF RotatedMinted, Rotated, Present, RevokeFamily, Goto, FamilyRows
<1>3. RejectedIsSpent'
  BY DEF RejectedIsSpent, Rejecting, Present, RevokeFamily, Goto, FamilyRows
<1>4. SuccessorDoomed'
  <2> SUFFICES ASSUME NEW p \in Request, NEW q \in Request,
                      Rejecting(p)', pc'[p] # "revoke",
                      Rotated(q)', tok[q] = tok[p], Present(minted[q])
               PROVE  \/ refresh_tokens[minted[q]].revoked
                      \/ pc'[p] = "revoking" /\ minted[q] \in target'[p]
    BY DEF RevokeFamily, SuccessorDoomed, Present, Rotated, Rejecting
  <2>1. q # r /\ Rotated(q)
    BY DEF RevokeFamily, Goto, Rotated
  <2>2. CASE p = r
    <3>1. Rejecting(r) /\ seen[r] # NoRow
      BY <2>2 DEF RevokeFamily, Rejecting, RejectedIsSpent
    <3>2. refresh_tokens[minted[q]].family = seen[r].family /\ minted[q] \in Token
      BY <2>1, <2>2, <3>1 DEF RotatedMinted, SeenFamily
    <3>3. minted[q] \in FamilyRows(seen[r].family)
      BY <3>2 DEF FamilyRows
    <3> QED
      BY <2>2, <3>3 DEF RevokeFamily, Goto
  <2>3. CASE p # r
    BY <2>1, <2>3 DEF RevokeFamily, Goto, SuccessorDoomed, Rejecting
  <2> QED
    BY <2>2, <2>3
<1>5. SweepKind'
  BY DEF SweepKind, RevokeFamily, Goto, FamilyRows
<1> QED
  BY <1>1, <1>2, <1>3, <1>4, <1>5

LEMMA RevokeCommitSInv ==
  ASSUME IInv, SInv, NEW r \in Request,
         RevokeCommit(r)
  PROVE  SInv'
<1> USE DEF SInv, IInv, TypeOK
<1>a. \A v \in Token : Present(v)' =>
        /\ Present(v)
        /\ refresh_tokens'[v].used = refresh_tokens[v].used
        /\ refresh_tokens[v].revoked \/ v \in target[r] => refresh_tokens'[v].revoked
  <2> SUFFICES ASSUME NEW v \in Token, Present(v)'
               PROVE  /\ Present(v)
                      /\ refresh_tokens'[v].used = refresh_tokens[v].used
                      /\ refresh_tokens[v].revoked \/ v \in target[r] => refresh_tokens'[v].revoked
    OBVIOUS
  <2>1. Present(v) /\ refresh_tokens[v] \in Row
    BY DEF RevokeCommit, Present
  <2> QED
    BY <2>1 DEF RevokeCommit, Row
<1>b. /\ pc[r] = "revoking" /\ pc' = [pc EXCEPT ![r] = "revoked"]
      /\ target' = [target EXCEPT ![r] = {}]
      /\ UNCHANGED <<kind, tok, seen, minted>>
  BY DEF RevokeCommit, Goto, Forget
<1>c. /\ \A q \in Request : Rejecting(q)' => Rejecting(q)
      /\ \A q \in Request : Rotated(q)' => Rotated(q) /\ minted[q] \in Token
  BY <1>b DEF Rejecting, Rotated, RotatedMinted
<1>1. SeenFamily'
  BY DEF SeenFamily, Present, RevokeCommit, Goto, Forget
<1>2. RotatedMinted'
  BY DEF RotatedMinted, Rotated, Present, RevokeCommit, Goto, Forget
<1>3. RejectedIsSpent'
  BY <1>a, <1>b, <1>c DEF RejectedIsSpent, SeenFamily
<1>4. SuccessorDoomed'
  BY <1>a, <1>b, <1>c DEF SuccessorDoomed
<1>5. SweepKind'
  BY DEF SweepKind, RevokeCommit, Goto, Forget
<1> QED
  BY <1>1, <1>2, <1>3, <1>4, <1>5

LEMMA SweepCommitSInv ==
  ASSUME IInv, SInv, NEW r \in Request,
         SweepCommit(r)
  PROVE  SInv'
<1> USE DEF SInv, IInv, TypeOK
<1>a. \A v \in Token : Present(v)' => Present(v) /\ refresh_tokens'[v] = refresh_tokens[v]
  BY DEF SweepCommit, Present
<1>b. /\ pc[r] = "sweeping" /\ pc' = [pc EXCEPT ![r] = "ok"]
      /\ target' = [target EXCEPT ![r] = {}]
      /\ UNCHANGED <<kind, tok, seen, minted, issued>>
  BY DEF SweepCommit, Goto, Forget
<1>c. /\ \A q \in Request : Rejecting(q)' => Rejecting(q) /\ q # r
      /\ \A q \in Request : Rotated(q)' => Rotated(q) /\ minted[q] \in Token
  BY <1>b DEF Rejecting, Rotated, RotatedMinted, SweepKind
<1>1. SeenFamily'
  BY DEF SeenFamily, Present, SweepCommit, Goto, Forget
<1>2. RotatedMinted'
  BY <1>a, <1>b, <1>c DEF RotatedMinted
<1>3. RejectedIsSpent'
  BY <1>a, <1>b, <1>c DEF RejectedIsSpent, SeenFamily
<1>4. SuccessorDoomed'
  BY <1>a, <1>b, <1>c DEF SuccessorDoomed
<1>5. SweepKind'
  BY DEF SweepKind, SweepCommit, Goto, Forget
<1> QED
  BY <1>1, <1>2, <1>3, <1>4, <1>5

LEMMA OtherSInv ==
  ASSUME IInv, SInv, NEW r \in Request,
         \/ \E u \in User : RevokeAllForUser(r, u)
         \/ Sweep(r) \/ Fail(r)
  PROVE  SInv'
<1> USE DEF SInv, IInv, TypeOK
<1>1. SeenFamily'
  BY DEF SeenFamily, Present, RevokeAllForUser, Sweep, Fail, Working, Start, Goto, Forget
<1>2. RotatedMinted'
  BY DEF RotatedMinted, Rotated, Present, RevokeAllForUser, Sweep, Fail, Working, Start, Goto, Forget
<1>3. RejectedIsSpent'
  BY DEF RejectedIsSpent, Rejecting, Present, RevokeAllForUser, Sweep, Fail, Working, Start, Goto, Forget
<1>4. SuccessorDoomed'
  BY DEF SuccessorDoomed, Rejecting, Rotated, Present, RevokeAllForUser, Sweep, Fail, Working, Start, Goto, Forget
<1>5. SweepKind'
  BY DEF SweepKind, RevokeAllForUser, Sweep, Fail, Working, Start, Goto, Forget
<1> QED
  BY <1>1, <1>2, <1>3, <1>4, <1>5

LEMMA NextSInv == IInv /\ SInv /\ [Next]_vars => SInv'
<1> SUFFICES ASSUME IInv, SInv, [Next]_vars
             PROVE  SInv'
  OBVIOUS
<1>1. ASSUME NEW r \in Request, Arrive(r)
      PROVE  SInv'
  BY <1>1, LoginSInv, FindSInv, OtherSInv DEF Arrive
<1>2. ASSUME NEW r \in Request, Step(r) \/ Fail(r)
      PROVE  SInv'
  BY <1>2, ClaimSInv, RotateSInv, RevokeFamilySInv, RevokeCommitSInv, SweepCommitSInv,
     OtherSInv DEF Step
<1>3. CASE Tick \/ UNCHANGED vars
  BY <1>3 DEF Tick, vars, requestVars, SInv, SeenFamily, RotatedMinted, RejectedIsSpent,
     SuccessorDoomed, SweepKind, Rejecting, Rotated, Present
<1> QED
  BY <1>1, <1>2, <1>3 DEF Next, Finished

\* A token presented twice: once the second request has been refused as a reuse,
\* whatever the first one was given is no longer good, in every interleaving.
THEOREM DoubleSpendIsPunished == Spec => []DoubleSpendKillsSuccessor
<1>1. Init => SInv
  BY DEF Init, SInv, SeenFamily, RotatedMinted, RejectedIsSpent, SuccessorDoomed, SweepKind,
     Rejecting, Rotated
<1>2. SInv => DoubleSpendKillsSuccessor
  BY DEF SInv, SuccessorDoomed, DoubleSpendKillsSuccessor, Rejecting, Rotated, Spendable
<1> QED
  BY <1>1, <1>2, NextSInv, Invariance, PTL DEF Spec

-----------------------------------------------------------------------------
(* The handlers do not bring each other to a stop *)

\* The transaction of a password change never runs the nested revokeFamily.
OneRevocation ==
  \A r \in Request : kind[r] = "credentials" => pc[r] \notin {"claim", "marking", "revoke"}

LEMMA OneRevocationInv ==
  ASSUME TypeOK, OneRevocation, [Next]_vars
  PROVE  OneRevocation'
<1> USE DEF TypeOK, OneRevocation, Goto, Start
<1>1. ASSUME NEW r \in Request, Arrive(r)
      PROVE  OneRevocation'
  BY <1>1 DEF Arrive, Login, RefreshRefused, RefreshReuse, RefreshFound, LogoutUnknown,
              LogoutFound, RevokeAllForUser, Sweep
<1>2. ASSUME NEW r \in Request, Step(r) \/ Fail(r)
      PROVE  OneRevocation'
  BY <1>2 DEF Step, MarkUsed, ClaimMissed, ClaimWon, ClaimLost, Rotate, RevokeFamily,
              RevokeCommit, SweepCommit, Fail
<1>3. CASE Tick \/ Finished \/ UNCHANGED vars
  BY <1>3 DEF Tick, Finished, vars, requestVars
<1> QED
  BY <1>1, <1>2, <1>3 DEF Next

\* With no loser of a claim about, a stop is a starved pool.
LEMMA StopWithoutLosers ==
  ASSUME OneRevocation, late = {},
         NEW w \in Request, pc[w] \in Working,
         \A r \in Request : pc[r] \in Working => Waits(r)
  PROVE  Starved
<1>1. \A t \in Token \cup {tok[r] : r \in Request} : ~Locked(t)
  BY DEF Locked, HoldsLock, Waits, Working
<1>2. \A r \in Request : \A t \in target[r] : ~Locked(t)
  BY DEF Locked, HoldsLock, Waits, Working
<1>3. \A r \in Request : pc[r] \in Working => pc[r] = "revoke" /\ ~IdleConn
  BY <1>1, <1>2 DEF Waits
<1>4. ASSUME NEW l \in Leases
      PROVE  kind[l[1]] = "refresh" /\ pc[l[1]] = "revoke"
  <2>1. l[1] \in Request /\ (InTransaction(l[1]) \/ OnPool(l[1]))
    BY <1>4 DEF Leases
  <2>2. pc[l[1]] \in Working
    BY <2>1 DEF InTransaction, OnPool, Working
  <2>3. pc[l[1]] = "revoke"
    BY <1>3, <2>1, <2>2
  <2> QED
    BY <2>1, <2>3 DEF InTransaction, OnPool, OneRevocation
<1> QED
  BY <1>3, <1>4 DEF Starved

\* Whatever the number of requests and connections: only the nested
\* revokeFamily of authService.refresh can bring all the handlers to a stop.
THEOREM OnlyNestingStops == Spec => []StopIsNested
<1>1. Init => OneRevocation
  BY DEF Init, OneRevocation
<1>2. IInv /\ OneRevocation /\ [Next]_vars => OneRevocation'
  BY OneRevocationInv DEF IInv
<1>3. OneRevocation => StopIsNested
  BY StopWithoutLosers DEF StopIsNested
<1> QED
  BY <1>1, <1>2, <1>3, Invariance, PTL DEF Spec

-----------------------------------------------------------------------------
(***************************************************************************)
(* The refinement: RefreshTokens implements LoginSessions.  Every step of  *)
(* a handler is an opening, an exchange, a closing or a forgetting of      *)
(* sessions, the clock, or changes nothing a session is made of.           *)
(***************************************************************************)

SessionVars == <<refresh_tokens, issued, now, ended>>

\* The session a token stands for while it is unspent.
SessionBy(t) ==
  [token |-> t, user |-> refresh_tokens[t].user,
   deadline |-> refresh_tokens[t].expires, open |-> ~refresh_tokens[t].revoked]

\* What the sweep selected has expired, and stays so.
SweptHaveExpired ==
  \A r \in Request : pc[r] = "sweeping" =>
    \A t \in target[r] : t \in issued /\ (Present(t) => refresh_tokens[t].expires < now)

RInv == IInv /\ SweptHaveExpired

-----------------------------------------------------------------------------
(* The mapping *)

LEMMA UnspentSession ==
  ASSUME IInv, NEW t \in Token, NEW f \in Family, t \in Unspent(f)
  PROVE  /\ Unspent(f) = {t}
         /\ SessionOf(f) = SessionBy(t)
         /\ SessionOf(f) \in Session /\ SessionOf(f) # NoRow
<1>1. Unspent(f) = {t}
  BY DEF IInv, OneUnspentToken, Unspent, FamilyRows
<1>2. refresh_tokens[t] \in Row
  BY DEF IInv, TypeOK, Unspent, FamilyRows, Present
<1>3. (CHOOSE x \in Unspent(f) : TRUE) = t
  BY <1>1
<1>4. SessionOf(f) = SessionBy(t)
  BY <1>1, <1>3 DEF SessionOf, SessionBy
<1>5. SessionBy(t) \in Session
  BY <1>2 DEF SessionBy, Session, Row
<1> QED
  BY <1>1, <1>4, <1>5, SessionAssumption

LEMMA NoSessionOf ==
  ASSUME NEW f \in Family, Unspent(f) = {}
  PROVE  SessionOf(f) = NoRow
BY DEF SessionOf

\* Rows that did not change leave the session as it was.
LEMMA SessionUnchanged ==
  ASSUME IInv, IInv', NEW f \in Family,
         \A t \in Token : t \in Unspent(f) <=> t \in Unspent(f)',
         \A t \in Unspent(f) : refresh_tokens'[t] = refresh_tokens[t]
  PROVE  SessionOf(f)' = SessionOf(f)
<1>1. CASE Unspent(f) = {}
  <2>1. Unspent(f)' = {}
    BY <1>1 DEF Unspent, FamilyRows
  <2> QED
    BY <1>1, <2>1 DEF SessionOf
<1>2. ASSUME NEW t \in Unspent(f)
      PROVE  SessionOf(f)' = SessionOf(f)
  <2>1. t \in Token /\ t \in Unspent(f)'
    BY DEF Unspent, FamilyRows
  <2>2. SessionOf(f) = SessionBy(t)
    BY <2>1, UnspentSession
  <2>3. Unspent(f)' = {t}
    BY <2>1 DEF IInv, OneUnspentToken, Unspent, FamilyRows
  <2>4. (CHOOSE x \in Unspent(f)' : TRUE) = t
    BY <2>3
  <2>5. SessionOf(f)' = SessionBy(t)'
    BY <2>3, <2>4 DEF SessionOf, SessionBy
  <2>6. SessionBy(t)' = SessionBy(t)
    BY DEF SessionBy
  <2> QED
    BY <2>2, <2>5, <2>6
<1> QED
  BY <1>1, <1>2

-----------------------------------------------------------------------------
(* The sweep *)

LEMMA SweptInv ==
  ASSUME RInv, IInv', [Next]_vars
  PROVE  SweptHaveExpired'
<1> USE DEF RInv, SweptHaveExpired
<1>t. now \in Nat /\ refresh_tokens \in [Token -> Row \cup {NoRow}]
      /\ pc \in [Request -> {"idle"} \cup Working \cup Terminal]
      /\ target \in [Request -> SUBSET Token]
  BY DEF IInv, TypeOK
<1>1. ASSUME NEW r \in Request, NEW u \in User, NEW f \in Family, NEW t \in Token, Login(r, u, f, t)
      PROVE  SweptHaveExpired'
  BY <1>t, <1>1 DEF Login, Start, Goto, Present, FreshToken
<1>2. ASSUME NEW r \in Request, NEW t \in Token,
             \/ RefreshRefused(r, t) \/ RefreshReuse(r, t) \/ RefreshFound(r, t)
             \/ LogoutUnknown(r, t) \/ LogoutFound(r, t)
      PROVE  SweptHaveExpired'
  BY <1>t, <1>2 DEF RefreshRefused, RefreshReuse, RefreshFound, LogoutUnknown, LogoutFound, Start, Goto, Present
<1>3. ASSUME NEW r \in Request, NEW u \in User, RevokeAllForUser(r, u)
      PROVE  SweptHaveExpired'
  BY <1>t, <1>3 DEF RevokeAllForUser, Start, Goto, Present
<1>4. ASSUME NEW r \in Request, Sweep(r)
      PROVE  SweptHaveExpired'
  BY <1>t, <1>4 DEF Sweep, Start, Goto, Present, IInv, RowsIssued
<1>5. ASSUME NEW r \in Request, MarkUsed(r) \/ ClaimMissed(r) \/ ClaimWon(r) \/ ClaimLost(r) \/ RevokeFamily(r) \/ Fail(r)
      PROVE  SweptHaveExpired'
  BY <1>t, <1>5 DEF MarkUsed, ClaimMissed, ClaimWon, ClaimLost, RevokeFamily, Fail, Goto, Forget, Present
<1>6. ASSUME NEW r \in Request, NEW c \in Token, Rotate(r, c)
      PROVE  SweptHaveExpired'
  <2>1. seen[r] \in Row /\ Present(tok[r]) /\ tok[r] \in Token /\ refresh_tokens[tok[r]] \in Row
    BY <1>6 DEF Rotate, IInv, ClaimHolds, TypeOK, Present
  <2>2. \A v \in Token \ {c} : Present(v)' => Present(v) /\ refresh_tokens'[v].expires = refresh_tokens[v].expires
    BY <1>6, <1>t, <2>1 DEF Rotate, Present, Row
  <2>3. c \notin issued /\ issued \subseteq issued' /\ UNCHANGED <<now, target>>
    BY <1>6 DEF Rotate, FreshToken
  <2>4. \A q \in Request : pc'[q] = "sweeping" => pc[q] = "sweeping"
    BY <1>6, <1>t DEF Rotate, Goto
  <2> QED
    BY <1>t, <2>2, <2>3, <2>4
<1>7. ASSUME NEW r \in Request, RevokeCommit(r)
      PROVE  SweptHaveExpired'
  <2>1. \A v \in Token : Present(v)' => Present(v) /\ refresh_tokens'[v].expires = refresh_tokens[v].expires
    BY <1>7, <1>t DEF RevokeCommit, Present, Row
  <2>2. \A q \in Request : pc'[q] = "sweeping" => pc[q] = "sweeping" /\ target'[q] = target[q]
    BY <1>7, <1>t DEF RevokeCommit, Goto, Forget
  <2> QED
    BY <1>7, <1>t, <2>1, <2>2 DEF RevokeCommit
<1>8. ASSUME NEW r \in Request, SweepCommit(r)
      PROVE  SweptHaveExpired'
  BY <1>t, <1>8 DEF SweepCommit, Goto, Forget, Present
<1>9. CASE Tick
  <2>1. now' = now + 1 /\ UNCHANGED <<refresh_tokens, issued, pc, target>>
    BY <1>9 DEF Tick, requestVars
  <2>2. \A t \in Token : Present(t) => refresh_tokens[t].expires \in Nat
    BY <1>t DEF Present, Row
  <2> QED
    BY <1>t, <2>1, <2>2 DEF Present
<1>10. CASE UNCHANGED vars
  BY <1>10 DEF vars, requestVars, Present
<1> QED
  BY <1>1, <1>2, <1>3, <1>4, <1>5, <1>6, <1>7, <1>8, <1>9, <1>10 DEF Next, Arrive, Step, Finished

-----------------------------------------------------------------------------
(* The steps that change what a session is made of *)

LEMMA LoginOpens ==
  ASSUME IInv, IInv', NEW r \in Request, NEW u \in User, NEW f \in Family, NEW t \in Token,
         Login(r, u, f, t)
  PROVE  Promise!Open(f, u, t)
<1> DEFINE new == [family |-> f, user |-> u, expires |-> now + TTL, used |-> FALSE, revoked |-> FALSE]
<1>1. /\ f \notin issued /\ t \notin issued /\ issued' = issued \cup {f, t}
      /\ UNCHANGED <<now, ended>>
  BY DEF Login, FreshToken, FreshFamily
<1>2. refresh_tokens' = [refresh_tokens EXCEPT ![t] = new] /\ refresh_tokens \in [Token -> Row \cup {NoRow}]
  BY DEF Login, IInv, TypeOK
<1>3. new \in Row /\ new # NoRow
  <2>1. new \in Row
    BY TimeAssumption DEF Row, IInv, TypeOK
  <2> QED
    BY <2>1, SentinelAssumption
<1>4. ~Present(t)
  BY <1>1 DEF IInv, RowsIssued
<1>5. t \in Unspent(f)'
  BY <1>2, <1>3 DEF Unspent, FamilyRows, Present
<1>6. SessionOf(f)' = SessionBy(t)'
  <2>1. Unspent(f)' = {t}
    BY <1>5 DEF IInv, OneUnspentToken, Unspent, FamilyRows
  <2>2. (CHOOSE x \in Unspent(f)' : TRUE) = t
    BY <2>1
  <2> QED
    BY <2>1, <2>2 DEF SessionOf, SessionBy
<1>7. SessionOf(f)' = [token |-> t, user |-> u, deadline |-> now + TTL, open |-> TRUE]
  BY <1>2, <1>6 DEF SessionBy
<1>8. ASSUME NEW g \in Family, g # f
      PROVE  SessionOf(g)' = SessionOf(g)
  <2>1. \A v \in Token : v \in Unspent(g) <=> v \in Unspent(g)'
    BY <1>2, <1>4, <1>8 DEF Unspent, FamilyRows, Present
  <2>2. \A v \in Unspent(g) : refresh_tokens'[v] = refresh_tokens[v]
    BY <1>2, <1>4 DEF Unspent, FamilyRows
  <2> QED
    BY <2>1, <2>2, SessionUnchanged
<1> HIDE DEF new
<1>9. [g \in Family |-> SessionOf(g)]' =
        [[g \in Family |-> SessionOf(g)] EXCEPT
           ![f] = [token |-> t, user |-> u, deadline |-> now + TTL, open |-> TRUE]]
  BY <1>7, <1>8
<1> QED
  BY <1>1, <1>9 DEF Promise!Open

LEMMA RotateExchanges ==
  ASSUME IInv, IInv', NEW r \in Request, NEW c \in Token, Rotate(r, c)
  PROVE  Promise!Exchange(seen[r].family, c)
<1>0. /\ pc[r] = "claimed" /\ seen[r] \in Row
  BY DEF Rotate, IInv, TypeOK
<1>p. PICK f \in Family : f = seen[r].family
  BY <1>0 DEF Row
<1> DEFINE old == tok[r]
           new == [family |-> f, user |-> seen[r].user, expires |-> seen[r].expires,
                   used |-> FALSE, revoked |-> FALSE]
<1>1. /\ pc[r] = "claimed" /\ c \notin issued /\ issued' = issued \cup {c}
      /\ UNCHANGED <<now, ended>>
  BY DEF Rotate, FreshToken
<1>2. /\ old \in Token /\ seen[r] \in Row /\ refresh_tokens[old] \in Row
      /\ Present(old) /\ ~refresh_tokens[old].used
  BY <1>1 DEF IInv, ClaimHolds, TypeOK, Present
<1>3. /\ refresh_tokens[old].family = f
      /\ refresh_tokens[old].user = seen[r].user
      /\ refresh_tokens[old].expires = seen[r].expires
  BY <1>1, <1>2, <1>p DEF IInv, SeenAgrees
<1>4. ~Present(c) /\ c # old
  BY <1>1, <1>2 DEF IInv, RowsIssued
<1>5. new \in Row /\ new # NoRow /\ f \in Family
  <2>1. new \in Row /\ f \in Family
    BY <1>2 DEF Row
  <2> QED
    BY <2>1, SentinelAssumption
<1>6. refresh_tokens \in [Token -> Row \cup {NoRow}]
  BY DEF IInv, TypeOK
<1>7. /\ refresh_tokens'[c] = new
      /\ refresh_tokens'[old].used
      /\ \A v \in Token \ {c, old} : refresh_tokens'[v] = refresh_tokens[v]
  BY <1>2, <1>4, <1>6, <1>p DEF Rotate, Row
<1>8. SessionOf(f) = SessionBy(old) /\ SessionOf(f) # NoRow
  BY <1>2, <1>3, <1>5, UnspentSession DEF Unspent, FamilyRows
<1>9. c \in Unspent(f)'
  <2>1. new.family = f /\ ~new.used
    OBVIOUS
  <2>2. Present(c)' /\ refresh_tokens'[c].family = f /\ ~refresh_tokens'[c].used
    BY <1>5, <1>7, <2>1 DEF Present
  <2> QED
    BY <2>2 DEF Unspent, FamilyRows
<1>10. SessionOf(f)' = SessionBy(c)'
  <2>1. Unspent(f)' = {c}
    BY <1>9 DEF IInv, OneUnspentToken, Unspent, FamilyRows
  <2>2. (CHOOSE x \in Unspent(f)' : TRUE) = c
    BY <2>1
  <2> QED
    BY <2>1, <2>2 DEF SessionOf, SessionBy
<1>11. SessionOf(f)' = [token |-> c, user |-> SessionOf(f).user, deadline |-> SessionOf(f).deadline, open |-> TRUE]
  <2>1. SessionOf(f).user = new.user /\ SessionOf(f).deadline = new.expires
    BY <1>3, <1>8 DEF SessionBy
  <2>2. SessionOf(f)' = [token |-> c, user |-> new.user, deadline |-> new.expires, open |-> ~new.revoked]
    BY <1>7, <1>10 DEF SessionBy
  <2>3. ~new.revoked = TRUE
    OBVIOUS
  <2> QED
    BY <2>1, <2>2, <2>3
<1>12. f \notin ended
  BY <1>1, <1>p DEF IInv, EndedUndisturbed, InFlight
<1>13. ASSUME NEW g \in Family, g # f
       PROVE  SessionOf(g)' = SessionOf(g)
  <2>1. refresh_tokens'[old].family = f
    BY <1>2, <1>3, <1>4, <1>6 DEF Rotate, Row
  <2>2. \A v \in Token : v \in Unspent(g) <=> v \in Unspent(g)'
    BY <1>2, <1>3, <1>4, <1>7, <1>13, <2>1 DEF Unspent, FamilyRows, Present
  <2>3. \A v \in Unspent(g) : refresh_tokens'[v] = refresh_tokens[v]
    BY <1>3, <1>4, <1>7, <1>13 DEF Unspent, FamilyRows
  <2> QED
    BY <2>2, <2>3, SessionUnchanged
<1> HIDE DEF old, new
<1>14. [g \in Family |-> SessionOf(g)]' =
        [[g \in Family |-> SessionOf(g)] EXCEPT
           ![f] = [token |-> c, user |-> SessionOf(f).user, deadline |-> SessionOf(f).deadline, open |-> TRUE]]
  BY <1>11, <1>13
<1>15. Promise!Exchange(f, c)
  BY <1>1, <1>5, <1>8, <1>12, <1>14 DEF Promise!Exchange
<1> QED
  BY <1>15, <1>p

LEMMA RevokeCloses ==
  ASSUME IInv, IInv', NEW r \in Request, RevokeCommit(r)
  PROVE  \E F \in SUBSET Family, D \in SUBSET Family : Promise!Close(F, D)
<1> DEFINE F == {f \in Family : \E t \in Unspent(f) : t \in target[r]}
           D == quiet[r]
<1>1. /\ refresh_tokens \in [Token -> Row \cup {NoRow}] /\ quiet[r] \in SUBSET Family
      /\ pc[r] = "revoking" /\ ended' = ended \cup D /\ UNCHANGED <<issued, now>>
  BY DEF IInv, TypeOK, RevokeCommit
<1>2. \A t \in Token :
        /\ Present(t)' <=> Present(t)
        /\ Present(t) => /\ refresh_tokens'[t].used = refresh_tokens[t].used
                         /\ refresh_tokens'[t].family = refresh_tokens[t].family
                         /\ refresh_tokens'[t].user = refresh_tokens[t].user
                         /\ refresh_tokens'[t].expires = refresh_tokens[t].expires
        /\ t \in target[r] /\ Present(t) => refresh_tokens'[t].revoked
        /\ t \notin target[r] => refresh_tokens'[t] = refresh_tokens[t]
  <2> SUFFICES ASSUME NEW t \in Token, t \in target[r], Present(t)
               PROVE  /\ Present(t)' /\ refresh_tokens'[t].revoked
                      /\ refresh_tokens'[t].used = refresh_tokens[t].used
                      /\ refresh_tokens'[t].family = refresh_tokens[t].family
                      /\ refresh_tokens'[t].user = refresh_tokens[t].user
                      /\ refresh_tokens'[t].expires = refresh_tokens[t].expires
    BY <1>1 DEF RevokeCommit, Present
  <2>1. refresh_tokens'[t] = [refresh_tokens[t] EXCEPT !.revoked = TRUE]
    BY DEF RevokeCommit
  <2>2. refresh_tokens[t] \in Row
    BY <1>1 DEF Present
  <2>3. refresh_tokens'[t] \in Row
    BY <2>1, <2>2 DEF Row
  <2> QED
    BY <2>1, <2>2, <2>3, SentinelAssumption DEF Present, Row
<1>3. \A f \in Family, t \in Token : t \in Unspent(f) <=> t \in Unspent(f)'
  BY <1>2 DEF Unspent, FamilyRows
<1>4. ASSUME NEW f \in Family, f \in F
      PROVE  SessionOf(f)' = Promise!Closed(SessionOf(f))
  <2>1. PICK t \in Unspent(f) : t \in target[r]
    BY <1>4
  <2>2. t \in Token /\ Present(t)
    BY <2>1 DEF Unspent, FamilyRows
  <2>3. SessionOf(f) = SessionBy(t) /\ SessionOf(f) # NoRow
    BY <2>1, <2>2, UnspentSession
  <2>4. Unspent(f)' = {t}
    BY <1>3, <2>1, <2>2 DEF IInv, OneUnspentToken, Unspent, FamilyRows
  <2>5. (CHOOSE x \in Unspent(f)' : TRUE) = t
    BY <2>4
  <2>6. SessionOf(f)' = SessionBy(t)'
    BY <2>4, <2>5 DEF SessionOf, SessionBy
  <2>7. SessionBy(t)' = [token |-> t, user |-> refresh_tokens[t].user,
                         deadline |-> refresh_tokens[t].expires, open |-> FALSE]
    BY <1>2, <2>1, <2>2 DEF SessionBy
  <2>8. Promise!Closed(SessionBy(t)) = [token |-> t, user |-> refresh_tokens[t].user,
                         deadline |-> refresh_tokens[t].expires, open |-> FALSE]
    BY <2>3 DEF Promise!Closed, SessionBy
  <2> QED
    BY <2>3, <2>6, <2>7, <2>8
<1>5. ASSUME NEW f \in Family, f \notin F
      PROVE  SessionOf(f)' = SessionOf(f)
  <2>1. \A t \in Unspent(f) : refresh_tokens'[t] = refresh_tokens[t]
    BY <1>2, <1>5 DEF Unspent, FamilyRows
  <2> QED
    BY <1>3, <2>1, SessionUnchanged
<1>6. ASSUME NEW f \in D
      PROVE  SessionOf(f)' = Promise!Closed(SessionOf(f))
  <2>0. f \in Family
    BY <1>1
  <2>1. CASE f \in F
    BY <1>4, <2>0, <2>1
  <2>2. CASE Unspent(f) = {}
    <3>1. Unspent(f)' = {}
      BY <1>3, <2>0, <2>2 DEF Unspent, FamilyRows
    <3> QED
      BY <2>2, <3>1 DEF SessionOf, Promise!Closed
  <2>3. ASSUME f \notin F, NEW t \in Unspent(f)
        PROVE  SessionOf(f)' = Promise!Closed(SessionOf(f))
    <3>1. t \in Token /\ t \in FamilyRows(f) /\ t \notin target[r]
      BY <2>0, <2>3 DEF Unspent, FamilyRows
    <3>2. refresh_tokens[t].revoked = TRUE
      BY <1>1, <3>1 DEF IInv, QuietUndisturbed, TypeOK, FamilyRows, Present, Row
    <3>3. SessionOf(f) = SessionBy(t) /\ SessionOf(f) # NoRow
      BY <2>0, <2>3, <3>1, UnspentSession
    <3>4. Promise!Closed(SessionBy(t)) = SessionBy(t)
      BY <3>2, <3>3 DEF Promise!Closed, SessionBy
    <3> QED
      BY <1>5, <2>0, <2>3, <3>3, <3>4
  <2> QED
    BY <2>1, <2>2, <2>3
<1> HIDE DEF F, D
<1>7. [g \in Family |-> SessionOf(g)]' =
        [g \in Family |-> IF g \in F THEN Promise!Closed([h \in Family |-> SessionOf(h)][g])
                                     ELSE [h \in Family |-> SessionOf(h)][g]]
  BY <1>4, <1>5
<1>8. \A f \in D : f \in Family /\ [g \in Family |-> SessionOf(g)]'[f] = Promise!Closed([h \in Family |-> SessionOf(h)][f])
  BY <1>1, <1>6 DEF D
<1>9. Promise!Close(F, D)
  BY <1>1, <1>7, <1>8 DEF Promise!Close
<1>10. F \in SUBSET Family /\ D \in SUBSET Family
  BY <1>1 DEF F, D
<1> QED
  BY <1>9, <1>10

LEMMA SweepForgets ==
  ASSUME RInv, IInv', NEW r \in Request, SweepCommit(r)
  PROVE  \E F \in SUBSET Family : Promise!Forget(F)
<1> DEFINE F == {f \in Family : \E t \in Unspent(f) : t \in target[r]}
<1>1. /\ IInv /\ refresh_tokens \in [Token -> Row \cup {NoRow}]
      /\ pc[r] = "sweeping" /\ UNCHANGED <<issued, now, ended>>
  BY DEF RInv, IInv, TypeOK, SweepCommit
<1>2. \A t \in Token : refresh_tokens'[t] = IF t \in target[r] THEN NoRow ELSE refresh_tokens[t]
  BY DEF SweepCommit
<1>3. ASSUME NEW f \in Family, f \in F
      PROVE  SessionOf(f)' = NoRow /\ SessionOf(f) # NoRow /\ SessionOf(f).deadline < now
  <2>1. PICK t \in Unspent(f) : t \in target[r]
    BY <1>3
  <2>2. t \in Token /\ Present(t)
    BY <2>1 DEF Unspent, FamilyRows
  <2>3. SessionOf(f) = SessionBy(t) /\ SessionOf(f) # NoRow /\ Unspent(f) = {t}
    BY <1>1, <2>1, <2>2, UnspentSession
  <2>4. refresh_tokens[t].expires < now
    BY <1>1, <2>1, <2>2 DEF RInv, SweptHaveExpired
  <2>5. Unspent(f)' = {}
    BY <1>2, <2>1, <2>3 DEF Unspent, FamilyRows, Present
  <2> QED
    BY <2>3, <2>4, <2>5 DEF SessionOf, SessionBy
<1>4. ASSUME NEW f \in Family, f \notin F
      PROVE  SessionOf(f)' = SessionOf(f)
  <2>1. \A t \in Token : t \in Unspent(f) <=> t \in Unspent(f)'
    BY <1>2, <1>4 DEF Unspent, FamilyRows, Present
  <2>2. \A t \in Unspent(f) : refresh_tokens'[t] = refresh_tokens[t]
    BY <1>2, <1>4 DEF Unspent, FamilyRows
  <2> QED
    BY <1>1, <2>1, <2>2, SessionUnchanged
<1>5. F \in SUBSET Family
  OBVIOUS
<1> HIDE DEF F
<1>6. [g \in Family |-> SessionOf(g)]' =
        [g \in Family |-> IF g \in F THEN NoRow ELSE [h \in Family |-> SessionOf(h)][g]]
  BY <1>3, <1>4
<1>7. Promise!Forget(F)
  BY <1>1, <1>3, <1>5, <1>6 DEF Promise!Forget
<1> QED
  BY <1>5, <1>7

-----------------------------------------------------------------------------
(* The refinement *)

LEMMA InitMapped == Init => Promise!Init
<1> SUFFICES ASSUME Init
             PROVE  Promise!Init
  OBVIOUS
<1>1. \A f \in Family : Unspent(f) = {}
  BY DEF Init, Unspent, FamilyRows, Present
<1>2. [f \in Family |-> SessionOf(f)] = [f \in Family |-> NoRow]
  BY <1>1, NoSessionOf
<1> QED
  BY <1>2 DEF Init, Promise!Init

\* A step that leaves the rows, the identifiers, the clock and the ended
\* families alone does not show.
LEMMA Stutters ==
  ASSUME IInv, UNCHANGED SessionVars
  PROVE  UNCHANGED Promise!vars
<1>1. ASSUME NEW f \in Family
      PROVE  SessionOf(f)' = SessionOf(f)
  BY DEF SessionVars, SessionOf, Unspent, FamilyRows, Present
<1>2. [f \in Family |-> SessionOf(f)]' = [f \in Family |-> SessionOf(f)]
  BY <1>1
<1> QED
  BY <1>2 DEF Promise!vars, SessionVars

LEMMA TickMapped ==
  ASSUME IInv, Tick
  PROVE  Promise!Tick
<1>1. ASSUME NEW f \in Family
      PROVE  SessionOf(f)' = SessionOf(f)
  BY DEF Tick, SessionOf, Unspent, FamilyRows, Present
<1>2. [f \in Family |-> SessionOf(f)]' = [f \in Family |-> SessionOf(f)]
  BY <1>1
<1> QED
  BY <1>2 DEF Tick, Promise!Tick

LEMMA StepMapped ==
  ASSUME RInv, IInv', [Next]_vars
  PROVE  [Promise!Next]_(Promise!vars)
<1> USE DEF RInv
<1>1. ASSUME NEW r \in Request, Arrive(r)
      PROVE  [Promise!Next]_(Promise!vars)
  <2>1. ASSUME NEW u \in User, NEW f \in Family, NEW t \in Token, Login(r, u, f, t)
        PROVE  [Promise!Next]_(Promise!vars)
    BY <2>1, LoginOpens DEF Promise!Next
  <2>2. CASE \/ \E t \in Token : RefreshRefused(r, t) \/ RefreshReuse(r, t) \/ RefreshFound(r, t)
             \/ \E t \in Token : LogoutUnknown(r, t) \/ LogoutFound(r, t)
             \/ \E u \in User : RevokeAllForUser(r, u)
             \/ Sweep(r)
    <3>1. UNCHANGED SessionVars
      BY <2>2 DEF SessionVars, RefreshRefused, RefreshReuse, RefreshFound, LogoutUnknown, LogoutFound,
                  RevokeAllForUser, Sweep
    <3> QED
      BY <3>1, Stutters
  <2> QED
    BY <1>1, <2>1, <2>2 DEF Arrive
<1>2. ASSUME NEW r \in Request, Step(r) \/ Fail(r)
      PROVE  [Promise!Next]_(Promise!vars)
  <2>1. CASE MarkUsed(r) \/ ClaimMissed(r) \/ ClaimWon(r) \/ ClaimLost(r) \/ RevokeFamily(r) \/ Fail(r)
    <3>1. UNCHANGED SessionVars
      BY <2>1 DEF SessionVars, MarkUsed, ClaimMissed, ClaimWon, ClaimLost, RevokeFamily, Fail
    <3> QED
      BY <3>1, Stutters
  <2>2. ASSUME NEW c \in Token, Rotate(r, c)
        PROVE  [Promise!Next]_(Promise!vars)
    <3>1. seen[r].family \in Family
      BY <2>2 DEF Rotate, IInv, TypeOK, Row
    <3> QED
      BY <2>2, <3>1, RotateExchanges DEF Promise!Next
  <2>3. CASE RevokeCommit(r)
    BY <2>3, RevokeCloses DEF Promise!Next
  <2>4. CASE SweepCommit(r)
    BY <2>4, SweepForgets DEF Promise!Next
  <2> QED
    BY <1>2, <2>1, <2>2, <2>3, <2>4 DEF Step
<1>3. CASE Tick
  BY <1>3, TickMapped DEF Promise!Next
<1>4. CASE Finished \/ UNCHANGED vars
  <2>1. UNCHANGED SessionVars
    BY <1>4 DEF Finished, vars, SessionVars
  <2> QED
    BY <2>1, Stutters
<1> QED
  BY <1>1, <1>2, <1>3, <1>4 DEF Next

LEMMA RefinementInvariant == Spec => []RInv
<1>1. Init => SweptHaveExpired
  BY DEF Init, SweptHaveExpired
<1>2. RInv /\ [Next]_vars => RInv'
  BY NextInv, SweptInv DEF RInv
<1>3. Init => RInv
  BY <1>1, InitInv DEF RInv
<1> QED
  BY <1>2, <1>3, PTL DEF Spec

\* The handlers, their transactions, the row locks, the sweep and the crashes
\* in any interleaving show a holder no more than LoginSessions describes: one
\* token at a time, exchanged only for a fresh one, with the account and the
\* deadline of the login; nothing after the session was ended for good.
THEOREM TokensImplementSessions == Spec => SessionsAsPromised
<1>1. RInv /\ RInv' /\ [Next]_vars => [Promise!Next]_(Promise!vars)
  BY StepMapped DEF RInv
<1> QED
  BY <1>1, InitMapped, RefinementInvariant, PTL DEF Spec, SessionsAsPromised, Promise!Spec
=============================================================================
