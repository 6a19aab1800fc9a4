----------------------------- MODULE TotpProofs -----------------------------
(***************************************************************************)
(* Proofs about Totp, for any number of concurrent requests, any size of a *)
(* set of backup codes and any length of time.                             *)
(***************************************************************************)
EXTENDS Totp, TLAPS

Running(r) == pc[r] \in {"checking", "passed"}

\* A running handler has read a row.
RowRead == \A r \in Request : Running(r) => row[r] \in Row

\* A backup code in somebody's hands belongs to a set that was handed out.
CodesKnown ==
  \A r \in Request : code[r] \in BackupCode =>
    code[r].drawn = Enrolled \/ (code[r].drawn \in Request /\ HandedOut(code[r].drawn))

\* A code is spent by a request that has checked it, in a past generation or in
\* this one.
SpentByChecked ==
  \A r \in Request : consumed[r] # None =>
    pc[r] \notin {"idle", "checking"} /\ consumed[r] <= generation

\* A spent backup code is not fresh ...
SpentCodeIsUsed ==
  \A r \in Request :
    consumed[r] # None /\ code[r] \in BackupCode => codes[code[r]] # "fresh"

\* ... and a step spent since the factor was last set up is not above the last one.
SpentStepIsPast ==
  \A r \in Request :
    consumed[r] = generation /\ code[r] \in TotpCode => code[r].step <= Last(user)

IInv ==
  /\ TypeOK /\ RowRead /\ CodesKnown /\ SpentByChecked /\ SpentCodeIsUsed /\ SpentStepIsPast
  /\ FactorIsWhole /\ BackupCodeSpentOnce /\ StepSpentOnce

-----------------------------------------------------------------------------
LEMMA Kinds ==
  /\ \A c \in TotpCode : c \notin BackupCode /\ c # None /\ c.secret \in Draw /\ c.step \in Steps
  /\ \A b \in BackupCode : b # None /\ b.drawn \in Draw
  /\ Steps \subseteq Nat /\ 0 \in Steps
  /\ \A n \in Nat : n # None
BY ConstantsAssumption DEF TotpCode, BackupCode, Steps

LEMMA LastOK ==
  ASSUME NEW u \in Row
  PROVE  /\ Last(u) \in Int
         /\ \A s \in Steps : Last([u EXCEPT !.last_step = s]) = s
BY Kinds, ConstantsAssumption DEF Last, Row, Steps

LEMMA InitInv == Init => IInv
<1> SUFFICES ASSUME Init
             PROVE  IInv
  OBVIOUS
<1> USE DEF Init
<1>1. On \in Row /\ Off \in Row /\ Begun \in Row
  BY Kinds DEF On, Off, Begun, Row, Draw
<1>2. TypeOK
  BY <1>1, Kinds DEF TypeOK, Terminal
<1>3. FactorIsWhole
  <2>1. CASE user \in {Off, Begun}
    BY <2>1 DEF FactorIsWhole, Off, Begun
  <2>2. CASE /\ user = On
             /\ codes = [b \in BackupCode |->
                           IF b \in CodesOf(Enrolled) THEN "fresh" ELSE "absent"]
    <3>1. {b \in BackupCode : codes[b] # "absent"} = CodesOf(Enrolled)
      BY <2>2 DEF CodesOf, BackupCode, Draw
    <3> QED
      BY <2>2, <3>1, ConstantsAssumption DEF FactorIsWhole, On, Draw
  <2> QED
    BY <2>1, <2>2
<1>4. RowRead /\ CodesKnown /\ SpentByChecked /\ SpentCodeIsUsed /\ SpentStepIsPast
  BY Kinds DEF RowRead, Running, CodesKnown, SpentByChecked, SpentCodeIsUsed, SpentStepIsPast
<1>5. BackupCodeSpentOnce /\ StepSpentOnce
  BY DEF BackupCodeSpentOnce, StepSpentOnce
<1> QED
  BY <1>2, <1>3, <1>4, <1>5 DEF IInv

LEMMA ArriveInv ==
  ASSUME IInv, NEW r \in Request, Arrive(r)
  PROVE  IInv'
<1>1. PICK k \in {"begin", "confirm", "disable", "login"},
           c \in TotpCode \cup BackupCode \cup {None} :
        Read(r, k, c) /\ (c = None \/ Known(c))
  BY DEF Arrive
<1> USE <1>1 DEF IInv, TypeOK, Read, Goto
<1>2. TypeOK'
  BY DEF Terminal
<1>3. RowRead'
  BY DEF RowRead, Running
<1>4. CodesKnown'
  <2> SUFFICES ASSUME NEW q \in Request, code'[q] \in BackupCode, code'[q].drawn # Enrolled
               PROVE  /\ code'[q].drawn \in Request
                      /\ kind'[code'[q].drawn] = "confirm" /\ pc'[code'[q].drawn] = "ok"
    BY DEF CodesKnown, HandedOut
  <2>1. code'[q].drawn \in Request /\ HandedOut(code'[q].drawn)
    <3>1. CASE q = r
      BY <3>1, Kinds DEF Known
    <3>2. CASE q # r
      BY <3>2 DEF CodesKnown
    <3> QED
      BY <3>1, <3>2
  <2>2. \A d \in Request : HandedOut(d) => kind'[d] = "confirm" /\ pc'[d] = "ok"
    BY DEF HandedOut
  <2> QED
    BY <2>1, <2>2
<1>5. consumed[r] = None
  BY DEF SpentByChecked
<1>6. SpentByChecked'
  BY DEF SpentByChecked
<1>7. SpentCodeIsUsed' /\ SpentStepIsPast'
  BY <1>5, Kinds DEF SpentCodeIsUsed, SpentStepIsPast
<1>8. FactorIsWhole' /\ BackupCodeSpentOnce' /\ StepSpentOnce'
  BY <1>5 DEF FactorIsWhole, BackupCodeSpentOnce, StepSpentOnce
<1> QED
  BY <1>2, <1>3, <1>4, <1>6, <1>7, <1>8

\* The steps that move a request and touch neither the factor nor its codes.
LEMMA QuietInv ==
  ASSUME IInv, NEW r \in Request,
         \/ Refuse(r) \/ EnableFails(r) \/ WrongCode(r) \/ IssueSession(r) \/ Fail(r)
  PROVE  IInv'
<1>1. /\ Running(r)
      /\ \E label \in Terminal : Goto(r, label)
      /\ UNCHANGED <<user, codes, now, kind, code, row, generation, consumed>>
  BY DEF Refuse, EnableFails, WrongCode, Asked, IssueSession, Fail, Checking, Running, Terminal
<1> USE <1>1 DEF IInv, TypeOK, Goto, Terminal
<1>2. TypeOK'
  OBVIOUS
<1>3. RowRead' /\ SpentByChecked'
  BY DEF RowRead, Running, SpentByChecked
<1>4. CodesKnown'
  BY DEF CodesKnown, HandedOut, Running
<1>5. SpentCodeIsUsed' /\ SpentStepIsPast'
  BY DEF SpentCodeIsUsed, SpentStepIsPast, Last
<1>6. FactorIsWhole' /\ BackupCodeSpentOnce' /\ StepSpentOnce'
  BY DEF FactorIsWhole, BackupCodeSpentOnce, StepSpentOnce
<1> QED
  BY <1>2, <1>3, <1>4, <1>5, <1>6

\* What the three writes that set the factor up or take it down have in common.
LEMMA SetupInv ==
  ASSUME IInv, NEW r \in Request, Running(r), Goto(r, "ok"),
         user' \in Row, generation' = generation + 1,
         UNCHANGED <<now, kind, code, row, consumed>>
  PROVE  /\ RowRead' /\ CodesKnown' /\ SpentByChecked' /\ SpentStepIsPast'
         /\ BackupCodeSpentOnce' /\ StepSpentOnce'
<1> USE DEF IInv, TypeOK, Goto
<1>1. RowRead' /\ SpentByChecked'
  BY DEF RowRead, Running, SpentByChecked
<1>2. CodesKnown'
  BY DEF CodesKnown, HandedOut, Running
<1>3. SpentStepIsPast'
  BY Kinds DEF SpentStepIsPast, SpentByChecked
<1>4. BackupCodeSpentOnce' /\ StepSpentOnce'
  BY DEF BackupCodeSpentOnce, StepSpentOnce
<1> QED
  BY <1>1, <1>2, <1>3, <1>4

LEMMA SetSecretInv ==
  ASSUME IInv, NEW r \in Request, SetSecret(r)
  PROVE  IInv'
<1> USE DEF IInv, TypeOK, SetSecret, Checking, Goto
<1>1. user' \in Row /\ Running(r)
  BY DEF Row, Draw, Running
<1>2. TypeOK'
  BY <1>1 DEF Terminal
<1>3. SpentCodeIsUsed' /\ FactorIsWhole'
  BY DEF SpentCodeIsUsed, FactorIsWhole
<1> QED
  BY <1>1, <1>2, <1>3, SetupInv

LEMMA EnableInv ==
  ASSUME IInv, NEW r \in Request, Enable(r)
  PROVE  IInv'
<1> USE DEF IInv, TypeOK, Enable, Checking, Goto
<1>1. code[r] \in TotpCode
  BY DEF TurnsAway, Matches
<1>2. /\ user' \in Row /\ user'.secret # None
      /\ Running(r)
  BY <1>1, Kinds DEF Row, Running
<1>3. {b \in BackupCode : codes'[b] # "absent"} = CodesOf(r)
  BY DEF CodesOf, BackupCode, Draw
<1>4. TypeOK'
  BY <1>2 DEF Terminal
<1>5. FactorIsWhole'
  BY <1>2, <1>3 DEF FactorIsWhole, Draw
<1>6. SpentCodeIsUsed'
  <2> SUFFICES ASSUME NEW q \in Request, consumed'[q] # None, code'[q] \in BackupCode
               PROVE  codes'[code'[q]] # "fresh"
    BY DEF SpentCodeIsUsed
  <2>1. code[q].drawn # r
    BY ConstantsAssumption DEF CodesKnown, HandedOut
  <2> QED
    BY <2>1 DEF CodesOf
<1> QED
  BY <1>2, <1>4, <1>5, <1>6, SetupInv

LEMMA DisableInv ==
  ASSUME IInv, NEW r \in Request, Disable(r)
  PROVE  IInv'
<1> USE DEF IInv, TypeOK, Disable, Goto
<1>1. user' \in Row /\ Running(r)
  BY DEF Off, Row, Running
<1>2. TypeOK'
  BY <1>1 DEF Terminal
<1>3. SpentCodeIsUsed' /\ FactorIsWhole'
  BY DEF SpentCodeIsUsed, FactorIsWhole, Off
<1> QED
  BY <1>1, <1>2, <1>3, SetupInv

LEMMA ConsumeStepInv ==
  ASSUME IInv, NEW r \in Request, ConsumeStep(r)
  PROVE  IInv'
<1> USE DEF IInv, TypeOK, ConsumeStep, Asked, Pass, Goto
<1>1. code[r] \in TotpCode /\ code[r].step \in Steps /\ code[r] \notin BackupCode
  BY Kinds DEF Matches
<1>2. /\ user' \in Row /\ user'.secret = user.secret /\ user'.enabled = user.enabled
      /\ Last(user) \in Int /\ Last(user) < code[r].step /\ Last(user') = code[r].step
  BY <1>1, LastOK DEF Row, Unspent
<1>3. TypeOK'
  BY <1>2
<1>4. RowRead' /\ SpentByChecked' /\ CodesKnown'
  BY DEF RowRead, Running, SpentByChecked, CodesKnown, HandedOut
<1>5. SpentCodeIsUsed'
  BY <1>1 DEF SpentCodeIsUsed
<1>6. SpentStepIsPast'
  <2> SUFFICES ASSUME NEW q \in Request, consumed'[q] = generation', code'[q] \in TotpCode
               PROVE  code'[q].step <= Last(user')
    BY DEF SpentStepIsPast
  <2>1. CASE q = r
    BY <1>1, <1>2, <2>1, Kinds
  <2>2. CASE q # r
    <3>1. code[q].step <= Last(user) /\ code[q].step \in Nat
      BY <2>2, Kinds DEF SpentStepIsPast
    <3> QED
      BY <1>1, <1>2, <3>1, Kinds
  <2> QED
    BY <2>1, <2>2
<1>7. FactorIsWhole'
  BY <1>2 DEF FactorIsWhole
<1>8. BackupCodeSpentOnce'
  BY <1>1 DEF BackupCodeSpentOnce
<1>9. StepSpentOnce'
  <2> SUFFICES ASSUME NEW p \in Request, NEW q \in Request,
                      consumed'[p] # None, consumed'[p] = consumed'[q],
                      code'[p] \in TotpCode, code'[p] = code'[q]
               PROVE  p = q
    BY DEF StepSpentOnce
  <2>1. \A s \in Request : s # r /\ consumed'[s] = generation /\ code[s] \in TotpCode
          => code[s].step <= Last(user)
    BY DEF SpentStepIsPast
  <2>2. CASE p = r \/ q = r
    <3>1. consumed'[p] = generation /\ consumed'[q] = generation
      BY <2>2
    <3> QED
      BY <1>1, <1>2, <2>1, <2>2, <3>1, Kinds
  <2>3. CASE p # r /\ q # r
    BY <2>3 DEF StepSpentOnce
  <2> QED
    BY <2>2, <2>3
<1> QED
  BY <1>3, <1>4, <1>5, <1>6, <1>7, <1>8, <1>9

LEMMA ConsumeBackupCodeInv ==
  ASSUME IInv, NEW r \in Request, ConsumeBackupCode(r)
  PROVE  IInv'
<1> USE DEF IInv, TypeOK, ConsumeBackupCode, Asked, Pass, Goto
<1>1. code[r] \in BackupCode /\ code[r] \notin TotpCode
  BY Kinds
<1>2. TypeOK'
  OBVIOUS
<1>3. RowRead' /\ SpentByChecked' /\ CodesKnown'
  BY DEF RowRead, Running, SpentByChecked, CodesKnown, HandedOut
<1>4. SpentCodeIsUsed' /\ SpentStepIsPast'
  BY <1>1 DEF SpentCodeIsUsed, SpentStepIsPast, Last
<1>5. FactorIsWhole'
  <2>1. {b \in BackupCode : codes'[b] # "absent"} = {b \in BackupCode : codes[b] # "absent"}
    OBVIOUS
  <2> QED
    BY <2>1 DEF FactorIsWhole
<1>6. BackupCodeSpentOnce'
  BY <1>1 DEF BackupCodeSpentOnce, SpentCodeIsUsed
<1>7. StepSpentOnce'
  BY <1>1 DEF StepSpentOnce
<1> QED
  BY <1>2, <1>3, <1>4, <1>5, <1>6, <1>7

\* Time passing, and steps that change nothing.
LEMMA IdleInv ==
  ASSUME IInv, now' \in Steps,
         UNCHANGED <<user, codes, pc, kind, code, row, generation, consumed>>
  PROVE  IInv'
<1> USE DEF IInv
<1>1. TypeOK' /\ RowRead' /\ CodesKnown'
  BY DEF TypeOK, RowRead, Running, CodesKnown, HandedOut
<1>2. SpentByChecked' /\ SpentCodeIsUsed' /\ SpentStepIsPast'
  BY DEF SpentByChecked, SpentCodeIsUsed, SpentStepIsPast, Last
<1>3. FactorIsWhole' /\ BackupCodeSpentOnce' /\ StepSpentOnce'
  BY DEF FactorIsWhole, BackupCodeSpentOnce, StepSpentOnce
<1> QED
  BY <1>1, <1>2, <1>3

-----------------------------------------------------------------------------
(* The theorems *)

\* The inductive invariant.
THEOREM Invariance == Spec => []IInv
<1>1. IInv /\ [Next]_vars => IInv'
  <2> SUFFICES ASSUME IInv, [Next]_vars
               PROVE  IInv'
    OBVIOUS
  <2>1. CASE Tick
    <3>1. now' \in Steps
      BY <2>1, ConstantsAssumption DEF Tick, IInv, TypeOK, Steps
    <3> QED
      BY <2>1, <3>1, IdleInv DEF Tick
  <2>2. CASE UNCHANGED vars
    BY <2>2, IdleInv DEF vars, IInv, TypeOK
  <2> QED
    BY <2>1, <2>2, ArriveInv, QuietInv, SetSecretInv, EnableInv, DisableInv,
       ConsumeStepInv, ConsumeBackupCodeInv DEF Next, Step, Finished
<1> QED
  BY <1>1, InitInv, PTL DEF Spec

\* Every reachable row, code and request is of its kind.
THEOREM TypeCorrect == Spec => []TypeOK
<1>1. IInv => TypeOK
  BY DEF IInv
<1> QED
  BY <1>1, Invariance, PTL

\* A factor that is on has its secret and one whole set of backup codes, however
\* enrolments, confirmations and disables overlap or die.
THEOREM FactorWhole == Spec => []FactorIsWhole
<1>1. IInv => FactorIsWhole
  BY DEF IInv
<1> QED
  BY <1>1, Invariance, PTL

\* Of any number of requests with one backup code, at most one passes.
THEOREM BackupCodeSingleUse == Spec => []BackupCodeSpentOnce
<1>1. IInv => BackupCodeSpentOnce
  BY DEF IInv
<1> QED
  BY <1>1, Invariance, PTL

\* Of any number of requests with one TOTP code, at most one passes until the
\* factor is set up again.
THEOREM StepSingleUse == Spec => []StepSpentOnce
<1>1. IInv => StepSpentOnce
  BY DEF IInv
<1> QED
  BY <1>1, Invariance, PTL
=============================================================================
