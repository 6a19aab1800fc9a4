--------------------------- MODULE AccountProofs ---------------------------
(***************************************************************************)
(* Proofs about Account, for any number of concurrent requests, any set of *)
(* passwords and any strengths of KDF parameters.                          *)
(***************************************************************************)
EXTENDS Account, TLAPS

\* The handlers that install a credential.
Installs(r) == kind[r] \in {"changePassword", "upgradeKdf", "completeRecovery"}

InHand(r) == pc[r] \in {"verifying", "writing", "committing"}

\* What a handler holds between its read and its write.
InHandOK ==
  \A r \in Request : InHand(r) =>
    /\ row[r] \in Row /\ row[r].auth_hash = row[r].wrapped_dek
    /\ Installs(r) => next[r] \in Cred

\* What it knows once its proof was accepted.
AcceptedOK ==
  \A r \in Request : pc[r] \in {"writing", "committing"} =>
    /\ kind[r] = "login" => proof[r] = row[r].auth_hash
    /\ Installs(r) => next[r].kdf >= DefaultKdf

\* Only a login that ended has been answered.
RepliedOK == \A r \in Request : reply[r] # None => pc[r] = "ok"

\* The lock of the users row: one transaction at a time has written, what it
\* installs is a credential, and it selected every session alive that is not
\* younger than its revocation and that no refresh in flight has carried past it.
LockOK ==
  /\ changed <= epoch
  /\ \A r \in Request : pc[r] = "committing" =>
       /\ kind[r] \in {"changePassword", "completeRecovery"}
       /\ \A q \in Request : pc[q] = "committing" => q = r
       /\ \A s \in Draw : session[s] = "live" =>
            s \in target[r] \/ bornAt[s] >= epoch \/ carried[s] >= epoch

\* A token that a refresh has read is one that was issued; it may be spent since.
RotatingOK ==
  \A r \in Request : pc[r] = "rotating" =>
    kind[r] = "refresh" /\ proof[r] \in Draw /\ session[proof[r]] # "none"

IInv ==
  /\ TypeOK /\ InHandOK /\ AcceptedOK /\ RepliedOK /\ LockOK /\ RotatingOK
  /\ DoorsAgree /\ PolicyKept /\ NoSessionOutlivesChange /\ LoginReplyOpens

-----------------------------------------------------------------------------
LEMMA WithCredentialOK ==
  ASSUME NEW u \in Row, NEW c \in Cred
  PROVE  /\ WithCredential(u, c) \in Row
         /\ WithCredential(u, c).auth_hash = c
         /\ WithCredential(u, c).kdf = c
         /\ WithCredential(u, c).wrapped_dek = c
         /\ WithCredential(u, c).recovery_auth_hash = u.recovery_auth_hash
         /\ WithCredential(u, c).recovery_wrapped_dek = u.recovery_wrapped_dek
BY DEF WithCredential, Row

LEMMA WithKitOK ==
  ASSUME NEW u \in Row, NEW k \in Draw
  PROVE  /\ WithKit(u, k) \in Row
         /\ WithKit(u, k).auth_hash = u.auth_hash
         /\ WithKit(u, k).kdf = u.kdf
         /\ WithKit(u, k).wrapped_dek = u.wrapped_dek
         /\ WithKit(u, k).recovery_auth_hash = k
         /\ WithKit(u, k).recovery_wrapped_dek = k
BY DEF WithKit, Row

LEMMA InitInv == Init => IInv
<1> SUFFICES ASSUME Init
             PROVE  IInv
  OBVIOUS
<1>1. PICK kdf \in Strength :
        user = [auth_hash |-> FirstCred(kdf), kdf |-> FirstCred(kdf),
                wrapped_dek |-> FirstCred(kdf),
                recovery_auth_hash |-> Signup, recovery_wrapped_dek |-> Signup]
  BY DEF Init
<1>2. FirstCred(kdf) \in Cred /\ FirstCred(kdf).salt = Signup
  BY ConstantsAssumption DEF FirstCred, Cred, Draw
<1>3. user \in Row
  BY <1>1, <1>2 DEF Row, Draw
<1>4. TypeOK
  BY <1>3 DEF Init, TypeOK
<1>5. DoorsAgree /\ PolicyKept
  BY <1>1, <1>2 DEF DoorsAgree, PolicyKept
<1>6. InHandOK /\ AcceptedOK /\ RepliedOK /\ LockOK /\ RotatingOK /\ NoSessionOutlivesChange
      /\ LoginReplyOpens
  BY DEF Init, InHandOK, InHand, AcceptedOK, RepliedOK, LockOK, RotatingOK,
     NoSessionOutlivesChange, LoginReplyOpens
<1> QED
  BY <1>4, <1>5, <1>6 DEF IInv

LEMMA ReadInv ==
  ASSUME IInv, NEW r \in Request, NEW k \in Kinds, NEW p \in Cred \cup Draw \cup {None},
         NEW c \in Cred \cup {None},
         k \in {"changePassword", "upgradeKdf", "completeRecovery"} => c \in Cred,
         Read(r, k, p, c)
  PROVE  IInv'
<1> USE DEF IInv, TypeOK, Read, Goto
<1>1. TypeOK'
  BY DEF Terminal
<1>2. InHandOK'
  BY DEF InHandOK, InHand, Installs, DoorsAgree
<1>3. AcceptedOK'
  BY DEF AcceptedOK, Installs
<1>4. DoorsAgree' /\ PolicyKept' /\ NoSessionOutlivesChange'
  BY DEF DoorsAgree, PolicyKept, NoSessionOutlivesChange
<1>5. LoginReplyOpens' /\ RepliedOK' /\ LockOK' /\ RotatingOK'
  BY DEF LoginReplyOpens, RepliedOK, LockOK, RotatingOK
<1> QED
  BY <1>1, <1>2, <1>3, <1>4, <1>5

LEMMA RefreshFoundInv ==
  ASSUME IInv, NEW r \in Request, NEW s \in Draw, RefreshFound(r, s)
  PROVE  IInv'
<1> USE DEF IInv, TypeOK, RefreshFound, Goto, Terminal
<1>1. TypeOK'
  BY DEF Kinds
<1>2. InHandOK' /\ AcceptedOK'
  BY DEF InHandOK, InHand, Installs, AcceptedOK
<1>3. DoorsAgree' /\ PolicyKept' /\ NoSessionOutlivesChange'
  BY DEF DoorsAgree, PolicyKept, NoSessionOutlivesChange
<1>4. LoginReplyOpens' /\ RepliedOK' /\ LockOK' /\ RotatingOK'
  BY DEF LoginReplyOpens, RepliedOK, LockOK, RotatingOK
<1> QED
  BY <1>1, <1>2, <1>3, <1>4

LEMMA ArriveInv ==
  ASSUME IInv, NEW r \in Request, Arrive(r)
  PROVE  IInv'
<1>1. /\ user.auth_hash \in Cred /\ user.recovery_auth_hash \in Draw
      /\ NewCred(r) \subseteq Cred
  BY DEF IInv, TypeOK, Row, NewCred, Cred, Draw
<1>2. CASE \E s \in Draw : RefreshFound(r, s)
  BY <1>2, RefreshFoundInv
<1>3. CASE ~\E s \in Draw : RefreshFound(r, s)
  <2>1. PICK k \in Kinds, p \in Cred \cup Draw \cup {None}, c \in Cred \cup {None} :
        /\ k \in {"changePassword", "upgradeKdf", "completeRecovery"} => c \in Cred
        /\ Read(r, k, p, c)
    BY <1>1, <1>3 DEF Arrive, Kinds
  <2> QED
    BY <2>1, ReadInv
<1> QED
  BY <1>2, <1>3

LEMMA DecideInv ==
  ASSUME IInv, NEW r \in Request, Accept(r) \/ Reject(r) \/ ClaimLost(r) \/ Fail(r)
  PROVE  IInv'
<1> USE DEF IInv, TypeOK, Accept, Reject, ClaimLost, Fail, Goto, inputs, Terminal
<1>1. TypeOK'
  OBVIOUS
<1>2. InHandOK'
  BY DEF InHandOK, InHand, Installs
<1>3. AcceptedOK'
  BY DEF AcceptedOK, Installs, Verified, StrongEnough
<1>4. DoorsAgree' /\ PolicyKept' /\ NoSessionOutlivesChange'
  BY DEF DoorsAgree, PolicyKept, NoSessionOutlivesChange
<1>5. LoginReplyOpens' /\ RepliedOK' /\ LockOK' /\ RotatingOK'
  BY DEF LoginReplyOpens, RepliedOK, LockOK, RotatingOK
<1> QED
  BY <1>1, <1>2, <1>3, <1>4, <1>5

\* A successor is as old as its token, or carried past every revocation so far.
LEMMA RotateInv ==
  ASSUME IInv, NEW r \in Request, Rotate(r)
  PROVE  IInv'
<1> DEFINE s == proof[r]
<1> USE DEF IInv, TypeOK, Rotate, Goto, inputs, Terminal
<1>1. /\ pc[r] = "rotating" /\ s \in Draw /\ r \in Draw
      /\ session[s] \in {"live", "revoked"}
  BY DEF RotatingOK, Draw
<1>2. TypeOK'
  BY <1>1
<1>3. InHandOK' /\ AcceptedOK'
  BY DEF InHandOK, InHand, Installs, AcceptedOK
<1>4. DoorsAgree' /\ PolicyKept' /\ LoginReplyOpens' /\ RepliedOK'
  BY DEF DoorsAgree, PolicyKept, LoginReplyOpens, RepliedOK
<1>5. RotatingOK'
  BY <1>1 DEF RotatingOK
<1>6. \A x \in Draw \ {r} : session'[x] = "live" =>
        session[x] = "live" /\ bornAt'[x] = bornAt[x] /\ carried'[x] = carried[x]
  BY <1>1
<1>7. /\ bornAt'[r] = bornAt[s]
      /\ carried'[r] = IF Overtaken(s) THEN epoch ELSE carried[s]
      /\ session[s] = "revoked" => Overtaken(s)
  BY <1>1 DEF Overtaken
<1>8. NoSessionOutlivesChange'
  <2>1. bornAt'[r] >= changed \/ carried'[r] >= changed
    BY <1>1, <1>7 DEF NoSessionOutlivesChange, LockOK
  <2> QED
    BY <1>6, <2>1 DEF NoSessionOutlivesChange
<1>9. LockOK'
  <2> SUFFICES ASSUME NEW q \in Request, pc'[q] = "committing",
                      NEW x \in Draw, session'[x] = "live"
               PROVE  x \in target[q] \/ bornAt'[x] >= epoch \/ carried'[x] >= epoch
    BY DEF LockOK
  <2>1. pc[q] = "committing"
    BY <1>1
  <2>2. CASE x = r
    <3>1. s \in target[q] => Overtaken(s)
      BY <2>1 DEF Overtaken
    <3> QED
      BY <1>1, <1>7, <2>1, <2>2, <3>1 DEF LockOK
  <2>3. CASE x # r
    BY <1>6, <2>1, <2>3 DEF LockOK
  <2> QED
    BY <2>2, <2>3
<1> QED
  BY <1>2, <1>3, <1>4, <1>5, <1>8, <1>9

LEMMA IssueSessionInv ==
  ASSUME IInv, NEW r \in Request, IssueSession(r)
  PROVE  IInv'
<1> USE DEF IInv, TypeOK, IssueSession, Write, Goto, inputs, Terminal
<1>1. row[r] \in Row /\ row[r].wrapped_dek \in Cred /\ row[r].wrapped_dek = proof[r]
  BY DEF InHandOK, InHand, AcceptedOK, Row
<1>2. TypeOK'
  BY <1>1
<1>3. InHandOK' /\ AcceptedOK'
  BY DEF InHandOK, InHand, Installs, AcceptedOK
<1>4. DoorsAgree' /\ PolicyKept'
  BY DEF DoorsAgree, PolicyKept
<1>5. LockOK' /\ RotatingOK' /\ NoSessionOutlivesChange'
  BY DEF LockOK, RotatingOK, NoSessionOutlivesChange, Draw
<1>6. LoginReplyOpens' /\ RepliedOK'
  BY <1>1 DEF LoginReplyOpens, RepliedOK
<1> QED
  BY <1>2, <1>3, <1>4, <1>5, <1>6

\* What the three handlers that install a credential have in common.
LEMMA InstallInv ==
  ASSUME IInv, NEW r \in Request, NEW k \in Draw,
         pc[r] \in {"writing", "committing"}, Installs(r), Goto(r, "ok"),
         \/ user' = WithCredential(user, next[r])
         \/ user' = WithKit(WithCredential(user, next[r]), k),
         UNCHANGED <<inputs, reply>>
  PROVE  user' \in Row /\ InHandOK' /\ AcceptedOK' /\ RepliedOK'
         /\ DoorsAgree' /\ PolicyKept' /\ LoginReplyOpens'
<1> USE DEF IInv, TypeOK, Goto, inputs
<1>1. next[r] \in Cred /\ next[r].kdf >= DefaultKdf
  BY DEF InHandOK, InHand, AcceptedOK
<1>2. /\ user' \in Row
      /\ user'.auth_hash = next[r] /\ user'.kdf = next[r] /\ user'.wrapped_dek = next[r]
      /\ user'.recovery_auth_hash = user'.recovery_wrapped_dek
  BY <1>1, WithCredentialOK, WithKitOK DEF DoorsAgree
<1>3. InHandOK' /\ AcceptedOK'
  BY DEF InHandOK, InHand, Installs, AcceptedOK
<1>4. DoorsAgree' /\ PolicyKept'
  BY <1>1, <1>2 DEF DoorsAgree, PolicyKept
<1>5. LoginReplyOpens' /\ RepliedOK'
  BY DEF LoginReplyOpens, RepliedOK
<1> QED
  BY <1>2, <1>3, <1>4, <1>5

LEMMA UpdateAndRevokeInv ==
  ASSUME IInv, NEW r \in Request, UpdateAndRevoke(r)
  PROVE  IInv'
<1> USE DEF IInv, TypeOK, UpdateAndRevoke, Goto, inputs, Terminal
<1>1. TypeOK'
  OBVIOUS
<1>2. InHandOK' /\ AcceptedOK'
  BY DEF InHandOK, InHand, Installs, AcceptedOK
<1>3. DoorsAgree' /\ PolicyKept' /\ NoSessionOutlivesChange'
  BY DEF DoorsAgree, PolicyKept, NoSessionOutlivesChange
<1>4. LoginReplyOpens' /\ RepliedOK'
  BY DEF LoginReplyOpens, RepliedOK
<1>5. LockOK'
  <2>1. \A q \in Request : pc'[q] = "committing" => q = r
    BY DEF RowLocked
  <2>2. \A s \in Draw : session'[s] = "live" => s \in target'[r]
    OBVIOUS
  <2> QED
    BY <2>1, <2>2 DEF LockOK
<1>6. RotatingOK'
  BY DEF RotatingOK
<1> QED
  BY <1>1, <1>2, <1>3, <1>4, <1>5, <1>6

LEMMA CommitInv ==
  ASSUME IInv, NEW r \in Request, ChangePassword(r) \/ CompleteRecovery(r)
  PROVE  IInv'
<1>1. \E k \in {"changePassword", "completeRecovery"} : Commit(r, k)
  BY DEF ChangePassword, CompleteRecovery
<1>2. user' \in Row /\ InHandOK' /\ AcceptedOK' /\ RepliedOK'
      /\ DoorsAgree' /\ PolicyKept' /\ LoginReplyOpens'
  BY <1>1, InstallInv DEF ChangePassword, CompleteRecovery, Commit, Installs, Draw
<1>3. TypeOK'
  <2>1. session' \in [Draw -> {"none", "live", "spent", "revoked"}]
    BY <1>1 DEF Commit, IInv, TypeOK
  <2> QED
    BY <1>1, <1>2, <2>1 DEF Commit, Goto, inputs, IInv, TypeOK, Terminal
<1>4. NoSessionOutlivesChange'
  <2> SUFFICES ASSUME NEW s \in Draw, session'[s] = "live"
               PROVE  bornAt'[s] >= changed' \/ carried'[s] >= changed'
    BY DEF NoSessionOutlivesChange
  <2>1. session[s] = "live" /\ s \notin target[r] /\ changed' = epoch
        /\ UNCHANGED <<bornAt, carried>>
    BY <1>1 DEF Commit, IInv, TypeOK
  <2> QED
    BY <1>1, <2>1 DEF Commit, IInv, LockOK
<1>5. LockOK' /\ RotatingOK'
  BY <1>1 DEF Commit, Goto, inputs, IInv, TypeOK, LockOK, RotatingOK
<1> QED
  BY <1>2, <1>3, <1>4, <1>5 DEF IInv

LEMMA UpgradeKdfInv ==
  ASSUME IInv, NEW r \in Request, UpgradeKdf(r)
  PROVE  IInv'
<1>1. user' \in Row /\ InHandOK' /\ AcceptedOK' /\ RepliedOK'
      /\ DoorsAgree' /\ PolicyKept' /\ LoginReplyOpens'
  BY InstallInv DEF UpgradeKdf, Write, Installs, Draw
<1>2. TypeOK' /\ NoSessionOutlivesChange' /\ LockOK' /\ RotatingOK'
  BY <1>1 DEF UpgradeKdf, Write, Goto, inputs, IInv, TypeOK, Terminal,
     NoSessionOutlivesChange, LockOK, RotatingOK
<1> QED
  BY <1>1, <1>2 DEF IInv

LEMMA RegenerateInv ==
  ASSUME IInv, NEW r \in Request, RegenerateRecoveryKit(r)
  PROVE  IInv'
<1> USE DEF IInv, TypeOK, RegenerateRecoveryKit, Write, Goto, inputs, Terminal
<1>1. /\ user' \in Row
      /\ user'.auth_hash = user.auth_hash /\ user'.kdf = user.kdf
      /\ user'.wrapped_dek = user.wrapped_dek
      /\ user'.recovery_auth_hash = user'.recovery_wrapped_dek
  BY WithKitOK DEF Draw
<1>2. TypeOK'
  BY <1>1
<1>3. InHandOK' /\ AcceptedOK'
  BY DEF InHandOK, InHand, Installs, AcceptedOK
<1>4. DoorsAgree' /\ PolicyKept' /\ NoSessionOutlivesChange'
  BY <1>1 DEF DoorsAgree, PolicyKept, NoSessionOutlivesChange
<1>5. LoginReplyOpens' /\ RepliedOK' /\ LockOK' /\ RotatingOK'
  BY DEF LoginReplyOpens, RepliedOK, LockOK, RotatingOK
<1> QED
  BY <1>2, <1>3, <1>4, <1>5

-----------------------------------------------------------------------------
(* The theorems *)

THEOREM Invariance == Spec => []IInv
<1>1. IInv /\ [Next]_vars => IInv'
  <2> SUFFICES ASSUME IInv, [Next]_vars
               PROVE  IInv'
    OBVIOUS
  <2>1. CASE UNCHANGED vars
    <3>1. UNCHANGED <<user, pc, kind, proof, next, row, reply, session,
                      target, epoch, changed, bornAt, carried>>
      BY <2>1 DEF vars, inputs
    <3>2. TypeOK'
      BY <3>1 DEF IInv, TypeOK
    <3>3. InHandOK' /\ AcceptedOK' /\ RepliedOK' /\ LockOK' /\ RotatingOK'
      BY <3>1 DEF IInv, InHandOK, InHand, Installs, AcceptedOK, RepliedOK, LockOK,
         RotatingOK
    <3>4. DoorsAgree' /\ PolicyKept' /\ NoSessionOutlivesChange' /\ LoginReplyOpens'
      BY <3>1 DEF IInv, DoorsAgree, PolicyKept, NoSessionOutlivesChange, LoginReplyOpens
    <3> QED
      BY <3>2, <3>3, <3>4 DEF IInv
  <2> QED
    BY <2>1, ArriveInv, DecideInv, RotateInv, IssueSessionInv, UpdateAndRevokeInv, CommitInv,
       UpgradeKdfInv, RegenerateInv
       DEF Next, Step, Finished
<1> QED
  BY <1>1, InitInv, PTL DEF Spec

\* Every reachable row, request and session is of its kind.
THEOREM TypeCorrect == Spec => []TypeOK
<1>1. IInv => TypeOK
  BY DEF IInv
<1> QED
  BY <1>1, Invariance, PTL

\* However password changes, upgrades, recoveries and kit rotations overlap, fail
\* or crash, password and recovery key each keep opening the vault they prove.
THEOREM NeverHalfChanged == Spec => []DoorsAgree
<1>1. IInv => DoorsAgree
  BY DEF IInv
<1> QED
  BY <1>1, Invariance, PTL

\* No order of overlapping writes takes an account below the current KDF defaults.
THEOREM NoDowngrade == Spec => []PolicyKept
<1>1. IInv => PolicyKept
  BY DEF IInv
<1> QED
  BY <1>1, Invariance, PTL

\* A completed password change or recovery leaves none of the sessions it finds,
\* except those a refresh in flight carried past the snapshot of its revocation.
THEOREM ChangeEndsSessions == Spec => []NoSessionOutlivesChange
<1>1. IInv => NoSessionOutlivesChange
  BY DEF IInv
<1> QED
  BY <1>1, Invariance, PTL

\* A login is answered with a wrapper its own password opens, whatever happened
\* to the row since it was read.
THEOREM LoginIsUsable == Spec => []LoginReplyOpens
<1>1. IInv => LoginReplyOpens
  BY DEF IInv
<1> QED
  BY <1>1, Invariance, PTL
=============================================================================
