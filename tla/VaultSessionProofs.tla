------------------------- MODULE VaultSessionProofs -------------------------
(***************************************************************************)
(* Proofs about VaultSession, for any number of accounts, items, calls,    *)
(* sign-ins and versions.                                                  *)
(***************************************************************************)
EXTENDS VaultSession, TLAPS

Stages == {"idle", "working", "wrapped", "sent", "answered", "decrypting"}
Blob   == [id : Item, ver : 0 .. MaxVersion, seal : Keys]
OpRecord ==
  [kind : Kinds \union {"none"}, stage : Stages, sess : 0 .. MaxLogins, key : Keys,
   tok : 0 .. MaxLogins, item : Item \union {NoItem}, ver : 0 .. MaxVersion,
   snap : SUBSET Blob, mixed : BOOLEAN]

\* What a call in flight is about, told from its stage.
OpSound(c) ==
  /\ c.tok <= logins /\ c.sess <= logins
  /\ c.stage # "idle" => c.sess # NoKey
  /\ c.stage # "idle" /\ c.kind \in {"update", "delete"} => c.item \in Item
  /\ c.stage = "answered" /\ c.kind = "add" => c.item \in Item
  /\ c.stage = "wrapped" => c.kind \in Rewraps

OpsTyped == op \in [Op -> OpRecord] /\ \A o \in Op : OpSound(op[o])

TabTyped ==
  /\ logins \in 0 .. MaxLogins /\ logouts \subseteq Session
  /\ dek \in 0 .. logins /\ token \in 0 .. logins /\ opening \in 0 .. logins
  /\ owner \in [Session -> Account \union {Nobody}] /\ bytes \in [Session -> Keys]
  /\ \A s \in 1 .. logins : owner[s] \in Account
  /\ opening # NoKey => dek = NoKey
  /\ list \subseteq Entry

ServerTyped ==
  /\ rows \in [Item -> [acct : Account \union {Nobody}, seal : Keys, ver : 0 .. MaxVersion]]
  /\ doors \in [Account -> [{"password", "recovery"} -> Keys]]

RestTyped ==
  /\ begun \in 0 .. MaxCalls
  /\ loaded \in BOOLEAN /\ cut \in BOOLEAN /\ muddled \subseteq Item /\ crossed \subseteq Item
  /\ gutted \subseteq Account

Typed == OpsTyped /\ TabTyped /\ ServerTyped /\ RestTyped

\* A wrapper holds the key of its account; once the account is gutted it may hold zeros.
DoorsSound ==
  \A a \in Account : \A d \in {"password", "recovery"} :
    doors[a][d] = a \/ (doors[a][d] = Zeros /\ a \in gutted)

\* A key array in use is the key of its account unless the account is gutted; any other is zeros.
ArraysSound ==
  \A s \in 1 .. logins :
    /\ bytes[s] \in {owner[s], Zeros}
    /\ s \in {dek, opening} => bytes[s] = owner[s] \/ owner[s] \in gutted
    /\ s \notin {dek, opening} => bytes[s] = Zeros

\* A tab locked while nothing was in flight has nothing in flight and nothing on display.
QuietLocked == dek = NoKey /\ ~cut => list = {} /\ \A o \in Op : op[o].stage = "idle"

\* The key a call carries is the one of the session it was begun in.
CallKeyed(c) ==
  /\ c.stage # "idle" /\ c.kind \in {"add", "update"} =>
       c.key = owner[c.sess] \/ owner[c.sess] \in gutted
  /\ c.stage \in {"wrapped", "sent"} /\ c.kind \in Rewraps => c.key \in {owner[c.sess], Zeros}

CallsKeyed == \A o \in Op : CallKeyed(op[o])

Keyed == DoorsSound /\ ArraysSound /\ QuietLocked /\ CallsKeyed /\ SealedByOwner

IInv == Typed /\ Keyed

-----------------------------------------------------------------------------
(* Types.                                                                  *)

LEMMA FreshTyped == Fresh \in OpRecord /\ Fresh.stage = "idle"
BY BoundAssumption DEF Fresh, OpRecord, Stages, Kinds, Rewraps, Keys, NoKey, Blob

LEMMA FreshSound == logins \in Nat => OpSound(Fresh)
BY DEF Fresh, OpSound, NoKey, Rewraps

\* A call that begins is of its kind, and those it overlaps stay so.
LEMMA BeginTyped ==
  ASSUME Typed, NEW o \in Op, NEW k \in Kinds, NEW i \in Item \union {NoItem},
         NEW v \in 0 .. MaxVersion, Begin(o, k, i, v), k \in {"update", "delete"} => i \in Item
  PROVE  Typed'
<1> DEFINE hits == {p \in Op : InFlight(p) /\ Conflict(k, i, op[p].kind, op[p].item)}
           c == [Fresh EXCEPT !.kind = k, !.sess = dek, !.item = i, !.ver = v,
                   !.stage = IF k \in {"load", "delete"} THEN "sent" ELSE "working",
                   !.tok = IF k \in {"load", "delete"} THEN token ELSE NoKey,
                   !.key = IF k \in {"add", "update"} THEN bytes[dek] ELSE Nobody,
                   !.mixed = hits # {}]
<1>1. dek \in 1 .. logins /\ logins \in 0 .. MaxLogins /\ token \in 0 .. logins
  <2>1. dek # NoKey
    BY DEF Begin
  <2> QED
    BY <2>1, BoundAssumption DEF Typed, TabTyped, NoKey
<1>2. bytes[dek] \in Keys
  BY <1>1, BoundAssumption DEF Typed, TabTyped, Session
<1>3. /\ op' = [p \in Op |-> IF p = o THEN c
                             ELSE IF p \in hits THEN [op[p] EXCEPT !.mixed = TRUE] ELSE op[p]]
      /\ UNCHANGED <<tab, server, history>> /\ begun < MaxCalls /\ begun' = begun + 1
  BY DEF Begin
<1> HIDE DEF hits
<1>4. c \in OpRecord /\ OpSound(c)
  <2>1. /\ c.kind = k /\ c.sess = dek /\ c.item = i /\ c.ver = v /\ c.stage \in {"sent", "working"}
        /\ c.tok \in {token, NoKey} /\ c.key \in {bytes[dek], Nobody} /\ c.mixed \in BOOLEAN
        /\ c.snap = {}
    <3>1. c.mixed = (hits # {})
      BY DEF Fresh
    <3>2. c.stage = IF k \in {"load", "delete"} THEN "sent" ELSE "working"
      BY DEF Fresh
    <3>3. c.tok = IF k \in {"load", "delete"} THEN token ELSE NoKey
      BY DEF Fresh
    <3>4. c.key = IF k \in {"add", "update"} THEN bytes[dek] ELSE Nobody
      BY DEF Fresh
    <3>5. c.kind = k /\ c.sess = dek /\ c.item = i /\ c.ver = v /\ c.snap = {}
      BY DEF Fresh
    <3> HIDE DEF c
    <3> QED
      BY <3>1, <3>2, <3>3, <3>4, <3>5
  <2>6. c = [Fresh EXCEPT !.kind = c.kind, !.sess = c.sess, !.item = c.item, !.ver = c.ver,
               !.stage = c.stage, !.tok = c.tok, !.key = c.key, !.mixed = c.mixed]
    BY DEF Fresh
  <2> HIDE DEF c
  <2>2. c.stage \in Stages /\ c.tok \in 0 .. logins /\ c.key \in Keys /\ c.sess \in 1 .. logins
        /\ logins <= MaxLogins
    BY <1>1, <1>2, <2>1, BoundAssumption DEF Stages, Keys, NoKey
  <2>3. c.tok \in 0 .. MaxLogins /\ c.sess \in 0 .. MaxLogins
    BY <1>1, <2>2, BoundAssumption
  <2>4. c \in OpRecord
    <3>1. /\ c.kind \in Kinds /\ c.item \in Item \union {NoItem} /\ c.ver \in 0 .. MaxVersion
          /\ c.mixed \in BOOLEAN
      BY <2>1
    <3> DEFINE x == [Fresh EXCEPT !.kind = c.kind, !.sess = c.sess, !.item = c.item,
                       !.ver = c.ver, !.stage = c.stage, !.tok = c.tok, !.key = c.key,
                       !.mixed = c.mixed]
    <3>2. x \in OpRecord
      BY <2>1, <2>2, <2>3, <3>1 DEF Fresh, OpRecord, Blob
    <3> QED
      BY <2>6, <3>2
  <2>5. OpSound(c)
    BY <1>1, <2>1, <2>2 DEF OpSound, NoKey
  <2> QED
    BY <2>4, <2>5
<1> HIDE DEF c
<1>5. ASSUME NEW p \in Op PROVE op'[p] \in OpRecord /\ OpSound(op'[p])
  BY <1>3, <1>4 DEF Typed, OpsTyped, OpRecord, OpSound
<1>6. OpsTyped'
  BY <1>3, <1>5 DEF OpsTyped, OpSound, tab
<1> QED
  BY <1>3, <1>6, BoundAssumption
     DEF Typed, TabTyped, ServerTyped, RestTyped, tab, server, history

LEMMA LockTyped ==
  ASSUME Typed, NEW calls \in [Op -> OpRecord], \A o \in Op : OpSound(calls[o]), Lock(calls)
  PROVE  OpsTyped' /\ TabTyped' /\ loaded' \in BOOLEAN /\ cut' \in BOOLEAN
<1>1. logins' = logins
  BY DEF Lock
<1>2. OpsTyped'
  <2>1. op' = [o \in Op |-> [calls[o] EXCEPT !.mixed = @ \/ calls[o].stage # "idle"]]
    BY DEF Lock
  <2>2. ASSUME NEW o \in Op PROVE op'[o] \in OpRecord /\ OpSound(op'[o])
    <3>1. /\ op'[o] = [calls[o] EXCEPT !.mixed = op'[o].mixed] /\ op'[o].mixed \in BOOLEAN
          /\ calls[o] \in OpRecord
      BY <2>1 DEF OpRecord
    <3> QED
      BY <3>1 DEF OpRecord, OpSound
  <2> QED
    BY <1>1, <2>1, <2>2 DEF OpsTyped, OpSound
<1>3. TabTyped'
  <2>1. bytes' \in [Session -> Keys]
    BY DEF Lock, Typed, TabTyped, Keys
  <2>2. logouts' \subseteq Session
    BY BoundAssumption DEF Lock, Typed, TabTyped, Session, NoKey
  <2>3. dek' = 0 /\ UNCHANGED <<token, owner, logins, opening>> /\ list' = {}
    BY DEF Lock, NoKey, Cleared
  <2> QED
    BY <2>1, <2>2, <2>3, BoundAssumption DEF Typed, TabTyped, NoKey
<1> QED
  BY <1>2, <1>3 DEF Lock

LEMMA CallTyped ==
  ASSUME Typed, NEW o \in Op, Call(o)
  PROVE  Typed'
<1>1. ASSUME NEW i \in Item, UpdateItem(o, i) \/ DeleteItem(o, i) PROVE Typed'
  BY <1>1, BeginTyped, BoundAssumption DEF UpdateItem, DeleteItem, Kinds
<1>2. CASE LoadItems(o) \/ AddItem(o)
  BY <1>2, BeginTyped, BoundAssumption DEF LoadItems, AddItem, Kinds
<1>3. ASSUME NEW k \in Rewraps, ChangeAccount(o, k) PROVE Typed'
  BY <1>3, BeginTyped, BoundAssumption DEF ChangeAccount, Kinds, Rewraps
<1> QED
  BY <1>1, <1>2, <1>3 DEF Call

LEMMA SignInTyped ==
  ASSUME Typed, UNCHANGED begun,
         \/ \E a \in Account : LoginAnswered(a)
         \/ LoginOpens \/ LockPressed
         \/ \E s \in Session : LogoutSettles(s)
  PROVE  Typed'
<1> USE BoundAssumption
<1>1. ASSUME NEW a \in Account, LoginAnswered(a) PROVE Typed'
  <2>1. logins' = logins + 1 /\ logins' \in 1 .. MaxLogins /\ op' = op
    BY <1>1 DEF LoginAnswered, Typed, TabTyped
  <2>2. OpsTyped'
    BY <2>1 DEF Typed, OpsTyped, OpSound, OpRecord, TabTyped
  <2>3. doors[a]["password"] \in Keys
    BY DEF Typed, ServerTyped
  <2>4. TabTyped'
    BY <1>1, <2>1, <2>3 DEF LoginAnswered, Typed, TabTyped, Session, NoKey
  <2> QED
    BY <1>1, <2>2, <2>4
       DEF LoginAnswered, Typed, ServerTyped, RestTyped, server, history
<1>2. CASE LoginOpens
  BY <1>2 DEF LoginOpens, Typed, OpsTyped, OpSound, TabTyped, ServerTyped, RestTyped, server,
              history, NoKey
<1>3. CASE LockPressed
  BY <1>3, LockTyped DEF LockPressed, Typed, OpsTyped, ServerTyped, RestTyped, server
<1>4. ASSUME NEW s \in Session, LogoutSettles(s) PROVE Typed'
  BY <1>4 DEF LogoutSettles, Typed, OpsTyped, OpSound, TabTyped, ServerTyped, RestTyped,
              server, history, NoKey
<1> QED
  BY <1>1, <1>2, <1>3, <1>4

LEMMA ProceedTyped ==
  ASSUME Typed, NEW o \in Op, Proceed(o), UNCHANGED begun
  PROVE  Typed'
<1> USE BoundAssumption DEF Typed
<1>1. CASE Send(o) \/ Wrap(o) \/ SendWrapped(o) \/ Decrypt(o)
  <2>1. token \in 0 .. logins /\ logins <= MaxLogins /\ logins \in Nat
    BY DEF TabTyped
  <2>2. op[o].stage # "idle" => bytes[op[o].sess] \in Keys
    BY <2>1 DEF OpsTyped, OpSound, OpRecord, TabTyped, NoKey, Session
  <2>3. /\ UNCHANGED <<tab, server, history>>
        /\ \/ op' = [op EXCEPT ![o].stage = "sent", ![o].tok = token, ![o].key = op[o].key]
           \/ /\ op' = [op EXCEPT ![o].stage = "wrapped", ![o].key = bytes[op[o].sess]]
              /\ op[o].kind \in Rewraps
           \/ op' = [op EXCEPT ![o].stage = "sent", ![o].tok = token]
           \/ op' = [op EXCEPT ![o].stage = "decrypting"]
        /\ op[o].stage # "idle"
    BY <1>1 DEF Send, Wrap, SendWrapped, Decrypt, KeyUsed
  <2>4. op' \in [Op -> OpRecord]
    BY <2>1, <2>2, <2>3 DEF OpsTyped, OpRecord, Stages
  <2>5. \A p \in Op : OpSound(op[p])'
    BY <2>1, <2>3 DEF OpsTyped, OpRecord, OpSound, tab
  <2> QED
    BY <2>3, <2>4, <2>5 DEF OpsTyped, TabTyped, ServerTyped, RestTyped, tab, server, history
<1>2. CASE ServeList(o)
  <2> DEFINE S == {[id |-> i, ver |-> rows[i].ver, seal |-> rows[i].seal] : i \in RowsOf(Caller(o))}
  <2>1. S \in SUBSET Blob
    BY DEF ServerTyped, RowsOf, Blob
  <2>2. /\ op' = [op EXCEPT ![o].stage = "answered", ![o].snap = S]
        /\ UNCHANGED <<tab, server, history>> /\ op[o].stage = "sent" /\ op[o].kind = "load"
    BY <1>2 DEF ServeList
  <2> HIDE DEF S
  <2>3. op' \in [Op -> OpRecord] /\ \A p \in Op : OpSound(op[p])'
    <3>1. ASSUME NEW c \in OpRecord PROVE [c EXCEPT !.stage = "answered", !.snap = S] \in OpRecord
      BY <2>1 DEF OpRecord, Stages
    <3>2. op' \in [Op -> OpRecord]
      BY <2>2, <3>1 DEF OpsTyped
    <3>3. /\ op'[o].tok = op[o].tok /\ op'[o].sess = op[o].sess /\ op'[o].kind = "load"
          /\ op'[o].stage = "answered" /\ op[o].stage = "sent" /\ logins' = logins
      BY <2>2 DEF OpsTyped, OpRecord, tab
    <3>4. OpSound(op'[o])
      BY <3>3 DEF OpsTyped, OpSound, Rewraps
    <3>5. ASSUME NEW p \in Op, p # o PROVE OpSound(op'[p])
      BY <2>2, <3>5 DEF OpsTyped
    <3> QED
      BY <3>2, <3>3, <3>4, <3>5 DEF OpSound
  <2> QED
    BY <2>2, <2>3 DEF OpsTyped, TabTyped, ServerTyped, RestTyped, tab, server, history
<1>3. ASSUME NEW i \in Item, ServeAdd(o, i) PROVE Typed'
  <2>1. OpsTyped'
    BY <1>3 DEF ServeAdd, OpsTyped, OpRecord, OpSound, Stages, tab
  <2>2. Caller(o) \in Account \union {Nobody}
    BY DEF Caller, OpsTyped, OpRecord, TabTyped, NoKey, Session
  <2>3. ServerTyped'
    BY <1>3, <2>2 DEF ServeAdd, OpsTyped, OpRecord, ServerTyped
  <2> QED
    BY <1>3, <2>1, <2>3 DEF ServeAdd, Crossing, TabTyped, RestTyped, tab
<1>4. CASE ServeWrite(o)
  <2>1. OpsTyped'
    BY <1>4 DEF ServeWrite, Answer, OpsTyped, OpRecord, OpSound, Stages, tab
  <2>2. op[o].item \in Item /\ op[o].key \in Keys /\ op[o].ver \in 0 .. MaxVersion
    BY <1>4 DEF ServeWrite, OpsTyped, OpRecord, OpSound
  <2>3. ServerTyped'
    BY <1>4, <2>2 DEF ServeWrite, ServerTyped, Keys
  <2> QED
    BY <1>4, <2>1, <2>2, <2>3 DEF ServeWrite, Crossing, TabTyped, RestTyped, tab
<1>5. CASE ServeRewrap(o)
  <2>1. OpsTyped'
    BY <1>5 DEF ServeRewrap, Answer, OpsTyped, OpRecord, OpSound, Stages, tab, Rewraps
  <2>2. op[o].key \in Keys /\ Caller(o) \in Account
    BY <1>5 DEF ServeRewrap, Caller, OpsTyped, OpRecord, TabTyped, NoKey, Session
  <2>3. ServerTyped'
    BY <1>5, <2>2 DEF ServeRewrap, ServerTyped
  <2> QED
    BY <1>5, <2>1, <2>2, <2>3 DEF ServeRewrap, TabTyped, RestTyped, tab
<1>6. Ends(o) \in [Op -> OpRecord] /\ \A p \in Op : OpSound(Ends(o)[p])
  BY FreshTyped, FreshSound DEF Ends, OpsTyped, TabTyped
<1>7. CASE LoadEnds(o)
  <2>1. op[o].snap \subseteq Blob
    BY DEF OpsTyped, OpRecord
  <2>2. list' \subseteq Entry
    BY <1>7, <2>1 DEF LoadEnds, Blob, Entry
  <2>3. muddled' \subseteq Item /\ loaded' \in BOOLEAN
    BY <1>7 DEF LoadEnds, RestTyped
  <2>4. OpsTyped' /\ TabTyped'
    BY <1>6, <1>7, <2>2 DEF LoadEnds, OpsTyped, OpSound, TabTyped
  <2> QED
    BY <1>7, <2>3, <2>4 DEF LoadEnds, ServerTyped, RestTyped, server
<1>8. CASE WriteEnds(o)
  <2>1. op[o].item \in Item /\ op[o].ver \in 0 .. MaxVersion /\ list \subseteq Entry
    BY <1>8 DEF WriteEnds, OpsTyped, OpRecord, OpSound, TabTyped
  <2>2. list' \subseteq Entry
    BY <1>8, <2>1 DEF WriteEnds, Applied, Entry
  <2>3. OpsTyped' /\ TabTyped'
    BY <1>6, <1>8, <2>2 DEF WriteEnds, OpsTyped, OpSound, TabTyped
  <2> QED
    BY <1>8, <2>1, <2>3 DEF WriteEnds, ServerTyped, RestTyped, server
<1>9. CASE RewrapEnds(o)
  BY <1>6, <1>9, LockTyped
     DEF RewrapEnds, OpsTyped, TabTyped, ServerTyped, RestTyped, OpSound, tab, server, history
<1>10. CASE OpFails(o)
  BY <1>6, <1>10, LockTyped
     DEF OpFails, OpsTyped, OpRecord, TabTyped, ServerTyped, RestTyped, OpSound, tab, server
<1> QED
  BY <1>1, <1>2, <1>3, <1>4, <1>5, <1>7, <1>8, <1>9, <1>10 DEF Proceed

LEMMA InitTyped == Init => Typed
<1> SUFFICES ASSUME Init PROVE Typed
  OBVIOUS
<1> USE BoundAssumption DEF Init
<1>1. OpsTyped
  BY FreshTyped, FreshSound DEF OpsTyped
<1>2. TabTyped
  BY DEF TabTyped, NoKey, Session, Keys
<1>3. ServerTyped
  BY DEF ServerTyped, NoRow, Keys
<1>4. RestTyped
  <2>1. begun = 0 /\ loaded = FALSE /\ cut = FALSE /\ muddled = {} /\ crossed = {} /\ gutted = {}
    OBVIOUS
  <2>2. begun \in 0 .. MaxCalls
    BY <2>1
  <2>3. loaded \in BOOLEAN /\ cut \in BOOLEAN
    BY <2>1, Zenon
  <2> QED
    BY <2>1, <2>2, <2>3, Zenon DEF RestTyped
<1> QED
  BY <1>1, <1>2, <1>3, <1>4 DEF Typed

LEMMA StepTyped == Typed /\ [Next]_vars => Typed'
<1> SUFFICES ASSUME Typed, [Next]_vars PROVE Typed'
  OBVIOUS
<1>1. CASE UNCHANGED vars
  BY <1>1 DEF Typed, OpsTyped, OpSound, TabTyped, ServerTyped, RestTyped, vars, tab, server,
              history
<1> QED
  BY <1>1, CallTyped, SignInTyped, ProceedTyped DEF Next

-----------------------------------------------------------------------------
(* Keys.                                                                   *)

LEMMA InitKeyed == Init => Keyed
<1> SUFFICES ASSUME Init PROVE Keyed
  OBVIOUS
<1>1. DoorsSound
  BY DEF Init, DoorsSound
<1>2. ArraysSound
  BY DEF Init, ArraysSound
<1>3. QuietLocked
  <2>1. list = {} /\ \A o \in Op : op[o] = Fresh
    BY DEF Init
  <2> QED
    BY <2>1 DEF QuietLocked, Fresh
<1>4. CallsKeyed
  <2>1. \A o \in Op : op[o] = Fresh
    BY DEF Init
  <2> QED
    BY <2>1 DEF CallsKeyed, CallKeyed, Fresh
<1>5. SealedByOwner
  BY DEF Init, SealedByOwner, NoRow
<1> QED
  BY <1>1, <1>2, <1>3, <1>4, <1>5 DEF Keyed

\* A call that begins takes the key of the session on screen.
LEMMA BeginKeyed ==
  ASSUME IInv, NEW o \in Op, NEW k \in Kinds, NEW i \in Item \union {NoItem},
         NEW v \in 0 .. MaxVersion, Begin(o, k, i, v)
  PROVE  Keyed'
<1> DEFINE hits == {p \in Op : InFlight(p) /\ Conflict(k, i, op[p].kind, op[p].item)}
           c == [Fresh EXCEPT !.kind = k, !.sess = dek, !.item = i, !.ver = v,
                   !.stage = IF k \in {"load", "delete"} THEN "sent" ELSE "working",
                   !.tok = IF k \in {"load", "delete"} THEN token ELSE NoKey,
                   !.key = IF k \in {"add", "update"} THEN bytes[dek] ELSE Nobody,
                   !.mixed = hits # {}]
<1>1. dek # NoKey /\ dek \in 1 .. logins
  <2>1. dek # NoKey
    BY DEF Begin
  <2> QED
    BY <2>1, BoundAssumption DEF IInv, Typed, TabTyped, NoKey
<1>2. /\ op' = [p \in Op |-> IF p = o THEN c
                             ELSE IF p \in hits THEN [op[p] EXCEPT !.mixed = TRUE] ELSE op[p]]
      /\ UNCHANGED <<tab, server, history>>
  BY DEF Begin
<1>3. CallKeyed(c)
  <2>1. /\ c.kind = k /\ c.sess = dek
        /\ c.stage = IF k \in {"load", "delete"} THEN "sent" ELSE "working"
        /\ k \in {"add", "update"} => c.key = bytes[dek]
    BY DEF Fresh
  <2>2. bytes[dek] = owner[dek] \/ owner[dek] \in gutted
    BY <1>1 DEF IInv, Keyed, ArraysSound
  <2> HIDE DEF c
  <2> QED
    BY <2>1, <2>2 DEF CallKeyed, Rewraps
<1> HIDE DEF c, hits
<1>4. ASSUME NEW p \in Op PROVE CallKeyed(op'[p])
  BY <1>2, <1>3 DEF IInv, Typed, OpsTyped, OpRecord, Keyed, CallsKeyed, CallKeyed
<1>5. CallsKeyed'
  BY <1>2, <1>4 DEF CallsKeyed, CallKeyed, tab, history
<1> QED
  BY <1>1, <1>2, <1>5
     DEF IInv, Keyed, DoorsSound, ArraysSound, QuietLocked, SealedByOwner, tab, server, history

LEMMA CallKeyedStep ==
  ASSUME IInv, NEW o \in Op, Call(o)
  PROVE  Keyed'
<1>1. ASSUME NEW i \in Item, UpdateItem(o, i) \/ DeleteItem(o, i) PROVE Keyed'
  BY <1>1, BeginKeyed, BoundAssumption DEF UpdateItem, DeleteItem, Kinds
<1>2. CASE LoadItems(o) \/ AddItem(o)
  BY <1>2, BeginKeyed, BoundAssumption DEF LoadItems, AddItem, Kinds
<1>3. ASSUME NEW k \in Rewraps, ChangeAccount(o, k) PROVE Keyed'
  BY <1>3, BeginKeyed, BoundAssumption DEF ChangeAccount, Kinds, Rewraps
<1> QED
  BY <1>1, <1>2, <1>3 DEF Call

\* The lock zeroes the array on screen; whatever is in flight keeps the copy it took.
LEMMA LockKeyed ==
  ASSUME IInv, NEW calls \in [Op -> OpRecord], \A o \in Op : CallKeyed(calls[o]), Lock(calls),
         UNCHANGED <<server, crossed, gutted>>
  PROVE  Keyed'
<1> USE BoundAssumption
<1>1. /\ bytes' = IF dek = NoKey THEN bytes ELSE [bytes EXCEPT ![dek] = Zeros]
      /\ dek' = NoKey /\ list' = {}
      /\ op' = [o \in Op |-> [calls[o] EXCEPT !.mixed = @ \/ calls[o].stage # "idle"]]
      /\ cut' = \E o \in Op : calls[o].stage # "idle"
      /\ UNCHANGED <<owner, logins, opening>>
  BY DEF Lock, Cleared
<1>2. DoorsSound' /\ SealedByOwner'
  BY DEF IInv, Keyed, DoorsSound, SealedByOwner, server
<1>3. ArraysSound'
  BY <1>1 DEF IInv, Typed, TabTyped, Keyed, ArraysSound, NoKey, Session
<1>4. ASSUME NEW o \in Op
      PROVE  /\ op'[o].stage = calls[o].stage /\ op'[o].kind = calls[o].kind
             /\ op'[o].key = calls[o].key /\ op'[o].sess = calls[o].sess
  BY <1>1 DEF OpRecord
<1>5. CallsKeyed'
  <2> SUFFICES ASSUME NEW o \in Op PROVE CallKeyed(op[o])'
    BY DEF CallsKeyed
  <2>1. CallKeyed(calls[o]) /\ owner' = owner /\ gutted' = gutted
    BY <1>1
  <2> QED
    BY ONLY <2>1, <1>4 DEF CallKeyed
<1>6. QuietLocked'
  BY <1>1, <1>4 DEF QuietLocked
<1> QED
  BY <1>2, <1>3, <1>5, <1>6 DEF Keyed

LEMMA SignInKeyed ==
  ASSUME IInv,
         \/ \E a \in Account : LoginAnswered(a)
         \/ LoginOpens \/ LockPressed
         \/ \E s \in Session : LogoutSettles(s)
  PROVE  Keyed'
<1> USE BoundAssumption DEF IInv
<1>1. ASSUME NEW a \in Account, LoginAnswered(a) PROVE Keyed'
  <2>1. /\ logins' = logins + 1 /\ logins' \in 1 .. MaxLogins /\ logins \in Nat
        /\ dek = NoKey /\ opening = NoKey /\ dek' = dek /\ opening' = logins + 1
        /\ owner' = [owner EXCEPT ![logins + 1] = a]
        /\ bytes' = [bytes EXCEPT ![logins + 1] = doors[a]["password"]]
        /\ UNCHANGED <<list, server, op, history>>
    BY <1>1 DEF LoginAnswered, Typed, TabTyped
  <2>2. doors[a]["password"] = a \/ (doors[a]["password"] = Zeros /\ a \in gutted)
    BY DEF Keyed, DoorsSound
  <2>3. ArraysSound'
    BY <2>1, <2>2 DEF Typed, TabTyped, Keyed, ArraysSound, Session, NoKey, history
  <2>4. CallsKeyed'
    <3>1. ASSUME NEW o \in Op, op[o].stage # "idle" PROVE owner'[op[o].sess] = owner[op[o].sess]
      BY <2>1, <3>1 DEF Typed, OpsTyped, OpSound, OpRecord, TabTyped, Session, NoKey
    <3> QED
      BY <2>1, <3>1 DEF Keyed, CallsKeyed, CallKeyed, history
  <2> QED
    BY <2>1, <2>3, <2>4 DEF Keyed, DoorsSound, QuietLocked, SealedByOwner, server, history
<1>2. CASE LoginOpens
  BY <1>2 DEF LoginOpens, Keyed, DoorsSound, ArraysSound, QuietLocked, CallsKeyed, CallKeyed,
              SealedByOwner, Typed, TabTyped, NoKey, server, history
<1>3. CASE LockPressed
  BY <1>3, LockKeyed DEF LockPressed, Typed, OpsTyped, Keyed, CallsKeyed
<1>4. ASSUME NEW s \in Session, LogoutSettles(s) PROVE Keyed'
  BY <1>4 DEF LogoutSettles, Keyed, DoorsSound, ArraysSound, QuietLocked, CallsKeyed, CallKeyed,
              SealedByOwner, server, history
<1> QED
  BY <1>1, <1>2, <1>3, <1>4

LEMMA ProceedKeyed ==
  ASSUME IInv, NEW o \in Op, Proceed(o)
  PROVE  Keyed'
<1> USE BoundAssumption DEF IInv
<1> DEFINE Sound == ArraysSound /\ DoorsSound /\ SealedByOwner
<1>1. op[o].stage # "idle" => /\ op[o].sess \in 1 .. logins /\ owner[op[o].sess] \in Account
                              /\ bytes[op[o].sess] \in {owner[op[o].sess], Zeros}
                              /\ ~(dek = NoKey /\ ~cut)
  BY DEF Typed, OpsTyped, OpSound, OpRecord, TabTyped, NoKey, Keyed, ArraysSound, QuietLocked
<1>2. op \in [Op -> OpRecord] /\ \A p \in Op : CallKeyed(op[p])
  BY DEF Typed, OpsTyped, Keyed, CallsKeyed
<1>3. CASE Send(o) \/ Wrap(o) \/ SendWrapped(o) \/ Decrypt(o) \/ ServeList(o)
  <2>1. UNCHANGED <<tab, server, history>> /\ op[o].stage # "idle"
    BY <1>3 DEF Send, Wrap, SendWrapped, Decrypt, ServeList
  <2>2. CallKeyed(op'[o]) /\ \A p \in Op : p # o => op'[p] = op[p]
    <3>1. CASE Send(o)
      BY <3>1, <1>2 DEF Send, KeyUsed, CallKeyed, OpRecord
    <3>2. CASE Wrap(o)
      BY <3>2, <1>1, <1>2 DEF Wrap, CallKeyed, OpRecord, Rewraps
    <3>3. CASE SendWrapped(o)
      BY <3>3, <1>2 DEF SendWrapped, CallKeyed, OpRecord
    <3>4. CASE Decrypt(o)
      BY <3>4, <1>2 DEF Decrypt, CallKeyed, OpRecord, Rewraps
    <3>5. CASE ServeList(o)
      BY <3>5, <1>2 DEF ServeList, CallKeyed, OpRecord, Rewraps
    <3> QED
      BY <1>3, <3>1, <3>2, <3>3, <3>4, <3>5
  <2> QED
    BY <1>1, <1>2, <2>1, <2>2
       DEF Keyed, DoorsSound, ArraysSound, QuietLocked, CallsKeyed, CallKeyed, SealedByOwner,
           tab, server, history
<1>4. ASSUME NEW i \in Item, ServeAdd(o, i) PROVE Keyed'
  <2>1. /\ op[o].stage = "sent" /\ op[o].kind = "add"
        /\ rows' = [rows EXCEPT ![i] = [acct |-> Caller(o), seal |-> op[o].key, ver |-> op[o].ver]]
        /\ op' = [op EXCEPT ![o].stage = "answered", ![o].item = i]
        /\ crossed' = IF op[o].sess = op[o].tok THEN crossed ELSE crossed \union {i}
        /\ UNCHANGED <<tab, doors, gutted, cut>>
    BY <1>4 DEF ServeAdd, Crossing
  <2>2. CallsKeyed'
    BY <1>2, <2>1 DEF CallsKeyed, CallKeyed, OpRecord, Rewraps, tab
  <2>3. SealedByOwner'
    BY <1>1, <1>2, <2>1 DEF Keyed, SealedByOwner, Caller, CallKeyed, Typed, ServerTyped, NoKey
  <2> QED
    BY <1>1, <2>1, <2>2, <2>3 DEF Keyed, DoorsSound, ArraysSound, QuietLocked, tab
<1>5. CASE ServeWrite(o)
  <2> DEFINE i == op[o].item
  <2>1. /\ op[o].stage = "sent" /\ op[o].kind \in {"update", "delete"}
        /\ rows[i].acct = Caller(o)
        /\ rows' = [rows EXCEPT ![i] =
             IF op[o].kind = "delete" THEN [@ EXCEPT !.acct = Nobody, !.seal = Nobody]
             ELSE [@ EXCEPT !.seal = op[o].key, !.ver = op[o].ver]]
        /\ op' = [op EXCEPT ![o].stage = "answered"]
        /\ crossed' = IF op[o].sess = op[o].tok THEN crossed ELSE crossed \union {i}
        /\ UNCHANGED <<tab, doors, gutted, cut>>
    BY <1>5 DEF ServeWrite, Crossing, Answer
  <2>2. CallsKeyed'
    BY <1>2, <2>1 DEF CallsKeyed, CallKeyed, OpRecord, Rewraps, tab
  <2>3. SealedByOwner'
    <3>1. i \in Item
      BY <2>1 DEF Typed, OpsTyped, OpSound
    <3>2. \A j \in Item : j # i => rows'[j] = rows[j]
      BY <2>1 DEF Typed, ServerTyped
    <3>3. CASE op[o].kind = "delete"
      <4>1. rows'[i].acct = Nobody
        BY <2>1, <3>1, <3>3 DEF Typed, ServerTyped
      <4> QED
        BY <2>1, <3>2, <4>1 DEF Keyed, SealedByOwner
    <3>4. CASE op[o].kind = "update"
      <4>1. rows'[i].acct = Caller(o) /\ rows'[i].seal = op[o].key
        BY <2>1, <3>1, <3>4 DEF Typed, ServerTyped
      <4>2. op[o].key = owner[op[o].sess] \/ owner[op[o].sess] \in gutted
        BY <1>2, <2>1, <3>4 DEF CallKeyed
      <4>3. op[o].sess = op[o].tok => Caller(o) = owner[op[o].sess]
        BY <1>1, <2>1 DEF Caller, NoKey
      <4> QED
        BY <2>1, <3>2, <4>1, <4>2, <4>3 DEF Keyed, SealedByOwner
    <3> QED
      BY <2>1, <3>3, <3>4
  <2> QED
    BY <1>1, <2>1, <2>2, <2>3 DEF Keyed, DoorsSound, ArraysSound, QuietLocked, tab
<1>6. CASE ServeRewrap(o)
  <2>1. /\ op[o].stage = "sent" /\ op[o].kind \in Rewraps /\ Caller(o) = owner[op[o].sess]
        /\ doors' = [doors EXCEPT ![Caller(o)][IF op[o].kind = "regenerateKit" THEN "recovery"
                                               ELSE "password"] = op[o].key]
        /\ gutted' = IF op[o].key = Zeros THEN gutted \union {Caller(o)} ELSE gutted
        /\ op' = [op EXCEPT ![o].stage = "answered"]
        /\ UNCHANGED <<tab, rows, crossed, cut>>
    BY <1>6 DEF ServeRewrap, Answer
  <2>2. op[o].key \in {Caller(o), Zeros}
    BY <1>2, <2>1 DEF CallKeyed
  <2>3. gutted \subseteq gutted'
    BY <2>1
  <2>4. DoorsSound'
    BY <2>1, <2>2, <2>3 DEF Keyed, DoorsSound, Typed, ServerTyped
  <2>5. CallsKeyed'
    BY <1>2, <2>1, <2>3 DEF CallsKeyed, CallKeyed, OpRecord, Rewraps, tab
  <2>6. ArraysSound' /\ SealedByOwner'
    BY <2>1, <2>3 DEF Keyed, ArraysSound, SealedByOwner, tab
  <2> QED
    BY <1>1, <2>1, <2>4, <2>5, <2>6 DEF Keyed, QuietLocked, tab
<1>7. Ends(o) \in [Op -> OpRecord] /\ \A p \in Op : CallKeyed(Ends(o)[p])
  <2>1. CallKeyed(Fresh)
    BY DEF Fresh, CallKeyed
  <2> QED
    BY <1>2, <2>1, FreshTyped DEF Ends
<1>8. ASSUME op[o].stage # "idle", op' = Ends(o),
             UNCHANGED <<dek, opening, owner, bytes, logins, server, crossed, gutted, cut>>
      PROVE  Keyed'
  BY <1>1, <1>7, <1>8
     DEF Keyed, DoorsSound, ArraysSound, QuietLocked, CallsKeyed, CallKeyed, SealedByOwner, server
<1>9. CASE LoadEnds(o) \/ WriteEnds(o)
  BY <1>8, <1>9 DEF LoadEnds, WriteEnds
<1>10. CASE RewrapEnds(o)
  BY <1>7, <1>8, <1>10, LockKeyed DEF RewrapEnds, tab, history
<1>11. CASE OpFails(o)
  BY <1>7, <1>8, <1>11, LockKeyed DEF OpFails, InFlight, tab
<1> QED
  BY <1>3, <1>4, <1>5, <1>6, <1>9, <1>10, <1>11 DEF Proceed

LEMMA StepKeyed == IInv /\ [Next]_vars => Keyed'
<1> SUFFICES ASSUME IInv, [Next]_vars PROVE Keyed'
  OBVIOUS
<1>1. CASE UNCHANGED vars
  BY <1>1 DEF IInv, Keyed, DoorsSound, ArraysSound, QuietLocked, CallsKeyed, CallKeyed,
              SealedByOwner, vars, tab, server, history
<1> QED
  BY <1>1, CallKeyedStep, SignInKeyed, ProceedKeyed DEF Next

-----------------------------------------------------------------------------
(* The invariant of VaultSession: what every variable may hold, which key  *)
(* each array, wrapper and call in flight carries, and that a quietly      *)
(* locked tab is empty.                                                    *)
THEOREM Invariance == Spec => []IInv
<1>1. Init => IInv
  BY InitTyped, InitKeyed DEF IInv
<1>2. IInv /\ [Next]_vars => IInv'
  BY StepTyped, StepKeyed DEF IInv
<1> QED
  BY <1>1, <1>2, PTL DEF Spec

\* Every variable of the tab, of its calls and of the server is of its kind.
THEOREM TypeCorrect == Spec => []TypeOK
<1>1. IInv => TypeOK
  <2> SUFFICES ASSUME IInv PROVE TypeOK
    OBVIOUS
  <2>1. /\ dek \in 0 .. MaxLogins /\ token \in 0 .. MaxLogins /\ opening \in 0 .. MaxLogins
        /\ logins \in 0 .. MaxLogins /\ logouts \subseteq Session
        /\ owner \in [Session -> Account \union {Nobody}] /\ bytes \in [Session -> Keys]
    BY BoundAssumption DEF IInv, Typed, TabTyped
  <2>2. ASSUME NEW o \in Op
        PROVE  /\ DOMAIN op[o] = DOMAIN Fresh /\ op[o].stage \in Stages
               /\ op[o].kind \in Kinds \union {"none"} /\ op[o].item \in Item \union {NoItem}
    BY FreshTyped DEF IInv, Typed, OpsTyped, OpRecord
  <2>3. ServerTyped /\ RestTyped /\ list \subseteq Entry
    BY DEF IInv, Typed, TabTyped
  <2> QED
    BY <2>1, <2>2, <2>3 DEF TypeOK, ServerTyped, RestTyped, Stages
<1> QED
  BY <1>1, Invariance, PTL

\* After a lock no array holds a key, and a tab that was locked while nothing
\* was in flight shows nothing.
THEOREM LockWipes == Spec => []LockLeavesNothing
<1>1. IInv => LockLeavesNothing
  BY DEF IInv, Keyed, ArraysSound, QuietLocked, LockLeavesNothing
<1> QED
  BY <1>1, Invariance, PTL

\* Every stored blob opens with the key of its account, but for the named exceptions.
THEOREM BlobsOpen == Spec => []SealedByOwner
<1>1. IInv => SealedByOwner
  BY DEF IInv, Keyed
<1> QED
  BY <1>1, Invariance, PTL

-----------------------------------------------------------------------------
(* The list and the rows.                                                  *)

Writes == {"add", "update", "delete"}

\* A call in flight that writes item i; a call in flight that nothing has disturbed.
About(c, i) == c.stage # "idle" /\ c.kind \in Writes /\ c.item = i
Clean(c)    == c.stage # "idle" /\ ~c.mixed
Answered(c, i) == About(c, i) /\ c.stage = "answered"

\* An undisturbed load has no write beside it, two writes of one item disturb each other.
Apart ==
  \A o, p \in Op :
    /\ Clean(op[o]) /\ op[o].kind = "load" => op[p].stage = "idle" \/ op[p].kind \notin Writes
    /\ \A i \in Item : o # p /\ About(op[o], i) /\ About(op[p], i) => op[o].mixed

\* A call that nothing disturbed is of the session on screen, and so is its token.
CallHere(c) ==
  /\ Clean(c) => dek # NoKey /\ c.sess = dek /\ c.tok \in {NoKey, dek}
  /\ c.stage = "decrypting" => c.kind = "load"
  /\ c.kind = "add" /\ c.stage \in {"working", "sent"} => c.item = NoItem

TokenHere ==
  /\ dek # NoKey => token \in {NoKey, dek}
  /\ opening # NoKey => token \in {NoKey, opening}
  /\ loaded => dek # NoKey

Here == TokenHere /\ \A o \in Op : CallHere(op[o])

\* The answer to an undisturbed load is what the server holds now.
Rows(a) == {[id |-> i, ver |-> rows[i].ver, seal |-> rows[i].seal] : i \in RowsOf(a)}

Fetched(c) == Clean(c) /\ c.kind = "load" /\ c.stage \in {"answered", "decrypting"}

SnapCurrent == \A o \in Op : Fetched(op[o]) => op[o].snap = Rows(Me)

Entries(i) == {e \in list : e.id = i}
Agrees(i)  == IF rows[i].acct = Me
              THEN \E e \in Entries(i) : Entries(i) = {e} /\ e.ver = rows[i].ver
              ELSE Entries(i) = {}

\* The server has applied c to item i and the list has not.
Ahead(c, i) ==
  /\ c.kind = "add"    => rows[i].acct = Me /\ rows[i].ver = c.ver /\ Entries(i) = {}
  /\ c.kind = "update" => /\ rows[i].acct = Me /\ rows[i].ver = c.ver
                          /\ \E e \in Entries(i) : Entries(i) = {e}
  /\ c.kind = "delete" => rows[i].acct # Me

\* The list agrees with the server about i, or is one answered write behind it.
Follows(i) ==
  loaded /\ i \notin muddled /\ (\A o \in Op : About(op[o], i) => ~op[o].mixed) =>
    /\ \A o \in Op : Answered(op[o], i) => Ahead(op[o], i)
    /\ (\A o \in Op : ~Answered(op[o], i)) => Agrees(i)

AllFollow == \A i \in Item : Follows(i)

Following == Apart /\ Here /\ SnapCurrent /\ AllFollow

\* A step carries a call on: it ends, or it stays what it is and as disturbed as it was.
Carried(c, d) ==
  \/ d.stage = "idle"
  \/ /\ c.stage # "idle" /\ d.kind = c.kind /\ d.item = c.item /\ d.ver = c.ver
     /\ c.mixed => d.mixed

LEMMA ApartKept ==
  ASSUME Apart, \A p \in Op : Carried(op[p], op'[p])
  PROVE  Apart'
BY DEF Apart, Carried, Clean, About

\* A step that leaves the row, the entries and the writes of an item alone leaves it followed.
LEMMA FollowsKept ==
  ASSUME NEW i \in Item, Follows(i), rows'[i] = rows[i], Entries(i)' = Entries(i),
         loaded' => loaded /\ Me' = Me, i \in muddled => i \in muddled',
         \A p \in Op : /\ About(op[p], i) => About(op'[p], i) /\ (op[p].mixed => op'[p].mixed)
                       /\ Answered(op[p], i) \/ Answered(op'[p], i) =>
                            /\ Answered(op[p], i) /\ Answered(op'[p], i)
                            /\ op'[p].kind = op[p].kind /\ op'[p].ver = op[p].ver
  PROVE  Follows(i)'
<1> SUFFICES ASSUME loaded', i \notin muddled', \A p \in Op : About(op'[p], i) => ~op'[p].mixed
             PROVE  /\ \A p \in Op : Answered(op'[p], i) => Ahead(op[p], i)'
                    /\ (\A p \in Op : ~Answered(op'[p], i)) => Agrees(i)'
  BY DEF Follows, About, Answered, Ahead
<1>1. /\ \A p \in Op : Answered(op[p], i) => Ahead(op[p], i)
      /\ (\A p \in Op : ~Answered(op[p], i)) => Agrees(i)
  BY DEF Follows
<1>2. ASSUME NEW p \in Op, Answered(op'[p], i) PROVE Ahead(op[p], i)'
  <2>1. Ahead(op[p], i) /\ op'[p].kind = op[p].kind /\ op'[p].ver = op[p].ver
    BY <1>1, <1>2
  <2> QED
    BY <2>1 DEF Ahead
<1>3. Agrees(i) => Agrees(i)'
  BY DEF Agrees
<1> QED
  BY <1>1, <1>2, <1>3

\* While the list is not known to be what a load brought, nothing is claimed of it.
LEMMA UnloadedFollows == ~loaded' => AllFollow'
BY DEF AllFollow, Follows

\* Me and the rows of an account, told from what they are made of.
LEMMA SnapKept ==
  ASSUME SnapCurrent, dek' = dek, dek # NoKey => owner'[dek] = owner[dek], rows' = rows,
         \A p \in Op : Fetched(op'[p]) => Fetched(op[p]) /\ op'[p].snap = op[p].snap
  PROVE  SnapCurrent'
<1>1. Me' = Me
  BY DEF Me
<1>2. Rows(Me)' = Rows(Me)
  BY <1>1 DEF Rows, RowsOf
<1> QED
  BY <1>2 DEF SnapCurrent, Fetched, Clean

LEMMA InitFollowing == Init => Following
<1> SUFFICES ASSUME Init PROVE Following
  OBVIOUS
<1>1. /\ \A o \in Op : op[o] = Fresh
      /\ dek = NoKey /\ opening = NoKey /\ loaded = FALSE
  BY DEF Init
<1>2. Fresh.stage = "idle"
  BY DEF Fresh
<1>3. Apart /\ SnapCurrent
  BY <1>1, <1>2 DEF Apart, SnapCurrent, Fetched, Clean, About
<1>4. Here
  BY <1>1, <1>2 DEF Here, CallHere, TokenHere, Clean
<1> QED
  BY <1>1, <1>3, <1>4 DEF Following, AllFollow, Follows

\* A call that begins disturbs the loads or writes it overlaps, and is disturbed by them.
LEMMA BeginFollows ==
  ASSUME IInv, Following, NEW o \in Op, NEW k \in Kinds, NEW i \in Item \union {NoItem},
         NEW v \in 0 .. MaxVersion, Begin(o, k, i, v), k \in {"update", "delete"} => i \in Item,
         k \in {"load", "add"} => i = NoItem
  PROVE  Following'
<1> DEFINE hits == {p \in Op : InFlight(p) /\ Conflict(k, i, op[p].kind, op[p].item)}
           c == [Fresh EXCEPT !.kind = k, !.sess = dek, !.item = i, !.ver = v,
                   !.stage = IF k \in {"load", "delete"} THEN "sent" ELSE "working",
                   !.tok = IF k \in {"load", "delete"} THEN token ELSE NoKey,
                   !.key = IF k \in {"add", "update"} THEN bytes[dek] ELSE Nobody,
                   !.mixed = hits # {}]
<1>1. /\ dek # NoKey /\ op[o].stage = "idle" /\ UNCHANGED <<tab, server, history>>
      /\ op' = [p \in Op |-> IF p = o THEN c
                             ELSE IF p \in hits THEN [op[p] EXCEPT !.mixed = TRUE] ELSE op[p]]
  BY DEF Begin
<1>2. /\ c.kind = k /\ c.sess = dek /\ c.item = i /\ c.stage \in {"sent", "working"}
      /\ c.tok \in {token, NoKey} /\ c.mixed = (hits # {})
  <2>1. c.stage = IF k \in {"load", "delete"} THEN "sent" ELSE "working"
    BY DEF Fresh
  <2>2. c.tok = IF k \in {"load", "delete"} THEN token ELSE NoKey
    BY DEF Fresh
  <2>3. c.kind = k /\ c.sess = dek /\ c.item = i /\ c.mixed = (hits # {})
    BY DEF Fresh
  <2> HIDE DEF c, hits
  <2> QED
    BY <2>1, <2>2, <2>3
<1>3. ASSUME NEW p \in Op
      PROVE  p \in hits <=> /\ p # o /\ op[p].stage # "idle"
                            /\ Conflict(k, i, op[p].kind, op[p].item)
  BY <1>1 DEF InFlight
<1> HIDE DEF c, hits
<1>4. op'[o] = c /\ op[o].stage = "idle"
  BY <1>1
<1>5. ASSUME NEW p \in Op, p # o
      PROVE  /\ op'[p].stage = op[p].stage /\ op'[p].kind = op[p].kind
             /\ op'[p].item = op[p].item /\ op'[p].ver = op[p].ver /\ op'[p].snap = op[p].snap
             /\ op'[p].sess = op[p].sess /\ op'[p].tok = op[p].tok
             /\ op'[p].mixed = (op[p].mixed \/ p \in hits)
  BY <1>1, <1>5 DEF IInv, Typed, OpsTyped, OpRecord
<1>6. Apart'
  <2>1. ASSUME NEW p \in Op, p # o, op[p].stage # "idle", op[p].kind \in Writes, k = "load"
        PROVE  p \in hits
    BY <1>3, <2>1 DEF Conflict, Writes, Rewraps
  <2>2. ASSUME NEW p \in Op, p # o, op[p].stage # "idle", op[p].kind = "load", k \in Writes
        PROVE  p \in hits
    BY <1>3, <2>2 DEF Conflict, Writes, Rewraps
  <2>3. ASSUME NEW p \in Op, NEW j \in Item, p # o, About(op[p], j), k \in Writes, i = j
        PROVE  p \in hits
    BY <1>3, <2>3, ItemAssumption DEF Conflict, Writes, Rewraps, About
  <2>4. ASSUME NEW q \in Op, NEW p \in Op, Clean(op'[q]), op'[q].kind = "load"
        PROVE  op'[p].stage = "idle" \/ op'[p].kind \notin Writes
    <3>1. CASE q = o
      BY <1>2, <1>4, <1>5, <2>1, <2>4, <3>1 DEF Clean, Writes
    <3>2. CASE q # o /\ p = o
      BY <1>2, <1>4, <1>5, <2>2, <2>4, <3>2 DEF Clean
    <3>3. CASE q # o /\ p # o
      BY <1>5, <2>4, <3>3 DEF Following, Apart, Clean
    <3> QED
      BY <3>1, <3>2, <3>3
  <2>5. ASSUME NEW q \in Op, NEW p \in Op, NEW j \in Item, q # p, About(op'[q], j),
               About(op'[p], j)
        PROVE  op'[q].mixed
    <3>1. CASE q = o
      BY <1>2, <1>4, <1>5, <2>3, <2>5, <3>1 DEF About
    <3>2. CASE q # o /\ p = o
      BY <1>2, <1>4, <1>5, <2>3, <2>5, <3>2 DEF About
    <3>3. CASE q # o /\ p # o
      BY <1>5, <2>5, <3>3 DEF Following, Apart, About
    <3> QED
      BY <3>1, <3>2, <3>3
  <2> QED
    BY <2>4, <2>5 DEF Apart, Clean, About
<1>7. Here'
  <2>1. dek' = dek /\ token' = token /\ opening' = opening /\ loaded' = loaded
    BY <1>1 DEF tab, history
  <2>2. ASSUME NEW p \in Op PROVE CallHere(op[p])'
    <3>1. CASE p = o
      BY <1>1, <1>2, <1>4, <2>1, <3>1 DEF Following, Here, TokenHere, CallHere, Clean
    <3>2. CASE p # o
      BY <1>5, <2>1, <3>2 DEF Following, Here, CallHere, Clean
    <3> QED
      BY <3>1, <3>2
  <2> QED
    BY <2>1, <2>2 DEF Following, Here, TokenHere, CallHere, Clean
<1>8. SnapCurrent'
  <2>1. \A p \in Op : Fetched(op'[p]) => Fetched(op[p]) /\ op'[p].snap = op[p].snap
    BY <1>2, <1>4, <1>5 DEF Fetched, Clean
  <2> QED
    BY <1>1, <2>1, SnapKept DEF Following, tab, server
<1>9. AllFollow'
  <2> SUFFICES ASSUME NEW j \in Item PROVE Follows(j)'
    BY DEF AllFollow
  <2>1. /\ rows' = rows /\ list' = list /\ dek' = dek /\ owner' = owner /\ loaded' = loaded
        /\ muddled' = muddled
    BY <1>1 DEF tab, server, history
  <2>2. \A p \in Op : /\ About(op[p], j) => About(op'[p], j) /\ (op[p].mixed => op'[p].mixed)
                      /\ Answered(op[p], j) \/ Answered(op'[p], j) =>
                           /\ Answered(op[p], j) /\ Answered(op'[p], j)
                           /\ op'[p].kind = op[p].kind /\ op'[p].ver = op[p].ver
    BY <1>2, <1>4, <1>5 DEF About, Answered
  <2>3. Entries(j)' = Entries(j) /\ Me' = Me
    BY <2>1 DEF Entries, Me
  <2> QED
    BY <2>1, <2>2, <2>3, FollowsKept DEF Following, AllFollow
<1> QED
  BY <1>6, <1>7, <1>8, <1>9 DEF Following

LEMMA CallFollows ==
  ASSUME IInv, Following, NEW o \in Op, Call(o)
  PROVE  Following'
<1>1. ASSUME NEW i \in Item, UpdateItem(o, i) \/ DeleteItem(o, i) PROVE Following'
  BY <1>1, BeginFollows, BoundAssumption DEF UpdateItem, DeleteItem, Kinds
<1>2. CASE LoadItems(o) \/ AddItem(o)
  BY <1>2, BeginFollows, BoundAssumption DEF LoadItems, AddItem, Kinds
<1>3. ASSUME NEW k \in Rewraps, ChangeAccount(o, k) PROVE Following'
  BY <1>3, BeginFollows, BoundAssumption DEF ChangeAccount, Kinds, Rewraps
<1> QED
  BY <1>1, <1>2, <1>3 DEF Call

\* A lock disturbs everything that is in flight.
LEMMA LockFollows ==
  ASSUME IInv, Following, NEW calls \in [Op -> OpRecord],
         \A p \in Op : Carried(op[p], calls[p]) /\ (calls[p] = op[p] \/ calls[p].stage = "idle"),
         Lock(calls)
  PROVE  Following'
<1>1. /\ op' = [p \in Op |-> [calls[p] EXCEPT !.mixed = @ \/ calls[p].stage # "idle"]]
      /\ dek' = NoKey /\ ~loaded' /\ token' = token /\ opening' = opening
  BY DEF Lock
<1>2. ASSUME NEW p \in Op
      PROVE  /\ op'[p].stage = calls[p].stage /\ op'[p].kind = calls[p].kind
             /\ op'[p].item = calls[p].item /\ op'[p].ver = calls[p].ver
             /\ op'[p].stage # "idle" => op'[p].mixed
  BY <1>1 DEF OpRecord
<1>3. Apart'
  BY <1>2, ApartKept DEF Following, Carried
<1>4. Here'
  <2>1. ASSUME NEW p \in Op PROVE CallHere(op[p])'
    BY <1>2 DEF Following, Here, CallHere, Clean
  <2> QED
    BY <1>1, <2>1 DEF Following, Here, TokenHere
<1>5. SnapCurrent'
  BY <1>2 DEF SnapCurrent, Fetched, Clean
<1>6. AllFollow'
  BY <1>1, UnloadedFollows
<1> QED
  BY <1>3, <1>4, <1>5, <1>6 DEF Following

LEMMA SignInFollows ==
  ASSUME IInv, Following,
         \/ \E a \in Account : LoginAnswered(a)
         \/ LoginOpens \/ LockPressed
         \/ \E s \in Session : LogoutSettles(s)
  PROVE  Following'
<1> USE DEF Following
<1>1. op \in [Op -> OpRecord] /\ \A p \in Op : Carried(op[p], op[p])
  BY DEF IInv, Typed, OpsTyped, Carried
<1>2. ASSUME NEW a \in Account, LoginAnswered(a) PROVE Following'
  <2>1. /\ dek = NoKey /\ dek' = NoKey /\ token' = logins + 1 /\ opening' = logins + 1
        /\ op' = op /\ loaded' = loaded
    BY <1>2 DEF LoginAnswered, history
  <2>2. ~loaded' /\ \A p \in Op : ~Clean(op'[p])
    BY <2>1 DEF Here, TokenHere, CallHere
  <2>3. Here'
    BY <2>1, <2>2 DEF Here, TokenHere, CallHere, Clean
  <2>4. SnapCurrent'
    BY <2>2 DEF SnapCurrent, Fetched, Clean
  <2> QED
    BY <1>1, <2>1, <2>2, <2>3, <2>4, UnloadedFollows, ApartKept
<1>3. CASE LoginOpens
  <2>1. /\ opening # NoKey /\ dek' = opening /\ opening' = NoKey /\ token' = token /\ op' = op
        /\ loaded' = loaded /\ dek = NoKey
    BY <1>3 DEF LoginOpens, history, IInv, Typed, TabTyped
  <2>2. ~loaded' /\ \A p \in Op : ~Clean(op'[p])
    BY <2>1 DEF Here, TokenHere, CallHere
  <2>3. Here'
    BY <2>1, <2>2 DEF Here, TokenHere, CallHere, Clean
  <2>4. SnapCurrent'
    BY <2>2 DEF SnapCurrent, Fetched, Clean
  <2> QED
    BY <1>1, <2>1, <2>2, <2>3, <2>4, UnloadedFollows, ApartKept
<1>4. CASE LockPressed
  BY <1>1, <1>4, LockFollows DEF LockPressed, Here, CallHere
<1>5. ASSUME NEW s \in Session, LogoutSettles(s) PROVE Following'
  <2>1. token' = NoKey /\ UNCHANGED <<dek, owner, opening, list, rows, op, loaded, muddled>>
    BY <1>5 DEF LogoutSettles, server, history
  <2>2. Here' /\ Apart'
    BY <2>1 DEF Here, TokenHere, CallHere, Clean, Apart, About
  <2>3. SnapCurrent'
    BY <2>1, SnapKept DEF Fetched, Clean
  <2>4. AllFollow'
    BY <2>1 DEF AllFollow, Follows, Ahead, Agrees, Entries, Me, About, Answered
  <2> QED
    BY <2>2, <2>3, <2>4
<1> QED
  BY <1>2, <1>3, <1>4, <1>5

\* Neither a write that is sent nor a step of any other call touches the list or the rows.
LEMMA QuietFollows ==
  ASSUME IInv, Following, NEW o \in Op,
         Send(o) \/ Wrap(o) \/ SendWrapped(o) \/ Decrypt(o) \/ ServeList(o) \/ ServeRewrap(o)
  PROVE  Following'
<1> USE DEF Following
<1>1. op \in [Op -> OpRecord] /\ \A p \in Op : OpSound(op[p])
  BY DEF IInv, Typed, OpsTyped
<1>2. /\ UNCHANGED <<dek, token, opening, owner, list, rows, loaded, muddled>>
      /\ \A p \in Op : p # o => op'[p] = op[p]
      /\ op[o].stage # "idle" /\ op'[o].stage # "idle"
      /\ op'[o].kind = op[o].kind /\ op'[o].item = op[o].item /\ op'[o].ver = op[o].ver
      /\ op'[o].mixed = op[o].mixed /\ op'[o].sess = op[o].sess
      /\ op'[o].tok \in {op[o].tok, token}
      /\ op[o].kind \in Writes => op[o].stage = "working" /\ op'[o].stage = "sent"
      /\ op'[o].stage = "decrypting" => op'[o].kind = "load"
      /\ op[o].kind = "load" =>
           \/ op'[o].stage = "sent"
           \/ op'[o].stage = "answered" /\ op'[o].snap = Rows(Caller(o)) /\ Caller(o) # Nobody
           \/ op[o].stage = "answered" /\ op'[o].snap = op[o].snap
  <2>1. CASE Send(o)
    BY <1>1, <2>1 DEF Send, OpRecord, tab, server, history
  <2>2. CASE Wrap(o)
    BY <1>1, <2>2 DEF Wrap, OpRecord, tab, server, history, Writes, Rewraps
  <2>3. CASE SendWrapped(o)
    BY <1>1, <2>3 DEF SendWrapped, OpRecord, OpSound, tab, server, history, Writes, Rewraps
  <2>4. CASE Decrypt(o)
    BY <1>1, <2>4 DEF Decrypt, OpRecord, tab, server, history, Writes
  <2>5. CASE ServeList(o)
    BY <1>1, <2>5 DEF ServeList, OpRecord, Rows, tab, server, history, Writes
  <2>6. CASE ServeRewrap(o)
    BY <1>1, <2>6 DEF ServeRewrap, Answer, OpRecord, tab, Writes, Rewraps
  <2> QED
    BY <2>1, <2>2, <2>3, <2>4, <2>5, <2>6
<1>3. Apart'
  BY <1>2, ApartKept DEF Carried
<1>4. Here'
  <2>1. ASSUME NEW p \in Op PROVE CallHere(op[p])'
    BY <1>2 DEF Here, TokenHere, CallHere, Clean, Writes
  <2> QED
    BY <1>2, <2>1 DEF Here, TokenHere
<1>5. Me' = Me
  BY <1>2 DEF Me
<1>6. Clean(op[o]) /\ Caller(o) # Nobody => Caller(o) = Me
  BY DEF Here, CallHere, Caller, Me
<1>7. SnapCurrent'
  <2>1. Rows(Me)' = Rows(Me)
    BY <1>2, <1>5 DEF Rows, RowsOf
  <2>2. Fetched(op'[o]) => op'[o].snap = Rows(Me)
    BY <1>2, <1>6 DEF SnapCurrent, Fetched, Clean
  <2> QED
    BY <1>2, <2>1, <2>2 DEF SnapCurrent, Fetched, Clean
<1>8. AllFollow'
  <2> SUFFICES ASSUME NEW j \in Item PROVE Follows(j)'
    BY DEF AllFollow
  <2>1. Entries(j)' = Entries(j)
    BY <1>2 DEF Entries
  <2>2. \A p \in Op : /\ About(op[p], j) => About(op'[p], j) /\ (op[p].mixed => op'[p].mixed)
                      /\ Answered(op[p], j) \/ Answered(op'[p], j) =>
                           /\ Answered(op[p], j) /\ Answered(op'[p], j)
                           /\ op'[p].kind = op[p].kind /\ op'[p].ver = op[p].ver
    BY <1>2 DEF About, Answered
  <2> QED
    BY <1>2, <1>5, <2>1, <2>2, FollowsKept DEF AllFollow
<1> QED
  BY <1>3, <1>4, <1>7, <1>8

\* The server answers a write: its item is one step behind, every other is as it was.
LEMMA ServeFollows ==
  ASSUME IInv, Following, NEW o \in Op, NEW i \in Item,
         op[o].stage = "sent", op[o].kind \in Writes, Caller(o) # Nobody,
         op' = [op EXCEPT ![o].stage = "answered", ![o].item = i],
         \A j \in Item : j # i => rows'[j] = rows[j],
         op[o].kind = "add" => rows[i].acct = Nobody /\ \A p \in Op : op[p].item # i,
         op[o].kind \in {"update", "delete"} => rows[i].acct = Caller(o) /\ op[o].item = i,
         op[o].kind \in {"add", "update"} => rows'[i].acct = Caller(o) /\ rows'[i].ver = op[o].ver,
         op[o].kind = "delete" => rows'[i].acct = Nobody,
         UNCHANGED <<tab, loaded, muddled>>
  PROVE  Following'
<1> USE DEF Following
<1>1. op \in [Op -> OpRecord]
  BY DEF IInv, Typed, OpsTyped
<1>2. /\ UNCHANGED <<dek, token, opening, owner, list, loaded, muddled>>
      /\ \A p \in Op : p # o => op'[p] = op[p]
      /\ op'[o].stage = "answered" /\ op'[o].item = i
      /\ op'[o].kind = op[o].kind /\ op'[o].ver = op[o].ver /\ op'[o].snap = op[o].snap
      /\ op'[o].mixed = op[o].mixed /\ op'[o].sess = op[o].sess /\ op'[o].tok = op[o].tok
  BY <1>1 DEF OpRecord, tab
<1>3. ASSUME NEW p \in Op, p # o, About(op[p], i) PROVE op[o].item = i /\ op[p].mixed /\ op[o].mixed
  <2>1. op[o].item = i
    BY <1>3 DEF About, Writes
  <2>2. About(op[o], i)
    BY <2>1 DEF About
  <2> QED
    BY <1>3, <2>1, <2>2 DEF Apart
<1>4. Apart'
  <2>1. ASSUME NEW q \in Op, NEW p \in Op, Clean(op'[q]), op'[q].kind = "load"
        PROVE  op'[p].stage = "idle" \/ op'[p].kind \notin Writes
    BY <1>2, <2>1 DEF Apart, Clean, Writes
  <2>2. ASSUME NEW q \in Op, NEW p \in Op, NEW j \in Item, q # p, About(op'[q], j),
               About(op'[p], j)
        PROVE  op'[q].mixed
    <3>1. CASE q # o /\ p # o
      BY <1>2, <2>2, <3>1 DEF Apart
    <3>2. CASE q = o
      BY <1>2, <1>3, <2>2, <3>2 DEF About
    <3>3. CASE p = o
      <4>1. j = i /\ q # o /\ op'[q] = op[q]
        BY <1>2, <2>2, <3>3 DEF About
      <4> QED
        BY ONLY <1>3, <2>2, <4>1
    <3> QED
      BY <3>1, <3>2, <3>3
  <2> QED
    BY <2>1, <2>2 DEF Apart, Clean, About
<1>5. Here'
  <2>1. ASSUME NEW p \in Op PROVE CallHere(op[p])'
    BY <1>2 DEF Here, CallHere, Clean
  <2>2. TokenHere'
    BY <1>2 DEF Here, TokenHere
  <2> QED
    BY ONLY <2>1, <2>2 DEF Here
<1>6. SnapCurrent'
  <2>1. ASSUME NEW p \in Op PROVE ~Fetched(op'[p])
    BY <1>2 DEF Apart, Fetched, Clean, Writes
  <2> QED
    BY <2>1 DEF SnapCurrent, Fetched, Clean
<1>7. Me' = Me /\ (loaded => Me # Nobody)
  BY <1>2, NobodyAssumption, BoundAssumption
     DEF Me, Here, TokenHere, IInv, Typed, TabTyped, NoKey, Session
<1>8. ASSUME NEW j \in Item, j # i PROVE Follows(j)'
  <2>1. Entries(j)' = Entries(j) /\ rows'[j] = rows[j]
    BY <1>2, <1>8 DEF Entries
  <2>2. \A p \in Op : /\ About(op[p], j) => About(op'[p], j) /\ (op[p].mixed => op'[p].mixed)
                      /\ Answered(op[p], j) \/ Answered(op'[p], j) =>
                           /\ Answered(op[p], j) /\ Answered(op'[p], j)
                           /\ op'[p].kind = op[p].kind /\ op'[p].ver = op[p].ver
    <3>1. ~About(op[o], j) /\ ~About(op'[o], j)
      BY <1>2, <1>8, ItemAssumption DEF About, Here, CallHere, Writes
    <3> QED
      BY <1>2, <3>1 DEF About, Answered
  <2>3. Follows(j) /\ (loaded' => loaded /\ Me' = Me) /\ (j \in muddled => j \in muddled')
    BY <1>2, <1>7 DEF AllFollow
  <2> QED
    BY ONLY <1>8, <2>1, <2>2, <2>3, FollowsKept
<1>9. Follows(i)'
  <2>1. Answered(op'[o], i) /\ op'[o].mixed = op[o].mixed
    BY <1>2 DEF Answered, About
  <2>2. ASSUME loaded, i \notin muddled, ~op[o].mixed
        PROVE  \A p \in Op : Answered(op'[p], i) => Ahead(op[p], i)'
    <3>1. \A p \in Op : About(op[p], i) => p = o
      BY <1>3, <2>2
    <3>2. Agrees(i)
      BY <3>1, <2>2 DEF AllFollow, Follows, Answered, About
    <3>3. Caller(o) = Me
      BY <2>2 DEF Here, CallHere, Clean, Caller, Me
    <3>4. Ahead(op[o], i)'
      BY <1>2, <1>7, <2>2, <3>2, <3>3 DEF Ahead, Agrees, Entries, Writes
    <3> QED
      BY <1>2, <3>1, <3>4 DEF Answered, About
  <2>3. (loaded' => loaded) /\ (i \in muddled => i \in muddled')
    BY <1>2
  <2>4. CASE loaded /\ i \notin muddled /\ ~op[o].mixed
    <3>1. \A p \in Op : Answered(op'[p], i) => Ahead(op[p], i)'
      BY ONLY <2>2, <2>4
    <3> QED
      BY ONLY <2>1, <3>1 DEF Follows, Answered
  <2>5. CASE ~(loaded /\ i \notin muddled /\ ~op[o].mixed)
    <3>1. ~loaded' \/ i \in muddled' \/ (About(op'[o], i) /\ op'[o].mixed)
      BY ONLY <2>1, <2>3, <2>5 DEF Answered
    <3> QED
      BY ONLY <3>1 DEF Follows, About
  <2> QED
    BY <2>4, <2>5
<1> QED
  BY <1>4, <1>5, <1>6, <1>8, <1>9 DEF AllFollow

\* The server takes a write: an added item gets an id nobody has, the others keep theirs.
LEMMA ServeWriteFollows ==
  ASSUME IInv, Following, NEW o \in Op, ServeWrite(o) \/ \E i \in Item : ServeAdd(o, i)
  PROVE  Following'
<1>1. op \in [Op -> OpRecord] /\ OpSound(op[o])
  BY DEF IInv, Typed, OpsTyped
<1>2. rows \in [Item -> [acct : Account \union {Nobody}, seal : Keys, ver : 0 .. MaxVersion]]
  BY DEF IInv, Typed, ServerTyped
<1>3. ASSUME NEW i \in Item, ServeAdd(o, i) PROVE Following'
  <2>1. /\ op[o].stage = "sent" /\ op[o].kind = "add" /\ Caller(o) # Nobody
        /\ rows[i].acct = Nobody /\ \A p \in Op : op[p].item # i
        /\ rows' = [rows EXCEPT ![i] = [acct |-> Caller(o), seal |-> op[o].key, ver |-> op[o].ver]]
        /\ op' = [op EXCEPT ![o].stage = "answered", ![o].item = i]
        /\ UNCHANGED <<tab, loaded, muddled>>
    BY <1>3 DEF ServeAdd, NoRow
  <2>2. rows'[i].acct = Caller(o) /\ rows'[i].ver = op[o].ver
        /\ \A j \in Item : j # i => rows'[j] = rows[j]
    BY <1>2, <2>1
  <2> QED
    BY <2>1, <2>2, ServeFollows DEF Writes
<1>4. CASE ServeWrite(o)
  <2> DEFINE i == op[o].item
  <2>1. /\ op[o].stage = "sent" /\ op[o].kind \in {"update", "delete"} /\ Caller(o) # Nobody
        /\ rows[i].acct = Caller(o)
        /\ rows' = [rows EXCEPT ![i] =
             IF op[o].kind = "delete" THEN [@ EXCEPT !.acct = Nobody, !.seal = Nobody]
             ELSE [@ EXCEPT !.seal = op[o].key, !.ver = op[o].ver]]
        /\ op' = [op EXCEPT ![o].stage = "answered"]
        /\ UNCHANGED <<tab, loaded, muddled>>
    BY <1>4 DEF ServeWrite, Answer
  <2>2. i \in Item
    BY <1>1, <2>1 DEF OpSound
  <2>3. /\ \A j \in Item : j # i => rows'[j] = rows[j]
        /\ op[o].kind = "delete" => rows'[i].acct = Nobody
        /\ op[o].kind = "update" => rows'[i].acct = Caller(o) /\ rows'[i].ver = op[o].ver
    BY <1>2, <2>1, <2>2
  <2>4. op' = [op EXCEPT ![o].stage = "answered", ![o].item = i]
    BY <1>1, <2>1 DEF OpRecord
  <2> HIDE DEF i
  <2>5. op[o].item = i
    BY DEF i
  <2> QED
    BY <2>1, <2>2, <2>3, <2>4, <2>5, ServeFollows DEF Writes
<1> QED
  BY <1>3, <1>4

\* The call that ends is out of the way; it leaves the others as they are.
LEMMA EndsCarries ==
  ASSUME IInv, NEW o \in Op
  PROVE  /\ Ends(o) \in [Op -> OpRecord] /\ Ends(o)[o].stage = "idle"
         /\ \A p \in Op : Ends(o)[p] = op[p] \/ Ends(o)[p].stage = "idle"
         /\ \A p \in Op : p # o => Ends(o)[p] = op[p]
         /\ \A p \in Op : Carried(op[p], Ends(o)[p])
BY FreshTyped DEF IInv, Typed, OpsTyped, OpRecord, Ends, Carried

\* A call that ends beside an unlocked tab leaves the rows and the other calls alone.
LEMMA EndFollows ==
  ASSUME IInv, Following, NEW o \in Op, op' = Ends(o),
         UNCHANGED <<dek, token, opening, owner, rows>>, loaded' => dek # NoKey,
         AllFollow'
  PROVE  Following'
<1>1. Apart'
  BY EndsCarries, ApartKept DEF Following
<1>2. SnapCurrent'
  <2>1. \A p \in Op : Fetched(op'[p]) => Fetched(op[p]) /\ op'[p].snap = op[p].snap
    BY EndsCarries DEF Fetched, Clean
  <2> QED
    BY <2>1, SnapKept DEF Following
<1>3. Here'
  <2>1. ASSUME NEW p \in Op PROVE CallHere(op[p])'
    <3>1. CASE p = o
      BY EndsCarries, <3>1 DEF CallHere, Clean
    <3>2. CASE p # o
      BY EndsCarries, <3>2 DEF CallHere, Clean, Following, Here
    <3> QED
      BY <3>1, <3>2
  <2>2. TokenHere'
    BY DEF Following, Here, TokenHere
  <2> QED
    BY ONLY <2>1, <2>2 DEF Here
<1> QED
  BY <1>1, <1>2, <1>3 DEF Following

\* The end of a call about another item leaves an item followed.
LEMMA OthersFollow ==
  ASSUME IInv, Following, NEW o \in Op, op' = Ends(o), NEW i \in Item, ~About(op[o], i),
         Entries(i)' = Entries(i), UNCHANGED <<dek, owner, rows, loaded>>,
         i \in muddled => i \in muddled'
  PROVE  Follows(i)'
<1>1. Me' = Me /\ rows'[i] = rows[i] /\ Follows(i)
  BY DEF Me, Following, AllFollow
<1>2. ASSUME NEW p \in Op
      PROVE  /\ About(op[p], i) => About(op'[p], i) /\ (op[p].mixed => op'[p].mixed)
             /\ Answered(op[p], i) \/ Answered(op'[p], i) =>
                  /\ Answered(op[p], i) /\ Answered(op'[p], i)
                  /\ op'[p].kind = op[p].kind /\ op'[p].ver = op[p].ver
  BY EndsCarries DEF About, Answered
<1> QED
  BY <1>1, <1>2, FollowsKept

\* An undisturbed load makes the list what the server holds, every item of it.
LEMMA LoadEndsFollows ==
  ASSUME IInv, Following, NEW o \in Op, LoadEnds(o)
  PROVE  Following'
<1>1. /\ op[o].stage = "decrypting" /\ op[o].kind = "load"
      /\ list' = {[id |-> e.id, ver |-> e.ver, by |-> "load"] : e \in op[o].snap}
      /\ loaded' = ~op[o].mixed
      /\ op' = Ends(o)
      /\ UNCHANGED <<dek, token, opening, owner, rows>>
  BY DEF LoadEnds, server, Following, Here, CallHere
<1>2. CASE op[o].mixed
  BY <1>1, <1>2, UnloadedFollows, EndFollows
<1>3. CASE ~op[o].mixed
  <2>1. dek # NoKey /\ op[o].snap = Rows(Me)
    BY <1>1, <1>3 DEF Following, Here, CallHere, Clean, SnapCurrent, Fetched
  <2>2. ASSUME NEW p \in Op, NEW i \in Item PROVE ~About(op'[p], i)
    BY <1>1, <1>3, EndsCarries DEF Following, Apart, Clean, About
  <2>3. Me' = Me
    BY <1>1 DEF Me
  <2>4. ASSUME NEW i \in Item PROVE Agrees(i)'
    <3> DEFINE shown(e) == [id |-> e.id, ver |-> e.ver, by |-> "load"]
    <3>1. list' = {shown(e) : e \in Rows(Me)}
      BY <1>1, <2>1
    <3>2. ASSUME NEW x
          PROVE  x \in list' <=> \E j \in RowsOf(Me) :
                                   x = [id |-> j, ver |-> rows[j].ver, by |-> "load"]
      <4> DEFINE row(j) == [id |-> j, ver |-> rows[j].ver, seal |-> rows[j].seal]
      <4>1. \A j : shown(row(j)) = [id |-> j, ver |-> rows[j].ver, by |-> "load"]
        OBVIOUS
      <4>2. \A e : e \in Rows(Me) <=> \E j \in RowsOf(Me) : e = row(j)
        BY DEF Rows
      <4> HIDE DEF shown, row
      <4> QED
        BY ONLY <3>1, <4>1, <4>2
    <3>3. CASE i \in RowsOf(Me)
      <4> DEFINE e == [id |-> i, ver |-> rows[i].ver, by |-> "load"]
      <4>1. Entries(i)' = {e} /\ e.ver = rows[i].ver
        BY <3>2, <3>3 DEF Entries
      <4> QED
        BY <1>1, <2>3, <3>3, <4>1 DEF Agrees, RowsOf
    <3>4. CASE i \notin RowsOf(Me)
      <4>1. Entries(i)' = {}
        BY <3>2, <3>4 DEF Entries
      <4> QED
        BY <1>1, <2>3, <3>4, <4>1 DEF Agrees, RowsOf
    <3> QED
      BY <3>3, <3>4
  <2>5. AllFollow'
    BY <2>2, <2>4 DEF AllFollow, Follows, Answered
  <2> QED
    BY <1>1, <2>1, <2>5, EndFollows
<1> QED
  BY <1>2, <1>3

\* The answer to a write brings the list up to the row it wrote.
LEMMA WriteEndsFollows ==
  ASSUME IInv, Following, NEW o \in Op, WriteEnds(o)
  PROVE  Following'
<1>1. op[o].item \in Item /\ list \subseteq Entry
  BY DEF WriteEnds, IInv, Typed, TabTyped, OpsTyped, OpSound
<1>2. PICK i \in Item : i = op[o].item
  BY <1>1
<1>3. /\ op[o].stage = "answered" /\ op[o].kind \in Writes
      /\ list' = Applied(o, list)
      /\ muddled' = IF op[o].mixed THEN muddled \union {i} ELSE muddled
      /\ op' = Ends(o)
      /\ UNCHANGED <<dek, token, opening, owner, rows, loaded>>
  BY <1>2 DEF WriteEnds, server, Writes
<1>4. Answered(op[o], i)
  BY <1>3, <1>2 DEF Answered, About
<1>5. Me' = Me
  BY <1>3 DEF Me
<1>6. /\ op[o].kind = "add" => list' = list \union {[id |-> i, ver |-> op[o].ver, by |-> "add"]}
      /\ op[o].kind = "update" =>
           list' = {IF e.id = i THEN [e EXCEPT !.ver = op[o].ver] ELSE e : e \in list}
      /\ op[o].kind = "delete" => list' = {e \in list : e.id # i}
  BY <1>3, <1>2 DEF Applied
<1>7. ASSUME NEW j \in Item, j # i PROVE Follows(j)'
  <2>1. Entries(j)' = Entries(j)
    <3>1. CASE op[o].kind = "add"
      BY <1>6, <1>7, <3>1 DEF Entries
    <3>2. CASE op[o].kind = "update"
      BY <1>1, <1>6, <1>7, <3>2 DEF Entries, Entry
    <3>3. CASE op[o].kind = "delete"
      BY <1>6, <1>7, <3>3 DEF Entries
    <3> QED
      BY <1>3, <3>1, <3>2, <3>3 DEF Writes
  <2>2. ~About(op[o], j)
    BY <1>4, <1>7 DEF Answered, About
  <2> QED
    BY <1>3, <2>1, <2>2, OthersFollow
<1>8. Follows(i)'
  <2>1. CASE op[o].mixed
    BY <1>3, <2>1 DEF Follows
  <2>2. CASE ~loaded \/ i \in muddled
    BY <1>3, <2>2 DEF Follows
  <2>3. CASE ~op[o].mixed /\ loaded /\ i \notin muddled
    <3>1. ASSUME NEW p \in Op, p # o PROVE ~About(op[p], i)
      BY <1>4, <2>3, <3>1 DEF Following, Apart, Answered
    <3>2. \A p \in Op : ~About(op'[p], i)
      BY <1>3, <3>1, EndsCarries DEF About
    <3>3. Ahead(op[o], i)
      BY <1>4, <2>3, <3>1 DEF Following, AllFollow, Follows
    <3>4. Agrees(i)'
      <4>1. CASE op[o].kind = "add"
        <5>1. Entries(i) = {} /\ rows[i].acct = Me /\ rows[i].ver = op[o].ver
          BY <3>3, <4>1 DEF Ahead
        <5> DEFINE e == [id |-> i, ver |-> op[o].ver, by |-> "add"]
        <5>2. Entries(i)' = {e} /\ e.ver = op[o].ver
          BY <1>6, <4>1, <5>1 DEF Entries
        <5> QED
          BY <1>3, <1>5, <5>1, <5>2 DEF Agrees
      <4>2. CASE op[o].kind = "update"
        <5>1. rows[i].acct = Me /\ rows[i].ver = op[o].ver
          BY <3>3, <4>2 DEF Ahead
        <5>2. PICK e \in Entries(i) : Entries(i) = {e}
          BY <3>3, <4>2 DEF Ahead
        <5> DEFINE d == [e EXCEPT !.ver = op[o].ver]
        <5>3. e \in Entry /\ e \in list /\ e.id = i
          BY <1>1, <5>2 DEF Entries
        <5>4. d.id = i /\ d.ver = op[o].ver
          BY <5>3 DEF Entry
        <5>5. ASSUME NEW x \in list, x.id = i PROVE x = e
          BY <5>2, <5>5 DEF Entries
        <5> HIDE DEF d
        <5>6. [e EXCEPT !.ver = op[o].ver] = d
          BY DEF d
        <5>7. d \in list'
          BY <1>6, <4>2, <5>3, <5>6
        <5>8. ASSUME NEW x \in list', x.id = i PROVE x = d
          BY <1>6, <4>2, <5>5, <5>6, <5>8
        <5>9. Entries(i)' = {d}
          BY <5>4, <5>7, <5>8 DEF Entries
        <5> QED
          BY <1>3, <1>5, <5>1, <5>4, <5>9 DEF Agrees
      <4>3. CASE op[o].kind = "delete"
        <5>1. rows[i].acct # Me
          BY <3>3, <4>3 DEF Ahead
        <5>2. Entries(i)' = {}
          BY <1>6, <4>3 DEF Entries
        <5> QED
          BY <1>3, <1>5, <5>1, <5>2 DEF Agrees
      <4> QED
        BY <1>3, <4>1, <4>2, <4>3 DEF Writes
    <3> QED
      BY <3>2, <3>4 DEF Follows, Answered
  <2> QED
    BY <2>1, <2>2, <2>3
<1>9. AllFollow'
  BY <1>7, <1>8 DEF AllFollow
<1> QED
  BY <1>3, <1>9, EndFollows DEF Following, Here, TokenHere

\* A call that is lost gives up its item; one that ends in a lock empties the list.
LEMMA FailFollows ==
  ASSUME IInv, Following, NEW o \in Op, OpFails(o) \/ RewrapEnds(o)
  PROVE  Following'
<1>1. CASE Lock(Ends(o))
  BY <1>1, EndsCarries, LockFollows
<1>2. CASE /\ op' = Ends(o) /\ UNCHANGED <<tab, rows, loaded>>
           /\ \A i \in Item : i \in muddled => i \in muddled'
           /\ \A i \in Item : About(op[o], i) => i \in muddled'
  <2>1. UNCHANGED <<dek, token, opening, owner, rows, loaded, list>>
    BY <1>2 DEF tab
  <2>2. ASSUME NEW i \in Item PROVE Follows(i)'
    <3>1. CASE About(op[o], i)
      BY <1>2, <3>1 DEF Follows
    <3>2. CASE ~About(op[o], i)
      BY <1>2, <2>1, <3>2, OthersFollow DEF Entries
    <3> QED
      BY <3>1, <3>2
  <2>3. AllFollow'
    BY <2>2 DEF AllFollow
  <2> QED
    BY <1>2, <2>1, <2>3, EndFollows DEF Following, Here, TokenHere
<1>3. CASE OpFails(o)
  BY <1>1, <1>2, <1>3, ItemAssumption DEF OpFails, server, About
<1>4. CASE RewrapEnds(o)
  BY <1>1, <1>2, <1>4 DEF RewrapEnds, server, history, About, Writes, Rewraps
<1> QED
  BY <1>3, <1>4

LEMMA StepFollowing == IInv /\ Following /\ [Next]_vars => Following'
<1> SUFFICES ASSUME IInv, Following, [Next]_vars PROVE Following'
  OBVIOUS
<1>1. CASE UNCHANGED vars
  BY <1>1 DEF Following, Apart, Here, CallHere, TokenHere, SnapCurrent, Fetched, Rows, RowsOf, Me,
              AllFollow, Follows, Ahead, Agrees, Entries, About, Answered, Clean, vars, tab,
              server, history
<1>2. ASSUME NEW o \in Op, Proceed(o) PROVE Following'
  BY <1>2, QuietFollows, ServeWriteFollows, LoadEndsFollows, WriteEndsFollows, FailFollows
     DEF Proceed
<1> QED
  BY <1>1, <1>2, CallFollows, SignInFollows DEF Next

\* Once an undisturbed load has filled the list and nothing is in flight, every item
\* is shown once, at the version the server has, or not at all when it is no row of
\* this account, but for the items whose writes overlapped something or were lost.
THEOREM ListFollows == Spec => []ListFollowsServer
<1>1. Following => ListFollowsServer
  <2> SUFFICES ASSUME Following, loaded, ~Busy, NEW i \in Item \ muddled
               PROVE  IF rows[i].acct = Me
                      THEN \E e \in list : Entries(i) = {e} /\ e.ver = rows[i].ver
                      ELSE Entries(i) = {}
    BY DEF ListFollowsServer, Entries
  <2>1. \A o \in Op : op[o].stage = "idle"
    BY DEF Busy, InFlight
  <2>2. Agrees(i)
    BY <2>1 DEF Following, AllFollow, Follows, About, Answered
  <2> QED
    BY <2>2 DEF Agrees, Entries
<1>2. Init => Following
  BY InitFollowing
<1>3. IInv /\ Following /\ [Next]_vars => Following'
  BY StepFollowing
<1> QED
  BY <1>1, <1>2, <1>3, Invariance, PTL DEF Spec
=============================================================================
