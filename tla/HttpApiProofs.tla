---------------------------- MODULE HttpApiProofs ----------------------------
(***************************************************************************)
(* Proofs about HttpApi: what padding gives back, that an entry the        *)
(* browser agreed to save is carried, that a refusal is earned on its own  *)
(* routes, and that a session is only lost for a reason.                   *)
(***************************************************************************)
EXTENDS HttpApi, FiniteSetTheorems, SequenceTheorems, TLAPS

-----------------------------------------------------------------------------
(* Padding.                                                                *)

LEMMA BucketList ==
  /\ DOMAIN Buckets = 1 .. 9 /\ Largest = 65536
  /\ Buckets[1] = 256 /\ Buckets[2] = 512 /\ Buckets[3] = 1024 /\ Buckets[4] = 2048
  /\ Buckets[5] = 4096 /\ Buckets[6] = 8192 /\ Buckets[7] = 16384 /\ Buckets[8] = 32768
  /\ Buckets[9] = 65536
BY SMT DEF Buckets, Largest

LEMMA BucketsRise ==
  \A i \in 1 .. 9 : Buckets[i] \in Nat /\ 256 <= Buckets[i] /\ Buckets[i] <= 65536
BY BucketList, SMT

\* A bucket holds what it is chosen for; up to the largest bucket it is one of the list.
LEMMA BucketFits ==
  ASSUME NEW n \in Nat
  PROVE  /\ BucketFor(n) \in Nat /\ n <= BucketFor(n) /\ 256 <= BucketFor(n)
         /\ n <= Largest => BucketFor(n) <= Largest
<1> DEFINE fits == {i \in DOMAIN Buckets : n <= Buckets[i]}
<1>1. CASE fits # {}
  <2>1. \E i \in fits : \A j \in fits : i <= j
    <3>1. fits \subseteq 1 .. 9
      BY BucketList, SMT
    <3> HIDE DEF fits
    <3>2. \A i \in fits : \/ i = 1 \/ i = 2 \/ i = 3 \/ i = 4 \/ i = 5 \/ i = 6 \/ i = 7
                           \/ i = 8 \/ i = 9
      BY <3>1, SMT
    <3> QED
      BY <1>1, <3>2, SMT
  <2> DEFINE i == CHOOSE i \in fits : \A j \in fits : i <= j
  <2>2. i \in fits
    BY <2>1, SMT
  <2>3. BucketFor(n) = Buckets[i]
    BY <1>1, SMT DEF BucketFor
  <2> HIDE DEF i
  <2> QED
    BY <2>2, <2>3, BucketList, BucketsRise, SMT
<1>2. CASE fits = {}
  <2>1. n > 65536
    BY <1>2, BucketList, SMT
  <2>2. BucketFor(n) = ((n + Largest - 1) \div Largest) * Largest
    BY <1>2, SMT DEF BucketFor
  <2> HIDE DEF fits
  <2> QED
    BY <2>1, <2>2, BucketList, SMT
<1> QED
  BY <1>1, <1>2, SMT

LEMMA MaxItem == MaxItemBytes = 65532 /\ Carryable = 1 .. 9
<1>1. Carryable = 1 .. 9
  BY BucketList, BucketsRise, SMT DEF Carryable, BodyBytes, Base64Length, EnvelopeBytes, BodyLimit
<1>2. (CHOOSE i \in Carryable : \A j \in Carryable : j <= i) = 9
  BY <1>1, SMT
<1> QED
  BY <1>1, <1>2, BucketList, SMT DEF MaxItemBytes, PrefixBytes

\* The header names every length a signed word of 32 bits can hold.
LEMMA HeaderNames ==
  ASSUME NEW n \in Nat, n < 2147483648
  PROVE  HeaderLength(Header(n)) = n
<1> DEFINE a == n \div 16777216
           b == n \div 65536
           c == n \div 256
<1>1. /\ Header(n)[1] = a % 256 /\ Header(n)[2] = b % 256 /\ Header(n)[3] = c % 256
      /\ Header(n)[4] = n % 256
  BY SMT DEF Header, Place
<1>2. /\ a \in Nat /\ a < 128 /\ b \in Nat /\ c \in Nat
  BY SMT
<1>3. n = c * 256 + (n % 256) /\ c = b * 256 + (c % 256) /\ b = a * 256 + (b % 256)
  BY SMT
<1> HIDE DEF a, b, c
<1> QED
  BY <1>1, <1>2, <1>3, SMT DEF HeaderLength, Place

\* Unpadding gives back the length that was padded, in or beyond the buckets.
THEOREM PadRoundTrip ==
  ASSUME NEW n \in Nat, n < 2147483648
  PROVE  Unpad(Pad(n)) = n
<1>1. Pad(n).total = BucketFor(n + 4) /\ Pad(n).header = Header(n)
  BY SMT DEF Pad, PrefixBytes
<1>2. BucketFor(n + 4) \in Nat /\ n + 4 <= BucketFor(n + 4) /\ 256 <= BucketFor(n + 4)
  BY BucketFits, SMT
<1> QED
  BY <1>1, <1>2, HeaderNames, SMT DEF Unpad, PrefixBytes

\* An entry up to the cap passes the body limit and the schema.
THEOREM SealedFits ==
  ASSUME NEW n \in Nat, n <= MaxItemBytes
  PROVE  BodyBytes(Pad(n).total) <= BodyLimit /\ ValidItem(Pad(n).total)
<1>1. n <= 65532
  BY MaxItem, SMT
<1>2. BucketFor(n + 4) \in Nat /\ 256 <= BucketFor(n + 4) /\ BucketFor(n + 4) <= 65536
  BY <1>1, BucketFits, BucketList, SMT
<1> DEFINE total == Pad(n).total
<1>3. total \in Nat /\ 256 <= total /\ total <= 65536
  BY <1>2, SMT DEF Pad, PrefixBytes
<1> HIDE DEF total
<1>4. Base64Length(total) \in Nat /\ 1 <= Base64Length(total) /\ Base64Length(total) <= 87384
  BY <1>3, SMT DEF Base64Length
<1>5. CiphertextMax \in Nat /\ 87384 <= CiphertextMax
  BY SMT DEF CiphertextMax
<1>6. BodyBytes(total) <= BodyLimit
  BY <1>4, SMT DEF BodyBytes, EnvelopeBytes, BodyLimit
<1>7. ValidItem(total)
  BY <1>4, <1>5, SMT DEF ValidItem
<1> QED
  BY <1>6, <1>7, SMT DEF total

-----------------------------------------------------------------------------
(* The counters.                                                           *)

Requests == {"kdf-params", "login", "signup", "create", "password"}
Routes   == Requests \union {"refresh"}

LEMMA LimitsTyped ==
  ASSUME NEW route \in Routes
  PROVE  /\ LimitsOf(route) \in Seq(Limit)
         /\ DOMAIN LimitsOf(route) \subseteq 1 .. 2 /\ LimitsOf(route)[1] = "api"
         /\ \A i \in DOMAIN LimitsOf(route) : i = 2 =>
              LimitsOf(route)[i] = IF route = "signup" THEN "signup" ELSE "auth"
<1>1. CASE route = "signup"
  BY <1>1 DEF LimitsOf, Limit
<1>2. CASE route = "create"
  BY <1>2 DEF LimitsOf, Limit
<1>3. CASE route \notin {"signup", "create"}
  <2>1. LimitsOf(route) = <<"api", "auth">>
    BY <1>3 DEF LimitsOf
  <2> QED
    BY <1>3, <2>1 DEF Limit
<1> QED
  BY <1>1, <1>2, <1>3

\* A limit counts under its own key, so its counter is the number of requests it has had.
LEMMA CountedTyped ==
  ASSUME NEW ls \in Seq(Limit), hits \in [Limit -> Nat], tried = hits
  PROVE  Counted(hits, ls) \in [Limit -> Nat] /\ TriedNow(ls) = Counted(hits, ls)
<1>1. ASSUME NEW k \in Limit
      PROVE  Cardinality({i \in DOMAIN ls : ls[i] = k}) \in Nat
  <2>1. DOMAIN ls = 1 .. Len(ls) /\ Len(ls) \in Nat
    OBVIOUS
  <2>2. IsFiniteSet(DOMAIN ls)
    BY <2>1, FS_Interval
  <2>3. {i \in DOMAIN ls : ls[i] = k} \in SUBSET DOMAIN ls
    OBVIOUS
  <2> HIDE <2>1
  <2> QED
    BY <2>2, <2>3, FS_Subset, FS_CardinalityType
<1>2. Counted(hits, ls) = [k \in Limit |-> hits[k] + Cardinality({i \in DOMAIN ls : ls[i] = k})]
  BY DEF Counted, Key
<1>3. TriedNow(ls) = [k \in Limit |-> hits[k] + Cardinality({i \in DOMAIN ls : ls[i] = k})]
  BY DEF TriedNow
<1> QED
  BY <1>1, <1>2, <1>3

-----------------------------------------------------------------------------
(* The invariant.                                                          *)

Stages == {"idle", "sent", "answered", "refreshing", "refreshed", "retried", "final"}
Codes  == {"none", "ok", "EMAIL_TAKEN", "NOT_FOUND", "INVALID_CREDENTIALS", "VAULT_FULL",
           "INVALID_REFRESH_TOKEN", "NO_TOKEN", "INVALID_TOKEN", "TOO_MANY_REQUESTS",
           "TOO_MANY_ATTEMPTS", "NETWORK_ERROR", "INTERNAL_ERROR"}

Carried(n) == n \in Size \union {0} /\ n <= MaxItemBytes

LEMMA CarriedTyped == \A n : Carried(n) => n \in Nat /\ n <= MaxItemBytes
BY SizeAssumption DEF Carried

CountsTyped == hits \in [Limit -> Nat] /\ tried = hits

\* No refusal for a size is ever given.
VisitorsTyped ==
  /\ flow \in [Visitor -> DOMAIN Flow \union {"none"}] /\ step \in [Visitor -> Nat]
  /\ stage \in [Visitor -> Stages] /\ answer \in [Visitor -> Codes]
  /\ size \in [Visitor -> Size \union {0}]
  /\ access \in [Visitor -> {"none", "good", "expired"}]
  /\ holds \in [Visitor -> BOOLEAN] /\ alive \in [Visitor -> BOOLEAN]

StoredOpens == \E n \in Nat : Carried(n) /\ stored = Pad(n)

\* Where a visitor is in its flow, and what its last answer says about its tokens.
VisitorSound(v) ==
  /\ (flow[v] = "none") = (stage[v] = "idle")
  /\ stage[v] # "idle" => step[v] \in DOMAIN Flow[flow[v]] /\ Carried(size[v])
  /\ stage[v] \in {"refreshing", "refreshed", "retried", "final"} => Guarded(Route(v))
  /\ holds[v] = (access[v] # "none")
  /\ stage[v] = "answered" /\ TokenError(answer[v]) /\ holds[v] => access[v] = "expired"
  /\ stage[v] \in {"refreshing", "refreshed"} => access[v] = "expired"
  /\ stage[v] = "refreshed" =>
       \/ answer[v] \in RateLimited \union {"ok", "INTERNAL_ERROR", Unheard}
       \/ answer[v] = "INVALID_REFRESH_TOKEN" /\ ~alive[v]

IInv == CountsTyped /\ VisitorsTyped /\ StoredOpens /\ \A v \in Visitor : VisitorSound(v)

\* A visitor within a flow is at one of its requests.
LEMMA RouteTyped ==
  ASSUME NEW v \in Visitor, flow[v] \in DOMAIN Flow, step[v] \in DOMAIN Flow[flow[v]]
  PROVE  Route(v) \in Requests /\ Len(Flow[flow[v]]) \in Nat
         /\ DOMAIN Flow[flow[v]] = 1 .. Len(Flow[flow[v]])
<1>1. DOMAIN Flow = {"unlock", "provision", "save", "password"}
  BY DEF Flow
<1>2. CASE flow[v] = "unlock"
  <2>1. Flow[flow[v]] = <<"kdf-params", "login">>
    BY <1>2 DEF Flow
  <2> QED
    BY <2>1 DEF Route, Requests
<1>3. CASE flow[v] = "provision"
  <2>1. Flow[flow[v]] = <<"signup", "login", "create">>
    BY <1>3 DEF Flow
  <2> QED
    BY <2>1 DEF Route, Requests
<1>4. CASE flow[v] = "save"
  <2>1. Flow[flow[v]] = <<"create">>
    BY <1>4 DEF Flow
  <2> QED
    BY <2>1 DEF Route, Requests
<1>5. CASE flow[v] = "password"
  <2>1. Flow[flow[v]] = <<"kdf-params", "password">>
    BY <1>5 DEF Flow
  <2> QED
    BY <2>1 DEF Route, Requests
<1> QED
  BY <1>1, <1>2, <1>3, <1>4, <1>5

\* What a visitor sends is a number of bytes the body limit lets through.
LEMMA BodyTyped ==
  ASSUME NEW v \in Visitor, NEW route \in Routes, Carried(size[v])
  PROVE  /\ Body(v, route) \in Nat /\ Body(v, route) <= BodyLimit
         /\ ValidItem(Sealed(v).total)
<1>1. size[v] \in Nat /\ size[v] <= MaxItemBytes
  BY CarriedTyped, Zenon
<1>2. BodyBytes(Sealed(v).total) <= BodyLimit /\ ValidItem(Sealed(v).total)
  BY <1>1, SealedFits DEF Sealed
<1>3. BodyBytes(Sealed(v).total) \in Nat
  <2>1. Sealed(v).total = BucketFor(size[v] + 4)
    BY DEF Sealed, Pad, PrefixBytes
  <2>2. Sealed(v).total \in Nat
    BY <1>1, <2>1, BucketFits
  <2> QED
    BY <2>2, SMT DEF BodyBytes, Base64Length, EnvelopeBytes
<1> QED
  BY <1>2, <1>3, SMT DEF Body, BodyLimit

\* What one request does, wherever the middleware stops it.
LEMMA RequestSound ==
  ASSUME IInv, NEW v \in Visitor, NEW route \in Routes, Carried(size[v]),
         BodyRefused(v, route) \/ LimitRefused(v, route) \/ TokenRefused(v, route)
           \/ BodyInvalid(v, route) \/ Handle(v, route)
  PROVE  /\ CountsTyped' /\ StoredOpens'
         /\ answer' = [answer EXCEPT ![v] = answer'[v]] /\ answer'[v] \in Codes
         /\ alive' \in [Visitor -> BOOLEAN] /\ \A w \in Visitor : w # v => alive'[w] = alive[w]
         /\ UNCHANGED <<access, holds>>
         /\ TokenError(answer'[v]) /\ access[v] # "none" => access[v] = "expired"
         /\ route = "refresh" =>
              \/ answer'[v] \in RateLimited \union {"ok", "INTERNAL_ERROR", Unheard}
              \/ answer'[v] = "INVALID_REFRESH_TOKEN" /\ ~alive'[v]
         /\ answer'[v] = "TOO_MANY_ATTEMPTS" =>
              LET l == IF route = "signup" THEN "signup" ELSE "auth" IN tried'[l] > Max(l)
<1> DEFINE ls == LimitsOf(route)
<1>1. CountsTyped /\ StoredOpens /\ answer \in [Visitor -> Codes] /\ alive \in [Visitor -> BOOLEAN]
      /\ access[v] \in {"none", "good", "expired"}
  BY DEF IInv, VisitorsTyped
<1>2. Body(v, route) \in Nat /\ Body(v, route) <= BodyLimit /\ ValidItem(Sealed(v).total)
  BY BodyTyped
<1>3. ls \in Seq(Limit) /\ \A i \in DOMAIN ls : SubSeq(ls, 1, i) \in Seq(Limit)
  BY LimitsTyped
<1>4. CASE LimitRefused(v, route)
  <2>1. PICK i \in DOMAIN ls :
          /\ Over(ls, i)
          /\ hits' = Counted(hits, SubSeq(ls, 1, i)) /\ tried' = TriedNow(SubSeq(ls, 1, i))
          /\ \E heard \in {TooMany(ls[i]), Unheard} : answer' = [answer EXCEPT ![v] = heard]
          /\ UNCHANGED <<access, holds, alive, stored>>
    BY <1>4 DEF LimitRefused, Answers, session
  <2>2. CountsTyped'
    BY <1>1, <1>3, <2>1, CountedTyped DEF CountsTyped
  <2>3. /\ answer'[v] \in RateLimited \union {Unheard} /\ ~TokenError(answer'[v])
        /\ answer' = [answer EXCEPT ![v] = answer'[v]]
    BY <1>1, <2>1 DEF TooMany, RateLimited, TokenError, Unheard
  <2>4. ASSUME answer'[v] = "TOO_MANY_ATTEMPTS"
        PROVE  LET l == IF route = "signup" THEN "signup" ELSE "auth" IN tried'[l] > Max(l)
    <3>1. ls[i] # "api"
      BY <1>1, <2>1, <2>4 DEF TooMany, Unheard
    <3>2. ls[i] = IF route = "signup" THEN "signup" ELSE "auth"
      BY <3>1, <2>1, LimitsTyped
    <3>3. hits'[ls[i]] > Max(ls[i])
      BY <2>1 DEF Over, Key
    <3> QED
      BY <2>2, <3>2, <3>3 DEF CountsTyped
  <2> QED
    BY <1>1, <2>1, <2>2, <2>3, <2>4 DEF StoredOpens, RateLimited, Unheard, Codes
<1>5. ASSUME Admitted(v, route) PROVE CountsTyped'
  BY <1>1, <1>3, <1>5, CountedTyped DEF Admitted, CountsTyped
<1>6. CASE TokenRefused(v, route) \/ Handle(v, route)
  <2>1. CountsTyped'
    BY <1>5, <1>6 DEF TokenRefused, Handle
  <2>2. CASE TokenRefused(v, route)
    <3>1. /\ \E heard \in {"NO_TOKEN", "INVALID_TOKEN", Unheard} :
               answer' = [answer EXCEPT ![v] = heard]
          /\ UNCHANGED <<access, holds, alive, stored>> /\ access[v] # "good"
          /\ Guarded(route)
      BY <2>2 DEF TokenRefused, Answers, session
    <3>2. answer' = [answer EXCEPT ![v] = answer'[v]]
          /\ answer'[v] \in {"NO_TOKEN", "INVALID_TOKEN", "NETWORK_ERROR"}
      BY <1>1, <3>1 DEF Unheard
    <3> QED
      BY <1>1, <2>1, <3>1, <3>2 DEF StoredOpens, Codes, Guarded
  <2>3. CASE Handle(v, route)
    <3>1. PICK code \in Handled(route, v), committed \in BOOLEAN :
            /\ \E heard \in {code, Unheard} : answer' = [answer EXCEPT ![v] = heard]
            /\ alive' = [alive EXCEPT ![v] = @ /\ ~(committed /\ route = "password")]
            /\ stored' = IF committed /\ route = "create" THEN Sealed(v) ELSE stored
            /\ UNCHANGED <<access, holds>>
      <4>1. \A code : Committed(code) \subseteq BOOLEAN
        BY DEF Committed
      <4> QED
        BY <2>3, <4>1 DEF Handle, Answers
    <3>2. /\ code \in Codes \ {"NO_TOKEN", "INVALID_TOKEN", "TOO_MANY_ATTEMPTS"}
          /\ route = "refresh" => code \in {"ok", "INTERNAL_ERROR"}
                                    \/ (code = "INVALID_REFRESH_TOKEN" /\ ~alive[v])
      BY <3>1 DEF Handled, Routes, Requests, Codes
    <3>3. StoredOpens'
      <4>1. stored' = stored \/ stored' = Pad(size[v])
        BY <3>1 DEF Sealed
      <4>2. size[v] \in Nat
        BY CarriedTyped, Zenon
      <4> QED
        BY <1>1, <4>1, <4>2 DEF StoredOpens
    <3>4. answer'[v] \in {code, "NETWORK_ERROR"} /\ answer' = [answer EXCEPT ![v] = answer'[v]]
      BY <1>1, <3>1 DEF Unheard
    <3>5. alive' \in [Visitor -> BOOLEAN] /\ \A w \in Visitor : w # v => alive'[w] = alive[w]
      BY <1>1, <3>1
    <3>6. route = "refresh" => alive'[v] = alive[v]
      BY <1>1, <3>1
    <3> QED
      BY <2>1, <3>1, <3>2, <3>3, <3>4, <3>5, <3>6 DEF TokenError, Codes, Unheard
  <2> QED
    BY <1>6, <2>2, <2>3
<1>7. ~BodyRefused(v, route) /\ ~BodyInvalid(v, route)
  BY <1>2, SMT DEF BodyRefused, BodyInvalid, BodyLimit
<1> QED
  BY <1>4, <1>6, <1>7

\* A step of somebody else leaves a visitor as sound as it was.
LEMMA SoundKept ==
  ASSUME NEW w \in Visitor, VisitorSound(w), flow'[w] = flow[w], step'[w] = step[w],
         stage'[w] = stage[w], answer'[w] = answer[w], size'[w] = size[w],
         access'[w] = access[w], holds'[w] = holds[w], alive'[w] = alive[w]
  PROVE  VisitorSound(w)'
BY DEF VisitorSound, Route

LEMMA InitSound == Init => IInv
<1> SUFFICES ASSUME Init PROVE IInv
  OBVIOUS
<1>1. CountsTyped
  BY DEF Init, CountsTyped
<1>2. VisitorsTyped
  BY DEF Init, VisitorsTyped, Stages, Codes
<1>3. StoredOpens
  <2>1. stored = Pad(0) /\ 0 \in Nat /\ 0 \in Size \union {0}
    BY DEF Init
  <2>2. 0 <= MaxItemBytes
    BY MaxItem, SMT
  <2> QED
    BY <2>1, <2>2, Zenon DEF StoredOpens, Carried
<1>4. ASSUME NEW v \in Visitor PROVE VisitorSound(v)
  BY DEF Init, VisitorSound
<1> QED
  BY <1>1, <1>2, <1>3, <1>4 DEF IInv

LEMMA StartSound ==
  ASSUME IInv, NEW v \in Visitor, NEW f \in DOMAIN Flow, NEW n, n \in Size \union {0},
         f # "save" => Carried(n), Start(v, f, n)
  PROVE  IInv'
<1>1. CountsTyped' /\ StoredOpens'
  BY DEF Start, store, IInv, CountsTyped, StoredOpens
<1>2. UNCHANGED <<access, holds, alive, answer>> /\ stage[v] = "idle" /\ VisitorsTyped
  BY DEF Start, session, IInv
<1>3. /\ flow' = [flow EXCEPT ![v] = f] /\ step' = [step EXCEPT ![v] = 1]
      /\ stage' = [stage EXCEPT ![v] = "sent"] /\ size' = [size EXCEPT ![v] = n]
  BY DEF Start
<1>4. Carried(n)
  BY DEF Start, Carried
<1>5. VisitorsTyped'
  BY <1>2, <1>3 DEF VisitorsTyped, Stages, Codes
<1>6. 1 \in DOMAIN Flow[f] /\ f # "none"
  BY DEF Flow
<1>7. VisitorSound(v)'
  <2>1. /\ flow'[v] = f /\ step'[v] = 1 /\ stage'[v] = "sent" /\ size'[v] = n
        /\ access'[v] = access[v] /\ holds'[v] = holds[v]
    BY <1>2, <1>3 DEF VisitorsTyped
  <2> QED
    BY <1>4, <1>6, <2>1 DEF VisitorSound, IInv
<1>8. ASSUME NEW w \in Visitor, w # v PROVE VisitorSound(w)'
  <2>1. /\ flow'[w] = flow[w] /\ step'[w] = step[w] /\ stage'[w] = stage[w]
        /\ size'[w] = size[w] /\ answer'[w] = answer[w] /\ access'[w] = access[w]
        /\ holds'[w] = holds[w] /\ alive'[w] = alive[w]
    BY <1>2, <1>3, <1>8 DEF VisitorsTyped
  <2> QED
    BY <2>1, SoundKept DEF IInv
<1> QED
  BY <1>1, <1>5, <1>7, <1>8 DEF IInv

LEMMA ReceiveSound ==
  ASSUME IInv, NEW v \in Visitor, Receive(v)
  PROVE  IInv'
<1>1. VisitorsTyped /\ VisitorSound(v) /\ UNCHANGED <<flow, step, size, flows, expiries>>
  BY DEF IInv, Receive
<1>2. PICK route \in Routes :
        /\ BodyRefused(v, route) \/ LimitRefused(v, route) \/ TokenRefused(v, route)
             \/ BodyInvalid(v, route) \/ Handle(v, route)
        /\ \/ stage[v] = "sent" /\ stage' = [stage EXCEPT ![v] = "answered"]
           \/ stage[v] = "retried" /\ stage' = [stage EXCEPT ![v] = "final"]
           \/ /\ stage[v] = "refreshing" /\ stage' = [stage EXCEPT ![v] = "refreshed"]
              /\ route = "refresh"
  <2>1. stage[v] # "idle" => Route(v) \in Routes
    BY <1>1, RouteTyped DEF VisitorsTyped, VisitorSound, Routes
  <2>2. "refresh" \in Routes
    BY DEF Routes
  <2> QED
    BY <2>1, <2>2, Zenon DEF Receive
<1>3. stage[v] # "idle" /\ Carried(size[v])
  BY <1>1, <1>2 DEF VisitorSound
<1>4. /\ CountsTyped' /\ StoredOpens'
      /\ answer' = [answer EXCEPT ![v] = answer'[v]] /\ answer'[v] \in Codes
      /\ alive' \in [Visitor -> BOOLEAN] /\ \A w \in Visitor : w # v => alive'[w] = alive[w]
      /\ UNCHANGED <<access, holds>>
      /\ TokenError(answer'[v]) /\ access[v] # "none" => access[v] = "expired"
      /\ route = "refresh" =>
           \/ answer'[v] \in RateLimited \union {"ok", "INTERNAL_ERROR", Unheard}
           \/ answer'[v] = "INVALID_REFRESH_TOKEN" /\ ~alive'[v]
  BY <1>2, <1>3, RequestSound
<1>5. VisitorsTyped'
  BY <1>1, <1>2, <1>4 DEF VisitorsTyped, Stages
<1>6. VisitorSound(v)'
  <2>1. \/ stage[v] = "sent" /\ stage'[v] = "answered"
        \/ stage[v] = "retried" /\ stage'[v] = "final"
        \/ stage[v] = "refreshing" /\ stage'[v] = "refreshed" /\ route = "refresh"
    BY <1>1, <1>2 DEF VisitorsTyped
  <2>2. Route(v)' = Route(v)
    BY <1>1 DEF Route
  <2> QED
    BY <1>1, <1>4, <2>1, <2>2 DEF VisitorSound
<1>7. ASSUME NEW w \in Visitor, w # v PROVE VisitorSound(w)'
  <2>1. stage'[w] = stage[w] /\ answer'[w] = answer[w]
    BY <1>1, <1>2, <1>4, <1>7 DEF VisitorsTyped
  <2> QED
    BY <1>1, <1>4, <1>7, <2>1, SoundKept DEF IInv
<1> QED
  BY <1>4, <1>5, <1>6, <1>7 DEF IInv

\* A flow that ends leaves nothing of itself, with or without the session.
LEMMA EndsSound ==
  ASSUME IInv, NEW v \in Visitor, Ends(v),
         \/ UNCHANGED session
         \/ /\ access' = [access EXCEPT ![v] = "none"] /\ holds' = [holds EXCEPT ![v] = FALSE]
            /\ alive' = [alive EXCEPT ![v] = FALSE]
         \/ /\ access' = [access EXCEPT ![v] = "good"] /\ holds' = [holds EXCEPT ![v] = TRUE]
            /\ alive' = [alive EXCEPT ![v] = TRUE]
  PROVE  IInv'
<1>1. /\ flow' = [flow EXCEPT ![v] = "none"]
      /\ step' = [step EXCEPT ![v] = 0] /\ size' = [size EXCEPT ![v] = 0]
      /\ stage' = [stage EXCEPT ![v] = "idle"] /\ answer' = [answer EXCEPT ![v] = "none"]
      /\ UNCHANGED <<hits, tried, stored>> /\ VisitorsTyped
  BY DEF Ends, store, IInv
<1>2. /\ VisitorsTyped'
      /\ \A w \in Visitor : w # v => /\ access'[w] = access[w] /\ holds'[w] = holds[w]
                                     /\ alive'[w] = alive[w]
      /\ holds'[v] = (access'[v] # "none")
  <2>1. /\ flow' \in [Visitor -> DOMAIN Flow \union {"none"}] /\ step' \in [Visitor -> Nat]
        /\ stage' \in [Visitor -> Stages] /\ answer' \in [Visitor -> Codes]
        /\ size' \in [Visitor -> Size \union {0}]
    BY <1>1 DEF VisitorsTyped, Stages, Codes
  <2>2. holds[v] = (access[v] # "none")
    BY DEF IInv, VisitorSound
  <2>3. /\ access' \in [Visitor -> {"none", "good", "expired"}]
        /\ holds' \in [Visitor -> BOOLEAN] /\ alive' \in [Visitor -> BOOLEAN]
        /\ \A w \in Visitor : w # v => /\ access'[w] = access[w] /\ holds'[w] = holds[w]
                                       /\ alive'[w] = alive[w]
    BY <1>1 DEF VisitorsTyped, session
  <2>4. holds'[v] = (access'[v] # "none")
    BY <1>1, <2>2, Zenon DEF VisitorsTyped, session
  <2> QED
    BY <1>1, <2>1, <2>3, <2>4 DEF VisitorsTyped
<1>3. VisitorSound(v)'
  <2>1. stage'[v] = "idle" /\ flow'[v] = "none"
    BY <1>1 DEF VisitorsTyped
  <2> QED
    BY <1>2, <2>1 DEF VisitorSound
<1>4. ASSUME NEW w \in Visitor, w # v PROVE VisitorSound(w)'
  <2>1. /\ flow'[w] = flow[w] /\ step'[w] = step[w] /\ stage'[w] = stage[w]
        /\ answer'[w] = answer[w] /\ size'[w] = size[w]
    BY <1>1, <1>4 DEF VisitorsTyped
  <2> QED
    BY <1>2, <1>4, <2>1, SoundKept DEF IInv
<1> QED
  BY <1>1, <1>2, <1>3, <1>4 DEF IInv, CountsTyped, StoredOpens

LEMMA ClientSound ==
  ASSUME IInv, NEW v \in Visitor,
         \/ NetworkError(v) \/ AskRefresh(v) \/ Retry(v) \/ LoseSession(v)
         \/ Proceed(v) \/ PasswordChanged(v) \/ Explain(v)
  PROVE  IInv'
<1>1. VisitorsTyped /\ VisitorSound(v) /\ CountsTyped /\ StoredOpens
  BY DEF IInv
<1>2. ASSUME NEW w \in Visitor, w # v, answer' = [answer EXCEPT ![v] = answer'[v]],
             step' = [step EXCEPT ![v] = step'[v]], stage' = [stage EXCEPT ![v] = stage'[v]],
             access' = [access EXCEPT ![v] = access'[v]], holds' = [holds EXCEPT ![v] = holds'[v]],
             UNCHANGED <<flow, size, alive>>
      PROVE  VisitorSound(w)'
  <2>1. /\ step'[w] = step[w] /\ stage'[w] = stage[w] /\ answer'[w] = answer[w]
        /\ access'[w] = access[w] /\ holds'[w] = holds[w]
    BY <1>1, <1>2 DEF VisitorsTyped
  <2> QED
    BY <1>2, <2>1, SoundKept DEF IInv
<1>3. CASE NetworkError(v)
  <2>1. /\ stage[v] \in {"sent", "retried", "refreshing"}
        /\ stage' = [stage EXCEPT ![v] = CASE stage[v] = "sent"    -> "answered"
                                           [] stage[v] = "retried" -> "final"
                                           [] OTHER                -> "refreshed"]
        /\ answer' = [answer EXCEPT ![v] = "NETWORK_ERROR"]
        /\ UNCHANGED <<flow, step, size, hits, tried, access, holds, alive, stored>>
    BY <1>3 DEF NetworkError, Answers, Unheard, store, session
  <2>2. /\ answer'[v] = "NETWORK_ERROR"
        /\ \/ stage[v] = "sent" /\ stage'[v] = "answered"
           \/ stage[v] = "retried" /\ stage'[v] = "final"
           \/ stage[v] = "refreshing" /\ stage'[v] = "refreshed"
    BY <1>1, <2>1 DEF VisitorsTyped
  <2>3. VisitorsTyped'
    BY <1>1, <2>1 DEF VisitorsTyped, Stages, Codes
  <2>4. VisitorSound(v)'
    BY <1>1, <2>1, <2>2 DEF VisitorSound, Route, TokenError, Unheard
  <2>5. ASSUME NEW w \in Visitor, w # v PROVE VisitorSound(w)'
    <3>1. answer'[w] = answer[w] /\ stage'[w] = stage[w]
      BY <1>1, <2>1, <2>5 DEF VisitorsTyped
    <3> QED
      BY <2>1, <3>1, SoundKept DEF IInv
  <2> QED
    BY <1>1, <2>1, <2>3, <2>4, <2>5 DEF IInv, CountsTyped, StoredOpens
<1>4. CASE AskRefresh(v) \/ Retry(v)
  <2>1. /\ \/ /\ stage' = [stage EXCEPT ![v] = "refreshing"] /\ access' = access /\ Refreshes(v)
           \/ /\ stage' = [stage EXCEPT ![v] = "retried"] /\ stage[v] = "refreshed"
              /\ access' = [access EXCEPT ![v] = "good"]
        /\ UNCHANGED <<flow, step, answer, size, hits, tried, holds, alive, stored>>
    BY <1>4 DEF AskRefresh, Retry, store, session
  <2>2. \/ stage'[v] = "refreshing" /\ access'[v] = access[v] /\ Refreshes(v)
        \/ stage'[v] = "retried" /\ stage[v] = "refreshed" /\ access'[v] = "good"
    BY <1>1, <2>1 DEF VisitorsTyped
  <2>3. VisitorsTyped'
    BY <1>1, <2>1 DEF VisitorsTyped, Stages
  <2>4. VisitorSound(v)'
    BY <1>1, <2>1, <2>2 DEF VisitorSound, Route, Refreshes
  <2>5. ASSUME NEW w \in Visitor, w # v PROVE VisitorSound(w)'
    <3>1. access'[w] = access[w] /\ stage'[w] = stage[w]
      BY <1>1, <2>1, <2>5 DEF VisitorsTyped
    <3> QED
      BY <2>1, <3>1, SoundKept DEF IInv
  <2> QED
    BY <1>1, <2>1, <2>3, <2>4, <2>5 DEF IInv, CountsTyped, StoredOpens
<1>5. CASE LoseSession(v) \/ PasswordChanged(v)
  BY <1>5, EndsSound DEF LoseSession, PasswordChanged, Drops
<1>6. CASE Explain(v)
  BY <1>6, EndsSound DEF Explain
<1>7. CASE Proceed(v)
  <2>1. /\ stage[v] \in {"answered", "final"} /\ flow[v] \in DOMAIN Flow
        /\ \/ UNCHANGED session
           \/ /\ access' = [access EXCEPT ![v] = "good"] /\ holds' = [holds EXCEPT ![v] = TRUE]
              /\ alive' = [alive EXCEPT ![v] = TRUE]
    BY <1>1, <1>7 DEF Proceed, Settled, VisitorsTyped, VisitorSound
  <2>2. CASE step[v] = Len(Flow[flow[v]])
    BY <1>7, <2>1, <2>2, EndsSound DEF Proceed
  <2>3. CASE step[v] # Len(Flow[flow[v]])
    <3>1. /\ step' = [step EXCEPT ![v] = step[v] + 1] /\ stage' = [stage EXCEPT ![v] = "sent"]
          /\ answer' = [answer EXCEPT ![v] = "none"]
          /\ UNCHANGED <<flow, size, hits, tried, stored>>
      BY <1>7, <2>3 DEF Proceed, store
    <3>2. VisitorsTyped'
      <4>1. step' \in [Visitor -> Nat] /\ stage' \in [Visitor -> Stages]
            /\ answer' \in [Visitor -> Codes]
        BY <1>1, <3>1 DEF VisitorsTyped, Stages, Codes
      <4>2. /\ access' \in [Visitor -> {"none", "good", "expired"}]
            /\ holds' \in [Visitor -> BOOLEAN] /\ alive' \in [Visitor -> BOOLEAN]
        BY <1>1, <2>1 DEF VisitorsTyped, session
      <4> QED
        BY <1>1, <3>1, <4>1, <4>2 DEF VisitorsTyped
    <3>3. step[v] + 1 \in DOMAIN Flow[flow[v]]
      <4>1. step[v] \in DOMAIN Flow[flow[v]]
        BY <1>1, <2>1 DEF VisitorSound
      <4>2. Len(Flow[flow[v]]) \in Nat /\ DOMAIN Flow[flow[v]] = 1 .. Len(Flow[flow[v]])
        BY <2>1, <4>1, RouteTyped
      <4> QED
        BY <2>3, <4>1, <4>2
    <3>4. VisitorSound(v)'
      <4>1. /\ step'[v] = step[v] + 1 /\ stage'[v] = "sent" /\ flow'[v] = flow[v]
            /\ holds'[v] = (access'[v] # "none")
        BY <1>1, <2>1, <3>1 DEF VisitorsTyped, VisitorSound, session
      <4> QED
        BY <1>1, <2>1, <3>1, <3>3, <4>1 DEF VisitorSound
    <3>5. ASSUME NEW w \in Visitor, w # v PROVE VisitorSound(w)'
      <4>1. /\ step'[w] = step[w] /\ stage'[w] = stage[w] /\ answer'[w] = answer[w]
            /\ access'[w] = access[w] /\ holds'[w] = holds[w] /\ alive'[w] = alive[w]
        BY <1>1, <2>1, <3>1, <3>5 DEF VisitorsTyped, session
      <4> QED
        BY <3>1, <4>1, SoundKept DEF IInv
    <3> QED
      BY <1>1, <3>1, <3>2, <3>4, <3>5 DEF IInv, CountsTyped, StoredOpens
  <2> QED
    BY <2>2, <2>3
<1> QED
  BY <1>3, <1>4, <1>5, <1>6, <1>7

LEMMA TimeSound ==
  ASSUME IInv,
         \/ \E v \in Visitor : AccessExpires(v) \/ SessionEnds(v)
         \/ \E l \in Limit : WindowEnds(l)
  PROVE  IInv'
<1>1. VisitorsTyped /\ CountsTyped /\ StoredOpens
  BY DEF IInv
<1>2. ASSUME NEW v \in Visitor, AccessExpires(v) PROVE IInv'
  <2>1. /\ access[v] = "good" /\ access' = [access EXCEPT ![v] = "expired"]
        /\ UNCHANGED <<flow, step, stage, answer, size, hits, tried, holds, alive, stored>>
    BY <1>2 DEF AccessExpires, store, visitor
  <2>2. VisitorsTyped'
    BY <1>1, <2>1 DEF VisitorsTyped
  <2>3. ASSUME NEW w \in Visitor PROVE VisitorSound(w)'
    <3>1. access'[w] = IF w = v THEN "expired" ELSE access[w]
      BY <1>1, <2>1 DEF VisitorsTyped
    <3> QED
      BY <2>1, <3>1 DEF IInv, VisitorSound, Route
  <2> QED
    BY <1>1, <2>1, <2>2, <2>3 DEF IInv, CountsTyped, StoredOpens
<1>3. ASSUME NEW v \in Visitor, SessionEnds(v) PROVE IInv'
  <2>1. /\ alive' = [alive EXCEPT ![v] = FALSE]
        /\ UNCHANGED <<flow, step, stage, answer, size, hits, tried, holds, access, stored>>
    BY <1>3 DEF SessionEnds, store, visitor
  <2>2. VisitorsTyped'
    BY <1>1, <2>1 DEF VisitorsTyped
  <2>3. ASSUME NEW w \in Visitor PROVE VisitorSound(w)'
    <3>1. alive'[w] = IF w = v THEN FALSE ELSE alive[w]
      BY <1>1, <2>1 DEF VisitorsTyped
    <3> QED
      BY <2>1, <3>1 DEF IInv, VisitorSound, Route
  <2> QED
    BY <1>1, <2>1, <2>2, <2>3 DEF IInv, CountsTyped, StoredOpens
<1>4. ASSUME NEW l \in Limit, WindowEnds(l) PROVE IInv'
  <2>1. /\ hits' = [hits EXCEPT ![l] = 0] /\ tried' = [tried EXCEPT ![l] = 0]
        /\ UNCHANGED <<flow, step, stage, answer, size, access, holds, alive, stored>>
    BY <1>4 DEF WindowEnds, Key, visitor, session
  <2>2. CountsTyped'
    BY <1>1, <2>1 DEF CountsTyped
  <2>3. ASSUME NEW w \in Visitor PROVE VisitorSound(w)'
    BY <2>1, SoundKept DEF IInv
  <2> QED
    BY <1>1, <2>1, <2>2, <2>3 DEF IInv, VisitorsTyped, StoredOpens
<1> QED
  BY <1>2, <1>3, <1>4

LEMMA StepSound == IInv /\ [Next]_vars => IInv'
<1> SUFFICES ASSUME IInv, [Next]_vars PROVE IInv'
  OBVIOUS
<1>1. CASE UNCHANGED vars
  <2>1. UNCHANGED <<hits, tried, flow, step, stage, answer, size, access, holds, alive, stored>>
    BY <1>1 DEF vars, store, visitor, session
  <2>2. ASSUME NEW w \in Visitor PROVE VisitorSound(w)'
    BY <2>1, SoundKept DEF IInv
  <2> QED
    BY <2>1, <2>2 DEF IInv, CountsTyped, VisitorsTyped, StoredOpens
<1>2. ASSUME NEW v \in Visitor, NEW f \in DOMAIN Flow \ {"save", "provision"}, Start(v, f, 0)
      PROVE  IInv'
  <2>1. Carried(0)
    BY MaxItem, SMT DEF Carried
  <2> QED
    BY <1>2, <2>1, StartSound
<1>3. ASSUME NEW v \in Visitor, NEW n \in Size, Start(v, "save", n) PROVE IInv'
  <2>1. "save" \in DOMAIN Flow
    BY DEF Flow
  <2> QED
    BY <1>3, <2>1, StartSound
<1>4. ASSUME NEW v \in Visitor, Start(v, "provision", Fixture) PROVE IInv'
  <2>1. "provision" \in DOMAIN Flow
    BY DEF Flow
  <2> QED
    BY <1>4, <2>1, StartSound, FixtureAssumption DEF Carried
<1> QED
  BY <1>1, <1>2, <1>3, <1>4, ReceiveSound, ClientSound, TimeSound DEF Next

-----------------------------------------------------------------------------
(* The invariant of HttpApi: where every visitor is in its flow, what its  *)
(* last answer says about its tokens, that every limit counts its own      *)
(* requests, and that no size the browser lets through is refused.         *)
THEOREM Invariance == Spec => []IInv
<1>1. Init => IInv
  BY InitSound
<1>2. IInv /\ [Next]_vars => IInv'
  BY StepSound
<1> QED
  BY <1>1, <1>2, PTL DEF Spec

\* A request is in flight only within a flow, and a session has a token.
THEOREM TypeCorrect == Spec => []TypeOK
<1>1. IInv => TypeOK
  BY DEF IInv, CountsTyped, VisitorsTyped, VisitorSound, TypeOK
<1> QED
  BY <1>1, Invariance, PTL

\* An entry the browser agreed to save is never refused for its size, and comes
\* back with the length it had.
THEOREM Carriage == Spec => []SealedIsCarried
<1>1. IInv => SealedIsCarried
  <2> SUFFICES ASSUME IInv PROVE SealedIsCarried
    OBVIOUS
  <2>1. \A v \in Visitor : answer[v] \notin {"PAYLOAD_TOO_LARGE", "VALIDATION_FAILED"}
    BY DEF IInv, VisitorsTyped, Codes
  <2>2. PICK n \in Nat : Carried(n) /\ stored = Pad(n)
    BY DEF IInv, StoredOpens
  <2>3. Unpad(stored) = n
    <3>1. n < 2147483648
      BY <2>2, CarriedTyped, MaxItem, SMT
    <3> QED
      BY <2>2, <3>1, PadRoundTrip, SMT
  <2> QED
    BY <2>1, <2>2, <2>3, Zenon DEF SealedIsCarried, Carried
<1> QED
  BY <1>1, Invariance, PTL

\* The limit that answers "too many attempts" has had more requests of its own,
\* in its window, than it allows: nobody pays for what others did elsewhere.
THEOREM Earned == Spec => RefusalIsEarned
<1> DEFINE A == \A v \in Visitor, l \in {"auth", "signup"} :
                  answer[v] # "TOO_MANY_ATTEMPTS" /\ answer'[v] = "TOO_MANY_ATTEMPTS"
                    /\ l = (IF stage[v] # "refreshing" /\ Route(v) = "signup" THEN "signup"
                            ELSE "auth")
                  => tried'[l] > Max(l)
<1>1. IInv /\ [Next]_vars => A \/ UNCHANGED vars
  <2> SUFFICES ASSUME IInv, Next, NEW v \in Visitor,
                      answer[v] # "TOO_MANY_ATTEMPTS", answer'[v] = "TOO_MANY_ATTEMPTS"
               PROVE  LET l == IF stage[v] # "refreshing" /\ Route(v) = "signup" THEN "signup"
                               ELSE "auth"
                      IN  tried'[l] > Max(l)
    OBVIOUS
  <2>1. answer \in [Visitor -> Codes] /\ VisitorsTyped /\ VisitorSound(v)
    BY DEF IInv, VisitorsTyped
  <2>2. Receive(v)
    <3>1. ASSUME NEW w \in Visitor, Receive(w) PROVE w = v
      <4>1. answer' = [answer EXCEPT ![w] = answer'[w]]
        BY <2>1, <3>1 DEF Receive, BodyRefused, LimitRefused, TokenRefused, BodyInvalid, Handle,
                          Answers
      <4> QED
        BY <2>1, <4>1
    <3>2. ASSUME NEW w \in Visitor,
                 \/ \E f \in DOMAIN Flow, n \in Size \union {0, Fixture} : Start(w, f, n)
                 \/ NetworkError(w) \/ AskRefresh(w) \/ Retry(w) \/ LoseSession(w)
                 \/ Proceed(w) \/ PasswordChanged(w) \/ Explain(w)
                 \/ AccessExpires(w) \/ SessionEnds(w)
          PROVE  answer'[v] \in {answer[v], "none", "NETWORK_ERROR"}
      BY <2>1, <3>2 DEF Start, NetworkError, Answers, Unheard, AskRefresh, Retry, LoseSession,
                        Proceed, PasswordChanged, Explain, Drops, Ends, AccessExpires, SessionEnds, visitor
    <3>3. ASSUME NEW l \in Limit, WindowEnds(l) PROVE answer' = answer
      BY <3>3 DEF WindowEnds, visitor
    <3>4. {"save", "provision"} \subseteq DOMAIN Flow
      BY DEF Flow
    <3> QED
      BY <3>1, <3>2, <3>3, <3>4 DEF Next
  <2>3. ASSUME NEW route \in Routes, stage[v] # "idle",
               BodyRefused(v, route) \/ LimitRefused(v, route) \/ TokenRefused(v, route)
                 \/ BodyInvalid(v, route) \/ Handle(v, route)
        PROVE  LET l == IF route = "signup" THEN "signup" ELSE "auth" IN tried'[l] > Max(l)
    BY <2>1, <2>3, RequestSound DEF VisitorSound
  <2>4. stage[v] # "idle" => Route(v) \in Routes
    BY <2>1, RouteTyped DEF VisitorsTyped, VisitorSound, Routes
  <2>5. "refresh" \in Routes
    BY DEF Routes
  <2>6. CASE stage[v] = "refreshing"
    BY <2>2, <2>3, <2>5, <2>6 DEF Receive
  <2>7. CASE stage[v] # "refreshing"
    BY <2>2, <2>3, <2>4, <2>7 DEF Receive
  <2> QED
    BY <2>6, <2>7
<1>2. A \/ UNCHANGED vars => [A]_vars
  OBVIOUS
<1> HIDE DEF A
<1>3. IInv /\ [Next]_vars => [A]_vars
  BY <1>1, <1>2
<1>4. Spec => [][A]_vars
  BY <1>3, Invariance, PTL DEF Spec
<1> QED
  BY <1>4 DEF A, RefusalIsEarned

\* Without a changed password, a vault is taken off the screen only when the access
\* token was no good and the refresh could not help: because the session was over, or
\* for an answer, or none, that says nothing about the session.
THEOREM LossHasCause == Spec => SessionLossHasCause
<1> DEFINE A == \A v \in Visitor :
                  holds[v] /\ ~holds'[v] /\ ~(answer[v] = "ok" /\ Route(v) = "password") =>
                    /\ access[v] = "expired"
                    /\ ~alive[v] \/ answer[v] \in RateLimited \union {Unheard, "INTERNAL_ERROR"}
<1>1. IInv /\ [Next]_vars => A \/ UNCHANGED vars
  <2> SUFFICES ASSUME IInv, Next, NEW v \in Visitor,
                      holds[v], ~holds'[v], ~(answer[v] = "ok" /\ Route(v) = "password")
               PROVE  /\ access[v] = "expired"
                      /\ ~alive[v] \/ answer[v] \in RateLimited \union {Unheard, "INTERNAL_ERROR"}
    OBVIOUS
  <2>1. VisitorsTyped /\ VisitorSound(v)
    BY DEF IInv
  <2>2. LoseSession(v)
    <3>1. ASSUME NEW w \in Visitor, LoseSession(w) PROVE w = v
      BY <2>1, <3>1 DEF LoseSession, Drops, VisitorsTyped
    <3>2. ASSUME NEW w \in Visitor, PasswordChanged(w) PROVE FALSE
      BY <2>1, <3>2 DEF PasswordChanged, Drops, VisitorsTyped
    <3>3. ASSUME NEW w \in Visitor, Proceed(w) PROVE FALSE
      BY <2>1, <3>3 DEF Proceed, VisitorsTyped, session
    <3>4. ASSUME NEW w \in Visitor,
                 \/ \E f \in DOMAIN Flow, n \in Size \union {0, Fixture} : Start(w, f, n)
                 \/ Receive(w) \/ NetworkError(w) \/ AskRefresh(w) \/ Retry(w) \/ Explain(w)
                 \/ AccessExpires(w) \/ SessionEnds(w)
          PROVE  holds' = holds
      BY <3>4 DEF Start, Receive, BodyRefused, LimitRefused, TokenRefused, BodyInvalid, Handle,
                  NetworkError, AskRefresh, Retry, Explain, AccessExpires, SessionEnds, session
    <3>5. ASSUME NEW l \in Limit, WindowEnds(l) PROVE holds' = holds
      BY <3>5 DEF WindowEnds, session
    <3>6. {"save", "provision"} \subseteq DOMAIN Flow
      BY DEF Flow
    <3> QED
      BY <3>1, <3>2, <3>3, <3>4, <3>5, <3>6 DEF Next
  <2> QED
    BY <2>1, <2>2 DEF LoseSession, VisitorSound
<1>2. A \/ UNCHANGED vars => [A]_vars
  OBVIOUS
<1> HIDE DEF A
<1>3. IInv /\ [Next]_vars => [A]_vars
  BY <1>1, <1>2
<1>4. Spec => [][A]_vars
  BY <1>3, Invariance, PTL DEF Spec
<1> QED
  BY <1>4 DEF A, SessionLossHasCause
=============================================================================
