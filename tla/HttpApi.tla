------------------------------- MODULE HttpApi -------------------------------
(***************************************************************************)
(* What stands between a screen and a handler: the item that is padded and *)
(* sealed, the request with its access token, the middleware of app.js in  *)
(* its order (body limit, rate limits, requireAuth, validation), the code  *)
(* of the answer, and what the client makes of it (one refresh and retry   *)
(* when the code says the token is no good).                               *)
(*                                                                         *)
(* The visitors share one network address, so they share its counters; a   *)
(* visitor makes one request at a time (ApiClient has the shared refresh). *)
(* Sizes are bytes, exact; contents and credentials are right or wrong.    *)
(***************************************************************************)
EXTENDS Naturals, Integers, FiniteSets, Sequences

CONSTANTS
  Visitor,   \* tabs behind one address
  Size,      \* sizes of serialised items a visitor may save
  Fixture,   \* size of the items of a demo vault
  AuthMax,   \* AUTH_RATE_LIMIT_MAX
  SignupMax, \* SIGNUP_RATE_LIMIT_MAX
  ApiMax,    \* API_RATE_LIMIT_MAX
  MaxFlows,  \* bound on the flows begun
  MaxExpiries\* bound on the expiries of access tokens

ASSUME LimitAssumption == {AuthMax, SignupMax, ApiMax} \subseteq Nat \ {0}
ASSUME SizeAssumption  == Size \subseteq Nat \ {0}
ASSUME BoundAssumption == MaxFlows \in Nat /\ MaxExpiries \in Nat

VARIABLES
  hits,    \* the counters of the rate limits, by key of the store
  tried,   \* history: requests for the routes of a limit since its window began
  flow,    \* what the visitor is doing
  step,    \* which request of the flow
  stage,   \* idle, ready, sent, answered, and the same for a refresh
  answer,  \* the code of the last answer
  size,    \* size of the item being saved
  access,  \* the access token the visitor holds
  holds,   \* the visitor has a session
  alive,   \* the server honours the refresh token it holds
  stored,  \* the item the server stored last, padded
  flows,   \* flows begun
  expiries

store   == <<hits, tried>>
visitor == <<flow, step, stage, answer, size>>
session == <<access, holds, alive>>
vars    == <<store, visitor, session, stored, flows, expiries>>

-----------------------------------------------------------------------------
(* Padding and sealing. *)

PrefixBytes == 4
Buckets == <<256, 512, 1024, 2048, 4096, 8192, 16384, 32768, 65536>>
Largest == Buckets[Len(Buckets)]

\* The smallest bucket that fits; beyond the largest, a multiple of it.
BucketFor(n) ==
  LET fits == {i \in DOMAIN Buckets : n <= Buckets[i]}
  IN  IF fits # {} THEN Buckets[CHOOSE i \in fits : \A j \in fits : i <= j]
                   ELSE ((n + Largest - 1) \div Largest) * Largest

\* The length in four bytes, big-endian.
Place == <<16777216, 65536, 256, 1>>
Header(n) == [i \in 1 .. 4 |-> (n \div Place[i]) % 256]

\* A padded item is its length and its header.
Pad(n) == [total |-> BucketFor(n + PrefixBytes), header |-> Header(n)]

\* The shifts of the code work on signed words of 32 bits: the top byte carries the sign.
HeaderLength(h) ==
  (IF h[1] < 128 THEN h[1] ELSE h[1] - 256) * Place[1] + h[2] * Place[2] + h[3] * Place[3] + h[4]

Malformed == -1
Unpad(p) ==
  LET n == HeaderLength(p.header)
  IN  IF p.total < PrefixBytes \/ n < 0 \/ n + PrefixBytes > p.total THEN Malformed ELSE n

BodyLimit == 96 * 1024
EnvelopeBytes == 81
Base64Length(bytes) == ((bytes + 2) \div 3) * 4
BodyBytes(total) == Base64Length(total) + EnvelopeBytes

Carryable == {i \in DOMAIN Buckets : BodyBytes(Buckets[i]) <= BodyLimit}

\* Mutant: the largest bucket itself.
MaxItemBytesWithPrefix == Buckets[CHOOSE i \in Carryable : \A j \in Carryable : j <= i]
MaxItemBytes == Buckets[CHOOSE i \in Carryable : \A j \in Carryable : j <= i] - PrefixBytes

\* The items of a demo vault are under the cap.
ASSUME FixtureAssumption == Fixture \in Size /\ Fixture <= MaxItemBytes

\* vaultItemSchema: a backstop behind the body limit.
CiphertextMax == 100000
ValidItem(total) == Base64Length(total) \in 1 .. CiphertextMax

-----------------------------------------------------------------------------
(* Routes. *)

Flow == [unlock    |-> <<"kdf-params", "login">>,
         provision |-> <<"signup", "login", "create">>,
         save      |-> <<"create">>,
         password  |-> <<"kdf-params", "password">>]

\* Which flows need an open vault.
Inside == {"save", "password"}

Limit == {"api", "auth", "signup"}
Max(l) == CASE l = "api" -> ApiMax [] l = "auth" -> AuthMax [] l = "signup" -> SignupMax

\* Every route counts for the api limit first, then for its own.
LimitsOf(route) ==
  CASE route = "signup" -> <<"api", "signup">>
    [] route = "create" -> <<"api">>
    [] OTHER            -> <<"api", "auth">>

\* Mutant: the default prefix of the store, the same for every limit.
KeyShared(l) == "api"

\* The prefix of the limit keeps its counters apart from the others.
Key(l) == l

Guarded(route) == route \in {"create", "password"}
TooMany(l) == IF l = "api" THEN "TOO_MANY_REQUESTS" ELSE "TOO_MANY_ATTEMPTS"
RateLimited == {"TOO_MANY_REQUESTS", "TOO_MANY_ATTEMPTS"}

\* What the handler of the route may answer once everything before it passed.  What
\* it did not expect, a database that fails for one, is a 500 on every route.
Handled(route, v) == {"INTERNAL_ERROR"} \union
  CASE route = "signup"     -> {"ok", "EMAIL_TAKEN"}
    [] route = "kdf-params" -> {"ok", "NOT_FOUND"}
    [] route = "login"      -> {"ok", "INVALID_CREDENTIALS"}
    [] route = "refresh"    -> IF alive[v] THEN {"ok"} ELSE {"INVALID_REFRESH_TOKEN"}
    [] route = "create"     -> {"ok", "VAULT_FULL"}
    [] route = "password"   -> {"ok", "INVALID_CREDENTIALS"}

\* Whether its transaction committed: an unexpected error may come before or after.
Committed(code) ==
  CASE code = "ok" -> {TRUE} [] code = "INTERNAL_ERROR" -> BOOLEAN [] OTHER -> {FALSE}

Route(v) == Flow[flow[v]][step[v]]
Sealed(v) == Pad(size[v])
Body(v, route) == IF route = "create" THEN BodyBytes(Sealed(v).total) ELSE 0

-----------------------------------------------------------------------------
Init ==
  /\ hits = [l \in Limit |-> 0] /\ tried = [l \in Limit |-> 0]
  /\ flow = [v \in Visitor |-> "none"] /\ step = [v \in Visitor |-> 0]
  /\ stage = [v \in Visitor |-> "idle"] /\ answer = [v \in Visitor |-> "none"]
  /\ size = [v \in Visitor |-> 0]
  /\ access = [v \in Visitor |-> "none"] /\ holds = [v \in Visitor |-> FALSE] /\ alive = [v \in Visitor |-> FALSE]
  /\ stored = Pad(0)
  /\ flows = 0 /\ expiries = 0

\* An entry over the cap is refused before it is padded, and nothing is sent.
Start(v, f, n) ==
  /\ stage[v] = "idle" /\ flows < MaxFlows
  /\ (f \in Inside) = holds[v]
  /\ f = "save" => n <= MaxItemBytes
  /\ flows' = flows + 1
  /\ flow' = [flow EXCEPT ![v] = f] /\ step' = [step EXCEPT ![v] = 1]
  /\ stage' = [stage EXCEPT ![v] = "sent"]
  /\ size' = [size EXCEPT ![v] = n]
  /\ UNCHANGED <<answer, store, session, stored, expiries>>

-----------------------------------------------------------------------------
(* The middleware, in the order app.js mounts it. *)

Counted(c, ls) == [k \in Limit |-> c[k] + Cardinality({i \in DOMAIN ls : Key(ls[i]) = k})]
TriedNow(ls)   == [l \in Limit |-> tried[l] + Cardinality({i \in DOMAIN ls : ls[i] = l})]

\* The limits count one after the other; the first that is over its maximum answers.
Over(ls, i) == Counted(hits, SubSeq(ls, 1, i))[Key(ls[i])] > Max(ls[i])

\* An answer is heard, or it is lost, or its body cannot be read, or the gateway gives
\* its own: NETWORK_ERROR or REQUEST_FAILED, which the client treats alike.
Unheard == "NETWORK_ERROR"
Answers(v, code) == \E heard \in {code, Unheard} : answer' = [answer EXCEPT ![v] = heard]

BodyRefused(v, route) ==
  /\ Body(v, route) > BodyLimit
  /\ Answers(v, "PAYLOAD_TOO_LARGE")
  /\ UNCHANGED <<store, session, stored>>

LimitRefused(v, route) ==
  LET ls == LimitsOf(route)
  IN  \E i \in DOMAIN ls :
        /\ Body(v, route) <= BodyLimit
        /\ Over(ls, i) /\ \A j \in 1 .. i - 1 : ~Over(ls, j)
        /\ hits' = Counted(hits, SubSeq(ls, 1, i)) /\ tried' = TriedNow(SubSeq(ls, 1, i))
        /\ Answers(v, TooMany(ls[i]))
        /\ UNCHANGED <<session, stored>>

Admitted(v, route) ==
  LET ls == LimitsOf(route)
  IN  /\ Body(v, route) <= BodyLimit
      /\ \A i \in DOMAIN ls : ~Over(ls, i)
      /\ hits' = Counted(hits, ls) /\ tried' = TriedNow(ls)

TokenRefused(v, route) ==
  /\ Admitted(v, route)
  /\ Guarded(route) /\ access[v] # "good"
  /\ Answers(v, IF access[v] = "none" THEN "NO_TOKEN" ELSE "INVALID_TOKEN")
  /\ UNCHANGED <<session, stored>>

BodyInvalid(v, route) ==
  /\ Admitted(v, route)
  /\ Guarded(route) => access[v] = "good"
  /\ route = "create" /\ ~ValidItem(Sealed(v).total)
  /\ Answers(v, "VALIDATION_FAILED")
  /\ UNCHANGED <<session, stored>>

Handle(v, route) ==
  /\ Admitted(v, route)
  /\ Guarded(route) => access[v] = "good"
  /\ route = "create" => ValidItem(Sealed(v).total)
  /\ \E code \in Handled(route, v) : \E committed \in Committed(code) :
       /\ Answers(v, code)
       /\ alive' = [alive EXCEPT ![v] = @ /\ ~(committed /\ route = "password")]
       /\ stored' = IF committed /\ route = "create" THEN Sealed(v) ELSE stored
       /\ UNCHANGED <<access, holds>>

Receive(v) ==
  /\ \/ /\ stage[v] = "sent" /\ stage' = [stage EXCEPT ![v] = "answered"]
        /\ BodyRefused(v, Route(v)) \/ LimitRefused(v, Route(v)) \/ TokenRefused(v, Route(v))
             \/ BodyInvalid(v, Route(v)) \/ Handle(v, Route(v))
     \/ /\ stage[v] = "retried" /\ stage' = [stage EXCEPT ![v] = "final"]
        /\ BodyRefused(v, Route(v)) \/ LimitRefused(v, Route(v)) \/ TokenRefused(v, Route(v))
             \/ BodyInvalid(v, Route(v)) \/ Handle(v, Route(v))
     \/ /\ stage[v] = "refreshing" /\ stage' = [stage EXCEPT ![v] = "refreshed"]
        /\ LimitRefused(v, "refresh") \/ Handle(v, "refresh")
  /\ UNCHANGED <<flow, step, size, flows, expiries>>

\* The request does not reach the server.
NetworkError(v) ==
  /\ stage[v] \in {"sent", "retried", "refreshing"}
  /\ stage' = [stage EXCEPT ![v] = CASE stage[v] = "sent"    -> "answered"
                                     [] stage[v] = "retried" -> "final"
                                     [] OTHER                -> "refreshed"]
  /\ Answers(v, Unheard)
  /\ UNCHANGED <<flow, step, size, store, session, stored, flows, expiries>>

-----------------------------------------------------------------------------
(* The client. *)

\* Mutant: any 401.
TokenErrorAnyStatus(code) == code \in {"INVALID_TOKEN", "NO_TOKEN", "INVALID_CREDENTIALS"}

\* The gate is the code of the body: a wrong password is a 401 too.
TokenError(code) == code \in {"INVALID_TOKEN", "NO_TOKEN"}

Refreshes(v) == stage[v] = "answered" /\ TokenError(answer[v]) /\ holds[v] /\ Guarded(Route(v))

AskRefresh(v) ==
  /\ Refreshes(v)
  /\ stage' = [stage EXCEPT ![v] = "refreshing"]
  /\ UNCHANGED <<store, flow, step, answer, size, session, stored, flows, expiries>>

Retry(v) ==
  /\ stage[v] = "refreshed" /\ answer[v] = "ok"
  /\ access' = [access EXCEPT ![v] = "good"]
  /\ stage' = [stage EXCEPT ![v] = "retried"]
  /\ UNCHANGED <<store, flow, step, answer, size, holds, alive, stored, flows, expiries>>

\* Mutant: the screen stays in its flow.
EndsHalf(v) ==
  /\ step' = [step EXCEPT ![v] = 0] /\ size' = [size EXCEPT ![v] = 0]
  /\ stage' = [stage EXCEPT ![v] = "idle"] /\ answer' = [answer EXCEPT ![v] = "none"]
  /\ UNCHANGED <<flow, store, stored, flows, expiries>>

\* The flow is over; the screen says how, by the code of the last answer.
Ends(v) ==
  /\ flow' = [flow EXCEPT ![v] = "none"] /\ step' = [step EXCEPT ![v] = 0] /\ size' = [size EXCEPT ![v] = 0]
  /\ stage' = [stage EXCEPT ![v] = "idle"] /\ answer' = [answer EXCEPT ![v] = "none"]
  /\ UNCHANGED <<store, stored, flows, expiries>>

\* Back at the unlock screen, with nothing in memory.
Drops(v) ==
  /\ access' = [access EXCEPT ![v] = "none"] /\ holds' = [holds EXCEPT ![v] = FALSE]
  /\ alive' = [alive EXCEPT ![v] = FALSE]
  /\ Ends(v)

\* Whatever kept the refresh from succeeding.
LoseSession(v) ==
  /\ stage[v] = "refreshed" /\ answer[v] # "ok"
  /\ Drops(v)

Settled(v) == (stage[v] = "answered" /\ ~Refreshes(v)) \/ stage[v] = "final"

\* The login leaves the tokens; the flow goes on, or is over.
Proceed(v) ==
  /\ Settled(v) /\ answer[v] = "ok" /\ Route(v) # "password"
  /\ IF Route(v) = "login"
     THEN /\ access' = [access EXCEPT ![v] = "good"] /\ holds' = [holds EXCEPT ![v] = TRUE]
          /\ alive' = [alive EXCEPT ![v] = TRUE]
     ELSE UNCHANGED session
  /\ IF step[v] = Len(Flow[flow[v]])
     THEN Ends(v)
     ELSE /\ step' = [step EXCEPT ![v] = @ + 1]
          /\ stage' = [stage EXCEPT ![v] = "sent"] /\ answer' = [answer EXCEPT ![v] = "none"]
          /\ UNCHANGED <<flow, size, store, stored, flows, expiries>>

\* A changed password locks the vault.
PasswordChanged(v) ==
  /\ Settled(v) /\ answer[v] = "ok" /\ Route(v) = "password"
  /\ Drops(v)

\* The screen says what the code means, codeToMessage; a 401 that remains after the retry included.
Explain(v) ==
  /\ Settled(v) /\ answer[v] # "ok"
  /\ Ends(v)
  /\ UNCHANGED session

-----------------------------------------------------------------------------
(* Time. *)

WindowEnds(l) ==
  /\ tried[l] > 0
  /\ hits' = [hits EXCEPT ![Key(l)] = 0]
  /\ tried' = [tried EXCEPT ![l] = 0]
  /\ UNCHANGED <<visitor, session, stored, flows, expiries>>

AccessExpires(v) ==
  /\ access[v] = "good" /\ expiries < MaxExpiries
  /\ access' = [access EXCEPT ![v] = "expired"]
  /\ expiries' = expiries + 1
  /\ UNCHANGED <<store, visitor, holds, alive, stored, flows>>

SessionEnds(v) ==
  /\ alive[v]
  /\ alive' = [alive EXCEPT ![v] = FALSE]
  /\ UNCHANGED <<store, visitor, access, holds, stored, flows, expiries>>

Next ==
  \/ \E v \in Visitor :
       \/ \E f \in DOMAIN Flow \ {"save", "provision"} : Start(v, f, 0)
       \/ \E n \in Size : Start(v, "save", n)
       \/ Start(v, "provision", Fixture)
       \/ Receive(v) \/ NetworkError(v)
       \/ AskRefresh(v) \/ Retry(v) \/ LoseSession(v)
       \/ Proceed(v) \/ PasswordChanged(v) \/ Explain(v)
       \/ AccessExpires(v) \/ SessionEnds(v)
  \/ \E l \in Limit : WindowEnds(l)

Spec == Init /\ [][Next]_vars

-----------------------------------------------------------------------------
\* A request is in flight only within a flow, and a session has a token.
TypeOK ==
  /\ hits \in [Limit -> Nat] /\ tried \in [Limit -> Nat]
  /\ \A v \in Visitor :
       /\ flow[v] \in DOMAIN Flow \union {"none"}
       /\ (flow[v] = "none") = (stage[v] = "idle")
       /\ stage[v] # "idle" => step[v] \in DOMAIN Flow[flow[v]]
       /\ stage[v] \in {"refreshing", "refreshed", "retried", "final"} => Guarded(Route(v))
       /\ holds[v] = (access[v] # "none")

\* Nobody is told "too many attempts" for what others did on other routes: the
\* limit that answers has had more requests of its own, in its window, than it
\* allows.  The counters of the limits share a store and an address.
RefusalIsEarned ==
  [][\A v \in Visitor, l \in {"auth", "signup"} :
       answer[v] # "TOO_MANY_ATTEMPTS" /\ answer'[v] = "TOO_MANY_ATTEMPTS"
         /\ l = (IF stage[v] # "refreshing" /\ Route(v) = "signup" THEN "signup" ELSE "auth")
       => tried'[l] > Max(l)]_vars

\* Without a changed password, a vault is taken off the screen only when the access
\* token was no good and the refresh could not help: the session was over; or the
\* client, for which all but a 2xx it can read is the end of a session, was refused
\* by a limit, met an error of the server or the gateway, or got no answer.  A
\* mistyped password, which is a 401 as well, never costs the session.
SessionLossHasCause ==
  [][\A v \in Visitor :
       holds[v] /\ ~holds'[v] /\ ~(answer[v] = "ok" /\ Route(v) = "password") =>
         /\ access[v] = "expired"
         /\ ~alive[v] \/ answer[v] \in RateLimited \union {Unheard, "INTERNAL_ERROR"}]_vars

\* An entry the browser agreed to save is never refused for its size, whatever
\* bucket its size falls into, and comes back with the length it had.
SealedIsCarried ==
  /\ \A v \in Visitor : answer[v] \notin {"PAYLOAD_TOO_LARGE", "VALIDATION_FAILED"}
  /\ Unpad(stored) \in Size \union {0}
=============================================================================
