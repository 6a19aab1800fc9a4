---------------------------- MODULE VaultSession ----------------------------
(***************************************************************************)
(* The unlocked vault of one browser tab (VaultContext): the key, the      *)
(* decrypted list, lock, and the requests that are still in flight when    *)
(* the tab is locked or somebody else signs in.                            *)
(*                                                                         *)
(* A key is an ARRAY: a request started under a session holds a reference  *)
(* to the same 32 bytes that lock() fills with zeros.  A step is what runs *)
(* between two awaits: encrypting, sending, the server's work, the answer, *)
(* decrypting.  Tokens are abstracted to the session they came from; what  *)
(* a refresh does to them is the subject of ApiClient.                     *)
(*                                                                         *)
(* The list is a set of entries, its order left out; an entry says whether *)
(* a load or the answer to an add put it there, so that an item shown      *)
(* twice is two entries.                                                   *)
(***************************************************************************)
EXTENDS Naturals

CONSTANTS
  Account,    \* accounts somebody signs in to from this tab
  Item,       \* vault item ids, generated by the server
  Op,         \* calls of the context's functions that may be in flight
  Calls,      \* the functions the tab calls: bound on Kinds
  MaxCalls,   \* bound on calls
  MaxLogins,  \* bound on sign-ins
  MaxVersion, \* bound on versions of an item's data
  Nobody,     \* no account
  Zeros,      \* a key of 32 zero bytes
  NoItem      \* no item

Rewraps == {"changePassword", "upgradeKdf", "regenerateKit"}
Kinds   == {"load", "add", "update", "delete"} \union Rewraps

ASSUME NobodyAssumption == Nobody \notin Account /\ Zeros \notin Account
ASSUME ItemAssumption == NoItem \notin Item
ASSUME CallsAssumption == Calls \subseteq Kinds
ASSUME BoundAssumption == MaxCalls \in Nat /\ MaxLogins \in Nat /\ MaxVersion \in Nat \ {0}

Session == 1..MaxLogins
NoKey   == 0

VARIABLES
  dek,        \* dekRef: the session whose array it is, or NoKey
  token,      \* the session the access token in memory belongs to, or NoKey
  owner,      \* session -> the account signed in to
  bytes,      \* session -> what its key array holds: the DEK of an account, or Zeros
  logins,     \* sign-ins so far
  opening,    \* a sign-in has its tokens and unwraps the key
  logouts,    \* POST /logout requests in flight
  list,       \* items: the decrypted entries on display, [id, ver, by]
  rows,       \* the server's vault_items: [acct, seal, ver]
  doors,      \* the server's wrappers: account -> door -> the key they hold
  op,         \* the calls in flight
  begun,      \* calls begun so far
  loaded,     \* history: an undisturbed load has filled the list of this session
  muddled,    \* history: items whose writes overlapped something or were lost
  crossed,    \* history: items written by a call begun before the tab was locked
  gutted,     \* history: accounts that were ever given a wrapper of zeros
  cut         \* history: something was in flight when the tab was last locked

tab     == <<dek, token, owner, bytes, logins, opening, logouts, list>>
server  == <<rows, doors>>
history == <<loaded, muddled, crossed, gutted, cut>>
vars    == <<tab, server, op, begun, history>>

-----------------------------------------------------------------------------
NoRow == [acct |-> Nobody, seal |-> Nobody, ver |-> 0]
Fresh == [kind |-> "none", stage |-> "idle", sess |-> NoKey, key |-> Nobody, tok |-> NoKey,
          item |-> NoItem, ver |-> 0, snap |-> {}, mixed |-> FALSE]

InFlight(o) == op[o].stage # "idle"
Busy        == \E o \in Op : InFlight(o)
Me          == IF dek = NoKey THEN Nobody ELSE owner[dek]
RowsOf(a)   == {i \in Item : rows[i].acct = a}

\* A load and a write, or two writes of one item, are under way together.
Conflict(k1, i1, k2, i2) ==
  /\ k1 \notin Rewraps /\ k2 \notin Rewraps
  /\ \/ (k1 = "load") # (k2 = "load")
     \/ i1 = i2 /\ i1 # NoItem

Init ==
  /\ dek = NoKey /\ token = NoKey /\ logins = 0 /\ opening = NoKey /\ logouts = {}
  /\ owner = [s \in Session |-> Nobody]
  /\ bytes = [s \in Session |-> Nobody]
  /\ list = {}
  /\ rows \in [Item -> {NoRow} \union {[acct |-> a, seal |-> a, ver |-> 1] : a \in Account}]
  /\ doors = [a \in Account |-> [d \in {"password", "recovery"} |-> a]]
  /\ op = [o \in Op |-> Fresh] /\ begun = 0
  /\ loaded = FALSE /\ muddled = {} /\ crossed = {} /\ gutted = {} /\ cut = FALSE

-----------------------------------------------------------------------------
(* login: the tokens are stored as the answer arrives, the key is unwrapped *)
(* after that and put into the ref and the state together.                  *)
LoginAnswered(a) ==
  /\ dek = NoKey /\ opening = NoKey /\ logins < MaxLogins
  /\ logins' = logins + 1
  /\ owner' = [owner EXCEPT ![logins + 1] = a]
  /\ bytes' = [bytes EXCEPT ![logins + 1] = doors[a]["password"]]
  /\ token' = logins + 1
  /\ opening' = logins + 1
  /\ UNCHANGED <<dek, logouts, list, server, op, history>>

LoginOpens ==
  /\ opening # NoKey
  /\ dek' = opening
  /\ opening' = NoKey
  /\ UNCHANGED <<token, owner, bytes, logins, logouts, list, server, op, history>>

\* Mutation of Cleared: the screen is torn down and the state kept.
ClearedLater(entries) == entries

Cleared(entries) == {}

(* lock: the LOCK button, the idle timer, a dead session, the end of a     *)
(* password change.  The array is zeroed and dropped before anything else; *)
(* the logout is sent and not waited for.                                  *)
Lock(calls) ==
  /\ bytes' = IF dek = NoKey THEN bytes ELSE [bytes EXCEPT ![dek] = Zeros]
  /\ dek' = NoKey
  /\ list' = Cleared(list)
  /\ logouts' = IF token = NoKey THEN logouts ELSE logouts \union {token}
  /\ op' = [o \in Op |-> [calls[o] EXCEPT !.mixed = @ \/ calls[o].stage # "idle"]]
  /\ cut' = \E o \in Op : calls[o].stage # "idle"
  /\ loaded' = FALSE
  /\ UNCHANGED <<token, owner, logins, opening>>

LockPressed == dek # NoKey /\ Lock(op) /\ UNCHANGED <<server, muddled, crossed, gutted>>

\* auth.logout settles, answered or not, and drops the tokens there are by then.
LogoutSettles(s) ==
  /\ s \in logouts
  /\ logouts' = logouts \ {s}
  /\ token' = NoKey
  /\ UNCHANGED <<dek, owner, bytes, logins, opening, list, server, op, history>>

-----------------------------------------------------------------------------
(* The calls.  Each reads dekRef when it is called; a load has no key yet  *)
(* and sends at once, as a delete does, the others encrypt or derive first. *)
Begin(o, k, i, v) ==
  /\ k \in Calls
  /\ op[o].stage = "idle"
  /\ dek # NoKey
  /\ begun < MaxCalls /\ begun' = begun + 1
  /\ LET hits == {p \in Op : InFlight(p) /\ Conflict(k, i, op[p].kind, op[p].item)}
         sends == k \in {"load", "delete"}
     IN  op' = [p \in Op |->
           IF p = o THEN [Fresh EXCEPT !.kind = k, !.sess = dek, !.item = i, !.ver = v,
                            !.stage = IF sends THEN "sent" ELSE "working",
                            !.tok = IF sends THEN token ELSE NoKey,
                            !.key = IF k \in {"add", "update"} THEN bytes[dek] ELSE Nobody,
                            !.mixed = hits # {}]
           ELSE IF p \in hits THEN [op[p] EXCEPT !.mixed = TRUE] ELSE op[p]]
  /\ UNCHANGED <<tab, server, history>>

Shown(i) == \E e \in list : e.id = i

LoadItems(o)       == Begin(o, "load", NoItem, 0)
AddItem(o)         == Begin(o, "add", NoItem, 1)
UpdateItem(o, i)   == \E v \in 2..MaxVersion : Shown(i) /\ Begin(o, "update", i, v)
DeleteItem(o, i)   == Shown(i) /\ Begin(o, "delete", i, 0)
ChangeAccount(o, k) == k \in Rewraps /\ Begin(o, k, NoItem, 0)

\* Mutation of KeyUsed: the key is read when the request is put together.
KeyUsedLate(o) == bytes[op[o].sess]

\* importKey copied the array while encryptItem was being called.
KeyUsed(o) == op[o].key

(* encryptItem resolves, and the request goes out with the token of now.   *)
Send(o) ==
  /\ op[o].stage = "working" /\ op[o].kind \notin Rewraps
  /\ op' = [op EXCEPT ![o].stage = "sent", ![o].tok = token, ![o].key = KeyUsed(o)]
  /\ UNCHANGED <<tab, server, history>>

(* changePassword, upgradeKdf and regenerateRecoveryKit: seconds of Argon2, *)
(* then the array they were given is wrapped, whatever is in it now.        *)
Wrap(o) ==
  /\ op[o].stage = "working" /\ op[o].kind \in Rewraps
  /\ op' = [op EXCEPT ![o].stage = "wrapped", ![o].key = bytes[op[o].sess]]
  /\ UNCHANGED <<tab, server, history>>

SendWrapped(o) ==
  /\ op[o].stage = "wrapped"
  /\ op' = [op EXCEPT ![o].stage = "sent", ![o].tok = token]
  /\ UNCHANGED <<tab, server, history>>

-----------------------------------------------------------------------------
(* The server: an access token stays good until it expires, logout or not. *)
Caller(o) == IF op[o].tok = NoKey THEN Nobody ELSE owner[op[o].tok]

Answer(o) == op' = [op EXCEPT ![o].stage = "answered"]

ServeList(o) ==
  /\ op[o].stage = "sent" /\ op[o].kind = "load" /\ Caller(o) # Nobody
  /\ op' = [op EXCEPT ![o].stage = "answered",
              ![o].snap = {[id |-> i, ver |-> rows[i].ver, seal |-> rows[i].seal]
                             : i \in RowsOf(Caller(o))}]
  /\ UNCHANGED <<tab, server, history>>

Crossing(o, i) == crossed' = IF op[o].sess = op[o].tok THEN crossed ELSE crossed \union {i}

ServeAdd(o, i) ==
  /\ op[o].stage = "sent" /\ op[o].kind = "add" /\ Caller(o) # Nobody
  /\ rows[i] = NoRow /\ \A p \in Op : op[p].item # i
  /\ rows' = [rows EXCEPT ![i] = [acct |-> Caller(o), seal |-> op[o].key, ver |-> op[o].ver]]
  /\ op' = [op EXCEPT ![o].stage = "answered", ![o].item = i]
  /\ Crossing(o, i)
  /\ UNCHANGED <<tab, doors, loaded, muddled, gutted, cut>>

\* A deleted row keeps its version here: the id is not generated again.
\* A row of another account, or none, is a 404: the call fails (OpFails).
ServeWrite(o) ==
  /\ op[o].stage = "sent" /\ op[o].kind \in {"update", "delete"}
  /\ Caller(o) # Nobody /\ rows[op[o].item].acct = Caller(o)
  /\ rows' = [rows EXCEPT ![op[o].item] =
       IF op[o].kind = "delete" THEN [@ EXCEPT !.acct = Nobody, !.seal = Nobody]
       ELSE [@ EXCEPT !.seal = op[o].key, !.ver = op[o].ver]]
  /\ Crossing(o, op[o].item)
  /\ Answer(o)
  /\ UNCHANGED <<tab, doors, loaded, muddled, gutted, cut>>

(* The password verified belongs to the account the call was made for.     *)
ServeRewrap(o) ==
  /\ op[o].stage = "sent" /\ op[o].kind \in Rewraps
  /\ Caller(o) # Nobody /\ Caller(o) = owner[op[o].sess]
  /\ doors' = [doors EXCEPT ![Caller(o)][IF op[o].kind = "regenerateKit" THEN "recovery"
                                         ELSE "password"] = op[o].key]
  /\ gutted' = IF op[o].key = Zeros THEN gutted \union {Caller(o)} ELSE gutted
  /\ Answer(o)
  /\ UNCHANGED <<tab, rows, loaded, muddled, crossed, cut>>

-----------------------------------------------------------------------------
Ends(o) == [op EXCEPT ![o] = Fresh]

\* The answer to a load: every row is decrypted with the key of this moment, or none is shown.
Decrypt(o) ==
  /\ op[o].stage = "answered" /\ op[o].kind = "load"
  /\ dek # NoKey /\ \A e \in op[o].snap : e.seal = bytes[dek]
  /\ op' = [op EXCEPT ![o].stage = "decrypting"]
  /\ UNCHANGED <<tab, server, history>>

\* setItems(decrypted): the list becomes what was fetched, whatever it was meanwhile.
LoadEnds(o) ==
  /\ op[o].stage = "decrypting"
  /\ list' = {[id |-> e.id, ver |-> e.ver, by |-> "load"] : e \in op[o].snap}
  /\ loaded' = ~op[o].mixed
  /\ muddled' = IF op[o].mixed THEN muddled ELSE {}
  /\ op' = Ends(o)
  /\ UNCHANGED <<dek, token, owner, bytes, logins, opening, logouts, server, crossed, gutted, cut>>

\* Mutation of Applied: updateItem leaves the entry as it was.
AppliedNot(o, entries) ==
  CASE op[o].kind = "add"    -> entries \union {[id |-> op[o].item, ver |-> op[o].ver, by |-> "add"]}
    [] op[o].kind = "update" -> entries
    [] op[o].kind = "delete" -> {e \in entries : e.id # op[o].item}

\* setItems with a function of what the list is now.
Applied(o, entries) ==
  CASE op[o].kind = "add"    -> entries \union {[id |-> op[o].item, ver |-> op[o].ver, by |-> "add"]}
    [] op[o].kind = "update" -> {IF e.id = op[o].item THEN [e EXCEPT !.ver = op[o].ver] ELSE e
                                   : e \in entries}
    [] op[o].kind = "delete" -> {e \in entries : e.id # op[o].item}

WriteEnds(o) ==
  /\ op[o].stage = "answered" /\ op[o].kind \in {"add", "update", "delete"}
  /\ list' = Applied(o, list)
  /\ muddled' = IF op[o].mixed THEN muddled \union {op[o].item} ELSE muddled
  /\ op' = Ends(o)
  /\ UNCHANGED <<dek, token, owner, bytes, logins, opening, logouts, server, loaded, crossed,
                 gutted, cut>>

RewrapEnds(o) ==
  /\ op[o].stage = "answered" /\ op[o].kind \in Rewraps
  /\ IF op[o].kind = "changePassword"
     THEN Lock(Ends(o)) /\ UNCHANGED <<server, muddled, crossed, gutted>>
     ELSE op' = Ends(o) /\ UNCHANGED <<tab, server, history>>

(* A refusal, a network error, an answer that is lost or has no id, rows   *)
(* that do not decrypt: the call rejects and the list stays as it is.  A   *)
(* refresh that fails beside it locks the tab as well.                     *)
OpFails(o) ==
  /\ InFlight(o)
  /\ muddled' = IF op[o].item = NoItem THEN muddled ELSE muddled \union {op[o].item}
  /\ \/ op' = Ends(o) /\ UNCHANGED <<tab, loaded, cut>>
     \/ op[o].stage = "sent" /\ Lock(Ends(o))
  /\ UNCHANGED <<server, crossed, gutted>>

-----------------------------------------------------------------------------
Call(o) ==
  \/ LoadItems(o) \/ AddItem(o)
  \/ \E i \in Item : UpdateItem(o, i) \/ DeleteItem(o, i)
  \/ \E k \in Rewraps : ChangeAccount(o, k)

Proceed(o) ==
  \/ Send(o) \/ Wrap(o) \/ SendWrapped(o)
  \/ ServeList(o) \/ ServeWrite(o) \/ ServeRewrap(o) \/ \E i \in Item : ServeAdd(o, i)
  \/ Decrypt(o) \/ LoadEnds(o) \/ WriteEnds(o) \/ RewrapEnds(o) \/ OpFails(o)

Next ==
  \/ \E o \in Op : Call(o)
  \/ /\ \/ \E a \in Account : LoginAnswered(a)
        \/ LoginOpens \/ LockPressed
        \/ \E s \in Session : LogoutSettles(s)
        \/ \E o \in Op : Proceed(o)
     /\ UNCHANGED begun

Spec == Init /\ [][Next]_vars

-----------------------------------------------------------------------------
Keys == Account \union {Nobody, Zeros}

Entry == [id : Item, ver : 0..MaxVersion, by : {"load", "add"}]

\* Every variable is of its kind.
TypeOK ==
  /\ dek \in 0..MaxLogins /\ token \in 0..MaxLogins /\ opening \in 0..MaxLogins
  /\ logins \in 0..MaxLogins /\ logouts \subseteq Session
  /\ owner \in [Session -> Account \union {Nobody}] /\ bytes \in [Session -> Keys]
  /\ rows \in [Item -> [acct : Account \union {Nobody}, seal : Keys, ver : 0..MaxVersion]]
  /\ doors \in [Account -> [{"password", "recovery"} -> Keys]]
  /\ \A o \in Op : /\ DOMAIN op[o] = DOMAIN Fresh
                   /\ op[o].stage \in {"idle", "working", "wrapped", "sent", "answered",
                                       "decrypting"}
                   /\ op[o].kind \in Kinds \union {"none"}
                   /\ op[o].item \in Item \union {NoItem}
  /\ begun \in 0..MaxCalls
  /\ loaded \in BOOLEAN /\ cut \in BOOLEAN /\ muddled \subseteq Item /\ crossed \subseteq Item
  /\ gutted \subseteq Account
  /\ list \subseteq Entry

(* What the tab shows is what the server holds.  Once a load that nothing  *)
(* disturbed has filled the list and nothing is in flight, every item is   *)
(* shown exactly once, at the version the server has, if it is a row of    *)
(* this account, and not at all otherwise.  The only exceptions are items  *)
(* whose write overlapped a load, another write of the same item or a lock, *)
(* or whose answer was lost: writes of different items may overlap freely. *)
ListFollowsServer ==
  dek # NoKey /\ loaded /\ ~Busy =>
    \A i \in Item \ muddled :
      LET shown == {e \in list : e.id = i}
      IN  IF rows[i].acct = Me THEN \E e \in list : shown = {e} /\ e.ver = rows[i].ver
                               ELSE shown = {}

(* A lock leaves no key and no plaintext: every key array but the one of   *)
(* the session on screen (or about to be) is zeros, and a tab locked while *)
(* nothing was in flight shows nothing until somebody signs in.            *)
LockLeavesNothing ==
  /\ \A s \in 1..logins : s \notin {dek, opening} => bytes[s] = Zeros
  /\ dek = NoKey /\ ~cut => list = {}

(* The blob a row holds opens with the key of the account it belongs to,   *)
(* and so the account can load its vault, unless the call that wrote it    *)
(* was begun before a lock and sent after the next sign-in, or the account *)
(* was given a wrapper of zeros once.  No blob is sealed with an array that *)
(* a lock zeroed after the call began.                                     *)
SealedByOwner ==
  \A i \in Item : rows[i].acct # Nobody =>
    \/ rows[i].seal = rows[i].acct
    \/ i \in crossed
    \/ rows[i].acct \in gutted

(* What the comment on changePassword says: "the SAME dek" is re-wrapped.  *)
(* A wrapper the server stores always holds the DEK of its account.        *)
DoorsWrapDek == \A a \in Account : \A d \in DOMAIN doors[a] : doors[a][d] = a
=============================================================================
