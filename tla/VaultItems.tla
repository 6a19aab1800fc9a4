----------------------------- MODULE VaultItems -----------------------------
(***************************************************************************)
(* The rows an account is made of: users, vault_items and (as one bit per  *)
(* account) refresh_tokens, with the requests that create, read and write  *)
(* them, a demo visitor who provisions a vault and resumes it, and the     *)
(* nightly wipe.                                                           *)
(*                                                                         *)
(* A step is one SQL statement in a transaction of its own, as the code    *)
(* runs them.  The schema is part of the statements: user_id references    *)
(* users and deletes cascade, lower(email) is unique.  DELETE FROM users   *)
(* takes the accounts of the snapshot it began with and commits later.     *)
(***************************************************************************)
EXTENDS Naturals, FiniteSets

CONSTANTS
  User,       \* users.id, generated and never reused
  Item,       \* vault_items.id, generated and never reused
  Email,      \* addresses as they are typed
  Address,    \* addresses with their case folded
  Lower,      \* lower(): Email -> Address
  Request,    \* requests and provisioning visitors
  Wiper,      \* runs of scripts/wipe-demo.js
  MaxItems,   \* MAX_ITEMS_PER_USER
  Fixtures,   \* how many items DEMO_FIXTURES lists
  NoUser,     \* no account
  NoEmail     \* no row in users

ASSUME SentinelAssumption == NoUser \notin User /\ NoEmail \notin Email
ASSUME LowerAssumption == Lower \in [Email -> Address]
ASSUME BoundAssumption == MaxItems \in Nat \ {0} /\ Fixtures \in Nat \ {0}
ASSUME FiniteAssumption == IsFiniteSet(Item) /\ IsFiniteSet(Request)

VARIABLES
  users,        \* the table: id -> email, or NoEmail
  vault_items,  \* the table: id -> its user_id and whose blob it holds; user_id NoUser: no row
  refresh_tokens, \* accounts that have rows in refresh_tokens
  created,      \* account ids generated so far
  maker,        \* item id -> the account whose create generated it
  authed,       \* accounts an access token was signed for
  kind, pc,     \* the handler of a request and where it is
  who,          \* the account a request acts for
  built,        \* fixtures a provisioning visitor has stored
  saved,        \* the account whose credentials the visitor's tab keeps
  hardened,     \* accounts whose visitor changed the password or turned TOTP on
  reply,        \* the items a read answered with
  wpc,          \* where a wipe is
  doomed,       \* the accounts its open DELETE has selected
  known,        \* account ids generated before its DELETE began
  rowsLeft,     \* it counted rows after its DELETE
  peak          \* history: most creates of an account ever between count and insert

tables  == <<users, vault_items, refresh_tokens, created, maker, authed>>
request == <<kind, pc, who, built, saved, reply>>
wipe    == <<wpc, doomed, known, rowsLeft>>
vars    == <<tables, request, hardened, wipe, peak>>

-----------------------------------------------------------------------------
Exists(u)  == users[u] # NoEmail
ItemsOf(u) == {i \in Item : vault_items[i].user = u}
NoRow      == [user |-> NoUser, blobOf |-> NoUser]

\* Creates that passed the count and have not inserted yet.
Inserting(u) == {r \in Request : pc[r] = "insert" /\ who[r] = u}

Ended == {"ok", "taken", "refused", "full", "not_found", "failed", "gone", "totp"}

Init ==
  /\ users = [u \in User |-> NoEmail]
  /\ vault_items = [i \in Item |-> NoRow]
  /\ refresh_tokens = {} /\ created = {} /\ authed = {}
  /\ maker = [i \in Item |-> NoUser]
  /\ kind  = [r \in Request |-> "none"]
  /\ pc    = [r \in Request |-> "idle"]
  /\ who   = [r \in Request |-> NoUser]
  /\ built = [r \in Request |-> 0]
  /\ saved = [r \in Request |-> NoUser]
  /\ reply = [r \in Request |-> {}]
  /\ hardened = [u \in User |-> "no"]
  /\ wpc    = [w \in Wiper |-> "idle"]
  /\ doomed = [w \in Wiper |-> {}]
  /\ known  = [w \in Wiper |-> {}]
  /\ rowsLeft = [w \in Wiper |-> FALSE]
  /\ peak = [u \in User |-> 0]

Goto(r, label) == pc' = [pc EXCEPT ![r] = label]

Start(r, k, u) ==
  /\ pc[r] = "idle"
  /\ kind' = [kind EXCEPT ![r] = k]
  /\ who' = [who EXCEPT ![r] = u]

(* requireAuth: the id comes from a signed access token, which stays valid *)
(* for ten minutes whatever happens to the account meanwhile.              *)
StartAuthed(r, k, u) == u \in authed /\ Start(r, k, u)

\* What the visitor's next step is, or the end of a plain request.
Then(r, label) == Goto(r, IF kind[r] = "provision" THEN label ELSE "ok")

-----------------------------------------------------------------------------
(* POST /signup: one INSERT.  Two requests may both be past validation;    *)
(* only users_email_lower_key tells them apart.                            *)

\* Mutation of EmailFree: the unique index is on email as it was typed.
EmailFreeExact(e) == \A v \in User : users[v] # e

EmailFree(e) == \A v \in User : Exists(v) => Lower[users[v]] # Lower[e]

InsertUser(e, u) ==
  /\ u \notin created
  /\ users' = [users EXCEPT ![u] = e]
  /\ created' = created \union {u}
  /\ UNCHANGED <<vault_items, refresh_tokens, maker, authed>>

Signup(r, e, u) ==
  /\ Start(r, "signup", u)
  /\ EmailFree(e)
  /\ InsertUser(e, u)
  /\ Goto(r, "ok")
  /\ UNCHANGED <<built, saved, reply, hardened, wipe, peak>>

SignupTaken(r, e) ==
  /\ Start(r, "signup", NoUser)
  /\ ~EmailFree(e)
  /\ Goto(r, "taken")
  /\ UNCHANGED <<tables, built, saved, reply, hardened, wipe, peak>>

(* POST /login: findByEmail folds case; the password is verified against   *)
(* the row it returned, and the session is inserted by the id of that row. *)
LoginFind(r, e) ==
  /\ \E u \in User : /\ Exists(u) /\ Lower[users[u]] = Lower[e]
                     /\ Start(r, "login", u)
  /\ Goto(r, "verify")
  /\ UNCHANGED <<tables, built, saved, reply, hardened, wipe, peak>>

LoginUnknown(r, e) ==
  /\ EmailFree(e)
  /\ Start(r, "login", NoUser)
  /\ Goto(r, "refused")
  /\ UNCHANGED <<tables, built, saved, reply, hardened, wipe, peak>>

SessionInsertable(u) == Exists(u)

IssueSession(r) ==
  /\ pc[r] = "verify"
  /\ SessionInsertable(who[r])
  /\ refresh_tokens' = refresh_tokens \union {who[r]}
  /\ authed' = authed \union {who[r]}
  /\ Then(r, "count")
  /\ UNCHANGED <<users, vault_items, created, maker, kind, who, built, saved, reply,
                 hardened, wipe, peak>>

\* The wrong password, or a foreign key whose account is gone: a 401 or a 500.
IssueSessionRefused(r) ==
  /\ pc[r] = "verify"
  /\ \/ kind[r] = "login" /\ Goto(r, "refused")
     \/ ~SessionInsertable(who[r]) /\ Goto(r, "failed")
  /\ UNCHANGED <<tables, kind, who, built, saved, reply, hardened, wipe, peak>>

-----------------------------------------------------------------------------
(* POST /api/vault: the count and the insert are two statements.           *)
CreateBegin(r, u) ==
  /\ StartAuthed(r, "create", u)
  /\ Goto(r, "count")
  /\ UNCHANGED <<tables, built, saved, reply, hardened, wipe, peak>>

\* Mutation of Admitted: the cap is compared with > instead of >=.
AdmittedOneMore(u) == Cardinality(ItemsOf(u)) <= MaxItems

Admitted(u) == Cardinality(ItemsOf(u)) < MaxItems

CreateCount(r) ==
  /\ pc[r] = "count" /\ Admitted(who[r])
  /\ Goto(r, "insert")
  /\ LET overlap == Cardinality(Inserting(who[r])) + 1
     IN  peak' = IF overlap > peak[who[r]] THEN [peak EXCEPT ![who[r]] = overlap] ELSE peak
  /\ UNCHANGED <<tables, kind, who, built, saved, reply, hardened, wipe>>

CreateFull(r) ==
  /\ pc[r] = "count" /\ ~Admitted(who[r])
  /\ Goto(r, "full")
  /\ UNCHANGED <<tables, kind, who, built, saved, reply, hardened, wipe, peak>>

\* Where a visitor goes when n fixtures are stored.
AfterInsert(n) == IF n = Fixtures THEN "save" ELSE "count"

CreateInsert(r, i) ==
  /\ pc[r] = "insert"
  /\ maker[i] = NoUser
  /\ Exists(who[r])
  /\ vault_items' = [vault_items EXCEPT ![i] = [user |-> who[r], blobOf |-> who[r]]]
  /\ maker' = [maker EXCEPT ![i] = who[r]]
  /\ built' = IF kind[r] = "provision" THEN [built EXCEPT ![r] = @ + 1] ELSE built
  /\ Then(r, AfterInsert(built[r] + 1))
  /\ UNCHANGED <<users, refresh_tokens, created, authed, kind, who, saved, reply,
                 hardened, wipe, peak>>

CreateOrphan(r) ==
  /\ pc[r] = "insert"
  /\ ~Exists(who[r])
  /\ Goto(r, "failed")
  /\ UNCHANGED <<tables, kind, who, built, saved, reply, hardened, wipe, peak>>

(* PUT and DELETE /api/vault/:id, each one statement.                      *)

\* Mutation of Owned: the WHERE clause names the item and not its owner.
OwnedByAnyone(i, u) == vault_items[i].user # NoUser

Owned(i, u) == vault_items[i].user = u

\* Any id may be in the path of the request, another account's included.
Update(r, u, i) ==
  /\ StartAuthed(r, "update", u)
  /\ maker[i] # NoUser
  /\ \/ /\ Owned(i, u)
        /\ vault_items' = [vault_items EXCEPT ![i].blobOf = u]
        /\ Goto(r, "ok")
     \/ /\ ~Owned(i, u)
        /\ Goto(r, "not_found")
        /\ UNCHANGED vault_items
  /\ UNCHANGED <<users, refresh_tokens, created, maker, authed, built, saved, reply,
                 hardened, wipe, peak>>

Remove(r, u, i) ==
  /\ StartAuthed(r, "remove", u)
  /\ maker[i] # NoUser
  /\ \/ /\ Owned(i, u)
        /\ vault_items' = [vault_items EXCEPT ![i] = NoRow]
        /\ Goto(r, "ok")
     \/ /\ ~Owned(i, u)
        /\ Goto(r, "not_found")
        /\ UNCHANGED vault_items
  /\ UNCHANGED <<users, refresh_tokens, created, maker, authed, built, saved, reply,
                 hardened, wipe, peak>>

(* GET /api/vault is the second of the two reads of GET                    *)
(* /api/demo/stored; that one looks the account up first.                  *)
List(r, u) ==
  /\ StartAuthed(r, "list", u)
  /\ Goto(r, "read")
  /\ UNCHANGED <<tables, built, saved, reply, hardened, wipe, peak>>

StoredMaterial(r, u) ==
  /\ StartAuthed(r, "stored", u)
  /\ Goto(r, IF Exists(u) THEN "read" ELSE "not_found")
  /\ UNCHANGED <<tables, built, saved, reply, hardened, wipe, peak>>

ReadItems(r) ==
  /\ pc[r] = "read"
  /\ reply' = [reply EXCEPT ![r] = ItemsOf(who[r])]
  /\ Goto(r, "ok")
  /\ UNCHANGED <<tables, kind, who, built, saved, hardened, wipe, peak>>

\* The database refuses or loses a statement: a 500, and nothing is written.
StatementFails(r) ==
  /\ pc[r] \notin Ended \union {"idle", "save", "reopen"}
  /\ Goto(r, "failed")
  /\ UNCHANGED <<tables, kind, who, built, saved, reply, hardened, wipe, peak>>

-----------------------------------------------------------------------------
(* A demo visitor: signup, login, one addItem after the other, and the     *)
(* credentials written to sessionStorage at the end.  The account stays    *)
(* behind when a step fails; nothing names it any more.                    *)
ProvisionSignup(r, e, u) ==
  /\ Start(r, "provision", u)
  /\ EmailFree(e)
  /\ InsertUser(e, u)
  /\ Goto(r, "verify")
  /\ UNCHANGED <<built, saved, reply, hardened, wipe, peak>>

\* A locked-down browser refuses sessionStorage; the vault works, nothing is kept.
SaveCredentials(r) ==
  /\ pc[r] = "save"
  /\ saved' \in {saved, [saved EXCEPT ![r] = who[r]]}
  /\ Goto(r, "ok")
  /\ UNCHANGED <<tables, kind, who, built, reply, hardened, wipe, peak>>

\* The visitor tries the settings out: the stored credentials no longer suffice.
Harden(r, how) ==
  /\ saved[r] # NoUser /\ Exists(saved[r])
  /\ hardened[saved[r]] = "no"
  /\ hardened' = [hardened EXCEPT ![saved[r]] = how]
  /\ UNCHANGED <<tables, request, wipe, peak>>

(* resumeDemoVault after a reload: login with the stored credentials, that *)
(* is GET kdf-params and then POST login, with the wipe in between or not. *)
\* What kdf-params or login answers to the stored credentials of u.
ResumeAnswer(u) ==
  CASE ~Exists(u)               -> "gone"  \* NOT_FOUND
    [] hardened[u] = "password" -> "gone"  \* INVALID_CREDENTIALS
    [] hardened[u] = "totp"     -> "totp"  \* TOTP_REQUIRED, before anything is derived
    [] OTHER                    -> "ok"

\* Mutation of ClearsOn: the credentials are dropped whatever the error was.
ClearsOnAny(answer) == answer # "ok"

ClearsOn(answer) == answer \in {"gone", "totp"}

Resume(r) ==
  /\ kind[r] = "provision" /\ pc[r] = "ok" /\ saved[r] # NoUser
  /\ Goto(r, "reopen")
  /\ UNCHANGED <<tables, kind, who, built, saved, reply, hardened, wipe, peak>>

\* The answer arrives; "failed" is a lost answer, a 429 or a 500.
ResumeEnds(r, answer) ==
  /\ pc[r] = "reopen"
  /\ answer \in {ResumeAnswer(saved[r]), "failed"}
  /\ Goto(r, answer)
  /\ saved' = IF ClearsOn(answer) THEN [saved EXCEPT ![r] = NoUser] ELSE saved
  /\ LET opened == IF answer = "ok" THEN {saved[r]} ELSE {}
     IN  /\ refresh_tokens' = refresh_tokens \union opened
         /\ authed' = authed \union opened
  /\ UNCHANGED <<users, vault_items, created, maker, kind, who, built, reply, hardened,
                 wipe, peak>>

-----------------------------------------------------------------------------
(* scripts/wipe-demo.js: advisory lock, DELETE FROM users, two counts.  A  *)
(* wipe that is over, or broke off, leaves its place to the next night's.  *)

WipeGoto(w, label) == wpc' = [wpc EXCEPT ![w] = label]

\* A wipe that holds pg_advisory_lock; the lock goes with its connection.
Holds(w) == wpc[w] \in {"locked", "deleting", "countItems", "countTokens"}

WipeLock(w) ==
  /\ wpc[w] = "idle"
  /\ \A v \in Wiper : ~Holds(v)
  /\ WipeGoto(w, "locked")
  /\ UNCHANGED <<tables, request, hardened, doomed, known, rowsLeft, peak>>

WipeDelete(w) ==
  /\ wpc[w] = "locked"
  /\ doomed' = [doomed EXCEPT ![w] = {u \in User : Exists(u)}]
  /\ known' = [known EXCEPT ![w] = created]
  /\ WipeGoto(w, "deleting")
  /\ UNCHANGED <<tables, request, hardened, rowsLeft, peak>>

\* Mutation of CascadeItems: vault_items.user_id lacks ON DELETE CASCADE.
CascadeItemsNone(gone) == vault_items

\* ON DELETE CASCADE, seeing what was committed until the rows were locked.
CascadeItems(gone) == [i \in Item |-> IF vault_items[i].user \in gone THEN NoRow ELSE vault_items[i]]

WipeCommit(w) ==
  /\ wpc[w] = "deleting"
  /\ users' = [u \in User |-> IF u \in doomed[w] THEN NoEmail ELSE users[u]]
  /\ vault_items' = CascadeItems(doomed[w])
  /\ refresh_tokens' = refresh_tokens \ doomed[w]
  /\ doomed' = [doomed EXCEPT ![w] = {}]
  /\ WipeGoto(w, "countItems")
  /\ UNCHANGED <<created, maker, authed, request, hardened, known, rowsLeft, peak>>

WipeCountItems(w) ==
  /\ wpc[w] = "countItems"
  /\ rowsLeft' = [rowsLeft EXCEPT ![w] = \E i \in Item : vault_items[i] # NoRow]
  /\ WipeGoto(w, "countTokens")
  /\ UNCHANGED <<tables, request, hardened, doomed, known, peak>>

WipeCountTokens(w) ==
  /\ wpc[w] = "countTokens"
  /\ LET left == rowsLeft[w] \/ refresh_tokens # {}
     IN  /\ WipeGoto(w, IF left THEN "alarm" ELSE "idle")
         /\ known' = IF left THEN known ELSE [known EXCEPT ![w] = {}]
  /\ rowsLeft' = [rowsLeft EXCEPT ![w] = FALSE]
  /\ UNCHANGED <<tables, request, hardened, doomed, peak>>

\* The connection breaks, or the container stops: the open statement rolls back.
WipeFails(w) ==
  /\ Holds(w)
  /\ WipeGoto(w, "idle")
  /\ doomed' = [doomed EXCEPT ![w] = {}]
  /\ known' = [known EXCEPT ![w] = {}]
  /\ rowsLeft' = [rowsLeft EXCEPT ![w] = FALSE]
  /\ UNCHANGED <<tables, request, hardened, peak>>

-----------------------------------------------------------------------------
Handler(r) ==
  \/ IssueSession(r) \/ IssueSessionRefused(r)
  \/ CreateCount(r) \/ CreateFull(r) \/ CreateOrphan(r)
  \/ \E i \in Item : CreateInsert(r, i)
  \/ ReadItems(r) \/ SaveCredentials(r) \/ StatementFails(r)

Arrive(r) ==
  \/ \E e \in Email, u \in User : Signup(r, e, u) \/ ProvisionSignup(r, e, u)
  \/ \E e \in Email : SignupTaken(r, e) \/ LoginFind(r, e) \/ LoginUnknown(r, e)
  \/ \E u \in User : CreateBegin(r, u) \/ List(r, u) \/ StoredMaterial(r, u)
  \/ \E u \in User, i \in Item : Update(r, u, i) \/ Remove(r, u, i)

Visitor(r) ==
  \/ \E how \in {"password", "totp"} : Harden(r, how)
  \/ Resume(r)
  \/ \E answer \in Ended : ResumeEnds(r, answer)

Wipe(w) ==
  \/ WipeLock(w) \/ WipeDelete(w) \/ WipeCommit(w)
  \/ WipeCountItems(w) \/ WipeCountTokens(w) \/ WipeFails(w)

Next ==
  \/ \E r \in Request : Handler(r) \/ Arrive(r) \/ Visitor(r)
  \/ \E w \in Wiper : Wipe(w)

Spec == Init /\ [][Next]_vars

-----------------------------------------------------------------------------
\* Every table, request, visitor and wipe is of its kind; in particular a visitor never
\* stores more than the fixtures there are.
TypeOK ==
  /\ users \in [User -> Email \union {NoEmail}]
  /\ vault_items \in [Item -> [user : User \union {NoUser}, blobOf : User \union {NoUser}]]
  /\ refresh_tokens \subseteq User /\ created \subseteq User /\ authed \subseteq User
  /\ maker \in [Item -> User \union {NoUser}]
  /\ kind \in [Request -> {"none", "signup", "login", "create", "update", "remove", "list",
                           "stored", "provision"}]
  /\ pc \in [Request -> Ended \union {"idle", "verify", "count", "insert", "read", "save",
                                      "reopen"}]
  /\ who \in [Request -> User \union {NoUser}]
  /\ built \in [Request -> 0..Fixtures]
  /\ saved \in [Request -> User \union {NoUser}]
  /\ reply \in [Request -> SUBSET Item]
  /\ hardened \in [User -> {"no", "password", "totp"}]
  /\ wpc \in [Wiper -> {"idle", "locked", "deleting", "countItems", "countTokens",
                        "alarm"}]
  /\ doomed \in [Wiper -> SUBSET User] /\ known \in [Wiper -> SUBSET User]
  /\ rowsLeft \in [Wiper -> BOOLEAN]
  /\ peak \in [User -> Nat]

(* Two accounts never have addresses that differ in case only, however     *)
(* signups, provisioning and the wipe interleave: userRepo.findByEmail     *)
(* takes the first of the rows it gets and there is at most one.           *)
OneAccountPerAddress ==
  \A u, v \in User :
    Exists(u) /\ Exists(v) /\ Lower[users[u]] = Lower[users[v]] => u = v

(* No row outlives its account and no request reaches another account's    *)
(* rows: a vault item and a session belong to an account that exists, also *)
(* when a wipe deletes it while a login or a create that has already       *)
(* passed its checks is under way, and the blob an item holds was sealed   *)
(* by its owner, who is the account that created it.                       *)
RowsBelong ==
  /\ refresh_tokens \subseteq {u \in User : Exists(u)}
  /\ \A i \in Item : vault_items[i] # NoRow =>
       /\ vault_items[i].user \in User /\ Exists(vault_items[i].user)
       /\ vault_items[i].blobOf = vault_items[i].user
       /\ maker[i] = vault_items[i].user
  /\ \A r \in Request : \A i \in reply[r] : maker[i] = who[r]

(* The cap of vaultService.create is exceeded by no more than the overlap: *)
(* what an account holds, and what creates past the count will still add,  *)
(* stays below the cap plus the most creates that were ever at that point  *)
(* together.  Without overlap the cap is exact.                            *)
CapExceededByOverlapOnly ==
  \A u \in User :
    Cardinality(ItemsOf(u)) + Cardinality(Inserting(u)) <=
      IF peak[u] = 0 THEN 0 ELSE MaxItems + peak[u] - 1

(* A wipe raises "cascade left rows behind" only if somebody signed up     *)
(* after its DELETE began: rows of the accounts it deleted are never what  *)
(* it counts, and a second wipe beside it changes nothing about that.      *)
AlarmNeedsNewcomer == \A w \in Wiper : wpc[w] = "alarm" => created # known[w]

(* Demo credentials in sessionStorage lead to a whole vault: they are      *)
(* written when every fixture is stored, and are dropped only when the     *)
(* account is gone or the visitor has changed how it is opened.            *)
CredentialsLeadToVault ==
  \A r \in Request : kind[r] = "provision" /\ pc[r] \in Ended =>
    /\ saved[r] # NoUser =>
         Cardinality({i \in Item : maker[i] = saved[r]}) >= Fixtures
    /\ built[r] = Fixtures /\ saved[r] = NoUser /\ pc[r] # "ok" =>
         \/ ~Exists(who[r])
         \/ hardened[who[r]] # "no"
=============================================================================
