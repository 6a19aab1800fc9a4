-------------------------- MODULE VaultItemsProofs --------------------------
(***************************************************************************)
(* Proofs about VaultItems, for any number of accounts, items, requests    *)
(* and wipes, any cap and any list of fixtures.                            *)
(***************************************************************************)
EXTENDS VaultItems, FiniteSetTheorems, TLAPS

\* What a request has done and may still do, told from its place.
RequestSound ==
  \A r \in Request :
    /\ pc[r] = "idle" => kind[r] = "none" /\ built[r] = 0 /\ reply[r] = {}
    /\ pc[r] \in {"verify", "count", "insert", "read", "save", "reopen"} => who[r] \in User
    /\ kind[r] = "provision" => who[r] \in created
    /\ pc[r] \in {"verify", "count", "insert"} => built[r] < Fixtures
    /\ pc[r] = "read" => kind[r] # "provision"
    /\ pc[r] \in {"save", "reopen"} => kind[r] = "provision" /\ built[r] = Fixtures
    /\ saved[r] # NoUser =>
         saved[r] = who[r] /\ kind[r] = "provision" /\ built[r] = Fixtures
    /\ pc[r] = "reopen" => saved[r] # NoUser

\* Whoever has a row in users was created.
ExistingCreated == \A u \in User : Exists(u) => u \in created

\* What a read answered with has been made.
ReplyMade == \A r \in Request : \A i \in reply[r] : maker[i] \in User

MadeBy(u) == {i \in Item : maker[i] = u}

\* The fixtures a visitor counts are rows that were made for its account.
FixturesMade ==
  \A r \in Request : kind[r] = "provision" => Cardinality(MadeBy(who[r])) >= built[r]

Tables == TypeOK /\ RequestSound /\ ExistingCreated

-----------------------------------------------------------------------------
(* Types, and the place of every request.                                  *)

LEMMA InitTables == Init => Tables
BY SentinelAssumption, BoundAssumption
   DEF Init, Tables, TypeOK, RequestSound, ExistingCreated, Exists, NoRow

LEMMA SetsFinite ==
  ASSUME NEW u
  PROVE  /\ IsFiniteSet(ItemsOf(u)) /\ Cardinality(ItemsOf(u)) \in Nat
         /\ IsFiniteSet(Inserting(u)) /\ Cardinality(Inserting(u)) \in Nat
         /\ IsFiniteSet(MadeBy(u)) /\ Cardinality(MadeBy(u)) \in Nat
<1>1. /\ ItemsOf(u) \in SUBSET Item /\ MadeBy(u) \in SUBSET Item
      /\ Inserting(u) \in SUBSET Request
  BY DEF ItemsOf, MadeBy, Inserting
<1> QED
  BY <1>1, FiniteAssumption, FS_Subset, FS_CardinalityType

LEMMA HandlerTables ==
  ASSUME Tables, NEW r \in Request, Handler(r)
  PROVE  Tables'
<1> USE SentinelAssumption, BoundAssumption
    DEF Tables, TypeOK, RequestSound, ExistingCreated, Exists, Goto, Then, tables, wipe, Ended
<1>1. CASE IssueSession(r)
  BY <1>1, SMTT(30) DEF IssueSession, SessionInsertable
<1>2. CASE IssueSessionRefused(r)
  BY <1>2, SMTT(30) DEF IssueSessionRefused
<1>3. CASE CreateCount(r)
  <2>1. Cardinality(Inserting(who[r])) + 1 \in Nat
    BY SetsFinite
  <2>2. peak' \in [User -> Nat]
    BY <1>3, <2>1 DEF CreateCount
  <2> QED
    BY <1>3, <2>2 DEF CreateCount
<1>4. CASE CreateFull(r)
  BY <1>4 DEF CreateFull
<1>5. CASE CreateOrphan(r)
  BY <1>5 DEF CreateOrphan
<1>6. ASSUME NEW i \in Item, CreateInsert(r, i) PROVE Tables'
  <2>1. built[r] + 1 \in 1 .. Fixtures /\ who[r] \in User
    BY <1>6 DEF CreateInsert
  <2>2. /\ vault_items' \in [Item -> [user : User \union {NoUser}, blobOf : User \union {NoUser}]]
        /\ maker' \in [Item -> User \union {NoUser}]
    BY <1>6, <2>1 DEF CreateInsert
  <2>3. built' \in [Request -> 0 .. Fixtures]
    BY <1>6, <2>1 DEF CreateInsert
  <2>4. CASE kind[r] = "provision"
    BY <1>6, <2>1, <2>2, <2>3, <2>4 DEF CreateInsert, AfterInsert
  <2>5. CASE kind[r] # "provision"
    BY <1>6, <2>1, <2>2, <2>3, <2>5 DEF CreateInsert
  <2> QED
    BY <2>4, <2>5
<1>7. CASE ReadItems(r)
  BY <1>7 DEF ReadItems, ItemsOf
<1>8. CASE SaveCredentials(r)
  BY <1>8 DEF SaveCredentials
<1>9. CASE StatementFails(r)
  BY <1>9 DEF StatementFails
<1> QED
  BY <1>1, <1>2, <1>3, <1>4, <1>5, <1>6, <1>7, <1>8, <1>9 DEF Handler

\* A request of a signed-in account, which leaves the other tables alone.
LEMMA PlainTables ==
  ASSUME Tables, NEW r \in Request, NEW u \in User,
         NEW k \in {"create", "update", "remove", "list", "stored"},
         NEW label \in {"count", "read", "ok", "not_found"},
         StartAuthed(r, k, u), Goto(r, label),
         vault_items' \in [Item -> [user : User \union {NoUser}, blobOf : User \union {NoUser}]],
         UNCHANGED <<users, refresh_tokens, created, maker, authed, built, saved, reply,
                     hardened, wipe, peak>>
  PROVE  Tables'
<1> USE SentinelAssumption, BoundAssumption DEF Tables, Goto, StartAuthed, Start, wipe, Ended
<1>1. TypeOK'
  BY DEF TypeOK
<1>2. RequestSound'
  <2> SUFFICES ASSUME NEW q \in Request
               PROVE  /\ pc'[q] = "idle" => kind'[q] = "none" /\ built'[q] = 0 /\ reply'[q] = {}
                      /\ pc'[q] \in {"verify", "count", "insert", "read", "save", "reopen"}
                           => who'[q] \in User
                      /\ kind'[q] = "provision" => who'[q] \in created'
                      /\ pc'[q] \in {"verify", "count", "insert"} => built'[q] < Fixtures
                      /\ pc'[q] = "read" => kind'[q] # "provision"
                      /\ pc'[q] \in {"save", "reopen"} =>
                           kind'[q] = "provision" /\ built'[q] = Fixtures
                      /\ saved'[q] # NoUser =>
                           saved'[q] = who'[q] /\ kind'[q] = "provision" /\ built'[q] = Fixtures
                      /\ pc'[q] = "reopen" => saved'[q] # NoUser
    BY DEF RequestSound
  <2>1. CASE q = r
    BY <2>1 DEF RequestSound, TypeOK
  <2>2. CASE q # r
    <3>1. pc'[q] = pc[q] /\ kind'[q] = kind[q] /\ who'[q] = who[q]
      BY <2>2 DEF TypeOK
    <3> QED
      BY <3>1 DEF RequestSound
  <2> QED
    BY <2>1, <2>2
<1>3. ExistingCreated'
  BY DEF ExistingCreated, Exists
<1> QED
  BY <1>1, <1>2, <1>3

LEMMA ArriveTables ==
  ASSUME Tables, NEW r \in Request, Arrive(r)
  PROVE  Tables'
<1> USE SentinelAssumption, BoundAssumption
    DEF Tables, TypeOK, RequestSound, ExistingCreated, Exists, Goto, tables, wipe, Ended,
        Start, StartAuthed
<1>1. ASSUME NEW e \in Email, NEW u \in User, Signup(r, e, u) PROVE Tables'
  BY <1>1 DEF Signup, InsertUser
<1>2. ASSUME NEW e \in Email, NEW u \in User, ProvisionSignup(r, e, u) PROVE Tables'
  BY <1>2 DEF ProvisionSignup, InsertUser
<1>3. ASSUME NEW e \in Email, SignupTaken(r, e) PROVE Tables'
  BY <1>3 DEF SignupTaken
<1>4. ASSUME NEW e \in Email, LoginFind(r, e) PROVE Tables'
  BY <1>4 DEF LoginFind
<1>5. ASSUME NEW e \in Email, LoginUnknown(r, e) PROVE Tables'
  BY <1>5 DEF LoginUnknown
<1>6. ASSUME NEW u \in User, CreateBegin(r, u) \/ List(r, u) \/ StoredMaterial(r, u)
      PROVE  Tables'
  <2>1. PICK k \in {"create", "list", "stored"}, label \in {"count", "read", "not_found"} :
          StartAuthed(r, k, u) /\ Goto(r, label)
    BY ONLY <1>6 DEF CreateBegin, List, StoredMaterial
  <2>2. UNCHANGED <<tables, built, saved, reply, hardened, wipe, peak>>
    BY ONLY <1>6 DEF CreateBegin, List, StoredMaterial
  <2>3. /\ vault_items' \in [Item -> [user : User \union {NoUser}, blobOf : User \union {NoUser}]]
        /\ UNCHANGED <<users, refresh_tokens, created, maker, authed, built, saved, reply,
                       hardened, wipe, peak>>
    BY <2>2
  <2> QED
    BY ONLY <2>1, <2>3, PlainTables, Tables
<1>7. ASSUME NEW u \in User, NEW i \in Item, Update(r, u, i) PROVE Tables'
  <2>1. vault_items' \in [Item -> [user : User \union {NoUser}, blobOf : User \union {NoUser}]]
    <3>1. vault_items \in [Item -> [user : User \union {NoUser}, blobOf : User \union {NoUser}]]
      OBVIOUS
    <3>2. vault_items' = vault_items \/ vault_items' = [vault_items EXCEPT ![i].blobOf = u]
      BY ONLY <1>7 DEF Update
    <3> QED
      BY ONLY <3>1, <3>2
  <2>2. /\ \E label \in {"ok", "not_found"} : Goto(r, label)
        /\ StartAuthed(r, "update", u)
        /\ UNCHANGED <<users, refresh_tokens, created, maker, authed, built, saved, reply,
                       hardened, wipe, peak>>
    BY ONLY <1>7 DEF Update
  <2> QED
    BY ONLY <2>1, <2>2, PlainTables, Tables
<1>8. ASSUME NEW u \in User, NEW i \in Item, Remove(r, u, i) PROVE Tables'
  <2>1. vault_items' \in [Item -> [user : User \union {NoUser}, blobOf : User \union {NoUser}]]
    <3>1. NoRow \in [user : User \union {NoUser}, blobOf : User \union {NoUser}]
      BY DEF NoRow
    <3>2. vault_items' = vault_items \/ vault_items' = [vault_items EXCEPT ![i] = NoRow]
      BY <1>8 DEF Remove
    <3> QED
      BY <3>1, <3>2
  <2>2. /\ \E label \in {"ok", "not_found"} : Goto(r, label)
        /\ StartAuthed(r, "remove", u)
        /\ UNCHANGED <<users, refresh_tokens, created, maker, authed, built, saved, reply,
                       hardened, wipe, peak>>
    BY ONLY <1>8 DEF Remove
  <2> QED
    BY ONLY <2>1, <2>2, PlainTables, Tables
<1> QED
  BY <1>1, <1>2, <1>3, <1>4, <1>5, <1>6, <1>7, <1>8 DEF Arrive

LEMMA VisitorTables ==
  ASSUME Tables, NEW r \in Request, Visitor(r)
  PROVE  Tables'
<1> USE SentinelAssumption, BoundAssumption
    DEF Tables, TypeOK, RequestSound, ExistingCreated, Exists, Goto, tables, request, wipe,
        Ended
<1>1. ASSUME NEW how \in {"password", "totp"}, Harden(r, how) PROVE Tables'
  BY <1>1 DEF Harden
<1>2. CASE Resume(r)
  BY <1>2 DEF Resume
<1>3. ASSUME NEW answer \in Ended, ResumeEnds(r, answer) PROVE Tables'
  <2>1. saved[r] \in User
    BY <1>3 DEF ResumeEnds
  <2> QED
    BY <1>3, <2>1 DEF ResumeEnds
<1> QED
  BY <1>1, <1>2, <1>3 DEF Visitor

LEMMA WipeTables ==
  ASSUME Tables, NEW w \in Wiper, Wipe(w)
  PROVE  Tables'
<1> USE SentinelAssumption, BoundAssumption
    DEF Tables, TypeOK, RequestSound, ExistingCreated, Exists, tables, request, WipeGoto
<1>1. CASE WipeLock(w)
  BY <1>1 DEF WipeLock
<1>2. CASE WipeDelete(w)
  BY <1>2 DEF WipeDelete
<1>3. CASE WipeCommit(w)
  BY <1>3 DEF WipeCommit, CascadeItems, NoRow
<1>4. CASE WipeCountItems(w)
  BY <1>4 DEF WipeCountItems
<1>5. CASE WipeCountTokens(w)
  BY <1>5 DEF WipeCountTokens
<1>6. CASE WipeFails(w)
  BY <1>6 DEF WipeFails
<1> QED
  BY <1>1, <1>2, <1>3, <1>4, <1>5, <1>6 DEF Wipe

LEMMA StepTables == Tables /\ [Next]_vars => Tables'
<1> SUFFICES ASSUME Tables, [Next]_vars PROVE Tables'
  OBVIOUS
<1>1. CASE Next
  BY <1>1, HandlerTables, ArriveTables, VisitorTables, WipeTables DEF Next
<1>2. CASE UNCHANGED vars
  BY <1>2 DEF Tables, TypeOK, RequestSound, ExistingCreated, Exists, vars, tables, request,
              wipe
<1> QED
  BY <1>1, <1>2

-----------------------------------------------------------------------------
(* What a step may do to the tables.                                       *)

Inserted(e, u) == u \notin created /\ EmailFree(e) /\ InsertUser(e, u)

LEMMA UsersStep ==
  ASSUME [Next]_vars
  PROVE  \/ UNCHANGED <<users, created>>
         \/ \E e \in Email, u \in User : Inserted(e, u)
         \/ created' = created /\ \E w \in Wiper : WipeCommit(w)
<1> USE DEF tables, request, wipe
<1>1. ASSUME NEW r \in Request, Handler(r) PROVE UNCHANGED <<users, created>>
  BY <1>1 DEF Handler, IssueSession, IssueSessionRefused, CreateCount, CreateFull,
              CreateOrphan, CreateInsert, ReadItems, SaveCredentials, StatementFails
<1>2. ASSUME NEW r \in Request, Arrive(r)
      PROVE  \/ UNCHANGED <<users, created>>
             \/ \E e \in Email, u \in User : Inserted(e, u)
  BY <1>2 DEF Arrive, Signup, ProvisionSignup, InsertUser, Inserted, SignupTaken, LoginFind,
              LoginUnknown, CreateBegin, List, StoredMaterial, Update, Remove
<1>3. ASSUME NEW r \in Request, Visitor(r) PROVE UNCHANGED <<users, created>>
  BY <1>3 DEF Visitor, Harden, Resume, ResumeEnds
<1>4. ASSUME NEW w \in Wiper, Wipe(w)
      PROVE  UNCHANGED <<users, created>> \/ (created' = created /\ WipeCommit(w))
  BY <1>4 DEF Wipe, WipeLock, WipeDelete, WipeCommit, WipeCountItems, WipeCountTokens,
              WipeFails
<1>5. CASE UNCHANGED vars
  BY <1>5 DEF vars
<1> QED
  BY <1>1, <1>2, <1>3, <1>4, <1>5 DEF Next

LEMMA StepOneAccount == Tables /\ OneAccountPerAddress /\ [Next]_vars => OneAccountPerAddress'
<1> SUFFICES ASSUME Tables, OneAccountPerAddress, [Next]_vars PROVE OneAccountPerAddress'
  OBVIOUS
<1> USE DEF OneAccountPerAddress, Exists
<1>1. CASE UNCHANGED <<users, created>>
  BY <1>1
<1>2. ASSUME NEW e \in Email, NEW u \in User, Inserted(e, u) PROVE OneAccountPerAddress'
  BY <1>2 DEF Inserted, EmailFree, InsertUser, Tables, TypeOK
<1>3. ASSUME NEW w \in Wiper, WipeCommit(w) PROVE OneAccountPerAddress'
  BY <1>3 DEF WipeCommit, Tables, TypeOK
<1> QED
  BY <1>1, <1>2, <1>3, UsersStep

\* A row is stored by its owner, rewritten by its owner or taken away; its maker is
\* written once.
ItemsStored(u) ==
  \/ UNCHANGED <<vault_items, maker>>
  \/ \E i \in Item :
       \/ /\ maker[i] = NoUser /\ u \in User /\ Exists(u)
          /\ vault_items' = [vault_items EXCEPT ![i] = [user |-> u, blobOf |-> u]]
          /\ maker' = [maker EXCEPT ![i] = u]
       \/ /\ Owned(i, u) /\ u \in User /\ maker' = maker
          /\ vault_items' = [vault_items EXCEPT ![i].blobOf = u]
       \/ /\ maker' = maker
          /\ vault_items' = [vault_items EXCEPT ![i] = NoRow]

LEMMA ItemsStep ==
  ASSUME Tables, [Next]_vars
  PROVE  \/ UNCHANGED <<vault_items, maker>>
         \/ users' = users /\ \E u \in User : ItemsStored(u)
         \/ maker' = maker /\ \E w \in Wiper : WipeCommit(w)
<1> USE DEF tables, request, wipe
<1>1. ASSUME NEW r \in Request, Handler(r)
      PROVE  \/ UNCHANGED <<vault_items, maker>>
             \/ users' = users /\ who[r] \in User /\ ItemsStored(who[r])
  BY <1>1 DEF Handler, IssueSession, IssueSessionRefused, CreateCount, CreateFull,
              CreateOrphan, CreateInsert, ReadItems, SaveCredentials, StatementFails,
              ItemsStored, Tables, RequestSound
<1>2. ASSUME NEW r \in Request, Arrive(r)
      PROVE  \/ UNCHANGED <<vault_items, maker>>
             \/ users' = users /\ \E u \in User : ItemsStored(u)
  BY <1>2 DEF Arrive, Signup, ProvisionSignup, InsertUser, SignupTaken, LoginFind,
              LoginUnknown, CreateBegin, List, StoredMaterial, Update, Remove, ItemsStored
<1>3. ASSUME NEW r \in Request, Visitor(r) PROVE UNCHANGED <<vault_items, maker>>
  BY <1>3 DEF Visitor, Harden, Resume, ResumeEnds
<1>4. ASSUME NEW w \in Wiper, Wipe(w)
      PROVE  UNCHANGED <<vault_items, maker>> \/ (maker' = maker /\ WipeCommit(w))
  BY <1>4 DEF Wipe, WipeLock, WipeDelete, WipeCommit, WipeCountItems, WipeCountTokens,
              WipeFails
<1>5. CASE UNCHANGED vars
  BY <1>5 DEF vars
<1> QED
  BY <1>1, <1>2, <1>3, <1>4, <1>5 DEF Next

\* A session is inserted for an account that exists.
LEMMA TokensStep ==
  ASSUME Tables, [Next]_vars
  PROVE  \/ refresh_tokens' \ refresh_tokens \subseteq {u \in User : Exists(u)}
         \/ \E w \in Wiper : WipeCommit(w)
<1> USE DEF tables, request, wipe
<1>1. ASSUME NEW r \in Request, Handler(r)
      PROVE  refresh_tokens' \ refresh_tokens \subseteq {u \in User : Exists(u)}
  BY <1>1 DEF Handler, IssueSession, IssueSessionRefused, CreateCount, CreateFull,
              CreateOrphan, CreateInsert, ReadItems, SaveCredentials, StatementFails,
              SessionInsertable, Tables, RequestSound
<1>2. ASSUME NEW r \in Request, Arrive(r) PROVE refresh_tokens' = refresh_tokens
  BY <1>2 DEF Arrive, Signup, ProvisionSignup, InsertUser, SignupTaken, LoginFind,
              LoginUnknown, CreateBegin, List, StoredMaterial, Update, Remove
<1>3. ASSUME NEW r \in Request, Visitor(r)
      PROVE  refresh_tokens' \ refresh_tokens \subseteq {u \in User : Exists(u)}
  <2>1. ASSUME NEW answer \in Ended, ResumeEnds(r, answer)
        PROVE  refresh_tokens' \ refresh_tokens \subseteq {u \in User : Exists(u)}
    <3>1. saved[r] \in User
      BY <2>1 DEF ResumeEnds, Tables, TypeOK, RequestSound
    <3>2. answer = "ok" => Exists(saved[r])
      BY <2>1 DEF ResumeEnds, ResumeAnswer
    <3> QED
      BY <2>1, <3>1, <3>2 DEF ResumeEnds
  <2> QED
    BY <1>3, <2>1 DEF Visitor, Harden, Resume
<1>4. ASSUME NEW w \in Wiper, Wipe(w)
      PROVE  refresh_tokens' = refresh_tokens \/ WipeCommit(w)
  BY <1>4 DEF Wipe, WipeLock, WipeDelete, WipeCountItems, WipeCountTokens, WipeFails
<1>5. CASE UNCHANGED vars
  BY <1>5 DEF vars
<1> QED
  BY <1>1, <1>2, <1>3, <1>4, <1>5 DEF Next

\* A read answers with what the account holds; nothing else makes an answer.
LEMMA ReplyStep ==
  ASSUME Tables, [Next]_vars, NEW r \in Request
  PROVE  \/ reply'[r] = reply[r] /\ who'[r] = who[r]
         \/ reply'[r] = {}
         \/ reply'[r] = ItemsOf(who[r]) /\ who'[r] = who[r] /\ who[r] \in User
<1> USE DEF tables, request, wipe
<1> DEFINE G == \/ reply'[r] = reply[r] /\ who'[r] = who[r]
                \/ reply'[r] = {}
                \/ reply'[r] = ItemsOf(who[r]) /\ who'[r] = who[r] /\ who[r] \in User
<1>1. ASSUME NEW q \in Request, Handler(q) PROVE G
  BY <1>1 DEF Handler, IssueSession, IssueSessionRefused, CreateCount, CreateFull,
              CreateOrphan, CreateInsert, ReadItems, SaveCredentials, StatementFails,
              Tables, RequestSound, TypeOK
<1>2. ASSUME NEW q \in Request, Arrive(q) PROVE G
  BY <1>2 DEF Arrive, Signup, ProvisionSignup, InsertUser, SignupTaken, LoginFind,
              LoginUnknown, CreateBegin, List, StoredMaterial, Update, Remove, Start,
              StartAuthed, Tables, RequestSound, TypeOK
<1>3. ASSUME NEW q \in Request, Visitor(q) PROVE G
  BY <1>3 DEF Visitor, Harden, Resume, ResumeEnds
<1>4. ASSUME NEW w \in Wiper, Wipe(w) PROVE G
  BY <1>4 DEF Wipe, WipeLock, WipeDelete, WipeCommit, WipeCountItems, WipeCountTokens,
              WipeFails
<1>5. CASE UNCHANGED vars
  BY <1>5 DEF vars
<1> QED
  BY <1>1, <1>2, <1>3, <1>4, <1>5 DEF Next

LEMMA StepRows == Tables /\ RowsBelong /\ ReplyMade /\ [Next]_vars => (RowsBelong /\ ReplyMade)'
<1> SUFFICES ASSUME Tables, RowsBelong, ReplyMade, [Next]_vars PROVE (RowsBelong /\ ReplyMade)'
  OBVIOUS
<1>1. ASSUME NEW r \in Request, NEW i \in reply'[r]
      PROVE  maker'[i] = who'[r] /\ maker'[i] \in User
  <2>1. \A j \in Item : maker[j] \in User => maker'[j] = maker[j]
    BY ItemsStep, SentinelAssumption DEF ItemsStored, Tables, TypeOK
  <2>2. i \in Item /\ maker[i] \in User /\ maker[i] = who'[r]
    BY ReplyStep, <1>1, SentinelAssumption
       DEF RowsBelong, ReplyMade, ItemsOf, Tables, TypeOK, NoRow
  <2> QED
    BY <2>1, <2>2
<1>2. CASE \E w \in Wiper : WipeCommit(w)
  <2>1. /\ (refresh_tokens \subseteq {u \in User : Exists(u)})'
        /\ maker' = maker
        /\ \A i \in Item : vault_items'[i] # NoRow =>
             /\ vault_items'[i] = vault_items[i]
             /\ users'[vault_items[i].user] # NoEmail
    BY <1>2 DEF WipeCommit, CascadeItems, RowsBelong, Tables, TypeOK, Exists
  <2> QED
    BY <1>1, <2>1 DEF RowsBelong, ReplyMade, Exists
<1>3. CASE \A w \in Wiper : ~WipeCommit(w)
  <2>1. \A u \in User : Exists(u) => Exists(u)'
    BY <1>3, UsersStep, SentinelAssumption DEF Inserted, InsertUser, Exists, Tables, TypeOK
  <2>2. (refresh_tokens \subseteq {u \in User : Exists(u)})'
    BY <1>3, <2>1, TokensStep DEF RowsBelong, Tables, TypeOK
  <2>3. ASSUME NEW i \in Item, vault_items'[i] # NoRow
        PROVE  /\ vault_items'[i].user \in User /\ Exists(vault_items'[i].user)
               /\ vault_items'[i].blobOf = vault_items'[i].user
               /\ maker'[i] = vault_items'[i].user
    <3>1. CASE UNCHANGED <<vault_items, maker>>
      BY <2>1, <2>3, <3>1 DEF RowsBelong
    <3> DEFINE Mine == /\ vault_items'[i].user \in User /\ Exists(vault_items'[i].user)
                       /\ vault_items'[i].blobOf = vault_items'[i].user
                       /\ maker'[i] = vault_items'[i].user
    <3>2. ASSUME NEW u \in User, users' = users, NEW j \in Item, maker[j] = NoUser,
                 Exists(u), vault_items' = [vault_items EXCEPT ![j] = [user |-> u, blobOf |-> u]],
                 maker' = [maker EXCEPT ![j] = u]
          PROVE  Mine
      BY <2>3, <3>2, SentinelAssumption DEF RowsBelong, Tables, TypeOK, Exists
    <3>3. ASSUME NEW u \in User, users' = users, NEW j \in Item, Owned(j, u), maker' = maker,
                 vault_items' = [vault_items EXCEPT ![j].blobOf = u]
          PROVE  Mine
      <4>1. vault_items[j] # NoRow
        BY <3>3, SentinelAssumption DEF Owned, NoRow
      <4> QED
        BY <2>3, <3>3, <4>1 DEF RowsBelong, Tables, TypeOK, Exists, Owned
    <3>4. ASSUME NEW u \in User, users' = users, NEW j \in Item, maker' = maker,
                 vault_items' = [vault_items EXCEPT ![j] = NoRow]
          PROVE  Mine
      BY <2>3, <3>4 DEF RowsBelong, Tables, TypeOK, Exists
    <3>5. ASSUME NEW u \in User, users' = users, ItemsStored(u) PROVE Mine
      BY <3>1, <3>2, <3>3, <3>4, <3>5 DEF ItemsStored
    <3> QED
      BY <1>3, <3>1, <3>5, ItemsStep
  <2> QED
    BY <1>1, <2>1, <2>2, <2>3 DEF RowsBelong, ReplyMade
<1> QED
  BY <1>2, <1>3

-----------------------------------------------------------------------------
(* The cap.                                                                *)

Quiet(u) ==
  ItemsOf(u)' \subseteq ItemsOf(u) /\ Inserting(u)' \subseteq Inserting(u) /\ peak' = peak

\* Only a count lets a create in, and only an insert adds a row.
LEMMA QuietStep ==
  ASSUME Tables, [Next]_vars, NEW u \in User
  PROVE  \/ Quiet(u)
         \/ \E r \in Request : CreateCount(r)
         \/ \E r \in Request, i \in Item : CreateInsert(r, i)
<1> USE DEF tables, request, wipe, Quiet, ItemsOf, Inserting, Goto
<1>1. ASSUME NEW r \in Request, Handler(r)
      PROVE  Quiet(u) \/ CreateCount(r) \/ \E i \in Item : CreateInsert(r, i)
  BY <1>1 DEF Handler, IssueSession, IssueSessionRefused, CreateFull, CreateOrphan,
              ReadItems, SaveCredentials, StatementFails, Tables, TypeOK, Then
<1>2. ASSUME NEW r \in Request, Arrive(r) PROVE Quiet(u)
  <2>1. Inserting(u)' \subseteq Inserting(u) /\ peak' = peak
    <3>1. /\ \E k, v : Start(r, k, v)
          /\ \E label \in {"ok", "taken", "verify", "refused", "count", "read", "not_found"} :
               Goto(r, label)
          /\ peak' = peak
      BY ONLY <1>2 DEF Arrive, Signup, ProvisionSignup, SignupTaken, LoginFind,
                       LoginUnknown, CreateBegin, List, StoredMaterial, Update, Remove, StartAuthed
    <3>2. ~(r \in Inserting(u)')
      BY <3>1 DEF Tables, TypeOK
    <3>3. ASSUME NEW q \in Request, q # r PROVE pc'[q] = pc[q] /\ who'[q] = who[q]
      BY <3>1, <3>3 DEF Start, Tables, TypeOK
    <3> QED
      BY <3>1, <3>2, <3>3
  <2>2. ASSUME NEW v \in User, NEW i \in Item, Update(r, v, i) PROVE ItemsOf(u)' \subseteq ItemsOf(u)
    <3>1. vault_items' = vault_items \/ vault_items' = [vault_items EXCEPT ![i].blobOf = v]
      BY ONLY <2>2 DEF Update
    <3>2. \A j \in Item : vault_items'[j].user = vault_items[j].user
      BY <3>1 DEF Tables, TypeOK
    <3> QED
      BY ONLY <3>2 DEF ItemsOf
  <2>3. ASSUME NEW v \in User, NEW i \in Item, Remove(r, v, i) PROVE ItemsOf(u)' \subseteq ItemsOf(u)
    BY <2>3, SentinelAssumption DEF Remove, NoRow, Tables, TypeOK
  <2> QED
    BY <1>2, <2>1, <2>2, <2>3
       DEF Arrive, Signup, ProvisionSignup, InsertUser, SignupTaken, LoginFind, LoginUnknown,
           CreateBegin, List, StoredMaterial
<1>3. ASSUME NEW r \in Request, Visitor(r) PROVE Quiet(u)
  BY <1>3 DEF Visitor, Harden, Resume, ResumeEnds, Ended, Tables, TypeOK
<1>4. ASSUME NEW w \in Wiper, Wipe(w) PROVE Quiet(u)
  BY <1>4, SentinelAssumption
     DEF Wipe, WipeLock, WipeDelete, WipeCommit, WipeCountItems, WipeCountTokens, WipeFails,
         CascadeItems, NoRow
<1>5. CASE UNCHANGED vars
  BY <1>5 DEF vars
<1> QED
  BY <1>1, <1>2, <1>3, <1>4, <1>5 DEF Next

CapOf(u) ==
  Cardinality(ItemsOf(u)) + Cardinality(Inserting(u)) <=
    IF peak[u] = 0 THEN 0 ELSE MaxItems + peak[u] - 1

LEMMA OneMore ==
  ASSUME NEW S, IsFiniteSet(S), NEW x
  PROVE  IsFiniteSet(S \union {x}) /\ Cardinality(S \union {x}) <= Cardinality(S) + 1
<1>1. Cardinality(S) \in Nat
  BY FS_CardinalityType
<1>2. CASE x \in S
  <2>1. S \union {x} = S
    BY <1>2
  <2>2. Cardinality(S) <= Cardinality(S) + 1
    BY <1>1
  <2> QED
    BY <2>1, <2>2
<1>3. CASE x \notin S
  <2>1. IsFiniteSet(S \union {x}) /\ Cardinality(S \union {x}) = Cardinality(S) + 1
    BY <1>3, FS_AddElement
  <2> QED
    BY <1>1, <2>1
<1> QED
  BY <1>2, <1>3

LEMMA StepCap ==
  Tables /\ CapExceededByOverlapOnly /\ [Next]_vars => CapExceededByOverlapOnly'
<1> SUFFICES ASSUME Tables, CapExceededByOverlapOnly, [Next]_vars, NEW u \in User
             PROVE  CapOf(u)'
  BY DEF CapExceededByOverlapOnly, CapOf
<1>1. CapOf(u) /\ peak[u] \in Nat
  BY DEF CapExceededByOverlapOnly, CapOf, Tables, TypeOK
<1>2. CASE Quiet(u)
  <2>1. /\ Cardinality(ItemsOf(u)') <= Cardinality(ItemsOf(u))
        /\ Cardinality(Inserting(u)') <= Cardinality(Inserting(u))
        /\ Cardinality(ItemsOf(u)') \in Nat /\ Cardinality(Inserting(u)') \in Nat
    BY <1>2, SetsFinite, FS_Subset, FS_CardinalityType DEF Quiet
  <2> QED
    BY <1>1, <1>2, <2>1, SetsFinite, BoundAssumption DEF CapOf, Quiet
<1>3. ASSUME NEW r \in Request, CreateCount(r) PROVE CapOf(u)'
  <2>1. CASE who[r] # u
    <3>1. ItemsOf(u)' = ItemsOf(u) /\ Inserting(u)' = Inserting(u) /\ peak'[u] = peak[u]
      BY <1>3, <2>1 DEF CreateCount, tables, wipe, Goto, ItemsOf, Inserting, Tables, TypeOK
    <3> QED
      BY <1>1, <3>1 DEF CapOf
  <2>2. CASE who[r] = u
    <3>1. ItemsOf(u)' = ItemsOf(u) /\ Inserting(u)' = Inserting(u) \union {r} /\ r \notin Inserting(u)
      BY <1>3, <2>2 DEF CreateCount, tables, wipe, Goto, ItemsOf, Inserting, Tables, TypeOK
    <3>2. Cardinality(Inserting(u)') = Cardinality(Inserting(u)) + 1
      BY <3>1, SetsFinite, FS_AddElement
    <3>3. Cardinality(ItemsOf(u)) < MaxItems
      BY <1>3, <2>2 DEF CreateCount, Admitted
    <3>4. peak'[u] \in Nat /\ peak'[u] >= Cardinality(Inserting(u)) + 1
      BY <1>1, <1>3, <2>2, SetsFinite DEF CreateCount, Tables, TypeOK
    <3> QED
      BY <3>1, <3>2, <3>3, <3>4, SetsFinite, BoundAssumption DEF CapOf
  <2> QED
    BY <2>1, <2>2
<1>4. ASSUME NEW r \in Request, NEW i \in Item, CreateInsert(r, i) PROVE CapOf(u)'
  <2>0. /\ who[r] \in User /\ peak' = peak /\ who' = who
        /\ vault_items' = [vault_items EXCEPT ![i] = [user |-> who[r], blobOf |-> who[r]]]
        /\ pc[r] = "insert" /\ \E label : label # "insert" /\ pc' = [pc EXCEPT ![r] = label]
    BY <1>4 DEF CreateInsert, Then, Goto, AfterInsert, Tables, RequestSound, wipe
  <2>1. CASE who[r] # u
    <3>1. Quiet(u)
      BY <2>0, <2>1 DEF Quiet, ItemsOf, Inserting, Tables, TypeOK
    <3> QED
      BY <1>2, <3>1
  <2>2. CASE who[r] = u
    <3>1. /\ ItemsOf(u)' \subseteq ItemsOf(u) \union {i}
          /\ Inserting(u) = Inserting(u)' \union {r} /\ r \notin Inserting(u)'
      BY <2>0, <2>2 DEF ItemsOf, Inserting, Tables, TypeOK
    <3>2. IsFiniteSet(Inserting(u)')
      BY <3>1, SetsFinite, FS_Subset
    <3>3. Cardinality(Inserting(u)) = Cardinality(Inserting(u)') + 1
      BY <3>1, <3>2, FS_AddElement
    <3>4. IsFiniteSet(ItemsOf(u) \union {i})
          /\ Cardinality(ItemsOf(u) \union {i}) <= Cardinality(ItemsOf(u)) + 1
      BY SetsFinite, OneMore
    <3>5. /\ Cardinality(ItemsOf(u)') <= Cardinality(ItemsOf(u) \union {i})
          /\ Cardinality(ItemsOf(u)') \in Nat /\ Cardinality(ItemsOf(u) \union {i}) \in Nat
      BY <3>1, <3>4, FS_Subset, FS_CardinalityType
    <3>6. Cardinality(Inserting(u)') \in Nat
      BY <3>2, FS_CardinalityType
    <3> QED
      BY <1>1, <2>0, <3>3, <3>4, <3>5, <3>6, SetsFinite, BoundAssumption DEF CapOf
  <2> QED
    BY <2>1, <2>2
<1> QED
  BY <1>2, <1>3, <1>4, QuietStep

-----------------------------------------------------------------------------
(* The alarm of the wipe.                                                  *)

\* Accounts are only created anew: none that was created before comes back.
LEMMA NobodyReturns ==
  ASSUME Tables, [Next]_vars
  PROVE  created \subseteq created' /\ \A u \in created : Exists(u)' => Exists(u)
<1>1. ASSUME NEW w \in Wiper, WipeCommit(w) PROVE \A u \in User : Exists(u)' => Exists(u)
  BY <1>1 DEF WipeCommit, Exists, Tables, TypeOK
<1>2. ASSUME NEW e \in Email, NEW u \in User, Inserted(e, u)
      PROVE  created \subseteq created' /\ \A v \in created : Exists(v)' => Exists(v)
  BY <1>2 DEF Inserted, InsertUser, Exists, Tables, TypeOK
<1> QED
  BY <1>1, <1>2, UsersStep DEF Exists, Tables, TypeOK

\* What a wipe knows of: accounts that are selected by its DELETE, or gone.
Wiping(w) ==
  /\ known[w] \subseteq created
  /\ wpc[w] = "deleting" => \A u \in known[w] : Exists(u) => u \in doomed[w]
  /\ wpc[w] \in {"countItems", "countTokens"} => \A u \in known[w] : ~Exists(u)
  /\ wpc[w] = "countTokens" /\ rowsLeft[w] => created # known[w]
  /\ wpc[w] = "alarm" => created # known[w]

WipeSame(w) ==
  wpc'[w] = wpc[w] /\ doomed'[w] = doomed[w] /\ known'[w] = known[w] /\ rowsLeft'[w] = rowsLeft[w]

\* A wipe's variables are its own, and what others do cannot undo what it knows.
LEMMA WipingKept ==
  ASSUME Tables, [Next]_vars, NEW w \in Wiper, Wiping(w), WipeSame(w)
  PROVE  Wiping(w)'
BY NobodyReturns DEF Wiping, WipeSame

LEMMA WiperStep ==
  ASSUME Tables, [Next]_vars, NEW w \in Wiper
  PROVE  WipeSame(w) \/ Wipe(w)
<1> USE DEF WipeSame
<1>1. ASSUME NEW r \in Request, Handler(r) \/ Arrive(r) \/ Visitor(r) PROVE UNCHANGED wipe
  BY <1>1 DEF Handler, IssueSession, IssueSessionRefused, CreateCount, CreateFull,
              CreateOrphan, CreateInsert, ReadItems, SaveCredentials, StatementFails, Arrive,
              Signup, ProvisionSignup, SignupTaken, LoginFind, LoginUnknown, CreateBegin, List,
              StoredMaterial, Update, Remove, Visitor, Harden, Resume, ResumeEnds
<1>2. ASSUME NEW v \in Wiper, Wipe(v), v # w PROVE WipeSame(w)
  BY <1>2 DEF Wipe, WipeLock, WipeDelete, WipeCommit, WipeCountItems, WipeCountTokens,
              WipeFails, WipeGoto, Tables, TypeOK
<1> QED
  BY <1>1, <1>2 DEF Next, vars, wipe

LEMMA StepWipe ==
  ASSUME Tables, RowsBelong, [Next]_vars, NEW w \in Wiper, Wiping(w)
  PROVE  Wiping(w)'
<1> USE DEF Wiping, Tables, TypeOK, WipeGoto, tables
\* A row that is left belongs to an account the wipe does not know of.
<1>1. ASSUME \A u \in known[w] : ~Exists(u), known[w] \subseteq created,
             (\E i \in Item : vault_items[i] # NoRow) \/ refresh_tokens # {}
      PROVE  created # known[w]
  BY <1>1 DEF RowsBelong, ExistingCreated
<1>2. CASE WipeSame(w)
  BY <1>2, WipingKept
<1>3. CASE WipeLock(w)
  BY <1>3 DEF WipeLock
<1>4. CASE WipeDelete(w)
  BY <1>4 DEF WipeDelete, Exists
<1>5. CASE WipeCommit(w)
  BY <1>5 DEF WipeCommit, Exists
<1>6. CASE WipeCountItems(w)
  BY <1>1, <1>6 DEF WipeCountItems, Exists
<1>7. CASE WipeCountTokens(w)
  BY <1>1, <1>7 DEF WipeCountTokens, Exists
<1>8. CASE WipeFails(w)
  BY <1>8 DEF WipeFails
<1> QED
  BY <1>2, <1>3, <1>4, <1>5, <1>6, <1>7, <1>8, WiperStep DEF Wipe

-----------------------------------------------------------------------------
(* What the credentials of a tab lead to.                                  *)

\* What a request may do to the fixtures it has stored, to its account and to its kind.
LEMMA BuiltStep ==
  ASSUME Tables, [Next]_vars, NEW r \in Request
  PROVE  \/ UNCHANGED <<kind[r], who[r], built[r]>>
         \/ built'[r] = 0 /\ built[r] = 0
         \/ /\ UNCHANGED <<kind[r], who[r]>> /\ built'[r] = built[r] + 1
            /\ \E i \in Item : maker[i] = NoUser /\ maker' = [maker EXCEPT ![i] = who[r]]
<1> DEFINE G == \/ UNCHANGED <<kind[r], who[r], built[r]>>
                \/ built'[r] = 0 /\ built[r] = 0
                \/ /\ UNCHANGED <<kind[r], who[r]>> /\ built'[r] = built[r] + 1
                   /\ \E i \in Item : maker[i] = NoUser /\ maker' = [maker EXCEPT ![i] = who[r]]
<1> USE DEF Tables, TypeOK
<1>1. ASSUME NEW q \in Request, Handler(q) PROVE G
  <2>1. ASSUME NEW i \in Item, CreateInsert(q, i) PROVE G
    BY <2>1 DEF CreateInsert
  <2> QED
    BY <1>1, <2>1
       DEF Handler, IssueSession, IssueSessionRefused, CreateCount, CreateFull, CreateOrphan,
           ReadItems, SaveCredentials, StatementFails
<1>2. ASSUME NEW q \in Request, Arrive(q) PROVE G
  BY <1>2 DEF Arrive, Signup, ProvisionSignup, SignupTaken, LoginFind, LoginUnknown,
              CreateBegin, List, StoredMaterial, Update, Remove, Start, StartAuthed,
              RequestSound
<1>3. ASSUME NEW q \in Request, Visitor(q) PROVE G
  BY <1>3 DEF Visitor, Harden, Resume, ResumeEnds, request
<1>4. ASSUME NEW w \in Wiper, Wipe(w) PROVE G
  BY <1>4 DEF Wipe, WipeLock, WipeDelete, WipeCommit, WipeCountItems, WipeCountTokens,
              WipeFails, request
<1>5. CASE UNCHANGED vars
  BY <1>5 DEF vars, request
<1> QED
  BY <1>1, <1>2, <1>3, <1>4, <1>5 DEF Next

LEMMA MadeGrows ==
  ASSUME Tables, [Next]_vars, NEW u \in User
  PROVE  MadeBy(u) \subseteq MadeBy(u)' /\ Cardinality(MadeBy(u)) <= Cardinality(MadeBy(u)')
         /\ Cardinality(MadeBy(u)') \in Nat /\ IsFiniteSet(MadeBy(u)')
<1>1. MadeBy(u) \subseteq MadeBy(u)'
  BY ItemsStep, SentinelAssumption DEF ItemsStored, MadeBy, Tables, TypeOK
<1>2. MadeBy(u)' \subseteq Item
  BY DEF MadeBy
<1> QED
  BY <1>1, <1>2, FiniteAssumption, FS_Subset, FS_CardinalityType

LEMMA StepFixtures == Tables /\ FixturesMade /\ [Next]_vars => FixturesMade'
<1> SUFFICES ASSUME Tables, FixturesMade, [Next]_vars, NEW r \in Request,
                    kind'[r] = "provision"
             PROVE  Cardinality(MadeBy(who[r])') >= built'[r]
  BY DEF FixturesMade
<1>1. (who[r] \in User /\ who'[r] \in User) \/ built'[r] = 0
  BY BuiltStep, StepTables DEF Tables, TypeOK, RequestSound
<1>2. built[r] \in Nat /\ (kind[r] = "provision" => Cardinality(MadeBy(who[r])) >= built[r])
  BY DEF FixturesMade, Tables, TypeOK
<1>3. Cardinality(MadeBy(who[r])') \in Nat
  <2>1. (MadeBy(who[r]))' \subseteq Item
    BY DEF MadeBy
  <2> QED
    BY <2>1, FiniteAssumption, FS_Subset, FS_CardinalityType
<1>4. CASE built'[r] = 0
  BY <1>3, <1>4
<1>5. CASE UNCHANGED <<kind[r], who[r], built[r]>> /\ built'[r] # 0
  <2> DEFINE u == who[r]
  <2>1. u \in User /\ u' = u
    BY <1>1, <1>5
  <2>2. MadeBy(u)' = {i \in Item : maker'[i] = u}
    BY <2>1 DEF MadeBy
  <2>3. Cardinality(MadeBy(u)) <= Cardinality({i \in Item : maker'[i] = u})
    <3>1. ASSUME NEW v \in User
          PROVE  Cardinality(MadeBy(v)) <= Cardinality({i \in Item : maker'[i] = v})
      BY MadeGrows DEF MadeBy
    <3> QED
      BY <2>1, <3>1
  <2> QED
    BY <1>2, <1>3, <1>5, <2>2, <2>3, SetsFinite
<1>6. ASSUME UNCHANGED <<kind[r], who[r]>>, built'[r] = built[r] + 1, NEW i \in Item,
             maker[i] = NoUser, maker' = [maker EXCEPT ![i] = who[r]]
      PROVE  Cardinality(MadeBy(who[r])') >= built'[r]
  <2>1. who[r] \in User
    BY <1>1, <1>2, <1>6
  <2>2. MadeBy(who[r])' = MadeBy(who[r]) \union {i} /\ i \notin MadeBy(who[r])
    BY <1>6, <2>1, SentinelAssumption DEF MadeBy, Tables, TypeOK
  <2>3. Cardinality(MadeBy(who[r])') = Cardinality(MadeBy(who[r])) + 1
    BY <2>2, SetsFinite, FS_AddElement
  <2> QED
    BY <1>2, <1>6, <2>3, SetsFinite
<1> QED
  BY <1>4, <1>5, <1>6, BuiltStep

\* Credentials that are gone though the vault was whole: it cannot be reopened.
Dropped(r) ==
  kind[r] = "provision" /\ pc[r] \in Ended /\ built[r] = Fixtures /\ saved[r] = NoUser
    /\ pc[r] # "ok" => ~Exists(who[r]) \/ hardened[who[r]] # "no"

LEMMA HardenedStays ==
  ASSUME Tables, [Next]_vars, NEW u \in User, hardened[u] # "no"
  PROVE  hardened'[u] # "no"
<1>1. ASSUME NEW r \in Request, Handler(r) \/ Arrive(r) PROVE UNCHANGED hardened
  BY <1>1 DEF Handler, IssueSession, IssueSessionRefused, CreateCount, CreateFull,
              CreateOrphan, CreateInsert, ReadItems, SaveCredentials, StatementFails, Arrive,
              Signup, ProvisionSignup, SignupTaken, LoginFind, LoginUnknown, CreateBegin, List,
              StoredMaterial, Update, Remove
<1>2. ASSUME NEW r \in Request, Visitor(r) PROVE hardened'[u] # "no"
  BY <1>2 DEF Visitor, Harden, Resume, ResumeEnds, Tables, TypeOK
<1>3. ASSUME NEW w \in Wiper, Wipe(w) PROVE UNCHANGED hardened
  BY <1>3 DEF Wipe, WipeLock, WipeDelete, WipeCommit, WipeCountItems, WipeCountTokens,
              WipeFails
<1> QED
  BY <1>1, <1>2, <1>3 DEF Next, vars

RequestSame(r) == UNCHANGED <<kind[r], pc[r], who[r], built[r], saved[r]>>

LEMMA RequestStep ==
  ASSUME Tables, [Next]_vars, NEW r \in Request
  PROVE  RequestSame(r) \/ Handler(r) \/ Arrive(r) \/ Resume(r)
         \/ \E answer \in Ended : ResumeEnds(r, answer)
<1> USE DEF RequestSame, Tables, TypeOK, Goto
<1>1. ASSUME NEW q \in Request, q # r, Handler(q) PROVE RequestSame(r)
  BY <1>1 DEF Handler, IssueSession, IssueSessionRefused, CreateCount, CreateFull,
              CreateOrphan, CreateInsert, ReadItems, SaveCredentials, StatementFails, Then
<1>2. ASSUME NEW q \in Request, q # r, Arrive(q) PROVE RequestSame(r)
  BY <1>2 DEF Arrive, Signup, ProvisionSignup, SignupTaken, LoginFind, LoginUnknown,
              CreateBegin, List, StoredMaterial, Update, Remove, Start, StartAuthed
<1>3. ASSUME NEW q \in Request, q # r, Visitor(q) PROVE RequestSame(r)
  BY <1>3 DEF Visitor, Harden, Resume, ResumeEnds, request
<1>4. ASSUME Visitor(r)
      PROVE  RequestSame(r) \/ Resume(r) \/ \E answer \in Ended : ResumeEnds(r, answer)
  BY <1>4 DEF Visitor, Harden, request
<1>5. ASSUME NEW w \in Wiper, Wipe(w) PROVE RequestSame(r)
  BY <1>5 DEF Wipe, WipeLock, WipeDelete, WipeCommit, WipeCountItems, WipeCountTokens,
              WipeFails, request
<1>6. CASE UNCHANGED vars
  BY <1>6 DEF vars, request
<1> QED
  BY <1>1, <1>2, <1>3, <1>4, <1>5, <1>6 DEF Next

LEMMA StepDropped ==
  ASSUME Tables, [Next]_vars, NEW r \in Request, Dropped(r)
  PROVE  Dropped(r)'
<1> USE DEF Tables, TypeOK, RequestSound, Dropped, Goto
<1>1. CASE RequestSame(r)
  <2>1. kind[r] = "provision" => who[r] \in created /\ who[r] \in User
    OBVIOUS
  <2> QED
    BY <1>1, <2>1, NobodyReturns, HardenedStays DEF RequestSame, Exists
<1>2. CASE Handler(r)
  BY <1>2 DEF Handler, IssueSession, IssueSessionRefused, CreateCount, CreateFull,
              CreateOrphan, CreateInsert, AfterInsert, ReadItems, SaveCredentials,
              StatementFails, Then, Ended
<1>3. CASE Arrive(r)
  BY <1>3, BoundAssumption
     DEF Arrive, Signup, ProvisionSignup, SignupTaken, LoginFind, LoginUnknown, CreateBegin,
         List, StoredMaterial, Update, Remove, Start, StartAuthed
<1>4. CASE Resume(r)
  BY <1>4 DEF Resume, Ended
<1>5. ASSUME NEW answer \in Ended, ResumeEnds(r, answer) PROVE Dropped(r)'
  BY <1>5 DEF ResumeEnds, ClearsOn, ResumeAnswer, Exists
<1> QED
  BY <1>1, <1>2, <1>3, <1>4, <1>5, RequestStep

-----------------------------------------------------------------------------
IInv ==
  /\ Tables /\ RowsBelong /\ ReplyMade /\ OneAccountPerAddress /\ CapExceededByOverlapOnly
  /\ FixturesMade
  /\ \A w \in Wiper : Wiping(w)
  /\ \A r \in Request : Dropped(r)

LEMMA InitInvariant == Init => IInv
<1> SUFFICES ASSUME Init PROVE IInv
  OBVIOUS
<1>1. RowsBelong /\ ReplyMade /\ OneAccountPerAddress
  BY DEF Init, RowsBelong, ReplyMade, OneAccountPerAddress, Exists, NoRow
<1>2. CapExceededByOverlapOnly
  <2> SUFFICES ASSUME NEW u \in User PROVE CapOf(u)
    BY DEF CapOf, CapExceededByOverlapOnly
  <2>1. ItemsOf(u) = {} /\ Inserting(u) = {} /\ peak[u] = 0
    BY SentinelAssumption DEF Init, ItemsOf, Inserting, NoRow
  <2> QED
    BY <2>1, FS_EmptySet DEF CapOf
<1>3. FixturesMade
  BY DEF Init, FixturesMade
<1>4. \A w \in Wiper : Wiping(w)
  BY DEF Init, Wiping
<1>5. \A r \in Request : Dropped(r)
  BY DEF Init, Dropped
<1> QED
  BY <1>1, <1>2, <1>3, <1>4, <1>5, InitTables DEF IInv

(* Every reachable table, request and wipe of the server, under any        *)
(* interleaving of signups, logins, item writes, demo visitors and wipes,  *)
(* is in the inductive invariant.                                          *)
THEOREM Invariance == Spec => []IInv
<1>1. IInv /\ [Next]_vars => IInv'
  <2> SUFFICES ASSUME IInv, [Next]_vars PROVE IInv'
    OBVIOUS
  <2>1. \A w \in Wiper : Wiping(w)'
    BY StepWipe DEF IInv
  <2>2. \A r \in Request : Dropped(r)'
    BY StepDropped DEF IInv
  <2> QED
    BY <2>1, <2>2, StepTables, StepRows, StepOneAccount, StepCap, StepFixtures DEF IInv
<1> QED
  BY <1>1, InitInvariant, PTL DEF Spec

(* Every reachable state of the server's tables and requests, of the demo  *)
(* visitors' tabs and of the wipes is of its kind: TypeOK of VaultItems.   *)
THEOREM TypeCorrect == Spec => []TypeOK
<1>1. IInv => TypeOK
  BY DEF IInv, Tables
<1> QED
  BY <1>1, Invariance, PTL

(* No two accounts answer to one address, whatever case it was typed in    *)
(* and however signups and wipes overlap.                                  *)
THEOREM AddressNamesOne == Spec => []OneAccountPerAddress
<1>1. IInv => OneAccountPerAddress
  BY DEF IInv
<1> QED
  BY <1>1, Invariance, PTL

(* No row of vault_items or refresh_tokens outlives its account, items are *)
(* written and read by their owner only.                                   *)
THEOREM RowsHaveOwners == Spec => []RowsBelong
<1>1. IInv => RowsBelong
  BY DEF IInv
<1> QED
  BY <1>1, Invariance, PTL

(* However many creates overlap, an account exceeds the cap by less than   *)
(* as many as ever stood between count and insert together.                *)
THEOREM CapIsSoftByOverlap == Spec => []CapExceededByOverlapOnly
<1>1. IInv => CapExceededByOverlapOnly
  BY DEF IInv
<1> QED
  BY <1>1, Invariance, PTL

(* A wipe that reports rows left behind counted those of an account that   *)
(* was created after its DELETE began.                                     *)
THEOREM AlarmIsNewcomers == Spec => []AlarmNeedsNewcomer
<1>1. IInv => AlarmNeedsNewcomer
  BY DEF IInv, Wiping, AlarmNeedsNewcomer
<1> QED
  BY <1>1, Invariance, PTL

(* Stored demo credentials are those of a vault whose fixtures were all    *)
(* stored, and disappear only when they no longer open it.                 *)
THEOREM CredentialsAreGood == Spec => []CredentialsLeadToVault
<1>1. IInv => CredentialsLeadToVault
  <2> SUFFICES ASSUME IInv, NEW r \in Request, kind[r] = "provision"
               PROVE  /\ saved[r] # NoUser => Cardinality(MadeBy(saved[r])) >= Fixtures
                      /\ pc[r] \in Ended /\ built[r] = Fixtures /\ saved[r] = NoUser
                           /\ pc[r] # "ok" => ~Exists(who[r]) \/ hardened[who[r]] # "no"
    BY DEF CredentialsLeadToVault, MadeBy
  <2> QED
    BY DEF IInv, Tables, RequestSound, FixturesMade, Dropped
<1> QED
  BY <1>1, Invariance, PTL
=============================================================================
