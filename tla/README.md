# Citadel Zero: verification project

Citadel Zero is a zero-knowledge password manager: a browser client that does
all the cryptography, and a small Node/PostgreSQL server that authenticates
users and stores sealed blobs. This directory holds TLA+ models of its server,
its client and its screens, the TLC configurations that check them and TLAPS
proofs of their main properties. Paths below are relative to the repository root; a
definition carries the name of the function, column or statement it models.

## 1. The system

### Server (`Server/src`)

| Component | State | Operations |
|---|---|---|
| Sessions (`services/authService.js`, `repositories/refreshTokenRepo.js`, `server.js`) | table `refresh_tokens`: one row per token with `family_id`, `user_id`, `expires_at`, `used_at`, `revoked_at` | `issueSession`, `refresh` (rotation, reuse detection), `logout`, `revokeAllForUser`, hourly `deleteExpired` |
| Connection pool (`db.js`) | the connections of a `pg` pool and its FIFO of waiters | `query`, `withTransaction` |
| Credentials (`services/accountService.js`, `repositories/userRepo.js`) | the `users` row: `auth_hash`, `kdf_salt`/`kdf_params`, `wrapped_dek`, recovery wrapper and verifier | `login`, `changePassword`, `upgradeKdf`, `completeRecovery`, `regenerateRecoveryKit`, reads |
| Second factor (`authService.js`, `repositories/totpRepo.js`, `crypto/totp.js`) | `totp_secret`, `totp_enabled`, `totp_last_step`, table `totp_backup_codes` | begin, confirm, disable, check at login |
| Signup (`authService.js`, migration of the folded email) | uniqueness of `lower(email)` | `signup` |
| Vault items (`services/vaultService.js`, `repositories/vaultRepo.js`) | `vault_items` per user, at most `MAX_ITEMS_PER_USER` | list, create, update, remove |
| Demo (`services/demoService.js`, `scripts/wipe-demo.js`, `ops/wipe`) | accounts of a demo instance, all deleted every night | stored material, wipe under an advisory lock |
| Rate limits (`middleware/rateLimit.js`) | three counters per address, in memory or in Redis | count, refuse, start a window |
| HTTP (`app.js`, `middleware`, `routes/schemas.js`) | none | body limit, limits, token check, validation, error mapping, in that order |

### Browser (`Web/src`)

| Component | State | Operations |
|---|---|---|
| API client (`api/client.js`) | access token, refresh token, the refresh in flight, the session-lost callback | `request` with one silent refresh and retry, `refreshOnce`, `clearToken` |
| Account flows (`api/auth.js`) | none of their own | derive keys, wrap, submit; `login`, `signup`, `changePassword`, `upgradeKdf`, `completeRecovery`, `regenerateRecoveryKit` |
| Vault session (`context/VaultContext.jsx`) | DEK, decrypted items, idle timer | `login`, `lock`, load/add/update/delete item, `sessionLost` |
| Crypto (`crypto/*`) | none | Argon2, HKDF, AES-GCM, padding |
| Demo visitor (`lib/provisionDemo.js`, `lib/demoFixtures.js`) | credentials in `sessionStorage` | provision, resume |
| Libraries (`lib/*`) | the clipboard timer | email folding, strength, policy, clipboard, error texts |
| Vault screens (`Vault`, `VaultLayout`, `ItemDetail`, `Generator`, `AppShell`) | the selection, the draft, the view, what is loading | select, edit, save, delete, navigate |
| Account screens (`App`, `Unlock`, `Signup`, `Recover`, `RecoveryKit`, `Settings`) | which screen shows, secrets shown once, notices, the state of each section | flows over the parts above |

### How the parts interact

A handler is one asynchronous function. At every `await` other handlers run,
and the database is shared by all of them (and by every instance of the
process, by the hourly sweep and the nightly wipe). So the unit of atomicity on
the server is the SQL statement, or the transaction where one is opened. On the
client it is the code between two `await`s. `accountService` calls into
`refreshTokenRepo` inside its transactions; `refresh` calls `revokeFamily`
outside its own; the client's refresh and the server's rotation form one
protocol over HTTP, where an answer may be lost.

### What is hard

The hazards in `PROJECT.json` list them at their lines. In short:

1. Double use of a refresh token, early (it is already spent) and late (two
   requests race to claim it), and what the revocation then reaches.
2. A revocation (logout, reuse, password change) that overlaps a refresh.
3. Checks on a row read before a wait: `revoked_at` before the claim,
   `auth_hash` before a second of Argon2.
4. Crashes between two statements, and what the rollback takes with it.
5. A second connection taken while the first is held, with a row lock or without.
6. One-time codes and enrolment under concurrency.
7. The client's tokens and keys, cleared while requests are in flight; the key
   array is shared by reference and zeroed under its users.
8. Answers that reach a screen, a panel, a list or a session which is not the
   one that asked.
9. Secrets shown exactly once, whose predecessor is dead by then.
10. Rows whose account the nightly wipe takes away between two statements.
11. Sizes at the edge of a padding bucket, and counters at their limit.

## 2. Modules

| Module | Models | Run by |
|---|---|---|
| `RefreshTokens` | `refresh_tokens`, every handler that touches it, and the connection pool they share | `MCRefreshTokens` |
| `LoginSessions` | what those handlers promise: sessions, without rows or locks | instantiated by `RefreshTokens` |
| `Account` | the credentials of one `users` row and the handlers over it | `MCAccount` |
| `Totp` | the second factor of one account and the handlers over it | `MCTotp` |
| `VaultItems` | `users`, `vault_items` and their cascade; signup, login, item requests, a demo visitor, the wipe | `MCVaultItems` |
| `HttpApi` | middleware, rate limits, padding and sizes, and how the client reads the answers | `MCHttpApi` |
| `ApiClient` | the tokens of one browser tab, against an abstract server | `MCApiClient` |
| `VaultSession` | the key and the list of one tab, lock, and the calls in flight | `MCVaultSession` |
| `ItemPanel` | the vault screen: list, panel, view | `MCItemPanel` |
| `AccountScreens` | the screens before the vault and the sections of Settings | `MCAccountScreens` |

Theorems are in `RefreshTokensProofs`, `AccountProofs`, `TotpProofs`,
`ApiClientProofs`, `VaultItemsProofs`, `VaultSessionProofs`, `HttpApiProofs` and
`ScreensProofs` (`ItemPanel` and `AccountScreens`). So that one module can hold the
proofs of two, the specification of `ItemPanel` is named for it: `PanelSpec` and so on.

Composition. `LoginSessions` is the abstract specification `RefreshTokens` is
shown to implement. The other modules meet at interfaces stated in each: what a
refresh may answer in `ApiClient` and `HttpApi` is what `RefreshTokens` allows;
the tokens of `VaultSession` stand for the session they came from, whatever
`ApiClient` does to them; `VaultSession` keeps the key and the decrypted list,
`ItemPanel` what the screen makes of that list; `AccountScreens` sees accounts as
`Account` and `Totp` leave them (the recovery key and the backup codes in force).

### RefreshTokens

One step is one SQL statement under READ COMMITTED, PostgreSQL's default. The
variable `refresh_tokens` holds committed rows. A refresh transaction is
`RefreshFound` (BEGIN, `findByHash`, the three checks), `markUsed`, and `Rotate`
(`insert` and COMMIT). `markUsed` is two steps. `MarkUsed` selects the row as it is
committed when the statement begins (or `ClaimMissed`: it is spent already);
`ClaimWon` or `ClaimLost` is what the statement makes of it once no other
transaction has it locked. What a refresh has written before COMMIT stays out of the
table: `used_at` becomes visible in `Rotate`, and `Fail` forgets it. A revocation is
two steps: `RevokeFamily` or `RevokeAllForUser` takes the statement's snapshot
(`target`), `RevokeCommit` marks the rows once no lock is in its way. A row committed
between the two is not revoked; that is how the database behaves and the reason why
`EndedStaysEnded` speaks of undisturbed revocations. Deadlocks the database can see,
between two multi-row updates, it resolves by failing one of them, which `Fail` covers.

Who holds a row lock (`HoldsLock`): a refresh that has claimed it, until it commits;
and a refresh that waited for it and lost (`late`). PostgreSQL locks a row before it
looks at the condition a second time, and keeps the lock when the row no longer
qualifies. The loser's transaction is still open while it runs `revokeFamily` on
another connection (`authService.js:117`), and that UPDATE wants the locked row: it
waits for a transaction that waits for it, through the process, where the database
does not see a deadlock. A loser that never waited (`ClaimMissed`) has locked nothing.

The pool (`db.js`) is created with a connection string only, so it has the library's
default size and no timeout for `connect()`. `Leases` are the connections in use: a
transaction's from BEGIN to its end, a statement's on the pool while it runs, both for
a refresh that revokes. A request starts, and a nested revocation runs, when one is
idle (`IdleConn`); which of those that wait is served first is left open. The library
is external, and that `withTransaction` gives its connection back whatever happens
(the `finally` of `db.js:26`) is how `Leases` is defined, not something that is shown.

`quiet` and `ended` are history: which families a revocation found without a
refresh in flight. They guard no action.

### Account

Each request reads the row (`Read`), verifies (`Accept`, `Reject`), and writes.
The two are apart because Argon2 is awaited in between, and no write
conditions on what was read. `changePassword` and `completeRecovery` write in a
transaction: `UpdateAndRevoke` takes the row lock and the snapshot of the
sessions, `ChangePassword` and `CompleteRecovery` commit. The login's INSERT
does not conflict with that lock, so a session can appear between the two. A
credential stands for one derivation (password, KDF strength, salt); a
verifier accepts, and a wrapper opens under, exactly the credential it was made
from. The request's proof is right at the moment it arrives or wrong for good
(`None`); what happens to it while the handler runs is the point of the model.
A session is the token a request issued, by a login or by a refresh that exchanged
another one (`RefreshFound`, `Rotate`, `ClaimLost`): live, spent or revoked. A refresh
looks at `revoked_at` when it reads the row and only at `used_at` when it claims it, so
one that is in flight while a revocation selects or revokes its token (`Overtaken`)
commits a successor the revocation did not see. `bornAt` counts the changes before a
session's login, `carried` those up to the last one it got past in that way. Row locks
between refreshes are the subject of `RefreshTokens`. An account created before recovery verifiers existed (a null
`recovery_auth_hash`) cannot recover; it is left out.

### Totp

The state is the three TOTP columns of one `users` row (`user`), the table of
backup codes (`codes`) and the server's clock in steps of thirty seconds. Every
handler reads the row once (`Read`) and decides on what it read; login spends an
Argon2 verification in between. Each write is one step. `confirm` and `disable`
open a transaction whose first statement updates the `users` row and which
touches the backup codes after it, so an overlapping `UPDATE` of either table
comes before its lock or after its COMMIT. `consumeStep` and
`consumeBackupCode` are single conditional UPDATEs and look at the committed
row, not at the one that was read (`Unspent`). A code is known by the secret
and the step, or by the set and the place, it belongs to; six digits that
collide are left out. The clock that `verifyCode` reads twice (in the library
and for the step it returns) is read once. A request presents a code somebody
can have: of a secret that was shown, or of a set that was handed out
(`Known`). `generation` and `consumed` are history.

### ApiClient

The tab is single-threaded, so a step is what runs between two awaits. When a
refresh settles, the callback that empties the slot was registered first and
all the waiters follow it in the same run of microtasks: `SettleOk` and
`SettleFail` are one step each, with every waiter's retry or failure and with
`clearToken`, `onSessionLost` and `lock`. A login is two: its tokens are kept
(`Login`), then `unwrapDEK` is awaited and opens the vault (`Unlock`) or throws
(`UnlockFails`, which leaves the tokens). An operation is begun while the tab is
unlocked (`Begin`) and sends its request when it has derived and sealed what it needs,
with the access token of that moment, whatever has become of the tab (`Send`). `lock`
posts a logout with the refresh token of the moment (`LockTab`); it is called by the
button and the idle timer (`Lock`), by a refresh that failed (`SettleFail`), and by
every good answer to a password change (`ChangeAnswered`), which finds the tab unlocked,
locked, or between a later login's answer and its unwrap. `crossed` and `stray` are
history. Answers take any time; a request the
tab has given up on may still be served (`abandoned`, `unheard`). The server is
what the client can tell of it: a family with one unspent token, or dead; its
own model is `RefreshTokens`. A rate limit or server error denies without
looking; a password change that commits kills every family (`ServeChange`), one that
a refresh carries past it being the subject of `Account`. Access tokens expire all at once (`ExpireAccess`), so that any
number of calls are refused together. `call` and `refresh` share the
names of calls: a refresh is named by the call that started it, and a call
starts at most one.

### LoginSessions

A session is one token at a time, with the account and the deadline of its login
and whether it is open. `Open`, `Exchange`, `Close` (some sessions for good:
`dead`), `Forget` and `Tick`. In the mapping a family's session is its unspent
row; `dead` are the families a revocation found undisturbed. `Exchange` may open
a closed session again: that is the race of a revocation with a refresh in
flight, and the abstract specification does not hide it. What it excludes is two
live tokens of a session, a deadline that moves, another account, an exchange of
nothing, and any life after a closing for good.

### VaultItems

One step is one statement in a transaction of its own. `users` and `vault_items`
are tables by id, `refresh_tokens` one bit per account. Foreign keys, the cascade
and the unique index on `lower(email)` are part of the statements. `create` is
`CreateCount` and `CreateInsert`, two statements with other requests between.
`DELETE FROM users` takes the accounts of its snapshot (`WipeDelete`) and commits
later (`WipeCommit`); statements that insert in between for a doomed account win
or lose against its lock, which is the order of the two steps. A demo visitor is
a request that goes on: `ProvisionSignup`, the login, one create per fixture,
`SaveCredentials`, then resumes. Addresses are compared by `Lower`, a constant:
which characters fold is PostgreSQL's. `peak`, `known` and `maker` are history.

### HttpApi

Two or more visitors behind one address. A request passes the body limit, the
limiters in the order `app.js` mounts them, the token check, validation and the
handler, whose answer is a code (`Handled`), `INTERNAL_ERROR` on every route included,
before or after what the handler had to commit (`Committed`). The client may hear that
code, or something it cannot use (`Unheard`): no answer, an unreadable one, or a
gateway's. It refreshes, retries, drops the session or explains (`Refreshes`, `Retry`,
`LoseSession`, `Explain`); a refresh that is answered with anything but a readable 2xx
drops the session, whether or not the server still honours the token (`alive`).
`Pad`, `Unpad`, `BucketFor`, `BodyBytes` and `MaxItemBytes` are the arithmetic
of the code on both sides, the signed shift of the header included; items are
their lengths, that of a demo vault's first items the constant `Fixture`.
`tried` counts a limit's own requests and guards nothing.

### VaultSession

A step is what runs between two awaits. `bytes` holds what each session's key
array holds, because `lock` zeroes the array and not only the reference:
`addItem` and `updateItem` have handed a copy to `importKey` when they are called
(`KeyUsed`), `changePassword`, `upgradeKdf` and `regenerateKit` wrap the array
after seconds of Argon2, whatever is in it by then (`Wrap`). Requests go out
with the token of that moment. `list` is what `setItems` made of the answers:
a set of entries, each with the write or load it came from, for the order on
screen matters to no property. The server is rows and wrappers; a wrapper is the key in
it. `loaded`, `muddled`, `crossed`, `gutted` and `cut` are history.

### ItemPanel

`ItemDetail` is mounted under the key of the selection, so a new selection is a
new panel with a form of its own (`Mount`), while the calls of the old one go on
(`live` is false from then) and still run the `onDone` they were given. An entry
is its name and whether anything else of it was edited. `unseen` and `stale` are
history.

### AccountScreens

What `App` holds (`authScreen`, the recovery key to show, the notice), what each
section of Settings holds and loses when Settings unmounts, and the requests in
flight with the screen that asked (`on`). A refresh that is refused sets its notice and
locks (`SessionLost`), or finds the vault locked already and sets the notice all the
same (`SessionLostLate`). A secret is the request that made it.
`saved` is what the person says is kept, `gone` what was lost in a way the
screens do not prevent; neither guards a step of the program. A code belongs to
the enrolment it was made from (`key`): `disableTotp` checks it against the secret
and the backup codes that are stored by then, so a TURN OFF that was sent under one
enrolment does nothing to the next.

## 3. Runs

| Run | Instance | Shows |
|---|---|---|
| `tokens` | 3 tokens, 2 families, 2 users, 3 requests, 2 connections, TTL 1, clock to 2, fairness | rotation is a chain, does not slide, is atomic, punishes double use; an undisturbed revocation is final; the handlers stop, all waiting, only by a nested revocation, and without one every request ends; the table implements the sessions of `LoginSessions` |
| `tokens_late` | 1 user, 10 connections, the clock stands, fairness | **violated:** the revocation of a refresh that lost its claim late waits for its own row lock |
| `account` | 3 requests of any kind, 2 passwords, 2 strengths, symmetry | the account is never half changed or below policy; the sessions alive after a change are of later logins, or carried past it by a refresh in flight |
| `account_upgrade` | 2 requests | **violated:** a late KDF upgrade brings the old password back |
| `totp` | 3 requests of any kind, sets of 2 backup codes, clock to step 2, symmetry | a factor that is on has its secret and one whole set of codes; a TOTP or backup code is spent once |
| `client` | 2 calls, one a password change, 2 logins, fairness | no token is posted twice; tokens follow the session, are unspent between refreshes and gone after a lock, but for the late answers `crossed` and `stray` name; every call ends |
| `vault_items` | 2 accounts, 3 items, 3 spellings of 2 addresses, 3 requests, 1 wipe process, cap 2, 2 fixtures | one account per address whatever its case; no row without its owner; the cap is passed by overlap only; a wipe's alarm means a newcomer; demo credentials lead to a whole vault |
| `vault_session` | 2 accounts, 2 items, 2 calls in flight of 3 in all, 2 logins, versions to 2 | the list is what the server holds once all is answered; a lock zeroes every key array, and a tab locked with nothing in flight shows nothing (a load or an add answered after the lock does put plaintext into it: `cut`); each blob is sealed with its account's key |
| `session_zero_key` | the same, the calls that wrap the key | **violated:** a lock during a password change makes the change store a wrapper of zeros |
| `item_panel` | 2 items, 2 names, 2 calls in flight of 3 in all, 2 loads, 2 unlocks | the panel never shows an entry the list has lost; names are distinct where the check could see the list |
| `account_screens` | 2 accounts, 2 requests in flight, 2 locks | a key or code shown once is kept, held or on its way; Settings says what the server has; the notice is of this lock |
| `http` | 2 visitors, lengths 253, 65532, 65533, limits 3, 1 and 6, 3 flows, 1 expiry | a sealed item is never refused for its size; a refusal is earned on its own routes; a session is dropped only when a refresh that was needed did not succeed, for the causes listed |

### Bounds

A request is handled once, so the number of requests bounds a
behaviour, and the other constants follow from it: a request mints at most one
token and one family. Three requests are the least that race over a token
somebody else obtained (a login and two refreshes, or a login, a refresh and a
revocation). Two connections are the fewest with which a refresh that revokes ever
ends; a pool starved of connections alone takes four requests (a login, the refresh
that spends its token, and two that come back with it), which the run does not reach and
`OnlyNestingStops` covers. In `tokens_late` the pool is the ten of the library, so that
what stops is the lock and not the pool. The clock moves far enough for a row to expire
and then to be swept. In `account` three requests let two writers overlap a third that reads
between them. In `totp` the account starts without a factor, with an enrolment
begun or with a factor on, so that three requests reach a confirmation whose
secret was disabled under it; the clock takes the two steps after which a code
is out of its window. In `client` two calls are the one that starts a refresh
and the one that waits for it, or one before and one after a lock; two logins
are an old session whose answers are late and a new one.

In `vault_items` everything starts empty. A demo visitor is one request that
signs up and makes two items, so that the two others are creates that race its
last fixture past the count, signups with its address in other spellings, or
reads and writes of what it made, while a wipe runs, breaks off, runs again. A
third item is the one above the cap of two. One wipe process is enough here:
the advisory lock lets one at a time past its first step, and the theorems hold
for any number. In `vault_session` two calls in flight are the
least that overlap, the third begins after one of them was answered; the second
login is another account's or the same one's again. In `item_panel` a panel can
be closed and opened again on the same entry while a save of its predecessor is
out, and a load of the first unlock can be answered in the second. In
`account_screens` two requests are two flows that compete for the one place a
recovery key is shown in; the second lock is the one whose notice must replace
the first's; every account that is there already (any subset of the two) has
weaker KDF parameters than the defaults until it raises them, one that signs up
never has. In `http` the lengths are the last in the largest bucket and
the first past it, and the first past the smallest, with the four bytes of the header
(252, the last within the smallest, and all others are left to `Carriage`); the limits
are reached by each visitor's flows alone and
together, and the limit of signups comes before the general one.

What these bounds leave out the proofs cover where there are any (section 4).

Deadlock is an error in the two runs of `RefreshTokens`, those of `Account`, and
`totp`; in the first, handlers that all wait for each other are no deadlock to TLC, for
the process may always fail: that they do so only by nesting is the property
`StopIsNested`. In the other runs a tab, or a server without requests, comes to rest:
in `client` that it then leaves no call behind is the property.

### Fairness

`RefreshTokens` assumes weak fairness of what a running handler does next: the event
loop runs ready callbacks, statements end, the database wakes waiters of a lock, the
pool serves its queue. Nothing makes a request arrive, fail, or time pass. Weak fairness
is enough: a lock or a connection that is taken again before a waiter gets it is taken
by another request, and each of those ends.
`ApiClient` assumes weak fairness of each call and the refresh it started: the
browser reports every fetch as answered or failed. The other modules state
safety only and assume nothing: their answers may never come.

Symmetry is used in runs of safety and action properties only; no action and no
property names an element of a permuted set.

### Types

The type invariants of all modules that run are proved; those of `ItemPanel`,
`AccountScreens` and `HttpApi` are checked in their runs too, because they say more
than a kind: what a panel, a section or a visitor in a place must or cannot have.
An abstract module that is only instantiated (`LoginSessions`) has none.

### Findings

Three comments promise what the code does not do when a request overlaps
something else. Each has a run.

| Run | Promise | What happens |
|---|---|---|
| `tokens_late` | `authService.js:111` "Revocation must COMMIT even though the request fails" | a refresh that waited for `markUsed` and lost has the row locked; the `revokeFamily` it runs on a second connection (`authService.js:117`) waits for that lock while the transaction waits for it: the request hangs with two connections |
| `account_upgrade` | `accountService.js:219` the password is unchanged | the UPDATE does not condition on the `auth_hash` that was verified |
| `session_zero_key` | `api/auth.js:156` "re-wrap the SAME dek" under the new password | `lock()` fills the shared array with zeros (`VaultContext.jsx:80`) while Argon2 runs; `wrapDek` then wraps zeros, and the request is accepted if its token still is |

### Exceptions and remarks

The properties that hold say in their own text where they do not: an exception
is a behaviour the model has, named by a history variable. Those that go against
a comment, or that a reader of the code would want to know of:

Server.

- A refresh that has claimed its token when a logout reads the family commits a
  successor the logout did not see (`authService.js:168`, "logout ends the
  session"): `EndedStaysEnded` speaks of undisturbed revocations. So does a
  revocation for reuse.
- `revokeFamily` inside a refresh asks for a second connection while the first
  is held; as many of those as connections stop the pool (`authService.js:117`). With
  the late losers of `tokens_late`, which hold two each, half as many do. These are the
  exceptions of `StopIsNested` and `RequestsFinish`, and the theorem says there is no
  third way to stop.
- "Kill every session a user has" (`refreshTokenRepo.js:69`) and
  `accountService.js:62-65` ("every old session stayed live — precisely the state
  changing a password is supposed to end") do not hold of a refresh in flight across a
  password change or recovery: its successor is committed after the snapshot of
  `revokeAllForUser`, or its claim looks at `used_at` only, and the session goes on with
  the old login's lifetime. `NoSessionOutlivesChange` names these sessions (`carried`)
  and excludes all others; the disagreement has no run of its own.
- A login that verified the old password before a change issues its session
  after it (`accountService.js:62`); `NoSessionOutlivesChange` counts it as younger than
  the change.
- An enrolment that read the row before a confirmation turns the confirmed
  factor off (`authService.js:250`); a disable forgets the last step, so
  `StepSpentOnce` counts by generations. `FactorIsWhole` is about what is stored: that
  the secret stored is the one a confirmation checked is not a property.
- The cap's comment (`vaultService.js:114-122`) speaks of one item too many;
  with k creates past the count it is k - 1.
- A wipe that counts after its DELETE reports "cascade left rows behind", or
  does not leave the database empty as it says, when somebody has signed up
  since. Rows really left behind, the mutant of `AlarmNeedsNewcomer`, stand for a schema
  that allows them; a plain foreign key would make PostgreSQL refuse the DELETE.
- `CredentialsLeadToVault`: a visitor of the model provisions once, so credentials of
  an earlier vault that a later one replaces do not occur.
- `RefusalIsEarned` speaks of the auth and signup limits.

Browser.

- A logout's late answer clears the tokens of the login after it
  (`VaultContext.jsx:96`), and so does a refresh of an earlier login that fails while the
  next one is being opened; one that succeeds late replaces them by the earlier login's,
  or stores its pair in the locked tab (`VaultContext.jsx:65`). The exceptions are
  `crossed` in `TokensFollowSession` and `NextRefreshWorks`, `stray` in `NothingKept`.
- The late answer to a password change locks whichever tab it finds
  (`VaultContext.jsx:238`): one that is open for a later login, or one whose later
  login is between its answer and its unwrap. That one posts a logout with the new
  login's token, clears it, and is then unlocked without tokens: `crossed` again.
- A load or an add answered after a lock writes plaintext into the locked tab's list,
  where it stays until the next unlock's load (`VaultContext.jsx:169`, `188`);
  `LockLeavesNothing` leaves out tabs locked with something in flight (`cut`).
- Two entries come to one name when a save of another panel is in flight while the name
  is checked (`unseen` of `NamesDistinct`).
- The answer to a save or a delete closes whichever panel is open, discarding
  its edits; ADD is offered while the list loads or when that failed, so the name
  is checked against an empty list; "nothing was saved" is shown also when only
  the answer was lost.
- The banner of the KDF upgrade returns after an upgrade when Settings is opened
  again (`Settings.jsx:28`). The notice of a changed password is not cleared when a
  vault is opened by a demo button (`App.jsx:308-313`), and hides the notice of
  the lock after it. The ticked `saved` box carries over when a second key replaces
  the first in the same place. Leaving Settings, or the idle lock, while a new
  recovery key or a set of codes is on its way loses it although the old one is
  dead.
- A refresh that is refused by the address's budget of attempts, is answered with a
  500, meets a network error, or gets a 2xx that does not parse drops a session that
  lives (`client.js:80-82`, `193-199`; `app.js:375-376`; the comment at
  `VaultContext.jsx:247` speaks of sessions that are gone): `SessionLossHasCause` lists
  them all as causes.

## 4. Proofs

TLAPS proves these for every value of the constants; the only assumptions are
the named ASSUMEs of the modules: sentinels are no rows, tokens, items, names or
accounts; password changes are calls, and the browser's sessions are numbers and no
calls; the TTL, the pool's size, the limits, the cap, the lengths of items and
the number of fixtures are positive; a fixture is of a size the client seals; the first password is a password; a set of
backup codes is not empty and TOTP codes are no backup codes; `Lower` maps every
spelling to an address; the vault
is one of the views; an account is not a number, as the requests that make a secret
are; the outdated accounts are accounts; the sets of requests (and of items, for the cap) that are counted are finite;
bounds are natural numbers.

Every safety property of a passing run, invariant or action property, is stated by
a theorem.

**RefreshTokensProofs.** `IInv` strengthens the type invariant with what a
handler in flight knows: the row it read is the row in the table up to `used`
and `revoked`; a handler that has claimed a token is the only one with its lock,
and the token is unspent; a family's rows agree on user and expiry. With that,
a family's unspent row is unique (`SessionIsAChain`): a claim needs the
unspent row, and its successor appears in the step that spends it.
`RotationAtomic` follows from the same invariant step by step.
`DoubleSpendIsPunished` needs a second invariant on top: between the read of
the spent row and the revocation's snapshot the successor is already in the
table, so the snapshot cannot miss it, and what is revoked stays revoked.
`UndisturbedRevocationIsFinal` rests on the history: while a revocation with
no refresh in flight runs, a refresh that starts is taken off `quiet`.

`OnlyNestingStops` is about waiting. Suppose all that is under way waits and nobody lost
late. Whoever holds a row lock has then claimed its token, and does not wait (`Waits`);
so no row is locked, nobody waits for one, and everybody under way is in "revoke" with
no connection idle. In that place only a refresh holds one (`OneRevocation`: a mass
revocation is never there): the pool is starved (`StopWithoutLosers`).

Its second part is the refinement. `TokensImplementSessions` is
`Spec => SessionsAsPromised`: under the mapping of `LoginSessions`, the initial
state is initial and every step of a handler is one step of a session or a
stutter. `RInv` adds to `IInv` that a row the sweep is about to delete has
expired. A claim and its insert are one commit, so a rotation is one
`Exchange`; the deletion of unspent rows maps to `Forget` because what is
swept has expired; the history `ended` is what `dead` maps to.

**AccountProofs.** `IInv` adds to the properties: what a handler holds between
read and write (`InHandOK`, `AcceptedOK`) and the lock of the users row
(`LockOK`): one transaction at a time has written, and it selected every
session that is neither younger than its revocation nor carried past it.
`NeverHalfChanged` holds because each write replaces verifier, salt and wrapper
together by one credential. `ChangeEndsSessions` holds because of the lock, and because
a refresh exchanges a token that is revoked or selected, and then its successor is
marked as carried (`Overtaken`), or one that is neither, and then its successor is as
young as that token was.

**TotpProofs.** `IInv` says what the history knows: a code spent in this
generation is not above the last step, a spent backup code is not fresh, and a
code in somebody's hands is of a set that was handed out, so that the set a
confirmation draws is new. `StepSingleUse` then follows because a second
`consumeStep` of the generation needs a step above the last one,
`BackupCodeSingleUse` because nothing makes a used code fresh again (a set is
stored once), `FactorWhole` because the secret and the codes change together
and `enable` needs a secret.

**ApiClientProofs.** `IInv` says who holds a session's token: the tab, or one
refresh in flight, and the tab only as long as that refresh has the slot
(`OneHolder`); whoever holds it holds the unspent one until the server has seen
it (`Unspent`). Every place that empties the slot also clears or replaces the
tokens, which is why `RefreshIsSingle` holds although `clearToken` forgets a
refresh that goes on. `TenantHolds` says that the login a tab is being opened for or
unlocked by has its token in the tab unless it was crossed, `LogoutUnderWay` that a
logout is on its way while a locked tab has a token that is not a stray; they carry the
other three theorems.

**VaultItemsProofs.** `Tables` is the type invariant with what a request's place
says of it. What a read answered with was made by somebody (`ReplyMade`), a
demo's account made at least the fixtures its visitor has counted
(`FixturesMade`), credentials are dropped only for a reason that lasts
(`Dropped`), and an account a wipe knows of is one its DELETE will take or has
taken, so that what it counts afterwards is of somebody it does not know
(`Wiping`). `CapIsSoftByOverlap` counts an account's items
together with the creates that have passed the count: a create that passes adds
one to both sides of the bound, an insert moves one from the second set to the
first, and `peak` never falls.

**VaultSessionProofs.** `Typed` is the type invariant with what each stage of a
call implies. `Keyed` says what every place a key can be in holds: the array of
a session holds its account's key or zeros, and zeros unless it is the one on
screen or about to be (`ArraysSound`); every wrapper holds its account's key, or
zeros after a wrapper of zeros was accepted (`DoorsSound`); a call in flight
carries the key of the session it was begun in, a re-wrap that or zeros
(`CallKeyed`); a tab locked in quiet is empty (`QuietLocked`). `LockWipes` and
`BlobsOpen` are read off it.

`ListFollows` needs more: an invariant of two halves, `IInv` and `Following`.
Two calls about one item that overlap know it (`Apart`); an undisturbed call of the
session on screen carries that session's key and token, and so does the tab (`Here`);
what an undisturbed load has fetched is what the rows still are (`SnapCurrent`); and
an item's entries on the list are its row, or lag behind it by exactly the served
write that is to be answered (`AllFollow`). With nothing in flight the second case
is empty, and the list is the rows.

**HttpApiProofs.** The arithmetic comes first. The header is four bytes, read back
with a signed shift: a number below 2^31 is split into its bytes and put together
again (`HeaderNames`), `PadRoundTrip` says that `Unpad` gives back what `Pad` was
given, `SealedFits` that the largest item the client agrees to seal is within the
largest bucket, whose base64 is within the server's schema and body limit. Then the
layer: `IInv` says that a counter is the number of requests its own limit has had
(`CountsTyped`), which is what the prefix of each limiter's keys is for; that no
refusal for a size is ever given (`VisitorsTyped`); that what is
stored is the padding of an item (`StoredOpens`); and which answer a request can
carry in each place (`VisitorSound`): a refresh of a session that is alive is answered
"ok", by a limit, with a server error, or not readably. `Earned` and `LossHasCause` are
action properties and follow step by step.

**ScreensProofs.** For the vault screen, `Standing` holds however loads, locks and
calls overlap: the panel shows an entry of the list, because the answer that takes an
entry off the list closes whichever panel is open, and because a list on its way
knows every id the server has given out (`IdsBorn`, `LoadsSound`). `Clean` holds as
long as every name was checked against a whole list: calls overlap only as a save
and a delete of one entry (`Apart`), the list differs from the rows only by what is
served and not answered (`ListSynced`), and a call in flight has a name no other
entry of the list has (`Effects`). From there `NamesStayDistinct` is one case per
write the server may serve.

For the account screens, `ScreensInv` has the screens in their places (`Seated`,
`Whole`), the notices (`Explained`), and the requests: each with an id of its own
(`Numbered`), none of whose secrets any account knows before it was served
(`Unmade`), and each still telling only a screen that waits for it (`Placed`). On
that rest the three that matter. `InForce`: the codes on screen, or answered and on
their way to it, are those in force, and no request that is still out can end them,
since a code works for one enrolment only; one two-factor answer at most is ready
for the section. `Truthful`: unless a write was answered to nobody, the section is
wrong only until that answer. `Ticked`: a ticked box is about a secret that is saved,
and a call whose section has gone brings one that was let go. `InForce` is what an
attempt without enrolments failed on: with a TURN OFF that any code satisfies, one
sent under an old enrolment ends a new one while its codes are being shown, from
four requests on, which the two of the run do not reach. The code excludes it, and
the model says so now.

Only model-checked: liveness (`RequestsFinish`, `EveryCallEnds`), which is out of the
prover's reach: fairness and ENABLED. The three runs that expect a violation have nothing to prove.

## 5. Plan

Done: sessions with their abstract specification and the pool, credentials, second
factor, API client; vault rows with signup, cap, demo and wipe; the HTTP layer
with limits and sizes; the unlocked vault; the screens that own secrets and
requests; a theorem for every safety property that is checked. What is left, in
this order:

1. `ClientServer`: `ApiClient` over `RefreshTokens` and a channel that loses
   answers, in place of the abstract server `ApiClient` has.
2. The KDF comparison, the folding of an address and base64 as pure algorithms
   against reference definitions.
3. The clipboard's timer; the loop of `run.sh`.

## 6. Not modelled

- The clipboard's timer: the one hazard of the list without a property. Whether
  the secret is still in the clipboard is the operating system's to say.
- Which characters an address folds: `Lower` is a constant, any function.
- `Recover`'s busy flags, and a request the browser gave up on that the server
  begins later still: calls are served before or without their answer, not after
  a later one of the same tab was answered with a failure.
- Reloading the page, other than the resume of a demo: it drops the tab's state
  and every handler of it.
- Schema checks other than those of an item: they appear as the sets inputs are
  drawn from.
- The cryptographic primitives themselves, layout, wording, logging, static
  configuration, migrations, and the deployment files.
- Response times, which the code equalises on purpose: these models have no
  notion of how long a step takes.
