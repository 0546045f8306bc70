# auth-server in TLA+

A verification project for the auth-server in `src/`: an OAuth2 / OpenID Connect
server in async Rust (actix-web), with Postgres for what must last and Redis for
caches, one-shot artifacts and counters. Any number of replicas share both.

The difficulty of this code is not in any single function. It is in the steps
between two `await`s: every handler is a chain of SQL statements and Redis
commands, most of them outside a transaction, and any other handler, on any
replica, may run between two of them. A handler can also stop between two of them
(the client hangs up and actix drops the future, a statement fails, the process is
killed). The modules keep exactly this: **one action is one statement or one
command, with the synchronous code up to the next `await`**; requests are
processes with a `pc`; an `Abort`/`Drop` action cuts any of them short.

Postgres runs at READ COMMITTED: a statement sees the rows committed when it
starts, writers lock rows until commit, a waiting statement re-reads the row it
waited for. Where a transaction spans several statements (refresh rotation,
`set_parent`, session delete with its cascade) locks and deadlocks are modelled.

## Inventory

| component | state | operations | hard part | what makes it correct |
|---|---|---|---|---|
| session store (`session/`) | `user_sessions`, Redis `session:<hash>` with ttl | create, lookup with fill, logout, delete, bulk delete, invalidate | fill after DEL; one DEL of several failing; DELETE of rows nobody listed | an entry without a row has a known cause and goes away; rows stay when a DEL, or the SELECT before it, failed |
| login (`login/`) | the browser's `csrf_token` cookie | authenticate, create session, logout, login page | verified before, inserted after a password rotation; tabs that share one cookie | see passwords; a tab does not break another one's form |
| refresh tokens (`oauth/token/`) | `refresh_tokens` | grant, rotate, detect reuse, revoke, cascade, sweep | parallel refreshes; uncommitted children during a family revocation; lock order | a family never forks; no token without a session; every request is answered |
| logout (`oauth/logout/`) | none of its own | list clients, revoke family, delete session, notify clients | dropped errors; the rows that say whom to notify go with the session | logout ends the session, and its clients learn of it |
| userinfo, introspection (`oidc/`, `oauth/token/introspect.rs`) | none | read key, user, session | each read at another moment | what was taken away before the request is honoured |
| authorize and consent (`oauth/authorize`, `oauth/consent`) | `user_consents`, Redis `pending:*`, `code:*` | authorize, show, answer, revoke consent, redeem | withdrawn consent or URI while a request or a screen is open; merge of scopes | screens and codes are used once; a revoked consent stays revoked |
| device grant (`oauth/device`) | Redis hash and pointer with ttls | request, verify, poll | read, decide, EXISTS, HSET as four commands | tokens only on an approval, once |
| roles (`role/`) | `roles.parent_id`, `user_roles` | set/clear parent, assign, effective names | two check-then-write at once; two SELECTs for one answer | no cycle; the walk ends and returns exactly the ancestors |
| passwords (`password/`) | `credentials`, `password_resets` | forgot, reset, change, admin's set | five statements without a transaction | a rotation ends the sessions, and older reset tokens |
| users (`user/`, admin) | `users` | create, update, delete, verify | whole-row write-back | a disable or a verification is not undone |
| sign-up (`signup/`) | `users`, `email_verifications` | sign up, verify | uniqueness under concurrency | one account per name, token used once |
| clients (`client/`) | `clients`, `redirect_uris`, Redis copy | find, create, update, delete, URIs | cache-aside as for sessions | no old secret or URI is served for longer than a ttl |
| startup (`bootstrap/`) | roles, admin, clients, Redis copy of a client | seed, migrate a legacy secret | replicas start together, die half-way; a migration decided on an old copy | whoever serves finds the seed complete; a chosen secret stays once no old copy is left |
| signing keys (`common/crypto/rsa_keys.rs`) | key files, `active.kid`, memory | init, rotate, retire | crash between file and marker | what was signed verifies until retired |
| rate limiter (`common/ratelimit`) | Redis counters | check | count and ttl; Redis down | a bounded number in any stretch of time; Retry-After is off by no more than Redis rounds |
| shared resources (`db.rs`, `argon2.rs`) | connections, permits | acquire, release, time out | a second connection while one is held; permits of dropped handlers | every request is answered; hashing holds no connection |
| JWT signatures, PKCE, OIDC documents, web helpers, config | none | - | - | pure code, not modelled |

The components call each other in few places: passwords, admin and logout delete
sessions; deleting a session cascades to refresh tokens; codes and device codes
turn into refresh tokens; authorize reads clients and consents.

## Plan

In this order; what is done is described below.

1. `Sessions` with proofs (done), because every other flow ends in it.
2. `RefreshTokens`, its abstract specification `TokenFamily`, proofs of the
   refinement (done).
3. `RoleHierarchy`, `RoleGraph`, `RoleWalk` with proofs of acyclicity and of the two
   walks (done).
4. `Authorization` (done), `DeviceGrant` (done), `Passwords` (done),
   `Bootstrap` (done).
5. `SigningKeys` (done), `ClientCache` (done), `Accounts` (done).
6. `RateLimiter` (done), `LoginPage` (done), `Logout` with userinfo and introspection
   (done), `Capacity`: connections and Argon2 permits (done).
7. Theorems for the modules of steps 4 to 6: every safety property that a run checks of
   them (done; see Proofs).
8. Abstract specifications for step 5's modules: the set of keys that verify; a
   register whose readers lag by at most one ttl; an account as one record.
9. A property of the write-back of update_user, which `Sessions` models, against a
   concurrent disable.

## Modules

**`Sessions`.** `row` is `user_sessions`, `cache` the value of `user_enabled` in
each Redis entry, `account` the user row's flag. A request runs one of eleven
operations (`Ops`). The lookup is `ReadCache`, `ReadRow`, `Fill`, `Check`; a delete
is `ListTokens` (SELECT), `DelKey` per key, `DelDone` (abort if one failed),
`RevokeRefresh` (UPDATE), `DeleteRows`. Each statement can fail; `Shrug` is what the caller
does then: logout and the password operations pass the error on, `LogoutFlow`,
`revoke_session`, `update_user` and `delete_user` discard it and go on. `Evict`/`TtlExpire` are Redis's. `late`,
`orphaned` and `lateStart` are history for the properties. `MCSessions` gives the
constants values.

**`TokenFamily`, `RefreshTokens`.** `TokenFamily` is what the table promises: a token
is minted once, rotated at most once into one child by the step that spends it, and
never returns. `RefreshTokens` has the transactions: `LockToken` (FOR UPDATE),
`CheckOwner`, `Insert`, `Commit`; `RevokeFamily` starts the UPDATE and `VisitRow`
locks the rows it matched; `LockSession`, `SelectRows`, `PurgeRow`, `CommitPurge` are
DELETE with its cascade; `DeadlockVictim` is Postgres ending one transaction of a
cycle of waits. The refinement mapping is the identity on `tok` and `parent`.

**`RoleGraph`, `RoleHierarchy`, `RoleWalk`.** `RoleGraph` defines ancestors and
acyclicity with sets. `RoleHierarchy` has `set_parent` as a transaction that locks the
rows one by one in any order, and takes the verdict of its loop from `RoleGraph`
(`MayAdopt`). `RoleWalk` has that loop, and `walk_ancestors` for the effective names, turn
by turn: `Climb`, `Cycle`, `Root` and `NextDirect`, `Visit`, `Listed`. The loop starts on any
graph, the names on any two acyclic ones, the parents that the first SELECT returned
(`older`) and those of the second (`graph`); `CheckDecides` is what `RoleHierarchy` relies
on.

**`Authorization`.** One user and one client: consent row (`row` is its id, so that a
revoked and a new row differ), pending authorizations and codes in Redis (both read
and removed by one GETDEL-like script, `TakeEntry`), the URI's registration. `Take` and
`Consume` are the first step of their requests that can change anything: what precedes them
is the lookup of session and client, which other modules have. `since`, `uriSeen`,
`stale`, `overlapped`, `minted`, `redeemed`, `denied` are history.

**`DeviceGrant`.** `status`, `holder`, `ucode`, `ttl` are the hash; `pointer` the key of
the user code. `BeginVerify` reads the pointer, `ReadForVerify` and `ReadForPoll` the hash;
`Exists` and `Hset` are the two commands of `update`.

**`Passwords`.** Passwords are numbered by the write that stored them, so that "the
session's password" can be compared with the stored one. The bulk session delete is
one step here, at its DELETE, because `Sessions` has the detail.

**`Bootstrap`.** Replicas run the seeders' statements in main's order. The advisory lock
is taken and released before the first SELECT, as in the code. `service-client` is looked
up in Redis first (`ReadCache`), then in its table (`ReadRow`), and what the row says is
stored (`PopulateCache`); `cached`, `seen` and `lookup` keep of a secret only whether it is the
literal one (`Form`), which is all that the seeder compares. A plaintext secret is replaced
(`MigrateSecret`) and the entry deleted (`Invalidate`). Meanwhile a replica that is up serves
an edit of the client (`BeginEdit`, `EndEdit`, `InvalidateEdit`) and a lookup that may fill the
entry late (`BeginLookup`, `EndLookup`). Every Redis command may fail. The entry of `web-app`
is left out: a hit says no more than that the row is there. `Crash` kills a process, `Restart`
is the orchestrator.

**`SigningKeys`.** `priv`, `pub`, `marker`, `legacy` are the key directory, `loaded` and
`active` the `Store` of each server. A PEM appears in one step (temporary file, rename);
`active.kid` is truncated and then written, so a kill between the two leaves it `Torn`, which
is neither a kid nor `None`. The
write lock (`lock`) is held over the file operations of a rotation's end and of a
retirement; the PEMs of a rotation are written before it is taken. Kids are hashes in the
code; here a new one is some value not used before (`NewKid`), without an order, so the first
of the `BTreeMap` is any loaded key. `served`, `retired`, `answered`, `overlap` are history.

**`ClientCache`.** One `client_id`: `row` (its uuid and a version that stands for all
columns), one redirect URI, `cache`. A lookup is `ReadCache`, `ReadRow`,
`FetchRedirectUris`, `PopulateCache`; each write ends in `Invalidate`, which may fail.
`overtaken` records that a write came between a lookup's first SELECT and its fill, `excused`
that the present entry was stored by such a lookup, or survived a DEL that failed or was cut.

**`Accounts`.** Accounts are known by a pair of email and username. Sign-up's transaction
is one action per statement; its rows show at `Commit`, and until then make a conflicting
INSERT wait (`Unlocked`). A transaction holds a connection of the pool, `FindRole` asks for
one more (`Available`). The admin's `create_user` commits statement by statement.
`update_user` carries the `email_verified` that it read.

**`RateLimiter`.** `count` and `left` are the value and the ttl of each bucket's key, in
ticks of a third of a second because Redis rounds a TTL to whole seconds. `Hit` is the script,
whose answer may be lost (`HitUnheard`); `FailOpen` is every path that allows without
counting; `Refuse` reads the ttl in a command of its own. A route is the list of buckets
that a handler checks. `recent` has the ages of the last requests that the counter let
through, one more than two windows admit.

**`LoginPage`.** The tabs of one browser: `jar` is its cookie, `sent` the cookie that went
out with a tab's request, `form` the hidden token. A response takes effect when it arrives
(`ShowPage`), which is where two first loads overlap.

**`Logout`.** One session as its clients see it. `BeginLogout`, `ListClients`,
`LoadClients`, `RevokeFamily`, `DeleteSession`, `NotifyClients` are the statements of
`LogoutFlow::logout`; each outcome of `sessions.delete` leads on, as its error is discarded.
`FindUser`, `FindSession` and `Validate` are the reads of userinfo and introspection. `seen`
records what was true when a token came in.

**`Capacity`.** A handler is the sequence of its stages: a query, a transaction, a hash. `free`
counts idle connections, `holders` and `line` are the semaphore, `orphans` the closures that
run on after their handler was dropped. A dropped request leaves the line (`Unqueue`). Login, the two grants that open a transaction,
revocation and sign-up are the five shapes that handlers have.

**`MCStartup`, `Directory`, `MCGrants`, `MCLogin`, `MCProgress`.** Components without common
state, checked in one run each: a variable `part` chooses which one a behaviour runs, so the
states add up and do not multiply; the variables of the others hold a constant. `MCDirectory`
gives `Directory` its constants.
`MCGrants` has two instances of the device grant, one for collisions of user codes
(`Device`) and one for sessions that answer for the same device (`Rivals`). Their
properties are the components' own, some of them joined: `TypesOK` (each `TypeOK`),
`KeysBacked` (`ActiveLoaded`, `SigningKeysOnDisk`), `KeysSurvive` (`TokensVerify`,
`RestartKeepsActive`), `EveryoneComesUp` (`AllComeUp`, `KeysComeUp`), `WalksExact`
(`CheckDecides`, `EffectiveComplete`, `TornReadBounded`), `AccountsSound` (`AccountsUnique`,
`AccountsComplete`, `ConsumedMeansVerified`), `RequestsEnd` (`SetParentEnds`, the one of
`Accounts`, `WalkEnds`), `OneAnswerOneRedemption` (`AnsweredAndRedeemedOnce`), `ConsentTracksUser`
(`RevokedStaysRevoked`, `GrantsAccumulate`), `CodesJustified` (`SilentCodeCovered`,
`RedirectRevalidated`), `DeviceTokensJustified` (`IssuedWasApproved`, `SingleUseExplained`,
`ExpiredIsDead`), `SessionsEndWithPassword` (`RotationEndsSessions`), `ResetTokensDie`
(`DeadTokensRefused`), `OnePassword` (`LastPasswordOnly`), `StaleEntriesDrain`
(`StaleEntryDrains`, `DisabledDrains`).

## Runs

| run | question | bounds |
|---|---|---|
| `sessions` | can an entry outlive its row, or rows go after a failed SELECT or DEL? | 2 requests, 2 sessions of 1 user |
| `sessions_late_fill` | finding: a hit after the delete | 2 requests, 1 session |
| `sessions_end_session` | finding: logout that ended nothing | 2 requests, 1 session |
| `refresh_tokens` | fork, zombie, incomplete revocation, refinement | 2 requests, 3 tokens of 1 session |
| `refresh_finish` | is every request answered? | 2 requests, 2 tokens, fairness |
| `refresh_replay` | finding: a token survives the family's revocation | 2 requests, 3 tokens |
| `grants` | codes: single use, revocation, scopes, URI; devices: approval, single use, expiry, collisions | 2 requests, 2 sessions, 2 scopes (one or both are asked for), 2 screens, 2 codes, 2 consent rows; 2 devices, 2 user codes, 1 session that answers, or 1 device and 2 sessions; 2 tries (5 in the code) |
| `login` | sessions, tokens and passwords after rotations; limits and Retry-After; forms in several tabs; who learns of a logout, what userinfo and introspection accept | 2 requests, 2 sessions at a time (the id of a deleted one is used again), 2 tokens, 2 credential rows, 3 writes; 2 buckets with limit 1 and windows of 2 s and 1 s; 2 tabs; 2 clients, one of them without a reachable URI |
| `login_bucket` | finding: valid logins that lock their user out | 1 request, 2 buckets with limits 2 and 3 |
| `progress` | is every request answered when connections and permits run out? does every stale entry go away? | 3 requests, 2 connections, 1 permit, fairness; 2 requests, 1 session, fairness |
| `startup` | seed complete, races, convergence, secret migration; keys over rotation, retirement and restart | 2 replicas, 1 crash, 1 edit and 1 lookup at a time; 2 servers, 4 keys, 2 rotations or kills |
| `directory` | role cycles, termination, the two walks; stale client entries; unique, complete, verified accounts; sign-ups that wait for connections | 2 requests; 3 roles; 3 writes of a client; 2 accounts with one email, 2 connections |

Two requests are enough for the races listed as hazards: each of them is between one
request that read something and one that changes it. Three tokens make a chain with a
grandchild; three roles make a cycle that is not a self-loop or a swap; two devices
make a collision; two codes let one screen be answered twice; one crash leaves an account
without a credential, and the second replica may start at any time, also long after the
first migrated the secret and an admin replaced it; three writes leave a password that is neither first nor last, and let a
client be created, deleted and created again; two connections are filled by two sign-ups,
and with a third request somebody waits while both are held by transactions that need one
more. A limit of 1 and two windows of different length put a refusal, the end of its window
and the next window's hits within a few ticks of each other.
Of keys, one is the legacy pair and three can be generated: enough for two servers that
each generate a first key and for a rotation.
Requests are reused, so behaviours are not limited to two requests in all. Every bound
is a constant named in the module; symmetry is declared only for constants that no
operator tells apart and never in a run with liveness. In `grants` the same model values
serve as sessions and user codes, and as screens and devices, so that one set of
permutations serves both components.

Deadlock is checked in every run but `grants`: codes and device codes are never reused, so
a behaviour there ends when the finite supply has been drawn, spent and expired.

The operations of `Sessions` are split over two runs: `sessions` has login, the logouts,
password change, user deletion, disabling and the withdrawal of a verification on two
sessions, `progress` has lookup, user deletion and the other account updates on one. A
password reset is in neither: its steps on sessions are those of the admin's new password
after the write, which `progress` has, and the proofs cover every set of operations.

Properties with "Explained" in their name, and the ones with a named exception, say: the
bad state happens only through *this* race. They were found by stating the plain
property, reading the counterexample, and deciding that the code does behave so. The
history variable in the exception records the race itself, not the bad state.
`RotatedSecretKept` is of another kind, as the code leaves the race open: it says from
which state on the danger is over.

**Fairness.** Weak fairness of a request's steps: the runtime polls a ready future and
every statement or command returns or fails. In `RefreshTokens` and `RoleHierarchy` a
statement that waits for a lock is under strong fairness, as Postgres queues waiters;
a deadlock is detected (`deadlock_timeout`). `StaleEntriesDrain` also needs Redis to expire
keys. In `Bootstrap` the orchestrator restarts ended processes and the advisory lock is
granted to every waiter in the end; crashes are finitely many. `SigningKeys` assumes the
same of the orchestrator and that `init` runs on. In `ClientCache` an entry expires, as it is
always stored with a ttl (`SETEX`). In `Accounts` a connection that is waited for comes, or
sqlx's acquire timeout ends the wait, and an INSERT that waits for another transaction's
row is under strong fairness. In `Capacity` every request is weakly fair: statements and
hashes end, and a wait for a connection ends with the connection or with the acquire timeout,
which is why a pool full of refreshes that each want one more connection does not stop for
ever. A walk of `RoleWalk` runs between two awaits and waits for nothing.

## Findings

Four runs expect a violation of what the documentation says:

- `NoHitAfterDelete`: DEL-then-DELETE does not prevent hits after the delete, because a
  lookup fills the cache in a step of its own. The client cache has the same race, although
  `README.md:93` says that "a concurrent reader cannot populate the cache with pre-commit
  data": a lookup that read the client before the commit stores it after the DEL. There
  `StaleExplained` names it among the reasons, and `StalenessEnds` shows that it passes.
- `LogoutEndsSession`: the OIDC logout and the admin's revoke drop the error that makes
  session deletion fail closed, be it of Redis or of Postgres.
- `FamilyFullyRevoked`: a replay's family revocation misses a token that a concurrent
  transaction inserts.
- `ValidUserNotLockedOut`: no code resets the per-email login bucket on success
  (`README.md:36`), so logins that all succeed lock their user out until the window ends.

Noticed while reading, and visible as exceptions in the properties rather than as runs
of their own: the advisory lock does not serialise bootstrap inserts (`README.md:37`),
it is released first (`FailsOnlyInRace`); an admin whose credential insert was lost to a
crash never gets one (`UpMeansSeeded`); the "one-time legacy plaintext migration"
(`bootstrap/web_app_client.rs:81`) is an UPDATE by id, decided on a read that may be older than
an admin's new secret or on a Redis entry that outlived the plaintext row, and puts the
bootstrap secret in the place of the new one (`RotatedSecretKept`); Retry-After is Redis's
TTL, rounded to the nearest second, and may be half a second short of the window
(`RetryAfterWithinRounding`); `delete_user` removes the rows also when the session delete
before it failed, and leaves the entries (`StaleEntryExplained`); of two concurrent consent grants one can be lost
(`GrantsAccumulate`); a device code can be redeemed twice by overlapping polls
(`SingleUseExplained`); a session opened across a password reset survives it
(`RotationEndsSessions`); an `update_user` that read the row before a verification undoes it
(`ConsumedMeansVerified`), and likewise a disable (`WriteUser` of `Sessions`); a sign-up with the pool exhausted makes an account without its
role (`AccountsComplete`); servers that overlap on one key directory may not verify each
other's tokens, and a start may reset `active.kid` (`TokensVerify`, `RestartKeepsActive`); the
cap on concurrent Argon2 hashes (`argon2.rs:76`) does not count the closures of dropped
handlers, nor the handlers that hash inline: revocation, password reset and change, sign-up,
the admin API (`HashingApart`); two tabs that load the login page for the first time at once
leave one of them with a form that will be refused, and that refusal loses `return_to`
(`FormsKeepWorking`); a logout that is dropped while it awaits the DELETE notifies nobody,
and a second one finds no client left to notify (`ClientsTold`). Outside the modelled part:
usernames are neither lowered nor compared with `LOWER` (`README.md:37`);
`oidc/resource.rs:72` says that tokens of `client_credentials` pass through userinfo, but
their `sub` is no UUID and is refused before; `role/mod.rs:73-76` lists the assigned roles
first and then the ancestors, but the code walks up from each assigned role before it comes
to the next (`NextDirect` waits for the walk to end).

## Proofs

All proofs are by TLAPS and hold for every value of the constants: any number of requests,
replicas, tokens, keys, tabs, any limit and pool size. They use the named assumptions of the
modules and no others. Most of these say that the non-values (`None`, `NoSession`, `Torn`, ...)
are not among the values and that bounds are naturals; the ones with content are
`CsrfAssumption` (a fresh CSRF token differs from those that the browser holds: it is 192
random bits) and `PersistRetries` being at least 1 (5 in the code).

Each module has the same shape: an inductive invariant per component, one lemma per action
with one step per conjunct that the action can disturb, a lemma for the next-state relation,
and theorems combined with PTL. Where components are checked in one run, a step of `MCNext` is
a step of one of them and leaves the invariants of the others alone. What the invariants add
to the properties, and why:

- **`SessionsProofs`** (`TypeCorrect`, `StaleEntriesExplained`, `AbortsKeepRows`).
  `StaleEntryExplained` alone is not inductive: a deleter that has DELed a key and not yet
  deleted the row must find the key absent or `late` (`PassedKeysExplained`), and a `pc`
  must agree with what the request holds (`ControlOK`).
- **`RefreshTokensProofs`** (`TypeCorrect`, `FamiliesLinear`, `NoZombies`,
  `DoomedAreRevoked`, `Implementation`). The strengthening says that row locks are exclusive
  (`LocksExclusive`), that an open transaction's child is unborn, belongs to its session
  and to nobody else (`ChildrenOK`), that a delete that holds the session row has no insert
  running against it and has listed what is left (`CascadeOK`), and where the rows of a
  family UPDATE are (`DoomedOK`). `Implementation` is the refinement: only `Commit`,
  `CommitFamily`, `UpdateRevoked` and `CommitPurge` change the abstract state, each by one
  step of `TokenFamily`.
- **`LoginProofs`**: four components.
  *Passwords* (`RotationsEndSessions`, `ClosedTokensRefused`, `LastPasswordOpens`): a session
  under a replaced password is not yet wrong while a rotation is on its way that will kill
  it; `Covered` says so of every session, and also of the password that a change made from
  that session is about to give it.
  `OneRow` keeps the single credential row, `ClosedConsumed` the closed tokens,
  `RequestsInOrder` what a request relies on between its statements.
  *LoginPage* (`FormsAccepted`): a page on its way carries the token of the cookie that was
  sent or of its own (`PageInv`).
  *Logout* (`LogoutTellsClients`, `ResourcesChecked`): while the session has its row, every
  client that took part has token rows, so a logout past its list has found it (`Listed`);
  each check of a resource held when the request came in or since (`Seen`).
  *RateLimiter* (`RetryAfterRounded`): the window that refused a request ends no more than
  half a second after its caller's wait (`LimiterInv`, `Covers`), which comes down to a lemma
  on rounding ticks to seconds (`Division`). `AdmissionsBounded` is about any stretch of a window's length, which may begin
  anywhere. Of the requests let through before the present window, each is as old as that
  window, and all but a limit of them are a whole window old; once the key is gone, all but a
  limit of all are (`AdmittedInOrder`).
  `LoginTypes` is the type invariant of all four.
- **`GrantsProofs`**, with `DeviceGrantProofs`.
  *Authorization* (`AnsweredOnce`, `ConsentFollowsUser`, `CodesCovered`): who has taken an
  entry has it alone and nothing has come of it yet (`OneAnswer`); what grant() has read is
  what the row still says, unless it is another row or another grant was written meanwhile
  (`Consent`); what a request has checked is remembered by its label (`Justified`).
  *DeviceGrant* (`DevicePolls`, `DeviceScreens`): an approved hash, and a poll that read
  it, name a session that approved the device (`ApprovedByHolder`); without a race one poll
  at a time is past the approval and the hash does not return to it (`OnePoll`); each user
  code that is shown, or about to be written, leads to its device or has lapsed
  (`CodesBehind`). `DeviceGrantProofs` has the lemmas, from conditions on the constants
  (`ConstantsOK`) that `GrantsProofs` shows for both instances.
- **`StartupProofs`**.
  *Bootstrap* (`ServingIsSeeded`, `SeedersFailInRace`, `ChosenSecretStays`): main awaits the
  seeders in order, so the item a replica is at tells which rows are there, and one that
  waits to insert a row that is there was beaten to it (`SeederAt`); one replica at most is
  between account and credential (`Credential`). Copies of the secret come of the row or of
  another copy (`CopySteps`), one that is no plaintext was made after the migration, and the
  copy of an edit is not older than a rotation (`Secret`); from these follows
  `ChosenSecretStays`, an action property.
  *SigningKeys* (`KeysOnDisk`, `RotationsSurvive`): one part of the invariant holds whatever
  else runs on the directory (`KeysKept`: a key in a map has both its files unless it was
  retired), the other while servers run one at a time (`Undisturbed`: no key that signed is
  missing from a map, or from what is left to load; `AnswerKept`: the last rotation that
  answered is what a start would read).
- **`DirectoryProofs`**.
  *Roles* (`RolesAcyclic`, `SetParentsSerial`, `TypeCorrect`): the lemma `AdoptKeepsAcyclic` is about graphs: an
  edge to a parent whose ancestors do not include the child makes no cycle. What a
  transaction saw of the rows it holds is still what is committed (`ViewsOK`), which is what
  FOR UPDATE is for. It follows that every commit is that of a call which ran alone
  (`SetParentsSerial`, an action property).
  *ClientCache* (`StaleClientsExplained`): the property excuses whoever has not reached the
  DEL; `Explained` says which of them really will send one for this row (`Invalidates`),
  `CopiesRead` that a fill stores a row that was read, and `CopiesCurrent` that what a lookup
  holds is what the tables say unless a write has overtaken it.
  *Accounts* (`AccountsHold`): uncommitted INSERTs exclude each other (`InsertsExclusive`), and
  the order of the statements completes an account or records why not (`Completing`).
  *RoleWalk* (`WalksDecide`): the loop invariants. What set_parent has visited leads to what
  it has visited or to the cursor, and all of it is above the new parent (`Climbing`), so
  that at the end it is the set of ancestors, or meets the child, or is closed without a root.
  What `walk_ancestors` has visited is what it collected, each once, and within reach of an
  assigned role (`Collecting`); when both SELECTs saw one state it leads nowhere else
  (`CollectingAll`). That ancestors are the least closed set (`AncestorsLeast`) takes the
  place of an induction over the length of the way up.
- **`CapacityProofs`** (`CapacityTypes`, `ConnectionsConserved`, `HashingBounded`,
  `ProgressTypes`). That no
  request hashes while it holds a connection is a fact about the handlers' stages: every
  suffix of one that a request can be at inside a transaction has no hash in it (`Outside`,
  `Inside`, `StageOf`). The holders of permits are the requests that hash under the
  semaphore (`Permitted`), those in line are distinct and at a hash (`Distinct`,
  `Waiting`), and every connection is free or held once, over errors, timeouts and drops
  (`Pool`). For `ProgressTypes` the session store of `MCProgress` is an instance of
  `SessionsProofs`, whose lemmas hold of it as they stand.

Each inductive invariant also holds, by TLC, on the instance that its component's run has.

Left to TLC, because the provers cannot express it, is liveness under fairness:
`RequestsFinish`, `RequestsServed`, `StaleEntriesDrain`, `StalenessEnds`, `RequestsEnd`,
`EveryoneComesUp`. Every safety property that a passing run checks is a theorem.

## Not modelled

Cryptography (hashes, signatures, random values are names that never collide), HTTP and
HTML, validation errors that end a request before its first write, wall-clock time (an
expiry is an event that may happen at any moment; only the rate limiter counts ticks),
statement failures inside a transaction beyond its rollback, the Redis pool (a failure to get
a connection is a failed command), the migrations, and the components marked so in
`PROJECT.json`. What is left there is pure: PKCE, header parsing, the OIDC documents,
configuration and wiring.
