# A verification project for FerrisKey

FerrisKey is an identity and access management server written in Rust. Its
state lives in PostgreSQL. The HTTP handlers (`api/`) call domain services
(`core/src/domain`), which call repositories (`core/src/infrastructure`), and
a repository method issues one SQL statement; of the exceptions, two matter here
(`rotate()` opens a transaction, `delete_by_id` is a SELECT and a DELETE).
Several replicas of the server may run beside each other (`charts/`), so any
two requests can interleave between any two statements, and a request can end
between any two of them. The modules here are about that: what survives when
requests interleave, when one statement of several fails, when a response is
lost, and when the process stops.

Paths below are relative to the repository; `auth` stands for
`core/src/domain/authentication` and `repos` for
`core/src/infrastructure/repositories`.

1. [Inventory](#1-inventory)
2. [How the modules are written](#2-how-the-modules-are-written)
3. [Modules](#3-modules)
4. [Runs](#4-runs)
5. [Proofs](#5-proofs)
6. [Findings](#6-findings)
7. [Not modelled](#7-not-modelled)
8. [Plan](#8-plan)

## 1. Inventory

| component | state it keeps | operations | interacts with | what is hard | what makes it correct |
|---|---|---|---|---|---|
| **refresh tokens** (`auth/services.rs`, `repos/refresh_token_repository.rs`) | `refresh_tokens`: status, family, successor, expiry | issue, rotate, detect reuse, revoke one, revoke a family | logins issue the first token of a family; the row follows its user by cascade | stale status, row locks, a response lost after the commit | one exchangeable token per family, one chain per family, no revocation without a cause, closed families stay closed |
| **authorization-code flow** (`auth/services.rs`, `repos/auth_session_repository.rs`, `trident`, `abyss`) | `auth_sessions`: code, user, authenticated, expiry | open, authenticate, register, second factors, brokered login, exchange the code | every kind of login stamps its code on the same row; the exchange mints refresh tokens | no transaction anywhere: read, mint, mark are separate | an answered code stays spent; tokens go to the user whose login made the code |
| **device grant** (`auth/device_flow`) | `device_auth_sessions` | initiate, approve, deny, poll, expire | approval needs a logged-in user; poll mints tokens | two actors write one row without repeating the condition | tokens only for a user who approved |
| **recovery codes** (`trident/services.rs`, `repos/credential_repository.rs`) | `credentials` of type recovery-code | generate a batch, burn one | burning stamps a code on an auth session | overlapping generations, SELECT then DELETE | the newest batch survives, a used code is gone |
| **passwords and reset links** (`trident/services.rs`, `user/services.rs`) | `password_reset_tokens`, password rows of `credentials`, required actions | request, complete, change, administrator's reset, cleanup | a completed reset stamps a code on an auth session; `update_user` sets the required action | delete-then-insert of the password without a transaction | nobody loses a password to a crossing of requests; the number of live links is bounded |
| **data migrations** (`libs/ferriskey-migrate`, `core/src/application/migrate`) | `data_migrations`, and what migrations write | load, run, record | runs before the API serves; migration 1 writes client scopes | replicas without a lock, crash between work and record | in order, never skipped, all replicas serve in the end |
| **portal themes** (`portal_theme`) | `portal_themes`, `realm_settings.portal_theme_id` | create, save a page, activate, delete, older upsert | the public portal renders the active theme | check and write are separate statements | the live theme is complete and is not deleted |
| **user federation** (`abyss/federation`, LDAP) | `user_federation_mappings`; rows and markers it writes into `users`, `credentials` | synchronise: list, create or update, disable | creates, enables and disables accounts that every login reads | a diff against listings that have aged, statements without a transaction, overlapping runs | mappings are sound, a later run repairs an interrupted one, only Force disables |
| **accounts, email verification** (`user`, `auth/services.rs`, `email_verification`) | `users`, passwords, required actions, verification tokens | register, mail a link, verify, create, update, delete | every login reads them; a registration goes on with a code on an auth session | whole rows written back, a rollback by hand, best-effort marking | what an administrator decided stands, an address is verified for a cause, a registration leaves all or nothing |
| **magic links** (`trident`) | `magic_links` | ask, present, delete, clean up | a presented link stamps a code on an auth session | deletion after the login, best effort | a link logs in once |
| **OTP enrolment** (`trident`) | OTP rows of `credentials`, required actions | enrol, challenge | a challenge stamps a code on an auth session | replacement without a transaction or an index | who has enrolled keeps a second factor |
| **passkeys** (`trident`) | WebAuthn rows of `credentials`, `auth_sessions.webauthn_challenge` | options, register, authenticate | an accepted answer stamps a code on an auth session | the challenge is not consumed, the signature counter is read and written back | an answer logs in once |
| **identity brokering** (`abyss/broker_services.rs`) | identity-provider links, accounts | find or create the account of a subject, link it | creates accounts beside registrations; the session side is in the code flow | two first logins at once | an account made for a subject is linked |
| **start-up and signing keys** (`core/src/application`, `domain/common/services.rs`, keystore) | what the master realm needs, `jwt_keys` | look for each row, insert it, fill other realms | precedes the data migrations; the first token of a realm makes its key | replicas on an empty database, a process that ends half way | who serves finds all of it; the copies are bounded |
| **realms** (`realm/services.rs`), clients, roles | `realms`, settings, and the client of each realm in the master realm | create, rename, delete | realms are created beside processes that are starting | several statements without a transaction, look-ups by name | a realm and its client in the master realm go together |
| **portal layouts** (`portal_layouts`) | `portal_layouts`, the default of a realm | create, set default, delete | themes refer to them | the default and the use are checked before the write | a realm with layouts has a default |
| **cluster operator** (`operator/`) | a FerrisKeyCluster resource and six Kubernetes objects | reconcile, clean up under a finalizer | starts the API after a migration job | cached copy, partial work, no leader election, an immutable job | repetition converges, nothing is left behind |
| organizations, user sessions, maintenance mode | single rows behind policy checks | create, read, update, delete | read by the flows above | database cascades | unique constraints |
| webhooks, security events (seawatch), login flows (compass) | rows nobody decides on | append, post | notified by the other services | delivery at most once | none beyond delivery |
| introspection, token exchange, user info | none | read | refresh tokens and signing keys | status column is not consulted | answers agree with the rows |
| mail, templates, password policy, masking, HTTP layer, front end, charts | none | refuse, format, send | | | |

The hazards that follow from the "hard" column are listed, each at its line, in
`PROJECT.json`; a property names a hazard it watches, and a hazard without a
property says why.

## 2. How the modules are written

* A table is a set of row identities that may ever exist, with one function per
  column that some decision reads. A row moves from `"unborn"` to stored to
  `"deleted"`, so identities are never used twice: uuids and random strings are
  fresh by that alone. Where identities are numbers (`TridentParameters`,
  `Realms`) a new row takes the least one that is left, because which one it is
  makes no difference. The only numbers that cut a behaviour off are `MaxCrashes`
  in `SeedDefaultScopes` (crashes), `MaxEvents` in `FederationSync` (faults and
  the writes of others), in `Startup` (starts and requests) and in
  `ClusterOperator` (edits, failed calls and ended processes), and `MaxEdits` in
  `UserAccounts` (what administrators do).
* A request is a `pc` and its handler's locals: the row, the user or the code it
  has read. An action is what a handler does between two statements, from one
  `.await` on the database to the next. What it decides it decides on the
  locals, so a stale read stays stale, as in the code.
* `Abort` (or `Crash`) is the end of a request or a process between two
  statements: a database error, a dropped connection, a stopped pod. Locals are
  gone, committed statements stay, an open transaction rolls back.
* A lost response is a choice in the action that answers: what the client holds
  (`held`) grows or does not.
* Time is a step: `Expire`, `LifetimeElapses` and `IntervalElapses` may happen
  whenever the row exists, so every order of deadlines and statements is tried.
* History variables, named as such, remember what a property speaks of (who
  approved, what was presented twice); no guard reads them except to keep
  identities fresh.
* Passwords, tokens and names are compared for identity only. Hashing, signing,
  mail, policy predicates and events are left out where they only refuse: a
  refusal is an early return that changes nothing, or `Finish`.
* An operator whose comment begins with "A slip:" is a plausible bug in the
  operator that follows it. Nothing uses it; substituting it for its neighbour
  breaks the property named in `PROJECT.json`, which shows that the property
  depends on that piece of code.

`MC*` modules extend a module for TLC and define the symmetry sets and small
constants; `*Proofs` modules extend it for TLAPS.

## 3. Modules

### RefreshTokens, TokenFamilies

`RefreshTokens` models `AuthServiceImpl::refresh_token`, `revoke_token` and
`PostgresRefreshTokenRepository`. Variables `status`, `family`, `replacedBy`
are the columns; `account` is what the module needs of `users`.

| action | code |
|---|---|
| `Login` | `create_jwt`: the first row of a family |
| `Present` | `verify_refresh_token` and the branch on the status |
| `CheckUser` | the look at `user.enabled` |
| `LockForRotation`, `CommitRotation` | `rotate()`: conditional UPDATE, then INSERT and COMMIT |
| `Respond` | the answer with the successor |
| `StartRevokeFamily`, `RevokeFamily` | one UPDATE over several rows: statement snapshot, then locks and writes |
| `RevokeToken` | `POST /revoke` |
| `Expire`, `SetEnabled`, `DeleteUser`, `Abort` | time, administrators, cascade, failures |

Isolation is PostgreSQL's default, READ COMMITTED: a conditional UPDATE that
waited for a lock evaluates its condition again on the new row; an UPDATE over
several rows does not see rows inserted after its snapshot.

`TokenFamilies` is what a refresh-token store promises, without rows,
statements or requests: `Open`, `Exchange`, `Close` over one live token per
family. `ImplementsTokenFamilies` is the refinement: a family is opened when it
has rows, its live tokens are the active rows, spent tokens are those rotated,
revoked or deleted. `CommitRotation` is `Exchange`; revocations and deletions
are `Close`, or a stutter when the family was closed already.

### GrantParameters, AuthSessions, DeviceFlow, Grants

`Grants` composes the two grants that begin with a login; `GrantParameters`
holds their constants.


All logins meet on a row of `auth_sessions`. `Authenticate` and
`CheckCredentials` are `authenticate` (password, LDAP, identity cookie);
`Register`, `ResumeAfterRegister` are `register_user`; `Challenge` stands for
the handlers that stamp a session without looking at its expiry or at
`authenticated` (OTP, recovery code, passkey, magic link, completed reset);
`Stamp` is the one UPDATE of `update_code_and_user_id` in all of them. Brokered
logins write user and code in two statements (`BrokerLink`, `BrokerStamp`), or
insert a complete session (`BrokerOpens`). The exchange is `ReadCode`, `Mint`,
`MarkUsed`. `auth_sessions.user_id` is ON DELETE SET NULL, which `DeleteUser`
does.

In `DeviceFlow` the device polls with the device code, users approve or deny with the user
code; each handler reads the row, decides and writes it later by device code.
`Initiate`/`Insert` are the look-up of a free user code and the insertion under
the unique constraint; `VerifyUserCode`/`Approve` and `RequestDenial`/`Deny`
the page; `Poll` the decision, then `IssueTokens`, `ExpireRow` or `MarkPolled`.

### TridentParameters, RecoveryCodes, PasswordReset, MagicLinks, OtpEnrolment, Passkeys, Trident

The protocols of the trident service. `Trident` composes them, and
`TridentParameters` holds their constants.

`RecoveryCodes`: one user's codes. `ReadStored`, `Store`, `FindPrevious`, `DeletePrevious`,
`Answer` are `generate_recovery_code`, which invalidates the previous codes
concurrently with `try_join_all`: the SELECT of `delete_by_id` fails on a row
that is gone. `Match`, `FindMatched`, `Burn`, `Login` are `burn_recovery_code`.

`PasswordReset`. Tokens: `Request` (the count), `Cleanup`, `IssueToken`, `Present`, `DropToken`,
`LifetimeElapses`, `Retire`. Passwords: `Replace`/`Find`/`Delete`/`Create` are
the common part of `complete_password_reset`, `update_password` and
`reset_password`, under the partial unique index on the password of a user;
`Unrequire` drops the required action, `RequireActions` is the part of
`update_user` that clears and sets it.

`MagicLinks`: `Ask`, `Cleanup`, `CreateLink` are `generate_magic_link`;
`Present`, `DropLink`, `Stamp`, `DeleteUsed` are
`verify_magic_link`, which refuses and deletes an expired link, stamps the
session, and then deletes the link without looking at the result. `excused`
remembers the links presented again before the first presentation was done, and
those whose deletion failed or was cut off.

`OtpEnrolment`: `ReadCredentials`, `FindPrevious`, `DeletePrevious`, `CreateOtp`,
`Unrequire` are `verify_otp`, which deletes the rows it has read one by one
(a SELECT that fails on a row that is gone, then a DELETE that does not) and
inserts its own. `doubled` remembers that there have been two rows at a time,
`cut` that an enrolment ended in the middle or an administrator deleted the row.

`Passkeys`: `BeginRegistration`, `BeginKnown` and `BeginPasskey` are the options
(`HandOut` saves the challenge); `Sign` is the authenticator, whose counter goes up
with every answer or is 0 for good. `Present` reads the session, and verifies the
answer of a known user against the counters that the state of the ceremony
carries; `Verify` does so for a discoverable key against its row; `FindRow` and
`UpdateRow` are the two statements of `update_webauthn_credential`, `Stamp` the
login. The key of a row is named by the challenge it was registered for. A session
has one challenge and may replace it; since a user may have any number of sessions,
each challenge here has its own, and one that was replaced is one that is not
presented. `crossed` remembers the keys stored twice or updated by two requests at a
time, `excused` the answers presented twice at a time.

### UserAccounts

The accounts of a realm and the handlers that write a row of them in several
statements.

| action | code |
|---|---|
| `Register`, `SetPassword`, `RequireVerification`, `ReadAddress`, `InsertToken`, `Deliver`, `RollBack` | `register_user`: account, password, required action, mail; only a mail that fails takes the account back, by hand |
| `Resend` and from `ReadAddress` on; `Fail` is how any of it fails | `send_verification_email`, at a login with the required action or on request |
| `Verify`, `ReadAccount`, `WriteAccount`, `Unrequire`, `MarkUsed` | `verify_email`: the whole row is read and later written back, the required action is dropped, the token is marked, best effort |
| `CreateUser`, `UpdateUser`, `ClearActions`, `AddAction`, `DeleteUser` | administrators |
| `FindLink`, `FindByMail`, `CreateBrokered`, `CreateLink` | `find_or_create_user` of the broker, in its modes |
| `LifetimeElapses`, `Abort` | time, failures |

`settled` remembers what was last decided about an account, its address and
whether it is enabled; it becomes `None` while a verification has a copy of the
row that is older than the decision. `confirmed` are the accounts verified by a
link or by somebody's assertion, `moved` those whose address was changed with a
link outstanding, `excused` those whose making was cut off, whose rollback failed
or which an administrator has edited.

### InstanceParameters, RunnerParameters, MigrationRunner, Realms, Startup, SeedDefaultScopes

`MigrationRunner` is `libs/ferriskey-migrate`: each instance loads the applied
versions, runs the pending ones in order and records each; no lock, no
transaction. A migration's effect is `"none"`, `"part"` or `"all"`.

`Realms` is the rest of what an API process does with realms. A realm is its
name, its rows of each kind (`rows`: how many, because two kinds have no unique
constraint), and the client `<name>-realm` in the master realm (`label`: the
name it was made for).

| action | code |
|---|---|
| `FindMaster`, `InsertMaster`, `Look`, `Make`, `List`, `Fill`, `FillConsole`, `Ready` | `initialize_application`: the master realm, then each thing it needs in `BootOrder`, look-up before insertion, then the realms that lack settings or a console client |
| `Sign`, `GenerateKey` | `get_or_generate_key`, from any request that signs |
| `CreateRealm`, `Complete` | `create_realm`, in `CreateOrder` |
| `FindRenamed`, `Rename` | `update_realm` |
| `FindDoomed`, `DeleteRow`, `DeleteClient` | `delete_realm`: by name, and the client by the id read before |
| `Ask`, `Proceed` | a request arrives, and goes on |
| `Abort`, `Die` | a request ends before its time, or a process and its requests do |

A task is what takes these steps: the start of a process, or one of the
`Requests` that may be under way at a time, in all processes together. A request
that has ended may be asked again, so `Requests` bounds the overlap and not the
number of requests.

`Startup` is the life of a process as `main` has it: `Starting` (a step of
`initialize_application`), `Migrating` (a step of the runner), `Accept` (a
request arrives at a process that serves, which may have others under way),
`Serving` (a step of a request), `Crash`, which ends the requests of the process
too. `server` is the process a request is under way in. `InOrder` and
`RecordedMeansDone` are the runner's, in this composition.

`SeedDefaultScopes` is the one registered migration statement by statement, with
several instances: scopes (unique name), mappers (no unique constraint) and
assignments (primary key). It implements `MigrationRunner` under the mapping at
its end (`ImplementsRunner`): in the abstract module a migration writes "part"
or "all" and never undoes anything; here "all" is every scope, a mapper for
each, and every assignment. The realm is one realm; a scope's mappers are
represented by one.

### PortalThemes, PortalLayouts, Portal

The collection API of themes checks in one statement and writes in a later one
(`CheckPage`/`WritePage`, `CheckTheme`/`Activate`, `CheckInactive`/`Delete`);
the older endpoint finds no theme, creates one and makes it active
(`FindNoTheme`, `CreateDefault`, `Seed`). `contested` are the themes that two
requests have worked on at a time: the checks of this code are right for one
administrator at a time, and the properties say exactly that, theme by theme.

`PortalLayouts`: `FindDefault`/`InsertLayout` are `create_layout`, whose layout
becomes the default if there was none; `SetDefault`; `CheckNotDefault`,
`CheckUnused`, `DeleteLayout` are `delete_layout`. A partial unique index allows
one default, the foreign key of `portal_themes` keeps a layout that is referred
to. `crossed` remembers that a layout was made the default while its deletion was
under way. `Portal` composes the two through the reference: `Refer` and
`UpdateMetadata` give a theme its layout.

### FederationSync

`sync_federation_users` for one provider. A run is a record of its locals; the
directory is a set that moves on by itself, and a listing is a subset of it:
`search_users` ignores the result code of the search and skips entries it cannot
map, so a listing may be short.

| action | code |
|---|---|
| `Start`, `ReadMappings` | `search_users`, `list_mappings_by_provider` once for the whole loop |
| `LookAtMapped`, `Update` | `reconcile_user_optimized`, entry with a mapping |
| `LookForOrphan`, `Adopt` | entry without one: an account of that username is updated and enabled first |
| `CreateUser`, `MapUser`, `Mark` | `create_user`, `create_mapping`, the credential that marks a federated account |
| `ListMissing`, `LookAtMissing`, `Disable` | `disable_missing_users` (Force): mappings read again, old listing |
| `FailStatement`, `Crash`, `Complete` | an entry fails and the loop goes on; the request or process ends; the answer |
| `CreateLocal`, `EditUser`, `DeleteUser`, `DirectoryMoves` | administrators and the LDAP server |

E-mail, first and last name count as one `profile`: the entry they were taken
from, or `Local`. The stamp columns that `update_mapping` writes are read by no
decision and are left out. The HTTP endpoint passes
Import only; Force is the service's other mode, and the run uses both, which
between them take every branch. The theorems also allow LinkOnly. `quiet` remembers the runs that
nothing has disturbed since they began, and `abandoned` the accounts whose run
failed or died between `create_user` and `create_mapping`. `ImportedAreClaimed`
says that nothing else leaves an account without a mapping; that a failure does
contradicts the documentation of `sync_ldap_users`, which `ImportsAreWhole`
states (see [findings](#6-findings)).

`SyncConverges` states the convergence of a synchronisation as a predicate on
the state in which a quiet run is done: it starts from whatever failures, crashes
and other runs have left. It holds because an unmapped account is found by its
username; without that look-up (which the replaced `reconcile_user` does not have)
one crash between two statements blocks an entry for good. Two entries with
one username are excepted: one account cannot carry both.

### ClusterOperator

One FerrisKeyCluster and the processes of the operator. A process has the copy of
the resource its watch has brought (`seen`), a queue (`due`), and the place in the
sequence of calls it is making.

| action | code |
|---|---|
| `Start`, `Watch` | `Controller::run` of `run_cluster_controller`: first list, later changes |
| `Claim`, `Release` | `finalizer()` adds and removes the finalizer by patches that test for it; 404 counts as done |
| `BeginApply`, `Apply`, `ApplyRefused` | `Event::Apply`: server-side apply of secret, job, API, its service, web application, its service |
| `BeginCleanup`, `Delete` | `Event::Cleanup`: the deletions, in their own order |
| `FailCall`, `Crash` | a call fails and `error_policy` queues the resource again; the process ends |
| `CreateResource`, `ChangeResource`, `DeleteResource`, `JobExpires` | users; Kubernetes removes a finished job after its time to live |

The job's pod template is immutable, and its image carries the version: `Refused`.
A version in `Stuck` stands for an image (or a database secret) that the job's pod
cannot get, so that the job neither succeeds nor fails. `contested` remembers that
two processes have worked at a time, as they may during a rolling update since
nothing elects a leader.

### How they fit together

`Challenge` in `AuthSessions` is where a burnt recovery code, a completed reset and
a magic link end, and `Register` there begins where `Register` of `UserAccounts`
ends; `BrokerCallback` has its account from `CreateLink`; `Mint` there is `Login`
in `RefreshTokens`. `IssueTokens` in `DeviceFlow` is not: the device flow signs a
refresh token and inserts no row of `refresh_tokens` for it.

Four compositions are modules. In `Startup` and `Portal` the parts share state
(the processes; the reference to a layout), and every interleaving of the parts is
there. In `Grants` and `Trident` the parts share nothing but the accounts, of which
each keeps what it reads: no request of one decides on what a request of another
writes. There a behaviour is about one part, which the initial state picks, and
the composition keeps one vocabulary of constants and one proof. `SeedDefaultScopes`
is composed with its contract, `MigrationRunner`.

The other components share no row but the account; deleting a user is an action of
each, with the effect the foreign keys have on that module's table. A composed
state space would multiply independent requests without adding an interleaving
that a property could tell apart.

## 4. Runs

Passing runs, with the distinct states TLC finds:

| run | module | states | question |
|---|---|---|---|
| `refresh_safety` | MCRefreshTokens | 372,556 | one chain per family, revocation for a cause, no row of a deleted user, and the refinement of `TokenFamilies` |
| `grants_safety` | MCGrants | 1,452,408 | an answered code stays spent; tokens follow the login that made the code; a device gets tokens only for an approving user |
| `trident_safety` | MCTrident | 1,528,973 | no generation takes the newest batch of recovery codes away, used codes are gone; passwords and second factors are lost by cut-off requests only; the limit of reset links is overshot by the overlapping requests at most; a magic link logs in once, and so does an answer to a passkey challenge |
| `accounts_safety` | MCUserAccounts | 1,452,578 | edits stand beside verifications; addresses are verified for a cause; registrations leave all or nothing; accounts made for a subject are linked |
| `startup_safety` | MCStartup | 702,169 | migrations in order and recorded when complete; who serves finds the master realm complete; keys are few; realms and their clients go together |
| `seeding` | MCSeedDefaultScopes | 20,358 | the migration implements the runner; all instances serve; duplicates are bounded |
| `portal_safety` | MCPortal | 1,020,649 | what the checks of themes and layouts guarantee with and without overlapping requests |
| `federation_safety` | MCFederationSync | 831,291 | mappings are sound, an undisturbed run repairs what others left, only Force disables and only the unlisted |
| `operator` | MCClusterOperator | 423,637 | nothing is left behind; an API comes after its secret and its job; the cluster settles when users and faults rest |

Three more runs must find a violation; see [findings](#6-findings).

**Bounds and why they suffice.** Every interleaving property here is about two
parties: a reader whose information gets stale and a writer that makes it so.
Two requests at a time give all of these pairs, and a request that ends can
start again, so the number of requests in a behaviour is not bounded.

* `RefreshTokens`: three rows make a chain with a middle, two families show that
  one does not disturb the other, two requests rotate, collide and revoke.
* `AuthSessions`: two sessions, one of which may be brokered, two codes, so that
  a session is stamped again while its first code is exchanged, and two users,
  so that this second stamp is another user's.
* `DeviceFlow`: two rows and one user code, so that both want it, and two users who
  take a row from each other.
* `RecoveryCodes`: five codes in batches of one or two: two generations may
  overlap after a first batch.
* `PasswordReset`: one user, because cleanup is the only action that touches a
  row of somebody else and it removes only rows that are expired; three tokens
  with `MaxActive = 1`, so that the limit is passed by one request and by two
  (the source has 3 with any number of tokens; the theorem is for every limit);
  three password rows: one to start with and two that cross.
* `MagicLinks`: two links, so that one is cleaned up beside the other.
  `OtpEnrolment`: four rows: two enrolments that cross leave two, and two more
  may each delete half of those.
  `Passkeys`: three challenges: one to register a key and two that it answers, so
  that an answer to one is late or crosses the other; two rows, so that the key is
  stored twice, or again after it was deleted; the counters that takes.
* `UserAccounts`: two accounts, names and addresses, so that an edit or a
  registration collides with the other account; one link, one subject and one
  edit, which two overlapping requests meet at any point. One applicant: the
  other account is an administrator's or the broker's.
* `Startup`: two processes, two migrations (one before the other), three realms
  under three names (the master realm and two that are renamed into each other's
  names), and two requests at a time, which may be in one process or in two;
  `MaxEvents = 5` starts and requests: both processes start, one starts again, and
  two requests follow; or one starts and four requests follow or overlap, which is
  enough for two requests of one process to insert a key each for a new realm, and
  for a deletion that crosses a renaming and a creation to stray. Statements of a
  request, ends of a process and refusals are not counted.
* `SeedDefaultScopes`: two instances, scopes and clients; `MaxCrashes = 2`, one
  for each instance or both for one. Crashes must be bounded here for
  `AllServe`; unique-constraint failures, which are the interesting ones, are
  not.
* `Portal`: two pages, so that a theme may be half complete; two themes: the live
  one and one to be activated or made by the older endpoint; two layouts: the
  default and another.
* `FederationSync`: two runs, two accounts and three entries, two of which want one
  username, so that an account is adopted, refused and contended for.
  `MaxEvents = 1`: one fault, short listing or write of somebody else, at any
  point of two overlapping runs; one is what it takes to leave an account without
  a mapping or to make a look-up stale, and runs themselves may go on and repeat
  without bound.
* `ClusterOperator`: two processes, a version that can be deployed and one that
  cannot, and `MaxEvents = 3` edits and faults in any mixture: created, deleted and
  interrupted once, or created again under the same name. Reconciliations are not
  counted.

**Symmetry** is declared where a run checks safety only, over sets that no
formula tells apart (`Owner`, versions, scopes, numbered rows and page counts are
not permuted; in `FederationSync` the two entries of one username are, in
`Grants` the sessions are not, because one is brokered).

**Deadlock** is checked in the runs of `Grants` and `Portal`. Elsewhere the bounded
instance has an end: in `RefreshTokens`, `Trident` and `UserAccounts` every row
identity has been used, the accounts are deleted and no request is under way; in
`FederationSync` a run that has to create an account has no identity left for it;
in `SeedDefaultScopes`, `Startup` and `ClusterOperator` everything is done and the
events are used up. These are not waits of the program.

**Fairness.** `FairSeedSpec`: a running instance goes on, and one that ended is
started again, as a Kubernetes Deployment does; crashes are not fair, and bounded.
`ClusterOperator!FairSpec`: a process makes its next call, its watch delivers, and an
ended one is started again; Kubernetes removes finished jobs. Users, failed calls and
ends of a process are not fair, and bounded, which is what "once users and faults rest" means.

## 5. Proofs

TLAPS proves, for every value of the constants that satisfies the named
assumptions (`None` is not an identity; `Owner` is a function; versions are
naturals; `MaxActive` is positive; requests and processes are finitely many, and no
request is a process; numbered rows are naturals; the migration seeds at least one
scope, for finitely many instances and clients; an entry has one username, a subject
one name and address; `MaxEvents` and `MaxEdits` are naturals):

| module | theorems |
|---|---|
| `RefreshTokensProofs` | `TypeCorrect`, `OneActivePerFamily`, `FamiliesAreChains`, `HonestClientsKeepTheirFamily`, `NoTokenOutlivesItsUser`, `ClosedFamiliesStayClosed`, `Refinement` |
| `GrantsProofs` | `TypeCorrect`, `AnsweredCodesStaySpent`, `TokensFollowTheirLogin`, `OnlyApprovedGrants`, `CodesNameOneRow`, `ApprovedHaveUser` |
| `TridentProofs` | `TypeCorrect`, `NewestBatchSurvives`, `UsedCodesStayGone`, `PasswordsAreKept`, `LimitIsNearlyKept`, `LinksAreNearlySingleUse`, `SecondFactorsAreKept`, `CountersTellRepetitions` |
| `UserAccountsProofs` | `TypeCorrect`, `DecisionsStand`, `ConfirmedOrMoved`, `AllOrNothing`, `BrokeredLinked` |
| `StartupProofs` | `TypeCorrect`, `AlwaysInOrder`, `NeverSkipped`, `ServingReady`, `RealmsMatch`, `FewKeys`, `SeedingIsAMigration`, `FewDuplicates`, `SeedingRunsOut` |
| `PortalProofs` | `TypeCorrect`, `LiveThemesAreValid`, `DefaultsAreKept`, `ActiveThemesAreKept` |
| `FederationSyncProofs` | `TypeCorrect`, `SoundMappings`, `ProfilesBelongToNames`, `ImportsAreClaimed`, `DisablesMissing`, `SyncRepairs` |
| `ClusterOperatorProofs` | `TypeCorrect`, `CleanupIsComplete`, `ApiComesLast`, `SettledStays` |

Each module has the same shape: an invariant `Inductive` that implies the
properties, `InitInductive`, `StepTypeOK` and `StepInductive` with a step per
action, then the theorems by temporal reasoning. Why `Inductive` must say more
than the properties:

* **RefreshTokens.** `AtMostOneActive` follows from `LinearChain` and
  `RowsAgree` (an active row has no successor, and a chain has one end).
  `LinearChain` needs `RequestsAgree`: a transaction holds an active row alone.
  `RevokedOnlyForCause` needs `CauseKnown`, which carries the reason of a
  revocation through its stages: two requests on one row mean it was presented
  twice, and a rotated row under a request that read it as active means the
  same. `DeletedWithOwner` separates a cascade from a revocation. `Refinement`
  takes each action of `Next` to `Open`, `Exchange`, `Close` or a stutter.
* **AuthSessions.** `CodesAreTraced`: a row, an exchange, a minted set and an
  answer all go back to the one `Issue` of their code, so a session that is
  stamped again holds a different code; `OwnerMadeTheCode` and
  `LinksAreBrokered`: outside brokered logins the user column changes only
  together with the code.
* **DeviceFlow.** `ApprovalsKnown`: whoever an approved row names, and whoever a
  poll has read from it, approved it.
* **RecoveryCodes.** `OlderOnly`: a generation invalidates rows it read before
  it stored its own, so the newest batch is never among them.
  `DeletedBeforeLogin`: a login follows the DELETE.
* **PasswordReset.** `LostOnlyByCrash` is inductive with the types and `RowFound`:
  a request that deletes a row goes on to insert one, and an insertion refused
  by the index means that a password is there. The limit needs
  `Bound`: the active tokens of a user and the requests that have passed the
  count together stay below `MaxActive` plus the number of requests.
* **MagicLinks.** `AcceptedByOne` and `DeletionFollows`: a link that has logged in
  and is still stored has one request on its way to delete it, or is excused, so
  another login with it is `SecondIsExcused`.
* **OtpEnrolment.** `OneRow`: unless there have ever been two rows, a request that
  deletes deletes the only one, and is about to insert its own.
* **Passkeys.** `CounterStands`: once a counted answer is past its update, the row of
  its key shows that counter or a later one, because one request at a time updates
  the only row (`OneUpdate`, `OneRowPerKey`); so no request is past the verification
  of an answer that has logged in (`VerifiedOnce`, `VerifiedByOne`).
* **UserAccounts.** `AccountsInv` says what each request knows at its place: how far
  a registration has got and that nobody else undoes it (`ProgressOK`), that a
  copy of a row which is older than the last decision has unsettled it (`CopyOK`),
  that a verification under way had a token of that user (`RequestOK`,
  `TokensOK`), and which account a request is making (`MadeOK`).
* **MigrationRunner, in Startup.** `MissingIsRecorded`: what an instance does not
  list as pending is recorded; `RecordAfterUp`: it records only complete migrations.
  That the least pending version exists comes from well-foundedness of the naturals.
* **Realms, in Startup.** `RealmsInv`: what a process that starts has made or found
  is there (`BootOK`; the master realm is never deleted), what a creation has made
  belongs to its own realm (`CreateOK`), a deletion holds the client of the row it
  has read or strays (`DeleteOK`), and rows and labels pair (`PairOK`, `LabelsOK`).
  `FewKeys` counts: the rows of a kind and the tasks that are about to insert one
  together are no more than the tasks that ever do (`KeysInv`): the processes for the
  master realm, whose key no request makes because it is there before any process
  serves, and the requests for another (`InsertersInGroup`). The induction over the
  steps is with the cardinalities of finite sets.
* **Portal.** `ChecksHold`: as long as no two requests have worked on a theme, the
  one that does still finds what it has checked; `RequestsAgree` holds with any
  overlap. `DefaultSinceFirst`: once there was a layout there is a default, because
  the default moves in one statement; `DeletionsCross`: a deletion under way is of a
  layout that is not the default, or was made so meanwhile.
* **FederationSync.** `RunsRely`: between two statements a run holds accounts that
  have since kept their username or been deleted for good (`RowsKeep`), so what it
  writes late still fits. `ImportsAreClaimed` needs that usernames are unique
  (`UniqueNames`): nobody else can map an account that a run has just created,
  because only its own entry, or a namesake, looks for it by name.
  `DisablesMissing` needs `RunsAim`: what a run has listed as missing stays mapped
  to an entry that its listing lacks, or is deleted, because `create_mapping` writes
  no mapping over another and an account has one at most.
  `SyncRepairs` needs to know how far an undisturbed run has come (`Progress`): the
  listed entries it is through with are in order (`Synced`), what it has read of the
  others is still true (`Ahead`, `AtHand`), and the accounts of missing entries are
  disabled or still on its list (`Ending`). Any writer but the run ends its being
  undisturbed, so only the run's own steps have to be looked at, one lemma each. That
  no two entries claim one username is used twice: the account that an entry adopts
  then has no mapping (`AdoptedIsUnmapped`), and the insertion of one is not refused.
* **SeedDefaultScopes.** `SeedsInv` says what an instance has behind it: every scope
  before the one it is at is stored with its mapper (`ScopesDone`), every client it is
  through with has every scope (`ClientsDone`), and the migration is recorded only
  when all of it is there. Rows are only added (`Grows`), so the steps of others
  disturb none of that (`InstanceKept`). `SeedingIsAMigration` is the refinement: each
  statement is a write of the runner's (`AbstractWrite`), the end of one, its record,
  its failure, or a stutter; an instance that records has passed every client, so the
  runner's "all" is true. `FewDuplicates` counts as `FewKeys` does: the copies of a
  mapper and the instances about to insert it are together no more than the instances
  (`MappersInv`), because none sets out that has seen one.
* **ClusterOperator.** `Quiet`: while no two processes have worked at a time, the one
  that applies can rely on the finalizer (`Held`), the one that deletes on finding
  gone what it has deleted (`Gone`), and so nothing is there without the finalizer.
  `JobFirst` holds with any overlap: a process comes to the API after the job.

Two theorems state what is true of the steps on the way to a liveness property, which
itself the prover cannot treat:

* `SeedingRunsOut`, for `AllServe`. Each step of an instance lowers a measure
  (`Descends`): the rows that are still to be written; when it writes none, the number
  of instances that act on a reading another's insertion has outdated (`Overtaken`: they
  will stop on a unique row and be started again, and stop once per row at most); and
  when that stays too, how far the instance itself is from serving, in migration steps,
  scopes or clients, and statements (`Nearer`), while nobody else moves. All of these
  are naturals, so instances that seed together take finitely many steps between two
  crashes. That an instance which does not serve has a step to take is checked by TLC
  as part of `AllServe`.
* `SettledStays`, for `ClusterSettles`. `Settled` says that the objects are of the version
  asked for and that no process holds or sees another; `Removed` that the objects are gone
  and no process works or sees a resource. Nothing but an edit of the resource ends
  either: not a failed call, the end of a process, a late watch or an expired job. That
  the cluster gets there is what TLC checks.

Some invariants are proved without being checked by a run of their own, because the
ones that are checked say more: the types in `RefreshTokens`, `Grants`, `Trident`,
`FederationSync` and `ClusterOperator`, `AtMostOneActive` and `ClosedForGood`
(implied by the refinement of `TokenFamilies`), `UserCodesAreUnique` and
`ApprovedRowsHaveTheirUser` of `DeviceFlow`, `ProfilesBelong` of `FederationSync`.

`SeedDefaultScopes` has names of its own for its variables, `SeedInit`, `SeedNext` and
`SeedSpec`, so that part 5 of `StartupProofs` can extend it beside `Startup`; the two
share the parameters in `InstanceParameters` and no variable.

**Only model-checked:** of the passing runs' properties, the two liveness properties
`AllServe` and `ClusterSettles`: they rest on fairness, which the prover does not
treat. Every other property of a passing run is stated by a theorem.
`SyncConverges` is an invariant (what is true when an undisturbed run is done); that an
undisturbed run comes to its end is neither proved nor checked.

## 6. Findings

Three statements of the repository do not hold of the code; each has a run in
which TLC shows a behaviour that contradicts it.

1. `refresh_revocation_race`, `RevokeFamilyRevokesAll`. "Revoke every token that
   shares the given family_id" (`libs/ferriskey-security/src/jwt/ports.rs:80`).
   The UPDATE of `revoke_family` does not see a successor that a rotation
   inserts after the statement's snapshot: it waits for the rotation's lock,
   revokes the old row and returns with the new one active.
2. `codes_double_exchange`, `CodesAreSingleUse`. The comment at
   `auth_session_repository.rs:286` says that the column `authenticated` keeps
   codes from being used more than once. The exchange reads it, mints, and sets
   it in a later statement without a condition: two overlapping exchanges both
   mint.
3. `federation_partial_import`, `ImportsAreWhole`. The documentation of
   `sync_ldap_users` (`core/src/domain/abyss/federation/services.rs:293-294`) lists
   "Atomic operations to prevent partial updates" and "Comprehensive error handling
   with rollback support". Account, mapping and marker are inserted in statements of
   their own, without a transaction: when `create_mapping` fails after `create_user`,
   the error is counted, the run goes on, and it ends with an enabled account that no
   mapping links. The next run finds the account by its username and adopts it, which
   is why `SyncConverges` holds all the same, and `ImportedAreClaimed` says that such
   a failure is the only way to that state.

The models show more, which the properties are worded around. Where a document
says otherwise the item quotes it; these have no run of their own:

* a theme may go live while an invalid page is being written to it, may be
  activated after its check has become untrue, and may be deleted while it is
  activated (hence `contested` in `LiveThemeIsValid` and `ActiveThemeIsKept`);
* a layout that is made the default while its deletion is under way is deleted, and
  the realm is left without a default (`crossed`);
* an approval of a device that was read before a denial overwrites it;
* the limit of reset links can be passed by overlapping requests
  (`OvershootIsBounded` says by how many), and one link completed twice at once
  sets two passwords, the later of which may be refused;
* `update_authenticated` addresses the session and not the code: it can mark a
  newer code of the session as used, which costs that login a repetition;
* on a session with a brokered login, an exchange of the code the session had
  before may read the new user with the old code;
* two instances that seed one realm may both insert a mapper, and an instance that
  ends in the middle leaves part of a migration until one runs it again
  (`libs/ferriskey-migrate/README.md:22`: "ensures migrations run transactionally and
  safely across distributed instances");
* two requests with one recovery code may both pass the SELECT of `delete_by_id`
  before either deletes, and both log in (hence `UsedCodesAreGone` speaks of what
  comes after the first login; `libs/ferriskey-trident/README.md:21` calls the codes
  "single-use");
* a synchronisation updates and enables an account of an entry's username before
  `create_mapping` refuses to link it because it has a mapping already, so the
  profile of an account may be that of a namesake entry (hence `ProfilesBelong`
  speaks of usernames);
* in Force mode an account that was mapped after the listing was read, or that the
  listing lacks because the search was cut short, is disabled until a later full run;
* a run that dies between the mapping and the marker leaves an account without the
  marker, and no later run adds it;
* a magic link presented with a session that is refused, or twice at a time, stays or
  logs in twice (`excused`); two overlapping OTP enrolments may leave two rows, and two
  later ones that cross may delete half of those each, so that none is left (`doubled`);
* no handler consumes a WebAuthn challenge (`take_webauthn_challenge` has no caller), so
  that an answer presented again is refused on account of the counter alone: it logs in
  again where the key keeps no counter or the user was known beforehand, and in the
  cases that `AnswersLogInOnce` excepts; a registration presented again stores the key
  twice;
* `verify_email` undoes an edit an administrator makes between its read and its
  write; a verification link names the user and not the address, so a link sent to
  the old address verifies the new one (`moved`);
* the rollback of a registration deletes an account that was verified while the mail
  was being sent (a send may take 10 s to fail);
* renaming a realm leaves its client in the master realm under the old name: the
  realm can no longer be administered or deleted from there; a creation that is cut
  off keeps the name; and of three overlapping requests a deletion may take the row
  of a new realm with the client of the old one, whose own client then blocks the
  name (`renamed`, `made`, `strayed`);
* two operator processes, one of which deletes what the other still applies, leave
  objects without an owner (`contested`); `charts/ferriskey-operator/values.yaml:113`
  points to leader election for more replicas, which the operator does not have. A
  migration job whose image cannot be pulled never finishes and keeps every other
  version from being deployed (`Blocked`), until somebody deletes it;
* every reconciliation, so every 60 seconds, writes a new random administrator
  password into the secret, while the database keeps the one of the first start;
  the status "ready" says only that the objects were applied, and nothing waits for
  the migration job to finish before the API is deployed (`ApiIsPrepared` speaks of
  its creation for that reason).

## 7. Not modelled

* **Data**: formats, hashing, signatures, PKCE, redirect URIs, password policy,
  templates, masking. They refuse or fail; the flows above have a step for that.
* **Federation providers**: their own rows (create, update, delete) and the bind
  of a login against LDAP.
* **Pure input and output**: SMTP, LDAP and HTTP clients, webhooks, the front
  end, SDKs, routing and charts.
* **Audit**: seawatch and compass append records that no decision reads.
* **Passkeys**: the cryptography of the ceremony is a library's; the required action
  `ConfigurePasskey`, which a registration drops, best effort, is not read by it.
* **Single rows behind a policy check**: clients, roles, organizations, maintenance
  mode, user sessions (which only tests create), realm settings, identity providers.
  Uniqueness and cascades are the database's.
* **Left out of modelled components**: users without an e-mail address, roles and
  attributes of a user; `create_realm_with_user`, which has no caller; renaming the
  master realm, which the code does not refuse; the grant of roles to the
  administrator that each start repeats; names and trees of layouts; the status
  column of a FerrisKeyCluster and the fields of its objects other than the version.
* **Clock skew and time zones**: a deadline is a step, not a number.
* **Database faults**: PostgreSQL is taken to do what READ COMMITTED and its
  constraints promise; a failed statement has no effect. A cycle of row locks (a
  rotation against the deletion of its user) is one: PostgreSQL fails a statement
  of it, which is `Abort` or no step. That a request which waits for a lock gets it
  in the end is taken from PostgreSQL too.
* Components for which a module is planned are listed next.

## 8. Plan

Modelled so far is every component in which requests of two parties meet on one row.
What would add to that, in the order of what it protects:

1. Introspection as an observer of `RefreshTokens`, whose answers are compared with
   the rows: it does not look at the status column.
2. Providers: deleting a federation provider takes the mappings of `FederationSync`
   with it, deleting an identity provider the links of `UserAccounts`.
3. Realms deleted under the flows of their users, which the foreign keys cascade to.

Every property of a passing run that the prover can treat is proved, and for the two
liveness properties the steps they rest on (`SeedingRunsOut`, `SettledStays`). What
proofs could add is a variant of the way to `Settled`.
