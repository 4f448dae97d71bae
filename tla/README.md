# service-authentication in TLA+

service-authentication keeps the accounts of a platform: who can sign in, which
mailbox an account belongs to, which role it has. It is a Go server over
PostgreSQL, a job that bootstraps the super-admin, and a package other services
import to check permissions. This directory holds a TLA+ model of the parts of
it where order, concurrency, failure or time decide whether it is right, the
model checker's configurations, and theorems checked by TLAPS.

`tlc -config X.cfg M` checks a run; `tlapm M.tla` checks the proofs of a module.
`PROJECT.json` lists the runs, the lines of source every definition stands for,
a mutant for every property, the hazards and the theorems.

## 1. The system

| Component | State | Operations | Talks to |
|---|---|---|---|
| Short-code store (`dao/pg.shortCode*`, `core/shortCodeCreate`, `core/shortCodeConsume`) | table `short_codes`, a partial unique index on the rows not deleted | insert (with or without `Override`), select, delete; create and consume around them | called inside the transaction of the operation the code authorises |
| Accounts (`core/credentials*`, `core/tokenCreate`, `dao/pg.credentials*`) | table `credentials`: id, unique email, password hash, role | register, update email, reset password, change password, sign in | redeems codes; asks for signed tokens |
| Short-code requests (`core/shortCodeCreate{Register,EmailUpdate,PasswordReset}`) | a WaitGroup each | look an address up, insert a code, start a goroutine that mails it | short-code store, bounded SMTP sender |
| Role changes (`core/credentialsUpdateRole`, `handlers/middlewares/rest.auth`) | the role column; the role inside each access token | the route's permission check, the update | accounts, permission configuration |
| Bootstrap (`cmd/init`, `core/credentialsCreateSuperAdmin`) | none of its own | one transaction: find or create the account, set password and role | accounts, in parallel with the server |
| Sessions (`core/signTokenPair`, `tokenRefresh`, `tokenCreateAnon`) | none: signed tokens | sign, refresh, verify | external JSON-keys service |
| Permissions (`pkg/go/auth`, `lib/resolveDependants`) | a map computed at startup | resolve inheritance | configuration |
| Process (`cmd/rest`, `lib/drain`) | phase of `serve`, WaitGroups, timers | signal, shutdown, drain, exit | all of the above |
| Requests (`cmd/rest` router, `handlers/*`, the reads of `core/credentials{Get,List,Exist}`, health) | the connection pool (`POSTGRES_MAX_OPEN_CONNS`), open transactions and their row locks | authenticate, decode, one service call, map its error to a status | all services, PostgreSQL, JSON-keys service |
| Migrations, mail templates, clients, ping | none | DDL once per deploy; layout; typed wrappers | |

Where it is hard:

* Every request runs at READ COMMITTED, and decides in Go on rows it read by an
  earlier statement. Two redemptions of a code, two overrides of a pair, two role
  updates, a password change and a reset can interleave between any two statements.
* A code is spent in the transaction of the operation it authorises: the failure
  of one undoes the other while others wait for the row.
* Times are compared across clocks (Go, database) and precisions (`timestamp(0)`
  rounds half a second into the future).
* The mail of a code leaves after its commit in a goroutine detached from the
  request, behind a semaphore shared by three services; the process has one budget
  of time to stop.
* The access token carries a role that may be an hour old.
* A Go map is walked in any order while it is being deleted from.
* All requests share a pool of connections, and may fail at any of their statements:
  cut off by a timeout, or in doubt whether their commit arrived.

What makes each right: a pair has one redeemable code, which works once and
together with its operation; an account's password, address and sessions always
go back to somebody who was entitled to choose them; nobody rises above those who
raise them, and a deployment cannot lose its last super-admin; every mail is
delivered or its loss is reported, and the process ends; the permissions of a role
are exactly those of the roles it inherits from; a client is told what the database
has, a 5xx always has a cause, and no request waits for a connection holding one.

## 2. The modules

```
OneTimeCodes        abstract store          <--- refined by --- ShortCodes  (statements, locks, clocks)
     |                                                             ShortCodesProofs, MCShortCodes
     +-- INSTANCE'd and refined by Accounts (rows, codes, mailboxes) AccountsProofs, MCAccounts
Roles               (role updates, init job)                     RolesProofs, MCRoles
     |
Administration      (both at once: implements either)            AdministrationProofs
     |
Tokens              (sign-in, refresh, middleware)               TokensProofs, MCTokens
RoleInheritance     (ResolveDependants)                          RoleInheritanceProofs, MCRoleInheritance
MailDrain           (detached sends, serve, Drain)               MailDrainProofs, MCMailDrain
Requests            (pool, locks, errors and statuses of all routes) RequestsProofs, MCRequests
     +-- refines OneTimeCodes too
```

### OneTimeCodes and ShortCodes

`OneTimeCodes` says what the store promises: issuing a code replaces the pair's
last one, redeeming takes the pair's only code, once. `ShortCodes` is the table
and its SQL. Every row has the version committed and the one written by the
transaction that holds it (`committed`, `latest`, `writer`); a request is at one
of the statements of `Steps`.

| Action | Code |
|---|---|
| `Issue`, `Begin` | `ShortCodeCreate.Exec` up to `WithinTx`; `BEGIN` fixes `CURRENT_TIMESTAMP` |
| `DiscardScan`, `DiscardRow`, `DiscardDone` | `discardConflicts` or `discardExpired`: snapshot, then each row once it is unlocked, with the WHERE clause evaluated again |
| `CheckPasses`, `CheckRefuses` | `checkConflicts`, with its literal `RowsAffected() == 1` |
| `InsertRow`, `InsertRefused` | the INSERT and the unique index, waiting for transactions whose outcome decides |
| `Consume`, `Select`, `SelectMisses`, `Verify`, `VerifyRefuses` | `ShortCodeConsume.Exec` up to the comparison of hashes |
| `DeleteScan`, `DeleteRow`, `DeleteMisses` | `ShortCodeDelete`'s UPDATE ... RETURNING |
| `WorkSucceeds`, `WorkFails`, `Commit`, `Rollback` | what the caller does in the same transaction, and its end |
| `Abort`, `DeadlockVictim` | lost connections, cancelled contexts, crashes; PostgreSQL's deadlock detector |

Time counts half seconds, so rounding to whole seconds is visible: with a
`Stored` of the nearest second a deletion date can lie one unit ahead of the clock
that wrote it. An UPDATE locks its rows in any order, which covers every plan.
Every caller in `src/` sets `Override`; the other mode is modelled all the same.
`ErrShortCodeInsertNested`, a guard against a programming error, and rows edited
by hand are not.

### Accounts

One action per operation, on the rows, the abstract store and the mailboxes. An
address stands for its mailbox's owner, a password for the person who chose it,
so that "who can do this" is visible: `signedIn` has the (person, account) pairs
a token pair was signed for, and `held`, `holders`, `asked` are history. A
transaction that redeems a code is one step because the store is refined by
`ShortCodes` at its commit and nothing it writes depends on a row it does not
lock or a constraint that does not hold at that commit. What a request looked up
before its last statement is kept in `job`: the address was free
(`AskRegister`, `AskEmailUpdate`), the address had an account
(`AskPasswordReset`), the current password matched (`CompareCurrent`), the init
job found a row or did not (`Bootstrap`). Expired codes and lost mails are codes
nobody redeems, late mails codes redeemed late. The signed pairs are never
removed: nothing in the code revokes a token, and a refresh renews it.

### Roles

`CredentialsUpdateRole` is three statements on two rows, no transaction, no lock:
`SelectTarget`, `SelectActor` (which also decides, since nothing else is read),
`Update`. The init job is `Bootstrap`, `BootInsert` or `BootPassword`, `BootRole`,
and holds its row from the second statement on. `holders` are the accounts with an
unexpired token that passes the route: it is filled by the role of the moment of
signing, and stays when the role changes (`SignIn`, `Expire`; any number of tokens may expire
at once, as a tick of the clock does it). `Roots` are all
those whose address `SUPER_ADMIN_EMAIL` has named in any deployment. The column's
CHECK constraint lists the configured roles, so `ErrUnknownRole` cannot occur for
a row. `Patchers` are the roles with `credentials:role:patch`: in
`permissions.config.yaml` that is `superadmin` alone.

### Tokens

The tokens signed so far, which anybody may show in any combination, and the
requests between two of their calls. `SignIn`, `SignRefreshToken`, `SignAccessToken`
are `TokenCreate.Exec` and `signTokenPair`; `Refresh` and `Reload` are
`TokenRefresh.Exec` up to the new claims, signed by the same `SignAccessToken`; `Admit`
is the middleware, after which the handler acts (`"acting"`) with the claims on its
context; `SignAnon` is `TokenCreateAnon`. `End` is the end of a request, with or without a
result, wherever it is. The signer assigns ids and lifetimes, so they are constants. Roles
change at any moment (`SetRole`), which includes all that `Roles` allows. A request
is over when `REST_TIMEOUT_REQUEST` is: `Tick` does not pass that deadline, since every
call a request makes is made with its context. `login` and `lastHeld` are
history. The comparison of user ids in `TokenRefresh` is implied by that of the
refresh token's id as long as the signer never repeats one: either alone makes
`TokensOfOneLogin` hold across users, only the second within a user.

### Administration

`Roles` leaves open how accounts come to hold a token that passes the route, `Tokens` how
roles change. `Administration` closes both: the variables of the two, `holders` defined as
those with an unexpired access token, or one being signed, whose role grants the route
(`Tokens!Holders`), and the role column shared. A session does one thing at a time.

| Action | Is |
|---|---|
| `TokenStep` | a step of a session of `Tokens`, while it is not in a role update or init job |
| `UpdateRole` | `Tokens!Admit` with a token that passes the route, and `Roles!UpdateRole` for the user of its claims, in one step: the handler reads the claims before it calls the service |
| `RoleStep` | a later statement of an update, of an init job or of a registration, which `Tokens` sees as `SetRole` or not at all |

It is a composition to be proved about, and has no run: `roles_races` and `tokens` check its two
halves. TLC has explored two sessions and two accounts to time 3, with lifetimes and a
deadline of 1: both inductive invariants, `PowerFades` and the components' assumptions hold
in its 7,326,623 states, and two updates are in flight at once in some.

### RoleInheritance

`ResolveDependants` turn by turn: `Visit` is one turn of the inner loop for any
role the round has not visited, `EndRound` the test of the outer loop, `Flatten`
a turn of the second loop. Any configuration of `Names` is an initial state,
circular and dangling ones included. The keys of the two maps are the same in
`NewAuthHandler`, the only caller. A permission is represented by the role that
declares it.

### MailDrain

`Schedule` is `wg.Add(1); go sendMail`, `TakeSlot` the bounded sender,
`Finish` the end of the goroutine, delivered or not. `serve` is `Signal`,
`Stopped` or `ShutdownFails`, `WaitReturns` for each WaitGroup, `Drained` or
`DrainFails`. `Tick` does not pass a timer that is due nor a goroutine that can
run. `Kill` may come at any time. `started`, `slotted` and `pending` record at the signal
which mails were in flight, which of them had a slot, and which requests were still open.

### Requests

Every route, from the middleware to the status, with the data left out: what a request asks
of the pool, the locks and the JSON-keys service, in which order, and what its handler makes
of what comes back. All requests are about one account and one pair of each usage, where
they meet. `result` is the error of the service, `Answer` the handler's map.

| Action | Code |
|---|---|
| `Arrive`, `Admit` | the router; `Auth.Middleware`, decoding, validation |
| `Connect` | `database/sql`: a connection for a statement, or for a transaction as long as it lasts |
| `Read`, `Rank`, `SetRole` | statements outside a transaction: lookups, `TokenCreate`, `TokenRefresh`, the ping of the health check; the three of `CredentialsUpdateRole` |
| `Discard`, `InsertCode` | `ShortCodeInsert` with `Override` |
| `FindCode`, `TakeCode`, `Write` | `ShortCodeConsume`, then the write it authorises |
| `Compare`, `Write` | a password change without a code |
| `Commit`, `CommitUnheard` | the end of `WithinTx`, and a commit whose answer is lost |
| `Call` | the JSON-keys service signs, verifies or reports its status |
| `Fail`, `ProbeFails` | everything that may fail, at any step; what the health check reports instead |

`ErrMap` and `Concealed` are the handlers' maps, `Refusals`, `ReadErrors` and `WriteErrors`
the errors they may be given, one by one. An account that is not there is two of them: the
SELECT's `"no account"` and the UPDATE's `"account gone"`, and no handler maps both but that
of role updates. A `"token error"` is what the verifier or the middleware
says of a token and the handler has no status for. `overtaken` and `committed` are history. Which mail went out is in `MailDrain`, which
tokens in `Tokens`, which password in `Accounts`. The unique index on addresses is seen
through its errors (`"address taken"`): the wait for a transaction that has inserted the same
address is not represented, and that one never waits for the waiter, since a registration
locks nothing else after its insert and an email update writes once.

## 3. The runs

| Run | Instance | What it shows |
|---|---|---|
| `codes_races` | 2 requests, 4 codes, 1 pair, clock to 1 s, no skew | `OneLiveRow`, `RedeemedOnce`, `ConsumedMeansDone`, `RefusedOnlyIfGone`, `OverrideLosesToNewer`, `ExpiredNeverBlocks`, the inductive invariants |
| `codes_store` | 2 requests, 2 codes and 2 more for circles, 2 pairs, clock at 0, skew 0.5 s, fairness | refinement of `OneTimeCodes`; every request returns |
| `codes_audit` | 2 requests, 3 codes | violated: `RedemptionStaysOnRecord` |
| `roles_races` | 2 accounts, 4 roles, 2 requests or init jobs | `OnlyBootstrapElevates`, `SuperAdminRemains`, `BootstrapTakes`, `HierarchyUnlessRaced`, the inductive invariant |
| `roles_hierarchy_raced` | the same | violated: `HierarchyHolds` |
| `tokens` | 1 account, 2 roles (one of them that of anonymous callers), 2 refresh and 2 access tokens, 2 requests, lifetimes of 2 and 1, deadline of 1, clock to 6 | `TokensOfOneLogin`, `RoleChangesLand`, `SessionsEnd`, `HoldersHaveRole`, the inductive invariant |
| `inheritance` | every configuration over 3 names | `ResultIsClosure`, `ErrorIsJustified`, `Terminates` |
| `mail_drain` | 3 requests, 2 services, 2 slots, timeouts 2 < 3 | `NoSilentLoss`, `SendsOutliveSignal`, `DrainedSetIsClosed`, `Stops` |
| `mail_burst` | the same | violated: `StartedSendsFinish` |
| `accounts` | 2 accounts, 3 addresses (1 of the operator's), 3 codes, 2 requests | `PasswordsEarned`, `SessionsEarned`, `AddressesConfirmed`, `MovesFollowLastAsk`, the inductive invariant |
| `accounts_reset` | the same | violated: `ResetsComeFromOwner` |
| `requests` | 3 requests, 2 connections, 8 routes, fairness | `HoldersNeverWait`, `AnswersTruthful`, `ServerErrorsExplained`, `Served`, refinement of `OneTimeCodes`, the inductive invariant |

Bounds. Two requests make every pairwise interleaving of statements, a circle of
waiters, and one that rolls back while the other waits. Four codes of one pair are a code
redeemed, one replaced and two racing to replace it, the least with a circle of
waiters: two overrides, each with a row the other wants, and two rows to want. One row is
then deleted as of a time ahead of the clock, or the later override would not touch it. In
`codes_races` the lifetime of a code is one second (`TTL` = 2) and the clock
reaches it, so codes are replaced, refused and discarded after they expired. `Skew`
bounds how far Go's clocks are off, in half seconds. In `codes_store` it is one and as
long as the lifetime, so a slow Go clock stores a code that has expired for the
database, and a fast one refuses it, while the clock stands still; both a moving and a
skewed clock are 5 million states and more. With all four codes free that run would be too
large to take fairness over, so its `ACTION_CONSTRAINT` `FewArrivals` lets the third and the
fourth code arrive only where they can close a circle, as overrides on an exact clock when
both others are rows of the pair and one is deleted as of later; the first two do anything
they can. Only arrivals are left out, which are not fair: every step fairness is about
stays enabled, so a request that never returns here never returns at all. The run has circles:
without the detector (`DeadlockVictim_Never`, the mutant of `RequestsReturn`) it finds two
overrides, one waiting for a row and one in its INSERT, that wait for each other for ever.
A code selected in time and
refused later by a clock that moved past `ExpiresAt` meanwhile stays outside the
runs; the proofs cover it, as they do every `TTL`, `Skew` and `MaxTime`, and any
number of requests. In `tokens` the two sessions are those of one account, the pairs
that can be confused; a refresh token lives for two ticks so that a refresh can outlast the access token it
presents, and the clock reaches 6, a tick past the last moment at which a session signed
at 0 may act. Pairs of tokens of two accounts and chains of more than one refresh are
covered by the proofs. Two accounts and
three addresses let an account leave an address that the other takes; three codes
let an old one, its replacement and one of another purpose coexist. The four roles
are the configured ones, with their order. Three names have self, mutual and
longer circles, chains and dangling references. In `requests` three requests on two
connections are the least where one waits for the pool while another waits for a row; the
eight routes have every kind of transaction, statement and call there is, and the others
(`resetPassword`, `askReset`, `signIn`, `anon`, `read`) differ from one of these in the errors
they can get alone. Three mails on two slots is the
least with one that waits. The proofs of section 5 do not depend on any of these.

Symmetry: requests and codes are interchangeable in `ShortCodes` and `Accounts`,
accounts in `Accounts`, accounts, requests and token ids in `Tokens`; runs with liveness or refinement properties use none.

Deadlock: checked in the runs of `ShortCodes`, `Roles`, `Tokens` and `Accounts`. `MailDrain`,
`RoleInheritance` and `Requests` end, in `exited`, in `done` or `failed`, and with every
request answered, and say `CHECK_DEADLOCK FALSE`.

### Fairness

* `ShortCodes`: WF of what a request does on its own (a goroutine and a database
  backend are scheduled, and the deadlock detector runs), SF of `Acquire`, because
  PostgreSQL queues those who wait for a row lock or for another transaction. New
  requests and aborts are not fair.
* `MailDrain`: timers fire and goroutines run. Nothing is assumed of requests, whose
  clients may hold them open, nor of arrivals; a send ends because its timeout does.
* `RoleInheritance`: the function runs on.
* `Requests`: WF of what a request does by itself: its goroutine is scheduled, the pool hands a
  freed connection to a waiter, PostgreSQL a freed row. A request takes every step once, so
  none can be overtaken for ever and weak fairness is enough. Nothing is assumed of new
  requests, of faults and timeouts, nor of the JSON-keys service, which may hang for ever.

## 4. Findings

Each is a run in which the model checker finds the violation.

* `codes_audit`. `discardConflict.sql` also matches `deleted_at > CURRENT_TIMESTAMP`.
  `deleted_at` is a `timestamp(0)` and may round half a second into the future, so an
  override right after a redemption turns "key consumed" into "override with newer
  key", with another date: the audit trail `ShortCodeDeleteConsumed` is there for.
* `roles_hierarchy_raced`. The hierarchy of `CredentialsUpdateRole` is checked on
  rows read earlier and the write re-checks nothing: a target that became the actor's
  peer in between is demoted. `HierarchyUnlessRaced` says this is the only way, and
  `SuperAdminRemains` that it never costs the last super-admin.
* `mail_burst`. A mail that waits for a slot at the signal is dropped although
  the three timeouts increase as the README of the repository asks. `QuietStops` has the
  condition that is missing: the mails in flight and the requests open at the signal must be
  no more than `SMTP_MAX_CONCURRENT`. Then every mail that was started ends.
* `accounts_reset`. A reset code mailed to an address outlives the account's move away
  from it: the code no longer proves ownership of the account's email.

Seen while modelling, without a run: `accessToken.go:20-22` and `signTokenPair.go` speak of
revoking a refresh token, and `CONTRIBUTING.md:126` of a refresh that rolls a fresh pair; no
code revokes a token, and a refresh returns the refresh token it was given. So what bounds a
session is `SessionsEnd`, and what bounds a stale role `RoleChangesLand`. The comment in `resolveDependants.go` that
"every remaining mod sits on a cycle" is not true of a role that inherits from a
circle or from an undefined role; both are refused correctly all the same. An insert
without `Override` can be refused by a row that expires between `request.Now` and
`BEGIN`: nothing in `src/` inserts that way, but `20260510140000_short_codes_active_unique.up.sql`
says that "those stale rows never block a fresh insert". `ExpiredNeverBlocks` is what remains of
this: a refused insert met a row that is unexpired by the request's own clock, or one that
it had not seen at its discard.

A password change compares the current password without a lock
(`credentialsUpdatePassword.go:100-114`) and may overwrite a reset that commits in between.

Of the answers: the loser of two overlapping asks for one pair gets
`ErrShortCodeInsertAlreadyExists`, which no handler maps, and is answered 500, where
`pg.shortCodeInsert.go:93-97` speaks of "the ordinary already-exists path"; the loser of
two redemptions gets `ErrShortCodeDeleteNotFound`, answered 500 too.
`ErrShortCodeConsumeExpired` is mapped by `rest.credentialsResetPassword.go` only. Of the
verifier's errors the middleware maps `jws.ErrInvalidSignature` alone
(`rest.auth.go:113-121`), so a token that has expired, is meant for something else or
cannot be read is a 500; `TokenRefresh` maps `jwp.ErrInvalidClaims` too
(`tokenRefresh.go:120-142`), and what cannot be read is a 500 there as well. A role the
configuration does not know is one on purpose (`rest.auth.go:136-147`). A password change
whose SELECT finds no account returns `ErrCredentialsSelectNotFound`
(`credentialsUpdatePassword.go:103-109`), while `rest.credentialsUpdatePassword.go:68-72`
maps the UPDATE's not-found only: a 500 where `openapi.yaml:295` has a 404. Nothing in `src/`
deletes an account; a row removed by hand, under a session that is still valid, is enough. A
registration whose tokens cannot be signed is a 500 with the account in place:
the client has to sign in. The health check's `Ping()` does not take the request's context,
so a probe waits for a connection beyond `REST_TIMEOUT_REQUEST`. All of these are
disjuncts of `ServerErrorsExplained` or of the actions, not violations.

## 5. The proofs

For every value of the constants that meets the named assumption of its module.

| Module | Assumption | Theorems |
|---|---|---|
| `ShortCodesProofs` | `ConstantsAssumption`: non-empty pairs, natural bounds | `TypeCorrect`, `Invariant`, `AtMostOneLiveRow`, `CodesAreOneTime`, `ConsumptionIsAtomic`, `RefusalInvariant`, `Refusals`, `Overrides`, `Expiries`, `Refinement`, `StorePromise`, `WaitInvariant`, `Waits`, `Deadlocks`, `GoesForward` |
| `RolesProofs` | `RolesAssumption`: ranks are naturals, the super-admin's is highest, plain users cannot patch | `TypeCorrect`, `RolesInvariant`, `Elevation`, `SuperAdmins`, `Bootstraps`, `Hierarchy` |
| `RoleInheritanceProofs` | `NamesAssumption`: finitely many names | `TypeCorrect`, `Invariant`, `Closure`, `Errors`, `Upwards`, `TurnsBounded` |
| `MailDrainProofs` | `MailAssumption`: finitely many requests and services, SMTP timeout < shutdown budget | `TypeCorrect`, `Invariant`, `NothingLostSilently`, `SendsEnd`, `Closed`, `QuietStops`, `StopTakesSteps` |
| `TokensProofs` | `TokensAssumption`: positive lifetimes, anonymous tokens cannot patch | `TypeCorrect`, `Invariant`, `Lineage`, `Demotions`, `SessionsAreBounded`, `HoldersEarned` |
| `RequestsProofs` | `RequestsAssumption`: at least one connection, known routes | `TypeCorrect`, `Invariant`, `Connections`, `Answers`, `ServerErrors`, `LastRow`, `Waits`, `Pool`, `GoesForward`, `Refinement` |
| `AccountsProofs` | `AccountsAssumption`: the special values are not addresses | `TypeCorrect`, `Invariant`, `Passwords`, `SignedIn`, `Addresses`, `Moves`, `Refinement`, `OneCode` |
| `AdministrationProofs` | those of `Tokens` and of `Roles` | `TokensImplemented`, `RolesImplemented`, `Administrators`, `DemotedLosePower` |

Each component has one inductive invariant (`ShortCodes` a second one on top of it), checked
by TLC in a passing run, and proves Init, each action, and what follows from it. Three smaller
ones rest on these: `WaitInv` of `ShortCodes`, `QuietInv` of `MailDrain`, `AccountLast` of
`Requests`.

* `ShortCodes!IInv`. Uniqueness of the live row is not inductive: between an
  override's discard and its insert two versions exist. `OneLatestRow` states it of
  the versions to come, and `OneWriterReplaces` of a committed row against a coming one:
  both live only if one transaction wrote both, and then they change together at its
  commit. `Writes` and `Holds` say a transaction about to commit holds the row it is
  about, which makes `RedeemedOnce`: a second redemption finds the row deleted when it
  gets the lock. The refinement needs no more: only commits change the mapped state.
* `ShortCodes!RefusalInv`, for the three action properties about refusals. Each speaks of a
  refusal at one step and of what was read at an earlier one, with commits of others in
  between. What was read is still so unless a commit made the code dead
  (`SelectedSound`), a discard that found nothing expired still blocks nobody by the
  clock it used (`DiscardSound`), and the pair and expiry of a code never change once written
  (`Immutable`), so neither can be invalidated by anything but such a commit.
* `Roles!RolesInv`. That some super-admin exists is not inductive, because an
  update in flight may be about to demote them; that some super-admin is the target of
  no update past its checks is. Nobody can demote a peer, so a request whose target was a
  super-admin never gets past them, and the others were aimed at accounts that were
  not: of those none is the account that stays.
* `RoleInheritance!InheritanceInv`. Every role in `order` comes after what it inherits;
  a set of roles that block each other never leaves the graph, so the error depends
  on the configuration alone; at failure the graph left is such a set. The closure is
  defined without recursion, as the least closed set. `Upwards` follows from
  `Closure` and `Errors`: the roles that have a role of a circle among their ancestors would
  block each other, and a configuration with such a set is refused.
* `MailDrain!MailInv`. The WaitGroups count the mails in flight; a send that had its
  slot at the signal has used up at least the time since. `QuietInv` adds, for `QuietStops`,
  that nobody joins those the signal found (`Crowd`), and that while they fit in the slots no
  mail waits for one when time passes.
* `Accounts!IInv`. `JobsSound` keeps what a request established before its last
  statement, `CodesSound` where every code was mailed, `LiveSound` that a live update
  code has the address last asked for. All are stable since `held`, `holders` and
  `signedIn` only grow.
* `Tokens!TokensInv`. The bounds on what a request acts with are not inductive: they add
  up over requests that no longer exist. `JobSound` says what a request knows from its start
  (`OnTime`, `ReadRole`, `ReadSession`, `ReadToken`), `AccessSound` turns that into a bound on
  the expiry of what it signs, by way of the deadline, and a request that is admitted
  inherits it. `HeldSound` ties the history of roles to the present. `HoldersEarned` is an
  action property and the interface to `Roles`, whose `SignIn` and `Expire` are the only
  ways into and out of `holders`.
* `Requests!RequestsInv`. That a server error is explained needs to know at the moment of
  the refusal that the row changed after it was read: `ReadSound` says that what a request
  has read is what there is, or it is already in `overtaken`. `LockSound` and `HasCode` say
  which row each open transaction has, which makes `Commit` replace or take exactly the
  code its transaction has seen, and with `LiveSound` gives the refinement.
  `CommittedSound` ties history to the step a request is at, for `AnswersTruthful`.
* `Administration`. Each component is implemented by the identity on its own variables, with
  `holders` computed from the tokens. For `Tokens` every statement of `Roles` is a `SetRole` or
  nothing. For `Roles` the crux is that `holders` may only grow by somebody who has the
  role at that moment and shrink by expiry, which is `HoldersHaveRole` (`Gains` in
  `Tokens`), proved of `Tokens` and so of the composition, and that a token which admits an
  update makes its user a holder. The theorems of `Roles` and the bounds of `Tokens` then
  carry over (`Administrators`, `DemotedLosePower`). `PowerFades` needs both halves: the role
  in the claims was held lately (`Tokens`), and the actor of the update is the user of those
  claims, as long as it is in flight (`Authorised`, inductive with the invariant of `Tokens`).
* The stores. `Accounts` (`StoreStep`), `Requests` and `ShortCodes` all implement
  `OneTimeCodes`, so its promise `OneLiveCode` holds of each: `OneCode`, `StorePromise`. What
  `Accounts` does to the store in one step is what `ShortCodes` does at a commit.

### The safety halves of the liveness properties

The four liveness properties (`RequestsReturn`, `Served`, `Terminates`, `Stops`) are only
model-checked: ENABLED and the rule of fairness are out of the prover's reach. What they rest
on apart from fairness is proved, for every size of the instance.

* `RequestsReturn`. A request waits for an open request of its own usage and target only
  (`Waits`, which needs `WaitInv`: what is still to lock is of the pair); if all those open on
  a target wait they are a circle, one of which PostgreSQL aborts (`Deadlocks`); and a
  request never returns to a statement or to a row (`GoesForward`). What is left to fairness
  is that whoever can move does.
* `Served`. The account's row is the last thing any service asks for (`LastRow`), so waits
  have a length of two at most (`Waits`), a holder of a connection that waits for nothing
  exists as long as any is out (`Pool`), and a request goes through each step once
  (`GoesForward`).
* `Terminates`. `TurnsLeft` is bounded before startup begins and decreases with every turn
  (`TurnsBounded`); a turn is possible until the function returns, which TLC checks.
* `Stops`. Nothing is let in after the signal: `MovesLeft`, bounded by the mails in flight and
  the requests open at the signal (`QuietInv`), decreases with every step of the process, of a
  mail, of a request or of the clock (`StopTakesSteps`). Again TLC checks that there is
  one to take.

`WaitInv`, `WaitsStayLocal`, `SomebodyMoves`, `ForwardOnly`, `WaitsAreShort`, `PoolMoves`, `AccountLast`,
`NoCircles`, `TurnsLeft`, `QuietInv` and `StopIsBounded` are stated in their modules and were checked with TLC
on the instances of the runs (`ShortCodes` also with two targets, half a million states)
before they were proved. They are not among the properties of the runs, which keep to those
that say by themselves what could go wrong.

### Assumptions

The proofs use no assumption but the named ones of the table above, each of which TLC
evaluates in the runs of its module. `NamesAssumption` is that a configuration file is finite.

## 6. Not modelled

The migrations job runs SQL files once before a deploy, with nothing else running; the
constraints they leave are part of the modules. Mail templates are layout, the clients typed
wrappers. `GET /session` ends in the middleware, with the `Refusals` of any other guarded
route, `/ping` calls nothing, nor does the health check's SMTP probe touch
anything others use. A pool without a limit (`POSTGRES_MAX_OPEN_CONNS` of 0 or less) makes
nobody wait. What reads return, bodies, pagination and logging are left out.
A hash verifies against the password it was made from (`Accounts!Verifies`) and random
codes are not guessed. The signing service is seen through its result. In `Roles`,
`Accounts` and `Requests` tokens appear only as far as they need them. In
`ResolveDependants` a role's permissions are a set: order and repetition in the lists do not
matter to the middleware, which only asks whether one is in them.

## 7. Plan

Modelled and proved first, because the rest relies on it: the code store, role
changes, inheritance, delivery and shutdown, accounts, sessions; then the requests that
run on one pool and what they answer; then roles and tokens put together, and the part of the
liveness properties that is safety. What is left, in this order:

1. `Accounts` with the expiry of codes, and with the refinement of its store to
   `ShortCodes` stated as one composition.
2. `RoleInheritance` with larger configurations.
