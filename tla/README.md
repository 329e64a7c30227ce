# A verification project for tuma254-api

TLA+ specifications of the Go API in this repository, the TLC configurations
that check them on small instances, and theorems about them with proofs for
TLAPS.  Everything is translated from the code under `src/`; `PROJECT.json`
names, for each definition, the lines it stands for.

The API keeps all of its lasting state in PostgreSQL and serves each HTTP
request in a goroutine of its own.  There is no queue, no worker and no lock in
Go on any path that writes, except for the login limiter.  What can go wrong is
therefore what the statements of concurrent requests do to each other's rows,
what is left when one of several statements fails, and what happens around the
boundaries of times and counts.  The project's README says "Database
constraints protect invariants that must not depend only on application code":
the models are exact about which statement takes which lock, which index
refuses what, and when a transaction's writes become visible.

## 1. Inventory

| Component | State | Operations | Modelled by |
|---|---|---|---|
| Phone verification (`internal/identity`: `Register`, `ResendPhoneVerification`, `VerifyPhone`, `IssueOTP`, `VerifyOTP`) | rows of `users`, `otp_challenges` | register, resend, verify | `PhoneVerification`, `OtpContract` |
| Refresh sessions (`Login`, `Refresh`, `Logout`, `RotateSession`) | rows of `refresh_sessions` | open, rotate, revoke | `Sessions`, `SessionLedger` |
| Login limiter (`MemoryLoginLimiter`) | a map in memory, key to count and start of window | `Allow`, `RecordFailure`, `Reset`, as `Login` calls them | `LoginLimiter` |
| Riders (`internal/riders`) | rows of `rider_profiles`, `rider_vehicles`, `user_roles` | create, submit, availability, add and activate vehicles, approve, reject, suspend | `Riders`, `RiderRegister` |
| Schema migrations (`internal/platform/migrations`, `cmd/migrate`) | `schema_migrations`, an advisory lock | `Up` | `Migrations` |
| Access tokens (`issueAccessResponse`, `ParseAccess`, `RequireAuth`, `GET /me`) | none that the server keeps: a signed expiry | sign, let in, serve | `Access` over `SessionLedger` |
| User profiles (`internal/users`) | rows of `user_profiles` | get, upsert | who is let in: `Access` |
| Registration to session (`Register` ... `Login` as a person uses them) | what a handler has committed when it fails | all of `auth` | `Onboarding` over `OtpContract` |
| SMS (`helpers.go`, `sms.go`, `cmd/sms-sink`) | the last message of the sink | send, store, read | `Onboarding` |
| API process (`cmd/api`, `config`, `routes.go`) | listener, signal channel, pool | load, serve, shut down | `ApiProcess` |
| Development engine (`cmd/dev`) | two `go run` and their children | prepare, start, supervise, stop | `DevEngine` over `ApiProcess` |
| Deliveries (`internal/deliveries`) | a schema | none implemented | nothing to model |
| JSON, request ids, logging, `/health`, `/ready` | none | | not modelled |

How they interact.  Handlers decode, call one service operation and map its
error to a status.  Services decide; repositories hold SQL, transactions and
locks.  `Register` commits the user, then calls `IssueOTP` in another
transaction, then sends the SMS; `VerifyPhone` commits `VerifyOTP`, then stores
a session; `Login` asks the limiter, compares the password, tells the limiter,
then stores a session; `Approve` of a rider updates the profile, then assigns
the role through the identity repository in another transaction.  `AddVehicle`
inserts the vehicle, then activates it in another transaction.  Protected
routes trust the signature and expiry of the access token and, but for
`GET /me`, ask the database nothing about the account.  The engine starts the
API with the sink as its SMS provider and stops both.

What is hard, component by component (the list with lines is under `hazards`):

* **Phone verification.** `IssueOTP` locks the user and then challenges,
  `VerifyOTP` a challenge and then the user: they deadlock and rely on the
  database to abort one.  `created_at` is the time of `BEGIN`, not of the
  insertion after the wait for the lock.  Guesses are counted by
  read-compare-write.  Expiry and cooldown use the API host's clock, the rest
  the database's.  Correct means: at most one live code, limits on resends and
  guesses that no interleaving beats, a code redeemed once and in time,
  settled challenges frozen, everyone answered.
* **Sessions.** Concurrent refreshes and logouts of one token; a rotation that
  fails in its middle; answers lost after the commit.  Correct means: a token
  is exchanged at most once, a login has one live token, none is lost.
* **Limiter.** Check and count are separate calls with a slow password
  comparison between them; windows end while logins are in flight.  Correct
  means: a bound on failures that accounts for the concurrency, and keys that
  open again.
* **Riders.** Every operation reads the profile and later writes all of it
  back.  The swap of active vehicles takes two row locks and meets a partial
  unique index.  Correct means: one active vehicle, no application without
  one, nobody on duty who is not approved, roles only after approvals, and no
  wait for a row that does not end; the transitions of status and availability
  are *not* kept (section 5).
* **Access tokens.** Nobody can take one back; deactivation and logout race
  sign-ins and refreshes that have read the account or the session already.
  Correct means: both reach the protected routes within a bounded time.
* **Registration to session.** Three commits and an SMS, any of which may be
  the last that happens; texts late, lost or overtaken.  Correct means: no
  committed step leaves an account that nothing can open.
* **API process and engine.** Signals before, during and after the installation
  of their handler; a shutdown deadline shorter than requests may take; `go
  run` between the engine and its children.  Correct means: a shutdown tears
  no transaction, Ctrl+C ends everything, a configuration accepted by the
  engine is accepted by the API.
* **Migrations.** An advisory lock that belongs to one connection of a pool, a
  test outside the transaction it guards, crashes, hosts that hold different
  releases.  Correct means: the record is true, success means up to date,
  files are applied in order.

## 2. The models

**PhoneVerification.**  A request is an element of `Requests` and runs once
through the stages of `pc`.  `otp` maps a challenge, named by the request that
stored it, to its row; `userLock` and `rowLock` are PostgreSQL's row locks.
Each SQL statement of `IssueOTP` and `VerifyOTP` that can wait, or whose result
is used after others may have run, is an action; statements under a lock that
excludes everyone else share the action of the commit.  After a lock wait the
row is judged again (`SkipSettled`), as PostgreSQL does under READ COMMITTED.
`txNow` is `now()` of a transaction, the time of its `BEGIN`; the `BEGIN` of
`VerifyOTP` is part of the arrival (`VerifyPhone`), since nothing before it
touches what is shared, and its `SELECT` comes any time later.  `Skew` is the distance of the API host's
clock from the database's.  A submitted code is right or wrong by choice.
`Fail` is any failing statement or a client that goes away; `AbortDeadlock` the
deadlock detector.  `guessed` and `redeemed` record, beside the rows, which
request was told what.

**Sessions** and **SessionLedger.**  Tokens are named by the request that
stored them.  `RotateSession` is split into `BeginRotation`, `LockToken` (the
`UPDATE` with its `WHERE`, which waits for the row and judges it after the
wait), `LoadUser` and `Rotate` (insertion and commit).  Clients know the tokens
of answers that arrived and may send one any number of times.  `Deactivate` is
an operator clearing `is_active`.  `SessionLedger` is what tokens promise with
no statements, locks or failures: open, rotate, close.  `Sessions` implements
it with `live <- sessions \ revoked`, `spent <- revoked`.

**LoginLimiter.**  `failures` and `age` are the map; the age of a window stops
at its length, beyond which only "over" matters.  Workers are logins in flight;
each call of the limiter is an action, because its mutex is held only for one
call.

**Riders.**  Workers serve requests one after another for ever.  A request
that is refused after its first read leaves nothing, so the arrival actions
carry the guards; what it will write is kept in `write`, as read.  The
transaction of `SetActiveVehicle` is split into the snapshot of its first
`UPDATE` (`FindActive`), the row locks and the test again (`LockOld`), the row of
the new vehicle (`LockVehicle`), the unique index, which waits for a
transaction that is about to change the rider's active vehicle
(`ActivateVehicle`, `RefuseSecondActive`), and the commit.  `everApproved` is
history.

**RiderRegister** is what the riders component promises with no statements,
locks or failures.  Since a row may be overwritten by a request that has read
an older one, its guards say only what survives that: no decision before an
application, no application without a vehicle, duty, suspension and role only
after an approval - and `Report` may undo a suspension, the finding of section
5.  The active vehicle of a rider is exchanged in one step.  `Riders` implements
it (`ImplementsRegister`) with `vehicle <- [r |-> ActiveVehicles(r)]` and
`approved <- everApproved`; the two `UPDATE`s and the locks of
`SetActiveVehicle` are one step, at the commit.

Who waits for whom is said once in each module that waits (`WaitsFor`), and
`WaitsEnd` states that this comes to an end in the system's own steps: the
request waited for, or one it waits for in turn, can go on or is in a deadlock
of two.  It is the safety half of `EveryRequestAnswered`; the liveness half is
fairness.

**Migrations.**  A runner is a host on which `cmd/migrate` is run again and
again; a run has a checkout (`files`), a progress (`at`) and a stage.  A
transaction changes nothing others see before `Commit`, so it needs no state
beyond its stage.  `Record` waits for an uncommitted row of the same version.
`LoseLock`: the idle connection that holds the lock dies, the pool replaces it,
the run goes on.  `CommitUnanswered`: the commit happened, the run fails.
`executed` (history) lists what was executed and committed for each version.

**OtpContract** is what one-time codes promise with no statements, locks,
clocks or failures: a user has one code that opens the account or none; a new
one replaces it; guesses, age and use end it; a phone is verified by redeeming
it.  `PhoneVerification` implements it (`ImplementsContract`): the pending code
is the challenge that is live in the committed rows, and a redemption happens
at the commit of `VerifyOTP`.

**Access** composes `SessionLedger` (`Ledger!Open`, `Ledger!Rotate`,
`Ledger!Close` are conjuncts of its actions) with accounts, access tokens and
protected calls.  Between reading the account (`CheckAccount`, `LoadUser`) and
answering with tokens (`Respond`) a request takes its time; `http.Server`'s
`WriteTimeout` is the only thing that bounds it.  `VerifyOTP` sets `is_active`
again, as the code does.  `lastActive` and `endedAt` are history.
`LogoutInVain` is every logout that revokes nothing, a failed statement among
them: the handler answers 204 to all of them.

**Onboarding** composes `OtpContract` with the handlers of `auth` seen from one
person: `Contract!Issue`, `Contract!Redeem`, `Contract!Miss` and
`Contract!Lapse` are conjuncts of its actions.  A handler's steps commit one by
one, and `HandlerFails` ends it between any two: a refused or failed statement,
`Send`'s ten seconds, a lost answer, a crash.  A message stays in `posts` after
its sender has given up, so it may arrive late and behind a later one; the sink
keeps one message for everybody.  `VerifyPhone` takes any right code, read or
guessed, as `VerifyOTP` does; that the person submits the code of the text is
not a guard but part of the fairness.

**ApiProcess** is `main()` of the API, the goroutine of `ListenAndServe`, the
signal channel of capacity one, and the connections, whose requests are in or
out of a transaction.  `Load` and `Builds` are `config.Load` and
`buildSMSSender` over what their tests tell apart.  It has no `Next`:
**DevEngine** composes it with the engine, the two wrappers and the sink, and
decides who signals whom.  How `go run` treats signals is external: it ends
when interrupted while it builds, ignores the signal while its child runs, and
leaves the child behind when it is killed.

An `MC` module, where a run needs one, holds the definitions its configurations need:
symmetry, checkouts.

## 3. What the runs check

| Run | Instance | Distinct states | Shows |
|---|---|---|---|
| `PhoneVerification` | 4 requests, 1 user, 2 resends, 2 guesses, time 0..2 | 1 million | `AtMostOneLive`, `WindowLimit`, `GuessBudget`, `OneRedemption`, `WaitsEnd`, `SettledFrozen`, `FirstVerificationStands`, `CooldownHeld` |
| `PhoneVerificationLive` | 3 requests, API clock ahead by 1, time 0..1, fair | 55 thousand | `VerifiedInTime`, `EveryRequestAnswered`, `ImplementsContract` |
| `Sessions` | 3 requests, time 0..2, fair | 33 thousand | `NoTokenLost`, `RotationConsumesLive`, `SessionsEndForGood`, `ImplementsLedger`, `EveryRequestAnswered` |
| `Access` | 1 user, 4 requests, lifetime 1, write timeout 2, time 0..3 | 2.4 million | `DeactivationBites`, `LogoutBites` |
| `Onboarding` | 1 user, 3 codes, 2 guesses, 4 faults, fair | 9 thousand | `RegisteredGetsIn` |
| `DevEngine` | all environments, 2 connections, fair | 242 thousand | `AnsweredIfDrained`, `NoTransactionTorn`, `ApiConfigured`, `CtrlCStops` |
| `LoginLimiter` | 2 accounts, 1 address, 2 logins in flight, fair | 86 thousand | `FailuresBounded`, `KeyReopens` |
| `Riders` | 1 rider, 2 vehicles, 2 requests in flight, all operations, fair | 41 thousand | `WaitsEnd`, `VehicleBehindApplication`, `ImplementsRegister`, `EveryRequestAnswered` |
| `Migrations` | 3 hosts, 3 versions, 4 checkouts | 423 thousand | `RecordTrue`, `UpToDate`, `CheckHolds`, `AppliedInOrder` |
| `SessionsLogout`, `RidersAvailability`, `RidersSuspension` | smallest that fail | | refuted, section 5 |

Every component with a proof has a type invariant; but for `Onboarding`, whose
types are proved only, a run checks it.  For every
property of every passing run `PROJECT.json` names a variant of one definition
(kept in the module, marked "Faulty") with which TLC refutes it: a lock or a
rollback that is missing, a bound that is off by one, a test that is stale.

*Bounds.*  Constants of the code (a lifetime of 10 minutes, a cooldown of 60 s,
5 resends, 5 guesses) are small numbers in the instances; the code compares
and counts, so what matters is that every test comes out both ways and at
equality.  One user suffices for codes and sessions because no statement
touches two users' rows, and no lock of one is taken for the other; keys of the
limiter are independent but for the shared address, which is there.  Four
requests let one issue, one be issued concurrently, and two judge the result;
in `Access` they sign in, refresh, log out and call, and a write timeout of 2
lets an account be deactivated in one tick and a token be signed in the next;
three hosts let one hold the lock, one have lost it and one wait.  `MaxTime`
only stops the clock of the model: a run past the last expiry and the last
window adds no new comparison.  Riders was also run with three requests and
three vehicles, and with two riders (without liveness).
`Riders` does not check deadlock: a suspended rider whose every operation is
refused is an end of the system.  Where a finite number of requests ends, the
modules have a step `Finished` that stutters, so there a deadlock is one.  In `Onboarding` three codes give
one pending, one in transit and one read; four faults let, say, a late message,
an expiry, a lost answer and a lost rotation happen to one person; others'
messages may overwrite the sink at any time.  In `DevEngine` one connection in and one out of a
transaction are the cases that shutdown tells apart; the engine ends, so its
deadlocks are not errors.

*Fairness.*  A goroutine that can go on does (weak fairness of its steps): the
Go scheduler and the database promise that.  Failures are never among the steps
fairness counts on: `Fail` of every module and `LogoutFails` stand beside the
handler's steps, so that a request blocked for ever is not saved by a database
that must fail at last.  In `Riders`, where requests keep
coming, a waiter for a row lock needs strong fairness: PostgreSQL queues waiters
for a row, so later requests do not pass an earlier one for ever.  The deadlock
detector runs (weak fairness of `AbortDeadlock`).  In `LoginLimiter` time
passes.  In `Onboarding` handlers and sink are weakly fair; the person, while
locked out, reads what has come before asking for another code, and tries
resend, the code of the text last read (no guess is counted on) and login again
and again (strong fairness, since a request in flight disables the others), not
always too soon for another code.  Faults are
counted: the property says that one gets in once they cease, however many have
happened.  In `DevEngine` the two `main()`s go on, Shutdown's deadline passes
and the database ends transactions; docker, clients, handlers outside
transactions, the person at the keyboard and the server's goroutine, which need
not fail, owe nothing.  Nothing is assumed of arrivals, failures, operators or, elsewhere, the
clock.

## 4. What is proved

`tlapm` checks every proof; the theorems hold for every number of users,
requests, riders, vehicles, hosts and versions, every policy, skew and bound of
time, from the named `ASSUME`s (a nobody that is not a request, lifetimes and
limits that are positive, finite sets of requests where they are counted).
Each proof gives an inductive invariant `IInv`, shows `Init => IInv` and
`IInv /\ [Next]_vars => IInv'` action by action, and derives the properties.

* `PhoneVerificationProofs`: `IInv` says who may hold which lock
  (`LocksOwned`), on which rows a request works (`RowsKnown`), and that what a
  transaction has tested under its lock still holds: `JudgedLive` for
  `VerifyOTP`, `IssueReady` for `IssueOTP`.  `AtMostOneLive`, say, is not
  inductive alone, because an insertion is safe only if the live rows were
  locked and revoked by the same transaction.  Proved: `TypeOK`,
  `AtMostOneLive`, `OneRedemption`, `GuessBudget`, `WindowLimit`,
  `VerifiedInTime`, `SettledFrozen`, `FirstVerificationStands`,
  `CooldownHeld`.  `WindowLimit` shows that creation times that run behind the
  insertions do no harm: a count under the user's lock sees every challenge of
  the interval that ends at its own creation time or later.
  `WaitsEnd` follows from `LocksOfOneUser` (a transaction locks rows of its own
  user only) and `AtMostOneLive`: a holder of the user's row can wait for no
  row but the one live challenge, a holder of that challenge for none but the
  user's row, so the two of `IssueOTP` and `VerifyOTP` are the only deadlock
  there is, however many requests queue behind them.  `ImplementsContract`: the
  commits of `IssueOTP` and `VerifyOTP` are steps of `OtpContract`, all else
  stutters.
* `SessionsProofs`: `IInv` says that a rotation past its `UPDATE` holds its
  token and the token is still live.  Proved: all invariants;
  `RotationConsumesLive`; `SessionsEndForGood`, which a rotation could break
  only by replacing a dead token; `LocksHeld`, by which a request that waits for
  a row waits for a rotation that waits for nobody, so nothing deadlocks; and
  `ImplementsLedger`, by mapping each action to a step of the ledger or a
  stutter.
* `LoginLimiterProofs`: `FailuresBounded` needs `Balanced`: the failures that
  count plus the logins let in and not yet counted stay under the bound.
  `ShutWindowRunsOut` is the safety half of `KeyReopens`: as long as a key is
  shut no call starts its window anew, and each tick ages it.
* `RidersProofs`: `OneActiveVehicle` from the index (`CommitsAlone`: of one
  rider at most one transaction is past it); `OnDutyApproved` because every
  write is a pair that was legal when read (`WritesJustified`).  `WaitsEnd` needs
  `LocksHeld`: a row is locked by a transaction that has not ended, and is one
  it deactivates or activates.  With one active vehicle per rider, whoever holds
  a row that another waits for is about to commit, waits for such a one, or is
  in a deadlock of two.  `ImplementsRegister` needs `WritesFounded`: what a
  request carries in `write` was founded on a fact that stays true whatever
  others write meanwhile - a profile once submitted never goes back to draft, an
  approval remains one that was given.
* `MigrationsProofs`: `Claimed` (the primary key), `Passed` (what a run has
  left behind is in the database), `Exclusive` (the lock while no run has lost
  it).  `RecordTrue` does not use the lock at all: the transaction and the
  primary key carry it; `CheckHolds` is what the lock adds, `OneRunInside` how.
  `WaitsEnd`: the wait for the lock and the wait for the primary key form no
  cycle, even between runs that have lost their locks.
* `AccessProofs`: a request that has read an active account arrived when, or
  before, the account was active last, and answers before `begun +
  WriteTimeout`, hence the bound on its token (`TimesKnown`).  For a logout:
  every access token of a session that ended was signed before the end
  (`EndsKnown`), since of its refresh tokens only one is live (`LineagesKnown`).
* `OnboardingProofs`: `InByVerification`, from what each stage of a handler knows
  of its user (`HandlersRegistered`, `SessionsVerified`): a request that was cut
  off between two commits and tried again in any of the three ways leaves no
  session without a verified phone, no code and no verification without a
  committed user.  It does not say that a text was read: a right guess opens
  the account too, and `GuessesLeft` and `GuessBudget` bound the guesses.
* `DevEngineProofs`: `ShutdownInv` (once Shutdown drains, the listener is
  closed; nobody is cut off before the end) and `StartInv` (the API is started
  once, after the engine has accepted the environment), for any number of
  connections; `Completed` says that an accepted environment with the sink's
  webhook is accepted.  `EverybodyTold` is the safety half of `CtrlCStops`: after
  Ctrl+C, at whatever moment, nothing builds or is started any more, and each
  `main()` has ended, is ending or has the signal in its channel; what is left
  to fairness is that a `main()` that can go on does.

The three detailed modules implement the abstract specifications
(`ContractImplemented`, `LedgerImplemented`, `RegisterImplemented`).  `Onboarding`
and `Access` take steps of `OtpContract` and `SessionLedger` as parts of their own
actions, so they keep them by construction; that the code does is what those
theorems show.  And each says enough by itself: `OtpContract` bounds the guesses
at a code that still works (`ContractBoundsGuesses`), `SessionLedger` leaves one
live token per login (`LedgerKeepsOneLive`), `RiderRegister` keeps duty, roles,
applications and vehicles in order (`RegisterKeepsOrder`).

Only model-checked: the liveness properties (`EveryRequestAnswered` three
times, `KeyReopens`, `RegisteredGetsIn`, `CtrlCStops`), which need fairness and
`ENABLED`.  Proved, and implied by properties the runs check:
`OneSuccessor` and `OneLivePerLogin` (by `RotationConsumesLive` and the ledger),
`OneActiveVehicle`, `OnDutyApproved` and `RoleEarned` (by the register).
Proved and checked with TLC on the instances of section 3 beside the runs:
`OneRunInside` and `WaitsEnd` of `Migrations`, `InByVerification`,
`ShutWindowRunsOut` and `EverybodyTold`.

What some properties do not say.  `AnsweredIfDrained` is about a `Shutdown` that
returned nil: when it gives up, or `os.Exit` runs, or a signal comes before
`signal.Notify`, requests are cut off, and only `NoTransactionTorn` (for a
`main()` that returns) limits that.  `CtrlCStops` is about Ctrl+C, not about a
SIGTERM to the engine or the end of one child, after which the other program
may live on.  `LogoutBites` is about a logout that revoked a live token; one with
a token already rotated ends nothing, in the code and in the model.

## 5. Findings

* `SessionsLogout`: `Handler.Logout` (`handlers/auth.go:103`) drops the error of
  the service and answers 204; the token of an answered logout may be live.
  The API tests (`api-tests/auth/logged-out-refresh-rejected.bru:24`) expect it
  to be rejected.
* `RidersAvailability`: two concurrent `SetAvailability` of one rider, each
  legal for what it read, move the row from offline to busy, which
  `TestAvailabilityTransitions` lists as illegal.
* `RidersSuspension`: `SetAvailability` writes back the status it read and so
  undoes a suspension committed in between (`riders/services/service.go:89`).
  No route in `riders/routes.go` exposes `Approve`, `Reject` or `Suspend` yet:
  they are operations of the service, and the model calls them as such.

Not a run: `runner_integration_test.go:50` expects 5 applied migrations while
`migrations/` holds 7.  The test needs a database and is skipped without one.

## 6. What is not modelled, and why

Answers are kept as far as a property or a person tells them apart: in
`Access` and `Sessions` several refusals share a value, `Riders` keeps none.
Formats (phone numbers, e-mails, names, plates), password hashing, JWT
signatures, JSON, logging and the SMS text: no property is about them.
Migrations' SQL, rider locations and deliveries: no code with behaviour.  READ
COMMITTED is modelled as PostgreSQL documents it for the statements used, not
in general.  A process crash of the API is covered by `Fail` (rollback, no
answer) for the database and empties the limiter's map, which only loosens it.

Listed as hazards without a property: the limiter's map grows (memory, no
state a property can tell apart), and a rider suspended during a change of
vehicles may complete it (no document forbids it).  The roles in an access
token are read by no route, so their age is not modelled.  A code issued
before an operator deactivates an account, and redeemed after, activates it
again (`otp.go:99`); `Access` has this step, and no document says whether it is
meant.  Profiles are one column and one statement.  With `SMS_PROVIDER=log`
codes reach nobody, so `Onboarding` is about the webhook.

## 7. Plan

1. `PhoneVerification`, `Sessions`, `LoginLimiter`, `Riders`, `Migrations`,
   `SessionLedger`, `OtpContract`, `RiderRegister`, `Access`, `Onboarding`,
   `ApiProcess`, `DevEngine` with runs and proofs: done.
2. Profiles, if the service grows operations that relate two statements;
   deliveries, when the schema gets a service.
