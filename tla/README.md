# Verification of central-performance-ecommerce

TLA+ models of this program from its core outwards: the parts in which several
actors write the same rows of one database (the durable history backfill, the
synchronisation runs, the connections of Mercado Livre and Amazon with their
tokens, the order table, the sessions, the automatic cycle), the pages that ask
and are answered out of order, and the figures the dashboards compute from what
was stored. TLC checks them on small instances; TLAPS proves every safety
property that a passing run checks, for every value of the constants.

Contents: 1 inventory, 2 plan, 3 modules and code, 4 runs, 5 bounds,
6 fairness, 7 proofs, 8 disagreements between the code and its words,
9 what is not modelled.

Paths below are relative to `src/backend/src/integrations/` unless they begin
with `src/`.

## 1. Inventory

A NestJS backend (one or more instances) over PostgreSQL, and a Next.js
frontend that shows and triggers. No queue and no shared memory: instances
meet only in the database, through conditional updates, unique indexes and
session advisory locks, and at the providers (Mercado Livre, Amazon SP-API).
Every `await` is a point where the others may act.

### Durable backfill (`marketplace-sync/`)

* State: `marketplace_backfill_jobs` (status, chunk counter, attempts,
  `next_attempt_at`, `pause_requested`, `lease_owner`, `lease_expires_at`,
  `version`); per instance a `ticking` flag and the tasks of the tick.
* Operations: start, pause and resume a job (controller); tick of the worker
  (count the running jobs, claim up to the ceiling, process each claimed job
  by one chunk, commit by version and lease owner).
* Interactions: a chunk is a synchronisation run of the account; the window
  comes from the coverage of the runs; the button and the automatic cycle
  synchronise the same account.
* Hard: instances that die with a claimed job; chunks slower than their
  lease; clicks during a chunk; retries mixed with contention that must not
  count; two separate statements for counting and claiming.
* Correct when: a commit never overwrites what it has not seen; a pause is not
  lost; one live job per account and never an old one; the retry budget is
  exact; started jobs stop; what a job counts as done is covered.

### Synchronisation runs (`marketplace-orders/`, `mercado-livre-orders/`, `amazon-orders/`)

* State: `sync_runs` (status, window, dates), with a unique index on the
  RUNNING row of an account; `last_successful_sync_at` of the account.
* Operations: plan a window (incremental, chunk, custom period on Amazon),
  begin the run, fetch and persist, finalise as SUCCESS or FAILED, mark the
  account, recover stale RUNNING rows.
* Interactions: what is SUCCESS is the coverage from which later windows, the
  backfill and the dashboards are computed.
* Hard: windows computed before the row exists; recovery of a row whose call is
  only slow; statements that fail after the success; crashes; finalisations
  that look at no status.
* Correct when: SUCCESS proves the data is there and stays; no hole opens; a
  RUNNING row, which keeps everything else out, ends.

### Coverage of periods (`marketplace-orders/coverage-interval.util.ts`, `marketplace-analytics/`)

* Pure: merge the windows, ask whether a period is covered, decide complete,
  partial or unknown; implemented once per dashboard.
* Hard: windows that touch, contain each other, or leave a hole of an instant.
* Correct when: complete means that no instant is missing, for every account
  included, and both implementations agree.

### Mercado Livre connection (`mercado-livre-oauth/`, `marketplace-accounts/`, `shared/advisory-lock.service.ts`)

* State: the row of `marketplace_accounts` (status, tokens, `token_version`,
  failure code, retry date), `oauth_authorization_requests`, the advisory lock
  of the account, a circuit per instance.
* Operations: start a connection, callback (claim by state, exchange, apply in
  a transaction), ensure a valid token, recover, renewal and clean-up by the
  job of every five minutes; `rename` of an account.
* Interactions: every synchronisation asks for a token; the provider rotates a
  refresh token at each use.
* Hard: renewals and callbacks of several instances, lost answers, broken lock
  connections, attempts given up while their callback is still alive, entities
  saved long after they were read.
* Correct when: a working connection is never ended by us, tokens never go
  back, an attempt and its account change together, attempts end, tokens are
  renewed in time.

### Amazon connection and tokens (`amazon-sp-api/`, `amazon-connection/`)

* State: the same account row and lock; one access token, one refresh token
  that is not rotated, `token_version`.
* Operations: provision credentials (no lock), verify, ensure a valid token,
  renew once after a 401.
* Hard: an operator who provisions while a renewal is under way; two calls that
  were refused the same token; lock connections that break.
* Correct when: the access token comes from the stored refresh token, an
  account expires only on proof, and a token is renewed once for all.

### Order store (`marketplace-orders/marketplace-orders-persistence.service.ts`)

* State: orders with their items; transactions of several synchronisations.
* Operations: `persistOrders`: per order a guarded upsert, then its items.
* Hard: older events that arrive last, events of the same date, rows locked by
  the other transaction in the opposite order, statements that fail half-way.
* Correct when: a stored order never goes back, its items are of the same
  event, the counters count each order once, and every transaction ends.

### Fetches, clients and mappers (`*-orders-sync.service.ts`, `*.client.ts`, `amazon-order.mapper.ts`)

* State of a fetch: page, retries, renewals, what was received; of the
  classification of logistics: lookups left, answers by shipment.
* Hard: retries and one renewal within a page, safety caps, a provider that
  answers anything, shipments shared by orders, amounts that do not divide.
* Correct when: "whole" has every order, transient failures are told from
  final ones, no order is called Full on another's answer, money is exact.

### Sessions (`src/backend/src/auth/`, `src/frontend/`)

* State: `user_sessions`, `users.active`, the cookies of a browser, its tabs.
* Operations: login, refresh (three statements without a transaction), logout,
  me; the guard of the pages.
* Correct when: a rotated session is dead before its successor exists, a
  disabled user is granted nothing, and a page never checks for ever.

### Automatic cycle and renewal job (`marketplace-sync/marketplace-auto-sync.service.ts`, `mercado-livre-oauth/mercado-livre-token-renewal.job.ts`)

* State: a running flag per instance, the advisory lock of the cycle, RUNNING
  rows; the batch of accounts due.
* Correct when: one cycle at a time, a failing account or a crashed instance
  leaves nobody out, and every account that can be renewed is.

### Pages (`src/frontend/src/app/`)

* Dashboard: a slot per kind of request, numbered requests, the reload after a
  synchronisation. Synchronisations: one panel per account that polls while its
  job is active; the button for all accounts.
* Hard: answers in any order, lost, or for a selection the user has left.
* Correct when: a late answer never replaces a newer one, every selection and
  panel ends up right.

### Periods and figures (`marketplace-orders/period.util.ts`, `marketplace-analytics/`, `mercado-livre-orders-kpi.service.ts`, `src/frontend/src/lib/date-range.ts`)

* State: none that outlives a request; an answer is put together from many
  statements, outside a transaction.
* Hard: ends of days and months in another time zone; midnight between the page
  and the server; orders written between two statements; the same figure
  computed in five places.
* Correct when: a period and its comparison tile whole days; parts of one
  answer add up when nothing was written meanwhile; every point of a series is
  the day it is labelled with; one currency per answer.

### Components not modelled

Common, configuration and health (no state: encryption, redaction, probes);
connectors and contracts (interfaces and stubs nothing calls in operation);
migrations and seeds (the schema; its unique indexes are guards of the modules
that depend on them). Section 9 lists what is left out of the others.
`PROJECT.json` lists all components with their sources, and every hazard found
with its line.

## 2. Plan

Done, most important first:

1. `BackfillJobs` with the abstract `JobLifecycle` it implements.
2. `CoverageIntervals`, `DataCoverage`, `SyncRuns`.
3. `MlConnection`, `AccountRename`, which composes it with the rename of an
   account, and `RenewalBatch`.
4. `AmazonTokens` with `ProviderAnswers`; `Sessions`.
5. `OrderStore`, `OrderFetch`, `Shipments`, `OrderMapping`: what a
   synchronisation does between its two writes of `sync_runs`.
6. `AutoSync`, `SyncBatch`, `SyncPage`, `Dashboard`.
7. `CalendarDays`, `Periods`, `Analytics`.
8. Theorems about every component: each invariant and each action property of
   the passing runs.

Left, in order:

* `BackfillSystem`: `BackfillJobs` with its account part refined by `SyncRuns`,
  so that the coverage a job sees in 1 is derived from the windows of 2.
* A token register that only moves forward as an abstract specification both
  `MlConnection` and `AmazonTokens` implement.

## 3. Modules and code

| module | models | uses |
|---|---|---|
| `JobLifecycle` | what the backfill promises: states, one live job per account | |
| `BackfillJobs` | table, workers, users, the account's runs as far as a job depends on them | `JobLifecycle` (INSTANCE) |
| `CoverageIntervals` | `mergeIntervals`, `isFullyCovered`, the windows of `period.util.ts` | |
| `DataCoverage` | both verdicts of the dashboards | `CoverageIntervals` |
| `SyncRuns` | `sync_runs` and concurrent `syncOrders` of an account, for either provider | `CoverageIntervals` |
| `MlConnection` | account row, attempts, lock, provider, calls, job | |
| `AccountRename` | `rename` beside everything of `MlConnection` | `MlConnection` |
| `RenewalBatch` | which accounts the renewal job reaches | |
| `ProviderAnswers` | how the HTTP clients read an answer | |
| `AmazonTokens` | account row, lock, token service, calls | `ProviderAnswers` |
| `OrderStore` | `persistOrders` of several synchronisations at a time | |
| `OrderFetch` | both `fetchAllPages` | `ProviderAnswers` |
| `Shipments` | `classifyLogistics` | `ProviderAnswers` |
| `OrderMapping` | `mapAmazonOrder` and the money of both marketplaces | |
| `AutoSync` | the cycle of several instances | |
| `Sessions` | service, cookies, guard of the pages | |
| `Dashboard`, `SyncPage`, `SyncBatch` | requests, answers and clicks of two pages | |
| `CalendarDays`, `Periods` | days of São Paulo; filter, URL and `resolveKpiPeriod` | |
| `Analytics` | the statements of `getAggregate` and the legacy summary | `CalendarDays` |
| `BackfillJobsProofs`, `SyncRunsProofs`, `MlConnectionProofs`, `AmazonTokensProofs`, `OrderStoreProofs` | theorems | the module of that name |
| `CoverageProofs` | theorems about the algorithms of `CoverageIntervals`; finite sets and sums over them | `CoverageIntervals` |
| `AnalyticsProofs` | theorems about the calendar, the periods and the figures | `Periods`, `Analytics`, `CoverageProofs` |
| `PlatformProofs` | theorems about the other components of `MCPlatform`, and about their joint invariants | `MCPlatform`, `CoverageProofs`, `AnalyticsProofs` |
| `MC...` | instances for TLC | |

Grain: a database statement (or a transaction) is one step, and so is what
runs between two awaits in a process. What happens at a provider is a step of
its own when a property depends on it.

`MCPlatform` puts the components that share no state into one run: its variable
`part`, fixed by the initial state, says which component a behaviour is about,
and the others stay as they are. Nothing is lost by that: with no shared
variable and no shared step, a product of them would only interleave. The
initial states are those of the components, one `part` at a time. `MCPromises`
adds `MlConnection` as one more part, and fairness.

### BackfillJobs

`jobs` is the table, rows numbered by creation. `phase`, `headroom` and
`tasks` are a worker's tick: `CountRunning` and `ClaimJobs` are the two
statements of `runTickOnce`; a task holds the row its claim returned, as
`processClaimedJob` does. A chunk is `PlanChunk` (the checks and the window of
`runNextChunk`), `BeginSyncRun`, `FinishChunk` (its row is SUCCESS) and
`ReturnChunk`, or `FailChunk` or `FailMarking` on the way, then
`CommitJobState`, guarded by version and owner, or `CommitFails`, which
`Promise.allSettled` swallows. Users: `StartBackfill`, `RequestPause`,
`ResumeJob`. Environment: `Crash`, stale rows recovered, connections that come
and go, `Tick`.

Of the runs of an account the model keeps the RUNNING row (`run`) and how far
back the SUCCESS rows reach, in chunks above the safety floor. A row is
"marking" between the statement that makes it a SUCCESS and the end of its
call: `OldestFrom`, the coverage a plan reads, counts it, but on Mercado Livre
(`market`) a later statement that throws turns it into FAILED (`RowSurvives`);
`oldest` counts the rows whose calls are over and which are final. The
synchronisations outside the workers (`outside`: button, cycle, next-chunk,
and on Amazon a period of the user's of any time) go through the same
stages; one at a time per account. Error codes are the classes `ERROR_CLASSIFICATION` sorts them
into; delays and leases are in ticks of a clock. A crashed worker returns
under its old name; the code draws a new `workerId`, which changes nothing
because the tasks of the old one are gone. Between the oldest window and the
newest there may be holes: `SyncRuns` has the windows themselves.

### SyncRuns

A caller is one call of `syncOrders`; its phase is where it stands between two
statements. `whole` records what the program does not store: whether the fetch
got everything of its window, and `custom` whether a period of the user's was
ever asked for. `Automatic` is the switch of the automatic cycle. `PhaseAfterThrow` is the difference between the
catch blocks of the two services. A fetch with its `persistOrders` is one step.
The clock moves while a row can still become stale, and up to `Horizon`. The
lengths of windows keep the order of the real ones: the first window is longer
than everything a behaviour lasts (60 days in the code), an overlap shorter
than a chunk.

### MlConnection

One account. A call is `waiting` for the lock, `locked`, has `sent` a request,
has it `answered`, and then writes by `token_version` (`Current`). The exchange
of a code and the request for the seller's identity are one step, and the
release of a lock goes with the last step of its call. Tokens are numbered in
the order the provider issues them; `accepted` and `origin` are the provider's
side: which refresh token still works and from which attempt it descends. A
provider may end earlier authorisations at a new one, or keep them. Time is
flags (`age`, `retryLater`, `circuit`, `late`) that steps set in any order, so
durations do not matter and failure counts are left out. A PROCESSING attempt
becomes stale while its call is alive only at the cost of a fault, because a
call's timeouts add up to far less than the two minutes of the clean-up.

`AccountRename` adds `entity`, the row as `rename` read it. TypeORM's `save`
loads the row again and updates the columns that differ: one step.

### AmazonTokens

`amzRow` is the account's row with its version; a call provisions, or verifies:
it reads the row, uses the token it holds (`SearchOrders`) and, after a 401 or
near its end, waits for the lock, reads again (`Reread`), asks
(`AskLwa`) and writes by version (`StoreToken`, `StoreRefusal`). Provisioning
takes no lock, as in the code. `grantOf` and `mintedAt` are histories: from
which refresh token, and for which version of the row, a token was issued.
Which answer means what is `LwaOutcome` of `ProviderAnswers`, where the tests
of each client stand in their order.

### OrderStore

An order at the provider goes through numbered events (`latest`), each with
the date it is stamped with, which may be missing or equal to the one before.
A transaction keeps the rows it has written until it commits; a row it touched
is locked. `UpsertedRow` is the `ON CONFLICT` clause with its `WHERE`, together
with the replacement of the items. A writer whose order is locked waits; a circle
of waiting writers is broken by the database. The columns of an order are its
event number: an order is right or wrong as a whole, and so are its items.

### OrderFetch, Shipments, OrderMapping

`fetch` is one of the two loops, with its counters. Each answer is any
`HttpAnswer` the provider may give; the caps are ordered as in the code.
`Shipments` goes through the orders with the map of answers by shipment. In
`OrderMapping` an amount is its whole part and its digits, so that reading
"4.5" as cents, dividing proceeds by a quantity and rounding a column to two
decimals are all visible.

### AutoSync and RenewalBatch

`cycle` is where each instance stands: recovering stale rows, asking for the
lock, listing the accounts, in the loop with those still to do, or switched off. A synchronisation is its RUNNING row, which
keeps others out and is left behind by a crash until it is stale. The renewal
of an account is one step of `RenewalBatch`; what it does is `MlConnection`.

### Sessions

`request` holds the one request of each tab or client with the cookies it was
sent with, the row it read and what it was granted. `FindSession`,
`AdmitRefresh`, `RevokeOld` and `Issue` are the statements of a refresh. The
answer changes the cookies when it is delivered, not when it is made. No page
calls the refresh endpoint: `AuthClients` are the callers the API allows.

### Dashboard, SyncPage, SyncBatch

A request to the analytics carries the number of its slot; `AnswerArrives`
applies it if that is the newest. Renders are derived (`HasValidData`,
`Fetching`, `FatalError`). In `SyncPage` a status request is read at one moment
and answered at another (`StatusIsRead`, `StatusArrives`), and a click is
served and answered likewise. A request that fails sets `loadErrors`: the panel
shows an error in place of its status and buttons until an answer arrives, while
the status it has keeps the polling as it was (`StatusFails`). "Completar
histórico de todas as lojas" starts every account whatever its panel shows
(`CompleteAllHistory`), and disables all buttons meanwhile. `outdated` remembers that what is shown differs
from the job and is not active, so that no poll will correct it: an answer was
late, or that of a click was lost.

### Periods and Analytics

An instant is a number; `DayLength` instants are a day, `SpOffset` the distance
from UTC. `url` holds the dates a page wrote or somebody typed, which may not
exist in the calendar; the server resolves them at a later instant. In
`Analytics` each statement is an operator on the rows it sees, and `answer`
grows one statement at a time, those of one part in order; `CommitOrder`
writes a row in between and sets `disturbed`. The statements of the series, the
groups, the rankings and the totals are translated from their own SQL, each
with its own joins, filters and `NULL`s, so that agreement between them is a
fact and not a definition.

## 4. Runs

| run | question | what it shows |
|---|---|---|
| `backfill_safety` | two instances, two jobs of an account | leases, snapshots, pause flags, progress, the retry budget and closed rows survive every order of claims, thefts, clicks, crashes and late commits; what a job counts as done is covered on either marketplace, beside periods of the user's and successes undone; one live job per account; `JobLifecycle` is implemented |
| `backfill_liveness` | one fair worker, two accounts, ceiling of one | every started job stops, also after crashes with a RUNNING run left behind; an instance keeps its ceiling |
| `sync_amazon` | two calls, Amazon, periods of the user's | no hole opens, whatever is late, fails or is recovered, until such a period is asked for; SUCCESS is whole and final, the date of the last synchronisation has a run |
| `ml_safety` | two users, two instances, the job, two attempts | confirmed expiry, tokens forward only, attempt and account together, no authorisation lost without a failure |
| `platform_parts` | fourteen components, one at a time | sessions, Amazon tokens, order table, fetches, cycle, batch, pages, periods, shipments, mapping, figures and coverage keep their invariants; rows never go back; late answers never win |
| `promises_live` | nine of them, the Mercado Livre connection and the runs of an account, with fairness | what begins ends (`CallsEnd`), RUNNING rows where the cycle is enabled; no account, token, row, selection or panel is forgotten (`NobodyIsLeftOut`) |
| `backfill_pause` | violation | a pause during a chunk does not park the job after it |
| `backfill_ceiling` | violation | two instances count before either claims: together they exceed the ceiling |
| `sync_mlgap` | violation | Mercado Livre: a failure after the success opens a hole |
| `ml_resend` | violation | a lost answer and a resend end the connection |
| `rename_visual` | violation | a rename writes old tokens and status back |
| `dashboard_scope` | violation | the reload after a synchronisation replaces the selected scope's data |

Properties are stated, with the code they are about, in the module they
belong to; the two composite runs check them as conjuncts (`SessionsInv`,
`AmazonInv`, `StoreInv`, `FetchInv`, `ScheduleInv`, `PagesInv`, ...). The mutated definitions
(`Mutant of ...`, next to the originals) are plausible bugs of the code; with
any of them in place the property it is listed for in `PROJECT.json` fails in
its run.

## 5. Bounds

* Backfill: `MaxDisturbances` counts clicks, crashes, failures, other
  synchronisations and slow chunks together: three. A lost update needs a
  start, a slow chunk and one more click or theft; a used-up retry budget of
  two needs a start and two failures. Two rows of an account are enough for
  "the newest"; a second account is needed only where accounts compete
  (`backfill_liveness`). One chunk above the floor is enough to plan from a
  success that is undone later, to end at the floor, and to begin there with a
  period of the user's. Leases, delays and the threshold of stale rows are one
  tick; in `backfill_liveness` a lease is shorter than the threshold, as it is
  in the code, and delays differ.
* Coverage: four instants and three runs over two accounts give every
  arrangement of two windows (apart, touching, overlapping, inside) and a
  third in between.
* Runs: two callers, three rows and one failure (four rows in `sync_mlgap`, two
  in `promises_live`): one call that is late, one that comes in between, and a
  third window planned from the result. `Horizon` bounds the idle clock only:
  at 0 the clock still moves while a row is RUNNING. The one custom period lies before
  everything the first synchronisation fetches.
* Mercado Livre connection: two attempts (one replaces the other), four tokens,
  two calls of users beside the job, two failures. `TokenNears` leaves tokens
  for every attempt, so that the bound on tokens never blocks a renewal that is
  due. `ml_safety` starts from a new or a connected account; accounts left in
  ERROR by an earlier release, which are the ones `RecoverConnection` is for,
  are in `promises_live`, which starts from a new account or one of those, with one
  attempt and three tokens.
* Amazon: two calls, two refresh tokens (one replaces the other), two access
  tokens and one fault: one call late, the other renewing or provisioning.
* Sessions: one tab, two other clients, two rows (a session and its successor),
  one fault. A refresh against a refresh, a logout or a deactivation is a race
  of two requests.
* Order store: two writers, two orders (a circle needs two), three events each,
  among them one of an equal date and one without; one fault.
* Fetches: four pages of up to two orders; the caps of orders, pages and
  offset are each reached before the others on some behaviour.
* Cycle: two instances, two accounts, one fault. Batch: four accounts, a batch
  of two, one account that never gets renewed, so that the others must move up.
* Dashboard: two views and one that is invalid, an account or none, two
  changes, three loads of a slot, one synchronisation. Panels: with
  fairness one account, two requests on the way, one click, one chunk and one
  fault; a second account only keeps the polling on for longer, and is in
  `platform_parts`, where "all accounts" can be clicked.
* Periods: days of three instants with an offset of one, months of four, three
  and three days, so that a clock moves over midnights and an end of a month
  within nine instants, and a typed 4th of month 2 does not exist.
* Shipments: three orders over three shipments with a budget of two lookups.
  Mapping: amounts with one and two decimals, quantities two and three.
* Analytics: two accounts, two orders at first and up to two of four more (paid,
  cancelled, other currency, unclassified, an item without SKU), six filters,
  four sets of panels that together hold every statement.
* Symmetry is used for instances, accounts and callers in the safety runs of
  the core only.

`CHECK_DEADLOCK FALSE` is set where the bounds or the system let everything
rest: all windows fetched, all calls used, everything clicked. The backfill
runs check deadlock: idle workers can always count again.

## 6. Fairness

* Backfill: the interval timer of an instance fires for ever, so `CountRunning`
  and `ClaimJobs` are weakly fair; a chunk's requests time out, so its steps
  are; other synchronisations end for the same reason; time passes. Users,
  crashes and failures are not fair. Nothing makes `StaleRunsRecovered` fair:
  a job's own next chunk recovers the stale row that blocks it.
* Runs: a call that began goes on (timeouts) and time passes. Stale rows are
  recovered for certain only by the automatic cycle
  (`MARKETPLACE_AUTO_SYNC_ENABLED`, off by default), so that fairness and the
  property that rests on it, `RunningEnds` in `CallsEnd`, are conditional on
  the switch (`Automatic`). Without it a row left RUNNING by a crash lasts until
  somebody, or a backfill of any account, asks for a chunk: `syncOrders` itself
  never recovers one.
* Mercado Livre connection: the renewal job has no switch (`@Cron`), so both
  its steps are fair; calls go on or time out; deadlines pass. Attempts become
  late because their dates are stored.
* Amazon, sessions, order store, fetches: every promise of a call settles (the
  clients have timeouts, the database answers or breaks), so the steps of a
  call are weakly fair. Nobody has to begin one.
* Cycle: the timer of an instance that has it switched on; rows grow stale as
  time passes. Instances without it are exempt in `EveryAccountIsSynced`.
* Pages: an answer or an error comes to every request, the interval of a panel
  that polls fires, a mounted guard asks. The worker of the backend works.
  Users are never fair.

## 7. Proofs

Each invariant and each action property of a passing run is a theorem: for any
number of accounts, instances, callers, attempts and failures, any durations
and calendars, and any rows in the tables. `PROJECT.json` lists the theorems
with the property each one states.

### What is assumed

Only the named assumptions on the constants, which TLC evaluates on the
instances of the runs:

* kinds and signs of the parameters (`ConfigAssumption`,
  `ParametersAssumption`, `BoundsAssumption`, `ConnectionAssumption`,
  `AmazonAssumption`, `AuthAssumption`, `CycleAssumption`, `FetchAssumption`,
  `SyncPageAssumption`, `AnalyticsAssumption`), and that "nobody" is none of
  the names (`NamesAssumption`, `DashboardAssumption`, `ShipmentsAssumption`);
* finitely many orders, accounts and rows (`StoreAssumption`,
  `BatchAssumption`, `SyncBatchAssumption`, `AccountsAssumption`,
  `OrdersAssumption`), with the primary keys and unique indexes of the schema:
  an account has one row, an order has one row;
* the types of columns, and what validation lets through: amounts with at most
  two decimals and positive quantities (`MappingAssumption`), filters whose
  dates are in order and whose logistics is one of three (`ScopesAssumption`),
  amounts and units that are not negative (`OrdersAssumption`);
* a calendar of days of some length and of months that have days
  (`CalendarAssumption`), which begins before the oldest shortcut and reaches
  as far as the clock, and shortcuts within the longest range allowed
  (`PeriodsAssumption`).

Some theorems have a premise of their own. `WholeTheorem`, `LastSyncTheorem`
and `NeverShrinksTheorem` are about an Amazon account: Mercado Livre finalises
a run twice. `GaplessTheorem` also takes the first window to be at least as long
as the buffer of the search, and what it states ends with the first period of the
user's. Section 8 says what happens without them.

### The argument, component by component

* **`BackfillJobsProofs`.** `IInv` = `TypeOK`, and
  - `RowsInv`: each row by itself (an owner exactly when RUNNING, a pause flag
    only when RUNNING, attempts within the budget). Each write of a row keeps
    it; a commit does because the task's copy had attempts left.
  - `TasksInv`: a task's version is at most the row's, and an equal version
    means an equal row. This is what makes the compare-and-set a sound lock:
    every write counts the version, so no write can hide from a task.
  - `UninsertedAbsent` and `ReplacedClosed`: a row with a newer one of its
    account is not active, which start (no active row) establishes and resume
    (the latest only) keeps.

  It gives `TypeCorrect`, `LeaseTheorem`, `BudgetTheorem`, `SnapshotTheorem`,
  `NewestActiveTheorem`; with it every step is shown to keep `PauseTheorem`,
  `ClosedTheorem`, `ProgressTheorem`; and `Implementation` maps each step to a
  step of `JobLifecycle` or a stutter. `CeilingTheorem` holds
  for any number of instances: one that counts sees its own leases among those it
  counts, it claims no more than it counted room for, and no step of another adds
  a lease to it.
  `HistoryTheorem` adds `HInv`: the coverage of an Amazon account of which
  a task or a row says "floor" reaches it, by a final row or by that of a call
  still marking (`FloorTasks`, `FloorRows`), and `oldest` is at or below the
  chunks counted (`CountedInv`). The lemma behind it, `FloorStays`: of
  an Amazon account no step takes back a floor that was read, because the row
  that reaches it is final or survives the end of its call, a crash included.
* **`CoverageProofs`.** `mergeIntervals` computes, of any finite set of
  windows in whatever order they come, separated intervals that hold the same
  instants (`MergeTheorem`, `MergeKeepsInstants`), and `isFullyCovered` is
  right about every period (`FullyCoveredTheorem`). Both folds are recursive,
  and no prover here does induction over data. The way around is the smallest
  counterexample: of a finite family of sets in which something is wrong, one
  has no wrong subset (`InnermostExists`, from the library's order of subsets);
  taking an element out of it gives a right one, and the step of the fold
  leads from there to a contradiction. Sums, counts and the beginnings of
  months are treated the same way, here and in `AnalyticsProofs`.
* **`SyncRunsProofs`.** `TypeInv` gives `SyncTypeTheorem`, for either provider.
  For Amazon, `IInv` = the shape of the rows, ownership (a call's row is its
  own), `RowsOfCalls` (what the phase of a call says of its row: `persisted` is
  whole, `marking` is SUCCESS, others are not SUCCESS), and the two invariants.
  It gives `WholeTheorem`, `LastSyncTheorem` and `NeverShrinksTheorem`. The
  last one needs the `finalized` flag, and fails on Mercado Livre, which has
  none. `GapInv` gives `GaplessTheorem`: the coverage is unbroken, no window
  ends after the present less the search buffer, and the window of a call
  under way touches the coverage, or is a first window while there is none
  (`CallsAreSound`). It stays true of a call that is late because coverage is
  never taken away.
* **`MlConnectionProofs`.** `Sound` says of each call what it knows if its
  version is current: the token it sent is the stored one, a rejected one is
  not accepted, a new one is later than the stored one and of the same
  descent. Versions are counted whenever tokens change (`Moves`), so a call
  falls out of date rather than being wrong. It gives the type theorem,
  `ExpiredTheorem`, `FromSuccessTheorem`, `TokensTheorem` and
  `AttemptsTheorem`. `GrantTheorem` (a working connection is lost only to a
  failure) adds `GrantInv`, for behaviours without faults: whoever is past the
  lock holds it, what it read is what is stored, an answer decides the call,
  and the stored token is the one the provider accepts. All are about an
  account nobody renames meanwhile: `AccountRename` shows that a rename breaks
  the premise.
* **`AmazonTokensProofs`.** `AmazonIInv` = the types without their bounds, the
  two facts about the row (`RowSound`), and `Knows`: a call whose version is
  current asked with the stored refresh token, so a token it was granted
  descends from it and a refusal proves it dead. Every write of the row counts
  the version, provisioning included; that is why no lock is needed there.
  It gives `AccessTheorem` and `AmazonExpiredTheorem`. `RenewalInv` adds, for
  behaviours without faults, that a call between its reread and its write holds
  the lock and that a token asked for on the basis of the current version is
  not stored yet; it gives `RenewedOnceTheorem`. With a broken lock connection
  the premise is gone and two calls may renew, which the version check makes
  harmless. `VersionInv` accounts for each version by a provisioning or an
  issued token, which bounds the types, and completes `AmazonInvTheorem`.
* **`OrderStoreProofs`.** `StoreIInv`: one transaction per locked row, what a
  transaction has written follows the committed row it locks (`Ahead`), the
  orders of a lot are distinct. The first holds because a writer waits, the
  second because nobody else commits that row meanwhile. It gives
  `ItemsTheorem` (items and order of the same event) and
  `NeverRegressesTheorem`. `CountInv` adds that the summed counters are the
  number of rows: what an open transaction has counted are the rows it locks
  and the table does not have yet. It gives `StoreInvTheorem`.
* **`AnalyticsProofs`**:
  - *Periods.* `PeriodIInv`: a range the page wrote is `Pickable` (in order,
    within the limit, not after today) and stays so as the clock moves. It
    needs that the beginnings of months and days are where the calendar has
    them, and gives `PeriodsTheorem`.
  - *Analytics.* `AnalyticsIInv`: the accounts and the window are known before
    anything else is asked, groups split the sums whatever is written, the
    currencies are known before the totals. It gives `AnalyticsTheorem`.
    `QuietIInv`: while nothing is written between two statements, what a
    statement answered is what it would answer now. So all parts of a response
    are functions of one table, and `QuietTheorem` is arithmetic: rows cut into
    disjoint parts (days, groups, accounts) add up to the whole (`MoneyOfCuts`,
    `CountOfCuts`, `UnitsOfCuts`), each order has a point in its series
    (`WindowIsListed`), an account that holds an order has proven data
    (`AccountsCut`), a share of a part is at most the whole, and the keys of the
    legacy endpoint decide those of the analytics (`LegacyKeys`).
* **`PlatformProofs`**, part by part:
  - *Sessions.* `SessionsIInv`: what the service knows of a request's row and
    user in each phase (`KnowsRow`, `KnowsUser`: a user found active was so when
    the request was sent, because active is only ever cleared), that the row of
    an answer on its way is nobody else's yet (`GrantsAreNew`), and that without
    faults a revoked row the browser still holds belongs to a request whose
    answer will replace or clear the cookie (`CookieIsReplaced`). It gives
    `SessionsTheorem`, all of what the runs check, with `RotationTheorem` and
    `DisabledTheorem` as its parts.
  - *Cycle and batch.* `HolderHasLock`: while nothing broke, an instance
    between `tryAcquire` and the release holds the lock. It gives
    `OneCycleTheorem`. The premise is needed: a lock connection that breaks
    lets a second cycle begin. `BatchIsDue`: the batch in hand holds distinct
    accounts, all still due. Together they are `ScheduleTheorem`.
  - *Dashboard.* `LoadInv` (the shape of slots and requests, and data was asked
    for) gives `InOrderTheorem`: no answer replaces the data of a newer
    request. That the newest request is for the selected scope is another
    matter, see `dashboard_scope`.
  - *Coverage.* `CoverageToldTheorem`: from `MergeTheorem`, both dashboards say
    of each period what the runs covered.
  - *Shipments.* `ShipmentIInv`: an entry of the map is what was answered, each
    lookup is made once, and an order passed without an entry was passed
    because the budget was spent, so that none can come later.
  - *Fetch.* `FetchIInv`: the pages received are those before the one asked
    for, and on Mercado Livre every page but the last is full; a fetch that
    calls itself whole has counted them all.
  - *Mapping.* `RevenueTheorem`, `MappingTheorem`: reading decimals as cents,
    dividing by a quantity and rounding lose nothing on an order the mapper
    accepts, because it accepts none where they would.
  - *Panels, rows, dashboard.* Their types; with the periods, `PagesTheorem`.
    `BatchRowsTheorem`: only a connected row is ever being synchronised.

`MCPlatform`'s joint properties are stated of `PlatformSpec`: each step of it is
a step of the component its `part` names, and the invariants above are carried
under that premise.

### Only model-checked

Everything temporal under fairness: `EveryJobStops`, `CallsEnd`,
`NobodyIsLeftOut`. The prover handles neither liveness nor `ENABLED`. The six
violations of section 8 are counterexamples of TLC. What the theorems assume
away (Mercado Livre in `SyncRuns`, periods of the user's for the holes) is
where TLC finds the behaviours section 8 describes.

## 8. Where the code and its words disagree

Each of the first six has a run that TLC ends with a counterexample.

1. **Pause during a chunk** (`backfill_pause`). `requestPause` counts the
   version also of a RUNNING row, so the worker's commit updates nothing: the
   job stays RUNNING until its lease runs out and parks only after a second
   chunk. The comment and a test title say the worker parks it at the end of
   the current one. The flag is not lost (`PauseTheorem`).
2. **Failure after success** (`sync_mlgap`). In the Mercado Livre service a
   statement that throws after `finalizeSyncRunSuccess` leads to the catch
   block, which turns the SUCCESS row into FAILED; a chunk planned in between
   is then not contiguous with anything. Amazon's `finalized` flag prevents it.
3. **Resending a refresh token** (`ml_resend`). The client calls it always safe
   to resend after a network failure; if the provider had served the request,
   the token is used up and the account expires without a revocation.
4. **Rename** (`rename_visual`). It saves an entity read before two awaits, and
   can write older tokens, status and version back.
5. **Reload after a synchronisation** (`dashboard_scope`). "Sincronizar agora"
   awaits the synchronisation and then reloads the scope of the render in which
   it was clicked (`dashboard/page.tsx:671`), under the newest number of the
   slot. If the filter changed meanwhile, that answer passes the check of the
   number and replaces the data of the selected scope. Comments in the page
   (332-339, 388-390) say an old scope never replaces the current one.

6. **The global ceiling** (`backfill_ceiling`). A comment of the worker
   (`marketplace-backfill-worker.service.ts:116-119`) says that any number of
   instances respect one ceiling, because each counts the jobs of all before it
   claims. Nothing ties the count to the claim: two that both count first claim
   a full ceiling each, and `SKIP LOCKED` only gives them different rows. What
   does hold is a ceiling per instance (`CeilingTheorem`).

Seen while modelling, without a run of their own:

* On Mercado Livre a job can end at the safety limit, which is shown as a complete
  history, because of a success that its call then undoes: `HistoryIsCovered`
  says of the safety limit what holds of Amazon only.
* A chunk that outlives its lease is processed by two instances at a time. The
  commit of the first is refused (`ProgressTheorem`, `SnapshotTheorem`).
* Mercado Livre's paging stops at its cap or at an empty page and the run ends
  as SUCCESS: `SuccessIsWhole` fails with `Provider = "ML"`.
* A custom period on Amazon far in the past becomes the oldest coverage, and
  the backfill goes on from there: `CoverageGapless` speaks of an account until
  such a period is asked for, and fails in `sync_amazon` without that premise.
* Two refreshes with one refresh token that both read the session before either
  revokes it both succeed; a refresh in flight during a logout leaves a new
  session behind. No page calls the endpoint. What does hold is
  `RotatedSessionIsDead`.
* `findConnectedDueForRenewal` takes the accounts that expire first, of either
  marketplace. With as many accounts that stay due as the batch holds (Amazon
  accounts nobody uses, deferred renewals), the others are never reached:
  `EveryDueAccountIsRenewed` asks for fewer, and without that premise
  `RenewalBatch` has the starvation.
* A panel whose last answer was late and shows a job that is not active stops
  polling; so does one whose click was served but whose answer
  was lost. These are an exception (`outdated`) in `EveryPanelIsRight`. The other
  one: when a status request fails while no job is shown active any more, as the
  last poll on the way may, nobody asks again, and the panel shows an error
  in place of its status and buttons until the page is loaded again, or the
  button for all accounts is used (`sincronizacoes/page.tsx:117-119`,
  `BackfillAccountPanel.tsx:92-95`).
* Daily series for all the time: the points are counted in steps of 86400
  seconds from the first order, which is not a midnight, and labelled with
  calendar days. `AllTimeSeriesByCalendarDay` in `Analytics` states what the
  labels say; it fails, and is in no run. The comment of
  `mercado-livre-orders-kpi.service.ts:347-352` says "já alinhado à
  meia-noite", which holds of chosen periods.
* The check of the currency looks only at paid orders and in an earlier
  statement: gross sales and cancelled amounts, and the totals of accounts
  outside the check, may add amounts of two currencies, and so may an answer
  during which orders are written.
* The comments of `amazon-order.mapper.ts:60-61` and 195-197 say that every KPI
  filters paid orders, so that a price missing from another order may be stored
  as 0.00; the gross sales of the analytics count cancelled orders as well.
* The ranking of Full products sorts by a sum that is `NULL` for a product whose
  orders were all cancelled without an amount, and a descending order of
  PostgreSQL puts `NULL` first (`FullRanking`).
* A custom window of today on Amazon, asked for within two minutes after
  midnight, is `INVALID_PERIOD`: its end is moved before its start.
* A successful reconnection leaves `refresh_retry_at` as it was, which may
  delay the first renewal. Durations are not modelled.

## 9. What is not modelled

* The columns and payloads of orders beyond what a property tells apart: an
  event number in `OrderStore`, figures and keys in `Analytics`. The mapping of
  Mercado Livre orders copies fields and is left out.
* Durations in `MlConnection` and `AmazonTokens`: a retry date beyond the life
  of a token looks like any other. How long a tick waits for its slow jobs.
* More than one account in `MlConnection` and `AmazonTokens`, and the
  uniqueness of sellers beyond the outcome "taken".
* What components that `MCPlatform` checks apart do to each other beyond the
  rows they share by name: a fetch in `OrderFetch` and a lot in `OrderStore`
  are one step of `SyncRuns`; a renewal of `RenewalBatch` is a call of
  `MlConnection`.
* Of the analytics: comparisons in percent, the breakdown by logistics of the
  previous period, the best day and series of the legacy endpoint, formatting.
* Of the frontend: the page of integrations (forms with one request each),
  cards, tables and charts.
* Of the administration of accounts: `create` (one insert) and the rules for
  nicknames. Of the status endpoint: the progress it formats.
* Encryption, PKCE, redirects, validation of parameters, logging, wording,
  configuration, health, connectors and migrations.
