# A TLA+ verification of lvl2screener

TLA+ modules that model the concurrent core of the scanner, TLC configurations
that check them on small instances, and proofs checked by TLAPS. Paths below are
relative to `src/apps/api/src/` unless they start with `src/`. `PROJECT.json`
maps every definition to the lines it models and lists the runs, the mutants
each property detects, the hazards and the theorems.

## 1. The system

lvl2screener is a research and paper-trading scanner of TSX and US equities. It
reads quotes and candles from the Questrade API, evaluates setups in a Python
scanner service, raises alerts, and runs simulated ("funded paper") orders and
research jobs. No live order ever leaves it. An API process and a worker process
share one PostgreSQL database; maintenance commands are further processes over
the same rows. Inside a process JavaScript runs one synchronous stretch at a
time and interleaves at each `await`.

| Component | State it keeps | Operations | Interacts through |
|---|---|---|---|
| Research-job queue and worker (`research-jobs/`, `worker/research-worker.ts`) | the `research_job` rows; one claimed job per process | create, claim, heartbeat, evidence lease, complete, markCancelled, fail, requestCancellation, reapExpiredLeases | rows and leases shared by all workers; handlers called back |
| Questrade credentials (`questrade/token-manager.ts`, `market-data/postgres-token-store.ts`) | the `market_data_auth` row; session and flight of each process | getSession, refreshAfterUnauthorized, rotateSession, settle | single-use tokens of the broker; a row shared by processes; callers joined on one promise |
| Questrade adapter (`questrade/adapter.ts`) | none of its own | withSession: one retry after a 401 | token manager, rate limiter |
| Rate limiter (`questrade/rate-limiter.ts`) | queue, active count, timer, embargo | schedule, drain, abort, cancelPendingDiscovery, observeLimit | promises of the callers; the budget, awaited in the drain loop |
| Shared budget (`questrade/*request-budget.ts`, `src/database/init/151-*.sql`) | a row per namespace and its grants | acquire, block | one row lock for every process |
| Funded paper orders (`paper-bot/funded-live-adapter.ts`, `funded-fact-adapter.ts`, `funded-order-service.ts`) | the inbox of facts and its barrier, orders, quotes allocated, the run's clock and status | cycle, enqueue, drain, submit, cancel, advance clock, quote, settle | observations and invalidations of the setups; one transaction per step of a fact; the ledger |
| Funded paper ledger (`paper-bot/funded-ledger.ts`, `funded-ledger-repository.ts`) | account snapshot, event log | reserve, release, buy, sell, mark, roll over, replay | the order service, under the account's row lock |
| Discovery control, scheduler, evidence, intake (`universe/discovery-*`) | leases, runs, an outbox | claim, renew, bind, complete, release, reclaim | lease rows; the engine is frozen (ADR-018) and its mode is OFF |
| Daily list seeder (`universe/daily-list-seeder.ts`) | restored date, promise in flight, seed rows | tick, run, preview, restore | universe service, market runtime |
| Market runtime (`market-data/service.ts`, `cycle-mutex.ts`) | cycle lock, timers, scanner recovery | start, stop, runCycle, refreshUniverse | adapter, scanner, alerts |
| Alerts (`alerts/`, `market-data/alert-buffer.ts`) | alert rows, buffer of undelivered ones | raise, acknowledge, flush | market runtime |
| Worker process (`worker.ts`, `worker/background-work.ts`) | timers, tracked work | start, drain, shutdown | every worker service over one pool |
| Backtest automation (`backtests/backtest-automation*.ts`) | stage of each unit of work | runCycle, reconcile | research-job queue |
| Studies, models, quotes, catalogues, routes, observability, archive, scanner service, web | stored rows, presentation | mostly one statement or pure computation | - |

`PROJECT.json` lists all of them, with what is modelled and why the rest is not.

### What is hard, and what correctness means

* **Queue.** Several workers claim, renew and settle the same rows; a process may
  die between two statements, lose the answer of a committed one, or be overtaken
  after its lease ran out. Correct means: a late worker changes nothing, no job is
  stranded, a settled job stays settled, a success publishes what its last attempt
  wrote, and a cancelled job is not started again.
* **Credentials.** A refresh token works once: the broker has spent it before the
  process has stored its replacement. Correct means: whatever fails in between,
  the account is not lost silently; a process rotates only when it must; whoever
  waits is answered.
* **Rate limiter.** The drain loop checks, awaits a grant, and acts on what it
  checked; requests are aborted, expire and arrive meanwhile. Correct means: no
  more calls at once than allowed, no wake-up lost, one outcome per caller, one
  charge per market-data call, and no starvation of token redemptions.
* **Budget.** Processes take grants from the same rolling windows. Correct means:
  no window is ever exceeded, even by usage nobody recorded, an embargo holds, and
  nobody who was refused waits longer than needed.
* **Funded orders.** A fact is claimed, applied and acknowledged in three
  transactions; between them the process may die, invalidations become known late
  and the session closes. Correct means: each fact takes effect once and in order,
  a signal invalidated before its submission never trades, a run closes only with
  its orders resolved, and the inbox empties.
* **Funded ledger.** Orders share cash and a daily limit; sales are partial and
  rounded, prices move, events are sent again. Correct means: money is conserved,
  reservations fit what is there, the day's loss keeps its limit, and every event
  counts once.

## 2. Modules

| Module | What it models |
|---|---|
| `JobLifecycle` | abstract: what a submitter of a job may observe |
| `ResearchJobs` | the queue's statements and the loop of each worker; implements `JobLifecycle` |
| `ResearchJobsProofs` | theorems about it |
| `TokenManager` | rotation, its row, the callers that retry once, shutdown, restarts, manual authorization |
| `TokenManagerProofs` | theorems about its tokens and its marker |
| `TokenCallersProofs` | theorems about its sessions and its callers, on top of the former |
| `RateLimiter` | queue, drain loop, timer, cancellation, expiry, embargo |
| `RateLimiterProofs` | theorems about it |
| `RequestBudget` | the acquire function as a transaction, `block`, and the second copy of the decision |
| `RequestBudgetProofs` | theorems about its limits and embargoes |
| `RequestAnswersProofs` | theorems about its answers, on top of the former |
| `OrderLife` | abstract: how far an order is, its reservation, and the account's time |
| `FundedInbox` | the inbox of one run from the cycle that fills it to the effects on orders and reservations; settlement, crashes; implements `OrderLife` |
| `FundedInboxProofs` | theorems about it |
| `FundedLedger` | the events of one account, its summary, the log that recognises retries; implements `OrderLife` |
| `FundedLedgerProofs` | theorems about it |
| `MC*` | instances of each for TLC |

### ResearchJobs

Each column of `research_job` is a function on `Jobs`; each statement of the
repository is one atomic step, and what a process does between two statements
belongs to the step of the first. `fail` is a SELECT and an UPDATE and thus two
steps (`FailReads`, `FailUpdates`); `reapExpiredLeases` is two UPDATEs
(`ReapRequeues`, `ReapInterrupts`). `now()` is abstracted to a lease that is
NONE, LIVE or EXPIRED; it may expire under a healthy owner as well. A worker is
named by a host slot and its count of restarts, as `ownerId` is fresh in each
process. Errors are part of the model: a claim whose answer is lost, a
`complete` that rejects before or after its commit, a settlement that fails and
is swallowed, a crash anywhere. Handlers are reduced to what they may do to their
job: heartbeat, write their result (fenced by `lockEvidenceLease` or not), return
or throw; `ReportingJobs` are the kinds whose handler turns a cancellation it saw
into a `CategorizedError`.

`JobLifecycle` knows neither workers nor leases: a job waits, is started at most
`Budget` times, is put back only if it may start again, is cancelled only when
asked, and publishes the result of its last start. The refinement maps statuses to
phases (`PhaseOf`); one step may move many jobs, because a sweep does.

### TokenManager

The broker is external: it has one live refresh token, numbered by order of issue,
and a set of access tokens it accepts. A statement, a redeem reaching the broker
and its answer reaching the process are separate steps, so a crash or a timeout
falls between "spent" and "stored". Callers are clients of `withSession`; those
waiting on the rotation in flight resume in the step that settles it. A process
may be killed at any point, and `BeginShutdown` models `settle()`. Because
`shutdown` waits only for the rotation in flight at that moment, the model lets a
process end while a later rotation runs. `rotation_started_at` is modelled by
the process that wrote it, which is what the properties compare.

### RateLimiter

A step is a synchronous stretch of JavaScript: `DrainFrom` runs the loop from
wherever it was entered to its end or to `await budget.acquire`, the one place
where it gives way. The queue maps each waiting request to its sequence number,
and rank and number give the order of dispatch; the redemptions a stretch starts
are the first of those waiting, as many as there are free slots. A grant, a denial
and an error of the budget resume the loop. Instants are abstracted to what the
code compares: expired or not, deferred or not, embargo in force or not. The
timer is modelled by what it waits for. Counters and observations are left out.

### RequestBudget

A call of `questrade_acquire_request_budget` is a transaction of three steps:
lock the row (creating it, blocked for an hour, if the namespace is unknown), read
the clock, then count, decide, insert and commit. It may be rolled back between
any two. `block` is one UPSERT. Time is a natural number and the windows are real
rolling windows. `granted` is a history of every call, including `Earlier`, usage
made before the namespace had a row, which the code cannot see. `decideBudget`, the
copy in the program that tests and mocks use, is translated as a second operator
and compared with the first.

### FundedInbox

One run with one instrument. A cycle (`Cycle`) reads observations, invalidations
and the wall clock and pushes a batch of envelopes, as `process` of
`funded-live-adapter.ts` does: a CLOCK, quotes, and for each observation a SIGNAL,
a pre-submission CANCEL, or the CANCEL of a stale signal, then the invalidations
no envelope names yet. `Admit` is one iteration of `enqueue`: a fact may be known
already, late (its instant processed, before the run's clock, or not after the one
in flight), suppress a signal that waits (`Suppress`), or find its order committed
and cancel it there (`Reconcile`). Under the inbox lock the drain claims the first
unanswered fact (`Claim`: the barrier of another unanswered fact refuses it),
applies it (`Submit`, `AdvanceClock`, `CancelOrder`, `AllocateQuote` with
`VetoFill`) and acknowledges it (`Acknowledge`), each in a transaction of its own,
so `Crash` falls between them and the retry must find the effects. `Throws` collects
every error of the service; a fact that throws stays first and is tried again.
`Settle` closes the run by the wall clock and may come between the steps of a drain.

Amounts are left to `FundedLedger`: a reservation is present or absent, which
pending orders a quote fills, rejects or closes is a choice, and so is a veto. The
observations and events change between cycles only, because a cycle reads them at
its start. `paperFundedWork` of `market-data/service.ts` runs one cycle or drain
at a time, which is why `phase` has one holder.

### FundedLedger

Every action is one event of `applyLedgerEvent` behind the repository's check of
the durable log (`Fresh`): an id already applied changes nothing, whatever the
compacted snapshot forgot. Amounts are integers of the unit `money()` rounds to.
`Session` is the rollover: it takes fresh marks and no open reservation. Two
ghosts carry what a bound must allow for: the results of earlier sessions, and
what exits lost beyond their stops or beyond what they returned. The retry of an
event is the model's stutter when `Fresh` refuses it.

### How they meet

The six models meet at interfaces each states for itself. The rate limiter sees the
budget as an answer granted, denied or failed (any of them at any time, so whatever
`RequestBudget` guarantees about the answers is an extra), and the token manager
sees its redeem as a call that the limiter dispatches (`AuthIsServed`). The inbox
sees the ledger as a set of reservations and a veto at any time; the ledger sees
the inbox as a source of reserve, release, buy and sell events with the ids the
order service gives them (`SameId`), which may be sent again.

`OrderLife` is the promise on which the last two meet: an order reserves once, gives
the reservation back or turns it into a position, a position is sold for good, the
reservations are those of the orders that wait, and the account's time never goes
back. The inbox maps a stage to the status of the order's row, the ledger to the
durable events it has of the order; the reservations are the inbox's view of the
ledger in one and the account's snapshot in the other. Each implements it
(`ImplementsOrderLife` of either module), which ties three records of one order kept
by three repositories: the row, the log and the snapshot.

## 3. Runs

| Run | Question | Instance and bounds |
|---|---|---|
| `jobs_safety` | ownership, fencing, cancellation, evidence, refinement (and with it attempts and finality) | 1 job, 2 worker slots, 3 attempts, 1 restart each; market closed; symmetric workers |
| `jobs_liveness` | every job settles; a success shows its last attempt's result | 1 job, unfenced handler, 2 slots, 2 attempts, 1 restart, sessions open and close |
| `jobs_cancel_report` | (violated) a job that stopped on request is CANCELLED | 1 job of a reporting kind, 1 worker |
| `token_callers` | callers, rotations and shutdown of one process | 2 callers, 3 grants, 1 restart |
| `token_processes` | two processes over one row | 1 caller each, 3 grants, no restart |
| `token_reauthorization` | (violated) reauthorization only when no stored token redeems | as `token_callers` |
| `token_marker` | (violated) a reported interruption is a process that died rotating | as `token_callers` |
| `rate_limiter` | slots, charges, wake-ups, one outcome, service of redemptions and discovery | a redemption, a quote, two discovery requests; 2 slots, discovery queue of 1 |
| `request_budget` | limits, reserve, embargo, retry instants, the two copies | 2 processes; second of 3 instants with 2 calls, hour of 6 with 4, discovery 2, reserve 1; clock from 4 to 17 |
| `funded_inbox` | the barrier, order of facts, suppression, settlement, the life of its order; the inbox empties | 1 order, 3 instants, 1 invalidation, 1 crash, the session closes at the last instant (312,349 states) |
| `funded_inbox_wedge` | (violated) a repeated invalidation of a suppressed signal is answered | 1 order, 4 instants, 1 invalidation, no crash |
| `funded_ledger` | conservation, reservations, daily limit, retries, the life of each order | 2 orders of one instrument, 3 prices, a fee above some sales, 2 sessions (129,702 states) |

Why these bounds are enough. The rows of the queue are independent of each other
except for the worker that executes one at a time, so one job with three attempts
and two slots that restart gives every overtaking: owner expired, second attempt
by the other slot, third by a restarted one, while the first still acts. Three
grants are one spent token, its replacement and a further rotation, which is what
a stale candidate needs. Two slots and a discovery queue of one are both filled by
four requests, with one to spare. The clock of the budget passes the widest window
twice, so grants leave the windows and windows fill again, and the embargo of an
unknown namespace ends inside the bound. Three instants of the inbox are a signal,
its deadline or invalidation, and the close, and one crash falls anywhere between
the three transactions of a fact; larger explorations of the same module (1 order
with 4 instants, liveness included, 2.5 million states; 2 orders with 3 instants,
safety, 20.3 million states) found no error either. The amounts of the ledger are
chosen so that the second reservation fits only if the first is counted, a fee
exceeds a sale, a third of a position is sold with a rounded basis, and a mark
carries a position past the day's limit before the rollover. `Restart`, `MaxGrants`
and `MaxClock` bounds are guards of the actions that need them; at the bound the system stops, so
the runs of the tokens, the limiter, the budget and the funded account do not
check deadlock.

Each property is paired with a mutant of the code (a dropped guard, a missing
lock, `>` for `>=`) that the same run rejects.

### Fairness

* Queue: the poll loop and the sweep timer keep running, handlers end, statements
  are answered, market sessions close, and a lease no live worker renews runs out.
  A claim is enabled only while the market is closed and no other process took the
  job, hence strong fairness; everything else is weak. Crashes, lost answers and
  heartbeats have none.
* Credentials: weak fairness of a rotation's next step, as each redeem and
  statement has a timeout. The broker need not ever grant.
* Limiter: a due timer fires, budget and broker calls end (each has a timeout),
  and a fixed deadline passes. Nothing is assumed of the embargo's end, of
  `availableAt`, or of what the budget answers.

* Inbox: weak fairness of `Adapter`, because the cycle and the backlog timer run
  as long as a process lives and each statement is answered. Nothing is assumed of
  the world: no signal need be observed or invalidated, and crashes are not fair.

### What the runs found

1. `jobs_cancel_report`: the coverage, execution-diagnostics and strategy-study
   handlers report a cancellation as `CategorizedError("CANCELLED")`, so the job
   ends FAILED, while `research-job-repository.ts:348` says the worker finalizes
   it with `markCancelled`.
2. `token_reauthorization`: an error that is neither transient nor of persistence
   (a failed `beginRotation`, a connection error) counts as a rejection; after the
   last candidate the manager asks for a manual authorization although nothing was
   refused (`token-manager.ts:28`, `:242`).
3. `token_marker`: only a successful rotation clears the marker, so a failed one
   that the process survived is later reported as an interruption
   (`token-manager.ts:14`).
4. `funded_inbox_wedge`: a suppression refused as `LATE_FACT` is acknowledged and
   still makes the next cycle take the observation for suppressed
   (`funded-live-adapter.ts:674`), so a later invalidation is enqueued as a plain
   CANCEL of an order that never was. `funded-order-service.ts:623` asks for the
   outcome `PRE_SUBMISSION_SUPPRESSED`, finds none and throws on every drain: the
   inbox stops and the run never completes, while
   `src/docs/baseline/paper-execution.md:96` says such an invalidation is
   acknowledged without an order. `InboxDrains` allows for exactly this stop.

Two more things the inbox does that no document rules out. A suppression at the
deadline and an invalidation event at that very instant share an economic key
(`funded-fact-adapter.ts:290`), and every later cycle is refused with them; the
model lets such a cycle enqueue nothing. And a plain CANCEL dated by its bar may
precede the last CLOCK processed: it becomes a `LATE_FACT` and its order stays open
until its deadline; nothing in the properties promises otherwise.

## 4. Proofs

All hold for every value of the constants that meets the named assumptions of the
modules.

**ResearchJobs** (`MaxAttempts > 0`, `NoJob` and `NoOwner` are not a job or an
owner). The invariant `IInv` is built in layers. A process forgets its job exactly
when it is idle. A row has an owner and a lease exactly while it is active; this
needs every settlement to release both. An owner executes the latest attempt: a
claim raises the attempt and takes ownership in one statement, and an ownerId is
never used again (`restarts`). `SettlementJustified` says that a statement decided
earlier still rests on facts that hold while the process owns the row, which is
what makes the read-then-update of `fail` safe. On top of it: `TypeCorrect`,
`LeaseOwnership`, `FencingByOwner`, `PublishesLatest`, `NothingStranded`,
`CancellationHolds`, the action properties `SettledIsFinal` and
`EvidenceIsFenced`, and `Refinement`, which maps every step to a step or a stutter
of `JobLifecycle`. The run checks the refinement alone where it implies more:
`NothingStranded` and most of `SettledIsFinal` follow from it.

**TokenManager** (`MaxGrants > 0`, `Home` maps callers to processes). The steps are
first sorted by what they do to the tokens (`StepEffects`), then the invariant
`TokenInv` is shown over the effects: the broker issued every token anyone holds
(`AllIssued`); the replacement on its way to the store is the live token, known to
one rotation only, and there is no second one (`PendingIsPrivate`); the row is
marked before its live token is presented (`MarkedBeforeRedeem`). It gives
`StrandingIsMarked`, `ServingIsRenewable` and `TypeCorrect`. `PendingIsPrivate` is a
result of its own (`ReplacementIsPrivate`), a mutual exclusion that no lock provides.

**RequestBudget** (widths and limits positive, the second and both spacings at most
the hour, the reserve below the hour's limit, earlier usage itself within the
limits). The decision sees only rows of the last hour, and `known` may hide usage.
`BudgetInv` says why that is enough: a call the table does not hold lies an hour
before the instant decided for, or an hour before the end of the embargo
(`Recorded`); no call in reach started later than the last start the row records
(`Covers`); and both hold of a row locked earlier and of the instant read after the
lock (`LockedIsSound`), which is where the row lock is used. `Admission` then shows
that each window has room for one more, and `LimitsHold`, `ReserveHolds`,
`EmbargoIsKept` and `BudgetTypes` follow.

`RequestAnswersProofs` adds what the answers are worth. A decision is the greatest of a
set of instants, and `BoundsMoveOn` compares two such sets: if calls leave a window
by age only and join it last, if the embargo and the last starts do not go back,
then every instant of the earlier set is passed or matched by one of the later.
`RefusalsNeverTooLate` applies it to each step. `TheCopiesAgree` applies it twice to
one state: the program's copy takes the last start from the grants of the hour, the
database from its row, and the invariant `TracksInv` says that the two are the same
call unless its hour has passed, where neither binds.

**TokenManager, callers** (`TokenCallersProofs`). On top of `TokenInv`, `CallersInv` says
that a process has read the marker before it writes its own (`ReadBeforeMarked`),
that a caller holds its process's session or an older one (`SessionsGrow`), and
that what the broker refused it refuses for good (`RefusedStaysRefused`). Hence
`ReportsOnlyOthers`, `RotationsAreNeeded` and `RetriesAreNewer`.

**RateLimiter** (`MaxConcurrent > 0`, ranks are numbers). `IInv`: queue, states and
active count agree (`Agree`), the request a grant is awaited for is not charged yet
nor dispatched otherwise (`AcquiringWaits`), and while no loop runs a timer is set
for what waits (`TimersAreSet`). Every step ends in a stretch of the drain loop, so one lemma
(`Drained`) says what a stretch establishes, and `StepShape` what a step does to
states and charges. It gives `SlotsHold`, `ChargesMatchCalls`, `WakeupsAreKept`,
`OutcomesAreFinal` and `LimiterTypes`.

**FundedInbox** (orders are numbers, the bounds are numbers). The heart of `IInv` is
`PendingIsAhead`: no unanswered fact is dated before the run's clock or the ledger's
last event. Admission compares a fact with the clock, the answered facts and the one
in flight, and never with the ledger; `LedgerIsKnown` says why that is enough, the
ledger being no further than the clock or a fact that was taken up. So no fact the
inbox left to the drain is refused for its date (`FactsComeInOrder`), and
`BarrierIsFirst` is inductive with it. `Refusals` ties a suppression to its signal:
an order it names is not pending, and if there is none no signal of it waits, whence
`RefusedSignalsNeverTrade`. `BooksCloseResolved` needs `ReservedIsPending` and
`SignalsInTime`: a completed run has no signal left, so a drain under way opens no
order. `AnswersStand`: an answer is never taken back. `OrdersLive` is the refinement
of `OrderLife`: `ReservedIsPending` (an order is pending exactly while it has a
reservation) and the ways a row moves (`RowsMove`) give the step of each order, and
`PendingIsAhead` that the ledger is never dated back.

**FundedLedger** (amounts of events positive, fees not negative). The totals are sums
over the orders; `SmallestNat` and `UpToMaxOrder` give, by a least counterexample, how a
sum changes with one of its terms and how sums compare. `MoneyInv` is the
conjunction of the three properties with one more fact, that a position of no
shares cost nothing, and is inductive: `MoneyIsConserved`, `ReservationsFit`,
`LimitHolds`, `LedgerTypes`. `CashIsTheSumOfItsEvents` is about a sum over a set of
records, which the community modules define by recursion on a choice of its members.
Without an induction theorem the proof takes a smallest counterexample again: sums
over the subsets of a finite set exist up to every size (`SumsExist`), there is one
of them (`OneSum`), so it does not depend on the order of the choices, and a new
member adds its flow (`FlowsAdd`). `Fresh` makes the member of an applied event new
(`AppliedOnce`): this is where "at most once" enters. `AccountLives` is the refinement
of `OrderLife`; its invariant `LogInv` says what the log has of an order in every
state (no release or purchase without a reservation, never both) and that the
snapshot holds exactly the reservations that are left.

Only model-checked: liveness (`EveryJobSettles`, `WaitsEnd`, `AuthIsServed`,
`DiscoverySettles`, `InboxDrains`: fairness and ENABLED are outside the prover's
reach). Every other property of the runs that hold is proved.

## 5. What is not modelled

Of the modelled parts: job creation (`createStrictJob`: one statement decides, and
the model starts from accepted jobs), the order in which `claimNext` picks, what
handlers compute, encryption of the tokens, the in-memory store of the tests,
request shapes and the normalisation of responses, and the limiter's metrics. Of the
funded account: the sizing of orders, fill prices and partial fills of a quote, the
limits of the portfolio, the capture of decision evidence, compaction and
checkpoints of the snapshot, and the reconstruction of past states, which rewrite or
read what the modelled steps decided.
Clocks are assumed not to run backwards. A PostgreSQL statement or row lock is
atomic; isolation below that is the database's.

Other components are listed as `not_modelled` with the reason. Those with a
protocol are in the plan; the rest is numeric work, single statements,
presentation or deployment.

## 6. Plan

What is left, in order of what matters most for the product's correctness. The core
of the plan (queue, credentials, limiter, budget, funded orders and ledger) is done.

1. `DiscoveryLease`: claim, renewal, run binding, completion, release and reclaim.
   Questions: a run the lease was released from while it was RUNNING, and an owner
   that commits after a reclaim. Theorem: one active lease per schedule.
2. `DailyListSeeder`: restored date, preview and run joined on one promise,
   restart in the middle of a session day.
3. `MarketRuntime` and `WorkerProcess`: the cycle lock, its waits, tracked work and
   the end of the pool at shutdown.
4. `BacktestAutomation`: overlapping cycles over one unit of work.
5. Job creation and its uniqueness; checkpoints and replay of the ledger as a
   refinement of the fold over its log; a composition of `FundedInbox` with
   `FundedLedger` in place of the free veto (today they meet in `OrderLife`).
