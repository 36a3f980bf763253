# TLA+ models of Kestrel (HamaFX-Ai)

Kestrel is a trading assistant: a Next.js web application (`apps/web`), a
long-running worker (`apps/worker`) and shared packages (`packages/ai`, `data`,
`db`, `indicators`, `shared`) over one PostgreSQL database. Nearly all of its
coordination goes through rows of that database: requests, cron runs and worker
processes are concurrent, may die at any statement, and meet only in conditional
updates, leases and idempotency keys. Those protocols are what is modelled here.
Language models, charts, indicators and HTTP adapters are not.

Paths below are relative to the repository.

## How to run

    tlc -workers 2 -config MCBudgetLedger.cfg MCBudgetLedger    # any run of PROJECT.json
    tlapm BudgetLedgerProofs.tla                                # any ...Proofs module

`PROJECT.json` lists the components, the runs with their properties, the lines
each definition models, a mutant for each property (a plausible mistake under
which the property must fail), the findings, the hazards and the theorems.

## Inventory

| Component | State it keeps | Operations | What is hard | What makes it correct |
|---|---|---|---|---|
| **Budget ledger** `packages/ai/src/cost.ts`, `budget-reservation.ts` | `daily_budget` counter per user and UTC day, `budget_reservations` rows, the handle of each turn | reserve under the day's cap, reconcile to the observed cost, release, recover stale reservations, purge | terminal callbacks, their duplicates and recovery meet on one row; a commit whose answer was lost; midnight; overruns | counter = ledger; open reservations within the cap; each resolved once and in the end |
| **Persistence outbox** `packages/ai/src/persistence-outbox.ts`, `persistence-recovery.ts`, `persistence/` | messages by idempotency key, `persistence_outbox` rows with lock, attempts, backoff | insert, enqueue a failed insert, claim, replay, mark completed / failed / dead, purge | a replay calls the writer that queues its own failures; take-over of a slow run; late marks | completed means stored; one holder of a live lock; completed is final; rows progress |
| **Alert delivery** `packages/ai/src/alerts/*`, the alerts cron | the alert row: status, rule with its baseline, delivery claim, snooze | list, read and decide, baseline, claim, channels in order, mark fired or snoozed, release; edit, toggle, delete | overlapping cron runs with copies of the row; lease lost during a provider call; a mark that fails after delivery | one deliverer unless a lease was lost; retired only after delivery; no matching alert silent for ever |
| **Billing webhook and dead letters** `packages/db/src/queries/ipn-events.ts`, `apps/web/src/app/api/billing/webhook`, `.../dlq/[id]/replay` | `ipn_events`, `billing_webhook_dlq`, `payments`, `subscriptions` | claim, write payment and subscription, mark, record failure, release; claim, close, release a letter | deliveries and operator replays use the same writes but different leases; a delivery that dies after a redelivery was acknowledged | done means applied; no failure dropped; a letter closed only when applied since; one delivery at a time |
| **Billing checkout** `apps/web/.../billing/checkout`, `billing-extras.ts` | `billing_checkout_attempts` with token and lease, provider invoices | claim key, create and save invoice, upsert subscription and payment, complete, fail | crash between the provider call and its save; reclaim of a failed attempt | a completed attempt has its books; one request at the books unless a lease ran out; a saved invoice is completed by retries |
| **Full-analysis queue** `packages/ai/src/mastra-v2/workflows/full-analysis.ts`, `apps/worker/src/jobs/multi-agent-analysis.ts` | workflow snapshots used as a job queue, advisory lock | enqueue, claim, touch, complete, requeue, fail, recover stale, purge | read-write-verify claim without a condition; heartbeat after completion | answered means the reply is stored; a run is given up only after its attempts; a queued run is decided |
| **Cron lock and scheduler** `apps/worker/src/cron-lock.ts`, `scheduler.ts` | `cron_runs` per job and day | acquire, reclaim stale, clean up at start, record the end | a job longer than the reclaim time; a restart | a day's lock is given once, or again after two hours; a guard is released |
| **Tick pipeline** `apps/worker/src/index.ts`, `signalr/tick-buffer.ts`, `aggregator/candle-1m.ts` | buffer per symbol, open candle, flush timer | push, peek, write, drain, aggregate, stop | ticks that arrive during a flush; flush against stop | the newest tick is waiting or written; a bar is what was fed; the loop survives failures |
| **Market stream consumers** `signalr/consumer.ts`, `binance/consumer.ts` | subscriptions, connection | start, stop, subscribe, reconnect, rebuild | a manual rebuild against added symbols | live subscriptions follow the consumer's list; both feeds come back |
| Mutation confirmation `mastra-v2/workflows/mutation.ts` | suspended run, token | propose, confirm, cancel | double confirmation | executed at most once |
| Throttles, circuits, quotas | counters in windows, breaker state, provider health | try, succeed, fail | window edges, late answers | never over the limit; the breaker recovers |
| Telegram bot | update ids, links | dispatch, link | duplicate updates | one reply per update |
| Chat runtime, research packets, noise control, briefings, data providers, indicators, authentication and settings, user interface, infrastructure | see `PROJECT.json` | | | |

How they interact: a chat turn reserves in the ledger, runs a model, writes its
messages (falling back to the outbox) and settles the reservation; the worker's
scheduler runs the jobs that recover reservations, replay the outbox, evaluate alerts
and work the analysis queue, the daily ones behind the cron lock; the market consumers
feed the tick pipeline, which alerts and charts read; checkout creates the payment and
subscription rows that the webhook updates. Beyond that the components share no row, so
they are modelled apart. `OwedWrite` is the promise that two of them, the outbox and
the analysis queue, make in different ways.

## Conventions

One action is one database statement or transaction, with everything the code
does around it before the next one. A statement that throws may or may not have
committed. A process may die between any two actions. Time is abstracted to the
facts the code compares: a lease has or has not expired, a reservation has or has
not passed its cutoff, a snooze has or has not elapsed. Definitions named
`Faulty...`, `Dead...`, `Greedy...`, `Eager...` and `Hasty...` are plausible mistakes in
the definition that follows them and take no part in the model. Variables marked
"history" record what happened for the properties; no guard reads them.

## Modules

### BudgetLedger

`spend[u][d]` is `daily_budget.total_usd_cents`, `ledger[t]` the reservation row of
a turn, `turn` and `cost` the handle and the observed cost, `stale` the turns older
than the recovery cutoff, `scan[w]` the selection a recovery run works through.
`Reserve`/`Refuse` are `tryReserveBudget`; `Reconcile`, `Release` and their
`...Errors` forms are the handle's terminal calls with the transactions
`reconcileBudgetReservation` and `releaseBudgetReservation`; `RecoveryScan` and
`RecoveryRelease` are the bounded recovery job; `Purge`, `Midnight`, `Ages` and
`Crash` the environment. Turns of the streaming path, of the journal path and
direct callers differ in what follows an error (`StreamTurns`, `JournalTurns`).
Amounts are cents; a sum is the cardinality of a set of cents (`Cents`), which
lets it be proved about without recursion.

Runs. `budget`: two turns of one user, a streamed one and one of the journal (a
second user would only separate them), share a cap of 3 with estimate 2 and costs 1 or 3, so that under-
and overruns both meet the cap; two days, so that a turn settles after midnight;
two recovery workers with a batch of two. It checks, beside the types, six properties, among them
`CounterMatchesLedger`, `SpendBounded`, `ResolvedOnce` and `NothingStranded`.
With these amounts a second reservation meets the cap but is never open beside an
overrun: `OpenWithinCap` under an overrun (an estimate of 1 too, a million states) is left to its theorem
`AdmissionWithinCap`, which holds for all estimates, costs and caps.
`budget_stream_release` shows a disagreement: the streaming path's "best-effort
release if no model run completed" also releases after a completed run whose answer
could not be stored, so its cost is never charged (`ReleaseMeansNoRun`).

Fairness: one recovery worker's scan is taken when it stays enabled, and a release
that is tried for ever succeeds in the end; turns age. The job is a cron job that
runs every ten minutes and database errors are transient. Nothing is assumed of
turns, which may hang or die.

### PersistenceOutbox

`message[k]` is what is stored under an idempotency key, `row[k]` the outbox row,
`writer[x]` a turn's attempt to write, `job[w]` a recovery run with the row it
claimed. The writer is that of a user or assistant message: insert, catch, enqueue.
The other writers of the outbox differ where the model does not see it: an opinion has its
thread checked by a foreign key; telemetry and traces do not ask for the thread and outlive
it, so theirs are keys whose thread is never deleted; a trace is inserted with `DO UPDATE`,
which changes nothing as its key has one content. `Claim` is the
conditional update of `claimOne`; `ReplayWrites`/`ReplayErrs`/`ReplayEnqueues` are
the replay through the same writer, which queues its own failure before it throws;
`MarkCompleted`/`MarkFailed` are conditional on status and token.

The outbox implements `OwedWrite` (below) with its rows: `EntryOf` maps an absent row
to idle, a completed one to done, a dead one to dropped and every other to owed.

Runs. `outbox`: a reply and an interruption marker under one key, two overlapping
runs, three attempts: enough for a take-over, a late mark and a last attempt at
once. Keys share nothing, so one suffices. `outbox_dead_letter`: the last failed
replay is not marked dead, because the writer it calls has already put the row back
to pending (`LastAttemptMarksDead`).

Fairness: a run that does not crash goes on, locks and backoffs elapse, and a row
that is claimable again and again is claimed (rows are taken in due order, up to 25
a run, every minute). Writers are not assumed to do anything, and runs may crash
for ever.

### AlertDelivery

One row, since alerts share nothing: `row`, the channels that are `configured`, the
market `value`, `run[r]` with its copy of the rule, and two history variables.
`List`, `Decide`, `WriteBaseline`, `Claim`, `Accepted`, `Mark`, `Release` follow
`evaluateAlerts`, `deliverAlert` and the conditional updates of `persistence.ts`;
`Unconfigured` is the loop's early return; `PushesDead` the web-push case in which
every subscription is gone, and `PushThrows` its database errors, which the evaluator
answers with a release; `EditRule`, `SwitchOn`, `SwitchOff`, `DeleteAlert` the user;
`LeaseExpires` may happen under a live run. A `firedAt` that a PATCH writes by hand keeps an
alert from being evaluated as `active = false` does and is the status `off`; `fired` is what
a mark leaves behind. Left out: a PATCH of the channels. A run uses the channels of its copy,
and the model has one list for all runs.

Runs. `alert`: two overlapping runs, a level rule and a crossing rule, two channels,
a market that is low or high. Two runs are what every race here takes: one that lost
its claim and one that holds it; the third party of a late release is the same run
in its next round.

Fairness: cron runs are started every minute and go on; outages end (strong fairness
of claim, acceptance and mark over all runs). `Timely` adds that from some time on a
lease of 30 minutes outlives calls of 30 seconds; without it two runs could take the
claim from each other for ever. Only the liveness property uses it.

### IpnWebhook

`event[e]` is the `ipn_events` row of a payment and status, `letter[e]` the dead
letter with its replay token, `payment` and `subscription` the rows the writes go to,
`run[x]` a delivery or a replay between two statements. `Receive` and `Reclaim` are
the three statements of `claimIpnEvent`; `WritePayment`, `WriteSubscription`,
`MarkProcessed` are `processVerifiedIpnPayload`, shared by deliveries and replays;
`RecordFailure` and `ReleaseClaim` the catch block; `ClaimLetter`, `MarkReplayed`,
`ReleaseLetter` the replay route, which does not claim the event. `Crash` covers
process death, time-outs and the 500 answers.
The subscriptions start as `active`, which is what checkout sets; a payment whose
subscription is null writes none (`SubscriptionOf`), which the theorems cover and the run,
whose one payment has a subscription, does not.

Runs. `ipn`: one event delivered up to three times, two deliveries and two replays at
a time. Three deliveries are needed for two redeliveries to meet an expired claim; two
replays for a lease to be lost to another. Events meet only in the payment and
subscription rows, which no condition reads, so one event is enough for the run; the
theorems are about any number.

Fairness: operators return to a letter until it is closed, also to one whose replay
died (the cron alert on old letters counts pending ones only, so this is an assumption
about people, not about code); errors end; `Timely` says that a replay of three updates
ends within its ten minutes. Deliveries are not assumed to do anything. A delivery is
assumed never to outlive its five minutes, as `maxDuration` stops it after 30 seconds;
a replay may outlive its lease.

### OwedWrite

An abstract specification: a key becomes owed, its content is stored once, and the key is
done only when the content is stored or its thread is gone; it may be dropped, and
forgotten when settled. It says nothing of leases, attempts or time. `PersistenceOutbox`
may reopen only a dropped (dead) entry, `AnalysisQueue` also a done one (`Reopenable`).
Both runs check `ImplementsOwedWrite`, and both refinements are proved.

### AnalysisQueue

`rec[r]` is the workflow record of a run: status, payload with attempts and lease, result,
age; `poll[w]` a poll of the worker, `copy[w]` the records it listed, `beats` heartbeats on
their way, `late[r]` submissions that found no record. Each call of the workflow store is
an action: `ClaimLists`, `Stamp` and `Verify` are the three of a claim, `SweepLists` and
`SweepOne` those of stale recovery; `Persist` replaces a record by a copy read earlier and
`SetStatus` changes whatever is there, which is what all races here are about. The advisory
lock is only tried and restrains nothing, so it is not a variable. `EngineWrites` is the
external workflow engine, which continues the record under the same id and may overwrite
its status and drop its payload: nothing in `src/` says that it does not.

Run. `queue`: one run, two submissions, two polls, two attempts (the code has three; two
are a first and a last one). A run meets others only in the order of a poll's candidates,
which is abstracted. `EveryAttemptTried` says that recovery gives a run up only after as many
claims as attempts; a late copy can lower the count of attempts, never raise it.
`RunDecided` lets a record that the engine made unreadable escape: recovery then requeues an
empty payload, whose next claim fails for good. A run that the engine finished and whose
poll then died counts as dropped: it is reported complete without the worker's result.

Fairness: polls go on every three seconds and their calls return; a claimed run ends within
its models' timeouts; and polls die and overlap only finitely often, since a late write in
every round could keep a run from being decided for ever. No poll spends five minutes
between two calls of one claim or sweep; it may spend them at work.

### CronScheduler

`row` is the `cron_runs` row of one job and date, `guard[p]` the entry of the job in a
process's `_runningJobs` with its age, `inv[i]` a call of `runJobSafely`, `cleaning` the
processes whose startup cleanup is still on its way. `Reclaim` and `Insert` are the two
statements of `acquireCronLock`, `AcquireErrs` their failures with the one retry, after
which the job runs without a lock; `Marks` is the update of `done` and `fail`, which asks
for no status. `JobDone` is the mark and the `finally` block at once; what may come between
them is in `DoneErrs` followed by a `JobFails` that writes nothing. The abort after `JOB_TIMEOUT_MS` is advice, so a job may run for ever.

Run. `cron`: two schedulers, as while a deployment replaces one, the first with two runs of
the job, as after its timer pruned the guard of a run that is still alive. Deadlock is
checked. Fairness: statements return, the timer fires; nothing of jobs.

### TickPipeline

`batch` is `pendingTicks`, `buffer` the `TickBuffer`, `bar` the aggregator's open bars,
`flight` the upserts under way with what they write, `inserts` the bars on their way to
`candles_1m`. `Feed` is `Candle1mAggregator.feed` as a function, `Take` what one tick does to
the open bars and the closed ones, and `Taken` its fold over a batch; `fed[v]` is the history
of what the process of life `v` was fed, in order;
`FlushStarts`, `FlushOK`, `FlushErrs` are the peek, the write and the drain, `Stop`,
`StopFlushes`, `StopOK`, `StopErrs` the steps of `stop()`; `Die` is a crash or the end.

Run. `ticks`: eighteen streams of four ticks of two symbols, which contain every shape of a
bar (one tick, rising, falling, a gap, a late tick), and two lives. `TickRetained` excepts
what the code accepts: a tick that arrives between a snapshot and its drain (`dropped`; the
comment in `runSingleFlush` names the window) and a final flush that started beside one in
flight (`raced`; `stop()` does not look at `flushInFlight`, so the older snapshot may be
written last). `BarsAreFaithful` compares each bar with a definition of open, high, low,
close and count over the history of what its process was fed. The order of arrival is
trusted, as the code does. Not held to a property, but in the model: the timer set again
after `stop()`, a failed insert that loses its bar, and a bar cut by a restart, whose second
half finds the key taken.

Fairness: timers fire; a flush that is tried again and again succeeds.

### MarketStreams

`managed` is what `SymbolManager` knows, `list` and `opts` the two arrays of the
SignalR consumer that start as one (`aliased`), `conn[c]` a hub connection with its
subscriptions and unanswered calls, `ws`, `streams`, `symbols` the Binance socket. `Poll`
runs both event handlers; `Drop`, `Reconnected`, `GivesUp` are the SDK's; `RebuildStarts`,
`RebuildFindsStarted`, `Connects`, `ConnectFails` the manual rebuild.

Runs. `streams`: a symbol of each kind, two connections, as a rebuild whose first
subscription failed leaves its connection behind (`leaked`, excepted from
`SubscriptionsFollow`). `streams_rebuild`: the array of the options is not the list once a
symbol was removed, so symbols asked for since are not resent by a rebuild
(`AskedIsResent`). Two calls beyond those of a poll are enough for a reconnection to meet
both. Assumed of the hub: it answers the calls of a connection in order, and a call fails
only with its connection; polls are five minutes apart, so one finds the calls of the last
over. A poll under way when `stop()` clears the interval may land after it; how many do is
not counted. In the model without a property: changes while the consumer is not started are
never repeated, and a Binance socket that closed without symbols is not opened again.

Fairness: the SDK restores a connection or gives it up, timers fire, a connection tried
again and again is made.

### Checkout

`attempt[k]` is the row of an idempotency key with its claim (`token`, `lease`),
`subscription` and `payments` the rows of the books, `req[q]` a request between two
statements. `Claim`, `Read`, `Resume`, `Reclaim` are the four statements of
`claimCheckoutAttempt`; `CreateInvoice` the provider; `Save`, `Select`, `Update`/`Insert`,
`Pay`, `Complete` and `Fail` the rest of the route. Each has its error, after or before the
commit. A key used for another plan is refused without a change of state and left out, as
are cancellations: checkout alone writes only active subscriptions, so its second insert
always meets the partial index.

Run. `checkout`: one key, two overlapping requests, three provider invoices: a first one, a
retry's, and one nobody knows of. Keys meet only in the subscription row, whose insert and
update both occur with one key, as the second attempt of a key finds the row of the first;
with two keys the safety part has 424,000 states and holds as well. Deadlock is checked.
`RetryCompletes` excepts a pending claim whose request died (`Wedged`): nothing reclaims it,
as the comment of `claimCheckoutAttempt` says ("remain in progress until explicitly failed").

Fairness: the client repeats its key until it has an answer; errors, deaths and outlived
leases come to an end.

## Disagreements

Three have a run of their own: `ReleaseMeansNoRun`, `LastAttemptMarksDead`,
`AskedIsResent`. The others are defined at the end of their modules; put into the run's
configuration (`ClaimedOnce` and `AcknowledgedIsKept` as an INVARIANT, the others, which are
action formulas, as a PROPERTY), TLC shows how the code breaks them.

| Definition | What a comment or document says | What the code does |
|---|---|---|
| `RetryOverwrites` (outbox) | "a successful retry overwrites this with the real assistant reply", `mastra-canonical-chat-stream.ts:136` | the insert is `ON CONFLICT DO NOTHING`: the interruption marker stays |
| `ConfiguredChannelTried` (alerts) | "Pick the first configured channel that can actually deliver", `delivery.ts:61` | a channel that is not configured ends the delivery |
| `EachFireIsACrossing` (alerts) | `previousValue` is the value of the previous evaluation, `schemas/alerts.ts:58` | a match does not refresh it: a snoozed rule fires again without a crossing |
| `AcknowledgedIsKept` (webhook) | "Failed webhook processing ... must be stored in a dead-letter table", `BILLING-WEBHOOK-SAFETY-GATE.md:25` | a redelivery that meets a claim is told 200; if the claimer dies, nothing is left |
| `CreditedOnce` (webhook) | "processing the same event twice must not double-charge or double-credit", the same, line 65 | the period is counted from the moment of each application |
| `ClaimedOnce` (queue) | "serializes the claim scan so two workers cannot both claim the same pending run", `advisory-lock.ts` | the lock is only tried, and the claim is read, write, verify |
| `SkipMeansGiven` (cron) | "a duplicate is acceptable for idempotent jobs, but a missed run is worse", `scheduler.ts:204` | an insert whose answer was lost makes the retry find its own row and skip the day |
| `CleanupReleases` (cron) | "the idempotency lock releases for the next scheduled run", `scheduler.ts:144` | the row is marked, not removed, and its insert conflicts all day |

## What is proved

The proofs are about every value of the constants under the named assumptions:
`TurnsAssumption`, `AmountsAssumption` (finitely many turns, natural amounts, caps up to
`MaxCap`), `WritesAssumption`, `RulesAssumption`, `EventsAssumption`, `CheckoutAssumption`,
`QueueAssumption`, `PipelineAssumption` and `NoneIsNothing`, `CronAssumption`,
`StreamsAssumption`. TLC evaluates the assumptions in the runs. Every invariant, action
property and refinement that a passing run checks is a theorem; liveness is not.

* `BudgetLedgerProofs`: `TypeCorrect`; `Conservation` (counter = ledger);
  `AdmissionWithinCap` and `OverrunBoundsSpend`; `Resolution` (resolved rows never
  change); `Settlement` (`SettledChargesCost`). The argument: each transaction changes one turn's share of one day, and a
  reservation that is open is part of the counter, so the clamp at zero in the code
  never takes effect; that is why conservation must be proved together with the fact
  that a turn that has not reserved has no row. The caps follow because admission
  compares the whole counter, which is at least the open reservations. For `Settlement`,
  `HeldWhileFresh` says that a turn which has not reached the recovery cutoff still holds an
  open reservation: whatever a recovery run has selected is older.
* `PersistenceOutboxProofs`: `TypeCorrect`; `Durability` (completed is stored);
  `Exclusion` (a live lock is not taken); `Finality` (completed rows stay); `Refinement`
  (the outbox implements `OwedWrite`). The strengthening `Stored` relates a run that has
  written to the key it wrote, and the payload of a row to the key of its run; with it every
  step of the outbox is a step of `OwedWrite` or leaves its variables alone.
* `AlertDeliveryProofs`: `TypeCorrect`; `SingleDelivery`; `Retirement`. `Safe` says that
  a run that delivers holds the claim unless it has lapsed, and that what it accepted
  was delivered since the alert was armed.
* `IpnWebhookProofs`: `TypeCorrect`; `Exclusion` (one delivery per event), from the
  invariant that a delivery at work finds its event processing or processed;
  `AppliedWhenProcessed`; `Recovery` and `Closure`, from the invariant that a replay which
  still holds its letter and is past the subscription has applied the event since its
  last recorded failure, and that a delivery about to release its claim left a letter or
  an application behind.
* `CheckoutProofs`: `TypeCorrect`; `Exclusion` (one bookkeeper per key); `Completeness` (a
  completed checkout is booked). `KeepsBooks` says of each request what it has written
  before the step it is at, that its claim, while its lease lasts, is still in the row, and
  that a claim it still holds is for its own invoice. The types need the last part too: a
  row that becomes completed has an invoice only because its holder has one.
* `AnalysisQueueProofs`: `TypeCorrect`; `Attempts` (`EveryAttemptTried`); `Refinement` (the
  queue implements `OwedWrite`). `AttemptsCounted` says that no record counts more attempts
  than its run was claimed, and neither does any copy a poll or a sweep may still write;
  `ResultStored` says the same of results: a record or a copy that has one, and a poll about
  to write one, have their reply stored. Both must speak of the copies, as a copy may be
  written back over anything at any later time.
* `TickPipelineProofs`: `TypeCorrect`; `Retention` (`TickRetained`); `Bars`
  (`BarsAreFaithful`). `RetainInv` says that what the buffer holds is a newest tick, and what
  is being written has something as new in the buffer until `stop()` starts its last write.
  For the bars, `BarsInv` says that the open bar of a symbol is the bar of what was fed
  so far, and that a bar which was closed is `Sealed`: no later tick can count in it, because
  one of a later minute was fed, or its process is gone. A batch is fed by a fold, which is
  unrolled into a chain of states (`FoldIsChain`); the induction along the chain is by the
  least index at which a claim fails, so that no induction theorem with an operator parameter
  is needed. `OneLoop` is the safety half of `BufferIsFlushed`: the flush loop is a timer or
  one write, so that in a running process either a flush can start or one can return. Its
  invariant needs that no two writes of the loop are in flight (part of `TypeInv`), or the
  timer set by the first to return would double the loop.
* `WorkerProofs`, of the daily job: `CronTypeCorrect`; `DailyLock` (`OncePerDay`), as an
  inserted row is never removed, so that a second lock can only come from a reclaim;
  `Overlap`, from `Guarded`: a live run is behind its process's guard, or the timer has
  pruned it. Of the market streams: `StreamsTypeCorrect`; `Follow` (`SubscriptionsFollow`).
  `StreamsInv` accounts for each symbol of the list (`Accounted`): the calls under way end
  with it subscribed, or one of them takes it off the list. A reconnection keeps that by
  sending the whole list; a rebuild sends the array of the options, which is the list only
  because nothing was removed since `start()` set it: no poll reaches a consumer that is
  not started, and the boot call is a connection's first (`StartsOnce`). All of it needs
  the connection to be the only one, which is what `leaked` excepts. Two safety halves of
  liveness properties are here: `NoOrphanGuard` (a set guard has a live run of its process
  behind it, whose end frees it), for `GuardReleased`; `NeverForgotten` (until it is stopped, a
  consumer has a connection or a timer that will make one, and one that calls itself started
  has a connection that is up or retrying), for `StreamsReturn`. The two
  parts share a proof module as they share a process; the daily job's names say `Cron`.

The proof of AnalysisQueue's types corrected `Verify`, in how a poll that lost its claim goes
on with its next candidate: a case that the run, which has one run of the queue, does not
have.

Only model-checked: the liveness properties (`NothingStranded`, `RowProgresses`,
`NoSilentAlert`, `FailureResolved`, `RunDecided`, `GuardReleased`, `BufferIsFlushed`,
`StreamsReturn`, `RetryCompletes`), as the prover does not reason about fairness and
`ENABLED`; of three of them the safety half is proved (`OneLoop`, `NoOrphanGuard`,
`NeverForgotten`). What TLC evaluates and no theorem covers, too: the disagreements, which are
about counterexamples.

## Not modelled, and why

Prompting, routing and tool calls are nondeterministic and external; their effects on
budget and messages are the ledger's and the outbox's environment. Indicators, report
verification and noise control are pure functions with unit tests. Data providers,
caches, pings and the user interface are I/O. Message texts, prices, amounts in crypto
currency, signatures and payload validation are abstracted: an invalid request changes no
state. A payment notification has no order relative to others of its payment: the code
promises none.

## Plan

1. Proofs: the safety half of the other liveness properties, that is, the invariant by
   which the step that ends the wait is possible whenever something waits: for
   `NothingStranded`, `RowProgresses`, `NoSilentAlert`, `FailureResolved`, `RunDecided` and
   `RetryCompletes`.
2. **Billing**: checkout and webhook composed over the payment and subscription rows. A
   subscription is active from its checkout on, while the schema speaks of confirmed payments.
3. The circuit breaker, provider health and quotas, as small modules with a clock, and the
   confirmation of mutations once the workflow engine's part can be stated.
