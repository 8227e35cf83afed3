# Taktflow in TLA+

Taktflow is a multi-tenant event pipeline: a producer posts an event to a topic
through the API, the event fans out to one *delivery* per consumer of the topic,
and worker processes POST the deliveries to the consumers' endpoints, with
retries, time-outs and a dead-letter queue. Everything the processes share is in
one PostgreSQL database. This directory models the delivery queue and the parts of
the API and the worker around it, states what they promise, model-checks that with TLC
and proves the invariants that matter most with TLAPS.

Paths below are relative to the repository (`src/...`).

## The system

| Part | State | Operations | What is hard, and what makes it correct |
|---|---|---|---|
| Queue engine (`taktflow-persistence/queue/postgres-queue-engine.ts`, `repositories/event-delivery-repository.ts`) | rows of `event_deliveries`, `events`, `dead_letter_events` | `enqueue`, `claim`, `claimForConsumer`, `acknowledge`, `markAwaitingAck`, `releaseToPending`, `scheduleRetry`, `moveToDeadLetter`, `syncEventStatus`, `resetTimedOutAcks`, `releaseStuckDeliveries` | updates name a row by id and do not look at its status; a claim outlives its transaction; the event's status is an aggregate written at READ COMMITTED. One handler at a time per row, a failed row has its dead letter, a final event status was earned |
| Delivery loop (`taktflow-worker/services/delivery-service.ts`) | the jobs of a batch, each with its copy of the row | `claimAndDeliver`, `deliver`, `handleResponse` | acts several statements after it read; any call may throw, also in the catch block; the process may die |
| Retry service (`taktflow-worker/services/retry-service.ts`) | two timers | `scheduleRetryOrDeadLetter`, `resetTimedOutAcks`, `releaseStuckDeliveries` | decides on the attempt read at the claim; a timer may fire on a row someone works on |
| Consumer service (`taktflow-application/services/consumer.service.ts`) | `consumers.status` | `consume`, `acknowledge`, `pause`, `resume`, `delete`, `createPush`, `createPull`, `update` | a report names an event, not a delivery, and races the worker |
| Event producer (`event.service.ts`, `usage.service.ts`) | events, deliveries, the month's count | `produce` | quota and idempotency are checked before a separate write; the fan-out is many inserts |
| Dead-letter replay (`dead-letter.service.ts`) | `replayed` | `replay` | check, enqueue and mark are three statements |
| Scheduler (`scheduler-service.ts`, `schedule.service.ts`) | `schedules.next_run` | `processDueSchedules`, `fire`, `create` | several workers; event, deliveries and `next_run` are written one after the other |
| Worker life cycle (`recurring-task.helper.ts`, `worker.ts`, `index.ts`) | timers, active run, `shuttingDown` | `start`, `stop`, `schedule`, `execute`, `shutdown` | a stop during a run; a forced exit; jobs that outlive their batch |
| Metrics (`metrics-service.ts`) | counters in memory and in `project_metrics` | `recordSuccess`, `recordFailure`, `flush`, `stop` | cleared before they are written |
| Cleanup (`cleanup-service.ts`, `partition.helper.ts`) | partitions, old rows | the five steps of `tick` | a failing step skips the rest; calendar arithmetic |
| Sessions (`auth.service.ts`) | a user's refresh token | `register`, `login`, `logout`, `refresh`, `reactivateTenant` | rotation by read and write |
| Tenants, topics, users, API keys | their rows | create, update, soft delete | checks followed by writes |
| HTTP layer (`taktflow-api`) | none of its own | routes, validation, authentication | maps requests to the services |

The parts meet in the database only: a worker and the API never call each other.
A consumer's endpoint answers the worker's POST, and reports through the API.

## The modules

| Module | What it is | Run |
|---|---|---|
| `DeliveryQueue` | queue engine, delivery loop, retry service and the consumer service's `consume`, `acknowledge`, `pause`, `resume`, `delete`, composed | `MCDeliveryQueue` |
| `DeliveryContract` | the abstract promise: a delivery is settled once and for good; a failed one leaves one dead letter, a delivered one none | refined by `DeliveryQueue` |
| `PollOrder` | the order in which a poll takes rows, which `DeliveryQueue` leaves open | `MCPollOrder`, `MCWorker` |
| `ProduceEvent` | `EventService.produce`: quota, idempotency key, fan-out | `MCProducers` |
| `DeadLetterReplay` | `DeadLetterService.replay`, several operators | `MCProducers` |
| `PayloadChecksum` | the checksum of a payload and the key orders of JavaScript and jsonb | `MCProducers` |
| `Producers` | these three side by side | `MCProducers` |
| `Scheduler` | `ScheduleService.create`, `SchedulerService` in several workers | `MCWorker` |
| `TaskContract`, `RecurringTask` | what the worker's services rely on in their loop, and the loop | `MCWorker` |
| `WorkerShutdown` | a worker process from boot to exit, with the metrics it keeps in memory | `MCWorker` |
| `Cleanup` | the five steps of a clean-up tick, and the calendar | `MCWorker` |
| `Accounts` | `AuthService.register`, `UserService.create`, deletion of users | `MCRecords` |
| `Session` | sign-in, refresh, log-out, profile, deletion and reactivation | `MCRecords` |
| `Registry` | topics, consumers, schedules and API keys as checks followed by writes | `MCRecords` |
| `Paging` | a client that walks through a list while rows come and go | `MCRecords` |
| `Tenancy` | what keeps tenants apart in shared tables: the context of each request and job | `MCTenancy` |
| `DeliveryQueueProofs`, `TenancyProofs` | theorems about `DeliveryQueue` and `Tenancy` | |
| `ProducersProofs` | theorems about the parts of `Producers` | |
| `SchedulerProofs`, `WorkerProofs`, `CleanupProofs` | theorems about the parts of `MCWorker` | |
| `RecordsProofs`, `PagingProofs` | theorems about the parts of `MCRecords` | |

Who composes whom. `DeliveryQueue` is itself a composition: worker slots, timers and
API requests act on one set of rows. The other modules meet it at an interface: to
`ProduceEvent` and `Scheduler` a delivery is a pair that is inserted (`Enqueue` there),
to `DeadLetterReplay` the queue is something that ends an open row delivered or failed
(`DeliveryContract`), and `WorkerShutdown` takes each service's loop by `TaskContract`,
which `RecurringTask` implements. `Tenancy` runs requests and jobs of all kinds
together, reduced to the references and tenants of rows.

Side by side. `MCProducers`, `MCRecords` and `MCWorker` each check several components
that share no variable. Their variable `part` never changes; it says which component a
behaviour is about, and the others rest in an initial state of theirs. A behaviour of
the combination is thus a behaviour of one component plus constants, the state count is
the sum and not the product, and each property is asked of each component as if it
were alone. `MCRecords` and `MCProducers` also use `part` to give one component two
small instances (two topics, or one topic with its children; the quota, or the
fan-out). A property has one definition, in the module that is checked (or in `Producers`,
which `MCProducers` extends with its payloads and its instances), and
runs and theorems both refer to it; the parts are the instances `Replay`, `Checksum`,
`Auth`, `Kept`, `Cron`, `Proc`, `Cleaning` and so on. `PartsStandAlone` proves that a
behaviour of `MCProducers`, `MCRecords` or `MCWorker` is a behaviour of each of the parts
it names.

### DeliveryQueue and the code

State. `status`, `retryCount`, `startedAt` are the columns of `event_deliveries`
(`startedAt` only as null or not: every property turns on whether a timer can find
the row, not on the time). `eventStatus` is `events.status`. `deadLetters` counts
the rows of `dead_letter_events` by delivery and by cause: *fatal* (consumer
deleted, checksum mismatch, 4xx), *exhausted* (the worker's retries) and
*reported* (the API's). `consumerStatus` adds "deleted" for a set `deleted_at`.
`handler[h]` is one running `deliver()` (a slot of a worker's batch) or one
acknowledge request; its `pc` names the call it makes next and its `attempt` is the
`retry_count` it read. `batch[w]` is the set of jobs the worker's `Promise.all`
still waits for: the recurring task polls again only when the run ended.
`evidence` is history, for the properties.

Steps. One SQL statement is one step. A transaction is one step too, except
`moveToDeadLetter`: its last statement aggregates the event's rows before the
commit, and another process can commit in between, so `BeginDeadLetter` takes the
aggregate (and the row lock) and `CommitDeadLetter` publishes. The same window
exists in the single UPDATE of `syncEventStatus`, whose sub-select is not
re-evaluated when the UPDATE waits for the event's row: `AggregateRows`, then
`SyncEventStatus`.

| Action | Code |
|---|---|
| `Enqueue(d)` | `enqueue` 28-40 |
| `Claim(w)` | `claimAndDeliver` 49-58 with `claim` 42-78 |
| `Consume(c)` | `consume` 133-137 with `claimForConsumer` 80-117 |
| `LookUp` | `deliver` 60-94: event, consumer, paused, pull, checksum |
| `Respond` | the fetch and the branches of `handleResponse`; "error" is a failed or timed-out request |
| `RetryOrBury` | `scheduleRetryOrDeadLetter` |
| `MarkAwaitingAck`, `ReleaseToPending`, `ScheduleRetry`, `Acknowledge` | the engine's updates |
| `AggregateRows`, `SyncEventStatus`, `BeginDeadLetter`, `CommitDeadLetter` | `syncEventStatus`, `moveToDeadLetter` |
| `AcknowledgeEvent` | `ConsumerService.acknowledge` up to its call of the engine |
| `ResetTimedOutAcks`, `ReleaseStuckDeliveries` | the timers' updates |
| `DbError` | a call throws: the catch block of `deliver` (`CatchError`), a throw in that block, which rejects the batch's `Promise.all` (`RejectBatch`), a 500 of the API (`FailRequest`) |
| `WorkerCrash`, `ApiCrash` | the process dies, or `shutdown` forces an exit; an open transaction is rolled back |

Left out of this module, with the reason. *Time*: a row is due, or overdue, whenever its columns
allow it, which includes every real timing. *Order of a claim*: in `PollOrder`.
*`deliver` finding no event*: a delivery's foreign key deletes it with its event.
*A call that took effect and then reports an error* (a connection lost at the
commit): only calls that fail without effect are modelled. *Payloads, tenants,
response columns, logging, metrics*: no property here is about them.
*Who enqueues*: `EventService`, the scheduler and the replay; here a row is simply
there, or appears.

New rows. A row whose event nobody has touched may as well be there from the start.
`LateRows` are the others, the rest of a fan-out that a fast worker overtakes, or a
replayed dead letter: `Enqueue` inserts one at any time, also when its event is
settled. The claim does not reopen such an event (only a *pending* one becomes
*processing*), so what a final status says holds of the rows not enqueued late:
`EventNeverAhead` and `FinalEventEarned` except late rows.

Two switches say how benign the timing is. `LateTimers` lets a timer fire on a row
whose handler is still at work: nothing in `worker.config.ts` relates
`WORKER_STUCK_THRESHOLD_MS` to `WORKER_DELIVERY_TIMEOUT_MS`, and a loop can be
delayed. `RacingAcks` lets a consumer report before the worker has recorded its
answer. The invariants a reader would lean on most hold with both on; the contract
and the lease need both off, as the table of runs says.

### The other modules and the code

**ProduceEvent.** One `pc` per request names the statement it makes next:
`assertWithinLimit` (`CheckLimit`, the count of the month), the topic and the size of the
payload, the look-up by idempotency key, the INSERT (which fails on the unique index of
migration 0008), the one page of consumers, and an INSERT for each. `stamp` is the time
the `Event` object was made, which is what the quota counts, not the time of the INSERT.
The scheduler's events count too. Consumers, topic and tenant may be changed at any
time, a call may throw, the process may die.

**DeadLetterReplay.** Look-up of the letter, look-up of the consumer, INSERT of the new
row, UPDATE of `replayed`. Rows end by themselves; a copy that fails has a letter that
can be replayed in turn.

**PayloadChecksum.** A document is a function from paths to objects and arrays, each the
sequence of its entries in the order `JSON.stringify` visits them; an entry that has an
object or array inside says so (`Inside`), and the path that ends with its key leads there.
The recursion of `sortKeys` over a value of any depth is thus one pass over the places of a
document. `CanonicalJson`, `Stringify` and `Jsonb` are the code's and the database's
conversions, made of three sorts that are constants (`ByCodeUnit`, `ByIndex` for the
integer keys JavaScript visits first, `ByLength`), and the checksum is the text. The parser
has no state: the run takes every payload of two levels within `MaxKeys`, the theorem
any documents and any three strict total orders.

**Scheduler.** `job[w][s]` is what worker `w` does for schedule `s` of its batch: insert
the event, read the consumers, insert the deliveries, parse the cron expression, move
`next_run`. A slot is the `next_run` a worker read. Expressions are "each `Period`" or one
that does not parse. `LateUpdates` lets a firing last into the next slot.

**RecurringTask.** `timer`, `active` and `stopped` are the object's three fields; `pending`
is what Node has scheduled, `running` and `settled` the runs whose `run()` is in progress
or whose `finally` handler is due, `waiting` who awaits `stop()`. The mapping to
`TaskContract`: on is `~stopped`, busy is `running \cup settled`, asked is who waits. As
in `worker.ts`, nobody calls `start` while a `stop` is outstanding.

**WorkerShutdown.** `on` and `busy` are the contract's state of each service, `job` and
`batch` the deliveries in hand and those `Promise.all` still waits for. `counts`,
`snapshot` and `stored` are the maps of `MetricsService`, what a flush has taken out of
them and not written, and the table. `phase` follows `shutdown` in `index.ts` and
`Worker.stop`: services, metrics, pool, exit; `ForceExit` is its timer. The handlers of
signals are registered with `once`, so a repeated one kills the process (`SecondSignal`).

**Cleanup.** A tick is reset, list, drop, create, purge of letters, purge of deliveries;
each may throw and end the tick, and midnight may come between two. Days are counted in
a calendar in which the first day of each month is given (`Firsts`, `MonthOf`). `Tables` and
`Partitioned` say which database it runs on: the one the service takes for granted, or
the one the migrations make. The reset of `events_today` is an UPDATE of `tenant_metrics`,
a table no migration makes; the counts themselves are in `project_metrics`, which only
`WorkerShutdown` writes. So `Reset` changes nothing here but whether the tick goes on.

**Accounts, Session, Registry.** A request is a `pc` and what it has read. `Accounts` has
the INSERTs of tenant and user and the unique index on e-mails; `Session` one user row,
named tokens, the tenant's `deleted_at` and a clock for expiry and grace period;
`Registry` the look-ups and UPDATEs by id of topics, children and keys. `gone` and `stale` in a
request are history: what was so already when it started.

**Paging.** Pages are sorted by `createdAt` and nothing else, and several rows may have
one: `Listings` is the set of orders the database may answer in, and each page may be of
another one. A page is two statements, items and count, in either order. One client reads
until a page is not full, another until `totalPages`.

**Tenancy.** `identity[x]` is the tenant that task `x` was authenticated as, or whose
delivery or schedule it runs; `context[x]` is what `AsyncLocalStorage` gives its
statements. `Visible` is `requiredFilters` with the soft delete; `NewRow` is the INSERT,
with the tenant of the request. `Take`, `Settle`, `ClaimJob`, `Release` are statements of
the queue engine, which name no tenant or all. `letters` are the deliveries that have a
dead letter, which outlives the status *failed*. A request may name any row.
`superAdminMiddleware`, `assertTenantOwnership` and `requireTenantId` are called by
nothing.

## Properties and runs

| Run | Checks | Instance |
|---|---|---|
| `racing` | `PendingEventUntouched`, `FinalEventEarned` | 2 rows of 1 event, 2 workers, both switches on |
| `racing_row` | `FailedIsBuried`, `DeliveredHasEvidence`, `GivesUpNoEarlier` | 1 row, 2 workers and an API request, 1 failing call, both switches on |
| `orderly` | `LeaseIsKept`, `KeepsContract` | 2 events (one with a wrong checksum) of a row each, 2 workers, an API request, 1 crash; switches off, no failing call |
| `one_event` | `EventNeverAhead` | 2 rows of 1 event and a late third one, a push and a pull consumer, 2 workers, 1 crash; switches off, no reports, no failing call |
| `settles` | `AwaitingAckEnds`, `EventuallySettled` | 2 rows of one consumer, one of them late, 1 worker, 1 crash, 1 failing call; fair |
| `late_202` | `AwaitingAckEnds`, found violated | 1 row, 1 worker, `LateTimers`; fair |
| `full` | `PushesAreServed`, found violated | 2 pushes, 1 row nobody pulls, a batch of 1; fair |
| `producers` | `QuotaOvershootBounded`, `OneAnswerPerKey`, `CreatedMeansFannedOut`, `ReplayedIsEnqueued`, `CopiesBounded`, `PayloadVerified`, types | 5 requests, 2 at once, a quota of 1, 2 months, 2 consumers, 1 fault; 2 operators, 4 rows; payloads of 2 keys, 2 levels, and rows overwritten with objects of one key |
| `records` | `SessionsEnd`, `WindowCloses`, `AloneNeverFails`, `GoneIsRefused`, `UpdatesAddUp`, `WalkIsSound`, types | 2 registrations, 2 new users, 2 e-mails, 2 faults; 2 requests on sessions, topics and children; lists of 4 rows, two of them with one `createdAt`, in pages of 2 |
| `worker` | `KeepsContract` (of `RecurringTask`), `RecordedRunReachedAll`, `FiresBounded`, `CountsAddUp`, `QuietWhenDisconnected`, `CleanupLeavesWhole`, `NothingGoesEarly`, types | 3 callers of stop; 2 workers, 2 schedules, 2 faults; 2 tenants, 2 jobs; 34 days across a month's end, on both databases |
| `worker_fair` | `KeepsGoing`, `DueIsFired`, `StopsByItself`, `PushesAreServed`; `TurnsGetOn` | 3 schedules, one that does not parse; a process with jobs and flushes that fail; a batch of 2 with one row nobody pulls; fair |
| `tenancy` | `ReferencesStayHome`, `JobsSeeTheirEvent`, `WritesStayHome` | 2 tenants with a topic and a consumer each, 2 tasks at once, 1 event, 2 deliveries |

Of the queue:

- `FinalEventEarned` is the strongest thing that survives stale aggregates: an
  event that reads *delivered* has had success at each of its deliveries, one that
  reads *failed* has a dead letter and has left no delivery out (late rows aside; the
  run has none, the theorem any set of them). The converse fails
  in the code by design of the SQL: when the last two deliveries end together, each
  snapshot misses the other and the event stays *processing* (write skew).
- `EventNeverAhead` is the same from the reader's side: a final status of the event is
  true of its rows *now*, so a stale aggregate may leave the event behind its rows and
  never ahead of them. It holds because settled rows stay settled, and so has the premises
  of the contract: orderly timing, and no failing call. When the second statement of
  `acknowledge` throws, the catch block puts a delivered row back in the queue, while
  the aggregate of another handler may already count it (found by TLC with
  `MaxDbErrors = 1`). Crashes between the two statements are in the run; reports, which
  would take it beyond five minutes, are in the theorem.
- `PendingEventUntouched` says that the claim's two UPDATEs never part.
- `KeepsContract` maps a row to open/delivered/failed and its dead letters to their
  number. It needs the switches off: with a racing report the worker's later
  `markAwaitingAck` or `scheduleRetry` overwrites *delivered*. It also needs calls
  not to fail: when the second statement of `acknowledge` throws, the catch block
  retries a delivered row.
- `LeaseIsKept` is what makes recovery work: one handler per row (`LeaseIsExclusive`),
  and `started_at` on every row out of the queue (`LeaseIsRecorded`).
- `GivesUpNoEarlier` is about the stale `attempt`: counts only grow, so a decision on
  an old count errs on the side of one retry more.

Of what surrounds it:

- `QuotaOvershootBounded` is exact: `Concurrency` requests may all have counted before
  the first of them inserts. `OneAnswerPerKey` holds because of the index, not of the
  look-up. `CreatedMeansFannedOut` is about the request that inserted the event; see
  below for its retry.
- `ReplayedIsEnqueued` is the order enqueue, then mark; `CopiesBounded` is what is left
  of "once" when operators race or requests die.
- `RecordedRunReachedAll` and `FiresBounded` say the same of schedules: a slot is never
  recorded and incomplete, and repeated at most once per worker and fault.
- `TurnsGetOn`, that is `FiringsMoveOn` and `PushesGetCloser`, is what `DueIsFired` and
  `PushesAreServed` rest on besides fairness. A batch takes the oldest and never looks at whether they can be
  served, so something that can is in it only while what cannot leaves room; and what
  was taken has to be nearer to its end when the worker lets go of it: `next_run` beyond
  the slot that was read, a push settled or its retry counted.
- `PayloadVerified` says of the checksum both things it is for: what is still the value
  that was posted is sent, and what is not is not. Of scheduled payloads only those pass
  whose jsonb order is the sorted one (see below).
- `CountsAddUp` follows each delivery through map, snapshot, table or loss, and says
  that a clean exit without a database error has lost none: the order in which
  `Worker.stop` stops its services is why. `QuietWhenDisconnected` needs the premise
  that nothing failed: a rejected job ends the wait for its batch, and the jobs left over
  may outlive the pool.
- `StopsByItself` has those jobs, failed flushes and an error nobody caught: whatever is in
  progress, the stops resolve one after the other and the process exits without the timer
  that forces it. It rests on `finally` in `RecurringTask`: a run that threw is over too.
- `NothingGoesEarly` covers the cut-off month that was computed before midnight and the
  cascade from a delivery to its dead letter. `CleanupLeavesWhole` has the days on which
  `setMonth` goes wrong: a tick by the 28th makes the partition of the next month; one on
  the 29th to the 31st is only sure to have made that of the next month or of the one after,
  so a month may begin without a partition if no earlier tick of the month before got through.
- `SessionsEnd`, `GoneIsRefused` and `WindowCloses` compare what a request does with what
  was so *when it started*; what is in flight at the deletion, the refresh or the log-out
  may still write.
- `AloneNeverFails` excepts requests that met another one: of two that race for an e-mail
  the index lets one through, and the other is told 500.
- `UpdatesAddUp` excepts updates that were in flight together, of which one is lost.
- `WalkIsSound` is what OFFSET pages promise: inserts repeat rows and hide none from a
  client that reads to a short page, deletes hide rows and repeat none. Both, and that an
  undisturbed walk returns every row, hold only of rows that share their `createdAt` with
  no other: stamps are milliseconds, and rows with one stamp may change places between two
  pages. Of those the property says what is left: the walk returns as many items as
  there are rows, each at a place its stamp allows.
- `ReferencesStayHome` has no foreign key behind it, only look-ups before INSERTs;
  `WritesStayHome` says that they are enough for the statements that do not ask for the
  tenant; `JobsSeeTheirEvent` that no job is lost in silence (`delivery-service.ts:64`).

Bounds. For the queue two rows are enough for each race the code has: two handlers on one
row (a duplicate claim, a timer, a report), or two rows of one event (the aggregate). A
third handler adds nothing new, since a handler meets the others only through the row and
the event. `MaxAttempts = 1` lets both branches of the retry decision occur. `RetryCap`
and `LetterCap` saturate counters that are only compared with `>=` a smaller bound
(`ConstantsAssumption` says smaller), so no behaviour is lost; in `orderly`, `LetterCap =
2` so that a second dead letter would be seen. In the other modules every check-then-write
needs two requests to race, and a third that comes after both (`producers` has five, two
at once); `Scheduler` needs two workers for a double firing and two consumers for a half
fan-out; `Paging` four rows for two full pages, the two with one stamp on both sides of
the border between them; `Cleanup` days from the end of January to the beginning of March,
which has the short month that `setMonth` skips; `Tenancy` two tenants, since a third is
only another "other one". `FireCap` saturates above the bound that `FiresBounded` states.
`MaxTime`, `MaxMonth`, `LastDay` end the clocks; `MaxCrashes`, `MaxDbErrors` and
`MaxFaults` bound the faults; `MaxRecords`, `MaxCount`, `MaxScheduled`, `MaxLatency` what
their names say. Safety runs use the symmetry of identical workers, requests, tasks and
consumers; the fair ones do not.

`CHECK_DEADLOCK FALSE` is set where the system may really stop: every row settled and
every consumer deleted, every request answered, the worker process gone, the clock at
its bound. `tenancy` checks for deadlock, as there is always another request.

Fairness. In `DeliveryQueue` (`FairSpec`) a job runs to its end: the request to the
endpoint has a time-out and the event loop is fair to callbacks. Queries have none
(`database.ts:18-23` sets no statement time-out), so that every statement is answered, if
only with an error, is an assumption about the database, here and below. A timer that
stays enabled for a row fires: `RecurringTask` re-arms itself after a run, failed or not.
A row that is claimable again and again is claimed (strong fairness): the claim takes the
oldest first and a retry goes behind the rows that are due. This last one is granted only
while the batch has room; `PollOrder` shows both sides. Nothing is assumed of consumers:
`EventuallySettled` supposes that the row's consumer does not stay paused, does not take
rows itself forever, and that the row does not stay answered by 202 (an ack time-out
counts a retry but never gives up, so a 202 answered forever is retried forever).

In `RecurringTask` Node fires the timers it holds, calls the `finally` handlers and
resolves the promises; a run ends, as `run()` awaits requests that have time-outs and
queries that the database is assumed to answer. In `Scheduler` each worker goes on (its
loop is such a task). In `WorkerShutdown` runs, jobs, flushes and the shutdown go on, each
step of them possibly an error; the timer that forces the exit and further signals are not
fair, so `StopsByItself` does not lean on them. For a query that is never answered there
is that timer. In `PollOrder` polls, handlers and the clock go on. In `MCWorker` each of
these conditions holds of its own `part` only.

### What the violated runs show

- `late_202`: the stuck timer clears `started_at` of a row whose worker still waits
  for the endpoint. The 202 then sets *awaiting_ack* over *pending*, and
  `resetTimedOutAcks` compares a null `started_at`: the row is out of the queue for
  good unless its consumer reports.
- `full`: rows the worker cannot push return with their old `scheduled_at`. As many
  of them as a batch holds are taken by every poll, and no push of any tenant is
  claimed.

### Where the code falls short of its docs

Met while modelling, and not run as violations of their own; the properties above are
stated so that they are true of the code with these in it.

- A request that dies between its event and the fan-out leaves an event without
  deliveries; the retry with the same idempotency key is told 201 for it
  (`event.service.ts:43-46`).
- The fan-out reads one page of consumers: the 101st of a topic gets nothing (63).
- Two replays can both pass the check for "already been replayed"
  (`dead-letter.service.ts:36`).
- A cron expression that does not parse throws after the event is inserted and before
  `next_run` moves (`scheduler-service.ts:88-92`): the schedule fires at each poll, and a
  batch of such schedules keeps all others out. A schedule made through the API has no
  `next_run`, which `findDue` compares with the time, and never fires
  (`schedule.service.ts:22`). So `DueIsFired` speaks only of schedules that are due and
  parse, and is checked with a batch that the others do not fill.
- The scheduler takes the checksum of `JSON.stringify` of a payload that comes back from jsonb in
  another key order than `canonicalJson` has (53-54): such an event is dead-lettered as corrupt.
- A refresh that compared the token before a log-out writes a new one after it, and two
  refreshes exchange one token (`auth.service.ts:122-136`).
- An update in flight writes to the row of a user deleted meanwhile
  (`user-root-repository.ts:71`).
- A registration that fails on its user leaves its tenant behind (`auth.service.ts:32`).
- The name of a deleted topic is free to `findByName` and taken for the unique
  constraint (`schema/topics.ts:14`, `topic.service.ts:22`).
- On the migrated database `events` has no partitions, so creating one fails at every
  tick and the two purges after it never run (`cleanup-service.ts:34-36`); the reset of
  `events_today` names `tenant_metrics`, a table that is not there (45), and the counts are in
  `project_metrics`, where nothing resets them.
- Lists are sorted by `created_at` alone, so rows with one stamp may be repeated or skipped
  from page to page (`entity-base-readonly-repository.ts:47-57`).
- On the 29th to the 31st `setMonth` may skip the next month (`cleanup-service.ts:108`): its
  partition is there only if an earlier tick of the month made it.
- The consumers of a topic are paged without ORDER BY (`consumer-repository.ts:25`).
- Consumer health counts rows with status `dead_letter`, which nothing writes
  (`consumer-health.response.ts:26`).
- When the second statement of `acknowledge` fails, the catch block of `deliver` retries
  a delivered row (`delivery-service.ts`).

## Proofs

Every theorem holds for any sets of rows, requests, workers and so on, and any bounds
that satisfy the assumption named in the module (`ConstantsAssumption`,
`TenancyAssumption` and their like, which TLC evaluates in the runs). Where the table
says "if", the theorem has that hypothesis besides. `X!Spec` is the specification of the
part that the module calls `X`.

| Module | Theorem | Statement |
|---|---|---|
| `DeliveryQueueProofs` | `TypeCorrect` | `Spec => [](TypeOK /\ HandlerOK)` |
| | `FailedAlwaysBuried` | `Spec => []FailedIsBuried` |
| | `PendingAlwaysUntouched` | `Spec => []PendingEventUntouched` |
| | `DeliveredAlwaysEvidenced` | `Spec => []DeliveredHasEvidence` |
| | `FinalAlwaysEarned` | `Spec => []FinalEventEarned` |
| | `NeverGivesUpEarlier` | `Spec => []GivesUpNoEarlier` |
| | `LeaseHolds` | `Spec => []LeaseIsKept`, if no timer is late and no report races |
| | `QueueKeepsContract` | `Spec => KeepsContract`, if the same and no call fails: the queue refines `DeliveryContract` |
| | `EventIsNeverAhead` | `Spec => []EventNeverAhead`, if no timer is late, no report races and no call fails |
| `TenancyProofs` | `TypeCorrect` | `Spec => []TypeOK` |
| | `TenantsApart` | `Spec => []ReferencesStayHome` |
| | `EventIsFound` | `Spec => []JobsSeeTheirEvent` |
| | `TasksWriteTheirOwn` | `Spec => WritesStayHome`, an action property |
| `ProducersProofs` | `TypeCorrect` | `Spec => []TypeOK` |
| | `OneEventPerKey` | `Spec => []OneAnswerPerKey` |
| | `CreatedIsFannedOut` | `Spec => []CreatedMeansFannedOut` |
| | `OvershootIsBounded` | `Spec => []QuotaOvershootBounded` |
| | `ReplayTypes` | `Replay!Spec => []Replay!TypeOK` |
| | `TypesHold` | `Spec /\ Replay!Spec => []TypesOK` |
| | `ReplayIsEnqueued` | `Replay!Spec => []ReplayedIsEnqueued` |
| | `FewCopies` | `Replay!Spec => []CopiesBounded` |
| | `PayloadIsVerified` | `Checksum!Spec => []PayloadVerified` |
| | `PartsStandAlone` | `SideBySide => Spec /\ Replay!Spec /\ Checksum!Spec` |
| `SchedulerProofs` | `TypeCorrect` | `Cron!Spec => []Cron!TypeOK` |
| | `RecordedMeansReached` | `Cron!Spec => []RecordedRunReachedAll` |
| | `SlotFiresFewTimes` | `Cron!Spec => []FiresBounded`, if a firing ends before the next slot |
| | `FiredIsMovedOn` | `Cron!Spec => FiringsMoveOn`, an action property |
| `WorkerProofs` | `LoopTypes` | `Spec => []TypeOK` of `RecurringTask` |
| | `LoopIsOne` | `Spec => []OneLoop` |
| | `StopHasTheRun` | `Spec => []ActiveIsTheRun` |
| | `TaskKeepsContract` | `Spec => KeepsContract`: the loop refines `TaskContract` |
| | `ProcessTypes` | `Proc!Spec => []Proc!TypeOK` |
| | `CountsKeptOnce` | `Proc!Spec => []CountsAddUp` |
| | `PoolIsFree` | `Proc!Spec => []QuietWhenDisconnected` |
| | `PollTypes` | `Polls!Spec => []Polls!TypeOK` |
| | `PushesGetOn` | `Polls!Spec => PushesGetCloser`, an action property |
| | `TurnsAlwaysGetOn` | `SideBySide => TurnsGetOn` |
| | `PartsStandAlone` | `SideBySide => Spec /\ Cron!Spec /\ Proc!Spec /\ Polls!Spec` |
| | `TypesHold` | `SideBySide => []TypesOK` |
| `CleanupProofs` | `CleanupTypes` | `SideBySide => []Cleaning!TypeOK` |
| | `LeavesWhole` | `SideBySide => []CleanupLeavesWhole` |
| | `GoesInTime` | `SideBySide => NothingGoesEarly`, an action property |
| `RecordsProofs` | `SessionTypes` | `Auth!Spec => []Auth!TypeOK` |
| | `SessionsStayOver` | `Auth!Spec => []SessionsEnd` |
| | `DeletionIsFinal` | `Auth!Spec => WindowCloses`, an action property |
| | `AccountTypes` | `Spec => []TypeOK` of `Accounts` |
| | `NobodyFailsAlone` | `Spec => []AloneNeverFails` |
| | `RegistryTypes` | `Kept!Spec => []Kept!TypeOK` |
| | `ConfigsAddUp` | `Kept!Spec => []UpdatesAddUp` |
| | `DeletedStaysOut` | `Auth!Spec /\ Kept!Spec => []GoneIsRefused` |
| | `PartsStandAlone` | `SideBySide => Spec /\ Auth!Spec /\ Kept!Spec` |
| `PagingProofs` | `WalksAreSound` | `SideBySide => []WalkIsSound` |
| | `TypesHold` | `SideBySide => []TypesOK` |

What the assumptions say. Sentinels (`NoRow`, `NoKey`, `NoTenant`) are not values;
bounds are numbers, and at least 1 where the code has at least one of the thing; sets
whose members are counted are finite (`Requests`, `Consumers`, `Workers`, `Rows`: those
of one topic, one process, one table); the calendar's months have 28 to 31 days; kinds
of rows are disjoint; a key order is strict and total, and payloads are documents
(`IsDocument`). None restricts how steps interleave.

**The queue** has four layers. The first three are an inductive invariant each, with one
lemma per action.

1. `TypeInv` adds to `TypeOK` what a handler's `pc` says of its copy: it holds a row
   exactly when it is not idle, a decision to bury has a cause, an aggregate waits to
   be written only between its two steps.
2. `SafeInv` is about things that only grow: `evidence`, `retryCount`, dead letters,
   and the fact that an event is no longer *pending*. What a handler has decided from
   an old read stays true for it, so the invariant can speak of handlers: one that is
   about to acknowledge holds a row with evidence, one that is about to bury a row as
   exhausted read a count the row still has, one that is about to write an aggregate
   *delivered* or *failed* saw rows that had all earned it. `FinalEventEarned` alone
   is not inductive: the writer acts on what it saw, not on the rows. `RowsThere`
   says that what it saw left out no row but a late one.
3. `LeaseInv`, under `~LateTimers` and `~RacingAcks`: a row some handler holds is not
   pending and has its `started_at`, so no claim and no timer can hand it to a second
   handler; and a row that reads *processing* or *awaiting_ack* has its `started_at`.
4. On top of the lease, the contract needs `ContractInv`: a handler that still has a
   row which is settled has only the event's status left to write (`SettledIsLeft`), and
   an open row has no dead letter. Crashes keep both, since a handler's memory goes with
   it. A failing call does not: a throw after the row was settled sends the handler to the
   catch block, which opens it again. So `MaxDbErrors = 0` is a hypothesis, and the
   place where it is used is where the code falls short (see above).

`EventNeverAhead` stands on that: under the contract a settled row stays settled
(`SettledStays`), so whatever an aggregate saw of settled rows is true whenever it is written.
`BackedInv` says of each event's status, and of each aggregate in a handler's hands, that
the rows bear it out (`Backed`); a dead letter that is about to be committed may already count
its own row as failed. Aggregates may be written in any order, and a crash only drops
some.

**Producers.** `OneAnswerPerKey` needs only that keys of inserted events are unique
(the index) and that whoever was answered with an event has its key; the look-up plays no
part. For `CreatedMeansFannedOut` the invariant `ReachesAll` says of a request past its
INSERT that each consumer that was active all along has a delivery or is in what the
request has still to reach. The quota bound counts: `QuotaInv` says that the events of a
month, with the requests past the check that would add to it (`Passed`), are fewer than
quota plus concurrency, whoever counted when; a request passes only while the count is
below the quota, and the others in flight are fewer than `Concurrency`.

**Replay.** A mark comes from a request whose copy is there (`MarksWhatItEnqueued`).
For the bound on copies, each is paid for: a letter that is not marked has at most as
many copies as requests about to mark it and faults so far (`PaidFor`); once it is
marked nobody passes the check any more, so copies plus requests still on their way
(`Coming`) only change places.

**The checksum.** A sorted list has each entry where the count of the entries before it
says. Counts are an injection of the entries into as many numbers, so each place has its
entry and the list has the entries it was made of (`SortedIs`); and since the counts
depend on the set of entries only, so does the list (`VisitForgets`). The order in which
JavaScript visits keys, indices first and the others as they were added, is an order too
(`JsOrderIs`). Object by object, a pass keeps the value of a document (`ReorderKeeps`), and
a pass that sorts makes one text of all documents of one value (`OneText`). So two
documents have one canonical text if and only if they have one value
(`CanonicalDecides`), and the invariant `OnItsWay` has only to say what the checksum in a
row was taken of. No induction over the depth is needed, as a document is a function.

**Scheduler.** `ReachInv` is the fan-out argument again, with the worker's own list.
`FiresInv` says of each slot that its events, plus the firings on their way to one, are
paid for by workers and faults. A slot is closed by the first `UPDATE` of `next_run`,
which takes it beyond that slot (`NextIsAhead`); with late updates a slow worker would
set `next_run` back, which is why the theorem excludes them. `FiringsMoveOn` does not
need that: what a late firing writes may have passed, but it is beyond the slot the firing
read (`NextIsLater`). That a batch has a good schedule in it is counted: what does not
parse cannot fill it (`BatchHasAGoodOne`).

**The loop.** `OneLoop` says that a task that is on has exactly one of a timer and a
run in progress. It needs `ActiveIsTheRun` (the field `active` is that run),
`TimerIsKnown` (no timer is pending that the object does not know, so `clearTimeout`
reaches it), `RunsOnce`, `WaitersKeepOff` (nobody starts the task while a stop is
outstanding, which is how `worker.ts` uses it) and `LastRunIsAwaited`. Each action then
maps to a step of `TaskContract` or leaves its variables alone.

**The process.** `Balanced` is the sum: recorded is stored, lost, buffered and being
flushed together, row by row. That a clean exit loses nothing needs the order of the
stops too (`StopsInOrder`: the loops are off and idle before the metrics stop, and
they before the pool closes), and that without a fault the jobs in progress
are those of a batch still awaited (`NothingLeftBehind`), which a rejected job breaks.

**Cleanup.** A month whose retention is over stays so, since days only go on; so what was
listed or computed before midnight may go after it. `NothingGoesEarly` needs the calendar:
`MonthOf` is monotone and the month of a day begins no later than the day. These are
inductions over the months, by least counterexample (`Least`, from the well-foundedness
of `<` on the naturals, as a theorem with an operator for parameter cannot be
instantiated here). On the migrated database no tick gets as far as the purges
(`MigratedInv`).

**Sessions.** A token that was replaced or logged out is spent and is never stored
again; a deleted user stays deleted unless a reactivation that started within the grace
period wins, and then a request that started before the deletion is not one that may
use it. `IInv` says for each `pc` what a request's copy proves about the row
(`StaleIsSpent`, `GoneIsOver`, `ReactivatesInTime`), and `Young` that a request ends
within `MaxLatency`.

**Accounts.** `AloneNeverFails` follows from `UnracedIsAlone` (who met no other
request is alone in flight) and `FoundFreeStaysFree` (an address it found free still is),
with `TenantFirst` and `UserFirst` for the order of the INSERTs and the token.

**Registry.** An update that met no other has the stored config in its hands, with its own
fields put in place (`UpdateOK`), so what it writes is what the updates add up to.
`GoneOK` says of a request that started after a deletion that it has not found the row,
and `RowsApart` that a topic's children are not topics.

**Paging.** In every order the database may answer in, a row's index lies above the number
of rows that are newer and not above the number of those that are no older (`PlacesAre`).
For a row alone with its stamp that is one index, its rank, and a page has it exactly if
the rank lies between offset and end (`PageIs`). An insert can only raise a rank, a delete
only lower it. `WalkInv` therefore says that, while nothing has been deleted, such a row
the client has not got is ranked at or beyond what it has asked for (`AheadInv`: no page
can have passed it), and, while nothing has been inserted, that such a row it has got is
ranked below that (`BehindInv`: no page can bring it again). Of the rows with one stamp
`PlaceInv` says that what the client has got from a list at rest stands at places it may.
A page that is not full ends with the last row. A client that stops at `totalPages` has
all rows only if the count it stopped at is the list's, which `CountIsRight` says of a
walk that nothing disturbed.

**The order of polls.** `TypeOK` of `PollOrder` holds more than types: a row that is not due
has a greater rank than all that are. Ranks are an injection of the finite set of rows
into as many numbers, so there are exactly *m* rows up to rank *m* (`RanksAreCounts`).
The due rows therefore hold the first ranks (`DueComeFirst`), and a backoff, which puts a
row behind as many as are due, leaves it behind all of them and the others in their order
(`BackoffIs`). That what a worker has in hand was due completes `PollInv`. For
`PushesGetCloser`, the oldest of the pushes that are due (`Least`, again) has none before it
but rows nobody pulls (`SomePushIsFirst`), fewer than a batch holds, so the poll takes it.

**Tenants.** A task acts several statements after it looked something up, so the
invariant `IInv` of `TenancyProofs` says for each `pc` what the rows in a task's hands
are: `TaskOK` gives them the tenant of the task's context (or, for the engine's
statements, of the row the job was claimed with). `StatusIfThere` ties the columns of a
row to its being there. Rows never change their tenant, so what was found stays so;
`ReferencesStayHome` is preserved because each INSERT copies references from rows of
`TaskOK`. `WritesStayHome` follows from the same invariant, step by step.

Model-checked only. Every invariant and every action property that the passing runs check
has a theorem, and so have both refinements. What stays with TLC is the properties under
fairness (`AwaitingAckEnds`, `EventuallySettled`, `KeepsGoing`, `DueIsFired`,
`StopsByItself`, `PushesAreServed`): liveness is outside what TLAPS proves here, as ENABLED
is. Of two of them the step that makes progress is proved (`FiringsMoveOn`,
`PushesGetCloser`); that such steps keep coming is what fairness says.

## Not modelled

- Validation of requests, API documentation, headers, status texts, logging: they
  decide nothing that a property is about. A request that fails validation changes no
  state.
- The copying of entities into responses and of request fields into entities
  (`requests`, `responses`, `domain`): data types, present as the modules' variables.
- Hashing, signing, JWTs, SHA-256: taken for what they are for. A token is valid for
  whom it was issued, a checksum is its text.
- `TenantService.update`, which sets a name, and the dashboard, which reads one row.
- The arithmetic of durations in `project_metrics`, one statement on one row.
- `superAdminMiddleware`, `assertTenantOwnership`, `requireTenantId`: nothing calls them.
- The connection pool and PostgreSQL itself: statements are atomic, READ COMMITTED as
  described under *DeliveryQueue and the code*.

## Plan

All modules planned are there, and every safety and action property that a run checks is
proved. The properties under fairness stay with TLC. What could still be added:

1. the progress step of the other liveness properties as a safety theorem: for
   `EventuallySettled`, that a handler which meets no fault leaves its row settled, counted
   or put back;
2. that an event catches up with its rows, if the aggregates of its handlers do not overlap
   and none of them dies.
