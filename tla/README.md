# Verification of the task-processing core

TLA+ specifications, TLC configurations and TLAPS proofs for the parts of this repository that
carry its concurrency and its failure handling, all under `tldw_Server_API/app/core/`: the
durable task scheduler (`Scheduler/`), the job queue (`Jobs/`), the shared circuit breaker
(`Infrastructure/circuit_breaker.py`) and the request queue of the chat (`Chat/request_queue.py`).
Everything is translated from the Python source; line numbers of each definition are in
`PROJECT.json` under `map`.

## 1. Inventory

The repository is a media-research server: a FastAPI back end, several front ends and a large
set of domain libraries. Most of it transforms data or calls external providers. Its own
concurrency and failure handling is concentrated in a few components.

| component | state | operations | what is hard |
|---|---|---|---|
| **Task rows and leases**: `backends/sqlite_backend.py` | tables `tasks`, `task_leases` | `bulk_enqueue`, `dequeue_atomic`, `ack`, `nack`, `update_task`, `renew_lease`, `delete_lease`, `reclaim_expired_leases`, `clear_queue`, `move_to_dlq` | every statement commits by itself; several processes share the file; times are compared as text |
| **Workers**: `core/worker_pool.py` | per worker: task in hand, renewal task | loop: dequeue, cancel check, handler, ack or nack; stop | crash at any await; a handler that outlives its lease; ack that raises |
| **Lease service**: `services/lease_service.py` | renewal tasks, reaper | `auto_renew`, `renew_lease`, reaper loop | renewal ends early, the handler does not |
| **Cancellation**: `Scheduler.cancel_task` | a copy of the row | read, update, delete lease | the copy is stale when it is written back |
| **Submission and write buffer**: `scheduler.py`, `core/write_buffer.py` | in-memory buffer, lock, timer, backup files | `submit`, `add`, flush timer, `close`, emergency backup, recovery | state changed before an await; cancellation of coroutines; half done batches; restart |
| **Leader election, cleanup loop**: `core/leader_election.py`, `Scheduler._cleanup_loop` | row in `service_leaders`, each process's belief | acquire, renew, release, `stop_all` | check and update in two statements; clocks read before locks; dead leaders |
| Start and stop: `scheduler.py` | `_started`, `_stopping` | `start`, `stop` | partial failure in the middle |
| Dependency service | none (reads rows) | validation, cycle detection | best-effort checks that swallow their own errors |
| **Jobs manager and worker SDK**: `core/Jobs/` | tables `jobs`, `job_dependencies`; per loop the job and lease it was given | acquire, renew, complete, fail, release, cancel with cascade, retry now, requeue, TTL, integrity sweep | a second durable queue: acquisition in three steps, leases that lapse under running handlers, dependents cancelled after the commit |
| **Circuit breaker**: `core/Infrastructure/circuit_breaker.py` | per process a copy under a lock; a row with a version, a table of probe leases | `call`, `can_attempt`, `record_...`, `reset`, `force_...`, optimistic persistence | processes that merge conflicting states; probes whose process dies |
| **Chat request queue and its readers**: `core/Chat/request_queue.py`, `chat_service.py` | heap, active ids, wake event, futures, channels | `enqueue`, workers, streaming pumps, `clear_queue`, `stop`; readers, idle timeouts, disconnects | backpressure, sentinels that are dropped, clients that leave, wake-ups |
| Resource governor: `core/Resource_Governance/` | buckets, leases, handles, operation ids | reserve, commit, refund, renew, release | idempotency and expiry |
| Distributed lock, workflow engine, sandbox, streaming, batching, sessions, sync | see `PROJECT.json` | | later, if at all |

How they interact: `Scheduler.submit` checks the table and the buffer for the idempotency key
and adds the task to the buffer; the buffer's flushes call `bulk_enqueue`; workers of all
processes poll `dequeue_atomic`; each run of a task has a lease that a coroutine renews; the
reaper of every process and the cleanup loop of the leader call `reclaim_expired_leases`, which
gives the tasks of lapsed leases back; `cancel_task` writes the row behind the worker's back.

The other three stand beside the scheduler. Loops of the worker SDK, in any process, acquire from
the table `jobs`, which the API, operators and maintenance services write too. Every process that
calls a provider has its own copy of that provider's breaker; the copies meet in one row. The chat
endpoint enqueues into its process's request queue and reads the answer from a future or, for a
stream, from a channel that a worker fills.

What makes each of them correct:

* rows and leases: one worker at a time runs a task; a task ends once; it fails only when its
  retries are used up; it runs after its dependencies; a ready task ends;
* buffer: an id that was returned denotes a task that is somewhere; order is kept; what is
  buffered reaches the disk; after shutdown nothing is left in memory;
* leadership: at most one process cleans up; somebody does, again and again;
* job queue: only the loop that acquired a job last settles it, and once; handlers run after the
  dependencies; ready jobs and the dependents of failed ones end;
* circuit breaker: nobody passes an open breaker, a report adds itself to what is stored, no lock is held for
  ever, and a HALF_OPEN breaker does not refuse for ever;
* request queue: an id can be used again exactly when its request is gone, no wake-up is lost, no
  work is done for clients that told the queue they left, every request and every reader comes to an end.

## 2. Modules

| module | what it is |
|---|---|
| `TaskQueue` | rows, leases, workers, renewal, reaper, cancellation; properties |
| `TaskOwnership` | abstract specification `TaskQueue` refines |
| `TaskQueueProofs` | TLAPS proofs about `TaskQueue`: types, leases, mutual exclusion, exhausted retries |
| `TaskOwnershipProofs` | TLAPS proofs about `TaskQueue` with timely work, up to the refinement of `TaskOwnership` |
| `IsoClock`, `IsoClockProofs` | the text comparison of times, and why `TaskQueue` counts days |
| `WriteBuffer` | submission, buffer, lock, timer, shutdown, backup, recovery, crash |
| `Intake` | abstract specification `WriteBuffer` refines |
| `WriteBufferProofs` | TLAPS proofs about `WriteBuffer`, up to the refinement of `Intake` |
| `LeaderElection`, `LeaderElectionProofs` | leader row, leadership loop, cleanup loop; TLAPS proofs |
| `CircuitBreaker`, `CircuitBreakerProofs` | one breaker in several processes; TLAPS proofs |
| `JobQueue` | jobs, leases, loops, cascades, operators |
| `LeasedJobs` | abstract specification `JobQueue` refines |
| `JobQueueProofs` | TLAPS proofs about `JobQueue`, up to the refinement of `LeasedJobs` |
| `RequestQueue`, `RequestQueueProofs` | queue, workers, pumps, channels, readers; TLAPS proofs |
| `MC...` | an instance of each for TLC, with one `.cfg` per run |

`TaskOwnership` is an abstract specification of `TaskQueue`, `Intake` one of `WriteBuffer`, `LeasedJobs` one of `JobQueue`.
The other modules do not share state in the program, so nothing composes them further.

### TaskQueue

`row` is table `tasks`, `lease` is table `task_leases` (a function of the task, since `task_id`
is UNIQUE), `worker` the program counter and local variables of each `Worker._run`, `canceller`
those of each `cancel_task` call. `SQLiteBackend.execute` commits every statement, so an action is
one statement: `AckUpdate`/`AckDelete`, `NackRead`/`NackUpdate`/`NackDelete`,
`CancelRead`/`CancelUpdate`/`CancelDelete`. `dequeue_atomic` and `reclaim_expired_leases` run in
`BEGIN IMMEDIATE` and are one action each. Workers belong to any number of processes.

*Time.* Lease and retry times are written by `isoformat()` and compared as text with
`datetime('now')`. `IsoClockProofs` shows that only the date decides (`DatesDecide`), so a
stored time is the number of days until its date, with -1 for "past" (`DayCountIsExact`), and
`NewDay` is midnight UTC. A lease or retry that is set now reaches today or tomorrow
(`DaysAhead`): the configured durations are minutes, and the default retry delays are below a day.
Larger ones would need a larger `DaysAhead` only.

*Lease ids.* uuids are fresh; an id to which nothing refers any more is used anew, which keeps the
set finite: five ids are more than two workers, one canceller and the leases can hold at a time
in the runs (`Dequeue` needs a free one, and no run is ever short of it).

*Environment.* The constant `Environment` selects which failures happen: `abandon` (a worker's
coroutine ends: crash, stop, a statement that raises outside the handlers), `ack` (a statement of
ack raises, so `nack` is called), `renew` (a renewal raises), `cancel` (a cancel request is
dropped half way), `dlq` and `clear` (operator calls). `TimelyWork` says that midnight does not
pass over a worker that is still busy with a task whose lease ends with the day; without it a
lease may lapse under running work.

### WriteBuffer

One process with one event loop; an action is what a coroutine does between two awaits.
`asyncio.Lock` is fair, so `lock` is the queue of those who asked for it. `InsertRow` is one row of
`executemany` in autocommit mode: a statement that raises leaves a stored prefix. `FlushCancelled`
is a `CancelledError` inside the await of a flush; the connection's thread may still carry out the
statement or not (`bulk_enqueue` may still be waiting for the backend's lock). `Crash` ends the
process at any time, `Exit` after `close` has ended in success or in an emergency backup, `Start`
begins with recovery. `order` and `crashed` are history variables; no guard reads them.

`Intake` is what all of this promises: tasks enter once, are pending until their row (or one with their key) is
stored, get rows in the order of entry, and leave without one in a crash only; an answer names the task itself or one
with its key, and never a task that is neither pending nor stored. Pending is whatever the buffer, the flush in
progress or a backup file holds and the table does not (`Pending`), so a flush, its failure, a retry, a backup and a
recovery are steps that `Intake` does not see.

### LeaderElection

`leader` is the row with the age of `acquired_at`; each process has a leadership loop (`keep`) and
a cleanup loop (`clean`), each with a query in progress that remembers how long ago it read the
clock. A cleanup ends in the next sleep (`CleanupEnds`) or, when `reclaim_expired_leases` raises an error that the loop's
`except` does not name, for good (`CleanupDies`): `TransactionError` (`sqlite_backend.py:824`) and the sqlite3 error of
`BEGIN IMMEDIATE` (773) are none of those in `scheduler.py:682`. The process and its leadership loop go on, and a later `stop`
raises that error where it awaits the loop, so it never gets to `stop_all`. `acquire_leader` is a transaction, `renew_leader` is two statements under the process's own
lock, which other processes do not share. Time is a `Tick`; a query ends within `MaxWait` ticks,
a cleanup ends before the row that allowed it expires. `TimelyRenewal` says that a running
leader's row does not expire: the loop wakes up three times in a TTL.

### CircuitBreaker

`local` is the copy of each process, `row` the stored state, `op` the operation that holds the
process's lock together with its next access to the store. A step is one access to the store and
what the lock holder computes before the next. `Begin` is the head of `call`, `call_async` and
`can_attempt`; calls in `Gated` use the first two and take a probe slot, the others use
`can_attempt` and `record_...`, which sync but take none. The row is never deleted, so
versions only grow and nobody compares them but for equality: `synced[p]` says whether the
version a process has is the row's. A persist that finds another version merges
(`Merge`) and tries again, or adopts the row after `MaxAttempts`. Whether the recovery timeout has elapsed is
left open: `Begin` and `Inspect` may move an open breaker to HALF_OPEN at any time.

`Environment`: `crash` (a process restarts, its leases stay behind), `late` (a probe lease expires
under its call), `reset`, `force`.

### JobQueue

`row` is table `jobs`, `worker` the loop of each `WorkerSDK`, `cascade` the calls of
`_cancel_dependent_jobs` that still have something to do. Each operation of `JobManager` commits one guarded UPDATE (or
two in one transaction) and the reads before it repeat its guard: one action. `acquire_next_job`
is three: `Select`, `Take`, whose WHERE clause looks at status and lease only, and `Reread`, the
SELECT after the commit, by which a loop may be given the lease of the next one. A completion token is the lease id
of the run that ended, which no later run has, so a row only says whether there is one. `taken_by` and `lost` are
history: who acquired the row last, and which dependents nobody will cancel any more, because the
process died, the exception was suppressed, or the operation (TTL, `finalize_cancelled`) starts no cascade. No guard
reads them.

`Environment`: `crash` (a loop or a cascade ends anywhere), `late` (a lease lapses under its run).
`Managed` are the jobs that API, operators and services touch.

`LeasedJobs` is what all of this promises: a job has one owner while it is processing; it goes to another loop only after its
lease has lapsed; loops may still be at work on a job that is no longer theirs (`hand`), but only the owner renews, ends, retries or
gives it back, even when its lease is over; sweeps take back jobs with a lapsed lease only; jobs are taken up after their
dependencies, are tried again no more often than `max_retries`, and leave an outcome by an operator only. Worker ids, lease ids,
tokens, the second reading of the row, streaks, due times and cascades are not part of it. `hand` is: without it, a
late loop that ends the job of another would look like the owner ending it, and a sweep of live jobs like a release.

### RequestQueue

One event loop: code between two suspensions is one step, and no coroutine suspends while it
holds the queue's lock, so the lock is not modelled. `worker` is where each `_worker` stands: waiting
for the event, for the semaphore (`gate`), in the executor (`run`, `open`), pumping (`pull`, `put`), or
putting its last frames. The processor of a stream returns an iterator of either kind, and the pump of each kind is as in the
code: the asynchronous one looks at the future before and after each chunk, the synchronous one runs in a
thread and gives up only when it has met a full channel for a second and the future is cancelled. Both put `None` in
their `finally` clause; the error frames come after it. `reader` is `_channel_stream`, which
ends at `None`, at an idle timeout or with its client. It is a generator and does nothing before
`safe_stream_generator` has sent `stream_start` and asks for the first frame (`StartReading`), while workers may already have
started the stream. A client that leaves before that (`LeaveUnread`) closes a generator that never ran: no `finally` clause
cancels the future or drains the channel. `old` says that a request has waited for longer than its
timeout. `failed` is history.

## 3. Runs

| run | checks | result |
|---|---|---|
| `lease` | `ExclusiveExecution`, `RunningIsLeased`, `HandlerRunsAfterDependencies`, `OutcomeIsFinal` without cancellation, refinement of `TaskOwnership` (`ImplementsOwnership`), `ReadyTasksEnd` | holds |
| `faults` | `TypeOK`, `LeaseIsOfThisRun`, `FailedOnlyWhenExhausted` under every failure | holds |
| `cancel` | `OutcomeIsFinal` with one `cancel_task` call | violated (finding) |
| `clock` | `ExpiredIsSeen` | violated (finding) |
| `kept` | `TypeOK`, `AcceptedIsKept`, `StoredInOrder`, `ClosedIsEmpty`, refinement of `Intake` (`ImplementsIntake`), `PromisesAreSettled` | holds |
| `cancelled` | `AcceptedIsKept` with flushes cancelled | violated (finding) |
| `timely` | `TypeOK`, `SingleCleaner`, `BelieverHoldsRow`, `SomebodyCleans` | holds |
| `shared` | `TypeOK`, `SyncedMatchesStore`, `AdmittedWhenClosed`, `OpenIsSticky`, `ReportsAreDeltas`, `LockIsReleased` | holds |
| `slots` | `ProbeSlotsRecover` with calls in both processes and restarts | violated (finding) |
| `jobs` | `TypeOK`, `HandlerRunsAfterDependencies`, `OnlyHolderSettles`, `SettledIsFinal`, refinement of `LeasedJobs` (`ImplementsLeasedJobs`), `DependentsEnd`, `ReadyJobsEnd` | holds |
| `requests` | `TypeOK`, `ActiveIsExact`, `NobodySleepsOnWork`, `EndedIsComplete`, `StartedForClients`, `Answered`, `ReadersEnd` | holds |
| `unread` | `ClientsFreeWorkers` | violated (finding) |

Bounds. `lease` has three tasks: two in a dependency, and a third that shares an idempotency key with
the second of them and comes before both in the queue; two workers, one retry. That is enough for every pair of steps of two
workers on one row, a reclaimed run, an orphaned lease in front of another task, a retry that is
not yet due and a task whose dependency goes back to the queue. A renewal changes nothing there, since no lease
lapses under a busy worker; renewals that fail are part of `faults`. `faults` has one task, because its
properties speak of one row, and two workers with a concurrent cancellation. `kept` has three submissions, two with one key, a
buffer that is flushed at two, three attempts to close as in the code, and three starts, so that a backup can fail to
be recovered and be recovered by the next process. `timely` has two processes, one of which may
stop or die, a TTL of three ticks and queries of at most one. `clock` has two days of three
instants.

`shared` has one caller in each of two processes, one through `call` and one through
`can_attempt`; both thresholds are two, so a counter has a value between a reset and a transition,
one probe is allowed, and two attempts let a persist both merge and give up. Two processes are
enough for a conflict, as a conflict needs one other writer, and every write by a third looks to the first
like one more by the second. `slots` has both callers use `call`. `jobs` has two jobs in a dependency,
two loops with worker_ids of their own and five lease ids (two rows and two loops refer to four).
The first job has two retries, so that it can be retried, quarantined (threshold two) and fail; the second none.
Completion tokens are required. API and operators interfere with the first job, cascades with the second.
`requests` has a stream and a plain request with one id, and a plain one with its own; one request
inside the semaphore and two workers, so that one waits there; a channel of one frame and a stream of
two chunks, so that a put can find it full. At most two requests wait at a time, which is the queue's limit: a refusal for that
reason never happens, and would change nothing.

The passing runs have 264,324 (`faults`), 93,884 (`lease`), 88,444 (`kept`), 2,277 (`timely`), 127,425 (`shared`),
61,036 (`jobs`) and 352,118 (`requests`) distinct states.

Fairness. Workers poll in a loop and every handler ends (`wait_for` has a timeout): weak
fairness of each worker's next step. The reaper wakes up every `lease_reaper_interval` and days pass: weak fairness of
`ReclaimExpiredLeases` and `NewDay`. Failures stop some day, since a worker that dies at every run
never completes a task: from some point on every step is an ordinary one (`<>[][Undisturbed]_vars`). It is not
stated as `<>[][~Failure]_vars`, because a failing step can have the effect of an ordinary one,
which that formula would rule out too. Nothing makes `Enqueue` happen, and nobody cancels in `lease`.

In `WriteBuffer`, statements end, the timer and `close` go on, and failures stop in the same sense; `BeginClose`, `Exit`
and `Start` are not fair, so a buffer has to be settled without a shutdown.

In `LeaderElection` both loops go on, time passes, and a stop that has begun ends (the workers get a timeout): weak
fairness. Nothing makes a process stop. Queries may raise for ever, but not every time they are
tried: strong fairness of the acquisition and of the cleanup loop's `is_leader`, which each attempt enables anew.
`WF(Tick)` is not in conflict with the guards of `Tick`: each of them waits for a step that is fair.

In `CircuitBreaker` a thread that holds the lock is scheduled: weak fairness of its next access
to the store, which is all `LockIsReleased` needs. `slots` adds traffic, so that the breaker does not stay
full for want of callers: strong fairness of calls, their outcomes and releases (the lock or a
restart may interrupt each), and leases expire.

In `JobQueue` loops poll, handlers end, cascades go on, retries come due, leases that nobody holds run
out: weak fairness. Failures, lapses under a run, operators and services come to rest some day
(`<>[][Undisturbed]_vars`), since a job that is reclaimed before every end never ends. `ReadyJobsEnd` exempts
behaviours in which a job is queued with a token (see hazards), `DependentsEnd` pairs in `lost`.

In `RequestQueue` the event loop gets to every worker, processors and iterators return: weak
fairness of each worker's step. A response is iterated or closed, readers read what is there, and time out when nothing is: weak
fairness of `StartReading`, `Read` and `IdleTimeout`. Clients need not leave, and `Stop` and `ClearQueue` need not happen.

Deadlock checking is off in `kept` and `cancelled`, where the process may stay down after its last
start, in `clock`, whose clock ends with the last day, and in `requests` and `unread`, where every request has
been made and a stopped queue is never started again.

### What the violated runs show

1. *Outcomes are overwritten by a cancellation* (`cancel`). `cancel_task` checks a copy of the row and `update_task` writes it
   back without a guard: a task that was completed in between becomes cancelled, though its dependents may be
   running. `nack`'s UPDATE has no guard either, and queues again a task that was cancelled since it read the row.
2. *Leases expire at midnight* (`clock`). The text comparison sees dates only; a lease of five minutes
   lapses, and its task is reclaimed, at the next date change. The direction is the safe one
   (`NeverEarly`), the delay is up to a day.
3. *Shutdown can lose acknowledged tasks* (`cancelled`). `close` cancels the timer inside its flush, when the
   buffer has been cleared and `except Exception` does not see the cancellation.
4. *A HALF_OPEN breaker that refuses for ever* (`slots`). A probe records its success while it still holds its
   slot, so the stored count includes it; the release changes the local count only. Whoever adopts
   the row (the other process, or a restarted one) finds all slots taken, and no probe is left to free one.
5. *An unread stream keeps its worker* (`unread`). The client leaves before the first frame is asked for; the
   pump fills the channel and waits for room, and its future stays pending, so nothing tells it to give up. With `max_concurrent` such
   clients nothing is processed any more.

### Conditions under which a property holds

Some properties of the passing runs hold only under a condition, or with an exception, that the code can leave. Each is
stated in the module at the property.

* `OutcomeIsFinal` (`lease`): nobody cancels, see `cancel`. With `Environment` containing `ack` it fails too: `nack` after a
  completed UPDATE puts the task back. No document of the code denies that one, so it is listed as a hazard only.
* `SingleCleaner` and `BelieverHoldsRow` (`timely`): renewals come in time. With `TimelyRenewal = FALSE` TLC finds two processes in their cleanup: a
  renewal that comes after expiry interleaves with an acquisition, since `renew_leader` is a SELECT and an UPDATE by
  `service_name` (`sqlite_backend.py:874-884`) in no transaction and looks at no age.
* `SomebodyCleans` (`timely`): the leader's cleanup loop is alive. A leader whose loop has died renews its row for ever and
  nobody cleans (`Mute`); the lease service's reaper, which every process runs and which survives such errors, still reclaims leases then, but payloads are kept. The property says that this is the only way
  to lose the cleanup.
* `ReportsAreDeltas` (`shared`): item 2 of `MERGE_POLICY_CONTRACT_V1` (`circuit_breaker.py:233-235`) says that counters merge as deltas, not by
  "whole-snapshot replacement". A report that crosses a threshold is persisted as a TRANSITION (1120-1122, 1141-1148, 1213), and on a conflict
  its snapshot replaces the stored row (642-655), whatever that has become: one failure in a process with an old copy
  opens a breaker whose stored count has just been reset to 0, one success closes a HALF_OPEN one that has other counts. A failure reported on an open copy does
  the same (519-573). `OverridesCounts` names these cases and no others, each after a conflict only, and none for a breaker that is open:
  item 1 of the contract is `OpenIsSticky`. The property says that everywhere else, transitions without a conflict included, a report
  adds exactly itself to what is stored.
* `Answered` (`requests`): workers are not held by unread streams, see `unread`. `Stuck` are those that are: one of them explains its own request
  only, and all the others only when they fill the semaphore or are all workers there are. With three workers and two places in the
  semaphore the properties of `requests` hold as well (1,496,670 distinct states).

Two more things met while modelling `JobQueue` are modelled as the code does them and are
not runs: `retry_now_jobs` keeps the completion token, so that a later attempt can neither complete nor fail while tokens are
required; and `fail_job` compares the length of the streak before it compares the codes (`Retried`), so that a
failure with another code can quarantine a job (`Docs/Code_Documentation/Jobs_Module.md:101` speaks of
repeated failures "with the same `error_code`" and of a default of 3, which is 2 in the code).

## 4. Proofs

Every invariant and every action property of the passing runs, and the three refinements, are theorems: they hold for all
values of the constants that satisfy the `ASSUME` of the module and the conditions named here. Only liveness is
left to TLC (end of this section).

### TaskQueue

`TypeCorrect` and `LeaseMatchesRun` hold for all values of the constants, whatever fails, lapses or
is cancelled. `LeaseIsOfThisRun` is inductive once types are known: a row becomes 'running' in
`Dequeue` only, which inserts the lease in the same transaction and fails when the row already has one (UNIQUE);
every other step removes the lease, changes its date, or takes the row out of 'running'. The lemmas `NackUpdateRows`,
`RenewLeases` and `CancelRows` state the part of a step that needs an argument and are cited by name.

`MutualExclusion` assumes `TimelyWork = TRUE` and proves `[]ExclusiveExecution`, which is not
inductive: nothing in it says why the task in hand cannot be handed out again. `HoldInv` adds
that it is not queued and that its lease, if it has one, has not lapsed, up to and including the
step in which ack has committed but not yet deleted the lease. A second dequeue
would need the row to be queued; the reaper would need a lapsed lease; midnight does not pass over a busy worker's lease
(`TimelyWork`); cancellation can remove the lease, but it does not queue the task.

`OnlyExhaustedFail` needs no condition. `nack` decides in its SELECT and writes in its UPDATE; `FailInv` adds to the property that a
worker that has decided to give up (`GivesUp`) has a task whose retries are used up. Nothing lowers `retries` in between,
cancellations that write an old copy of the row included.

`RunningAreLeased` assumes `TimelyWork = TRUE` and no canceller, whatever else the environment does. A running row can lose its
lease to its own worker's DELETE only; `BusyInv` says that at that point the row is not running any more, that a busy worker's
lease is there and has not lapsed, and that no other worker is busy with the task. Cancellation is excluded because
it deletes the lease of a run that goes on: then the row that nack has queued can be dequeued before nack's own DELETE, which
names the task only and takes the lease of the new run.

`HandlersWait` and `OutcomesAreFinal` assume also that ack does not raise and that no operator moves a task to the dead letters
(`Quiet`; queues may be cleared). `OwnInv` ties each worker that holds a task to a running row with its name and
to a decision about the retry that agrees with the row, and each running row to completed dependencies. An outcome lasts because `nack` and the reaper need a running row, which by `OwnInv` an ended task does not have. If ack raises after
its UPDATE, `nack` takes a completed row back to the queue, so the conditions cannot be dropped. With `QueueInv` (types, `RunInv`,
`OwnInv`) every step maps to a step of `TaskOwnership` or to none (`QueueImplementsOwnership`, under `Unattended`: `Quiet` and no
cleared queues, which `TaskOwnership` does not know). A dequeue is `Claim`, the UPDATE of ack is `Complete`, that of nack is `Fail` or `GiveBack`,
the reaper's transaction is `TakeAway` of all it finds at once, and a worker that dies is `Quit`.

### WriteBuffer

`Controlled` proves `CtrlInv` for every behaviour, cancelled flushes included: who stands in the lock's queue has asked for it and not left,
nobody but its head flushes, the buffer is empty while a flush is in progress (the invariant of `asyncio.Lock` that the
code relies on and never states), and `close` stands at the end of the queue, because nobody asks behind it.
`ClosedLeavesNothing` follows: when `close` has the lock, all who passed the check of `_closing` before are done.

The other theorems assume `Calm = TRUE` (no flush is cancelled), and must: without it `AcceptedIsKept` is false (run `cancelled`).
`CalmInv` has two parts. `SortInv` is about order: `stored` is sorted by entry, everything that is pending entered after what is
stored, and each list that will be inserted one day (buffer, flush, its rest, every backup file) is `InOrder`: before an element that is
still to be inserted come, in the same list, all pending tasks that entered before it. That makes it safe to insert a list that
overlaps with others, as happens when a backup's recovery fails and its tasks are in the buffer and in the file. The rest
(`BatchInv`, `HolderInv`, `BackupInv`, `CallInv`, `KeptInv`) says where a task can be: the statement has
inserted what is no longer in `todo`, the holder's own task is in its flush, a backup that this process has read is stored or in memory, and
a failed `close` has left one. `NothingAcceptedIsLost`, `FirstComeFirstStored` and `TypeCorrect` (no row twice) follow.

`SubmissionImplementsIntake` uses it once more. `Add` is `Accept`; the end of its flush, and the two lookups of a key, are
`Answer`; `InsertRow` is `Store`, since the head of `todo` that is not in the table has nothing pending ahead of it (`InOrder`), or no step when
the row is ignored; a crash is `Lose` of what was in memory; `Exit` is no step, since `close` has left an empty buffer or a backup. `AnswerInv` adds
that a call answers once.

### Leader election

For leader election, `OneCleaner` and `BelieversAreRight` assume `TimelyRenewal = TRUE` and
`MaxWait < TTL`. `LeaderInv` says that whoever acts as leader (believes it, cleans, or is between
the SELECT and the UPDATE of a renewal) is in the row, that a process that is down does not act, and that the row
of a process that runs has not expired. An acquisition succeeds on a free or an expired row only, so
the process in an expired row is down and acts no more; a renewal stores an age below the
TTL, because a query takes less than that. Without `TimelyRenewal` the third part fails (see the conditions above).

`IsoClockProofs` justifies the abstraction of time.

### CircuitBreaker

For the circuit breaker, `SyncedMatchesStore` is not inductive, since it says nothing of a process
in the middle of an operation. `IInv` adds what the holder of a lock has in hand: if it is still synced, its
copy is a mutation prepared on the stored state (`Prepared`: a
transition leaves OPEN for HALF_OPEN only, a snapshot does not leave it), and if it is not, the store
will refuse it and the merge prepares it anew. `Serving` says which call an operation serves, `FirstStore` that before
the first row nobody has done anything. `OpenIsSticky` follows, as an
upsert stores exactly what was prepared; `AdmittedWhenClosed` follows from
`SyncedMatchesStore`, as admission reads a synced copy.

`ReportsAreDeltas` (`SafeReports`) needs one invariant more, `Reporting`, about the copy that a report is about to store while the process is still
synced (`Lands`): at the first attempt it is what `_on_success` or `_on_failure` makes of the stored row, also when that is a transition; after a
conflict it is what the merge has made of the row read since, one report more or one of `OverridesCounts`. `MergeLands` shows that
for any row and any copy, so it does not matter how many conflicts came before.

### JobQueue

For the job queue, `IInv` says that a row in 'processing' names the loop that took it and its worker_id (`Good`),
that a loop that is not idle has a job (`WorkersBusy`), and that the dependencies of a job in processing or in
the hands of a loop have completed (`Started`). The last is what makes it safe not to look at the dependencies again in the
UPDATE and for a reclaimed job: nothing takes a job out of 'completed'. `SafeHolder` assumes that loops do not share a
worker_id: then the WHERE clause of each UPDATE names one loop, the one that acquired
the row last, although `Reread` may have given a loop somebody else's lease.

`QueueImplementsLeasedJobs` needs nothing more than `IInv`. A step that leaves status, count and lease of every row and every
loop's job in hand as they are is none of `LeasedJobs` (`SameViews`); rows that leave the queue or processing do so there as
well, one (`OneRowLeaves`) or many (`LeavingRows`, for TTL and sweep). That a loop acts as the owner is `InChargeOwns`, by the argument
of `SafeHolder` and under its assumption; a loop whose UPDATE finds nothing drops its job without a trace (`Quit`). That `Take`
finds the dependencies completed, which its UPDATE does not look at, is `Started`.

### RequestQueue

For the request queue, `ActiveIsExact` and `StartedForClients` rest on `Ids` (each request that waits or is with a worker is in
one place, its id is active and nobody else's) and `Unsettled` (its future has no
outcome yet). Every way out takes the request and its id along together (`RequestLeaves`, `ClearLeaves`), and fetching moves a request
from one place to one other (`FetchMoves`). `Enter` reads the future under the semaphore, and by `Unsettled` one that is not
cancelled is pending. For the types, `Pumping` says what a pump has to do at `put` and `sentinel`; the semaphore's bound needs the finite set of
workers that the module assumes. `NobodySleepsOnWork` is inductive: a worker goes to sleep before an empty
queue, and only `Enqueue`, which wakes all, fills it.

`EndedIsComplete` (`SafeStreams`) follows from `ChunksInv`, which counts chunks along the way from the pump to the reader. A channel holds a stream
that is `Plain` (chunks only) or ends at a `None` behind which nothing counts (`Whole`); what the reader has seen, what lies in the
channel and what the pump has in hand add up to what the iterator has given (`InStep`), so that a `None` behind fewer than
all chunks is there for a stream that failed only. `Fresh` says that the channel of a request that was not yet made is empty and unread. What is dropped on a full
channel after three attempts is `None`; a chunk is given up only for a client that has left.

### What is not proved

Liveness is model-checked only (`ReadyTasksEnd`, `PromisesAreSettled`, `SomebodyCleans`, `LockIsReleased`, `DependentsEnd`,
`ReadyJobsEnd`, `Answered`, `ReadersEnd`), since fairness and ENABLED are out of the prover's reach. So is what a cancelled flush
stores (`FoldLeft` in `FlushCancelled`, which needs induction over the list): the theorems about `WriteBuffer` either
do not depend on it (`Controlled`, `ClosedLeavesNothing`) or exclude it with `Calm`.

## 5. Not modelled

* `TaskQueue`, `WriteBuffer`: a task's own `expires_at`; `submit_batch` (validation, then
  `bulk_enqueue` without the buffer); failures of the backup file itself (a file that cannot be written,
  renamed or parsed); the `dead_letter_queue` table; contents of payloads, results and errors; worker scaling and recycling; a
  `CancelledError` inside `dequeue_atomic`; the transaction state of a connection; the PostgreSQL and memory backends.
* `CircuitBreaker`: the rolling window mode, changes of the configuration, deletion of the row,
  breakers that live in memory only, a store that raises, a sync interval above 0.
* `JobQueue`: `create_job` with idempotency keys and quotas (jobs and dependencies are there from the start),
  pause and drain flags, the inflight quota, archive and prune, rescheduling, batch operations, the single-UPDATE variant of
  acquisition, enforcement switched off, PostgreSQL; priorities, fair share and progress, which decide no guard here.
* `RequestQueue`: reservations of `RateLimitedQueue`, `start` and pre-warming, activity lists and counters,
  what the thread of a synchronous pump does after `stop`, the provider manager. After `stop` ids and futures of
  requests that waited are left as they are, in the code and in the model; the properties say "until the queue is stopped".
* Everywhere: metrics, logging, status queries. The components listed as `not_modelled` in `PROJECT.json`: most of the
  repository transforms data, calls providers or renders user interfaces, and has no protocol of its own for a model checker.

## 6. Plan

Done: `TaskQueue`, `TaskOwnership`, `IsoClock`, `WriteBuffer`, `Intake`, `LeaderElection`, `CircuitBreaker`,
`JobQueue`, `LeasedJobs`, `RequestQueue`, their runs, and proofs of every safety property and refinement they check.
Next, in this order:

1. An abstract specification of `LeaderElection` (one leader at a time, who loses it by stopping or by its TTL) and of `CircuitBreaker`
   (one breaker, as if there were one process), with their refinements checked and proved.
2. `SchedulerLifecycle`: start, stop, partial failures, worker pool scaling, `wait_for_task`.
3. `Dependencies`: cycle detection and validation against a reference definition on bounded graphs.
4. The resource governor; `RateLimitedQueue` and the provider manager; the distributed lock.
