----------------------------- MODULE TaskQueue -----------------------------
(***************************************************************************)
(* The durable task queue of the Scheduler: the rows of the SQLite tables  *)
(* `tasks` and `task_leases` (backends/sqlite_backend.py), the workers that *)
(* dequeue, execute, acknowledge and retry tasks (core/worker_pool.py),    *)
(* lease renewal and the reaper (services/lease_service.py), and           *)
(* cancellation (Scheduler.cancel_task).                                   *)
(*                                                                         *)
(* Every SQL statement that the code commits by itself is one action:      *)
(* `execute` commits each statement, so the two statements of ack, the     *)
(* three of nack and the three of cancel_task interleave with the other    *)
(* workers, cancellers and processes that share the database file.         *)
(* dequeue_atomic and reclaim_expired_leases run inside BEGIN IMMEDIATE    *)
(* and are one action each.                                                *)
(*                                                                         *)
(* Time.  The code stores times with isoformat() ("2025-01-31T08:00:00")   *)
(* and compares them as text with datetime('now') ("2025-01-31 09:00:00"). *)
(* 'T' sorts after ' ', so a stored time counts as past exactly when its   *)
(* date is before today's (module IsoClockProofs).  A stored time is   *)
(* therefore modelled as the number of days from today to its date, -1     *)
(* (Past) once that date is over; NewDay is the passing of midnight UTC.   *)
(***************************************************************************)
EXTENDS Integers, FiniteSets

CONSTANTS
  Tasks,        \* task ids
  Workers,      \* worker ids, of every process that uses the database
  Cancellers,   \* concurrent cancel_task calls
  LeaseIds,     \* lease uuids: one that nothing refers to any more is used anew
  Queues,       \* queue names
  None,         \* SQL NULL, and "no task" in a worker's hands
  QueueOf,      \* task -> queue_name
  Serves,       \* worker -> the queue it polls
  DependsOn,    \* task -> set of task ids it waits for
  Priority,     \* task -> priority, the lowest first
  Key,          \* task -> idempotency key, or None
  MaxRetries,   \* max_retries
  Environment,  \* which of the EnvironmentEvents happen
  TimelyWork    \* TRUE: a worker is done with its task, or has renewed the
                \* lease, before the lease's date is over

\* A worker that disappears, statements that raise, requests that are dropped,
\* and the two operations that only an operator calls.
EnvironmentEvents == {"abandon", "ack", "renew", "cancel", "dlq", "clear"}

ASSUME QueueAssumption ==
  /\ None \notin Tasks \union Workers \union LeaseIds
  /\ QueueOf \in [Tasks -> Queues]
  /\ Serves \in [Workers -> Queues]
  /\ DependsOn \in [Tasks -> SUBSET Tasks]
  /\ Priority \in [Tasks -> Nat]
  /\ MaxRetries \in Nat
  /\ Environment \subseteq EnvironmentEvents
  /\ TimelyWork \in BOOLEAN

VARIABLES
  row,        \* table tasks
  lease,      \* table task_leases, keyed by its UNIQUE(task_id)
  worker,     \* each worker's coroutine
  canceller   \* each cancel_task call

vars == <<row, lease, worker, canceller>>

Past == -1
DaysAhead == {0, 1}   \* now + timeout, and now + retry delay, cross at most one midnight

Stored   == {"queued", "running", "completed", "failed", "cancelled", "dead"}
Statuses == Stored \union {"absent", "deleted"}

NoLease == [id |-> None, worker |-> None, days |-> Past]
Leased(t) == lease[t].id # None

IdleWorker    == [pc |-> "idle", task |-> None, lease |-> None,
                  renewing |-> FALSE, retry |-> FALSE]
IdleCanceller == [pc |-> "idle", task |-> None, worker |-> None, lease |-> None]

WorkerPcs == {"idle", "check", "execute", "ack", "ackDelete",
              "nackRead", "nackUpdate", "nackDelete"}

\* retry_count is compared with max_retries only, so counting stops just above it.
Bump(n) == IF n > MaxRetries THEN n ELSE n + 1

Rows == [status  : Statuses,
         retries : 0 .. MaxRetries + 1,
         worker  : Workers \union {None},
         lease   : LeaseIds \union {None},
         sched   : DaysAhead \union {Past},
         older   : SUBSET Tasks]

Leases == [id     : LeaseIds \union {None},
           worker : Workers \union {None},
           days   : DaysAhead \union {Past}]

WorkerStates == [pc       : WorkerPcs,
                 task     : Tasks \union {None},
                 lease    : LeaseIds \union {None},
                 renewing : BOOLEAN,
                 retry    : BOOLEAN]

CancellerStates == [pc     : {"idle", "update", "delete"},
                    task   : Tasks \union {None},
                    worker : Workers \union {None},
                    lease  : LeaseIds \union {None}]

TypeOK ==
  /\ row \in [Tasks -> Rows]
  /\ lease \in [Tasks -> Leases]
  /\ worker \in [Workers -> {s \in WorkerStates : s.pc # "idle" => s.task \in Tasks}]
  /\ canceller \in [Cancellers -> {s \in CancellerStates : s.pc # "idle" => s.task \in Tasks}]

Init ==
  /\ row = [t \in Tasks |-> [status |-> "absent", retries |-> 0, worker |-> None,
                             lease |-> None, sched |-> Past, older |-> {}]]
  /\ lease = [t \in Tasks |-> NoLease]
  /\ worker = [w \in Workers |-> IdleWorker]
  /\ canceller = [c \in Cancellers |-> IdleCanceller]

----------------------------------------------------------------------------
(* Submission: one row of bulk_enqueue's INSERT OR IGNORE.  The connection *)
(* is in autocommit mode, so executemany commits row by row.               *)

KeyTaken(t) == /\ Key[t] # None
               /\ \E u \in Tasks : Key[u] = Key[t] /\ row[u].status \in Stored

Enqueue(t) ==
  /\ row[t].status = "absent"
  /\ ~KeyTaken(t)
  /\ row' = [row EXCEPT ![t] = [@ EXCEPT !.status = "queued",
                              !.older = {u \in Tasks : row[u].status # "absent"}]]
  /\ UNCHANGED <<lease, worker, canceller>>

----------------------------------------------------------------------------
(* dequeue_atomic and the start of the worker loop                         *)

DepsCompleted(t) == \A d \in DependsOn[t] : row[d].status = "completed"

\* Mutant: a dependency that has failed, or has no row, counts as satisfied.
ReadyUnlessDepsPending(t) ==
  /\ row[t].status = "queued" /\ row[t].sched = Past
  /\ \A d \in DependsOn[t] : row[d].status \notin {"queued", "running"}

Ready(t) == /\ row[t].status = "queued"
            /\ row[t].sched = Past
            /\ DepsCompleted(t)

\* ORDER BY priority ASC, created_at ASC
Before(t, u) == \/ Priority[t] < Priority[u]
                \/ Priority[t] = Priority[u] /\ t \in row[u].older

IsNext(q, t) == /\ Ready(t) /\ QueueOf[t] = q
                /\ \A u \in Tasks \ {t} : Ready(u) /\ QueueOf[u] = q => Before(t, u)

\* uuid4 is fresh with respect to everything that still names a lease.
UsedLeaseIds == {row[t].lease : t \in Tasks}
                  \union {lease[t].id : t \in Tasks}
                  \union {worker[w].lease : w \in Workers}
                  \union {canceller[c].lease : c \in Cancellers}
FreshLeaseIds == LeaseIds \ UsedLeaseIds

\* Mutants: INSERT OR REPLACE, INSERT OR IGNORE.
InsertOrReplaceLease(t, w, id) ==
  \E d \in DaysAhead : lease' = [lease EXCEPT ![t] = [id |-> id, worker |-> w, days |-> d]]
InsertOrIgnoreLease(t, w, id) ==
  IF Leased(t) THEN UNCHANGED lease ELSE InsertOrReplaceLease(t, w, id)

\* When the row that comes first still has a lease, INSERT INTO task_leases
\* breaks UNIQUE(task_id): the transaction rolls back, the worker sees no task.
InsertLease(t, w, id) ==
  /\ ~Leased(t)
  /\ \E d \in DaysAhead : lease' = [lease EXCEPT ![t] = [id |-> id, worker |-> w, days |-> d]]

Dequeue(w) ==
  /\ worker[w].pc = "idle"
  /\ FreshLeaseIds # {}
  /\ \E t \in Tasks :
       LET id == CHOOSE l \in FreshLeaseIds : TRUE IN
       /\ IsNext(Serves[w], t)
       /\ InsertLease(t, w, id)
       /\ row' = [row EXCEPT ![t] = [@ EXCEPT !.status = "running",
                                            !.worker = w, !.lease = id]]
       /\ worker' = [worker EXCEPT ![w] = [IdleWorker EXCEPT !.pc = "check",
                                                   !.task = t, !.lease = id]]
  /\ UNCHANGED canceller

Goto(w, pc) == worker' = [worker EXCEPT ![w].pc = pc]

\* Mutant: the task is forgotten, the run is not over.
GoIdleHalfway(w) == worker' = [worker EXCEPT ![w].task = None]

GoIdle(w) == worker' = [worker EXCEPT ![w] = IdleWorker]

\* _run reads the task again and skips it when it has been cancelled.
CheckCancelled(w) ==
  /\ worker[w].pc = "check"
  /\ IF row[worker[w].task].status = "cancelled"
       THEN GoIdle(w)
       ELSE worker' = [worker EXCEPT ![w] = [@ EXCEPT !.pc = "execute", !.renewing = TRUE]]
  /\ UNCHANGED <<row, lease, canceller>>

\* The handler returns.
Succeed(w) == /\ worker[w].pc = "execute"
              /\ Goto(w, "ack")
              /\ UNCHANGED <<row, lease, canceller>>

\* The handler raises, is unknown, or wait_for times out.
Fail(w) == /\ worker[w].pc = "execute"
           /\ Goto(w, "nackRead")
           /\ UNCHANGED <<row, lease, canceller>>

----------------------------------------------------------------------------
(* ack: UPDATE guarded by status = 'running', then DELETE of the lease     *)

AckUpdate(w) ==
  LET t == worker[w].task IN
  /\ worker[w].pc = "ack"
  /\ IF row[t].status = "running"
       THEN row' = [row EXCEPT ![t].status = "completed"] /\ Goto(w, "ackDelete")
       ELSE GoIdle(w) /\ UNCHANGED row
  /\ UNCHANGED <<lease, canceller>>

DeleteLease(t) == lease' = [lease EXCEPT ![t] = NoLease]

AckDelete(w) ==
  /\ worker[w].pc = "ackDelete"
  /\ DeleteLease(worker[w].task)
  /\ GoIdle(w)
  /\ UNCHANGED <<row, canceller>>

\* Either statement of ack raises (database locked, result not JSON):
\* _process_task catches it and calls nack.
AckRaises(w) ==
  /\ "ack" \in Environment
  /\ worker[w].pc \in {"ack", "ackDelete"}
  /\ Goto(w, "nackRead")
  /\ UNCHANGED <<row, lease, canceller>>

----------------------------------------------------------------------------
(* nack: read the row, UPDATE without a guard on status, DELETE the lease  *)

\* Mutant: off by one.
RetriesLeftButOne(t) == row[t].retries + 1 < MaxRetries

RetriesLeft(t) == row[t].retries < MaxRetries

NackRead(w) ==
  LET t == worker[w].task IN
  /\ worker[w].pc = "nackRead"
  /\ IF row[t].status \in Stored
       THEN worker' = [worker EXCEPT ![w] = [@ EXCEPT !.pc = "nackUpdate",
                                      !.retry = RetriesLeft(t)]]
       ELSE GoIdle(w)
  /\ UNCHANGED <<row, lease, canceller>>

NackUpdate(w) ==
  LET t == worker[w].task IN
  /\ worker[w].pc = "nackUpdate"
  /\ \/ /\ row[t].status \in Stored /\ worker[w].retry
        /\ \E d \in DaysAhead :
             row' = [row EXCEPT ![t] = [@ EXCEPT !.status = "queued",
                                  !.retries = Bump(row[t].retries), !.sched = d,
                                  !.worker = None, !.lease = None]]
     \/ /\ row[t].status \in Stored /\ ~worker[w].retry
        /\ row' = [row EXCEPT ![t].status = "failed"]
     \/ /\ row[t].status \notin Stored
        /\ UNCHANGED row
  /\ Goto(w, "nackDelete")
  /\ UNCHANGED <<lease, canceller>>

NackDelete(w) ==
  /\ worker[w].pc = "nackDelete"
  /\ DeleteLease(worker[w].task)
  /\ GoIdle(w)
  /\ UNCHANGED <<row, canceller>>

----------------------------------------------------------------------------
(* The worker disappears: its process dies, Worker.stop cancels it, or a   *)
(* statement of get_task or nack raises out of _process_task.              *)

Abandon(w) ==
  /\ "abandon" \in Environment
  /\ worker[w].pc # "idle"
  /\ GoIdle(w)
  /\ UNCHANGED <<row, lease, canceller>>

(* auto_renew: while the task is in process, UPDATE the lease by its id;   *)
(* the loop ends when no row matches or the statement raises, the handler  *)
(* goes on.                                                                *)

Renew(w) ==
  LET t == worker[w].task IN
  /\ worker[w].renewing
  /\ IF lease[t].id = worker[w].lease
       THEN /\ \E d \in DaysAhead : lease' = [lease EXCEPT ![t].days = d]
            /\ UNCHANGED worker
       ELSE /\ worker' = [worker EXCEPT ![w].renewing = FALSE]
            /\ UNCHANGED lease
  /\ UNCHANGED <<row, canceller>>

RenewRaises(w) ==
  /\ "renew" \in Environment
  /\ worker[w].renewing
  /\ worker' = [worker EXCEPT ![w].renewing = FALSE]
  /\ UNCHANGED <<row, lease, canceller>>

----------------------------------------------------------------------------
(* reclaim_expired_leases: one transaction                                 *)

\* Mutant: compared as dates, up to and including today's.
ExpiredToday == {t \in Tasks : Leased(t) /\ lease[t].days <= 0}

Expired == {t \in Tasks : Leased(t) /\ lease[t].days = Past}

\* Mutants: the status is not looked at; the retry is not counted; the
\* expired leases are left where they are.
ReclaimableAnyStatus(t) == t \in Expired
ReclaimedUncounted(r)   == [r EXCEPT !.status = "queued", !.worker = None, !.lease = None]
LeasesKept              == lease

Reclaimable(t) == t \in Expired /\ row[t].status = "running"

Reclaimed(r) == [r EXCEPT !.status = "queued", !.worker = None,
                          !.lease = None, !.retries = Bump(@)]

LeasesLeft == [t \in Tasks |-> IF t \in Expired THEN NoLease ELSE lease[t]]

ReclaimExpiredLeases ==
  /\ Expired # {}
  /\ row' = [t \in Tasks |-> IF Reclaimable(t) THEN Reclaimed(row[t]) ELSE row[t]]
  /\ lease' = LeasesLeft
  /\ UNCHANGED <<worker, canceller>>

(* Midnight UTC.  With TimelyWork no worker is still busy with a task      *)
(* whose lease's date ends now.                                            *)

Yesterday(days) == IF days = Past THEN Past ELSE days - 1

LeaseLapses(w) == /\ worker[w].pc # "idle"
                  /\ Leased(worker[w].task)
                  /\ lease[worker[w].task].days # 1

NewDay ==
  /\ TimelyWork => \A w \in Workers : ~LeaseLapses(w)
  /\ row' = [t \in Tasks |-> [row[t] EXCEPT !.sched = Yesterday(@)]]
  /\ lease' = [t \in Tasks |-> [lease[t] EXCEPT !.days = Yesterday(@)]]
  /\ UNCHANGED <<worker, canceller>>

----------------------------------------------------------------------------
(* Scheduler.cancel_task: get_task, update_task from the copy it read,     *)
(* delete_lease by the copy's lease_id                                     *)

Uncancellable == {"completed", "failed", "dead"}

CancelRead(c, t) ==
  /\ canceller[c].pc = "idle"
  /\ row[t].status \in Stored \ Uncancellable
  /\ canceller' = [canceller EXCEPT ![c] = [pc |-> "update", task |-> t,
                                 worker |-> row[t].worker, lease |-> row[t].lease]]
  /\ UNCHANGED <<row, lease, worker>>

CancelUpdate(c) ==
  LET copy == canceller[c] IN
  /\ copy.pc = "update"
  /\ IF row[copy.task].status \in Stored
       THEN /\ row' = [row EXCEPT ![copy.task] = [@ EXCEPT !.status = "cancelled",
                                    !.worker = copy.worker, !.lease = copy.lease]]
            /\ canceller' = [canceller EXCEPT ![c] =
                  IF copy.lease = None THEN IdleCanceller ELSE [@ EXCEPT !.pc = "delete"]]
       ELSE canceller' = [canceller EXCEPT ![c] = IdleCanceller] /\ UNCHANGED row
  /\ UNCHANGED <<lease, worker>>

CancelDelete(c) ==
  LET copy == canceller[c] IN
  /\ copy.pc = "delete"
  /\ lease' = [t \in Tasks |-> IF lease[t].id = copy.lease THEN NoLease ELSE lease[t]]
  /\ canceller' = [canceller EXCEPT ![c] = IdleCanceller]
  /\ UNCHANGED <<row, worker>>

\* The request is dropped, or a statement raises, between two steps.
CancelAbandoned(c) ==
  /\ "cancel" \in Environment
  /\ canceller[c].pc # "idle"
  /\ canceller' = [canceller EXCEPT ![c] = IdleCanceller]
  /\ UNCHANGED <<row, lease, worker>>

----------------------------------------------------------------------------
(* Backend operations for operators: move_to_dlq, clear_queue              *)

MoveToDlq(t) ==
  /\ "dlq" \in Environment
  /\ row[t].status \in Stored
  /\ row' = [row EXCEPT ![t].status = "dead"]
  /\ UNCHANGED <<lease, worker, canceller>>

\* DELETE of the queued rows; the leases go with them (ON DELETE CASCADE).
ClearQueue(q) ==
  LET cleared == {t \in Tasks : QueueOf[t] = q /\ row[t].status = "queued"} IN
  /\ "clear" \in Environment
  /\ cleared # {}
  /\ row' = [t \in Tasks |-> IF t \in cleared THEN [row[t] EXCEPT !.status = "deleted"]
                                              ELSE row[t]]
  /\ lease' = [t \in Tasks |-> IF t \in cleared THEN NoLease ELSE lease[t]]
  /\ UNCHANGED <<worker, canceller>>

----------------------------------------------------------------------------
WorkerStep(w) ==
  \/ Dequeue(w) \/ CheckCancelled(w) \/ Succeed(w) \/ Fail(w)
  \/ AckUpdate(w) \/ AckDelete(w)
  \/ NackRead(w) \/ NackUpdate(w) \/ NackDelete(w)

WorkerFault(w) == Abandon(w) \/ AckRaises(w) \/ RenewRaises(w)

CancelStep(c) == (\E t \in Tasks : CancelRead(c, t)) \/ CancelUpdate(c) \/ CancelDelete(c)

Failure == \/ \E w \in Workers : WorkerFault(w)
           \/ \E c \in Cancellers : CancelAbandoned(c)

Undisturbed ==
  \/ \E t \in Tasks : Enqueue(t) \/ MoveToDlq(t)
  \/ \E w \in Workers : WorkerStep(w) \/ Renew(w)
  \/ ReclaimExpiredLeases
  \/ NewDay
  \/ \E c \in Cancellers : CancelStep(c)
  \/ \E q \in Queues : ClearQueue(q)

Next == Undisturbed \/ Failure

Spec == Init /\ [][Next]_vars

----------------------------------------------------------------------------
(* Properties                                                              *)

Holding == {"check", "execute", "ack", "nackRead", "nackUpdate"}
Holds(w, t) == worker[w].pc \in Holding /\ worker[w].task = t

\* A task is in the hands of one worker at a time: dequeue, cancel check,
\* handler and the statement that ends the run.  dequeue_atomic excludes a
\* second dequeue, the lease has to exclude the reaper.
ExclusiveExecution ==
  \A v, w \in Workers, t \in Tasks : Holds(v, t) /\ Holds(w, t) => v = w

\* A lease row found next to a running task is the lease of that very run
\* (same lease_id and worker_id): dequeue never runs a task on top of a lease
\* some other worker left behind.
LeaseIsOfThisRun ==
  \A t \in Tasks : row[t].status = "running" /\ Leased(t) =>
                     lease[t].id = row[t].lease /\ lease[t].worker = row[t].worker

\* A running task has a lease.  The reaper finds abandoned tasks through
\* task_leases only, so a running row without one would stay running for ever.
RunningIsLeased == \A t \in Tasks : row[t].status = "running" => Leased(t)

\* A task fails for good only when its retries are used up, even though nack
\* decides from a copy of the row that other workers may change meanwhile.
FailedOnlyWhenExhausted ==
  \A t \in Tasks : row[t].status = "failed" => row[t].retries >= MaxRetries

Outcomes == {"completed", "failed", "cancelled"}

\* scheduler.py:399: "Can only cancel tasks that haven't completed".  A task
\* that has completed, failed or been cancelled keeps that outcome, on which a
\* dependent task or the caller may already have built.  While nobody cancels
\* it does: the unguarded UPDATE of nack, a second ack and the reaper find no
\* ended task to act on.  With one cancel_task call it does not: cancel_task
\* checks a copy of the row and writes it back later without a guard, over the
\* ack or the nack of the meantime, and a nack that decided before the
\* cancellation queues the cancelled task again.
OutcomeIsFinal ==
  [][\A t \in Tasks : row[t].status \in Outcomes => row'[t].status = row[t].status]_vars

\* A worker never executes a handler before the dependencies have completed,
\* though it starts two awaits after the query that checked them.
HandlerRunsAfterDependencies ==
  \A w \in Workers : worker[w].pc = "execute" => DepsCompleted(worker[w].task)

\* Refinement.  While leases outlive the work and nobody cancels, the rows and
\* the workers implement TaskOwnership: the unguarded UPDATE of nack and the
\* ack that checks the status only are never applied to another worker's run.
Ownership == INSTANCE TaskOwnership WITH
  state <- [t \in Tasks |-> CASE row[t].status = "absent"    -> "none"
                             [] row[t].status = "queued"    -> "waiting"
                             [] row[t].status = "running"   -> "owned"
                             [] row[t].status = "completed" -> "done"
                             [] OTHER                       -> "failed"],
  owner <- [t \in Tasks |-> IF row[t].status = "running" THEN row[t].worker ELSE None],
  tries <- [t \in Tasks |-> row[t].retries],
  works <- [w \in Workers |-> IF worker[w].pc \in Holding THEN worker[w].task ELSE None]

ImplementsOwnership == Ownership!Spec

\* Liveness.  Workers poll for ever, every handler ends (wait_for has a
\* timeout), the reaper wakes up every lease_reaper_interval, days pass, and
\* failures of the environment stop some day.
Fairness == /\ \A w \in Workers : WF_vars(WorkerStep(w))
            /\ WF_vars(ReclaimExpiredLeases)
            /\ WF_vars(NewDay)
            /\ <>[][Undisturbed]_vars

FairSpec == Spec /\ Fairness

\* A queued task whose dependencies have completed ends: its retry becomes
\* due, a lease left behind by a dead worker is reaped and does not block
\* the row, and with it the queue, for ever.
ReadyTasksEnd ==
  \A t \in Tasks :
    row[t].status = "queued" /\ DepsCompleted(t) ~> row[t].status \in {"completed", "failed"}
=============================================================================
