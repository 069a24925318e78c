-------------------------- MODULE TaskQueueProofs --------------------------
(***************************************************************************)
(* Theorems about TaskQueue, for every set of tasks, workers, cancellers   *)
(* and lease ids, every dependency graph, priority and retry limit.        *)
(***************************************************************************)
EXTENDS TaskQueue, TLAPS

----------------------------------------------------------------------------
(* Type correctness: what a row, a lease, a worker may become              *)

BusyOrIdle == {s \in WorkerStates : s.pc # "idle" => s.task \in Tasks}

\* The retry counter stays within its range.
LEMMA BumpType == ASSUME NEW n \in 0 .. MaxRetries + 1
                  PROVE  Bump(n) \in 0 .. MaxRetries + 1
BY QueueAssumption DEF Bump

\* UPDATE tasks SET status = s: still a row.
LEMMA RowStatus == ASSUME NEW r \in Rows, NEW s \in Statuses
                   PROVE  [r EXCEPT !.status = s] \in Rows
BY DEF Rows

\* The row that the INSERT of enqueue leaves.
LEMMA RowQueued == ASSUME NEW r \in Rows, NEW S \in SUBSET Tasks
                   PROVE  [r EXCEPT !.status = "queued", !.older = S] \in Rows
BY DEF Rows, Statuses, Stored

\* UPDATE tasks SET status, worker_id, lease_id: still a row.
LEMMA RowOwner ==
  ASSUME NEW r \in Rows, NEW s \in Statuses,
         NEW v \in Workers \union {None}, NEW l \in LeaseIds \union {None}
  PROVE  [r EXCEPT !.status = s, !.worker = v, !.lease = l] \in Rows
BY DEF Rows

\* A row seen one day later is a row.
LEMMA RowNextDay == ASSUME NEW r \in Rows PROVE [r EXCEPT !.sched = Yesterday(@)] \in Rows
<1>1. Yesterday(r.sched) \in DaysAhead \union {Past}
  BY DEF Rows, Yesterday, DaysAhead, Past
<1> QED
  BY <1>1 DEF Rows

\* The rows that a retry by nack and that the reaper leave.
LEMMA RowRetry ==
  ASSUME NEW r \in Rows
  PROVE  /\ \A d \in DaysAhead :
              [r EXCEPT !.status = "queued", !.retries = Bump(@), !.sched = d,
                        !.worker = None, !.lease = None] \in Rows
         /\ [r EXCEPT !.status = "queued", !.worker = None,
                      !.lease = None, !.retries = Bump(@)] \in Rows
<1>1. Bump(r.retries) \in 0 .. MaxRetries + 1
  BY BumpType DEF Rows
<1> QED
  BY <1>1 DEF Rows, Statuses, Stored

\* A deleted, a renewed and a day-older lease are leases.
LEMMA LeaseType ==
  /\ NoLease \in Leases
  /\ \A l \in Leases : [l EXCEPT !.days = Yesterday(@)] \in Leases
  /\ \A l \in Leases, d \in DaysAhead : [l EXCEPT !.days = d] \in Leases
BY DEF NoLease, Leases, Yesterday, DaysAhead, Past

\* Going idle and the end of the renewal loop keep a worker well formed.
LEMMA WorkerType ==
  /\ IdleWorker \in BusyOrIdle
  /\ \A s \in BusyOrIdle : [s EXCEPT !.renewing = FALSE] \in BusyOrIdle
<1>1. IdleWorker \in BusyOrIdle
  BY DEF IdleWorker, BusyOrIdle, WorkerStates, WorkerPcs
<1>2. ASSUME NEW s \in BusyOrIdle PROVE [s EXCEPT !.renewing = FALSE] \in BusyOrIdle
  BY DEF BusyOrIdle, WorkerStates
<1> QED
  BY <1>1, <1>2

\* A busy worker moves on to another point with the same task.
LEMMA WorkerMoves ==
  ASSUME NEW s \in BusyOrIdle, s.pc # "idle", NEW pc \in WorkerPcs, NEW b \in BOOLEAN
  PROVE  /\ [s EXCEPT !.pc = pc] \in BusyOrIdle
         /\ [s EXCEPT !.pc = pc, !.renewing = TRUE] \in BusyOrIdle
         /\ [s EXCEPT !.pc = pc, !.retry = b] \in BusyOrIdle
<1>1. s \in WorkerStates /\ s.task \in Tasks
  BY DEF BusyOrIdle
<1>2. [s EXCEPT !.pc = pc] \in BusyOrIdle
  BY <1>1 DEF BusyOrIdle, WorkerStates
<1>3. [s EXCEPT !.pc = pc, !.renewing = TRUE] \in BusyOrIdle
  BY <1>1 DEF BusyOrIdle, WorkerStates
<1>4. [s EXCEPT !.pc = pc, !.retry = b] \in BusyOrIdle
  BY <1>1 DEF BusyOrIdle, WorkerStates
<1> QED
  BY <1>2, <1>3, <1>4

\* ... and keeps the task in hand.
LEMMA WorkerMovesTask ==
  ASSUME NEW s \in WorkerStates, NEW pc, NEW b
  PROVE  /\ [s EXCEPT !.pc = pc, !.renewing = b].task = s.task
         /\ [s EXCEPT !.pc = pc, !.retry = b].task = s.task
BY DEF WorkerStates

\* The uuid that dequeue draws is a lease id.
LEMMA FreshLeaseId == FreshLeaseIds # {} => (CHOOSE l \in FreshLeaseIds : TRUE) \in LeaseIds
BY DEF FreshLeaseIds

\* The empty database and idle coroutines are well typed.
LEMMA InitTypeOK == Init => TypeOK
<1> SUFFICES ASSUME Init PROVE TypeOK
  OBVIOUS
<1>1. row \in [Tasks -> Rows]
  BY QueueAssumption DEF Init, Rows, Statuses
<1>2. lease \in [Tasks -> Leases] /\ worker \in [Workers -> BusyOrIdle]
  BY LeaseType, WorkerType DEF Init
<1>3. canceller \in [Cancellers -> {s \in CancellerStates : s.pc # "idle" => s.task \in Tasks}]
  BY DEF Init, IdleCanceller, CancellerStates
<1> QED
  BY <1>1, <1>2, <1>3 DEF TypeOK, BusyOrIdle

\* Goto and GoIdle keep the workers well typed.
LEMMA WorkerStepsType ==
  ASSUME TypeOK, NEW w \in Workers
  PROVE  /\ GoIdle(w) => worker' \in [Workers -> BusyOrIdle]
         /\ \A pc \in WorkerPcs : worker[w].pc # "idle" /\ Goto(w, pc)
                                    => worker' \in [Workers -> BusyOrIdle]
<1>1. worker \in [Workers -> BusyOrIdle]
  BY DEF TypeOK, BusyOrIdle
<1>2. GoIdle(w) => worker' \in [Workers -> BusyOrIdle]
  BY <1>1, WorkerType DEF GoIdle
<1>3. ASSUME NEW pc \in WorkerPcs, worker[w].pc # "idle", Goto(w, pc)
      PROVE  worker' \in [Workers -> BusyOrIdle]
  <2>1. [worker[w] EXCEPT !.pc = pc] \in BusyOrIdle
    BY <1>1, <1>3, WorkerMoves
  <2> QED
    BY <1>1, <1>3, <2>1 DEF Goto
<1> QED
  BY <1>2, <1>3

\* Every step keeps the types.
LEMMA NextTypeOK == TypeOK /\ [Next]_vars => TypeOK'
<1> SUFFICES ASSUME TypeOK, [Next]_vars PROVE TypeOK'
  OBVIOUS
<1> DEFINE Cancels == {s \in CancellerStates : s.pc # "idle" => s.task \in Tasks}
<1>0. /\ row \in [Tasks -> Rows] /\ lease \in [Tasks -> Leases]
      /\ worker \in [Workers -> BusyOrIdle] /\ canceller \in [Cancellers -> Cancels]
      /\ "queued" \in Statuses /\ "running" \in Statuses /\ "completed" \in Statuses
      /\ "failed" \in Statuses /\ "cancelled" \in Statuses /\ "dead" \in Statuses
      /\ "deleted" \in Statuses
      /\ {"ack", "ackDelete", "check", "execute", "nackRead", "nackUpdate", "nackDelete"}
            \subseteq WorkerPcs
      /\ \A w \in Workers : worker[w].pc # "idle" => worker[w].task \in Tasks
      /\ TypeOK' <=> /\ row' \in [Tasks -> Rows] /\ lease' \in [Tasks -> Leases]
                     /\ worker' \in [Workers -> BusyOrIdle]
                     /\ canceller' \in [Cancellers -> Cancels]
  BY DEF TypeOK, BusyOrIdle, Statuses, Stored, WorkerPcs
<1>1. ASSUME NEW t \in Tasks, Enqueue(t) PROVE TypeOK'
  <2> DEFINE S == {u \in Tasks : row[u].status # "absent"}
  <2>1. S \in SUBSET Tasks
    OBVIOUS
  <2>2. [row[t] EXCEPT !.status = "queued", !.older = S] \in Rows
    BY <1>0, <2>1, RowQueued
  <2>3. row' \in [Tasks -> Rows]
    BY <1>0, <1>1, <2>2 DEF Enqueue
  <2> QED
    BY <1>0, <1>1, <2>3 DEF Enqueue
<1>2. ASSUME NEW w \in Workers, Dequeue(w) PROVE TypeOK'
  <2> DEFINE id == CHOOSE l \in FreshLeaseIds : TRUE
  <2>1. PICK t \in Tasks, d \in DaysAhead :
          /\ lease' = [lease EXCEPT ![t] = [id |-> id, worker |-> w, days |-> d]]
          /\ row' = [row EXCEPT ![t] = [@ EXCEPT !.status = "running",
                                               !.worker = w, !.lease = id]]
          /\ worker' = [worker EXCEPT ![w] = [IdleWorker EXCEPT !.pc = "check",
                                                      !.task = t, !.lease = id]]
    BY <1>2 DEF Dequeue, InsertLease
  <2>2. id \in LeaseIds
    BY <1>2, FreshLeaseId DEF Dequeue
  <2> HIDE DEF id
  <2>3. [id |-> id, worker |-> w, days |-> d] \in Leases
    BY <2>2 DEF Leases
  <2>4. [row[t] EXCEPT !.status = "running", !.worker = w, !.lease = id] \in Rows
    BY <1>0, <2>2, RowOwner
  <2>5. [IdleWorker EXCEPT !.pc = "check", !.task = t, !.lease = id] \in BusyOrIdle
    BY <2>2 DEF IdleWorker, BusyOrIdle, WorkerStates, WorkerPcs
  <2>6. lease' \in [Tasks -> Leases] /\ worker' \in [Workers -> BusyOrIdle]
    BY <1>0, <2>1, <2>3, <2>5
  <2>7. row' \in [Tasks -> Rows]
    BY <1>0, <2>1, <2>4
  <2> QED
    BY <1>0, <1>2, <2>6, <2>7 DEF Dequeue
<1>3. ASSUME NEW w \in Workers, CheckCancelled(w) PROVE TypeOK'
  <2>1. worker' \in [Workers -> BusyOrIdle]
    <3>1. [worker[w] EXCEPT !.pc = "execute", !.renewing = TRUE] \in BusyOrIdle
      BY <1>0, <1>3, WorkerMoves DEF CheckCancelled
    <3> QED
      BY <1>0, <1>3, <3>1, WorkerStepsType DEF CheckCancelled
  <2> QED
    BY <1>0, <1>3, <2>1 DEF CheckCancelled
<1>4. ASSUME NEW w \in Workers, Succeed(w) \/ Fail(w) \/ AckRaises(w) PROVE TypeOK'
  BY <1>0, <1>4, WorkerStepsType DEF Succeed, Fail, AckRaises
<1>5. ASSUME NEW w \in Workers, AckUpdate(w) PROVE TypeOK'
  <2>1. worker' \in [Workers -> BusyOrIdle]
    BY <1>0, <1>5, WorkerStepsType DEF AckUpdate
  <2>2. [row[worker[w].task] EXCEPT !.status = "completed"] \in Rows
    BY <1>0, <1>5, RowStatus DEF AckUpdate
  <2>3. row' \in [Tasks -> Rows]
    BY <1>0, <1>5, <2>2 DEF AckUpdate
  <2> QED
    BY <1>0, <1>5, <2>1, <2>3 DEF AckUpdate
<1>6. ASSUME NEW w \in Workers, AckDelete(w) \/ NackDelete(w) PROVE TypeOK'
  BY <1>0, <1>6, LeaseType, WorkerStepsType DEF AckDelete, NackDelete, DeleteLease
<1>7. ASSUME NEW w \in Workers, NackRead(w) PROVE TypeOK'
  <2>1. worker' \in [Workers -> BusyOrIdle]
    <3> DEFINE again == row[worker[w].task].retries < MaxRetries
    <3>1. again \in BOOLEAN
      OBVIOUS
    <3> HIDE DEF again
    <3>2. [worker[w] EXCEPT !.pc = "nackUpdate", !.retry = again] \in BusyOrIdle
      BY <1>0, <1>7, <3>1, WorkerMoves DEF NackRead
    <3>3. GoIdle(w) => worker' \in [Workers -> BusyOrIdle]
      BY WorkerStepsType
    <3> QED
      BY <1>0, <1>7, <3>2, <3>3 DEF NackRead, RetriesLeft, again
  <2> QED
    BY <1>0, <1>7, <2>1 DEF NackRead
<1>8. ASSUME NEW w \in Workers, NackUpdate(w) PROVE TypeOK'
  <2> DEFINE t == worker[w].task
  <2>1. t \in Tasks /\ row[t] \in Rows
    BY <1>0, <1>8 DEF NackUpdate
  <2>2. row' \in [Tasks -> Rows]
    <3>1. CASE row' = row
      BY <1>0, <3>1
    <3>2. CASE row' = [row EXCEPT ![t].status = "failed"]
      <4>1. [row[t] EXCEPT !.status = "failed"] \in Rows
        BY <1>0, <2>1, RowStatus
      <4> QED
        BY <1>0, <3>2, <4>1
    <3>3. ASSUME NEW d \in DaysAhead,
                 row' = [row EXCEPT ![t] = [@ EXCEPT !.status = "queued",
                           !.retries = Bump(row[t].retries), !.sched = d, !.worker = None, !.lease = None]]
          PROVE  row' \in [Tasks -> Rows]
      <4> DEFINE again == [row[t] EXCEPT !.status = "queued", !.retries = Bump(@),
                                         !.sched = d, !.worker = None, !.lease = None]
      <4>1. again \in Rows
        BY <2>1, RowRetry
      <4>2. row' = [row EXCEPT ![t] = again]
        BY <3>3
      <4> HIDE DEF again
      <4> QED
        BY <1>0, <2>1, <4>1, <4>2
    <3> QED
      BY <1>8, <3>1, <3>2, <3>3 DEF NackUpdate
  <2>3. worker' \in [Workers -> BusyOrIdle]
    BY <1>0, <1>8, WorkerStepsType DEF NackUpdate
  <2> QED
    BY <1>0, <1>8, <2>2, <2>3 DEF NackUpdate
<1>9. ASSUME NEW w \in Workers, Abandon(w) PROVE TypeOK'
  BY <1>0, <1>9, WorkerStepsType DEF Abandon
<1>10. ASSUME NEW w \in Workers, Renew(w) \/ RenewRaises(w) PROVE TypeOK'
  <2>1. worker' \in [Workers -> BusyOrIdle]
    BY <1>0, <1>10, WorkerType DEF Renew, RenewRaises
  <2>2. lease' \in [Tasks -> Leases]
    <3>1. CASE lease' = lease
      BY <1>0, <3>1
    <3>2. ASSUME NEW d \in DaysAhead, lease' = [lease EXCEPT ![worker[w].task].days = d]
          PROVE  lease' \in [Tasks -> Leases]
      BY <1>0, <3>2, LeaseType
    <3> QED
      BY <1>10, <3>1, <3>2 DEF Renew, RenewRaises
  <2> QED
    BY <1>0, <1>10, <2>1, <2>2 DEF Renew, RenewRaises
<1>11. ASSUME ReclaimExpiredLeases PROVE TypeOK'
  <2>1. \A t \in Tasks : [row[t] EXCEPT !.status = "queued", !.worker = None,
                                       !.lease = None, !.retries = Bump(@)] \in Rows
    BY <1>0, RowRetry
  <2> QED
    BY <1>0, <1>11, <2>1, LeaseType DEF ReclaimExpiredLeases, LeasesLeft, Reclaimable, Reclaimed
<1>12. ASSUME NewDay PROVE TypeOK'
  <2>1. \A t \in Tasks : [row[t] EXCEPT !.sched = Yesterday(@)] \in Rows
    BY <1>0, RowNextDay
  <2> QED
    BY <1>0, <1>12, <2>1, LeaseType DEF NewDay
<1>13. ASSUME NEW c \in Cancellers, CancelStep(c) \/ CancelAbandoned(c) PROVE TypeOK'
  <2>1. IdleCanceller \in Cancels
    BY DEF IdleCanceller, CancellerStates
  <2>2. ASSUME NEW t \in Tasks, CancelRead(c, t) PROVE TypeOK'
    <3>1. [pc |-> "update", task |-> t, worker |-> row[t].worker, lease |-> row[t].lease]
            \in Cancels
      BY <1>0 DEF CancellerStates, Rows
    <3> QED
      BY <1>0, <2>2, <3>1 DEF CancelRead
  <2>3. ASSUME CancelUpdate(c) PROVE TypeOK'
    <3> DEFINE copy == canceller[c]
    <3>1. copy \in Cancels /\ copy.pc # "idle"
      BY <1>0, <2>3 DEF CancelUpdate
    <3>2. [copy EXCEPT !.pc = "delete"] \in Cancels
      BY <3>1 DEF CancellerStates
    <3>3. [row[copy.task] EXCEPT !.status = "cancelled", !.worker = copy.worker,
                                 !.lease = copy.lease] \in Rows
      <4>1. /\ row[copy.task] \in Rows /\ "cancelled" \in Statuses
            /\ copy.worker \in Workers \union {None} /\ copy.lease \in LeaseIds \union {None}
        BY <1>0, <3>1 DEF CancellerStates
      <4> QED
        BY <4>1, RowOwner
    <3>4. row' \in [Tasks -> Rows]
      BY <1>0, <2>3, <3>1, <3>3 DEF CancelUpdate
    <3>5. canceller' \in [Cancellers -> Cancels]
      BY <1>0, <2>1, <2>3, <3>2 DEF CancelUpdate
    <3> QED
      BY <1>0, <2>3, <3>4, <3>5 DEF CancelUpdate
  <2>4. ASSUME CancelDelete(c) \/ CancelAbandoned(c) PROVE TypeOK'
    BY <1>0, <2>1, <2>4, LeaseType DEF CancelDelete, CancelAbandoned
  <2> QED
    BY <1>13, <2>2, <2>3, <2>4 DEF CancelStep
<1>14. ASSUME NEW t \in Tasks, MoveToDlq(t) PROVE TypeOK'
  BY <1>0, <1>14, RowStatus DEF MoveToDlq
<1>15. ASSUME NEW q \in Queues, ClearQueue(q) PROVE TypeOK'
  BY <1>0, <1>15, RowStatus, LeaseType DEF ClearQueue
<1>16. CASE UNCHANGED vars
  BY <1>0, <1>16 DEF vars
<1> QED
  BY <1>1, <1>2, <1>3, <1>4, <1>5, <1>6, <1>7, <1>8, <1>9, <1>10, <1>11, <1>12,
     <1>13, <1>14, <1>15, <1>16 DEF Next, Undisturbed, Failure, WorkerStep, WorkerFault

\* The rows, leases, workers and cancellers keep their shape.
THEOREM TypeCorrect == Spec => []TypeOK
<1> QED
  BY InitTypeOK, NextTypeOK, PTL DEF Spec

----------------------------------------------------------------------------
(* What the steps that are not plain updates do to rows and leases         *)

\* nack's UPDATE leaves a row alone, or queues or fails its own task.
LEMMA NackUpdateRows ==
  ASSUME TypeOK, NEW w \in Workers, NackUpdate(w), NEW t \in Tasks
  PROVE  row'[t] = row[t] \/ (t = worker[w].task /\ row'[t].status \in {"queued", "failed"})
<1>a. row \in [Tasks -> Rows]
  BY DEF TypeOK
<1> DEFINE u == worker[w].task
<1>1. CASE row' = row
  BY <1>1
<1>2. CASE row' = [row EXCEPT ![u].status = "failed"]
  BY <1>a, <1>2 DEF Rows
<1>3. ASSUME NEW d \in DaysAhead,
             row' = [row EXCEPT ![u] = [@ EXCEPT !.status = "queued",
                       !.retries = Bump(row[u].retries), !.sched = d,
                       !.worker = None, !.lease = None]]
      PROVE  row'[t] = row[t] \/ (t = u /\ row'[t].status \in {"queued", "failed"})
  BY <1>a, <1>3 DEF Rows
<1> QED
  BY <1>1, <1>2, <1>3 DEF NackUpdate

\* The renewal moves the expiry of a lease, never its id, worker or past.
LEMMA RenewLeases ==
  ASSUME TypeOK, NEW w \in Workers, Renew(w), NEW t \in Tasks
  PROVE  /\ lease'[t].id = lease[t].id /\ lease'[t].worker = lease[t].worker
         /\ lease'[t] = lease[t] \/ lease'[t].days # Past
<1>a. lease \in [Tasks -> Leases]
  BY DEF TypeOK
<1>1. CASE lease' = lease
  BY <1>1
<1>2. ASSUME NEW d \in DaysAhead, lease' = [lease EXCEPT ![worker[w].task].days = d]
      PROVE  /\ lease'[t].id = lease[t].id /\ lease'[t].worker = lease[t].worker
             /\ lease'[t] = lease[t] \/ lease'[t].days # Past
  BY <1>a, <1>2 DEF Leases, DaysAhead, Past
<1> QED
  BY <1>1, <1>2 DEF Renew

\* cancel_task makes rows 'cancelled' and deletes leases, nothing else.
LEMMA CancelRows ==
  ASSUME TypeOK, NEW c \in Cancellers, CancelStep(c) \/ CancelAbandoned(c), NEW t \in Tasks
  PROVE  /\ row'[t] = row[t] \/ row'[t].status = "cancelled"
         /\ lease'[t] = lease[t] \/ lease'[t].id = None
         /\ worker' = worker
<1>a. row \in [Tasks -> Rows] /\ lease \in [Tasks -> Leases]
  BY DEF TypeOK
<1>1. CASE CancelAbandoned(c)
  BY <1>1 DEF CancelAbandoned
<1>2. ASSUME NEW u \in Tasks, CancelRead(c, u) PROVE UNCHANGED <<row, lease, worker>>
  BY <1>2 DEF CancelRead
<1>3. CASE CancelUpdate(c)
  <2> DEFINE copy == canceller[c]
  <2>1. /\ UNCHANGED <<lease, worker>>
        /\ \/ row' = row
           \/ row' = [row EXCEPT ![copy.task] = [@ EXCEPT !.status = "cancelled",
                                                  !.worker = copy.worker, !.lease = copy.lease]]
    BY <1>3 DEF CancelUpdate
  <2> HIDE DEF copy
  <2>2. row'[t] = row[t] \/ row'[t] = [row[t] EXCEPT !.status = "cancelled",
                                           !.worker = copy.worker, !.lease = copy.lease]
    BY <2>1, <1>a
  <2>3. row[t] \in Rows
    BY <1>a
  <2>4. row'[t] = row[t] \/ row'[t].status = "cancelled"
    BY <2>2, <2>3 DEF Rows
  <2> QED
    BY <2>1, <2>4
<1>4. CASE CancelDelete(c)
  BY <1>4, <1>a DEF CancelDelete, NoLease
<1> QED
  BY <1>1, <1>2, <1>3, <1>4 DEF CancelStep

----------------------------------------------------------------------------
(* LeaseIsOfThisRun is inductive once types are known: it holds under      *)
(* every failure, with or without timely workers.                          *)

\* At the start nothing runs.
LEMMA InitLeaseIsOfThisRun == Init => LeaseIsOfThisRun
BY DEF Init, LeaseIsOfThisRun

\* Every step keeps the lease and the running row in agreement.
LEMMA NextLeaseIsOfThisRun ==
  ASSUME TypeOK, LeaseIsOfThisRun, [Next]_vars PROVE LeaseIsOfThisRun'
<1> SUFFICES ASSUME NEW t \in Tasks, row'[t].status = "running", lease'[t].id # None
             PROVE  lease'[t].id = row'[t].lease /\ lease'[t].worker = row'[t].worker
  BY DEF LeaseIsOfThisRun, Leased
\* What a step leaves alone still matches.
<1> DEFINE Kept == /\ row'[t].status = row[t].status /\ row'[t].lease = row[t].lease
                   /\ row'[t].worker = row[t].worker /\ lease'[t].id = lease[t].id
                   /\ lease'[t].worker = lease[t].worker
<1>0. SUFFICES ASSUME ~Kept
               PROVE  lease'[t].id = row'[t].lease /\ lease'[t].worker = row'[t].worker
  BY DEF LeaseIsOfThisRun, Leased
<1>a. row \in [Tasks -> Rows] /\ lease \in [Tasks -> Leases]
  BY DEF TypeOK
<1>1. ASSUME NEW u \in Tasks, Enqueue(u) \/ MoveToDlq(u) PROVE FALSE
  BY <1>0, <1>1, <1>a DEF Enqueue, MoveToDlq, Rows
<1>2. ASSUME NEW w \in Workers, Dequeue(w)
      PROVE  lease'[t].id = row'[t].lease /\ lease'[t].worker = row'[t].worker
  <2> DEFINE id == CHOOSE l \in FreshLeaseIds : TRUE
  <2>1. PICK u \in Tasks, d \in DaysAhead :
          /\ lease' = [lease EXCEPT ![u] = [id |-> id, worker |-> w, days |-> d]]
          /\ row' = [row EXCEPT ![u] = [@ EXCEPT !.status = "running",
                                               !.worker = w, !.lease = id]]
    BY <1>2 DEF Dequeue, InsertLease
  <2> HIDE DEF id
  <2> QED
    BY <1>0, <1>a, <2>1 DEF Rows
<1>3. ASSUME NEW w \in Workers,
             CheckCancelled(w) \/ Succeed(w) \/ Fail(w) \/ NackRead(w) \/ WorkerFault(w)
      PROVE  FALSE
  BY <1>0, <1>3 DEF CheckCancelled, Succeed, Fail, NackRead, WorkerFault, Abandon,
                    AckRaises, RenewRaises
<1>4. ASSUME NEW w \in Workers, AckUpdate(w) PROVE FALSE
  BY <1>0, <1>4, <1>a DEF AckUpdate, Rows
<1>5. ASSUME NEW w \in Workers, AckDelete(w) \/ NackDelete(w) PROVE FALSE
  BY <1>0, <1>5, <1>a DEF AckDelete, NackDelete, DeleteLease, NoLease
<1>6. ASSUME NEW w \in Workers, NackUpdate(w) PROVE FALSE
  <2>1. lease' = lease
    BY <1>6 DEF NackUpdate
  <2>2. row'[t] = row[t] \/ row'[t].status \in {"queued", "failed"}
    BY <1>6, NackUpdateRows
  <2> QED
    BY <1>0, <2>1, <2>2
<1>7. ASSUME NEW w \in Workers, Renew(w) PROVE FALSE
  BY <1>0, <1>7, RenewLeases DEF Renew
<1>8. CASE ReclaimExpiredLeases
  BY <1>0, <1>8, <1>a DEF ReclaimExpiredLeases, LeasesLeft, Reclaimable, Reclaimed, NoLease
<1>9. CASE NewDay
  BY <1>0, <1>9, <1>a DEF NewDay, Rows, Leases
<1>10. ASSUME NEW c \in Cancellers, CancelStep(c) \/ CancelAbandoned(c) PROVE FALSE
  BY <1>0, <1>10, CancelRows
<1>11. ASSUME NEW q \in Queues, ClearQueue(q) PROVE FALSE
  BY <1>0, <1>11, <1>a DEF ClearQueue, NoLease, Rows
<1>12. CASE UNCHANGED vars
  BY <1>0, <1>12 DEF vars
<1> QED
  BY <1>1, <1>2, <1>3, <1>4, <1>5, <1>6, <1>7, <1>8, <1>9, <1>10, <1>11, <1>12
     DEF Next, Undisturbed, Failure, WorkerStep

\* A lease next to a running task is the lease of that run, whatever fails.
THEOREM LeaseMatchesRun == Spec => []LeaseIsOfThisRun
<1>1. Init => TypeOK /\ LeaseIsOfThisRun
  BY InitTypeOK, InitLeaseIsOfThisRun
<1>2. TypeOK /\ LeaseIsOfThisRun /\ [Next]_vars => (TypeOK /\ LeaseIsOfThisRun)'
  BY NextTypeOK, NextLeaseIsOfThisRun
<1> QED
  BY <1>1, <1>2, PTL DEF Spec

----------------------------------------------------------------------------
(* Mutual exclusion.  ExclusiveExecution alone is not inductive: what      *)
(* keeps a second worker out is that the task in hand is neither queued    *)
(* nor can be put back in the queue by the reaper.                         *)

Engaged(w, t) == worker[w].pc \in Holding \union {"ackDelete"} /\ worker[w].task = t

InHand(w, t) == /\ row[t].status \notin {"absent", "queued"}
                /\ Leased(t) => lease[t].days # Past
                /\ \A v \in Workers : Engaged(v, t) => v = w

HoldInv == \A w \in Workers, t \in Tasks : Engaged(w, t) => InHand(w, t)

\* At the start nobody is engaged.
LEMMA InitHoldInv == Init => HoldInv
BY DEF Init, HoldInv, Engaged, Holding, IdleWorker

\* Every step keeps HoldInv, as long as leases outlive the work.
LEMMA NextHoldInv ==
  ASSUME TimelyWork = TRUE, TypeOK, HoldInv, [Next]_vars PROVE HoldInv'
<1>a. /\ row \in [Tasks -> Rows] /\ lease \in [Tasks -> Leases]
      /\ worker \in [Workers -> WorkerStates]
  BY DEF TypeOK
\* A step that hands no task out and does not touch rows or leases in hand.
<1>b. ASSUME \A w \in Workers, t \in Tasks : Engaged(w, t)' => Engaged(w, t),
             \A w \in Workers, t \in Tasks : Engaged(w, t)' =>
               /\ row'[t].status \notin {"absent", "queued"}
               /\ lease'[t].id # None => lease'[t].days # Past
      PROVE  HoldInv'
  BY <1>b DEF HoldInv, InHand, Leased
<1>c. ASSUME UNCHANGED <<row, lease>>,
             \A w \in Workers, t \in Tasks : Engaged(w, t)' => Engaged(w, t)
      PROVE  HoldInv'
  BY <1>c DEF HoldInv, InHand, Leased
<1>1. ASSUME NEW u \in Tasks, Enqueue(u) \/ MoveToDlq(u) PROVE HoldInv'
  <2>1. worker' = worker /\ lease' = lease
    BY <1>1 DEF Enqueue, MoveToDlq
  <2>2. \A t \in Tasks : row[t].status \notin {"absent", "queued"} =>
                           row'[t].status \notin {"absent", "queued"}
    BY <1>1, <1>a DEF Enqueue, MoveToDlq, Rows
  <2> QED
    BY <1>b, <2>1, <2>2 DEF HoldInv, InHand, Engaged, Leased
<1>2. ASSUME NEW v \in Workers, Dequeue(v) PROVE HoldInv'
  <2> DEFINE id == CHOOSE l \in FreshLeaseIds : TRUE
  <2>1. PICK u \in Tasks, d \in DaysAhead :
          /\ row[u].status = "queued"
          /\ lease' = [lease EXCEPT ![u] = [id |-> id, worker |-> v, days |-> d]]
          /\ row' = [row EXCEPT ![u] = [@ EXCEPT !.status = "running",
                                               !.worker = v, !.lease = id]]
          /\ worker' = [worker EXCEPT ![v] = [IdleWorker EXCEPT !.pc = "check",
                                                      !.task = u, !.lease = id]]
    BY <1>2 DEF Dequeue, InsertLease, IsNext, Ready
  <2> HIDE DEF id
  <2>2. \A w \in Workers : ~Engaged(w, u)
    BY <2>1 DEF HoldInv, InHand
  <2>3. \A w \in Workers, t \in Tasks :
          Engaged(w, t)' <=> (w = v /\ t = u) \/ (w # v /\ Engaged(w, t))
    BY <1>a, <2>1 DEF Engaged, Holding, IdleWorker
  <2>4. /\ row'[u].status = "running" /\ lease'[u].days # Past
        /\ \A t \in Tasks \ {u} : row'[t] = row[t] /\ lease'[t] = lease[t]
    BY <1>a, <2>1 DEF Rows, DaysAhead, Past
  <2> QED
    BY <2>2, <2>3, <2>4 DEF HoldInv, InHand, Leased
<1>3. ASSUME NEW v \in Workers,
             CheckCancelled(v) \/ Succeed(v) \/ Fail(v) \/ NackRead(v) \/ WorkerFault(v)
      PROVE  HoldInv'
  <2>1. UNCHANGED <<row, lease>>
    BY <1>3 DEF CheckCancelled, Succeed, Fail, NackRead, WorkerFault, Abandon,
                AckRaises, RenewRaises
  <2>2. \A w \in Workers, t \in Tasks : Engaged(w, t)' => Engaged(w, t)
    <3>1. CASE CheckCancelled(v)
      <4>1. CASE GoIdle(v)
        BY <4>1, <1>a DEF GoIdle, IdleWorker, Engaged, Holding
      <4>2. CASE worker' = [worker EXCEPT ![v] = [@ EXCEPT !.pc = "execute", !.renewing = TRUE]]
        <5> DEFINE next == [worker[v] EXCEPT !.pc = "execute", !.renewing = TRUE]
        <5>1. next.task = worker[v].task /\ worker[v].pc = "check"
          BY <1>a, <3>1, WorkerMovesTask DEF CheckCancelled
        <5>2. worker' = [worker EXCEPT ![v] = next]
          BY <4>2
        <5> HIDE DEF next
        <5> QED
          BY <1>a, <5>1, <5>2 DEF Engaged, Holding
      <4> QED
        BY <3>1, <4>1, <4>2 DEF CheckCancelled
    <3>2. CASE Succeed(v) \/ Fail(v) \/ AckRaises(v)
      BY <3>2, <1>a DEF Succeed, Fail, AckRaises, Goto, Engaged, Holding, WorkerStates
    <3>3. CASE NackRead(v)
      <4> DEFINE again == row[worker[v].task].retries < MaxRetries
                 next  == [worker[v] EXCEPT !.pc = "nackUpdate", !.retry = again]
      <4>1. CASE GoIdle(v)
        BY <4>1, <1>a DEF GoIdle, IdleWorker, Engaged, Holding
      <4>2. CASE worker' = [worker EXCEPT ![v] = next]
        <5> HIDE DEF again
        <5>1. next.task = worker[v].task /\ worker[v].pc = "nackRead"
          BY <1>a, <3>3, WorkerMovesTask DEF NackRead
        <5> HIDE DEF next
        <5> QED
          BY <1>a, <4>2, <5>1 DEF Engaged, Holding
      <4> QED
        BY <3>3, <4>1, <4>2 DEF NackRead, RetriesLeft
    <3>4. CASE Abandon(v)
      BY <3>4, <1>a DEF Abandon, GoIdle, IdleWorker, Engaged, Holding
    <3>5. CASE RenewRaises(v)
      BY <3>5, <1>a DEF RenewRaises, Engaged, WorkerStates
    <3> QED
      BY <1>3, <3>1, <3>2, <3>3, <3>4, <3>5 DEF WorkerFault
  <2> QED
    BY <1>c, <2>1, <2>2
<1>4. ASSUME NEW v \in Workers, AckUpdate(v) PROVE HoldInv'
  <2>1. \A w \in Workers, t \in Tasks : Engaged(w, t)' => Engaged(w, t)
    BY <1>4, <1>a DEF AckUpdate, Goto, GoIdle, IdleWorker, Engaged, Holding, WorkerStates
  <2>2. lease' = lease /\ \A t \in Tasks : row'[t] = row[t] \/ row'[t].status = "completed"
    BY <1>4, <1>a DEF AckUpdate, Rows
  <2> QED
    BY <1>b, <2>1, <2>2 DEF HoldInv, InHand, Leased
<1>5. ASSUME NEW v \in Workers, AckDelete(v) \/ NackDelete(v) PROVE HoldInv'
  <2>1. \A w \in Workers, t \in Tasks : Engaged(w, t)' => Engaged(w, t)
    BY <1>5, <1>a DEF AckDelete, NackDelete, GoIdle, IdleWorker, Engaged, Holding
  <2>2. row' = row /\ \A t \in Tasks : lease'[t] = lease[t] \/ lease'[t].id = None
    BY <1>5, <1>a DEF AckDelete, NackDelete, DeleteLease, NoLease
  <2> QED
    BY <1>b, <2>1, <2>2 DEF HoldInv, InHand, Leased
<1>6. ASSUME NEW v \in Workers, NackUpdate(v) PROVE HoldInv'
  <2>1. PICK u \in Tasks : u = worker[v].task /\ Engaged(v, u) /\ lease' = lease
    BY <1>6 DEF NackUpdate, TypeOK, Engaged, Holding
  <2>2. \A w \in Workers, t \in Tasks : Engaged(w, t)' => Engaged(w, t) /\ w # v
    BY <1>6, <1>a DEF NackUpdate, Goto, Engaged, Holding, WorkerStates
  <2>3. \A t \in Tasks \ {u} : row'[t] = row[t]
    BY <1>6, <2>1, NackUpdateRows
  <2>4. \A w \in Workers : ~Engaged(w, u)'
    BY <2>1, <2>2 DEF HoldInv, InHand
  <2> QED
    BY <1>b, <2>1, <2>2, <2>3, <2>4 DEF HoldInv, InHand, Leased
<1>7. ASSUME NEW v \in Workers, Renew(v) PROVE HoldInv'
  <2>1. \A w \in Workers, t \in Tasks : Engaged(w, t)' => Engaged(w, t)
    BY <1>7, <1>a DEF Renew, Engaged, WorkerStates
  <2>2. row' = row /\ \A t \in Tasks : lease'[t] = lease[t] \/ lease'[t].days # Past
    BY <1>7, RenewLeases DEF Renew
  <2> QED
    BY <1>b, <2>1, <2>2 DEF HoldInv, InHand, Leased
<1>8. CASE ReclaimExpiredLeases
  <2>1. worker' = worker /\ \A w \in Workers, t \in Tasks : Engaged(w, t)' => Engaged(w, t)
    BY <1>8 DEF ReclaimExpiredLeases, LeasesLeft, Reclaimable, Reclaimed, Engaged
  <2>2. \A w \in Workers, t \in Tasks : Engaged(w, t) =>
          row'[t] = row[t] /\ lease'[t] = lease[t]
    BY <1>8, <1>a DEF ReclaimExpiredLeases, LeasesLeft, Reclaimable, Reclaimed, HoldInv, InHand, Expired
  <2> QED
    BY <1>b, <2>1, <2>2 DEF HoldInv, InHand, Leased
<1>9. CASE NewDay
  <2>1. worker' = worker /\ \A w \in Workers, t \in Tasks : Engaged(w, t)' => Engaged(w, t)
    BY <1>9 DEF NewDay, Engaged
  <2>2. \A t \in Tasks : /\ row'[t].status = row[t].status
                         /\ lease'[t].id = lease[t].id
                         /\ lease'[t].days = Yesterday(lease[t].days)
    BY <1>9, <1>a DEF NewDay, Rows, Leases
  <2>3. \A w \in Workers, t \in Tasks : Engaged(w, t) /\ Leased(t) => lease[t].days = 1
    BY <1>9 DEF NewDay, LeaseLapses, Engaged, Holding
  <2>4. Yesterday(1) # Past
    BY DEF Yesterday, Past
  <2> QED
    BY <1>b, <2>1, <2>2, <2>3, <2>4 DEF HoldInv, InHand, Leased
<1>10. ASSUME NEW c \in Cancellers, CancelStep(c) \/ CancelAbandoned(c) PROVE HoldInv'
  <2>1. worker' = worker /\ \A w \in Workers, t \in Tasks : Engaged(w, t)' => Engaged(w, t)
    BY <1>10 DEF CancelStep, CancelRead, CancelUpdate, CancelDelete, CancelAbandoned, Engaged
  <2>2. \A t \in Tasks : /\ row'[t] = row[t] \/ row'[t].status = "cancelled"
                         /\ lease'[t] = lease[t] \/ lease'[t].id = None
    BY <1>10, CancelRows
  <2> QED
    BY <1>b, <2>1, <2>2 DEF HoldInv, InHand, Leased
<1>11. ASSUME NEW q \in Queues, ClearQueue(q) PROVE HoldInv'
  <2>1. worker' = worker /\ \A w \in Workers, t \in Tasks : Engaged(w, t)' => Engaged(w, t)
    BY <1>11 DEF ClearQueue, Engaged
  <2>2. \A t \in Tasks : row[t].status # "queued" => row'[t] = row[t] /\ lease'[t] = lease[t]
    BY <1>11, <1>a DEF ClearQueue
  <2> QED
    BY <1>b, <2>1, <2>2 DEF HoldInv, InHand, Leased
<1>12. CASE UNCHANGED vars
  BY <1>c, <1>12 DEF vars, Engaged
<1> QED
  BY <1>1, <1>2, <1>3, <1>4, <1>5, <1>6, <1>7, <1>8, <1>9, <1>10, <1>11, <1>12
     DEF Next, Undisturbed, Failure, WorkerStep

\* While leases outlive the work, no two workers hold the same task: not with
\* crashes, failing statements or lost renewals, and not with cancellations.
THEOREM MutualExclusion == ASSUME TimelyWork = TRUE PROVE Spec => []ExclusiveExecution
<1>1. Init => TypeOK /\ HoldInv
  BY InitTypeOK, InitHoldInv
<1>2. TypeOK /\ HoldInv /\ [Next]_vars => (TypeOK /\ HoldInv)'
  BY NextTypeOK, NextHoldInv
<1>3. TypeOK /\ HoldInv => ExclusiveExecution
  BY DEF HoldInv, InHand, Engaged, ExclusiveExecution, Holds
<1> QED
  BY <1>1, <1>2, <1>3, PTL DEF Spec

----------------------------------------------------------------------------
(* FailedOnlyWhenExhausted, under every failure: nack decides from a copy  *)
(* of the row, but retry_count never goes down.                            *)

\* dequeue_atomic: task u was ready, and gets a lease and a worker at once.
Claims(w, u, id, d) ==
  /\ Ready(u) /\ ~Leased(u) /\ worker[w].pc = "idle"
  /\ lease' = [lease EXCEPT ![u] = [id |-> id, worker |-> w, days |-> d]]
  /\ row' = [row EXCEPT ![u] = [@ EXCEPT !.status = "running", !.worker = w, !.lease = id]]
  /\ worker' = [worker EXCEPT ![w] = [IdleWorker EXCEPT !.pc = "check",
                                              !.task = u, !.lease = id]]

\* A dequeue that succeeds claims one task, under a new lease.
LEMMA DequeueClaims ==
  ASSUME NEW w \in Workers, Dequeue(w)
  PROVE  \E u \in Tasks, id \in LeaseIds, d \in DaysAhead : Claims(w, u, id, d)
<1> DEFINE id == CHOOSE l \in FreshLeaseIds : TRUE
<1>1. id \in LeaseIds
  BY FreshLeaseId DEF Dequeue
<1>2. \E u \in Tasks, d \in DaysAhead : Claims(w, u, id, d)
  BY DEF Dequeue, InsertLease, IsNext, Claims
<1> HIDE DEF id
<1> QED
  BY <1>1, <1>2

\* nack's UPDATE makes of the row of task t, by its worker w: nothing when it
\* is gone, a retry, or a failure.
Retried(r, d) == [r EXCEPT !.status = "queued", !.retries = Bump(@),
                           !.sched = d, !.worker = None, !.lease = None]
Nacked(w, t) ==
  \/ row[t].status \notin Stored /\ row'[t] = row[t]
  \/ /\ row[t].status \in Stored /\ ~worker[w].retry
     /\ row'[t] = [row[t] EXCEPT !.status = "failed"]
  \/ /\ row[t].status \in Stored /\ worker[w].retry
     /\ \E d \in DaysAhead : row'[t] = Retried(row[t], d)

\* nack's UPDATE touches the row of the worker's task only.
LEMMA NackUpdateSteps ==
  ASSUME TypeOK, NEW w \in Workers, NackUpdate(w)
  PROVE  /\ worker[w].pc = "nackUpdate" /\ worker[w].task \in Tasks
         /\ worker' = [worker EXCEPT ![w].pc = "nackDelete"] /\ lease' = lease
         /\ \A t \in Tasks : t # worker[w].task => row'[t] = row[t]
         /\ Nacked(w, worker[w].task)
<1> DEFINE u == worker[w].task
<1>1. worker[w].pc = "nackUpdate"
  BY DEF NackUpdate
<1>2. row \in [Tasks -> Rows] /\ u \in Tasks
  BY <1>1 DEF TypeOK
<1>3. worker' = [worker EXCEPT ![w].pc = "nackDelete"] /\ lease' = lease
  BY DEF NackUpdate, Goto
<1> DEFINE Steps == (\A t \in Tasks : t # u => row'[t] = row[t]) /\ Nacked(w, u)
<1>4. ASSUME row' = row, row[u].status \notin Stored PROVE Steps
  BY <1>4 DEF Nacked
<1>5. ASSUME row[u].status \in Stored, ~worker[w].retry,
             row' = [row EXCEPT ![u].status = "failed"]
      PROVE  Steps
  BY <1>2, <1>5 DEF Nacked
<1>6. ASSUME row[u].status \in Stored, worker[w].retry, NEW d \in DaysAhead,
             row' = [row EXCEPT ![u] = [@ EXCEPT !.status = "queued",
                                  !.retries = Bump(row[u].retries), !.sched = d,
                                  !.worker = None, !.lease = None]]
      PROVE  Steps
  <2> DEFINE again == Retried(row[u], d)
  <2>1. row' = [row EXCEPT ![u] = again]
    BY <1>6 DEF Retried
  <2> HIDE DEF again
  <2>2. row'[u] = again /\ \A t \in Tasks : t # u => row'[t] = row[t]
    BY <1>2, <2>1
  <2> QED
    BY <1>6, <2>2 DEF Nacked, again
<1> HIDE DEF Steps
<1>7. Steps
  BY <1>4, <1>5, <1>6 DEF NackUpdate
<1> QED
  BY <1>1, <1>2, <1>3, <1>7 DEF Steps

\* What any step makes of a row's retries, and who may let a task fail.
LEMMA RetriesGrow ==
  ASSUME TypeOK, [Next]_vars, NEW t \in Tasks
  PROVE  /\ row'[t].retries >= row[t].retries
         /\ row'[t].status = "failed" =>
              \/ row[t].status = "failed"
              \/ \E w \in Workers : /\ worker[w].pc = "nackUpdate" /\ ~worker[w].retry
                                    /\ worker[w].task = t
<1> DEFINE Grown == /\ row'[t].retries >= row[t].retries
                    /\ row'[t].status = "failed" =>
                         \/ row[t].status = "failed"
                         \/ \E w \in Workers : /\ worker[w].pc = "nackUpdate" /\ ~worker[w].retry
                                               /\ worker[w].task = t
<1> SUFFICES Grown
  OBVIOUS
<1>a. row \in [Tasks -> Rows] /\ row[t] \in Rows
  BY DEF TypeOK
<1>n. MaxRetries \in Nat /\ row[t].retries \in Nat
  BY <1>a, QueueAssumption DEF Rows
<1>b. \A n \in Nat : Bump(n) \in Nat /\ Bump(n) >= n
  BY QueueAssumption DEF Bump
\* The count is left alone, and nothing fails.
<1> DEFINE Kept == /\ row'[t].retries = row[t].retries
                   /\ row'[t].status = row[t].status \/ row'[t].status # "failed"
<1>c. Kept => Grown
  BY <1>n
<1>d. row'[t] = row[t] => Kept
  OBVIOUS
<1> HIDE DEF Grown
<1>1. ASSUME NEW u \in Tasks, Enqueue(u) \/ MoveToDlq(u) PROVE Kept
  <2>1. CASE Enqueue(u)
    <3>1. row'[t] = row[t] \/ row'[t] = [row[t] EXCEPT !.status = "queued",
                                 !.older = {v \in Tasks : row[v].status # "absent"}]
      BY <1>a, <2>1 DEF Enqueue
    <3> QED
      BY <1>a, <3>1 DEF Rows
  <2>2. CASE MoveToDlq(u)
    <3>1. row'[t] = row[t] \/ row'[t] = [row[t] EXCEPT !.status = "dead"]
      BY <1>a, <2>2 DEF MoveToDlq
    <3> QED
      BY <1>a, <3>1 DEF Rows
  <2> QED
    BY <1>1, <2>1, <2>2
<1>2. ASSUME NEW w \in Workers, Dequeue(w) PROVE Kept
  <2>1. PICK u \in Tasks, id \in LeaseIds, d \in DaysAhead : Claims(w, u, id, d)
    BY <1>2, DequeueClaims
  <2>2. row'[t] = row[t] \/ row'[t] = [row[t] EXCEPT !.status = "running",
                                                   !.worker = w, !.lease = id]
    BY <1>a, <2>1 DEF Claims
  <2> QED
    BY <1>a, <2>2 DEF Rows
<1>3. ASSUME NEW w \in Workers,
             CheckCancelled(w) \/ Succeed(w) \/ Fail(w) \/ NackRead(w) \/ WorkerFault(w)
               \/ AckDelete(w) \/ NackDelete(w) \/ Renew(w)
      PROVE  row' = row
  BY <1>3 DEF CheckCancelled, Succeed, Fail, NackRead, WorkerFault, Abandon,
                    AckRaises, RenewRaises, AckDelete, NackDelete, Renew
<1>4. ASSUME NEW w \in Workers, AckUpdate(w) PROVE Kept
  <2>1. row'[t] = row[t] \/ row'[t] = [row[t] EXCEPT !.status = "completed"]
    BY <1>4, <1>a DEF AckUpdate
  <2> QED
    BY <1>a, <2>1 DEF Rows
<1>5. ASSUME NEW w \in Workers, NackUpdate(w) PROVE Grown
  <2>1. CASE row'[t] = row[t]
    BY <1>c, <1>d, <2>1
  <2>2. CASE /\ worker[w].pc = "nackUpdate" /\ ~worker[w].retry /\ worker[w].task = t
             /\ row'[t] = [row[t] EXCEPT !.status = "failed"]
    <3>1. row'[t].retries = row[t].retries
      BY <1>a, <2>2 DEF Rows
    <3> QED
      BY <1>n, <2>2, <3>1 DEF Grown
  <2>3. ASSUME NEW d \in DaysAhead, row'[t] = Retried(row[t], d) PROVE Grown
    <3>1. row'[t].retries = Bump(row[t].retries) /\ row'[t].status = "queued"
      BY <1>a, <2>3 DEF Rows, Retried
    <3> QED
      BY <1>n, <1>b, <3>1 DEF Grown
  <2> QED
    BY <1>5, <2>1, <2>2, <2>3, NackUpdateSteps DEF Nacked
<1>6. CASE ReclaimExpiredLeases
  <2>1. row'[t] = row[t] \/ row'[t] = Reclaimed(row[t])
    BY <1>6 DEF ReclaimExpiredLeases
  <2>2. /\ Reclaimed(row[t]).retries = Bump(row[t].retries)
        /\ Reclaimed(row[t]).status = "queued"
    BY <1>a DEF Reclaimed, Rows
  <2> QED
    BY <1>n, <1>b, <1>c, <1>d, <2>1, <2>2 DEF Grown
<1>7. CASE NewDay
  <2>1. row'[t] = [row[t] EXCEPT !.sched = Yesterday(@)]
    BY <1>7 DEF NewDay
  <2>2. Kept
    BY <1>a, <2>1 DEF Rows
  <2> QED
    BY <1>c, <2>2
<1>8. ASSUME NEW c \in Cancellers, CancelStep(c) \/ CancelAbandoned(c) PROVE Kept
  <2>1. row'[t] = row[t] \/ row'[t] = [row[t] EXCEPT !.status = "cancelled",
                             !.worker = canceller[c].worker, !.lease = canceller[c].lease]
    BY <1>8, <1>a DEF CancelStep, CancelRead, CancelUpdate, CancelDelete, CancelAbandoned
  <2> QED
    BY <1>a, <2>1 DEF Rows
<1>9. ASSUME NEW q \in Queues, ClearQueue(q) PROVE Kept
  <2>1. row'[t] = row[t] \/ row'[t] = [row[t] EXCEPT !.status = "deleted"]
    BY <1>9 DEF ClearQueue
  <2> QED
    BY <1>a, <2>1 DEF Rows
<1>10. CASE UNCHANGED vars
  BY <1>c, <1>d, <1>10 DEF vars
<1> HIDE DEF Kept
<1> QED
  BY <1>c, <1>d, <1>1, <1>2, <1>3, <1>4, <1>5, <1>6, <1>7, <1>8, <1>9, <1>10
     DEF Next, Undisturbed, Failure, WorkerStep

\* A worker that is about to write 'failed' has read so, or reads it now.
LEMMA GivingUp ==
  ASSUME TypeOK, [Next]_vars, NEW w \in Workers,
         worker'[w].pc = "nackUpdate", ~worker'[w].retry
  PROVE  /\ worker'[w].task = worker[w].task
         /\ \/ worker[w].pc = "nackUpdate" /\ ~worker[w].retry
            \/ /\ worker[w].pc = "nackRead" /\ row' = row
               /\ ~RetriesLeft(worker[w].task)
<1> DEFINE Decided == /\ worker'[w].task = worker[w].task
                      /\ \/ worker[w].pc = "nackUpdate" /\ ~worker[w].retry
                         \/ /\ worker[w].pc = "nackRead" /\ row' = row
                            /\ ~RetriesLeft(worker[w].task)
<1> SUFFICES Decided
  OBVIOUS
<1>a. worker \in [Workers -> WorkerStates] /\ worker[w] \in WorkerStates
  BY DEF TypeOK
<1>b. worker'[w] = worker[w] => Decided
  BY worker'[w].pc = "nackUpdate", ~worker'[w].retry
<1>c. worker'[w].pc # "nackUpdate" => Decided
  OBVIOUS
<1> HIDE DEF Decided
<1>1. ASSUME NEW u \in Tasks, Enqueue(u) \/ MoveToDlq(u) PROVE Decided
  BY <1>b, <1>1 DEF Enqueue, MoveToDlq
<1>2. ASSUME NEW v \in Workers, Dequeue(v) PROVE Decided
  <2>1. PICK u \in Tasks, id \in LeaseIds, d \in DaysAhead : Claims(v, u, id, d)
    BY <1>2, DequeueClaims
  <2>2. worker'[w] = worker[w] \/ worker'[w].pc = "check"
    BY <1>a, <2>1 DEF Claims, IdleWorker
  <2> QED
    BY <1>b, <1>c, <2>2
<1>3. ASSUME NEW v \in Workers, CheckCancelled(v) \/ Succeed(v) \/ Fail(v) \/ AckUpdate(v)
               \/ AckDelete(v) \/ NackUpdate(v) \/ NackDelete(v) \/ Abandon(v) \/ AckRaises(v)
      PROVE  Decided
  <2>1. CASE CheckCancelled(v)
    <3> DEFINE next == [worker[v] EXCEPT !.pc = "execute", !.renewing = TRUE]
    <3>1. worker' = [worker EXCEPT ![v] = IdleWorker] \/ worker' = [worker EXCEPT ![v] = next]
      BY <2>1 DEF CheckCancelled, GoIdle
    <3>2. IdleWorker.pc = "idle" /\ next.pc = "execute"
      BY <1>a DEF IdleWorker, WorkerStates
    <3> HIDE DEF next
    <3>3. worker'[w] = worker[w] \/ worker'[w].pc \in {"idle", "execute"}
      BY <1>a, <3>1, <3>2
    <3> QED
      BY <1>b, <1>c, <3>3
  <2>2. ASSUME NEW pc \in WorkerPcs \ {"nackUpdate"}, Goto(v, pc) \/ GoIdle(v)
        PROVE  Decided
    <3>1. worker'[w] = worker[w] \/ worker'[w].pc # "nackUpdate"
      BY <1>a, <2>2 DEF Goto, GoIdle, IdleWorker, WorkerStates
    <3> QED
      BY <1>b, <1>c, <3>1
  <2>3. CASE NackUpdate(v)
    BY <2>2, <2>3 DEF NackUpdate, WorkerPcs
  <2>4. CASE AckUpdate(v)
    BY <2>2, <2>4 DEF AckUpdate, WorkerPcs
  <2> QED
    BY <1>3, <2>1, <2>2, <2>3, <2>4
       DEF Succeed, Fail, AckDelete, NackDelete, Abandon, AckRaises, WorkerPcs
<1>4. ASSUME NEW v \in Workers, NackRead(v) PROVE Decided
  <2> DEFINE again == RetriesLeft(worker[v].task)
             next  == [worker[v] EXCEPT !.pc = "nackUpdate", !.retry = again]
  <2>1. worker' = [worker EXCEPT ![v] = next] \/ GoIdle(v)
    BY <1>4 DEF NackRead
  <2>2. again \in BOOLEAN
    BY DEF RetriesLeft
  <2> HIDE DEF again
  <2>3. v = w => next.task = worker[w].task /\ (next.retry <=> again)
    BY <1>a, <2>2 DEF WorkerStates
  <2> HIDE DEF next
  <2>4. CASE worker' = [worker EXCEPT ![v] = next] /\ v = w
    BY <1>4, <1>a, <2>3, <2>4 DEF NackRead, again, Decided
  <2>5. CASE GoIdle(v) \/ v # w
    <3>1. worker'[w] = worker[w] \/ worker'[w].pc = "idle"
      BY <1>a, <2>1, <2>5 DEF GoIdle, IdleWorker
    <3> QED
      BY <1>b, <1>c, <3>1
  <2> QED
    BY <2>1, <2>4, <2>5
<1>5. ASSUME NEW v \in Workers, Renew(v) \/ RenewRaises(v) PROVE Decided
  BY <1>5, <1>a DEF Renew, RenewRaises, WorkerStates, Decided
<1>6. CASE ReclaimExpiredLeases \/ NewDay \/ UNCHANGED vars
  BY <1>b, <1>6 DEF ReclaimExpiredLeases, NewDay, vars
<1>7. ASSUME NEW c \in Cancellers, CancelStep(c) \/ CancelAbandoned(c) PROVE Decided
  BY <1>b, <1>7 DEF CancelStep, CancelRead, CancelUpdate, CancelDelete, CancelAbandoned
<1>8. ASSUME NEW q \in Queues, ClearQueue(q) PROVE Decided
  BY <1>b, <1>8 DEF ClearQueue
<1> QED
  BY <1>1, <1>2, <1>3, <1>4, <1>5, <1>6, <1>7, <1>8
     DEF Next, Undisturbed, Failure, WorkerStep, WorkerFault

Exhausted(t) == row[t].retries >= MaxRetries

GivesUp(w) == worker[w].pc = "nackUpdate" /\ ~worker[w].retry

FailInv == /\ FailedOnlyWhenExhausted
           /\ \A w \in Workers : GivesUp(w) => Exhausted(worker[w].task)

\* At the start no task has failed and nobody gives up.
LEMMA InitFailInv == Init => FailInv
BY DEF Init, FailInv, FailedOnlyWhenExhausted, GivesUp, IdleWorker

\* Every step keeps FailInv: retries never go down while nack is under way.
LEMMA NextFailInv == ASSUME TypeOK, FailInv, [Next]_vars PROVE FailInv'
<1>a. \A t \in Tasks : row[t].retries \in Nat /\ row'[t].retries \in Nat
  BY NextTypeOK DEF TypeOK, Rows
<1>b. MaxRetries \in Nat /\ \A w \in Workers : worker[w].pc # "idle" => worker[w].task \in Tasks
  BY QueueAssumption DEF TypeOK
\* What is exhausted stays so.
<1>1. \A t \in Tasks : Exhausted(t) => Exhausted(t)'
  BY <1>a, <1>b, RetriesGrow DEF Exhausted
<1>2. ASSUME NEW t \in Tasks, row'[t].status = "failed" PROVE Exhausted(t)'
  <2>1. CASE row[t].status = "failed"
    BY <1>1, <2>1 DEF FailInv, FailedOnlyWhenExhausted, Exhausted
  <2>2. ASSUME NEW w \in Workers, GivesUp(w), worker[w].task = t PROVE Exhausted(t)'
    BY <1>1, <2>2 DEF FailInv
  <2> QED
    BY <1>2, <2>1, <2>2, RetriesGrow DEF GivesUp
<1>3. ASSUME NEW w \in Workers, GivesUp(w)' PROVE Exhausted(worker[w].task)'
  <2>1. CASE GivesUp(w)
    BY <1>1, <1>3, <1>b, <2>1, GivingUp DEF FailInv, GivesUp, Exhausted
  <2>2. CASE ~GivesUp(w)
    <3>1. /\ worker[w].pc = "nackRead" /\ row' = row /\ ~RetriesLeft(worker[w].task)
          /\ worker'[w].task = worker[w].task
      BY <1>3, <2>2, GivingUp DEF GivesUp
    <3> QED
      BY <1>a, <1>b, <3>1 DEF RetriesLeft, Exhausted
  <2> QED
    BY <2>1, <2>2
<1> QED
  BY <1>2, <1>3 DEF FailInv, FailedOnlyWhenExhausted, Exhausted

\* A task fails for good only when its retries are used up, whatever fails,
\* lapses or is cancelled between nack's SELECT and its UPDATE.
THEOREM OnlyExhaustedFail == Spec => []FailedOnlyWhenExhausted
<1>1. Init => TypeOK /\ FailInv
  BY InitTypeOK, InitFailInv
<1>2. TypeOK /\ FailInv /\ [Next]_vars => (TypeOK /\ FailInv)'
  BY NextTypeOK, NextFailInv
<1>3. FailInv => FailedOnlyWhenExhausted
  BY DEF FailInv
<1> QED
  BY <1>1, <1>2, <1>3, PTL DEF Spec
=============================================================================
