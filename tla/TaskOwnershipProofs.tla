------------------------ MODULE TaskOwnershipProofs ------------------------
(***************************************************************************)
(* TaskQueue implements TaskOwnership, for every set of tasks, workers and *)
(* lease ids, every dependency graph and retry limit, as long as leases    *)
(* outlive the work (TimelyWork) and nobody cancels.  On the way: running  *)
(* tasks have leases, handlers run after dependencies, and a task keeps    *)
(* its outcome.                                                            *)
(***************************************************************************)
EXTENDS TaskQueueProofs

----------------------------------------------------------------------------
(* What a worker's own steps do to its state                               *)

\* Worker v goes idle, or on with its task to a point in P; nobody else moves.
Moved(v, P) ==
  /\ \A w \in Workers : w # v => worker'[w] = worker[w]
  /\ worker[v].pc # "idle"
  /\ \/ worker'[v].pc = "idle"
     \/ worker'[v].pc \in P /\ worker'[v].task = worker[v].task

\* An assignment to the program counter keeps the task.
LEMMA GotoMoves ==
  ASSUME TypeOK, NEW v \in Workers, worker[v].pc # "idle", NEW pc \in WorkerPcs
  PROVE  Goto(v, pc) \/ GoIdle(v) => Moved(v, {pc})
<1>1. worker \in [Workers -> WorkerStates] /\ worker[v] \in WorkerStates
  BY DEF TypeOK
<1>2. ASSUME Goto(v, pc) PROVE Moved(v, {pc})
  <2>1. worker'[v] = [worker[v] EXCEPT !.pc = pc]
    BY <1>1, <1>2 DEF Goto
  <2>2. worker'[v].pc = pc /\ worker'[v].task = worker[v].task
    BY <1>1, <2>1 DEF WorkerStates
  <2> QED
    BY <1>1, <1>2, <2>2 DEF Goto, Moved
<1>3. ASSUME GoIdle(v) PROVE Moved(v, {pc})
  BY <1>1, <1>3 DEF GoIdle, IdleWorker, Moved
<1> QED
  BY <1>2, <1>3

\* Where each step takes the worker.
LEMMA StepsMove ==
  ASSUME TypeOK, NEW v \in Workers
  PROVE  /\ CheckCancelled(v) => worker[v].pc = "check" /\ Moved(v, {"execute"})
         /\ Succeed(v)    => worker[v].pc = "execute" /\ Moved(v, {"ack"})
         /\ Fail(v)       => worker[v].pc = "execute" /\ Moved(v, {"nackRead"})
         /\ AckRaises(v)  => worker[v].pc \in {"ack", "ackDelete"} /\ Moved(v, {"nackRead"})
         /\ AckUpdate(v)  => worker[v].pc = "ack" /\ Moved(v, {"ackDelete"})
         /\ NackRead(v)   => worker[v].pc = "nackRead" /\ Moved(v, {"nackUpdate"})
         /\ NackUpdate(v) => worker[v].pc = "nackUpdate" /\ Moved(v, {"nackDelete"})
         /\ AckDelete(v)  => worker[v].pc = "ackDelete" /\ Moved(v, {})
         /\ NackDelete(v) => worker[v].pc = "nackDelete" /\ Moved(v, {})
         /\ Abandon(v)    => Moved(v, {})
<1>0. worker \in [Workers -> WorkerStates] /\ worker[v] \in WorkerStates
  BY DEF TypeOK
<1>a. /\ {"ack", "ackDelete", "check", "execute", "nackRead", "nackUpdate", "nackDelete"}
            \subseteq WorkerPcs
  BY DEF WorkerPcs
<1>b. GoIdle(v) /\ worker[v].pc # "idle" => Moved(v, {})
  BY <1>0 DEF GoIdle, IdleWorker, Moved
<1>1. CheckCancelled(v) => worker[v].pc = "check" /\ Moved(v, {"execute"})
  <2> SUFFICES ASSUME CheckCancelled(v)
               PROVE  worker[v].pc = "check" /\ Moved(v, {"execute"})
    OBVIOUS
  <2> DEFINE next == [worker[v] EXCEPT !.pc = "execute", !.renewing = TRUE]
  <2>1. worker[v].pc = "check" /\ (GoIdle(v) \/ worker' = [worker EXCEPT ![v] = next])
    BY DEF CheckCancelled
  <2>2. next.pc = "execute" /\ next.task = worker[v].task
    BY <1>0 DEF WorkerStates
  <2> HIDE DEF next
  <2>3. CASE worker' = [worker EXCEPT ![v] = next]
    BY <1>0, <2>1, <2>2, <2>3 DEF Moved
  <2> QED
    BY <1>a, <2>1, <2>3, GotoMoves
<1>2. NackRead(v) => worker[v].pc = "nackRead" /\ Moved(v, {"nackUpdate"})
  <2> SUFFICES ASSUME NackRead(v)
               PROVE  worker[v].pc = "nackRead" /\ Moved(v, {"nackUpdate"})
    OBVIOUS
  <2> DEFINE again == RetriesLeft(worker[v].task)
             next  == [worker[v] EXCEPT !.pc = "nackUpdate", !.retry = again]
  <2>1. worker[v].pc = "nackRead" /\ (GoIdle(v) \/ worker' = [worker EXCEPT ![v] = next])
    BY DEF NackRead
  <2> HIDE DEF again
  <2>2. next.pc = "nackUpdate" /\ next.task = worker[v].task
    BY <1>0 DEF WorkerStates
  <2> HIDE DEF next
  <2>3. CASE worker' = [worker EXCEPT ![v] = next]
    BY <1>0, <2>1, <2>2, <2>3 DEF Moved
  <2> QED
    BY <1>a, <2>1, <2>3, GotoMoves
<1>3. Succeed(v) => worker[v].pc = "execute" /\ Moved(v, {"ack"})
  BY <1>a, GotoMoves DEF Succeed
<1>4. Fail(v) => worker[v].pc = "execute" /\ Moved(v, {"nackRead"})
  BY <1>a, GotoMoves DEF Fail
<1>5. AckRaises(v) => worker[v].pc \in {"ack", "ackDelete"} /\ Moved(v, {"nackRead"})
  BY <1>a, GotoMoves DEF AckRaises
<1>6. AckUpdate(v) => worker[v].pc = "ack" /\ Moved(v, {"ackDelete"})
  BY <1>a, GotoMoves DEF AckUpdate
<1>7. NackUpdate(v) => worker[v].pc = "nackUpdate" /\ Moved(v, {"nackDelete"})
  <2> SUFFICES ASSUME NackUpdate(v)
               PROVE  worker[v].pc = "nackUpdate" /\ Moved(v, {"nackDelete"})
    OBVIOUS
  <2>1. worker[v].pc = "nackUpdate" /\ Goto(v, "nackDelete")
    BY DEF NackUpdate
  <2> QED
    BY <1>a, <2>1, GotoMoves
<1>8. /\ AckDelete(v)  => worker[v].pc = "ackDelete" /\ Moved(v, {})
      /\ NackDelete(v) => worker[v].pc = "nackDelete" /\ Moved(v, {})
      /\ Abandon(v)    => Moved(v, {})
  BY <1>b DEF AckDelete, NackDelete, Abandon
<1> QED
  BY <1>1, <1>2, <1>3, <1>4, <1>5, <1>6, <1>7, <1>8

----------------------------------------------------------------------------
(* RunningIsLeased.  The DELETE at the end of ack and of nack names the    *)
(* task only, so it must not hit the lease of a later run: until it is     *)
(* done the row is not running, and its own lease, which nobody else       *)
(* removes, keeps the task from being dequeued.                            *)

Busy(w, t) == worker[w].pc # "idle" /\ worker[w].task = t

SoleRun(w, t) ==
  /\ row[t].status # "absent"
  /\ row[t].status = "queued" => worker[w].pc = "nackDelete"
  /\ row[t].status = "running" => worker[w].pc \notin {"ackDelete", "nackDelete"}
  /\ row[t].status # "deleted" => Leased(t) /\ lease[t].days # Past
  /\ \A v \in Workers : Busy(v, t) => v = w

BusyInv == \A w \in Workers, t \in Tasks : Busy(w, t) => SoleRun(w, t)

RunInv == RunningIsLeased /\ BusyInv

\* At the start nobody is busy and nothing runs.
LEMMA InitRunInv == Init => RunInv
BY DEF Init, RunInv, RunningIsLeased, BusyInv, Busy, IdleWorker

\* RunInv when nobody takes up a task: it is enough to look at the rows and
\* leases of the tasks that remain in somebody's hands, and at running rows.
LEMMA RunInvKept ==
  ASSUME RunInv,
         \A t \in Tasks : row'[t].status = "running" => row[t].status = "running",
         \A t \in Tasks : row'[t].status = "running" => lease'[t].id # None,
         \A w \in Workers, t \in Tasks : Busy(w, t)' =>
           /\ Busy(w, t)
           /\ row'[t].status # "absent"
           /\ row'[t].status = "queued" => worker'[w].pc = "nackDelete"
           /\ row'[t].status = "running" => worker'[w].pc \notin {"ackDelete", "nackDelete"}
           /\ row'[t].status # "deleted" => lease'[t].id # None /\ lease'[t].days # Past
  PROVE  RunInv'
BY DEF RunInv, RunningIsLeased, BusyInv, SoleRun, Leased

\* A worker's step that leaves rows and leases alone.
LEMMA RunInvMoved ==
  ASSUME RunInv, NEW v \in Workers, NEW P \in SUBSET {"execute", "ack", "nackRead", "nackUpdate"},
         Moved(v, P), worker[v].pc # "nackDelete" \/ P = {}, UNCHANGED <<row, lease>>
  PROVE  RunInv'
<1>1. ASSUME NEW w \in Workers, NEW t \in Tasks, Busy(w, t)'
      PROVE  /\ Busy(w, t)
             /\ worker'[w] = worker[w] \/ (w = v /\ worker'[w].pc \in P /\ worker[w].pc # "nackDelete")
  BY <1>1 DEF Moved, Busy
<1> QED
  BY <1>1, RunInvKept DEF RunInv, RunningIsLeased, BusyInv, SoleRun, Leased

\* Every step keeps RunInv.
LEMMA NextRunInv ==
  ASSUME TimelyWork = TRUE, Cancellers = {}, TypeOK, RunInv, [Next]_vars
  PROVE  RunInv'
<1>a. /\ row \in [Tasks -> Rows] /\ lease \in [Tasks -> Leases]
      /\ worker \in [Workers -> WorkerStates]
      /\ \A w \in Workers : worker[w].pc # "idle" => worker[w].task \in Tasks
  BY DEF TypeOK
<1>n. None \notin LeaseIds
  BY QueueAssumption
<1>1. ASSUME NEW u \in Tasks, Enqueue(u) \/ MoveToDlq(u) PROVE RunInv'
  <2>1. worker' = worker /\ lease' = lease
    BY <1>1 DEF Enqueue, MoveToDlq
  <2>2. \A t \in Tasks : \/ row'[t] = row[t]
                         \/ row[t].status = "absent" /\ row'[t].status = "queued"
                         \/ row[t].status # "deleted" /\ row'[t].status = "dead"
    <3>1. CASE Enqueue(u)
      BY <1>a, <3>1 DEF Enqueue, Rows
    <3>2. CASE MoveToDlq(u)
      BY <1>a, <3>2 DEF MoveToDlq, Rows, Stored
    <3> QED
      BY <1>1, <3>1, <3>2
  <2>3. \A w \in Workers, t \in Tasks : Busy(w, t)' => Busy(w, t)
    BY <2>1 DEF Busy
  <2> QED
    BY <2>1, <2>2, <2>3, RunInvKept DEF RunInv, RunningIsLeased, BusyInv, SoleRun, Leased
<1>2. ASSUME NEW v \in Workers, Dequeue(v) PROVE RunInv'
  <2>1. PICK u \in Tasks, id \in LeaseIds, d \in DaysAhead : Claims(v, u, id, d)
    BY <1>2, DequeueClaims
  <2>2. \A w \in Workers : ~Busy(w, u)
    BY <2>1 DEF Claims, Ready, RunInv, BusyInv, SoleRun
  <2>3. \A w \in Workers, t \in Tasks :
          Busy(w, t)' <=> (w = v /\ t = u) \/ (w # v /\ Busy(w, t))
    BY <1>a, <2>1 DEF Claims, Busy, IdleWorker
  <2>4. /\ row'[u].status = "running" /\ lease'[u].days # Past /\ lease'[u].id # None
        /\ worker'[v].pc = "check"
        /\ \A t \in Tasks \ {u} : row'[t] = row[t] /\ lease'[t] = lease[t]
        /\ \A w \in Workers \ {v} : worker'[w] = worker[w]
    BY <1>a, <1>n, <2>1 DEF Claims, Rows, DaysAhead, Past, IdleWorker
  <2> QED
    BY <2>2, <2>3, <2>4 DEF RunInv, RunningIsLeased, BusyInv, SoleRun, Leased
<1>3. ASSUME NEW v \in Workers,
             CheckCancelled(v) \/ Succeed(v) \/ Fail(v) \/ NackRead(v) \/ Abandon(v) \/ AckRaises(v)
      PROVE  RunInv'
  <2>1. UNCHANGED <<row, lease>>
    BY <1>3 DEF CheckCancelled, Succeed, Fail, NackRead, Abandon, AckRaises
  <2>2. \E P \in SUBSET {"execute", "ack", "nackRead", "nackUpdate"} :
          Moved(v, P) /\ (worker[v].pc # "nackDelete" \/ P = {})
    BY <1>3, StepsMove
  <2> QED
    BY <2>1, <2>2, RunInvMoved
<1>4. ASSUME NEW v \in Workers, AckUpdate(v) PROVE RunInv'
  <2>1. worker[v].pc = "ack" /\ Moved(v, {"ackDelete"}) /\ lease' = lease
    BY <1>4, StepsMove DEF AckUpdate
  <2>2. CASE row' = row /\ GoIdle(v)
    <3>1. Moved(v, {})
      BY <1>a, <2>1, <2>2 DEF Moved, GoIdle, IdleWorker
    <3> QED
      BY <2>1, <2>2, <3>1, RunInvMoved
  <2>3. CASE row' = [row EXCEPT ![worker[v].task].status = "completed"]
    <3>1. \A t \in Tasks : IF t = worker[v].task THEN row'[t].status = "completed"
                                                 ELSE row'[t] = row[t]
      <4>1. \A t \in Tasks : row'[t] = IF t = worker[v].task
                                         THEN [row[t] EXCEPT !.status = "completed"] ELSE row[t]
        BY <1>a, <2>3
      <4> QED
        BY <1>a, <4>1 DEF Rows
    <3>2. \A w \in Workers, t \in Tasks : Busy(w, t)' =>
            Busy(w, t) /\ (worker'[w] = worker[w] \/ t = worker[v].task)
      BY <2>1 DEF Moved, Busy
    <3>3. row[worker[v].task].status # "deleted"
      BY <1>4, <1>a, <2>1, <2>3 DEF AckUpdate, Rows
    <3> QED
      BY <1>a, <2>1, <3>1, <3>2, <3>3, RunInvKept
         DEF RunInv, RunningIsLeased, BusyInv, SoleRun, Leased, Busy
  <2> QED
    BY <1>4, <2>2, <2>3 DEF AckUpdate
<1>5. ASSUME NEW v \in Workers, AckDelete(v) \/ NackDelete(v) PROVE RunInv'
  <2>1. Moved(v, {}) /\ row' = row /\ worker[v].pc \in {"ackDelete", "nackDelete"}
        /\ Busy(v, worker[v].task) /\ worker[v].task \in Tasks
    BY <1>5, <1>a, StepsMove DEF AckDelete, NackDelete, Busy
  <2>2. \A t \in Tasks : t # worker[v].task => lease'[t] = lease[t]
    BY <1>5, <1>a DEF AckDelete, NackDelete, DeleteLease
  <2>3. row[worker[v].task].status # "running"
    BY <2>1 DEF RunInv, BusyInv, SoleRun
  <2>4. \A w \in Workers, t \in Tasks : Busy(w, t)' =>
          Busy(w, t) /\ worker'[w] = worker[w] /\ t # worker[v].task
    BY <2>1 DEF Moved, Busy, RunInv, BusyInv, SoleRun
  <2> QED
    BY <2>1, <2>2, <2>3, <2>4, RunInvKept
       DEF RunInv, RunningIsLeased, BusyInv, SoleRun, Leased
<1>6. ASSUME NEW v \in Workers, NackUpdate(v) PROVE RunInv'
  <2> DEFINE u == worker[v].task
  <2>1. /\ worker[v].pc = "nackUpdate" /\ u \in Tasks /\ lease' = lease
        /\ Moved(v, {"nackDelete"})
        /\ \A t \in Tasks : t # u => row'[t] = row[t]
    BY <1>6, NackUpdateSteps, StepsMove
  <2>2. row'[u] = row[u] \/ row'[u].status \in {"queued", "failed"}
    BY <1>6, <2>1, NackUpdateRows
  <2>3. row'[u].status \in {"queued", "failed", "deleted"}
        /\ (row'[u].status # "deleted" => row[u].status # "deleted")
    <3>1. row[u].status \in Statuses /\ row[u].status # "absent"
      BY <1>a, <2>1 DEF Rows, RunInv, BusyInv, SoleRun, Busy
    <3>2. Nacked(v, u)
      BY <1>6, NackUpdateSteps
    <3>3. /\ row[u].status = "deleted" => row'[u] = row[u]
          /\ row[u].status # "deleted" => row'[u].status \in {"queued", "failed"}
      <4>1. row[u].status = "deleted" <=> row[u].status \notin Stored
        BY <3>1 DEF Statuses, Stored
      <4>2. row[u].status \in Stored => row'[u].status \in {"queued", "failed"}
        <5>1. row[u] \in Rows
          BY <1>a, <2>1
        <5> QED
          BY <3>2, <5>1 DEF Nacked, Retried, Rows
      <4> QED
        BY <3>2, <4>1, <4>2 DEF Nacked
    <3> QED
      BY <3>1, <3>3
  <2>4. \A w \in Workers, t \in Tasks : Busy(w, t)' =>
          /\ Busy(w, t)
          /\ IF t = u THEN worker'[w].pc = "nackDelete" ELSE worker'[w] = worker[w]
    BY <2>1 DEF Moved, Busy, RunInv, BusyInv, SoleRun
  <2> QED
    BY <2>1, <2>3, <2>4, RunInvKept DEF RunInv, RunningIsLeased, BusyInv, SoleRun, Leased, Busy
<1>7. ASSUME NEW v \in Workers, Renew(v) \/ RenewRaises(v) PROVE RunInv'
  <2>1. row' = row /\ \A w \in Workers : worker'[w].pc = worker[w].pc
                                         /\ worker'[w].task = worker[w].task
    BY <1>7, <1>a DEF Renew, RenewRaises, WorkerStates
  <2>2. \A t \in Tasks : lease'[t].id = lease[t].id /\ (lease'[t] = lease[t] \/ lease'[t].days # Past)
    BY <1>7, RenewLeases DEF RenewRaises
  <2>3. \A w \in Workers, t \in Tasks : Busy(w, t)' => Busy(w, t)
    BY <2>1 DEF Busy
  <2> QED
    BY <2>1, <2>2, <2>3, RunInvKept DEF RunInv, RunningIsLeased, BusyInv, SoleRun, Leased
<1>8. CASE ReclaimExpiredLeases
  <2>1. worker' = worker /\ \A w \in Workers, t \in Tasks : Busy(w, t)' => Busy(w, t)
    BY <1>8 DEF ReclaimExpiredLeases, Busy
  <2>2. \A t \in Tasks : t \notin Expired => row'[t] = row[t] /\ lease'[t] = lease[t]
    BY <1>8 DEF ReclaimExpiredLeases, LeasesLeft, Reclaimable
  <2>3. \A t \in Tasks : t \in Expired =>
          (row'[t] = row[t] /\ row[t].status # "running") \/ row'[t].status = "queued"
    <3>1. \A t \in Tasks : t \in Expired =>
            (row'[t] = row[t] /\ row[t].status # "running") \/ row'[t] = Reclaimed(row[t])
      BY <1>8 DEF ReclaimExpiredLeases, Reclaimable
    <3> QED
      BY <1>a, <3>1 DEF Reclaimed, Rows
  <2>4. \A w \in Workers, t \in Tasks : Busy(w, t) /\ t \in Expired =>
          row[t].status = "deleted" /\ row'[t] = row[t]
    BY <1>8, <1>a DEF RunInv, BusyInv, SoleRun, Expired, ReclaimExpiredLeases, Reclaimable
  <2> QED
    BY <2>1, <2>2, <2>3, <2>4, RunInvKept DEF RunInv, RunningIsLeased, BusyInv, SoleRun, Leased
<1>9. CASE NewDay
  <2>1. worker' = worker /\ \A w \in Workers, t \in Tasks : Busy(w, t)' => Busy(w, t)
    BY <1>9 DEF NewDay, Busy
  <2>2. \A t \in Tasks : /\ row'[t].status = row[t].status
                         /\ lease'[t].id = lease[t].id
                         /\ lease'[t].days = Yesterday(lease[t].days)
    BY <1>9, <1>a DEF NewDay, Rows, Leases
  <2>3. \A w \in Workers, t \in Tasks : Busy(w, t) /\ Leased(t) => lease[t].days = 1
    BY <1>9 DEF NewDay, LeaseLapses, Busy
  <2>4. Yesterday(1) # Past
    BY DEF Yesterday, Past
  <2> QED
    BY <2>1, <2>2, <2>3, <2>4, RunInvKept DEF RunInv, RunningIsLeased, BusyInv, SoleRun, Leased
<1>10. ASSUME NEW q \in Queues, ClearQueue(q) PROVE RunInv'
  <2>1. worker' = worker /\ \A w \in Workers, t \in Tasks : Busy(w, t)' => Busy(w, t)
    BY <1>10 DEF ClearQueue, Busy
  <2>2. \A t \in Tasks : \/ row'[t] = row[t] /\ lease'[t] = lease[t]
                         \/ row[t].status = "queued" /\ row'[t].status = "deleted"
    BY <1>10, <1>a DEF ClearQueue, Rows
  <2> QED
    BY <2>1, <2>2, RunInvKept DEF RunInv, RunningIsLeased, BusyInv, SoleRun, Leased
<1>11. CASE UNCHANGED vars
  BY <1>11, RunInvKept DEF vars, RunInv, RunningIsLeased, BusyInv, SoleRun, Leased, Busy
<1> QED
  BY <1>1, <1>2, <1>3, <1>4, <1>5, <1>6, <1>7, <1>8, <1>9, <1>10, <1>11
     DEF Next, Undisturbed, Failure, WorkerStep, WorkerFault

\* A running task has a lease, so the reaper finds it when its worker is
\* gone: with crashes, failing statements and operators, as long as leases
\* outlive the work and nobody cancels.
THEOREM RunningAreLeased ==
  ASSUME TimelyWork = TRUE, Cancellers = {} PROVE Spec => []RunningIsLeased
<1>1. Init => TypeOK /\ RunInv
  BY InitTypeOK, InitRunInv
<1>2. TypeOK /\ RunInv /\ [Next]_vars => (TypeOK /\ RunInv)'
  BY NextTypeOK, NextRunInv
<1>3. RunInv => RunningIsLeased
  BY DEF RunInv
<1> QED
  BY <1>1, <1>2, <1>3, PTL DEF Spec

----------------------------------------------------------------------------
(* OutcomeIsFinal and HandlerRunsAfterDependencies.  As long as ack does   *)
(* not raise, operators leave running rows alone and nobody cancels, the   *)
(* row of the task that a worker holds is 'running' and its own, so that   *)
(* nack's unguarded UPDATE never meets a row with an outcome.              *)
(* Dependencies completed before the dequeue are then still completed when *)
(* the handler runs.                                                       *)

Quiet == /\ TimelyWork = TRUE /\ Cancellers = {}
         /\ Environment \subseteq {"abandon", "renew", "clear"}

OwnRun(w, t) ==
  /\ row[t].status = "running" /\ row[t].worker = w
  /\ worker[w].pc = "nackUpdate" => (worker[w].retry <=> RetriesLeft(t))

OwnInv == /\ \A w \in Workers, t \in Tasks : Holds(w, t) => OwnRun(w, t)
          /\ \A t \in Tasks : row[t].status = "running" => DepsCompleted(t)
                                                          /\ row[t].worker \in Workers

\* The rows with an outcome keep it.
OutcomesStay ==
  \A t \in Tasks : row[t].status \in Outcomes => row'[t].status = row[t].status

\* At the start nobody holds a task and nothing runs.
LEMMA InitOwnInv == Init => OwnInv
BY DEF Init, OwnInv, Holds, Holding, IdleWorker

\* OwnInv when nobody takes up a task or decides about a retry: it is enough
\* to look at the rows of the tasks that remain in somebody's hands.
LEMMA OwnInvKept ==
  ASSUME QueueAssumption, OwnInv, OutcomesStay,
         \A t \in Tasks : row'[t].status = "running" =>
           row[t].status = "running" /\ row'[t].worker = row[t].worker,
         \A w \in Workers, t \in Tasks : Holds(w, t)' =>
           /\ Holds(w, t)
           /\ row'[t].status = "running" /\ row'[t].worker = row[t].worker
           /\ worker'[w].pc = "nackUpdate" =>
                /\ row'[t].retries = row[t].retries
                /\ worker[w].pc = "nackUpdate" /\ worker'[w].retry = worker[w].retry
  PROVE  OwnInv'
<1>1. ASSUME NEW w \in Workers, NEW t \in Tasks, Holds(w, t)' PROVE OwnRun(w, t)'
  BY <1>1 DEF OwnInv, OwnRun, RetriesLeft
<1>2. ASSUME NEW t \in Tasks, row'[t].status = "running"
      PROVE  DepsCompleted(t)' /\ row'[t].worker \in Workers
  <2>1. DependsOn[t] \subseteq Tasks
    BY DEF QueueAssumption
  <2> QED
    BY <1>2, <2>1 DEF OwnInv, DepsCompleted, OutcomesStay, Outcomes
<1> QED
  BY <1>1, <1>2 DEF OwnInv

\* A worker's step that leaves the rows alone and decides nothing.
LEMMA OwnInvMoved ==
  ASSUME OwnInv, NEW v \in Workers, NEW P \in SUBSET (WorkerPcs \ {"nackUpdate"}),
         Moved(v, P), row' = row,
         worker[v].pc \in Holding \/ P = {}
  PROVE  OwnInv' /\ OutcomesStay
<1>1. \A w \in Workers, t \in Tasks : Holds(w, t)' =>
        /\ Holds(w, t)
        /\ worker'[w] = worker[w] \/ worker'[w].pc # "nackUpdate"
  BY DEF Moved, Holds, Holding
<1>2. OutcomesStay
  BY DEF OutcomesStay
<1> QED
  BY <1>1, <1>2, OwnInvKept, QueueAssumption DEF OwnInv, OwnRun

\* Every step of a quiet environment keeps OwnInv, and completed rows.
LEMMA NextOwnInv ==
  ASSUME Quiet, TypeOK, RunInv, OwnInv, [Next]_vars
  PROVE  OwnInv' /\ OutcomesStay
<1>a. /\ row \in [Tasks -> Rows] /\ lease \in [Tasks -> Leases]
      /\ worker \in [Workers -> WorkerStates]
      /\ \A w \in Workers : worker[w].pc # "idle" => worker[w].task \in Tasks
  BY DEF TypeOK
\* Nobody holds two tasks, and no task is in the hands of two workers.
<1>b. \A v, w \in Workers, t \in Tasks : Busy(v, t) /\ Busy(w, t) => v = w
  BY DEF RunInv, BusyInv, SoleRun
<1>c. \A w \in Workers, t \in Tasks : Holds(w, t) => Busy(w, t)
  BY DEF Holds, Holding, Busy
<1>1. ASSUME NEW u \in Tasks, Enqueue(u) PROVE OwnInv' /\ OutcomesStay
  <2>1. worker' = worker /\ \A t \in Tasks : row'[t] = row[t] \/ (row[t].status = "absent"
                                                     /\ row'[t].status = "queued")
    <3>1. /\ worker' = worker /\ row[u].status = "absent"
          /\ \A t \in Tasks : t # u => row'[t] = row[t]
          /\ row'[u] = [row[u] EXCEPT !.status = "queued",
                                     !.older = {z \in Tasks : row[z].status # "absent"}]
      BY <1>1, <1>a DEF Enqueue
    <3>2. row'[u].status = "queued"
      BY <3>1, <1>a DEF Rows
    <3> QED
      BY <3>1, <3>2
  <2>2. OutcomesStay
    BY <2>1 DEF OutcomesStay, Outcomes
  <2>3. \A w \in Workers, t \in Tasks : Holds(w, t)' => Holds(w, t) /\ row'[t] = row[t]
    BY <2>1 DEF Holds, OwnInv, OwnRun
  <2> QED
    BY <2>1, <2>2, <2>3, OwnInvKept, QueueAssumption DEF OwnInv, OwnRun
<1>2. ASSUME NEW v \in Workers, Dequeue(v) PROVE OwnInv' /\ OutcomesStay
  <2>1. PICK u \in Tasks, id \in LeaseIds, d \in DaysAhead : Claims(v, u, id, d)
    BY <1>2, DequeueClaims
  <2>2. /\ row'[u].status = "running" /\ row'[u].worker = v /\ row[u].status = "queued"
        /\ \A t \in Tasks \ {u} : row'[t] = row[t]
        /\ worker'[v].pc = "check" /\ worker'[v].task = u
        /\ \A w \in Workers \ {v} : worker'[w] = worker[w]
    BY <1>a, <2>1 DEF Claims, Ready, Rows, IdleWorker
  <2>3. OutcomesStay
    BY <2>2 DEF OutcomesStay, Outcomes
  <2>4. ASSUME NEW w \in Workers, NEW t \in Tasks, Holds(w, t)' PROVE OwnRun(w, t)'
    <3>1. CASE w = v
      BY <2>2, <2>4, <3>1 DEF Holds, OwnRun
    <3>2. CASE w # v
      <4>1. Holds(w, t) /\ t # u /\ row'[t] = row[t]
        BY <2>2, <2>4, <3>2 DEF Holds, OwnInv, OwnRun
      <4> QED
        BY <2>2, <3>2, <4>1 DEF OwnInv, OwnRun, RetriesLeft
    <3> QED
      BY <3>1, <3>2
  <2>5. ASSUME NEW t \in Tasks, row'[t].status = "running" PROVE DepsCompleted(t)'
    <3>1. DepsCompleted(t)
      BY <2>1, <2>2, <2>5 DEF Claims, Ready, OwnInv
    <3>2. DependsOn[t] \subseteq Tasks
      BY QueueAssumption
    <3> QED
      BY <2>3, <3>1, <3>2 DEF DepsCompleted, OutcomesStay, Outcomes
  <2>6. ASSUME NEW t \in Tasks, row'[t].status = "running" PROVE row'[t].worker \in Workers
    BY <2>2, <2>6 DEF OwnInv
  <2> QED
    BY <2>3, <2>4, <2>5, <2>6 DEF OwnInv
<1>3. ASSUME NEW v \in Workers,
             CheckCancelled(v) \/ Succeed(v) \/ Fail(v) \/ AckDelete(v) \/ NackDelete(v) \/ Abandon(v)
      PROVE  OwnInv' /\ OutcomesStay
  <2>1. row' = row
    BY <1>3 DEF CheckCancelled, Succeed, Fail, AckDelete, NackDelete, Abandon
  <2>2. \E P \in SUBSET (WorkerPcs \ {"nackUpdate"}) :
          Moved(v, P) /\ (worker[v].pc \in Holding \/ P = {})
    <3>1. /\ {"execute"} \in SUBSET (WorkerPcs \ {"nackUpdate"})
          /\ {"ack"} \in SUBSET (WorkerPcs \ {"nackUpdate"})
          /\ {"nackRead"} \in SUBSET (WorkerPcs \ {"nackUpdate"})
          /\ {} \in SUBSET (WorkerPcs \ {"nackUpdate"})
          /\ "check" \in Holding /\ "execute" \in Holding
      BY DEF WorkerPcs, Holding
    <3> QED
      BY <1>3, <3>1, StepsMove
  <2> QED
    BY <2>1, <2>2, OwnInvMoved
<1>4. ASSUME NEW v \in Workers, NackRead(v) PROVE OwnInv' /\ OutcomesStay
  <2> DEFINE u == worker[v].task
             again == RetriesLeft(u)
             next  == [worker[v] EXCEPT !.pc = "nackUpdate", !.retry = again]
  <2>1. worker[v].pc = "nackRead" /\ row' = row
    BY <1>4 DEF NackRead
  <2>2. GoIdle(v) \/ worker' = [worker EXCEPT ![v] = next]
    BY <1>4 DEF NackRead
  <2>3. CASE GoIdle(v)
    <3>1. Moved(v, {})
      BY <1>a, <2>1, <2>3 DEF Moved, GoIdle, IdleWorker
    <3> QED
      BY <2>1, <3>1, OwnInvMoved
  <2>4. CASE worker' = [worker EXCEPT ![v] = next]
    <3>1. again \in BOOLEAN
      BY DEF RetriesLeft
    <3> HIDE DEF again
    <3>2. next.pc = "nackUpdate" /\ next.task = u /\ (next.retry <=> again)
      BY <1>a, <3>1 DEF WorkerStates
    <3> HIDE DEF next
    <3>3. OutcomesStay
      BY <2>1 DEF OutcomesStay, Outcomes
    <3>4. /\ worker'[v].pc = "nackUpdate" /\ worker'[v].task = u /\ (worker'[v].retry <=> again)
          /\ \A w \in Workers : w # v => worker'[w] = worker[w]
      BY <1>a, <2>4, <3>2
    <3>5. ASSUME NEW w \in Workers, NEW t \in Tasks, Holds(w, t)' PROVE OwnRun(w, t)'
      <4>1. Holds(w, t)
        BY <2>1, <3>4, <3>5 DEF Holds, Holding
      <4>2. OwnRun(w, t)
        BY <4>1 DEF OwnInv
      <4>3. RetriesLeft(t)' = RetriesLeft(t)
        BY <2>1 DEF RetriesLeft
      <4>4. CASE w = v
        <5>1. t = u
          BY <4>1, <4>4 DEF Holds
        <5> QED
          BY <2>1, <3>4, <4>2, <4>3, <4>4, <5>1 DEF OwnRun, again
      <4>5. CASE w # v
        BY <2>1, <3>4, <4>2, <4>3, <4>5 DEF OwnRun
      <4> QED
        BY <4>4, <4>5
    <3>6. ASSUME NEW t \in Tasks, row'[t].status = "running" PROVE DepsCompleted(t)'
      BY <2>1, <3>6 DEF OwnInv, DepsCompleted
    <3>7. \A t \in Tasks : row'[t].status = "running" => row'[t].worker \in Workers
      BY <2>1 DEF OwnInv
    <3> QED
      BY <3>3, <3>5, <3>6, <3>7 DEF OwnInv
  <2> QED
    BY <2>2, <2>3, <2>4
<1>5. ASSUME NEW v \in Workers, AckUpdate(v) PROVE OwnInv' /\ OutcomesStay
  <2> DEFINE u == worker[v].task
  <2>1. worker[v].pc = "ack" /\ Moved(v, {"ackDelete"}) /\ u \in Tasks
    BY <1>5, <1>a, StepsMove
  <2>2. row[u].status = "running" /\ Holds(v, u)
    BY <2>1 DEF OwnInv, OwnRun, Holds, Holding
  <2>3. \A t \in Tasks : IF t = u THEN row'[t].status = "completed" ELSE row'[t] = row[t]
    <3>1. row' = [row EXCEPT ![u].status = "completed"]
      BY <1>5, <2>2 DEF AckUpdate
    <3>2. \A t \in Tasks : row'[t] = IF t = u THEN [row[t] EXCEPT !.status = "completed"] ELSE row[t]
      BY <1>a, <3>1
    <3> QED
      BY <1>a, <3>2 DEF Rows
  <2>4. OutcomesStay
    BY <2>2, <2>3 DEF OutcomesStay, Outcomes
  <2>5. \A w \in Workers, t \in Tasks : Holds(w, t)' => Holds(w, t) /\ worker'[w] = worker[w] /\ t # u
    BY <1>b, <1>c, <2>1, <2>2 DEF Moved, Holds, Holding
  <2> QED
    BY <2>2, <2>3, <2>4, <2>5, OwnInvKept, QueueAssumption DEF OwnInv, OwnRun
<1>6. ASSUME NEW v \in Workers, NackUpdate(v) PROVE OwnInv' /\ OutcomesStay
  <2> DEFINE u == worker[v].task
  <2>1. /\ worker[v].pc = "nackUpdate" /\ u \in Tasks /\ Moved(v, {"nackDelete"})
        /\ \A t \in Tasks : t # u => row'[t] = row[t]
        /\ row'[u] = row[u] \/ row'[u].status \in {"queued", "failed"}
    BY <1>6, NackUpdateSteps, NackUpdateRows, StepsMove
  <2>2. row[u].status = "running" /\ Holds(v, u)
    BY <2>1 DEF OwnInv, OwnRun, Holds, Holding
  <2>3. OutcomesStay
    BY <2>1, <2>2 DEF OutcomesStay, Outcomes
  <2>4. \A w \in Workers, t \in Tasks : Holds(w, t)' => Holds(w, t) /\ worker'[w] = worker[w] /\ t # u
    BY <1>b, <1>c, <2>1, <2>2 DEF Moved, Holds, Holding
  <2> QED
    BY <2>1, <2>2, <2>3, <2>4, OwnInvKept, QueueAssumption DEF OwnInv, OwnRun
<1>7. ASSUME NEW v \in Workers, Renew(v) \/ RenewRaises(v) PROVE OwnInv' /\ OutcomesStay
  <2>1. row' = row /\ \A w \in Workers : /\ worker'[w].pc = worker[w].pc
                                         /\ worker'[w].task = worker[w].task
                                         /\ worker'[w].retry = worker[w].retry
    BY <1>7, <1>a DEF Renew, RenewRaises, WorkerStates
  <2>2. OutcomesStay
    BY <2>1 DEF OutcomesStay, Outcomes
  <2>3. \A w \in Workers, t \in Tasks : Holds(w, t)' => Holds(w, t)
    BY <2>1 DEF Holds
  <2> QED
    BY <2>1, <2>2, <2>3, OwnInvKept, QueueAssumption DEF OwnInv, OwnRun
<1>8. CASE ReclaimExpiredLeases
  <2>1. worker' = worker /\ \A w \in Workers, t \in Tasks : Holds(w, t)' => Holds(w, t)
    BY <1>8 DEF ReclaimExpiredLeases, Holds
  <2>2. \A t \in Tasks : row'[t] = row[t] \/ (row[t].status = "running" /\ row'[t].status = "queued")
    <3>1. \A t \in Tasks : row'[t] = row[t] \/ (row[t].status = "running" /\ row'[t] = Reclaimed(row[t]))
      BY <1>8 DEF ReclaimExpiredLeases, Reclaimable
    <3>2. \A t \in Tasks : Reclaimed(row[t]).status = "queued"
      BY <1>a DEF Reclaimed, Rows
    <3> QED
      BY <3>1, <3>2
  <2>3. \A w \in Workers, t \in Tasks : Holds(w, t) => row'[t] = row[t]
    <3>1. \A w \in Workers, t \in Tasks : Holds(w, t) => t \notin Expired
      BY <1>c DEF RunInv, BusyInv, SoleRun, OwnInv, OwnRun, Expired
    <3> QED
      BY <1>8, <3>1 DEF ReclaimExpiredLeases, Reclaimable
  <2>4. OutcomesStay
    BY <2>2 DEF OutcomesStay, Outcomes
  <2> QED
    BY <2>1, <2>2, <2>3, <2>4, OwnInvKept, QueueAssumption DEF OwnInv, OwnRun
<1>9. CASE NewDay
  <2>1. worker' = worker /\ \A w \in Workers, t \in Tasks : Holds(w, t)' => Holds(w, t)
    BY <1>9 DEF NewDay, Holds
  <2>2. \A t \in Tasks : /\ row'[t].status = row[t].status /\ row'[t].worker = row[t].worker
                         /\ row'[t].retries = row[t].retries
    BY <1>9, <1>a DEF NewDay, Rows
  <2>3. OutcomesStay
    BY <2>2 DEF OutcomesStay, Outcomes
  <2> QED
    BY <2>1, <2>2, <2>3, OwnInvKept, QueueAssumption DEF OwnInv, OwnRun
<1>10. ASSUME NEW q \in Queues, ClearQueue(q) PROVE OwnInv' /\ OutcomesStay
  <2>1. worker' = worker /\ \A w \in Workers, t \in Tasks : Holds(w, t)' => Holds(w, t)
    BY <1>10 DEF ClearQueue, Holds
  <2>2. \A t \in Tasks : row'[t] = row[t] \/ (row[t].status = "queued" /\ row'[t].status = "deleted")
    BY <1>10, <1>a DEF ClearQueue, Rows
  <2>3. OutcomesStay
    BY <2>2 DEF OutcomesStay, Outcomes
  <2> QED
    BY <2>1, <2>2, <2>3, OwnInvKept, QueueAssumption DEF OwnInv, OwnRun
<1>11. CASE UNCHANGED vars
  <2>1. OutcomesStay
    BY <1>11 DEF vars, OutcomesStay
  <2>2. \A w \in Workers, t \in Tasks : Holds(w, t)' => Holds(w, t)
    BY <1>11 DEF vars, Holds
  <2> QED
    BY <1>11, <2>1, <2>2, OwnInvKept, QueueAssumption DEF vars, OwnInv, OwnRun
\* Nobody moves a task to the dead letter queue, no ack raises.
<1>12. ASSUME NEW u \in Tasks, MoveToDlq(u) PROVE FALSE
  BY <1>12 DEF MoveToDlq, Quiet
<1>13. ASSUME NEW v \in Workers, AckRaises(v) PROVE FALSE
  BY <1>13 DEF AckRaises, Quiet
<1> QED
  BY <1>1, <1>2, <1>3, <1>4, <1>5, <1>6, <1>7, <1>8, <1>9, <1>10, <1>11, <1>12, <1>13
     DEF Next, Undisturbed, Failure, WorkerStep, WorkerFault, Quiet

QueueInv == TypeOK /\ RunInv /\ OwnInv

\* The three invariants together are inductive, and hold.
LEMMA QueueInvHolds == ASSUME Quiet PROVE Spec => []QueueInv
<1>1. Init => QueueInv
  BY InitTypeOK, InitRunInv, InitOwnInv DEF QueueInv
<1>2. QueueInv /\ [Next]_vars => QueueInv'
  BY NextTypeOK, NextRunInv, NextOwnInv DEF QueueInv, Quiet
<1> QED
  BY <1>1, <1>2, PTL DEF Spec

\* A handler runs only after the dependencies of its task have completed, and
\* they still are when it runs.
THEOREM HandlersWait == ASSUME Quiet PROVE Spec => []HandlerRunsAfterDependencies
<1>1. QueueInv => HandlerRunsAfterDependencies
  BY DEF QueueInv, OwnInv, OwnRun, Holds, Holding, HandlerRunsAfterDependencies, TypeOK
<1> QED
  BY <1>1, QueueInvHolds, PTL

\* While nobody cancels, no step changes the outcome of a task: not the
\* unguarded UPDATE of nack, not the reaper, not a second ack.
THEOREM OutcomesAreFinal == ASSUME Quiet PROVE Spec => OutcomeIsFinal
<1>1. QueueInv /\ [Next]_vars =>
        [\A t \in Tasks : row[t].status \in Outcomes => row'[t].status = row[t].status]_vars
  BY NextOwnInv DEF QueueInv, OutcomesStay
<1> QED
  BY <1>1, QueueInvHolds, PTL DEF Spec, OutcomeIsFinal

----------------------------------------------------------------------------
(* Refinement.  What TaskOwnership sees of a task and of a worker, and how *)
(* each of its steps shows in these.                                       *)

StateOf(t) == CASE row[t].status = "absent"    -> "none"
                [] row[t].status = "queued"    -> "waiting"
                [] row[t].status = "running"   -> "owned"
                [] row[t].status = "completed" -> "done"
                [] OTHER                       -> "failed"
OwnerOf(t) == IF row[t].status = "running" THEN row[t].worker ELSE None
TriesOf(t) == row[t].retries
WorksOn(w) == IF worker[w].pc \in Holding THEN worker[w].task ELSE None

states == [t \in Tasks |-> StateOf(t)]
owners == [t \in Tasks |-> OwnerOf(t)]
tried  == [t \in Tasks |-> TriesOf(t)]
works  == [w \in Workers |-> WorksOn(w)]

\* Tasks and workers of which TaskOwnership sees no change.
SameTask(t)   == StateOf(t)' = StateOf(t) /\ OwnerOf(t)' = OwnerOf(t) /\ TriesOf(t)' = TriesOf(t)
SameWorker(w) == WorksOn(w)' = WorksOn(w)

\* A step of which TaskOwnership sees nothing.
LEMMA Stutter ==
  ASSUME \A t \in Tasks : SameTask(t), \A w \in Workers : SameWorker(w)
  PROVE  UNCHANGED Ownership!vars
<1>1. states' = states /\ owners' = owners /\ tried' = tried /\ works' = works
  BY DEF states, owners, tried, works, SameTask, SameWorker
<1> QED
  BY <1>1 DEF states, owners, tried, works, StateOf, OwnerOf, TriesOf, WorksOn, Ownership!vars

\* A new task.
LEMMA Submits ==
  ASSUME NEW u \in Tasks, StateOf(u) = "none", StateOf(u)' = "waiting",
         OwnerOf(u)' = OwnerOf(u), TriesOf(u)' = TriesOf(u),
         \A t \in Tasks \ {u} : SameTask(t), \A w \in Workers : SameWorker(w)
  PROVE  Ownership!Submit(u)
<1>1. /\ states[u] = "none" /\ states' = [states EXCEPT ![u] = "waiting"]
      /\ owners' = owners /\ tried' = tried /\ works' = works
  BY DEF states, owners, tried, works, SameTask, SameWorker
<1> QED
  BY <1>1 DEF states, owners, tried, works, StateOf, OwnerOf, TriesOf, WorksOn, Ownership!Submit

\* An idle worker takes up a task.
LEMMA ClaimsIt ==
  ASSUME NEW u \in Tasks, NEW v \in Workers, StateOf(u) = "waiting", WorksOn(v) = None,
         DependsOn[u] \subseteq Tasks, \A d \in DependsOn[u] : StateOf(d) = "done",
         StateOf(u)' = "owned", OwnerOf(u)' = v, TriesOf(u)' = TriesOf(u), WorksOn(v)' = u,
         \A t \in Tasks \ {u} : SameTask(t), \A w \in Workers \ {v} : SameWorker(w)
  PROVE  Ownership!Claim(u, v)
<1>1. /\ states[u] = "waiting" /\ works[v] = None
      /\ \A d \in DependsOn[u] : states[d] = "done"
      /\ states' = [states EXCEPT ![u] = "owned"] /\ owners' = [owners EXCEPT ![u] = v]
      /\ works' = [works EXCEPT ![v] = u] /\ tried' = tried
  BY DEF states, owners, tried, works, SameTask, SameWorker
<1> QED
  BY <1>1 DEF states, owners, tried, works, StateOf, OwnerOf, TriesOf, WorksOn, Ownership!Claim

\* The owner of a task ends its work on it.
Ends(u, v, result) ==
  /\ StateOf(u) = "owned" /\ OwnerOf(u) = v /\ WorksOn(v) = u
  /\ StateOf(u)' = result /\ OwnerOf(u)' = None /\ WorksOn(v)' = None
  /\ \A t \in Tasks \ {u} : SameTask(t)
  /\ \A w \in Workers \ {v} : SameWorker(w)

\* Ends is Finish.
LEMMA Finishes ==
  ASSUME NEW u \in Tasks, NEW v \in Workers, NEW result, Ends(u, v, result)
  PROVE  Ownership!Finish(u, v, result)
<1>1. /\ states[u] = "owned" /\ owners[u] = v /\ works[v] = u
      /\ states' = [states EXCEPT ![u] = result] /\ owners' = [owners EXCEPT ![u] = None]
      /\ works' = [works EXCEPT ![v] = None]
  BY DEF states, owners, works, SameTask, SameWorker, Ends
<1> QED
  BY <1>1 DEF states, owners, works, StateOf, OwnerOf, WorksOn, Ownership!Finish

\* The ways in which it ends.
LEMMA FinishSteps ==
  ASSUME NEW u \in Tasks, NEW v \in Workers
  PROVE  /\ Ends(u, v, "done") /\ TriesOf(u)' = TriesOf(u) => Ownership!Complete(u, v)
         /\ Ends(u, v, "failed") /\ TriesOf(u)' = TriesOf(u) /\ TriesOf(u) >= MaxRetries
              => Ownership!Fail(u, v)
         /\ Ends(u, v, "waiting") /\ TriesOf(u)' = TriesOf(u) + 1 /\ TriesOf(u) < MaxRetries
              => Ownership!GiveBack(u, v)
<1>1. ASSUME NEW result, Ends(u, v, result), TriesOf(u)' = TriesOf(u)
      PROVE  Ownership!Finish(u, v, result) /\ tried' = tried
  BY <1>1, Finishes DEF tried, Ends, SameTask
<1>2. ASSUME NEW result, Ends(u, v, result), TriesOf(u)' = TriesOf(u) + 1
      PROVE  Ownership!Finish(u, v, result) /\ tried' = [tried EXCEPT ![u] = @ + 1]
  BY <1>2, Finishes DEF tried, Ends, SameTask
<1>3. tried[u] = TriesOf(u)
  BY DEF tried
<1> QED
  BY <1>1, <1>2, <1>3 DEF tried, TriesOf, Ownership!Complete, Ownership!Fail, Ownership!GiveBack

\* A worker lets go of its task.
LEMMA Quits ==
  ASSUME NEW v \in Workers, WorksOn(v) # None, WorksOn(v)' = None,
         \A t \in Tasks : SameTask(t), \A w \in Workers \ {v} : SameWorker(w)
  PROVE  Ownership!Quit(v)
<1>1. works[v] # None
  BY DEF works
<1>3. works' = [works EXCEPT ![v] = None]
  <2>1. \A w \in Workers : WorksOn(w)' = IF w = v THEN None ELSE WorksOn(w)
    BY DEF SameWorker
  <2> QED
    BY <2>1 DEF works
<1>2. states' = states /\ owners' = owners /\ tried' = tried
  BY DEF states, owners, tried, SameTask
<1> QED
  BY <1>1, <1>2, <1>3
     DEF states, owners, tried, works, StateOf, OwnerOf, TriesOf, WorksOn, Ownership!Quit

\* The tasks of S are taken from owners that no longer work on them.
LEMMA TakesAway ==
  ASSUME NEW S \in SUBSET Tasks, S # {},
         \A t \in S : /\ StateOf(t) = "owned" /\ OwnerOf(t) \in Workers /\ WorksOn(OwnerOf(t)) # t
                      /\ StateOf(t)' = "waiting" /\ OwnerOf(t)' = None
                      /\ TriesOf(t)' = Bump(TriesOf(t))
                      /\ TriesOf(t) \in Nat,
         \A t \in Tasks \ S : SameTask(t), \A w \in Workers : SameWorker(w)
  PROVE  Ownership!TakeAway(S)
<1>0. MaxRetries \in Nat
  BY QueueAssumption
<1>1. \A t \in S : states[t] = "owned" /\ works[owners[t]] # t
  BY DEF states, owners, works
<1>2. /\ states' = [t \in Tasks |-> IF t \in S THEN "waiting" ELSE states[t]]
      /\ owners' = [t \in Tasks |-> IF t \in S THEN None ELSE owners[t]]
      /\ works' = works
  BY DEF states, owners, works, SameTask, SameWorker
<1>3. tried' = [t \in Tasks |-> IF t \in S /\ tried[t] <= MaxRetries
                                  THEN tried[t] + 1 ELSE tried[t]]
  BY <1>0 DEF tried, SameTask, Bump
<1> QED
  BY <1>1, <1>2, <1>3
     DEF states, owners, tried, works, StateOf, OwnerOf, TriesOf, WorksOn, Ownership!TakeAway

\* Leases outlive the work, workers may disappear, the renewal may stop; no
\* cancellation, no operator, no ack that raises.
Unattended == /\ TimelyWork = TRUE /\ Cancellers = {}
              /\ Environment \subseteq {"abandon", "renew"}

\* Nothing that TaskOwnership sees changes with rows that keep their status,
\* worker and retries, and with workers that stay where they were or move
\* between points at which TaskOwnership sees the same.
LEMMA Unseen ==
  /\ \A t \in Tasks : /\ row'[t].status = row[t].status /\ row'[t].worker = row[t].worker
                      /\ row'[t].retries = row[t].retries
                      => SameTask(t)
  /\ \A w \in Workers : worker'[w].task = worker[w].task
                        /\ (worker'[w].pc \in Holding <=> worker[w].pc \in Holding)
                        => SameWorker(w)
  /\ \A w \in Workers : worker'[w].pc \notin Holding /\ worker[w].pc \notin Holding
                        => SameWorker(w)
BY DEF SameTask, StateOf, OwnerOf, TriesOf, SameWorker, WorksOn

\* Worker steps that TaskOwnership does not see, but for a worker that quits.
LEMMA MovesUnseen ==
  ASSUME QueueInv, NEW v \in Workers, NEW P \in SUBSET WorkerPcs, Moved(v, P), row' = row
  PROVE  /\ \A t \in Tasks : SameTask(t)
         /\ \A w \in Workers \ {v} : SameWorker(w)
         /\ worker'[v].pc # "idle" /\ worker[v].pc \in Holding /\ P \subseteq Holding => SameWorker(v)
         /\ worker[v].pc \notin Holding /\ P \cap Holding = {} => SameWorker(v)
         /\ worker'[v].pc = "idle" => WorksOn(v)' = None
<1>1. /\ \A t \in Tasks : SameTask(t)
      /\ \A w \in Workers \ {v} : SameWorker(w)
  BY Unseen DEF Moved
<1>2. "idle" \notin Holding
  BY DEF Holding
<1> QED
  BY <1>1, <1>2, Unseen DEF Moved, WorksOn

\* The end of a run by the worker that holds the task: its UPDATE meets the
\* row it claimed, running and its own, and the decision about a retry is
\* still that of the row.
LEMMA EndsOwned ==
  ASSUME QueueInv, NEW v \in Workers, NEW P, Moved(v, P), P \cap Holding = {},
         NEW u \in Tasks, Holds(v, u),
         \A t \in Tasks : t # u => row'[t] = row[t],
         row'[u].status \in {"completed", "failed", "queued"},
         NEW result, StateOf(u)' = result
  PROVE  Ends(u, v, result)
<1>1. row[u].status = "running" /\ row[u].worker = v
  BY DEF QueueInv, OwnInv, OwnRun
<1>2. "idle" \notin Holding
  BY DEF Holding
<1>3. /\ \A t \in Tasks \ {u} : SameTask(t)
      /\ \A w \in Workers \ {v} : SameWorker(w)
  BY Unseen DEF Moved
<1>4. WorksOn(v) = u /\ WorksOn(v)' = None
  BY <1>2 DEF Moved, WorksOn, Holds
<1>5. StateOf(u) = "owned" /\ OwnerOf(u) = v /\ OwnerOf(u)' = None
  BY <1>1 DEF StateOf, OwnerOf
<1> QED
  BY <1>3, <1>4, <1>5 DEF Ends

\* A step of the queue is a step of TaskOwnership, or one that it does not see.
LEMMA StepImplements ==
  ASSUME Unattended, QueueInv, [Next]_vars
  PROVE  [Ownership!Next]_(Ownership!vars)
<1> DEFINE Goal == [Ownership!Next]_(Ownership!vars)
<1> SUFFICES Goal
  OBVIOUS
<1>a. /\ row \in [Tasks -> Rows] /\ lease \in [Tasks -> Leases]
      /\ worker \in [Workers -> WorkerStates]
      /\ \A w \in Workers : worker[w].pc # "idle" => worker[w].task \in Tasks
  BY DEF QueueInv, TypeOK
<1>b. MaxRetries \in Nat /\ None \notin Tasks /\ \A t \in Tasks : DependsOn[t] \subseteq Tasks
  BY QueueAssumption
<1>c. ASSUME \A t \in Tasks : SameTask(t), \A w \in Workers : SameWorker(w) PROVE Goal
  BY <1>c, Stutter
<1>d. ASSUME NEW v \in Workers, WorksOn(v)' = None,
             \A t \in Tasks : SameTask(t), \A w \in Workers \ {v} : SameWorker(w)
      PROVE  Goal
  <2>1. CASE WorksOn(v) = None
    BY <1>c, <1>d, <2>1 DEF SameWorker
  <2>2. CASE WorksOn(v) # None
    BY <1>d, <2>2, Quits DEF Ownership!Next
  <2> QED
    BY <2>1, <2>2
<1>1. ASSUME NEW u \in Tasks, Enqueue(u) PROVE Goal
  <2>1. /\ worker' = worker /\ row[u].status = "absent"
        /\ \A t \in Tasks : t # u => row'[t] = row[t]
        /\ row'[u] = [row[u] EXCEPT !.status = "queued",
                                   !.older = {z \in Tasks : row[z].status # "absent"}]
    BY <1>1, <1>a DEF Enqueue
  <2>2. row'[u].status = "queued" /\ row'[u].retries = row[u].retries
    BY <2>1, <1>a DEF Rows
  <2>3. /\ StateOf(u) = "none" /\ StateOf(u)' = "waiting"
        /\ OwnerOf(u)' = OwnerOf(u) /\ TriesOf(u)' = TriesOf(u)
    BY <2>1, <2>2 DEF StateOf, OwnerOf, TriesOf
  <2>4. (\A t \in Tasks \ {u} : SameTask(t)) /\ \A w \in Workers : SameWorker(w)
    BY <2>1, Unseen
  <2> QED
    BY <2>3, <2>4, Submits DEF Ownership!Next
<1>2. ASSUME NEW v \in Workers, Dequeue(v) PROVE Goal
  <2>1. PICK u \in Tasks, id \in LeaseIds, d \in DaysAhead : Claims(v, u, id, d)
    BY <1>2, DequeueClaims
  <2>2. /\ row'[u].status = "running" /\ row'[u].worker = v /\ row[u].status = "queued"
        /\ row'[u].retries = row[u].retries
        /\ \A t \in Tasks \ {u} : row'[t] = row[t]
        /\ worker[v].pc = "idle" /\ worker'[v].pc = "check" /\ worker'[v].task = u
        /\ \A w \in Workers \ {v} : worker'[w] = worker[w]
    BY <1>a, <2>1 DEF Claims, Ready, Rows, IdleWorker
  <2>3. "check" \in Holding /\ "idle" \notin Holding
    BY DEF Holding
  <2>4. \A e \in DependsOn[u] : StateOf(e) = "done"
    BY <2>1 DEF Claims, Ready, DepsCompleted, StateOf
  <2>5. /\ StateOf(u) = "waiting" /\ StateOf(u)' = "owned" /\ OwnerOf(u)' = v
        /\ TriesOf(u)' = TriesOf(u) /\ WorksOn(v) = None /\ WorksOn(v)' = u
    BY <2>2, <2>3 DEF StateOf, OwnerOf, TriesOf, WorksOn
  <2>6. (\A t \in Tasks \ {u} : SameTask(t)) /\ \A w \in Workers \ {v} : SameWorker(w)
    BY <2>2, Unseen
  <2>7. Ownership!Claim(u, v)
    BY <1>b, <2>4, <2>5, <2>6, ClaimsIt
  <2> QED
    BY <2>7 DEF Ownership!Next
<1>3. ASSUME NEW v \in Workers,
             \/ CheckCancelled(v) \/ Succeed(v) \/ Fail(v) \/ NackRead(v)
             \/ AckDelete(v) \/ NackDelete(v) \/ Abandon(v)
      PROVE  Goal
  <2>1. row' = row
    BY <1>3 DEF CheckCancelled, Succeed, Fail, NackRead, AckDelete, NackDelete, Abandon
  <2>2. /\ {"check", "execute", "ack", "nackRead", "nackUpdate"} \subseteq Holding
        /\ {"execute"} \in SUBSET WorkerPcs /\ {"ack"} \in SUBSET WorkerPcs
        /\ {"nackRead"} \in SUBSET WorkerPcs /\ {"nackUpdate"} \in SUBSET WorkerPcs
        /\ {} \in SUBSET WorkerPcs
    BY DEF Holding, WorkerPcs
  <2>3. \/ Moved(v, {})
        \/ worker[v].pc \in Holding /\ \E P \in SUBSET WorkerPcs : P \subseteq Holding /\ Moved(v, P)
    BY <1>3, <2>2, StepsMove DEF QueueInv
  <2>4. CASE worker'[v].pc = "idle"
    <3>1. WorksOn(v)' = None /\ (\A t \in Tasks : SameTask(t)) /\ \A w \in Workers \ {v} : SameWorker(w)
      BY <2>1, <2>2, <2>3, <2>4, MovesUnseen
    <3> QED
      BY <1>d, <3>1
  <2>5. CASE worker'[v].pc # "idle"
    <3>1. (\A t \in Tasks : SameTask(t)) /\ \A w \in Workers : SameWorker(w)
      BY <2>1, <2>2, <2>3, <2>5, MovesUnseen DEF Moved
    <3> QED
      BY <1>c, <3>1
  <2> QED
    BY <2>4, <2>5
<1>4. ASSUME NEW v \in Workers, AckUpdate(v) PROVE Goal
  <2>0. PICK u \in Tasks : worker[v].task = u
    BY <1>4, <1>a DEF AckUpdate
  <2>1. worker[v].pc = "ack" /\ Moved(v, {"ackDelete"})
    BY <1>4, StepsMove DEF QueueInv, AckUpdate
  <2>2. Holds(v, u) /\ {"ackDelete"} \cap Holding = {}
    BY <2>0, <2>1 DEF Holds, Holding
  <2>3. row[u].status = "running"
    BY <2>2 DEF QueueInv, OwnInv, OwnRun
  <2>4. row' = [row EXCEPT ![u].status = "completed"]
    BY <1>4, <2>0, <2>3 DEF AckUpdate
  <2>5. /\ \A t \in Tasks : t # u => row'[t] = row[t]
        /\ row'[u].status = "completed" /\ row'[u].retries = row[u].retries
    BY <1>a, <2>4 DEF Rows
  <2>6. StateOf(u)' = "done" /\ TriesOf(u)' = TriesOf(u)
    BY <2>5 DEF StateOf, TriesOf
  <2>7. Ends(u, v, "done")
    BY <2>1, <2>2, <2>5, <2>6, EndsOwned
  <2> QED
    BY <2>1, <2>6, <2>7, FinishSteps DEF Ownership!Next
<1>5. ASSUME NEW v \in Workers, NackUpdate(v) PROVE Goal
  <2>0. PICK u \in Tasks : worker[v].task = u
    BY <1>5, <1>a DEF NackUpdate
  <2>1. /\ worker[v].pc = "nackUpdate" /\ Moved(v, {"nackDelete"})
        /\ \A t \in Tasks : t # u => row'[t] = row[t]
        /\ Nacked(v, u)
    BY <1>5, <2>0, NackUpdateSteps, StepsMove DEF QueueInv
  <2>2. Holds(v, u) /\ {"nackDelete"} \cap Holding = {}
    BY <2>0, <2>1 DEF Holds, Holding
  <2>3. row[u].status = "running" /\ (worker[v].retry <=> RetriesLeft(u)) /\ row[u].status \in Stored
    BY <2>1, <2>2 DEF QueueInv, OwnInv, OwnRun, Stored
  <2>4. row[u] \in Rows /\ row[u].retries \in Nat /\ TriesOf(u) = row[u].retries
    BY <1>a, <2>1 DEF Rows, TriesOf
  <2>5. CASE ~worker[v].retry
    <3>1. row'[u] = [row[u] EXCEPT !.status = "failed"]
      BY <2>1, <2>3, <2>5 DEF Nacked
    <3>2. row'[u].status = "failed" /\ row'[u].retries = row[u].retries
      BY <2>4, <3>1 DEF Rows
    <3>3. StateOf(u)' = "failed" /\ TriesOf(u)' = TriesOf(u)
      BY <3>2 DEF StateOf, TriesOf
    <3>4. TriesOf(u) >= MaxRetries
      BY <1>b, <2>3, <2>4, <2>5 DEF RetriesLeft
    <3>5. Ends(u, v, "failed")
      BY <2>1, <2>2, <3>2, <3>3, EndsOwned
    <3> QED
      BY <2>1, <3>3, <3>4, <3>5, FinishSteps DEF Ownership!Next
  <2>6. CASE worker[v].retry
    <3>1. PICK d \in DaysAhead : row'[u] = Retried(row[u], d)
      BY <2>1, <2>3, <2>6 DEF Nacked
    <3>2. row'[u].status = "queued" /\ row'[u].retries = Bump(row[u].retries)
      BY <2>4, <3>1 DEF Retried, Rows
    <3>3. row[u].retries < MaxRetries
      BY <2>3, <2>6 DEF RetriesLeft
    <3>4. StateOf(u)' = "waiting" /\ TriesOf(u)' = TriesOf(u) + 1 /\ TriesOf(u) < MaxRetries
      BY <1>b, <2>4, <3>2, <3>3 DEF StateOf, TriesOf, Bump
    <3>5. Ends(u, v, "waiting")
      BY <2>1, <2>2, <3>2, <3>4, EndsOwned
    <3> QED
      BY <2>1, <3>4, <3>5, FinishSteps DEF Ownership!Next
  <2> QED
    BY <2>5, <2>6
<1>6. ASSUME NEW v \in Workers, Renew(v) \/ RenewRaises(v) PROVE Goal
  <2>1. row' = row /\ \A w \in Workers : worker'[w].pc = worker[w].pc
                                         /\ worker'[w].task = worker[w].task
    BY <1>6, <1>a DEF Renew, RenewRaises, WorkerStates
  <2> QED
    BY <1>c, <2>1, Unseen
<1>7. CASE ReclaimExpiredLeases
  <2>0. PICK S \in SUBSET Tasks : S = {t \in Tasks : Reclaimable(t)}
    OBVIOUS
  <2>1. /\ worker' = worker
        /\ \A t \in Tasks \ S : row'[t] = row[t]
        /\ \A t \in S : row'[t] = Reclaimed(row[t])
    BY <1>7, <2>0 DEF ReclaimExpiredLeases
  <2>2. \A t \in S : /\ row'[t].status = "queued" /\ row'[t].retries = Bump(row[t].retries)
                     /\ row[t].retries \in Nat
    <3>1. \A t \in Tasks : /\ Reclaimed(row[t]).status = "queued"
                           /\ Reclaimed(row[t]).retries = Bump(row[t].retries)
      BY <1>a DEF Reclaimed, Rows
    <3>2. \A t \in Tasks : row[t].retries \in Nat
      BY <1>a, <1>b DEF Rows
    <3> QED
      BY <2>1, <3>1, <3>2
  <2>3. \A t \in S : row[t].status = "running" /\ row[t].worker \in Workers
    BY <2>0 DEF Reclaimable, QueueInv, OwnInv
  <2>4. (\A t \in Tasks \ S : SameTask(t)) /\ \A w \in Workers : SameWorker(w)
    BY <2>1, Unseen
  <2>5. ASSUME NEW t \in S PROVE WorksOn(OwnerOf(t)) # t
    <3>1. ~Busy(OwnerOf(t), t) /\ OwnerOf(t) \in Workers
      BY <2>0, <2>3 DEF QueueInv, RunInv, BusyInv, SoleRun, Reclaimable, Expired, OwnerOf
    <3>2. "idle" \notin Holding
      BY DEF Holding
    <3> QED
      BY <1>b, <3>1, <3>2 DEF WorksOn, Busy
  <2>6. \A t \in S : /\ StateOf(t) = "owned" /\ OwnerOf(t) \in Workers
                     /\ StateOf(t)' = "waiting" /\ OwnerOf(t)' = None
                     /\ TriesOf(t)' = Bump(TriesOf(t)) /\ TriesOf(t) \in Nat
    BY <2>2, <2>3 DEF StateOf, OwnerOf, TriesOf
  <2>7. CASE S = {}
    BY <1>c, <2>4, <2>7
  <2>8. CASE S # {}
    <3>1. \A t \in S : WorksOn(OwnerOf(t)) # t
      BY <2>5
    <3>2. Ownership!TakeAway(S)
      BY <3>1, <2>4, <2>6, <2>8, TakesAway
    <3> QED
      BY <3>2 DEF Ownership!Next
  <2> QED
    BY <2>7, <2>8
<1>8. CASE NewDay
  <2>1. /\ worker' = worker
        /\ \A t \in Tasks : /\ row'[t].status = row[t].status /\ row'[t].worker = row[t].worker
                            /\ row'[t].retries = row[t].retries
    BY <1>8, <1>a DEF NewDay, Rows
  <2> QED
    BY <1>c, <2>1, Unseen
<1>9. CASE UNCHANGED vars
  BY <1>9, <1>c, Unseen DEF vars
\* Neither operators nor failing acks.
<1>10. /\ \A u \in Tasks : ~MoveToDlq(u)
       /\ \A q \in Queues : ~ClearQueue(q)
       /\ \A v \in Workers : ~AckRaises(v)
  BY DEF MoveToDlq, ClearQueue, AckRaises, Unattended
<1> HIDE DEF Goal
<1> QED
  BY <1>1, <1>2, <1>3, <1>4, <1>5, <1>6, <1>7, <1>8, <1>9, <1>10
     DEF Next, Undisturbed, Failure, WorkerStep, WorkerFault, Unattended

\* The queue implements TaskOwnership: one owner at a time, who alone ends the
\* task or gives it back; taken away only from a worker that let go of it;
\* started after its dependencies, ended once, failed when its retries are
\* used up.
THEOREM QueueImplementsOwnership == ASSUME Unattended PROVE Spec => ImplementsOwnership
<1>1. Init => Ownership!Init
  <2> SUFFICES ASSUME Init PROVE Ownership!Init
    OBVIOUS
  <2>1. /\ \A t \in Tasks : StateOf(t) = "none" /\ OwnerOf(t) = None /\ TriesOf(t) = 0
        /\ \A w \in Workers : WorksOn(w) = None
    BY DEF Init, StateOf, OwnerOf, TriesOf, WorksOn, Holding, IdleWorker
  <2> QED
    BY <2>1 DEF StateOf, OwnerOf, TriesOf, WorksOn, Ownership!Init
<1>2. QueueInv /\ [Next]_vars => [Ownership!Next]_(Ownership!vars)
  BY StepImplements
<1>3. Spec => []QueueInv
  BY QueueInvHolds DEF Unattended, Quiet
<1> QED
  BY <1>1, <1>2, <1>3, PTL DEF Spec, ImplementsOwnership, Ownership!Spec
=============================================================================
