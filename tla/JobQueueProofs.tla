--------------------------- MODULE JobQueueProofs ---------------------------
(* Safety of JobQueue for any jobs, dependencies, loops, retries and       *)
(* environment.  IInv adds to the properties that a row in processing      *)
(* names the loop that took it, and that the dependencies of a job that a  *)
(* loop has in hand, or that is in processing, have completed.             *)
EXTENDS JobQueue, TLAPS

\* What a row of job j keeps to.
Good(j, r) ==
  /\ r \in Rows
  /\ r.retry_count <= MaxRetries[j]
  /\ r.status = "processing" => r.taken_by \in Workers /\ r.worker = WorkerId[r.taken_by]

WorkersBusy == \A w \in Workers : worker[w].pc # "idle" => worker[w].job \in Jobs

Started ==
  /\ \A j \in Jobs : row[j].status = "processing" => DepsCompleted(j)
  /\ \A w \in Workers : worker[w].pc # "idle" => DepsCompleted(worker[w].job)

IInv == /\ TypeOK
        /\ \A j \in Jobs : Good(j, row[j])
        /\ WorkersBusy
        /\ Started

WorkerStates == [pc : {"idle", "selected", "taken", "given", "handling"},
                 job : Jobs \union {None}, lease : LeaseIds \union {None}]

\* What a step may do to the row of job j.
Moves(j, r) ==
  /\ Good(j, r)
  /\ row[j].status \in Finished /\ r.status # row[j].status
       => \/ row[j].status = "failed" /\ RetryNow(j)
          \/ row[j].status = "quarantined" /\ RequeueQuarantined(j)
  /\ r.status = "processing"
       => \/ row[j].status = "processing"
          \/ \E w \in Workers : worker[w].pc = "selected" /\ worker[w].job = j

RowsMove == row' \in [Jobs -> Rows] /\ \A j \in Jobs : Moves(j, row'[j])

\* What a step may do to loop w.
LoopMoves(w) ==
  /\ worker'[w] \in WorkerStates
  /\ worker'[w].pc # "idle"
       => \/ worker'[w].job = worker[w].job /\ worker[w].pc # "idle"
          \/ worker'[w].job \in Jobs /\ Selectable(worker'[w].job)

LoopsMove == worker' \in [Workers -> WorkerStates] /\ \A w \in Workers : LoopMoves(w)

-----------------------------------------------------------------------------
(* Rows. *)

\* Settling a row gives a row, and says what becomes of status and count.
LEMMA StatusSet ==
  ASSUME NEW r \in Rows, NEW s \in Statuses
  PROVE  /\ [r EXCEPT !.status = s] \in Rows
         /\ [r EXCEPT !.status = s].status = s
         /\ [r EXCEPT !.status = s].retry_count = r.retry_count
  BY DEF Rows

\* A row without its lease is a row.
LEMMA UnleasedRow ==
  ASSUME NEW r \in Rows
  PROVE  /\ Unleased(r) \in Rows
         /\ Unleased(r).retry_count = r.retry_count
         /\ Unleased(r).status = r.status
  BY DEF Unleased, Rows

\* Cancellation and TTL end the row and keep its count.
LEMMA CancelledRow ==
  ASSUME NEW r \in Rows
  PROVE  /\ Cancelled(r) \in Rows
         /\ Cancelled(r).status = "cancelled"
         /\ Cancelled(r).retry_count = r.retry_count
<1>1. "cancelled" \in Statuses
  BY DEF Statuses, Finished
<1>2. Unleased(r) \in Rows /\ Unleased(r).retry_count = r.retry_count
  BY UnleasedRow
<1> QED BY <1>1, <1>2, StatusSet DEF Cancelled

\* A retry is counted, and leaves a row that is queued or quarantined.
LEMMA RetriedRow ==
  ASSUME NEW r \in Rows, NEW c \in Codes
  PROVE  /\ Retried(r, c) \in Rows
         /\ Retried(r, c).status \in {"queued", "quarantined"}
         /\ Retried(r, c).retry_count = r.retry_count + 1
<1> DEFINE u == Unleased(r)
           s0 == IF r.streak + 1 >= Threshold THEN "quarantined" ELSE "queued"
           d0 == IF r.streak + 1 >= Threshold THEN r.due ELSE FALSE
           k0 == IF r.code = c THEN u.streak + 1 ELSE 1
           n0 == u.retry_count + 1
           v == [u EXCEPT !.status = s0, !.due = d0]
<1>1. u \in Rows /\ u.retry_count = r.retry_count
  BY UnleasedRow
<1>2. u.streak \in Nat /\ r.due \in BOOLEAN /\ u.retry_count \in Nat
  BY <1>1 DEF Rows
<1>3. s0 \in {"queued", "quarantined"} /\ s0 \in Statuses
  BY DEF Statuses, Finished
<1>4. d0 \in BOOLEAN
  BY <1>2, Zenon
<1>5. k0 \in Nat /\ n0 \in Nat
  <2> HIDE DEF u
  <2> QED BY <1>2
<1>6. Retried(r, c) = [v EXCEPT !.retry_count = n0, !.streak = k0, !.code = c]
  BY <1>1 DEF Retried, Rows
<1>7. n0 = r.retry_count + 1
  BY <1>1
<1> HIDE DEF u, s0, d0, k0, n0
<1>8. v \in Rows /\ v.status = s0
  BY <1>1, <1>3, <1>4 DEF Rows
<1> HIDE DEF v
<1>9. /\ [v EXCEPT !.retry_count = n0, !.streak = k0, !.code = c] \in Rows
      /\ [v EXCEPT !.retry_count = n0, !.streak = k0, !.code = c].status = v.status
      /\ [v EXCEPT !.retry_count = n0, !.streak = k0, !.code = c].retry_count = n0
  BY <1>5, <1>8 DEF Rows
<1>10. /\ Retried(r, c) \in Rows /\ Retried(r, c).status = s0
       /\ Retried(r, c).retry_count = n0
  BY <1>6, <1>8, <1>9, Zenon
<1> QED BY <1>3, <1>7, <1>10

\* A row that is no longer processing is good if its count is.
LEMMA EndedRow ==
  ASSUME NEW j \in Jobs, NEW r \in Rows, r.retry_count <= MaxRetries[j], r.status # "processing"
  PROVE  Good(j, r)
  BY DEF Good

\* A step that leaves every row alone.
LEMMA RowsStay ==
  ASSUME IInv, UNCHANGED row
  PROVE  RowsMove
  BY DEF IInv, TypeOK, RowsMove, Moves

\* A step that changes one row.
LEMMA OneRowMoves ==
  ASSUME IInv, NEW j \in Jobs, NEW r, row' = [row EXCEPT ![j] = r], Moves(j, r)
  PROVE  RowsMove
<1>1. row \in [Jobs -> Rows] /\ r \in Rows
  BY DEF IInv, TypeOK, Moves, Good
<1>2. row' \in [Jobs -> Rows] /\ row'[j] = r /\ \A k \in Jobs : k # j => row'[k] = row[k]
  BY <1>1
<1>3. ASSUME NEW k \in Jobs, k # j
      PROVE  Moves(k, row'[k])
  BY <1>2, <1>3 DEF IInv, Moves
<1> QED BY <1>2, <1>3 DEF RowsMove

\* The row of an unfinished job may become any good row that is not processing.
LEMMA UnfinishedMoves ==
  ASSUME NEW j \in Jobs, NEW r, Good(j, r), r.status # "processing", row[j].status \notin Finished
  PROVE  Moves(j, r)
  BY DEF Moves

\* A loop in charge has a job in processing.
LEMMA InChargeProcesses ==
  ASSUME IInv, NEW w \in Workers, worker[w].pc # "idle", InCharge(w)
  PROVE  /\ worker[w].job \in Jobs
         /\ row[worker[w].job] \in Rows
         /\ row[worker[w].job].retry_count <= MaxRetries[worker[w].job]
         /\ row[worker[w].job].status = "processing"
         /\ row[worker[w].job].status \notin Finished
  BY DEF IInv, WorkersBusy, InCharge, TypeOK, Finished
-----------------------------------------------------------------------------
(* The steps of a loop. *)

\* Only Take makes a job processing, and the loop that does has selected it.
LEMMA TakeMoves ==
  ASSUME IInv, NEW w \in Workers, Take(w)
  PROVE  RowsMove
<1>1. PICK j : j = worker[w].job
  OBVIOUS
<1>2. /\ worker[w].pc = "selected" /\ Takable(j) /\ FreshLeaseIds # {}
  BY <1>1 DEF Take
<1>3. j \in Jobs
  BY <1>1, <1>2 DEF IInv, WorkersBusy
<1>4. row[j] \in Rows /\ row[j].retry_count <= MaxRetries[j]
  BY <1>3 DEF IInv, Good
<1>5. PICK l \in LeaseIds : l = CHOOSE x \in FreshLeaseIds : TRUE
  BY <1>2 DEF FreshLeaseIds
<1> DEFINE r == [row[j] EXCEPT !.status = "processing", !.until = "live",
                               !.worker = WorkerId[w], !.lease = l, !.taken_by = w]
<1>6. row' = [row EXCEPT ![j] = r]
  BY <1>1, <1>5 DEF Take
<1>7. "processing" \in Statuses
  BY DEF Statuses
<1>8. /\ r \in Rows /\ r.status = "processing" /\ r.retry_count = row[j].retry_count
      /\ r.worker = WorkerId[w] /\ r.taken_by = w
  BY <1>4, <1>7 DEF Rows
<1>9. row[j].status \notin Finished
  BY <1>2 DEF Takable, ExpiredLease, Finished
<1> HIDE DEF r
<1>10. Good(j, r)
  BY <1>4, <1>8 DEF Good
<1>11. Moves(j, r)
  BY <1>1, <1>2, <1>8, <1>9, <1>10 DEF Moves
<1> QED BY <1>3, <1>6, <1>11, OneRowMoves

\* A renewal touches leased_until only.
LEMMA RenewMoves ==
  ASSUME IInv, NEW w \in Workers, Renew(w)
  PROVE  RowsMove
<1> DEFINE j == worker[w].job
           r == [row[j] EXCEPT !.until = "live"]
<1>1. /\ j \in Jobs /\ row[j] \in Rows /\ row[j].status = "processing"
      /\ row[j].status \notin Finished
  BY InChargeProcesses DEF Renew
<1>2. row' = [row EXCEPT ![j] = r]
  BY DEF Renew
<1>3. /\ r \in Rows /\ r.status = row[j].status /\ r.retry_count = row[j].retry_count
      /\ r.worker = row[j].worker /\ r.taken_by = row[j].taken_by
  BY <1>1 DEF Rows
<1>4. Good(j, row[j])
  BY <1>1 DEF IInv
<1> HIDE DEF r, j
<1>5. Moves(j, r)
  BY <1>1, <1>3, <1>4 DEF Moves, Good
<1> QED BY <1>1, <1>2, <1>5, OneRowMoves

\* A lease that lapses likewise.
LEMMA LapseMoves ==
  ASSUME IInv, NEW j \in Jobs, Lapse(j) \/ ComesDue(j)
  PROVE  RowsMove
<1>1. row[j] \in Rows /\ Good(j, row[j])
  BY DEF IInv, TypeOK
<1>2. ASSUME NEW r \in {[row[j] EXCEPT !.until = "over"], [row[j] EXCEPT !.due = TRUE]}
      PROVE  Moves(j, r)
  <2>1. /\ r \in Rows /\ r.status = row[j].status /\ r.retry_count = row[j].retry_count
        /\ r.worker = row[j].worker /\ r.taken_by = row[j].taken_by
    BY <1>1, <1>2 DEF Rows
  <2> QED BY <1>1, <2>1 DEF Moves, Good
<1>3. \/ row' = [row EXCEPT ![j] = [row[j] EXCEPT !.until = "over"]]
      \/ row' = [row EXCEPT ![j] = [row[j] EXCEPT !.due = TRUE]]
  BY DEF Lapse, ComesDue
<1> QED BY <1>2, <1>3, OneRowMoves

\* A job in processing is completed, fails or goes back to the queue.
LEMMA SettledMoves ==
  ASSUME IInv, NEW j \in Jobs, row[j].status \notin Finished,
         NEW s \in Statuses, s # "processing", NEW t \in BOOLEAN
  PROVE  /\ Moves(j, [Unleased(row[j]) EXCEPT !.status = s])
         /\ Moves(j, [Unleased(row[j]) EXCEPT !.status = s, !.token = t])
         /\ Moves(j, Cancelled(row[j]))
         /\ Moves(j, [Cancelled(row[j]) EXCEPT !.status = s])
<1>1. row[j] \in Rows /\ row[j].retry_count <= MaxRetries[j]
  BY DEF IInv, TypeOK, Good
<1>2. /\ Unleased(row[j]) \in Rows /\ Cancelled(row[j]) \in Rows
      /\ Cancelled(row[j]).status # "processing"
      /\ Unleased(row[j]).retry_count = row[j].retry_count
      /\ Cancelled(row[j]).retry_count = row[j].retry_count
  BY <1>1, UnleasedRow, CancelledRow
<1> DEFINE u == Unleased(row[j])
           v == Cancelled(row[j])
<1> HIDE DEF u, v
<1>3. /\ [u EXCEPT !.status = s] \in Rows /\ [u EXCEPT !.status = s].status = s
      /\ [u EXCEPT !.status = s].retry_count = u.retry_count
  BY <1>2, StatusSet DEF u
<1>4. /\ [u EXCEPT !.status = s, !.token = t] \in Rows
      /\ [u EXCEPT !.status = s, !.token = t].status = s
      /\ [u EXCEPT !.status = s, !.token = t].retry_count = u.retry_count
  <2>1. u \in Rows
    BY <1>2 DEF u
  <2> QED BY <2>1 DEF Rows
<1>5. /\ [v EXCEPT !.status = s] \in Rows /\ [v EXCEPT !.status = s].status = s
      /\ [v EXCEPT !.status = s].retry_count = v.retry_count
  BY <1>2, StatusSet DEF v
<1>6. Good(j, [u EXCEPT !.status = s]) /\ Moves(j, [u EXCEPT !.status = s])
  BY <1>1, <1>2, <1>3, EndedRow, UnfinishedMoves DEF u
<1>7. Good(j, [u EXCEPT !.status = s, !.token = t]) /\ Moves(j, [u EXCEPT !.status = s, !.token = t])
  BY <1>1, <1>2, <1>4, EndedRow, UnfinishedMoves, Zenon DEF u
<1>8. Good(j, v) /\ Moves(j, v)
  BY <1>1, <1>2, EndedRow, UnfinishedMoves DEF v
<1>9. Good(j, [v EXCEPT !.status = s]) /\ Moves(j, [v EXCEPT !.status = s])
  BY <1>1, <1>2, <1>5, EndedRow, UnfinishedMoves DEF v
<1> QED BY <1>6, <1>7, <1>8, <1>9 DEF u, v

\* complete_job.
LEMMA CompleteMoves ==
  ASSUME IInv, JobQueueAssumption, NEW w \in Workers, Complete(w)
  PROVE  RowsMove
<1> DEFINE j == worker[w].job
           r == [Unleased(row[j]) EXCEPT !.status = "completed", !.token = RequireToken]
<1>1. CASE UNCHANGED row
  BY <1>1, RowsStay
<1>2. CASE InCharge(w) /\ row' = [row EXCEPT ![j] = r]
  <2>1. j \in Jobs /\ row[j].status \notin Finished
    BY <1>2, InChargeProcesses DEF Complete
  <2>2. "completed" \in Statuses /\ RequireToken \in BOOLEAN
    BY DEF Statuses, Finished, JobQueueAssumption
  <2>3. Moves(j, r)
    BY <2>1, <2>2, SettledMoves, Zenon
  <2> QED BY <1>2, <2>1, <2>3, OneRowMoves
<1> QED BY <1>1, <1>2 DEF Complete

\* fail_job, for good or with a retry.
LEMMA FailMoves ==
  ASSUME IInv, JobQueueAssumption, NEW w \in Workers, Fail(w)
  PROVE  RowsMove
<1> DEFINE j == worker[w].job
           r == [Unleased(row[j]) EXCEPT !.status = "failed", !.token = RequireToken]
<1>1. CASE UNCHANGED row
  BY <1>1, RowsStay
<1>2. CASE InCharge(w) /\ row' = [row EXCEPT ![j] = r]
  <2>1. j \in Jobs /\ row[j].status \notin Finished
    BY <1>2, InChargeProcesses DEF Fail
  <2>2. "failed" \in Statuses /\ RequireToken \in BOOLEAN
    BY DEF Statuses, Finished, JobQueueAssumption
  <2>3. Moves(j, r)
    BY <2>1, <2>2, SettledMoves, Zenon
  <2> QED BY <1>2, <2>1, <2>3, OneRowMoves
<1>3. ASSUME NEW c \in Codes, InCharge(w), RetriesLeft(j), row' = [row EXCEPT ![j] = Retried(@, c)]
      PROVE  RowsMove
  <2>1. j \in Jobs /\ row[j].status \notin Finished /\ row[j] \in Rows
    BY <1>3, InChargeProcesses DEF Fail
  <2>2. /\ Retried(row[j], c) \in Rows /\ Retried(row[j], c).status # "processing"
        /\ Retried(row[j], c).retry_count = row[j].retry_count + 1
    BY <2>1, RetriedRow
  <2>3. row[j].retry_count \in Nat /\ MaxRetries[j] \in Nat
    BY <2>1 DEF Rows, JobQueueAssumption
  <2>4. Retried(row[j], c).retry_count <= MaxRetries[j]
    BY <1>3, <2>2, <2>3 DEF RetriesLeft
  <2>5. Moves(j, Retried(row[j], c))
    BY <2>1, <2>2, <2>4, EndedRow, UnfinishedMoves
  <2> QED BY <1>3, <2>1, <2>5, OneRowMoves
<1> QED BY <1>1, <1>2, <1>3 DEF Fail

\* release_job, which gives the job back.
LEMMA ReleaseMoves ==
  ASSUME IInv, NEW w \in Workers, Release(w)
  PROVE  RowsMove
<1> DEFINE j == worker[w].job
           r == [Unleased(row[j]) EXCEPT !.status = "queued"]
<1>1. CASE UNCHANGED row
  BY <1>1, RowsStay
<1>2. CASE InCharge(w) /\ row' = [row EXCEPT ![j] = r]
  <2>1. j \in Jobs /\ row[j].status \notin Finished
    BY <1>2, InChargeProcesses DEF Release
  <2>2. "queued" \in Statuses /\ TRUE \in BOOLEAN
    BY DEF Statuses
  <2>3. Moves(j, r)
    BY <2>1, <2>2, SettledMoves, Zenon
  <2> QED BY <1>2, <2>1, <2>3, OneRowMoves
<1> QED BY <1>1, <1>2 DEF Release

-----------------------------------------------------------------------------
(* The steps of the API, cascades, operators and services. *)

\* cancel_job, at once or by request.
LEMMA CancelMoves ==
  ASSUME IInv, NEW j \in Jobs, NEW todo, CancelJob(j, todo)
  PROVE  RowsMove
<1>1. CASE UNCHANGED row
  BY <1>1, RowsStay
<1>2. CASE row[j].status \notin Finished /\ row' = [row EXCEPT ![j] = Cancelled(@)]
  <2>1. "queued" \in Statuses /\ TRUE \in BOOLEAN
    BY DEF Statuses
  <2>2. Moves(j, Cancelled(row[j]))
    BY <1>2, <2>1, SettledMoves, Zenon
  <2> QED BY <1>2, <2>2, OneRowMoves
<1> QED BY <1>1, <1>2 DEF CancelJob

\* finalize_cancelled.
LEMMA FinalizeMoves ==
  ASSUME IInv, NEW j \in Jobs, FinalizeCancelled(j)
  PROVE  RowsMove
<1>1. "queued" \in Statuses /\ TRUE \in BOOLEAN
  BY DEF Statuses
<1>2. Moves(j, Cancelled(row[j]))
  BY <1>1, SettledMoves, Zenon DEF FinalizeCancelled
<1> QED BY <1>2, OneRowMoves DEF FinalizeCancelled

\* The two steps that take a job out of an outcome.
LEMMA ReopenMoves ==
  ASSUME IInv, NEW j \in Jobs, RetryNow(j) \/ RequeueQuarantined(j)
  PROVE  RowsMove
<1>1. row[j] \in Rows /\ row[j].retry_count <= MaxRetries[j]
  BY DEF IInv, TypeOK, Good
<1>2. "queued" \in Statuses
  BY DEF Statuses
<1>3. CASE RetryNow(j)
  <2> DEFINE r == [row[j] EXCEPT !.status = "queued", !.due = TRUE]
  <2>1. r \in Rows /\ r.status = "queued" /\ r.retry_count = row[j].retry_count
    BY <1>1, <1>2 DEF Rows
  <2>2. row' = [row EXCEPT ![j] = r] /\ row[j].status = "failed"
    BY <1>3 DEF RetryNow, Reopen
  <2> HIDE DEF r
  <2>3. Moves(j, r)
    BY <1>1, <1>3, <2>1, <2>2, EndedRow DEF Moves
  <2> QED BY <2>2, <2>3, OneRowMoves
<1>4. CASE RequeueQuarantined(j)
  <2> DEFINE r == [row[j] EXCEPT !.status = "queued", !.due = TRUE, !.streak = 0, !.code = None]
  <2>1. r \in Rows /\ r.status = "queued" /\ r.retry_count = row[j].retry_count
    BY <1>1, <1>2 DEF Rows
  <2>2. row' = [row EXCEPT ![j] = r] /\ row[j].status = "quarantined"
    BY <1>4 DEF RequeueQuarantined, Reopen
  <2> HIDE DEF r
  <2>3. Moves(j, r)
    BY <1>1, <1>4, <2>1, <2>2, EndedRow DEF Moves
  <2> QED BY <2>2, <2>3, OneRowMoves
<1> QED BY <1>3, <1>4

\* apply_ttl_policies.
LEMMA TtlMoves ==
  ASSUME IInv, NEW S \in SUBSET Managed, NEW s \in {"cancelled", "failed"}, ApplyTtl(S, s)
  PROVE  RowsMove
<1>1. s \in Statuses /\ s # "processing" /\ TRUE \in BOOLEAN
  BY DEF Statuses, Finished
<1>2. ASSUME NEW j \in Jobs
      PROVE  row'[j] \in Rows /\ Moves(j, row'[j])
  <2>1. CASE j \notin S
    BY <2>1 DEF ApplyTtl, IInv, TypeOK, Moves
  <2>2. CASE j \in S
    <3>1. row'[j] = [Cancelled(row[j]) EXCEPT !.status = s] /\ row[j].status \notin Finished
      BY <2>2 DEF ApplyTtl
    <3>2. Moves(j, [Cancelled(row[j]) EXCEPT !.status = s])
      BY <1>1, <3>1, SettledMoves, Zenon
    <3> QED BY <3>1, <3>2 DEF Moves, Good
  <2> QED BY <2>1, <2>2
<1> QED BY <1>2 DEF RowsMove, ApplyTtl

\* The sweep that requeues expired jobs.
LEMMA SweepMoves ==
  ASSUME IInv, IntegritySweep
  PROVE  RowsMove
<1>1. "queued" \in Statuses /\ TRUE \in BOOLEAN /\ "queued" # "processing"
  BY DEF Statuses
<1>2. ASSUME NEW j \in Jobs
      PROVE  row'[j] \in Rows /\ Moves(j, row'[j])
  <2>1. CASE row'[j] = row[j]
    BY <2>1 DEF IInv, TypeOK, Moves
  <2>2. CASE row[j].status = "processing" /\ row'[j] = [Unleased(row[j]) EXCEPT !.status = "queued"]
    <3>1. row[j].status \notin Finished
      BY <2>2 DEF Finished
    <3>2. Moves(j, [Unleased(row[j]) EXCEPT !.status = "queued"])
      BY <1>1, <3>1, SettledMoves, Zenon
    <3> QED BY <2>2, <3>2 DEF Moves, Good
  <2> QED BY <2>1, <2>2 DEF IntegritySweep, Swept
<1> QED BY <1>2 DEF RowsMove, IntegritySweep

-----------------------------------------------------------------------------
(* Every step. *)

\* Every step moves every row in a way that Good and Moves allow.
LEMMA RowsAdvance ==
  ASSUME IInv, JobQueueAssumption, [Next]_vars
  PROVE  RowsMove
<1>1. CASE UNCHANGED vars
  BY <1>1, RowsStay DEF vars
<1>2. ASSUME NEW w \in Workers, WorkerStep(w) \/ Renew(w) \/ Release(w) \/ CancelRequested(w) \/ Crash(w)
      PROVE  RowsMove
  <2>1. CASE Select(w) \/ TakeMissed(w) \/ Reread(w) \/ StartHandler(w) \/ Crash(w)
    <3>1. UNCHANGED row
      BY <2>1, Zenon DEF Select, TakeMissed, Reread, StartHandler, Crash
    <3> QED BY <3>1, RowsStay
  <2>2. CASE CancelRequested(w)
    <3>1. worker[w].job \in Jobs
      BY <2>2 DEF CancelRequested, IInv, WorkersBusy
    <3> QED BY <2>2, <3>1, CancelMoves DEF CancelRequested
  <2> QED BY <1>2, <2>1, <2>2, TakeMoves, CompleteMoves, FailMoves, ReleaseMoves, RenewMoves DEF WorkerStep
<1>3. ASSUME NEW j \in Jobs, \/ Cancel(j) \/ RetryNow(j) \/ RequeueQuarantined(j)
                             \/ FinalizeCancelled(j) \/ Lapse(j) \/ ComesDue(j)
      PROVE  RowsMove
  BY <1>3, CancelMoves, ReopenMoves, FinalizeMoves, LapseMoves DEF Cancel
<1>4. ASSUME NEW S \in SUBSET Managed, NEW s \in {"cancelled", "failed"}, ApplyTtl(S, s)
      PROVE  RowsMove
  BY <1>4, TtlMoves
<1>5. CASE CascadeStep
  <2>1. ASSUME NEW d \in Jobs, LookUpDependents(d)
        PROVE  RowsMove
    BY <2>1, RowsStay DEF LookUpDependents
  <2>2. ASSUME NEW i \in cascade, CancelDependent(i)
        PROVE  RowsMove
    <3>1. i.job \in Jobs
      BY <2>2 DEF CancelDependent, IInv, TypeOK, Cascades
    <3> QED BY <2>2, <3>1, CancelMoves DEF CancelDependent
  <2> QED BY <1>5, <2>1, <2>2 DEF CascadeStep
<1>6. ASSUME NEW i \in cascade, CascadeLost(i)
      PROVE  RowsMove
  BY <1>6, RowsStay DEF CascadeLost
<1>7. CASE IntegritySweep
  BY <1>7, SweepMoves
<1>8. Managed \subseteq Jobs
  BY DEF JobQueueAssumption
<1> QED BY <1>1, <1>2, <1>3, <1>4, <1>5, <1>6, <1>7, <1>8 DEF Next

\* A loop keeps its job until it leaves it; it gets one by selecting it.
LEMMA LoopsAdvance ==
  ASSUME IInv, JobQueueAssumption, [Next]_vars
  PROVE  LoopsMove
<1>1. worker \in [Workers -> WorkerStates]
  BY DEF IInv, TypeOK, WorkerStates
<1>2. Idle \in WorkerStates /\ Idle.pc = "idle"
  BY DEF Idle, WorkerStates
<1>3. CASE UNCHANGED worker
  BY <1>1, <1>3 DEF LoopsMove, LoopMoves
<1>4. ASSUME NEW w \in Workers, NEW s, worker' = [worker EXCEPT ![w] = s],
             s \in WorkerStates,
             \/ s.pc = "idle"
             \/ s.job = worker[w].job /\ worker[w].pc # "idle"
             \/ s.job \in Jobs /\ Selectable(s.job)
      PROVE  LoopsMove
  <2>1. worker' \in [Workers -> WorkerStates] /\ worker'[w] = s
    BY <1>1, <1>4
  <2>2. LoopMoves(w)
    BY <1>4, <2>1 DEF LoopMoves
  <2>3. ASSUME NEW v \in Workers, v # w
        PROVE  LoopMoves(v)
    <3>1. worker'[v] = worker[v]
      BY <1>1, <1>4, <2>3
    <3> QED BY <1>1, <3>1 DEF LoopMoves
  <2> QED BY <2>1, <2>2, <2>3 DEF LoopsMove
<1>5. ASSUME NEW w \in Workers, Leave(w)
      PROVE  LoopsMove
  BY <1>2, <1>4, <1>5 DEF Leave
<1>6. ASSUME NEW w \in Workers, Select(w)
      PROVE  LoopsMove
  <2>1. PICK j \in Jobs : /\ Selectable(j)
                          /\ worker' = [worker EXCEPT ![w] = [Idle EXCEPT !.pc = "selected", !.job = j]]
    BY <1>6, Zenon DEF Select
  <2>2. /\ [Idle EXCEPT !.pc = "selected", !.job = j] \in WorkerStates
        /\ [Idle EXCEPT !.pc = "selected", !.job = j].job = j
    BY <1>2 DEF WorkerStates
  <2> QED BY <1>4, <2>1, <2>2
<1>7. ASSUME NEW w \in Workers, Take(w)
      PROVE  LoopsMove
  <2>1. PICK l \in LeaseIds : worker' = [worker EXCEPT ![w] = [@ EXCEPT !.pc = "taken", !.lease = l]]
    <3>1. PICK l \in FreshLeaseIds : l = CHOOSE x \in FreshLeaseIds : TRUE
      BY <1>7 DEF Take
    <3> QED BY <1>7, <3>1, Zenon DEF Take, FreshLeaseIds
  <2>2. worker[w] \in WorkerStates /\ worker[w].pc = "selected"
    BY <1>1, <1>7 DEF Take
  <2>3. /\ [worker[w] EXCEPT !.pc = "taken", !.lease = l] \in WorkerStates
        /\ [worker[w] EXCEPT !.pc = "taken", !.lease = l].job = worker[w].job
    BY <2>2 DEF WorkerStates
  <2> QED BY <1>4, <2>1, <2>2, <2>3
<1>8. ASSUME NEW w \in Workers, Reread(w)
      PROVE  LoopsMove
  <2>1. worker[w] \in WorkerStates /\ worker[w].pc = "taken" /\ worker[w].job \in Jobs
    BY <1>1, <1>8 DEF Reread, IInv, WorkersBusy
  <2>2. PICK l \in LeaseIds \union {None} : l = row[worker[w].job].lease
    BY <2>1 DEF IInv, TypeOK, Rows
  <2>3. worker' = [worker EXCEPT ![w] = [worker[w] EXCEPT !.pc = "given", !.lease = l]]
    BY <1>8, <2>2, Zenon DEF Reread
  <2>4. /\ [worker[w] EXCEPT !.pc = "given", !.lease = l] \in WorkerStates
        /\ [worker[w] EXCEPT !.pc = "given", !.lease = l].job = worker[w].job
    BY <2>1, <2>2 DEF WorkerStates
  <2> QED BY <1>4, <2>1, <2>3, <2>4
<1>9. ASSUME NEW w \in Workers, StartHandler(w)
      PROVE  LoopsMove
  <2>1. worker[w] \in WorkerStates /\ worker[w].pc = "given"
    BY <1>1, <1>9 DEF StartHandler
  <2>2. worker' = [worker EXCEPT ![w] = [worker[w] EXCEPT !.pc = "handling"]]
    BY <1>1, <1>9 DEF StartHandler
  <2>3. /\ [worker[w] EXCEPT !.pc = "handling"] \in WorkerStates
        /\ [worker[w] EXCEPT !.pc = "handling"].job = worker[w].job
    BY <2>1 DEF WorkerStates
  <2> QED BY <1>4, <2>1, <2>2, <2>3
<1>10. ASSUME NEW w \in Workers,
              WorkerStep(w) \/ Renew(w) \/ Release(w) \/ CancelRequested(w) \/ Crash(w)
       PROVE  LoopsMove
  <2>1. CASE Complete(w) \/ Fail(w) \/ Release(w) \/ CancelRequested(w) \/ Crash(w) \/ TakeMissed(w)
    <3>1. Leave(w)
      BY <2>1, Zenon DEF Complete, Fail, Release, CancelRequested, Crash, TakeMissed, Leave
    <3> QED BY <1>5, <3>1
  <2>2. CASE Renew(w)
    BY <1>3, <2>2 DEF Renew
  <2> QED BY <1>6, <1>7, <1>8, <1>9, <1>10, <2>1, <2>2 DEF WorkerStep
<1>11. CASE /\ \A w \in Workers : ~(WorkerStep(w) \/ Renew(w) \/ Release(w) \/ CancelRequested(w) \/ Crash(w))
            /\ Next
  <2>1. UNCHANGED worker
    BY <1>11, Zenon DEF Next, Cancel, RetryNow, RequeueQuarantined, Reopen, FinalizeCancelled, Lapse, ComesDue,
              ApplyTtl, CascadeStep, LookUpDependents, CancelDependent, CascadeLost, IntegritySweep
  <2> QED BY <1>3, <2>1
<1> QED BY <1>3, <1>10, <1>11 DEF vars

\* What is left of cascades, and what was lost.
LEMMA CascadesAdvance ==
  ASSUME IInv, JobQueueAssumption, [Next]_vars
  PROVE  cascade' \subseteq Cascades /\ lost' \subseteq Jobs \X Jobs
<1>1. cascade \subseteq Cascades /\ lost \subseteq Jobs \X Jobs /\ Managed \subseteq Jobs
  BY DEF IInv, TypeOK, JobQueueAssumption
<1>2. \A j \in Jobs : \A s : CascadeOf(j, s) \subseteq Cascades
  BY DEF CascadeOf, Cascades
<1>3. ASSUME NEW j \in Jobs, NEW todo, CancelJob(j, todo), todo \subseteq cascade
      PROVE  cascade' \subseteq Cascades
  BY <1>1, <1>2, <1>3 DEF CancelJob
<1>4. CASE UNCHANGED <<cascade, lost>>
  BY <1>1, <1>4
<1>5. ASSUME NEW w \in Workers,
             WorkerStep(w) \/ Renew(w) \/ Release(w) \/ CancelRequested(w) \/ Crash(w)
      PROVE  cascade' \subseteq Cascades /\ lost' \subseteq Jobs \X Jobs
  <2>1. CASE Fail(w)
    <3>1. worker[w].job \in Jobs
      BY <2>1 DEF Fail, IInv, WorkersBusy
    <3>2. cascade' = cascade \/ \E s : cascade' = cascade \union CascadeOf(worker[w].job, s)
      BY <2>1, Zenon DEF Fail
    <3> QED BY <1>1, <1>2, <2>1, <3>1, <3>2 DEF Fail
  <2>2. CASE CancelRequested(w)
    <3>1. worker[w].job \in Jobs
      BY <2>2 DEF CancelRequested, IInv, WorkersBusy
    <3> QED BY <1>1, <1>3, <2>2, <3>1 DEF CancelRequested
  <2>3. CASE ~Fail(w) /\ ~CancelRequested(w)
    <3>1. UNCHANGED <<cascade, lost>>
      BY <1>5, <2>3, Zenon DEF WorkerStep, Select, Take, TakeMissed, Reread, StartHandler, Complete,
                               Renew, Release, Crash
    <3> QED BY <1>4, <3>1
  <2> QED BY <2>1, <2>2, <2>3
<1>6. ASSUME NEW j \in Jobs, Cancel(j)
      PROVE  cascade' \subseteq Cascades /\ lost' \subseteq Jobs \X Jobs
  BY <1>1, <1>3, <1>6 DEF Cancel
<1>7. ASSUME NEW j \in Jobs, RetryNow(j) \/ RequeueQuarantined(j)
      PROVE  cascade' \subseteq Cascades /\ lost' \subseteq Jobs \X Jobs
  <2>1. DependsOn[j] \subseteq Jobs
    BY DEF JobQueueAssumption
  <2>2. UNCHANGED cascade /\ lost' = (lost \ ({j} \X Jobs)) \union ({d \in DependsOn[j] : Bad(d)} \X {j})
    BY <1>7, Zenon DEF RetryNow, RequeueQuarantined, Reopen
  <2> QED BY <1>1, <2>1, <2>2
<1>8. ASSUME NEW j \in Jobs, FinalizeCancelled(j)
      PROVE  cascade' \subseteq Cascades /\ lost' \subseteq Jobs \X Jobs
  BY <1>1, <1>8 DEF FinalizeCancelled, Dependents
<1>9. ASSUME NEW S \in SUBSET Managed, NEW s, ApplyTtl(S, s)
      PROVE  cascade' \subseteq Cascades /\ lost' \subseteq Jobs \X Jobs
  BY <1>1, <1>9 DEF ApplyTtl
<1>10. ASSUME NEW d \in Jobs, LookUpDependents(d)
       PROVE  cascade' \subseteq Cascades /\ lost' \subseteq Jobs \X Jobs
  BY <1>1, <1>10 DEF LookUpDependents, Dependents, Cascades
<1>11. ASSUME NEW i \in cascade, CancelDependent(i) \/ CascadeLost(i)
       PROVE  cascade' \subseteq Cascades /\ lost' \subseteq Jobs \X Jobs
  <2>1. i.dep \in Jobs /\ i.job \in Jobs \union {None}
    BY <1>1 DEF Cascades
  <2>2. CASE CancelDependent(i)
    <3>1. i.job \in Jobs
      BY <2>1, <2>2 DEF CancelDependent
    <3> QED BY <1>1, <1>3, <2>2, <3>1 DEF CancelDependent
  <2>3. CASE CascadeLost(i)
    <3> DEFINE D == IF i.job = None THEN Dependents(i.dep) ELSE {i.job}
    <3>1. D \subseteq Jobs
      BY <2>1 DEF Dependents
    <3>2. cascade' \subseteq cascade /\ lost' = lost \union ({i.dep} \X D)
      BY <2>3 DEF CascadeLost
    <3> HIDE DEF D
    <3> QED BY <1>1, <2>1, <3>1, <3>2
  <2> QED BY <1>11, <2>2, <2>3
<1>12. CASE (\E j \in Jobs : Lapse(j) \/ ComesDue(j)) \/ IntegritySweep \/ UNCHANGED vars
  BY <1>4, <1>12 DEF Lapse, ComesDue, IntegritySweep, vars
<1> QED BY <1>1, <1>5, <1>6, <1>7, <1>8, <1>9, <1>10, <1>11, <1>12 DEF Next, CascadeStep

-----------------------------------------------------------------------------
(* The invariant, and what it gives. *)

\* The first state satisfies IInv.
LEMMA InitEstablishes ==
  ASSUME Init, JobQueueAssumption
  PROVE  IInv
<1> DEFINE r == [status |-> "queued", worker |-> None, lease |-> None, taken_by |-> None,
                 until |-> "null", retry_count |-> 0, streak |-> 0, code |-> None,
                 token |-> FALSE, due |-> TRUE]
<1>1. r \in Rows /\ r.retry_count = 0 /\ r.status = "queued"
  BY DEF Rows, Statuses
<1>2. \A j \in Jobs : row[j] = r
  BY DEF Init
<1>3. row \in [Jobs -> Rows]
  BY <1>1 DEF Init
<1>4. worker \in [Workers -> WorkerStates] /\ \A w \in Workers : worker[w].pc = "idle"
  BY DEF Init, Idle, WorkerStates
<1> HIDE DEF r
<1>5. \A j \in Jobs : Good(j, row[j])
  BY <1>1, <1>2 DEF Good, JobQueueAssumption
<1>6. TypeOK
  BY <1>3, <1>4, <1>5 DEF Init, TypeOK, Good, WorkerStates
<1>7. WorkersBusy /\ Started
  BY <1>1, <1>2, <1>4 DEF WorkersBusy, Started
<1> QED BY <1>5, <1>6, <1>7 DEF IInv

\* Every step keeps IInv.
LEMMA StepPreserves ==
  ASSUME IInv, JobQueueAssumption, [Next]_vars
  PROVE  IInv'
<1>1. RowsMove /\ LoopsMove /\ cascade' \subseteq Cascades /\ lost' \subseteq Jobs \X Jobs
  BY RowsAdvance, LoopsAdvance, CascadesAdvance
<1>2. \A j \in Jobs : Good(j, row'[j])
  BY <1>1 DEF RowsMove, Moves
<1>3. TypeOK'
  BY <1>1, <1>2 DEF TypeOK, RowsMove, LoopsMove, Good, WorkerStates, Cascades
<1>4. WorkersBusy'
  BY <1>1 DEF IInv, WorkersBusy, LoopsMove, LoopMoves
<1>5. \A d \in Jobs : row[d].status = "completed" => row'[d].status = "completed"
  BY <1>1 DEF RowsMove, Moves, Finished
<1>6. ASSUME NEW j \in Jobs, DepsCompleted(j)
      PROVE  DepsCompleted(j)'
  <2>1. DependsOn[j] \subseteq Jobs
    BY DEF JobQueueAssumption
  <2> QED BY <1>5, <1>6, <2>1 DEF DepsCompleted
<1>7. ASSUME NEW j \in Jobs, row'[j].status = "processing"
      PROVE  DepsCompleted(j)
  BY <1>1, <1>7 DEF RowsMove, Moves, IInv, Started
<1>8. ASSUME NEW w \in Workers, worker'[w].pc # "idle"
      PROVE  worker'[w].job \in Jobs /\ DepsCompleted(worker'[w].job)
  <2>1. CASE worker'[w].job = worker[w].job /\ worker[w].pc # "idle"
    BY <2>1 DEF IInv, WorkersBusy, Started
  <2>2. CASE worker'[w].job \in Jobs /\ Selectable(worker'[w].job)
    BY <2>2 DEF IInv, Started, Selectable, ExpiredLease
  <2> QED BY <1>1, <1>8, <2>1, <2>2 DEF LoopsMove, LoopMoves
<1>9. Started'
  BY <1>6, <1>7, <1>8 DEF Started
<1> QED BY <1>2, <1>3, <1>4, <1>9 DEF IInv

\* The inductive invariant.
THEOREM Inductive == Spec => []IInv
<1>1. Init => IInv
  BY InitEstablishes, JobQueueAssumption
<1>2. IInv /\ [Next]_vars => IInv'
  BY StepPreserves, JobQueueAssumption
<1> QED BY <1>1, <1>2, PTL DEF Spec

\* Rows, loops and cascades are what they are meant to be, and no operation
\* counts a retry beyond max_retries.
THEOREM SafeTypeOK == Spec => []TypeOK
<1>1. IInv => TypeOK
  BY DEF IInv
<1> QED BY <1>1, Inductive, PTL

\* For any dependencies: a handler runs only after those of its job have
\* completed, although acquire_next_job looks at them in its SELECT alone.
THEOREM SafeDependencies == Spec => []HandlerRunsAfterDependencies
<1>1. IInv => HandlerRunsAfterDependencies
  BY DEF IInv, Started, DepsCompleted, HandlerRunsAfterDependencies
<1> QED BY <1>1, Inductive, PTL

\* For any jobs and loops: a job ends once, unless an operator reopens it.
THEOREM SafeSettled == Spec => SettledIsFinal
<1> DEFINE A == \A j \in Jobs :
       row[j].status \in Finished /\ row'[j].status # row[j].status
         => \/ row[j].status = "failed" /\ RetryNow(j)
            \/ row[j].status = "quarantined" /\ RequeueQuarantined(j)
<1>1. IInv /\ [Next]_vars => [A]_vars
  BY RowsAdvance, JobQueueAssumption DEF RowsMove, Moves
<1> QED BY <1>1, Inductive, PTL DEF Spec, SettledIsFinal

\* If loops have worker_ids of their own, a loop settles, releases or renews
\* only a job that no other loop has acquired since.
THEOREM SafeHolder ==
  ASSUME \A v, w \in Workers : WorkerId[v] = WorkerId[w] => v = w
  PROVE  Spec => OnlyHolderSettles
<1> DEFINE A == \A w \in Workers :
       (Complete(w) \/ Fail(w) \/ Release(w) \/ Renew(w)) /\ row' # row
         => row[worker[w].job].taken_by = w
<1>1. ASSUME IInv, NEW w \in Workers, (Complete(w) \/ Fail(w) \/ Release(w) \/ Renew(w)) /\ row' # row
      PROVE  row[worker[w].job].taken_by = w
  <2>1. InCharge(w) /\ worker[w].pc # "idle"
    BY <1>1, Zenon DEF Complete, Fail, Release, Renew
  <2>2. worker[w].job \in Jobs
    BY <1>1, <2>1, InChargeProcesses
  <2>3. Good(worker[w].job, row[worker[w].job])
    BY <1>1, <2>2 DEF IInv
  <2> QED BY <2>1, <2>3 DEF InCharge, Good
<1>2. IInv /\ [Next]_vars => [A]_vars
  BY <1>1
<1> QED BY <1>2, Inductive, PTL DEF Spec, OnlyHolderSettles

-----------------------------------------------------------------------------
(* JobQueue implements LeasedJobs. *)

\* What a step makes of the jobs of S: rows of status s, their counts kept.
LeaveRows(S, s) ==
  /\ \A j \in S : row'[j].status = s
  /\ \A j \in Jobs \ S : row'[j] = row[j]

\* Rows that leave processing, or the queue, leave it in LeasedJobs.
LEMMA LeavingRows ==
  ASSUME NEW S \in SUBSET Jobs, NEW s, s # "processing", LeaveRows(S, s)
  PROVE  Leased!Leave(S, s)
<1>1. \A j \in Jobs : row'[j].status = IF j \in S THEN s ELSE row[j].status
  BY DEF LeaveRows
<1>2. \A j \in Jobs :
        (IF row'[j].status = "processing" THEN row'[j].taken_by ELSE None)
          = IF j \in S THEN None ELSE IF row[j].status = "processing" THEN row[j].taken_by ELSE None
  BY DEF LeaveRows
<1>3. \A j \in Jobs : ExpiredLease(j)' <=> j \notin S /\ ExpiredLease(j)
  BY DEF LeaveRows, ExpiredLease
<1> QED BY <1>1, <1>2, <1>3 DEF Leased!Leave

\* Who does not move keeps the job in hand; who leaves drops it.
LEMMA HandsStay ==
  ASSUME UNCHANGED worker
  PROVE  [w \in Workers |-> InHand(w)'] = [w \in Workers |-> InHand(w)]
<1>1. \A w \in Workers : InHand(w)' = InHand(w)
  BY DEF InHand
<1> QED BY <1>1

LEMMA HandDropped ==
  ASSUME IInv, NEW w \in Workers, Leave(w)
  PROVE  Leased!Drop(w)
<1>1. worker'[w].pc = "idle" /\ \A v \in Workers : v # w => worker'[v] = worker[v]
  BY DEF Leave, Idle, IInv, TypeOK
<1>2. \A v \in Workers : InHand(v)' = IF v = w THEN None ELSE InHand(v)
  BY <1>1 DEF InHand
<1>3. [v \in Workers |-> InHand(v)'] = [[v \in Workers |-> InHand(v)] EXCEPT ![w] = None]
  BY <1>2
<1> QED BY <1>3 DEF Leased!Drop

\* A step that changes neither status nor count, nor owner, nor what is left
\* of a lease, is none of the jobs in LeasedJobs.
SameRows == \A j \in Jobs : /\ row'[j].status = row[j].status
                            /\ row'[j].taken_by = row[j].taken_by
                            /\ row'[j].until = row[j].until
                            /\ row'[j].retry_count = row[j].retry_count

LEMMA SameViews ==
  ASSUME SameRows
  PROVE  /\ UNCHANGED worker => UNCHANGED Leased!vars
         /\ [w \in Workers |-> InHand(w)'] = [w \in Workers |-> InHand(w)] => UNCHANGED Leased!vars
         /\ \A w \in Workers : Leased!Drop(w) => Leased!Quit(w)
<1>1. {j \in Jobs : ExpiredLease(j)}' = {j \in Jobs : ExpiredLease(j)}
  BY DEF SameRows, ExpiredLease
<1>2. /\ [j \in Jobs |-> row'[j].status] = [j \in Jobs |-> row[j].status]
      /\ [j \in Jobs |-> IF row'[j].status = "processing" THEN row'[j].taken_by ELSE None]
           = [j \in Jobs |-> IF row[j].status = "processing" THEN row[j].taken_by ELSE None]
      /\ [j \in Jobs |-> row'[j].retry_count] = [j \in Jobs |-> row[j].retry_count]
  BY DEF SameRows
<1>3. [w \in Workers |-> InHand(w)'] = [w \in Workers |-> InHand(w)] => UNCHANGED Leased!vars
  BY <1>1, <1>2 DEF Leased!vars
<1>4. \A w \in Workers : Leased!Drop(w) => Leased!Quit(w)
  BY <1>1, <1>2 DEF Leased!Quit
<1> QED BY <1>3, <1>4, HandsStay

\* A loop in charge of a job is the owner.
LEMMA InChargeOwns ==
  ASSUME IInv, \A v, w \in Workers : WorkerId[v] = WorkerId[w] => v = w,
         NEW w \in Workers, worker[w].pc \in {"given", "handling"}, InCharge(w),
         NEW j \in Jobs, j = worker[w].job
  PROVE  Leased!Mine(j, w)
<1>1. Good(j, row[j])
  BY DEF IInv
<1>2. [k \in Jobs |-> IF row[k].status = "processing" THEN row[k].taken_by ELSE None][j] = w
  BY <1>1 DEF InCharge, Good
<1>3. [v \in Workers |-> InHand(v)][w] = j
  BY DEF InHand
<1> QED BY <1>2, <1>3 DEF Leased!Mine

\* The count of one row, or of none.
LEMMA OneRowCounts ==
  ASSUME IInv, NEW j \in Jobs, NEW r, row' = [row EXCEPT ![j] = r]
  PROVE  /\ row'[j] = r
         /\ \A k \in Jobs : k # j => row'[k] = row[k]
         /\ [k \in Jobs |-> row'[k].retry_count]
              = [[k \in Jobs |-> row[k].retry_count] EXCEPT ![j] = r.retry_count]
         /\ r.retry_count = row[j].retry_count
              => [k \in Jobs |-> row'[k].retry_count] = [k \in Jobs |-> row[k].retry_count]
<1>1. row'[j] = r /\ \A k \in Jobs : k # j => row'[k] = row[k]
  BY DEF IInv, TypeOK
<1>2. \A k \in Jobs : row'[k].retry_count = IF k = j THEN r.retry_count ELSE row[k].retry_count
  BY <1>1
<1>3. [k \in Jobs |-> row'[k].retry_count]
              = [[k \in Jobs |-> row[k].retry_count] EXCEPT ![j] = r.retry_count]
  BY <1>2
<1> QED BY <1>1, <1>2, <1>3

\* A row that leaves processing, or the queue.
LEMMA OneRowLeaves ==
  ASSUME IInv, NEW j \in Jobs, NEW r, row' = [row EXCEPT ![j] = r], r.status # "processing"
  PROVE  Leased!Leave({j}, r.status)
<1>1. row'[j] = r /\ \A k \in Jobs : k # j => row'[k] = row[k]
  BY OneRowCounts
<1>2. LeaveRows({j}, r.status)
  BY <1>1 DEF LeaveRows
<1> QED BY <1>2, LeavingRows

\* The row of a job that a loop has taken.
LEMMA TakenRow ==
  ASSUME IInv, JobQueueAssumption, NEW w \in Workers, NEW j \in Jobs, NEW r,
         row' = [row EXCEPT ![j] = r], r.status = "processing", r.until = "live", r.taken_by = w,
         r.retry_count = row[j].retry_count, Takable(j), DepsCompleted(j),
         [v \in Workers |-> InHand(v)][w] = None,
         [v \in Workers |-> InHand(v)'] = [[v \in Workers |-> InHand(v)] EXCEPT ![w] = j]
  PROVE  Leased!Take(j, w)
<1>1. /\ row'[j] = r /\ \A k \in Jobs : k # j => row'[k] = row[k]
      /\ [k \in Jobs |-> row'[k].retry_count] = [k \in Jobs |-> row[k].retry_count]
  BY OneRowCounts
<1>2. [k \in Jobs |-> row'[k].status] = [[k \in Jobs |-> row[k].status] EXCEPT ![j] = "processing"]
  <2>1. \A k \in Jobs : row'[k].status = IF k = j THEN "processing" ELSE row[k].status
    BY <1>1
  <2> QED BY <2>1
<1>3. [k \in Jobs |-> IF row'[k].status = "processing" THEN row'[k].taken_by ELSE None]
       = [[k \in Jobs |-> IF row[k].status = "processing" THEN row[k].taken_by ELSE None]
            EXCEPT ![j] = w]
  <2>1. \A k \in Jobs :
          (IF row'[k].status = "processing" THEN row'[k].taken_by ELSE None)
            = IF k = j THEN w ELSE IF row[k].status = "processing" THEN row[k].taken_by ELSE None
    BY <1>1
  <2> QED BY <2>1
<1>4. {k \in Jobs : ExpiredLease(k)'} = {k \in Jobs : ExpiredLease(k)} \ {j}
  BY <1>1 DEF ExpiredLease
<1>5. \/ [k \in Jobs |-> row[k].status][j] = "queued"
      \/ j \in {k \in Jobs : ExpiredLease(k)}
  BY DEF Takable
<1>6. \A d \in DependsOn[j] : [k \in Jobs |-> row[k].status][d] = "completed"
  BY DEF DepsCompleted, JobQueueAssumption
<1> QED BY <1>1, <1>2, <1>3, <1>4, <1>5, <1>6 DEF Leased!Take

\* acquire_next_job: an expired or queued job, its dependencies completed.
LEMMA TakeImplements ==
  ASSUME IInv, JobQueueAssumption, NEW w \in Workers, Take(w),
         NEW j \in Jobs, j = worker[w].job
  PROVE  Leased!Take(j, w)
<1>1. /\ worker[w].pc = "selected" /\ Takable(j) /\ FreshLeaseIds # {}
  BY DEF Take
<1>2. row[j] \in Rows /\ DepsCompleted(j)
  BY <1>1 DEF IInv, Started, Good
<1>3. PICK l \in LeaseIds : l = CHOOSE x \in FreshLeaseIds : TRUE
  BY <1>1 DEF FreshLeaseIds
<1> DEFINE r == [row[j] EXCEPT !.status = "processing", !.until = "live",
                               !.worker = WorkerId[w], !.lease = l, !.taken_by = w]
<1>4. row' = [row EXCEPT ![j] = r]
  BY <1>3 DEF Take
<1>5. /\ r.status = "processing" /\ r.retry_count = row[j].retry_count
      /\ r.until = "live" /\ r.taken_by = w
  BY <1>2 DEF Rows
<1>6. worker'[w].pc = "taken" /\ worker'[w].job = j /\ \A v \in Workers : v # w => worker'[v] = worker[v]
  BY DEF Take, IInv, TypeOK
<1>7. InHand(w) = None /\ \A v \in Workers : InHand(v)' = IF v = w THEN j ELSE InHand(v)
  BY <1>1, <1>6 DEF InHand
<1>8. /\ [v \in Workers |-> InHand(v)][w] = None
      /\ [v \in Workers |-> InHand(v)'] = [[v \in Workers |-> InHand(v)] EXCEPT ![w] = j]
  BY <1>7
<1> HIDE DEF r
<1> QED BY <1>1, <1>2, <1>4, <1>5, <1>8, TakenRow

\* Time passes: a lease lapses, or a retry comes due.
LEMMA TimeImplements ==
  ASSUME IInv, NEW j \in Jobs
  PROVE  /\ Lapse(j) => Leased!Lapse(j)
         /\ ComesDue(j) => UNCHANGED Leased!vars
<1>1. row[j] \in Rows
  BY DEF IInv, TypeOK
<1>2. ASSUME ComesDue(j)
      PROVE  UNCHANGED Leased!vars
  <2> DEFINE r == [row[j] EXCEPT !.due = TRUE]
  <2>1. row' = [row EXCEPT ![j] = r]
    BY <1>2 DEF ComesDue
  <2>2. /\ r.status = row[j].status /\ r.retry_count = row[j].retry_count
        /\ r.until = row[j].until /\ r.taken_by = row[j].taken_by
    BY <1>1 DEF Rows
  <2> HIDE DEF r
  <2>3. row'[j] = r /\ \A k \in Jobs : k # j => row'[k] = row[k]
    BY <2>1, OneRowCounts
  <2>4. SameRows /\ UNCHANGED worker
    BY <1>2, <2>2, <2>3 DEF SameRows, ComesDue
  <2> QED BY <2>4, SameViews
<1>3. ASSUME Lapse(j)
      PROVE  Leased!Lapse(j)
  <2> DEFINE r == [row[j] EXCEPT !.until = "over"]
  <2>1. row' = [row EXCEPT ![j] = r] /\ row[j].status = "processing"
    BY <1>3 DEF Lapse
  <2>2. /\ r.status = row[j].status /\ r.retry_count = row[j].retry_count
        /\ r.until = "over" /\ r.taken_by = row[j].taken_by
    BY <1>1 DEF Rows
  <2> HIDE DEF r
  <2>3. /\ row'[j] = r /\ \A k \in Jobs : k # j => row'[k] = row[k]
        /\ [k \in Jobs |-> row'[k].retry_count] = [k \in Jobs |-> row[k].retry_count]
    BY <2>1, <2>2, OneRowCounts
  <2>4. /\ \A k \in Jobs : row'[k].status = row[k].status /\ row'[k].taken_by = row[k].taken_by
    BY <2>2, <2>3
  <2>5. {k \in Jobs : ExpiredLease(k)'} = {k \in Jobs : ExpiredLease(k)} \union {j}
    BY <2>1, <2>2, <2>3 DEF ExpiredLease
  <2>6. [w \in Workers |-> InHand(w)'] = [w \in Workers |-> InHand(w)]
    BY <1>3, HandsStay DEF Lapse
  <2> QED BY <2>1, <2>3, <2>4, <2>5, <2>6 DEF Leased!Lapse
<1> QED BY <1>2, <1>3

\* The owner renews.
LEMMA RenewImplements ==
  ASSUME IInv, \A v, w \in Workers : WorkerId[v] = WorkerId[w] => v = w,
         NEW w \in Workers, Renew(w),
         NEW j \in Jobs, j = worker[w].job
  PROVE  Leased!Renew(j, w)
<1>1. j = worker[w].job
  OBVIOUS
<1>2. /\ j \in Jobs /\ row[j] \in Rows /\ row[j].status = "processing"
  BY <1>1, InChargeProcesses DEF Renew
<1> DEFINE r == [row[j] EXCEPT !.until = "live"]
<1>3. row' = [row EXCEPT ![j] = r]
  BY <1>1 DEF Renew
<1>4. /\ r.status = row[j].status /\ r.retry_count = row[j].retry_count
      /\ r.until = "live" /\ r.taken_by = row[j].taken_by
  BY <1>2 DEF Rows
<1> HIDE DEF r
<1>5. /\ row'[j] = r /\ \A k \in Jobs : k # j => row'[k] = row[k]
      /\ [k \in Jobs |-> row'[k].retry_count] = [k \in Jobs |-> row[k].retry_count]
  BY <1>2, <1>3, <1>4, OneRowCounts
<1>6. /\ \A k \in Jobs : row'[k].status = row[k].status /\ row'[k].taken_by = row[k].taken_by
  BY <1>4, <1>5
<1>7. {k \in Jobs : ExpiredLease(k)'} = {k \in Jobs : ExpiredLease(k)} \ {j}
  BY <1>4, <1>5 DEF ExpiredLease
<1>8. Leased!Mine(j, w)
  BY <1>1, InChargeOwns DEF Renew
<1>9. [v \in Workers |-> InHand(v)'] = [v \in Workers |-> InHand(v)]
  BY HandsStay DEF Renew
<1> QED BY <1>5, <1>6, <1>7, <1>8, <1>9 DEF Leased!Renew

\* The owner completes, fails or releases its job; the count stays.
LEMMA SettledImplements ==
  ASSUME IInv, NEW j \in Jobs, NEW s \in Statuses, s # "processing", NEW t \in BOOLEAN,
         \/ row' = [row EXCEPT ![j] = [Unleased(row[j]) EXCEPT !.status = s]]
         \/ row' = [row EXCEPT ![j] = [Unleased(row[j]) EXCEPT !.status = s, !.token = t]]
  PROVE  /\ Leased!Leave({j}, s)
         /\ [k \in Jobs |-> row'[k].retry_count] = [k \in Jobs |-> row[k].retry_count]
<1>1. row[j] \in Rows
  BY DEF IInv, TypeOK
<1> DEFINE u == Unleased(row[j])
<1>2. u \in Rows /\ u.retry_count = row[j].retry_count
  BY <1>1, UnleasedRow
<1> HIDE DEF u
<1>3. ASSUME NEW r \in {[u EXCEPT !.status = s], [u EXCEPT !.status = s, !.token = t]},
             row' = [row EXCEPT ![j] = r]
      PROVE  /\ Leased!Leave({j}, s)
             /\ [k \in Jobs |-> row'[k].retry_count] = [k \in Jobs |-> row[k].retry_count]
  <2>1. r.status = s /\ r.retry_count = row[j].retry_count
    BY <1>2, <1>3 DEF Rows
  <2> QED BY <1>3, <2>1, OneRowLeaves, OneRowCounts
<1>4. \/ row' = [row EXCEPT ![j] = [u EXCEPT !.status = s]]
      \/ row' = [row EXCEPT ![j] = [u EXCEPT !.status = s, !.token = t]]
  BY DEF u
<1> QED BY <1>3, <1>4

\* complete_job.
LEMMA CompleteImplements ==
  ASSUME IInv, JobQueueAssumption, \A v, w \in Workers : WorkerId[v] = WorkerId[w] => v = w,
         NEW w \in Workers, Complete(w),
         NEW j \in Jobs, j = worker[w].job
  PROVE  Leased!Quit(w) \/ Leased!End(j, w, "completed")
<1>1. j = worker[w].job
  OBVIOUS
<1>0. Leave(w) /\ Leased!Drop(w)
  BY HandDropped, Zenon DEF Complete, Leave
<1>2. CASE UNCHANGED row
  BY <1>0, <1>2, SameViews DEF SameRows
<1>3. CASE InCharge(w) /\ row' = [row EXCEPT ![j] = [Unleased(row[j]) EXCEPT !.status = "completed",
                                                                           !.token = RequireToken]]
  <2>1. worker[w].pc # "idle" /\ j \in Jobs
    BY <1>1, <1>3, InChargeProcesses DEF Complete
  <2>2. "completed" \in Statuses /\ RequireToken \in BOOLEAN
    BY DEF Statuses, Finished, JobQueueAssumption
  <2>3. /\ Leased!Leave({j}, "completed")
        /\ [k \in Jobs |-> row'[k].retry_count] = [k \in Jobs |-> row[k].retry_count]
    BY <1>3, <2>1, <2>2, SettledImplements
  <2>4. Leased!Mine(j, w)
    BY <1>1, <1>3, InChargeOwns DEF Complete
  <2> QED BY <1>0, <2>3, <2>4 DEF Leased!End
<1> QED BY <1>1, <1>2, <1>3 DEF Complete

\* release_job.
LEMMA ReleaseImplements ==
  ASSUME IInv, JobQueueAssumption, \A v, w \in Workers : WorkerId[v] = WorkerId[w] => v = w,
         NEW w \in Workers, Release(w),
         NEW j \in Jobs, j = worker[w].job
  PROVE  Leased!Quit(w) \/ Leased!Release(j, w)
<1>1. j = worker[w].job
  OBVIOUS
<1>0. Leave(w) /\ Leased!Drop(w)
  BY HandDropped, Zenon DEF Release, Leave
<1>2. CASE UNCHANGED row
  BY <1>0, <1>2, SameViews DEF SameRows
<1>3. CASE InCharge(w) /\ row' = [row EXCEPT ![j] = [Unleased(row[j]) EXCEPT !.status = "queued"]]
  <2>1. worker[w].pc # "idle" /\ j \in Jobs
    BY <1>1, <1>3, InChargeProcesses DEF Release
  <2>2. "queued" \in Statuses /\ TRUE \in BOOLEAN
    BY DEF Statuses
  <2>3. /\ Leased!Leave({j}, "queued")
        /\ [k \in Jobs |-> row'[k].retry_count] = [k \in Jobs |-> row[k].retry_count]
    BY <1>3, <2>1, <2>2, SettledImplements
  <2>4. Leased!Mine(j, w)
    BY <1>1, <1>3, InChargeOwns DEF Release
  <2> QED BY <1>0, <2>3, <2>4 DEF Leased!Release
<1> QED BY <1>1, <1>2, <1>3 DEF Release

\* fail_job: a retry that is left, or the end.
LEMMA FailImplements ==
  ASSUME IInv, JobQueueAssumption, \A v, w \in Workers : WorkerId[v] = WorkerId[w] => v = w,
         NEW w \in Workers, Fail(w),
         NEW j \in Jobs, j = worker[w].job
  PROVE  \/ Leased!Quit(w)
         \/ Leased!End(j, w, "failed")
         \/ \E s \in {"queued", "quarantined"} : Leased!Retry(j, w, s)
<1>1. j = worker[w].job
  OBVIOUS
<1>0. Leave(w) /\ Leased!Drop(w)
  BY HandDropped, Zenon DEF Fail, Leave
<1>2. CASE UNCHANGED row
  BY <1>0, <1>2, SameViews DEF SameRows
<1>3. ASSUME InCharge(w)
      PROVE  row[j] \in Rows /\ Leased!Mine(j, w)
  BY <1>1, <1>3, InChargeOwns DEF Fail, IInv, TypeOK
<1>4. CASE InCharge(w) /\ row' = [row EXCEPT ![j] = [Unleased(row[j]) EXCEPT !.status = "failed",
                                                                           !.token = RequireToken]]
  <2>1. "failed" \in Statuses /\ RequireToken \in BOOLEAN
    BY DEF Statuses, Finished, JobQueueAssumption
  <2>2. /\ Leased!Leave({j}, "failed")
        /\ [k \in Jobs |-> row'[k].retry_count] = [k \in Jobs |-> row[k].retry_count]
    BY <1>3, <1>4, <2>1, SettledImplements
  <2> QED BY <1>0, <1>3, <1>4, <2>2 DEF Leased!End
<1>5. ASSUME NEW c \in Codes, InCharge(w), RetriesLeft(j), row' = [row EXCEPT ![j] = Retried(row[j], c)]
      PROVE  \E s \in {"queued", "quarantined"} : Leased!Retry(j, w, s)
  <2>0. PICK r : r = Retried(row[j], c)
    OBVIOUS
  <2>1. /\ r.status \in {"queued", "quarantined"} /\ r.retry_count = row[j].retry_count + 1
    BY <1>3, <1>5, <2>0, RetriedRow
  <2>2. row' = [row EXCEPT ![j] = r]
    BY <1>5, <2>0
  <2>3. r.status # "processing" /\ j \in Jobs
    BY <1>3, <1>5, <2>1
  <2>4. Leased!Leave({j}, r.status)
    BY <2>2, <2>3, OneRowLeaves
  <2>5. [k \in Jobs |-> row'[k].retry_count]
          = [[k \in Jobs |-> row[k].retry_count] EXCEPT ![j] = r.retry_count]
    BY <2>2, <2>3, OneRowCounts
  <2>6. /\ [k \in Jobs |-> row[k].retry_count][j] < MaxRetries[j]
        /\ [k \in Jobs |-> row[k].retry_count][j] + 1 = r.retry_count
    BY <1>5, <2>1, <2>3 DEF RetriesLeft
  <2>7. [k \in Jobs |-> row'[k].retry_count]
          = [[k \in Jobs |-> row[k].retry_count] EXCEPT ![j] = @ + 1]
    BY <2>5, <2>6
  <2>8. Leased!Retry(j, w, r.status)
    BY <1>0, <1>3, <1>5, <2>1, <2>4, <2>6, <2>7 DEF Leased!Retry
  <2> QED BY <2>1, <2>8
<1>6. \/ UNCHANGED row
      \/ InCharge(w) /\ row' = [row EXCEPT ![j] = [Unleased(row[j]) EXCEPT !.status = "failed",
                                                                           !.token = RequireToken]]
      \/ \E c \in Codes : InCharge(w) /\ RetriesLeft(j) /\ row' = [row EXCEPT ![j] = Retried(row[j], c)]
  BY <1>1 DEF Fail
<1>7. CASE \E c \in Codes : InCharge(w) /\ RetriesLeft(j) /\ row' = [row EXCEPT ![j] = Retried(row[j], c)]
  BY <1>5, <1>7
<1> QED BY <1>2, <1>4, <1>6, <1>7, Zenon

\* A cancellation ends a job that has not ended.
LEMMA CancelledLeaves ==
  ASSUME IInv, NEW j \in Jobs, row[j].status \notin Finished, row' = [row EXCEPT ![j] = Cancelled(row[j])]
  PROVE  /\ Leased!Unfinished(j) /\ Leased!Leave({j}, "cancelled")
         /\ [k \in Jobs |-> row'[k].retry_count] = [k \in Jobs |-> row[k].retry_count]
<1>1. row[j] \in Rows
  BY DEF IInv, TypeOK
<1> DEFINE r == Cancelled(row[j])
<1>2. r.status = "cancelled" /\ r.retry_count = row[j].retry_count /\ row' = [row EXCEPT ![j] = r]
  BY <1>1, CancelledRow
<1> HIDE DEF r
<1>3. /\ Leased!Leave({j}, "cancelled")
      /\ [k \in Jobs |-> row'[k].retry_count] = [k \in Jobs |-> row[k].retry_count]
  BY <1>2, OneRowLeaves, OneRowCounts
<1>4. [k \in Jobs |-> row[k].status][j] \in {"queued", "processing"}
  BY <1>1 DEF Rows, Statuses
<1> QED BY <1>3, <1>4 DEF Leased!Unfinished

\* It stops the job, if nobody leaves it with that.
LEMMA CancelledStops ==
  ASSUME IInv, NEW j \in Jobs, row[j].status \notin Finished, row' = [row EXCEPT ![j] = Cancelled(row[j])],
         UNCHANGED worker
  PROVE  Leased!Stop({j}, "cancelled")
<1>1. /\ Leased!Unfinished(j) /\ Leased!Leave({j}, "cancelled")
      /\ [k \in Jobs |-> row'[k].retry_count] = [k \in Jobs |-> row[k].retry_count]
  BY CancelledLeaves
<1>2. [w \in Workers |-> InHand(w)'] = [w \in Workers |-> InHand(w)]
  BY HandsStay
<1> QED BY <1>1, <1>2 DEF Leased!Stop

\* cancel_job, which leaves a job alone that has ended.
LEMMA CancelImplements ==
  ASSUME IInv, NEW j \in Jobs, NEW todo, CancelJob(j, todo), UNCHANGED worker
  PROVE  UNCHANGED Leased!vars \/ Leased!Stop({j}, "cancelled")
<1>1. CASE UNCHANGED row
  BY <1>1, SameViews DEF SameRows
<1>2. CASE row[j].status \notin Finished /\ row' = [row EXCEPT ![j] = Cancelled(row[j])]
  BY <1>2, CancelledStops
<1> QED BY <1>1, <1>2 DEF CancelJob

\* cancel_job by a loop that leaves the job with that.
LEMMA RequestImplements ==
  ASSUME IInv, NEW w \in Workers, CancelRequested(w), NEW j \in Jobs, j = worker[w].job
  PROVE  Leased!Quit(w) \/ Leased!Abort(j, w)
<1>1. Leave(w) /\ Leased!Drop(w)
  BY HandDropped, Zenon DEF CancelRequested, Leave
<1>2. CASE UNCHANGED row
  BY <1>1, <1>2, SameViews DEF SameRows
<1>3. CASE row[j].status \notin Finished /\ row' = [row EXCEPT ![j] = Cancelled(row[j])]
  <2>1. /\ Leased!Unfinished(j) /\ Leased!Leave({j}, "cancelled")
        /\ [k \in Jobs |-> row'[k].retry_count] = [k \in Jobs |-> row[k].retry_count]
    BY <1>3, CancelledLeaves
  <2>2. [v \in Workers |-> InHand(v)][w] = j
    BY DEF CancelRequested, InHand
  <2> QED BY <1>1, <2>1, <2>2 DEF Leased!Abort
<1> QED BY <1>2, <1>3 DEF CancelRequested, CancelJob

\* apply_ttl_policies.
LEMMA TtlImplements ==
  ASSUME IInv, JobQueueAssumption, NEW S \in SUBSET Managed, NEW s \in {"cancelled", "failed"}, ApplyTtl(S, s)
  PROVE  Leased!Stop(S, s)
<1>1. row \in [Jobs -> Rows] /\ S \in SUBSET Jobs
  BY DEF IInv, TypeOK, JobQueueAssumption
<1>2. ASSUME NEW j \in S
      PROVE  /\ row'[j].status = s /\ row'[j].retry_count = row[j].retry_count
             /\ [k \in Jobs |-> row[k].status][j] \in {"queued", "processing"}
  <2>1. row[j] \in Rows /\ row[j].status \notin Finished /\ s \in Statuses
    BY <1>1 DEF ApplyTtl, Statuses, Finished
  <2>2. row'[j] = [Cancelled(row[j]) EXCEPT !.status = s]
    BY <1>1 DEF ApplyTtl
  <2>3. Cancelled(row[j]) \in Rows /\ Cancelled(row[j]).retry_count = row[j].retry_count
    BY <2>1, CancelledRow
  <2>4. row'[j].status = s /\ row'[j].retry_count = row[j].retry_count
    BY <2>1, <2>2, <2>3, StatusSet
  <2> QED BY <1>1, <2>1, <2>4 DEF Rows, Statuses
<1>3. \A j \in Jobs \ S : row'[j] = row[j]
  BY DEF ApplyTtl
<1>4. Leased!Leave(S, s)
  BY <1>1, <1>2, <1>3, LeavingRows DEF LeaveRows
<1>5. [k \in Jobs |-> row'[k].retry_count] = [k \in Jobs |-> row[k].retry_count]
  BY <1>2, <1>3
<1>6. [w \in Workers |-> InHand(w)'] = [w \in Workers |-> InHand(w)]
  BY HandsStay DEF ApplyTtl
<1> QED BY <1>2, <1>4, <1>5, <1>6 DEF Leased!Stop, Leased!Unfinished

\* integrity_sweep takes back the jobs whose lease is over.
LEMMA SweepImplements ==
  ASSUME IInv, JobQueueAssumption, IntegritySweep,
         NEW S \in SUBSET Jobs, S = {j \in Managed : ExpiredLease(j)}
  PROVE  Leased!TakeBack(S)
<1>1. row \in [Jobs -> Rows] /\ Managed \subseteq Jobs
  BY DEF IInv, TypeOK, JobQueueAssumption
<1>2. S \subseteq {j \in Jobs : ExpiredLease(j)}
  BY <1>1
<1>3. ASSUME NEW j \in S
      PROVE  row'[j].status = "queued" /\ row'[j].retry_count = row[j].retry_count
  <2>1. row'[j] = [Unleased(row[j]) EXCEPT !.status = "queued"] /\ row[j] \in Rows
    BY <1>1 DEF IntegritySweep, Swept, ExpiredLease
  <2>2. Unleased(row[j]) \in Rows /\ Unleased(row[j]).retry_count = row[j].retry_count
    BY <2>1, UnleasedRow
  <2>3. "queued" \in Statuses
    BY DEF Statuses
  <2> QED BY <2>1, <2>2, <2>3, StatusSet
<1>4. \A j \in Jobs \ S : row'[j] = row[j]
  BY <1>1 DEF IntegritySweep, Swept, ExpiredLease
<1>5. Leased!Leave(S, "queued")
  BY <1>2, <1>3, <1>4, LeavingRows DEF LeaveRows
<1>6. [k \in Jobs |-> row'[k].retry_count] = [k \in Jobs |-> row[k].retry_count]
  BY <1>3, <1>4
<1>7. [w \in Workers |-> InHand(w)'] = [w \in Workers |-> InHand(w)]
  BY HandsStay DEF IntegritySweep
<1> QED BY <1>2, <1>5, <1>6, <1>7 DEF Leased!TakeBack

\* An operator reopens a job.
LEMMA ReopenImplements ==
  ASSUME IInv, NEW j \in Jobs, RetryNow(j) \/ RequeueQuarantined(j)
  PROVE  Leased!Reopen(j)
<1>1. row[j] \in Rows
  BY DEF IInv, TypeOK
<1>2. PICK r \in {[row[j] EXCEPT !.status = "queued", !.due = TRUE],
                  [row[j] EXCEPT !.status = "queued", !.due = TRUE, !.streak = 0, !.code = None]} :
        row' = [row EXCEPT ![j] = r]
  BY DEF RetryNow, RequeueQuarantined, Reopen
<1>3. r.status = "queued" /\ r.retry_count = row[j].retry_count
  BY <1>1, <1>2 DEF Rows
<1>4. /\ row'[j] = r /\ \A k \in Jobs : k # j => row'[k] = row[k]
      /\ [k \in Jobs |-> row'[k].retry_count] = [k \in Jobs |-> row[k].retry_count]
  BY <1>2, <1>3, OneRowCounts
<1>5. \/ row[j].status = "quarantined"
      \/ row[j].status = "failed" /\ row[j].retry_count < MaxRetries[j]
  BY DEF RetryNow, RequeueQuarantined, RetriesLeft
<1>6. [k \in Jobs |-> row'[k].status] = [[k \in Jobs |-> row[k].status] EXCEPT ![j] = "queued"]
  BY <1>3, <1>4
<1>7. [k \in Jobs |-> IF row'[k].status = "processing" THEN row'[k].taken_by ELSE None]
       = [k \in Jobs |-> IF row[k].status = "processing" THEN row[k].taken_by ELSE None]
  BY <1>3, <1>4, <1>5
<1>8. {k \in Jobs : ExpiredLease(k)'} = {k \in Jobs : ExpiredLease(k)}
  BY <1>3, <1>4, <1>5 DEF ExpiredLease
<1>9. [w \in Workers |-> InHand(w)'] = [w \in Workers |-> InHand(w)]
  BY HandsStay, Zenon DEF RetryNow, RequeueQuarantined, Reopen
<1> QED BY <1>4, <1>5, <1>6, <1>7, <1>8, <1>9 DEF Leased!Reopen

\* Selecting, reading again and starting the handler take nothing in hand.
LEMMA HandKept ==
  ASSUME IInv, NEW w \in Workers, Select(w) \/ TakeMissed(w) \/ Reread(w) \/ StartHandler(w),
         NEW v \in Workers
  PROVE  InHand(v)' = InHand(v)
<1>1. worker \in [Workers -> WorkerStates]
  BY DEF IInv, TypeOK, WorkerStates
<1>2. CASE v # w
  <2>1. worker'[v] = worker[v]
    BY <1>1, <1>2 DEF Select, TakeMissed, Reread, StartHandler, Leave
  <2> QED BY <2>1 DEF InHand
<1>3. CASE v = w /\ (Select(w) \/ TakeMissed(w))
  <2>1. worker[w].pc \in {"idle", "selected"}
    BY <1>3 DEF Select, TakeMissed
  <2>2. \A j : [Idle EXCEPT !.pc = "selected", !.job = j].pc = "selected" /\ Idle.pc = "idle"
    BY DEF Idle
  <2>3. \/ worker' = [worker EXCEPT ![w] = Idle]
        \/ \E j \in Jobs : worker' = [worker EXCEPT ![w] = [Idle EXCEPT !.pc = "selected", !.job = j]]
    BY <1>3, Zenon DEF Select, TakeMissed
  <2>4. worker'[w].pc \in {"idle", "selected"}
    BY <1>1, <2>2, <2>3
  <2> QED BY <1>3, <2>1, <2>4 DEF InHand
<1>4. CASE v = w /\ (Reread(w) \/ StartHandler(w))
  <2>1. worker[w].pc \in {"taken", "given"} /\ worker[w] \in WorkerStates
    BY <1>1, <1>4 DEF Reread, StartHandler
  <2>2. PICK l : l = row[worker[w].job].lease
    OBVIOUS
  <2>3. \/ worker' = [worker EXCEPT ![w] = [worker[w] EXCEPT !.pc = "given", !.lease = l]]
        \/ worker' = [worker EXCEPT ![w] = [worker[w] EXCEPT !.pc = "handling"]]
    BY <1>1, <1>4, <2>2 DEF Reread, StartHandler
  <2>4. PICK s \in {[worker[w] EXCEPT !.pc = "given", !.lease = l], [worker[w] EXCEPT !.pc = "handling"]} :
          worker' = [worker EXCEPT ![w] = s]
    BY <2>3
  <2>5. s.pc \in {"given", "handling"} /\ s.job = worker[w].job
    BY <2>1, <2>4 DEF WorkerStates
  <2>6. worker'[w] = s
    BY <1>1, <2>4
  <2> QED BY <1>4, <2>1, <2>5, <2>6 DEF InHand
<1> QED BY <1>2, <1>3, <1>4

\* A step of a loop.
LEMMA LoopImplements ==
  ASSUME IInv, JobQueueAssumption, \A v, w \in Workers : WorkerId[v] = WorkerId[w] => v = w,
         NEW w \in Workers, WorkerStep(w) \/ Renew(w) \/ Release(w) \/ CancelRequested(w) \/ Crash(w)
  PROVE  [Leased!Next]_(Leased!vars)
<1>1. worker[w].pc # "idle" => worker[w].job \in Jobs
  BY DEF IInv, WorkersBusy
<1>2. CASE Select(w) \/ TakeMissed(w) \/ Reread(w) \/ StartHandler(w)
  <2>1. UNCHANGED row
    BY <1>2, Zenon DEF Select, TakeMissed, Reread, StartHandler
  <2>2. \A v \in Workers : InHand(v)' = InHand(v)
    BY <1>2, HandKept
  <2>3. [v \in Workers |-> InHand(v)'] = [v \in Workers |-> InHand(v)]
    BY <2>2
  <2> QED BY <2>1, <2>3, SameViews DEF SameRows
<1>3. CASE Crash(w)
  <2>1. Leased!Drop(w) /\ UNCHANGED row
    BY <1>3, HandDropped DEF Crash
  <2>2. Leased!Quit(w)
    BY <2>1, SameViews DEF SameRows
  <2> QED BY <2>2 DEF Leased!Next
<1>4. CASE Take(w) \/ Renew(w) \/ Complete(w) \/ Fail(w) \/ Release(w) \/ CancelRequested(w)
  <2>1. PICK j \in Jobs : j = worker[w].job
    BY <1>1, <1>4, Zenon DEF Take, Renew, Complete, Fail, Release, CancelRequested
  <2>2. \/ Leased!Quit(w)
        \/ Leased!Take(j, w) \/ Leased!Renew(j, w) \/ Leased!Release(j, w) \/ Leased!Abort(j, w)
        \/ \E s \in {"completed", "failed", "queued", "quarantined"} :
             Leased!End(j, w, s) \/ Leased!Retry(j, w, s)
    BY <1>4, <2>1, TakeImplements, RenewImplements, CompleteImplements, FailImplements, ReleaseImplements,
       RequestImplements
  <2> QED BY <2>2 DEF Leased!Next
<1> QED BY <1>2, <1>3, <1>4 DEF WorkerStep

\* Every step of JobQueue is one of LeasedJobs, or none.
LEMMA StepImplements ==
  ASSUME IInv, JobQueueAssumption, \A v, w \in Workers : WorkerId[v] = WorkerId[w] => v = w,
         [Next]_vars
  PROVE  [Leased!Next]_(Leased!vars)
<1> DEFINE Goal == [Leased!Next]_(Leased!vars)
<1>1. Managed \subseteq Jobs
  BY DEF JobQueueAssumption
<1>2. ASSUME UNCHANGED <<row, worker>>
      PROVE  Goal
  BY <1>2, SameViews DEF SameRows
<1>3. ASSUME NEW j \in Jobs, NEW todo, CancelJob(j, todo), UNCHANGED worker
      PROVE  Goal
  <2>1. UNCHANGED Leased!vars \/ Leased!Stop({j}, "cancelled")
    BY <1>3, CancelImplements
  <2> QED BY <2>1 DEF Leased!Next
<1>4. ASSUME NEW j \in Jobs, Cancel(j)
       PROVE  Goal
  <2>1. (\E todo : CancelJob(j, todo)) /\ UNCHANGED worker
    BY <1>4 DEF Cancel
  <2> QED BY <1>3, <2>1
<1>5. ASSUME NEW w \in Workers, WorkerStep(w) \/ Renew(w) \/ Release(w) \/ CancelRequested(w) \/ Crash(w)
      PROVE  Goal
  BY <1>5, LoopImplements
<1>6. ASSUME NEW j \in Jobs, RetryNow(j) \/ RequeueQuarantined(j)
      PROVE  Goal
  BY <1>6, ReopenImplements DEF Leased!Next
<1>7. ASSUME NEW j \in Jobs, FinalizeCancelled(j)
      PROVE  Goal
  <2>1. Leased!Stop({j}, "cancelled")
    BY <1>7, CancelledStops DEF FinalizeCancelled
  <2> QED BY <2>1 DEF Leased!Next
<1>8. ASSUME NEW j \in Jobs, Lapse(j) \/ ComesDue(j)
      PROVE  Goal
  BY <1>8, TimeImplements DEF Leased!Next
<1>9. ASSUME NEW S \in SUBSET Managed, NEW s \in {"cancelled", "failed"}, ApplyTtl(S, s)
      PROVE  Goal
  <2>1. Leased!Stop(S, s) /\ S \in SUBSET Jobs
    BY <1>1, <1>9, TtlImplements
  <2> QED BY <2>1 DEF Leased!Next
<1>10. ASSUME NEW i \in cascade, CancelDependent(i)
      PROVE  Goal
  <2>1. PICK j \in Jobs : j = i.job
    BY <1>10 DEF CancelDependent, IInv, TypeOK, Cascades
  <2>2. (\E todo : CancelJob(j, todo)) /\ UNCHANGED worker
    BY <1>10, <2>1 DEF CancelDependent
  <2> QED BY <1>3, <2>2
<1>11. CASE IntegritySweep
  <2>1. PICK S \in SUBSET Jobs : S = {j \in Managed : ExpiredLease(j)}
    BY <1>1
  <2>2. Leased!TakeBack(S)
    BY <1>11, <2>1, SweepImplements
  <2> QED BY <2>2 DEF Leased!Next
<1>12. \/ UNCHANGED <<row, worker>>
       \/ \E w \in Workers : WorkerStep(w) \/ Renew(w) \/ Release(w) \/ CancelRequested(w) \/ Crash(w)
       \/ \E j \in Jobs : \/ Cancel(j) \/ RetryNow(j) \/ RequeueQuarantined(j)
                          \/ FinalizeCancelled(j) \/ Lapse(j) \/ ComesDue(j)
       \/ \E S \in SUBSET Managed, s \in {"cancelled", "failed"} : ApplyTtl(S, s)
       \/ \E i \in cascade : CancelDependent(i)
       \/ IntegritySweep
  <2>1. ASSUME (\E d \in Jobs : LookUpDependents(d)) \/ (\E i \in cascade : CascadeLost(i)) \/ UNCHANGED vars
        PROVE  UNCHANGED <<row, worker>>
    BY <2>1, Zenon DEF LookUpDependents, CascadeLost, vars
  <2> QED BY <1>1, <2>1 DEF Next, CascadeStep
<1>13. CASE \E w \in Workers : WorkerStep(w) \/ Renew(w) \/ Release(w) \/ CancelRequested(w) \/ Crash(w)
  BY <1>5, <1>13
<1>14. CASE \E j \in Jobs : \/ Cancel(j) \/ RetryNow(j) \/ RequeueQuarantined(j)
                          \/ FinalizeCancelled(j) \/ Lapse(j) \/ ComesDue(j)
  BY <1>4, <1>6, <1>7, <1>8, <1>14
<1>15. CASE \E S \in SUBSET Managed, s \in {"cancelled", "failed"} : ApplyTtl(S, s)
  BY <1>9, <1>15
<1>16. CASE \E i \in cascade : CancelDependent(i)
  BY <1>10, <1>16
<1> QED BY <1>2, <1>11, <1>12, <1>13, <1>14, <1>15, <1>16

\* If loops have worker_ids of their own, rows, leases, reread leases,
\* cascades and sweeps implement jobs with one owner each: only a lapsed lease
\* costs it the job, a cancellation or a time limit aside, and of those that
\* work on it it alone renews, ends or gives it back.
THEOREM QueueImplementsLeasedJobs ==
  ASSUME \A v, w \in Workers : WorkerId[v] = WorkerId[w] => v = w
  PROVE  Spec => ImplementsLeasedJobs
<1>1. Init => Leased!Init
  BY DEF Init, Leased!Init, ExpiredLease, InHand, Idle
<1>2. IInv /\ [Next]_vars => [Leased!Next]_(Leased!vars)
  BY StepImplements, JobQueueAssumption
<1> QED BY <1>1, <1>2, Inductive, PTL DEF Spec, ImplementsLeasedJobs, Leased!Spec

=============================================================================
