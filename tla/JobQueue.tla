------------------------------ MODULE JobQueue ------------------------------
(* The durable job queue of core/Jobs: JobManager's operations on table    *)
(* jobs (SQLite, lease enforcement on, the default) and the loop of        *)
(* WorkerSDK.  Every operation commits one guarded UPDATE, or two in one   *)
(* transaction; the reads before it decide only about early returns that   *)
(* the guard of the UPDATE repeats, so an operation is one step.           *)
(* acquire_next_job reads, writes and reads again, and is three.           *)
(*                                                                         *)
(* Dependencies are there before the workers start.  Priorities and the    *)
(* order of available_at are left open: any eligible job may be selected.  *)
EXTENDS Integers, FiniteSets

CONSTANTS
  Jobs,
  DependsOn,       \* job -> the jobs it depends on (job_dependencies)
  Workers,         \* running WorkerSDK loops, of any number of processes
  WorkerId,        \* worker -> its worker_id; loops may share one
  LeaseIds,
  Codes,           \* error codes
  MaxRetries,      \* job -> its max_retries
  Threshold,       \* JOBS_QUARANTINE_THRESHOLD
  RequireToken,    \* JOBS_REQUIRE_COMPLETION_TOKEN
  Environment,     \* subset of {"crash", "late"}
  Managed,         \* the jobs that API, operators and services interfere with
  None

ASSUME JobQueueAssumption ==
  /\ DependsOn \in [Jobs -> SUBSET Jobs]
  /\ None \notin Jobs \union Workers \union LeaseIds \union Codes \union {WorkerId[w] : w \in Workers}
  /\ MaxRetries \in [Jobs -> Nat] /\ Threshold \in Nat \ {0}
  /\ RequireToken \in BOOLEAN /\ Managed \subseteq Jobs

Finished == {"completed", "failed", "cancelled", "quarantined"}
Statuses == {"queued", "processing"} \union Finished

VARIABLES
  row,      \* table jobs
  worker,   \* worker -> where its loop stands, job and lease_id it was given
  cascade,  \* what is left to do in running _cancel_dependent_jobs calls
  lost      \* history: <<d, j>> such that nobody will cancel j because of d

vars == <<row, worker, cascade, lost>>

\* leased_until is in the future or over; due says whether available_at has
\* come.  Some operations leave the lease columns of a job that is no longer
\* processing as they are: nobody reads them before the next acquisition
\* overwrites them, so they are NULL here.  A completion_token is the lease
\* id of the run that ended, which no later run has: token says whether
\* there is one.  taken_by is history: the loop that acquired the job last.
Rows == [status : Statuses, worker : {WorkerId[w] : w \in Workers} \union {None},
         lease : LeaseIds \union {None}, taken_by : Workers \union {None},
         until : {"null", "live", "over"},
         retry_count : Nat, streak : Nat, code : Codes \union {None},
         token : BOOLEAN, due : BOOLEAN]

Unleased(r) == [r EXCEPT !.until = "null", !.worker = None, !.lease = None, !.taken_by = None]

Idle == [pc |-> "idle", job |-> None, lease |-> None]

\* A call of _cancel_dependent_jobs(dep) that has to read the dependents
\* (job = None), or a cancel_job(job) of one that has.
Cascades == [dep : Jobs, job : Jobs \union {None}]

Init ==
  /\ row = [j \in Jobs |-> [status |-> "queued", worker |-> None, lease |-> None, taken_by |-> None,
                            until |-> "null", retry_count |-> 0, streak |-> 0, code |-> None,
                            token |-> FALSE, due |-> TRUE]]
  /\ worker = [w \in Workers |-> Idle]
  /\ cascade = {}
  /\ lost = {}

-----------------------------------------------------------------------------
(* acquire_next_job *)

\* Mutant: a dependency that has ended is enough.
DepsFinished(j) == \A d \in DependsOn[j] : row[d].status \in Finished

DepsCompleted(j) == \A d \in DependsOn[j] : row[d].status = "completed"

ExpiredLease(j) == row[j].status = "processing" /\ row[j].until # "live"

\* Mutant: expired leases are never reclaimed.
SelectableIfQueued(j) == row[j].status = "queued" /\ row[j].due /\ DepsCompleted(j)

\* The WHERE clause of the SELECT.
Selectable(j) == \/ row[j].status = "queued" /\ row[j].due /\ DepsCompleted(j)
                 \/ ExpiredLease(j)

Select(w) ==
  /\ worker[w].pc = "idle"
  /\ \E j \in Jobs : /\ Selectable(j)
                     /\ worker' = [worker EXCEPT ![w] = [Idle EXCEPT !.pc = "selected", !.job = j]]
  /\ UNCHANGED <<row, cascade, lost>>

\* uuids are fresh; one that nothing refers to any more is used anew.
UsedLeaseIds == {row[j].lease : j \in Jobs} \union {worker[w].lease : w \in Workers}

FreshLeaseIds == LeaseIds \ UsedLeaseIds

\* Mutant: UPDATE ... WHERE id = ?
TakableAlways(j) == TRUE

\* The WHERE clause of the UPDATE; it does not look at the dependencies or
\* at available_at again.
Takable(j) == row[j].status = "queued" \/ ExpiredLease(j)

Take(w) ==
  LET j == worker[w].job IN
  /\ worker[w].pc = "selected"
  /\ Takable(j)
  /\ FreshLeaseIds # {}
  /\ LET l == CHOOSE x \in FreshLeaseIds : TRUE IN
       /\ row' = [row EXCEPT ![j] = [@ EXCEPT !.status = "processing", !.until = "live",
                                              !.worker = WorkerId[w], !.lease = l, !.taken_by = w]]
       /\ worker' = [worker EXCEPT ![w] = [@ EXCEPT !.pc = "taken", !.lease = l]]
  /\ UNCHANGED <<cascade, lost>>

\* No row changed: select again, or give up after three times.
TakeMissed(w) ==
  /\ worker[w].pc = "selected"
  /\ ~Takable(worker[w].job)
  /\ worker' = [worker EXCEPT ![w] = Idle]
  /\ UNCHANGED <<row, cascade, lost>>

\* SELECT * after the commit: the worker is given what the row says now.
Reread(w) ==
  /\ worker[w].pc = "taken"
  /\ worker' = [worker EXCEPT ![w] = [@ EXCEPT !.pc = "given", !.lease = row[worker[w].job].lease]]
  /\ UNCHANGED <<row, cascade, lost>>

-----------------------------------------------------------------------------
(* The run of a job. *)

\* acquire_guard and cancel_check have passed.
StartHandler(w) ==
  /\ worker[w].pc = "given"
  /\ worker' = [worker EXCEPT ![w].pc = "handling"]
  /\ UNCHANGED <<row, cascade, lost>>

\* Mutant: the lease_id alone.
InChargeByLease(w) == LET j == worker[w].job IN
                        row[j].status = "processing" /\ row[j].lease = worker[w].lease

\* WHERE status = 'processing' AND worker_id = ? AND lease_id = ?
InCharge(w) == LET j == worker[w].job IN
  /\ row[j].status = "processing"
  /\ row[j].worker = WorkerId[w]
  /\ row[j].lease = worker[w].lease

\* renew_job_lease: the lease may be over, as long as nobody took the job.
Renew(w) ==
  /\ worker[w].pc = "handling"
  /\ InCharge(w)
  /\ row' = [row EXCEPT ![worker[w].job].until = "live"]
  /\ UNCHANGED <<worker, cascade, lost>>

\* completion_token IS NULL OR completion_token = ?
Untokened(w) == ~row[worker[w].job].token

Leave(w) == worker' = [worker EXCEPT ![w] = Idle]

\* complete_job; what it answers is only logged.
Complete(w) ==
  LET j == worker[w].job IN
  /\ worker[w].pc = "handling"
  /\ row' = IF InCharge(w) /\ Untokened(w)
            THEN [row EXCEPT ![j] = [Unleased(@) EXCEPT !.status = "completed", !.token = RequireToken]]
            ELSE row
  /\ Leave(w)
  /\ UNCHANGED <<cascade, lost>>

\* Mutants: one retry too many; the dependents of a quarantined job wait on.
RetriesLeftOrEqual(j) == row[j].retry_count <= MaxRetries[j]
EndsDependentsIfFailed(s) == s = "failed"

RetriesLeft(j) == row[j].retry_count < MaxRetries[j]

\* The outcomes after which _cancel_dependent_jobs is called.
EndsDependents(s) == s \in {"failed", "quarantined", "cancelled"}

CascadeOf(j, s) == IF EndsDependents(s) THEN {[dep |-> j, job |-> None]} ELSE {}

\* fail_job, retryable: the row as the first UPDATE leaves it.  The count
\* of the streak is compared before the code is.
Retried(r, c) ==
  [Unleased(r) EXCEPT
            !.status = IF r.streak + 1 >= Threshold THEN "quarantined" ELSE "queued",
            !.due = IF r.streak + 1 >= Threshold THEN r.due ELSE FALSE,
            !.retry_count = @ + 1,
            !.streak = IF r.code = c THEN @ + 1 ELSE 1,
            !.code = c]

\* fail_job: the retry, or else the terminal failure, or nothing.
Fail(w) ==
  LET j == worker[w].job IN
  /\ worker[w].pc = "handling"
  /\ \E c \in Codes, retryable \in BOOLEAN :
       \/ /\ retryable /\ InCharge(w) /\ RetriesLeft(j)
          /\ row' = [row EXCEPT ![j] = Retried(@, c)]
       \/ /\ ~(retryable /\ RetriesLeft(j)) /\ InCharge(w) /\ Untokened(w)
          /\ row' = [row EXCEPT ![j] = [Unleased(@) EXCEPT !.status = "failed", !.token = RequireToken]]
       \/ /\ \/ ~InCharge(w)
             \/ ~(retryable /\ RetriesLeft(j)) /\ ~Untokened(w)
          /\ UNCHANGED row
  /\ cascade' = IF row'[j] = row[j] THEN cascade ELSE cascade \union CascadeOf(j, row'[j].status)
  /\ Leave(w)
  /\ UNCHANGED lost

\* release_job: acquire_guard said no.
Release(w) ==
  LET j == worker[w].job IN
  /\ worker[w].pc = "given"
  /\ row' = IF InCharge(w)
            THEN [row EXCEPT ![j] = [Unleased(@) EXCEPT !.status = "queued"]]
            ELSE row
  /\ Leave(w)
  /\ UNCHANGED <<cascade, lost>>

\* The loop ends at any point: crash, stop, an exception that passes.
Crash(w) ==
  /\ "crash" \in Environment
  /\ worker[w].pc # "idle"
  /\ Leave(w)
  /\ UNCHANGED <<row, cascade, lost>>

-----------------------------------------------------------------------------
(* cancel_job and what follows from it. *)

\* Two UPDATEs of one transaction: a queued job, or else a processing one.
Cancelled(r) == [Unleased(r) EXCEPT !.status = "cancelled"]

\* cancel_job, and the cascade it starts in addition to todo.
CancelJob(j, todo) ==
  \/ /\ row[j].status \in Finished
     /\ cascade' = todo
     /\ UNCHANGED row
  \/ /\ row[j].status \notin Finished
     /\ row' = [row EXCEPT ![j] = Cancelled(@)]
     /\ cascade' = todo \union CascadeOf(j, "cancelled")

\* The API.
Cancel(j) ==
  /\ CancelJob(j, cascade)
  /\ UNCHANGED <<worker, lost>>

\* cancel_check of the worker.
CancelRequested(w) ==
  /\ worker[w].pc = "given"
  /\ CancelJob(worker[w].job, cascade)
  /\ Leave(w)
  /\ UNCHANGED lost

Dependents(d) == {j \in Jobs : d \in DependsOn[j]}

\* _cancel_dependent_jobs, its SELECT.
LookUpDependents(d) ==
  LET call == [dep |-> d, job |-> None] IN
  /\ call \in cascade
  /\ cascade' = (cascade \ {call}) \union
                {[dep |-> d, job |-> j] : j \in {k \in Dependents(d) : row[k].status \notin Finished}}
  /\ UNCHANGED <<row, worker, lost>>

\* _cancel_dependent_jobs, its loop.
CancelDependent(i) ==
  /\ i \in cascade /\ i.job # None
  /\ CancelJob(i.job, cascade \ {i})
  /\ UNCHANGED <<worker, lost>>

\* The caller dies, or its statement raises: the exception is suppressed.
CascadeLost(i) ==
  /\ "crash" \in Environment
  /\ i \in cascade
  /\ cascade' = cascade \ {i}
  /\ lost' = lost \union ({i.dep} \X IF i.job = None THEN Dependents(i.dep) ELSE {i.job})
  /\ UNCHANGED <<row, worker>>

-----------------------------------------------------------------------------
(* Operators and services. *)

Bad(d) == row[d].status \in Finished \ {"completed"}

\* Job j is queued again; what it depends on may have failed long ago.
Reopen(j, r) ==
  /\ row' = [row EXCEPT ![j] = r]
  /\ lost' = (lost \ ({j} \X Jobs)) \union ({d \in DependsOn[j] : Bad(d)} \X {j})
  /\ UNCHANGED <<worker, cascade>>

\* retry_now_jobs of one job: lease columns and token stay as they are.
RetryNow(j) ==
  /\ row[j].status = "failed" /\ RetriesLeft(j)
  /\ Reopen(j, [row[j] EXCEPT !.status = "queued", !.due = TRUE])

\* The admin endpoint that requeues quarantined jobs.
RequeueQuarantined(j) ==
  /\ row[j].status = "quarantined"
  /\ Reopen(j, [row[j] EXCEPT !.status = "queued", !.due = TRUE, !.streak = 0, !.code = None])

\* apply_ttl_policies ends jobs that have waited or run for too long.
ApplyTtl(S, s) ==
  /\ S # {} /\ \A j \in S : row[j].status \notin Finished
  /\ row' = [j \in Jobs |-> IF j \notin S THEN row[j]
                            ELSE [Cancelled(row[j]) EXCEPT !.status = s]]
  /\ lost' = lost \union {p \in S \X Jobs : p[1] \in DependsOn[p[2]]}
  /\ UNCHANGED <<worker, cascade>>

\* finalize_cancelled, of the workers that look for a request themselves.
FinalizeCancelled(j) ==
  /\ row[j].status \notin Finished
  /\ row' = [row EXCEPT ![j] = Cancelled(@)]
  /\ lost' = lost \union ({j} \X Dependents(j))
  /\ UNCHANGED <<worker, cascade>>

\* Mutant: every job in processing.
SweptAlways(r) == IF r.status = "processing" THEN [Unleased(r) EXCEPT !.status = "queued"] ELSE r

\* integrity_sweep with fix: jobs whose lease is over.
Swept(r) == IF r.status = "processing" /\ r.until # "live"
            THEN [Unleased(r) EXCEPT !.status = "queued"] ELSE r

IntegritySweep ==
  /\ row' = [j \in Jobs |-> IF j \in Managed THEN Swept(row[j]) ELSE row[j]]
  /\ UNCHANGED <<worker, cascade, lost>>

-----------------------------------------------------------------------------
(* Time. *)

Holds(w, j) == /\ worker[w].job = j /\ worker[w].pc # "selected"
               /\ worker[w].lease = row[j].lease /\ WorkerId[w] = row[j].worker

\* A lease is over: normally because its run is, with "late" also because
\* it is not renewed in time.
Lapse(j) ==
  /\ row[j].status = "processing" /\ row[j].until = "live"
  /\ \A w \in Workers : Holds(w, j) => "late" \in Environment
  /\ row' = [row EXCEPT ![j].until = "over"]
  /\ UNCHANGED <<worker, cascade, lost>>

ComesDue(j) ==
  /\ ~row[j].due
  /\ row' = [row EXCEPT ![j].due = TRUE]
  /\ UNCHANGED <<worker, cascade, lost>>

-----------------------------------------------------------------------------
WorkerStep(w) == \/ Select(w) \/ Take(w) \/ TakeMissed(w) \/ Reread(w)
                 \/ StartHandler(w) \/ Complete(w) \/ Fail(w)

CascadeStep == \/ \E d \in Jobs : LookUpDependents(d)
               \/ \E i \in cascade : CancelDependent(i)

Next == \/ \E w \in Workers : \/ WorkerStep(w) \/ Renew(w) \/ Release(w)
                              \/ CancelRequested(w) \/ Crash(w)
        \/ \E j \in Managed : \/ Cancel(j) \/ RetryNow(j) \/ RequeueQuarantined(j)
                              \/ FinalizeCancelled(j)
        \/ \E j \in Jobs : Lapse(j) \/ ComesDue(j)
        \/ \E S \in SUBSET Managed, s \in {"cancelled", "failed"} : ApplyTtl(S, s)
        \/ CascadeStep
        \/ \E i \in cascade : CascadeLost(i)
        \/ IntegritySweep

Spec == Init /\ [][Next]_vars

\* What goes on when nobody interferes.
Undisturbed == \/ \E w \in Workers : WorkerStep(w) \/ Renew(w)
               \/ \E j \in Jobs : /\ Lapse(j) \/ ComesDue(j)
                                  /\ \A w \in Workers : ~Holds(w, j)
               \/ CascadeStep

\* Loops poll, handlers end, threads that cancel dependents go on, time
\* passes; failures and operators come to rest some day.
Fairness == /\ \A w \in Workers : WF_vars(WorkerStep(w))
            /\ WF_vars(CascadeStep)
            /\ \A j \in Jobs : WF_vars(ComesDue(j)) /\ WF_vars(Lapse(j) /\ \A w \in Workers : ~Holds(w, j))
            /\ <>[][Undisturbed]_vars

FairSpec == Spec /\ Fairness

-----------------------------------------------------------------------------
(* Properties. *)

TypeOK ==
  /\ row \in [Jobs -> Rows]
  /\ \A j \in Jobs : row[j].retry_count <= MaxRetries[j]
  /\ worker \in [Workers -> [pc : {"idle", "selected", "taken", "given", "handling"},
                             job : Jobs \union {None}, lease : LeaseIds \union {None}]]
  /\ cascade \subseteq Cascades
  /\ lost \subseteq Jobs \X Jobs

\* A loop settles, releases or renews a job only if no other loop has
\* acquired it since, although leases lapse under running handlers and a
\* loop may be given, by the SELECT after its commit, the lease of the next.
OnlyHolderSettles ==
  [][\A w \in Workers :
       (Complete(w) \/ Fail(w) \/ Release(w) \/ Renew(w)) /\ row' # row
         => row[worker[w].job].taken_by = w]_vars

\* A job ends once: only an operator takes it out of 'failed' or
\* 'quarantined', nothing takes it out of 'completed' or 'cancelled', and
\* no late worker, cascade or sweep replaces one outcome by another.
SettledIsFinal ==
  [][\A j \in Jobs :
       row[j].status \in Finished /\ row'[j].status # row[j].status
         => \/ row[j].status = "failed" /\ RetryNow(j)
            \/ row[j].status = "quarantined" /\ RequeueQuarantined(j)]_vars

\* A handler runs after the dependencies of its job have completed, though
\* they are looked at in the SELECT only, and not at all for a reclaimed job.
HandlerRunsAfterDependencies ==
  \A w \in Workers : worker[w].pc = "handling" =>
    \A d \in DependsOn[worker[w].job] : row[d].status = "completed"

\* The job that a loop took and works on, whoever has it by now.
InHand(w) == IF worker[w].pc \in {"taken", "given", "handling"} THEN worker[w].job ELSE None

\* Rows, leases, loops that are given each other's leases, cascades and sweeps
\* implement jobs with one owner each, whom only a lapsed lease, a
\* cancellation or a time limit costs the job, and who alone among those
\* that work on it renews, ends or releases it: whatever crashes and lapses,
\* if loops have worker_ids of their own.
Leased == INSTANCE LeasedJobs WITH
  state  <- [j \in Jobs |-> row[j].status],
  owner  <- [j \in Jobs |-> IF row[j].status = "processing" THEN row[j].taken_by ELSE None],
  lapsed <- {j \in Jobs : ExpiredLease(j)},
  tries  <- [j \in Jobs |-> row[j].retry_count],
  hand   <- [w \in Workers |-> InHand(w)]

ImplementsLeasedJobs == Leased!Spec

\* Jobs that depend on one that failed, was quarantined or cancelled do not
\* wait for ever, unless the cascade was lost or never started.
DependentsEnd ==
  \A d, j \in Jobs :
    d \in DependsOn[j] /\ Bad(d) ~> ~Bad(d) \/ row[j].status \in Finished \/ <<d, j>> \in lost

\* A queued job whose dependencies have completed ends, whichever workers
\* die and whichever retries are delayed; the token of an earlier outcome
\* must not be in its way.
NoStaleToken == \A j \in Jobs : row[j].status \notin Finished => ~row[j].token

ReadyJobsEnd ==
  []NoStaleToken =>
    \A j \in Jobs : row[j].status = "queued" /\ DepsCompleted(j) ~> row[j].status \in Finished
=============================================================================
