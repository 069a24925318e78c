--------------------------- MODULE CircuitBreaker ---------------------------
(* One named breaker of core/Infrastructure/circuit_breaker.py in several  *)
(* processes: each keeps a copy under a lock of its own, and all of them   *)
(* share a row with a version and a table of probe leases                  *)
(* (DB_Management/Circuit_Breaker_Registry_DB.py).                         *)
(* Counter mode, a store that is always reachable and is read before every *)
(* operation (store_sync_interval 0, the registry's default).              *)
(*                                                                         *)
(* The row is never deleted, so versions only grow and all that matters of *)
(* a version is whether it is the row's: synced.  Whether the recovery     *)
(* timeout has elapsed is left open.  A step is one access to the store    *)
(* together with what the lock holder does in memory before the next one.  *)
EXTENDS Integers, FiniteSets

CONSTANTS
  Procs,             \* processes, one instance of the breaker in each
  Calls,             \* threads and tasks that use the breaker
  ProcOf,            \* call -> its process
  Gated,             \* the calls that go through call and call_async; the
                     \* others use can_attempt and record_...
  LeaseIds,          \* ids of probe leases
  FailureThreshold, SuccessThreshold,
  MaxProbes,         \* half_open_max_calls
  MaxAttempts,       \* CIRCUIT_BREAKER_PERSIST_MAX_RETRIES
  Environment,       \* subset of {"crash", "late", "reset", "force"}
  None

BreakerStates == {"closed", "open", "half_open"}
Stored == [state : BreakerStates, failure_count : Nat, success_count : Nat, half_open_calls : Nat]

\* What every transition leaves behind: all counters are zero.
Anew(s) == [state |-> s, failure_count |-> 0, success_count |-> 0, half_open_calls |-> 0]

Mutations == {"success", "failure", "transition", "reset", "snapshot_sync"}

\* An operation under the lock: pc is its next access to the store, kind
\* the mutation it persists, by the call it serves or None.
Operations == [pc : {"clear", "upsert", "load", "acquire", "count"}, kind : Mutations,
               attempt : 1 .. MaxAttempts, by : Calls \union {None}]

ASSUME BreakerAssumption ==
  /\ ProcOf \in [Calls -> Procs]
  /\ Gated \subseteq Calls
  /\ FailureThreshold \in Nat \ {0} /\ SuccessThreshold \in Nat \ {0}
  /\ MaxProbes \in Nat \ {0} /\ MaxAttempts \in Nat \ {0}
  /\ None \notin Calls \union LeaseIds
  /\ None \notin Stored /\ None \notin Operations

VARIABLES
  row,       \* table circuit_breaker_registry: the stored state, or None
  leases,    \* table circuit_breaker_probe_leases: ids that have not expired
  local,     \* process -> fields of its CircuitBreaker
  synced,    \* process -> is its _state_store_version the version of the row
  op,        \* process -> the operation that holds _lock, or None
  call       \* call -> where it stands, and its lease

vars == <<row, leases, local, synced, op, call>>

NoCall == [pc |-> "idle", lease |-> None]

Init ==
  /\ row = None
  /\ leases = {}
  /\ local = [p \in Procs |-> Anew("closed")]
  /\ synced = [p \in Procs |-> TRUE]
  /\ op = [p \in Procs |-> [pc |-> "upsert", kind |-> "snapshot_sync", attempt |-> 1, by |-> None]]
  /\ call = [c \in Calls |-> NoCall]

-----------------------------------------------------------------------------
(* Reading and persisting the state. *)

\* Mutant: the version of the row is taken over, its state is not.
AfterSyncStale(p) == local[p]

\* _sync_from_store_locked: the copy an operation starts from.
AfterSync(p) == IF synced[p] \/ row = None THEN local[p] ELSE row

Unlocked(p) == op[p] = None

\* The mutation of process p, made in memory: b is its copy from now on.
StartPersist(p, b, pc, kind, by) ==
  /\ local' = [local EXCEPT ![p] = b]
  /\ op' = [op EXCEPT ![p] = [pc |-> pc, kind |-> kind, attempt |-> 1, by |-> by]]

\* _on_success: only an open breaker is left as it is.
OnSuccess(b) ==
  IF b.state = "closed" THEN [b EXCEPT !.failure_count = 0]
  ELSE IF b.state = "half_open"
       THEN IF b.success_count + 1 >= SuccessThreshold THEN Anew("closed")
            ELSE [b EXCEPT !.success_count = @ + 1]
       ELSE b

\* _on_failure, _should_trip
OnFailure(b) ==
  IF \/ b.state = "half_open"
     \/ b.state = "closed" /\ b.failure_count + 1 >= FailureThreshold
  THEN Anew("open")
  ELSE [b EXCEPT !.failure_count = @ + 1]

\* Mutants: the whole copy replaces what is stored; no budget of attempts;
\* the version is adopted without the state.
MergeFailureSnapshot(latest, mine)  == mine
MergeSnapshotNotSticky(latest, mine) == mine
SameAttempt(n)                      == n
AdoptedVersion(p)                   == local[p]

\* _merge_persist_conflict_locked: the mutation of a process whose copy is
\* mine, applied to the latest stored state.
MergeFailure(latest, mine) ==
  IF latest.state = "open" THEN [latest EXCEPT !.half_open_calls = 0]
  ELSE IF \/ latest.state = "half_open" \/ mine.state = "open"
          \/ latest.failure_count + 1 >= FailureThreshold
       THEN Anew("open")
       ELSE [latest EXCEPT !.failure_count = @ + 1]

MergeSuccess(latest) ==
  IF latest.state = "open" THEN [latest EXCEPT !.half_open_calls = 0] ELSE OnSuccess(latest)

\* An open breaker is not overwritten by a copy that is not open.
MergeSnapshot(latest, mine) ==
  IF latest.state = "open" /\ mine.state # "open" THEN latest ELSE mine

Merge(kind, latest, mine) ==
  IF kind = "failure" THEN MergeFailure(latest, mine)
  ELSE IF kind = "success" THEN MergeSuccess(latest)
       ELSE MergeSnapshot(latest, mine)

NextAttempt(n) == n + 1

\* "adopting latest shared state"
Adopted(p) == row

-----------------------------------------------------------------------------
(* Admission: what call, call_async and can_attempt do with the copy b.    *)

\* _guard_or_raise, _acquire_half_open_slot, can_attempt.  The gated calls
\* count the probes in the copy first, the others only the leases.
Refused(c, b) ==
  \/ b.state = "open"
  \/ b.state = "half_open" /\ c \in Gated /\ b.half_open_calls >= MaxProbes

Admit(c, b) ==
  LET p == ProcOf[c] IN
  \/ /\ Refused(c, b)
     /\ call' = [call EXCEPT ![c] = NoCall]
     /\ op' = [op EXCEPT ![p] = None]
  \/ /\ b.state = "closed"
     /\ call' = [call EXCEPT ![c].pc = "running"]
     /\ op' = [op EXCEPT ![p] = None]
  \/ /\ b.state = "half_open" /\ ~Refused(c, b)
     /\ call' = [call EXCEPT ![c].pc = "entering"]
     /\ op' = [op EXCEPT ![p] = [pc |-> IF c \in Gated THEN "acquire" ELSE "count",
                                 kind |-> "snapshot_sync", attempt |-> 1, by |-> c]]

\* The operation of process p is over; its copy is b.
Finish(p, b) ==
  LET c == op[p].by IN
  \/ /\ c = None
     /\ op' = [op EXCEPT ![p] = None]
     /\ UNCHANGED call
  \/ /\ c # None /\ call[c].pc = "entering"
     /\ Admit(c, b)
  \/ /\ c # None /\ call[c].pc # "entering"
     /\ op' = [op EXCEPT ![p] = None]
     /\ call' = [call EXCEPT ![c] = IF @.lease = None THEN NoCall
                                    ELSE [@ EXCEPT !.pc = "releasing"]]

-----------------------------------------------------------------------------
(* Steps of the lock holder. *)

\* _clear_probe_leases_locked, on the way to CLOSED or OPEN.
ClearLeases(p) ==
  /\ op[p] # None /\ op[p].pc = "clear"
  /\ leases' = {}
  /\ op' = [op EXCEPT ![p].pc = "upsert"]
  /\ UNCHANGED <<row, local, synced, call>>

\* upsert succeeds: the version is the one that was expected, or there is
\* no row yet.
Upsert(p) ==
  /\ op[p] # None /\ op[p].pc = "upsert"
  /\ synced[p]
  /\ row' = local[p]
  /\ synced' = [q \in Procs |-> q = p]
  /\ Finish(p, local[p])
  /\ UNCHANGED <<leases, local>>

\* CircuitBreakerOptimisticLockError.
UpsertConflict(p) ==
  /\ op[p] # None /\ op[p].pc = "upsert"
  /\ ~synced[p]
  /\ op' = [op EXCEPT ![p].pc = "load"]
  /\ UNCHANGED <<row, leases, local, synced, call>>

\* The handler of the conflict: merge and try again.
MergeConflict(p) ==
  /\ op[p] # None /\ op[p].pc = "load"
  /\ op[p].attempt < MaxAttempts
  /\ local' = [local EXCEPT ![p] = Merge(op[p].kind, row, @)]
  /\ synced' = [synced EXCEPT ![p] = TRUE]
  /\ op' = [op EXCEPT ![p].pc = "upsert", ![p].attempt = NextAttempt(@)]
  /\ UNCHANGED <<row, leases, call>>

\* "persistence retries exhausted; adopting latest shared state"
GiveUp(p) ==
  /\ op[p] # None /\ op[p].pc = "load"
  /\ op[p].attempt >= MaxAttempts
  /\ local' = [local EXCEPT ![p] = Adopted(p)]
  /\ synced' = [synced EXCEPT ![p] = TRUE]
  /\ Finish(p, Adopted(p))
  /\ UNCHANGED <<row, leases>>

\* acquire_probe_lease: one transaction.
AcquireLease(p) ==
  /\ op[p] # None /\ op[p].pc = "acquire"
  /\ \/ /\ Cardinality(leases) < MaxProbes
        /\ \E l \in LeaseIds \ (leases \union {call[c].lease : c \in Calls}) :
             /\ leases' = leases \union {l}
             /\ call' = [call EXCEPT ![op[p].by] = [pc |-> "running", lease |-> l]]
        /\ local' = [local EXCEPT ![p].half_open_calls = @ + 1]
     \/ /\ Cardinality(leases) >= MaxProbes
        /\ call' = [call EXCEPT ![op[p].by] = NoCall]
        /\ UNCHANGED <<leases, local>>
  /\ op' = [op EXCEPT ![p] = None]
  /\ UNCHANGED <<row, synced>>

\* count_active_probe_leases in can_attempt: nothing is taken.
CountLeases(p) ==
  /\ op[p] # None /\ op[p].pc = "count"
  /\ call' = [call EXCEPT ![op[p].by].pc =
                IF Cardinality(leases) < MaxProbes THEN "running" ELSE "idle"]
  /\ op' = [op EXCEPT ![p] = None]
  /\ UNCHANGED <<row, leases, local, synced>>

HolderStep(p) ==
  \/ ClearLeases(p) \/ Upsert(p) \/ UpsertConflict(p) \/ MergeConflict(p)
  \/ GiveUp(p) \/ AcquireLease(p) \/ CountLeases(p)

-----------------------------------------------------------------------------
(* Steps that take the lock. *)

\* The head of call, call_async and can_attempt: sync, then
\* _maybe_transition_to_half_open, then the guard.
Begin(c) ==
  LET p == ProcOf[c]
      b == AfterSync(p) IN
  /\ call[c].pc = "idle" /\ Unlocked(p)
  /\ synced' = [synced EXCEPT ![p] = @ \/ row # None]
  /\ \/ /\ b.state = "open"                         \* the timeout has elapsed
        /\ StartPersist(p, Anew("half_open"), "upsert", "transition", c)
        /\ call' = [call EXCEPT ![c].pc = "entering"]
     \/ /\ Admit(c, b)
        /\ local' = [local EXCEPT ![p] = b]
  /\ UNCHANGED <<row, leases>>

\* The copy the outcome of a call is recorded on: record_success and
\* record_failure sync, call and call_async do not.
Recorded(c) == IF c \in Gated THEN local[ProcOf[c]] ELSE AfterSync(ProcOf[c])

\* The copy b changed to d: a transition, or a counter that moved.
StartRecord(c, b, d, kind) ==
  LET p == ProcOf[c] IN
  /\ IF d.state = b.state
     THEN StartPersist(p, d, "upsert", kind, c)
     ELSE StartPersist(p, d, "clear", "transition", c)
  /\ synced' = [synced EXCEPT ![p] = @ \/ (c \notin Gated /\ row # None)]
  /\ call' = [call EXCEPT ![c].pc = "recording"]
  /\ UNCHANGED <<row, leases>>

RecordSuccess(c) ==
  /\ call[c].pc = "running" /\ Unlocked(ProcOf[c])
  /\ StartRecord(c, Recorded(c), OnSuccess(Recorded(c)), "success")

RecordFailure(c) ==
  /\ call[c].pc = "running" /\ Unlocked(ProcOf[c])
  /\ StartRecord(c, Recorded(c), OnFailure(Recorded(c)), "failure")

\* An exception that is not expected_exception, such as a cancellation: it
\* passes through and nothing is recorded.
PassThrough(c) ==
  /\ call[c].pc = "running"
  /\ call' = [call EXCEPT ![c] = IF @.lease = None THEN NoCall ELSE [@ EXCEPT !.pc = "releasing"]]
  /\ UNCHANGED <<row, leases, local, synced, op>>

\* Mutant: one slot less, whatever the copy says.
SlotLessUnchecked(n) == n - 1

\* The count may have been overwritten by a sync in the meantime.
SlotLess(n) == IF n > 0 THEN n - 1 ELSE 0

\* _release_half_open_slot_locked, in the finally clause.
Release(c) ==
  LET p == ProcOf[c] IN
  /\ call[c].pc = "releasing" /\ Unlocked(p)
  /\ local' = [local EXCEPT ![p].half_open_calls = SlotLess(@)]
  /\ leases' = leases \ {call[c].lease}
  /\ call' = [call EXCEPT ![c] = NoCall]
  /\ UNCHANGED <<row, synced, op>>

\* state, get_status: reading the breaker may move it to HALF_OPEN, too.
Inspect(p) ==
  /\ Unlocked(p)
  /\ synced' = [synced EXCEPT ![p] = @ \/ row # None]
  /\ \/ /\ AfterSync(p).state = "open"
        /\ StartPersist(p, Anew("half_open"), "upsert", "transition", None)
     \/ /\ local' = [local EXCEPT ![p] = AfterSync(p)]
        /\ UNCHANGED op
  /\ UNCHANGED <<row, leases, call>>

Reset(p) ==
  /\ "reset" \in Environment /\ Unlocked(p)
  /\ synced' = [synced EXCEPT ![p] = @ \/ row # None]
  /\ StartPersist(p, Anew("closed"), "clear", "reset", None)
  /\ UNCHANGED <<row, leases, call>>

\* force_open, force_half_open: no sync.
ForceState(p, s) ==
  /\ "force" \in Environment /\ Unlocked(p)
  /\ local[p].state # s
  /\ StartPersist(p, Anew(s), IF s = "open" THEN "clear" ELSE "upsert", "transition", None)
  /\ UNCHANGED <<row, leases, synced, call>>

-----------------------------------------------------------------------------
(* The environment. *)

\* The time of a lease is over; "late" when its call is still running.
Expire(l) ==
  /\ l \in leases
  /\ "late" \in Environment \/ \A c \in Calls : call[c].lease # l
  /\ leases' = leases \ {l}
  /\ UNCHANGED <<row, local, synced, op, call>>

\* A process dies and starts again: __init__ adopts the row, or stores the
\* first one.  Leases of its calls stay behind.
Restart(p) ==
  /\ "crash" \in Environment
  /\ call' = [c \in Calls |-> IF ProcOf[c] = p THEN NoCall ELSE call[c]]
  /\ synced' = [synced EXCEPT ![p] = TRUE]
  /\ IF row = None
     THEN StartPersist(p, Anew("closed"), "upsert", "snapshot_sync", None)
     ELSE /\ local' = [local EXCEPT ![p] = row]
          /\ op' = [op EXCEPT ![p] = None]
  /\ UNCHANGED <<row, leases>>

-----------------------------------------------------------------------------
ProcessStep(p) == HolderStep(p) \/ Inspect(p) \/ Reset(p) \/ ForceState(p, "open") \/ ForceState(p, "half_open")

CallStep(c) == Begin(c) \/ RecordSuccess(c) \/ RecordFailure(c) \/ PassThrough(c) \/ Release(c)

Next == \/ \E p \in Procs : ProcessStep(p) \/ Restart(p)
        \/ \E c \in Calls : CallStep(c)
        \/ \E l \in LeaseIds : Expire(l)

Spec == Init /\ [][Next]_vars

\* Threads are scheduled.  Traffic: calls keep being made and come to an
\* end, and leases that nobody uses run out.
LockProgress == \A p \in Procs : WF_vars(HolderStep(p))

Traffic == /\ \A c \in Calls : /\ SF_vars(Begin(c))
                               /\ SF_vars(RecordSuccess(c) \/ RecordFailure(c))
                               /\ SF_vars(Release(c))
           /\ \A l \in LeaseIds : WF_vars(Expire(l))

LockSpec == Spec /\ LockProgress

FairSpec == LockSpec /\ Traffic

-----------------------------------------------------------------------------
(* Properties. *)

TypeOK ==
  /\ row \in Stored \union {None}
  /\ leases \subseteq LeaseIds
  /\ local \in [Procs -> Stored]
  /\ synced \in [Procs -> BOOLEAN]
  /\ op \in [Procs -> Operations \union {None}]
  /\ call \in [Calls -> [pc : {"idle", "entering", "running", "recording", "releasing"},
                         lease : LeaseIds \union {None}]]

\* Equal but for half_open_calls, which a process counts for itself.
Agree(a, b) == /\ a.state = b.state
               /\ a.failure_count = b.failure_count
               /\ a.success_count = b.success_count

\* A process that thinks it has seen the newest version has the stored
\* state: no merge and no give-up takes over a version without its state
\* (_apply_stored_state_locked), or keeps a change that was not stored.
SyncedMatchesStore ==
  \A p \in Procs :
    synced[p] /\ row # None /\ (op[p] = None \/ op[p].pc \in {"acquire", "count"})
      => Agree(local[p], row)

\* A call that is let through without looking at the probes finds the
\* breaker closed for all processes, whatever its own copy said before.
\* (One that has waited for its own transition to HALF_OPEN to be stored
\* is decided on what it stored or adopted.)
AdmittedWhenClosed ==
  [][\A c \in Calls : call[c].pc = "idle" /\ call'[c].pc = "running"
                        => row # None /\ row.state = "closed"]_vars

\* MERGE_POLICY_CONTRACT_V1, 1: no report and no stale copy of any process
\* takes the shared breaker out of OPEN; only a process that moves it to
\* HALF_OPEN, or a reset, does.
OpenIsSticky ==
  [][row # None /\ row.state = "open" /\ row'.state # "open"
       => \E p \in Procs : /\ op[p] # None /\ op'[p] # op[p]
                           /\ \/ op[p].kind = "transition" /\ row'.state = "half_open"
                              \/ op[p].kind = "reset" /\ row'.state = "closed"]_vars

\* The operation of process p stores what a call reported, a success or a
\* failure: as such, or as the transition that it led to.
Reports(p) == op[p].by # None /\ call[op[p].by].pc = "recording"

\* new is old with one report more, thresholds included: what _on_success or
\* _on_failure makes of it.
AddsReport(kind, old, new) ==
  \/ kind # "failure" /\ Agree(new, OnSuccess(old))
  \/ kind # "success" /\ Agree(new, OnFailure(old))

\* What the merge of a conflict does instead.  Nothing moves an open breaker.
\* But a report that had tripped or closed the reporter's stale copy replaces
\* what is stored, whatever its counts, and so does a failure reported on a
\* copy that was open: the contract does not foresee it.
OverridesCounts(kind, old, new) ==
  \/ old.state = "open" /\ new.state = "open"
  \/ kind = "failure" /\ old.state = "closed" /\ new = Anew("open")
  \/ kind = "transition" /\ old.state # "open" /\ new.state # "half_open"

\* MERGE_POLICY_CONTRACT_V1, 2: "Counters merge as operation deltas, not
\* whole-snapshot replacement".  A report that is stored without a conflict,
\* as a counter or as a transition, adds exactly itself to what is stored; a
\* success or failure that has met conflicts still does, and the rest is what
\* OverridesCounts says.
ReportsAreDeltas ==
  [][\A p \in Procs :
       Upsert(p) /\ row # None /\ Reports(p)
         => \/ AddsReport(op[p].kind, row, row')
            \/ op[p].attempt > 1 /\ OverridesCounts(op[p].kind, row, row')]_vars

\* MERGE_POLICY_CONTRACT_V1, 4: the lock, and with it every call of the
\* process, is not held for ever by a persist that keeps conflicting.
LockIsReleased == \A p \in Procs : op[p] # None ~> op[p] = None

\* A copy that says all probe slots are taken stops saying so: "Slot leakage
\* from crashed/abandoned probes is bounded by TTL and self-recovers".
Full(p) == local[p].state = "half_open" /\ local[p].half_open_calls >= MaxProbes
ProbeSlotsRecover == \A p \in Procs : Full(p) ~> ~Full(p)
=============================================================================
