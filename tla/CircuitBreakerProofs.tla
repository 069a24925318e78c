------------------------ MODULE CircuitBreakerProofs ------------------------
(* Safety of CircuitBreaker for any processes, calls, thresholds, attempts *)
(* and environment.  IInv adds to the properties what the holder of a lock *)
(* has in hand: a mutation prepared on the stored state it has seen.       *)
EXTENDS CircuitBreaker, TLAPS

CallStates == [pc : {"idle", "entering", "running", "recording", "releasing"},
               lease : LeaseIds \union {None}]

\* Until something is stored every process is about to store.
FirstStore ==
  row = None =>
    \A p \in Procs : /\ op[p] # None /\ op[p].pc = "upsert"
                     /\ op[p].kind = "snapshot_sync" /\ op[p].by = None
                     /\ synced[p]

\* An operation serves a call of its own process; one that asks for a slot
\* serves a call that is still outside.
Serves(p, o, calls) ==
  /\ o.by # None => ProcOf[o.by] = p
  /\ o.pc \in {"acquire", "count"} => o.by \in Calls /\ calls[o.by].pc = "entering"

Serving == \A p \in Procs : op[p] # None => Serves(p, op[p], call)

\* What a mutation prepared on the stored state may do to it.
Prepared(kind, stored, mine) ==
  stored.state = "open" =>
    /\ kind \in {"success", "failure", "snapshot_sync"} => mine.state = "open"
    /\ kind = "transition" => mine.state \in {"open", "half_open"}

Pending ==
  \A p \in Procs :
    op[p] # None =>
      /\ op[p].kind = "reset" => local[p].state \in {"open", "closed"}
      /\ op[p].pc \in {"clear", "upsert"} /\ synced[p] /\ row # None
           => Prepared(op[p].kind, row, local[p])

IInv == TypeOK /\ SyncedMatchesStore /\ FirstStore /\ Serving /\ Pending

-----------------------------------------------------------------------------
(* Types of the pieces. *)

\* A fresh breaker state can be stored.
LEMMA AnewStored == \A s \in BreakerStates : Anew(s) \in Stored
  BY DEF Anew, Stored

\* What a conflict is merged to can be stored.
LEMMA MergeStored ==
  ASSUME NEW kind, NEW latest \in Stored, NEW mine \in Stored
  PROVE  Merge(kind, latest, mine) \in Stored
  BY DEF Merge, MergeFailure, MergeSuccess, MergeSnapshot, OnSuccess, Stored, Anew, BreakerStates

\* What a success or a failure leaves can be stored.
LEMMA RecordStored ==
  ASSUME NEW b \in Stored
  PROVE  OnSuccess(b) \in Stored /\ OnFailure(b) \in Stored
  BY DEF OnSuccess, OnFailure, Stored, Anew, BreakerStates

\* The parts of the state that the steps look at, with their types.
LEMMA PiecesTyped ==
  ASSUME TypeOK
  PROVE  /\ \A p \in Procs : op[p] # None => op[p] \in Operations
         /\ row # None => row \in Stored
         /\ \A p \in Procs : local[p] \in Stored /\ AfterSync(p) \in Stored
         /\ \A c \in Calls : call[c] \in CallStates
  BY DEF TypeOK, CallStates, AfterSync

\* None is neither a call, nor an operation, nor a row.
LEMMA NoneIsNothing ==
  ASSUME BreakerAssumption
  PROVE  /\ None \notin Calls
         /\ \A r \in Stored : r # None
         /\ \A o \in Operations : o # None
  BY DEF BreakerAssumption

-----------------------------------------------------------------------------
(* Mutations and merges keep to what Prepared says. *)

\* What a call records prepares an UPSERT of the kind it is stored as.
LEMMA RecordPrepared ==
  ASSUME NEW b \in Stored, NEW stored \in Stored, Agree(b, stored)
  PROVE  /\ OnSuccess(b).state = b.state => Prepared("success", stored, OnSuccess(b))
         /\ OnFailure(b).state = b.state => Prepared("failure", stored, OnFailure(b))
         /\ OnSuccess(b).state # b.state => Prepared("transition", stored, OnSuccess(b))
         /\ OnFailure(b).state # b.state => Prepared("transition", stored, OnFailure(b))
<1>1. CASE b.state = "closed"
  <2>1. /\ [b EXCEPT !.failure_count = 0].state = b.state
        /\ [b EXCEPT !.failure_count = 0].failure_count = 0
        /\ [b EXCEPT !.failure_count = @ + 1].state = b.state
        /\ [b EXCEPT !.failure_count = @ + 1].failure_count = b.failure_count + 1
    BY DEF Stored
  <2> QED BY <1>1, <2>1 DEF OnSuccess, OnFailure, Prepared, Agree, Anew
<1>2. CASE b.state = "half_open"
  <2>1. /\ [b EXCEPT !.success_count = @ + 1].state = b.state
        /\ [b EXCEPT !.success_count = @ + 1].success_count = b.success_count + 1
    BY DEF Stored
  <2> QED BY <1>2, <2>1 DEF OnSuccess, OnFailure, Prepared, Agree, Anew
<1>3. CASE b.state = "open"
  <2>1. [b EXCEPT !.failure_count = @ + 1].state = b.state
    BY DEF Stored
  <2> QED BY <1>3, <2>1 DEF OnSuccess, OnFailure, Prepared, Agree, Anew
<1> QED BY <1>1, <1>2, <1>3 DEF Stored, BreakerStates

\* So does the merge with a row that another process wrote meanwhile.
LEMMA MergePrepared ==
  ASSUME NEW kind \in Mutations, NEW latest \in Stored, NEW mine \in Stored
  PROVE  /\ Prepared(kind, latest, Merge(kind, latest, mine))
         /\ kind = "reset" /\ mine.state \in {"open", "closed"}
              => Merge(kind, latest, mine).state \in {"open", "closed"}
<1>1. CASE kind = "failure"
  <2>1. /\ [latest EXCEPT !.half_open_calls = 0].state = latest.state
        /\ [latest EXCEPT !.failure_count = @ + 1].state = latest.state
        /\ [latest EXCEPT !.failure_count = @ + 1].failure_count = latest.failure_count + 1
    BY DEF Stored
  <2> QED BY <1>1, <2>1 DEF Merge, MergeFailure, Prepared, Anew, Stored, BreakerStates
<1>2. CASE kind = "success"
  <2>1. /\ [latest EXCEPT !.half_open_calls = 0].state = latest.state
        /\ [latest EXCEPT !.failure_count = 0].state = latest.state
        /\ [latest EXCEPT !.failure_count = 0].failure_count = 0
        /\ [latest EXCEPT !.success_count = @ + 1].state = latest.state
        /\ [latest EXCEPT !.success_count = @ + 1].success_count = latest.success_count + 1
    BY DEF Stored
  <2> QED BY <1>2, <2>1 DEF Merge, MergeSuccess, OnSuccess, Prepared, Anew, Stored, BreakerStates
<1>3. CASE kind \notin {"success", "failure"}
  BY <1>3 DEF Merge, MergeSnapshot, Prepared, Mutations
<1> QED BY <1>1, <1>2, <1>3

-----------------------------------------------------------------------------
(* What a decision about a call may do to the operations and the calls. *)

Settled(p, b) ==
  /\ op' \in [Procs -> Operations \union {None}]
  /\ call' \in [Calls -> CallStates]
  /\ \A q \in Procs : q # p => op'[q] = op[q]
  /\ \A c \in Calls : ProcOf[c] # p => call'[c] = call[c]
  /\ op'[p] # None => op'[p].pc \in {"acquire", "count"} /\ op'[p].kind = "snapshot_sync"
                      /\ Serves(p, op'[p], call')

\* Letting a call in ends the operation of its process.
LEMMA AdmitSettles ==
  ASSUME TypeOK, BreakerAssumption, NEW c \in Calls, NEW b, Admit(c, b)
  PROVE  /\ Settled(ProcOf[c], b)
         /\ \A d \in Calls : d # c => call'[d] = call[d]
         /\ call[c].pc = "idle" /\ call'[c].pc = "running" => b.state = "closed"
<1> DEFINE p == ProcOf[c]
<1>0. p \in Procs /\ call[c] \in CallStates /\ NoCall \in CallStates
  BY DEF BreakerAssumption, TypeOK, CallStates, NoCall
<1>1. [call[c] EXCEPT !.pc = "running"] \in CallStates /\ [call[c] EXCEPT !.pc = "entering"] \in CallStates
  BY <1>0 DEF CallStates
<1>2. CASE Refused(c, b) /\ call' = [call EXCEPT ![c] = NoCall] /\ op' = [op EXCEPT ![p] = None]
  BY <1>0, <1>2 DEF Settled, TypeOK, CallStates, NoCall
<1>3. CASE b.state = "closed" /\ call' = [call EXCEPT ![c].pc = "running"] /\ op' = [op EXCEPT ![p] = None]
  BY <1>0, <1>1, <1>3 DEF Settled, TypeOK, CallStates
<1>4. ASSUME NEW pc \in {"acquire", "count"},
             call' = [call EXCEPT ![c].pc = "entering"],
             op' = [op EXCEPT ![p] = [pc |-> pc, kind |-> "snapshot_sync", attempt |-> 1, by |-> c]]
      PROVE  /\ Settled(p, b)
             /\ \A d \in Calls : d # c => call'[d] = call[d]
             /\ call'[c].pc = "entering"
  <2>1. [pc |-> pc, kind |-> "snapshot_sync", attempt |-> 1, by |-> c] \in Operations
    BY DEF Operations, Mutations, BreakerAssumption
  <2>2. call'[c] = [call[c] EXCEPT !.pc = "entering"] /\ call'[c].pc = "entering"
    BY <1>0, <1>4 DEF TypeOK, CallStates
  <2>3. op'[p] = [pc |-> pc, kind |-> "snapshot_sync", attempt |-> 1, by |-> c]
    BY <1>0, <1>4 DEF TypeOK
  <2>4. /\ op' \in [Procs -> Operations \union {None}]
        /\ \A q \in Procs : q # p => op'[q] = op[q]
    BY <1>4, <2>1 DEF TypeOK
  <2>5. /\ call' \in [Calls -> CallStates]
        /\ \A d \in Calls : d # c => call'[d] = call[d]
    BY <1>1, <1>4 DEF TypeOK, CallStates
  <2>7. op'[p].pc = pc /\ op'[p].kind = "snapshot_sync" /\ op'[p].by = c
    BY <2>3
  <2>6. Serves(p, op'[p], call')
    BY <2>2, <2>7 DEF Serves
  <2>8. \A d \in Calls : ProcOf[d] # p => call'[d] = call[d]
    BY <2>5
  <2>9. Settled(p, b)
    BY <2>4, <2>5, <2>6, <2>7, <2>8 DEF Settled
  <2> QED BY <2>2, <2>5, <2>9
<1>5. CASE /\ call' = [call EXCEPT ![c].pc = "entering"]
           /\ op' = [op EXCEPT ![p] = [pc |-> IF c \in Gated THEN "acquire" ELSE "count",
                                       kind |-> "snapshot_sync", attempt |-> 1, by |-> c]]
  BY <1>4, <1>5
<1> QED BY <1>2, <1>3, <1>5, <1>0 DEF Admit, NoCall, TypeOK

\* The end of an operation settles its process, and starts no call.
LEMMA FinishSettles ==
  ASSUME TypeOK, Serving, BreakerAssumption, NEW p \in Procs, op[p] # None, NEW b, Finish(p, b)
  PROVE  /\ Settled(p, b)
         /\ \A c \in Calls : call[c].pc = "idle" => call'[c].pc # "running"
<1> DEFINE c == op[p].by
<1>0. c # None => c \in Calls /\ ProcOf[c] = p
  BY PiecesTyped DEF Serving, Serves, Operations
<1>1. CASE c = None /\ op' = [op EXCEPT ![p] = None] /\ UNCHANGED call
  BY <1>1 DEF Settled, TypeOK, CallStates
<1>2. CASE c # None /\ call[c].pc = "entering" /\ Admit(c, b)
  BY <1>0, <1>2, AdmitSettles
<1>3. CASE /\ c # None /\ call[c].pc # "entering"
           /\ op' = [op EXCEPT ![p] = None]
           /\ call' = [call EXCEPT ![c] = IF @.lease = None THEN NoCall
                                          ELSE [@ EXCEPT !.pc = "releasing"]]
  <2>1. [call[c] EXCEPT !.pc = "releasing"] \in CallStates /\ [call[c] EXCEPT !.pc = "releasing"].pc = "releasing"
        /\ NoCall \in CallStates /\ NoCall.pc = "idle"
    BY <1>0, <1>3 DEF TypeOK, CallStates, NoCall
  <2> QED BY <1>0, <1>3, <2>1 DEF Settled, TypeOK, CallStates
<1> QED BY <1>1, <1>2, <1>3 DEF Finish
-----------------------------------------------------------------------------
(* The two ways a step ends: an operation is over, or a mutation is in     *)
(* hand.                                                                   *)

\* Operations of other processes still serve their callers.
LEMMA OthersServed ==
  ASSUME TypeOK, Serving, NEW p \in Procs, NEW q \in Procs, q # p, op[q] # None,
         \A c \in Calls : ProcOf[c] # p => call'[c] = call[c]
  PROVE  Serves(q, op[q], call')
<1>1. Serves(q, op[q], call)
  BY DEF Serving
<1>2. op[q].by \in Calls \union {None}
  BY DEF TypeOK, Operations
<1>3. op[q].pc \in {"acquire", "count"} => op[q].by \in Calls /\ ProcOf[op[q].by] # p /\ call[op[q].by].pc = "entering"
  BY <1>1, <1>2, NoneIsNothing, BreakerAssumption DEF Serves
<1> QED BY <1>1, <1>3 DEF Serves

\* IInv after a step that ends the operation of one process.
LEMMA OperationEnds ==
  ASSUME IInv, BreakerAssumption, NEW p \in Procs, NEW b, Settled(p, b),
         row' \in Stored, leases' \subseteq LeaseIds,
         local' \in [Procs -> Stored], synced' \in [Procs -> BOOLEAN],
         \A q \in Procs : q # p => local'[q] = local[q],
         \A q \in Procs : q # p /\ synced'[q] => synced[q] /\ row' = row,
         synced'[p] => Agree(local'[p], row')
  PROVE  IInv'
<1>1. TypeOK'
  BY DEF IInv, TypeOK, Settled, CallStates
<1>2. row' # None
  BY NoneIsNothing
<1>3. SyncedMatchesStore'
  BY DEF IInv, SyncedMatchesStore, Settled
<1>4. FirstStore'
  BY <1>2 DEF FirstStore
<1>5. Serving'
  <2>1. ASSUME NEW q \in Procs, q # p, op'[q] # None PROVE Serves(q, op'[q], call')
    BY <2>1, OthersServed DEF IInv, Settled
  <2>2. op'[p] # None => Serves(p, op'[p], call')
    BY DEF Settled
  <2> QED BY <2>1, <2>2 DEF Serving
<1>6. Pending'
  <2>1. ASSUME NEW q \in Procs, q # p, op'[q] # None
        PROVE  /\ op'[q].kind = "reset" => local'[q].state \in {"open", "closed"}
               /\ op'[q].pc \in {"clear", "upsert"} /\ synced'[q] /\ row' # None
                    => Prepared(op'[q].kind, row', local'[q])
    BY <2>1 DEF IInv, Pending, Settled
  <2>2. op'[p] # None => op'[p].kind # "reset" /\ op'[p].pc \notin {"clear", "upsert"}
    BY DEF Settled
  <2> QED BY <2>1, <2>2 DEF Pending
<1> QED BY <1>1, <1>3, <1>4, <1>5, <1>6 DEF IInv

\* IInv after a step that starts to persist something.
LEMMA PersistStarts ==
  ASSUME IInv, BreakerAssumption, NEW p \in Procs, NEW b \in Stored, NEW pc \in {"clear", "upsert"},
         NEW kind \in Mutations, NEW by \in Calls \union {None},
         StartPersist(p, b, pc, kind, by),
         row # None, row' = row, leases' \subseteq LeaseIds,
         synced' \in [Procs -> BOOLEAN], \A q \in Procs : q # p => synced'[q] = synced[q],
         call' \in [Calls -> CallStates], \A c \in Calls : ProcOf[c] # p => call'[c] = call[c],
         by # None => ProcOf[by] = p,
         kind = "reset" => b.state \in {"open", "closed"},
         synced'[p] => Prepared(kind, row, b)
  PROVE  IInv'
<1> DEFINE o == [pc |-> pc, kind |-> kind, attempt |-> 1, by |-> by]
<1>1. o \in Operations /\ o.pc = pc /\ o.kind = kind /\ o.by = by
  BY DEF Operations, BreakerAssumption
<1>2. /\ op' \in [Procs -> Operations \union {None}] /\ op'[p] = o
      /\ local' \in [Procs -> Stored] /\ local'[p] = b
      /\ \A q \in Procs : q # p => op'[q] = op[q] /\ local'[q] = local[q]
  BY <1>1 DEF IInv, TypeOK, StartPersist
<1>3. TypeOK'
  BY <1>2 DEF IInv, TypeOK, CallStates
<1>4. op'[p].pc = pc /\ op'[p].kind = kind /\ op'[p].by = by /\ op'[p] # None
  BY <1>1, <1>2, NoneIsNothing
<1>5. SyncedMatchesStore'
  BY <1>2, <1>4 DEF IInv, SyncedMatchesStore
<1>6. FirstStore'
  BY DEF FirstStore
<1>7. Serving'
  <2>1. ASSUME NEW q \in Procs, q # p, op'[q] # None PROVE Serves(q, op'[q], call')
    BY <1>2, <2>1, OthersServed DEF IInv
  <2>2. Serves(p, op'[p], call')
    BY <1>4 DEF Serves
  <2> QED BY <2>1, <2>2 DEF Serving
<1>8. Pending'
  <2>1. ASSUME NEW q \in Procs, q # p, op'[q] # None
        PROVE  /\ op'[q].kind = "reset" => local'[q].state \in {"open", "closed"}
               /\ op'[q].pc \in {"clear", "upsert"} /\ synced'[q] /\ row' # None
                    => Prepared(op'[q].kind, row', local'[q])
    BY <1>2, <2>1 DEF IInv, Pending
  <2>2. /\ op'[p].kind = "reset" => local'[p].state \in {"open", "closed"}
        /\ synced'[p] => Prepared(op'[p].kind, row', local'[p])
    BY <1>2, <1>4
  <2> QED BY <2>1, <2>2 DEF Pending
<1> QED BY <1>3, <1>5, <1>6, <1>7, <1>8 DEF IInv
-----------------------------------------------------------------------------
(* Every step keeps IInv. *)

\* A process without an operation agrees with the row it synced from.
LEMMA UnlockedStored ==
  ASSUME IInv, NEW p \in Procs, Unlocked(p)
  PROVE  /\ row # None /\ row \in Stored
         /\ synced[p] => Agree(local[p], row)
         /\ AfterSync(p) \in Stored /\ Agree(AfterSync(p), row)
  BY DEF IInv, FirstStore, Unlocked, SyncedMatchesStore, AfterSync, TypeOK, Agree

\* At the start every process writes its first snapshot.
LEMMA StepInit == ASSUME BreakerAssumption, Init PROVE IInv
<1> DEFINE o == [pc |-> "upsert", kind |-> "snapshot_sync", attempt |-> 1, by |-> None]
<1>1. o \in Operations /\ o.pc = "upsert" /\ o.kind = "snapshot_sync" /\ o.by = None
  BY DEF Operations, Mutations, BreakerAssumption
<1>2. \A p \in Procs : op[p] = o /\ op[p] # None
  BY <1>1, NoneIsNothing DEF Init
<1>3. Anew("closed") \in Stored /\ NoCall \in CallStates
  BY AnewStored DEF BreakerStates, CallStates, NoCall
<1>4. TypeOK
  BY <1>1, <1>3 DEF Init, TypeOK, CallStates
<1> QED BY <1>1, <1>2, <1>4 DEF Init, IInv, SyncedMatchesStore, FirstStore, Serving, Serves, Pending

\* The leases are deleted, then the row is written.
LEMMA StepClear ==
  ASSUME IInv, BreakerAssumption, NEW p \in Procs, ClearLeases(p)
  PROVE  IInv'
<1> DEFINE o == [op[p] EXCEPT !.pc = "upsert"]
<1>1. op[p] \in Operations
  BY DEF IInv, TypeOK, ClearLeases
<1>2. o \in Operations /\ o.pc = "upsert" /\ o.kind = op[p].kind /\ o.by = op[p].by
  BY <1>1 DEF Operations
<1>3. op' \in [Procs -> Operations \union {None}] /\ op'[p] = o /\ \A q \in Procs : q # p => op'[q] = op[q]
  BY <1>2 DEF IInv, TypeOK, ClearLeases
<1>4. op'[p] # None /\ op'[p].pc = "upsert" /\ op'[p].kind = op[p].kind /\ op'[p].by = op[p].by
  BY <1>2, <1>3, NoneIsNothing
<1>5. TypeOK'
  BY <1>3 DEF IInv, TypeOK, ClearLeases
<1>6. SyncedMatchesStore' /\ FirstStore'
  BY <1>3, <1>4 DEF IInv, SyncedMatchesStore, FirstStore, ClearLeases
<1>7. Serving'
  BY <1>3, <1>4 DEF IInv, Serving, Serves, ClearLeases
<1>8. Pending'
  BY <1>3, <1>4 DEF IInv, Pending, ClearLeases
<1> QED BY <1>5, <1>6, <1>7, <1>8 DEF IInv

\* The optimistic UPSERT finds a newer row.
LEMMA StepConflict ==
  ASSUME IInv, BreakerAssumption, NEW p \in Procs, UpsertConflict(p)
  PROVE  IInv'
<1> DEFINE o == [op[p] EXCEPT !.pc = "load"]
<1>1. op[p] \in Operations /\ row # None
  BY DEF IInv, TypeOK, FirstStore, UpsertConflict
<1>2. o \in Operations /\ o.pc = "load" /\ o.kind = op[p].kind /\ o.by = op[p].by
  BY <1>1 DEF Operations
<1>3. op' \in [Procs -> Operations \union {None}] /\ op'[p] = o /\ \A q \in Procs : q # p => op'[q] = op[q]
  BY <1>2 DEF IInv, TypeOK, UpsertConflict
<1>4. op'[p] # None /\ op'[p].pc = "load" /\ op'[p].kind = op[p].kind /\ op'[p].by = op[p].by
  BY <1>2, <1>3, NoneIsNothing
<1>5. TypeOK'
  BY <1>3 DEF IInv, TypeOK, UpsertConflict
<1>6. SyncedMatchesStore' /\ FirstStore'
  BY <1>1, <1>3, <1>4 DEF IInv, SyncedMatchesStore, FirstStore, UpsertConflict
<1>7. Serving'
  BY <1>3, <1>4 DEF IInv, Serving, Serves, UpsertConflict
<1>8. Pending'
  BY <1>3, <1>4 DEF IInv, Pending, UpsertConflict
<1> QED BY <1>5, <1>6, <1>7, <1>8 DEF IInv

\* The newer row is loaded and merged, and the UPSERT tried again.
LEMMA StepMerge ==
  ASSUME IInv, BreakerAssumption, NEW p \in Procs, MergeConflict(p)
  PROVE  IInv'
<1> DEFINE o == [op[p] EXCEPT !.pc = "upsert", !.attempt = NextAttempt(@)]
           m == Merge(op[p].kind, row, local[p])
<1>1. /\ op[p] \in Operations /\ op[p].attempt < MaxAttempts /\ op[p].pc = "load"
      /\ row # None /\ row \in Stored /\ local[p] \in Stored
  BY DEF IInv, TypeOK, FirstStore, MergeConflict
<1>2. o \in Operations /\ o.pc = "upsert" /\ o.kind = op[p].kind /\ o.by = op[p].by
  <2>1. NextAttempt(op[p].attempt) \in 1 .. MaxAttempts
    BY <1>1 DEF Operations, NextAttempt, BreakerAssumption
  <2> QED BY <1>1, <2>1 DEF Operations
<1>3. /\ m \in Stored /\ Prepared(op[p].kind, row, m)
      /\ op[p].kind = "reset" /\ local[p].state \in {"open", "closed"} => m.state \in {"open", "closed"}
  BY <1>1, MergeStored, MergePrepared DEF Operations
<1>4. /\ op' \in [Procs -> Operations \union {None}] /\ op'[p] = o
      /\ local' \in [Procs -> Stored] /\ local'[p] = m
      /\ synced' \in [Procs -> BOOLEAN]
      /\ \A q \in Procs : q # p => op'[q] = op[q] /\ local'[q] = local[q] /\ synced'[q] = synced[q]
  BY <1>2, <1>3 DEF IInv, TypeOK, MergeConflict
<1>5. op'[p] # None /\ op'[p].pc = "upsert" /\ op'[p].kind = op[p].kind /\ op'[p].by = op[p].by
  BY <1>2, <1>4, NoneIsNothing
<1>6. TypeOK'
  BY <1>4 DEF IInv, TypeOK, MergeConflict
<1>7. SyncedMatchesStore' /\ FirstStore'
  BY <1>1, <1>4, <1>5 DEF IInv, SyncedMatchesStore, FirstStore, MergeConflict
<1>8. Serving'
  BY <1>1, <1>4, <1>5 DEF IInv, Serving, Serves, MergeConflict
<1>9. Pending'
  BY <1>1, <1>3, <1>4, <1>5 DEF IInv, Pending, MergeConflict
<1> QED BY <1>6, <1>7, <1>8, <1>9 DEF IInv

\* The UPSERT succeeds.
LEMMA StepUpsert ==
  ASSUME IInv, BreakerAssumption, NEW p \in Procs, Upsert(p)
  PROVE  IInv'
<1>1. Settled(p, local[p])
  BY FinishSettles DEF IInv, Upsert
<1>2. row' \in Stored /\ Agree(local'[p], row')
  BY DEF IInv, TypeOK, Upsert, Agree
<1>3. synced' \in [Procs -> BOOLEAN] /\ \A q \in Procs : q # p => ~synced'[q]
  BY DEF Upsert
<1> QED BY <1>1, <1>2, <1>3, OperationEnds DEF IInv, TypeOK, Upsert

\* After the last attempt the stored row is adopted.
LEMMA StepGiveUp ==
  ASSUME IInv, BreakerAssumption, NEW p \in Procs, GiveUp(p)
  PROVE  IInv'
<1>1. Settled(p, row)
  BY FinishSettles DEF IInv, GiveUp, Adopted
<1>2. row # None /\ row' = row /\ row \in Stored
  BY DEF IInv, FirstStore, TypeOK, GiveUp
<1>3. /\ local' \in [Procs -> Stored] /\ local'[p] = row
      /\ synced' \in [Procs -> BOOLEAN]
      /\ \A q \in Procs : q # p => local'[q] = local[q] /\ synced'[q] = synced[q]
  BY <1>2 DEF IInv, TypeOK, GiveUp, Adopted
<1>4. Agree(local'[p], row')
  BY <1>2, <1>3 DEF Agree
<1> QED BY <1>1, <1>2, <1>3, <1>4, OperationEnds DEF IInv, TypeOK, GiveUp

\* A probe takes a lease, or is turned away.
LEMMA StepAcquire ==
  ASSUME IInv, BreakerAssumption, NEW p \in Procs, AcquireLease(p)
  PROVE  IInv'
<1> DEFINE c == op[p].by
<1>1. /\ row # None /\ row \in Stored /\ op[p] \in Operations /\ local[p] \in Stored
      /\ c \in Calls /\ ProcOf[c] = p
  BY NoneIsNothing DEF IInv, TypeOK, FirstStore, Serving, Serves, AcquireLease
<1>2. op' \in [Procs -> Operations \union {None}] /\ op'[p] = None /\ \A q \in Procs : q # p => op'[q] = op[q]
  BY DEF IInv, TypeOK, AcquireLease
<1>3. /\ call' \in [Calls -> CallStates] /\ \A d \in Calls : d # c => call'[d] = call[d]
      /\ leases' \subseteq LeaseIds
  <2>1. ASSUME NEW l \in LeaseIds, leases' = leases \union {l},
               call' = [call EXCEPT ![c] = [pc |-> "running", lease |-> l]]
        PROVE  /\ call' \in [Calls -> CallStates] /\ \A d \in Calls : d # c => call'[d] = call[d]
               /\ leases' \subseteq LeaseIds
    BY <1>1, <2>1 DEF IInv, TypeOK, CallStates
  <2>2. CASE leases' = leases /\ call' = [call EXCEPT ![c] = NoCall]
    BY <1>1, <2>2 DEF IInv, TypeOK, CallStates, NoCall
  <2> QED BY <2>1, <2>2 DEF AcquireLease
<1>4. /\ local' \in [Procs -> Stored] /\ \A q \in Procs : q # p => local'[q] = local[q]
      /\ local'[p] = [local[p] EXCEPT !.half_open_calls = @ + 1] \/ local'[p] = local[p]
  <2>1. [local[p] EXCEPT !.half_open_calls = @ + 1] \in Stored
    BY <1>1 DEF Stored
  <2> QED BY <2>1 DEF IInv, TypeOK, AcquireLease
<1>5. Agree(local'[p], local[p])
  BY <1>1, <1>4 DEF Agree, Stored
<1>6. synced'[p] => Agree(local'[p], row')
  BY <1>1, <1>5 DEF IInv, SyncedMatchesStore, AcquireLease, Agree
<1>7. Settled(p, local[p])
  BY <1>1, <1>2, <1>3 DEF Settled
<1> QED BY <1>1, <1>3, <1>4, <1>6, <1>7, OperationEnds DEF IInv, TypeOK, AcquireLease

\* Without lease rows the probes are counted.
LEMMA StepCount ==
  ASSUME IInv, BreakerAssumption, NEW p \in Procs, CountLeases(p)
  PROVE  IInv'
<1> DEFINE c == op[p].by
           s == IF Cardinality(leases) < MaxProbes THEN "running" ELSE "idle"
<1>1. /\ row # None /\ row \in Stored /\ op[p] \in Operations
      /\ c \in Calls /\ ProcOf[c] = p /\ call[c] \in CallStates
  BY NoneIsNothing DEF IInv, TypeOK, FirstStore, Serving, Serves, CountLeases, CallStates
<1>2. op' \in [Procs -> Operations \union {None}] /\ op'[p] = None /\ \A q \in Procs : q # p => op'[q] = op[q]
  BY DEF IInv, TypeOK, CountLeases
<1>3. /\ call' \in [Calls -> CallStates] /\ \A d \in Calls : d # c => call'[d] = call[d]
  <2>1. [call[c] EXCEPT !.pc = s] \in CallStates
    BY <1>1 DEF CallStates
  <2>2. call' = [call EXCEPT ![c].pc = s]
    BY DEF CountLeases
  <2> QED BY <1>1, <2>1, <2>2 DEF IInv, TypeOK, CallStates
<1>4. synced'[p] => Agree(local'[p], row')
  BY <1>1 DEF IInv, SyncedMatchesStore, CountLeases
<1>5. Settled(p, local[p])
  BY <1>1, <1>2, <1>3 DEF Settled
<1> QED BY <1>1, <1>4, <1>5, OperationEnds DEF IInv, TypeOK, CountLeases

\* A call moves on and its process keeps what it has.
LEMMA CallMoves ==
  ASSUME IInv, BreakerAssumption, NEW c \in Calls, Unlocked(ProcOf[c]) \/ call[c].pc = "running",
         call' \in [Calls -> CallStates], \A d \in Calls : d # c => call'[d] = call[d],
         UNCHANGED <<row, op, synced>>, leases' \subseteq LeaseIds, local' \in [Procs -> Stored],
         \A q \in Procs : local'[q] = local[q] \/ (Unlocked(q) /\ Agree(local'[q], local[q]))
  PROVE  IInv'
<1>1. TypeOK'
  BY DEF IInv, TypeOK, CallStates
<1>2. SyncedMatchesStore'
  BY DEF IInv, SyncedMatchesStore, Agree
<1>3. FirstStore'
  BY DEF IInv, FirstStore
<1>4. ASSUME NEW q \in Procs, op[q] # None PROVE Serves(q, op[q], call')
  <2>1. Serves(q, op[q], call)
    BY <1>4 DEF IInv, Serving
  <2>2. op[q].by = c => ProcOf[c] = q
    BY <2>1, NoneIsNothing DEF Serves
  <2> QED BY <1>4, <2>1, <2>2 DEF Serves, Unlocked
<1>5. Serving'
  BY <1>4 DEF Serving
<1>6. Pending'
  BY DEF IInv, Pending, Unlocked
<1> QED BY <1>1, <1>2, <1>3, <1>5, <1>6 DEF IInv

\* A call is let in, turned away, or goes through the half-open gate.
LEMMA StepBegin ==
  ASSUME IInv, BreakerAssumption, NEW c \in Calls, Begin(c)
  PROVE  IInv'
<1> DEFINE p == ProcOf[c]
           b == AfterSync(p)
<1>1. /\ p \in Procs /\ Unlocked(p) /\ row # None /\ row \in Stored /\ row' = row
      /\ b \in Stored /\ Agree(b, row) /\ call[c] \in CallStates
  BY UnlockedStored DEF Begin, BreakerAssumption, IInv, TypeOK, CallStates
<1>2. synced' \in [Procs -> BOOLEAN] /\ \A q \in Procs : q # p => synced'[q] = synced[q]
  BY DEF Begin, IInv, TypeOK
<1>3. CASE /\ StartPersist(p, Anew("half_open"), "upsert", "transition", c)
           /\ call' = [call EXCEPT ![c].pc = "entering"]
  <2>1. Anew("half_open") \in Stored /\ Prepared("transition", row, Anew("half_open"))
    BY AnewStored DEF BreakerStates, Prepared, Anew
  <2>2. [call[c] EXCEPT !.pc = "entering"] \in CallStates
    BY <1>1 DEF CallStates
  <2>3. call' \in [Calls -> CallStates] /\ \A d \in Calls : d # c => call'[d] = call[d]
    BY <1>3, <2>2 DEF IInv, TypeOK, CallStates
  <2> QED BY <1>1, <1>2, <1>3, <2>1, <2>3, PersistStarts DEF Begin, IInv, TypeOK, Mutations
<1>4. CASE Admit(c, b) /\ local' = [local EXCEPT ![p] = b]
  <2>1. Settled(p, b)
    BY <1>4, AdmitSettles DEF IInv
  <2>2. local' \in [Procs -> Stored] /\ local'[p] = b /\ \A q \in Procs : q # p => local'[q] = local[q]
    BY <1>1, <1>4 DEF IInv, TypeOK
  <2> QED BY <1>1, <1>2, <2>1, <2>2, OperationEnds DEF Begin, IInv, TypeOK
<1> QED BY <1>3, <1>4 DEF Begin

\* The outcome of a call is recorded.
LEMMA StepRecord ==
  ASSUME IInv, BreakerAssumption, NEW c \in Calls, RecordSuccess(c) \/ RecordFailure(c)
  PROVE  IInv'
<1> DEFINE p == ProcOf[c]
           b == Recorded(c)
<1>1. /\ p \in Procs /\ Unlocked(p) /\ row # None /\ row \in Stored /\ row' = row
      /\ b \in Stored /\ call[c] \in CallStates
  BY UnlockedStored DEF RecordSuccess, RecordFailure, StartRecord, Recorded, BreakerAssumption, IInv, TypeOK, CallStates
<1>2. /\ synced' \in [Procs -> BOOLEAN] /\ \A q \in Procs : q # p => synced'[q] = synced[q]
      /\ synced'[p] => Agree(b, row)
  BY <1>1, UnlockedStored DEF RecordSuccess, RecordFailure, StartRecord, Recorded, IInv, TypeOK
<1>3. call' \in [Calls -> CallStates] /\ \A d \in Calls : d # c => call'[d] = call[d]
  <2>1. [call[c] EXCEPT !.pc = "recording"] \in CallStates
    BY <1>1 DEF CallStates
  <2> QED BY <2>1 DEF RecordSuccess, RecordFailure, StartRecord, IInv, TypeOK, CallStates
<1>4. ASSUME NEW kind \in {"success", "failure"}, NEW d \in Stored, StartRecord(c, b, d, kind),
             synced'[p] => /\ d.state = b.state => Prepared(kind, row, d)
                           /\ d.state # b.state => Prepared("transition", row, d)
      PROVE  IInv'
  <2>1. CASE d.state = b.state
    <3>1. StartPersist(p, d, "upsert", kind, c) /\ leases' \subseteq LeaseIds
      BY <1>4, <2>1 DEF StartRecord, IInv, TypeOK
    <3>2. kind \in Mutations /\ kind # "reset"
      BY DEF Mutations
    <3> QED BY <1>1, <1>2, <1>3, <1>4, <2>1, <3>1, <3>2, PersistStarts
  <2>2. CASE d.state # b.state
    <3>1. StartPersist(p, d, "clear", "transition", c) /\ leases' \subseteq LeaseIds
      BY <1>4, <2>2 DEF StartRecord, IInv, TypeOK
    <3>2. "transition" \in Mutations /\ (synced'[p] => Prepared("transition", row, d))
      BY <1>4, <2>2 DEF Mutations
    <3> QED BY <1>1, <1>2, <1>3, <3>1, <3>2, PersistStarts
  <2> QED BY <2>1, <2>2
<1>5. OnSuccess(b) \in Stored /\ OnFailure(b) \in Stored
  BY <1>1, RecordStored
<1>6. CASE RecordSuccess(c)
  <2>1. synced'[p] => /\ OnSuccess(b).state = b.state => Prepared("success", row, OnSuccess(b))
                      /\ OnSuccess(b).state # b.state => Prepared("transition", row, OnSuccess(b))
    BY <1>1, <1>2, RecordPrepared
  <2> QED BY <1>4, <1>5, <1>6, <2>1 DEF RecordSuccess
<1>7. CASE RecordFailure(c)
  <2>1. synced'[p] => /\ OnFailure(b).state = b.state => Prepared("failure", row, OnFailure(b))
                      /\ OnFailure(b).state # b.state => Prepared("transition", row, OnFailure(b))
    BY <1>1, <1>2, RecordPrepared
  <2> QED BY <1>4, <1>5, <1>7, <2>1 DEF RecordFailure
<1> QED BY <1>6, <1>7

\* A call ends in a way that is not recorded.
LEMMA StepPassThrough ==
  ASSUME IInv, BreakerAssumption, NEW c \in Calls, PassThrough(c)
  PROVE  IInv'
<1>1. call[c] \in CallStates /\ NoCall \in CallStates
  BY DEF IInv, TypeOK, CallStates, NoCall
<1>2. [call[c] EXCEPT !.pc = "releasing"] \in CallStates
  BY <1>1 DEF CallStates
<1>3. call' \in [Calls -> CallStates] /\ \A d \in Calls : d # c => call'[d] = call[d]
  BY <1>1, <1>2 DEF IInv, TypeOK, PassThrough, CallStates
<1>4. /\ call[c].pc = "running" /\ UNCHANGED <<row, op, synced>> /\ leases' \subseteq LeaseIds
      /\ local' \in [Procs -> Stored] /\ local' = local
  BY DEF PassThrough, IInv, TypeOK
<1> QED BY <1>3, <1>4, CallMoves

\* The probe slot is given back.
LEMMA StepRelease ==
  ASSUME IInv, BreakerAssumption, NEW c \in Calls, Release(c)
  PROVE  IInv'
<1> DEFINE p == ProcOf[c]
           r == [local[p] EXCEPT !.half_open_calls = SlotLess(@)]
<1>1. p \in Procs /\ local[p] \in Stored /\ NoCall \in CallStates /\ Unlocked(p)
  BY DEF IInv, TypeOK, CallStates, NoCall, BreakerAssumption, Release
<1>2. call' \in [Calls -> CallStates] /\ \A d \in Calls : d # c => call'[d] = call[d]
  BY <1>1 DEF IInv, TypeOK, Release, CallStates
<1>3. r \in Stored /\ Agree(r, local[p])
  <2>1. SlotLess(local[p].half_open_calls) \in Nat
    BY <1>1 DEF Stored, SlotLess
  <2> QED BY <1>1, <2>1 DEF Stored, Agree
<1>4. local' = [local EXCEPT ![p] = r]
  BY DEF Release
<1>5. local' \in [Procs -> Stored] /\ local'[p] = r /\ \A q \in Procs : q # p => local'[q] = local[q]
  BY <1>1, <1>3, <1>4 DEF IInv, TypeOK
<1>6. \A q \in Procs : local'[q] = local[q] \/ (Unlocked(q) /\ Agree(local'[q], local[q]))
  BY <1>1, <1>3, <1>5
<1>7. UNCHANGED <<row, op, synced>> /\ leases' \subseteq LeaseIds
  BY DEF Release, IInv, TypeOK
<1> QED BY <1>1, <1>2, <1>5, <1>6, <1>7, CallMoves

\* Somebody reads the state of the breaker.
LEMMA StepInspect ==
  ASSUME IInv, BreakerAssumption, NEW p \in Procs, Inspect(p)
  PROVE  IInv'
<1> DEFINE b == AfterSync(p)
<1>1. /\ Unlocked(p) /\ row # None /\ row \in Stored /\ row' = row /\ b \in Stored /\ Agree(b, row)
      /\ synced' \in [Procs -> BOOLEAN] /\ \A q \in Procs : q # p => synced'[q] = synced[q]
  BY UnlockedStored DEF Inspect, IInv, TypeOK
<1>2. call' \in [Calls -> CallStates] /\ \A c \in Calls : call'[c] = call[c]
  BY DEF Inspect, IInv, TypeOK, CallStates
<1>3. CASE StartPersist(p, Anew("half_open"), "upsert", "transition", None)
  <2>1. Anew("half_open") \in Stored /\ Prepared("transition", row, Anew("half_open"))
    BY AnewStored DEF BreakerStates, Prepared, Anew
  <2> QED BY <1>1, <1>2, <1>3, <2>1, PersistStarts DEF Inspect, IInv, TypeOK, Mutations
<1>4. CASE local' = [local EXCEPT ![p] = b] /\ UNCHANGED op
  <2>1. Settled(p, b)
    BY <1>1, <1>2, <1>4 DEF Settled, Unlocked, IInv, TypeOK
  <2>2. local' \in [Procs -> Stored] /\ local'[p] = b /\ \A q \in Procs : q # p => local'[q] = local[q]
    BY <1>1, <1>4 DEF IInv, TypeOK
  <2> QED BY <1>1, <2>1, <2>2, OperationEnds DEF Inspect, IInv, TypeOK
<1> QED BY <1>3, <1>4 DEF Inspect

\* An operator resets the breaker.
LEMMA StepReset ==
  ASSUME IInv, BreakerAssumption, NEW p \in Procs, Reset(p)
  PROVE  IInv'
<1>1. /\ Unlocked(p) /\ row # None /\ row \in Stored /\ row' = row
      /\ synced' \in [Procs -> BOOLEAN] /\ \A q \in Procs : q # p => synced'[q] = synced[q]
  BY UnlockedStored DEF Reset, IInv, TypeOK
<1>2. Anew("closed") \in Stored /\ Anew("closed").state = "closed" /\ Prepared("reset", row, Anew("closed"))
  BY AnewStored DEF BreakerStates, Prepared, Anew
<1> QED BY <1>1, <1>2, PersistStarts DEF Reset, IInv, TypeOK, CallStates, Mutations

\* An operator forces a state.
LEMMA StepForceState ==
  ASSUME IInv, BreakerAssumption, NEW p \in Procs, NEW s \in {"open", "half_open"}, ForceState(p, s)
  PROVE  IInv'
<1>1. Unlocked(p) /\ row # None /\ row' = row
  BY UnlockedStored DEF ForceState
<1>2. Anew(s) \in Stored /\ Prepared("transition", row, Anew(s))
  BY AnewStored DEF BreakerStates, Prepared, Anew
<1>3. CASE s = "open"
  <2>1. StartPersist(p, Anew(s), "clear", "transition", None)
    BY <1>3 DEF ForceState
  <2> QED BY <1>1, <1>2, <2>1, PersistStarts DEF ForceState, IInv, TypeOK, CallStates, Mutations
<1>4. CASE s = "half_open"
  <2>1. StartPersist(p, Anew(s), "upsert", "transition", None)
    BY <1>4 DEF ForceState
  <2> QED BY <1>1, <1>2, <2>1, PersistStarts DEF ForceState, IInv, TypeOK, CallStates, Mutations
<1> QED BY <1>3, <1>4

\* A probe lease runs out.
LEMMA StepExpire ==
  ASSUME IInv, NEW l \in LeaseIds, Expire(l)
  PROVE  IInv'
<1>1. TypeOK'
  BY DEF IInv, TypeOK, Expire
<1> QED BY <1>1 DEF IInv, SyncedMatchesStore, FirstStore, Serving, Pending, Expire

\* A process restarts, with its calls gone.
LEMMA StepRestart ==
  ASSUME IInv, BreakerAssumption, NEW p \in Procs, Restart(p)
  PROVE  IInv'
<1>1. /\ call' \in [Calls -> CallStates] /\ \A c \in Calls : ProcOf[c] # p => call'[c] = call[c]
      /\ synced' \in [Procs -> BOOLEAN] /\ \A q \in Procs : q # p => synced'[q] = synced[q]
      /\ synced'[p] /\ row' = row
  BY DEF Restart, IInv, TypeOK, CallStates, NoCall
<1>2. CASE row # None
  <2>1. row \in Stored /\ Agree(row, row)
    BY <1>2 DEF IInv, TypeOK, Agree
  <2>2. local' \in [Procs -> Stored] /\ local'[p] = row /\ \A q \in Procs : q # p => local'[q] = local[q]
    BY <1>2, <2>1 DEF Restart, IInv, TypeOK
  <2>3. Settled(p, row)
    BY <1>1, <1>2 DEF Restart, Settled, IInv, TypeOK
  <2> QED BY <1>1, <2>1, <2>2, <2>3, OperationEnds DEF Restart, IInv, TypeOK
<1>3. CASE row = None
  <2> DEFINE o == [pc |-> "upsert", kind |-> "snapshot_sync", attempt |-> 1, by |-> None]
  <2>1. o \in Operations /\ o.pc = "upsert" /\ o.kind = "snapshot_sync" /\ o.by = None
    BY DEF Operations, Mutations, BreakerAssumption
  <2>2. Anew("closed") \in Stored
    BY AnewStored DEF BreakerStates
  <2>3. /\ op' \in [Procs -> Operations \union {None}] /\ op'[p] = o
        /\ local' \in [Procs -> Stored]
        /\ \A q \in Procs : q # p => op'[q] = op[q] /\ local'[q] = local[q]
    BY <1>3, <2>1, <2>2 DEF Restart, StartPersist, IInv, TypeOK
  <2>4. op'[p] # None
    BY <2>1, <2>3, NoneIsNothing
  <2>5. TypeOK'
    BY <1>1, <2>3 DEF Restart, IInv, TypeOK, CallStates
  <2>6. FirstStore'
    BY <1>1, <1>3, <2>1, <2>3, <2>4 DEF IInv, FirstStore
  <2>7. SyncedMatchesStore'
    BY <1>1, <1>3 DEF SyncedMatchesStore
  <2>8. \A q \in Procs : op'[q].pc = "upsert" /\ op'[q].kind = "snapshot_sync" /\ op'[q].by = None
    BY <1>1, <1>3, <2>6 DEF FirstStore
  <2> QED BY <1>1, <1>3, <2>5, <2>6, <2>7, <2>8 DEF IInv, Serving, Serves, Pending
<1> QED BY <1>2, <1>3

-----------------------------------------------------------------------------
(* The theorems. *)

\* Every step keeps IInv.
LEMMA StepIInv == ASSUME BreakerAssumption, IInv, [Next]_vars PROVE IInv'
<1>1. ASSUME NEW p \in Procs, HolderStep(p) PROVE IInv'
  BY <1>1, StepClear, StepUpsert, StepConflict, StepMerge, StepGiveUp, StepAcquire, StepCount
     DEF HolderStep
<1>2. ASSUME NEW p \in Procs, Inspect(p) PROVE IInv'
  BY <1>2, StepInspect
<1>3. ASSUME NEW p \in Procs, Reset(p) PROVE IInv'
  BY <1>3, StepReset
<1>4. ASSUME NEW p \in Procs, ForceState(p, "open") \/ ForceState(p, "half_open") PROVE IInv'
  BY <1>4, StepForceState
<1>5. ASSUME NEW p \in Procs, Restart(p) PROVE IInv'
  BY <1>5, StepRestart
<1>6. ASSUME NEW c \in Calls, CallStep(c) PROVE IInv'
  BY <1>6, StepBegin, StepRecord, StepPassThrough, StepRelease DEF CallStep
<1>7. ASSUME NEW l \in LeaseIds, Expire(l) PROVE IInv'
  BY <1>7, StepExpire
<1>8. CASE UNCHANGED vars
  <2>1. UNCHANGED <<row, leases, local, synced, op, call>>
    BY <1>8 DEF vars
  <2>2. TypeOK' /\ SyncedMatchesStore' /\ FirstStore'
    BY <2>1 DEF IInv, TypeOK, SyncedMatchesStore, FirstStore
  <2>3. Serving' /\ Pending'
    BY <2>1 DEF IInv, Serving, Pending
  <2> QED BY <2>2, <2>3 DEF IInv
<1> QED BY <1>1, <1>2, <1>3, <1>4, <1>5, <1>6, <1>7, <1>8 DEF Next, ProcessStep

\* The strengthened invariant: whoever holds a lock has a mutation in hand
\* that was prepared on the stored state, or is about to notice that it was
\* not.
THEOREM SafeIInv == Spec => []IInv
<1>1. Init => IInv
  BY StepInit, BreakerAssumption
<1>2. IInv /\ [Next]_vars => IInv'
  BY StepIInv, BreakerAssumption
<1> QED BY <1>1, <1>2, PTL DEF Spec

\* Every variable keeps its type; in particular no count of probes falls
\* below zero, although a sync may overwrite it between acquire and release.
THEOREM SafeTypeOK == Spec => []TypeOK
<1>1. IInv => TypeOK
  BY DEF IInv
<1> QED BY <1>1, SafeIInv, PTL

\* A process that holds the version of the row holds its state.
THEOREM SafeSynced == Spec => []SyncedMatchesStore
<1>1. IInv => SyncedMatchesStore
  BY DEF IInv
<1> QED BY <1>1, SafeIInv, PTL

-----------------------------------------------------------------------------
(* What no step does. *)

\* Only a closed row lets a call in without a lease.
LEMMA NobodyRushesIn ==
  ASSUME BreakerAssumption, IInv, Next, NEW c \in Calls,
         call[c].pc = "idle", call'[c].pc = "running"
  PROVE  row # None /\ row.state = "closed"
<1>1. ASSUME NEW p \in Procs, Upsert(p) \/ GiveUp(p) PROVE FALSE
  BY <1>1, FinishSettles DEF Upsert, GiveUp, IInv
<1>2. ASSUME NEW p \in Procs, AcquireLease(p) \/ CountLeases(p) PROVE FALSE
  <2>1. op[p].by \in Calls /\ call[op[p].by].pc = "entering"
    BY <1>2 DEF AcquireLease, CountLeases, IInv, Serving, Serves
  <2>2. \A d \in Calls : d # op[p].by => call'[d] = call[d]
    BY <1>2, <2>1 DEF AcquireLease, CountLeases, IInv, TypeOK
  <2> QED BY <2>1, <2>2
<1>3. ASSUME NEW p \in Procs, ClearLeases(p) \/ UpsertConflict(p) \/ MergeConflict(p) PROVE FALSE
  BY <1>3 DEF ClearLeases, UpsertConflict, MergeConflict
<1>4. ASSUME NEW p \in Procs,
             Inspect(p) \/ Reset(p) \/ ForceState(p, "open") \/ ForceState(p, "half_open")
      PROVE  FALSE
  BY <1>4 DEF Inspect, Reset, ForceState
<1>5. ASSUME NEW p \in Procs, Restart(p) PROVE FALSE
  BY <1>5 DEF Restart, NoCall
<1>6. ASSUME NEW l \in LeaseIds, Expire(l) PROVE FALSE
  BY <1>6 DEF Expire
<1>7. ASSUME NEW d \in Calls, RecordSuccess(d) \/ RecordFailure(d) PROVE FALSE
  BY <1>7 DEF RecordSuccess, RecordFailure, StartRecord, IInv, TypeOK
<1>8. ASSUME NEW d \in Calls, PassThrough(d) \/ Release(d) PROVE FALSE
  BY <1>8 DEF PassThrough, Release, NoCall, IInv, TypeOK
<1>9. ASSUME NEW d \in Calls, Begin(d) PROVE row # None /\ row.state = "closed"
  <2> DEFINE b == AfterSync(ProcOf[d])
  <2>1. ProcOf[d] \in Procs /\ Unlocked(ProcOf[d])
    BY <1>9 DEF Begin, BreakerAssumption
  <2>2. row # None /\ b.state = row.state
    BY <2>1, UnlockedStored DEF Agree
  <2>3. CASE call' = [call EXCEPT ![d].pc = "entering"]
    BY <2>3 DEF IInv, TypeOK
  <2>4. CASE Admit(d, b)
    <3>1. d = c
      BY <2>4, AdmitSettles DEF IInv
    <3> QED BY <2>2, <2>4, <3>1, AdmitSettles DEF IInv
  <2> QED BY <1>9, <2>3, <2>4 DEF Begin
<1> QED BY <1>1, <1>2, <1>3, <1>4, <1>5, <1>6, <1>7, <1>8, <1>9
        DEF Next, ProcessStep, HolderStep, CallStep

\* Nobody is let through on a stale CLOSED: when a call runs without having
\* looked at the probes, the stored state is CLOSED.
THEOREM SafeAdmission == Spec => AdmittedWhenClosed
<1>1. IInv /\ [Next]_vars =>
        [\A c \in Calls : call[c].pc = "idle" /\ call'[c].pc = "running"
                            => row # None /\ row.state = "closed"]_vars
  BY NobodyRushesIn, BreakerAssumption
<1> QED BY <1>1, SafeIInv, PTL DEF Spec, AdmittedWhenClosed

\* Only an UPSERT changes the row.
LEMMA RowIsUpserted ==
  ASSUME Next, row' # row
  PROVE  \E p \in Procs : Upsert(p)
<1>1. ASSUME NEW p \in Procs, HolderStep(p) PROVE Upsert(p)
  BY <1>1 DEF HolderStep, ClearLeases, UpsertConflict, MergeConflict, GiveUp, AcquireLease, CountLeases
<1>2. ASSUME NEW p \in Procs,
             \/ Inspect(p) \/ Reset(p) \/ ForceState(p, "open") \/ ForceState(p, "half_open")
             \/ Restart(p)
      PROVE  FALSE
  BY <1>2 DEF Inspect, Reset, ForceState, Restart
<1>3. ASSUME NEW c \in Calls, CallStep(c) PROVE FALSE
  BY <1>3 DEF CallStep, Begin, RecordSuccess, RecordFailure, StartRecord, PassThrough, Release
<1>4. ASSUME NEW l \in LeaseIds, Expire(l) PROVE FALSE
  BY <1>4 DEF Expire
<1> QED BY <1>1, <1>2, <1>3, <1>4 DEF Next, ProcessStep

\* An UPSERT writes what was prepared against the row it replaces.
LEMMA UpsertPrepared ==
  ASSUME IInv, NEW p \in Procs, Upsert(p), row # None
  PROVE  /\ op[p].kind \in Mutations /\ Prepared(op[p].kind, row, row')
         /\ op[p].kind = "reset" => row'.state \in {"open", "closed"}
  BY DEF IInv, TypeOK, Operations, Pending, Upsert

\* Only a transition or a reset takes the row out of 'open'.
LEMMA LeavingOpen ==
  ASSUME BreakerAssumption, IInv, Next, row # None, row.state = "open", row'.state # "open"
  PROVE  \E p \in Procs : /\ op[p] # None /\ op'[p] # op[p]
                          /\ \/ op[p].kind = "transition" /\ row'.state = "half_open"
                             \/ op[p].kind = "reset" /\ row'.state = "closed"
<1>1. PICK p \in Procs : Upsert(p)
  BY RowIsUpserted
<1>2. /\ op[p].kind \in Mutations /\ Prepared(op[p].kind, row, row')
      /\ op[p].kind = "reset" => row'.state \in {"open", "closed"}
  BY <1>1, UpsertPrepared
<1>3. op[p] # None /\ op[p].pc = "upsert"
  BY <1>1 DEF Upsert
<1>4. op'[p] # op[p]
  BY <1>1, <1>3, FinishSettles DEF Upsert, Settled, IInv
<1>5. \/ op[p].kind = "transition" /\ row'.state = "half_open"
      \/ op[p].kind = "reset" /\ row'.state = "closed"
  BY <1>2 DEF Prepared, Mutations
<1> QED BY <1>3, <1>4, <1>5

\* MERGE_POLICY_CONTRACT_V1, 1: only a move to HALF_OPEN or a reset takes
\* the shared breaker out of OPEN.
THEOREM SafeOpen == Spec => OpenIsSticky
<1>1. IInv /\ [Next]_vars =>
        [row # None /\ row.state = "open" /\ row'.state # "open"
           => \E p \in Procs : /\ op[p] # None /\ op'[p] # op[p]
                               /\ \/ op[p].kind = "transition" /\ row'.state = "half_open"
                                  \/ op[p].kind = "reset" /\ row'.state = "closed"]_vars
  BY LeavingOpen, BreakerAssumption
<1> QED BY <1>1, SafeIInv, PTL DEF Spec, OpenIsSticky

-----------------------------------------------------------------------------
(* Reports.  While a report is in hand, the copy is the stored state with  *)
(* this report added, or what a merge has made of it.                      *)

\* What a report in hand may do to the stored state when it is stored.
Lands(o, stored, mine) ==
  \/ AddsReport(o.kind, stored, mine)
  \/ o.attempt > 1 /\ OverridesCounts(o.kind, stored, mine)

Accounted(p) ==
  op[p] # None /\ Reports(p) =>
    /\ op[p].kind \in {"success", "failure", "transition"}
    /\ op[p].kind = "transition" => local[p].state # "half_open"
    /\ op[p].pc \in {"clear", "upsert"} /\ synced[p] /\ row # None
         => Lands(op[p], row, local[p])

Reporting == \A p \in Procs : Accounted(p)

\* A success and a failure do the same to states that agree, and lead to
\* CLOSED and OPEN only.
LEMMA RecordAgrees ==
  ASSUME NEW b \in Stored, NEW stored \in Stored, Agree(b, stored)
  PROVE  /\ Agree(OnSuccess(b), OnSuccess(stored))
         /\ Agree(OnFailure(b), OnFailure(stored))
         /\ OnSuccess(b).state # b.state => OnSuccess(b).state # "half_open"
         /\ OnFailure(b).state # b.state => OnFailure(b).state # "half_open"
<1>1. ASSUME NEW r \in Stored
      PROVE  /\ [r EXCEPT !.failure_count = 0].state = r.state
             /\ [r EXCEPT !.failure_count = 0].failure_count = 0
             /\ [r EXCEPT !.failure_count = 0].success_count = r.success_count
             /\ [r EXCEPT !.failure_count = @ + 1].state = r.state
             /\ [r EXCEPT !.failure_count = @ + 1].failure_count = r.failure_count + 1
             /\ [r EXCEPT !.failure_count = @ + 1].success_count = r.success_count
             /\ [r EXCEPT !.success_count = @ + 1].state = r.state
             /\ [r EXCEPT !.success_count = @ + 1].failure_count = r.failure_count
             /\ [r EXCEPT !.success_count = @ + 1].success_count = r.success_count + 1
  BY DEF Stored
<1> QED BY <1>1 DEF OnSuccess, OnFailure, Agree, Anew

\* A report merged with the latest row adds itself to it, or overrides it.
LEMMA MergeLands ==
  ASSUME NEW kind \in {"success", "failure", "transition"},
         NEW latest \in Stored, NEW mine \in Stored,
         kind = "transition" => mine.state # "half_open"
  PROVE  /\ \/ AddsReport(kind, latest, Merge(kind, latest, mine))
            \/ OverridesCounts(kind, latest, Merge(kind, latest, mine))
         /\ kind = "transition" => Merge(kind, latest, mine).state # "half_open"
<1>1. [latest EXCEPT !.half_open_calls = 0].state = latest.state
  BY DEF Stored
<1>2. CASE kind = "success"
  <2>1. CASE latest.state = "open"
    BY <1>1, <1>2, <2>1 DEF Merge, MergeSuccess, OverridesCounts
  <2>2. CASE latest.state # "open"
    BY <1>2, <2>2 DEF Merge, MergeSuccess, AddsReport, Agree
  <2> QED BY <1>2, <2>1, <2>2
<1>3. CASE kind = "failure"
  <2>1. CASE latest.state = "open"
    BY <1>1, <1>3, <2>1 DEF Merge, MergeFailure, OverridesCounts
  <2>2. CASE latest.state = "half_open"
    BY <1>3, <2>2 DEF Merge, MergeFailure, OnFailure, AddsReport, Agree
  <2>3. CASE latest.state = "closed" /\ mine.state = "open"
    BY <1>3, <2>3 DEF Merge, MergeFailure, OverridesCounts, Anew
  <2>4. CASE latest.state = "closed" /\ mine.state # "open"
    BY <1>3, <2>4 DEF Merge, MergeFailure, OnFailure, AddsReport, Agree
  <2> QED BY <1>3, <2>1, <2>2, <2>3, <2>4 DEF Stored, BreakerStates
<1>4. CASE kind = "transition"
  BY <1>4 DEF Merge, MergeSnapshot, OverridesCounts
<1> QED BY <1>2, <1>3, <1>4

\* A step of one process and its calls leaves the reports of the others.
LEMMA OthersAccounted ==
  ASSUME BreakerAssumption, IInv, Reporting, NEW p \in Procs,
         \A q \in Procs : q # p => /\ op'[q] = op[q] /\ local'[q] = local[q]
                                   /\ synced'[q] => synced[q] /\ row' = row,
         \A c \in Calls : ProcOf[c] # p => call'[c] = call[c],
         Accounted(p)'
  PROVE  Reporting'
<1>1. ASSUME NEW q \in Procs, q # p PROVE Accounted(q)'
  <2> SUFFICES ASSUME op'[q] # None, Reports(q)'
               PROVE  /\ op'[q].kind \in {"success", "failure", "transition"}
                      /\ op'[q].kind = "transition" => local'[q].state # "half_open"
                      /\ op'[q].pc \in {"clear", "upsert"} /\ synced'[q] /\ row' # None
                           => Lands(op'[q], row', local'[q])
    BY DEF Accounted
  <2>1. op[q] # None /\ op'[q] = op[q] /\ local'[q] = local[q]
    BY <1>1
  <2>2. op[q].by # None /\ op[q].by \in Calls /\ ProcOf[op[q].by] = q
    BY <2>1 DEF Reports, IInv, TypeOK, Operations, Serving, Serves
  <2>3. Reports(q)
    BY <1>1, <2>1, <2>2 DEF Reports
  <2> QED BY <1>1, <2>1, <2>3 DEF Reporting, Accounted
<1> QED BY <1>1 DEF Reporting

\* The process whose operation is over, or only asks for a slot, has no
\* report in hand.
LEMMA SettledAccounted ==
  ASSUME BreakerAssumption, IInv, Reporting, NEW p \in Procs, NEW b, Settled(p, b),
         \A q \in Procs : q # p => /\ local'[q] = local[q]
                                   /\ synced'[q] => synced[q] /\ row' = row
  PROVE  Reporting'
<1>1. op'[p] # None => ~Reports(p)'
  BY DEF Settled, Serves, Reports
<1>2. Accounted(p)'
  BY <1>1 DEF Accounted
<1> QED BY <1>2, OthersAccounted DEF Settled

\* What is persisted for nobody, or for a call that is not let in yet, is no
\* report.
LEMMA OtherPersists ==
  ASSUME BreakerAssumption, IInv, Reporting, NEW p \in Procs, NEW b, NEW pc, NEW kind,
         NEW by \in Calls \union {None}, StartPersist(p, b, pc, kind, by),
         row' = row, \A q \in Procs : q # p => synced'[q] = synced[q],
         \A c \in Calls : ProcOf[c] # p => call'[c] = call[c],
         by # None => call'[by].pc # "recording"
  PROVE  Reporting'
<1>1. op'[p].by = by
  BY DEF StartPersist, IInv, TypeOK
<1>2. Accounted(p)'
  BY <1>1 DEF Accounted, Reports
<1>3. \A q \in Procs : q # p => op'[q] = op[q] /\ local'[q] = local[q]
  BY DEF StartPersist, IInv, TypeOK
<1> QED BY <1>2, <1>3, OthersAccounted
\* The holder of a lock keeps what it has in hand accounted for.
LEMMA HolderReports ==
  ASSUME BreakerAssumption, IInv, Reporting, NEW p \in Procs, HolderStep(p)
  PROVE  Reporting'
<1>1. op[p] # None /\ op[p] \in Operations /\ local[p] \in Stored
  BY DEF HolderStep, ClearLeases, Upsert, UpsertConflict, MergeConflict, GiveUp, AcquireLease,
         CountLeases, IInv, TypeOK
<1>2. CASE ClearLeases(p) \/ UpsertConflict(p)
  <2>1. PICK pc \in {"upsert", "load"} :
          /\ op' = [op EXCEPT ![p].pc = pc]
          /\ UNCHANGED <<row, local, synced, call>>
          /\ pc = "upsert" => op[p].pc = "clear"
    BY <1>2 DEF ClearLeases, UpsertConflict
  <2>2. /\ op'[p].kind = op[p].kind /\ op'[p].by = op[p].by /\ op'[p].attempt = op[p].attempt
        /\ op'[p].pc = pc /\ \A q \in Procs : q # p => op'[q] = op[q]
    BY <1>1, <2>1 DEF IInv, TypeOK, Operations
  <2>3. Accounted(p)'
    BY <1>1, <2>1, <2>2 DEF Reporting, Accounted, Reports, Lands
  <2> QED BY <2>1, <2>2, <2>3, OthersAccounted
<1>3. CASE MergeConflict(p)
  <2> DEFINE m == Merge(op[p].kind, row, local[p])
  <2>1. row # None /\ row \in Stored
    BY <1>3 DEF MergeConflict, IInv, FirstStore, TypeOK
  <2>2. op' = [op EXCEPT ![p] = [op[p] EXCEPT !.pc = "upsert", !.attempt = op[p].attempt + 1]]
    BY <1>3 DEF MergeConflict, NextAttempt
  <2>3. /\ op'[p].kind = op[p].kind /\ op'[p].by = op[p].by /\ op'[p].attempt = op[p].attempt + 1
        /\ \A q \in Procs : q # p => op'[q] = op[q]
    BY <1>1, <2>2 DEF IInv, TypeOK, Operations
  <2>4. op'[p].attempt > 1
    BY <1>1, <2>3 DEF Operations, BreakerAssumption
  <2>5. /\ local'[p] = m /\ UNCHANGED <<row, call>>
        /\ \A q \in Procs : q # p => local'[q] = local[q] /\ synced'[q] = synced[q]
    BY <1>3 DEF MergeConflict, IInv, TypeOK
  <2>6. ASSUME Reports(p)'
        PROVE  /\ op'[p].kind \in {"success", "failure", "transition"}
               /\ op'[p].kind = "transition" => local'[p].state # "half_open"
               /\ Lands(op'[p], row', local'[p])
    <3>1. Reports(p)
      BY <2>3, <2>5, <2>6 DEF Reports
    <3>2. /\ op[p].kind \in {"success", "failure", "transition"}
          /\ op[p].kind = "transition" => local[p].state # "half_open"
      BY <1>1, <3>1 DEF Reporting, Accounted
    <3>3. /\ AddsReport(op[p].kind, row, m) \/ OverridesCounts(op[p].kind, row, m)
          /\ op[p].kind = "transition" => m.state # "half_open"
      BY <1>1, <2>1, <3>2, MergeLands
    <3> HIDE DEF m
    <3> QED BY <2>3, <2>4, <2>5, <3>2, <3>3 DEF Lands
  <2>7. Accounted(p)'
    BY <2>6 DEF Accounted
  <2> QED BY <2>3, <2>5, <2>7, OthersAccounted
<1>4. CASE Upsert(p)
  <2>1. Settled(p, local[p])
    BY <1>1, <1>4, FinishSettles DEF Upsert, IInv
  <2> QED BY <1>4, <2>1, SettledAccounted DEF Upsert
<1>5. CASE GiveUp(p)
  <2>1. Settled(p, row)
    BY <1>1, <1>5, FinishSettles DEF GiveUp, Adopted, IInv
  <2> QED BY <1>5, <2>1, SettledAccounted DEF GiveUp, IInv, TypeOK
<1>6. CASE AcquireLease(p) \/ CountLeases(p)
  <2>1. op[p].by \in Calls /\ ProcOf[op[p].by] = p
    BY <1>1, <1>6, NoneIsNothing DEF AcquireLease, CountLeases, IInv, Serving, Serves
  <2>2. \A c \in Calls : ProcOf[c] # p => call'[c] = call[c]
    BY <1>6, <2>1 DEF AcquireLease, CountLeases, IInv, TypeOK
  <2>3. op'[p] = None /\ UNCHANGED <<row, synced>>
        /\ \A q \in Procs : q # p => op'[q] = op[q] /\ local'[q] = local[q]
    BY <1>6 DEF AcquireLease, CountLeases, IInv, TypeOK
  <2>4. Accounted(p)'
    BY <2>3 DEF Accounted
  <2> QED BY <2>2, <2>3, <2>4, OthersAccounted
<1> QED BY <1>2, <1>3, <1>4, <1>5, <1>6 DEF HolderStep

\* A call that reports has its report in hand, added to the copy of its
\* process.
LEMMA RecordReports ==
  ASSUME BreakerAssumption, IInv, Reporting, NEW c \in Calls, RecordSuccess(c) \/ RecordFailure(c)
  PROVE  Reporting'
<1> DEFINE p == ProcOf[c]
           b == Recorded(c)
<1>1. /\ p \in Procs /\ Unlocked(p) /\ row # None /\ row \in Stored /\ row' = row /\ b \in Stored
  BY UnlockedStored DEF RecordSuccess, RecordFailure, StartRecord, Recorded, BreakerAssumption, IInv, TypeOK
<1>2. /\ \A q \in Procs : q # p => synced'[q] = synced[q]
      /\ synced'[p] => Agree(b, row)
  BY <1>1, UnlockedStored DEF RecordSuccess, RecordFailure, StartRecord, Recorded, IInv, TypeOK
<1>3. \A d \in Calls : d # c => call'[d] = call[d]
  BY DEF RecordSuccess, RecordFailure, StartRecord, IInv, TypeOK
<1>4. ASSUME NEW kind \in {"success", "failure"}, NEW d \in Stored, StartRecord(c, b, d, kind),
             d.state # b.state => d.state # "half_open",
             synced'[p] => AddsReport(kind, row, d) /\ AddsReport("transition", row, d)
      PROVE  Reporting'
  <2>1. PICK pc \in {"clear", "upsert"}, k \in {kind, "transition"} :
          StartPersist(p, d, pc, k, c) /\ (k = "transition" => d.state # "half_open")
    BY <1>4 DEF StartRecord
  <2>2. /\ op'[p].kind = k /\ local'[p] = d
        /\ \A q \in Procs : q # p => op'[q] = op[q] /\ local'[q] = local[q]
    BY <1>1, <2>1 DEF StartPersist, IInv, TypeOK
  <2>3. Accounted(p)'
    BY <1>1, <1>4, <2>1, <2>2 DEF Accounted, Lands
  <2> QED BY <1>1, <1>2, <1>3, <2>2, <2>3, OthersAccounted
<1>5. OnSuccess(b) \in Stored /\ OnFailure(b) \in Stored
  BY <1>1, RecordStored
<1>6. CASE RecordSuccess(c)
  <2>1. OnSuccess(b).state # b.state => OnSuccess(b).state # "half_open"
    BY <1>1, RecordAgrees DEF Agree
  <2>2. synced'[p] => AddsReport("success", row, OnSuccess(b)) /\ AddsReport("transition", row, OnSuccess(b))
    BY <1>1, <1>2, RecordAgrees DEF AddsReport
  <2> QED BY <1>4, <1>5, <1>6, <2>1, <2>2 DEF RecordSuccess
<1>7. CASE RecordFailure(c)
  <2>1. OnFailure(b).state # b.state => OnFailure(b).state # "half_open"
    BY <1>1, RecordAgrees DEF Agree
  <2>2. synced'[p] => AddsReport("failure", row, OnFailure(b)) /\ AddsReport("transition", row, OnFailure(b))
    BY <1>1, <1>2, RecordAgrees DEF AddsReport
  <2> QED BY <1>4, <1>5, <1>7, <2>1, <2>2 DEF RecordFailure
<1> QED BY <1>6, <1>7

\* A call that is let in, passes or leaves has no report in hand.
LEMMA CallReports ==
  ASSUME BreakerAssumption, IInv, Reporting, NEW c \in Calls,
         Begin(c) \/ PassThrough(c) \/ Release(c)
  PROVE  Reporting'
<1> DEFINE p == ProcOf[c]
           b == AfterSync(p)
<1>1. p \in Procs /\ row' = row
  BY DEF Begin, PassThrough, Release, BreakerAssumption
<1>2. CASE Begin(c)
  <2>1. \A q \in Procs : q # p => synced'[q] = synced[q]
    BY <1>2 DEF Begin, IInv, TypeOK
  <2>2. CASE /\ StartPersist(p, Anew("half_open"), "upsert", "transition", c)
             /\ call' = [call EXCEPT ![c].pc = "entering"]
    <3>1. call'[c].pc # "recording" /\ \A d \in Calls : d # c => call'[d] = call[d]
      BY <2>2 DEF IInv, TypeOK
    <3> QED BY <1>1, <2>1, <2>2, <3>1, OtherPersists
  <2>3. CASE Admit(c, b) /\ local' = [local EXCEPT ![p] = b]
    <3>1. Settled(p, b)
      BY <2>3, AdmitSettles DEF IInv
    <3> QED BY <1>1, <2>1, <2>3, <3>1, SettledAccounted
  <2> QED BY <1>2, <2>2, <2>3 DEF Begin
<1>3. CASE PassThrough(c) \/ Release(c)
  <2>1. /\ call'[c].pc # "recording" /\ \A d \in Calls : d # c => call'[d] = call[d]
        /\ UNCHANGED <<row, op, synced>>
        /\ \A q \in Procs : q # p => local'[q] = local[q]
        /\ local'[p] = local[p] \/ Unlocked(p)
    BY <1>3 DEF PassThrough, Release, NoCall, IInv, TypeOK
  <2>2. Accounted(p)'
    <3>1. CASE Unlocked(p)
      BY <2>1, <3>1 DEF Accounted, Unlocked
    <3>2. CASE local'[p] = local[p]
      <4>1. op[p] # None /\ Reports(p)' => Reports(p)
        BY <1>1, <2>1 DEF Reports, IInv, TypeOK, Operations
      <4> QED BY <1>1, <2>1, <3>2, <4>1 DEF Reporting, Accounted
    <3> QED BY <2>1, <3>1, <3>2
  <2> QED BY <1>1, <2>1, <2>2, OthersAccounted
<1> QED BY <1>2, <1>3

\* Inspections, operators, expiring leases and restarts report nothing.
LEMMA OthersReportNothing ==
  ASSUME BreakerAssumption, IInv, Reporting, NEW p \in Procs,
         \/ Inspect(p) \/ Reset(p) \/ ForceState(p, "open") \/ ForceState(p, "half_open")
         \/ Restart(p)
  PROVE  Reporting'
<1>1. /\ row' = row /\ \A q \in Procs : q # p => synced'[q] = synced[q]
      /\ \A c \in Calls : ProcOf[c] # p => call'[c] = call[c]
  BY DEF Inspect, Reset, ForceState, Restart, IInv, TypeOK
<1>2. CASE \E b, pc, kind : StartPersist(p, b, pc, kind, None)
  BY <1>1, <1>2, OtherPersists
<1>3. CASE /\ op'[p] = None /\ \A q \in Procs : q # p => op'[q] = op[q] /\ local'[q] = local[q]
  <2>1. Accounted(p)'
    BY <1>3 DEF Accounted
  <2> QED BY <1>1, <1>3, <2>1, OthersAccounted
<1>4. Inspect(p) => \/ \E b, pc, kind : StartPersist(p, b, pc, kind, None)
                    \/ /\ op'[p] = None
                       /\ \A q \in Procs : q # p => op'[q] = op[q] /\ local'[q] = local[q]
  BY DEF Inspect, Unlocked, IInv, TypeOK
<1>5. Reset(p) => \E b, pc, kind : StartPersist(p, b, pc, kind, None)
  BY DEF Reset
<1>6. ForceState(p, "open") \/ ForceState(p, "half_open")
        => \E b, pc, kind : StartPersist(p, b, pc, kind, None)
  BY DEF ForceState
<1>7. Restart(p) => \/ \E b, pc, kind : StartPersist(p, b, pc, kind, None)
                    \/ /\ op'[p] = None
                       /\ \A q \in Procs : q # p => op'[q] = op[q] /\ local'[q] = local[q]
  BY DEF Restart, IInv, TypeOK
<1> QED BY <1>2, <1>3, <1>4, <1>5, <1>6, <1>7

\* Every step keeps the reports accounted for.
LEMMA StepReporting ==
  ASSUME BreakerAssumption, IInv, Reporting, [Next]_vars
  PROVE  Reporting'
<1>1. ASSUME NEW l \in LeaseIds, Expire(l) PROVE Reporting'
  BY <1>1 DEF Expire, Reporting, Accounted, Reports
<1>2. CASE UNCHANGED vars
  BY <1>2 DEF vars, Reporting, Accounted, Reports
<1> QED BY <1>1, <1>2, HolderReports, RecordReports, CallReports, OthersReportNothing
        DEF Next, ProcessStep, CallStep

\* MERGE_POLICY_CONTRACT_V1, 2: a report that is stored, as a counter or as
\* the transition it led to, is exactly what _on_success or _on_failure makes
\* of the stored state, unless it met a conflict and the merge overrode the
\* counts.
THEOREM SafeReports == Spec => ReportsAreDeltas
<1>1. Init => Reporting
  <2>1. Init => \A p \in Procs : op[p].by = None
    BY DEF Init
  <2> QED BY <2>1 DEF Reporting, Accounted, Reports
<1>2. IInv /\ Reporting /\ [Next]_vars => Reporting'
  BY StepReporting, BreakerAssumption
<1>3. Spec => []Reporting
  BY <1>1, <1>2, SafeIInv, PTL DEF Spec
<1>4. IInv /\ Reporting /\ [Next]_vars =>
        [\A p \in Procs :
           Upsert(p) /\ row # None /\ Reports(p)
             => \/ AddsReport(op[p].kind, row, row')
                \/ op[p].attempt > 1 /\ OverridesCounts(op[p].kind, row, row')]_vars
  <2> SUFFICES ASSUME Reporting, NEW p \in Procs, Upsert(p), row # None, Reports(p)
               PROVE  \/ AddsReport(op[p].kind, row, row')
                      \/ op[p].attempt > 1 /\ OverridesCounts(op[p].kind, row, row')
    OBVIOUS
  <2> QED BY DEF Reporting, Accounted, Upsert, Lands
<1> QED BY <1>3, <1>4, SafeIInv, PTL DEF Spec, ReportsAreDeltas
=============================================================================
