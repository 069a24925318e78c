---------------------------- MODULE WriteBuffer ----------------------------
(***************************************************************************)
(* The path of a submitted task from Scheduler.submit to its row: the      *)
(* idempotency checks (scheduler.py), the in-memory SafeWriteBuffer with   *)
(* its lock, its flush timer, its shutdown and its emergency backup        *)
(* (core/write_buffer.py), and SQLiteBackend.bulk_enqueue.                 *)
(*                                                                         *)
(* One process, one event loop: a step is what a coroutine does between    *)
(* two awaits.  asyncio.Lock is fair, so the lock is the queue of the      *)
(* coroutines that asked for it, its holder first.  The connection is in   *)
(* autocommit mode: executemany stores one row at a time, and a statement  *)
(* that raises leaves the rows before it stored.                           *)
(***************************************************************************)
EXTENDS Integers, SequencesExt

CONSTANTS
  Tasks,         \* the tasks that are submitted, one submit call each
  None,          \* no answer, no idempotency key
  Key,           \* task -> idempotency key, or None
  FlushSize,     \* write_buffer_size
  CloseAttempts, \* max_retries of close
  MaxStarts,     \* bound: how often the process is started
  Calm           \* TRUE: no coroutine is cancelled while it flushes

ASSUME BufferAssumption ==
  /\ None \notin Tasks
  /\ Tasks \intersect {"timer", "closer", "starter"} = {}
  /\ FlushSize \in Nat \ {0}
  /\ CloseAttempts \in Nat \ {0}
  /\ MaxStarts \in Nat \ {0}
  /\ Calm \in BOOLEAN

VARIABLES
  stored,   \* rows of table tasks, in the order of created_at
  files,    \* emergency backups not yet .processed, each a list of tasks
  buffer,   \* SafeWriteBuffer.buffer
  batch,    \* tasks_to_flush of the flush in progress, which the lock's holder runs
  todo,     \* its rows that executemany has still to insert
  lock,     \* SafeWriteBuffer.lock: its holder, then those who wait
  call,     \* each submit call: where it is, and the id it returned
  timer,    \* _flush_timer
  closer,   \* close(): where it is, and its attempt
  boot,     \* the process, the backups it has still to read, and its starts
  order,    \* history: the tasks in the order they entered the buffer
  crashed   \* history: what was only in memory when the process died

vars == <<stored, files, buffer, batch, todo, lock, call, timer, closer, boot,
          order, crashed>>

history == <<order, crashed>>

Actors == Tasks \union {"timer", "closer", "starter"}
Open   == closer.pc = "none"          \* not _closing
Up     == boot.process = "up"

TypeOK ==
  /\ stored \in Seq(Tasks) /\ IsInjective(stored)
  /\ \A f \in files : f \in Seq(Tasks)
  /\ buffer \in Seq(Tasks) /\ batch \in Seq(Tasks) /\ todo \in Seq(Tasks)
  /\ lock \in Seq(Actors) /\ IsInjective(lock)
  /\ call \in [Tasks -> [pc : {"new", "keyChecked", "scanned", "waiting", "flushing", "done"},
                         answer : Tasks \union {None}]]
  /\ timer \in {"off", "sleep", "wait", "flush"}
  /\ closer \in [pc : {"none", "enter", "wait", "flush", "closed", "failed"},
                 attempt : 0 .. CloseAttempts]
  /\ boot.process \in {"down", "starting", "up"} /\ boot.pending \subseteq files
  /\ boot.reading \in Seq(Tasks) /\ boot.starts \in 0 .. MaxStarts
  /\ order \in Seq(Tasks) /\ crashed \subseteq Tasks

NotClosing == [pc |-> "none", attempt |-> 0]

Init ==
  /\ stored = <<>> /\ files = {}
  /\ buffer = <<>> /\ batch = <<>> /\ todo = <<>> /\ lock = <<>>
  /\ call = [t \in Tasks |-> [pc |-> "new", answer |-> None]]
  /\ timer = "off" /\ closer = NotClosing
  /\ boot = [process |-> "down", pending |-> {}, reading |-> <<>>, starts |-> 0]
  /\ order = <<>> /\ crashed = {}

----------------------------------------------------------------------------
(* The lock                                                                *)

Holds(c) == lock # <<>> /\ Head(lock) = c
Release  == lock' = Tail(lock)

\* A coroutine that is cancelled while it waits.
Leave(c) == \E i \in DOMAIN lock : lock[i] = c /\ lock' = RemoveAt(lock, i)

Ask(c) == lock' = Append(lock, c)

----------------------------------------------------------------------------
(* bulk_enqueue, and the flush that awaits it                              *)

KeyIn(rows, t) == Key[t] # None /\ \E u \in ToSet(rows) : Key[u] = Key[t]

\* Mutants: a table without unique columns; INSERT OR REPLACE.
InsertAlways(rows, t)    == Append(rows, t)
InsertOrReplace(rows, t) ==
  Append(SelectSeq(rows, LAMBDA u : u # t /\ (Key[t] = None \/ Key[u] # Key[t])), t)

\* INSERT OR IGNORE: the primary key and the unique idempotency key decide.
Insert(rows, t) == IF t \in ToSet(rows) \/ KeyIn(rows, t) THEN rows ELSE Append(rows, t)

InsertRow ==
  /\ todo # <<>>
  /\ stored' = Insert(stored, Head(todo))
  /\ todo' = Tail(todo)
  /\ UNCHANGED <<files, buffer, batch, lock, call, timer, closer, boot, history>>

\* The buffer is emptied before the await.
BeginFlush(tasks) == batch' = tasks /\ todo' = tasks /\ buffer' = <<>>

Flushed(c) == /\ Holds(c) /\ batch # <<>> /\ todo = <<>>
              /\ batch' = <<>>
              /\ Release
              /\ UNCHANGED <<stored, buffer, todo, history>>

\* Mutant: the tasks are forgotten when the statement raises.
RefilledNothing == buffer

\* The statement raises (database is locked): the tasks go back, in front.
Refilled == batch \o buffer

FlushRaises(c) == /\ Holds(c) /\ batch # <<>>
                  /\ buffer' = Refilled
                  /\ batch' = <<>> /\ todo' = <<>>
                  /\ Release
                  /\ UNCHANGED <<stored, history>>

\* CancelledError is no Exception, so nothing goes back to the buffer.  The
\* connection's thread goes on inserting; or it fails, or has not been asked
\* yet, while bulk_enqueue waits for the backend's own lock.
FlushCancelled(c) == /\ ~Calm
                     /\ Holds(c) /\ batch # <<>>
                     /\ stored' \in {stored, FoldLeft(Insert, stored, todo)}
                     /\ batch' = <<>> /\ todo' = <<>>
                     /\ Release
                     /\ UNCHANGED <<buffer, history>>

----------------------------------------------------------------------------
(* Scheduler.submit and SafeWriteBuffer.add                                *)

Goto(t, pc)    == call' = [call EXCEPT ![t].pc = pc]
Returns(t, id) == call' = [call EXCEPT ![t] = [pc |-> "done", answer |-> id]]

\* Mutant: the exception is swallowed, and the caller gets its id.
Swallows(t) == Returns(t, t)

Raises(t) == Returns(t, None)

\* get_task_by_idempotency_key
LookUpKey(t) ==
  /\ Up /\ call[t].pc = "new"
  /\ IF KeyIn(stored, t)
       THEN Returns(t, CHOOSE u \in ToSet(stored) : Key[u] = Key[t])
       ELSE Goto(t, "keyChecked")
  /\ UNCHANGED <<stored, files, buffer, batch, todo, lock, timer, closer, boot, history>>

\* The scan of the tasks that are still buffered.
ScanBuffer(t) ==
  /\ Up /\ call[t].pc = "keyChecked"
  /\ \/ ~KeyIn(buffer, t) /\ Goto(t, "scanned")
     \/ \E i \in DOMAIN buffer : /\ Key[t] # None /\ Key[buffer[i]] = Key[t]
                                 /\ \A j \in 1 .. i - 1 : Key[buffer[j]] # Key[t]
                                 /\ Returns(t, buffer[i])
  /\ UNCHANGED <<stored, files, buffer, batch, todo, lock, timer, closer, boot, history>>

\* Mutant: add does not look at _closing.
EnterAddClosing(t) ==
  /\ Up /\ call[t].pc = "scanned"
  /\ Ask(t) /\ Goto(t, "waiting")
  /\ UNCHANGED <<stored, files, buffer, batch, todo, timer, closer, boot, history>>

EnterAdd(t) ==
  /\ Up /\ call[t].pc = "scanned"
  /\ IF Open THEN Ask(t) /\ Goto(t, "waiting")
             ELSE Raises(t) /\ UNCHANGED lock
  /\ UNCHANGED <<stored, files, buffer, batch, todo, timer, closer, boot, history>>

Add(t) ==
  /\ Holds(t) /\ call[t].pc = "waiting"
  /\ timer' = IF timer = "off" /\ Open THEN "sleep" ELSE timer
  /\ order' = Append(order, t)
  /\ \/ /\ Len(buffer) + 1 < FlushSize
        /\ buffer' = Append(buffer, t)
        /\ Returns(t, t)
        /\ Release
        /\ UNCHANGED <<batch, todo>>
     \/ /\ Len(buffer) + 1 >= FlushSize
        /\ BeginFlush(Append(buffer, t))
        /\ Goto(t, "flushing")
        /\ UNCHANGED lock
  /\ UNCHANGED <<stored, files, closer, boot, crashed>>

AddFlushed(t) == /\ Flushed(t) /\ Returns(t, t)
                 /\ UNCHANGED <<files, timer, closer, boot>>

AddRaises(t) == /\ FlushRaises(t) /\ Raises(t)
                /\ UNCHANGED <<files, timer, closer, boot>>

\* The caller is cancelled while it waits for the lock, or while it flushes.
CancelSubmit(t) ==
  /\ \/ /\ call[t].pc = "waiting"
        /\ Leave(t)
        /\ UNCHANGED <<stored, buffer, batch, todo, history>>
     \/ FlushCancelled(t)
  /\ Raises(t)
  /\ UNCHANGED <<files, timer, closer, boot>>

----------------------------------------------------------------------------
(* _flush_timer                                                            *)

TimerWakes ==
  /\ timer = "sleep"
  /\ timer' = "wait" /\ Ask("timer")
  /\ UNCHANGED <<stored, files, buffer, batch, todo, call, closer, boot, history>>

TimerRuns ==
  /\ Holds("timer") /\ timer = "wait"
  /\ IF buffer = <<>>
       THEN timer' = "off" /\ Release /\ UNCHANGED <<buffer, batch, todo>>
       ELSE timer' = "flush" /\ BeginFlush(buffer) /\ UNCHANGED lock
  /\ UNCHANGED <<stored, files, call, closer, boot, history>>

TimerFlushed == /\ Flushed("timer") /\ timer' = "sleep"
                /\ UNCHANGED <<files, call, closer, boot>>

\* Mutant: the exception ends the timer.
TimerDies == /\ FlushRaises("timer") /\ timer' = "off"
             /\ UNCHANGED <<files, call, closer, boot>>

TimerFlushRaises == /\ FlushRaises("timer") /\ timer' = "sleep"
                    /\ UNCHANGED <<files, call, closer, boot>>

----------------------------------------------------------------------------
(* close, within Scheduler.stop                                            *)

\* _closing is set and the timer is cancelled wherever it is.
BeginClose ==
  /\ Up /\ Open
  /\ \/ /\ timer \in {"off", "sleep"}
        /\ UNCHANGED <<stored, buffer, batch, todo, lock, history>>
     \/ /\ timer = "wait"
        /\ Leave("timer")
        /\ UNCHANGED <<stored, buffer, batch, todo, history>>
     \/ FlushCancelled("timer")
  /\ timer' = "off"
  /\ closer' = [pc |-> "enter", attempt |-> 1]
  /\ UNCHANGED <<files, call, boot>>

EnterClose ==
  /\ closer.pc = "enter"
  /\ closer' = [closer EXCEPT !.pc = "wait"]
  /\ Ask("closer")
  /\ UNCHANGED <<stored, files, buffer, batch, todo, call, timer, boot, history>>

CloseRuns ==
  /\ Holds("closer") /\ closer.pc = "wait"
  /\ IF buffer = <<>>
       THEN /\ closer' = [closer EXCEPT !.pc = "closed"] /\ Release
            /\ UNCHANGED <<buffer, batch, todo>>
       ELSE /\ closer' = [closer EXCEPT !.pc = "flush"] /\ BeginFlush(buffer)
            /\ UNCHANGED lock
  /\ UNCHANGED <<stored, files, call, timer, boot, history>>

CloseFlushed == /\ Flushed("closer") /\ closer' = [closer EXCEPT !.pc = "closed"]
                /\ UNCHANGED <<files, call, timer, boot>>

\* Another attempt a second later; after the last one, the emergency backup.
CloseFlushRaises ==
  /\ FlushRaises("closer")
  /\ \/ /\ closer.attempt < CloseAttempts
        /\ closer' = [pc |-> "enter", attempt |-> closer.attempt + 1]
        /\ UNCHANGED files
     \/ /\ closer.attempt = CloseAttempts
        /\ closer' = [closer EXCEPT !.pc = "failed"]
        /\ files' = files \union {batch}
  /\ UNCHANGED <<call, timer, boot>>

----------------------------------------------------------------------------
(* The process: it ends with what is in memory, or starts and reads the    *)
(* backups that earlier processes have left                                *)

Gone ==
  /\ buffer' = <<>> /\ batch' = <<>> /\ todo' = <<>> /\ lock' = <<>>
  /\ timer' = "off" /\ closer' = NotClosing
  /\ call' = [t \in Tasks |-> IF call[t].pc = "new" THEN call[t]
                                                    ELSE [call[t] EXCEPT !.pc = "done"]]
  /\ boot' = [boot EXCEPT !.process = "down", !.pending = {}, !.reading = <<>>]
  /\ UNCHANGED <<stored, files, order>>

Exit == Up /\ closer.pc \in {"closed", "failed"} /\ Gone /\ UNCHANGED crashed

Crash == /\ boot.process # "down"
         /\ Gone
         /\ crashed' = crashed \union ToSet(buffer) \union ToSet(batch)

Start ==
  /\ boot.process = "down" /\ boot.starts < MaxStarts
  /\ boot' = [process |-> "starting", pending |-> files, reading |-> <<>>,
              starts |-> boot.starts + 1]
  /\ UNCHANGED <<stored, files, buffer, batch, todo, lock, call, timer, closer, history>>

\* recover_from_backup: the tasks join the buffer, then the buffer is flushed.
RecoverFile ==
  /\ boot.process = "starting" /\ lock = <<>>
  /\ \E f \in boot.pending : /\ boot' = [boot EXCEPT !.reading = f]
                             /\ BeginFlush(buffer \o f)
  /\ Ask("starter")
  /\ UNCHANGED <<stored, files, call, timer, closer, history>>

ReadOn == boot' = [boot EXCEPT !.pending = @ \ {boot.reading}, !.reading = <<>>]

RecoverFlushed == /\ Flushed("starter")
                  /\ files' = files \ {boot.reading}      \* renamed .processed
                  /\ ReadOn
                  /\ UNCHANGED <<call, timer, closer>>

RecoverFlushRaises == /\ FlushRaises("starter")
                      /\ ReadOn
                      /\ UNCHANGED <<files, call, timer, closer>>

Started ==
  /\ boot.process = "starting" /\ boot.pending = {}
  /\ boot' = [boot EXCEPT !.process = "up"]
  /\ UNCHANGED <<stored, files, buffer, batch, todo, lock, call, timer, closer, history>>

----------------------------------------------------------------------------
SubmitStep(t) == LookUpKey(t) \/ ScanBuffer(t) \/ EnterAdd(t) \/ Add(t) \/ AddFlushed(t)
TimerStep == TimerWakes \/ TimerRuns \/ TimerFlushed
CloseStep == EnterClose \/ CloseRuns \/ CloseFlushed
BootStep  == Start \/ RecoverFile \/ RecoverFlushed \/ Started

Fault == \/ \E t \in Tasks : AddRaises(t) \/ CancelSubmit(t)
         \/ TimerFlushRaises \/ CloseFlushRaises \/ RecoverFlushRaises
         \/ Crash

Undisturbed == \/ InsertRow
               \/ \E t \in Tasks : SubmitStep(t)
               \/ TimerStep \/ BeginClose \/ CloseStep \/ Exit \/ BootStep

Next == Undisturbed \/ Fault

Spec == Init /\ [][Next]_vars

\* Statements end, the timer sleeps flush_interval, close goes on; failures
\* stop some day.  Nobody has to start the process again or to submit.
Fairness == /\ WF_vars(InsertRow)
            /\ \A t \in Tasks : WF_vars(SubmitStep(t))
            /\ WF_vars(TimerStep) /\ WF_vars(CloseStep)
            /\ <>[][Undisturbed]_vars

FairSpec == Spec /\ Fairness

----------------------------------------------------------------------------
(* Properties                                                              *)

\* The ids that some submit call has returned.
Promised == {call[t].answer : t \in Tasks} \ {None}

OnDisk(t)   == t \in ToSet(stored) \union UNION {ToSet(f) : f \in files}
InMemory(t) == t \in ToSet(buffer) \union ToSet(batch)

\* A row makes t's own superfluous; t is where it can still get one.
Settled(t) == t \in ToSet(stored) \/ KeyIn(stored, t)
InFile(t)  == \E f \in files : t \in ToSet(f)
InPipe(t)  == InMemory(t) \/ InFile(t)
Pending(t) == InPipe(t) /\ ~Settled(t)

\* "Write buffer that guarantees no data loss" (write_buffer.py:22): the task
\* behind a returned id is in the table, in a backup, in the buffer or in the
\* flush in progress.  Excepted are what a crash of the process took, and an
\* id whose idempotency key another submission has stored meanwhile.
AcceptedIsKept ==
  \A t \in Promised : OnDisk(t) \/ InMemory(t) \/ t \in crashed \/ KeyIn(stored, t)

\* Tasks get their rows, hence their created_at, in the order in which they
\* entered the buffer, through failed, repeated and half done flushes, retries
\* at shutdown, backups and recovery (not through cancelled ones): equal
\* priorities run first come first served.
StoredInOrder ==
  \A i, j \in DOMAIN stored : i < j =>
     LET place(t) == CHOOSE n \in DOMAIN order : order[n] = t
     IN  place(stored[i]) < place(stored[j])

\* When close has returned nothing is left in the buffer: whoever passed the
\* check of _closing asked for the lock before close did.
ClosedIsEmpty == closer.pc = "closed" => buffer = <<>> /\ lock = <<>>

\* All of this is what submission promises abstractly: buffer, lock, flushes
\* that fail half way, retries at shutdown, backups and recovery implement a
\* queue that stores in order, answers with safe ids only, and loses tasks in
\* crashes only.
Submission == INSTANCE Intake WITH
  rows    <- stored,
  entered <- order,
  pending <- {t \in Tasks : Pending(t)},
  answer  <- [t \in Tasks |-> call[t].answer],
  lost    <- crashed

ImplementsIntake == Submission!Spec

\* Liveness: what was promised reaches the table, or a backup file, or is
\* lost in a crash; no task waits in the buffer without a timer that runs.
PromisesAreSettled ==
  \A t \in Tasks : t \in Promised ~> OnDisk(t) \/ t \in crashed \/ KeyIn(stored, t)
=============================================================================
