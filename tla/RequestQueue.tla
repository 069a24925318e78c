---------------------------- MODULE RequestQueue ----------------------------
(* The in-memory queue of core/Chat: RequestQueue with its workers, the    *)
(* streams they pump into channels, and the readers at the other end       *)
(* (_channel_stream of chat_service.py).  All of it runs on one event      *)
(* loop: code between two suspensions is one step.  No lock is ever waited *)
(* for, as no coroutine suspends while it holds one.                       *)
EXTENDS Integers, FiniteSets, Sequences

CONSTANTS
  Requests,        \* submissions; each is made once
  IdOf,            \* request -> its request_id; a client may use one again
  Priority,        \* request -> its priority, 1 is the most urgent
  Streams,         \* the streaming requests
  Workers,
  MaxQueue,        \* max_queue_size
  MaxConcurrent,   \* max_concurrent
  ChannelSize,     \* maxsize of the channel of a stream
  Chunks           \* length of a stream, a bound of the model

ASSUME RequestQueueAssumption ==
  /\ Streams \subseteq Requests
  /\ Priority \in [Requests -> Nat]
  /\ MaxQueue \in Nat /\ MaxConcurrent \in Nat \ {0}
  /\ ChannelSize \in Nat \ {0} /\ Chunks \in Nat
  /\ IsFiniteSet(Workers)

VARIABLES
  queue,      \* requests that wait
  old,        \* those among them that have waited for longer than timeout
  active,     \* _active_request_ids
  has_items,  \* the event that wakes workers
  running,    \* _running
  worker,     \* worker -> where it stands, and what it has in hand
  fut,        \* request -> its future
  channel,    \* stream -> the frames in its channel
  reader,     \* stream -> the consumer of the channel
  failed      \* history: streams whose iterator has raised

vars == <<queue, old, active, has_items, running, worker, fut, channel, reader, failed>>

\* The tuples of variables that steps leave alone together.
queueVars  == <<queue, old, has_items, running>>
streamVars == <<channel, reader, failed>>

\* Frames: a chunk, an error payload, "data: [DONE]", and None.
Frames == {"chunk", "error", "done", "end"}

Outcomes == {"result", "exception"}

\* pc: asleep waits for has_items, awake is about to look at the queue, gate
\* waits for the semaphore; run and open are in the executor; pull waits for
\* the iterator and put for room in the channel; sentinel is the last put of
\* a synchronous pump, closing puts the frames that are left; over is the end.
\* sync tells which kind of iterator the processor has returned.
Free(pc) == [pc |-> pc, req |-> {}, sync |-> FALSE, next |-> 0, frames |-> <<>>, outcome |-> "result"]

Init ==
  /\ queue = {} /\ old = {} /\ active = {} /\ has_items = FALSE /\ running = TRUE
  /\ worker = [w \in Workers |-> Free("awake")]
  /\ fut = [r \in Requests |-> "none"]
  /\ channel = [r \in Streams |-> <<>>]
  /\ reader = [r \in Streams |-> [state |-> "none", seen |-> 0, error |-> FALSE]]
  /\ failed = {}

Req(w) == CHOOSE r \in worker[w].req : TRUE

\* Workers that hold the semaphore: processing_count.
Inside == {w \in Workers : worker[w].pc \in {"run", "open", "pull", "put", "sentinel", "closing"}}

\* set_result and set_exception; InvalidStateError is caught.
Settle(r, s) == fut' = IF fut[r] = "pending" THEN [fut EXCEPT ![r] = s] ELSE fut

\* future.cancel()
CancelFutures(R) == fut' = [r \in Requests |-> IF r \in R /\ fut[r] = "pending" THEN "cancelled" ELSE fut[r]]

-----------------------------------------------------------------------------
(* enqueue, clear_queue, stop *)

\* Mutant: the event is not set.
WokenNot == UNCHANGED <<has_items, worker>>

\* has_items.set(): whoever waits for it will go on.
Woken ==
  /\ has_items' = TRUE
  /\ worker' = [w \in Workers |-> IF worker[w].pc = "asleep" THEN Free("awake") ELSE worker[w]]

\* Callers enqueue only while is_running; a submission that is refused
\* changes nothing.
Enqueue(r) ==
  /\ running /\ fut[r] = "none"
  /\ IdOf[r] \notin active
  /\ Cardinality(queue) < MaxQueue
  /\ queue' = queue \union {r}
  /\ active' = active \union {IdOf[r]}
  /\ fut' = [fut EXCEPT ![r] = "pending"]
  /\ reader' = IF r \in Streams THEN [reader EXCEPT ![r].state = "waiting"] ELSE reader
  /\ Woken
  /\ UNCHANGED <<old, running, channel, failed>>

ClearQueue ==
  /\ queue # {}
  /\ CancelFutures(queue)
  /\ active' = active \ {IdOf[r] : r \in queue}
  /\ queue' = {} /\ old' = {} /\ has_items' = FALSE
  /\ UNCHANGED <<running, worker>> /\ UNCHANGED streamVars

Stop ==
  /\ running
  /\ running' = FALSE
  /\ UNCHANGED <<queue, old, active, has_items, worker, fut>> /\ UNCHANGED streamVars

\* The CancelledError that stop sends to every worker.  One that waits for
\* the semaphore has not reached the finally clause that discards the id.
EndWorker(w) ==
  /\ ~running /\ worker[w].pc # "over"
  /\ worker' = [worker EXCEPT ![w] = Free("over")]
  /\ active' = IF w \in Inside THEN active \ {IdOf[Req(w)]} ELSE active
  /\ UNCHANGED <<queueVars, fut, streamVars>>

-----------------------------------------------------------------------------
(* _worker *)

Urgent == {r \in queue : \A s \in queue : Priority[r] <= Priority[s]}

\* Sleep until an item arrives, if there is none.
Sleep(w) ==
  /\ running /\ worker[w].pc = "awake" /\ queue = {} /\ ~has_items
  /\ worker' = [worker EXCEPT ![w] = Free("asleep")]
  /\ UNCHANGED <<queueVars, active, fut, streamVars>>

\* The timeout of that wait.
WakeUp(w) ==
  /\ running /\ worker[w].pc = "asleep"
  /\ worker' = [worker EXCEPT ![w] = Free("awake")]
  /\ UNCHANGED <<queueVars, active, fut, streamVars>>

\* Mutant: the id of a request that timed out stays active.
DropKeepingId(r) == Settle(r, "exception") /\ UNCHANGED active

\* A request that waited for too long.
Drop(r) == Settle(r, "exception") /\ active' = active \ {IdOf[r]}

\* _get_next_request and the check of the timeout.
Fetch(w) ==
  /\ running /\ worker[w].pc = "awake"
  /\ \E r \in Urgent :
       /\ queue' = queue \ {r} /\ old' = old \ {r}
       /\ has_items' = IF queue' = {} THEN FALSE ELSE has_items
       /\ \/ r \in old /\ Drop(r) /\ UNCHANGED worker
          \/ /\ r \notin old
             /\ worker' = [worker EXCEPT ![w] = [Free("gate") EXCEPT !.req = {r}]]
             /\ UNCHANGED <<active, fut>>
  /\ UNCHANGED running /\ UNCHANGED streamVars

\* The finally clause; the worker goes on with the next request.
Finish(w) ==
  /\ worker' = [worker EXCEPT ![w] = Free("awake")]
  /\ active' = active \ {IdOf[Req(w)]}

\* Mutant: no check behind the semaphore.
WantedAlways(r) == TRUE

\* future.cancelled(), looked at again when the semaphore is held.
Wanted(r) == fut[r] # "cancelled"

\* Mutant: the semaphore is not taken.
VacantAlways == TRUE

\* The processing semaphore lets one more in.
Vacant == Cardinality(Inside) < MaxConcurrent

Enter(w) ==
  LET r == Req(w) IN
  /\ running /\ worker[w].pc = "gate"
  /\ Vacant
  /\ \/ ~Wanted(r) /\ Finish(w)
     \/ /\ Wanted(r)
        /\ worker' = [worker EXCEPT ![w].pc = IF r \in Streams THEN "open" ELSE "run"]
        /\ UNCHANGED active
  /\ UNCHANGED <<queueVars, fut, streamVars>>

\* The processor of a request without a stream returns or raises.
Run(w) ==
  /\ running /\ worker[w].pc = "run"
  /\ \E s \in Outcomes : Settle(Req(w), s)
  /\ Finish(w)
  /\ UNCHANGED <<queueVars, streamVars>>

-----------------------------------------------------------------------------
(* _process_request of a stream *)

Room(r) == Len(channel[r]) < ChannelSize

\* put(frame), if there is room.
Deliver(r, frame) == Room(r) /\ channel' = [channel EXCEPT ![r] = Append(@, frame)]

ErrorFrames == <<"error", "done", "end">>

\* Both pumps put None in their finally clause, and only then does an
\* exception get to the handler that puts the error.
PumpOver(w, s) ==
  worker' = [worker EXCEPT ![w] =
    [@ EXCEPT !.pc = IF worker[w].sync THEN "sentinel" ELSE "closing",
              !.frames = <<"end">> \o IF s = "exception" THEN ErrorFrames ELSE <<>>,
              !.outcome = s]]

\* The processor returns its iterator or raises.
Open(w) ==
  /\ running /\ worker[w].pc = "open"
  /\ \/ /\ \E s \in BOOLEAN :
             worker' = [worker EXCEPT ![w] = [@ EXCEPT !.pc = "pull", !.sync = s, !.next = 1]]
        /\ UNCHANGED failed
     \/ /\ worker' = [worker EXCEPT ![w] = [@ EXCEPT !.pc = "closing", !.frames = ErrorFrames, !.outcome = "exception"]]
        /\ failed' = failed \union {Req(w)}
  /\ UNCHANGED <<queueVars, active, fut, channel, reader>>

\* The iterator yields, ends or raises; an asynchronous pump looks at the
\* future before and after.
Pull(w) ==
  LET goesOn == worker[w].sync \/ fut[Req(w)] # "cancelled" IN
  /\ running /\ worker[w].pc = "pull"
  /\ \/ /\ goesOn /\ worker[w].next <= Chunks
        /\ worker' = [worker EXCEPT ![w].pc = "put"]
        /\ UNCHANGED failed
     \/ /\ ~goesOn \/ worker[w].next > Chunks
        /\ PumpOver(w, "result")
        /\ UNCHANGED failed
     \/ /\ PumpOver(w, "exception")
        /\ failed' = failed \union {Req(w)}
  /\ UNCHANGED <<queueVars, active, fut, channel, reader>>

Put(w) ==
  /\ running /\ worker[w].pc = "put"
  /\ Deliver(Req(w), "chunk")
  /\ worker' = [worker EXCEPT ![w] = [@ EXCEPT !.pc = "pull", !.next = worker[w].next + 1]]
  /\ UNCHANGED <<queueVars, active, fut, reader, failed>>

\* Mutants: a pump gives up whenever the channel is full, or never does.
GivesUpAtOnce(r) == ~Room(r)
GivesUpNever(r) == FALSE

\* The channel is full for a second and nobody waits for the answer.
GivesUp(r) == ~Room(r) /\ fut[r] = "cancelled"

GiveUp(w) ==
  /\ running /\ worker[w].pc = "put"
  /\ GivesUp(Req(w))
  /\ PumpOver(w, "result")
  /\ UNCHANGED <<queueVars, active, fut, streamVars>>

Behind(w) == worker' = [worker EXCEPT ![w] = [@ EXCEPT !.pc = "closing", !.frames = Tail(worker[w].frames)]]

\* None of a synchronous pump has the patience of a chunk.
Sentinel(w) ==
  /\ running /\ worker[w].pc = "sentinel"
  /\ \/ Deliver(Req(w), "end")
     \/ GivesUp(Req(w)) /\ UNCHANGED channel
  /\ Behind(w)
  /\ UNCHANGED <<queueVars, active, fut, reader, failed>>

\* terminal=True: after three attempts the frame is dropped.
Terminal(w) ==
  /\ running /\ worker[w].pc = "closing" /\ worker[w].frames # <<>>
  /\ \/ Deliver(Req(w), Head(worker[w].frames))
     \/ ~Room(Req(w)) /\ UNCHANGED channel
  /\ Behind(w)
  /\ UNCHANGED <<queueVars, active, fut, reader, failed>>

Close(w) ==
  /\ running /\ worker[w].pc = "closing" /\ worker[w].frames = <<>>
  /\ Settle(Req(w), worker[w].outcome)
  /\ Finish(w)
  /\ UNCHANGED <<queueVars, streamVars>>

-----------------------------------------------------------------------------
(* Clients *)

\* _channel_stream is a generator: it does nothing before safe_stream_generator
\* has sent the start of the response and asks it for the first frame.
StartReading(r) ==
  /\ reader[r].state = "waiting"
  /\ reader' = [reader EXCEPT ![r].state = "reading"]
  /\ UNCHANGED <<queueVars, active, worker, fut, channel, failed>>

\* The client leaves before that: closing a generator that never ran runs none
\* of it, so nobody cancels the future or drains the channel.
LeaveUnread(r) ==
  /\ reader[r].state = "waiting"
  /\ reader' = [reader EXCEPT ![r].state = "unread"]
  /\ UNCHANGED <<queueVars, active, worker, fut, channel, failed>>

\* None ends the reader, all else is passed on.
Read(r) ==
  /\ reader[r].state = "reading" /\ channel[r] # <<>>
  /\ channel' = [channel EXCEPT ![r] = Tail(@)]
  /\ reader' = [reader EXCEPT ![r] =
       [state |-> IF Head(channel[r]) = "end" THEN "ended" ELSE "reading",
        seen  |-> IF Head(channel[r]) = "chunk" THEN @.seen + 1 ELSE @.seen,
        error |-> @.error \/ Head(channel[r]) = "error"]]
  /\ UNCHANGED <<queueVars, active, worker, fut, failed>>

\* The finally clause of a reader that met no None.
Quit(r, s) ==
  /\ CancelFutures({r})
  /\ channel' = [channel EXCEPT ![r] = <<>>]
  /\ reader' = [reader EXCEPT ![r].state = s]
  /\ UNCHANGED <<queueVars, active, worker, failed>>

\* Mutant: only while the future is pending.
IdleWhilePending(r) == channel[r] = <<>> /\ fut[r] = "pending"

\* Nothing for CHAT_IDLE_TIMEOUT.
Idle(r) == channel[r] = <<>>

IdleTimeout(r) ==
  /\ reader[r].state = "reading" /\ Idle(r)
  /\ Quit(r, "timed_out")

\* The client disconnects.
Disconnect(r) == reader[r].state = "reading" /\ Quit(r, "gone")

\* Likewise where the future itself is awaited.
Abandon(r) ==
  /\ fut[r] = "pending"
  /\ CancelFutures({r})
  /\ UNCHANGED <<queueVars, active, worker, streamVars>>

\* Time passes.
Age(r) ==
  /\ r \in queue \ old
  /\ old' = old \union {r}
  /\ UNCHANGED <<queue, active, has_items, running, worker, fut, streamVars>>

-----------------------------------------------------------------------------
WorkerStep(w) == \/ Sleep(w) \/ Fetch(w) \/ Enter(w) \/ Run(w) \/ Open(w) \/ Pull(w) \/ Put(w)
                 \/ GiveUp(w) \/ Sentinel(w) \/ Terminal(w) \/ Close(w)

ReaderStep(r) == StartReading(r) \/ LeaveUnread(r) \/ Read(r) \/ IdleTimeout(r) \/ Disconnect(r)

Next == \/ \E w \in Workers : WorkerStep(w) \/ WakeUp(w) \/ EndWorker(w)
        \/ \E r \in Requests : Enqueue(r) \/ Age(r)
        \/ \E r \in Requests \ Streams : Abandon(r)
        \/ \E r \in Streams : ReaderStep(r)
        \/ ClearQueue
        \/ Stop

Spec == Init /\ [][Next]_vars

\* The loop gets to every task, processors and iterators return, responses
\* are read or closed, readers read on or leave.
Fairness == /\ \A w \in Workers : WF_vars(WorkerStep(w))
            /\ \A r \in Streams : /\ WF_vars(StartReading(r))
                                  /\ WF_vars(Read(r)) /\ WF_vars(IdleTimeout(r))

FairSpec == Spec /\ Fairness

-----------------------------------------------------------------------------
(* Properties *)

Pcs == {"asleep", "awake", "gate", "run", "open", "pull", "put", "sentinel", "closing", "over"}

TypeOK ==
  /\ old \subseteq queue /\ queue \subseteq Requests
  /\ Cardinality(queue) <= MaxQueue /\ Cardinality(Inside) <= MaxConcurrent
  /\ active \subseteq {IdOf[r] : r \in Requests}
  /\ has_items \in BOOLEAN /\ running \in BOOLEAN
  /\ worker \in [Workers -> [pc : Pcs, req : {{}} \union {{r} : r \in Requests}, sync : BOOLEAN,
                             next : 0..(Chunks + 1), frames : Seq(Frames), outcome : Outcomes]]
  /\ \A w \in Workers : worker[w].req = {} <=> worker[w].pc \in {"asleep", "awake", "over"}
  /\ fut \in [Requests -> {"none", "pending", "cancelled"} \union Outcomes]
  /\ channel \in [Streams -> Seq(Frames)] /\ \A r \in Streams : Len(channel[r]) <= ChannelSize
  /\ reader \in [Streams -> [state : {"none", "waiting", "unread", "reading", "ended", "timed_out", "gone"},
                             seen : Nat, error : BOOLEAN]]
  /\ failed \subseteq Streams

Held == UNION {worker[w].req : w \in Workers}

\* Until the queue is stopped the active ids are those of the requests that
\* wait or that a worker has, one each: an id that was accepted can be used
\* again when its request is gone, whether it was answered, timed out,
\* cancelled or cleared, and not before.
ActiveIsExact ==
  running => /\ active = {IdOf[r] : r \in queue \union Held}
             /\ \A r, s \in queue \union Held : IdOf[r] = IdOf[s] => r = s
             /\ queue \intersect Held = {}
             /\ \A v, w \in Workers : worker[v].req \intersect worker[w].req # {} => v = w

\* No wake-up is lost: while a request waits no worker sleeps, although pops
\* and clear_queue clear the event that enqueue sets.
NobodySleepsOnWork == running /\ queue # {} => \A w \in Workers : worker[w].pc # "asleep"

\* A processor is started only while its future is awaited, also when the
\* client left while the worker waited for the semaphore.  (A client that left
\* before its stream was read has not told the queue.)
StartedForClients ==
  [][\A w \in Workers :
       worker[w].pc = "gate" /\ worker'[w].pc \in {"run", "open"} => fut[Req(w)] = "pending"]_vars

\* A stream that ends with None, from an iterator that did not raise and
\* before stop, has given its reader every chunk.
EndedIsComplete ==
  running => \A r \in Streams \ failed : reader[r].state = "ended" => reader[r].seen = Chunks

\* Workers that nobody will free: they put into a full channel, the client has
\* left before it was read, and the future that would tell them is not cancelled.
Stuck == {w \in Workers : /\ worker[w].pc \in {"put", "sentinel"}
                          /\ reader[Req(w)].state = "unread" /\ ~Room(Req(w))}

\* Every request that was accepted is answered unless the queue is stopped: no
\* reader that has left after reading keeps its worker for ever, nor does a
\* dropped None.  Only stuck workers prevent it: one its own request, and as
\* many of them as may work at a time all the others.
Answered ==
  \A r \in Requests :
    fut[r] = "pending" ~> \/ fut[r] # "pending" \/ ~running
                          \/ \E w \in Stuck : r \in worker[w].req
                          \/ Cardinality(Stuck) >= MaxConcurrent \/ Stuck = Workers

\* Every reader comes to an end, though None may be dropped or never sent.
ReadersEnd ==
  \A r \in Streams : reader[r].state \in {"waiting", "reading"}
                       ~> reader[r].state \notin {"waiting", "reading"}

\* "Pragmatic disconnect handling: cancel queued producer immediately so
\* workers do not remain blocked waiting on a full channel."
\* (chat_service.py:3622-3623).  A client that has left frees the worker of its
\* stream.  It does not when it leaves before the stream is read.
ClientsFreeWorkers ==
  \A w \in Workers, r \in Streams :
    reader[r].state \in {"unread", "timed_out", "gone"} /\ r \in worker[w].req
      ~> r \notin worker[w].req \/ ~running
=============================================================================
