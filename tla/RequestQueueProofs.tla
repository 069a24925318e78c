------------------------- MODULE RequestQueueProofs -------------------------
(* Safety of RequestQueue for any requests, ids, workers and limits.  The  *)
(* ids are counted request by request: IInv says that a request that waits *)
(* or that a worker has is in one place only, that its id is active and    *)
(* shared with no other, and that its future has no outcome yet.           *)
EXTENDS RequestQueue, FiniteSetTheorems, TLAPS

WorkerStates == [pc : Pcs, req : {{}} \union {{r} : r \in Requests}, sync : BOOLEAN,
                 next : 0..(Chunks + 1), frames : Seq(Frames), outcome : Outcomes]

FutStates == {"none", "pending", "cancelled"} \union Outcomes

InHand(r) == r \in queue \/ \E w \in Workers : r \in worker[w].req

\* ActiveIsExact, request by request.
Ids ==
  /\ \A i : i \in active <=> \E r \in Requests : InHand(r) /\ IdOf[r] = i
  /\ \A r, s \in Requests : InHand(r) /\ InHand(s) /\ IdOf[r] = IdOf[s] => r = s
  /\ \A r \in queue, w \in Workers : r \notin worker[w].req
  /\ \A v, w \in Workers : \A r \in worker[v].req : r \in worker[w].req => v = w

Unsettled == \A r \in Requests : InHand(r) => fut[r] \in {"pending", "cancelled"}

StreamPcs == {"open", "pull", "put", "sentinel", "closing"}

\* What a pump has to do at put and at sentinel, and for whom.
Pumping == \A w \in Workers :
             /\ worker[w].pc = "put" => worker[w].next \in 0..Chunks
             /\ worker[w].pc = "sentinel" => worker[w].frames # <<>>
             /\ worker[w].pc \in StreamPcs => worker[w].req \subseteq Streams

IInv == /\ TypeOK
        /\ IsFiniteSet(queue)
        /\ Pumping
        /\ NobodySleepsOnWork
        /\ running => Ids /\ Unsettled

-----------------------------------------------------------------------------
(* The worker's request. *)

\* A worker that is busy has one request.
LEMMA Busy ==
  ASSUME TypeOK, NEW w \in Workers, worker[w].pc \notin {"asleep", "awake", "over"}
  PROVE  /\ Req(w) \in Requests
         /\ worker[w].req = {Req(w)}
         /\ InHand(Req(w))
<1>1. worker[w].req # {}
  BY DEF TypeOK
<1>2. worker[w].req \in {{}} \union {{r} : r \in Requests}
  BY DEF TypeOK
<1>3. PICK r \in Requests : worker[w].req = {r}
  BY <1>1, <1>2
<1>4. Req(w) = r
  BY <1>3 DEF Req
<1> QED BY <1>3, <1>4 DEF InHand

\* A worker without a request.
LEMMA FreeIsState ==
  ASSUME NEW pc \in Pcs, RequestQueueAssumption
  PROVE  Free(pc) \in WorkerStates /\ Free(pc).pc = pc /\ Free(pc).req = {}
<1>1. <<>> \in Seq(Frames) /\ "result" \in Outcomes /\ 0 \in 0..(Chunks + 1)
  BY DEF Outcomes, RequestQueueAssumption
<1> QED BY <1>1 DEF Free, WorkerStates

-----------------------------------------------------------------------------
(* Ids and futures of the requests in hand. *)

\* A step that moves no request.
LEMMA NobodyMoves ==
  ASSUME Ids, Unsettled, UNCHANGED <<queue, active>>,
         \A w \in Workers : worker'[w].req = worker[w].req,
         \A r \in Requests : fut'[r] = fut[r] \/ fut'[r] = "cancelled"
  PROVE  Ids' /\ Unsettled'
<1>1. \A r : InHand(r)' <=> InHand(r)
  BY DEF InHand
<1>2. Ids'
  BY <1>1 DEF Ids
<1>3. Unsettled'
  BY <1>1 DEF Unsettled
<1> QED BY <1>2, <1>3

\* A request that is gone takes its id along; its future may be settled.
LEMMA RequestLeaves ==
  ASSUME Ids, Unsettled, NEW r \in Requests, InHand(r),
         active' = active \ {IdOf[r]},
         queue' \subseteq queue,
         \A w \in Workers : worker'[w].req \subseteq worker[w].req,
         \A s \in Requests : InHand(s)' <=> InHand(s) /\ s # r,
         \A s \in Requests : s # r => fut'[s] = fut[s]
  PROVE  Ids' /\ Unsettled'
<1>1. \A i : i \in active' <=> \E s \in Requests : InHand(s)' /\ IdOf[s] = i
  BY DEF Ids
<1>2. \A s, t \in Requests : InHand(s)' /\ InHand(t)' /\ IdOf[s] = IdOf[t] => s = t
  BY DEF Ids
<1>3. /\ \A s \in queue', w \in Workers : s \notin worker'[w].req
      /\ \A v, w \in Workers : \A s \in worker'[v].req : s \in worker'[w].req => v = w
  BY DEF Ids
<1>4. Ids'
  BY <1>1, <1>2, <1>3 DEF Ids
<1>5. Unsettled'
  BY DEF Unsettled
<1> QED BY <1>4, <1>5

\* Finish ends the one run of its request.
LEMMA FinishLeaves ==
  ASSUME IInv, RequestQueueAssumption, running, NEW w \in Workers,
         worker[w].pc \notin {"asleep", "awake", "over"},
         Finish(w), UNCHANGED queue,
         \A s \in Requests : s # Req(w) => fut'[s] = fut[s]
  PROVE  Ids' /\ Unsettled'
<1> DEFINE r == Req(w)
<1>1. r \in Requests /\ worker[w].req = {r} /\ InHand(r)
  BY Busy DEF IInv
<1>2. Free("awake").req = {}
  BY DEF Free
<1>3. worker' = [worker EXCEPT ![w] = Free("awake")] /\ active' = active \ {IdOf[r]}
  BY DEF Finish
<1>4. worker'[w].req = {} /\ \A v \in Workers : v # w => worker'[v].req = worker[v].req
  BY <1>2, <1>3 DEF IInv, TypeOK
<1>5. Ids /\ Unsettled
  BY DEF IInv
<1> HIDE DEF r
<1>6. \A s \in Requests : InHand(s)' <=> InHand(s) /\ s # r
  BY <1>1, <1>4, <1>5 DEF InHand, Ids
<1>7. \A v \in Workers : worker'[v].req \subseteq worker[v].req
  BY <1>4
<1>8. \A s \in Requests : s # r => fut'[s] = fut[s]
  BY DEF r
<1> QED BY <1>1, <1>3, <1>5, <1>6, <1>7, <1>8, RequestLeaves

\* A cleared queue takes its ids along.
LEMMA ClearLeaves ==
  ASSUME IInv, running, ClearQueue
  PROVE  Ids' /\ Unsettled'
<1>1. /\ queue' = {} /\ UNCHANGED worker
      /\ active' = active \ {IdOf[r] : r \in queue}
      /\ queue \subseteq Requests /\ Ids /\ Unsettled
  BY DEF ClearQueue, IInv, TypeOK
<1>2. \A r \in Requests : InHand(r)' <=> InHand(r) /\ r \notin queue
  BY <1>1 DEF InHand, Ids
<1>3. \A r \in queue : InHand(r)
  BY DEF InHand
<1>4. \A i : i \in active' <=> \E r \in Requests : InHand(r)' /\ IdOf[r] = i
  BY <1>1, <1>2, <1>3 DEF Ids
<1>5. Ids'
  BY <1>1, <1>2, <1>4 DEF Ids
<1>6. \A r \in Requests : fut'[r] = fut[r] \/ fut'[r] = "cancelled"
  BY DEF ClearQueue, CancelFutures
<1>7. Unsettled'
  BY <1>1, <1>2, <1>6 DEF Unsettled
<1> QED BY <1>5, <1>7

\* A submission brings a request with an id of its own.
LEMMA EnqueueEnters ==
  ASSUME IInv, running, NEW r \in Requests, Enqueue(r)
  PROVE  Ids' /\ Unsettled'
<1>1. /\ queue' = queue \union {r} /\ active' = active \union {IdOf[r]}
      /\ IdOf[r] \notin active
      /\ fut' = [fut EXCEPT ![r] = "pending"]
      /\ Ids /\ Unsettled
  BY DEF Enqueue, IInv
<1>2. \A w \in Workers : worker'[w].req = worker[w].req
  <2>1. \A w \in Workers : worker[w].pc = "asleep" => worker[w].req = {}
    BY DEF IInv, TypeOK
  <2>2. Free("awake").req = {}
    BY DEF Free
  <2> QED BY <2>1, <2>2 DEF Enqueue, Woken
<1>3. ~InHand(r)
  BY <1>1 DEF Ids
<1>4. \A s \in Requests : InHand(s)' <=> InHand(s) \/ s = r
  BY <1>1, <1>2 DEF InHand
<1>5. \A i : i \in active' <=> \E s \in Requests : InHand(s)' /\ IdOf[s] = i
  BY <1>1, <1>4 DEF Ids
<1>6. \A s, t \in Requests : InHand(s)' /\ InHand(t)' /\ IdOf[s] = IdOf[t] => s = t
  BY <1>1, <1>4 DEF Ids
<1>7. /\ \A s \in queue', w \in Workers : s \notin worker'[w].req
      /\ \A v, w \in Workers : \A s \in worker'[v].req : s \in worker'[w].req => v = w
  BY <1>1, <1>2, <1>3 DEF Ids, InHand
<1>8. Ids'
  BY <1>5, <1>6, <1>7 DEF Ids
<1>9. \A s \in Requests : fut'[s] = IF s = r THEN "pending" ELSE fut[s]
  BY <1>1 DEF IInv, TypeOK
<1>10. Unsettled'
  BY <1>1, <1>4, <1>9 DEF Unsettled
<1> QED BY <1>8, <1>10

\* A request that is fetched is dropped, or goes from the queue to a worker.
LEMMA FetchMoves ==
  ASSUME IInv, RequestQueueAssumption, NEW w \in Workers, Fetch(w)
  PROVE  Ids' /\ Unsettled'
<1>1. PICK r \in Urgent :
        /\ queue' = queue \ {r}
        /\ \/ Drop(r) /\ UNCHANGED worker
           \/ /\ worker' = [worker EXCEPT ![w] = [Free("gate") EXCEPT !.req = {r}]]
              /\ UNCHANGED <<active, fut>>
  BY DEF Fetch
<1>2. r \in queue /\ r \in Requests /\ InHand(r) /\ Ids /\ Unsettled
  BY DEF Fetch, Urgent, IInv, TypeOK, InHand
<1>3. CASE Drop(r) /\ UNCHANGED worker
  <2>1. active' = active \ {IdOf[r]} /\ \A s \in Requests : s # r => fut'[s] = fut[s]
    BY <1>3 DEF Drop, Settle, IInv, TypeOK
  <2>2. \A s \in Requests : InHand(s)' <=> InHand(s) /\ s # r
    BY <1>1, <1>2, <1>3 DEF InHand, Ids
  <2> QED BY <1>1, <1>2, <1>3, <2>1, <2>2, RequestLeaves
<1>4. CASE /\ worker' = [worker EXCEPT ![w] = [Free("gate") EXCEPT !.req = {r}]]
           /\ UNCHANGED <<active, fut>>
  <2>1. [Free("gate") EXCEPT !.req = {r}].req = {r}
    BY DEF Free
  <2>2. worker[w].req = {}
    BY DEF Fetch, IInv, TypeOK
  <2>3. worker'[w].req = {r} /\ \A v \in Workers : v # w => worker'[v].req = worker[v].req
    BY <1>4, <2>1 DEF IInv, TypeOK
  <2>4. \A s \in Requests : InHand(s)' <=> InHand(s)
    BY <1>1, <1>2, <2>2, <2>3 DEF InHand
  <2>5. /\ \A i : i \in active' <=> \E s \in Requests : InHand(s)' /\ IdOf[s] = i
        /\ \A s, t \in Requests : InHand(s)' /\ InHand(t)' /\ IdOf[s] = IdOf[t] => s = t
    BY <1>2, <1>4, <2>4 DEF Ids
  <2>6. /\ \A s \in queue', v \in Workers : s \notin worker'[v].req
        /\ \A v, u \in Workers : \A s \in worker'[v].req : s \in worker'[u].req => v = u
    BY <1>1, <1>2, <2>2, <2>3 DEF Ids
  <2>7. Ids' /\ Unsettled'
    BY <1>2, <1>4, <2>4, <2>5, <2>6 DEF Ids, Unsettled
  <2> QED BY <2>7
<1> QED BY <1>1, <1>3, <1>4

-----------------------------------------------------------------------------
(* Types: the queue. *)

QueueOK ==
  /\ old \subseteq queue /\ queue \subseteq Requests
  /\ IsFiniteSet(queue) /\ Cardinality(queue) <= MaxQueue

\* What is left of the queue is within its limit.
LEMMA QueueShrinks ==
  ASSUME RequestQueueAssumption, QueueOK, queue' \subseteq queue, old' \subseteq queue'
  PROVE  QueueOK'
<1>1. IsFiniteSet(queue') /\ Cardinality(queue') <= Cardinality(queue)
  BY FS_Subset DEF QueueOK
<1>2. Cardinality(queue) \in Nat /\ Cardinality(queue') \in Nat /\ MaxQueue \in Nat
  BY <1>1, FS_CardinalityType DEF QueueOK, RequestQueueAssumption
<1> QED BY <1>1, <1>2 DEF QueueOK

\* Only Enqueue adds to it, one request below the limit.
LEMMA QueueStaysOK ==
  ASSUME RequestQueueAssumption, QueueOK, [Next]_vars
  PROVE  QueueOK'
<1>1. ASSUME NEW r \in Requests, Enqueue(r)
      PROVE  QueueOK'
  <2>1. queue' = queue \union {r} /\ old' = old /\ Cardinality(queue) < MaxQueue
    BY <1>1 DEF Enqueue
  <2>2. /\ IsFiniteSet(queue')
        /\ Cardinality(queue') = IF r \in queue THEN Cardinality(queue) ELSE Cardinality(queue) + 1
    BY <2>1, FS_AddElement DEF QueueOK
  <2>3. Cardinality(queue) \in Nat /\ MaxQueue \in Nat
    BY FS_CardinalityType DEF QueueOK, RequestQueueAssumption
  <2>4. Cardinality(queue') <= MaxQueue
    BY <2>1, <2>2, <2>3
  <2> QED BY <2>1, <2>2, <2>4 DEF QueueOK
<1>2. CASE queue' \subseteq queue /\ old' \subseteq queue'
  BY <1>2, QueueShrinks
<1>3. CASE UNCHANGED <<queue, old>>
  BY <1>3, <1>2 DEF QueueOK
<1>4. ASSUME NEW w \in Workers, WorkerStep(w) \/ WakeUp(w) \/ EndWorker(w)
      PROVE  QueueOK'
  <2>1. CASE Fetch(w)
    <3>1. queue' \subseteq queue /\ old' \subseteq queue'
      BY <2>1 DEF Fetch, QueueOK
    <3> QED BY <3>1, <1>2
  <2>2. CASE ~Fetch(w)
    <3>1. UNCHANGED <<queue, old>>
      BY <1>4, <2>2, Zenon DEF WorkerStep, Sleep, WakeUp, EndWorker, Enter, Run, Open, Pull, Put,
                               GiveUp, Sentinel, Terminal, Close, queueVars
    <3> QED BY <3>1, <1>3
  <2> QED BY <2>1, <2>2
<1>5. ASSUME NEW r \in Requests, Age(r)
      PROVE  QueueOK'
  BY <1>5, <1>2 DEF Age, QueueOK
<1>6. CASE ClearQueue
  BY <1>6, <1>2 DEF ClearQueue
<1>7. CASE \/ Stop
           \/ \E r \in Requests \ Streams : Abandon(r)
           \/ \E r \in Streams : ReaderStep(r)
           \/ UNCHANGED vars
  BY <1>7, <1>3 DEF Stop, Abandon, ReaderStep, StartReading, LeaveUnread, Read, IdleTimeout, Disconnect, Quit, queueVars, vars
<1> QED BY <1>1, <1>4, <1>5, <1>6, <1>7, Zenon DEF Next

-----------------------------------------------------------------------------
(* Types: the workers. *)

Idling == {"asleep", "awake", "over"}

InsidePcs == {"run"} \union StreamPcs

Good(s) == /\ s \in WorkerStates
           /\ s.req = {} <=> s.pc \in Idling
           /\ s.pc = "put" => s.next \in 0..Chunks
           /\ s.pc = "sentinel" => s.frames # <<>>
           /\ s.pc \in StreamPcs => s.req \subseteq Streams

WorkersOK == /\ worker \in [Workers -> WorkerStates]
             /\ \A w \in Workers : Good(worker[w])

\* A worker that gets a new state and does not enter.
LEMMA OneWorkerMoves ==
  ASSUME WorkersOK, NEW w \in Workers, NEW s, Good(s), worker' = [worker EXCEPT ![w] = s],
         s.pc \in InsidePcs => worker[w].pc \in InsidePcs
  PROVE  WorkersOK' /\ Inside' \subseteq Inside
<1>1. s \in WorkerStates /\ worker \in [Workers -> WorkerStates]
  BY DEF Good, WorkersOK
<1>2. worker' \in [Workers -> WorkerStates] /\ \A v \in Workers : worker'[v] = IF v = w THEN s ELSE worker[v]
  BY <1>1
<1>3. WorkersOK'
  BY <1>2 DEF WorkersOK
<1>4. Inside' \subseteq Inside
  BY <1>2 DEF Inside, InsidePcs, StreamPcs
<1> QED BY <1>3, <1>4

\* A worker that goes on with its request.
LEMMA GoesOn ==
  ASSUME WorkersOK, NEW w \in Workers, worker[w].pc \in StreamPcs,
         NEW s \in WorkerStates, s.pc \in StreamPcs, s.req = worker[w].req,
         s.pc = "put" => s.next \in 0..Chunks,
         s.pc = "sentinel" => s.frames # <<>>,
         worker' = [worker EXCEPT ![w] = s]
  PROVE  /\ WorkersOK' /\ Inside' \subseteq Inside
         /\ \A v \in Workers : worker'[v].req = worker[v].req
         /\ \A v \in Workers : v # w => worker'[v] = worker[v]
<1>1. worker[w].req # {} /\ worker \in [Workers -> WorkerStates]
  BY DEF WorkersOK, Good, StreamPcs, Idling
<1>2. Good(s) /\ worker[w].pc \in InsidePcs
  BY <1>1 DEF Good, WorkersOK, StreamPcs, InsidePcs, Idling
<1>3. worker'[w] = s /\ \A v \in Workers : v # w => worker'[v] = worker[v]
  BY <1>1
<1>4. WorkersOK' /\ Inside' \subseteq Inside
  BY <1>2, OneWorkerMoves
<1> QED BY <1>3, <1>4

\* The frames at the end of a stream.
LEMMA LastFrames ==
  /\ <<>> \in Seq(Frames) /\ <<"end">> \in Seq(Frames)
  /\ ErrorFrames \in Seq(Frames)
<1>1. "error" \in Frames /\ "done" \in Frames /\ "end" \in Frames
  BY DEF Frames
<1> QED BY <1>1 DEF ErrorFrames

\* A pump that ends leaves its last frames.
LEMMA PumpEnds ==
  ASSUME WorkersOK, NEW w \in Workers, worker[w].pc \in StreamPcs,
         NEW o \in Outcomes, PumpOver(w, o)
  PROVE  /\ WorkersOK' /\ Inside' \subseteq Inside
         /\ \A v \in Workers : worker'[v].req = worker[v].req
         /\ \A v \in Workers : v # w => worker'[v] = worker[v]
<1> DEFINE pc == IF worker[w].sync THEN "sentinel" ELSE "closing"
           e  == IF o = "exception" THEN ErrorFrames ELSE <<>>
           f  == <<"end">> \o e
           s  == [worker[w] EXCEPT !.pc = pc, !.frames = f, !.outcome = o]
<1>1. worker[w] \in WorkerStates /\ worker \in [Workers -> WorkerStates]
  BY DEF WorkersOK
<1>2. pc \in Pcs /\ pc \in StreamPcs /\ pc # "put"
  BY DEF Pcs, StreamPcs
<1>3. <<"end">> \in Seq(Frames) /\ e \in Seq(Frames)
  BY LastFrames
<1>4. f \in Seq(Frames) /\ f # <<>>
  <2> HIDE DEF e
  <2> QED BY <1>3
<1> HIDE DEF f, pc
<1>5. worker' = [worker EXCEPT ![w] = s]
  BY <1>1 DEF PumpOver, f, pc
<1>6. s \in WorkerStates /\ s.pc = pc /\ s.req = worker[w].req /\ s.frames = f
  BY <1>1, <1>2, <1>4 DEF WorkerStates
<1> HIDE DEF s
<1> QED BY <1>2, <1>4, <1>5, <1>6, GoesOn

\* The steps of a stream, from its opening to its last frame.
LEMMA StreamSteps ==
  ASSUME RequestQueueAssumption, WorkersOK, NEW w \in Workers,
         Open(w) \/ Pull(w) \/ Put(w) \/ GiveUp(w) \/ Sentinel(w) \/ Terminal(w)
  PROVE  /\ WorkersOK' /\ Inside' \subseteq Inside
         /\ \A v \in Workers : worker'[v].req = worker[v].req
         /\ worker[w].pc \in StreamPcs
         /\ \A v \in Workers : v # w => worker'[v] = worker[v]
<1> DEFINE u == worker[w]
           Same == /\ WorkersOK' /\ Inside' \subseteq Inside
                   /\ \A v \in Workers : worker'[v].req = worker[v].req
                   /\ \A v \in Workers : v # w => worker'[v] = worker[v]
<1>1. /\ u \in WorkerStates /\ worker \in [Workers -> WorkerStates] /\ Good(u)
      /\ u.next \in 0..(Chunks + 1) /\ u.frames \in Seq(Frames)
  BY DEF WorkersOK, WorkerStates
<1>2. worker[w].pc \in StreamPcs
  BY Zenon DEF Open, Pull, Put, GiveUp, Sentinel, Terminal, StreamPcs
<1>3. Outcomes = {"result", "exception"} /\ StreamPcs \subseteq Pcs
  BY DEF Outcomes, StreamPcs, Pcs
<1>4. ErrorFrames \in Seq(Frames) /\ 1 \in 0..(Chunks + 1)
  BY LastFrames DEF RequestQueueAssumption
<1>5. {"pull", "put", "closing"} \subseteq StreamPcs
  BY DEF StreamPcs
<1>6. CASE Open(w)
  <2>1. CASE \E sy \in BOOLEAN : worker' = [worker EXCEPT ![w] = [@ EXCEPT !.pc = "pull", !.sync = sy, !.next = 1]]
    <3>1. PICK sy \in BOOLEAN : worker' = [worker EXCEPT ![w] = [@ EXCEPT !.pc = "pull", !.sync = sy, !.next = 1]]
      BY <2>1, Zenon
    <3> DEFINE s == [u EXCEPT !.pc = "pull", !.sync = sy, !.next = 1]
    <3>2. worker' = [worker EXCEPT ![w] = s]
      BY <1>1, <3>1
    <3>3. s \in WorkerStates /\ s.pc = "pull" /\ s.req = u.req
      BY <1>1, <1>3, <1>4, <1>5 DEF WorkerStates
    <3> HIDE DEF s
    <3> QED BY <1>2, <1>5, <3>2, <3>3, GoesOn
  <2>2. CASE worker' = [worker EXCEPT ![w] = [@ EXCEPT !.pc = "closing", !.frames = ErrorFrames, !.outcome = "exception"]]
    <3> DEFINE s == [u EXCEPT !.pc = "closing", !.frames = ErrorFrames, !.outcome = "exception"]
    <3>1. worker' = [worker EXCEPT ![w] = s]
      BY <1>1, <2>2
    <3>2. s \in WorkerStates /\ s.pc = "closing" /\ s.req = u.req
      BY <1>1, <1>3, <1>4, <1>5 DEF WorkerStates
    <3> HIDE DEF s
    <3> QED BY <1>2, <1>5, <3>1, <3>2, GoesOn
  <2> QED BY <1>6, <2>1, <2>2, Zenon DEF Open
<1>7. CASE Pull(w)
  <2>1. CASE u.next <= Chunks /\ worker' = [worker EXCEPT ![w].pc = "put"]
    <3> DEFINE s == [u EXCEPT !.pc = "put"]
    <3>1. worker' = [worker EXCEPT ![w] = s]
      BY <1>1, <2>1
    <3>2. s \in WorkerStates /\ s.pc = "put" /\ s.next = u.next /\ s.req = u.req
      BY <1>1, <1>3, <1>5 DEF WorkerStates
    <3>3. u.next \in 0..Chunks
      BY <1>1, <2>1 DEF RequestQueueAssumption
    <3> HIDE DEF s
    <3> QED BY <1>2, <1>5, <3>1, <3>2, <3>3, GoesOn
  <2>2. CASE \E o \in Outcomes : PumpOver(w, o)
    <3>1. PICK o \in Outcomes : PumpOver(w, o)
      BY <2>2
    <3> QED BY <1>2, <3>1, PumpEnds
  <2> QED BY <1>3, <1>7, <2>1, <2>2 DEF Pull
<1>8. CASE Put(w)
  <2> DEFINE s == [u EXCEPT !.pc = "pull", !.next = u.next + 1]
  <2>1. u.next \in 0..Chunks
    BY <1>1, <1>8 DEF Put, Good
  <2>2. u.next + 1 \in 0..(Chunks + 1)
    BY <2>1 DEF RequestQueueAssumption
  <2>3. worker' = [worker EXCEPT ![w] = s]
    BY <1>8, Zenon DEF Put
  <2>4. s \in WorkerStates /\ s.pc = "pull" /\ s.req = u.req
    BY <1>1, <1>3, <1>5, <2>2 DEF WorkerStates
  <2> HIDE DEF s
  <2> QED BY <1>2, <1>5, <2>3, <2>4, GoesOn
<1>9. CASE GiveUp(w)
  BY <1>2, <1>3, <1>9, PumpEnds DEF GiveUp
<1>10. CASE Sentinel(w) \/ Terminal(w)
  <2> DEFINE s == [u EXCEPT !.pc = "closing", !.frames = Tail(u.frames)]
  <2>1. worker' = [worker EXCEPT ![w] = s]
    BY <1>10, Zenon DEF Sentinel, Terminal, Behind
  <2>2. u.frames # <<>>
    BY <1>1, <1>10 DEF Sentinel, Terminal, Good
  <2>3. Tail(u.frames) \in Seq(Frames)
    BY <1>1, <2>2
  <2>4. s \in WorkerStates /\ s.pc = "closing" /\ s.req = u.req
    BY <1>1, <1>3, <1>5, <2>3 DEF WorkerStates
  <2> HIDE DEF s
  <2> QED BY <1>2, <1>5, <2>1, <2>4, GoesOn
<1> QED BY <1>2, <1>6, <1>7, <1>8, <1>9, <1>10

\* A step of somebody else.
LEMMA WorkersRest ==
  ASSUME WorkersOK, UNCHANGED worker
  PROVE  /\ WorkersOK' /\ Inside' \subseteq Inside
         /\ \A v \in Workers : worker'[v].req = worker[v].req
  BY DEF WorkersOK, Inside

\* Finish leaves a free worker.
LEMMA FinishFrees ==
  ASSUME RequestQueueAssumption, WorkersOK, NEW w \in Workers, Finish(w)
  PROVE  WorkersOK' /\ Inside' \subseteq Inside
<1>1. "awake" \in Pcs /\ "awake" \in Idling /\ "awake" \notin InsidePcs
  BY DEF Pcs, Idling, InsidePcs, StreamPcs
<1>2. Free("awake") \in WorkerStates /\ Free("awake").pc = "awake" /\ Free("awake").req = {}
  BY <1>1, FreeIsState
<1>3. Good(Free("awake"))
  BY <1>1, <1>2 DEF Good, StreamPcs, Idling
<1> QED BY <1>1, <1>2, <1>3, OneWorkerMoves DEF Finish

\* A worker that sleeps, wakes up or ends has no request afterwards.
LEMMA IdleSteps ==
  ASSUME RequestQueueAssumption, WorkersOK, NEW w \in Workers, Sleep(w) \/ WakeUp(w) \/ EndWorker(w)
  PROVE  WorkersOK' /\ Inside' \subseteq Inside
<1>1. PICK pc \in Idling : worker' = [worker EXCEPT ![w] = Free(pc)]
  BY Zenon DEF Sleep, WakeUp, EndWorker, Idling
<1>2. pc \in Pcs /\ pc \notin InsidePcs /\ pc \notin StreamPcs /\ pc # "put" /\ pc # "sentinel"
  BY DEF Pcs, Idling, InsidePcs, StreamPcs
<1>3. Free(pc) \in WorkerStates /\ Free(pc).pc = pc /\ Free(pc).req = {}
  BY <1>2, FreeIsState
<1>4. Good(Free(pc))
  BY <1>2, <1>3 DEF Good
<1> QED BY <1>1, <1>2, <1>3, <1>4, OneWorkerMoves

\* A worker that fetches a request waits at the gate with it, or drops it.
LEMMA FetchSteps ==
  ASSUME RequestQueueAssumption, WorkersOK, queue \subseteq Requests, NEW w \in Workers, Fetch(w)
  PROVE  WorkersOK' /\ Inside' \subseteq Inside
<1>1. CASE UNCHANGED worker
  BY <1>1, WorkersRest
<1>2. ASSUME NEW r \in Urgent, worker' = [worker EXCEPT ![w] = [Free("gate") EXCEPT !.req = {r}]]
      PROVE  WorkersOK' /\ Inside' \subseteq Inside
  <2> DEFINE s == [Free("gate") EXCEPT !.req = {r}]
  <2>1. "gate" \in Pcs /\ "gate" \notin InsidePcs /\ "gate" \notin StreamPcs /\ "gate" \notin Idling
    BY DEF Pcs, Idling, InsidePcs, StreamPcs
  <2>2. {r} \in {{}} \union {{x} : x \in Requests} /\ {r} # {}
    BY DEF Urgent
  <2>3. Free("gate") \in WorkerStates /\ Free("gate").pc = "gate"
    BY <2>1, FreeIsState
  <2>4. s \in WorkerStates /\ s.pc = "gate" /\ s.req = {r}
    <3> DEFINE q == {r}
               f == Free("gate")
    <3> HIDE DEF q, f
    <3>1. [f EXCEPT !.req = q] \in WorkerStates /\ [f EXCEPT !.req = q].pc = "gate"
          /\ [f EXCEPT !.req = q].req = q
      BY <2>2, <2>3 DEF WorkerStates, q, f
    <3> QED BY <3>1 DEF q, f
  <2> HIDE DEF s
  <2>5. Good(s)
    BY <2>1, <2>2, <2>4 DEF Good
  <2>6. worker' = [worker EXCEPT ![w] = s]
    BY <1>2 DEF s
  <2> QED BY <2>1, <2>4, <2>5, <2>6, OneWorkerMoves
<1> QED BY <1>1, <1>2, Zenon DEF Fetch

\* A worker enters while there is room for one more.
LEMMA EnterSteps ==
  ASSUME RequestQueueAssumption, WorkersOK, NEW w \in Workers, Enter(w)
  PROVE  WorkersOK' /\ (Inside' \subseteq Inside \/ (Vacant /\ Inside' \subseteq Inside \union {w}))
<1>1. CASE Finish(w)
  BY <1>1, FinishFrees
<1>2. CASE worker' = [worker EXCEPT ![w].pc = IF Req(w) \in Streams THEN "open" ELSE "run"]
  <2> DEFINE pc == IF Req(w) \in Streams THEN "open" ELSE "run"
             s  == [worker[w] EXCEPT !.pc = pc]
  <2>1. worker' = [worker EXCEPT ![w] = s]
    BY <1>2
  <2>2. worker[w].pc = "gate" /\ Vacant
    BY DEF Enter
  <2>3. worker \in [Workers -> WorkerStates] /\ worker[w] \in WorkerStates /\ worker[w].req # {}
    BY <2>2 DEF WorkersOK, Good, Idling
  <2>4. worker[w].req = {Req(w)}
    <3>1. worker[w].req \in {{}} \union {{r} : r \in Requests}
      BY <2>3 DEF WorkerStates
    <3>2. PICK r \in Requests : worker[w].req = {r}
      BY <2>3, <3>1
    <3> QED BY <3>2 DEF Req
  <2>5. pc \in {"open", "run"} /\ (pc = "open" => Req(w) \in Streams)
    OBVIOUS
  <2> HIDE DEF pc
  <2>6. pc \in Pcs /\ pc \notin Idling /\ pc # "put" /\ pc # "sentinel" /\ (pc \in StreamPcs => pc = "open")
    BY <2>5 DEF Pcs, Idling, StreamPcs
  <2>7. s \in WorkerStates /\ s.pc = pc /\ s.req = worker[w].req
    BY <2>3, <2>6 DEF WorkerStates
  <2> HIDE DEF s
  <2>8. Good(s)
    BY <2>3, <2>4, <2>5, <2>6, <2>7 DEF Good
  <2>9. /\ worker' \in [Workers -> WorkerStates]
        /\ worker'[w] = s /\ \A v \in Workers : v # w => worker'[v] = worker[v]
    BY <2>1, <2>3, <2>7
  <2>10. WorkersOK'
    BY <2>8, <2>9 DEF WorkersOK
  <2>11. Inside' \subseteq Inside \union {w}
    BY <2>9 DEF Inside
  <2> QED BY <2>2, <2>10, <2>11
<1> QED BY <1>1, <1>2, Zenon DEF Enter

\* What a step does to the workers.
LEMMA WorkersStayOK ==
  ASSUME RequestQueueAssumption, WorkersOK, queue \subseteq Requests, [Next]_vars
  PROVE  /\ WorkersOK'
         /\ \/ Inside' \subseteq Inside
            \/ Vacant /\ \E w \in Workers : Inside' \subseteq Inside \union {w}
<1>1. CASE UNCHANGED worker
  BY <1>1, WorkersRest
<1>2. ASSUME NEW r \in Requests, Enqueue(r)
      PROVE  WorkersOK' /\ Inside' \subseteq Inside
  <2>1. worker' = [w \in Workers |-> IF worker[w].pc = "asleep" THEN Free("awake") ELSE worker[w]]
    BY <1>2 DEF Enqueue, Woken
  <2>2. "awake" \in Pcs /\ "awake" \in Idling /\ "awake" \notin InsidePcs /\ "awake" \notin StreamPcs
    BY DEF Pcs, Idling, InsidePcs, StreamPcs
  <2>3. Free("awake") \in WorkerStates /\ Free("awake").pc = "awake" /\ Free("awake").req = {}
    BY <2>2, FreeIsState
  <2>4. Good(Free("awake"))
    BY <2>2, <2>3 DEF Good
  <2>5. WorkersOK'
    BY <2>1, <2>3, <2>4 DEF WorkersOK
  <2>6. Inside' \subseteq Inside
    BY <2>1, <2>2, <2>3 DEF Inside, InsidePcs, StreamPcs
  <2> QED BY <2>5, <2>6
<1>3. ASSUME NEW w \in Workers, WorkerStep(w) \/ WakeUp(w) \/ EndWorker(w)
      PROVE  /\ WorkersOK'
             /\ Inside' \subseteq Inside \/ (Vacant /\ Inside' \subseteq Inside \union {w})
  <2>1. CASE Sleep(w) \/ WakeUp(w) \/ EndWorker(w)
    BY <2>1, IdleSteps
  <2>2. CASE Fetch(w)
    BY <2>2, FetchSteps
  <2>3. CASE Enter(w)
    BY <2>3, EnterSteps
  <2>4. CASE Run(w) \/ Close(w)
    BY <2>4, FinishFrees, Zenon DEF Run, Close
  <2>5. CASE Open(w) \/ Pull(w) \/ Put(w) \/ GiveUp(w) \/ Sentinel(w) \/ Terminal(w)
    BY <2>5, StreamSteps
  <2> QED BY <1>3, <2>1, <2>2, <2>3, <2>4, <2>5, Zenon DEF WorkerStep
<1>4. CASE \/ \E r \in Requests : Age(r)
           \/ \E r \in Requests \ Streams : Abandon(r)
           \/ \E r \in Streams : ReaderStep(r)
           \/ ClearQueue
           \/ Stop
           \/ UNCHANGED vars
  <2>1. UNCHANGED worker
    BY <1>4, Zenon DEF Age, Abandon, ReaderStep, StartReading, LeaveUnread, Read, IdleTimeout, Disconnect, Quit, ClearQueue, Stop, vars
  <2> QED BY <1>1, <2>1
<1> QED BY <1>2, <1>3, <1>4, Zenon DEF Next

\* The semaphore is not taken more often than it may be.
LEMMA InsideStaysOK ==
  ASSUME RequestQueueAssumption, WorkersOK, queue \subseteq Requests, [Next]_vars,
         Cardinality(Inside) <= MaxConcurrent
  PROVE  Cardinality(Inside') <= MaxConcurrent
<1>1. IsFiniteSet(Workers) /\ Inside \subseteq Workers /\ MaxConcurrent \in Nat
  BY DEF RequestQueueAssumption, Inside
<1>2. IsFiniteSet(Inside) /\ Cardinality(Inside) \in Nat
  BY <1>1, FS_Subset, FS_CardinalityType
<1>3. CASE Inside' \subseteq Inside
  <2>1. IsFiniteSet(Inside') /\ Cardinality(Inside') <= Cardinality(Inside)
    BY <1>2, <1>3, FS_Subset
  <2>2. Cardinality(Inside') \in Nat
    BY <2>1, FS_CardinalityType
  <2> QED BY <1>1, <1>2, <2>1, <2>2
<1>4. ASSUME Vacant, NEW w \in Workers, Inside' \subseteq Inside \union {w}
      PROVE  Cardinality(Inside') <= MaxConcurrent
  <2> DEFINE J == Inside \union {w}
  <2>1. IsFiniteSet(J) /\ Cardinality(J) = IF w \in Inside THEN Cardinality(Inside) ELSE Cardinality(Inside) + 1
    BY <1>2, FS_AddElement
  <2>2. Cardinality(J) <= MaxConcurrent /\ Cardinality(J) \in Nat
    BY <1>1, <1>2, <1>4, <2>1 DEF Vacant
  <2>3. Inside' \in SUBSET J
    BY <1>4
  <2> HIDE DEF J
  <2>4. IsFiniteSet(Inside') /\ Cardinality(Inside') <= Cardinality(J)
    BY <2>1, <2>3, FS_Subset
  <2>5. Cardinality(Inside') \in Nat
    BY <2>4, FS_CardinalityType
  <2> QED BY <1>1, <2>2, <2>4, <2>5
<1> QED BY <1>3, <1>4, WorkersStayOK

-----------------------------------------------------------------------------
(* Types: futures, channels and readers. *)

ReaderStates == [state : {"none", "waiting", "unread", "reading", "ended", "timed_out", "gone"}, seen : Nat, error : BOOLEAN]

StreamsOK ==
  /\ channel \in [Streams -> Seq(Frames)] /\ \A r \in Streams : Len(channel[r]) <= ChannelSize
  /\ reader \in [Streams -> ReaderStates]
  /\ failed \subseteq Streams

\* A put that finds room.
LEMMA DeliverOK ==
  ASSUME RequestQueueAssumption, StreamsOK, NEW r \in Streams, NEW f \in Frames, Deliver(r, f)
  PROVE  channel' \in [Streams -> Seq(Frames)] /\ \A q \in Streams : Len(channel'[q]) <= ChannelSize
<1>1. /\ channel \in [Streams -> Seq(Frames)] /\ channel[r] \in Seq(Frames)
      /\ Len(channel[r]) < ChannelSize /\ ChannelSize \in Nat
  BY DEF Deliver, Room, StreamsOK, RequestQueueAssumption
<1>2. Append(channel[r], f) \in Seq(Frames) /\ Len(Append(channel[r], f)) = Len(channel[r]) + 1
  BY <1>1
<1>3. Len(channel[r]) \in Nat
  BY <1>1
<1>4. Len(Append(channel[r], f)) <= ChannelSize
  BY <1>1, <1>2, <1>3
<1>5. channel' = [channel EXCEPT ![r] = Append(channel[r], f)]
  BY DEF Deliver
<1> DEFINE c == Append(channel[r], f)
<1> HIDE DEF c
<1>6. c \in Seq(Frames) /\ Len(c) <= ChannelSize /\ channel' = [channel EXCEPT ![r] = c]
  BY <1>2, <1>4, <1>5 DEF c
<1> QED BY <1>1, <1>6 DEF StreamsOK

\* What pumps do to channels and to the history of failures.
LEMMA PumpsStayOK ==
  ASSUME RequestQueueAssumption, WorkersOK, StreamsOK, NEW w \in Workers,
         Open(w) \/ Pull(w) \/ Put(w) \/ GiveUp(w) \/ Sentinel(w) \/ Terminal(w)
  PROVE  StreamsOK'
<1>1. worker[w].pc \in StreamPcs
  BY Zenon DEF Open, Pull, Put, GiveUp, Sentinel, Terminal, StreamPcs
<1>2. /\ worker[w] \in WorkerStates /\ worker[w].req \subseteq Streams /\ worker[w].req # {}
      /\ worker[w].frames \in Seq(Frames)
  BY <1>1 DEF WorkersOK, Good, StreamPcs, Idling, WorkerStates
<1>3. Req(w) \in Streams
  BY <1>2 DEF Req
<1>4. UNCHANGED reader
  BY Zenon DEF Open, Pull, Put, GiveUp, Sentinel, Terminal, streamVars
<1>5. failed' = failed \/ failed' = failed \union {Req(w)}
  BY Zenon DEF Open, Pull, Put, GiveUp, Sentinel, Terminal, streamVars
<1>6. UNCHANGED channel \/ \E f \in Frames : Deliver(Req(w), f)
  <2>1. CASE Open(w) \/ Pull(w) \/ GiveUp(w)
    BY <2>1, Zenon DEF Open, Pull, GiveUp, streamVars
  <2>2. CASE Put(w) \/ Sentinel(w)
    <3>1. "chunk" \in Frames /\ "end" \in Frames
      BY DEF Frames
    <3> QED BY <2>2, <3>1, Zenon DEF Put, Sentinel
  <2>3. CASE Terminal(w)
    <3>1. Head(worker[w].frames) \in Frames
      BY <1>2, <2>3 DEF Terminal
    <3> QED BY <2>3, <3>1, Zenon DEF Terminal
  <2> QED BY <2>1, <2>2, <2>3
<1>7. channel' \in [Streams -> Seq(Frames)] /\ \A q \in Streams : Len(channel'[q]) <= ChannelSize
  <2>1. CASE UNCHANGED channel
    BY <2>1 DEF StreamsOK
  <2>2. ASSUME NEW f \in Frames, Deliver(Req(w), f)
        PROVE  channel' \in [Streams -> Seq(Frames)] /\ \A q \in Streams : Len(channel'[q]) <= ChannelSize
    BY <1>3, <2>2, DeliverOK
  <2> QED BY <1>6, <2>1, <2>2
<1>8. reader' \in [Streams -> ReaderStates] /\ failed' \subseteq Streams
  BY <1>3, <1>4, <1>5 DEF StreamsOK
<1> QED BY <1>7, <1>8 DEF StreamsOK

\* What readers do to their channels.
LEMMA ReadersStayOK ==
  ASSUME RequestQueueAssumption, StreamsOK, NEW r \in Streams, ReaderStep(r)
  PROVE  StreamsOK'
<1>1. /\ channel \in [Streams -> Seq(Frames)] /\ channel[r] \in Seq(Frames)
      /\ reader \in [Streams -> ReaderStates] /\ reader[r] \in ReaderStates
      /\ Len(channel[r]) <= ChannelSize /\ ChannelSize \in Nat
  BY DEF StreamsOK, RequestQueueAssumption
<1>2. ASSUME NEW c \in Seq(Frames), Len(c) <= ChannelSize, NEW s \in ReaderStates,
             channel' = [channel EXCEPT ![r] = c], reader' = [reader EXCEPT ![r] = s], UNCHANGED failed
      PROVE  StreamsOK'
  <2>1. channel' \in [Streams -> Seq(Frames)] /\ reader' \in [Streams -> ReaderStates]
    BY <1>1, <1>2
  <2>2. \A q \in Streams : channel'[q] = c \/ channel'[q] = channel[q]
    BY <1>1, <1>2
  <2> QED BY <1>2, <2>1, <2>2 DEF StreamsOK
<1>3. CASE Read(r)
  <2> DEFINE c == Tail(channel[r])
             s == [state |-> IF Head(channel[r]) = "end" THEN "ended" ELSE "reading",
                   seen  |-> IF Head(channel[r]) = "chunk" THEN reader[r].seen + 1 ELSE reader[r].seen,
                   error |-> reader[r].error \/ Head(channel[r]) = "error"]
  <2>1. channel[r] # <<>>
    BY <1>3 DEF Read
  <2>2. c \in Seq(Frames) /\ Len(c) = Len(channel[r]) - 1 /\ Len(channel[r]) \in Nat
    BY <1>1, <2>1
  <2>3. Len(c) <= ChannelSize
    BY <1>1, <2>2
  <2>4. s \in ReaderStates
    <3>1. reader[r].seen \in Nat /\ reader[r].error \in BOOLEAN
      BY <1>1 DEF ReaderStates
    <3>2. s.seen \in Nat
      BY <3>1
    <3>3. (reader[r].error \/ Head(channel[r]) = "error") \in BOOLEAN
      OBVIOUS
    <3>4. s.state \in {"none", "waiting", "unread", "reading", "ended", "timed_out", "gone"}
      OBVIOUS
    <3> QED BY <3>2, <3>3, <3>4, Zenon DEF ReaderStates
  <2>5. channel' = [channel EXCEPT ![r] = c] /\ reader' = [reader EXCEPT ![r] = s]
    BY <1>3, Zenon DEF Read
  <2>6. UNCHANGED failed
    BY <1>3 DEF Read
  <2> HIDE DEF c, s
  <2> QED BY <1>2, <2>2, <2>3, <2>4, <2>5, <2>6
<1>4. CASE IdleTimeout(r) \/ Disconnect(r)
  <2>1. PICK x \in {"timed_out", "gone"} : Quit(r, x)
    BY <1>4 DEF IdleTimeout, Disconnect
  <2> DEFINE s == [reader[r] EXCEPT !.state = x]
  <2>2. s \in ReaderStates
    BY <1>1 DEF ReaderStates
  <2>3. reader' = [reader EXCEPT ![r] = s]
    BY <2>1 DEF Quit
  <2>4. channel' = [channel EXCEPT ![r] = <<>>] /\ UNCHANGED failed
    BY <2>1 DEF Quit
  <2>5. <<>> \in Seq(Frames) /\ Len(<<>>) <= ChannelSize
    BY <1>1, LastFrames
  <2> HIDE DEF s
  <2> QED BY <1>2, <2>2, <2>3, <2>4, <2>5
<1>5. CASE StartReading(r) \/ LeaveUnread(r)
  <2>1. PICK x \in {"reading", "unread"} : reader' = [reader EXCEPT ![r].state = x]
    BY <1>5 DEF StartReading, LeaveUnread
  <2> DEFINE s == [reader[r] EXCEPT !.state = x]
  <2>2. s \in ReaderStates
    BY <1>1 DEF ReaderStates
  <2>3. reader' = [reader EXCEPT ![r] = s]
    BY <2>1
  <2> HIDE DEF s
  <2>4. reader' \in [Streams -> ReaderStates] /\ UNCHANGED <<channel, failed>>
    BY <1>1, <1>5, <2>2, <2>3 DEF StartReading, LeaveUnread
  <2> QED BY <2>4 DEF StreamsOK
<1> QED BY <1>3, <1>4, <1>5, Zenon DEF ReaderStep

\* Channels, readers and failures keep their types.
LEMMA StreamsStayOK ==
  ASSUME RequestQueueAssumption, WorkersOK, StreamsOK, [Next]_vars
  PROVE  StreamsOK'
<1>1. CASE UNCHANGED streamVars
  BY <1>1 DEF StreamsOK, streamVars
<1>2. ASSUME NEW w \in Workers, WorkerStep(w) \/ WakeUp(w) \/ EndWorker(w)
      PROVE  StreamsOK'
  <2>1. CASE Open(w) \/ Pull(w) \/ Put(w) \/ GiveUp(w) \/ Sentinel(w) \/ Terminal(w)
    BY <2>1, PumpsStayOK
  <2>2. CASE Sleep(w) \/ WakeUp(w) \/ EndWorker(w) \/ Fetch(w) \/ Enter(w) \/ Run(w) \/ Close(w)
    BY <1>1, <2>2, Zenon DEF Sleep, WakeUp, EndWorker, Fetch, Enter, Run, Close
  <2> QED BY <1>2, <2>1, <2>2, Zenon DEF WorkerStep
<1>3. ASSUME NEW r \in Requests, Enqueue(r)
      PROVE  StreamsOK'
  <2>1. UNCHANGED <<channel, failed>>
    BY <1>3 DEF Enqueue
  <2>2. reader' \in [Streams -> ReaderStates]
    <3>1. CASE r \in Streams
      <4> DEFINE s == [reader[r] EXCEPT !.state = "waiting"]
      <4>1. s \in ReaderStates
        BY <3>1 DEF StreamsOK, ReaderStates
      <4>2. reader' = [reader EXCEPT ![r] = s]
        BY <1>3, <3>1 DEF Enqueue
      <4> HIDE DEF s
      <4> QED BY <3>1, <4>1, <4>2 DEF StreamsOK
    <3>2. CASE r \notin Streams
      BY <1>3, <3>2 DEF Enqueue, StreamsOK
    <3> QED BY <3>1, <3>2
  <2> QED BY <2>1, <2>2 DEF StreamsOK
<1>4. ASSUME NEW r \in Streams, ReaderStep(r)
      PROVE  StreamsOK'
  BY <1>4, ReadersStayOK
<1>5. CASE \/ \E r \in Requests : Age(r)
           \/ \E r \in Requests \ Streams : Abandon(r)
           \/ ClearQueue
           \/ Stop
           \/ UNCHANGED vars
  BY <1>1, <1>5, Zenon DEF Age, Abandon, ClearQueue, Stop, vars, streamVars
<1> QED BY <1>2, <1>3, <1>4, <1>5, Zenon DEF Next

-----------------------------------------------------------------------------
(* Types: ids, flags and futures. *)

FlagsOK == has_items \in BOOLEAN /\ running \in BOOLEAN

FuturesOK == fut \in [Requests -> FutStates]

ActiveOK == active \subseteq {IdOf[r] : r \in Requests}

\* The flags stay flags.
LEMMA FlagsStayOK ==
  ASSUME FlagsOK, [Next]_vars
  PROVE  FlagsOK'
<1>1. CASE UNCHANGED <<has_items, running>>
  BY <1>1, Zenon DEF FlagsOK
<1>2. ASSUME NEW w \in Workers, WorkerStep(w) \/ WakeUp(w) \/ EndWorker(w)
      PROVE  FlagsOK'
  <2>1. UNCHANGED running /\ (has_items' = has_items \/ has_items' = FALSE)
    BY <1>2, Zenon DEF WorkerStep, Sleep, WakeUp, EndWorker, Fetch, Enter, Run, Open, Pull, Put,
                       GiveUp, Sentinel, Terminal, Close, queueVars
  <2> QED BY <2>1, Zenon DEF FlagsOK
<1>3. ASSUME NEW r \in Requests, Enqueue(r)
      PROVE  FlagsOK'
  BY <1>3, Zenon DEF Enqueue, Woken, FlagsOK
<1>4. CASE ClearQueue \/ Stop
  BY <1>4, Zenon DEF ClearQueue, Stop, FlagsOK
<1>5. CASE \/ \E r \in Requests : Age(r)
           \/ \E r \in Requests \ Streams : Abandon(r)
           \/ \E r \in Streams : ReaderStep(r)
           \/ UNCHANGED vars
  BY <1>1, <1>5, Zenon DEF Age, Abandon, ReaderStep, StartReading, LeaveUnread, Read, IdleTimeout, Disconnect, Quit, queueVars, vars
<1> QED BY <1>2, <1>3, <1>4, <1>5, Zenon DEF Next

\* What a step does to one future.
LEMMA SettleOK ==
  ASSUME FuturesOK, NEW r, NEW s \in Outcomes, Settle(r, s)
  PROVE  FuturesOK'
<1>1. s \in FutStates
  BY DEF FutStates
<1> QED BY <1>1 DEF FuturesOK, Settle

\* Futures keep their types.
LEMMA FuturesStayOK ==
  ASSUME WorkersOK, FuturesOK, [Next]_vars
  PROVE  FuturesOK'
<1>1. CASE UNCHANGED fut
  BY <1>1 DEF FuturesOK
<1>2. ASSUME NEW R, CancelFutures(R)
      PROVE  FuturesOK'
  <2>1. "cancelled" \in FutStates
    BY DEF FutStates
  <2> QED BY <1>2, <2>1 DEF CancelFutures, FuturesOK
<1>3. ASSUME NEW w \in Workers, WorkerStep(w) \/ WakeUp(w) \/ EndWorker(w)
      PROVE  FuturesOK'
  <2>1. CASE Fetch(w)
    <3>1. "exception" \in Outcomes
      BY DEF Outcomes
    <3>2. UNCHANGED fut \/ \E r : Settle(r, "exception")
      BY <2>1, Zenon DEF Fetch, Drop
    <3> QED BY <1>1, <3>1, <3>2, SettleOK
  <2>2. CASE Run(w) \/ Close(w)
    <3>1. worker[w].outcome \in Outcomes
      BY DEF WorkersOK, WorkerStates
    <3>2. \E s \in Outcomes : Settle(Req(w), s)
      BY <2>2, <3>1, Zenon DEF Run, Close
    <3> QED BY <3>2, SettleOK
  <2>3. CASE \/ Sleep(w) \/ WakeUp(w) \/ EndWorker(w) \/ Enter(w) \/ Open(w) \/ Pull(w) \/ Put(w)
             \/ GiveUp(w) \/ Sentinel(w) \/ Terminal(w)
    BY <1>1, <2>3, Zenon DEF Sleep, WakeUp, EndWorker, Enter, Open, Pull, Put, GiveUp, Sentinel, Terminal
  <2> QED BY <1>3, <2>1, <2>2, <2>3, Zenon DEF WorkerStep
<1>4. ASSUME NEW r \in Requests, Enqueue(r)
      PROVE  FuturesOK'
  <2>1. "pending" \in FutStates /\ fut' = [fut EXCEPT ![r] = "pending"]
    BY <1>4 DEF FutStates, Enqueue
  <2> QED BY <2>1 DEF FuturesOK
<1>5. CASE \/ \E r \in Requests \ Streams : Abandon(r)
           \/ \E r \in Streams : IdleTimeout(r) \/ Disconnect(r)
           \/ ClearQueue
  <2>1. \E R : CancelFutures(R)
    BY <1>5, Zenon DEF Abandon, IdleTimeout, Disconnect, Quit, ClearQueue
  <2> QED BY <1>2, <2>1
<1>6. CASE \/ \E r \in Requests : Age(r)
           \/ \E r \in Streams : StartReading(r) \/ LeaveUnread(r) \/ Read(r)
           \/ Stop
           \/ UNCHANGED vars
  BY <1>1, <1>6, Zenon DEF Age, StartReading, LeaveUnread, Read, Stop, vars
<1> QED BY <1>3, <1>4, <1>5, <1>6, Zenon DEF Next, ReaderStep

\* Active ids are ids.
LEMMA ActiveStaysOK ==
  ASSUME ActiveOK, [Next]_vars
  PROVE  ActiveOK'
<1>1. CASE active' \subseteq active
  BY <1>1 DEF ActiveOK
<1>2. ASSUME NEW r \in Requests, Enqueue(r)
      PROVE  ActiveOK'
  <2>1. active' = active \union {IdOf[r]}
    BY <1>2 DEF Enqueue
  <2> QED BY <2>1 DEF ActiveOK
<1>3. ASSUME NEW w \in Workers, WorkerStep(w) \/ WakeUp(w) \/ EndWorker(w)
      PROVE  active' \subseteq active
  <2>1. active' = active \/ \E i : active' = active \ {i}
    BY <1>3, Zenon DEF WorkerStep, Sleep, WakeUp, EndWorker, Fetch, Drop, Finish, Enter, Run, Open, Pull, Put,
                       GiveUp, Sentinel, Terminal, Close
  <2> QED BY <2>1
<1>4. CASE ClearQueue
  BY <1>1, <1>4 DEF ClearQueue
<1>5. CASE \/ \E r \in Requests : Age(r)
           \/ \E r \in Requests \ Streams : Abandon(r)
           \/ \E r \in Streams : ReaderStep(r)
           \/ Stop
           \/ UNCHANGED vars
  <2>1. active' = active
    BY <1>5, Zenon DEF Age, Abandon, ReaderStep, StartReading, LeaveUnread, Read, IdleTimeout, Disconnect, Quit, Stop, vars
  <2> QED BY <1>1, <2>1
<1> QED BY <1>1, <1>2, <1>3, <1>4, <1>5, Zenon DEF Next

-----------------------------------------------------------------------------
(* The invariant. *)

\* The parts of TypeOK.
LEMMA Parts ==
  /\ TypeOK /\ IsFiniteSet(queue) /\ Pumping
       <=> /\ QueueOK /\ WorkersOK /\ StreamsOK /\ FlagsOK /\ FuturesOK /\ ActiveOK
           /\ Cardinality(Inside) <= MaxConcurrent
<1>1. WorkersOK <=> /\ worker \in [Workers -> WorkerStates]
                    /\ \A w \in Workers : worker[w].req = {} <=> worker[w].pc \in Idling
                    /\ Pumping
  BY DEF WorkersOK, Good, Pumping
<1> QED BY <1>1 DEF TypeOK, QueueOK, WorkerStates, Idling, StreamsOK, ReaderStates, FlagsOK, FuturesOK, FutStates, ActiveOK

\* A step after which a worker sleeps that did not sleep before.
LEMMA OnlySleepers ==
  ASSUME RequestQueueAssumption, WorkersOK, NEW w \in Workers, WorkerStep(w) \/ WakeUp(w) \/ EndWorker(w),
         NEW v \in Workers, worker'[v].pc = "asleep"
  PROVE  worker[v].pc = "asleep" \/ Sleep(w)
<1>1. worker \in [Workers -> WorkerStates]
  BY DEF WorkersOK
<1>2. CASE v # w
  <2>1. CASE \E s : worker' = [worker EXCEPT ![w] = s]
    BY <1>1, <1>2, <2>1
  <2>2. CASE Open(w) \/ Pull(w) \/ Put(w) \/ GiveUp(w) \/ Sentinel(w) \/ Terminal(w)
    BY <1>2, <2>2, StreamSteps
  <2>3. CASE Sleep(w) \/ WakeUp(w) \/ EndWorker(w) \/ Run(w) \/ Close(w)
    BY <2>1, <2>3, Zenon DEF Sleep, WakeUp, EndWorker, Run, Close, Finish
  <2>4. CASE Fetch(w)
    BY <2>1, <2>4, Zenon DEF Fetch
  <2>5. CASE Enter(w)
    <3>1. CASE Finish(w)
      BY <2>1, <3>1 DEF Finish
    <3>2. CASE worker' = [worker EXCEPT ![w].pc = IF Req(w) \in Streams THEN "open" ELSE "run"]
      BY <1>1, <1>2, <3>2
    <3> QED BY <2>5, <3>1, <3>2, Zenon DEF Enter
  <2> QED BY <2>2, <2>3, <2>4, <2>5, Zenon DEF WorkerStep
<1>3. CASE v = w
  <2>1. Free("awake").pc = "awake" /\ Free("over").pc = "over"
    BY DEF Free
  <2>2. CASE WakeUp(w) \/ EndWorker(w) \/ Run(w) \/ Close(w)
    <3>1. worker' = [worker EXCEPT ![w] = Free("awake")] \/ worker' = [worker EXCEPT ![w] = Free("over")]
      BY <2>2, Zenon DEF WakeUp, EndWorker, Run, Close, Finish
    <3> QED BY <1>1, <1>3, <2>1, <3>1
  <2>3. CASE Fetch(w)
    <3>1. worker' = worker \/ \E r : worker' = [worker EXCEPT ![w] = [Free("gate") EXCEPT !.req = {r}]]
      BY <2>3, Zenon DEF Fetch
    <3>2. \A r : [Free("gate") EXCEPT !.req = {r}].pc = "gate"
      BY DEF Free
    <3> QED BY <1>1, <1>3, <3>1, <3>2
  <2>4. CASE Enter(w)
    <3>1. CASE Finish(w)
      BY <1>1, <1>3, <2>1, <3>1 DEF Finish
    <3>2. CASE worker' = [worker EXCEPT ![w].pc = IF Req(w) \in Streams THEN "open" ELSE "run"]
      <4>1. worker'[w].pc = IF Req(w) \in Streams THEN "open" ELSE "run"
        BY <1>1, <3>2 DEF WorkerStates
      <4> QED BY <1>3, <4>1
    <3> QED BY <2>4, <3>1, <3>2, Zenon DEF Enter
  <2>5. CASE Open(w) \/ Pull(w) \/ Put(w) \/ GiveUp(w) \/ Sentinel(w) \/ Terminal(w)
    <3>1. /\ worker[w].req # {} /\ worker'[w].req = worker[w].req
          /\ WorkersOK'
      BY <2>5, StreamSteps DEF WorkersOK, Good, StreamPcs, Idling
    <3>2. worker'[w].pc \notin Idling
      BY <3>1 DEF WorkersOK, Good
    <3> QED BY <1>3, <3>2 DEF Idling
  <2> QED BY <2>2, <2>3, <2>4, <2>5, Zenon DEF WorkerStep
<1> QED BY <1>2, <1>3

\* Whoever is asleep is asleep before an empty queue.
LEMMA WakefulStays ==
  ASSUME RequestQueueAssumption, WorkersOK, NobodySleepsOnWork, [Next]_vars
  PROVE  NobodySleepsOnWork'
<1>1. CASE UNCHANGED <<queue, running, worker>>
  BY <1>1 DEF NobodySleepsOnWork
<1>2. ASSUME NEW r \in Requests, Enqueue(r)
      PROVE  NobodySleepsOnWork'
  <2>1. Free("awake").pc = "awake"
    BY DEF Free
  <2>2. worker' = [w \in Workers |-> IF worker[w].pc = "asleep" THEN Free("awake") ELSE worker[w]]
    BY <1>2 DEF Enqueue, Woken
  <2> QED BY <2>1, <2>2 DEF NobodySleepsOnWork
<1>3. ASSUME NEW w \in Workers, WorkerStep(w) \/ WakeUp(w) \/ EndWorker(w)
      PROVE  NobodySleepsOnWork'
  <2>1. running' = running /\ (queue # {} \/ queue' = queue)
    <3>1. CASE Fetch(w)
      BY <3>1 DEF Fetch, Urgent
    <3>2. CASE ~Fetch(w)
      BY <1>3, <3>2, Zenon DEF WorkerStep, Sleep, WakeUp, EndWorker, Enter, Run, Open, Pull, Put,
                               GiveUp, Sentinel, Terminal, Close, queueVars
    <3> QED BY <3>1, <3>2
  <2>2. Sleep(w) => queue' = {}
    BY DEF Sleep, queueVars
  <2>3. ASSUME NEW v \in Workers, running', queue' # {}
        PROVE  worker'[v].pc # "asleep"
    BY <1>3, <2>1, <2>2, <2>3, OnlySleepers DEF NobodySleepsOnWork
  <2> QED BY <2>3 DEF NobodySleepsOnWork
<1>4. CASE ClearQueue \/ Stop
  BY <1>4 DEF ClearQueue, Stop, NobodySleepsOnWork
<1>5. CASE \/ \E r \in Requests : Age(r)
           \/ \E r \in Requests \ Streams : Abandon(r)
           \/ \E r \in Streams : ReaderStep(r)
           \/ UNCHANGED vars
  BY <1>1, <1>5, Zenon DEF Age, Abandon, ReaderStep, StartReading, LeaveUnread, Read, IdleTimeout, Disconnect, Quit, queueVars, vars
<1> QED BY <1>2, <1>3, <1>4, <1>5, Zenon DEF Next

\* Ids and futures stay in step until the queue is stopped.
LEMMA IdsStay ==
  ASSUME RequestQueueAssumption, IInv, [Next]_vars, running'
  PROVE  Ids' /\ Unsettled'
<1>1. QueueOK /\ WorkersOK
  BY Parts DEF IInv
<1>2. \A w \in Workers : WorkerStep(w) \/ WakeUp(w) => running
  BY Zenon DEF WorkerStep, WakeUp, Sleep, Fetch, Enter, Run, Open, Pull, Put, GiveUp, Sentinel, Terminal, Close
<1>3. running
  BY <1>2, Zenon DEF Next, vars, EndWorker, queueVars, Enqueue, Age, Abandon, ReaderStep, StartReading, LeaveUnread, Read, IdleTimeout, Disconnect,
                     Quit, ClearQueue, Stop
<1>4. Ids /\ Unsettled
  BY <1>3 DEF IInv
<1>5. ASSUME UNCHANGED <<queue, active, worker>>,
             \A r \in Requests : fut'[r] = fut[r] \/ fut'[r] = "cancelled"
      PROVE  Ids' /\ Unsettled'
  BY <1>4, <1>5, NobodyMoves
<1>6. ASSUME NEW w \in Workers, WorkerStep(w) \/ WakeUp(w) \/ EndWorker(w)
      PROVE  Ids' /\ Unsettled'
  <2>1. CASE Fetch(w)
    BY <2>1, FetchMoves
  <2>2. CASE Sleep(w) \/ WakeUp(w)
    <3>1. PICK pc \in Idling : worker' = [worker EXCEPT ![w] = Free(pc)]
      BY <2>2, Zenon DEF Sleep, WakeUp, Idling
    <3>2. worker[w].req = {} /\ Free(pc).req = {} /\ worker \in [Workers -> WorkerStates]
      <4>1. worker[w].pc \in Idling
        BY <2>2 DEF Sleep, WakeUp, Idling
      <4> QED BY <1>1, <4>1 DEF WorkersOK, Good, Free
    <3>3. \A v \in Workers : worker'[v].req = worker[v].req
      BY <3>1, <3>2
    <3>4. UNCHANGED <<queue, active, fut>>
      BY <2>2 DEF Sleep, WakeUp, queueVars
    <3> QED BY <1>4, <3>3, <3>4, NobodyMoves
  <2>3. CASE Open(w) \/ Pull(w) \/ Put(w) \/ GiveUp(w) \/ Sentinel(w) \/ Terminal(w)
    <3>1. \A v \in Workers : worker'[v].req = worker[v].req
      BY <1>1, <2>3, StreamSteps
    <3>2. UNCHANGED <<queue, active, fut>>
      BY <2>3, Zenon DEF Open, Pull, Put, GiveUp, Sentinel, Terminal, queueVars
    <3> QED BY <1>4, <3>1, <3>2, NobodyMoves
  <2>4. CASE Run(w) \/ Close(w)
    <3>1. worker[w].pc \notin {"asleep", "awake", "over"} /\ Finish(w) /\ UNCHANGED queue
      BY <2>4 DEF Run, Close, queueVars
    <3>2. \E o : Settle(Req(w), o)
      BY <2>4, Zenon DEF Run, Close
    <3>3. \A s \in Requests : s # Req(w) => fut'[s] = fut[s]
      BY <3>2 DEF Settle, IInv, TypeOK
    <3> QED BY <1>3, <3>1, <3>3, FinishLeaves
  <2>5. CASE Enter(w)
    <3>1. worker[w].pc = "gate" /\ UNCHANGED <<queue, fut>>
      BY <2>5 DEF Enter, queueVars
    <3>2. CASE Finish(w)
      BY <1>3, <3>1, <3>2, FinishLeaves
    <3>3. CASE /\ worker' = [worker EXCEPT ![w].pc = IF Req(w) \in Streams THEN "open" ELSE "run"]
               /\ UNCHANGED active
      <4>1. \A v \in Workers : worker'[v].req = worker[v].req
        BY <1>1, <3>3 DEF WorkersOK, WorkerStates
      <4> QED BY <1>4, <3>1, <3>3, <4>1, NobodyMoves
    <3> QED BY <2>5, <3>2, <3>3, Zenon DEF Enter
  <2>6. ~EndWorker(w)
    BY <1>3 DEF EndWorker
  <2> QED BY <1>6, <2>1, <2>2, <2>3, <2>4, <2>5, <2>6, Zenon DEF WorkerStep
<1>7. ASSUME NEW r \in Requests, Enqueue(r)
      PROVE  Ids' /\ Unsettled'
  BY <1>3, <1>7, EnqueueEnters
<1>8. CASE ClearQueue
  BY <1>3, <1>8, ClearLeaves
<1>9. CASE \/ \E r \in Requests : Age(r)
           \/ \E r \in Streams : StartReading(r) \/ LeaveUnread(r) \/ Read(r)
           \/ UNCHANGED vars
  <2>1. UNCHANGED <<queue, active, worker, fut>>
    BY <1>9, Zenon DEF Age, StartReading, LeaveUnread, Read, queueVars, vars
  <2> QED BY <1>5, <2>1
<1>10. CASE \/ \E r \in Requests \ Streams : Abandon(r)
            \/ \E r \in Streams : IdleTimeout(r) \/ Disconnect(r)
  <2>1. UNCHANGED <<queue, active, worker>> /\ \E R : CancelFutures(R)
    BY <1>10, Zenon DEF Abandon, IdleTimeout, Disconnect, Quit, queueVars
  <2>2. \A r \in Requests : fut'[r] = fut[r] \/ fut'[r] = "cancelled"
    BY <2>1 DEF CancelFutures
  <2> QED BY <1>5, <2>1, <2>2
<1>11. ~Stop
  BY DEF Stop
<1> QED BY <1>6, <1>7, <1>8, <1>9, <1>10, <1>11, Zenon DEF Next, ReaderStep

\* A worker that waits for the semaphore gets on by Enter alone.
LEMMA OnlyEnterStarts ==
  ASSUME RequestQueueAssumption, IInv, [Next]_vars, NEW w \in Workers,
         worker[w].pc = "gate", worker'[w].pc \in {"run", "open"}
  PROVE  Enter(w) /\ Wanted(Req(w))
<1>1. WorkersOK /\ worker \in [Workers -> WorkerStates] /\ Free("awake").pc = "awake" /\ Free("over").pc = "over"
  BY Parts DEF IInv, WorkersOK, Free
<1>2. worker'[w] # worker[w] /\ worker'[w] # Free("awake") /\ worker'[w] # Free("over")
  BY <1>1
<1>3. ASSUME NEW v \in Workers, WorkerStep(v) \/ WakeUp(v) \/ EndWorker(v)
      PROVE  Enter(w) /\ Wanted(Req(w))
  <2>1. ASSUME NEW s, worker' = [worker EXCEPT ![v] = s], v # w
        PROVE  FALSE
    BY <1>1, <1>2, <2>1
  <2>2. CASE Open(v) \/ Pull(v) \/ Put(v) \/ GiveUp(v) \/ Sentinel(v) \/ Terminal(v)
    <3>1. worker[v].pc \in StreamPcs /\ (v # w => worker'[w] = worker[w])
      BY <1>1, <2>2, StreamSteps
    <3> QED BY <1>2, <3>1 DEF StreamPcs
  <2>3. CASE Sleep(v) \/ WakeUp(v)
    <3>1. worker[v].pc # "gate" /\ \E pc : worker' = [worker EXCEPT ![v] = Free(pc)]
      BY <2>3, Zenon DEF Sleep, WakeUp
    <3> QED BY <2>1, <3>1
  <2>4. CASE EndWorker(v) \/ Run(v) \/ Close(v) \/ Finish(v)
    <3>1. worker' = [worker EXCEPT ![v] = Free("awake")] \/ worker' = [worker EXCEPT ![v] = Free("over")]
      BY <2>4, Zenon DEF EndWorker, Run, Close, Finish
    <3> QED BY <1>1, <1>2, <2>1, <3>1
  <2>5. CASE Fetch(v)
    <3>1. worker[v].pc = "awake" /\ (UNCHANGED worker \/ \E s : worker' = [worker EXCEPT ![v] = s])
      BY <2>5, Zenon DEF Fetch
    <3> QED BY <1>2, <2>1, <3>1
  <2>6. CASE Enter(v)
    <3>1. Finish(v) \/ (Wanted(Req(v)) /\ \E s : worker' = [worker EXCEPT ![v] = s])
      <4>1. CASE worker' = [worker EXCEPT ![v].pc = IF Req(v) \in Streams THEN "open" ELSE "run"]
        <5> DEFINE s == [worker[v] EXCEPT !.pc = IF Req(v) \in Streams THEN "open" ELSE "run"]
        <5>1. worker' = [worker EXCEPT ![v] = s]
          BY <4>1
        <5> QED BY <2>6, <5>1 DEF Enter
      <4> QED BY <2>6, <4>1, Zenon DEF Enter
    <3>2. CASE Finish(v)
      BY <2>4, <3>2
    <3> QED BY <2>1, <2>6, <3>1, <3>2
  <2> QED BY <1>3, <2>2, <2>3, <2>4, <2>5, <2>6, Zenon DEF WorkerStep
<1>4. ASSUME NEW r \in Requests, Enqueue(r)
      PROVE  FALSE
  <2>1. worker'[w] = IF worker[w].pc = "asleep" THEN Free("awake") ELSE worker[w]
    BY <1>4 DEF Enqueue, Woken
  <2> QED BY <1>2, <2>1
<1>5. CASE \/ \E r \in Requests : Age(r)
           \/ \E r \in Requests \ Streams : Abandon(r)
           \/ \E r \in Streams : ReaderStep(r)
           \/ ClearQueue
           \/ Stop
           \/ UNCHANGED vars
  <2>1. UNCHANGED worker
    BY <1>5, Zenon DEF Age, Abandon, ReaderStep, StartReading, LeaveUnread, Read, IdleTimeout, Disconnect, Quit, ClearQueue, Stop, vars
  <2> QED BY <1>2, <2>1
<1> QED BY <1>3, <1>4, <1>5, Zenon DEF Next

\* The queue starts empty and its workers free.
LEMMA InitEstablishes ==
  ASSUME RequestQueueAssumption, Init
  PROVE  IInv
<1>1. "awake" \in Pcs /\ "awake" \in Idling /\ "awake" \notin InsidePcs /\ "awake" \notin StreamPcs
  BY DEF Pcs, Idling, InsidePcs, StreamPcs
<1>2. Free("awake") \in WorkerStates /\ Free("awake").pc = "awake" /\ Free("awake").req = {}
  BY <1>1, FreeIsState
<1>3. \A w \in Workers : worker[w] = Free("awake")
  BY DEF Init
<1>4. WorkersOK
  BY <1>1, <1>2, <1>3 DEF Init, WorkersOK, Good
<1>5. Inside = {}
  BY <1>2, <1>3 DEF Inside
<1>6. Cardinality({}) = 0 /\ IsFiniteSet({}) /\ MaxQueue \in Nat /\ MaxConcurrent \in Nat
  BY FS_EmptySet DEF RequestQueueAssumption
<1>7. QueueOK /\ Cardinality(Inside) <= MaxConcurrent
  BY <1>5, <1>6 DEF Init, QueueOK
<1>8. FlagsOK /\ FuturesOK /\ ActiveOK
  BY DEF Init, FlagsOK, FuturesOK, FutStates, ActiveOK
<1>9. StreamsOK
  <2>1. [state |-> "none", seen |-> 0, error |-> FALSE] \in ReaderStates
    BY DEF ReaderStates
  <2>2. <<>> \in Seq(Frames) /\ Len(<<>>) <= ChannelSize
    BY LastFrames DEF RequestQueueAssumption
  <2> QED BY <2>1, <2>2 DEF Init, StreamsOK
<1>10. TypeOK /\ IsFiniteSet(queue) /\ Pumping
  BY <1>4, <1>7, <1>8, <1>9, Parts
<1>11. \A r : ~InHand(r)
  BY <1>2, <1>3 DEF Init, InHand
<1>12. Ids /\ Unsettled
  BY <1>2, <1>3, <1>11 DEF Init, Ids, Unsettled
<1>13. NobodySleepsOnWork
  BY DEF Init, NobodySleepsOnWork
<1> QED BY <1>10, <1>12, <1>13 DEF IInv

\* Every step preserves the invariant.
LEMMA StepPreserves ==
  ASSUME RequestQueueAssumption, IInv, [Next]_vars
  PROVE  IInv'
<1>1. /\ QueueOK /\ WorkersOK /\ StreamsOK /\ FlagsOK /\ FuturesOK /\ ActiveOK
      /\ Cardinality(Inside) <= MaxConcurrent /\ queue \subseteq Requests
  BY Parts DEF IInv, TypeOK
<1>2. QueueOK' /\ WorkersOK' /\ StreamsOK' /\ FlagsOK' /\ FuturesOK' /\ ActiveOK'
  BY <1>1, QueueStaysOK, WorkersStayOK, StreamsStayOK, FlagsStayOK, FuturesStayOK, ActiveStaysOK
<1>3. (Cardinality(Inside) <= MaxConcurrent)'
  BY <1>1, InsideStaysOK
<1>4. (TypeOK /\ IsFiniteSet(queue) /\ Pumping)'
  BY <1>2, <1>3, Parts, PTL
<1>5. NobodySleepsOnWork'
  BY <1>1, WakefulStays DEF IInv
<1>6. running' => Ids' /\ Unsettled'
  BY IdsStay
<1> QED BY <1>4, <1>5, <1>6 DEF IInv

\* The inductive invariant.
THEOREM Inductive == Spec => []IInv
<1>1. Init => IInv
  BY InitEstablishes, RequestQueueAssumption
<1>2. IInv /\ [Next]_vars => IInv'
  BY StepPreserves, RequestQueueAssumption
<1> QED BY <1>1, <1>2, PTL DEF Spec

\* Queue, workers, channels and futures are what they are meant to be: the
\* queue, the semaphore and every channel keep within their limits.
THEOREM SafeTypeOK == Spec => []TypeOK
<1>1. IInv => TypeOK
  BY DEF IInv
<1> QED BY <1>1, Inductive, PTL

\* For any requests, ids and workers: an id is refused exactly while a
\* request with it waits or is with a worker.
THEOREM SafeIds == Spec => []ActiveIsExact
<1>1. ASSUME IInv, running
      PROVE  /\ active = {IdOf[r] : r \in queue \union Held}
             /\ \A r, s \in queue \union Held : IdOf[r] = IdOf[s] => r = s
             /\ queue \intersect Held = {}
             /\ \A v, w \in Workers : worker[v].req \intersect worker[w].req # {} => v = w
  <2>1. Ids /\ queue \subseteq Requests
    BY <1>1 DEF IInv, TypeOK
  <2>2. \A w \in Workers : worker[w].req \subseteq Requests
    <3> TAKE w \in Workers
    <3>1. worker[w].req \in {{}} \union {{r} : r \in Requests}
      BY <1>1 DEF IInv, TypeOK
    <3> QED BY <3>1
  <2>3. \A r : r \in queue \union Held <=> r \in Requests /\ InHand(r)
    BY <2>1, <2>2 DEF Held, InHand
  <2>4. \A i : i \in active <=> \E r \in queue \union Held : IdOf[r] = i
    BY <2>1, <2>3 DEF Ids
  <2>5. active = {IdOf[r] : r \in queue \union Held}
    BY <2>4
  <2>6. \A r, s \in queue \union Held : IdOf[r] = IdOf[s] => r = s
    BY <2>1, <2>3 DEF Ids
  <2>7. queue \intersect Held = {}
    BY <2>1 DEF Ids, Held
  <2>8. \A v, w \in Workers : worker[v].req \intersect worker[w].req # {} => v = w
    BY <2>1 DEF Ids
  <2> QED BY <2>5, <2>6, <2>7, <2>8
<1>2. IInv => ActiveIsExact
  BY <1>1 DEF ActiveIsExact
<1> QED BY <1>2, Inductive, PTL

\* For any number of workers: no worker sleeps while a request waits.
THEOREM SafeWakeUps == Spec => []NobodySleepsOnWork
<1>1. IInv => NobodySleepsOnWork
  BY DEF IInv
<1> QED BY <1>1, Inductive, PTL

\* For any requests and workers: a processor is started only for a client
\* that still waits.
THEOREM SafeStart == Spec => StartedForClients
<1> DEFINE A == \A w \in Workers :
       worker[w].pc = "gate" /\ worker'[w].pc \in {"run", "open"} => fut[Req(w)] = "pending"
<1>1. ASSUME IInv, [Next]_vars, NEW w \in Workers, worker[w].pc = "gate", worker'[w].pc \in {"run", "open"}
      PROVE  fut[Req(w)] = "pending"
  <2>1. Enter(w) /\ Wanted(Req(w))
    BY <1>1, OnlyEnterStarts, RequestQueueAssumption
  <2>2. running
    BY <2>1 DEF Enter
  <2>3. Req(w) \in Requests /\ InHand(Req(w))
    BY <1>1, Busy DEF IInv
  <2> QED BY <1>1, <2>1, <2>2, <2>3 DEF IInv, Unsettled, Wanted
<1>2. IInv /\ [Next]_vars => [A]_vars
  BY <1>1
<1> QED BY <1>2, Inductive, PTL DEF Spec, StartedForClients

-----------------------------------------------------------------------------
(* Streams.  ChunksInv counts the chunks of a stream: while its reader     *)
(* reads, the chunks that it has seen and those in the channel are as many *)
(* as the iterator has yielded and the pump has put, and None is behind    *)
(* the last of all.                                                        *)

\* A channel of chunks.
Plain(c) == \A i \in 1..Len(c) : c[i] = "chunk"

\* A channel c after n chunks: None is at its end, and only if nothing is missing.
Whole(c, n) == \A i \in 1..Len(c) :
                 c[i] = "chunk" \/ (c[i] = "end" /\ i = Len(c) /\ n + Len(c) = Chunks + 1)

\* The worker in state s is as far as the channel c and the n chunks read.
InStep(s, c, n) ==
  /\ s.pc \in {"gate", "open"} => n + Len(c) = 0
  /\ s.pc \in {"pull", "put"} => Plain(c) /\ n + Len(c) = s.next - 1
  /\ s.pc = "sentinel" \/ (s.pc = "closing" /\ s.frames # <<>>) =>
       s.frames = <<"end">> /\ Plain(c) /\ n + Len(c) = Chunks

\* A reader of which nothing was lost so far.
Reading(r) == r \notin failed /\ reader[r].state \in {"waiting", "reading"}

Fed(r) ==
  /\ InHand(r) => fut[r] = "pending"
  /\ r \in queue => reader[r].seen + Len(channel[r]) = 0
  /\ \A w \in Workers : r \in worker[w].req => InStep(worker[w], channel[r], reader[r].seen)
  /\ Whole(channel[r], reader[r].seen)

Fresh(r) == reader[r].state = "none" /\ reader[r].seen = 0 /\ channel[r] = <<>>

StreamInv(r) ==
  /\ fut[r] = "none" => Fresh(r)
  /\ Reading(r) => Fed(r)
  /\ r \notin failed /\ reader[r].state = "ended" => reader[r].seen = Chunks

ChunksInv == running => \A r \in Streams : StreamInv(r)

\* A chunk put behind chunks.
LEMMA ChunkBehind ==
  ASSUME NEW c \in Seq(Frames), Plain(c)
  PROVE  /\ Plain(Append(c, "chunk"))
         /\ Len(Append(c, "chunk")) = Len(c) + 1
<1>1. "chunk" \in Frames
  BY DEF Frames
<1>2. Len(Append(c, "chunk")) = Len(c) + 1 /\ Len(c) \in Nat
  BY <1>1
<1>3. \A i \in 1..(Len(c) + 1) : Append(c, "chunk")[i] = IF i = Len(c) + 1 THEN "chunk" ELSE c[i]
  BY <1>1
<1>4. \A i \in 1..(Len(c) + 1) : i = Len(c) + 1 \/ i \in 1..Len(c)
  BY <1>2
<1> DEFINE d == Append(c, "chunk")
<1> HIDE DEF d
<1>5. \A i \in 1..(Len(c) + 1) : d[i] = "chunk"
  BY <1>3, <1>4 DEF Plain, d
<1>6. Len(d) = Len(c) + 1
  BY <1>2 DEF d
<1>7. Plain(d)
  BY <1>5, <1>6 DEF Plain
<1> QED BY <1>2, <1>7 DEF d

\* None put behind all the chunks.
LEMMA NoneBehind ==
  ASSUME NEW c \in Seq(Frames), NEW n \in Nat, Plain(c), n + Len(c) = Chunks
  PROVE  Whole(c, n) /\ Whole(Append(c, "end"), n)
<1>1. "end" \in Frames
  BY DEF Frames
<1>2. Len(Append(c, "end")) = Len(c) + 1 /\ Len(c) \in Nat
  BY <1>1
<1>3. \A i \in 1..(Len(c) + 1) : Append(c, "end")[i] = IF i = Len(c) + 1 THEN "end" ELSE c[i]
  BY <1>1
<1>4. \A i \in 1..(Len(c) + 1) : i = Len(c) + 1 \/ i \in 1..Len(c)
  BY <1>2
<1> DEFINE d == Append(c, "end")
<1> HIDE DEF d
<1>5. \A i \in 1..(Len(c) + 1) : d[i] = "chunk" \/ (d[i] = "end" /\ i = Len(c) + 1)
  BY <1>3, <1>4 DEF Plain, d
<1>6. Len(d) = Len(c) + 1 /\ n + (Len(c) + 1) = Chunks + 1
  BY <1>2 DEF d
<1>7. Whole(d, n)
  BY <1>5, <1>6 DEF Whole
<1>8. Whole(c, n)
  BY DEF Whole, Plain
<1> QED BY <1>7, <1>8 DEF d

\* What the reader takes from a channel.
LEMMA HeadRead ==
  ASSUME NEW c \in Seq(Frames), c # <<>>, NEW n \in Nat, Whole(c, n)
  PROVE  /\ Head(c) = "chunk" \/ Head(c) = "end"
         /\ Head(c) = "end" => n = Chunks
         /\ Head(c) = "chunk" => /\ Whole(Tail(c), n + 1)
                                 /\ Plain(c) => Plain(Tail(c))
                                 /\ (n + 1) + Len(Tail(c)) = n + Len(c)
<1>1. Len(c) \in Nat /\ Len(c) # 0 /\ Head(c) = c[1] /\ 1 \in 1..Len(c)
  BY DEF Frames
<1>2. Tail(c) \in Seq(Frames) /\ Len(Tail(c)) = Len(c) - 1
  BY <1>1
<1>3. \A i \in 1..(Len(c) - 1) : Tail(c)[i] = c[i + 1] /\ i + 1 \in 1..Len(c)
  BY <1>1
<1>4. c[1] = "chunk" \/ (c[1] = "end" /\ 1 = Len(c) /\ n + Len(c) = Chunks + 1)
  BY <1>1 DEF Whole
<1>5. Head(c) = "end" => n = Chunks
  <2>1. SUFFICES ASSUME Head(c) = "end"
                 PROVE  n = Chunks
    OBVIOUS
  <2>2. 1 = Len(c) /\ n + Len(c) = Chunks + 1
    BY <1>1, <1>4, <2>1
  <2>3. Chunks \in Nat
    BY RequestQueueAssumption DEF RequestQueueAssumption
  <2>4. n \in Nat /\ n + 1 = Chunks + 1
    BY <2>2
  <2> QED BY <2>3, <2>4
<1> DEFINE d == Tail(c)
<1> HIDE DEF d
<1>6. Len(d) = Len(c) - 1 /\ \A i \in 1..Len(d) : d[i] = c[i + 1] /\ i + 1 \in 1..Len(c)
  BY <1>2, <1>3 DEF d
<1>7. (n + 1) + Len(d) = n + Len(c)
  BY <1>1, <1>6
<1>8. \A i \in 1..Len(d) : i + 1 = Len(c) <=> i = Len(d)
  BY <1>1, <1>6
<1>9. Whole(d, n + 1)
  BY <1>6, <1>7, <1>8 DEF Whole
<1>10. Plain(c) => Plain(d)
  BY <1>6 DEF Plain
<1> QED BY <1>1, <1>4, <1>5, <1>7, <1>9, <1>10 DEF d

\* The worker is in step with a reader that takes a chunk.
LEMMA StaysInStep ==
  ASSUME NEW s, NEW c \in Seq(Frames), c # <<>>, NEW n \in Nat, Whole(c, n), Head(c) = "chunk",
         InStep(s, c, n)
  PROVE  InStep(s, Tail(c), n + 1)
<1>1. /\ Plain(c) => Plain(Tail(c))
      /\ (n + 1) + Len(Tail(c)) = n + Len(c)
  BY HeadRead
<1> QED BY <1>1 DEF InStep

-----------------------------------------------------------------------------
(* Steps that put nothing into the channel of r and take nothing out. *)

\* A stream that others' steps leave in step.
LEMMA Unconcerned ==
  ASSUME NEW r \in Streams, StreamInv(r),
         channel'[r] = channel[r], reader'[r] = reader[r], failed \subseteq failed',
         fut'[r] = "none" => fut[r] = "none",
         InHand(r)' => InHand(r) /\ fut'[r] = fut[r],
         queue' \subseteq queue,
         Reading(r) /\ r \notin failed' =>
           \A w \in Workers : r \in worker'[w].req => InStep(worker'[w], channel[r], reader[r].seen)
  PROVE  StreamInv(r)'
<1>1. fut'[r] = "none" => Fresh(r)'
  BY DEF StreamInv, Fresh
<1>2. Reading(r)' => Reading(r) /\ r \notin failed'
  BY DEF Reading
<1>3. ASSUME Reading(r)'
      PROVE  Fed(r)'
  <2>1. Fed(r) /\ \A w \in Workers : r \in worker'[w].req => InStep(worker'[w], channel[r], reader[r].seen)
    BY <1>2, <1>3 DEF StreamInv
  <2>2. (InHand(r) => fut[r] = "pending")'
    BY <2>1 DEF Fed
  <2>3. (r \in queue => reader[r].seen + Len(channel[r]) = 0)'
    BY <2>1 DEF Fed
  <2>4. (\A w \in Workers : r \in worker[w].req => InStep(worker[w], channel[r], reader[r].seen))'
    BY <2>1 DEF InStep
  <2>5. Whole(channel[r], reader[r].seen)'
    BY <2>1 DEF Fed, Whole
  <2> QED BY <2>2, <2>3, <2>4, <2>5 DEF Fed
<1>4. (r \notin failed /\ reader[r].state = "ended" => reader[r].seen = Chunks)'
  BY DEF StreamInv
<1> QED BY <1>1, <1>3, <1>4 DEF StreamInv

\* The same for steps that also leave the worker of r alone.
LEMMA Aside ==
  ASSUME NEW r \in Streams, StreamInv(r),
         channel'[r] = channel[r], reader'[r] = reader[r], failed \subseteq failed',
         fut'[r] = "none" => fut[r] = "none",
         InHand(r)' => InHand(r) /\ fut'[r] = fut[r],
         queue' \subseteq queue,
         \A w \in Workers : r \in worker'[w].req => worker'[w] = worker[w]
  PROVE  StreamInv(r)'
<1>1. Reading(r) /\ r \notin failed' =>
        \A w \in Workers : r \in worker'[w].req => InStep(worker'[w], channel[r], reader[r].seen)
  BY DEF StreamInv, Fed
<1> QED BY <1>1, Unconcerned

-----------------------------------------------------------------------------
(* Steps of the stream itself. *)

\* A pump that ends leaves None, and behind it what follows an exception.
LEMMA PumpFrames ==
  ASSUME WorkersOK, NEW w \in Workers, NEW o \in Outcomes, PumpOver(w, o)
  PROVE  /\ worker'[w].pc \in {"sentinel", "closing"}
         /\ o = "result" => worker'[w].frames = <<"end">>
<1> DEFINE pc == IF worker[w].sync THEN "sentinel" ELSE "closing"
           f  == <<"end">> \o IF o = "exception" THEN ErrorFrames ELSE <<>>
<1>1. worker[w] \in WorkerStates /\ worker \in [Workers -> WorkerStates]
  BY DEF WorkersOK
<1>2. o = "result" => f = <<"end">>
  <2>1. <<"end">> \o <<>> = <<"end">>
    OBVIOUS
  <2>2. o = "result" => f = <<"end">> \o <<>>
    OBVIOUS
  <2> QED BY <2>1, <2>2
<1>3. pc \in {"sentinel", "closing"}
  OBVIOUS
<1> HIDE DEF f, pc
<1>4. worker' = [worker EXCEPT ![w] = [@ EXCEPT !.pc = pc, !.frames = f, !.outcome = o]]
  BY DEF PumpOver, f, pc
<1>5. worker'[w].pc = pc /\ worker'[w].frames = f
  BY <1>1, <1>4 DEF WorkerStates
<1> QED BY <1>2, <1>3, <1>5

\* A put that finds room.
LEMMA DeliverAppends ==
  ASSUME StreamsOK, NEW r \in Streams, NEW f, Deliver(r, f)
  PROVE  channel'[r] = Append(channel[r], f) /\ \A q \in Streams : q # r => channel'[q] = channel[q]
  BY DEF Deliver, StreamsOK

\* A stream whose reader still waits gets every chunk and then None.
LEMMA PumpInStep ==
  ASSUME RequestQueueAssumption, WorkersOK, StreamsOK, NEW w \in Workers,
         Open(w) \/ Pull(w) \/ Put(w) \/ GiveUp(w) \/ Sentinel(w) \/ Terminal(w),
         NEW r \in Streams, r = Req(w), r \notin failed', fut[r] = "pending",
         Whole(channel[r], reader[r].seen),
         InStep(worker[w], channel[r], reader[r].seen)
  PROVE  /\ Whole(channel'[r], reader[r].seen)
         /\ InStep(worker'[w], channel'[r], reader[r].seen)
<1> DEFINE u == worker[w]
           c == channel[r]
           n == reader[r].seen
<1>1. /\ u \in WorkerStates /\ worker \in [Workers -> WorkerStates] /\ Good(u)
      /\ u.next \in 0..(Chunks + 1) /\ u.frames \in Seq(Frames)
  BY DEF WorkersOK, WorkerStates
<1>2. c \in Seq(Frames) /\ n \in Nat /\ Len(c) \in Nat /\ Chunks \in Nat
  BY DEF StreamsOK, ReaderStates, RequestQueueAssumption
<1>3. Whole(c, n) /\ InStep(u, c, n)
  OBVIOUS
<1>4. ASSUME UNCHANGED channel, InStep(worker'[w], c, n)
      PROVE  Whole(channel'[r], n) /\ InStep(worker'[w], channel'[r], n)
  BY <1>3, <1>4
<1>5. CASE Open(w)
  <2>1. r \in failed' \/ \E sy \in BOOLEAN :
          worker' = [worker EXCEPT ![w] = [@ EXCEPT !.pc = "pull", !.sync = sy, !.next = 1]]
    BY <1>5 DEF Open
  <2>2. PICK sy \in BOOLEAN :
          worker' = [worker EXCEPT ![w] = [@ EXCEPT !.pc = "pull", !.sync = sy, !.next = 1]]
    BY <2>1
  <2>3. worker'[w].pc = "pull" /\ worker'[w].next = 1
    BY <1>1, <2>2 DEF WorkerStates
  <2>4. n + Len(c) = 0
    BY <1>3, <1>5 DEF Open, InStep
  <2>5. Plain(c)
    BY <1>2, <2>4 DEF Plain
  <2>6. InStep(worker'[w], c, n)
    BY <2>3, <2>4, <2>5 DEF InStep
  <2>7. UNCHANGED channel
    BY <1>5 DEF Open
  <2> QED BY <1>4, <2>6, <2>7
<1>6. CASE Pull(w)
  <2>1. Plain(c) /\ n + Len(c) = u.next - 1 /\ UNCHANGED channel
    BY <1>3, <1>6 DEF Pull, InStep
  <2>2. CASE u.next <= Chunks /\ worker' = [worker EXCEPT ![w].pc = "put"]
    <3>1. worker'[w].pc = "put" /\ worker'[w].next = u.next
      BY <1>1, <2>2 DEF WorkerStates
    <3>2. InStep(worker'[w], c, n)
      BY <2>1, <3>1 DEF InStep
    <3> QED BY <1>4, <2>1, <3>2
  <2>3. CASE u.next > Chunks /\ PumpOver(w, "result")
    <3>1. worker'[w].pc \in {"sentinel", "closing"} /\ worker'[w].frames = <<"end">>
      BY <2>3, PumpFrames DEF Outcomes
    <3>2. n + Len(c) = Chunks
      BY <1>1, <1>2, <2>1, <2>3
    <3>3. InStep(worker'[w], c, n)
      BY <2>1, <3>1, <3>2 DEF InStep
    <3> QED BY <1>4, <2>1, <3>3
  <2> QED BY <1>6, <2>2, <2>3, Zenon DEF Pull
<1>7. CASE Put(w)
  <2>1. Plain(c) /\ n + Len(c) = u.next - 1
    BY <1>3, <1>7 DEF Put, InStep
  <2>2. channel'[r] = Append(c, "chunk")
    BY <1>7, DeliverAppends DEF Put
  <2>3. Plain(channel'[r]) /\ Len(channel'[r]) = Len(c) + 1
    BY <1>2, <2>1, <2>2, ChunkBehind
  <2>4. worker'[w].pc = "pull" /\ worker'[w].next = u.next + 1
    <3>1. worker' = [worker EXCEPT ![w] = [@ EXCEPT !.pc = "pull", !.next = u.next + 1]]
      BY <1>7 DEF Put
    <3> QED BY <1>1, <3>1 DEF WorkerStates
  <2>5. n + Len(channel'[r]) = worker'[w].next - 1
    <3>1. u.next \in Int /\ n \in Int /\ Len(c) \in Int
      BY <1>1, <1>2 DEF RequestQueueAssumption
    <3>2. /\ (u.next + 1) - 1 = u.next /\ (u.next - 1) + 1 = u.next
          /\ n + (Len(c) + 1) = (n + Len(c)) + 1
      BY <3>1
    <3>3. worker'[w].next - 1 = u.next
      BY <2>4, <3>2
    <3>4. n + (Len(c) + 1) = u.next
      BY <2>1, <3>2
    <3> QED BY <2>3, <3>3, <3>4
  <2>6. InStep(worker'[w], channel'[r], n)
    BY <2>3, <2>4, <2>5 DEF InStep
  <2>7. Whole(channel'[r], n)
    BY <2>3 DEF Plain, Whole
  <2> QED BY <2>6, <2>7
<1>8. ~GiveUp(w)
  BY DEF GiveUp, GivesUp
<1>9. CASE Sentinel(w) \/ Terminal(w)
  <2>1. u.frames # <<>> /\ worker[w].pc \in {"sentinel", "closing"}
    BY <1>1, <1>9 DEF Sentinel, Terminal, Good
  <2>2. u.frames = <<"end">> /\ Plain(c) /\ n + Len(c) = Chunks
    BY <1>3, <2>1 DEF InStep
  <2>3. Head(u.frames) = "end" /\ Tail(u.frames) = <<>>
    BY <2>2
  <2>4. worker' = [worker EXCEPT ![w] = [@ EXCEPT !.pc = "closing", !.frames = Tail(u.frames)]]
    BY <1>9, Zenon DEF Sentinel, Terminal, Behind
  <2>5. worker'[w].pc = "closing" /\ worker'[w].frames = <<>>
    BY <1>1, <2>3, <2>4 DEF WorkerStates
  <2>6. InStep(worker'[w], channel'[r], n)
    BY <2>5 DEF InStep
  <2>7. UNCHANGED channel \/ Deliver(r, "end")
    BY <1>9, <2>3 DEF Sentinel, Terminal
  <2>8. channel'[r] = c \/ channel'[r] = Append(c, "end")
    BY <2>7, DeliverAppends
  <2>9. Whole(c, n) /\ Whole(Append(c, "end"), n)
    BY <1>2, <2>2, NoneBehind
  <2> QED BY <2>6, <2>8, <2>9
<1> QED BY <1>5, <1>6, <1>7, <1>8, <1>9

\* What a stream's step does to that stream and to the others.
LEMMA PumpsKeepStreams ==
  ASSUME RequestQueueAssumption, IInv, WorkersOK, StreamsOK, running, NEW w \in Workers,
         Open(w) \/ Pull(w) \/ Put(w) \/ GiveUp(w) \/ Sentinel(w) \/ Terminal(w),
         NEW r \in Streams, StreamInv(r)
  PROVE  StreamInv(r)'
<1>1. /\ \A v \in Workers : worker'[v].req = worker[v].req
      /\ \A v \in Workers : v # w => worker'[v] = worker[v]
      /\ worker[w].pc \in StreamPcs
  BY StreamSteps
<1>2. UNCHANGED <<queue, fut, reader>>
  BY Zenon DEF Open, Pull, Put, GiveUp, Sentinel, Terminal, queueVars, streamVars
<1>3. Req(w) \in Requests /\ worker[w].req = {Req(w)} /\ InHand(Req(w))
  BY <1>1, Busy DEF IInv, StreamPcs
<1>4. Req(w) \in Streams
  BY <1>1, <1>3 DEF WorkersOK, Good
<1>5. failed \subseteq failed'
  BY Zenon DEF Open, Pull, Put, GiveUp, Sentinel, Terminal, streamVars
<1>6. \A q \in Streams : q # Req(w) => channel'[q] = channel[q]
  <2>1. UNCHANGED channel \/ \E f : Deliver(Req(w), f)
    BY Zenon DEF Open, Pull, Put, GiveUp, Sentinel, Terminal, streamVars
  <2> QED BY <1>4, <2>1, DeliverAppends
<1>7. InHand(r)' <=> InHand(r)
  BY <1>1, <1>2 DEF InHand
<1>8. CASE r # Req(w)
  <2>1. \A v \in Workers : r \in worker'[v].req => worker'[v] = worker[v]
    BY <1>1, <1>3, <1>8
  <2> QED BY <1>2, <1>5, <1>6, <1>7, <1>8, <2>1, Aside
<1>9. CASE r = Req(w)
  <2>1. Ids /\ Unsettled
    BY DEF IInv
  <2>2. r \notin queue /\ fut[r] # "none" /\ \A v \in Workers : r \in worker[v].req => v = w
    BY <1>3, <1>9, <2>1 DEF Ids, Unsettled
  <2>3. ASSUME Reading(r)'
        PROVE  Fed(r)'
    <3>1. r \notin failed' /\ Reading(r)
      BY <1>2, <1>5, <2>3 DEF Reading
    <3>2. Fed(r)
      BY <3>1 DEF StreamInv
    <3>3. /\ fut[r] = "pending" /\ Whole(channel[r], reader[r].seen)
          /\ InStep(worker[w], channel[r], reader[r].seen)
      BY <1>3, <1>9, <3>2 DEF Fed
    <3>4. Whole(channel'[r], reader[r].seen) /\ InStep(worker'[w], channel'[r], reader[r].seen)
      BY <1>9, <3>1, <3>3, PumpInStep
    <3>5. (\A v \in Workers : r \in worker[v].req => InStep(worker[v], channel[r], reader[r].seen))'
      BY <1>1, <1>2, <2>2, <3>4 DEF InStep
    <3>6. Whole(channel[r], reader[r].seen)'
      BY <1>2, <3>4 DEF Whole
    <3> QED BY <1>2, <2>2, <3>3, <3>5, <3>6 DEF Fed
  <2>4. (fut[r] = "none" => Fresh(r))'
    BY <1>2, <2>2
  <2>5. (r \notin failed /\ reader[r].state = "ended" => reader[r].seen = Chunks)'
    BY <1>2, <1>5 DEF StreamInv
  <2> QED BY <2>3, <2>4, <2>5 DEF StreamInv
<1> QED BY <1>8, <1>9

\* A reader that takes a frame stays in step, and one that takes None has
\* seen every chunk.
LEMMA ReadKeepsStreams ==
  ASSUME RequestQueueAssumption, StreamsOK, NEW q \in Streams, Read(q),
         NEW r \in Streams, StreamInv(r)
  PROVE  StreamInv(r)'
<1>1. UNCHANGED <<queue, worker, fut, failed>>
  BY DEF Read, queueVars
<1>2. InHand(r)' <=> InHand(r)
  BY <1>1 DEF InHand
<1>3. CASE r # q
  <2>1. channel'[r] = channel[r] /\ reader'[r] = reader[r]
    BY <1>3 DEF Read, StreamsOK
  <2>2. failed \subseteq failed' /\ queue' \subseteq queue
    BY <1>1
  <2>3. \A w \in Workers : r \in worker'[w].req => worker'[w] = worker[w]
    BY <1>1
  <2> QED BY <1>1, <1>2, <2>1, <2>2, <2>3, Aside
<1>4. CASE r = q
  <2> DEFINE c == channel[r]
             n == reader[r].seen
  <2>1. /\ c \in Seq(Frames) /\ n \in Nat /\ Len(c) \in Nat
        /\ channel \in [Streams -> Seq(Frames)] /\ reader \in [Streams -> ReaderStates]
    BY DEF StreamsOK, ReaderStates
  <2>2. reader[r].state = "reading" /\ c # <<>>
    BY <1>4 DEF Read
  <2>3. channel'[r] = Tail(c)
    BY <1>4, <2>1 DEF Read
  <2>4. /\ reader'[r].state = IF Head(c) = "end" THEN "ended" ELSE "reading"
        /\ reader'[r].seen = IF Head(c) = "chunk" THEN n + 1 ELSE n
    BY <1>4, <2>1 DEF Read
  <2>5. fut'[r] # "none"
    BY <1>1, <2>2 DEF StreamInv, Fresh
  <2>6. CASE r \in failed
    BY <1>1, <2>5, <2>6 DEF StreamInv, Reading
  <2>7. CASE r \notin failed
    <3>1. Fed(r)
      BY <2>2, <2>7 DEF StreamInv, Reading
    <3>2. Whole(c, n)
      BY <3>1 DEF Fed
    <3>3. /\ Head(c) = "chunk" \/ Head(c) = "end"
          /\ Head(c) = "end" => n = Chunks
          /\ Head(c) = "chunk" => Whole(Tail(c), n + 1)
      BY <2>1, <2>2, <3>2, HeadRead
    <3>4. CASE Head(c) = "end"
      <4>1. reader'[r].state = "ended" /\ reader'[r].seen = Chunks
        BY <2>4, <3>3, <3>4
      <4> QED BY <2>5, <4>1 DEF StreamInv, Reading
    <3>5. CASE Head(c) = "chunk"
      <4>1. reader'[r].state = "reading" /\ reader'[r].seen = n + 1
        BY <2>4, <3>5
      <4>2. \A w \in Workers : r \in worker[w].req => InStep(worker[w], Tail(c), n + 1)
        <5> TAKE w \in Workers
        <5>1. r \in worker[w].req => InStep(worker[w], c, n)
          BY <3>1 DEF Fed
        <5> QED BY <2>1, <2>2, <3>2, <3>5, <5>1, StaysInStep
      <4>3. r \notin queue
        <5>1. Len(c) # 0
          BY <2>1, <2>2
        <5>2. n + Len(c) # 0
          BY <2>1, <5>1
        <5> QED BY <3>1, <5>2 DEF Fed
      <4>4. (\A w \in Workers : r \in worker[w].req => InStep(worker[w], channel[r], reader[r].seen))'
        BY <1>1, <2>3, <4>1, <4>2 DEF InStep
      <4>5. Whole(channel[r], reader[r].seen)'
        BY <2>3, <3>3, <3>5, <4>1 DEF Whole
      <4>6. (InHand(r) => fut[r] = "pending")'
        BY <1>1, <1>2, <3>1 DEF Fed
      <4>7. Fed(r)'
        BY <1>1, <4>3, <4>4, <4>5, <4>6 DEF Fed
      <4> QED BY <2>5, <4>1, <4>7 DEF StreamInv
    <3> QED BY <3>3, <3>4, <3>5
  <2> QED BY <2>6, <2>7
<1> QED BY <1>3, <1>4

\* A reader that leaves has no more to ask.
LEMMA QuitKeepsStreams ==
  ASSUME RequestQueueAssumption, StreamsOK, FuturesOK, NEW q \in Streams, IdleTimeout(q) \/ Disconnect(q),
         NEW r \in Streams, StreamInv(r)
  PROVE  StreamInv(r)'
<1>1. PICK x \in {"timed_out", "gone"} : Quit(q, x)
  BY DEF IdleTimeout, Disconnect
<1>2. reader[q].state = "reading"
  BY DEF IdleTimeout, Disconnect
<1>3. UNCHANGED <<queue, worker, failed>>
  BY <1>1 DEF Quit, queueVars
<1>4. r \in Requests
  BY DEF RequestQueueAssumption
<1>5. fut'[r] = IF r \in {q} /\ fut[r] = "pending" THEN "cancelled" ELSE fut[r]
  BY <1>1, <1>4 DEF Quit, CancelFutures
<1>6. InHand(r)' <=> InHand(r)
  BY <1>3 DEF InHand
<1>7. CASE r # q
  <2>1. channel'[r] = channel[r] /\ reader'[r] = reader[r]
    BY <1>1, <1>7 DEF Quit, StreamsOK
  <2>2. failed \subseteq failed' /\ queue' \subseteq queue /\ fut'[r] = fut[r]
    BY <1>3, <1>5, <1>7
  <2>3. \A w \in Workers : r \in worker'[w].req => worker'[w] = worker[w]
    BY <1>3
  <2> QED BY <1>6, <2>1, <2>2, <2>3, Aside
<1>8. CASE r = q
  <2>1. reader'[r].state = x
    BY <1>1, <1>8 DEF Quit, StreamsOK, ReaderStates
  <2>2. fut'[r] # "none"
    BY <1>2, <1>5, <1>8 DEF StreamInv, Fresh
  <2> QED BY <2>1, <2>2 DEF StreamInv, Reading
<1> QED BY <1>7, <1>8

\* A client that starts to read, or leaves instead, finds what was put.
LEMMA StartKeepsStreams ==
  ASSUME RequestQueueAssumption, StreamsOK, NEW q \in Streams, StartReading(q) \/ LeaveUnread(q),
         NEW r \in Streams, StreamInv(r)
  PROVE  StreamInv(r)'
<1>1. PICK x \in {"reading", "unread"} : reader' = [reader EXCEPT ![q].state = x]
  BY DEF StartReading, LeaveUnread
<1>2. reader[q].state = "waiting" /\ UNCHANGED <<queue, worker, fut, channel, failed>>
  BY Zenon DEF StartReading, LeaveUnread, queueVars
<1>3. InHand(r)' <=> InHand(r)
  BY <1>2 DEF InHand
<1>4. reader'[r].seen = reader[r].seen /\ reader'[q].state = x /\ (r # q => reader'[r] = reader[r])
  BY <1>1 DEF StreamsOK, ReaderStates
<1>5. fut'[r] = "none" => Fresh(r)'
  BY <1>2, <1>4 DEF StreamInv, Fresh
<1>6. Reading(r)' => Reading(r)
  BY <1>2, <1>4 DEF Reading
<1>7. Fed(r) => Fed(r)'
  BY <1>2, <1>3, <1>4 DEF Fed, InStep, Whole
<1>8. (r \notin failed /\ reader[r].state = "ended" => reader[r].seen = Chunks)'
  BY <1>2, <1>4 DEF StreamInv
<1> QED BY <1>5, <1>6, <1>7, <1>8 DEF StreamInv

\* A submission opens a channel that is empty.
LEMMA EnqueueKeepsStreams ==
  ASSUME RequestQueueAssumption, IInv, running, StreamsOK, WorkersOK, FuturesOK,
         NEW q \in Requests, Enqueue(q), NEW r \in Streams, StreamInv(r)
  PROVE  StreamInv(r)'
<1>1. /\ queue' = queue \union {q} /\ fut[q] = "none" /\ fut' = [fut EXCEPT ![q] = "pending"]
      /\ reader' = IF q \in Streams THEN [reader EXCEPT ![q].state = "waiting"] ELSE reader
      /\ worker' = [w \in Workers |-> IF worker[w].pc = "asleep" THEN Free("awake") ELSE worker[w]]
      /\ UNCHANGED <<channel, failed>>
  BY DEF Enqueue, Woken
<1>2. r \in Requests
  BY DEF RequestQueueAssumption
<1>3. \A w \in Workers : r \in worker'[w].req => worker'[w] = worker[w]
  BY <1>1 DEF Free
<1>4. CASE r # q
  <2>1. fut'[r] = fut[r] /\ reader'[r] = reader[r] /\ channel'[r] = channel[r]
    BY <1>1, <1>2, <1>4 DEF FuturesOK, StreamsOK
  <2>2. InHand(r)' => InHand(r)
    BY <1>1, <1>3, <1>4 DEF InHand
  <2>3. ASSUME Reading(r)'
        PROVE  Fed(r)'
    <3>1. Fed(r)
      BY <1>1, <2>1, <2>3 DEF Reading, StreamInv
    <3>2. (InHand(r) => fut[r] = "pending")'
      BY <2>1, <2>2, <3>1 DEF Fed
    <3>3. (r \in queue => reader[r].seen + Len(channel[r]) = 0)'
      BY <1>1, <1>4, <2>1, <3>1 DEF Fed
    <3>4. (\A w \in Workers : r \in worker[w].req => InStep(worker[w], channel[r], reader[r].seen))'
      BY <1>3, <2>1, <3>1 DEF Fed, InStep
    <3>5. Whole(channel[r], reader[r].seen)'
      BY <2>1, <3>1 DEF Fed, Whole
    <3> QED BY <3>2, <3>3, <3>4, <3>5 DEF Fed
  <2> QED BY <1>1, <2>1, <2>3 DEF StreamInv, Fresh
<1>5. CASE r = q
  <2>1. Fresh(r) /\ ~InHand(r)
    BY <1>1, <1>2, <1>5 DEF IInv, Unsettled, StreamInv
  <2>2. /\ fut'[r] = "pending" /\ channel'[r] = <<>>
        /\ reader'[r].state = "waiting" /\ reader'[r].seen = 0
    BY <1>1, <1>2, <1>5, <2>1 DEF FuturesOK, StreamsOK, ReaderStates, Fresh
  <2>3. \A w \in Workers : r \notin worker'[w].req
    BY <1>3, <2>1 DEF InHand
  <2>4. Len(channel'[r]) = 0 /\ reader'[r].seen + Len(channel'[r]) = 0
    BY <2>2
  <2>5. Whole(channel[r], reader[r].seen)'
    BY <2>4 DEF Whole
  <2>6. Fed(r)'
    BY <2>2, <2>3, <2>4, <2>5 DEF Fed
  <2> QED BY <2>2, <2>6 DEF StreamInv
<1> QED BY <1>4, <1>5

\* A request that is fetched is at the start of its stream.
LEMMA FetchKeepsStreams ==
  ASSUME RequestQueueAssumption, IInv, running, StreamsOK, WorkersOK, FuturesOK,
         NEW w \in Workers, Fetch(w), NEW r \in Streams, StreamInv(r)
  PROVE  StreamInv(r)'
<1>1. PICK q \in Urgent :
        /\ queue' = queue \ {q}
        /\ \/ Drop(q) /\ UNCHANGED worker
           \/ /\ worker' = [worker EXCEPT ![w] = [Free("gate") EXCEPT !.req = {q}]]
              /\ UNCHANGED <<active, fut>>
  BY DEF Fetch
<1>2. q \in queue /\ worker[w].pc = "awake" /\ UNCHANGED streamVars /\ Ids
  BY DEF Fetch, Urgent, IInv
<1>3. channel'[r] = channel[r] /\ reader'[r] = reader[r] /\ failed \subseteq failed' /\ queue' \subseteq queue
  BY <1>1, <1>2 DEF streamVars
<1>4. CASE Drop(q) /\ UNCHANGED worker
  <2>1. InHand(r)' => InHand(r) /\ r # q
    BY <1>1, <1>2, <1>4 DEF InHand, Ids
  <2>2. fut'[r] = "none" => fut[r] = "none"
    BY <1>4 DEF Drop, Settle, FuturesOK
  <2>3. r # q => fut'[r] = fut[r]
    BY <1>4 DEF Drop, Settle, FuturesOK
  <2>4. \A v \in Workers : r \in worker'[v].req => worker'[v] = worker[v]
    BY <1>4
  <2> QED BY <1>3, <2>1, <2>2, <2>3, <2>4, Aside
<1>5. CASE /\ worker' = [worker EXCEPT ![w] = [Free("gate") EXCEPT !.req = {q}]]
           /\ UNCHANGED <<active, fut>>
  <2> DEFINE s == [Free("gate") EXCEPT !.req = {q}]
  <2>1. s.pc = "gate" /\ s.req = {q}
    BY DEF Free
  <2>2. worker' = [worker EXCEPT ![w] = s]
    BY <1>5
  <2> HIDE DEF s
  <2>3. worker'[w] = s /\ \A v \in Workers : v # w => worker'[v] = worker[v]
    BY <2>2 DEF WorkersOK
  <2>4. InHand(r)' => InHand(r)
    BY <1>1, <1>2, <2>1, <2>3 DEF InHand
  <2>5. ASSUME Reading(r), NEW v \in Workers, r \in worker'[v].req
        PROVE  InStep(worker'[v], channel[r], reader[r].seen)
    <3>1. Fed(r)
      BY <2>5 DEF StreamInv
    <3>2. CASE v = w
      <4>1. r = q /\ worker'[v].pc = "gate"
        BY <2>1, <2>3, <2>5, <3>2
      <4>2. reader[r].seen + Len(channel[r]) = 0
        BY <1>2, <3>1, <4>1 DEF Fed
      <4> QED BY <4>1, <4>2 DEF InStep
    <3>3. CASE v # w
      BY <2>3, <2>5, <3>1, <3>3 DEF Fed
    <3> QED BY <3>2, <3>3
  <2> QED BY <1>3, <1>5, <2>4, <2>5, Unconcerned
<1> QED BY <1>1, <1>4, <1>5

\* A request that is done is in nobody's hand.
LEMMA FinishKeepsStreams ==
  ASSUME RequestQueueAssumption, IInv, running, WorkersOK, FuturesOK,
         NEW w \in Workers, worker[w].pc \notin {"asleep", "awake", "over"}, Finish(w),
         UNCHANGED <<queue, streamVars>>,
         UNCHANGED fut \/ \E o \in Outcomes : Settle(Req(w), o),
         NEW r \in Streams, StreamInv(r)
  PROVE  StreamInv(r)'
<1>1. Req(w) \in Requests /\ worker[w].req = {Req(w)} /\ Ids
  BY Busy DEF IInv
<1>2. Free("awake").req = {} /\ worker' = [worker EXCEPT ![w] = Free("awake")]
  BY DEF Free, Finish
<1>3. worker'[w].req = {} /\ \A v \in Workers : v # w => worker'[v] = worker[v]
  BY <1>2 DEF WorkersOK
<1>4. InHand(r)' => InHand(r) /\ r # Req(w)
  BY <1>1, <1>3 DEF InHand, Ids
<1>5. r # Req(w) => fut'[r] = fut[r]
  BY DEF Settle, FuturesOK
<1>6. fut'[r] = "none" => fut[r] = "none"
  BY DEF Settle, FuturesOK, Outcomes
<1>7. /\ channel'[r] = channel[r] /\ reader'[r] = reader[r]
      /\ failed \subseteq failed' /\ queue' \subseteq queue
  BY DEF streamVars
<1>8. \A v \in Workers : r \in worker'[v].req => worker'[v] = worker[v]
  BY <1>3
<1> QED BY <1>4, <1>5, <1>6, <1>7, <1>8, Aside

\* A stream that gets its turn has given nothing so far.
LEMMA EnterKeepsStreams ==
  ASSUME RequestQueueAssumption, IInv, running, WorkersOK, FuturesOK,
         NEW w \in Workers, Enter(w), NEW r \in Streams, StreamInv(r)
  PROVE  StreamInv(r)'
<1>1. worker[w].pc = "gate" /\ UNCHANGED <<queue, fut, streamVars>>
  BY DEF Enter, queueVars
<1>2. CASE Finish(w)
  BY <1>1, <1>2, FinishKeepsStreams
<1>3. CASE worker' = [worker EXCEPT ![w].pc = IF Req(w) \in Streams THEN "open" ELSE "run"]
  <2>1. worker'[w].req = worker[w].req /\ worker'[w].pc \in {"open", "run"}
    BY <1>3 DEF WorkersOK, WorkerStates
  <2>2. \A v \in Workers : v # w => worker'[v] = worker[v]
    BY <1>3 DEF WorkersOK
  <2>3. InHand(r)' <=> InHand(r)
    BY <1>1, <2>1, <2>2 DEF InHand
  <2>4. ASSUME Reading(r), NEW v \in Workers, r \in worker'[v].req
        PROVE  InStep(worker'[v], channel[r], reader[r].seen)
    <3>1. InStep(worker[v], channel[r], reader[r].seen)
      BY <2>1, <2>2, <2>4 DEF StreamInv, Fed
    <3>2. CASE v = w
      BY <1>1, <2>1, <3>1, <3>2 DEF InStep
    <3>3. CASE v # w
      BY <2>2, <3>1, <3>3
    <3> QED BY <3>2, <3>3
  <2>5. /\ channel'[r] = channel[r] /\ reader'[r] = reader[r]
        /\ failed \subseteq failed' /\ queue' \subseteq queue
    BY <1>1 DEF streamVars
  <2> QED BY <1>1, <2>3, <2>4, <2>5, Unconcerned
<1> QED BY <1>2, <1>3, Zenon DEF Enter

\* Every step keeps the count of chunks.
LEMMA ChunksStay ==
  ASSUME RequestQueueAssumption, IInv, ChunksInv, [Next]_vars
  PROVE  ChunksInv'
<1> SUFFICES ASSUME running', NEW r \in Streams
             PROVE  StreamInv(r)'
  BY DEF ChunksInv
<1>1. StreamsOK /\ WorkersOK /\ FuturesOK
  BY Parts DEF IInv
<1>2. running
  <2>1. \A w \in Workers : WorkerStep(w) \/ WakeUp(w) => running
    BY Zenon DEF WorkerStep, WakeUp, Sleep, Fetch, Enter, Run, Open, Pull, Put, GiveUp, Sentinel, Terminal, Close
  <2> QED BY <2>1, Zenon DEF Next, vars, EndWorker, queueVars, Enqueue, Age, Abandon, ReaderStep, StartReading, LeaveUnread, Read, IdleTimeout,
                             Disconnect, Quit, ClearQueue, Stop
<1>3. StreamInv(r)
  BY <1>2 DEF ChunksInv
<1>4. ASSUME UNCHANGED <<queue, worker, fut, streamVars>>
      PROVE  StreamInv(r)'
  <2>1. InHand(r)' <=> InHand(r)
    BY <1>4 DEF InHand
  <2>2. /\ channel'[r] = channel[r] /\ reader'[r] = reader[r]
        /\ failed \subseteq failed' /\ queue' \subseteq queue
    BY <1>4 DEF streamVars
  <2>3. \A v \in Workers : r \in worker'[v].req => worker'[v] = worker[v]
    BY <1>4
  <2> QED BY <1>3, <1>4, <2>1, <2>2, <2>3, Aside
<1>5. ASSUME NEW w \in Workers, WorkerStep(w) \/ WakeUp(w) \/ EndWorker(w)
      PROVE  StreamInv(r)'
  <2>1. CASE Sleep(w) \/ WakeUp(w)
    <3>1. PICK pc \in {"asleep", "awake"} : worker' = [worker EXCEPT ![w] = Free(pc)]
      BY <2>1, Zenon DEF Sleep, WakeUp
    <3>2. Free(pc).req = {} /\ UNCHANGED <<queue, fut, streamVars>>
      BY <2>1, Zenon DEF Free, Sleep, WakeUp, queueVars
    <3>3. worker'[w].req = {} /\ \A v \in Workers : v # w => worker'[v] = worker[v]
      BY <1>1, <3>1, <3>2 DEF WorkersOK
    <3>4. InHand(r)' => InHand(r)
      BY <3>2, <3>3 DEF InHand
    <3>5. /\ channel'[r] = channel[r] /\ reader'[r] = reader[r]
          /\ failed \subseteq failed' /\ queue' \subseteq queue
      BY <3>2 DEF streamVars
    <3>6. \A v \in Workers : r \in worker'[v].req => worker'[v] = worker[v]
      BY <3>3
    <3> QED BY <1>3, <3>2, <3>4, <3>5, <3>6, Aside
  <2>2. CASE Fetch(w)
    BY <1>1, <1>2, <1>3, <2>2, FetchKeepsStreams
  <2>3. CASE Enter(w)
    BY <1>1, <1>2, <1>3, <2>3, EnterKeepsStreams
  <2>4. CASE Run(w) \/ Close(w)
    <3>1. /\ worker[w].pc \notin {"asleep", "awake", "over"} /\ Finish(w)
          /\ UNCHANGED <<queue, streamVars>>
      BY <2>4 DEF Run, Close, queueVars
    <3>2. \E o \in Outcomes : Settle(Req(w), o)
      <4>1. worker[w].outcome \in Outcomes
        BY <1>1 DEF WorkersOK, WorkerStates
      <4> QED BY <2>4, <4>1, Zenon DEF Run, Close
    <3> QED BY <1>1, <1>2, <1>3, <3>1, <3>2, FinishKeepsStreams
  <2>5. CASE Open(w) \/ Pull(w) \/ Put(w) \/ GiveUp(w) \/ Sentinel(w) \/ Terminal(w)
    BY <1>1, <1>2, <1>3, <2>5, PumpsKeepStreams
  <2>6. ~EndWorker(w)
    BY <1>2 DEF EndWorker
  <2> QED BY <1>5, <2>1, <2>2, <2>3, <2>4, <2>5, <2>6, Zenon DEF WorkerStep
<1>6. ASSUME NEW q \in Requests, Enqueue(q)
      PROVE  StreamInv(r)'
  BY <1>1, <1>2, <1>3, <1>6, EnqueueKeepsStreams
<1>7. ASSUME NEW q \in Streams, Read(q)
      PROVE  StreamInv(r)'
  BY <1>1, <1>3, <1>7, ReadKeepsStreams
<1>8. ASSUME NEW q \in Streams, IdleTimeout(q) \/ Disconnect(q)
      PROVE  StreamInv(r)'
  BY <1>1, <1>3, <1>8, QuitKeepsStreams
<1>13. ASSUME NEW q \in Streams, StartReading(q) \/ LeaveUnread(q)
       PROVE  StreamInv(r)'
  BY <1>1, <1>3, <1>13, StartKeepsStreams
<1>9. CASE ClearQueue
  <2>1. queue' = {} /\ UNCHANGED <<worker, streamVars>> /\ CancelFutures(queue) /\ Ids /\ r \in Requests
    BY <1>2, <1>9 DEF ClearQueue, IInv, RequestQueueAssumption
  <2>2. fut'[r] = IF r \in queue /\ fut[r] = "pending" THEN "cancelled" ELSE fut[r]
    BY <2>1 DEF CancelFutures
  <2>3. InHand(r)' => InHand(r) /\ r \notin queue
    BY <2>1 DEF InHand, Ids
  <2>4. /\ channel'[r] = channel[r] /\ reader'[r] = reader[r]
        /\ failed \subseteq failed' /\ queue' \subseteq queue
    BY <2>1 DEF streamVars
  <2>5. \A v \in Workers : r \in worker'[v].req => worker'[v] = worker[v]
    BY <2>1
  <2> QED BY <1>3, <2>2, <2>3, <2>4, <2>5, Aside
<1>10. ASSUME NEW q \in Requests \ Streams, Abandon(q)
       PROVE  StreamInv(r)'
  <2>1. UNCHANGED <<queue, worker, streamVars>> /\ CancelFutures({q}) /\ r \in Requests /\ r # q
    BY <1>10 DEF Abandon, queueVars, RequestQueueAssumption
  <2>2. fut'[r] = fut[r]
    BY <2>1 DEF CancelFutures
  <2>3. InHand(r)' <=> InHand(r)
    BY <2>1 DEF InHand
  <2>4. /\ channel'[r] = channel[r] /\ reader'[r] = reader[r]
        /\ failed \subseteq failed' /\ queue' \subseteq queue
    BY <2>1 DEF streamVars
  <2>5. \A v \in Workers : r \in worker'[v].req => worker'[v] = worker[v]
    BY <2>1
  <2> QED BY <1>3, <2>2, <2>3, <2>4, <2>5, Aside
<1>11. CASE (\E q \in Requests : Age(q)) \/ UNCHANGED vars
  BY <1>4, <1>11, Zenon DEF Age, vars, streamVars
<1>12. ~Stop
  BY DEF Stop
<1> QED BY <1>5, <1>6, <1>7, <1>8, <1>9, <1>10, <1>11, <1>12, <1>13, Zenon DEF Next, ReaderStep

\* For any streams, workers and channel sizes: a stream that ends with None,
\* from an iterator that did not raise and before stop, has given its reader
\* every chunk.
THEOREM SafeStreams == Spec => []EndedIsComplete
<1>1. Init => ChunksInv
  <2> SUFFICES ASSUME Init, NEW r \in Streams
               PROVE  StreamInv(r)
    BY DEF ChunksInv
  <2>1. Fresh(r)
    BY DEF Init, Fresh
  <2> QED BY <2>1 DEF StreamInv, Reading, Fresh
<1>2. IInv /\ ChunksInv /\ [Next]_vars => ChunksInv'
  BY ChunksStay, RequestQueueAssumption
<1>3. ChunksInv => EndedIsComplete
  BY DEF ChunksInv, StreamInv, EndedIsComplete
<1> QED BY <1>1, <1>2, <1>3, Inductive, PTL DEF Spec

=============================================================================
