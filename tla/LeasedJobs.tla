----------------------------- MODULE LeasedJobs -----------------------------
(* What the job queue promises, whatever crashes, lapses, is cancelled or  *)
(* swept: a job belongs to one worker at a time; it is taken from its      *)
(* owner only after its lease has lapsed; of those that still work on it,  *)
(* only its owner renews, ends or gives it back; it is taken up after its  *)
(* dependencies; it ends once unless an operator reopens it, and is tried  *)
(* again no more often than it may.  JobQueue implements this for workers  *)
(* with worker_ids of their own.                                           *)
EXTENDS Naturals

CONSTANTS Jobs, Workers, None, DependsOn, MaxRetries

VARIABLES
  state,   \* job -> "queued", "processing", or how it ended
  owner,   \* job -> the worker that took it last, while it is processing
  lapsed,  \* the jobs in processing whose lease is over
  tries,   \* job -> how often it was tried again
  hand     \* worker -> the job it works on, its own or no longer, or None

vars == <<state, owner, lapsed, tries, hand>>

Unfinished(j) == state[j] \in {"queued", "processing"}

Init == /\ state = [j \in Jobs |-> "queued"]
        /\ owner = [j \in Jobs |-> None]
        /\ lapsed = {}
        /\ tries = [j \in Jobs |-> 0]
        /\ hand = [w \in Workers |-> None]

Take(j, w) ==
  /\ hand[w] = None
  /\ state[j] = "queued" \/ j \in lapsed
  /\ \A d \in DependsOn[j] : state[d] = "completed"
  /\ state' = [state EXCEPT ![j] = "processing"]
  /\ owner' = [owner EXCEPT ![j] = w]
  /\ lapsed' = lapsed \ {j}
  /\ hand' = [hand EXCEPT ![w] = j]
  /\ UNCHANGED tries

Mine(j, w) == hand[w] = j /\ owner[j] = w

\* A lease that is over can be renewed, as long as nobody else took the job.
Renew(j, w) == /\ Mine(j, w)
               /\ lapsed' = lapsed \ {j}
               /\ UNCHANGED <<state, owner, tries, hand>>

Lapse(j) == /\ state[j] = "processing"
            /\ lapsed' = lapsed \union {j}
            /\ UNCHANGED <<state, owner, tries, hand>>

\* The jobs of S leave processing, or the queue, for s.
Leave(S, s) ==
  /\ state' = [j \in Jobs |-> IF j \in S THEN s ELSE state[j]]
  /\ owner' = [j \in Jobs |-> IF j \in S THEN None ELSE owner[j]]
  /\ lapsed' = lapsed \ S

Drop(w) == hand' = [hand EXCEPT ![w] = None]

\* What the owner may do: end the job, have it tried again, or let it go.
End(j, w, s)   == /\ Mine(j, w)
                  /\ s \in {"completed", "failed"} /\ Leave({j}, s) /\ Drop(w)
                  /\ UNCHANGED tries
Retry(j, w, s) == /\ Mine(j, w) /\ tries[j] < MaxRetries[j]
                  /\ s \in {"queued", "quarantined"} /\ Leave({j}, s) /\ Drop(w)
                  /\ tries' = [tries EXCEPT ![j] = @ + 1]
Release(j, w)  == Mine(j, w) /\ Leave({j}, "queued") /\ Drop(w) /\ UNCHANGED tries

\* What anybody may do who works on it: cancel it on request, or go away.
Abort(j, w) == /\ hand[w] = j /\ Unfinished(j)
               /\ Leave({j}, "cancelled") /\ Drop(w)
               /\ UNCHANGED tries
Quit(w)     == Drop(w) /\ UNCHANGED <<state, owner, lapsed, tries>>

\* Jobs whose lease is over are swept; jobs are cancelled, or outlive their time.
TakeBack(S) == S \subseteq lapsed /\ Leave(S, "queued") /\ UNCHANGED <<tries, hand>>
Stop(S, s)  == /\ \A j \in S : Unfinished(j)
               /\ s \in {"cancelled", "failed"} /\ Leave(S, s)
               /\ UNCHANGED <<tries, hand>>

Reopen(j) == /\ state[j] = "quarantined" \/ (state[j] = "failed" /\ tries[j] < MaxRetries[j])
             /\ state' = [state EXCEPT ![j] = "queued"]
             /\ UNCHANGED <<owner, lapsed, tries, hand>>

Next == \/ \E j \in Jobs, w \in Workers :
             \/ Take(j, w) \/ Renew(j, w) \/ Release(j, w) \/ Abort(j, w)
             \/ \E s \in {"completed", "failed", "queued", "quarantined"} :
                  End(j, w, s) \/ Retry(j, w, s)
        \/ \E w \in Workers : Quit(w)
        \/ \E j \in Jobs : Lapse(j) \/ Reopen(j)
        \/ \E S \in SUBSET Jobs : TakeBack(S) \/ \E s \in {"cancelled", "failed"} : Stop(S, s)

Spec == Init /\ [][Next]_vars
=============================================================================
