--------------------------- MODULE TaskOwnership ---------------------------
(***************************************************************************)
(* What the task queue promises, without rows, leases or statements: a     *)
(* task belongs to at most one worker; only its owner ends it or gives it  *)
(* back; it is taken away only from a worker that no longer works on it;   *)
(* it starts after its dependencies, ends once, and fails only when its    *)
(* retries are used up.  TaskQueue implements this as long as leases       *)
(* outlive the work and nobody cancels.                                    *)
(***************************************************************************)
EXTENDS Naturals

CONSTANTS Tasks, Workers, None, DependsOn, MaxRetries

VARIABLES
  state,   \* task -> "none", "waiting", "owned", "done", "failed"
  owner,   \* task -> the worker that owns it, or None
  tries,   \* task -> how often it was given back or taken away (counted to MaxRetries + 1)
  works    \* worker -> the task it works on, or None

vars == <<state, owner, tries, works>>

Init == /\ state = [t \in Tasks |-> "none"]
        /\ owner = [t \in Tasks |-> None]
        /\ tries = [t \in Tasks |-> 0]
        /\ works = [w \in Workers |-> None]

Submit(t) == /\ state[t] = "none"
             /\ state' = [state EXCEPT ![t] = "waiting"]
             /\ UNCHANGED <<owner, tries, works>>

Claim(t, w) ==
  /\ state[t] = "waiting" /\ works[w] = None
  /\ \A d \in DependsOn[t] : state[d] = "done"
  /\ state' = [state EXCEPT ![t] = "owned"]
  /\ owner' = [owner EXCEPT ![t] = w]
  /\ works' = [works EXCEPT ![w] = t]
  /\ UNCHANGED tries

\* The owner ends the task, or gives it back for another try.
Finish(t, w, result) ==
  /\ state[t] = "owned" /\ owner[t] = w /\ works[w] = t
  /\ state' = [state EXCEPT ![t] = result]
  /\ owner' = [owner EXCEPT ![t] = None]
  /\ works' = [works EXCEPT ![w] = None]

Complete(t, w) == Finish(t, w, "done") /\ UNCHANGED tries
Fail(t, w)     == Finish(t, w, "failed") /\ tries[t] >= MaxRetries /\ UNCHANGED tries
GiveBack(t, w) == /\ Finish(t, w, "waiting")
                  /\ tries[t] < MaxRetries
                  /\ tries' = [tries EXCEPT ![t] = @ + 1]

\* A worker stops working; its task stays its own until it is taken away.
Quit(w) == /\ works[w] # None
           /\ works' = [works EXCEPT ![w] = None]
           /\ UNCHANGED <<state, owner, tries>>

TakeAway(S) ==
  /\ S # {}
  /\ \A t \in S : state[t] = "owned" /\ works[owner[t]] # t
  /\ state' = [t \in Tasks |-> IF t \in S THEN "waiting" ELSE state[t]]
  /\ owner' = [t \in Tasks |-> IF t \in S THEN None ELSE owner[t]]
  /\ tries' = [t \in Tasks |-> IF t \in S /\ tries[t] <= MaxRetries
                                 THEN tries[t] + 1 ELSE tries[t]]
  /\ UNCHANGED works

Next == \/ \E t \in Tasks : Submit(t)
        \/ \E t \in Tasks, w \in Workers :
             Claim(t, w) \/ Complete(t, w) \/ Fail(t, w) \/ GiveBack(t, w)
        \/ \E w \in Workers : Quit(w)
        \/ \E S \in SUBSET Tasks : TakeAway(S)

Spec == Init /\ [][Next]_vars
=============================================================================
