------------------------------- MODULE Intake -------------------------------
(***************************************************************************)
(* What submission promises, without buffer, lock, flushes or backups: a   *)
(* task enters once and is pending until its row, or a row with its        *)
(* idempotency key, is stored; rows are stored in the order of entry; an   *)
(* answer names the task itself or one with the same key, never a task     *)
(* that is neither pending nor stored; only a crash takes pending tasks.   *)
(* WriteBuffer implements this as long as no flush is cancelled.           *)
(***************************************************************************)
EXTENDS Naturals, Sequences

CONSTANTS Tasks, None, Key

VARIABLES
  rows,     \* the stored tasks, oldest first
  entered,  \* the accepted tasks, oldest first
  pending,  \* the tasks that have still to get a row
  answer,   \* submission -> the id it returned, or None
  lost      \* the tasks that crashes took

vars == <<rows, entered, pending, answer, lost>>

In(t, s)   == \E i \in DOMAIN s : s[i] = t
Same(t, u) == t = u \/ (Key[t] # None /\ Key[u] = Key[t])
HasRow(t)  == \E i \in DOMAIN rows : Same(t, rows[i])

Before(t, u) == \E i, j \in DOMAIN entered : i < j /\ entered[i] = t /\ entered[j] = u

Init == /\ rows = <<>> /\ entered = <<>> /\ pending = {}
        /\ answer = [t \in Tasks |-> None]
        /\ lost = {}

Return(t, id) == answer[t] = None /\ answer' = [answer EXCEPT ![t] = id]

\* A task enters; its submission returns now or later.
Accept(t, id) ==
  /\ ~In(t, entered) /\ id \in {t, None}
  /\ entered' = Append(entered, t)
  /\ pending' = IF HasRow(t) THEN pending ELSE pending \union {t}
  /\ Return(t, id)
  /\ UNCHANGED <<rows, lost>>

\* A submission returns the id of a task that has been accepted and is safe.
Answer(t, u) ==
  /\ Same(t, u) /\ In(u, entered) /\ (u \in pending \/ HasRow(u))
  /\ Return(t, u)
  /\ UNCHANGED <<rows, entered, pending, lost>>

\* The task that entered first gets its row; others with its key never will.
Store(t) ==
  /\ t \in pending /\ \A u \in pending \ {t} : Before(t, u)
  /\ rows' = Append(rows, t)
  /\ pending' = {u \in pending : ~Same(u, t)}
  /\ UNCHANGED <<entered, answer, lost>>

\* A crash takes what was in memory; what has a backup stays pending.
Lose(S) ==
  /\ \A t \in S : In(t, entered)
  /\ lost' = lost \union S
  /\ pending' \subseteq pending /\ pending \ pending' \subseteq S
  /\ UNCHANGED <<rows, entered, answer>>

Next == \/ \E t \in Tasks, id \in Tasks \union {None} : Accept(t, id)
        \/ \E t, u \in Tasks : Answer(t, u)
        \/ \E t \in Tasks : Store(t)
        \/ \E S \in SUBSET Tasks : Lose(S)

Spec == Init /\ [][Next]_vars
=============================================================================
