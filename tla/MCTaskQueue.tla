---------------------------- MODULE MCTaskQueue ----------------------------
(* TaskQueue on small instances: t2 waits for t1; t3, where there is one,  *)
(* is free and comes first in the queue.                                   *)
EXTENDS TaskQueue, TLC

CONSTANTS t1, t2, t3, w1, w2, c1, k, default

MCQueueOf   == [t \in Tasks |-> default]
MCServes    == [w \in Workers |-> default]
MCDependsOn == [t \in Tasks |-> IF t = t2 THEN {t1} ELSE {}]
MCPriority  == [t \in Tasks |-> IF t = t3 THEN 0 ELSE 2]
MCKey       == [t \in Tasks |-> IF t \in {t2, t3} THEN k ELSE None]   \* the same key twice

Symmetry == Permutations(Workers) \union Permutations(Cancellers)
=============================================================================
