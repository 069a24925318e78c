----------------------------- MODULE MCJobQueue -----------------------------
(* JobQueue with two jobs in a dependency and two loops. *)
EXTENDS JobQueue

CONSTANTS j1, j2, w1, id1, id2

MCDependsOn == [j \in Jobs |-> IF j = j2 THEN {j1} ELSE {}]
MCMaxRetries == [j \in Jobs |-> IF j = j1 THEN 2 ELSE 0]
MCWorkerId  == [w \in Workers |-> IF w = w1 THEN id1 ELSE id2]
=============================================================================
