-------------------------- MODULE MCCircuitBreaker --------------------------
(* CircuitBreaker with one caller in each of two processes. *)
EXTENDS CircuitBreaker

CONSTANTS p1, p2, c1, c2

MCProcOf == [c \in Calls |-> IF c = c1 THEN p1 ELSE p2]
=============================================================================
