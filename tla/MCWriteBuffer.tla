--------------------------- MODULE MCWriteBuffer ---------------------------
(* WriteBuffer on a small instance: a and b carry the same key.            *)
EXTENDS WriteBuffer

CONSTANTS a, b, c, k

MCKey == [t \in Tasks |-> IF t \in {a, b} THEN k ELSE None]
=============================================================================
