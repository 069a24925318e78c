--------------------------- MODULE MCRequestQueue ---------------------------
(* RequestQueue with a stream and two plain requests, one of which uses    *)
(* the id of the stream.                                                   *)
EXTENDS RequestQueue

CONSTANTS plain, stream, other, id1, id2

MCIdOf == [r \in Requests |-> IF r = other THEN id2 ELSE id1]
MCPriority == [r \in Requests |-> IF r = stream THEN 2 ELSE 3]
=============================================================================
