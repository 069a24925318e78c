---------------------------- MODULE MCIsoClock -----------------------------
(* One stored time and a clock that passes it, over two days.              *)
EXTENDS IsoClock

CONSTANTS Days, DayLength   \* bounds: days modelled, instants per day

VARIABLES stored, now

Init == /\ stored \in [date : 0 .. Days - 1, time : 0 .. DayLength - 1]
        /\ now = [date |-> 0, time |-> 0]

Tick == /\ now' = IF now.time < DayLength - 1
                    THEN [now EXCEPT !.time = @ + 1]
                    ELSE [date |-> now.date + 1, time |-> 0]
        /\ now'.date < Days
        /\ UNCHANGED stored

Spec == Init /\ [][Tick]_<<stored, now>>

\* A lease whose expiry has passed is found by the reaper ("Reclaim tasks with
\* expired leases back to queued status", sqlite_backend.py:766).  It is not
\* until the date changes.
ExpiredIsSeen == Earlier(stored, now) => SeenExpired(stored, now)
=============================================================================
