-------------------------- MODULE IsoClockProofs ---------------------------
(* Why TaskQueue may count days: the text comparisons see dates only.      *)
EXTENDS IsoClock, TLAPS

\* A stored time counts as past on the days after its date, whatever the times
\* of day: both the reaper's "<" and the dequeue's "<=".
THEOREM DatesDecide ==
  ASSUME NEW v \in Instant, NEW now \in Instant
  PROVE  /\ SeenExpired(v, now) <=> v.date < now.date
         /\ SeenDue(v, now) <=> v.date < now.date
BY DEF Instant, SeenExpired, SeenDue, TextLess, Isoformat, SqliteNow

\* The comparison errs on the late side only: no lease is reclaimed and no
\* retry is started before its time.
THEOREM NeverEarly ==
  ASSUME NEW v \in Instant, NEW now \in Instant
  PROVE  SeenExpired(v, now) \/ SeenDue(v, now) => Earlier(v, now)
BY DatesDecide DEF Earlier

\* TaskQueue counts the days from today to the stored date, down to -1: a
\* count at -1 is exactly a time the queries see as past.
THEOREM DayCountIsExact ==
  ASSUME NEW v \in Instant, NEW now \in Instant
  PROVE  SeenExpired(v, now) <=> v.date - now.date <= -1
<1>1. v.date \in Nat /\ now.date \in Nat
  BY DEF Instant
<1> QED
  BY <1>1, DatesDecide
=============================================================================
