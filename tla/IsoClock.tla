------------------------------ MODULE IsoClock ------------------------------
(***************************************************************************)
(* How the SQLite backend compares times.  Lease and retry times are       *)
(* stored as datetime.isoformat(), "YYYY-MM-DDTHH:MM:SS[.ffffff]"; the     *)
(* queries compare that TEXT with datetime('now'), "YYYY-MM-DD HH:MM:SS".  *)
(* Dates and times of day are of fixed width, so as text they order like   *)
(* numbers; what is left is the separator between them.                    *)
(***************************************************************************)
EXTENDS Integers

\* An instant: a date and a time of day.
Instant == [date : Nat, time : Nat]

Earlier(a, b) == a.date < b.date \/ (a.date = b.date /\ a.time < b.time)

\* The two texts, as their three significant parts.
Isoformat(a) == [date |-> a.date, sep |-> 84, time |-> a.time]   \* 'T'
SqliteNow(a) == [date |-> a.date, sep |-> 32, time |-> a.time]   \* ' '

TextLess(s, u) ==
  \/ s.date < u.date
  \/ s.date = u.date /\ s.sep < u.sep
  \/ s.date = u.date /\ s.sep = u.sep /\ s.time < u.time

\* WHERE expires_at < datetime('now')          (reclaim_expired_leases)
SeenExpired(v, now) == TextLess(Isoformat(v), SqliteNow(now))

\* WHERE scheduled_at <= datetime('now')       (dequeue_atomic)
SeenDue(v, now) == ~TextLess(SqliteNow(now), Isoformat(v))
=============================================================================
