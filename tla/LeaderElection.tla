--------------------------- MODULE LeaderElection ---------------------------
(***************************************************************************)
(* Leadership for "scheduler:cleanup": the row of service_leaders with its *)
(* acquire, renew and release (backends/sqlite_backend.py), the loop that  *)
(* keeps leadership (core/leader_election.py) and the cleanup loop that    *)
(* works only when is_leader says so (scheduler.py).                       *)
(*                                                                         *)
(* Each process has one connection, whose statements self._lock            *)
(* serialises; the processes interleave.  acquire_leader is a transaction, *)
(* release_leader one statement, but renew_leader is a SELECT and an       *)
(* UPDATE that other processes can come between.  acquire and renew read   *)
(* the clock before they wait for the lock.                                *)
(*                                                                         *)
(* Time is counted in ticks: the row's age since acquired_at, and how long *)
(* ago each coroutine read the clock.                                      *)
(***************************************************************************)
EXTENDS Integers

CONSTANTS
  Nodes,          \* processes; instance_id is a fresh uuid for each of them
  None,           \* no row
  TTL,            \* leader_ttl_seconds, in ticks
  MaxWait,        \* bound: ticks between reading the clock and the last statement
  Mortal,         \* the processes that may stop or die
  TimelyRenewal   \* TRUE: a running leader renews before its row expires

ASSUME ElectionAssumption ==
  /\ None \notin Nodes
  /\ TTL \in Nat \ {0} /\ MaxWait \in Nat
  /\ Mortal \subseteq Nodes
  /\ TimelyRenewal \in BOOLEAN

VARIABLES
  leader,   \* the row: leader_id and the age of acquired_at
  process,  \* each process: up, stopping, or down
  believes, \* leadership_loop's is_leader
  query     \* each process's two coroutines, and where their query is

vars == <<leader, process, believes, query>>

\* leadership_loop, and _cleanup_loop
Loops == {"keep", "clean"}

Oldest == TTL + MaxWait      \* an older row counts as this old
NoRow  == [id |-> None, age |-> 0]
AtRest == [pc |-> "sleep", since |-> 0]

TypeOK ==
  /\ leader \in [id : Nodes \union {None}, age : 0 .. Oldest]
  /\ process \in [Nodes -> {"up", "stopping", "down"}]
  /\ believes \in [Nodes -> BOOLEAN]
  /\ query \in [Nodes -> [Loops ->
       [pc : {"sleep", "acquire", "select", "update", "cleaning", "dead"},
        since : 0 .. MaxWait]]]

Init ==
  /\ leader = NoRow
  /\ process = [n \in Nodes |-> "up"]
  /\ believes = [n \in Nodes |-> FALSE]
  /\ query = [n \in Nodes |-> [l \in Loops |-> AtRest]]

\* self._lock is held from the SELECT of renew_leader to its UPDATE.
LockFree(n) == \A l \in Loops : query[n][l].pc # "update"

InQuery(n, l)  == query[n][l].pc \in {"acquire", "select", "update"}
At(n, l, pc)   == process[n] # "down" /\ query[n][l].pc = pc
Goto(n, l, pc) == query' = [query EXCEPT ![n][l].pc = pc]
Rest(n, l)     == query' = [query EXCEPT ![n][l] = AtRest]

----------------------------------------------------------------------------
(* leadership_loop and is_leader read the clock and call the backend       *)

Wakes(n) ==
  /\ At(n, "keep", "sleep")
  /\ Goto(n, "keep", IF believes[n] THEN "select" ELSE "acquire")
  /\ UNCHANGED <<leader, process, believes>>

AsksIsLeader(n) ==
  /\ process[n] = "up" /\ At(n, "clean", "sleep")
  /\ Goto(n, "clean", "select")
  /\ UNCHANGED <<leader, process, believes>>

(* acquire_leader: the row is free, expired by the clock read before, or   *)
(* one's own                                                               *)

\* Mutants: a row expires too early; a row never expires; local time is stored.
ExpiredEarly(since)   == leader.age - since >= TTL - 1
NeverExpired(since)   == FALSE
StoredInLocalTime(since) == since - 1

\* acquired_at becomes the time that was read before.
StoredAge(since) == since

Expired(since) == leader.age - since >= TTL

Acquires(n) ==
  LET since == query[n]["keep"].since IN
  /\ At(n, "keep", "acquire") /\ LockFree(n)
  /\ \/ /\ leader.id \in {None, n} \/ Expired(since)
        /\ leader' = [id |-> n, age |-> StoredAge(since)]
        /\ believes' = [believes EXCEPT ![n] = TRUE]
     \/ /\ leader.id \notin {None, n} /\ ~Expired(since)
        /\ UNCHANGED <<leader, believes>>
  /\ Rest(n, "keep")
  /\ UNCHANGED process

(* renew_leader: SELECT leader_id, then UPDATE by service_name alone       *)

\* What the caller makes of the answer: leadership_loop believes it, the
\* cleanup loop works on it.
Answered(n, l, yes) ==
  /\ believes' = IF l = "keep" THEN [believes EXCEPT ![n] = yes] ELSE believes
  /\ IF l = "clean" /\ yes
       THEN query' = [query EXCEPT ![n][l] = [AtRest EXCEPT !.pc = "cleaning"]]
       ELSE Rest(n, l)

RenewSelect(n, l) ==
  /\ At(n, l, "select") /\ LockFree(n)
  /\ IF leader.id = n THEN Goto(n, l, "update") /\ UNCHANGED believes
                      ELSE Answered(n, l, FALSE)
  /\ UNCHANGED <<leader, process>>

RenewUpdate(n, l) ==
  /\ At(n, l, "update")
  /\ leader' = IF leader.id = None THEN leader
                                   ELSE [leader EXCEPT !.age = StoredAge(query[n][l].since)]
  /\ Answered(n, l, TRUE)
  /\ UNCHANGED process

\* A statement raises: acquire_leadership and is_leader answer False, the
\* loop sleeps and believes what it did.
QueryRaises(n, l) ==
  /\ InQuery(n, l)
  /\ query[n][l].pc # "update" => LockFree(n)
  /\ Rest(n, l)
  /\ UNCHANGED <<leader, process, believes>>

CleanupEnds(n) ==
  /\ At(n, "clean", "cleaning")
  /\ Rest(n, "clean")
  /\ UNCHANGED <<leader, process, believes>>

\* reclaim_expired_leases raises TransactionError or an sqlite3 error, which
\* the loop's except clauses do not name: _cleanup_loop is over, the process
\* and its leadership_loop go on.
CleanupDies(n) ==
  /\ At(n, "clean", "cleaning")
  /\ Goto(n, "clean", "dead")
  /\ UNCHANGED <<leader, process, believes>>

----------------------------------------------------------------------------
(* stop: the cleanup loop is cancelled, the workers are given time to      *)
(* finish, then stop_all cancels the leadership loop and releases the row  *)
(* if it is the process's own.  When the cleanup loop is dead, awaiting it *)
(* raises its error out of stop, which gets no further.                    *)

StopCleaning(n) ==
  /\ n \in Mortal /\ process[n] = "up"
  /\ query[n]["clean"].pc # "dead"
  /\ process' = [process EXCEPT ![n] = "stopping"]
  /\ Rest(n, "clean")
  /\ UNCHANGED <<leader, believes>>

Down(n) ==
  /\ process' = [process EXCEPT ![n] = "down"]
  /\ believes' = [believes EXCEPT ![n] = FALSE]
  /\ query' = [query EXCEPT ![n] = [l \in Loops |-> AtRest]]

\* Mutant: DELETE by service_name alone.
StopAllDeletesAny(n) == process[n] = "stopping" /\ Down(n) /\ leader' = NoRow

StopAll(n) == /\ process[n] = "stopping" /\ Down(n)
              /\ leader' = IF leader.id = n THEN NoRow ELSE leader

Crash(n) == /\ n \in Mortal /\ process[n] # "down" /\ Down(n)
            /\ UNCHANGED leader

----------------------------------------------------------------------------
(* Time.  A query is over within MaxWait, a cleanup before the row that    *)
(* allowed it expires; with TimelyRenewal a running leader's row does not  *)
(* expire at all: the loop wakes up three times in a TTL.                  *)

Lapses(n) == leader.id = n /\ leader.age + 1 >= TTL

Tick ==
  /\ \A n \in Nodes, l \in Loops : InQuery(n, l) => query[n][l].since < MaxWait
  /\ \A n \in Nodes : query[n]["clean"].pc = "cleaning" => ~Lapses(n)
  /\ TimelyRenewal => \A n \in Nodes : process[n] # "down" => ~Lapses(n)
  /\ leader' = [leader EXCEPT !.age = IF leader.id = None THEN 0
                                      ELSE IF @ < Oldest THEN @ + 1 ELSE @]
  /\ query' = [n \in Nodes |-> [l \in Loops |->
                 IF InQuery(n, l) THEN [query[n][l] EXCEPT !.since = @ + 1]
                                  ELSE query[n][l]]]
  /\ UNCHANGED <<process, believes>>

----------------------------------------------------------------------------
KeepStep(n)  == Wakes(n) \/ Acquires(n) \/ RenewSelect(n, "keep") \/ RenewUpdate(n, "keep")
CleanStep(n) == AsksIsLeader(n) \/ RenewSelect(n, "clean") \/ RenewUpdate(n, "clean")
                  \/ CleanupEnds(n)

Raises == \E n \in Nodes, l \in Loops : QueryRaises(n, l)

Next == \/ \E n \in Nodes : \/ KeepStep(n) \/ CleanStep(n) \/ CleanupDies(n)
                           \/ StopCleaning(n) \/ StopAll(n) \/ Crash(n)
        \/ Raises
        \/ Tick

Spec == Init /\ [][Next]_vars

\* Loops go on, time passes, a stop ends (the workers have a timeout).  A
\* statement may raise any number of times, but not every time it is tried.
FairSpec == /\ Spec
            /\ \A n \in Nodes : /\ WF_vars(KeepStep(n)) /\ WF_vars(CleanStep(n))
                                /\ WF_vars(StopAll(n))
                                /\ SF_vars(Acquires(n))
                                /\ SF_vars(RenewSelect(n, "clean"))
                                /\ SF_vars(RenewUpdate(n, "clean"))
            /\ WF_vars(Tick)

----------------------------------------------------------------------------
(* Properties                                                              *)

Cleaning(n) == query[n]["clean"].pc = "cleaning"

\* "Leader election ensures single-node cleanup/monitor leadership"
\* (Scheduler/README.md:12): two processes never clean up at a time.
SingleCleaner == \A m, n \in Nodes : Cleaning(m) /\ Cleaning(n) => m = n

\* What a process remembers as its leadership is in the table: no other
\* process was let in since.
BelieverHoldsRow == \A n \in Nodes : believes[n] => leader.id = n

\* A leader whose cleanup loop has died keeps renewing a leadership of which
\* it makes no use.
Mute(n) == leader.id = n /\ query[n]["clean"].pc = "dead"

\* A process that is down, stopping or no longer leader does not keep the
\* others from cleaning up for ever: again and again somebody does.  The one
\* way to lose that is a leader that has gone mute, and goes on for ever.
SomebodyCleans == \/ []<>(\E n \in Nodes : Cleaning(n))
                  \/ <>[](\E n \in Nodes : Mute(n))
=============================================================================
