----------------------- MODULE LeaderElectionProofs -----------------------
(***************************************************************************)
(* Proofs about LeaderElection: types, and, for leaders that renew in      *)
(* time, that what a process believes is in the table and that only one    *)
(* process cleans up at a time.                                            *)
(***************************************************************************)
EXTENDS LeaderElection, TLAPS

Pcs     == {"sleep", "acquire", "select", "update", "cleaning", "dead"}
Queries == [pc : Pcs, since : 0 .. MaxWait]

\* A query state with another pc, or another clock, is a query state.
LEMMA QueryType ==
  /\ AtRest \in Queries
  /\ [AtRest EXCEPT !.pc = "cleaning"] \in Queries
  /\ \A q \in Queries, pc \in Pcs :
       [q EXCEPT !.pc = pc] \in Queries
  /\ \A q \in Queries : q.since < MaxWait => [q EXCEPT !.since = @ + 1] \in Queries
BY ElectionAssumption DEF Queries, Pcs, AtRest

\* Replacing the state of one coroutine of one process.
LEMMA QueryStep ==
  ASSUME query \in [Nodes -> [Loops -> Queries]], NEW n \in Nodes, NEW l \in Loops,
         NEW q \in Queries
  PROVE  [query EXCEPT ![n][l] = q] \in [Nodes -> [Loops -> Queries]]
OBVIOUS

\* A loop that moves on stays well typed.
LEMMA GotoStep ==
  ASSUME query \in [Nodes -> [Loops -> Queries]], NEW n \in Nodes, NEW l \in Loops,
         NEW pc \in Pcs, Goto(n, l, pc)
  PROVE  query' \in [Nodes -> [Loops -> Queries]]
<1>1. query' = [query EXCEPT ![n][l] = [query[n][l] EXCEPT !.pc = pc]]
  BY DEF Goto
<1>2. [query[n][l] EXCEPT !.pc = pc] \in Queries
  BY QueryType
<1> QED
  BY <1>1, <1>2

\* The empty table and sleeping loops are well typed.
LEMMA InitTypeOK == Init => TypeOK
<1> SUFFICES ASSUME Init PROVE TypeOK
  OBVIOUS
<1>1. query \in [Nodes -> [Loops -> Queries]]
  BY QueryType DEF Init
<1>2. leader \in [id : Nodes \union {None}, age : 0 .. Oldest]
  BY ElectionAssumption DEF Init, NoRow, Oldest
<1>3. process \in [Nodes -> {"up", "stopping", "down"}] /\ believes \in [Nodes -> BOOLEAN]
  BY DEF Init
<1> QED
  BY <1>1, <1>2, <1>3 DEF TypeOK, Queries, Pcs

\* Every step keeps the types.
LEMMA NextTypeOK == ASSUME TypeOK, [Next]_vars PROVE TypeOK'
<1>a. /\ leader \in [id : Nodes \union {None}, age : 0 .. Oldest]
      /\ process \in [Nodes -> {"up", "stopping", "down"}]
      /\ believes \in [Nodes -> BOOLEAN]
      /\ query \in [Nodes -> [Loops -> Queries]]
  BY DEF TypeOK, Queries, Pcs
<1>b. /\ TTL \in Nat \ {0} /\ MaxWait \in Nat /\ Oldest = TTL + MaxWait
      /\ "keep" \in Loops /\ "clean" \in Loops
  BY ElectionAssumption DEF Oldest, Loops
<1> DEFINE Typed == /\ leader' \in [id : Nodes \union {None}, age : 0 .. Oldest]
                    /\ process' \in [Nodes -> {"up", "stopping", "down"}]
                    /\ believes' \in [Nodes -> BOOLEAN]
                    /\ query' \in [Nodes -> [Loops -> Queries]]
<1> SUFFICES Typed
  BY DEF TypeOK, Queries, Pcs
<1>c. \A n \in Nodes, l \in Loops : query[n][l].since \in 0 .. Oldest
  BY <1>a, <1>b DEF Queries
<1>d. \A n \in Nodes, l \in Loops : Rest(n, l) => query' \in [Nodes -> [Loops -> Queries]]
  <2> SUFFICES ASSUME NEW n \in Nodes, NEW l \in Loops, Rest(n, l)
               PROVE  query' \in [Nodes -> [Loops -> Queries]]
    OBVIOUS
  <2>1. query' = [query EXCEPT ![n][l] = AtRest]
    BY DEF Rest
  <2> QED
    BY <1>a, <2>1, QueryType, QueryStep
<1>e. \A n \in Nodes, l \in Loops : \A yes \in BOOLEAN :
        Answered(n, l, yes) => /\ believes' \in [Nodes -> BOOLEAN]
                               /\ query' \in [Nodes -> [Loops -> Queries]]
  <2> SUFFICES ASSUME NEW n \in Nodes, NEW l \in Loops, NEW yes \in BOOLEAN, Answered(n, l, yes)
               PROVE  /\ believes' \in [Nodes -> BOOLEAN]
                      /\ query' \in [Nodes -> [Loops -> Queries]]
    OBVIOUS
  <2>1. believes' \in [Nodes -> BOOLEAN]
    BY <1>a DEF Answered
  <2>2. CASE l = "clean" /\ yes
    <3>1. query' = [query EXCEPT ![n][l] = [AtRest EXCEPT !.pc = "cleaning"]]
      BY <2>2 DEF Answered
    <3> QED
      BY <1>a, <2>1, <3>1, QueryType, QueryStep
  <2>3. CASE ~(l = "clean" /\ yes)
    BY <2>1, <2>3, <1>d DEF Answered
  <2> QED
    BY <2>2, <2>3
<1>1. ASSUME NEW n \in Nodes, Wakes(n) PROVE Typed
  <2>1. PICK pc \in {"select", "acquire"} : Goto(n, "keep", pc)
    BY <1>1 DEF Wakes
  <2> QED
    BY <1>1, <2>1, <1>a, <1>b, GotoStep DEF Wakes, Pcs
<1>2. ASSUME NEW n \in Nodes, AsksIsLeader(n) PROVE Typed
  BY <1>2, <1>a, <1>b, GotoStep DEF AsksIsLeader, Pcs
<1>3. ASSUME NEW n \in Nodes, Acquires(n) PROVE Typed
  <2>1. leader' \in [id : Nodes \union {None}, age : 0 .. Oldest]
    BY <1>3, <1>a, <1>b, <1>c DEF Acquires, StoredAge
  <2> QED
    BY <1>3, <2>1, <1>a, <1>b, <1>d DEF Acquires
<1>4. ASSUME NEW n \in Nodes, NEW l \in Loops, RenewSelect(n, l) PROVE Typed
  <2>1. CASE leader.id = n
    BY <1>4, <2>1, <1>a, GotoStep DEF RenewSelect, Pcs
  <2>2. CASE leader.id # n
    BY <1>4, <2>2, <1>a, <1>e DEF RenewSelect
  <2> QED
    BY <2>1, <2>2
<1>5. ASSUME NEW n \in Nodes, NEW l \in Loops, RenewUpdate(n, l) PROVE Typed
  <2>1. leader' \in [id : Nodes \union {None}, age : 0 .. Oldest]
    BY <1>5, <1>a, <1>c DEF RenewUpdate, StoredAge
  <2> QED
    BY <1>5, <2>1, <1>a, <1>e DEF RenewUpdate
<1>6. ASSUME NEW n \in Nodes, NEW l \in Loops, QueryRaises(n, l) PROVE Typed
  BY <1>6, <1>a, <1>d DEF QueryRaises
<1>7. ASSUME NEW n \in Nodes, CleanupEnds(n) PROVE Typed
  BY <1>7, <1>a, <1>b, <1>d DEF CleanupEnds
<1>8. ASSUME NEW n \in Nodes, CleanupDies(n) PROVE Typed
  BY <1>8, <1>a, <1>b, GotoStep DEF CleanupDies, Pcs
<1>9. ASSUME NEW n \in Nodes, StopCleaning(n) PROVE Typed
  BY <1>9, <1>a, <1>b, <1>d DEF StopCleaning
<1>10. ASSUME NEW n \in Nodes, StopAll(n) \/ Crash(n) PROVE Typed
  <2>1. leader' \in {leader, NoRow}
    BY <1>10 DEF StopAll, Crash
  <2>2. NoRow \in [id : Nodes \union {None}, age : 0 .. Oldest]
    BY <1>b DEF NoRow
  <2>3. Down(n)
    BY <1>10 DEF StopAll, Crash
  <2> QED
    BY <2>1, <2>2, <2>3, <1>a, QueryType DEF Down
<1>11. CASE Tick
  <2>1. leader' \in [id : Nodes \union {None}, age : 0 .. Oldest]
    BY <1>11, <1>a, <1>b DEF Tick
  <2>2. query' \in [Nodes -> [Loops -> Queries]]
    BY <1>11, <1>a, QueryType DEF Tick
  <2> QED
    BY <1>11, <2>1, <2>2, <1>a DEF Tick
<1>12. CASE UNCHANGED vars
  BY <1>12, <1>a DEF vars
<1> QED
  BY <1>1, <1>2, <1>3, <1>4, <1>5, <1>6, <1>7, <1>8, <1>9, <1>10, <1>11, <1>12, <1>b
     DEF Next, KeepStep, CleanStep, Raises

\* The type invariant, for any number of processes and any TTL.
THEOREM TypeCorrect == Spec => []TypeOK
<1>1. TypeOK /\ [Next]_vars => TypeOK'
  BY NextTypeOK
<1> QED
  BY InitTypeOK, <1>1, PTL DEF Spec

----------------------------------------------------------------------------
(* One leader.  SingleCleaner and BelieverHoldsRow are not inductive: what *)
(* keeps a second process out is the row, so the invariant says that       *)
(* whoever acts, or is about to, is in the row, and that the row of a      *)
(* process that runs has not expired.                                      *)

\* Process n acts as leader: in its loop, in its cleanup, or between the
\* SELECT and the UPDATE of a renewal.
Acts(n) == believes[n] \/ \E l \in Loops : query[n][l].pc \in {"update", "cleaning"}

LeaderInv ==
  \A n \in Nodes :
    /\ Acts(n) => leader.id = n
    /\ process[n] = "down" => ~Acts(n)
    /\ leader.id = n /\ process[n] # "down" => leader.age < TTL

\* At the start nobody believes anything and the row is empty.
LEMMA InitLeaderInv == Init => LeaderInv
<1> SUFFICES ASSUME Init, NEW n \in Nodes PROVE ~Acts(n) /\ leader.id # n
  BY DEF LeaderInv
<1>1. believes[n] = FALSE /\ leader.id = None
  BY DEF Init, NoRow
<1>2. \A l \in Loops : query[n][l].pc = "sleep"
  BY DEF Init, AtRest
<1> QED
  BY <1>1, <1>2, ElectionAssumption DEF Acts

\* Where a coroutine is after it has gone elsewhere, or to rest.
LEMMA QueryPcs ==
  ASSUME query \in [Nodes -> [Loops -> Queries]], NEW n \in Nodes, NEW l \in Loops,
         NEW q \in Queries, query' = [query EXCEPT ![n][l] = q]
  PROVE  \A m \in Nodes, k \in Loops :
           query'[m][k].pc = IF m = n /\ k = l THEN q.pc ELSE query[m][k].pc
OBVIOUS

\* Goto moves one loop of one node.
LEMMA GotoPcs ==
  ASSUME query \in [Nodes -> [Loops -> Queries]], NEW n \in Nodes, NEW l \in Loops,
         NEW pc \in Pcs, Goto(n, l, pc)
  PROVE  \A m \in Nodes, k \in Loops :
           query'[m][k].pc = IF m = n /\ k = l THEN pc ELSE query[m][k].pc
<1> DEFINE q == [query[n][l] EXCEPT !.pc = pc]
<1>1. query' = [query EXCEPT ![n][l] = q]
  BY DEF Goto
<1>2. query[n][l] \in Queries
  OBVIOUS
<1>3. q \in Queries /\ q.pc = pc
  BY <1>2 DEF Queries
<1> HIDE DEF q
<1> QED
  BY <1>1, <1>3, QueryPcs

\* Rest sends one loop of one node to sleep.
LEMMA RestPcs ==
  ASSUME query \in [Nodes -> [Loops -> Queries]], NEW n \in Nodes, NEW l \in Loops, Rest(n, l)
  PROVE  \A m \in Nodes, k \in Loops :
           query'[m][k].pc = IF m = n /\ k = l THEN "sleep" ELSE query[m][k].pc
<1>1. query' = [query EXCEPT ![n][l] = AtRest]
  BY DEF Rest
<1>2. AtRest \in Queries /\ AtRest.pc = "sleep"
  BY QueryType DEF AtRest
<1> HIDE DEF AtRest
<1> QED
  BY <1>1, <1>2, QueryPcs

\* The answer to a query touches its own coroutine only; "no" puts it to rest.
LEMMA AnsweredPcs ==
  ASSUME query \in [Nodes -> [Loops -> Queries]], NEW n \in Nodes, NEW l \in Loops
  PROVE  /\ Answered(n, l, TRUE) =>
              \A m \in Nodes, k \in Loops : m # n => query'[m][k].pc = query[m][k].pc
         /\ Answered(n, l, FALSE) =>
              \A m \in Nodes, k \in Loops :
                query'[m][k].pc = IF m = n /\ k = l THEN "sleep" ELSE query[m][k].pc
<1>1. ASSUME Answered(n, l, TRUE)
      PROVE  \A m \in Nodes, k \in Loops : m # n => query'[m][k].pc = query[m][k].pc
  <2>1. CASE l = "clean"
    <3>1. query' = [query EXCEPT ![n][l] = [AtRest EXCEPT !.pc = "cleaning"]]
      BY <1>1, <2>1 DEF Answered
    <3> QED
      BY <3>1
  <2>2. CASE l # "clean"
    <3>1. Rest(n, l)
      BY <1>1, <2>2 DEF Answered
    <3> QED
      BY <3>1, RestPcs
  <2> QED
    BY <2>1, <2>2
<1>2. ASSUME Answered(n, l, FALSE)
      PROVE  \A m \in Nodes, k \in Loops :
                query'[m][k].pc = IF m = n /\ k = l THEN "sleep" ELSE query[m][k].pc
  <2>1. Rest(n, l)
    BY <1>2 DEF Answered
  <2> QED
    BY <2>1, RestPcs
<1> QED
  BY <1>1, <1>2

\* Every step keeps LeaderInv.
LEMMA NextLeaderInv ==
  ASSUME TimelyRenewal = TRUE, MaxWait < TTL, TypeOK, LeaderInv, [Next]_vars
  PROVE  LeaderInv'
<1>a. /\ leader \in [id : Nodes \union {None}, age : 0 .. Oldest]
      /\ process \in [Nodes -> {"up", "stopping", "down"}]
      /\ believes \in [Nodes -> BOOLEAN]
      /\ query \in [Nodes -> [Loops -> Queries]]
  BY DEF TypeOK, Queries, Pcs
<1>b. /\ TTL \in Nat \ {0} /\ MaxWait \in Nat /\ None \notin Nodes
      /\ "keep" \in Loops /\ "clean" \in Loops /\ "keep" # "clean"
  BY ElectionAssumption DEF Loops
<1>c. \A n \in Nodes, l \in Loops : query[n][l].since \in Nat /\ query[n][l].since < TTL
  BY <1>a, <1>b DEF Queries
\* A step that leaves row and processes alone and lets nobody act anew.
<1>d. ASSUME UNCHANGED <<leader, process>>, \A n \in Nodes : Acts(n)' => Acts(n)
      PROVE  LeaderInv'
  BY <1>d DEF LeaderInv
<1>1. ASSUME NEW n \in Nodes, Wakes(n) PROVE LeaderInv'
  <2>1. PICK pc \in {"select", "acquire"} : Goto(n, "keep", pc)
    BY <1>1 DEF Wakes
  <2>2. \A m \in Nodes, k \in Loops :
          query'[m][k].pc = IF m = n /\ k = "keep" THEN pc ELSE query[m][k].pc
    BY <2>1, <1>a, <1>b, GotoPcs DEF Pcs
  <2> QED
    BY <1>1, <2>1, <2>2, <1>d DEF Wakes, Acts
<1>2. ASSUME NEW n \in Nodes, AsksIsLeader(n) PROVE LeaderInv'
  <2>1. \A m \in Nodes, k \in Loops :
          query'[m][k].pc = IF m = n /\ k = "clean" THEN "select" ELSE query[m][k].pc
    BY <1>2, <1>a, <1>b, GotoPcs DEF AsksIsLeader, Pcs
  <2> QED
    BY <1>2, <2>1, <1>d DEF AsksIsLeader, Acts
<1>3. ASSUME NEW n \in Nodes, Acquires(n) PROVE LeaderInv'
  <2>1. \A m \in Nodes, k \in Loops :
          query'[m][k].pc = IF m = n /\ k = "keep" THEN "sleep" ELSE query[m][k].pc
    BY <1>3, <1>a, <1>b, RestPcs DEF Acquires
  <2>2. process' = process /\ process[n] # "down"
    BY <1>3 DEF Acquires, At
  <2>3. CASE leader.id \in {None, n} \/ Expired(query[n]["keep"].since)
    \* The process in the row, if there is one and it is not n, is down.
    <3>1. \A m \in Nodes : Acts(m) => m = n
      BY <2>3, <1>a, <1>b, <1>c DEF LeaderInv, Expired, Oldest
    <3>2. leader' = [id |-> n, age |-> query[n]["keep"].since]
      BY <1>3, <2>3, <1>a DEF Acquires, StoredAge
    <3>3. \A m \in Nodes : Acts(m)' => m = n
      BY <1>3, <2>1, <3>1, <1>a DEF Acquires, Acts
    <3> QED
      BY <2>2, <3>2, <3>3, <1>b, <1>c DEF LeaderInv
  <2>4. CASE ~(leader.id \in {None, n} \/ Expired(query[n]["keep"].since))
    <3>1. leader' = leader /\ believes' = believes
      BY <1>3, <2>4 DEF Acquires
    <3> QED
      BY <2>1, <2>2, <3>1, <1>d DEF Acts
  <2> QED
    BY <2>3, <2>4
<1>4. ASSUME NEW n \in Nodes, NEW l \in Loops, RenewSelect(n, l) PROVE LeaderInv'
  <2>1. leader' = leader /\ process' = process /\ process[n] # "down"
    BY <1>4 DEF RenewSelect, At
  <2>2. CASE leader.id = n
    <3>1. \A m \in Nodes, k \in Loops :
            query'[m][k].pc = IF m = n /\ k = l THEN "update" ELSE query[m][k].pc
      BY <1>4, <2>2, <1>a, GotoPcs DEF RenewSelect, Pcs
    <3>2. \A m \in Nodes : Acts(m)' => Acts(m) \/ m = n
      BY <1>4, <2>2, <3>1 DEF RenewSelect, Acts
    <3> QED
      BY <2>1, <2>2, <3>2 DEF LeaderInv
  <2>3. CASE leader.id # n
    <3>1. Answered(n, l, FALSE)
      BY <1>4, <2>3 DEF RenewSelect
    <3>2. \A m \in Nodes, k \in Loops :
            query'[m][k].pc = IF m = n /\ k = l THEN "sleep" ELSE query[m][k].pc
      BY <3>1, <1>a, AnsweredPcs
    <3>3. \A m \in Nodes : believes'[m] => believes[m]
      BY <3>1, <1>a DEF Answered
    <3> QED
      BY <2>1, <3>2, <3>3, <1>d DEF Acts
  <2> QED
    BY <2>2, <2>3
<1>5. ASSUME NEW n \in Nodes, NEW l \in Loops, RenewUpdate(n, l) PROVE LeaderInv'
  <2>1. process' = process /\ process[n] # "down" /\ Answered(n, l, TRUE) /\ Acts(n)
    BY <1>5 DEF RenewUpdate, At, Acts
  <2>2. leader.id = n
    BY <2>1 DEF LeaderInv
  <2>3. leader' = [leader EXCEPT !.age = query[n][l].since]
    BY <1>5, <2>2, <1>b DEF RenewUpdate, StoredAge
  <2>4. \A m \in Nodes : Acts(m)' => Acts(m) \/ m = n
    <3>1. \A m \in Nodes, k \in Loops : m # n => query'[m][k].pc = query[m][k].pc
      BY <2>1, <1>a, AnsweredPcs
    <3>2. \A m \in Nodes : m # n => believes'[m] = believes[m]
      BY <2>1, <1>a DEF Answered
    <3> QED
      BY <3>1, <3>2 DEF Acts
  <2>5. leader'.id = n /\ leader'.age < TTL
    BY <2>2, <2>3, <1>a, <1>c
  <2> QED
    BY <2>1, <2>2, <2>4, <2>5 DEF LeaderInv
<1>6. ASSUME NEW n \in Nodes, NEW l \in Loops,
             QueryRaises(n, l) \/ (l = "clean" /\ (CleanupEnds(n) \/ StopCleaning(n)))
      PROVE  LeaderInv'
  <2>1. Rest(n, l) /\ believes' = believes /\ leader' = leader
    BY <1>6 DEF QueryRaises, CleanupEnds, StopCleaning
  <2>2. \A m \in Nodes, k \in Loops :
          query'[m][k].pc = IF m = n /\ k = l THEN "sleep" ELSE query[m][k].pc
    BY <2>1, <1>a, RestPcs
  <2>3. \A m \in Nodes : Acts(m)' => Acts(m)
    BY <2>1, <2>2 DEF Acts
  <2>4. \A m \in Nodes : process'[m] = "down" <=> process[m] = "down"
    BY <1>6, <1>a DEF QueryRaises, CleanupEnds, StopCleaning
  <2> QED
    BY <2>1, <2>3, <2>4 DEF LeaderInv
<1>7. ASSUME NEW n \in Nodes, CleanupDies(n) PROVE LeaderInv'
  <2>1. \A m \in Nodes, k \in Loops :
          query'[m][k].pc = IF m = n /\ k = "clean" THEN "dead" ELSE query[m][k].pc
    BY <1>7, <1>a, <1>b, GotoPcs DEF CleanupDies, Pcs
  <2> QED
    BY <1>7, <2>1, <1>d DEF CleanupDies, Acts
<1>8. ASSUME NEW n \in Nodes, StopAll(n) \/ Crash(n) PROVE LeaderInv'
  <2>1. Down(n)
    BY <1>8 DEF StopAll, Crash
  <2>2. \A m \in Nodes : Acts(m)' => Acts(m) /\ m # n
    BY <2>1, <1>a DEF Down, Acts, AtRest
  <2>3. \A m \in Nodes : process'[m] = IF m = n THEN "down" ELSE process[m]
    BY <2>1, <1>a DEF Down
  <2>4. leader' = leader \/ (leader.id = n /\ leader'.id = None)
    BY <1>8 DEF StopAll, Crash, NoRow
  <2> QED
    BY <2>2, <2>3, <2>4, <1>b DEF LeaderInv
<1>9. CASE Tick
  <2>1. \A m \in Nodes : Acts(m)' => Acts(m)
    BY <1>9, <1>a DEF Tick, Acts
  <2>2. leader'.id = leader.id /\ process' = process
    BY <1>9, <1>a DEF Tick
  <2>3. ASSUME NEW m \in Nodes, leader.id = m, process[m] # "down" PROVE leader'.age < TTL
    <3>1. leader.age + 1 < TTL
      BY <1>9, <2>3, <1>a, <1>b DEF Tick, Lapses, Oldest
    <3>2. leader'.age <= leader.age + 1
      BY <1>9, <2>3, <1>a, <1>b DEF Tick, Oldest
    <3>3. leader.age \in Int /\ leader'.age \in Int
      BY <1>9, <1>a, <1>b DEF Tick, Oldest
    <3> QED
      BY <3>1, <3>2, <3>3, <1>b
  <2> QED
    BY <2>1, <2>2, <2>3 DEF LeaderInv
<1>10. CASE UNCHANGED vars
  BY <1>10, <1>d DEF vars, Acts
<1> QED
  BY <1>1, <1>2, <1>3, <1>4, <1>5, <1>6, <1>7, <1>8, <1>9, <1>10, <1>b
     DEF Next, KeepStep, CleanStep, Raises

\* LeaderInv holds whenever a renewal comes in time.
LEMMA LeaderInvHolds ==
  ASSUME TimelyRenewal = TRUE, MaxWait < TTL PROVE Spec => [](TypeOK /\ LeaderInv)
<1>1. Init => TypeOK /\ LeaderInv
  BY InitTypeOK, InitLeaderInv
<1>2. TypeOK /\ LeaderInv /\ [Next]_vars => (TypeOK /\ LeaderInv)'
  BY NextTypeOK, NextLeaderInv
<1> QED
  BY <1>1, <1>2, PTL DEF Spec

\* Leaders that renew in time, with queries shorter than the TTL: two
\* processes are never in their cleanup at the same time, though renew_leader
\* is no transaction and the clocks are read before the locks are taken.
THEOREM OneCleaner ==
  ASSUME TimelyRenewal = TRUE, MaxWait < TTL PROVE Spec => []SingleCleaner
<1>1. LeaderInv => SingleCleaner
  BY DEF LeaderInv, SingleCleaner, Cleaning, Acts, Loops
<1> QED
  BY <1>1, LeaderInvHolds, PTL

\* Under the same conditions nobody believes in a leadership that the table
\* gives to somebody else.
THEOREM BelieversAreRight ==
  ASSUME TimelyRenewal = TRUE, MaxWait < TTL PROVE Spec => []BelieverHoldsRow
<1>1. LeaderInv => BelieverHoldsRow
  BY DEF LeaderInv, BelieverHoldsRow, Acts
<1> QED
  BY <1>1, LeaderInvHolds, PTL
=============================================================================
