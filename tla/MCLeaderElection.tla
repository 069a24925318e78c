-------------------------- MODULE MCLeaderElection --------------------------
(* LeaderElection with two processes, one of which may stop or die.        *)
EXTENDS LeaderElection

CONSTANTS n1, n2
=============================================================================
