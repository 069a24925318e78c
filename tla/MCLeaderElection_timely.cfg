\* A running leader renews in time; the other process may stop or die.
SPECIFICATION FairSpec
CONSTANTS
  n1 = n1
  n2 = n2
  None = None
  Nodes = {n1, n2}
  Mortal = {n1}
  TTL = 3
  MaxWait = 1
  TimelyRenewal = TRUE
INVARIANTS
  TypeOK
  SingleCleaner
  BelieverHoldsRow
PROPERTIES
  SomebodyCleans
