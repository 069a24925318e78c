\* Everything happens.
SPECIFICATION FairSpec
CONSTANTS
  j1 = j1
  j2 = j2
  id1 = id1
  id2 = id2
  w1 = w1
  w2 = w2
  x = x
  l1 = l1
  l2 = l2
  l3 = l3
  l4 = l4
  l5 = l5
  None = None
  Jobs = {j1, j2}
  DependsOn <- MCDependsOn
  Workers = {w1, w2}
  WorkerId <- MCWorkerId
  LeaseIds = {l1, l2, l3, l4, l5}
  Codes = {x}
  MaxRetries <- MCMaxRetries
  Threshold = 2
  RequireToken = TRUE
  Environment = {"crash", "late"}
  Managed = {j1}
INVARIANTS
  TypeOK
  HandlerRunsAfterDependencies
PROPERTIES
  OnlyHolderSettles
  SettledIsFinal
  ImplementsLeasedJobs
  DependentsEnd
  ReadyJobsEnd
