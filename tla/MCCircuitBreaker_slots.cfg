\* Both processes use the breaker through call, and may be restarted.
SPECIFICATION FairSpec
CONSTANTS
  p1 = p1
  p2 = p2
  c1 = c1
  c2 = c2
  None = None
  Procs = {p1, p2}
  Calls = {c1, c2}
  ProcOf <- MCProcOf
  Gated = {c1, c2}
  LeaseIds = {1, 2, 3}
  FailureThreshold = 2
  SuccessThreshold = 2
  MaxProbes = 1
  MaxAttempts = 2
  Environment = {"crash"}
PROPERTIES
  ProbeSlotsRecover
