\* Two processes share a breaker; everything happens.
SPECIFICATION LockSpec
CONSTANTS
  p1 = p1
  p2 = p2
  c1 = c1
  c2 = c2
  None = None
  Procs = {p1, p2}
  Calls = {c1, c2}
  ProcOf <- MCProcOf
  Gated = {c1}
  LeaseIds = {1, 2, 3}
  FailureThreshold = 2
  SuccessThreshold = 2
  MaxProbes = 1
  MaxAttempts = 2
  Environment = {"crash", "late", "reset", "force"}
INVARIANTS
  TypeOK
  SyncedMatchesStore
PROPERTIES
  AdmittedWhenClosed
  OpenIsSticky
  ReportsAreDeltas
  LockIsReleased
