\* Failing statements, crashes, shutdowns and restarts; no flush is cancelled.
SPECIFICATION FairSpec
CONSTANTS
  a = a
  b = b
  c = c
  k = k
  None = None
  Tasks = {a, b, c}
  Key <- MCKey
  FlushSize = 2
  CloseAttempts = 3
  MaxStarts = 3
  Calm = TRUE
INVARIANTS
  TypeOK
  AcceptedIsKept
  StoredInOrder
  ClosedIsEmpty
PROPERTIES
  ImplementsIntake
  PromisesAreSettled
CHECK_DEADLOCK FALSE
