\* Shutdown while the timer flushes.
SPECIFICATION Spec
CONSTANTS
  a = a
  b = b
  c = c
  k = k
  None = None
  Tasks = {a, b, c}
  Key <- MCKey
  FlushSize = 2
  CloseAttempts = 3
  MaxStarts = 1
  Calm = FALSE
INVARIANTS
  AcceptedIsKept
CHECK_DEADLOCK FALSE
