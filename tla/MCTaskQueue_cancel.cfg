\* One worker, one cancel_task call, no other failure.
SPECIFICATION Spec
CONSTANTS
  k = k
  c1 = c1
  t1 = t1
  t2 = t2
  t3 = t3
  w1 = w1
  w2 = w2
  default = default
  None = None
  Tasks = {t1}
  Workers = {w1}
  Cancellers = {c1}
  LeaseIds = {1, 2, 3, 4, 5}
  Queues = {default}
  QueueOf <- MCQueueOf
  Serves <- MCServes
  DependsOn <- MCDependsOn
  Priority <- MCPriority
  Key <- MCKey
  MaxRetries = 1
  Environment = {}
  TimelyWork = TRUE
PROPERTIES
  OutcomeIsFinal
