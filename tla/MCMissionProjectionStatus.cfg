\* The flow of a mission starts before a replayed projection is done.
CONSTANTS
  Caller = {c1, c2}
  Queue = {q1}
  RetryLimit <- OneRetry
  Mission = {x1}
  MaxJobs = 3
  MaxBatch = 1
  Faults = {"refused"}
SPECIFICATION Spec
PROPERTIES
  ExecutionIsNotReverted
CHECK_DEADLOCK FALSE
