\* One mission, two overlapping requests, everything may fail.
CONSTANTS
  Caller = {c1, c2}
  Queue = {q1}
  RetryLimit <- OneRetry
  Mission = {x1}
  MaxJobs = 3
  MaxBatch = 1
  Faults = {"refused", "lost", "io"}
SPECIFICATION Spec
INVARIANTS
  TypeOK
  RunLogMatchesQueue
  OutcomesAreRecorded
  SuccessIsReal
  DuplicatesAreBounded
PROPERTIES
  ImplementsQueue
  ProjectionSettles
  RequestsReturn
CHECK_DEADLOCK FALSE
