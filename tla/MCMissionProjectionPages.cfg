\* The answer of Notion is lost and the projection is repeated.
CONSTANTS
  Caller = {c1, c2}
  Queue = {q1}
  RetryLimit <- OneRetry
  Mission = {x1}
  MaxJobs = 3
  MaxBatch = 1
  Faults = {"lost"}
SPECIFICATION Spec
INVARIANTS
  OnePagePerMission
CHECK_DEADLOCK FALSE
