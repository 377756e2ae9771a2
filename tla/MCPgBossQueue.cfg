\* Two executions, two requests for dead letters.
CONSTANTS
  Caller = {c1, c2}
  Execution = {e1, e2}
  Queue = {q1}
  RetryLimit <- Limits
  Payload = {x1}
  MaxJobs = 4
  MaxBatch = 2
  MaxRetries = 2
SPECIFICATION Spec
INVARIANTS
  TypeOK
  OverlapsNeedExpiry
  AttemptBudget
  RepeatsHaveACause
PROPERTIES
  EntriesLeaveAfterTheirReplay
  ImplementsWorkQueue
  WorkSettles
CHECK_DEADLOCK FALSE
