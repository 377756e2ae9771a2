\* Two overlapping calls, work that is retried once.
CONSTANTS
  q1 = q1
  q2 = q2
  Caller = {c1, c2}
  Queue = {q1, q2}
  RetryLimit <- Limits
  Payload = {x1, x2}
  MaxJobs = 5
  MaxBatch = 2
SPECIFICATION Spec
SYMMETRY Symmetry
INVARIANTS
  TypeOK
  ExclusiveExecution
  AttemptBudget
  ReplayOnlyOnRequest
PROPERTIES
  ImplementsWorkQueue
CHECK_DEADLOCK FALSE
