\* Two overlapping calls, one onboarding and three handoffs.
SPECIFICATION Spec
CONSTANTS
  c1 = c1
  c2 = c2
  squad = squad
  chief = chief
  boss = boss
  founder = founder
  marketing = marketing
  operations = operations
  Caller = {c1, c2}
  Agent = {squad, chief, boss, founder}
  Sector = {marketing, operations}
  Enabled = {marketing}
  Seed <- MCSeed
  Position <- MCPosition
  MaxCreated = 1
  MaxHandoffs = 3
  MaxAgentId = 5
  MaxAnswers = 2
  MaxLost = 1
SYMMETRY Symmetry
INVARIANTS
  TypeOK
  OneReplacementEach
  EscalationsAreWhole
  EscalationsClimb
  NobodyPausedIsAddressed
  AuditTrailIsComplete
CHECK_DEADLOCK FALSE
