\* Three calls, two of them at a time, of two flows; one onboarding, one change of gates.
SPECIFICATION Spec
CONSTANTS
  marketing = marketing
  sales = sales
  chief = chief
  boss = boss
  demand = demand
  Call = {n1, n2, n3}
  Flow = {marketing, sales}
  Needs <- MCNeeds
  Slug = {chief, boss}
  Seed <- MCSeed
  Sector = {demand}
  Enabled <- MCEnabled
  Built <- MCBuilt
  SeedGates <- MCSeedGates
  GateInput <- MCGateInput
  GateKey = {"first", "second"}
  Position <- MCPosition
  MaxRunning = 2
  MaxEdits = 1
  MaxAgentId = 3
SYMMETRY Symmetry
INVARIANTS
  TypeOK
  OneOfEach
  SeededInOrder
  ExecutionIsSeeded
  GatesInForceAreAsked
CHECK_DEADLOCK FALSE
