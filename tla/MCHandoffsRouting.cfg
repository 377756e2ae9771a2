\* An escalation that is under way while its target is onboarded anew.
SPECIFICATION Spec
CONSTANTS
  c1 = c1
  c2 = c2
  squad = squad
  chief = chief
  boss = boss
  founder = founder
  marketing = marketing
  operations = operations
  Caller = {c1, c2}
  Agent = {squad, chief, boss, founder}
  Sector = {marketing, operations}
  Enabled = {marketing}
  Seed <- MCSeed
  Position <- MCPosition
  MaxCreated = 1
  MaxHandoffs = 2
  MaxAgentId = 5
  MaxAnswers = 0
  MaxLost = 0
PROPERTIES
  OnlyEnabledAgentsAreSent
CHECK_DEADLOCK FALSE
