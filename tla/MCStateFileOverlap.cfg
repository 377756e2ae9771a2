\* Two requests overlap at one server; nothing fails and nobody is killed.
CONSTANTS
  p1 = p1
  p2 = p2
  c1 = c1
  c2 = c2
  Process = {p1}
  Client = {c1, c2}
  Record = {r1, r2, r3}
  Host <- SharedServer
  Faults = {}
SPECIFICATION Spec
INVARIANTS
  AckedSurvivesRestart
CHECK_DEADLOCK FALSE
