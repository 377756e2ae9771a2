\* Two overlapping requests at a server, a second process, kills and I/O errors.
CONSTANTS
  p1 = p1
  p2 = p2
  c1 = c1
  c2 = c2
  Process = {p1, p2}
  Client = {c1, c2}
  Record = {r1, r2, r3}
  Host <- SharedServer
  Faults = {"kill", "io"}
SPECIFICATION Spec
SYMMETRY Symmetry
INVARIANTS
  TypeOK
  UndisturbedStoreKeepsAcked
PROPERTIES
  SoloPersistHeals
  ImplementsDurableStore
CHECK_DEADLOCK FALSE
