\* Two overlapping requests, a task that is seeded and whose page comes later.
CONSTANTS
  story = story
  other = other
  task = task
  ps = ps
  po = po
  pt = pt
  None = None
  Caller = {c1, c2}
  Item = {story, other, task}
  Page = {ps, po, pt}
  RuntimeId <- Names
  Kind <- Databases
  ParentPage <- Relations
  Seeded = {task}
  SeedPage <- NoLinks
  SeedParent <- NoLinks
  SeedNeeds = {}
  Seeds <- Gates
  Decision = {"approved"}
  Verdict = {"warning"}
  ReadyPlans = {0, 2, 3}
  PageSize = 1
  MaxEdits = 3
  MaxRequests = 3
SPECIFICATION Spec
PROPERTIES
  ManualRefinementStays
CHECK_DEADLOCK FALSE
