CONSTANTS
  Entries = {a1, a2}
  write = write
  open = open
  root = root
  child = child
  a1 = a1
  a2 = a2
  r1 = r1
  r2 = r2
  Tools = {write}
  Registered = {write}
  SpecOf <- Guarded
  Gates = {open}
  MaxSteps = 1
  MaxTime = 2
  MaxCommits = 1
  MaxRuns = 3
  HookAnswers = {"reversible"}
  Delegations = {root, child}
  ParentOf <- Tree
  Responders = {r1, r2}
  MaxScope = 3
SPECIFICATION CSpec
CHECK_DEADLOCK FALSE
INVARIANTS
  ContainedMeansUndone
  RevokedAuthorityNeverActs
  OnlyInFlightEscapes
  UndoneOnceInOrder
PROPERTY
  CascadesEnd
