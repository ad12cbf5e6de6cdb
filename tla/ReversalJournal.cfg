CONSTANTS
  Entries = {e1}
  post = post
  write = write
  upload = upload
  lookup = lookup
  command = command
  period = period
  versioned = versioned
  Tools <- AllTools
  Registered <- HeldByRegistry
  SpecOf <- SpecTable
  Captures <- CapturingTools
  Gates = {period, versioned}
  MaxSteps = 3
  MaxTime = 3
  MaxCommits = 2
  MaxRuns = 3
SPECIFICATION HFairSpec
INVARIANTS
  StepsInOrder
  ArgumentsBound
  UndoesAreWhole
  ViewsTellTruth
PROPERTIES
  ImplementsUndoRights
  DeadlinesHold
