CONSTANTS
  a = a
  b = b
  grant = grant
  Actors = {a, b}
  Grants = {grant}
  Calls = {c1, c2, c3}
  Requests <- SomeRequests
  RogueStrikes = 2
  FanoutLimit = 2
  BurstCount = 2
  FatigueWindow = 1
  LowRisk = 0
  HighRisk = 2
  MaxTime = 1
  MaxTroubles = 1
SPECIFICATION Spec
SYMMETRY Identical
CHECK_DEADLOCK FALSE
INVARIANTS
  QuarantineIsSound
  DetectorsCount
  JournalMatchesAnswer
