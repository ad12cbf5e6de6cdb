CONSTANTS
  t1 = t1
  t2 = t2
  t3 = t3
  p1 = p1
  p2 = p2
  j1 = j1
  NoThread = NoThread
  Processes = {p1, p2}
  Threads = {t1, t2, t3}
  ProcessOf <- SharedFile
  Ids = {j1}
  MaxRows = 3
  MaxCrashes = 1
  DiskFails = TRUE
SPECIFICATION LSpec
CHECK_DEADLOCK FALSE
INVARIANTS
  ChainSound
  JournalIsBacked
  PublishedHeadsHold
PROPERTIES
  ImplementsEvidenceLog
