CONSTANTS
  pay = pay
  grant = grant
  cron = cron
  ops = ops
  status = status
  owner = owner
  prod = prod
  test = test
  Tools = {pay, grant}
  Operators = {ops}
  Scheduler = cron
  Fields = {status, owner}
  WorldsOf <- Surroundings
  StaleAfter = 5
  RefreshAt = 2
  MaxBatch = 2
  Period = 1
  MaxChanges = 1
  MaxManual = 1
  MaxTroubles = 1
  MaxDowntime = 1
  Targets = {prod, test}
  Verdicts = {"passed", "partial", "not_drillable"}
  MaxSuites = 3
SPECIFICATION FairSpec
INVARIANTS
  ProofsStayFreshAndToldRight
  RegisterKeepsProofs
  CleanReportsKeepProofs
PROPERTIES
  VerdictsFollowTheWorld
