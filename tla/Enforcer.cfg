CONSTANTS
  Requests = {q1, q2, q3, q4, q5}
  Torn = torn
  MaxSize = 3
  MaxFaults = 1
  MaxRestarts = 1
  MaxClaimed = 4
  MaxPath = 3
  MaxGrown = 17
SPECIFICATION AuditSpec
SYMMETRY Alike
CHECK_DEADLOCK FALSE
INVARIANTS
  BooksAgree
  HonestAnswersHold
  ForgedProofsFail
