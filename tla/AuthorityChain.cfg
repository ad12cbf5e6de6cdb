CONSTANTS
  Humans = {human}
  Agents = {a1, a2}
  Grants = {g1, g2, g3}
  NoGrant = NoGrant
  Actions = {x1}
  Wildcard = Wildcard
  Keys = {amount}
  Absent = Absent
  Text = Text
  NaN = NaN
  pay = pay
  look = look
  amount = amount
  Scopes <- SomeScopes
  Calls <- SomeCalls
  Ttls = {1, 2}
  MaxTime = 1
  MaxRevocations = 1
  MaxRoots = 1
  MaxChainDepth = 2
SPECIFICATION Spec
SYMMETRY Renamed
CHECK_DEADLOCK FALSE
INVARIANTS
  AuthorityNarrows
  RevokedNeverActs
  IssuedGrantsVerify
