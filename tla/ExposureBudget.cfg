CONSTANTS
  grant = grant
  session = session
  wire = wire
  payment = payment
  refund = refund
  Grants = {grant}
  Sessions = {session}
  Actions = {wire, payment, refund}
  GrantOf <- OneGrant
  SessionOf <- OneSession
  KindOf <- Kind
  RiskOf <- Risk
  ResidueOf <- Residue
  AmountOf <- Amount
  Ceiling = 14000
  Limit = 2
  MaxInFlight = 2
  MaxConfirms = 2
SPECIFICATION Spec
SYMMETRY Interchangeable
INVARIANTS
  SerialWithinCeiling
  OvershootBounded
  BooksBalance
