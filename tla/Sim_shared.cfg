SPECIFICATION Spec
CONSTANTS
  WAD = 4
  BPS = 4
  YEAR = 3
  Main = "main"
  Siblings = {"sib"}
  Holders = {"h1", "h2"}
  Params <- MCParams
  Collateral = 3
  Amounts = {2}
  SiblingAmount = 2
  SquaredReturns = {0, 3}
  ExitShares = {1, 2}
  MaxSamples = 1
  Expiry = 2
INVARIANTS
  NeverThrows
  Accounted
PROPERTY
  ImplementsEscrow
CHECK_DEADLOCK FALSE
