SPECIFICATION Spec
CONSTANTS
  Fixers = {f1, f2}
  Prices = {p1, p2}
  Calls = {c1, c2}
  None = None
SYMMETRY Symmetry
INVARIANTS
  TypeOK
  AttemptFollowsJob
  OneOpenAgreement
  OnlyPaymentDeadlocks
PROPERTIES
  ImplementsDeals
CHECK_DEADLOCK FALSE
