SPECIFICATION Spec
CONSTANTS
  Earnings = {1, 2}
  Withdrawals = {w1, w2, w3}
  Payouts = {1, 2}
  Amounts = {1, 2}
  Admins = {a1, a2}
  None = None
SYMMETRY Symmetry
INVARIANTS
  TypeOK
  EarningsConserved
  WithdrawalsBacked
  NothingHidden
  DeadlockNeedsReview
PROPERTIES
  ImplementsBook
  DecisionsAreFinal
CHECK_DEADLOCK FALSE
