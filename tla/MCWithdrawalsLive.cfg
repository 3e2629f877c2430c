SPECIFICATION LiveSpec
CONSTANTS
  Earnings = {1, 2}
  Withdrawals = {w1, w2, w3}
  Payouts = {2}
  Amounts = {1, 2}
  Admins = {a1}
  None = None
PROPERTIES
  TransactionsEnd
CHECK_DEADLOCK FALSE
