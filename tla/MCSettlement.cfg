SPECIFICATION FairPayoutSpec
CONSTANTS
  Jobs = {1, 2}
  Price <- Price11And25
  Fixers = {f1, f2}
  FixerOf <- PayeeFirst
  Payee = f1
  Disputable = {1}
  Calls = {c1, c2}
  PlatformWallets = {w1, w2}
  Requests = {r1}
  Amounts = {4, 10}
  None = None
INVARIANTS
  TypeOK
  CompletedIsPaid
  StatusFollowsDispute
  RequestedIsPending
  OnlyResolutionsDeadlock
  MoneyAccounted
PROPERTIES
  BooksImplemented
  TransactionsEnd
CHECK_DEADLOCK FALSE
