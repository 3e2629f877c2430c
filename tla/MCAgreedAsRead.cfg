SPECIFICATION Spec
CONSTANTS
  Fixers = {f1}
  Prices = {p1, p2}
  Calls = {c1, c2}
  None = None
PROPERTIES
  AgreedAsRead
CHECK_DEADLOCK FALSE
