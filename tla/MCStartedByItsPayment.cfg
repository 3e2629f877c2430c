SPECIFICATION Spec
CONSTANTS
  Fixers = {f1, f2}
  Prices = {p1}
  References = {r1, r2}
  Callbacks = {d1}
  Calls = {c1}
  None = None
INVARIANTS
  StartedByItsPayment
CHECK_DEADLOCK FALSE
