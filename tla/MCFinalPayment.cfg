SPECIFICATION Spec
CONSTANTS
  Fixers = {f1, f2}
  Prices = {p1, p2}
  References = {r1, r2}
  Callbacks = {d1, d2}
  Calls = {c1}
  None = None
SYMMETRY Symmetry
INVARIANTS
  TypeOK
  StartedAsAgreed
  StartedAfterPayment
  AttemptsAreAgreed
PROPERTIES
  TerminalIsFinal
CHECK_DEADLOCK FALSE
