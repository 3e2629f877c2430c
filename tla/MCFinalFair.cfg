SPECIFICATION FairSpec
CONSTANTS
  Fixers = {f1}
  Prices = {p1}
  References = {r1, r2, r3}
  Callbacks = {d1}
  Calls = {c1, c2}
  None = None
PROPERTIES
  InProgressNeverReset
  OverdueResolved
CHECK_DEADLOCK FALSE
