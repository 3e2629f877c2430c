SPECIFICATION FairSpec
CONSTANTS
  Fixers = {f1, f2}
  Prices = {p1}
  References = {r1, r2}
  Callbacks = {d1}
  Calls = {c1}
  None = None
PROPERTIES
  ExpiryReleasesJob
CHECK_DEADLOCK FALSE
