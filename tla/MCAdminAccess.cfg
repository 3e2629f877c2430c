SPECIFICATION Spec
CONSTANTS
  Admins = {a1}
  SuperAdmins = {a1}
  Others = 1
  Sessions = {s1, s2}
  Calls = {c1, c2}
  LockAfter = 2
  MaxVersion = 3
  MaxTokens = 3
  None = None
SYMMETRY Symmetry
INVARIANTS
  TypeOK
  WithdrawnStaysOut
  LockoutIsBounded
CHECK_DEADLOCK FALSE
