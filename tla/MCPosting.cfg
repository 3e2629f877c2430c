SPECIFICATION Spec
CONSTANTS
  References = {r1, r2, r3}
  Calls = {c1, c2}
  None = None
SYMMETRY Symmetry
INVARIANTS
  TypeOK
  PublishedAfterPayment
  ListedAsPaid
PROPERTIES
  FlagOutlivesReports
  SuccessIsKept
CHECK_DEADLOCK FALSE
