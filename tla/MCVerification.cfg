SPECIFICATION Spec
CONSTANTS
  Users = {u1, u2}
  Nins = {n1, n2}
  People = {p1}
  FaceIds = {i1, i2}
  Calls = {c1, c2}
  Requests = {{}, {"selfie"}}
  None = None
SYMMETRY Symmetry
INVARIANTS
  TypeOK
  FacesAreKept
  OneAccountPerNin
CHECK_DEADLOCK FALSE
