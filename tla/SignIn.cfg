SPECIFICATION Spec
CONSTANTS
  Browsers = {b1, b2}
  Requests = {r1, r2, r3, r4}
  NoBrowser = NoBrowser
  NoRequest = NoRequest
  KeyConfigured = FALSE
  MaxRestarts = 1
SYMMETRY MCSymmetry
INVARIANTS
  TypeOK
  OwnSignIn
PROPERTIES
  SignInFailsForCause
CHECK_DEADLOCK FALSE
