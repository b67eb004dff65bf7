SPECIFICATION Spec
CONSTANTS
  None = None
  AnyIssuer = AnyIssuer
  Star = Star
  Default = Default
  Malformed = Malformed
  A = A
  B = B
  Api = Api
  Admin = Admin
  Own = Own
  Foreign = Foreign
  WellKnown = WellKnown
  Reader = Reader
  Writer = Writer
  Length <- MCLength
  Paths <- MCPaths
  Addresses = {Own, Foreign, WellKnown}
  Environments <- WellKnownEnvironments
  Requests <- MCRequests
  Tokens <- MCTokens
  Roles = {Reader, Writer}
INVARIANT
  SignInHasVerifier
CHECK_DEADLOCK FALSE
