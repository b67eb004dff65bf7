SPECIFICATION Spec
CONSTANTS
  None = None
  AnyIssuer = AnyIssuer
  Star = Star
  Default = Default
  Malformed = Malformed
  A = A
  B = B
  Api = Api
  Admin = Admin
  Own = Own
  Foreign = Foreign
  WellKnown = WellKnown
  Reader = Reader
  Writer = Writer
  Length <- MCLength
  Paths <- MCPaths
  Addresses = {Own, Foreign, WellKnown}
  Environments <- MCEnvironments
  Requests <- MCRequests
  Tokens <- MCTokens
  Roles = {Reader, Writer}
INVARIANTS
  TypeOK
  HandlerKnowsTheCaller
  TokenDecidesAlone
  TokenIsOfTenantsIssuer
  PathTenantIsMostSpecific
CHECK_DEADLOCK FALSE
