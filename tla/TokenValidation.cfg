SPECIFICATION Spec
CONSTANTS
  None = None
  AnyIssuer = AnyIssuer
  Issuer = Issuer
  Audience = Audience
  Other = Other
  Alice = Alice
  Bob = Bob
  Scope = Scope
  Role1 = Role1
  Role2 = Role2
  Configs <- MCConfigs
  Tokens <- MCTokens
  Claims <- MCClaims
  Introspections <- MCIntrospections
  MaxClock = 3
INVARIANTS
  TypeOK
  AcceptedWasVouched
  IdTokenIsNoAccessToken
  RolesFromOneSource
CHECK_DEADLOCK FALSE
