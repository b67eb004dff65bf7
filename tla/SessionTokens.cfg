SPECIFICATION SessionSpec
CONSTANTS
  None = None
  AnyIssuer = AnyIssuer
  Client = Client
  Provider = Provider
  Nonce = Nonce
  OtherNonce = OtherNonce
  Alice = Alice
  Bob = Bob
  Role1 = Role1
  Role2 = Role2
  Now = Now
  Today = Today
  IdTokens <- MCIdTokens
  Principals <- MCPrincipals
INVARIANTS
  SessionTypeOK
  IdentityIsKept
  RolesFollowIdToken
CHECK_DEADLOCK FALSE
