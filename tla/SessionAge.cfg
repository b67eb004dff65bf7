SPECIFICATION Spec
CONSTANTS
  MaxU64 = 4
  MaxI64 = 3
  Never = Never
  Expiries <- MCExpiries
INVARIANTS
  TypeOK
  UsableSessionIsSent
  SentSessionIsUsable
  ServedTokensAreValid
  SkewEndsNoSession
PROPERTIES
  FreshnessOnlyDecays
CHECK_DEADLOCK FALSE
