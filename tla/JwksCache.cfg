SPECIFICATION Spec
CONSTANTS
  k1 = k1
  k2 = k2
  k3 = k3
  k4 = k4
  r1 = r1
  r2 = r2
  r3 = r3
  RS256 = RS256
  ES256 = ES256
  Requests = {r1, r2, r3}
  Keys = {k1, k2, k3, k4}
  Schedule <- MCSchedule
  Algorithm <- MCAlgorithm
  Stating = {k1, k3}
  DefaultAlgorithm = RS256
  NoKid = NoKid
  Tokens <- MCTokens
  NoToken = NoToken
  Never = Never
  Interval = 2
  MaxTime = 4
SYMMETRY MCSymmetry
INVARIANTS
  TypeOK
  FetchesAreSpaced
PROPERTIES
  TurnedAwayBriefly
  OlderSetOnlyAfterSlowFetch
CHECK_DEADLOCK FALSE
