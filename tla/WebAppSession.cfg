SPECIFICATION Spec
CONSTANTS
  Browsers = {b1, b2}
  Requests = {r1, r2, r3}
  Tokens = {t1, t2, t3}
  NoToken = NoToken
  NoFlight = NoFlight
  NoSession = NoSession
  Never = Never
  MaxU64 = 15
  MaxI64 = 7
  Retention = 2
  MaxTime = 3
  Lifespan = 1
  Tenanted = FALSE
  FirstToken <- MCFirstToken
  Config <- MCConfig
INVARIANTS
  TypeOK
  RotatedTokenIsReplayedLate
  OwnSession
SYMMETRY MCRequestSymmetry
CHECK_DEADLOCK FALSE
