SPECIFICATION Spec
CONSTANTS
  Browsers = {b1}
  Requests = {r1, r2}
  Tokens = {t1, t2}
  NoToken = NoToken
  NoFlight = NoFlight
  NoSession = NoSession
  Never = Never
  MaxU64 = 15
  MaxI64 = 7
  Retention = 2
  MaxTime = 3
  Lifespan = 1
  Tenanted = TRUE
  FirstToken <- MCFirstToken
  Config <- MCConfig
INVARIANTS
  RefreshReachesBrowser
CHECK_DEADLOCK FALSE
