SPECIFICATION Spec
CONSTANTS
  Requests = {r1, r2, r3}
  Tokens = {t1, t2}
  NoToken = NoToken
  NoFlight = NoFlight
  Retention = 2
  MaxTime = 3
INVARIANTS
  TypeOK
  OneLeaderPerToken
  AnswerIsForOwnToken
  AbandonedFlightIsForgotten
PROPERTIES
  OneCallPerRetention
  WaitersAnswered
  ImplementsSingleFlight
CHECK_DEADLOCK FALSE
