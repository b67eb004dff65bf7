SPECIFICATION Spec
CONSTANTS
  Requests = {r1, r2, r3}
  Wakers = {w1, w2}
  NoWaker = NoWaker
  NoOutcome = NoOutcome
INVARIANTS
  TypeOK
  NoLostWakeup
  Agreement
PROPERTIES
  WaitersReturn
CHECK_DEADLOCK FALSE
