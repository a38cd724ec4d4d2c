SPECIFICATION MCSpec
CONSTANTS
  Events = {e1}
  Channels = {c1, c2}
  Workers = {w1, w2}
  Subscribed <- MCSubscribed
  MaxAttempts = 4
  None = None
  MaxEmits = 2
  MaxFaults = 1
  MaxOps = 1
INVARIANTS
  AttemptsBounded
PROPERTIES
  ComesToRest
  DeathIsReported
CHECK_DEADLOCK FALSE
