SPECIFICATION MCSpec
CONSTANTS
  Topics = {t1}
  Drafts = {d1}
  Workers = {w1, w2}
  Desired = 1
  AutoAdvance = TRUE
  None = None
  MaxFaults = 0
  MaxOps = 2
PROPERTIES
  RejectedIsPickedAgain
CHECK_DEADLOCK FALSE
