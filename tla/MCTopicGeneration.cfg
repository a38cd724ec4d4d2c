SPECIFICATION MCSpec
CONSTANTS
  Topics = {t1, t2}
  Drafts = {d1, d2}
  Workers = {w1, w2}
  Desired = 1
  AutoAdvance = TRUE
  None = None
  MaxFaults = 1
  MaxOps = 1
INVARIANTS
  OneGeneration
  DraftedHasDraft
PROPERTIES
  ClearSparesDrafts
  DraftsCome
CHECK_DEADLOCK FALSE
