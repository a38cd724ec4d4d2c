SPECIFICATION MCSpec
CONSTANTS
  Topics = {t1}
  Drafts = {d1, d2, d3}
  Workers = {w1}
  Reviewers = {r1, r2}
  Desired = 1
  AutoAdvance = TRUE
  None = None
  MaxTries = 1
  MaxRequalify = 0
  MaxRegens = 1
  MaxRepairs = 1
  Outcomes = {"clean", "unread"}
  ReviewAuto = TRUE
  MaxTrouble = 1
INVARIANTS
  RegenerationsBounded

  
  
CHECK_DEADLOCK FALSE
