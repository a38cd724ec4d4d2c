SPECIFICATION MCSpec
CONSTANTS
  Calls = {c1, c2}
  Ticks = {t1}
  People = {p1}
  MaxRetries = 1
  Bases = 3
  Nobody = Nobody
  MaxTroubles = 1
  Workers = {w1, w2}
  MaxAttempts = 2
  Points = 3
  MaxMishaps = 1
INVARIANTS
  RecordsAgree
  
  VerdictsCount
  HandoffAgrees
  VerdictHasEvidence
PROPERTIES
  MergesEnd
  ResultsAreFinal
  MeasurementsEnd
CHECK_DEADLOCK FALSE
