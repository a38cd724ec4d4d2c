SPECIFICATION MCSpec
CONSTANTS
  g = g
  h = h
  d = d
  Candidates = {g, h, d}
  Buckets = {"b1", "b2"}
  Editions = {1, 2}
  Works = {i1, i2, i3}
  Workers = {w1, w2}
  Line <- MCLine
  Hash <- MCHash
  Keys <- MCKeys
  Dependency <- MCDependency
  Attempts = 3
  None = None
  MaxCalls = 3
  MaxOps = 1
  MaxDeaths = 1
INVARIANTS
  ComparedWithAll
  MergeFindsItsWork
PROPERTIES
  IsAtomic
  CallsEnd
CHECK_DEADLOCK FALSE
