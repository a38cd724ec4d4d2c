SPECIFICATION MCSpec
CONSTANTS
  e1 = e1
  e2 = e2
  w1 = w1
  w2 = w2
  Events = {e1, e2}
  Workers = {w1, w2}
  NoOwner = NoOwner
  BatchLimit = 2
  MaxAttempts = 3
  MaxFaults = 2
INVARIANTS OneOwner
PROPERTIES NoSettleByOthers SettledForever KeepsPromise EveryEventSettles

