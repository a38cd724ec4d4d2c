SPECIFICATION MCSpec
CONSTANTS
  w1 = w1
  w2 = w2
  Workers = {w1, w2}
  NumStages = 2
  Outcomes = {"succeeded", "failed"}
  ExecTimeout = 3
  StageLease = 4
  ReclaimAfter = 4
  MaxAttempts = 4
  Backoff <- MCBackoff
  Event = ev
  NoOwner = NoOwner
  MaxFaults = 1
  c1 = c1
  c2 = c2
  Configs = {c1, c2}
  FirstConfig = c1
INVARIANTS TypeOK  StagesInOrder SucceededIsComplete OneFaultIsSurvived
PROPERTIES OutcomesAreFinal FollowsQueue FindingSettles
