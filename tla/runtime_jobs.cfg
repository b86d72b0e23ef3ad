SPECIFICATION FairSpec
CONSTANTS
  j1 = j1  j2 = j2  p1 = p1  p2 = p2
  Jobs = {j1, j2}
  Providers = {p1, p2}
  Skills <- SearchReadAnswer
  Threshold = 2
  Cooldown = 2
  MaxAttempts = 2
  MaxDelay = 1
  Window = 1
  Deadline = 2
  Reserve = 2
INVARIANTS WaitsEndInBudget SoldWorkIsCosted
PROPERTIES CircuitShields EveryJobEnds
CHECK_DEADLOCK FALSE
