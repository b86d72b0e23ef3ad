SPECIFICATION Spec
CHECK_DEADLOCK FALSE
CONSTANTS
  None = None
  MaxJobs = 2
  Orders <- Pairs
  Budget = 3
  Reserve = 2
  MaxAttempts = 2
  MaxSources = 2
  Pages <- Versions
  Routes <- Ways
  MaxHops = 3
  Ceiling = 2
  Asked = {1, 3}
  MaxTable = 3
INVARIANTS SoldIsWhole GeneratedOnce ScanIsBounded BaselineIsTold OneCredentialAnswer
