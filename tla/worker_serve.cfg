SPECIFICATION FairSpec
CONSTANTS
  w1 = w1  w2 = w2  k1 = k1
  Calls = {w1, w2}
  Keys = {k1}
  Requests <- MixedRequests
  Slots = 1
  MaxFaults = 1
  MaxCrashes = 1
  None = None
INVARIANTS OneJobPerKey ReplayIsDelivered BusyKeyHasItsCall ChargedForWork ReceiptsHold
PROPERTIES ClaimEndsByItsCall EveryJobAnswered
CHECK_DEADLOCK FALSE
