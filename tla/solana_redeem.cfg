SPECIFICATION FairSpec
CONSTANTS
  r1 = r1  r2 = r2  x = x  y = y  f1 = f1  f2 = f2
  k1 = k1  k2 = k2  k3 = k3
  Threads = {r1, r2}
  Sigs = {x, y}
  Refs = {f1, f2}
  Carries <- Carried
  Received <- Arrived
  Asked <- Due
  PerCent = 2
  Keys = {k1, k2}
  MaxRestarts = 1
  None = None
INVARIANTS OneKeyPerPayment KeyBacksPayment ClaimIsExclusive
PROPERTIES IssuedIsFinal RedemptionsEnd
CHECK_DEADLOCK FALSE
