SPECIFICATION Spec
CONSTANTS
  w1 = w1
  w2 = w2
  k1 = k1
  Calls = {w1, w2}
  Keys = {k1}
  Requests <- PrepaidRequests
  Slots = 1
  MaxFaults = 0
  MaxCrashes = 0
  None = None
INVARIANT UnworkedIsUncharged
CHECK_DEADLOCK FALSE
