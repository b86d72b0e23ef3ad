SPECIFICATION Spec
CONSTANTS
  c1 = c1  c2 = c2  c3 = c3  p1 = p1  p2 = p2
  asked = asked  other = other
  Kinds = {"router", "tollbooth", "ci"}
  Calls <- SomeCalls
  Processes = {p1, p2}
  Process <- SomeProcess
  Questions = {asked, other}
  Question <- SomeQuestion
  Keyed = {c1, c2, c3}
  Price <- SomePrice
  PerCallCap = 3
  Budget = 3
  DailyCap = 4
  MaxDays = 2
INVARIANTS BuyersKeepTheirCaps PaidAnswerIsReturned
CHECK_DEADLOCK FALSE
