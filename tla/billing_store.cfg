SPECIFICATION Spec
CONSTANTS
  p1 = p1
  r1 = r1
  i1 = i1
  i2 = i2
  d1 = d1
  d2 = d2
  v1 = v1
  v2 = v2
  t1 = t1
  t2 = t2
  t3 = t3
  t4 = t4
  None = None
  Plans = {p1}
  Reports = {r1}
  Instances = {i1, i2}
  Deliveries = {d1, d2}
  Views = {v1, v2}
  Spends = {t1, t2}
  Refunds = {t3}
  Counts = {t4}
  Credit = 1
  Quota = 1
  Deployments <- SomeDeployments
  Traffic <- SomeTraffic
  MaxKeys = 5
  MaxFaults = 1
INVARIANTS ShownKeyWorks OneAuditPerPurchase CommitsAddUp
PROPERTY BuyerKeepsAKey
CHECK_DEADLOCK FALSE
