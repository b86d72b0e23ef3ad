SPECIFICATION FairSpec
CONSTANTS
  c1 = c1  c2 = c2  c3 = c3
  k1 = k1  k2 = k2  k3 = k3  s1 = s1
  a1 = a1  a2 = a2  n1 = n1
  p1 = p1  p2 = p2  t1 = t1  h1 = h1  h2 = h2
  Calls = {c1, c2}
  Requests <- MixedRequests
  Keys = {k1, k2, k3}
  SoldKeys = {k1}
  SoldCredit = 3
  Subscribers = {s1}
  MonthlyQuota = 1
  InternalKey = InternalKey
  Auths = {a1, n1}
  Nonceless = {n1}
  AuthCents <- Signed
  Topups = {p1, p2}
  Tokens = {t1}
  Hashes = {h1}
  Respelt = {}
  CredCents <- Cents
  MaxRestarts = 1
  None = None
PROPERTIES EveryCallAnswered KeepsPromise
CHECK_DEADLOCK FALSE
