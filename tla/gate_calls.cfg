SPECIFICATION Spec
CONSTANTS
  c1 = c1  c2 = c2  c3 = c3
  k1 = k1  k2 = k2  k3 = k3  s1 = s1
  a1 = a1  a2 = a2  n1 = n1
  p1 = p1  p2 = p2  t1 = t1  h1 = h1  h2 = h2
  Calls = {c1, c2, c3}
  Requests <- CallRequests
  Keys = {k1, k2, k3}
  SoldKeys = {k1}
  SoldCredit = 3
  Subscribers = {s1}
  MonthlyQuota = 1
  InternalKey = InternalKey
  Auths = {a1, a2, n1}
  Nonceless = {n1}
  AuthCents <- Signed
  Topups = {p1, p2}
  Tokens = {t1}
  Hashes = {h1, h2}
  Respelt = {h2}
  CredCents <- Cents
  MaxRestarts = 1
  None = None
SYMMETRY Interchangeable
CONSTRAINT OneFamily
INVARIANTS PrepaidLedger BoughtKeyReachesPayer SubscriberLedger NoncesAreExact MovedOnlyForResults CredentialsAreExact DeliveredWasPaid
CHECK_DEADLOCK FALSE
