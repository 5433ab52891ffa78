SPECIFICATION FairSpec
CONSTANTS
  m1 = m1
  m2 = m2
  m3 = m3
  d1 = d1
  d2 = d2
  p1 = p1
  w1 = w1
  w2 = w2
  Messages = {m1, m2, m3}
  Deliveries = {d1, d2}
  Pulls = {p1}
  Workers = {w1, w2}
  DeliveryOf <- MCDeliveryOf
  PullOf <- MCPullOf
  SelfAuthored = {m3}
  Unreachable = {d1, d2}
  MaxDeliveries = 1
  MaxAttempts = 2
  Mishaps = {"crash", "store", "stall"}
  MaxMishaps = 1
  None = None
  Free = Free
  Orphan = Orphan
PROPERTIES
  LockFreed
  EverySettled
