SPECIFICATION Spec
CONSTANTS
  m1 = m1
  m2 = m2
  m3 = m3
  d1 = d1
  d2 = d2
  p1 = p1
  w1 = w1
  w2 = w2
  Messages = {m1, m2}
  Deliveries = {d1, d2}
  Pulls = {p1}
  Workers = {w1, w2}
  DeliveryOf <- MCDeliveryOf
  PullOf <- MCPullOf
  SelfAuthored = {}
  Unreachable = {}
  MaxDeliveries = 2
  MaxAttempts = 3
  Mishaps = {"crash", "duplicate", "store", "stall", "notice"}
  MaxMishaps = 2
  None = None
  Free = Free
  Orphan = Orphan
SYMMETRY Symmetry
INVARIANTS
  TypeOK
  HoldersOwnTheLock
  DoneMeansAnswered
  DeadMeansSilence
PROPERTY PromiseKept
