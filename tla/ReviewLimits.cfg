SPECIFICATION Spec
CONSTANTS
  p1 = p1
  p2 = p2
  Pulls = {p1, p2}
  MaxRequests = 3
  Kinds = {"full", "question", "closed"}
  MaxHead = 1
  MaxHours = 1
  Expiring = {}
  Faults = {"forge", "store", "crash"}
  MaxFaults = 1
  MaxDeliveries = 1
  MaxAttempts = 1
  MaxPosts = 1
  Budget = 1
  MaxCost = 1
  MaxUnchecked = 1
  NoEvent = NoEvent
SYMMETRY PullSymmetry
VIEW View
INVARIANTS
  PostsBounded
  SpendBounded
CHECK_DEADLOCK FALSE
