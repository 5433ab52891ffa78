SPECIFICATION Spec
CONSTANTS
  p1 = p1
  p2 = p2
  Pulls = {p1}
  MaxRequests = 3
  Kinds = {"auto"}
  MaxHead = 3
  MaxHours = 0
  Expiring = {}
  Faults = {}
  MaxFaults = 0
  MaxDeliveries = 2
  MaxAttempts = 3
  MaxPosts = 3
  Budget = 1
  MaxCost = 0
  MaxUnchecked = 0
  NoEvent = NoEvent
INVARIANT EveryCommitRead
CHECK_DEADLOCK FALSE
