SPECIFICATION Spec
CONSTANTS
  p1 = p1
  p2 = p2
  Pulls = {p1}
  MaxRequests = 3
  Kinds = {"auto", "review", "ignore"}
  MaxHead = 3
  MaxHours = 0
  Expiring = {"reviewed","ignored","job"}
  Faults = {"forge", "store", "agent", "crash"}
  MaxFaults = 1
  MaxDeliveries = 2
  MaxAttempts = 3
  MaxPosts = 3
  Budget = 1
  MaxCost = 0
  MaxUnchecked = 0
  NoEvent = NoEvent
VIEW View
INVARIANTS
  TypeOK
  NothingUnread
  NewestShown
  OneReviewPerHead
PROPERTY SilenceKept
CHECK_DEADLOCK FALSE
