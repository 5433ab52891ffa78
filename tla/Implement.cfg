SPECIFICATION Spec
SYMMETRY WorkerSymmetry
CONSTANTS
  w1 = w1
  w2 = w2
  Workers = {w1, w2}
  MaxRequests = 2
  MaxChanges = 2
  Faults = {"forge", "bucket", "runner", "agent", "late", "store", "crash", "lease"}
  MaxFaults = 2
  MaxMeddling = 1
  MaxDeliveries = 2
  MaxAttempts = 3
  MaxPosts = 1
INVARIANTS
  TypeOK
  OnlyVerifiedOffered
  HonestAnswers
PROPERTIES
  PaidOnce
  WorkKept
CHECK_DEADLOCK FALSE
