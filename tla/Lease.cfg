SPECIFICATION Spec
CONSTANTS
  MaxLeases = 3
  MaxTime = 8
  MaxPauses = 1
  TTL = 3
  Slack = 1
  StopDelay = 1
INVARIANTS
  OneJobAtATime
  LostLeaseStops
PROPERTY OnlyAcquireTakes
CHECK_DEADLOCK FALSE
