SPECIFICATION FairSpec
CONSTANTS
  MinInstances = 0
  MaxInstances = 2
  PerInstance = 2
  IdleAfter = 2
  Lag = 1
  MaxDelay = 2
  MaxMessages = 3
  MaxErrors = 1
INVARIANTS
  TypeOK
  NobodySleepsIn
PROPERTIES
  AwayOnlyAfterQuiet
  WorkedOff
  BackToRest
