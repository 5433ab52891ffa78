SPECIFICATION Spec
CONSTANTS
  Configs <- MCConfigs
  Calls <- MCCalls
  Requests <- MCRequests
  Number <- MCNumber
  Conns = {c1}
  Jobs <- MCJobs
  Failures <- MCFailures
  MaxSteps = 3
INVARIANTS
  NothingOutlivesTheRun
  ReachedWasAllowed
  SpendReported
CHECK_DEADLOCK FALSE
