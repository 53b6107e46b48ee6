SPECIFICATION Spec
CONSTANTS
  MaxLog = 3
  CacheCapacity = 2
  FailingCalls <- AllCalls
  MaxFailures = 1
  MaxCrashes = 1
  MaxStamp = 3
  ClockSteps = FALSE
INVARIANT NeverWritesToNull
