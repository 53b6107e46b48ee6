SPECIFICATION FairSpec
CONSTANTS
  MaxLog = 4
  CacheCapacity = 2
  FailingCalls <- AllCalls
  MaxFailures = 2
  MaxCrashes = 2
  MaxStamp = 4
  ClockSteps = FALSE
INVARIANTS TypeOK Chronological FlushedMeansArchived
PROPERTIES LogSpec DamageContained CallsReturn
