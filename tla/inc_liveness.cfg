SPECIFICATION FairSpec
CONSTANTS
  MaxLog = 2
  CacheCapacity = 1
  FailingCalls <- AllCalls
  MaxFailures = 1
  MaxCrashes = 1
  MaxDay = 2
  Readers = TRUE
  BirthTime = TRUE
PROPERTY CallsReturn
