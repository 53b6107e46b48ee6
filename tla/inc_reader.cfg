SPECIFICATION Spec
CONSTANTS
  MaxLog = 3
  CacheCapacity = 2
  FailingCalls <- AllCalls
  MaxFailures = 0
  MaxCrashes = 0
  MaxDay = 2
  Readers = TRUE
  BirthTime = TRUE
PROPERTY FlushArrives
