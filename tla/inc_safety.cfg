SPECIFICATION Spec
CONSTANTS
  MaxLog = 3
  CacheCapacity = 2
  FailingCalls <- OtherCalls
  MaxFailures = 1
  MaxCrashes = 2
  MaxDay = 2
  Readers = FALSE
  BirthTime = FALSE
INVARIANTS TypeOK Chronological
PROPERTIES LogSpec DamageContained
