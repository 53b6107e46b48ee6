SPECIFICATION Spec
CONSTANTS
  r1 = r1
  r2 = r2
  c1 = c1
  MaxArchive = 3
  MaxSize = 2
  SizeLimit = 3
  NumLimit = 1
  Readers <- OneReader
  Cleaners <- OneCleaner
  SharedReading = FALSE
INVARIANTS TypeOK SparesReader WithinLimit
PROPERTY OldestFirst
