SPECIFICATION Spec
CONSTANTS
  r1 = r1
  r2 = r2
  c1 = c1
  MaxArchive = 3
  MaxSize = 1
  SizeLimit = 3
  NumLimit = 1
  Readers <- TwoReaders
  Cleaners <- OneCleaner
  SharedReading = FALSE
INVARIANT SparesReaders
