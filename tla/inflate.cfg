SPECIFICATION FairSpec
CONSTANTS
  MAXBITS = 15
  CHUNK = 20
  MAXMATCH = 10
  MINBITS = 3
  Sessions <- All
  Pieces <- SomePieces
INVARIANTS TypeOK Faithful Told RecordsIntact WindowIsHistory FastStaysInside
PROPERTIES Sticky Returns
