SPECIFICATION TableSpec
CONSTANTS
  MAXBITS = 5
  Symbols = 6
  Types <- TwoTypes
  RootBits = 2
  ENOUGH = 10
INVARIANTS Decodes Packed RefusesRightly
PROPERTY WrittenOnce
\* inflate_table returns
CHECK_DEADLOCK FALSE
