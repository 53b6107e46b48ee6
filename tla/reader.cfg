SPECIFICATION FairSpec
CONSTANTS
  Byte <- MCByte
  Needle <- Marker
  MaxLength = 6
  KeyBytes = 2
  ChunkSize = 6
  Scenarios <- Sessions
  Absent = Absent
INVARIANTS ReadsWhole FallsIntoStep DamageIsLocal
PROPERTIES FindsFirst ParsingEnds
\* The user closes the reader and the system stops.
CHECK_DEADLOCK FALSE
