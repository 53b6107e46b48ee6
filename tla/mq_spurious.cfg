SPECIFICATION Spec
CONSTANTS
  m1 = m1
  m2 = m2
  m3 = m3
  m4 = m4
  Messages <- ThreeMessages
  Capacity = 2
INVARIANT NeverPopsEmpty
CHECK_DEADLOCK FALSE
