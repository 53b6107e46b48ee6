SPECIFICATION FairSpec
CONSTANTS
  m1 = m1
  m2 = m2
  m3 = m3
  m4 = m4
  Messages <- FourMessages
  Capacity = 2
INVARIANTS TypeOK FifoOrder NoLostWakeup SignalledFindsWork CapacityRespected
PROPERTIES ExecutorSpec AcceptedIsExecuted DestructorEnds
\* after front() of an empty list the worker is beyond the model, and join waits for it
CHECK_DEADLOCK FALSE
