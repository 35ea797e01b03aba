SPECIFICATION FairSpec
CONSTANTS
  t1 = t1
  t2 = t2
  t3 = t3
  Threads <- MCThree
  Permits = 1
  MaxSpurious = 1
  MaxWrites = 4
INVARIANTS
  UnpublishedWriterIsInside
PROPERTIES
  ImplementsSemaphore
  SomeoneGetsIn
CHECK_DEADLOCK FALSE
