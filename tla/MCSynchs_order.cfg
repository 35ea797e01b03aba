SPECIFICATION Spec
CONSTANTS
  t1 = t1
  t2 = t2
  t3 = t3
  Threads <- MCThree
  Permits = 1
  MaxSpurious = 1
  MaxWrites = 4
INVARIANTS
  LockOrdersWrites
CHECK_DEADLOCK FALSE
