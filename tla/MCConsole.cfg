SPECIFICATION FairSpec
CONSTANTS
  CharBits = 8
  ShortBits = 12
  IntBits = 16
  LongBits = 26
  NULL = NULL
  MainPrints <- MCMainPrints
  PanicPrints <- MCPanicPrints
  Requests <- MCRequests
  BufferSizes = {0, 5, 80}
  FifoSize = 2
  MaxContexts = 3
INVARIANTS
  LineIsWhole
  ConversionsReadBack
  BufferHoldsPrefix
PROPERTIES
  PanicIsHeard
CHECK_DEADLOCK FALSE
