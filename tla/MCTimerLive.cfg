CONSTANTS
  MAX_EVENTS = 4
  Wrap = 4
  Cycles = {1}
  Callbacks <- MCCallbacks
  Words <- MCWords
  Types <- MCTypes
  Addresses = {1, 2}
  StaleWords <- MCStaleWords
  Foreign <- MCZeroes
  BYTE = 2
  timing <- MCTiming
SPECIFICATION FairSpec
PROPERTIES ImplementsScheduler LoopEnds
CHECK_DEADLOCK FALSE
