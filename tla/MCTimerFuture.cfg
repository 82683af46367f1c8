CONSTANTS
  MAX_EVENTS = 10
  Wrap = 4
  Cycles = {1}
  Callbacks <- MCCallbacks
  Words <- MCWords
  Types <- MCTypes
  Addresses = {1, 2}
  StaleWords <- MCHandlers
  Foreign <- MCZeroes
  BYTE = 2
  timing <- MCTiming
SPECIFICATION RunnerSpec
PROPERTY EventsAreInTheFuture
CHECK_DEADLOCK FALSE
