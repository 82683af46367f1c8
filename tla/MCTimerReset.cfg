CONSTANTS
  MAX_EVENTS = 10
  Wrap = 4
  Cycles = {1}
  Callbacks <- MCCallbacks
  Words <- MCWords
  Types <- MCTypes
  Addresses = {2}
  StaleWords <- MCHandlers
  Foreign <- MCZeroes
  BYTE = 2
  timing <- MCTiming
SPECIFICATION ApiSpec
INVARIANT SomeEventIsPresent
CHECK_DEADLOCK FALSE
