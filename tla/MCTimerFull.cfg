CONSTANTS
  MAX_EVENTS = 10
  Wrap = 2
  Cycles = {1}
  Callbacks <- MCCallbacks
  Words <- MCWords
  Types <- MCTypes
  Addresses = {1}
  StaleWords <- MCIncrement
  Foreign <- MCZeroes
  BYTE = 1
  timing <- MCTiming
SPECIFICATION RunnerSpec
INVARIANT InsertionsFit
CHECK_DEADLOCK FALSE
