CONSTANTS
  MAX_EVENTS = 5
  Wrap = 3
  Cycles = {1}
  Callbacks <- MCCallbacks
  Words <- MCWords
  Types <- MCTypes
  Addresses = {1, 2}
  StaleWords <- MCHandlers
  Foreign <- MCForeign
  BYTE = 2
  timing <- MCTiming
SPECIFICATION RunnerSpec
INVARIANTS TimerTypeOK TimerKeepsItsEvents TimerInv
PROPERTY DisabledTimerDrains
CHECK_DEADLOCK FALSE
