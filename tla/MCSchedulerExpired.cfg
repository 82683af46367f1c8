CONSTANTS
  MAX_EVENTS = 6
  Wrap = 6
  Cycles = {1, 2}
  Callbacks = {"cb"}
  Words <- MCWords
  Types <- MCTypes
  Addresses = {1, 2, 3}
  StaleWords <- MCFunctionsOnly
  Foreign <- MCZeroes
SPECIFICATION Spec
PROPERTY ExpiredEventsAreCalled
CHECK_DEADLOCK FALSE
