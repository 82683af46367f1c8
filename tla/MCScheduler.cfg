CONSTANTS
  MAX_EVENTS = 6
  Wrap = 6
  Cycles = {1, 2}
  Callbacks = {"cb"}
  Words <- MCWords
  Types <- MCTypes
  Addresses = {2, 3}
  StaleWords <- MCStaleWords
  Foreign <- MCForeign
SPECIFICATION Spec
INVARIANTS TypeOK CallsStayInBounds ClockIsExact HeapOrdered IndInv
PROPERTIES NoneLeftBehind ImplementsEventQueue
CHECK_DEADLOCK FALSE
