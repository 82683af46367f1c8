CONSTANTS
  Address <- MCAddress
  Data = {0}
  Beyond = {118}
  Roms <- RunnerRoms
  MAX_EVENTS = 5
  Wrap = 160
  Words <- MCWords
  Types = {"TIMA_INCREMENT"}
  Addresses = {90, 114}
  StaleWords <- MCStaleWords
  Foreign <- MCForeign
SPECIFICATION FairMainSpec
INVARIANTS SystemTypeOK ClockCountsCycles CrashesAreExplained DevicesHoldWhatWasWritten
PROPERTIES ImplementsTimer CriticalIsLast PendingEventsAreServed
CHECK_DEADLOCK FALSE
