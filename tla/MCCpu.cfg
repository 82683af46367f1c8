CONSTANTS
  Address <- MCAddress
  Data = {0}
  Beyond = {118}
  Inputs = {0}
  Roms <- MCRoms
SPECIFICATION ApiSpec
INVARIANTS CpuTypeOK UnusedFlagsAreClear
PROPERTY PopsReturnWhatWasPushed
CHECK_DEADLOCK FALSE
