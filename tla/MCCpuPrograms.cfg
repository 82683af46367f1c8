CONSTANTS
  Address <- MCProgramAddress
  Data = {0}
  Beyond = {118}
  Inputs = {0, 1, 127, 128, 255}
  Roms <- ProgramRoms
SPECIFICATION FairSpec
INVARIANT ResultsAreExact
PROPERTY ProgramsEnd
CHECK_DEADLOCK FALSE
