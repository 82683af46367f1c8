CONSTANTS
  Address <- MCAddress
  Data = {0, 90}
  Roms <- MCRoms
  Beyond = {0, 255}
SPECIFICATION BusSpec
INVARIANTS BusTypeOK CellsInBounds
PROPERTY ImplementsMemory
