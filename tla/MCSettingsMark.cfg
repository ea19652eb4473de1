SPECIFICATION Spec
CONSTANTS
  Base = 4
  Live = 1
  RecSize = 6
  SectorSize = 24
  Payloads = {1, 2}
  DefaultByte = 0
  NONE = NONE
  Images <- FactoryImages
  Remains <- MCRemains
PROPERTIES
  MarkOverwrites
