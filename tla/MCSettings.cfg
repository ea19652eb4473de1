SPECIFICATION FairSpec
CONSTANTS
  Base = 4
  Live = 1
  RecSize = 6
  SectorSize = 24
  Payloads = {1, 2}
  DefaultByte = 0
  NONE = NONE
  Images <- LogImages
  Remains <- LogRemains
INVARIANTS
  TypeOK
  CommittedIntact
  ProgramsErasedCells
PROPERTIES
  NoBlend
  LoadFindsCommitted
  ImplementsStore
  CallsReturn
