SPECIFICATION Spec
CONSTANTS
  SectorSize = 288
  PoolSize = 32
  CodeSize = 60
  EpilogueSize = 39
  Sectors = 2
  SectorsPerBank = 1
  LastPc = 6
  Programs <- EveryProgram
  CopySize = 32
INVARIANTS
  TightFits
