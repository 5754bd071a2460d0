SPECIFICATION Spec
CONSTANTS
  SectorSize = 96
  PoolSize = 16
  CodeSize = 24
  EpilogueSize = 8
  Sectors = 1
  SectorsPerBank = 4
  LastPc = 3
  Rom <- EveryPc
  Known <- EveryPc
  Insn <- NopProgram
  CopySize = 24
  CachePersist = TRUE
PROPERTIES
  TablesProgrammedOnce
