SPECIFICATION Spec
CONSTANTS
  SectorSize = 96
  PoolSize = 16
  CodeSize = 24
  EpilogueSize = 8
  Sectors = 2
  SectorsPerBank = 1
  LastPc = 5
  Rom <- EveryPc
  Known <- EveryPc
  Insn <- NesProgram
  CopySize = 24
  CachePersist = FALSE
INVARIANTS
  ExtentsDisjoint
