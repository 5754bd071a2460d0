SPECIFICATION FairSpec
CONSTANTS
  SectorSize = 112
  PoolSize = 16
  CodeSize = 24
  EpilogueSize = 8
  Sectors = 2
  SectorsPerBank = 4
  LastPc = 7
  Rom <- EveryPc
  Known <- AllButLast
  Insn <- ExidyProgram
  CopySize = 24
  CachePersist = FALSE
INVARIANTS
  TypeOK
  PoolUntouched
  PublishedIsRunnable
  ChainReachesEveryBlock
  NoDuplicateBlocks
PROPERTIES
  ImplementsCache
  CompilesSettle
