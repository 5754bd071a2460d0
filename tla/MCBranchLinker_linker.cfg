SPECIFICATION FairSpec
CONSTANTS
  SectorSize = 128
  PoolSize = 16
  CodeSize = 24
  EpilogueSize = 8
  Sectors = 3
  SectorsPerBank = 2
  Pc <- FivePcs
  Blocks <- FiveBlocks
  Code <- FiveCode
  QueueSize = 2
  MaxDeferred = 4
  MaxPatches = 255
  ScanBatch = 5
  SweepEvery = 2
  SettleFrames = 2
  Cooldown = 3
  LightPeriod = 2
  CounterMax = 9
INVARIANTS
  TypeOK
  LinksFaithful
  TrampolinesApart
  NoSelfLoop
  FullResolveExhaustive
PROPERTIES
  EpiloguesLinked
  ProgrammedOnce
