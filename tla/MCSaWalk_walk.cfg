SPECIFICATION FairSpec
CONSTANTS
  PageSize = 4
  AndBits <- BitAnd
  BitmapSize = 8
  RomMin = 8
  RomMax = 15
  Insn <- WalkRom
  Vectors <- WalkVectors
  Resolved <- WalkResolved
  CleanSubs <- WalkClean
  QueueSlots = 1
  IndirectMax = 2
  SubroutineMax = 2
INVARIANTS
  TypeOK
  KnownIsReachable
  WalkComplete
  CallsRecorded
  LookupFaithful
PROPERTIES
  WalkTerminates
