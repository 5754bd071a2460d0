SPECIFICATION Spec
CONSTANTS
  Programs <- Suite
  Starts0 <- SomeStarts
  GuestCells <- Cells
  ShadowSize = 4
  MaxRounds = 4
  CodeSize = 211
  Room = 211
  MaxNodes = 128
  MaxTmplPatches = 16
  MaxDirect = 8
  MaxDeferred = 4
  MaxFences = 16
  MaxInstrs = 96
  MaxRun = 128
INVARIANTS
  HostStackBalanced
  NativeStaysInCode
  BlockFits
  PatchesMatch
  FencesLand
  ScreenMarked
PROPERTIES
  Implements
  ProgramFinishes
