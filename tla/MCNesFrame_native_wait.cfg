SPECIFICATION Spec
CONSTANTS
  Programs <- AtNativeLoop
  FlushAt = 2
  BatchLimit = 3
  StuckLimit = 2
  IdleThreshold = 3
  IdleSteps = 3
  CounterMod = 4
  WriteMod = 8
  YieldReturns = FALSE
PROPERTIES
  FramesServed
