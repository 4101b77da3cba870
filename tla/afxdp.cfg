SPECIFICATION Spec
CONSTANTS
  Frames = {f1, f2, f3, f4, f5}
  FillSize = 4
  TxSize = 2
  CompletionSize = 2
  RxSize = 2
  BatchSize = 2
  RxDrainPasses = 2
  KickAttempts = 2
  RxAllocation = 2
  Conditional = TRUE
SYMMETRY FrameSymmetry
INVARIANTS FramesHaveOneOwner NoKickIsLost NeverStarved
CHECK_DEADLOCK FALSE
