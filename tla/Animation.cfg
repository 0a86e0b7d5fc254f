SPECIFICATION PlanSpec
CONSTANTS
  Duration <- MCDuration
  Budget <- MCBudget
  MaxLen = 5
  MaxTick = 255
  FrameBytes = 30720
  Metadata = 256
  Block = 4096
  MaxFrames = 254
  MaxReports = 65535
INVARIANTS
  WholeLoopShown
  LoopLengthKept
  ContainerArrives
CHECK_DEADLOCK FALSE
