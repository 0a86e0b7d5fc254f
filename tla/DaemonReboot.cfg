SPECIFICATION FairSpec
CONSTANTS
  Sec = 1
  Hour = 3
  WriteInterval = 3
  MinWriteInterval = 4
  InteractivePerHour = 1
  None = None
  Image = {imgA, imgB}
  Torn = Torn
  Native = Native
  ReconnectCheck = 2
  MaxLag = 1
  FaultyBus = FALSE
  QuickReplug = FALSE
  MayRestart = TRUE
  MayForget = FALSE
PROPERTY ScreenRecovers
