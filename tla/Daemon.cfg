SPECIFICATION FairSpec
CONSTANTS
  Sec = 1
  Hour = 1
  WriteInterval = 1
  MinWriteInterval = 2
  InteractivePerHour = 1
  None = None
  Image = {imgA, imgB}
  Torn = Torn
  Native = Native
  ReconnectCheck = 2
  MaxLag = 1
  FaultyBus = TRUE
  QuickReplug = TRUE
  MayRestart = TRUE
  MayForget = TRUE
INVARIANTS
  TypeOK
  HashTrueWhereRecorded
  ResendsOnlyAfterFault
  AutomaticSpaced
PROPERTY RecoversUnlessMistaken
