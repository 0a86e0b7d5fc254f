SPECIFICATION Spec
CONSTANTS
  Sec = 2
  Hour = 4
  WriteInterval = 1
  MinWriteInterval = 2
  InteractivePerHour = 2
  None = None
  Caller = {c1, c2}
  Image = {imgA}
  Torn = Native
  Native = Native
  MaxLag = 1
  MaxClock = 4
  MaxWear = 3
  MaxFaults = 0
SYMMETRY MCSymmetry
INVARIANT RefusalHonest
PROPERTY KeepsBudget
