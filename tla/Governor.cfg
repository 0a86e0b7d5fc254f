SPECIFICATION Spec
CONSTANTS
  Sec = 1
  Hour = 4
  WriteInterval = 2
  MinWriteInterval = 3
  InteractivePerHour = 2
  None = None
  Caller = {c1, c2}
  Image = {imgA, imgB}
  Torn = Torn
  Native = Native
  MaxLag = 1
  MaxClock = 1
  MaxWear = 3
  MaxFaults = 2
SYMMETRY MCSymmetry
INVARIANTS
  TypeOK
  OdometerHonest
  DisplayedKnown
