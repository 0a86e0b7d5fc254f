SPECIFICATION FairSpec
CONSTANTS
  Caller = {c1, c2, c3}
  NoThread = NoThread
  MaxErrors = 2
INVARIANTS
  TypeOK
  InitOnce
  HandleThere
PROPERTIES
  NobodyLockedOut
