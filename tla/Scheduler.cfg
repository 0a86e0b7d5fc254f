SPECIFICATION FairSpec
CONSTANTS
  cpu = "cpu"
  rain = "rain"
  Registry <- MCRegistry
  Due <- MCDue
  Timeout = 1
  Ttl = 1
  MaxLag = 0
  Poll = 1
  None = None
  Asked = {"cpu"}
  MaxReal = 6
  SetTo = {0, 4}
  MaxSteps = 1
INVARIANTS
  TypeOK
  EachOccurrenceOnce
  OverwriteBounded
  FreshHonest
PROPERTY EveryOccurrenceRuns
