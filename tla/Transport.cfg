SPECIFICATION FairSpec
CONSTANTS
  Data = {x, y}
  Parts <- MCParts
  None = None
  MaxBacklog <- MCBacklog
  MaxFaults <- MCFaults
INVARIANTS
  TypeOK
  VerifiedIsStored
  AnswerIsTrue
PROPERTY CommandEnds
