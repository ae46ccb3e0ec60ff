SPECIFICATION FairSpec
CONSTANTS
  b1 = b1
  a1 = a1
  boot1 = boot1
  c1 = c1
  c2 = c2
  None = None
  Name <- MCName
  Agent <- MCAgent
  Boot <- boot1
  Client <- MCClient
  Menu <- MCMenu
  MaxId = 4
INVARIANTS TypeOK AnswerIsOwn CreatedIsThere
PROPERTIES CallAnswered
CHECK_DEADLOCK FALSE
