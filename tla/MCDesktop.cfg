SPECIFICATION Spec
CONSTANTS
  None = None
  Session = {s1, s2}
  MaxTurns = 3
INVARIANTS MessageToOwn OneAtWork
CHECK_DEADLOCK FALSE
PROPERTIES MessageSettled
