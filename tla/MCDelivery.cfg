SPECIFICATION DeliverySpec
CONSTANTS
  t1 = t1
  t2 = t2
  t3 = t3
  sA = sA
  sB = sB
  f = f
  h = h
  g = g
  None = None
  Cross = Cross
  Task <- MCTask
  Sandboxes <- MCSandboxes
  Hint <- MCHint
  File <- MCFile
  Quoted <- MCQuoted
  Answers <- MCAnswers
  VF = {v1}
  ContainerId = c
  MaxRounds = 2
  MaxRetries = 2
SYMMETRY MCSymmetry
INVARIANTS NothingLost OneTextPerFile
CHECK_DEADLOCK FALSE
