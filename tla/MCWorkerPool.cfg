SPECIFICATION FairSpec
CONSTANTS
  t1 = t1
  t2 = t2
  t3 = t3
  sA = sA
  sB = sB
  w1 = w1
  w2 = w2
  c1 = c1
  c2 = c2
  c3 = c3
  None = None
  Task <- MCTask
  TaskId <- MCTask
  Graphs <- MCGraphs
  Sandboxes <- MCSandboxes
  Hint <- MCHint
  Worker <- MCWorker
  Container <- MCContainer
  Threshold = 1
INVARIANTS TypeOK ContainerExclusive DependenciesApplied CircuitTracksFailures MergeIsComplete
PROPERTIES DrainsOrLoses
CHECK_DEADLOCK FALSE
