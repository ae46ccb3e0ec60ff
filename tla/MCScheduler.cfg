SPECIFICATION FairSpec
CONSTANTS
  t1 = t1
  t2 = t2
  t3 = t3
  t4 = t4
  ghost = ghost
  sA = sA
  default = default
  w1 = w1
  w2 = w2
  w3 = w3
  None = None
  Task <- MCTask
  TaskId <- MCTaskId
  Sandbox <- MCSandbox
  Worker <- MCWorker
  Hint <- MCHint
  Graphs <- MCGraphs
INVARIANTS TypeOK DispatchedAfterDeps DispatchedOnce ExitOnlyWhenResolved
PROPERTIES EveryTaskResolved FailureSkipsDependents ImplementsLifecycle
CHECK_DEADLOCK FALSE
