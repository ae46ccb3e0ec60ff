SPECIFICATION FairSpec
CONSTANTS
  t1 = t1
  t2 = t2
  t3 = t3
  ghost = ghost
  p = p
  Task <- MCTask
  TaskId <- MCTaskId
  Path = {p}
  Plans <- MCPlans
  MaxRounds = 2
  MaxCalls = 2
  TokenBudget = 2
  Usage = {1}
  MaxBatch = 2
INVARIANTS CallsBounded StartedAfterDeps CompletedIsOver
PROPERTIES BuildEnds
CHECK_DEADLOCK FALSE
