SPECIFICATION Spec
CONSTANTS
  create = create
  destroy = destroy
  list = list
  orch = orch
  sub = sub
  None = None
  Call <- MCCall
  Pooled = {create, list}
  Fast = {list}
  Creates = {create}
  Destroys = {destroy}
  On <- MCOn
  After <- MCAfter
  Home <- MCHome
  Subscriber = {sub}
  Orchestration = {orch}
  Silent = {}
  Tries = 2
  PoolWorkers = 1
  QueueDepth = 1
  FastWorkers = 1
  SlowWorkers = 2
INVARIANTS TypeOK Accounted
PROPERTIES ImplementsRpc CallerAnswered
CHECK_DEADLOCK FALSE
