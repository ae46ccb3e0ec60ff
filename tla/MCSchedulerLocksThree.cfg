SPECIFICATION LocksFairSpec
CONSTANTS
  w1 = w1
  w2 = w2
  w3 = w3
  poller = poller
  Agent <- MCAgent
  Poller <- poller
  Outcomes <- ThreeFail
  MaxVisits = 1
  MoreTasks = FALSE
PROPERTIES CascadeEnds
CHECK_DEADLOCK FALSE
