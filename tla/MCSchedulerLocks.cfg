SPECIFICATION LocksSpec
CONSTANTS
  w1 = w1
  w2 = w2
  w3 = w3
  poller = poller
  Agent <- MCAgent
  Poller <- poller
  Outcomes <- TwoFail
  MaxVisits = 2
  MoreTasks = TRUE
SYMMETRY MCSymmetry
INVARIANTS NoCircularWait
