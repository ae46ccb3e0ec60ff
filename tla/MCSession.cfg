SPECIFICATION FairSpec
CONSTANTS
  p1 = p1
  p2 = p2
  p3 = p3
  None = None
  PlanId <- MCPlanId
  Fronts <- All
  MaxRounds = 3
  MaxBuilds = 2
  MaxMessages = 5
INVARIANTS ReplyTellsBuild PlansOnDisk 
PROPERTIES MessageAnswered AutonomousRunEnds
CHECK_DEADLOCK FALSE
