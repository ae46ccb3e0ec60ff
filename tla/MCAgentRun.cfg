SPECIFICATION Spec
CONSTANTS
  in = in
  too = too
  out = out
  None = None
  Tool = {in, too, out}
  Inside = {in, too}
  Provider = {"gemini", "openai"}
  Answers <- MCAnswers
  MaxRounds = 2
  Tier1 = 1
  Tier2 = 1
  Keep = 1
  MaxLate = 1
  MaxCalls = 3
INVARIANTS TypeOK WorkKept DiffExplained
PROPERTIES AgentEnds
CHECK_DEADLOCK FALSE
