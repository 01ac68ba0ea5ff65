SPECIFICATION AllSpec
CONSTANTS
  a1 = a1
  a2 = a2
  none = none
  Agents = {a1, a2}
  Budgets = {1, 2}
  Rates = {0, 1}
  MaxTokens = 2
  MaxPolls = 2
  MaxCalls = 2
  NoLimits = none
  People = {"p1"}
  Identities = {"o1", "o2"}
  Emails = {"", "m"}
  Requests = {1, 2}
  MaxFaults = 1
  NumProcs = 4
  FailThreshold = 2
  MaxRestarts = 2
  MaxPosts = 1
INVARIANTS
  Overshoot
PROPERTIES
  PauseEnds
  EverybodyGetsIn
  ManagerComesBack
CHECK_DEADLOCK FALSE
