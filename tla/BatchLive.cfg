CONSTANTS
  NumWorkers = 2
  Exits = {n1}
  MaxRetries = 2
  CircuitWindow = 2
  MaxFaults = 2
  Plans <- FewPlans
  None = None
SPECIFICATION FairSpec
INVARIANT DoneMeansPlanDone
PROPERTIES RunsEnd IdleRunRefills
CHECK_DEADLOCK FALSE
