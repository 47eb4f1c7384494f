CONSTANTS
  NumWorkers = 2
  Exits = {n1, n2}
  MaxRetries = 2
  CircuitWindow = 2
  MaxFaults = 2
  Plans <- SafePlans
  None = None
SPECIFICATION Spec
SYMMETRY ExitSymmetry
INVARIANTS AccountsBalance WithinPlan
PROPERTY OnlyAllowedLaunches
CHECK_DEADLOCK FALSE
