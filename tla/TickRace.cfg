CONSTANTS
  Pollers = {p, q}
  Stopper = s
  NumWorkers = 1
  Count = 2
  MaxTasks = 4
SPECIFICATION Spec
SYMMETRY PollerSymmetry
INVARIANTS WithinLimits CountedOnce StopReachesAll
CHECK_DEADLOCK FALSE
