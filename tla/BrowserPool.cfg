CONSTANTS
  Threads = {t1, t2}
  Slots = {1, 2, 3}
  Kinds = {k1, k2}
  MaxConcurrency = 1
  MaxAttempts = 2
  MaxTasks = 2
  MaxFaults = 1
  None = None
SPECIFICATION FairSpec
INVARIANT BrowsersSafe
PROPERTIES FleetImplemented EveryCallEnds CloseLeavesNoBrowser
CHECK_DEADLOCK FALSE
