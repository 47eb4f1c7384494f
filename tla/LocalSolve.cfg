SPECIFICATION MCSpec
CONSTANTS
  o1 = o1
  o2 = o2
  c1 = c1
  c2 = c2
  c3 = c3
  Owners = {o1, o2}
  Captures = {c1, c2, c3}
  OwnerOf <- MCOwnerOf
  Limit = 1
  Secret = {c1}
  Timeout = 60
INVARIANTS ChromesSafe PageRules
CHECK_DEADLOCK FALSE
PROPERTIES SolvesEnd CleanupSparesRunning
