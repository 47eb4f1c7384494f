CONSTANTS
  Accounts = {a1, a2}
  Exports = {e1, e2}
  Pushes = {p1}
  MaxTries = 2
  PageSize = 1
  MaxSeconds = 2
  MaxRequests = 2
SPECIFICATION MCSpec
SYMMETRY Same
INVARIANTS RecordsSafe VerdictIsTrue PushedIsSaved
CHECK_DEADLOCK FALSE
