CONSTANTS
  Emails = {e1, e2}
  Workers = {w1, w2}
  Probers = {p1}
  TokenTries = 2
  DomainTries = 2
  MaxToken = 1
  MaxFaults = 1
  Free = Free
  Spent = Spent
  None = None
SPECIFICATION Spec
INVARIANT RowsSafe
PROPERTIES TokensOnlyRotate LedgerImplemented
CHECK_DEADLOCK FALSE
SYMMETRY PoolSymmetry
