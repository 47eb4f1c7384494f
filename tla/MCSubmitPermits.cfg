CONSTANTS
  Acquirers = {a1, a2, a3}
  Others = {o1, o2}
  Workers = 2
  None = None
SPECIFICATION FairSpec
INVARIANT SlotsSafe
PROPERTIES GateImplemented AcquireSettles
CHECK_DEADLOCK FALSE
