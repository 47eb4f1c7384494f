CONSTANTS
  e1 = e1
  e2 = e2
  Emails = {e1, e2}
  Planned <- OnePlanned
  Children = {c1}
  EpochSize = 1
  Cycle = 2
  MaxToken = 1
  MaxKills = 1
  MaxFaults = 1
  None = None
SPECIFICATION MCSpec
INVARIANT MasterSafe
PROPERTIES EveryAddressGetsItsTurn NeverRegisteredAgain EndsWithoutChildren
CHECK_DEADLOCK FALSE
