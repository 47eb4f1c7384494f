CONSTANTS
  MaxClicks = 2
  MaxSolves = 1
  MaxResets = 1
  MaxFails = 1
  MaxTries = 1
  MaxTurns = 3
  Nothing = Nothing
SPECIFICATION FairOAuth
INVARIANT AttemptBounded
PROPERTIES LoginWhenReady FlowEnds
CHECK_DEADLOCK FALSE
