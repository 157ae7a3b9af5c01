CONSTANTS
  Emails = {"e"}
  Issues = {"i"}
  Blocks = {}
  MaxText = 1
  MaxClock = 1
  MaxStops = 1
  MaxLoads = 1
  MaxFailures = 1
  Nobody = "nobody"
SPECIFICATION UnconfiguredSpec
CHECK_DEADLOCK FALSE
INVARIANTS
  OwnWorkIsShown
PROPERTIES
  ActionsEnd
