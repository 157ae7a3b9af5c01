CONSTANTS
  Emails = {"e"}
  Issues = {"i"}
  Blocks = {}
  MaxText = 2
  MaxClock = 1
  MaxStops = 0
  MaxLoads = 1
  MaxFailures = 1
  Nobody = "nobody"
SPECIFICATION DeskSpec
CHECK_DEADLOCK FALSE
INVARIANTS
  SavedIsShown
PROPERTIES
  ChangesAreShown
