CONSTANTS
  Sessions = {"a", "b"}
  NoSession = "none"
  Slots = {1, 2}
  MaxDeskPresses = 3
  MaxDeskEvents = 1
  Beginnings <- MCBeginnings
SPECIFICATION SessionDeskSpec
CHECK_DEADLOCK FALSE
INVARIANT DashboardAgrees
PROPERTY DeskSettles
