CONSTANTS
  Sessions = {"a", "b"}
  NoSession = "none"
  Slots = {1}
  MaxDeskPresses = 3
  MaxDeskEvents = 0
  Beginnings <- MCBeginnings
SPECIFICATION SessionDeskSpec
CHECK_DEADLOCK FALSE
INVARIANTS
  SelectorSwapsQueue
