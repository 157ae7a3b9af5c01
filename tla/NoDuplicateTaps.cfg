CONSTANTS
  a = a
  b = b
  Rosters <- MCBeginnings
  Members = {a, b}
  Nobody = Nobody
  CommandSlots = {1, 2, 3}
  FailureCap = 2
  MaxCommands = 3
  MaxLosses = 0
  MaxRenewals = 0
SPECIFICATION PeopleSpec
CHECK_DEADLOCK FALSE
INVARIANT NoDuplicateTaps
