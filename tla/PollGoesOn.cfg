CONSTANTS
  a = a
  b = b
  Rosters <- MCOne
  Members = {a}
  Nobody = Nobody
  CommandSlots = {1}
  FailureCap = 5
  MaxCommands = 1
  MaxLosses = 6
  MaxRenewals = 0
SPECIFICATION PeopleSpec
CHECK_DEADLOCK FALSE
INVARIANT PollGoesOn
