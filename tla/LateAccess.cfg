CONSTANTS
  Users = {u, v}
  Root = root
  Invites = {i}
  MaxMoves = 3
  None = None
SPECIFICATION Spec
CHECK_DEADLOCK FALSE
INVARIANT
  DisabledLeavesGroup
PROPERTY
  AccessStopsAtOnce
