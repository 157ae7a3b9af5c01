CONSTANTS
  Proofs = {p1, p2}
  None = None
  MaxPresses = 3
  MaxEvents = 2
SPECIFICATION ReviewDeskSpec
CHECK_DEADLOCK FALSE
INVARIANT UnrelatedStaysUsable
