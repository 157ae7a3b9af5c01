CONSTANTS
  Jobs = {a, b}
  Workers = {v, w}
  Roles = {contributor}
  MaxAttempts = 1
  MaxMoves = 2
  Lossy = FALSE
  None = None
SPECIFICATION Spec
SYMMETRY Ids
CHECK_DEADLOCK FALSE
PROPERTIES
  SecondJobWaits
