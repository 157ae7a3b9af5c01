CONSTANTS
  Jobs = {a}
  Workers = {w}
  Roles = {contributor}
  MaxAttempts = 1
  MaxMoves = 3
  Lossy = TRUE
  None = None
SPECIFICATION Spec
CHECK_DEADLOCK FALSE
INVARIANTS
  QuietBeforeOpposite
  ResendIsKept
