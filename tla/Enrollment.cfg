CONSTANTS
  Jobs = {a, b}
  Workers = {v, w}
  Roles = {contributor}
  MaxAttempts = 1
  MaxMoves = 3
  Lossy = TRUE
  None = None
SPECIFICATION FairSpec
CHECK_DEADLOCK FALSE
INVARIANT EmailsAreAsked
PROPERTY EveryJobSettles
