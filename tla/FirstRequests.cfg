CONSTANTS
  People = {p, q}
  Shaped = {}
  Emails = {e, f}
  Slots = {r, s}
  Tries = {t, w}
  Claims = {TRUE, FALSE}
  MaxMoves = 3
  None = None
SPECIFICATION Spec
CHECK_DEADLOCK FALSE
INVARIANTS
  RacesAreReread
  NoMixedUser
