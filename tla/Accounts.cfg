CONSTANTS
  None = None
  Users = {u, v}
  Root = root
  Invites = {i}
  People = {p, q}
  Shaped = {p}
  Emails = {e, f}
  Slots = {r, s}
  Tries = {t, w}
  Jobs = {j}
  Workers = {x, y}
SPECIFICATION AccountsSpec
SYMMETRY Alike
CHECK_DEADLOCK FALSE
INVARIANTS
  AccessIsTrue
  OneOwner
  TargetIsCurrent
  SettledIsApplied
  JobsAreSound
PROPERTIES
  AlwaysAnAdmin
  NobodySlipsBack
  IdentityIsForever
