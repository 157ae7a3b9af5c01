CONSTANTS
  Forms = {1, 2}
  Files = {1, 2}
  MaxCopies = 2
  MaxSpoils = 1
  MaxExpiries = 1
  ann = ann
  bob = bob
  Nobody = Nobody
  Members = {ann, bob}
  Rosters <- OneSettingUp
  CommandSlots = {1, 2}
  FailureCap = 2
  MaxCommands = 2
  MaxLosses = 2
  MaxRenewals = 1
  None = None
  Proofs = {p1, p2}
  MaxPresses = 3
  MaxEvents = 2
SPECIFICATION FormsSpec
SYMMETRY Alike
CHECK_DEADLOCK FALSE
INVARIANTS
  PhotosAreKept
  PollGoesOn
  InputIsKept
PROPERTIES
  ResolvedStaysGone
