CONSTANTS
  Photos = {1, 2, 3}
  Sources = {4}
  Guest = {1, 2, 3}
  Wanted <- BothWays
  Quota = 2
  Perishable = {1, 2}
  MaxBatch = 2
  MaxFaults = 1
  Emails = {"e", "f"}
  Issues = {"i"}
  Blocks = {"b"}
  MaxText = 2
  MaxClock = 2
  MaxStops = 1
  Tabs = {"t"}
  Lanes = {1, 2}
  MaxToken = 3
  Losses = 2
  Nobody = "nobody"
SPECIFICATION BackgroundSpec
CHECK_DEADLOCK FALSE
INVARIANTS
  RegistryIsSound
  IssuesAreHonest
  SignedInOrOut
PROPERTIES
  UsedForGood
  LateIsSwept
  EveryoneIsServed
  NoNeedlessSignOut
  NothingHangs
