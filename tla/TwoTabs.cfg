CONSTANTS
  Tabs = {a, b}
  Lanes = {1}
  MaxToken = 2
  Losses = 1
SPECIFICATION Spec
CHECK_DEADLOCK FALSE
INVARIANTS
  SignOutIsFinal
  RenewalSurvives
  FailedSignOutEnds
