CONSTANTS
  Forms = {1, 2}
  Files = {1}
  MaxCopies = 2
  MaxSpoils = 1
  MaxExpiries = 0
SPECIFICATION CancellingSpec
CHECK_DEADLOCK FALSE
PROPERTIES
  CancelEnds
  DrawerIsStable
