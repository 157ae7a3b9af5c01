CONSTANTS
  Emails = {"e"}
  Issues = {"i"}
  Blocks = {}
  MaxText = 2
  MaxClock = 2
  MaxStops = 1
  Nobody = "nobody"
SPECIFICATION NewsletterSpec
CHECK_DEADLOCK FALSE
PROPERTIES
  ApprovedGetRows
  WithdrawnAreLeftOut
