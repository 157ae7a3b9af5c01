CONSTANTS
  Sessions = {s1}
  Items = {i1}
  Submissions = {x1}
  Leaders = {lead}
  Contributors = {}
  Crew = {p1}
  None = None
SPECIFICATION LedgerSpec
SYMMETRY Symmetry
CHECK_DEADLOCK FALSE
PROPERTIES
  OnlyEmptyDeleted
  ClosedGainsNoRows
