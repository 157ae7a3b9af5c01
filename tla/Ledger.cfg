CONSTANTS
  Sessions = {s1}
  Items = {i1, i2}
  Submissions = {x1, x2}
  Leaders = {lead}
  Contributors = {}
  Crew = {p1}
  None = None
SPECIFICATION LedgerSpec
SYMMETRY Symmetry
CHECK_DEADLOCK FALSE
INVARIANTS
  ReviewQueueExact
  ClosedIsSettled
  RowsMatchProof
PROPERTIES
  NothingReopens
  ImplementsLifecycle
