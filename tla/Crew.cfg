CONSTANTS
  Sessions = {s1, s2}
  Items = {i1}
  Submissions = {x1}
  Leaders = {lead}
  Contributors = {}
  Crew = {p1, p2}
  None = None
  MaxGrants = 1
SPECIFICATION CrewSpec
SYMMETRY Symmetry
CONSTRAINT OneOfEach
CHECK_DEADLOCK FALSE
INVARIANTS
  PassesLeaveNothing
  CredentialMatchesGrant
  ClosedHasNoPasses
  GrantLimit
PROPERTIES
  LatePassesChangeNothing
