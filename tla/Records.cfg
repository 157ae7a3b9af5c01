CONSTANTS
  Rows = {"r1", "r2", "r3"}
  Inventories = {"now", "past"}
  SessionOf <- MCSessionOf
  Lots = {}
  Lines = {"withX", "onlyY", "lin", "plain", "blank"}
  LinesOf <- MCLinesOf
  Named = {"r3"}
  ReportsOf <- MCReportsOf
  Closable = {"past"}
  Blank = "blank"
  LineLins <- MCLineLins
  LineNsns <- MCLineNsns
  Wording <- MCWording
  Catalogue <- MCCatalogue
  None = None
  MaxProofs = 3
  MaxItems = 1
  MaxOpen = 1
  MaxSaved = 1
  Tenants = {1, 2}
  Slugs = {"x"}
  Uploads = {1, 2}
  MaxCrashes = 1
SPECIFICATION RecordsSpec
CHECK_DEADLOCK FALSE
INVARIANTS
  DisclosedIsReadable
  GroupsAreExact
  SavedPhotosAreProof
  NothingIsShared
