CONSTANTS
  Tenants = {1, 2}
  Slugs = {"x"}
  Uploads = {1}
  MaxCrashes = 1
SPECIFICATION WorkspacesSpec
CHECK_DEADLOCK FALSE
INVARIANTS
  SlugIsReady
  RowsKeepFiles
