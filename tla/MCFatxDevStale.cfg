SPECIFICATION FSpec
CONSTANTS
  None = None
  SectorSize = 2
  SectorCount = 3
  Bytes = {"x", "y"}
  Requests <- MCRequests
  Scenarios <- RewriteScenarios
INVARIANTS
  ReadsTheDisk
