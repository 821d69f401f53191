SPECIFICATION XSpec
CONSTANTS
  None = None
  Zero = Zero
  EndMark = EndMark
  Deleted = Deleted
  Unknown = Unknown
  A = A
  B = B
  C = C
  D = D
  Names = {A, B, C, D}
  Fds = {d1, d2}
  NumClusters = 7
  Units = 3
  PageEntries = 2
  Chunk = 2
  Lengths = {3, 4}
  MaxSize = 7
  Indices = {4}
  Volumes <- MCVolumes
  Scenarios <- PassScenarios
INVARIANTS
  XTypeOK
  FilesAsPromised
  ClustersAccounted
  ClosedSurvives
  ClosedOnDisk
CHECK_DEADLOCK FALSE
PROPERTIES
  CallsEnd
  OthersUntouched
