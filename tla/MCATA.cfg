SPECIFICATION AFairSpec
CONSTANTS
  t1 = t1
  t2 = t2
  Junk = Junk
  Blank = Blank
  None = None
  Tasks = {t1, t2}
  SectorSize = 2
  SectorCount = 9
  Boundary = 8
  Alignment = 2
  MaxQueue = 16
  MemorySize = 22
  Requests <- MCRequests
  Scenarios <- MCScenarios
INVARIANTS
  ATypeOK
  TransferredWhenReported
  SyncedWhenReported
PROPERTIES
  DmaConfined
  LockFreed
