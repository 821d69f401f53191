SPECIFICATION SndSpec
CONSTANTS
  None = None
  Scenarios <- Underruns
INVARIANTS
  AskedForEachBuffer
