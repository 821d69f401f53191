SPECIFICATION SndSpec
CONSTANTS
  None = None
  Scenarios <- Undisturbed
INVARIANTS
  SndTypeOK
  NoOverwrite
  AskedWhenTimely
PROPERTIES
  SoundGoesOn
