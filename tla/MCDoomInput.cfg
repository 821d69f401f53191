SPECIFICATION ISpec
CONSTANTS
  p1 = p1
  p2 = p2
  None = None
  Pads = {p1, p2}
  MaxEvents = 4
  WeaponKeys = {"1", "2"}
  Scenarios <- MCScenarios
INVARIANTS
  InputTypeOK
  RingIsQueue
  NoKeyStuck
PROPERTIES
  RestReleases
