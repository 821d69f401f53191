SPECIFICATION MSpec
CONSTANTS
  Boot = Boot
  Doom = Doom
  m1 = m1
  m2 = m2
  u1 = u1
  u2 = u2
  d1 = d1
  d2 = d2
  d3 = d3
  d4 = d4
  None = None
  Tasks = {Boot, Doom, m1, m2}
  Mounters = {m1, m2}
  Devices = {u1, u2}
  Drivers = {d1, d2, d3, d4}
  Slots = {"s1"}
  Nul = "nul"
  MscSlots = {0, 1}
  SlotLetter <- MCSlotLetter
  Chars <- MCChars
  Alnum <- MCAlnum
  Upper <- MCUpper
  Setups <- MCSetups
  Scenarios <- CalmScenarios
INVARIANTS
  MTypeOK
  SlotsConsistent
  NoTaskUsesFreed
  DoomFindsE
  SticksMounted
SYMMETRY Symmetry
