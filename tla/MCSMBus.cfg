SPECIFICATION SFairSpec
CONSTANTS
  t1 = t1
  t2 = t2
  None = None
  Tasks = {t1, t2}
  Calls <- MCCalls
  Bytes = {"x", "y"}
  Counts = {3, 5}
  Addresses = {"smc", "rom", "gone"}
  Present = {"smc", "rom"}
  Commands = {"r"}
INVARIANTS
  STypeOK
PROPERTIES
  QuietWhileBusy
  LockReleased
  AtomicCalls
