SPECIFICATION FairSpec
CONSTANTS
  t1 = t1
  t2 = t2
  d1 = d1
  d2 = d2
  d3 = d3
  None = None
  Tasks = {t1, t2}
  Drivers = {d1, d2, d3}
  Slots = {"s1"}
  Chars <- MCChars
  Alnum <- MCAlnum
  Upper <- MCUpper
  Setups <- MCSetups
INVARIANTS
  TypeOK
  NoUseAfterFree
  LockedSerial
  RegistrationDurable
PROPERTIES
  LetterStable
  CallsReturn
