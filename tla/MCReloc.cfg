SPECIFICATION Spec
CONSTANTS
  Half = 4
  Section = "sec"
  Local <- MCLocal
  SymValue <- MCSymValue
  Global = {"g"}
  Final <- MCFinal
  Offsets = {0, 3}
  MaxInsns = 5
INVARIANTS
  RelocTypeOK
  AddressesResolved
  HiMeetsItsLo
PROPERTY
  OnlyHighPartsMove
CHECK_DEADLOCK FALSE
