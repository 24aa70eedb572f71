CONSTANTS
  c1 = c1
  c2 = c2
  Core = {c1, c2}
  b7 = b7
  Bit = {b7}
  SignBit = b7
  NumWords = 2
  MaxChains = 3
  Programs <- MCPrograms
  InitWords <- MCInitWords
SPECIFICATION Spec
INVARIANTS
  SubwordTypeOK
  OnlyOwnWords
  LoadsReturnBytes
  NoForeignValues
PROPERTY
  ImplementsByteMemory
CHECK_DEADLOCK FALSE
