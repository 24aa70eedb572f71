SPECIFICATION Spec
CONSTANTS
  Half = 4
  Consts <- MCConsts
  AddImms <- Word
  IntOperands <- Word
  FPOperands = {0, 1, 2}
  FPSetCCs <- MCFPSetCCs
  FPBrConds <- MCFPBrConds
INVARIANT
  ImmediatesReadBack
CHECK_DEADLOCK FALSE
