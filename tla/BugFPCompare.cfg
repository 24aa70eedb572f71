SPECIFICATION Spec
CONSTANTS
  Half = 4
  Consts <- MCConsts
  AddImms <- SomeAddImms
  IntOperands <- Word
  FPOperands = {0, 1, 2}
  FPSetCCs <- AllFPSetCCs
  FPBrConds <- MCFPBrConds
INVARIANT
  ComputesNodeValue
CHECK_DEADLOCK FALSE
