SPECIFICATION Spec
CONSTANTS
  Half = 4
  Consts <- MCConsts
  AddImms <- MCAddImms
  IntOperands <- Word
  FPOperands = {0, 1, 2}
  FPSetCCs <- MCFPSetCCs
  FPBrConds <- MCFPBrConds
INVARIANTS
  SelectTypeOK
  ComputesNodeValue
  BranchTakenIffHolds
  ImmediatesReadBack
  NoPseudoPrinted
CHECK_DEADLOCK FALSE
