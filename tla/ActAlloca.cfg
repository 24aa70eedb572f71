SPECIFICATION RunSpec
CONSTANTS
  RegSize = 4
  StackAlign = 4
  NumArgRegs = 2
  NumCSRs = 1
  Sizes = {6}
  Aligns = {1, 8}
  DynAligns = {4, 16}
  FPElimOff = {FALSE, TRUE}
  FormalCounts = {1, 3}
  CallCounts = {3}
  CallVarArgs = {FALSE, TRUE}
  MaxObjs = 2
  MaxFixed = 3
  ImmHalf = 128
  MemBelow = 80
  MemHigh = 20
  ActualArgs = 4
  EntrySP = 4
  DynSizes = {5}
  UseAT = FALSE
INVARIANTS
  RunInv
  ReturnRestoresCaller
  LocalsKeepValues
  ArgumentsArrive
  AllocaKeepsValues
PROPERTY
  ImplementsABI
