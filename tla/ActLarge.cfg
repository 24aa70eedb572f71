SPECIFICATION RunSpec
CONSTANTS
  RegSize = 4
  StackAlign = 4
  NumArgRegs = 3
  NumCSRs = 1
  Sizes = {6}
  Aligns = {1, 8}
  DynAligns = {}
  FPElimOff = {FALSE, TRUE}
  FormalCounts = {1, 4}
  CallCounts = {4}
  CallVarArgs = {FALSE, TRUE}
  MaxObjs = 2
  MaxFixed = 4
  ImmHalf = 16
  MemBelow = 64
  MemHigh = 20
  ActualArgs = 5
  EntrySP = 4
  DynSizes = {}
  UseAT = TRUE
INVARIANTS
  RunTypeOK
  ReturnRestoresCaller
  LocalsKeepValues
  ArgumentsArrive
  CalleeFindsArguments
  CallerFrameIntact
  VaListInOrder
