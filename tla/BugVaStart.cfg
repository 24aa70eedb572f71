SPECIFICATION RunSpec
CONSTANTS
  RegSize = 4
  StackAlign = 4
  NumArgRegs = 2
  NumCSRs = 1
  Sizes = {6}
  Aligns = {1, 8}
  DynAligns = {}
  FPElimOff = {FALSE, TRUE}
  FormalCounts = {1, 2, 3}
  CallCounts = {3}
  CallVarArgs = {FALSE, TRUE}
  MaxObjs = 1
  MaxFixed = 3
  ImmHalf = 128
  MemBelow = 64
  MemHigh = 20
  ActualArgs = 4
  EntrySP = 4
  DynSizes = {}
  UseAT = FALSE
INVARIANT VaStartFindsArguments
