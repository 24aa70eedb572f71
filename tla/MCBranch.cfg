SPECIFICATION BranchSpec
CONSTANTS
  NumBlocks = 4
  EmptyBlocks = {3}
  CondOp <- BlockOpcodes
  Tables <- BlockTables
  MaxSplits = 1
INVARIANTS
  BranchTypeOK
  FlowPreserved
  EdgesCoverCode
  FoldedCompletely
PROPERTY
  FoldingTerminates
