SPECIFICATION FairSpec
CONSTANTS
  RegSize = 4
  StackAlign = 4
  NumArgRegs = 2
  NumCSRs = 2
  Sizes = {1, 6}
  Aligns = {1, 8}
  DynAligns = {8}
  FPElimOff = {FALSE, TRUE}
  FormalCounts = {0, 1, 3}
  CallCounts = {0, 3}
  CallVarArgs = {FALSE, TRUE}
  MaxObjs = 2
  MaxFixed = 3
INVARIANTS
  TypeOK
  FrameObjectsDisjoint
  ObjectsInsideFrame
  IncomingArgsWhereCallerPutThem
  LayoutInv
PROPERTY
  PlacedObjectsStay
  LayoutCompletes
CHECK_DEADLOCK FALSE
