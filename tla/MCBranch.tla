------------------------------ MODULE MCBranch ------------------------------
(* Four blocks: which may end in a conditional branch, with which opcode,  *)
(* and the jump tables of block 2.                                         *)
EXTENDS RigelBranch

BlockOpcodes == (1 :> "BGT") @@ (3 :> "BEQ")
BlockTables == {<<4, 3>>}
=============================================================================
