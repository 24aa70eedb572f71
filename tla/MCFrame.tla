------------------------------- MODULE MCFrame -------------------------------
(* Small frames: two argument registers, at most two stack objects before  *)
(* PEI, at most four fixed objects.                                        *)
EXTENDS RigelFrame
=============================================================================
