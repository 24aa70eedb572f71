---------------------------- MODULE MCActivation ----------------------------
(***************************************************************************)
(* RigelActivation for model checking.                                     *)
(***************************************************************************)
EXTENDS RigelActivation
=============================================================================
