------------------------------ MODULE MCReloc ------------------------------
(* A field of two bits: the addresses are 0..15.                           *)
EXTENDS RigelReloc

\* Two local labels of one section, one with an address whose low half is
\* negative, and a global symbol.
MCLocal == {"l1", "l2"}
MCSymValue == [s \in MCLocal |-> IF s = "l1" THEN 2 ELSE 5]
MCFinal == [s \in {"g", "sec"} |-> IF s = "g" THEN 6 ELSE 5]
=============================================================================
