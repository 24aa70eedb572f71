------------------------------ MODULE MCSelect ------------------------------
(* A field of two bits: the words are 0..15, and -8..7 when signed.        *)
EXTENDS RigelSelect

\* Constants of every class: 0, 1 and -1, small positive and negative ones,
\* a zero-extended one, an upper half, and one that needs both halves
MCConsts == {0, 1, 2, 8, 6, 15}
\* The constants that are not sign-extended fields but zero-extended ones
BadAddImms == {2, 3}
MCAddImms == Word \ BadAddImms
SomeAddImms == {1, 6, 15}

AllFPSetCCs == DOMAIN FPCompare \cup {"seto", "setuo"}
MCFPSetCCs == AllFPSetCCs \ {"setogt", "setoge"}
MCFPBrConds == AllFPSetCCs \cup {"setgt", "setge"}
=============================================================================
