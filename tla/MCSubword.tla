----------------------------- MODULE MCSubword -----------------------------
(* Two cores, two words, bytes of one bit.                                 *)
EXTENDS RigelSubword

CONSTANTS c1, c2

\* Loads at every offset within a word: all types, extensions and truthful
\* alignments, at unknown addresses and at offsets from a frame index, negative ones too.
MCLoads ==
  {a \in [op : {"load"}, vt : {1, 2, 4}, addr : 0..4, align : {1, 4},
          frame : BOOLEAN, off : {-3, -1, 0, 2},
          ext : {"SEXTLOAD", "ZEXTLOAD", "EXTLOAD"}, val : {[i \in Position |-> Zero]}] :
     /\ Truthful(a)
     /\ a.vt = 4 => a.ext = "EXTLOAD"
     /\ ~a.frame => a.off = 0}

Store(vt, addr, align, b) ==
  [op |-> "store", vt |-> vt, addr |-> addr, align |-> align, frame |-> FALSE,
   off |-> 0, ext |-> "EXTLOAD", val |-> [i \in Position |-> b]]

\* Byte stores, halfwords inside a word and across two, words aligned or not.
MCStores ==
  {Store(1, 1, 1, Ones), Store(1, 2, 1, Ones), Store(2, 3, 1, Ones),
   Store(4, 2, 1, Ones), Store(4, 4, 4, Ones)}

\* The members of an aggregate that is stored, and the load and the store of an
\* expanded memcpy, are on one chain.
MCGroups ==
  {{Store(1, 1, 1, Zero), Store(1, 2, 1, Ones)},
   {Store(1, 0, 1, Ones),
    [Store(2, 3, 1, Zero) EXCEPT !.op = "load", !.frame = TRUE, !.off = -1]}}

MCPrograms == [c \in Core |-> IF c = c1 THEN MCGroups \cup {{a} : a \in MCLoads}
                                       ELSE {{a} : a \in MCStores}]

MCInitWords == {[i \in Position |-> IF i = 1 THEN Ones ELSE Zero]}
=============================================================================
