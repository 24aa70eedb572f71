---------------------------- MODULE ByteMemory ----------------------------
(***************************************************************************)
(* What the code generator promises to a program that runs on several      *)
(* cores: a memory of bytes.  A store writes its bytes, possibly in two    *)
(* parts, and leaves every other byte alone.  The exception is a word on   *)
(* which stores of two cores overlapped in time: Rigel has no byte store,  *)
(* and there an update of a neighbouring byte may be lost.                 *)
(***************************************************************************)
EXTENDS Integers

CONSTANTS Core,   \* the cores that share the memory
          Address,\* the byte addresses
          Byte    \* the values of a byte

VARIABLES
  bytes,     \* [Address -> Byte]
  held,      \* [Address -> SUBSET Byte], the values stored to each byte
  stores,    \* [Core -> set of <<address, byte>> that a running store has left]
  claimed,   \* [Core -> set of words that the running store touches]
  overlapped \* the words on which stores of two cores ran at the same time

abstractVars == <<bytes, held, stores, claimed, overlapped>>

Word(x) == x - (x % 4)

Start ==
  /\ bytes \in [Address -> Byte]
  /\ held = [x \in Address |-> {bytes[x]}]
  /\ stores = [c \in Core |-> {}]
  /\ claimed = [c \in Core |-> {}]
  /\ overlapped = {}

Touched(store) == {Word(p[1]) : p \in store}

\* A store of any bytes, each with one value, begins.
BeginStore(c) ==
  /\ stores[c] = {} /\ claimed[c] = {}
  /\ stores'[c] \subseteq Address \X Byte /\ stores'[c] # {}
  /\ \A p, q \in stores'[c] : p[1] = q[1] => p = q
  /\ stores' = [stores EXCEPT ![c] = stores'[c]]
  /\ claimed' = [claimed EXCEPT ![c] = Touched(stores'[c])]
  /\ overlapped' = overlapped \cup
                   (claimed'[c] \cap UNION {claimed[d] : d \in Core \ {c}})
  /\ UNCHANGED <<bytes, held>>

\* The part of the store that falls into word w.  Only a word with overlapping
\* stores may see one of its other bytes go back to a value it once held.
WritePart(c, w) ==
  LET part == {p \in stores[c] : Word(p[1]) = w}
  IN  /\ part # {}
      /\ \A x \in Address :
           \/ <<x, bytes'[x]>> \in part /\ held'[x] = held[x] \cup {bytes'[x]}
           \/ /\ \A p \in part : p[1] # x
              /\ held'[x] = held[x]
              /\ \/ bytes'[x] = bytes[x]
                 \/ Word(x) = w /\ w \in overlapped /\ bytes'[x] \in held[x]
      /\ bytes' \in [Address -> Byte] /\ held' \in [Address -> SUBSET Byte]
      /\ stores' = [stores EXCEPT ![c] = @ \ part]
      /\ claimed' = [claimed EXCEPT ![c] = IF stores'[c] = {} THEN {} ELSE @]
      /\ UNCHANGED overlapped

\* A store of an aligned word starts and ends in one step.
StoreWord(c, w) ==
  /\ stores[c] = {} /\ claimed[c] = {}
  /\ overlapped' = overlapped \cup
                   ({w} \cap UNION {claimed[d] : d \in Core \ {c}})
  /\ \A x \in Address :
       IF Word(x) = w THEN held'[x] = held[x] \cup {bytes'[x]}
                      ELSE bytes'[x] = bytes[x] /\ held'[x] = held[x]
  /\ bytes' \in [Address -> Byte] /\ held' \in [Address -> SUBSET Byte]
  /\ UNCHANGED <<stores, claimed>>

Step == \E c \in Core :
          \/ BeginStore(c)
          \/ \E w \in {Word(x) : x \in Address} : WritePart(c, w) \/ StoreWord(c, w)

Spec == Start /\ [][Step]_abstractVars
===========================================================================
