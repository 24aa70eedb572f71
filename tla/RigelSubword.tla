--------------------------- MODULE RigelSubword ---------------------------
(***************************************************************************)
(* Byte, halfword and unaligned word accesses of llvm-2.8's Rigel target.  *)
(* The machine loads and stores aligned words only.  LowerLOAD turns every *)
(* other load into word loads, shifts and a mask, or a library call;       *)
(* LowerSTORE turns every other store into a library call that loads,      *)
(* modifies and stores the words it touches.  Several cores run the        *)
(* lowered code on one memory.                                             *)
(*                                                                         *)
(* A byte is a set of bits and a word a function from byte positions       *)
(* (little endian) to bytes, so that OR is a union and the shifts, which   *)
(* are all by whole bytes, move positions.                                 *)
(***************************************************************************)
EXTENDS Integers, FiniteSets

CONSTANTS
  Core,      \* the cores that share the memory
  Bit,       \* the bits of a byte
  SignBit,   \* the most significant one
  NumWords,  \* words of memory
  MaxChains, \* bound on the chains that all cores together run
  InitWords, \* contents a word may have initially
  Programs   \* [core -> the groups of accesses it may have on one chain]

ASSUME BitAssumption == SignBit \in Bit
ASSUME NumWordsAssumption == NumWords \in Nat \ {0}

Byte == SUBSET Bit
Zero == {}
Ones == Bit
Position == 0..3
WordValue == [Position -> Byte]
Address == 0..(4 * NumWords - 1)
WordAddress == {x \in Address : x % 4 = 0}

ASSUME MaxChainsAssumption == MaxChains \in Nat
ASSUME InitWordsAssumption == InitWords \subseteq WordValue

VARIABLES
  mem,       \* the words of memory, by address
  todo,      \* [core -> accesses on the current chain that have not finished]
  call,      \* [core -> the access whose library call is running, as a set]
  got,       \* [core -> <<access, word address, value>> of the words loaded]
  written,   \* [core -> words that the running call has stored]
  chains,    \* the number of chains started
  result,    \* [core -> <<load, value>> of the loads that have finished]
  held,      \* ghost: [byte -> values it has been given]
  window,    \* ghost: [core -> values each byte had since the chain started]
  overlapped \* ghost: words on which stores of two cores ran at the same time

vars == <<mem, todo, call, got, written, chains, result, held, window,
          overlapped>>

---------------------------------------------------------------------------
(* Accesses.  op is "load" or "store", vt the memory type's size in bytes, *)
(* addr the address that basePtr has at run time, align the alignment that *)
(* the node claims.  frame says that the address has the form that         *)
(* IsWordAlignedBasePlusConstantOffset accepts, a frame index plus the     *)
(* constant off.                                                           *)

WordOf(x) == x - (x % 4)                            \* AND with ~3
Span(a) == a.addr .. (a.addr + a.vt - 1)          \* the bytes of the access
SpanWords(a) == {WordOf(x) : x \in Span(a)}

IsAccess(a) ==
  a \in [op : {"load", "store"}, vt : {1, 2, 4}, addr : Nat, align : {1, 2, 4},
         frame : BOOLEAN, off : Int, ext : {"SEXTLOAD", "ZEXTLOAD", "EXTLOAD"},
         val : WordValue]

\* Truthful nodes: the claimed alignment holds, and a frame index is word
\* aligned.
Truthful(a) ==
  /\ a.addr \in Address /\ a.addr + a.vt - 1 \in Address
  /\ a.addr % a.align = 0
  /\ a.frame => (a.addr - a.off) % 4 = 0

\* Accesses on one chain may be scheduled in any order: the program has a store
\* there only if it does not meet another access of the chain.
Independent(g) ==
  \A a, b \in g : (a # b /\ a.op = "store") => Span(a) \cap Span(b) = {}

ASSUME ProgramsAssumption ==
  \A c \in Core : \A g \in Programs[c] :
    Independent(g) /\ \A a \in g : IsAccess(a) /\ Truthful(a)

Accesses == UNION UNION {Programs[c] : c \in Core}

---------------------------------------------------------------------------
(* The machine's operations on words, for shift amounts 8 * k.             *)

Srl(w, k) == [i \in Position |-> IF i + k \in Position THEN w[i + k] ELSE Zero]
Shl(w, k) == [i \in Position |-> IF i - k \in Position THEN w[i - k] ELSE Zero]
Or(v, w) == [i \in Position |-> v[i] \cup w[i]]
\* AND with 0xFF (vt = 1) or 0xFFFF (vt = 2)
ZeroExtendInReg(w, vt) == [i \in Position |-> IF i < vt THEN w[i] ELSE Zero]
SignExtendInReg(w, vt) ==
  [i \in Position |-> IF i < vt THEN w[i]
                      ELSE IF SignBit \in w[vt - 1] THEN Ones ELSE Zero]

---------------------------------------------------------------------------
(* LowerLOAD.                                                              *)

\* Mutant: every base plus constant offset is taken to be word aligned.
AnyBasePlusConstantOffset(a) == TRUE

IsWordAlignedBasePlusConstantOffset(a) == a.frame

\* base + (offset & ~3) for the address base + offset
LowAddr(a) == (a.addr - a.off) + (a.off - (a.off % 4))

\* The word loads on the access's chain; the operands of a TokenFactor are not
\* ordered.  Those of __unalignedldi32 and __unalignedldi16 are external.
InlineLoad(a) ==
  a.op = "load" /\ (a.vt = 1 \/ a.align >= 4 \/ IsWordAlignedBasePlusConstantOffset(a))

CrossesWords(a) ==
  IF a.vt = 4 THEN a.off % 4 # 0 ELSE a.off % 4 = 3

LoadWords(a) ==
  CASE a.align >= 4 -> {a.addr}
    [] a.align < 4 /\ a.vt = 1 -> {WordOf(a.addr)}
    [] a.align < 4 /\ a.vt > 1 /\ IsWordAlignedBasePlusConstantOffset(a) ->
         IF CrossesWords(a) THEN {LowAddr(a), LowAddr(a) + 4} ELSE {LowAddr(a)}
    [] OTHER -> SpanWords(a)

\* What the library calls return, external: the bytes, zero extended.
UnalignedLoad(a, m) ==
  [i \in Position |->
     IF i < a.vt THEN m[WordOf(a.addr + i)][(a.addr + i) % 4] ELSE Zero]

\* The value before extension.  A byte load shifts by addr << 3, of which the
\* shift instruction uses the five low bits: a byte count of addr % 4.
LoadedWord(a, m) ==
  LET k == a.off % 4
  IN  CASE a.align >= 4 -> m[a.addr]
        [] a.align < 4 /\ a.vt = 1 -> Srl(m[WordOf(a.addr)], a.addr % 4)
        [] a.align < 4 /\ a.vt > 1 /\ IsWordAlignedBasePlusConstantOffset(a) ->
             IF CrossesWords(a)
             THEN Or(Srl(m[LowAddr(a)], k), Shl(m[LowAddr(a) + 4], 4 - k))
             ELSE Srl(m[LowAddr(a)], k)
        [] OTHER -> UnalignedLoad(a, m)

\* Mutant: the upper bytes of a halfword that spans two words are not cleared.
LoadResultGarbage(a, m) ==
  LET w == LoadedWord(a, m)
  IN  IF a.vt = 4 \/ (a.vt = 2 /\ a.ext # "SEXTLOAD") THEN w
      ELSE IF a.ext = "SEXTLOAD" THEN SignExtendInReg(w, a.vt)
      ELSE ZeroExtendInReg(w, a.vt)

\* Extension of the scalar result; an any-extending load is masked as well.
LoadResult(a, m) ==
  LET w == LoadedWord(a, m)
  IN  IF a.vt = 4 THEN w
      ELSE IF a.ext = "SEXTLOAD" THEN SignExtendInReg(w, a.vt)
      ELSE ZeroExtendInReg(w, a.vt)

---------------------------------------------------------------------------
(* LowerSTORE.                                                             *)

PlainStore(a) == a.op = "store" /\ a.vt = 4 /\ a.align >= 4

\* Mutant: the library call stores a word with the bytes it does not own cleared.
MergeDropsNeighbours(a, w, old) ==
  [i \in Position |-> IF w + i \in Span(a) THEN a.val[w + i - a.addr] ELSE Zero]

\* The word that __sti8, __unalignedsti16 and __unalignedsti32 store back,
\* external: the loaded word with the bytes of the access replaced.
Merge(a, w, old) ==
  [i \in Position |-> IF w + i \in Span(a) THEN a.val[w + i - a.addr] ELSE old[i]]

---------------------------------------------------------------------------
\* The bytes of memory m.
Bytes(m) == [x \in Address |-> m[WordOf(x)][x % 4]]

Init ==
  /\ mem \in [WordAddress -> InitWords]
  /\ todo = [c \in Core |-> {}]
  /\ call = [c \in Core |-> {}]
  /\ got = [c \in Core |-> {}]
  /\ written = [c \in Core |-> {}]
  /\ chains = 0
  /\ result = [c \in Core |-> {}]
  /\ held = [x \in Address |-> {Bytes(mem)[x]}]
  /\ window = [c \in Core |-> held]
  /\ overlapped = {}

Got(c, a) == [w \in LoadWords(a) |-> CHOOSE v \in WordValue : <<a, w, v>> \in got[c]]
Loaded(c, a) == {w \in WordAddress : \E v \in WordValue : <<a, w, v>> \in got[c]}

\* Words that the store called by core c touches, and those of them on which
\* another core is at work.
Claimed(c) == UNION {SpanWords(a) : a \in {b \in call[c] : b.op = "store"}}
Contested(c, words) == words \cap UNION {Claimed(d) : d \in Core \ {c}}

\* Mutant: the load/modify/store sequences of one chain are expanded inline and
\* scheduled freely.
MayCallAnytime(c) == TRUE

\* Calls are lowered one after the other (the CALLSEQ nodes order them): a call
\* runs to its end before its core does anything else.
MayCall(c) == call[c] = {}

\* A word load of an inline load, or of a library call: w is any word that the
\* lowered code has not loaded yet.
LoadWord(c, a, w) ==
  /\ IF InlineLoad(a) THEN MayCall(c) ELSE a \in call[c]
  /\ w \notin Loaded(c, a)
  /\ got' = [got EXCEPT ![c] = @ \cup {<<a, w, mem[w]>>}]
  /\ UNCHANGED <<mem, todo, call, written, chains, result, held, window, overlapped>>

\* Mutant: a call does not return when its access is done.
FinishWithoutReturn(c, a) ==
  /\ todo' = [todo EXCEPT ![c] = @ \ {a}]
  /\ got' = [got EXCEPT ![c] = {t \in @ : t[1] # a}]
  /\ UNCHANGED call

\* The access is done; the registers of its code are dead.
Finish(c, a) ==
  /\ todo' = [todo EXCEPT ![c] = @ \ {a}]
  /\ call' = [call EXCEPT ![c] = @ \ {a}]
  /\ got' = [got EXCEPT ![c] = {t \in @ : t[1] # a}]

\* All words are there: shifts, OR and extension give the value of the load.
FinishLoad(c, a) ==
  /\ a.op = "load" /\ Loaded(c, a) = LoadWords(a)
  /\ result' = [result EXCEPT ![c] = @ \cup {<<a, LoadResult(a, Got(c, a))>>}]
  /\ Finish(c, a)
  /\ UNCHANGED <<mem, written, chains, held, window, overlapped>>

\* A call of __unalignedldi32, __unalignedldi16, __unalignedsti32,
\* __unalignedsti16 or __sti8.
StartCall(c, a) ==
  /\ ~InlineLoad(a) /\ ~PlainStore(a) /\ MayCall(c) /\ a \notin call[c]
  /\ call' = [call EXCEPT ![c] = @ \cup {a}]
  /\ overlapped' = overlapped \cup
                   (IF a.op = "store" THEN Contested(c, SpanWords(a)) ELSE {})
  /\ UNCHANGED <<mem, todo, got, written, chains, result, held, window>>

\* Word w becomes v, by a store that owns the bytes in own.
SetWord(w, v, own) ==
  /\ mem' = [mem EXCEPT ![w] = v]
  /\ held' = [x \in Address |-> IF x \in own /\ WordOf(x) = w
                                THEN held[x] \cup {v[x % 4]} ELSE held[x]]
  /\ window' = [c \in Core |-> [x \in Address |->
                   IF WordOf(x) = w THEN window[c][x] \cup {v[x % 4]}
                                    ELSE window[c][x]]]

\* A library call stores back a word that it has loaded; after the last one it
\* returns.
StoreBack(c, a, w) ==
  /\ a \in call[c] /\ a.op = "store" /\ w \notin written[c]
  /\ \E v \in WordValue : <<a, w, v>> \in got[c] /\ SetWord(w, Merge(a, w, v), Span(a))
  /\ IF written[c] \cup {w} = SpanWords(a)
     THEN /\ written' = [written EXCEPT ![c] = {}]
          /\ Finish(c, a)
     ELSE /\ written' = [written EXCEPT ![c] = @ \cup {w}]
          /\ UNCHANGED <<call, todo, got>>
  /\ UNCHANGED <<chains, result, overlapped>>

\* LowerSTORE leaves an aligned word to the ordinary store instruction.
StoreAligned(c, a) ==
  /\ PlainStore(a) /\ MayCall(c)
  /\ SetWord(a.addr, a.val, Span(a))
  /\ todo' = [todo EXCEPT ![c] = @ \ {a}]
  /\ overlapped' = overlapped \cup Contested(c, {a.addr})
  /\ UNCHANGED <<call, got, written, chains, result>>

\* The next chain starts when the last one is done (TokenFactor of its accesses).
NextChain(c) ==
  /\ todo[c] = {} /\ chains < MaxChains
  /\ chains' = chains + 1
  /\ \E g \in Programs[c] : todo' = [todo EXCEPT ![c] = g]
  /\ result' = [result EXCEPT ![c] = {}]
  /\ window' = [window EXCEPT ![c] = [x \in Address |-> {Bytes(mem)[x]}]]
  /\ UNCHANGED <<mem, call, got, written, held, overlapped>>

Next == \E c \in Core :
  \/ \E a \in todo[c] :
       \/ \E w \in (IF a.op = "load" THEN LoadWords(a) ELSE SpanWords(a)) :
            ~PlainStore(a) /\ LoadWord(c, a, w)
       \/ FinishLoad(c, a)
       \/ StartCall(c, a)
       \/ \E w \in SpanWords(a) : StoreBack(c, a, w)
       \/ StoreAligned(c, a)
  \/ NextChain(c)

Spec == Init /\ [][Next]_vars

---------------------------------------------------------------------------
Triple == Accesses \X WordAddress \X WordValue

\* Types of the machine state and of the ghosts; only accesses of the chain run.
SubwordTypeOK ==
  /\ mem \in [WordAddress -> WordValue]
  /\ todo \in [Core -> SUBSET Accesses] /\ call \in [Core -> SUBSET Accesses]
  /\ \A c \in Core : call[c] \subseteq todo[c]
  /\ got \in [Core -> SUBSET Triple]
  /\ written \in [Core -> SUBSET WordAddress]
  /\ result \in [Core -> SUBSET (Accesses \X WordValue)]
  /\ chains \in 0..MaxChains
  /\ held \in [Address -> SUBSET Byte]
  /\ window \in [Core -> [Address -> SUBSET Byte]]
  /\ overlapped \subseteq WordAddress

\* Rigel does not support any unaligned access (RigelISelLowering.cpp:679): the
\* lowered code of LowerLOAD only loads words that hold a byte of the access,
\* at their aligned addresses.
OnlyOwnWords ==
  \A c \in Core : \A a \in todo[c] :
    a.op = "load" => LoadWords(a) \subseteq SpanWords(a)

\* The value of a finished load (LowerLOAD's shifts, OR and extension) consists
\* of bytes that its own addresses held while its chain ran, whatever the other
\* cores stored meanwhile, extended as the node asks.
LoadsReturnBytes ==
  \A c \in Core : \A r \in result[c] :
    LET a == r[1] v == r[2]
        fill == IF a.ext = "SEXTLOAD" /\ SignBit \in v[a.vt - 1] THEN Ones ELSE Zero
    IN  /\ \A i \in 0..(a.vt - 1) : v[i] \in window[c][a.addr + i]
        /\ a.ext # "EXTLOAD" => \A i \in a.vt..3 : v[i] = fill

\* A byte never holds anything but its initial value or a value stored to that
\* very byte, even where the word-level load/modify/store sequences of
\* LowerSTORE's calls race.
NoForeignValues == \A x \in Address : Bytes(mem)[x] \in held[x]

\* The bytes that the store called by core c has not written yet.
PendingBytes(c) ==
  UNION {{<<x, a.val[x - a.addr]>> : x \in {y \in Span(a) : WordOf(y) \notin written[c]}} :
           a \in {b \in call[c] : b.op = "store"}}

Abstract == INSTANCE ByteMemory WITH
  bytes <- Bytes(mem),
  stores <- [c \in Core |-> PendingBytes(c)],
  claimed <- [c \in Core |-> Claimed(c)]

\* The code that LowerSTORE leaves implements a memory of bytes: a store changes
\* its own bytes only, as long as no store of another core to the same word
\* overlaps it.
ImplementsByteMemory == Abstract!Spec

---------------------------------------------------------------------------
(* The inductive invariant behind the properties.                          *)

\* One call at a time, and the words written are those of the store called.
CallInv ==
  \A c \in Core :
    /\ \A a, b \in call[c] : a = b
    /\ \A w \in written[c] : \E a \in call[c] : a.op = "store" /\ w \in SpanWords(a)

\* Words are loaded for accesses that are under way; those of a store by its
\* call.
GotInv ==
  \A c \in Core : \A a \in Accesses, w \in WordAddress, v \in WordValue :
    <<a, w, v>> \in got[c] =>
      /\ a \in todo[c] /\ w \in SpanWords(a) /\ ~PlainStore(a)
      /\ a.op = "store" => a \in call[c]

\* What is in memory, and what has been loaded from it, was stored to the bytes
\* where it is, and was there while the chain ran.
HistoryInv ==
  /\ \A x \in Address : Bytes(mem)[x] \in held[x]
  /\ \A c \in Core : \A x \in Address : Bytes(mem)[x] \in window[c][x]
  /\ \A c \in Core : \A a \in Accesses, w \in WordAddress, v \in WordValue :
       <<a, w, v>> \in got[c] =>
         \A i \in Position : v[i] \in held[w + i] /\ v[i] \in window[c][w + i]

\* A store that runs alone on a word has a fresh copy of it until it writes it.
FreshInv ==
  /\ \A c, d \in Core : c # d => Claimed(c) \cap Claimed(d) \subseteq overlapped
  /\ \A c \in Core : \A a \in call[c], w \in WordAddress, v \in WordValue :
       a.op = "store" /\ <<a, w, v>> \in got[c] /\ w \notin written[c] /\ w \notin overlapped
         => mem[w] = v

SubwordInv == SubwordTypeOK /\ CallInv /\ GotInv /\ HistoryInv /\ FreshInv /\ LoadsReturnBytes
===========================================================================
