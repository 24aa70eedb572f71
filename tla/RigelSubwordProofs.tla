------------------------- MODULE RigelSubwordProofs -------------------------
(***************************************************************************)
(* The code that LowerLOAD and LowerSTORE leave is correct for every       *)
(* number of cores and words, every contents of memory and every program   *)
(* of truthful accesses: loads return bytes of their own addresses, no     *)
(* byte gets a value that was not stored to it, and the whole implements   *)
(* the abstract memory of bytes.                                           *)
(***************************************************************************)
EXTENDS RigelSubword, TLAPS

(***************************************************************************)
(* Addresses.                                                              *)
(***************************************************************************)

\* Every address is a word address plus a position in the word.
LEMMA AddressParts ==
  ASSUME NEW x \in Address
  PROVE  /\ x \in Nat /\ x % 4 \in Position
         /\ WordOf(x) \in WordAddress
         /\ WordOf(x) + (x % 4) = x
  BY NumWordsAssumption DEF Address, Position, WordOf, WordAddress

\* The four bytes of a word are addresses of that word.
LEMMA WordParts ==
  ASSUME NEW w \in WordAddress, NEW i \in Position
  PROVE  /\ w \in Address /\ w \in Nat
         /\ w + i \in Address
         /\ WordOf(w + i) = w
         /\ (w + i) % 4 = i
  BY NumWordsAssumption DEF Address, Position, WordOf, WordAddress

\* The word of a byte at most three bytes further on is the same or the next.
LEMMA NextWord ==
  ASSUME NEW x \in Nat, NEW d \in Position
  PROVE  /\ (x % 4) + d < 4 => WordOf(x + d) = WordOf(x)
         /\ (x % 4) + d >= 4 => WordOf(x + d) = WordOf(x) + 4
  BY DEF Position, WordOf

\* A word of bytes.
LEMMA WordValueParts ==
  ASSUME NEW v \in WordValue, NEW i \in Position
  PROVE  v[i] \in Byte
  BY DEF WordValue

(***************************************************************************)
(* Accesses.                                                               *)
(***************************************************************************)

\* What the program guarantees about each of its accesses.
LEMMA AccessFacts ==
  ASSUME NEW a \in Accesses
  PROVE  IsAccess(a) /\ Truthful(a)
  <1>1. PICK c \in Core : \E g \in Programs[c] : a \in g
    BY DEF Accesses
  <1> QED
    BY <1>1, ProgramsAssumption

\* The fields of an access.
LEMMA AccessFields ==
  ASSUME NEW a \in Accesses
  PROVE  /\ a.op \in {"load", "store"} /\ a.vt \in {1, 2, 4} /\ a.addr \in Nat
         /\ a.align \in {1, 2, 4} /\ a.frame \in BOOLEAN /\ a.off \in Int
         /\ a.val \in WordValue
         /\ a.addr \in Address /\ a.addr + a.vt - 1 \in Address
         /\ a.addr % a.align = 0
         /\ a.frame => (a.addr - a.off) % 4 = 0
  <1>1. IsAccess(a) /\ Truthful(a)
    BY AccessFacts
  <1> QED
    BY <1>1 DEF IsAccess, Truthful

\* The bytes of an access are in memory, and so are the words that hold them.
LEMMA SpanFacts ==
  ASSUME NEW a \in Accesses
  PROVE  /\ Span(a) \subseteq Address /\ a.addr \in Span(a)
         /\ SpanWords(a) \subseteq WordAddress
         /\ \A x \in Span(a) : x - a.addr \in Position
         /\ \A i \in 0..(a.vt - 1) : a.addr + i \in Span(a) /\ i \in Position
  <1>1. Span(a) \subseteq Address
    BY AccessFields, NumWordsAssumption DEF Span, Address
  <1>2. SpanWords(a) \subseteq WordAddress
    BY <1>1, AddressParts DEF SpanWords
  <1>3. a.addr \in Nat /\ a.vt \in {1, 2, 4}
    BY AccessFields
  <1> QED
    BY <1>1, <1>2, <1>3 DEF Span, Position

\* The word that holds a byte of an access: the first or the next one.
LEMMA SpanWord ==
  ASSUME NEW a \in Accesses, NEW x \in Span(a)
  PROVE  WordOf(x) = IF (a.addr % 4) + (x - a.addr) < 4 THEN WordOf(a.addr)
                                                         ELSE WordOf(a.addr) + 4
  <1>1. a.addr \in Nat /\ x \in Int /\ x - a.addr \in Position
    BY AccessFields, SpanFacts DEF Span
  <1>2. a.addr + (x - a.addr) = x /\ a.addr % 4 \in 0..3
    BY <1>1
  <1> QED
    BY <1>1, <1>2, NextWord DEF Position

\* The word of base + (offset & ~3) is the word of base + offset, because the
\* base is a word address (LowerLOAD, IsWordAlignedBasePlusConstantOffset).
LEMMA LowAddrFacts ==
  ASSUME NEW a \in Accesses, a.frame
  PROVE  LowAddr(a) = WordOf(a.addr) /\ a.off % 4 = a.addr % 4
  <1>1. a.addr \in Nat /\ a.off \in Int /\ (a.addr - a.off) % 4 = 0
    BY AccessFields
  <1> QED
    BY <1>1 DEF LowAddr, WordOf

\* The word loads that LowerLOAD makes are exactly of the words that hold the
\* bytes of the load.
LEMMA LoadWordsExact ==
  ASSUME NEW a \in Accesses
  PROVE  LoadWords(a) = SpanWords(a)
  <1>1. /\ a.addr \in Nat /\ a.vt \in {1, 2, 4} /\ a.align \in {1, 2, 4}
        /\ a.frame \in BOOLEAN /\ a.off \in Int /\ a.addr % a.align = 0
    BY AccessFields
  <1>2. CASE a.align >= 4
    <2>1. a.addr % 4 = 0
      BY <1>1, <1>2
    <2>2. \A x \in Span(a) : WordOf(x) = a.addr
      <3>1. WordOf(a.addr) = a.addr
        BY <1>1, <2>1 DEF WordOf
      <3> QED
        BY <1>1, <2>1, <3>1, SpanWord DEF Span
    <2>3. SpanWords(a) = {a.addr}
      BY <2>2, SpanFacts DEF SpanWords
    <2>4. LoadWords(a) = {a.addr}
      BY <1>1, <1>2 DEF LoadWords
    <2> QED
      BY <2>3, <2>4
  <1>3. CASE a.align < 4 /\ a.vt = 1
    <2>1. Span(a) = {a.addr}
      BY <1>1, <1>3 DEF Span
    <2> QED
      BY <1>1, <1>3, <2>1 DEF LoadWords, SpanWords
  <1>4. CASE a.align < 4 /\ a.vt > 1 /\ a.frame
    <2>1. LowAddr(a) = WordOf(a.addr) /\ a.off % 4 = a.addr % 4
      BY <1>4, LowAddrFacts
    <2>2. LoadWords(a) = IF CrossesWords(a) THEN {LowAddr(a), LowAddr(a) + 4}
                                             ELSE {LowAddr(a)}
      BY <1>1, <1>4 DEF LoadWords, IsWordAlignedBasePlusConstantOffset
    <2>3. CASE CrossesWords(a)
      <3>1. \A x \in Span(a) : WordOf(x) \in {WordOf(a.addr), WordOf(a.addr) + 4}
        BY SpanWord
      <3>2. a.addr + a.vt - 1 \in Span(a)
            /\ (a.addr % 4) + a.vt - 1 >= 4
        BY <1>1, <1>4, <2>1, <2>3 DEF Span, CrossesWords
      <3>4. WordOf(a.addr + a.vt - 1) = WordOf(a.addr) + 4
        BY <1>1, <3>2, SpanWord
      <3>3. a.addr \in Span(a)
        BY SpanFacts
      <3> QED
        BY <2>1, <2>2, <2>3, <3>1, <3>2, <3>3, <3>4 DEF SpanWords
    <2>4. CASE ~CrossesWords(a)
      <3>1. (a.addr % 4) + a.vt - 1 < 4
        BY <1>1, <1>4, <2>1, <2>4 DEF CrossesWords
      <3>3. \A x \in Span(a) : WordOf(x) = WordOf(a.addr)
        BY <1>1, <3>1, SpanWord DEF Span
      <3>2. a.addr \in Span(a)
        BY SpanFacts
      <3> QED
        BY <2>1, <2>2, <2>4, <3>2, <3>3 DEF SpanWords
    <2> QED
      BY <2>3, <2>4
  <1>5. CASE a.align < 4 /\ a.vt > 1 /\ ~a.frame
    BY <1>1, <1>5 DEF LoadWords, IsWordAlignedBasePlusConstantOffset
  <1> QED
    BY <1>1, <1>2, <1>3, <1>4, <1>5

\* The value that LowerLOAD computes from the words of a load, before it is
\* extended, has the bytes of the load in their order: for every type, alignment
\* and constant offset, shifts and OR pick each byte from its own address.
LEMMA LoadedBytes ==
  ASSUME NEW a \in Accesses, NEW m \in [LoadWords(a) -> WordValue],
         NEW i \in 0..(a.vt - 1)
  PROVE  /\ i \in Position /\ WordOf(a.addr + i) \in LoadWords(a)
         /\ (a.addr + i) % 4 \in Position
         /\ LoadedWord(a, m)[i] = m[WordOf(a.addr + i)][(a.addr + i) % 4]
  <1>1. /\ a.addr \in Nat /\ a.vt \in {1, 2, 4} /\ a.align \in {1, 2, 4}
        /\ a.frame \in BOOLEAN /\ a.off \in Int /\ a.addr % a.align = 0
    BY AccessFields
  <1>2. i \in Position /\ a.addr + i \in Span(a) /\ a.addr + i \in Address
    BY SpanFacts
  <1>3. WordOf(a.addr + i) \in LoadWords(a) /\ (a.addr + i) % 4 \in Position
    BY <1>2, LoadWordsExact, AddressParts DEF SpanWords
  <1>4. WordOf(a.addr + i) = IF (a.addr % 4) + i < 4 THEN WordOf(a.addr)
                                                     ELSE WordOf(a.addr) + 4
    BY <1>1, <1>2, SpanWord DEF Position
  <1>5. (a.addr + i) % 4 = IF (a.addr % 4) + i < 4 THEN (a.addr % 4) + i
                                                   ELSE (a.addr % 4) + i - 4
    BY <1>1, <1>2 DEF Position
  <1>6. LoadedWord(a, m)[i] = m[WordOf(a.addr + i)][(a.addr + i) % 4]
    <2>1. CASE a.align >= 4
      <3>1. a.addr % 4 = 0 /\ (a.addr % 4) + i < 4
        BY <1>1, <1>2, <2>1 DEF Position
      <3>2. WordOf(a.addr) = a.addr
        BY <1>1, <3>1 DEF WordOf
      <3>3. LoadedWord(a, m) = m[a.addr]
        BY <1>1, <2>1 DEF LoadedWord
      <3> QED
        BY <1>2, <1>4, <1>5, <3>1, <3>2, <3>3 DEF Position
    <2>2. CASE a.align < 4 /\ a.vt = 1
      <3>1. LoadedWord(a, m) = Srl(m[WordOf(a.addr)], a.addr % 4)
        BY <1>1, <2>2 DEF LoadedWord
      <3>2. i = 0 /\ a.addr % 4 \in Position
        BY <1>1, <2>2 DEF Position
      <3> QED
        BY <1>2, <1>4, <1>5, <3>1, <3>2 DEF Srl, Position
    <2>3. CASE a.align < 4 /\ a.vt > 1 /\ a.frame
      <3> DEFINE k == a.addr % 4
                 lo == WordOf(a.addr)
      <3>1. LowAddr(a) = lo /\ a.off % 4 = k
        BY <2>3, LowAddrFacts
      <3>2. LoadedWord(a, m) = IF CrossesWords(a)
                               THEN Or(Srl(m[lo], k), Shl(m[lo + 4], 4 - k))
                               ELSE Srl(m[lo], k)
        BY <1>1, <2>3, <3>1 DEF LoadedWord, IsWordAlignedBasePlusConstantOffset
      <3>3. k \in Position
        BY <1>1 DEF Position
      <3>4. lo \in LoadWords(a) /\ (CrossesWords(a) => lo + 4 \in LoadWords(a))
        BY <1>1, <2>3, <3>1 DEF LoadWords, IsWordAlignedBasePlusConstantOffset
      <3>5. CASE CrossesWords(a)
        <4>1. LoadedWord(a, m)[i] = Srl(m[lo], k)[i] \cup Shl(m[lo + 4], 4 - k)[i]
          BY <1>2, <3>2, <3>5 DEF Or
        <4>2. CASE k + i < 4
          <5>1. Srl(m[lo], k)[i] = m[lo][i + k] /\ Shl(m[lo + 4], 4 - k)[i] = {}
            BY <1>2, <3>3, <4>2 DEF Srl, Shl, Position, Zero
          <5> QED
            BY <1>2, <1>4, <1>5, <3>3, <4>1, <4>2, <5>1 DEF Position
        <4>3. CASE k + i >= 4
          <5>1. Srl(m[lo], k)[i] = {} /\ Shl(m[lo + 4], 4 - k)[i] = m[lo + 4][i - (4 - k)]
            BY <1>2, <3>3, <4>3 DEF Srl, Shl, Position, Zero
          <5>2. i - (4 - k) = k + i - 4
            BY <1>2, <3>3 DEF Position
          <5> QED
            BY <1>2, <1>4, <1>5, <3>3, <4>1, <4>3, <5>1, <5>2 DEF Position
        <4> QED
          BY <1>2, <3>3, <4>2, <4>3 DEF Position
      <3>6. CASE ~CrossesWords(a)
        <4>1. k + i < 4
          BY <1>1, <1>2, <2>3, <3>1, <3>3, <3>6 DEF CrossesWords, Position
        <4> QED
          BY <1>2, <1>4, <1>5, <3>2, <3>3, <3>6, <4>1 DEF Srl, Position
      <3> QED
        BY <3>5, <3>6
    <2>4. CASE a.align < 4 /\ a.vt > 1 /\ ~a.frame
      <3>1. LoadedWord(a, m) = UnalignedLoad(a, m)
        BY <1>1, <2>4 DEF LoadedWord, IsWordAlignedBasePlusConstantOffset
      <3> QED
        BY <1>1, <1>2, <3>1 DEF UnalignedLoad, Position
    <2> QED
      BY <1>1, <2>1, <2>2, <2>3, <2>4
  <1> QED
    BY <1>2, <1>3, <1>6

\* The extended value of a load: its own bytes, then the sign or zeros.
LEMMA LoadResultFacts ==
  ASSUME NEW a \in Accesses, NEW m \in [LoadWords(a) -> WordValue]
  PROVE  /\ LoadResult(a, m) \in WordValue
         /\ \A i \in 0..(a.vt - 1) :
              LoadResult(a, m)[i] = m[WordOf(a.addr + i)][(a.addr + i) % 4]
         /\ \A i \in a.vt..3 :
              LoadResult(a, m)[i] = IF a.ext = "SEXTLOAD" /\ SignBit \in LoadResult(a, m)[a.vt - 1]
                                    THEN Ones ELSE Zero
  <1> DEFINE w == LoadedWord(a, m)
             v == LoadResult(a, m)
             ext == a.ext = "SEXTLOAD"
  <1>1. a.vt \in {1, 2, 4} /\ a.align \in {1, 2, 4} /\ a.frame \in BOOLEAN /\ a.addr \in Nat
    BY AccessFields
  <1>2. \A i \in 0..(a.vt - 1) : /\ i \in Position
                                 /\ w[i] = m[WordOf(a.addr + i)][(a.addr + i) % 4]
                                 /\ w[i] \in Byte
    BY LoadedBytes, WordValueParts
  <1>3. v = IF a.vt = 4 THEN w
            ELSE IF ext THEN SignExtendInReg(w, a.vt) ELSE ZeroExtendInReg(w, a.vt)
    BY DEF LoadResult
  <1>4. Ones \in Byte /\ Zero \in Byte
    BY DEF Ones, Zero, Byte
  <1>5. CASE a.vt = 4
    <2>1. w \in WordValue
      <3>1. CASE a.align >= 4
        BY <1>1, <1>5, <3>1, LoadedBytes DEF LoadedWord, LoadWords
      <3>2. CASE a.align < 4 /\ a.frame
        <4>1. w = IF CrossesWords(a)
                  THEN Or(Srl(m[LowAddr(a)], a.off % 4), Shl(m[LowAddr(a) + 4], 4 - (a.off % 4)))
                  ELSE Srl(m[LowAddr(a)], a.off % 4)
          BY <1>1, <1>5, <3>2 DEF LoadedWord, IsWordAlignedBasePlusConstantOffset
        <4>2. \E f : w = [j \in Position |-> f[j]]
          <5>1. CASE CrossesWords(a)
            <6> DEFINE f == [j \in Position |-> Srl(m[LowAddr(a)], a.off % 4)[j]
                                  \cup Shl(m[LowAddr(a) + 4], 4 - (a.off % 4))[j]]
            <6>1. w = [j \in Position |-> f[j]]
              BY <4>1, <5>1 DEF Or
            <6> QED
              BY <6>1
          <5>2. CASE ~CrossesWords(a)
            <6> DEFINE f == Srl(m[LowAddr(a)], a.off % 4)
            <6>1. w = [j \in Position |-> f[j]]
              BY <4>1, <5>2 DEF Srl
            <6> QED
              BY <6>1
          <5> QED
            BY <5>1, <5>2
        <4> QED
          BY <1>2, <1>5, <4>2 DEF WordValue, Position
      <3>3. CASE a.align < 4 /\ ~a.frame
        <4>1. w = UnalignedLoad(a, m)
          BY <1>1, <1>5, <3>3 DEF LoadedWord, IsWordAlignedBasePlusConstantOffset
        <4> QED
          BY <1>2, <1>5, <4>1 DEF UnalignedLoad, WordValue, Position
      <3> QED
        BY <1>1, <3>1, <3>2, <3>3
    <2> QED
      BY <1>2, <1>3, <1>5, <2>1
  <1>6. CASE a.vt # 4 /\ ext
    <2>1. v = [i \in Position |-> IF i < a.vt THEN w[i]
                                  ELSE IF SignBit \in w[a.vt - 1] THEN Ones ELSE Zero]
      BY <1>3, <1>6 DEF SignExtendInReg
    <2>2. v \in WordValue
      BY <1>1, <1>2, <1>4, <2>1 DEF WordValue, Position
    <2>3. \A i \in 0..(a.vt - 1) : v[i] = w[i]
      BY <1>1, <1>2, <2>1 DEF Position
    <2>4. \A i \in a.vt..3 : v[i] = IF SignBit \in v[a.vt - 1] THEN Ones ELSE Zero
      BY <1>1, <2>1, <2>3 DEF Position
    <2> QED
      BY <1>2, <1>6, <2>2, <2>3, <2>4
  <1>7. CASE a.vt # 4 /\ ~ext
    <2>1. v = [i \in Position |-> IF i < a.vt THEN w[i] ELSE Zero]
      BY <1>3, <1>7 DEF ZeroExtendInReg
    <2>2. v \in WordValue
      BY <1>1, <1>2, <1>4, <2>1 DEF WordValue, Position
    <2> QED
      BY <1>1, <1>2, <1>7, <2>1, <2>2 DEF Position
  <1> QED
    BY <1>5, <1>6, <1>7

(***************************************************************************)
(* Type correctness.                                                       *)
(***************************************************************************)

\* When all words of a load are there, Got is what was loaded.
LEMMA GotFacts ==
  ASSUME SubwordTypeOK, NEW c \in Core, NEW a \in Accesses, Loaded(c, a) = LoadWords(a)
  PROVE  /\ Got(c, a) \in [LoadWords(a) -> WordValue]
         /\ \A w \in LoadWords(a) : w \in WordAddress /\ <<a, w, Got(c, a)[w]>> \in got[c]
  <1>1. \A w \in LoadWords(a) : w \in WordAddress /\ \E v \in WordValue : <<a, w, v>> \in got[c]
    BY DEF Loaded
  <1> QED
    BY <1>1 DEF Got

\* A step of core c on an access of its chain, or the next chain.
AccessStep(c, a) ==
  \/ \E w \in WordAddress : w \in SpanWords(a) /\ ~PlainStore(a) /\ LoadWord(c, a, w)
  \/ FinishLoad(c, a)
  \/ StartCall(c, a)
  \/ \E w \in WordAddress : w \in SpanWords(a) /\ StoreBack(c, a, w)
  \/ StoreAligned(c, a)

CoreStep(c) ==
  (\E a \in Accesses : a \in todo[c] /\ AccessStep(c, a)) \/ NextChain(c)

\* Every step is one of these: its words are words of the memory.
LEMMA StepCases ==
  ASSUME SubwordTypeOK, Next
  PROVE  \E c \in Core : CoreStep(c)
  <1>1. \A c \in Core : \A a \in todo[c] : /\ a \in Accesses
                                           /\ LoadWords(a) = SpanWords(a)
                                           /\ SpanWords(a) \subseteq WordAddress
    BY LoadWordsExact, SpanFacts DEF SubwordTypeOK
  <1>2. PICK c \in Core :
          \/ \E a \in todo[c] :
               \/ \E w \in SpanWords(a) : ~PlainStore(a) /\ LoadWord(c, a, w)
               \/ FinishLoad(c, a)
               \/ StartCall(c, a)
               \/ \E w \in SpanWords(a) : StoreBack(c, a, w)
               \/ StoreAligned(c, a)
          \/ NextChain(c)
    BY <1>1 DEF Next
  <1> QED
    BY <1>1, <1>2 DEF CoreStep, AccessStep

\* The two outcomes of a word that a call stores back.
LEMMA StoreBackCases ==
  ASSUME NEW c, NEW a, NEW w, StoreBack(c, a, w)
  PROVE  /\ a \in call[c] /\ a.op = "store" /\ w \notin written[c]
         /\ \E v \in WordValue : <<a, w, v>> \in got[c] /\ SetWord(w, Merge(a, w, v), Span(a))
         /\ UNCHANGED <<chains, result, overlapped>>
         /\ \/ /\ written[c] \cup {w} = SpanWords(a)
               /\ written' = [written EXCEPT ![c] = {}] /\ Finish(c, a)
            \/ /\ written[c] \cup {w} # SpanWords(a)
               /\ written' = [written EXCEPT ![c] = @ \cup {w}]
               /\ UNCHANGED <<call, todo, got>>
  BY DEF StoreBack

\* The bytes of memory, and what a store of one word makes of them.
LEMMA BytesOfMemory ==
  ASSUME NEW m \in [WordAddress -> WordValue]
  PROVE  /\ Bytes(m) \in [Address -> Byte]
         /\ \A x \in Address : Bytes(m)[x] = m[WordOf(x)][x % 4]
         /\ \A w \in WordAddress, i \in Position : Bytes(m)[w + i] = m[w][i]
  <1>1. \A x \in Address : Bytes(m)[x] = m[WordOf(x)][x % 4]
    BY DEF Bytes
  <1>2. \A x \in Address : m[WordOf(x)][x % 4] \in Byte
    BY AddressParts, WordValueParts
  <1>3. Bytes(m) \in [Address -> Byte]
    BY <1>2 DEF Bytes
  <1>4. \A w \in WordAddress, i \in Position : Bytes(m)[w + i] = m[w][i]
    BY <1>1, WordParts
  <1> QED
    BY <1>1, <1>3, <1>4

\* A word store: memory, and the histories of the bytes.
LEMMA SetWordFacts ==
  ASSUME SubwordTypeOK, NEW w \in WordAddress, NEW v \in WordValue, NEW own,
         SetWord(w, v, own)
  PROVE  /\ mem' \in [WordAddress -> WordValue]
         /\ mem'[w] = v /\ \A u \in WordAddress \ {w} : mem'[u] = mem[u]
         /\ held' \in [Address -> SUBSET Byte]
         /\ window' \in [Core -> [Address -> SUBSET Byte]]
         /\ \A x \in Address : x \in own /\ WordOf(x) = w => held'[x] = held[x] \cup {v[x % 4]}
         /\ \A x \in Address : ~(x \in own /\ WordOf(x) = w) => held'[x] = held[x]
         /\ \A x \in Address : WordOf(x) = w => Bytes(mem')[x] = v[x % 4]
         /\ \A x \in Address : WordOf(x) # w => Bytes(mem')[x] = Bytes(mem)[x]
         /\ \A c \in Core, x \in Address :
              WordOf(x) = w => window'[c][x] = window[c][x] \cup {v[x % 4]}
         /\ \A c \in Core, x \in Address : WordOf(x) # w => window'[c][x] = window[c][x]
  <1>1. /\ mem \in [WordAddress -> WordValue] /\ held \in [Address -> SUBSET Byte]
        /\ window \in [Core -> [Address -> SUBSET Byte]]
    BY DEF SubwordTypeOK
  <1>2. \A x \in Address : v[x % 4] \in Byte /\ WordOf(x) \in WordAddress
    BY AddressParts, WordValueParts
  <1>3. /\ mem' \in [WordAddress -> WordValue]
        /\ mem'[w] = v /\ \A u \in WordAddress \ {w} : mem'[u] = mem[u]
    BY <1>1 DEF SetWord
  <1>4. \A x \in Address : held'[x] = IF x \in own /\ WordOf(x) = w THEN held[x] \cup {v[x % 4]}
                                                                   ELSE held[x]
    BY DEF SetWord
  <1>5. held' \in [Address -> SUBSET Byte]
    <2>1. \A x \in Address : (IF x \in own /\ WordOf(x) = w THEN held[x] \cup {v[x % 4]}
                                                           ELSE held[x]) \in SUBSET Byte
      BY <1>1, <1>2
    <2> QED
      BY <2>1 DEF SetWord
  <1>6. \A c \in Core, x \in Address :
          window'[c][x] = IF WordOf(x) = w THEN window[c][x] \cup {v[x % 4]} ELSE window[c][x]
    BY DEF SetWord
  <1>7. window' \in [Core -> [Address -> SUBSET Byte]]
    <2>1. \A c \in Core, x \in Address :
            (IF WordOf(x) = w THEN window[c][x] \cup {v[x % 4]} ELSE window[c][x]) \in SUBSET Byte
      BY <1>1, <1>2
    <2> QED
      BY <2>1 DEF SetWord
  <1>8. \A x \in Address : Bytes(mem')[x] = IF WordOf(x) = w THEN v[x % 4] ELSE Bytes(mem)[x]
    BY <1>1, <1>2, <1>3, BytesOfMemory
  <1> QED
    BY <1>3, <1>4, <1>5, <1>6, <1>7, <1>8

\* The word that a library call stores back: the bytes of the access from its
\* value, the others from the word loaded before.
LEMMA MergeFacts ==
  ASSUME NEW a \in Accesses, NEW w \in WordAddress, NEW v \in WordValue
  PROVE  /\ Merge(a, w, v) \in WordValue
         /\ \A i \in Position :
              Merge(a, w, v)[i] = IF w + i \in Span(a) THEN a.val[w + i - a.addr] ELSE v[i]
  <1>1. \A i \in Position : v[i] \in Byte
    BY WordValueParts
  <1>2. \A x \in Span(a) : a.val[x - a.addr] \in Byte
    BY AccessFields, SpanFacts, WordValueParts
  <1>3. \A i \in Position : w + i \in Span(a) => a.val[w + i - a.addr] \in Byte
    <2> SUFFICES ASSUME NEW i \in Position, w + i \in Span(a)
                 PROVE  a.val[w + i - a.addr] \in Byte
      OBVIOUS
    <2>1. a.val[(w + i) - a.addr] \in Byte
      BY <1>2
    <2>2. w \in Nat /\ a.addr \in Nat /\ i \in Nat
      <3>1. w \in Nat
        BY WordParts
      <3>2. a.addr \in Nat
        BY AccessFields
      <3> QED
        BY <3>1, <3>2 DEF Position
    <2>3. w + i - a.addr = (w + i) - a.addr
      BY <2>2
    <2> QED
      BY <2>1, <2>3
  <1>4. \A i \in Position : (IF w + i \in Span(a) THEN a.val[w + i - a.addr] ELSE v[i]) \in Byte
    BY <1>1, <1>3
  <1> QED
    BY <1>4 DEF Merge, WordValue

\* The bytes of a store of an aligned word are those of one word.
LEMMA PlainStoreFacts ==
  ASSUME NEW a \in Accesses, PlainStore(a)
  PROVE  /\ a.addr \in WordAddress /\ a.val \in WordValue
         /\ SpanWords(a) = {a.addr}
         /\ \A x \in Address : WordOf(x) = a.addr => x \in Span(a)
  <1>1. /\ a.addr \in Nat /\ a.align \in {1, 2, 4} /\ a.addr % a.align = 0
        /\ a.addr \in Address /\ a.val \in WordValue /\ a.vt = 4 /\ a.align >= 4
    BY AccessFields DEF PlainStore
  <1>2. a.addr % 4 = 0
    BY <1>1
  <1>3. a.addr \in WordAddress
    BY <1>1, <1>2 DEF WordAddress
  <1>4. LoadWords(a) = {a.addr}
    BY <1>1 DEF LoadWords
  <1>5. \A x \in Address : WordOf(x) = a.addr => x \in Span(a)
    <2> SUFFICES ASSUME NEW x \in Address, WordOf(x) = a.addr PROVE x \in Span(a)
      OBVIOUS
    <2>1. x \in Nat /\ x % 4 \in Position /\ a.addr + (x % 4) = x
      BY AddressParts
    <2>2. a.addr \in Nat /\ a.vt = 4
      BY <1>1
    <2> QED
      BY <2>1, <2>2 DEF Span, Position
  <1> QED
    BY <1>1, <1>3, <1>4, <1>5, LoadWordsExact

\* Every variable has its type initially.
LEMMA TypeInit == Init => SubwordTypeOK
  <1> SUFFICES ASSUME Init PROVE SubwordTypeOK
    OBVIOUS
  <1>1. mem \in [WordAddress -> WordValue]
    BY InitWordsAssumption DEF Init
  <1>2. \A x \in Address : {Bytes(mem)[x]} \in SUBSET Byte
    BY <1>1, BytesOfMemory
  <1>3. held \in [Address -> SUBSET Byte]
    BY <1>2 DEF Init
  <1>4. window \in [Core -> [Address -> SUBSET Byte]]
    BY <1>3 DEF Init
  <1> QED
    BY <1>1, <1>3, <1>4, MaxChainsAssumption DEF Init, SubwordTypeOK

\* Every variable keeps its type.
LEMMA TypeNext == SubwordTypeOK /\ [Next]_vars => SubwordTypeOK'
  <1> SUFFICES ASSUME SubwordTypeOK, [Next]_vars PROVE SubwordTypeOK'
    OBVIOUS
  <1>0. CASE UNCHANGED vars
    BY <1>0 DEF vars, SubwordTypeOK
  <1> SUFFICES ASSUME Next PROVE SubwordTypeOK'
    BY <1>0
  <1>1. PICK c \in Core : CoreStep(c)
    BY StepCases
  <1>2. ASSUME NEW a \in Accesses, a \in todo[c], NEW w \in WordAddress, LoadWord(c, a, w)
        PROVE  SubwordTypeOK'
    <2>1. <<a, w, mem[w]>> \in Triple
      BY <1>2 DEF SubwordTypeOK, Triple
    <2>2. got' \in [Core -> SUBSET Triple]
      BY <1>2, <2>1 DEF LoadWord, SubwordTypeOK
    <2> QED
      BY <1>2, <2>2 DEF LoadWord, SubwordTypeOK
  <1>3. ASSUME NEW a \in Accesses, a \in todo[c], FinishLoad(c, a)
        PROVE  SubwordTypeOK'
    <2>1. LoadResult(a, Got(c, a)) \in WordValue
      BY <1>3, GotFacts, LoadResultFacts DEF FinishLoad
    <2>2. result' \in [Core -> SUBSET (Accesses \X WordValue)]
      BY <1>3, <2>1 DEF FinishLoad, SubwordTypeOK
    <2> QED
      BY <1>3, <2>2 DEF FinishLoad, Finish, SubwordTypeOK
  <1>4. ASSUME NEW a \in Accesses, a \in todo[c], StartCall(c, a)
        PROVE  SubwordTypeOK'
    <2>1. SpanWords(a) \subseteq WordAddress
      BY <1>4, SpanFacts
    <2>2. overlapped' \subseteq WordAddress
      BY <1>4, <2>1 DEF StartCall, Contested, SubwordTypeOK
    <2> QED
      BY <1>4, <2>2 DEF StartCall, SubwordTypeOK
  <1>5. ASSUME NEW a \in Accesses, a \in todo[c], NEW w \in WordAddress, StoreBack(c, a, w)
        PROVE  SubwordTypeOK'
    <2>1. PICK v \in WordValue : SetWord(w, Merge(a, w, v), Span(a))
      BY <1>5 DEF StoreBack
    <2>2. Merge(a, w, v) \in WordValue
      BY <1>5, MergeFacts
    <2>3. /\ mem' \in [WordAddress -> WordValue] /\ held' \in [Address -> SUBSET Byte]
          /\ window' \in [Core -> [Address -> SUBSET Byte]]
      BY <2>1, <2>2, SetWordFacts
    <2>4. /\ todo' \in [Core -> SUBSET Accesses] /\ call' \in [Core -> SUBSET Accesses]
          /\ \A d \in Core : call'[d] \subseteq todo'[d]
          /\ got' \in [Core -> SUBSET Triple]
          /\ written' \in [Core -> SUBSET WordAddress]
      <3>1. CASE written' = [written EXCEPT ![c] = {}] /\ Finish(c, a)
        BY <3>1 DEF Finish, SubwordTypeOK
      <3>2. CASE written' = [written EXCEPT ![c] = @ \cup {w}] /\ UNCHANGED <<call, todo, got>>
        BY <1>5, <3>2 DEF SubwordTypeOK
      <3> QED
        BY <1>5, <3>1, <3>2, StoreBackCases
    <2> QED
      BY <1>5, <2>3, <2>4 DEF StoreBack, SubwordTypeOK
  <1>6. ASSUME NEW a \in Accesses, a \in todo[c], StoreAligned(c, a)
        PROVE  SubwordTypeOK'
    <2>1. a.addr \in WordAddress /\ a.val \in WordValue
      BY <1>6, PlainStoreFacts DEF StoreAligned
    <2>2. /\ mem' \in [WordAddress -> WordValue] /\ held' \in [Address -> SUBSET Byte]
          /\ window' \in [Core -> [Address -> SUBSET Byte]]
      BY <1>6, <2>1, SetWordFacts DEF StoreAligned
    <2>3. overlapped' \subseteq WordAddress
      BY <1>6, <2>1 DEF StoreAligned, Contested, SubwordTypeOK
    <2> QED
      BY <1>6, <2>2, <2>3 DEF StoreAligned, MayCall, SubwordTypeOK
  <1>7. ASSUME NextChain(c) PROVE SubwordTypeOK'
    <2>1. PICK g \in Programs[c] : todo' = [todo EXCEPT ![c] = g]
      BY <1>7 DEF NextChain
    <2>2. g \in SUBSET Accesses
      BY DEF Accesses
    <2>3. [x \in Address |-> {Bytes(mem)[x]}] \in [Address -> SUBSET Byte]
      BY BytesOfMemory DEF SubwordTypeOK
    <2>4. window' \in [Core -> [Address -> SUBSET Byte]]
      BY <1>7, <2>3 DEF NextChain, SubwordTypeOK
    <2>5. todo' \in [Core -> SUBSET Accesses]
      BY <2>1, <2>2 DEF SubwordTypeOK
    <2>6. \A d \in Core : call'[d] \subseteq todo'[d]
      BY <1>7, <2>1 DEF NextChain, SubwordTypeOK
    <2>7. result' \in [Core -> SUBSET (Accesses \X WordValue)] /\ chains' \in 0..MaxChains
      BY <1>7, MaxChainsAssumption DEF NextChain, SubwordTypeOK
    <2> QED
      BY <1>7, <2>4, <2>5, <2>6, <2>7 DEF NextChain, SubwordTypeOK
  <1> QED
    BY <1>1, <1>2, <1>3, <1>4, <1>5, <1>6, <1>7 DEF CoreStep, AccessStep

(***************************************************************************)
(* The inductive invariant.                                                *)
(***************************************************************************)

\* Calls stay one at a time: only a core without a call starts one, and a store
\* call ends with its last word.
LEMMA CallNext == SubwordInv /\ [Next]_vars => CallInv'
  <1> SUFFICES ASSUME SubwordInv, [Next]_vars PROVE CallInv'
    OBVIOUS
  <1>0. CASE UNCHANGED vars
    BY <1>0 DEF vars, SubwordInv, CallInv
  <1>a. SubwordTypeOK /\ CallInv
    BY DEF SubwordInv
  <1>1. CASE Next
    <2>1. PICK c \in Core : CoreStep(c)
      BY <1>1, <1>a, StepCases
    <2>2. CASE UNCHANGED <<call, written>>
      BY <1>a, <2>2 DEF CallInv
    <2>3. ASSUME NEW a \in Accesses, FinishLoad(c, a) PROVE CallInv'
      <3>1. /\ call' = [call EXCEPT ![c] = @ \ {a}] /\ written' = written
            /\ a.op = "load"
        BY <2>3 DEF FinishLoad, Finish
      <3> QED
        BY <1>a, <3>1 DEF CallInv, SubwordTypeOK
    <2>4. ASSUME NEW a \in Accesses, StartCall(c, a) PROVE CallInv'
      <3>1. /\ call' = [call EXCEPT ![c] = @ \cup {a}] /\ written' = written
            /\ call[c] = {}
        BY <2>4 DEF StartCall, MayCall
      <3> QED
        BY <1>a, <3>1 DEF CallInv, SubwordTypeOK
    <2>5. ASSUME NEW a \in Accesses, NEW w \in WordAddress, w \in SpanWords(a), StoreBack(c, a, w)
          PROVE  CallInv'
      <3>1. a \in call[c] /\ a.op = "store"
        BY <2>5, StoreBackCases
      <3>2. CASE written' = [written EXCEPT ![c] = {}] /\ Finish(c, a)
        BY <1>a, <3>2 DEF Finish, CallInv, SubwordTypeOK
      <3>3. CASE written' = [written EXCEPT ![c] = @ \cup {w}] /\ UNCHANGED <<call, todo, got>>
        BY <1>a, <2>5, <3>1, <3>3 DEF CallInv, SubwordTypeOK
      <3> QED
        BY <2>5, <3>2, <3>3, StoreBackCases
    <2> QED
      BY <2>1, <2>2, <2>3, <2>4, <2>5
         DEF CoreStep, AccessStep, LoadWord, StoreAligned, NextChain
  <1> QED
    BY <1>0, <1>1

\* Between chains a core holds no loaded words.
LEMMA NothingGot ==
  ASSUME SubwordTypeOK, GotInv, NEW c \in Core, todo[c] = {}
  PROVE  got[c] = {}
  <1>1. got[c] \subseteq Triple
    BY DEF SubwordTypeOK
  <1>2. \A a \in Accesses, w \in WordAddress, v \in WordValue : <<a, w, v>> \notin got[c]
    BY DEF GotInv
  <1> QED
    BY <1>1, <1>2 DEF Triple

\* What is loaded belongs to an access under way.
LEMMA GotNext == SubwordInv /\ [Next]_vars => GotInv'
  <1> SUFFICES ASSUME SubwordInv, [Next]_vars PROVE GotInv'
    OBVIOUS
  <1>0. CASE UNCHANGED vars
    BY <1>0 DEF vars, SubwordInv, GotInv
  <1>a. SubwordTypeOK /\ GotInv
    BY DEF SubwordInv
  <1>b. /\ todo \in [Core -> SUBSET Accesses] /\ call \in [Core -> SUBSET Accesses]
        /\ got \in [Core -> SUBSET Triple]
    BY <1>a DEF SubwordTypeOK
  <1>1. CASE Next
    <2>1. PICK c \in Core : CoreStep(c)
      BY <1>1, <1>a, StepCases
    <2>2. ASSUME NEW a \in Accesses, a \in todo[c], NEW w \in WordAddress, w \in SpanWords(a),
                 ~PlainStore(a), LoadWord(c, a, w)
          PROVE  GotInv'
      <3>1. a.op = "store" => a \in call[c]
        BY <2>2 DEF LoadWord, InlineLoad
      <3>2. /\ got' = [got EXCEPT ![c] = @ \cup {<<a, w, mem[w]>>}]
            /\ UNCHANGED <<todo, call>>
        BY <2>2 DEF LoadWord
      <3> QED
        BY <1>a, <1>b, <2>2, <3>1, <3>2 DEF GotInv
    <2>3. ASSUME NEW a \in Accesses, Finish(c, a) PROVE GotInv'
      BY <1>a, <1>b, <2>3 DEF Finish, GotInv
    <2>4. ASSUME NEW a \in Accesses, StartCall(c, a) PROVE GotInv'
      BY <1>a, <1>b, <2>4 DEF StartCall, GotInv
    <2>5. CASE UNCHANGED <<call, todo, got>>
      BY <1>a, <2>5 DEF GotInv
    <2>6. ASSUME NEW a \in Accesses, StoreAligned(c, a) PROVE GotInv'
      BY <1>a, <1>b, <2>6 DEF StoreAligned, GotInv
    <2>7. CASE NextChain(c)
      <3>1. got[c] = {}
        BY <1>a, <2>7, NothingGot DEF NextChain
      <3> QED
        BY <1>a, <1>b, <2>7, <3>1 DEF NextChain, GotInv
    <2> QED
      BY <2>1, <2>2, <2>3, <2>4, <2>5, <2>6, <2>7, StoreBackCases
         DEF CoreStep, AccessStep, FinishLoad
  <1> QED
    BY <1>0, <1>1

\* A word store adds to the histories, and it stores only values that the bytes
\* it does not own already have in theirs.
LEMMA HistoryGrows ==
  ASSUME SubwordTypeOK, HistoryInv, NEW w \in WordAddress, NEW v \in WordValue, NEW own,
         SetWord(w, v, own), got' = got \/ \A c \in Core : got'[c] \subseteq got[c],
         \A i \in Position : w + i \in own \/ v[i] \in held[w + i]
  PROVE  HistoryInv'
  <1>1. /\ \A x \in Address : x \in own /\ WordOf(x) = w => held'[x] = held[x] \cup {v[x % 4]}
        /\ \A x \in Address : ~(x \in own /\ WordOf(x) = w) => held'[x] = held[x]
        /\ \A x \in Address : WordOf(x) = w => Bytes(mem')[x] = v[x % 4]
        /\ \A x \in Address : WordOf(x) # w => Bytes(mem')[x] = Bytes(mem)[x]
        /\ \A c \in Core, x \in Address :
             WordOf(x) = w => window'[c][x] = window[c][x] \cup {v[x % 4]}
        /\ \A c \in Core, x \in Address : WordOf(x) # w => window'[c][x] = window[c][x]
    BY SetWordFacts
  <1>2. \A x \in Address : held[x] \subseteq held'[x]
                          /\ \A c \in Core : window[c][x] \subseteq window'[c][x]
    BY <1>1
  <1>3. \A x \in Address : Bytes(mem')[x] \in held'[x]
    <2> SUFFICES ASSUME NEW x \in Address, WordOf(x) = w PROVE v[x % 4] \in held'[x]
      BY <1>1 DEF HistoryInv
    <2>1. x % 4 \in Position /\ w + (x % 4) = x
      BY AddressParts
    <2> QED
      BY <1>1, <2>1
  <1>4. \A c \in Core : \A x \in Address : Bytes(mem')[x] \in window'[c][x]
    BY <1>1 DEF HistoryInv
  <1>5. ASSUME NEW c \in Core, NEW a \in Accesses, NEW u \in WordAddress, NEW z \in WordValue,
               <<a, u, z>> \in got'[c], NEW i \in Position
        PROVE  z[i] \in held'[u + i] /\ z[i] \in window'[c][u + i]
    <2>1. <<a, u, z>> \in got[c]
      BY <1>5
    <2>2. z[i] \in held[u + i] /\ z[i] \in window[c][u + i]
      BY <2>1 DEF HistoryInv
    <2>3. u + i \in Address
      BY WordParts
    <2> QED
      BY <1>2, <2>2, <2>3
  <1> QED
    BY <1>3, <1>4, <1>5 DEF HistoryInv

\* Loaded words and memory hold what was stored to their bytes.
LEMMA HistoryNext == SubwordInv /\ [Next]_vars => HistoryInv'
  <1> SUFFICES ASSUME SubwordInv, [Next]_vars PROVE HistoryInv'
    OBVIOUS
  <1>0. CASE UNCHANGED vars
    BY <1>0 DEF vars, SubwordInv, HistoryInv
  <1>a. SubwordTypeOK /\ GotInv /\ HistoryInv
    BY DEF SubwordInv
  <1>b. /\ mem \in [WordAddress -> WordValue] /\ got \in [Core -> SUBSET Triple]
        /\ window \in [Core -> [Address -> SUBSET Byte]]
    BY <1>a DEF SubwordTypeOK
  <1>1. CASE Next
    <2>1. PICK c \in Core : CoreStep(c)
      BY <1>1, <1>a, StepCases
    <2>2. ASSUME NEW a \in Accesses, NEW w \in WordAddress, LoadWord(c, a, w)
          PROVE  HistoryInv'
      <3>1. /\ got' = [got EXCEPT ![c] = @ \cup {<<a, w, mem[w]>>}]
            /\ UNCHANGED <<mem, held, window>>
        BY <2>2 DEF LoadWord
      <3>2. \A i \in Position : /\ mem[w][i] \in held[w + i]
                                /\ \A d \in Core : mem[w][i] \in window[d][w + i]
        BY <1>a, <1>b, BytesOfMemory, WordParts DEF HistoryInv
      <3>3. ASSUME NEW d \in Core, NEW b \in Accesses, NEW u \in WordAddress, NEW z \in WordValue,
                   <<b, u, z>> \in got'[d], NEW i \in Position
            PROVE  z[i] \in held[u + i] /\ z[i] \in window[d][u + i]
        <4>1. CASE <<b, u, z>> \in got[d]
          BY <1>a, <4>1 DEF HistoryInv
        <4>2. CASE <<b, u, z>> = <<a, w, mem[w]>>
          BY <3>2, <4>2
        <4> QED
          BY <1>b, <3>1, <3>3, <4>1, <4>2
      <3> QED
        BY <1>a, <3>1, <3>3 DEF HistoryInv
    <2>3. ASSUME NEW a \in Accesses, FinishLoad(c, a) PROVE HistoryInv'
      BY <1>a, <1>b, <2>3 DEF FinishLoad, Finish, HistoryInv
    <2>4. ASSUME NEW a \in Accesses, StartCall(c, a) PROVE HistoryInv'
      BY <1>a, <2>4 DEF StartCall, HistoryInv
    <2>5. ASSUME NEW a \in Accesses, NEW w \in WordAddress, StoreBack(c, a, w)
          PROVE  HistoryInv'
      <3>1. PICK v \in WordValue : <<a, w, v>> \in got[c] /\ SetWord(w, Merge(a, w, v), Span(a))
        BY <2>5, StoreBackCases
      <3>2. \A i \in Position : w + i \in Span(a) \/ Merge(a, w, v)[i] \in held[w + i]
        BY <1>a, <3>1, MergeFacts DEF HistoryInv
      <3>3. \A d \in Core : got'[d] \subseteq got[d]
        BY <1>b, <2>5, StoreBackCases DEF Finish
      <3>4. Merge(a, w, v) \in WordValue
        BY MergeFacts
      <3> QED
        BY <1>a, <3>1, <3>2, <3>3, <3>4, HistoryGrows
    <2>6. ASSUME NEW a \in Accesses, StoreAligned(c, a) PROVE HistoryInv'
      <3>1. /\ SetWord(a.addr, a.val, Span(a)) /\ got' = got /\ PlainStore(a)
        BY <2>6 DEF StoreAligned
      <3>2. /\ a.addr \in WordAddress /\ a.val \in WordValue
            /\ \A x \in Address : WordOf(x) = a.addr => x \in Span(a)
        BY <3>1, PlainStoreFacts
      <3>3. \A i \in Position : a.addr + i \in Span(a)
        BY <3>2, WordParts
      <3> QED
        BY <1>a, <3>1, <3>2, <3>3, HistoryGrows
    <2>7. CASE NextChain(c)
      <3>1. got[c] = {}
        BY <1>a, <2>7, NothingGot DEF NextChain
      <3>2. /\ window' = [window EXCEPT ![c] = [x \in Address |-> {Bytes(mem)[x]}]]
            /\ UNCHANGED <<mem, got, held>>
        BY <2>7 DEF NextChain
      <3>3. \A d \in Core : \A x \in Address : Bytes(mem)[x] \in window'[d][x]
        BY <1>a, <1>b, <3>2 DEF HistoryInv
      <3>4. \A d \in Core : d # c => window'[d] = window[d]
        BY <1>b, <3>2
      <3> QED
        BY <1>a, <3>1, <3>2, <3>3, <3>4 DEF HistoryInv
    <2> QED
      BY <2>1, <2>2, <2>3, <2>4, <2>5, <2>6, <2>7 DEF CoreStep, AccessStep
  <1> QED
    BY <1>0, <1>1

\* The windows of the bytes only grow, but at the start of a chain.
LEMMA WindowGrows ==
  ASSUME SubwordTypeOK, NEW w \in WordAddress, NEW v \in WordValue, NEW own, SetWord(w, v, own)
  PROVE  \A c \in Core, x \in Address : window[c][x] \subseteq window'[c][x]
  <1>1. /\ \A c \in Core, x \in Address :
             WordOf(x) = w => window'[c][x] = window[c][x] \cup {v[x % 4]}
        /\ \A c \in Core, x \in Address : WordOf(x) # w => window'[c][x] = window[c][x]
    BY SetWordFacts
  <1> QED
    BY <1>1

\* What LoadsReturnBytes says of one finished load.
ResultOK(c, a, v) ==
  /\ \A i \in 0..(a.vt - 1) : v[i] \in window[c][a.addr + i]
  /\ a.ext # "EXTLOAD" =>
       \A i \in a.vt..3 :
         v[i] = IF a.ext = "SEXTLOAD" /\ SignBit \in v[a.vt - 1] THEN Ones ELSE Zero

\* LoadsReturnBytes is about all finished loads of all cores.
LEMMA ResultsOK ==
  ASSUME SubwordTypeOK
  PROVE  LoadsReturnBytes <=>
           \A c \in Core : \A a \in Accesses, v \in WordValue :
             <<a, v>> \in result[c] => ResultOK(c, a, v)
  <1>1. \A c \in Core : result[c] \subseteq Accesses \X WordValue
    BY DEF SubwordTypeOK
  <1> QED
    BY <1>1 DEF LoadsReturnBytes, ResultOK

\* The value of a load that finishes is made of bytes of its own addresses.
LEMMA FinishedLoadOK ==
  ASSUME SubwordTypeOK, HistoryInv, NEW c \in Core, NEW a \in Accesses,
         Loaded(c, a) = LoadWords(a)
  PROVE  ResultOK(c, a, LoadResult(a, Got(c, a)))
  <1> DEFINE m == Got(c, a)
             v == LoadResult(a, m)
  <1>1. /\ m \in [LoadWords(a) -> WordValue]
        /\ \A w \in LoadWords(a) : w \in WordAddress /\ <<a, w, m[w]>> \in got[c]
    BY GotFacts
  <1> HIDE DEF m
  <1>2. ASSUME NEW i \in 0..(a.vt - 1) PROVE v[i] \in window[c][a.addr + i]
    <2> DEFINE w == WordOf(a.addr + i)
               k == (a.addr + i) % 4
    <2>1. v[i] = m[w][k] /\ w \in LoadWords(a) /\ k \in Position
      BY <1>1, LoadResultFacts, LoadedBytes
    <2>2. w \in WordAddress /\ m[w] \in WordValue /\ <<a, w, m[w]>> \in got[c]
      BY <1>1, <2>1
    <2>3. m[w][k] \in window[c][w + k]
      BY <2>1, <2>2 DEF HistoryInv
    <2>4. a.addr + i \in Address
      BY SpanFacts
    <2>5. w + k = a.addr + i
      BY <2>4, AddressParts
    <2> QED
      BY <2>1, <2>3, <2>5
  <1>3. \A i \in a.vt..3 : v[i] = IF a.ext = "SEXTLOAD" /\ SignBit \in v[a.vt - 1]
                                  THEN Ones ELSE Zero
    BY <1>1, LoadResultFacts
  <1> QED
    BY <1>2, <1>3 DEF ResultOK, m

\* Finished loads keep the bytes they returned in their windows.
LEMMA ResultNext == SubwordInv /\ SubwordTypeOK' /\ [Next]_vars => LoadsReturnBytes'
  <1> SUFFICES ASSUME SubwordInv, SubwordTypeOK', [Next]_vars PROVE LoadsReturnBytes'
    OBVIOUS
  <1>0. CASE UNCHANGED vars
    BY <1>0 DEF vars, SubwordInv, LoadsReturnBytes
  <1>a. SubwordTypeOK /\ HistoryInv /\ LoadsReturnBytes
    BY DEF SubwordInv
  <1>b. result \in [Core -> SUBSET (Accesses \X WordValue)]
    BY <1>a DEF SubwordTypeOK
  <1>c. \A d \in Core : \A b \in Accesses, z \in WordValue :
          <<b, z>> \in result[d] => ResultOK(d, b, z)
    BY <1>a, ResultsOK
  <1>d. ASSUME \A d \in Core, x \in Address : window[d][x] \subseteq window'[d][x],
               NEW d \in Core, NEW b \in Accesses, NEW z \in WordValue, ResultOK(d, b, z)
        PROVE  ResultOK(d, b, z)'
    <2>1. \A i \in 0..(b.vt - 1) : b.addr + i \in Address
      BY SpanFacts
    <2> QED
      BY <1>d, <2>1 DEF ResultOK
  <1>e. ASSUME \A d \in Core : \A b \in Accesses, z \in WordValue :
                 <<b, z>> \in result'[d] => ResultOK(d, b, z)'
        PROVE  LoadsReturnBytes'
    <2>1. \A d \in Core : result'[d] \subseteq Accesses \X WordValue
      BY DEF SubwordTypeOK
    <2> QED
      BY <1>e, <2>1 DEF LoadsReturnBytes, ResultOK
  <1>1. CASE Next
    <2>1. PICK c \in Core : CoreStep(c)
      BY <1>1, <1>a, StepCases
    <2>2. CASE UNCHANGED <<result, window>>
      BY <1>a, <2>2 DEF LoadsReturnBytes
    <2>3. ASSUME NEW a \in Accesses, FinishLoad(c, a) PROVE LoadsReturnBytes'
      <3> DEFINE v == LoadResult(a, Got(c, a))
      <3>1. /\ result' = [result EXCEPT ![c] = @ \cup {<<a, v>>}] /\ window' = window
            /\ Loaded(c, a) = LoadWords(a)
        BY <2>3 DEF FinishLoad
      <3>2. ResultOK(c, a, v)
        BY <1>a, <3>1, FinishedLoadOK
      <3> HIDE DEF v
      <3>3. \A d \in Core : \A b \in Accesses, z \in WordValue :
              <<b, z>> \in result'[d] => ResultOK(d, b, z)
        BY <1>b, <1>c, <3>1, <3>2
      <3> QED
        BY <1>d, <1>e, <3>1, <3>3
    <2>4. ASSUME NEW w \in WordAddress, NEW v \in WordValue, NEW own, SetWord(w, v, own),
                 result' = result
          PROVE  LoadsReturnBytes'
      <3>1. \A d \in Core, x \in Address : window[d][x] \subseteq window'[d][x]
        BY <1>a, <2>4, WindowGrows
      <3> QED
        BY <1>c, <1>d, <1>e, <2>4, <3>1
    <2>5. ASSUME NEW a \in Accesses, NEW w \in WordAddress, StoreBack(c, a, w)
          PROVE  LoadsReturnBytes'
      <3>1. PICK v \in WordValue : SetWord(w, Merge(a, w, v), Span(a))
        BY <2>5, StoreBackCases
      <3> QED
        BY <2>4, <2>5, <3>1, MergeFacts, StoreBackCases
    <2>6. ASSUME NEW a \in Accesses, StoreAligned(c, a) PROVE LoadsReturnBytes'
      <3>1. SetWord(a.addr, a.val, Span(a)) /\ result' = result /\ PlainStore(a)
        BY <2>6 DEF StoreAligned
      <3> QED
        BY <2>4, <3>1, PlainStoreFacts
    <2>7. CASE NextChain(c)
      <3>1. /\ result' = [result EXCEPT ![c] = {}]
            /\ \A d \in Core : d # c => window'[d] = window[d]
        BY <1>a, <2>7 DEF NextChain, SubwordTypeOK
      <3> QED
        BY <1>b, <1>a, <3>1 DEF LoadsReturnBytes
    <2> QED
      BY <2>1, <2>2, <2>3, <2>5, <2>6, <2>7 DEF CoreStep, AccessStep, LoadWord, StartCall
  <1> QED
    BY <1>0, <1>1

\* A core claims the words of the store it has called.
LEMMA ClaimedWords ==
  ASSUME NEW c, NEW w
  PROVE  w \in Claimed(c) <=> \E a \in call[c] : a.op = "store" /\ w \in SpanWords(a)
  BY DEF Claimed

\* A store on a word leaves the copies of the other cores fresh, or the word is
\* recorded as overlapped; a core that stores has no other copy of the word.
LEMMA FreshAfterStore ==
  ASSUME SubwordTypeOK, GotInv, FreshInv, NEW c \in Core, NEW w \in WordAddress,
         NEW z \in WordValue, NEW own, SetWord(w, z, own),
         overlapped \subseteq overlapped',
         \A d \in Core : call'[d] \subseteq call[d] /\ got'[d] \subseteq got[d],
         \A d \in Core : call'[d] # {} => written[d] \subseteq written'[d],
         \A a \in call'[c] : a.op = "store" => w \in written'[c],
         \A d \in Core \ {c} : w \in Claimed(d) => w \in overlapped'
  PROVE  FreshInv'
  <1>1. \A d, e \in Core : d # e => Claimed(d)' \cap Claimed(e)' \subseteq overlapped'
    BY DEF FreshInv, Claimed
  <1>2. ASSUME NEW d \in Core, NEW a \in call'[d], NEW u \in WordAddress, NEW v \in WordValue,
               a.op = "store", <<a, u, v>> \in got'[d], u \notin written'[d], u \notin overlapped'
        PROVE  mem'[u] = v
    <2>1. /\ a \in call[d] /\ <<a, u, v>> \in got[d] /\ u \notin written[d] /\ u \notin overlapped
          /\ a \in Accesses
      BY <1>2 DEF SubwordTypeOK
    <2>2. mem[u] = v
      BY <1>2, <2>1 DEF FreshInv
    <2>3. u \in SpanWords(a)
      BY <2>1 DEF GotInv
    <2>4. u # w
      BY <1>2, <2>1, <2>3, ClaimedWords
    <2> QED
      BY <2>2, <2>4, SetWordFacts
  <1> QED
    BY <1>1, <1>2 DEF FreshInv

\* The copies that a store call has loaded stay fresh on words without overlap.
LEMMA FreshNext == SubwordInv /\ [Next]_vars => FreshInv'
  <1> SUFFICES ASSUME SubwordInv, [Next]_vars PROVE FreshInv'
    OBVIOUS
  <1>0. CASE UNCHANGED vars
    BY <1>0 DEF vars, SubwordInv, FreshInv, Claimed
  <1>a. SubwordTypeOK /\ CallInv /\ GotInv /\ FreshInv
    BY DEF SubwordInv
  <1>b. /\ call \in [Core -> SUBSET Accesses] /\ got \in [Core -> SUBSET Triple]
        /\ written \in [Core -> SUBSET WordAddress]
    BY <1>a DEF SubwordTypeOK
  <1>1. CASE Next
    <2>1. PICK c \in Core : CoreStep(c)
      BY <1>1, <1>a, StepCases
    <2>2. ASSUME NEW a \in Accesses, NEW w \in WordAddress, LoadWord(c, a, w)
          PROVE  FreshInv'
      <3>1. /\ got' = [got EXCEPT ![c] = @ \cup {<<a, w, mem[w]>>}]
            /\ UNCHANGED <<mem, call, written, overlapped>>
        BY <2>2 DEF LoadWord
      <3> QED
        BY <1>a, <1>b, <3>1 DEF FreshInv, Claimed
    <2>3. ASSUME NEW a \in Accesses, FinishLoad(c, a) PROVE FreshInv'
      <3>1. /\ \A d \in Core : call'[d] \subseteq call[d] /\ got'[d] \subseteq got[d]
            /\ UNCHANGED <<mem, written, overlapped>>
        BY <1>b, <2>3 DEF FinishLoad, Finish
      <3> QED
        BY <1>a, <3>1 DEF FreshInv, Claimed
    <2>4. ASSUME NEW a \in Accesses, StartCall(c, a) PROVE FreshInv'
      <3>1. /\ call' = [call EXCEPT ![c] = @ \cup {a}] /\ call[c] = {} /\ a \notin call[c]
            /\ UNCHANGED <<mem, got, written>>
            /\ overlapped' = overlapped \cup
                   (IF a.op = "store" THEN Contested(c, SpanWords(a)) ELSE {})
        BY <2>4 DEF StartCall, MayCall
      <3>2. /\ \A d \in Core : d # c => Claimed(d)' = Claimed(d)
            /\ \A u \in Claimed(c)' : a.op = "store" /\ u \in SpanWords(a)
        BY <1>b, <3>1 DEF Claimed
      <3>3. \A d, e \in Core : d # e => Claimed(d)' \cap Claimed(e)' \subseteq overlapped'
        BY <1>a, <3>1, <3>2 DEF FreshInv, Contested
      <3>4. \A w \in WordAddress, v \in WordValue : a.op = "store" => <<a, w, v>> \notin got[c]
        BY <1>a, <3>1 DEF GotInv
      <3>5. /\ overlapped \subseteq overlapped'
            /\ \A d \in Core : call'[d] \subseteq call[d] \cup {a}
            /\ \A d \in Core : d # c => call'[d] = call[d]
        BY <1>b, <3>1
      <3>6. ASSUME NEW d \in Core, NEW b \in call'[d], NEW u \in WordAddress, NEW v \in WordValue,
                   b.op = "store", <<b, u, v>> \in got[d], u \notin written[d], u \notin overlapped'
            PROVE  mem[u] = v
        <4>1. b \in call[d]
          BY <3>4, <3>5, <3>6
        <4> QED
          BY <1>a, <3>5, <3>6, <4>1 DEF FreshInv
      <3> QED
        BY <3>1, <3>3, <3>6 DEF FreshInv
    <2>5. ASSUME NEW a \in Accesses, NEW w \in WordAddress, w \in SpanWords(a), StoreBack(c, a, w)
          PROVE  FreshInv'
      <3>1. PICK v \in WordValue : SetWord(w, Merge(a, w, v), Span(a))
        BY <2>5, StoreBackCases
      <3>2. Merge(a, w, v) \in WordValue
        BY MergeFacts
      <3>3. a \in call[c] /\ a.op = "store" /\ overlapped' = overlapped
        BY <2>5, StoreBackCases
      <3>4. \A d \in Core \ {c} : w \in Claimed(d) => w \in overlapped
        BY <1>a, <2>5, <3>3, ClaimedWords DEF FreshInv
      <3>5. CASE written' = [written EXCEPT ![c] = {}] /\ Finish(c, a)
        <4>1. /\ call' = [call EXCEPT ![c] = @ \ {a}]
              /\ \A d \in Core : call'[d] \subseteq call[d] /\ got'[d] \subseteq got[d]
          BY <1>b, <3>5 DEF Finish
        <4>2. call'[c] = {}
          BY <1>a, <1>b, <3>3, <4>1 DEF CallInv
        <4>3. \A d \in Core : call'[d] # {} => written[d] \subseteq written'[d]
          BY <1>b, <3>5, <4>2
        <4> QED
          BY <1>a, <3>1, <3>2, <3>3, <3>4, <4>1, <4>2, <4>3, FreshAfterStore
      <3>6. CASE written' = [written EXCEPT ![c] = @ \cup {w}] /\ UNCHANGED <<call, todo, got>>
        <4>1. /\ \A d \in Core : call'[d] \subseteq call[d] /\ got'[d] \subseteq got[d]
              /\ \A d \in Core : written[d] \subseteq written'[d]
              /\ w \in written'[c]
          BY <1>b, <3>6
        <4> QED
          BY <1>a, <3>1, <3>2, <3>3, <3>4, <4>1, FreshAfterStore
      <3> QED
        BY <2>5, <3>5, <3>6, StoreBackCases
    <2>6. ASSUME NEW a \in Accesses, StoreAligned(c, a) PROVE FreshInv'
      <3>1. /\ SetWord(a.addr, a.val, Span(a)) /\ PlainStore(a) /\ call[c] = {}
            /\ overlapped' = overlapped \cup Contested(c, {a.addr})
            /\ UNCHANGED <<call, got, written>>
        BY <2>6 DEF StoreAligned, MayCall
      <3>2. a.addr \in WordAddress /\ a.val \in WordValue
        BY <3>1, PlainStoreFacts
      <3>3. \A d \in Core \ {c} : a.addr \in Claimed(d) => a.addr \in overlapped'
        BY <3>1 DEF Contested
      <3> QED
        BY <1>a, <3>1, <3>2, <3>3, FreshAfterStore
    <2>7. CASE UNCHANGED <<mem, call, got, written, overlapped>>
      BY <1>a, <2>7 DEF FreshInv, Claimed
    <2> QED
      BY <2>1, <2>2, <2>3, <2>4, <2>5, <2>6, <2>7 DEF CoreStep, AccessStep, NextChain
  <1> QED
    BY <1>0, <1>1

\* The invariant holds before the first chain.
LEMMA InvInit == Init => SubwordInv
  <1> SUFFICES ASSUME Init PROVE SubwordInv
    OBVIOUS
  <1>1. SubwordTypeOK
    BY TypeInit
  <1>2. CallInv /\ GotInv
    BY DEF Init, CallInv, GotInv
  <1>3. HistoryInv
    BY DEF Init, HistoryInv
  <1>4. FreshInv
    BY DEF Init, FreshInv, Claimed
  <1>5. LoadsReturnBytes
    BY DEF Init, LoadsReturnBytes
  <1> QED
    BY <1>1, <1>2, <1>3, <1>4, <1>5 DEF SubwordInv

\* Every step of every core preserves the invariant.
LEMMA InvNext == SubwordInv /\ [Next]_vars => SubwordInv'
  <1> SUFFICES ASSUME SubwordInv, [Next]_vars PROVE SubwordInv'
    OBVIOUS
  <1>1. SubwordTypeOK'
    BY TypeNext DEF SubwordInv
  <1> QED
    BY <1>1, CallNext, GotNext, HistoryNext, FreshNext, ResultNext DEF SubwordInv

(***************************************************************************)
(* Theorems.                                                               *)
(***************************************************************************)

\* The invariant holds in every reachable state of the lowered code.
THEOREM SubwordInvariance == Spec => []SubwordInv
  BY InvInit, InvNext, PTL DEF Spec

\* Memory, registers and ghosts keep their types: no word load or store of the
\* lowered code is outside the memory.
THEOREM SubwordTypeCorrect == Spec => []SubwordTypeOK
  <1>1. SubwordInv => SubwordTypeOK
    BY DEF SubwordInv
  <1> QED
    BY <1>1, SubwordInvariance, PTL

\* LowerLOAD only loads aligned words that hold bytes of the access, for every
\* truthful alignment and every constant offset from a frame index.
THEOREM LoadsOwnWords == Spec => []OnlyOwnWords
  <1>1. SubwordTypeOK => OnlyOwnWords
    BY LoadWordsExact DEF SubwordTypeOK, OnlyOwnWords
  <1> QED
    BY <1>1, SubwordTypeCorrect, PTL

\* A load returns bytes that its own addresses held while its chain ran,
\* extended as the node asks, whatever the other cores store meanwhile.
THEOREM LoadsCorrect == Spec => []LoadsReturnBytes
  <1>1. SubwordInv => LoadsReturnBytes
    BY DEF SubwordInv
  <1> QED
    BY <1>1, SubwordInvariance, PTL

\* The races of load/modify/store sequences never bring a value into a byte to
\* which nobody stored it.
THEOREM BytesKeepTheirValues == Spec => []NoForeignValues
  <1>1. SubwordInv => NoForeignValues
    BY DEF SubwordInv, HistoryInv, NoForeignValues
  <1> QED
    BY <1>1, SubwordInvariance, PTL

(***************************************************************************)
(* Refinement of the abstract memory of bytes.                             *)
(***************************************************************************)

\* A core without a call has nothing pending and nothing claimed.
LEMMA NothingPending ==
  ASSUME NEW c, call[c] = {}
  PROVE  PendingBytes(c) = {} /\ Claimed(c) = {}
  BY DEF PendingBytes, Claimed

\* Initially the memory of words represents a memory of bytes.
LEMMA StartRefined == Init => Abstract!Start
  <1> SUFFICES ASSUME Init PROVE Abstract!Start
    OBVIOUS
  <1>1. mem \in [WordAddress -> WordValue]
    BY TypeInit DEF SubwordTypeOK
  <1>2. Bytes(mem) \in [Address -> Byte]
    BY <1>1, BytesOfMemory
  <1>3. \A c \in Core : PendingBytes(c) = {} /\ Claimed(c) = {}
    BY NothingPending DEF Init
  <1> QED
    BY <1>2, <1>3 DEF Init, Abstract!Start

\* The store that a core has called, as a store of bytes.
LEMMA CalledStore ==
  ASSUME SubwordTypeOK, CallInv, NEW c \in Core, NEW a \in call[c], a.op = "store"
  PROVE  /\ a \in Accesses /\ call[c] = {a} /\ Claimed(c) = SpanWords(a)
         /\ written[c] \subseteq SpanWords(a)
         /\ PendingBytes(c) = {<<x, a.val[x - a.addr]>> :
                                  x \in {y \in Span(a) : WordOf(y) \notin written[c]}}
  <1>1. call[c] = {a} /\ a \in Accesses
    BY DEF CallInv, SubwordTypeOK
  <1>2. written[c] \subseteq SpanWords(a)
    BY <1>1 DEF CallInv
  <1>3. {b \in call[c] : b.op = "store"} = {a}
    BY <1>1
  <1>4. Claimed(c) = SpanWords(a)
    BY <1>3 DEF Claimed
  <1>5. PendingBytes(c) = UNION {{<<x, b.val[x - b.addr]>> :
                                    x \in {y \in Span(b) : WordOf(y) \notin written[c]}} : b \in {a}}
    BY <1>3 DEF PendingBytes
  <1>6. @ = {<<x, a.val[x - a.addr]>> : x \in {y \in Span(a) : WordOf(y) \notin written[c]}}
    OBVIOUS
  <1> QED
    BY <1>1, <1>2, <1>4, <1>5, <1>6

\* A call of a store starts the store of its bytes.
LEMMA CallRefined ==
  ASSUME SubwordInv, SubwordInv', NEW c \in Core, NEW a \in Accesses, a.op = "store",
         StartCall(c, a)
  PROVE  Abstract!BeginStore(c)
  <1> DEFINE P == {<<x, a.val[x - a.addr]>> : x \in Span(a)}
  <1>1. /\ call' = [call EXCEPT ![c] = @ \cup {a}] /\ call[c] = {}
        /\ overlapped' = overlapped \cup Contested(c, SpanWords(a))
        /\ UNCHANGED <<mem, written, held>>
    BY DEF StartCall, MayCall
  <1>2. call \in [Core -> SUBSET Accesses] /\ call' = [call EXCEPT ![c] = {a}]
    BY <1>1 DEF SubwordInv, SubwordTypeOK
  <1>3. written[c] = {}
    BY <1>1 DEF SubwordInv, CallInv
  <1>4. PendingBytes(c) = {} /\ Claimed(c) = {}
    BY <1>1, NothingPending
  <1>5. Claimed(c)' = SpanWords(a)
    BY <1>2 DEF Claimed
  <1>6. PendingBytes(c)' = P
    BY <1>1, <1>2, <1>3 DEF PendingBytes
  <1>7. \A d \in Core : d # c => PendingBytes(d)' = PendingBytes(d) /\ Claimed(d)' = Claimed(d)
    BY <1>1, <1>2 DEF PendingBytes, Claimed
  <1>8. ASSUME NEW p \in P
        PROVE  p \in Address \X Byte /\ p[1] \in Span(a) /\ p = <<p[1], a.val[p[1] - a.addr]>>
    <2>1. PICK x \in Span(a) : p = <<x, a.val[x - a.addr]>>
      BY <1>8
    <2>2. x \in Address /\ a.val[x - a.addr] \in Byte
      BY SpanFacts, AccessFields, WordValueParts
    <2> QED
      BY <2>1, <2>2
  <1>9. P # {}
    <2>1. a.addr \in Span(a)
      BY SpanFacts
    <2>2. <<a.addr, a.val[a.addr - a.addr]>> \in P
      BY <2>1
    <2> QED
      BY <2>2
  <1>10. Abstract!Touched(P) = SpanWords(a)
    <2>1. Abstract!Touched(P) = {WordOf(p[1]) : p \in P}
      BY DEF Abstract!Touched, Abstract!Word, WordOf
    <2>2. ASSUME NEW x \in Span(a)
          PROVE  WordOf(x) \in {WordOf(p[1]) : p \in P}
      <3>1. <<x, a.val[x - a.addr]>> \in P /\ <<x, a.val[x - a.addr]>>[1] = x
        OBVIOUS
      <3> QED
        BY <3>1
    <2>3. ASSUME NEW p \in P
          PROVE  WordOf(p[1]) \in SpanWords(a)
      BY <1>8 DEF SpanWords
    <2> QED
      BY <2>1, <2>2, <2>3 DEF SpanWords
  <1>11. \A p, q \in P : p[1] = q[1] => p = q
    BY <1>8
  <1>12. P \subseteq Address \X Byte
    BY <1>8
  <1> DEFINE S == [d \in Core |-> PendingBytes(d)]
             C == [d \in Core |-> Claimed(d)]
  <1>13. S' = [S EXCEPT ![c] = P] /\ S'[c] = P /\ S[c] = {}
    BY <1>4, <1>6, <1>7
  <1>14. C' = [C EXCEPT ![c] = SpanWords(a)] /\ C'[c] = SpanWords(a) /\ C[c] = {}
    BY <1>4, <1>5, <1>7
  <1>15. overlapped' = overlapped \cup (SpanWords(a) \cap UNION {C[d] : d \in Core \ {c}})
    BY <1>1 DEF Contested
  <1>16. Bytes(mem)' = Bytes(mem)
    BY <1>1 DEF Bytes
  <1> HIDE DEF P
  <1> QED
    BY <1>1, <1>9, <1>10, <1>11, <1>12, <1>13, <1>14, <1>15, <1>16 DEF Abstract!BeginStore

\* A word that a library call stores back is a part of its store of bytes.  The
\* other bytes of the word keep their values when no other store meets it there,
\* and otherwise get a value that was stored to them before.
LEMMA StoreBackRefined ==
  ASSUME SubwordInv, SubwordInv', NEW c \in Core, NEW a \in Accesses,
         NEW w \in WordAddress, w \in SpanWords(a), StoreBack(c, a, w)
  PROVE  Abstract!WritePart(c, w)
  <1> DEFINE S == [d \in Core |-> PendingBytes(d)]
             C == [d \in Core |-> Claimed(d)]
             part == {p \in S[c] : WordOf(p[1]) = w}
  <1>1. /\ a \in call[c] /\ a.op = "store" /\ w \notin written[c]
        /\ UNCHANGED overlapped
    BY StoreBackCases
  <1>2. PICK v \in WordValue : <<a, w, v>> \in got[c] /\ SetWord(w, Merge(a, w, v), Span(a))
    BY StoreBackCases
  <1>3. /\ call[c] = {a} /\ Claimed(c) = SpanWords(a) /\ written[c] \subseteq SpanWords(a)
        /\ PendingBytes(c) = {<<x, a.val[x - a.addr]>> :
                                 x \in {y \in Span(a) : WordOf(y) \notin written[c]}}
    BY <1>1, CalledStore DEF SubwordInv
  <1>4. \A x \in Address : \A b : <<x, b>> \in part <=>
          x \in Span(a) /\ WordOf(x) = w /\ b = a.val[x - a.addr]
    <2> TAKE x \in Address
    <2> TAKE b
    <2>1. <<x, b>> \in PendingBytes(c) <=>
            x \in Span(a) /\ WordOf(x) \notin written[c] /\ b = a.val[x - a.addr]
      BY <1>3
    <2> QED
      BY <1>1, <2>1
  <1>5. \A p \in part : p[1] \in Span(a) /\ p[1] \in Address /\ p = <<p[1], a.val[p[1] - a.addr]>>
    <2> TAKE p \in part
    <2>1. p \in {<<x, a.val[x - a.addr]>> : x \in {y \in Span(a) : WordOf(y) \notin written[c]}}
      BY <1>3
    <2>2. PICK x \in Span(a) : p = <<x, a.val[x - a.addr]>>
      BY <2>1
    <2> QED
      BY <2>2, SpanFacts
  <1>6. part # {}
    <2>1. PICK x \in Span(a) : WordOf(x) = w
      BY DEF SpanWords
    <2>2. <<x, a.val[x - a.addr]>> \in part
      BY <2>1, <1>4, SpanFacts
    <2> QED
      BY <2>2
  <1>7. Merge(a, w, v) \in WordValue
    BY MergeFacts
  <1>8. ASSUME NEW x \in Address, WordOf(x) = w, x \in Span(a)
        PROVE  Bytes(mem')[x] = a.val[x - a.addr] /\ held'[x] = held[x] \cup {Bytes(mem')[x]}
    <2>1. w + (x % 4) = x /\ x % 4 \in Position
      BY <1>8, AddressParts
    <2>2. Merge(a, w, v)[x % 4] = a.val[w + (x % 4) - a.addr]
      BY <2>1, <1>8, MergeFacts
    <2>3. w + (x % 4) - a.addr = x - a.addr
      <3>1. w \in Int /\ a.addr \in Int /\ x % 4 \in Int
        BY <2>1, AccessFields DEF WordAddress, Address, Position
      <3>2. \A i \in Int : w + i - a.addr = (w + i) - a.addr
        BY <3>1
      <3> QED
        BY <2>1, <3>1, <3>2
    <2> QED
      BY <2>2, <2>3, <1>2, <1>7, <1>8, SetWordFacts DEF SubwordInv
  <1>9. ASSUME NEW x \in Address, WordOf(x) = w, x \notin Span(a)
        PROVE  /\ held'[x] = held[x]
               /\ Bytes(mem')[x] = Bytes(mem)[x] \/ (w \in overlapped /\ Bytes(mem')[x] \in held[x])
    <2>1. w + (x % 4) = x /\ x % 4 \in Position
      BY <1>9, AddressParts
    <2>2. Merge(a, w, v)[x % 4] = v[x % 4]
      BY <2>1, <1>9 DEF Merge
    <2>3. Bytes(mem')[x] = v[x % 4] /\ held'[x] = held[x]
      BY <2>2, <1>2, <1>7, <1>9, SetWordFacts DEF SubwordInv
    <2>4. v[x % 4] \in held[x]
      BY <2>1, <1>2 DEF SubwordInv, HistoryInv
    <2>5. w \notin overlapped => mem[w] = v
      BY <1>1, <1>2 DEF SubwordInv, FreshInv
    <2>6. mem[w] = v => Bytes(mem)[x] = v[x % 4]
      <3>1. mem \in [WordAddress -> WordValue]
        BY DEF SubwordInv, SubwordTypeOK
      <3>2. Bytes(mem)[x] = mem[WordOf(x)][x % 4]
        BY <3>1, BytesOfMemory
      <3> QED
        BY <3>2, <1>9
    <2> QED
      BY <2>3, <2>4, <2>5, <2>6
  <1>10. ASSUME NEW x \in Address, WordOf(x) # w
         PROVE  held'[x] = held[x] /\ Bytes(mem')[x] = Bytes(mem)[x]
    BY <1>2, <1>7, <1>10, SetWordFacts DEF SubwordInv
  <1>11. Bytes(mem') \in [Address -> Byte] /\ held' \in [Address -> SUBSET Byte]
    BY BytesOfMemory DEF SubwordInv, SubwordTypeOK
  <1>12. \A d \in Core : d # c => call'[d] = call[d] /\ written'[d] = written[d]
    BY StoreBackCases DEF Finish, SubwordInv, SubwordTypeOK
  <1>13. \A d \in Core : d # c => PendingBytes(d)' = PendingBytes(d) /\ Claimed(d)' = Claimed(d)
    BY <1>12 DEF PendingBytes, Claimed
  <1>14. PendingBytes(c)' = PendingBytes(c) \ part /\ Claimed(c)' = IF PendingBytes(c)' = {} THEN {} ELSE Claimed(c)
    <2>1. CASE written[c] \cup {w} = SpanWords(a)
      <3> Finish(c, a)
        BY <2>1, StoreBackCases
      <3> call \in [Core -> SUBSET Accesses]
        BY DEF SubwordInv, SubwordTypeOK
      <3>1. call'[c] = {}
        BY <1>3 DEF Finish
      <3>2. PendingBytes(c)' = {} /\ Claimed(c)' = {}
        BY <3>1 DEF PendingBytes, Claimed
      <3>3. ASSUME NEW p \in PendingBytes(c)
            PROVE  p \in part
        <4>1. PICK x \in Span(a) : WordOf(x) \notin written[c] /\ p = <<x, a.val[x - a.addr]>>
          BY <3>3, <1>3
        <4>2. WordOf(x) \in SpanWords(a)
          BY DEF SpanWords
        <4>3. WordOf(x) = w
          BY <4>1, <4>2, <2>1
        <4> QED
          BY <4>1, <4>3, <1>4, SpanFacts
      <3> QED
        BY <3>2, <3>3
    <2>2. CASE written[c] \cup {w} # SpanWords(a)
      <3> written' = [written EXCEPT ![c] = @ \cup {w}] /\ UNCHANGED call
        BY <2>2, StoreBackCases
      <3> written \in [Core -> SUBSET WordAddress]
        BY DEF SubwordInv, SubwordTypeOK
      <3>1. call'[c] = {a} /\ written'[c] = written[c] \cup {w}
        BY <1>3
      <3>2. Claimed(c)' = SpanWords(a)
        BY <3>1, <1>1 DEF Claimed
      <3>3. PendingBytes(c)' = {<<x, a.val[x - a.addr]>> :
                                  x \in {y \in Span(a) : WordOf(y) \notin written[c] \cup {w}}}
        BY <3>1, <1>1 DEF PendingBytes
      <3>4. ASSUME NEW p \in PendingBytes(c)'
            PROVE  p \in PendingBytes(c) \ part
        <4>1. PICK x \in Span(a) : /\ WordOf(x) \notin written[c] /\ WordOf(x) # w
                                   /\ p = <<x, a.val[x - a.addr]>>
          BY <3>4, <3>3
        <4> QED
          BY <4>1, <1>3
      <3>5. ASSUME NEW p \in PendingBytes(c), p \notin part
            PROVE  p \in PendingBytes(c)'
        <4>1. PICK x \in Span(a) : WordOf(x) \notin written[c] /\ p = <<x, a.val[x - a.addr]>>
          BY <3>5, <1>3
        <4>2. WordOf(x) # w
          BY <4>1, <3>5, <1>4, SpanFacts
        <4> QED
          BY <4>1, <4>2, <3>3
      <3>6. PICK u \in SpanWords(a) : u \notin written[c] /\ u # w
        BY <1>3, <2>2
      <3>7. PICK x \in Span(a) : WordOf(x) = u
        BY DEF SpanWords
      <3>8. <<x, a.val[x - a.addr]>> \in PendingBytes(c)'
        BY <3>3, <3>6, <3>7
      <3> QED
        BY <3>2, <3>4, <3>5, <3>8, <1>3
    <2> QED
      BY <2>1, <2>2
  <1>15. \A p \in part : WordOf(p[1]) = w
    OBVIOUS
  <1>16. S' = [S EXCEPT ![c] = @ \ part] /\ S'[c] = PendingBytes(c)'
    BY <1>13, <1>14
  <1>17. C' = [C EXCEPT ![c] = IF S'[c] = {} THEN {} ELSE @]
    BY <1>13, <1>14, <1>16
  <1> HIDE DEF S, C
  <1>18. part = {p \in S[c] : Abstract!Word(p[1]) = w}
    BY DEF Abstract!Word, WordOf
  <1>19. \A x \in Address :
           \/ <<x, Bytes(mem')[x]>> \in part /\ held'[x] = held[x] \cup {Bytes(mem')[x]}
           \/ /\ \A p \in part : p[1] # x
              /\ held'[x] = held[x]
              /\ \/ Bytes(mem')[x] = Bytes(mem)[x]
                 \/ Abstract!Word(x) = w /\ w \in overlapped /\ Bytes(mem')[x] \in held[x]
    <2> TAKE x \in Address
    <2>1. Abstract!Word(x) = WordOf(x)
      BY DEF Abstract!Word, WordOf
    <2>2. CASE WordOf(x) = w /\ x \in Span(a)
      BY <2>2, <1>4, <1>8
    <2>3. CASE WordOf(x) = w /\ x \notin Span(a)
      BY <2>1, <2>3, <1>5, <1>9
    <2>4. CASE WordOf(x) # w
      BY <2>4, <1>15, <1>10
    <2> QED
      BY <2>2, <2>3, <2>4
  <1> HIDE DEF part
  <1> QED
    BY <1>1, <1>6, <1>11, <1>16, <1>17, <1>18, <1>19 DEF Abstract!WritePart, S, C

\* The store instruction for an aligned word is a store of its four bytes.
LEMMA StoreAlignedRefined ==
  ASSUME SubwordInv, SubwordInv', NEW c \in Core, NEW a \in Accesses, StoreAligned(c, a)
  PROVE  Abstract!StoreWord(c, a.addr)
  <1> DEFINE S == [d \in Core |-> PendingBytes(d)]
             C == [d \in Core |-> Claimed(d)]
  <1>1. /\ PlainStore(a) /\ call[c] = {} /\ SetWord(a.addr, a.val, Span(a))
        /\ overlapped' = overlapped \cup Contested(c, {a.addr})
        /\ UNCHANGED <<call, written>>
    BY DEF StoreAligned, MayCall
  <1>2. /\ a.addr \in WordAddress /\ a.val \in WordValue
        /\ \A x \in Address : WordOf(x) = a.addr => x \in Span(a)
    BY <1>1, PlainStoreFacts
  <1>3. S[c] = {} /\ C[c] = {}
    BY <1>1, NothingPending
  <1>4. S' = S /\ C' = C
    BY <1>1 DEF PendingBytes, Claimed
  <1>5. overlapped' = overlapped \cup ({a.addr} \cap UNION {C[d] : d \in Core \ {c}})
    BY <1>1 DEF Contested
  <1>6. \A x \in Address : WordOf(x) = a.addr => held'[x] = held[x] \cup {Bytes(mem')[x]}
    BY <1>1, <1>2, SetWordFacts DEF SubwordInv
  <1>7. \A x \in Address : WordOf(x) # a.addr =>
          Bytes(mem')[x] = Bytes(mem)[x] /\ held'[x] = held[x]
    BY <1>1, <1>2, SetWordFacts DEF SubwordInv
  <1>8. Bytes(mem') \in [Address -> Byte] /\ held' \in [Address -> SUBSET Byte]
    BY BytesOfMemory DEF SubwordInv, SubwordTypeOK
  <1>9. \A x : Abstract!Word(x) = WordOf(x)
    BY DEF Abstract!Word, WordOf
  <1> QED
    BY <1>3, <1>4, <1>5, <1>6, <1>7, <1>8, <1>9 DEF Abstract!StoreWord

\* Steps that concern no store leave the memory of bytes alone.
LEMMA OtherStepsStutter ==
  ASSUME SubwordInv, NEW c \in Core, UNCHANGED <<mem, written, held, overlapped>>,
         \A d \in Core : {b \in call'[d] : b.op = "store"} = {b \in call[d] : b.op = "store"}
  PROVE  UNCHANGED Abstract!abstractVars
  <1>1. \A d \in Core : PendingBytes(d)' = PendingBytes(d) /\ Claimed(d)' = Claimed(d)
    BY DEF PendingBytes, Claimed
  <1>2. Bytes(mem)' = Bytes(mem)
    BY DEF Bytes
  <1> QED
    BY <1>1, <1>2 DEF Abstract!abstractVars

\* Every step of the lowered code is a step of the memory of bytes, or none.
LEMMA StepRefined ==
  SubwordInv /\ SubwordInv' /\ [Next]_vars => [Abstract!Step]_(Abstract!abstractVars)
  <1> SUFFICES ASSUME SubwordInv, SubwordInv', [Next]_vars
               PROVE  Abstract!Step \/ UNCHANGED Abstract!abstractVars
    OBVIOUS
  <1>1. CASE UNCHANGED vars
    <2>1. UNCHANGED <<mem, call, written, held, overlapped>>
      BY <1>1 DEF vars
    <2> QED
      BY <2>1 DEF Abstract!abstractVars, PendingBytes, Claimed, Bytes
  <1>2. ASSUME NEW w \in WordAddress
        PROVE  w \in {Abstract!Word(x) : x \in Address}
    <2>1. w \in Address /\ w % 4 = 0 /\ w \in Nat
      BY DEF WordAddress, Address
    <2>2. Abstract!Word(w) = w
      BY <2>1 DEF Abstract!Word
    <2> QED
      BY <2>1, <2>2
  <1>3. ASSUME NEW c \in Core, NEW a \in Accesses, NEW w, LoadWord(c, a, w)
        PROVE  UNCHANGED Abstract!abstractVars
    <2>1. UNCHANGED <<mem, call, written, held, overlapped>>
      BY <1>3 DEF LoadWord
    <2> QED
      BY <2>1, OtherStepsStutter
  <1>4. ASSUME NEW c \in Core, NEW a \in Accesses, FinishLoad(c, a)
        PROVE  UNCHANGED Abstract!abstractVars
    <2>1. /\ UNCHANGED <<mem, written, held, overlapped>> /\ a.op = "load"
          /\ call' = [call EXCEPT ![c] = @ \ {a}]
      BY <1>4 DEF FinishLoad, Finish
    <2>2. call \in [Core -> SUBSET Accesses]
      BY DEF SubwordInv, SubwordTypeOK
    <2>3. \A d \in Core : {b \in call'[d] : b.op = "store"} = {b \in call[d] : b.op = "store"}
      BY <2>1, <2>2
    <2> QED
      BY <2>1, <2>3, OtherStepsStutter
  <1>5. ASSUME NEW c \in Core, NEW a \in Accesses, StartCall(c, a)
        PROVE  Abstract!Step \/ UNCHANGED Abstract!abstractVars
    <2>1. CASE a.op = "store"
      BY <1>5, <2>1, CallRefined DEF Abstract!Step
    <2>2. CASE a.op # "store"
      <3>1. /\ UNCHANGED <<mem, written, held, overlapped>>
            /\ call' = [call EXCEPT ![c] = @ \cup {a}]
        BY <1>5, <2>2 DEF StartCall
      <3>2. call \in [Core -> SUBSET Accesses]
        BY DEF SubwordInv, SubwordTypeOK
      <3>3. \A d \in Core : {b \in call'[d] : b.op = "store"} = {b \in call[d] : b.op = "store"}
        BY <3>1, <3>2, <2>2
      <3> QED
        BY <3>1, <3>3, OtherStepsStutter
    <2> QED
      BY <2>1, <2>2
  <1>6. ASSUME NEW c \in Core, NEW a \in Accesses, NEW w \in WordAddress, w \in SpanWords(a),
               StoreBack(c, a, w)
        PROVE  Abstract!Step
    BY <1>2, <1>6, StoreBackRefined DEF Abstract!Step
  <1>7. ASSUME NEW c \in Core, NEW a \in Accesses, StoreAligned(c, a)
        PROVE  Abstract!Step
    <2>1. a.addr \in WordAddress
      BY <1>7, PlainStoreFacts DEF StoreAligned
    <2> QED
      BY <2>1, <1>2, <1>7, StoreAlignedRefined DEF Abstract!Step
  <1>8. ASSUME NEW c \in Core, NextChain(c)
        PROVE  UNCHANGED Abstract!abstractVars
    <2>1. UNCHANGED <<mem, call, written, held, overlapped>>
      BY <1>8 DEF NextChain
    <2> QED
      BY <2>1, OtherStepsStutter
  <1>9. CASE Next
    <2>1. PICK c \in Core : CoreStep(c)
      BY <1>9, StepCases DEF SubwordInv
    <2> QED
      BY <2>1, <1>3, <1>4, <1>5, <1>6, <1>7, <1>8 DEF CoreStep, AccessStep
  <1> QED
    BY <1>1, <1>9

\* The code that LowerLOAD and LowerSTORE leave, run by any number of cores on a
\* memory of any size, implements the memory of bytes: a store changes its own
\* bytes only, except on words where the stores of two cores overlap in time.
THEOREM SubwordRefinement == Spec => ImplementsByteMemory
  <1> QED
    BY StartRefined, StepRefined, SubwordInvariance, PTL
    DEF Spec, ImplementsByteMemory, Abstract!Spec
=============================================================================
