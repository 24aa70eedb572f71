------------------------ MODULE RigelActivationProofs ------------------------
(***************************************************************************)
(* Compiled code keeps the calling convention: for every frame that its    *)
(* immediates reach, whatever the function stores, allocates and calls.    *)
(***************************************************************************)
EXTENDS RigelActivation, RigelFrameProofs

(***************************************************************************)
(* The compiler inside: every step is a step of RigelFrame.                *)
(***************************************************************************)
LEMMA RunFrameStep == [RunNext]_allVars => [Next]_vars
  <1> SUFFICES ASSUME [RunNext]_allVars PROVE [Next]_vars
    OBVIOUS
  <1>1. CASE UNCHANGED allVars
    BY <1>1 DEF allVars
  <1>2. CASE \E n \in CallCounts, va \in CallVarArgs : EmitCall(n, va)
    BY <1>2 DEF EmitCall, Next, Lower
  <1>3. CASE CompileOther
    BY <1>3 DEF CompileOther, Next, Lower
  <1>4. CASE Run
    BY <1>4 DEF Run, Body, Enter, RunPrologue, SpillRegisters, StoreLocal, DynamicAlloca, DefineAT,
      KillAT, PassArguments, RunCallee, RestoreRegisters, RunEpilogue
  <1>5. CASE Returned
    BY <1>5 DEF Returned, allVars
  <1> QED
    BY <1>1, <1>2, <1>3, <1>4, <1>5 DEF RunNext, Compile

LEMMA RunImpliesFrame == RunSpec => Spec
  <1>1. RunInit => Init
    BY DEF RunInit
  <1> QED
    BY <1>1, RunFrameStep, PTL DEF RunSpec, Spec

\* So the frame of an activation is one that the theorems about frames cover.
FrameInv == IInv /\ SlotInv

LEMMA RunFrame == RunSpec => []FrameInv
  BY RunImpliesFrame, Invariance, SlotsHold, PTL DEF FrameInv

(***************************************************************************)
(* Immediates.                                                             *)
(***************************************************************************)
LEMMA ImmFacts ==
  /\ ImmHalf \in Nat \ {0} /\ ImmValues \in Nat \ {0} /\ ImmValues = ImmHalf + ImmHalf
  /\ ImmValues * ImmValues \in Nat /\ ImmHalf < ImmValues * ImmValues
  <1>1. ImmHalf \in Nat \ {0} /\ ImmValues \in Nat \ {0} /\ ImmValues = ImmHalf + ImmHalf
    BY ImmAssumption DEF ImmValues
  <1>2. ImmValues * ImmValues \in Nat /\ ImmValues * ImmValues >= ImmValues
    BY <1>1, AtLeastOnce
  <1> QED
    BY <1>1, <1>2

\* The cast of an immediate that fits changes nothing.
LEMMA ShortImmFits ==
  ASSUME NEW x \in Int, -ImmHalf <= x, x < ImmHalf
  PROVE  ShortImm(x) = x
  <1>1. PICK v \in Nat \ {0} : v = ImmValues
    BY ImmFacts
  <1>2. x + ImmHalf \in 0..(v - 1)
    BY <1>1, ImmFacts
  <1>3. (0 * v + (x + ImmHalf)) % v = x + ImmHalf
    BY <1>2, DivModUnique
  <1>4. 0 * v + (x + ImmHalf) = x + ImmHalf
    BY <1>1, <1>2
  <1>5. (x + ImmHalf) % v = x + ImmHalf
    BY <1>3, <1>4
  <1>6. (x + ImmHalf) - ImmHalf = x
    BY ImmFacts
  <1> QED
    BY <1>1, <1>5, <1>6 DEF ShortImm

\* MVUi and ORi build every constant of two immediates.
LEMMA MaterializeFits ==
  ASSUME NEW x \in Nat, x < ImmValues * ImmValues
  PROVE  Materialize(x) = x
  <1>1. PICK v \in Nat \ {0} : v = ImmValues
    BY ImmFacts
  <1>2. PICK q, r : q = x \div v /\ r = x % v
    OBVIOUS
  <1>3. q \in Int /\ r \in 0..(v - 1) /\ x = q * v + r
    BY <1>1, <1>2, DivMod
  <1>4. q \in 0..(v - 1)
    <2>1. q >= 0
      BY <1>2, <1>1
    <2>2. ~(q - v >= 0)
      <3> SUFFICES ASSUME q - v >= 0 PROVE FALSE
        OBVIOUS
      <3>1. (q - v) * v >= 0
        BY <1>3
      <3>2. (q - v) * v = q * v - v * v
        BY <1>3
      <3> QED
        BY <3>1, <3>2, <1>1, <1>3
    <2> QED
      BY <2>1, <2>2, <1>3
  <1>5. q % v = q
    <2>1. (0 * v + q) % v = q
      BY <1>4, DivModUnique
    <2>2. 0 * v + q = q
      BY <1>3
    <2> QED
      BY <2>1, <2>2
  <1> QED
    BY <1>1, <1>2, <1>3, <1>5 DEF Materialize

(***************************************************************************)
(* Addresses.  AtBottom: the base register of accesses to the frame is at  *)
(* its bottom.                                                             *)
(***************************************************************************)
Settled == FrameInv /\ FrameFits /\ pass = "done"

AtBottom == FrameRegister = -StackSize /\ (~hasFP => sp = -StackSize)

\* What FrameFits says.
LEMMA ReachFacts ==
  ASSUME Settled
  PROVE  /\ StackSize \in Nat /\ StackSize <= MemBelow /\ MemBelow \in Nat
         /\ FirstStackArgLoc(isVarArg) \in Nat /\ LocMemOffset(StackWords(numFormals)) \in Nat
         /\ Reach = StackSize + FirstStackArgLoc(isVarArg) + LocMemOffset(StackWords(numFormals))
         /\ Reach \in Nat /\ StackSize <= Reach /\ Reach < ImmValues * ImmValues
         /\ hasFP => Reach < ImmHalf
  <1>1. StackSize \in Nat /\ numFormals \in Nat /\ isVarArg \in BOOLEAN
    BY DEF Settled, FrameInv, IInv, TypeOK
  <1>2. StackWords(numFormals) \in Nat /\ FirstStackArgLoc(isVarArg) \in Nat
    BY <1>1, WordCounts
  <1>3. LocMemOffset(StackWords(numFormals)) \in Nat
    BY <1>2, SlotBytes DEF LocMemOffset
  <1>4. Reach \in Nat /\ StackSize <= Reach
    BY <1>1, <1>2, <1>3 DEF Reach
  <1>5. Reach < IF hasFP THEN ImmHalf ELSE ImmValues * ImmValues
    BY DEF Settled, FrameFits
  <1>6. (hasFP => Reach < ImmHalf) /\ (~hasFP => Reach < ImmValues * ImmValues)
    BY <1>5, Zenon
  <1>7. hasFP \/ ~hasFP
    OBVIOUS
  <1>8. Reach < ImmValues * ImmValues
    BY <1>4, <1>6, <1>7, ImmFacts
  <1>9. StackSize <= MemBelow /\ MemBelow \in Nat
    BY MemAssumption DEF Settled, FrameFits
  <1> QED
    BY <1>1, <1>2, <1>3, <1>4, <1>6, <1>8, <1>9 DEF Reach

\* eliminateFrameIndex reaches what it should.
LEMMA AddrFacts ==
  ASSUME Settled, AtBottom, NEW i, NEW d \in Nat, FrameOffset(i) \in Nat, FrameOffset(i) + d < Reach
  PROVE  Addr(i, d) = FrameOffset(i) + d - StackSize
  <1>1. PICK o : o = FrameOffset(i) + d
    OBVIOUS
  <1>2. o \in Nat /\ o < Reach /\ StackSize \in Nat
    BY <1>1, ReachFacts
  <1>3. CASE isInt(o)
    <2>1. ShortImm(o) = o
      BY <1>2, <1>3, ShortImmFits DEF isInt
    <2>2. Addr(i, d) = FrameRegister + ShortImm(o)
      BY <1>1, <1>3 DEF Addr
    <2>3. Addr(i, d) = -StackSize + o
      BY <2>1, <2>2 DEF AtBottom
    <2> QED
      BY <1>1, <1>2, <2>3
  <1>4. CASE ~isInt(o)
    <2>1. ~hasFP
      <3> SUFFICES ASSUME hasFP PROVE FALSE
        OBVIOUS
      <3>1. Reach < ImmHalf /\ Reach \in Nat
        BY ReachFacts
      <3> QED
        BY <3>1, <1>2, <1>4, ImmFacts DEF isInt
    <2>2. o < ImmValues * ImmValues
      BY <1>2, ReachFacts, ImmFacts
    <2>3. Materialize(o) = o
      BY <1>2, <2>2, MaterializeFits
    <2>4. Addr(i, d) = sp + Materialize(o)
      BY <1>1, <1>4 DEF Addr
    <2>5. Addr(i, d) = -StackSize + o
      BY <2>1, <2>3, <2>4 DEF AtBottom
    <2> QED
      BY <1>1, <1>2, <2>5
  <1> QED
    BY <1>3, <1>4

\* Word after word, the accesses to an object cover its bytes.
LEMMA BytesOfObject ==
  ASSUME Settled, AtBottom, NEW i, Start(i) \in Nat, End(i) <= Reach, Objects[i].size \in Nat
  PROVE  ObjectBytes(i) = FrameBytes(i)
  <1>1. PICK s, o, R : s = Objects[i].size /\ o = FrameOffset(i) /\ R = RegSize
    OBVIOUS
  <1>2. s \in Nat /\ o \in Nat /\ R \in Nat \ {0} /\ StackSize \in Nat /\ o + s <= Reach /\ Reach \in Nat
    BY <1>1, WordAssumption, ReachFacts DEF Start, End
  <1>3. \A b \in 0..(s - 1) : Addr(i, RegSize * (b \div RegSize)) + (b % RegSize) = o + b - StackSize
    <2> SUFFICES ASSUME NEW b \in 0..(s - 1)
                 PROVE  Addr(i, R * (b \div R)) + (b % R) = o + b - StackSize
      BY <1>1
    <2>1. PICK q, r : q = b \div R /\ r = b % R
      OBVIOUS
    <2>2. b \in Nat /\ q \in Nat /\ r \in 0..(R - 1) /\ b = q * R + r
      <3>1. b \in Nat
        BY <1>2
      <3>2. q \in Nat
        BY <1>2, <2>1, <3>1, DivBounds
      <3>3. r \in 0..(R - 1) /\ b = q * R + r
        BY <1>2, <2>1, <3>1, DivMod
      <3> QED
        BY <3>1, <3>2, <3>3
    <2>3. R * q \in Nat /\ b = R * q + r /\ R * q <= b
      BY <1>2, <2>2
    <2>4. o + R * q < Reach
      BY <1>2, <2>2, <2>3
    <2>5. Addr(i, R * q) = o + R * q - StackSize
      BY <1>1, <1>2, <2>3, <2>4, AddrFacts
    <2>6. R * q - StackSize \in Int /\ (o + (R * q - StackSize)) + r = o + (b - StackSize)
      BY <1>2, <2>2, <2>3
    <2> QED
      BY <2>1, <2>5, <2>6
  <1>4. ObjectBytes(i) = {o + b - StackSize : b \in 0..(s - 1)}
    BY <1>1, <1>3 DEF ObjectBytes
  <1>5. FrameBytes(i) = (o - StackSize)..(((o + s) - StackSize) - 1)
    <2>1. Start(i) = o /\ End(i) = o + s
      BY <1>1 DEF Start, End
    <2>2. o + s - StackSize - 1 = ((o + s) - StackSize) - 1
      BY <1>2
    <2>3. End(i) - StackSize - 1 = ((o + s) - StackSize) - 1
      BY <2>1, <1>2
    <2> QED
      BY <2>1, <2>3 DEF FrameBytes
  <1>6. ASSUME NEW x \in (o - StackSize)..(((o + s) - StackSize) - 1)
        PROVE  x \in {o + b - StackSize : b \in 0..(s - 1)}
    <2>1. (x + StackSize) - o \in 0..(s - 1) /\ x = o + ((x + StackSize) - o) - StackSize
      BY <1>2
    <2> QED
      BY <2>1
  <1>7. ASSUME NEW b \in 0..(s - 1)
        PROVE  o + b - StackSize \in (o - StackSize)..(((o + s) - StackSize) - 1)
    BY <1>2
  <1> QED
    BY <1>4, <1>5, <1>6, <1>7

(***************************************************************************)
(* The frame in memory.  Own: an object of the frame that the functions    *)
(* called from it have no business with.                                   *)
(***************************************************************************)
Own(i) == i \in FrameIndices /\ InFrame(i) /\ Objects[i].kind # "out"

\* The bytes of an object of the frame are in the frame and in memory.
LEMMA FrameBytesFacts ==
  ASSUME Settled, NEW i \in FrameIndices, InFrame(i)
  PROVE  /\ Start(i) \in Nat /\ Objects[i].size \in Nat /\ End(i) = Start(i) + Objects[i].size
         /\ End(i) <= StackSize
         /\ FrameBytes(i) \subseteq (-StackSize)..(-1)
         /\ FrameBytes(i) \subseteq (-MemBelow)..(-1)
         /\ AtBottom => ObjectBytes(i) = FrameBytes(i)
  <1>1. /\ Start(i) \in Nat /\ Objects[i].size \in Nat /\ End(i) = Start(i) + Objects[i].size
        /\ End(i) <= StackSize
    BY FinalOffsets DEF Settled, FrameInv
  <1>2. FrameBytes(i) \subseteq (-StackSize)..(-1) /\ FrameBytes(i) \subseteq (-MemBelow)..(-1)
    BY <1>1, ReachFacts DEF FrameBytes
  <1>3. AtBottom => ObjectBytes(i) = FrameBytes(i)
    BY <1>1, ReachFacts, BytesOfObject
  <1> QED
    BY <1>1, <1>2, <1>3

\* Its own objects share no byte with any other object of the frame, and lie
\* above the outgoing slots.
LEMMA OwnBytes ==
  ASSUME Settled, NEW i, Own(i), NEW j \in FrameIndices, InFrame(j), i # j
  PROVE  /\ FrameBytes(i) \cap FrameBytes(j) = {}
         /\ Objects[j].kind = "out" => End(j) <= Start(i)
  <1>1. FrameObjectsDisjoint
    BY LayoutDisjoint DEF Settled, FrameInv
  <1>2. i \in FrameIndices /\ InFrame(i) /\ ~Shared(i, j)
    BY DEF Own, Shared
  <1>3. Disjoint(i, j)
    BY <1>1, <1>2 DEF FrameObjectsDisjoint, Settled
  <1>4. /\ Start(i) \in Nat /\ Objects[i].size \in Nat /\ End(i) = Start(i) + Objects[i].size
        /\ Start(j) \in Nat /\ Objects[j].size \in Nat /\ End(j) = Start(j) + Objects[j].size
        /\ StackSize \in Nat
    BY <1>2, FrameBytesFacts, ReachFacts
  <1>5. FrameBytes(i) \cap FrameBytes(j) = {}
    BY <1>3, <1>4 DEF Disjoint, FrameBytes
  <1>6. Objects[j].kind = "out" => End(j) <= Start(i)
    <2> SUFFICES ASSUME Objects[j].kind = "out" PROVE End(j) <= Start(i)
      OBVIOUS
    <2>1. j < 0 /\ ~Caller(j)
      BY DEF Settled, FrameInv, IInv, LayoutInv, FixedInv, Caller
    <2>2. i >= 0
      BY <1>2, FinalOffsets DEF Settled, FrameInv, Own
    <2> QED
      BY <1>2, <2>1, <2>2, FinalOffsets DEF Settled, FrameInv, IInv, LayoutInv, PlacedInv
  <1> QED
    BY <1>5, <1>6

\* The slots of FP, RA and the spilled registers are own objects of one word.
LEMMA SlotFacts ==
  ASSUME Settled
  PROVE  /\ SavedCSRs \in 0..NumCSRs /\ minCS \in Nat
         /\ hasFP => /\ Own(FPSlot) /\ Objects[FPSlot].kind = "save" /\ FPStackOffset \in Nat
                     /\ FPStackOffset + RegSize <= StackSize
                     /\ FrameBytes(FPSlot) =
                          (FPStackOffset - StackSize)..(FPStackOffset - StackSize + RegSize - 1)
         /\ hasCalls => /\ Own(RASlot) /\ Objects[RASlot].kind = "save" /\ RAStackOffset \in Nat
                        /\ RAStackOffset + RegSize <= StackSize
                        /\ FrameBytes(RASlot) =
                             (RAStackOffset - StackSize)..(RAStackOffset - StackSize + RegSize - 1)
         /\ hasFP /\ hasCalls => FPSlot # RASlot
         /\ \A k \in 1..SavedCSRs :
              /\ Own(minCS + k - 1) /\ Objects[minCS + k - 1].kind = "csr"
              /\ Objects[minCS + k - 1].size = RegSize
  <1>1. /\ NumFixed \in Nat /\ NumObjs \in Nat /\ minCS \in Nat /\ maxCS \in Int /\ maxCS < NumObjs
        /\ StackSize \in Nat /\ RegSize \in Nat \ {0} /\ NumCSRs \in Nat
    BY WordAssumption, RegAssumption DEF Settled, FrameInv, IInv, TypeOK, LayoutInv, LoopInv
  <1>2. SavedCSRs \in 0..NumCSRs
    BY DEF Settled, FrameInv, SlotInv, SavedCSRs
  <1>3. ASSUME NEW i, NEW o, IsSaveSlot(i, o)
        PROVE  /\ Own(i) /\ Objects[i].kind = "save" /\ o \in Nat /\ o + RegSize <= StackSize
               /\ FrameBytes(i) = (o - StackSize)..(o - StackSize + RegSize - 1)
    <2>1. /\ i \in FrameIndices /\ Objects[i].kind = "save" /\ Objects[i].size = RegSize
          /\ Objects[i].off = o
      BY <1>1, <1>3 DEF IsSaveSlot, FrameIndices
    <2>2. InFrame(i)
      BY <1>1, <2>1 DEF InFrame, DeadSize
    <2>3. Start(i) = o /\ End(i) = o + RegSize /\ o \in Nat /\ o + RegSize <= StackSize
      BY <2>1, <2>2, FinalOffsets DEF Settled, FrameInv
    <2>4. o + RegSize - StackSize - 1 = o - StackSize + RegSize - 1
      BY <1>1, <2>3
    <2>5. End(i) - StackSize - 1 = o - StackSize + RegSize - 1
      BY <1>1, <2>3
    <2> QED
      BY <2>1, <2>2, <2>3, <2>5 DEF FrameBytes, Own
  <1>4. hasFP => IsSaveSlot(FPSlot, FPStackOffset)
    BY DEF Settled, FrameInv, SlotInv
  <1>5. hasCalls => IsSaveSlot(RASlot, RAStackOffset)
    BY DEF Settled, FrameInv, SlotInv
  <1>6. hasFP /\ hasCalls => FPSlot # RASlot
    BY <1>1 DEF FPSlot, RASlot, SaveSlots
  <1>7. ASSUME NEW k \in 1..SavedCSRs
        PROVE  /\ Own(minCS + k - 1) /\ Objects[minCS + k - 1].kind = "csr"
               /\ Objects[minCS + k - 1].size = RegSize
    <2>1. minCS + k - 1 \in minCS..maxCS /\ minCS + k - 1 \in FrameIndices
      BY <1>1 DEF SavedCSRs, FrameIndices
    <2>2. Objects[minCS + k - 1].kind = "csr" /\ Objects[minCS + k - 1].size = RegSize
      BY <2>1 DEF Settled, FrameInv, SlotInv
    <2> QED
      BY <1>1, <2>1, <2>2 DEF Own, InFrame, DeadSize
  <1> QED
    BY <1>1, <1>2, <1>3, <1>4, <1>5, <1>6, <1>7

\* While the compiled code runs, the frame does not change.
LEMMA SameFrame ==
  ASSUME UNCHANGED vars
  PROVE  /\ pass' = pass /\ hasFP' = hasFP /\ hasCalls' = hasCalls /\ StackSize' = StackSize
         /\ Objects' = Objects /\ FrameIndices' = FrameIndices
         /\ FPSlot' = FPSlot /\ RASlot' = RASlot /\ SavedCSRs' = SavedCSRs /\ minCS' = minCS
         /\ NumFixed' = NumFixed /\ isVarArg' = isVarArg /\ numFormals' = numFormals
         /\ hasVarSized' = hasVarSized
         /\ \A i : FrameBytes(i)' = FrameBytes(i) /\ InFrame(i)' = InFrame(i)
  BY DEF vars, mfiVars, fnVars, callVars, csVars, saveVars, hasFP, FrameIndices, FPSlot, RASlot,
    SaveSlots, SavedCSRs, FrameBytes, Start, End, FrameOffset, InFrame

\* The activation from the prologue to the restores.
Active == Settled /\ RunInv /\ InActivation

LEMMA ActiveFacts ==
  ASSUME Active
  PROVE  /\ Settled /\ AtBottom /\ sp \in Int /\ sp <= -StackSize /\ sp >= -MemBelow
         /\ DOMAIN mem = (-MemBelow)..MemHigh
         /\ MemHigh \in Nat /\ MemBelow \in Nat
  <1>1. AtBottom
    BY DEF Active, RunInv, BaseInv, AtBottom, FrameRegister
  <1>2. mode # "compile"
    BY DEF Active, InActivation
  <1> QED
    BY <1>1, <1>2, MemAssumption
    DEF Active, RunInv, BaseInv, ModeInv, Settled, FrameFits

\* A step that writes only the bytes W, none of an own object other than s and
\* the spilled registers, leaves the slots and the other locals alone.
LEMMA SlotsStay ==
  ASSUME Active, NEW W, NEW s, UNCHANGED vars, ra' = ra \/ hasCalls, written' \subseteq written \cup {s},
         DOMAIN mem' = DOMAIN mem, \A x \in DOMAIN mem : x \notin W => mem'[x] = mem[x],
         \A i : Own(i) /\ i # s /\ Objects[i].kind # "csr" => W \cap FrameBytes(i) = {},
         s \in FrameIndices => Objects[s].kind = "local",
         mode' \in {"body", "calling"} =>
           \A k \in 1..SavedCSRs : \A x \in FrameBytes(minCS + k - 1) : mem'[x] = CallerCSR(k),
         s \in written' => /\ s \in FrameIndices /\ InFrame(s)
                           /\ \A x \in FrameBytes(s) : mem'[x] = ObjectValue(s)
  PROVE  SlotsKept'
  <1>1. \A i : Own(i) => FrameBytes(i) \subseteq DOMAIN mem
    <2> SUFFICES ASSUME NEW i, Own(i) PROVE FrameBytes(i) \subseteq DOMAIN mem
      OBVIOUS
    <2>1. FrameBytes(i) \subseteq (-MemBelow)..(-1)
      BY ActiveFacts, FrameBytesFacts DEF Own
    <2> QED
      BY <2>1, ActiveFacts
  <1>2. ASSUME NEW i, Own(i), i # s, Objects[i].kind # "csr", NEW v, Holds(FrameBytes(i), v)
        PROVE  \A x \in FrameBytes(i)' : mem'[x] = v
    BY <1>1, <1>2, SameFrame DEF Holds
  <1>3. Settled /\ SlotsKept /\ InActivation
    BY DEF Active, RunInv
  <1>4. hasFP' => Holds(FrameBytes(FPSlot), SavedFP)'
    <2> SUFFICES ASSUME hasFP' PROVE \A x \in FrameBytes(FPSlot)' : mem'[x] = SavedFP
      BY DEF Holds, SavedFP
    <2>1. hasFP /\ FPSlot' = FPSlot
      BY SameFrame, Zenon
    <2>2. Own(FPSlot) /\ FPSlot # s /\ Objects[FPSlot].kind # "csr"
      BY <1>3, <2>1, SlotFacts DEF Own
    <2>3. Holds(FrameBytes(FPSlot), SavedFP)
      BY <1>3, <2>1 DEF SlotsKept
    <2>4. \A x \in FrameBytes(FPSlot) : mem'[x] = SavedFP
      BY <1>2, <2>2, <2>3, SameFrame
    <2> QED
      BY <2>1, <2>4, SameFrame
  <1>5. hasCalls' => Holds(FrameBytes(RASlot), CallerRA)'
    <2> SUFFICES ASSUME hasCalls' PROVE \A x \in FrameBytes(RASlot)' : mem'[x] = CallerRA
      BY DEF Holds, CallerRA
    <2>1. hasCalls /\ RASlot' = RASlot
      BY SameFrame, Zenon
    <2>2. Own(RASlot) /\ RASlot # s /\ Objects[RASlot].kind # "csr"
      BY <1>3, <2>1, SlotFacts DEF Own
    <2>3. Holds(FrameBytes(RASlot), CallerRA)
      BY <1>3, <2>1 DEF SlotsKept
    <2>4. \A x \in FrameBytes(RASlot) : mem'[x] = CallerRA
      BY <1>2, <2>2, <2>3, SameFrame
    <2> QED
      BY <2>1, <2>4, SameFrame
  <1>6. ~hasCalls' => ra' = CallerRA'
    BY <1>3, SameFrame DEF SlotsKept, CallerRA
  <1>7. ASSUME mode' \in {"body", "calling"}, NEW k \in 1..SavedCSRs'
        PROVE  Holds(FrameBytes(minCS + k - 1), CallerCSR(k))'
    <2>1. k \in 1..SavedCSRs /\ minCS' = minCS
      BY <1>7, SameFrame
    <2>2. PICK i : i = minCS + k - 1
      OBVIOUS
    <2>3. \A x \in FrameBytes(i) : mem'[x] = CallerCSR(k)
      BY <1>7, <2>1, <2>2
    <2>4. FrameBytes(minCS + k - 1)' = FrameBytes(i)
      BY <2>1, <2>2, SameFrame DEF FrameBytes, Start, End, FrameOffset
    <2> QED
      BY <2>3, <2>4 DEF Holds, CallerCSR
  <1>8. ASSUME NEW i \in written'
        PROVE  /\ i \in FrameIndices' /\ InFrame(i)' /\ Objects'[i].kind = "local"
               /\ Holds(FrameBytes(i), ObjectValue(i))'
    <2>1. CASE i = s
      BY <1>8, <2>1, SameFrame DEF Holds, ObjectValue
    <2>2. CASE i # s
      <3>1. i \in FrameIndices /\ InFrame(i) /\ Objects[i].kind = "local"
            /\ Holds(FrameBytes(i), ObjectValue(i))
        BY <1>3, <1>8, <2>2 DEF SlotsKept
      <3>2. \A x \in FrameBytes(i) : mem'[x] = ObjectValue(i)
        BY <1>2, <2>2, <3>1, SameFrame DEF Own
      <3> QED
        BY <3>1, <3>2, SameFrame DEF Holds, ObjectValue
    <2> QED
      BY <2>1, <2>2
  <1> QED
    BY <1>4, <1>5, <1>6, <1>7, <1>8 DEF SlotsKept

\* Once the registers are spilled, their slots are among the own objects.
LEMMA BodyKeeps ==
  ASSUME Active, NEW W, NEW s, UNCHANGED vars, ra' = ra \/ hasCalls, written' \subseteq written \cup {s},
         DOMAIN mem' = DOMAIN mem, \A x \in DOMAIN mem : x \notin W => mem'[x] = mem[x],
         \A i : Own(i) /\ i # s => W \cap FrameBytes(i) = {},
         s \in FrameIndices => Objects[s].kind = "local",
         mode' \in {"body", "calling"} => mode \in {"body", "calling"},
         s \in written' => /\ s \in FrameIndices /\ InFrame(s)
                           /\ \A x \in FrameBytes(s) : mem'[x] = ObjectValue(s)
  PROVE  SlotsKept'
  <1>1. ASSUME mode' \in {"body", "calling"}, NEW k \in 1..SavedCSRs
        PROVE  \A x \in FrameBytes(minCS + k - 1) : mem'[x] = CallerCSR(k)
    <2>1. PICK i : i = minCS + k - 1
      OBVIOUS
    <2>2. Settled /\ SlotsKept /\ InActivation
      BY DEF Active, RunInv
    <2>3. Own(i) /\ i # s
      BY <2>1, <2>2, SlotFacts DEF Own
    <2>4. Holds(FrameBytes(i), CallerCSR(k))
      BY <1>1, <2>1, <2>2 DEF SlotsKept
    <2>5. FrameBytes(i) \subseteq DOMAIN mem
      <3>1. FrameBytes(i) \subseteq (-MemBelow)..(-1)
        BY <2>2, <2>3, FrameBytesFacts DEF Own
      <3> QED
        BY <3>1, ActiveFacts
    <2>6. \A x \in FrameBytes(i) : mem'[x] = CallerCSR(k)
      BY <2>3, <2>4, <2>5 DEF Holds
    <2> QED
      BY <2>1, <2>6
  <1> QED
    BY <1>1, SlotsStay

(***************************************************************************)
(* Compilation.                                                            *)
(***************************************************************************)
\* An outgoing slot, once created, stays where it is.
LEMMA OutKept ==
  ASSUME FrameInv, [Next]_vars
  PROVE  /\ NumFixed' >= NumFixed /\ (hasCalls => hasCalls')
         /\ \A i \in FrameIndices : Objects[i].kind = "out" =>
              Objects'[i].kind = "out" /\ Objects'[i].off = Objects[i].off
  <1> USE DEF mfiVars, fnVars, csVars, offVars, saveVars, callVars
  <1>0. /\ NumFixed \in Nat /\ NumObjs \in Nat /\ minCS \in Nat
        /\ \A i \in FrameIndices : Objects[i].kind = "out" => i < 0
        /\ pass = "rest" => idx >= 0
        /\ Objects \in [FrameIndices -> Object]
    BY DEF FrameInv, IInv, TypeOK, LayoutInv, LoopInv, FixedInv
  <1>1. CASE \E s \in Sizes, a \in Aligns : CreateStackObject(s, a)
    BY <1>0, <1>1 DEF CreateStackObject, PushBack, FrameIndices
  <1>2. CASE \E i \in FrameIndices : RemoveStackObject(i)
    BY <1>0, <1>2 DEF RemoveStackObject, WithSize, FrameIndices
  <1>3. CASE \E n \in FormalCounts, va \in BOOLEAN : LowerFormalArguments(n, va)
    <2>1. PICK n \in FormalCounts, va \in BOOLEAN : LowerFormalArguments(n, va)
      BY <1>3
    <2>2. StackWords(n) + VarArgHomes(n, va) \in Nat
      BY ObjectAssumption, WordCounts
    <2> QED
      BY <1>0, <2>1, <2>2 DEF LowerFormalArguments, CreateFixedObjects, FrameIndices
  <1>4. CASE \E n \in CallCounts, va \in CallVarArgs : LowerCall(n, va)
    <2>1. PICK n \in CallCounts, va \in CallVarArgs : LowerCall(n, va)
      BY <1>4
    <2>2. CallObjects(n, va) \in Nat
      BY ObjectAssumption, WordCounts
    <2> QED
      BY <1>0, <2>1, <2>2 DEF LowerCall, CreateFixedObjects, FrameIndices
  <1>5. CASE \E a \in DynAligns : VisitAlloca(a)
    BY <1>0, <1>5 DEF VisitAlloca, PushBack, FrameIndices
  <1>6. CASE \E n \in 0..NumCSRs : CalculateCalleeSavedRegisters(n)
    <2>1. PICK n \in 0..NumCSRs : CalculateCalleeSavedRegisters(n)
      BY <1>6
    <2> QED
      BY <1>0, <2>1, RegAssumption DEF CalculateCalleeSavedRegisters, FrameIndices
  <1>7. CASE SkipFixedObject \/ FixedDone \/ CalleeSavedDone \/ SkipObject \/ SetStackSize
    BY <1>0, <1>7 DEF SkipFixedObject, FixedDone, CalleeSavedDone, SkipObject, SetStackSize
  <1>8. CASE PlaceCalleeSaved
    BY <1>0, <1>8 DEF PlaceCalleeSaved, AdjustStackOffset, WithOffset, FrameIndices
  <1>9. CASE PlaceObject
    BY <1>0, <1>9 DEF PlaceObject, AdjustStackOffset, WithOffset, FrameIndices
  <1>10. CASE AdjustRigelStackFrame
    <2>1. SaveSlots \in Nat
      BY DEF SaveSlots
    <2> QED
      BY <1>0, <1>10, <2>1 DEF AdjustRigelStackFrame, FrameIndices
  <1>11. CASE UNCHANGED vars
    BY <1>0, <1>11 DEF vars
  <1> QED
    BY <1>1, <1>2, <1>3, <1>4, <1>5, <1>6, <1>7, <1>8, <1>9, <1>10, <1>11 DEF Next, Lower, Layout

\* The slots of a call, as LowerCall creates them.
LEMMA EmittedCall ==
  ASSUME FrameInv, NEW n \in CallCounts, NEW va \in CallVarArgs, LowerCall(n, va),
         NEW c, c = [n |-> n, va |-> va, base |-> NumFixed + (IF va THEN 1 ELSE 0)]
  PROVE  CallFacts(c)'
  <1>0. /\ c.n = n /\ c.va = va /\ n \in Nat /\ va \in BOOLEAN /\ NumFixed \in Nat /\ NumObjs \in Nat
        /\ c.base = IF va THEN NumFixed + 1 ELSE NumFixed
    BY ObjectAssumption DEF FrameInv, IInv, TypeOK
  <1>1. StackWords(n) \in Nat
    BY <1>0, WordCounts
  <1>2. CallObjects(n, va) = IF va THEN StackWords(n) + 1 ELSE StackWords(n)
    BY <1>0, <1>1 DEF CallObjects
  <1>3. /\ NumFixed' = NumFixed + CallObjects(n, va)
        /\ \A j \in 1..CallObjects(n, va) : Objects'[-(NumFixed + j)] = CallObject(va, j)
    <2>1. Objects' = [i \in (-(NumFixed + CallObjects(n, va)))..(NumObjs - 1) |->
                        IF i < -NumFixed
                          THEN [j \in 1..CallObjects(n, va) |-> CallObject(va, j)][-i - NumFixed]
                          ELSE Objects[i]]
      BY DEF LowerCall, CreateFixedObjects
    <2>2. NumFixed' = NumFixed + CallObjects(n, va)
      BY DEF LowerCall, CreateFixedObjects
    <2>3. ASSUME NEW j \in 1..CallObjects(n, va) PROVE Objects'[-(NumFixed + j)] = CallObject(va, j)
      <3>1. PICK i : i = -(NumFixed + j)
        OBVIOUS
      <3>2. CallObjects(n, va) \in Nat /\ j \in Nat
        BY <1>0, <1>1, <1>2
      <3>3. i \in (-(NumFixed + CallObjects(n, va)))..(NumObjs - 1) /\ i < -NumFixed
            /\ -i - NumFixed = j
        BY <1>0, <3>1, <3>2
      <3> QED
        BY <2>1, <3>1, <3>3
    <2> QED
      BY <2>2, <2>3
  <1>4. hasCalls'
    BY DEF LowerCall
  <1>5. ASSUME NEW j \in 0..(StackWords(n) - 1)
        PROVE  /\ Objects'[OutObject(c, j)].kind = "out"
               /\ Objects'[OutObject(c, j)].off = FirstStackArgLoc(va) + LocMemOffset(j)
    <2>1. PICK k : k = IF va THEN j + 2 ELSE j + 1
      OBVIOUS
    <2>2. k \in 1..CallObjects(n, va) /\ OutObject(c, j) = -(NumFixed + k)
      BY <1>0, <1>1, <1>2, <2>1 DEF OutObject
    <2>3. (IF va THEN k - 2 ELSE k - 1) = j /\ ~(j < 0)
      BY <1>0, <1>1, <2>1
    <2>4. CallObject(va, k) = FixedObject(FirstStackArgLoc(va) + LocMemOffset(j), 0, "out")
      BY <2>3 DEF CallObject
    <2> QED
      BY <1>3, <2>2, <2>4 DEF FixedObject
  <1>6. ASSUME va PROVE Objects'[-c.base].kind = "out" /\ Objects'[-c.base].off = RegSize * (NumArgRegs - 1)
    <2>1. 1 \in 1..CallObjects(n, va) /\ c.base = NumFixed + 1
      BY <1>0, <1>1, <1>2, <1>6
    <2>2. CallObject(va, 1) = FixedObject(RegSize * (NumArgRegs - 1), 0, "out")
      <3>1. 1 - 2 < 0
        OBVIOUS
      <3> QED
        BY <1>6, <3>1 DEF CallObject
    <2> QED
      BY <1>3, <2>1, <2>2 DEF FixedObject
  <1> QED
    BY <1>0, <1>1, <1>2, <1>3, <1>4, <1>5, <1>6 DEF CallFacts, OutObject

\* They are kept by the passes that follow LowerCall.
LEMMA CallFactsKept ==
  ASSUME FrameInv, [Next]_vars, NEW c, CallFacts(c)
  PROVE  CallFacts(c)'
  <1>0. NumFixed \in Nat /\ NumObjs \in Nat /\ c.n \in Nat /\ StackWords(c.n) \in Nat /\ c.base \in Nat
        /\ NumFixed' >= NumFixed /\ NumFixed' \in Nat
    <2>1. FrameInv => NumFixed \in Nat /\ NumObjs \in Nat
      BY DEF FrameInv, IInv, TypeOK
    <2>2. IInv'
      BY Inductive DEF FrameInv
    <2>3. NumFixed' \in Nat
      BY <2>2 DEF IInv, TypeOK
    <2> QED
      BY <2>1, <2>3, OutKept, WordCounts DEF CallFacts
  <1>1. ASSUME NEW j \in 0..(StackWords(c.n) - 1)
        PROVE  /\ Objects'[OutObject(c, j)].kind = "out"
               /\ Objects'[OutObject(c, j)].off = FirstStackArgLoc(c.va) + LocMemOffset(j)
    <2>1. PICK i : i = OutObject(c, j)
      OBVIOUS
    <2>2. i \in FrameIndices
      BY <1>0, <2>1 DEF OutObject, FrameIndices, CallFacts
    <2>3. Objects[i].kind = "out" /\ Objects[i].off = FirstStackArgLoc(c.va) + LocMemOffset(j)
      BY <2>1 DEF CallFacts
    <2> QED
      BY <2>1, <2>2, <2>3, OutKept
  <1>2. ASSUME c.va
        PROVE  /\ c.base > 0 /\ Objects'[-c.base].kind = "out"
               /\ Objects'[-c.base].off = RegSize * (NumArgRegs - 1)
    <2>1. PICK i : i = -c.base
      OBVIOUS
    <2>2. i \in FrameIndices
      BY <1>0, <1>2, <2>1 DEF FrameIndices, CallFacts
    <2>3. c.base > 0 /\ Objects[i].kind = "out" /\ Objects[i].off = RegSize * (NumArgRegs - 1)
      BY <1>2, <2>1 DEF CallFacts
    <2> QED
      BY <2>1, <2>2, <2>3, OutKept
  <1>3. hasCalls'
    BY OutKept DEF CallFacts
  <1>4. c.base + StackWords(c.n) <= NumFixed'
    BY <1>0 DEF CallFacts
  <1> QED
    BY <1>0, <1>1, <1>2, <1>3, <1>4 DEF CallFacts, OutObject

LEMMA CallsNext == FrameInv /\ CallsInv /\ [RunNext]_allVars => CallsInv'
  <1> SUFFICES ASSUME FrameInv, CallsInv, [RunNext]_allVars PROVE CallsInv'
    OBVIOUS
  <1>0. [Next]_vars
    BY RunFrameStep
  <1>1. \A c \in calls : CallFacts(c)'
    BY <1>0, CallFactsKept DEF CallsInv
  <1>2. CASE \E n \in CallCounts, va \in CallVarArgs : EmitCall(n, va)
    <2>1. PICK n \in CallCounts, va \in CallVarArgs : EmitCall(n, va)
      BY <1>2
    <2>2. PICK c : c = [n |-> n, va |-> va, base |-> NumFixed + (IF va THEN 1 ELSE 0)]
      OBVIOUS
    <2>3. LowerCall(n, va) /\ calls' = calls \cup {c} /\ pending' = pending
      BY <2>1, <2>2 DEF EmitCall
    <2>4. CallFacts(c)'
      BY <2>2, <2>3, EmittedCall
    <2> QED
      BY <1>1, <2>3, <2>4 DEF CallsInv
  <1>3. CASE calls' = calls /\ pending' \subseteq calls
    BY <1>1, <1>3 DEF CallsInv
  <1>4. CASE CompileOther /\ UNCHANGED runVars
    BY <1>3, <1>4 DEF runVars, CallsInv
  <1>5. CASE Run
    <2>1. calls' = calls /\ pending' \subseteq calls
      BY <1>5 DEF CallsInv, Run, Body, Enter, RunPrologue, SpillRegisters, StoreLocal, DynamicAlloca,
        DefineAT, KillAT, PassArguments, RunCallee, RestoreRegisters, RunEpilogue
    <2> QED
      BY <1>3, <2>1
  <1>6. CASE UNCHANGED allVars
    BY <1>3, <1>6 DEF allVars, runVars, CallsInv
  <1> QED
    BY <1>2, <1>4, <1>5, <1>6 DEF RunNext, Compile, Returned

(***************************************************************************)
(* The steps of the activation.                                            *)
(***************************************************************************)
LEMMA ValuesDiffer ==
  /\ \A i, k : /\ ObjectValue(i) # ArgWord(k) /\ ObjectValue(i) # OutWord(k)
               /\ ObjectValue(i) # CallerCSR(k)
               /\ ObjectValue(i) = ObjectValue(k) => i = k
  /\ \A i : /\ ObjectValue(i) # Junk /\ ObjectValue(i) # CallerValue /\ ObjectValue(i) # CalleeValue
            /\ ObjectValue(i) # CallerRA /\ ObjectValue(i) # SavedFP /\ ObjectValue(i) # DynValue
  BY DEF ObjectValue, ArgWord, OutWord, CallerCSR, Junk, CallerValue, CalleeValue, CallerRA, SavedFP,
    DynValue

LEMMA EntryByteKinds ==
  ASSUME NEW x
  PROVE  EntryByte(x) \in {Junk, CallerValue} \/ \E k : EntryByte(x) = ArgWord(k)
  BY DEF EntryByte

\* No address of the caller is in the frame.
LEMMA CallerAddresses ==
  ASSUME FrameInv
  PROVE  FirstStackArgLoc(isVarArg) \in Nat
  BY WordCounts DEF FrameInv, IInv, TypeOK

Ready == FrameInv /\ FrameFits /\ RunInv

\* Compilation is over when the activation starts.
LEMMA CompileStep == Ready /\ CallsInv' /\ Compile => RunInv'
  <1> SUFFICES ASSUME Ready, CallsInv', Compile PROVE RunInv'
    OBVIOUS
  <1>1. pass # "done"
    BY DEF Compile, CompileOther, EmitCall, LowerCall, CreateStackObject, RemoveStackObject,
      LowerFormalArguments, VisitAlloca, Layout, CalculateCalleeSavedRegisters, SkipFixedObject,
      FixedDone, PlaceCalleeSaved, CalleeSavedDone, PlaceObject, SkipObject, SetStackSize,
      AdjustRigelStackFrame
  <1>2. mode = "compile" /\ pending = {}
    BY <1>1 DEF Ready, RunInv, ModeInv
  <1>3. UNCHANGED <<mode, pending, sp, fp, ra, at, csr, mem, written, dyn, atLive>>
    BY DEF Compile, EmitCall, runVars
  <1>4. ModeInv'
    BY <1>2, <1>3 DEF Ready, RunInv, ModeInv, Modes
  <1>5. RegisterInv'
    BY <1>2, <1>3 DEF Ready, RunInv, RegisterInv, CallerFP, CallerRA, CallerCSR
  <1>6. BaseInv' /\ SlotsKept'
    BY <1>2, <1>3 DEF BaseInv, SlotsKept, InActivation
  <1>7. ValueInv' /\ CallerInv'
    BY <1>2, <1>3 DEF ValueInv, CallerInv, CallerFrameIntact
  <1>8. TransientInv'
    BY <1>2, <1>3 DEF TransientInv, AllocaKeepsValues
  <1> QED
    BY <1>4, <1>5, <1>6, <1>7, <1>8 DEF RunInv

LEMMA EnterStep == Ready /\ CallsInv' /\ Enter => RunInv'
  <1> SUFFICES ASSUME Ready, CallsInv', Enter PROVE RunInv'
    OBVIOUS
  <1>1. /\ pass = "done" /\ mode = "compile" /\ mode' = "prologue"
        /\ mem' = [x \in (-MemBelow)..MemHigh |-> EntryByte(x)]
        /\ UNCHANGED <<vars, calls, pending, sp, fp, ra, at, csr, written, dyn, atLive>>
    BY DEF Enter
  <1>2. pending = {}
    BY <1>1 DEF Ready, RunInv, ModeInv
  <1>3. ModeInv'
    BY <1>1, <1>2, SameFrame DEF Ready, RunInv, ModeInv, Modes
  <1>4. RegisterInv'
    BY <1>1 DEF Ready, RunInv, RegisterInv, CallerFP, CallerRA, CallerCSR
  <1>5. BaseInv' /\ SlotsKept'
    BY <1>1 DEF BaseInv, SlotsKept, InActivation
  <1>6. ValueInv'
    BY <1>1, ValuesDiffer, EntryByteKinds DEF ValueInv
  <1>7. CallerInv'
    <2>1. \A x : EntryByte(x)' = EntryByte(x)
      BY <1>1, SameFrame DEF EntryByte, PassedWords
    <2>2. FirstStackArgLoc(isVarArg') = FirstStackArgLoc(isVarArg) /\ FirstStackArgLoc(isVarArg) \in Nat
      BY <1>1, SameFrame, CallerAddresses DEF Ready
    <2>3. \A x \in FirstStackArgLoc(isVarArg)..MemHigh : x \in (-MemBelow)..MemHigh
      BY <2>2, MemAssumption
    <2> QED
      BY <1>1, <2>1, <2>2, <2>3 DEF CallerInv, CallerFrameIntact
  <1>8. TransientInv'
    BY <1>1, <1>2 DEF TransientInv, AllocaKeepsValues
  <1> QED
    BY <1>3, <1>4, <1>5, <1>6, <1>7, <1>8 DEF RunInv

\* Where emitPrologue puts SP and stores RA and FP, and where emitEpilogue finds them.
LEMMA SaveAddresses ==
  ASSUME Settled
  PROVE  /\ isInt(StackSize) => ShortImm(-StackSize) = -StackSize /\ ShortImm(StackSize) = StackSize
         /\ ~isInt(StackSize) => Materialize(StackSize) = StackSize
         /\ hasCalls => (IF isInt(RAStackOffset) THEN ShortImm(RAStackOffset)
                                                 ELSE Materialize(RAStackOffset)) = RAStackOffset
         /\ hasFP => ShortImm(FPStackOffset) = FPStackOffset
         /\ hasFP \/ hasCalls => StackSize # 0
  <1>1. /\ StackSize \in Nat /\ Reach \in Nat /\ StackSize <= Reach
        /\ Reach < ImmValues * ImmValues /\ (hasFP => Reach < ImmHalf)
    BY ReachFacts
  <1>2. isInt(StackSize) => ShortImm(-StackSize) = -StackSize /\ ShortImm(StackSize) = StackSize
    <2> SUFFICES ASSUME isInt(StackSize)
                 PROVE  ShortImm(-StackSize) = -StackSize /\ ShortImm(StackSize) = StackSize
      OBVIOUS
    <2>1. StackSize < ImmHalf
      BY DEF isInt
    <2>2. /\ -StackSize \in Int /\ -ImmHalf <= -StackSize /\ -StackSize < ImmHalf
          /\ StackSize \in Int /\ -ImmHalf <= StackSize
      BY <1>1, <2>1, ImmFacts
    <2> QED
      BY <2>1, <2>2, ShortImmFits
  <1>3. ASSUME NEW x \in Nat, x <= StackSize PROVE Materialize(x) = x
    BY <1>1, <1>3, ImmFacts, MaterializeFits
  <1>4. ASSUME NEW x \in Nat, isInt(x) PROVE ShortImm(x) = x
    BY <1>4, ImmFacts, ShortImmFits DEF isInt
  <1>5. RegSize \in Nat \ {0}
    BY WordAssumption
  <1>6. hasCalls => RAStackOffset \in Nat /\ RAStackOffset + RegSize <= StackSize
    BY SlotFacts
  <1>7. hasCalls => (IF isInt(RAStackOffset) THEN ShortImm(RAStackOffset)
                                             ELSE Materialize(RAStackOffset)) = RAStackOffset
    BY <1>1, <1>3, <1>4, <1>5, <1>6
  <1>8. hasFP => FPStackOffset \in Nat /\ FPStackOffset + RegSize <= StackSize
    BY SlotFacts
  <1>9. hasFP => ShortImm(FPStackOffset) = FPStackOffset
    <2> SUFFICES ASSUME hasFP PROVE ShortImm(FPStackOffset) = FPStackOffset
      OBVIOUS
    <2>1. isInt(FPStackOffset)
      BY <1>1, <1>5, <1>8, ImmFacts DEF isInt
    <2> QED
      BY <1>4, <1>8, <2>1
  <1>10. hasFP \/ hasCalls => StackSize # 0
    BY <1>1, <1>5, <1>6, <1>8
  <1> QED
    BY <1>1, <1>2, <1>3, <1>7, <1>9, <1>10

LEMMA ReadySettled == Ready /\ pass = "done" => Settled
  BY DEF Ready, Settled

\* emitPrologue moves SP to the bottom of the frame and writes nothing but the
\* slots of RA and FP.
LEMMA PrologueEffect ==
  ASSUME Ready, RunPrologue
  PROVE  /\ sp' = -StackSize /\ fp' = (IF hasFP THEN -StackSize ELSE CallerFP)
         /\ DOMAIN mem' = DOMAIN mem
         /\ hasFP => \A x \in FrameBytes(FPSlot) : mem'[x] = SavedFP
         /\ hasCalls => \A x \in FrameBytes(RASlot) : mem'[x] = CallerRA
         /\ \A x \in DOMAIN mem : x >= 0 => mem'[x] = mem[x]
         /\ \A x \in DOMAIN mem : mem'[x] \in {mem[x], SavedFP, CallerRA}
  <1> DEFINE newsp == IF isInt(StackSize) THEN sp + ShortImm(-StackSize)
                                          ELSE sp - Materialize(StackSize)
             raAddr == newsp + (IF isInt(RAStackOffset) THEN ShortImm(RAStackOffset)
                                                        ELSE Materialize(RAStackOffset))
             m1 == IF hasCalls THEN Write(mem, raAddr, RegSize, ra) ELSE mem
             m2 == IF hasFP THEN Write(m1, newsp + ShortImm(FPStackOffset), RegSize, SavedFP)
                            ELSE m1
  <1>1. /\ mode = "prologue" /\ pass = "done"
        /\ IF StackSize = 0 /\ ~adjustsStack
             THEN UNCHANGED <<sp, fp, mem>>
             ELSE sp' = newsp /\ mem' = m2 /\ fp' = IF hasFP THEN newsp ELSE fp
    BY DEF RunPrologue, Ready, RunInv, ModeInv
  <1>2. /\ sp = 0 /\ fp = CallerFP /\ ra = CallerRA /\ DOMAIN mem = (-MemBelow)..MemHigh
    BY <1>1 DEF Ready, RunInv, RegisterInv, ModeInv
  <1>3. Settled
    BY <1>1, ReadySettled
  <1>4. StackSize \in Nat /\ RegSize \in Nat
    BY <1>3, ReachFacts, WordAssumption
  <1>5. newsp = -StackSize
    <2>1. CASE isInt(StackSize)
      BY <1>2, <1>3, <1>4, <2>1, SaveAddresses
    <2>2. CASE ~isInt(StackSize)
      BY <1>2, <1>3, <1>4, <2>2, SaveAddresses
    <2> QED
      BY <2>1, <2>2
  <1>6. hasCalls => /\ raAddr = -StackSize + RAStackOffset /\ RAStackOffset \in Nat
                    /\ FrameBytes(RASlot) = raAddr..(raAddr + RegSize - 1)
                    /\ RAStackOffset + RegSize <= StackSize
    <2> SUFFICES ASSUME hasCalls
                 PROVE  /\ raAddr = -StackSize + RAStackOffset /\ RAStackOffset \in Nat
                        /\ FrameBytes(RASlot) = raAddr..(raAddr + RegSize - 1)
                        /\ RAStackOffset + RegSize <= StackSize
      OBVIOUS
    <2>1. raAddr = -StackSize + RAStackOffset
      BY <1>3, <1>5, SaveAddresses
    <2> HIDE DEF raAddr
    <2>2. /\ RAStackOffset \in Nat /\ RAStackOffset + RegSize <= StackSize
          /\ FrameBytes(RASlot) = (RAStackOffset - StackSize)..(RAStackOffset - StackSize + RegSize - 1)
      BY <1>3, SlotFacts
    <2>3. RAStackOffset - StackSize = raAddr
      BY <1>4, <2>1, <2>2
    <2> QED
      BY <2>1, <2>2, <2>3
  <1>7. hasFP => /\ newsp + ShortImm(FPStackOffset) = -StackSize + FPStackOffset /\ FPStackOffset \in Nat
                 /\ FrameBytes(FPSlot) = (-StackSize + FPStackOffset)..(-StackSize + FPStackOffset + RegSize - 1)
                 /\ FPStackOffset + RegSize <= StackSize
    <2> SUFFICES ASSUME hasFP
                 PROVE  /\ newsp + ShortImm(FPStackOffset) = -StackSize + FPStackOffset
                        /\ FPStackOffset \in Nat
                        /\ FrameBytes(FPSlot) =
                             (-StackSize + FPStackOffset)..(-StackSize + FPStackOffset + RegSize - 1)
                        /\ FPStackOffset + RegSize <= StackSize
      OBVIOUS
    <2>1. newsp + ShortImm(FPStackOffset) = -StackSize + FPStackOffset
      BY <1>3, <1>5, SaveAddresses
    <2>2. /\ FPStackOffset \in Nat /\ FPStackOffset + RegSize <= StackSize
          /\ FrameBytes(FPSlot) = (FPStackOffset - StackSize)..(FPStackOffset - StackSize + RegSize - 1)
      BY <1>3, SlotFacts
    <2>3. FPStackOffset - StackSize = -StackSize + FPStackOffset
      BY <1>4, <2>2
    <2> QED
      BY <2>1, <2>2, <2>3
  <1>8. hasFP /\ hasCalls => FrameBytes(FPSlot) \cap FrameBytes(RASlot) = {}
    BY <1>3, SlotFacts, OwnBytes DEF Own
  <1> HIDE DEF newsp, raAddr
  <1>9. CASE StackSize = 0 /\ ~adjustsStack
    <2>1. ~hasFP /\ ~hasCalls
      BY <1>3, <1>9, SaveAddresses
    <2>2. UNCHANGED <<sp, fp, mem>>
      BY <1>1, <1>9
    <2>3. -StackSize = 0
      <3>1. StackSize >= 0 /\ StackSize <= 0 /\ StackSize \in Int
        BY <1>4, <1>9
      <3>2. -StackSize \in Int /\ -StackSize >= 0 /\ -StackSize <= 0
        BY <3>1
      <3> QED
        BY <3>2
    <2>4. sp' = -StackSize /\ fp' = (IF hasFP THEN -StackSize ELSE CallerFP)
      BY <1>2, <2>1, <2>2, <2>3
    <2> QED
      BY <2>1, <2>2, <2>4
  <1>10. CASE ~(StackSize = 0 /\ ~adjustsStack)
    <2>1. sp' = newsp /\ mem' = m2 /\ fp' = IF hasFP THEN newsp ELSE fp
      BY <1>1, <1>10, Zenon
    <2>2. /\ DOMAIN m1 = DOMAIN mem
          /\ hasCalls => \A x \in DOMAIN mem :
               m1[x] = IF x \in FrameBytes(RASlot) THEN CallerRA ELSE mem[x]
          /\ ~hasCalls => m1 = mem
      <3>1. CASE hasCalls
        <4>1. m1 = [x \in DOMAIN mem |-> IF x \in raAddr..(raAddr + RegSize - 1) THEN ra ELSE mem[x]]
          BY <3>1 DEF Write
        <4> QED
          BY <1>2, <1>6, <3>1, <4>1
      <3>2. CASE ~hasCalls
        BY <3>2
      <3> QED
        BY <3>1, <3>2
    <2> HIDE DEF m1
    <2>3. /\ DOMAIN m2 = DOMAIN mem
          /\ hasFP => \A x \in DOMAIN mem :
               m2[x] = IF x \in FrameBytes(FPSlot) THEN SavedFP ELSE m1[x]
          /\ ~hasFP => m2 = m1
      <3>1. CASE hasFP
        <4>1. PICK a : a = -StackSize + FPStackOffset
          OBVIOUS
        <4>2. FrameBytes(FPSlot) = a..(a + RegSize - 1) /\ newsp + ShortImm(FPStackOffset) = a
          BY <1>4, <1>7, <3>1, <4>1
        <4>3. m2 = Write(m1, a, RegSize, SavedFP)
          BY <3>1, <4>2
        <4> QED
          BY <2>2, <3>1, <4>2, <4>3 DEF Write
      <3>2. CASE ~hasFP
        BY <2>2, <3>2
      <3> QED
        BY <3>1, <3>2
    <2> HIDE DEF m2
    <2>4. hasFP => FrameBytes(FPSlot) \subseteq (-MemBelow)..(-1)
      BY <1>3, SlotFacts, FrameBytesFacts DEF Own
    <2>5. hasCalls => FrameBytes(RASlot) \subseteq (-MemBelow)..(-1)
      BY <1>3, SlotFacts, FrameBytesFacts DEF Own
    <2>6. (-MemBelow)..(-1) \subseteq DOMAIN mem /\ \A x \in (-MemBelow)..(-1) : ~(x >= 0)
      BY <1>2, MemAssumption
    <2>7. hasFP => \A x \in FrameBytes(FPSlot) : mem'[x] = SavedFP
      BY <2>1, <2>3, <2>4, <2>6
    <2>8. hasCalls => \A x \in FrameBytes(RASlot) : mem'[x] = CallerRA
      <3>1. hasCalls => \A x \in FrameBytes(RASlot) : m1[x] = CallerRA
        BY <2>2, <2>5, <2>6
      <3>2. CASE hasFP
        BY <1>8, <2>1, <2>3, <2>5, <2>6, <3>1, <3>2
      <3>3. CASE ~hasFP
        BY <2>1, <2>3, <3>1, <3>3
      <3> QED
        BY <3>2, <3>3
    <2>9. \A x \in DOMAIN mem : mem'[x] \in {mem[x], SavedFP, CallerRA} /\ (x >= 0 => mem'[x] = mem[x])
      <3>1. \A x \in DOMAIN mem : m1[x] \in {mem[x], CallerRA} /\ (x >= 0 => m1[x] = mem[x])
        BY <2>2, <2>5, <2>6
      <3>2. \A x \in DOMAIN mem : m2[x] \in {m1[x], SavedFP} /\ (x >= 0 => m2[x] = m1[x])
        BY <2>3, <2>4, <2>6
      <3> QED
        BY <2>1, <3>1, <3>2
    <2>10. sp' = -StackSize /\ fp' = (IF hasFP THEN -StackSize ELSE CallerFP)
      BY <1>2, <1>5, <2>1
    <2> QED
      BY <2>1, <2>3, <2>7, <2>8, <2>9, <2>10
  <1> QED
    BY <1>9, <1>10

LEMMA PrologueStep == Ready /\ FrameFits' /\ CallsInv' /\ RunPrologue => RunInv'
  <1> SUFFICES ASSUME Ready, FrameFits', CallsInv', RunPrologue PROVE RunInv'
    OBVIOUS
  <1>1. /\ mode = "prologue" /\ mode' = "spill" /\ pass = "done"
        /\ UNCHANGED <<vars, calls, pending, ra, csr, written, dyn, atLive>>
    BY DEF RunPrologue, Ready, RunInv, ModeInv
  <1>2. /\ ra = CallerRA /\ DOMAIN mem = (-MemBelow)..MemHigh /\ written = {} /\ dyn = <<0, 0>>
        /\ pending = {} /\ ~atLive
    BY <1>1 DEF Ready, RunInv, RegisterInv, ModeInv
  <1>3. /\ sp' = -StackSize /\ fp' = (IF hasFP THEN -StackSize ELSE CallerFP)
        /\ DOMAIN mem' = DOMAIN mem
        /\ hasFP => \A x \in FrameBytes(FPSlot) : mem'[x] = SavedFP
        /\ hasCalls => \A x \in FrameBytes(RASlot) : mem'[x] = CallerRA
        /\ \A x \in DOMAIN mem : x >= 0 => mem'[x] = mem[x]
        /\ \A x \in DOMAIN mem : mem'[x] \in {mem[x], SavedFP, CallerRA}
    BY PrologueEffect
  <1>4. StackSize \in Nat
    BY <1>1, ReadySettled, ReachFacts
  <1>5. ModeInv'
    BY <1>1, <1>2, <1>3, SameFrame DEF ModeInv, Modes
  <1>6. RegisterInv'
    BY <1>1 DEF Ready, RunInv, RegisterInv, CallerCSR
  <1>7. BaseInv'
    <2>1. -StackSize \in Int /\ -StackSize <= -StackSize
      BY <1>4
    <2>2. dyn' = <<0, 0>> /\ StackSize' = StackSize /\ hasFP' = hasFP
      BY <1>1, <1>2, SameFrame
    <2>3. fp' = IF hasFP' THEN -StackSize ELSE CallerFP
      BY <1>3, <2>2
    <2> QED
      BY <1>3, <2>1, <2>2, <2>3 DEF BaseInv, CallerFP
  <1>8. SlotsKept'
    <2>1. hasFP' => Holds(FrameBytes(FPSlot), SavedFP)'
      BY <1>1, <1>3, SameFrame DEF Holds, SavedFP, FrameBytes, Start, End, FrameOffset
    <2>2. hasCalls' => Holds(FrameBytes(RASlot), CallerRA)'
      BY <1>1, <1>3, SameFrame DEF Holds, CallerRA, FrameBytes, Start, End, FrameOffset
    <2> QED
      BY <1>1, <1>2, <2>1, <2>2 DEF SlotsKept, CallerRA
  <1>9. ValueInv'
    BY <1>1, <1>2, <1>3, SameFrame, ValuesDiffer DEF Ready, RunInv, ValueInv
  <1>10. CallerInv'
    <2>1. \A x : EntryByte(x)' = EntryByte(x)
      BY <1>1, SameFrame DEF EntryByte, PassedWords
    <2>2. FirstStackArgLoc(isVarArg') = FirstStackArgLoc(isVarArg) /\ FirstStackArgLoc(isVarArg) \in Nat
      BY <1>1, SameFrame, CallerAddresses DEF Ready
    <2>3. \A x \in FirstStackArgLoc(isVarArg)..MemHigh : x \in (-MemBelow)..MemHigh /\ x >= 0
      BY <2>2, MemAssumption
    <2>4. \A x \in FirstStackArgLoc(isVarArg)..MemHigh : mem[x] = EntryByte(x)
      BY <1>1 DEF Ready, RunInv, CallerInv, CallerFrameIntact
    <2>5. \A x \in FirstStackArgLoc(isVarArg)..MemHigh : mem'[x] = EntryByte(x)
      BY <1>2, <1>3, <2>3, <2>4
    <2> QED
      BY <1>1, <2>1, <2>2, <2>5 DEF CallerInv, CallerFrameIntact
  <1>11. TransientInv'
    BY <1>1, <1>2 DEF TransientInv, AllocaKeepsValues
  <1> QED
    BY <1>5, <1>6, <1>7, <1>8, <1>9, <1>10, <1>11 DEF RunInv

\* The homes of a variadic function's argument registers, in its caller's frame.
LEMMA HomeFacts ==
  ASSUME Settled, AtBottom, NEW i \in FrameIndices, Objects[i].kind = "va"
  PROVE  /\ VarArgHomes(numFormals, isVarArg) > 0
         /\ numFormals + VarArgsFrameIndex - i \in numFormals..(NumArgRegs - 1)
         /\ ObjectBytes(i) = (RegSize * (numFormals + VarArgsFrameIndex - i))..
                             (RegSize * (numFormals + VarArgsFrameIndex - i) + RegSize - 1)
  <1> DEFINE sw == StackWords(numFormals)
             vh == VarArgHomes(numFormals, isVarArg)
  <1>1. /\ sw \in Nat /\ vh \in Nat /\ numFormals \in Nat /\ isVarArg \in BOOLEAN /\ NumArgRegs \in Nat
        /\ NumFixed \in Nat /\ NumObjs \in Nat /\ i \in Int /\ StackSize \in Nat /\ RegSize \in Nat \ {0}
        /\ pass = "done"
    BY WordCounts, WordAssumption, RegAssumption DEF Settled, FrameInv, IInv, TypeOK, FrameIndices
  <1>2. vh > 0 => sw = 0 /\ numFormals + vh = NumArgRegs /\ isVarArg /\ numFormals > 0
    BY <1>1 DEF VarArgHomes, StackWords
  <1>3. i < 0 /\ i >= -(sw + vh) /\ Objects[i].size = RegSize
    <2>1. Caller(i)
      BY DEF Caller
    <2> QED
      BY <2>1 DEF Settled, FrameInv, SlotInv, IInv, LayoutInv, FixedInv
  <1>4. -i \in 1..(sw + vh) /\ -(-i) = i
    BY <1>1, <1>3
  <1>5. Objects[i].kind = FormalObject(numFormals, isVarArg, -i).kind
    <2>1. \A j \in 1..(sw + vh) : Objects[-j].kind = FormalObject(numFormals, isVarArg, j).kind
      BY <1>1 DEF Settled, FrameInv, IInv, LayoutInv, FormalInv
    <2> QED
      BY <1>4, <2>1
  <1>6. ~(-i <= sw)
    BY <1>5 DEF FormalObject, FixedObject
  <1>7. vh > 0 /\ VarArgsFrameIndex = -(sw + 1)
    BY <1>1, <1>4, <1>6 DEF Settled, FrameInv, IInv, LayoutInv, FormalInv
  <1>8. PICK j : j = VarArgsFrameIndex - i
    OBVIOUS
  <1>9. j \in 0..(vh - 1) /\ VarArgsFrameIndex - j = i
    BY <1>1, <1>4, <1>6, <1>7, <1>8
  <1>10. FrameOffset(i) = StackSize + RegSize * (numFormals + j)
    BY <1>1, <1>9, LayoutIncoming DEF Settled, FrameInv, IncomingArgsWhereCallerPutThem
  <1> HIDE DEF sw, vh
  <1>11. PICK k : k = numFormals + j
    OBVIOUS
  <1>12. k \in numFormals..(NumArgRegs - 1) /\ k = numFormals + VarArgsFrameIndex - i
    <2>1. k \in numFormals..(NumArgRegs - 1)
      BY <1>1, <1>2, <1>7, <1>9, <1>11
    <2>2. k = numFormals + (VarArgsFrameIndex - i)
      BY <1>8, <1>11
    <2> QED
      BY <2>1, <2>2
  <1>13. RegSize * k \in Nat /\ RegSize * k + RegSize <= RegSize * NumArgRegs
    <2>1. RegSize * (k + 1) = RegSize * k + RegSize
      BY <1>1, <1>12
    <2>2. NumArgRegs - (k + 1) \in Nat /\ RegSize * (NumArgRegs - (k + 1)) >= 0
      BY <1>1, <1>12
    <2>3. RegSize * (NumArgRegs - (k + 1)) = RegSize * NumArgRegs - RegSize * (k + 1)
      BY <1>1, <1>12
    <2>4. RegSize * k \in Nat /\ RegSize * (k + 1) \in Nat /\ RegSize * NumArgRegs \in Nat
      BY <1>1, <1>12
    <2> QED
      BY <2>1, <2>2, <2>3, <2>4, <1>1
  <1>14. Reach >= StackSize + RegSize * NumArgRegs
    <2>1. FirstStackArgLoc(isVarArg) = RegSize * NumArgRegs
      BY <1>2, <1>7 DEF FirstStackArgLoc
    <2> QED
      BY <1>1, <2>1, ReachFacts
  <1>15. /\ Start(i) = StackSize + RegSize * k /\ End(i) = StackSize + RegSize * k + RegSize
         /\ Start(i) \in Nat /\ End(i) <= Reach
    <2>1. Start(i) = StackSize + RegSize * k /\ End(i) = StackSize + RegSize * k + RegSize
      BY <1>3, <1>10, <1>11 DEF Start, End
    <2>2. RegSize * NumArgRegs \in Nat
      BY <1>1
    <2> QED
      BY <1>1, <1>13, <1>14, <2>1, <2>2, ReachFacts
  <1>16. ObjectBytes(i) = FrameBytes(i)
    BY <1>1, <1>3, <1>15, BytesOfObject
  <1>17. FrameBytes(i) = (RegSize * k)..(RegSize * k + RegSize - 1)
    <2>1. Start(i) - StackSize = RegSize * k /\ End(i) - StackSize - 1 = RegSize * k + RegSize - 1
      BY <1>1, <1>13, <1>15
    <2> QED
      BY <2>1 DEF FrameBytes
  <1> QED
    BY <1>7, <1>12, <1>16, <1>17 DEF vh

LEMMA HomeExists ==
  ASSUME Settled, VarArgHomes(numFormals, isVarArg) > 0, NEW k \in numFormals..(NumArgRegs - 1)
  PROVE  \E i \in FrameIndices : Objects[i].kind = "va" /\ numFormals + VarArgsFrameIndex - i = k
  <1>1. /\ numFormals \in Nat /\ isVarArg \in BOOLEAN /\ NumArgRegs \in Nat
        /\ NumFixed \in Nat /\ NumObjs \in Nat /\ k \in Nat
    BY RegAssumption DEF Settled, FrameInv, IInv, TypeOK
  <1>2. /\ StackWords(numFormals) = 0 /\ numFormals + VarArgHomes(numFormals, isVarArg) = NumArgRegs
        /\ VarArgHomes(numFormals, isVarArg) \in Nat
    BY <1>1 DEF VarArgHomes, StackWords
  <1>3. /\ StackWords(numFormals) + VarArgHomes(numFormals, isVarArg) <= NumFixed
        /\ \A j \in 1..(StackWords(numFormals) + VarArgHomes(numFormals, isVarArg)) :
             Objects[-j].kind = FormalObject(numFormals, isVarArg, j).kind
        /\ VarArgsFrameIndex = -(StackWords(numFormals) + 1)
    BY DEF Settled, FrameInv, IInv, LayoutInv, FormalInv
  <1>4. PICK j : j = k - numFormals + 1
    OBVIOUS
  <1>5. j \in 1..(StackWords(numFormals) + VarArgHomes(numFormals, isVarArg)) /\ -j \in FrameIndices
    BY <1>1, <1>2, <1>3, <1>4 DEF FrameIndices
  <1>6. Objects[-j].kind = "va"
    <2>1. ~(j <= StackWords(numFormals))
      BY <1>2, <1>5
    <2> QED
      BY <1>3, <1>5, <2>1 DEF FormalObject, FixedObject
  <1>7. numFormals + VarArgsFrameIndex - (-j) = k
    BY <1>1, <1>2, <1>3, <1>4
  <1> QED
    BY <1>5, <1>6, <1>7

\* A byte is in one word only.
LEMMA OneWord ==
  ASSUME NEW r \in Nat \ {0}, NEW a \in Nat, NEW b \in Nat,
         NEW x \in (r * a)..(r * a + r - 1), x \in (r * b)..(r * b + r - 1)
  PROVE  a = b
  <1>1. r * a = a * r /\ r * b = b * r /\ r * a \in Nat /\ r * b \in Nat
    OBVIOUS
  <1>2. x - r * a \in 0..(r - 1) /\ x - r * b \in 0..(r - 1)
    BY <1>1
  <1>3. a * r + (x - r * a) = x /\ b * r + (x - r * b) = x
    BY <1>1
  <1>4. x \div r = a
    BY <1>2, <1>3, DivModUnique
  <1>5. x \div r = b
    BY <1>2, <1>3, DivModUnique
  <1> QED
    BY <1>4, <1>5

\* The bytes of the homes.
HomeWord(k) == (RegSize * k)..(RegSize * k + RegSize - 1)

\* The stores after the prologue: the spilled registers in their slots, the
\* argument registers in their homes, and nothing else.
LEMMA SpillEffect ==
  ASSUME Ready, SpillRegisters
  PROVE  /\ DOMAIN mem' = DOMAIN mem
         /\ \A k \in 1..SavedCSRs : \A x \in FrameBytes(minCS + k - 1) : mem'[x] = CallerCSR(k)
         /\ VarArgHomes(numFormals, isVarArg) > 0 =>
              \A k \in numFormals..(NumArgRegs - 1) : \A x \in HomeWord(k) :
                x \in DOMAIN mem => mem'[x] = ArgWord(k)
         /\ \A x \in DOMAIN mem :
              \/ mem'[x] = mem[x]
              \/ \E k \in 1..SavedCSRs : mem'[x] = CallerCSR(k) /\ x \in FrameBytes(minCS + k - 1)
              \/ \E k \in numFormals..(NumArgRegs - 1) : /\ mem'[x] = ArgWord(k) /\ x \in HomeWord(k)
                                                         /\ VarArgHomes(numFormals, isVarArg) > 0
  <1> DEFINE homes == {i \in FrameIndices : Objects[i].kind = "va"}
             homeOf(x) == {i \in homes : x \in ObjectBytes(i)}
             spillOf(x) == {k \in 1..(maxCS - minCS + 1) : x \in SpillBytes(k)}
  <1>1. /\ mode = "spill" /\ mode' = "body"
        /\ mem' = [x \in DOMAIN mem |->
               IF homeOf(x) # {}
                 THEN LET i == CHOOSE i \in homeOf(x) : TRUE
                      IN ArgWord(numFormals + VarArgsFrameIndex - i)
                 ELSE IF spillOf(x) # {}
                   THEN csr[CHOOSE k \in spillOf(x) : TRUE]
                   ELSE mem[x]]
    BY DEF SpillRegisters
  <1>2. Active /\ Settled /\ AtBottom
    <2>1. pass = "done" /\ InActivation
      BY <1>1 DEF Ready, RunInv, ModeInv, InActivation
    <2>2. Active
      BY <2>1, ReadySettled DEF Active, Ready
    <2> QED
      BY <2>2, ActiveFacts
  <1>3. ASSUME NEW x \in DOMAIN mem, NEW i \in homeOf(x)
        PROVE  \E k \in numFormals..(NumArgRegs - 1) :
                 /\ numFormals + VarArgsFrameIndex - i = k /\ x \in HomeWord(k)
                 /\ VarArgHomes(numFormals, isVarArg) > 0
    BY <1>2, HomeFacts DEF HomeWord
  <1>4. ASSUME NEW k \in 1..SavedCSRs
        PROVE  /\ SpillBytes(k) = FrameBytes(minCS + k - 1) /\ csr[k] = CallerCSR(k)
               /\ SpillBytes(k) \subseteq (-MemBelow)..(-1)
               /\ \A l \in 1..SavedCSRs : l # k => SpillBytes(k) \cap FrameBytes(minCS + l - 1) = {}
    <2>1. PICK i : i = minCS + k - 1
      OBVIOUS
    <2>2. Own(i) /\ minCS \in Nat /\ SavedCSRs \in 0..NumCSRs /\ NumCSRs \in Nat
      BY <1>2, <2>1, SlotFacts, RegAssumption
    <2>3. SpillBytes(k) = FrameBytes(i) /\ FrameBytes(i) \subseteq (-MemBelow)..(-1)
      BY <1>2, <2>1, <2>2, FrameBytesFacts DEF SpillBytes, Own
    <2>4. csr[k] = CallerCSR(k)
      BY <1>1, <2>2 DEF Ready, RunInv, RegisterInv
    <2>5. ASSUME NEW l \in 1..SavedCSRs, l # k
          PROVE  FrameBytes(i) \cap FrameBytes(minCS + l - 1) = {}
      <3>1. PICK j : j = minCS + l - 1
        OBVIOUS
      <3>2. Own(j)
        BY <1>2, <3>1, SlotFacts
      <3>3. i # j
        BY <2>1, <2>2, <2>5, <3>1
      <3> QED
        BY <1>2, <2>2, <3>1, <3>2, <3>3, OwnBytes DEF Own
    <2> QED
      BY <2>1, <2>3, <2>4, <2>5
  <1>5. /\ \A k \in numFormals..(NumArgRegs - 1) : RegSize * k \in Nat /\ k \in Nat
        /\ RegSize \in Nat \ {0}
    BY WordAssumption, RegAssumption DEF Ready, FrameInv, IInv, TypeOK
  <1>6. DOMAIN mem' = DOMAIN mem
    BY <1>1
  <1>7. ASSUME NEW k \in 1..SavedCSRs, NEW x \in FrameBytes(minCS + k - 1)
        PROVE  mem'[x] = CallerCSR(k)
    <2>1. x \in DOMAIN mem /\ x < 0
      <3>1. x \in (-MemBelow)..(-1)
        BY <1>4, <1>7
      <3> QED
        BY <3>1, <1>2, ActiveFacts
    <2>2. homeOf(x) = {}
      <3> SUFFICES ASSUME NEW i \in homeOf(x) PROVE FALSE
        OBVIOUS
      <3>1. PICK l \in numFormals..(NumArgRegs - 1) : x \in HomeWord(l)
        BY <1>3, <2>1
      <3> QED
        BY <1>5, <2>1, <3>1 DEF HomeWord
    <2>3. spillOf(x) = {k}
      <3>1. k \in spillOf(x)
        BY <1>4, <1>7 DEF SavedCSRs
      <3>2. \A l \in spillOf(x) : l = k
        <4> SUFFICES ASSUME NEW l \in spillOf(x) PROVE l = k
          OBVIOUS
        <4>1. l \in 1..SavedCSRs /\ x \in SpillBytes(l)
          BY DEF SavedCSRs
        <4> QED
          BY <1>4, <1>7, <4>1
      <3> HIDE DEF spillOf
      <3> QED
        BY <3>1, <3>2
    <2> HIDE DEF homeOf, spillOf
    <2>4. (CHOOSE l \in spillOf(x) : TRUE) = k
      BY <2>3
    <2>5. mem'[x] = csr[k]
      BY <1>1, <2>1, <2>2, <2>3, <2>4
    <2> QED
      BY <1>4, <2>5
  <1>8. ASSUME NEW x \in DOMAIN mem, homeOf(x) # {}
        PROVE  \E k \in numFormals..(NumArgRegs - 1) :
                 /\ mem'[x] = ArgWord(k) /\ x \in HomeWord(k) /\ VarArgHomes(numFormals, isVarArg) > 0
    <2>1. PICK i : i = CHOOSE h \in homeOf(x) : TRUE
      OBVIOUS
    <2>2. i \in homeOf(x)
      BY <1>8, <2>1
    <2>3. PICK k \in numFormals..(NumArgRegs - 1) :
            /\ numFormals + VarArgsFrameIndex - i = k /\ x \in HomeWord(k)
            /\ VarArgHomes(numFormals, isVarArg) > 0
      BY <1>3, <2>2
    <2> HIDE DEF homeOf, spillOf
    <2>4. mem'[x] = ArgWord(numFormals + VarArgsFrameIndex - i)
      BY <1>1, <1>8, <2>1, Zenon
    <2> QED
      BY <2>3, <2>4
  <1>9. ASSUME VarArgHomes(numFormals, isVarArg) > 0, NEW k \in numFormals..(NumArgRegs - 1),
               NEW x \in HomeWord(k), x \in DOMAIN mem
        PROVE  mem'[x] = ArgWord(k)
    <2>1. PICK i \in FrameIndices : Objects[i].kind = "va" /\ numFormals + VarArgsFrameIndex - i = k
      BY <1>2, <1>9, HomeExists
    <2>2. i \in homeOf(x)
      BY <1>2, <1>9, <2>1, HomeFacts DEF HomeWord
    <2>3. PICK l \in numFormals..(NumArgRegs - 1) : mem'[x] = ArgWord(l) /\ x \in HomeWord(l)
      BY <1>8, <1>9, <2>2
    <2>4. l = k
      BY <1>5, <1>9, <2>3, OneWord DEF HomeWord
    <2> QED
      BY <2>3, <2>4
  <1>10. ASSUME NEW x \in DOMAIN mem, homeOf(x) = {}, spillOf(x) # {}
         PROVE  \E k \in 1..SavedCSRs : mem'[x] = CallerCSR(k) /\ x \in FrameBytes(minCS + k - 1)
    <2>1. PICK k : k = CHOOSE l \in spillOf(x) : TRUE
      OBVIOUS
    <2>2. k \in spillOf(x)
      BY <1>10, <2>1
    <2>3. k \in 1..SavedCSRs /\ x \in SpillBytes(k)
      BY <2>2 DEF SavedCSRs
    <2> HIDE DEF homeOf, spillOf
    <2>4. mem'[x] = csr[k]
      BY <1>1, <1>10, <2>1, Zenon
    <2> QED
      BY <1>4, <2>3, <2>4
  <1>11. ASSUME NEW x \in DOMAIN mem, homeOf(x) = {}, spillOf(x) = {} PROVE mem'[x] = mem[x]
    <2> HIDE DEF homeOf, spillOf
    <2> QED
      BY <1>1, <1>11
  <1> HIDE DEF homeOf, spillOf
  <1> QED
    BY <1>6, <1>7, <1>8, <1>9, <1>10, <1>11

\* The words that the caller passed are in the memory of the model.
LEMMA PassedFits ==
  ASSUME Settled
  PROVE  /\ PassedWords \in Nat /\ StackWords(PassedWords) \in Nat
         /\ LocMemOffset(StackWords(PassedWords)) \in Nat
         /\ FirstStackArgLoc(isVarArg) + LocMemOffset(StackWords(PassedWords)) <= MemHigh + 1
         /\ FirstStackArgLoc(isVarArg) \in Nat /\ FirstStackArgLoc(isVarArg) <= MemHigh + 1
  <1>1. PassedWords \in Nat
    BY ArgAssumption DEF Settled, FrameInv, IInv, TypeOK, PassedWords, Larger
  <1>2. StackWords(PassedWords) \in Nat
    BY <1>1, RegAssumption DEF StackWords
  <1>3. LocMemOffset(StackWords(PassedWords)) \in Nat
    BY <1>2, WordAssumption DEF LocMemOffset
  <1>4. FirstStackArgLoc(isVarArg) \in Nat
    BY ReachFacts
  <1>5. FirstStackArgLoc(isVarArg) + LocMemOffset(StackWords(PassedWords)) <= MemHigh + 1
    BY DEF Settled, FrameFits
  <1> QED
    BY <1>1, <1>2, <1>3, <1>4, <1>5, MemAssumption

LEMMA HomesFit ==
  ASSUME Settled, VarArgHomes(numFormals, isVarArg) > 0, NEW k \in numFormals..(NumArgRegs - 1)
  PROVE  HomeWord(k) \subseteq 0..(FirstStackArgLoc(isVarArg) - 1) /\ HomeWord(k) \subseteq 0..MemHigh
  <1>1. /\ numFormals \in Nat /\ isVarArg \in BOOLEAN /\ NumArgRegs \in Nat /\ k \in Nat
        /\ RegSize \in Nat \ {0}
    BY RegAssumption, WordAssumption DEF Settled, FrameInv, IInv, TypeOK
  <1>2. FirstStackArgLoc(isVarArg) = RegSize * NumArgRegs
    BY <1>1 DEF FirstStackArgLoc, VarArgHomes
  <1>3. RegSize * k \in Nat /\ RegSize * k + RegSize <= RegSize * NumArgRegs
    <2>1. RegSize * (k + 1) = RegSize * k + RegSize
      BY <1>1
    <2>2. NumArgRegs - (k + 1) \in Nat /\ RegSize * (NumArgRegs - (k + 1)) >= 0
      BY <1>1
    <2>3. RegSize * (NumArgRegs - (k + 1)) = RegSize * NumArgRegs - RegSize * (k + 1)
      BY <1>1
    <2>4. RegSize * k \in Nat /\ RegSize * (k + 1) \in Nat /\ RegSize * NumArgRegs \in Nat
      BY <1>1
    <2> QED
      BY <2>1, <2>2, <2>3, <2>4, <1>1
  <1>4. RegSize * NumArgRegs <= MemHigh + 1 /\ MemHigh \in Nat
    BY <1>2, PassedFits, MemAssumption
  <1>5. RegSize * NumArgRegs \in Nat
    BY <1>1
  <1> QED
    BY <1>1, <1>2, <1>3, <1>4, <1>5 DEF HomeWord

\* A step that writes to the frame and below only leaves the caller's frame alone.
LEMMA CallerKept ==
  ASSUME Active, UNCHANGED vars, DOMAIN mem' = DOMAIN mem,
         \A x \in DOMAIN mem : x >= 0 => mem'[x] = mem[x],
         mode' \in {"body", "calling"} => mode \in {"body", "calling"}
  PROVE  CallerInv'
  <1>1. \A x : EntryByte(x)' = EntryByte(x)
    BY SameFrame DEF EntryByte, PassedWords
  <1>2. FirstStackArgLoc(isVarArg') = FirstStackArgLoc(isVarArg) /\ FirstStackArgLoc(isVarArg) \in Nat
    BY SameFrame, PassedFits DEF Active
  <1>3. /\ mode # "compile" /\ Settled /\ CallerInv
        /\ \A x \in 0..MemHigh : x \in DOMAIN mem /\ x >= 0
    BY ActiveFacts DEF Active, InActivation, RunInv
  <1>4. \A x \in FirstStackArgLoc(isVarArg)..MemHigh : mem'[x] = EntryByte(x)
    BY <1>2, <1>3, MemAssumption DEF CallerInv, CallerFrameIntact
  <1>5. ASSUME mode \in {"body", "calling"}, VarArgHomes(numFormals, isVarArg) > 0,
               NEW k \in numFormals..(NumArgRegs - 1), NEW x \in HomeWord(k)
        PROVE  mem'[x] = ArgWord(k)
    <2>1. mem[x] = ArgWord(k)
      BY <1>3, <1>5 DEF CallerInv, Holds, HomeWord
    <2>2. x \in 0..MemHigh
      BY <1>3, <1>5, HomesFit
    <2> QED
      BY <2>1, <2>2, <1>3
  <1>6. CallerFrameIntact'
    BY <1>1, <1>2, <1>4 DEF CallerFrameIntact
  <1>7. numFormals' = numFormals /\ isVarArg' = isVarArg
    BY SameFrame
  <1> QED
    BY <1>5, <1>6, <1>7 DEF CallerInv, Holds, HomeWord, ArgWord

LEMMA SpillStep == Ready /\ FrameFits' /\ CallsInv' /\ SpillRegisters => RunInv'
  <1> SUFFICES ASSUME Ready, FrameFits', CallsInv', SpillRegisters PROVE RunInv'
    OBVIOUS
  <1>1. /\ mode = "spill" /\ mode' = "body"
        /\ UNCHANGED <<vars, calls, pending, sp, fp, ra, at, written, dyn, atLive>>
        /\ csr' = [k \in 1..NumCSRs |-> IF k <= maxCS - minCS + 1 THEN Junk ELSE csr[k]]
    BY DEF SpillRegisters
  <1>2. Active /\ Settled /\ pass = "done"
    BY <1>1, ReadySettled DEF Active, Ready, RunInv, ModeInv, InActivation
  <1>3. /\ written = {} /\ dyn = <<0, 0>> /\ pending = {} /\ ~atLive
        /\ DOMAIN mem = (-MemBelow)..MemHigh
    BY <1>1 DEF Ready, RunInv, ModeInv
  <1>4. /\ DOMAIN mem' = DOMAIN mem
        /\ \A k \in 1..SavedCSRs : \A x \in FrameBytes(minCS + k - 1) : mem'[x] = CallerCSR(k)
        /\ VarArgHomes(numFormals, isVarArg) > 0 =>
             \A k \in numFormals..(NumArgRegs - 1) : \A x \in HomeWord(k) :
               x \in DOMAIN mem => mem'[x] = ArgWord(k)
        /\ \A x \in DOMAIN mem :
             \/ mem'[x] = mem[x]
             \/ \E k \in 1..SavedCSRs : mem'[x] = CallerCSR(k) /\ x \in FrameBytes(minCS + k - 1)
             \/ \E k \in numFormals..(NumArgRegs - 1) : /\ mem'[x] = ArgWord(k) /\ x \in HomeWord(k)
                                                        /\ VarArgHomes(numFormals, isVarArg) > 0
    BY SpillEffect
  <1>5. ModeInv'
    BY <1>1, <1>2, <1>3, <1>4, SameFrame DEF ModeInv, Modes
  <1>6. RegisterInv'
    <2>1. SavedCSRs' = SavedCSRs /\ SavedCSRs = maxCS - minCS + 1 /\ SavedCSRs \in Int /\ NumCSRs \in Nat
      BY <1>1, <1>2, SameFrame, SlotFacts, RegAssumption DEF SavedCSRs
    <2>2. \A k \in 1..NumCSRs : csr[k] = CallerCSR(k)
      BY <1>1 DEF Ready, RunInv, RegisterInv
    <2> QED
      BY <1>1, <2>1, <2>2 DEF RegisterInv, CallerCSR
  <1>7. BaseInv'
    BY <1>1, <1>3, SameFrame DEF Ready, RunInv, BaseInv, InActivation, CallerFP
  <1> DEFINE saved == UNION {FrameBytes(minCS + k - 1) : k \in 1..SavedCSRs}
             W == saved \cup (0..MemHigh)
  <1>8. SlotsKept'
    <2>1. \A x \in DOMAIN mem : x \notin W => mem'[x] = mem[x]
      BY <1>2, <1>4, HomesFit
    <2>2. ASSUME NEW i, Own(i), Objects[i].kind # "csr" PROVE W \cap FrameBytes(i) = {}
      <3>1. FrameBytes(i) \subseteq (-MemBelow)..(-1)
        BY <1>2, <2>2, FrameBytesFacts DEF Own
      <3>2. FrameBytes(i) \cap (0..MemHigh) = {}
        BY <3>1, MemAssumption
      <3>3. ASSUME NEW k \in 1..SavedCSRs PROVE FrameBytes(minCS + k - 1) \cap FrameBytes(i) = {}
        <4>1. PICK j : j = minCS + k - 1
          OBVIOUS
        <4>2. Own(j) /\ j # i
          BY <1>2, <2>2, <4>1, SlotFacts
        <4> QED
          BY <1>2, <2>2, <4>1, <4>2, OwnBytes DEF Own
      <3> QED
        BY <3>2, <3>3
    <2>3. NumObjs \notin FrameIndices /\ written' = {}
      BY <1>1, <1>2, <1>3 DEF FrameIndices, Settled, FrameInv, IInv, TypeOK
    <2> HIDE DEF W
    <2> QED
      BY <1>1, <1>2, <1>4, <2>1, <2>2, <2>3, SlotsStay
  <1>9. ValueInv'
    <2>1. \A x \in DOMAIN mem, i \in FrameIndices : mem[x] # ObjectValue(i)
      BY <1>1, <1>3 DEF Ready, RunInv, ValueInv
    <2>2. \A x \in DOMAIN mem, i \in FrameIndices : mem'[x] # ObjectValue(i)
      BY <1>4, <2>1, ValuesDiffer
    <2> QED
      BY <1>1, <1>4, <2>2, SameFrame DEF ValueInv, ObjectValue
  <1>10. CallerInv'
    <2>1. \A x : EntryByte(x)' = EntryByte(x)
      BY <1>1, SameFrame DEF EntryByte, PassedWords
    <2>2. FirstStackArgLoc(isVarArg') = FirstStackArgLoc(isVarArg) /\ FirstStackArgLoc(isVarArg) \in Nat
      BY <1>1, <1>2, SameFrame, PassedFits
    <2>3. ASSUME NEW x \in FirstStackArgLoc(isVarArg)..MemHigh PROVE mem'[x] = EntryByte(x)
      <3>1. x \in DOMAIN mem /\ x >= 0
        BY <1>3, <2>2, MemAssumption
      <3>2. mem[x] = EntryByte(x)
        BY <1>1 DEF Ready, RunInv, CallerInv, CallerFrameIntact
      <3>3. \A k \in 1..SavedCSRs : x \notin FrameBytes(minCS + k - 1)
        <4> SUFFICES ASSUME NEW k \in 1..SavedCSRs, x \in FrameBytes(minCS + k - 1) PROVE FALSE
          OBVIOUS
        <4>1. PICK j : j = minCS + k - 1
          OBVIOUS
        <4>2. Own(j)
          BY <1>2, <4>1, SlotFacts
        <4>3. x \in (-MemBelow)..(-1)
          BY <1>2, <4>1, <4>2, FrameBytesFacts DEF Own
        <4> QED
          BY <3>1, <4>3, MemAssumption
      <3>4. VarArgHomes(numFormals, isVarArg) > 0 =>
              \A k \in numFormals..(NumArgRegs - 1) : x \notin HomeWord(k)
        <4> SUFFICES ASSUME VarArgHomes(numFormals, isVarArg) > 0,
                            NEW k \in numFormals..(NumArgRegs - 1), x \in HomeWord(k)
                     PROVE  FALSE
          OBVIOUS
        <4>1. x \in 0..(FirstStackArgLoc(isVarArg) - 1)
          BY <1>2, HomesFit
        <4> QED
          BY <2>2, <4>1
      <3> QED
        BY <1>4, <3>1, <3>2, <3>3, <3>4
    <2>4. ASSUME VarArgHomes(numFormals, isVarArg) > 0, NEW k \in numFormals..(NumArgRegs - 1),
                 NEW x \in HomeWord(k)
          PROVE  mem'[x] = ArgWord(k)
      <3>1. x \in 0..MemHigh
        BY <1>2, <2>4, HomesFit
      <3>2. x \in DOMAIN mem
        BY <1>3, <3>1, MemAssumption
      <3> QED
        BY <1>4, <2>4, <3>2
    <2>5. CallerFrameIntact'
      BY <2>1, <2>2, <2>3 DEF CallerFrameIntact
    <2>6. numFormals' = numFormals /\ isVarArg' = isVarArg
      BY <1>1, SameFrame
    <2> QED
      BY <2>4, <2>5, <2>6 DEF CallerInv, Holds, HomeWord, ArgWord
  <1>11. TransientInv'
    BY <1>1, <1>3 DEF TransientInv, AllocaKeepsValues
  <1> QED
    BY <1>5, <1>6, <1>7, <1>8, <1>9, <1>10, <1>11 DEF RunInv

\* The block of an alloca lies below the frame.
LEMMA DynBytes ==
  ASSUME Active
  PROVE  /\ dyn[1]..(dyn[1] + dyn[2] - 1) \subseteq DOMAIN mem
         /\ dyn[1]..(dyn[1] + dyn[2] - 1) \subseteq sp..(-StackSize - 1)
  <1>1. /\ StackSize \in Nat /\ sp \in Int /\ sp >= -MemBelow /\ MemBelow \in Nat /\ MemHigh \in Nat
        /\ DOMAIN mem = (-MemBelow)..MemHigh /\ sp <= -StackSize
    BY ActiveFacts, ReachFacts
  <1>2. CASE dyn = <<0, 0>>
    <2>1. dyn[1] = 0 /\ dyn[2] = 0
      BY <1>2
    <2>2. dyn[1]..(dyn[1] + dyn[2] - 1) = {}
      BY <2>1
    <2> QED
      BY <2>2
  <1>3. CASE dyn # <<0, 0>>
    <2>1. dyn[1] = sp /\ dyn[2] \in Nat /\ dyn[1] + dyn[2] <= -StackSize
      BY <1>3 DEF Active, RunInv, BaseInv
    <2> QED
      BY <1>1, <2>1, SMTT(30)
  <1> QED
    BY <1>2, <1>3

\* The frame bytes of an object are memory, apart from the block of an alloca
\* and from the caller's frame.
LEMMA FrameBytesApart ==
  ASSUME Active, NEW i \in FrameIndices, InFrame(i)
  PROVE  /\ FrameBytes(i) \subseteq DOMAIN mem
         /\ FrameBytes(i) \cap (dyn[1]..(dyn[1] + dyn[2] - 1)) = {}
         /\ \A x \in FrameBytes(i) : ~(x >= 0)
         /\ ObjectBytes(i) = FrameBytes(i)
  <1>1. /\ FrameBytes(i) \subseteq (-StackSize)..(-1) /\ FrameBytes(i) \subseteq (-MemBelow)..(-1)
        /\ ObjectBytes(i) = FrameBytes(i)
    BY ActiveFacts, FrameBytesFacts
  <1>2. /\ StackSize \in Nat /\ sp \in Int /\ DOMAIN mem = (-MemBelow)..MemHigh
        /\ MemBelow \in Nat /\ MemHigh \in Nat
    BY ActiveFacts, ReachFacts
  <1>3. dyn[1]..(dyn[1] + dyn[2] - 1) \subseteq sp..(-StackSize - 1)
    BY DynBytes
  <1>4. ((-StackSize)..(-1)) \cap (sp..(-StackSize - 1)) = {}
    BY <1>2
  <1>5. (-MemBelow)..(-1) \subseteq DOMAIN mem
    BY <1>2
  <1>6. \A x \in (-MemBelow)..(-1) : ~(x >= 0)
    BY <1>2
  <1> QED
    BY <1>1, <1>3, <1>4, <1>5, <1>6

LEMMA StoreLocalStep ==
  ASSUME Ready, FrameFits', CallsInv', NEW i \in FrameIndices, StoreLocal(i)
  PROVE  RunInv'
  <1>1. /\ mode = "body" /\ mode' = "body" /\ Objects[i].kind = "local" /\ InFrame(i)
        /\ mem' = WriteObject(i, ObjectValue(i)) /\ written' = written \cup {i}
        /\ UNCHANGED <<vars, calls, pending, sp, fp, ra, csr, dyn, atLive>>
    BY DEF StoreLocal
  <1>2. Active /\ Settled /\ pass = "done"
    BY <1>1, ReadySettled DEF Active, Ready, RunInv, ModeInv, InActivation
  <1>3. /\ ModeInv /\ RegisterInv /\ BaseInv /\ TransientInv /\ ValueInv
        /\ DOMAIN mem = (-MemBelow)..MemHigh
    BY <1>1 DEF Ready, RunInv, ModeInv
  <1>4. /\ Own(i) /\ FrameBytes(i) \subseteq DOMAIN mem
        /\ FrameBytes(i) \cap (dyn[1]..(dyn[1] + dyn[2] - 1)) = {}
        /\ \A x \in FrameBytes(i) : ~(x >= 0)
    BY <1>1, <1>2, FrameBytesApart DEF Own
  <1>5. mem' = [x \in DOMAIN mem |-> IF x \in FrameBytes(i) THEN ObjectValue(i) ELSE mem[x]]
    BY <1>1, <1>2, FrameBytesApart DEF WriteObject
  <1>6. ModeInv'
    BY <1>1, <1>2, <1>3, <1>5, SameFrame DEF ModeInv, Modes
  <1>7. RegisterInv'
    BY <1>1, <1>3, SameFrame DEF RegisterInv, CallerCSR, CallerFP, CallerRA
  <1>8. BaseInv'
    BY <1>1, <1>3, SameFrame DEF BaseInv, InActivation, CallerFP
  <1>9. SlotsKept'
    <2>1. \A j : Own(j) /\ j # i => FrameBytes(i) \cap FrameBytes(j) = {}
      BY <1>2, <1>4, OwnBytes DEF Own
    <2>2. DOMAIN mem' = DOMAIN mem /\ \A x \in DOMAIN mem : x \notin FrameBytes(i) => mem'[x] = mem[x]
      BY <1>5
    <2>3. \A x \in FrameBytes(i) : mem'[x] = ObjectValue(i)
      BY <1>4, <1>5
    <2> QED
      BY <1>1, <1>2, <2>1, <2>2, <2>3, BodyKeeps
  <1>10. ValueInv'
    BY <1>1, <1>3, <1>5, SameFrame, ValuesDiffer DEF ValueInv, ObjectValue
  <1>11. CallerInv'
    <2>1. DOMAIN mem' = DOMAIN mem /\ \A x \in DOMAIN mem : x >= 0 => mem'[x] = mem[x]
      BY <1>4, <1>5
    <2> QED
      BY <1>1, <1>2, <2>1, CallerKept
  <1>12. TransientInv'
    <2>1. pending' = {}
      BY <1>1, <1>3 DEF ModeInv
    <2>2. AllocaKeepsValues => AllocaKeepsValues'
      BY <1>1, <1>2, <1>4, <1>5, DynBytes DEF AllocaKeepsValues, DynValue
    <2> QED
      BY <1>1, <1>3, <2>1, <2>2 DEF TransientInv
  <1> QED
    BY <1>6, <1>7, <1>8, <1>9, <1>10, <1>11, <1>12 DEF RunInv

\* A variable sized alloca takes its block from below SP.
LEMMA AllocaStep ==
  ASSUME Ready, FrameFits', CallsInv', NEW i \in FrameIndices, NEW n \in DynSizes, DynamicAlloca(i, n)
  PROVE  RunInv'
  <1> DEFINE a == Objects[i].align
             base == IF a > StackAlign THEN sp - ((EntrySP + sp) % a) ELSE sp
  <1>1. /\ mode = "body" /\ mode' = "body" /\ Objects[i].kind = "dynamic"
        /\ sp' = base - AlignUp(n, StackAlign)
        /\ dyn' = <<base - AlignUp(n, StackAlign), n>>
        /\ mem' = Write(mem, base - AlignUp(n, StackAlign), n, DynValue)
        /\ UNCHANGED <<vars, calls, pending, fp, ra, csr, written, atLive>>
    BY DEF DynamicAlloca
  <1>2. Active /\ Settled /\ pass = "done"
    BY <1>1, ReadySettled DEF Active, Ready, RunInv, ModeInv, InActivation
  <1>3. /\ ModeInv /\ RegisterInv /\ BaseInv /\ TransientInv /\ ValueInv
        /\ DOMAIN mem = (-MemBelow)..MemHigh /\ InActivation
    BY <1>1 DEF Ready, RunInv, ModeInv, InActivation
  <1>4. /\ StackSize \in Nat /\ sp \in Int /\ sp <= -StackSize /\ MemBelow \in Nat /\ MemHigh \in Nat
        /\ n \in Nat /\ EntrySP \in Nat
    BY <1>2, ActiveFacts, ReachFacts, ArgAssumption, MemAssumption
  <1>5. hasFP /\ StackSize # 0
    <2>1. hasFP
      BY <1>1 DEF hasFP, Ready, FrameInv, SlotInv
    <2> QED
      BY <1>2, <2>1, SaveAddresses
  <1>6. base \in Int /\ base <= sp
    <2>1. a \in Nat \ {0}
      BY DEF Ready, FrameInv, IInv, TypeOK, Object
    <2>2. EntrySP + sp \in Int
      BY <1>4
    <2>3. (EntrySP + sp) % a \in 0..(a - 1)
      BY <2>1, <2>2, DivMod
    <2> QED
      BY <1>4, <2>1, <2>3
  <1>7. AlignUp(n, StackAlign) \in Nat /\ AlignUp(n, StackAlign) >= n
    BY <1>4, AlignUpBounds, WordAssumption
  <1> HIDE DEF base, a
  <1>8. /\ sp' \in Int /\ sp' <= -StackSize /\ sp' + n <= -StackSize /\ sp' < 0
        /\ mem' = Write(mem, sp', n, DynValue) /\ dyn' = <<sp', n>> /\ sp' >= -MemBelow
    <2>1. sp' >= -MemBelow
      BY DEF FrameFits
    <2> QED
      BY <1>1, <1>4, <1>5, <1>6, <1>7, <2>1
  <1>9. mem' = [x \in DOMAIN mem |-> IF x \in sp'..(sp' + n - 1) THEN DynValue ELSE mem[x]]
    BY <1>8 DEF Write
  <1>10. \A x \in sp'..(sp' + n - 1) : x < -StackSize /\ x \in DOMAIN mem /\ ~(x >= 0)
    <2>1. PICK q \in Int : q = sp'
      BY <1>8
    <2>2. q + n <= -StackSize /\ q >= -MemBelow /\ -StackSize \in Int /\ -StackSize <= 0
      <3>1. q + n <= -StackSize
        BY <1>8, <2>1
      <3>2. q >= -MemBelow
        BY <1>8, <2>1
      <3>3. -StackSize \in Int /\ -StackSize <= 0
        BY <1>4
      <3> QED
        BY <3>1, <3>2, <3>3
    <2>3. ASSUME NEW x \in q..(q + n - 1)
          PROVE  x \in Int /\ x < -StackSize /\ x >= -MemBelow /\ x < 0
      BY <1>4, <2>2
    <2>4. \A x \in Int : x >= -MemBelow /\ x < 0 => x \in DOMAIN mem /\ ~(x >= 0)
      BY <1>3, <1>4
    <2> QED
      BY <2>1, <2>3, <2>4
  <1>11. ModeInv'
    BY <1>1, <1>2, <1>3, <1>9, SameFrame DEF ModeInv, Modes
  <1>12. RegisterInv'
    BY <1>1, <1>3, SameFrame DEF RegisterInv, CallerCSR, CallerFP, CallerRA
  <1>13. BaseInv'
    <2>1. dyn' # <<0, 0>> /\ dyn'[1] = sp' /\ dyn'[2] = n
      BY <1>8
    <2>2. hasFP' /\ StackSize' = StackSize
      BY <1>1, <1>5, SameFrame
    <2>3. fp' = -StackSize
      BY <1>1, <1>3, <1>5 DEF BaseInv
    <2> QED
      BY <1>4, <1>8, <2>1, <2>2, <2>3 DEF BaseInv, CallerFP
  <1>14. SlotsKept'
    <2> DEFINE W == sp'..(sp' + n - 1)
    <2>1. \A j : Own(j) => W \cap FrameBytes(j) = {}
      <3> SUFFICES ASSUME NEW j, Own(j), NEW x \in W, x \in FrameBytes(j) PROVE FALSE
        OBVIOUS
      <3>1. FrameBytes(j) \subseteq (-StackSize)..(-1)
        BY <1>2, FrameBytesFacts DEF Own
      <3>2. x \in (-StackSize)..(-1) /\ x < -StackSize
        BY <1>10, <3>1
      <3> QED
        BY <1>4, <3>2
    <2>2. DOMAIN mem' = DOMAIN mem /\ \A x \in DOMAIN mem : x \notin W => mem'[x] = mem[x]
      BY <1>9
    <2>3. NumObjs \notin FrameIndices /\ NumObjs \notin written
      <3>1. NumObjs \notin FrameIndices
        BY <1>2 DEF FrameIndices, Settled, FrameInv, IInv, TypeOK
      <3> QED
        BY <3>1, <1>3 DEF Ready, RunInv, SlotsKept
    <2> HIDE DEF W
    <2> QED
      BY <1>1, <1>2, <2>1, <2>2, <2>3, BodyKeeps
  <1>15. ValueInv'
    BY <1>1, <1>3, <1>9, SameFrame, ValuesDiffer DEF ValueInv, ObjectValue
  <1>16. CallerInv'
    <2>1. DOMAIN mem' = DOMAIN mem /\ \A x \in DOMAIN mem : x >= 0 => mem'[x] = mem[x]
      BY <1>9, <1>10
    <2> QED
      BY <1>1, <1>2, <2>1, CallerKept
  <1>17. TransientInv'
    <2>1. pending' = {}
      BY <1>1, <1>3 DEF ModeInv
    <2>2. AllocaKeepsValues'
      <3>1. dyn'[1] = sp' /\ dyn'[2] = n
        BY <1>8
      <3>2. \A x \in sp'..(sp' + n - 1) : mem'[x] = DynValue
        BY <1>9, <1>10
      <3> QED
        BY <3>1, <3>2 DEF AllocaKeepsValues, DynValue
    <2> QED
      BY <2>1, <2>2 DEF TransientInv
  <1> QED
    BY <1>11, <1>12, <1>13, <1>14, <1>15, <1>16, <1>17 DEF RunInv

\* Code of the body that writes no memory: $at is given a value, and its last use.
LEMMA ATStep == Ready /\ FrameFits' /\ CallsInv' /\ (DefineAT \/ KillAT) => RunInv'
  <1> SUFFICES ASSUME Ready, FrameFits', CallsInv', DefineAT \/ KillAT PROVE RunInv'
    OBVIOUS
  <1>1. /\ mode = "body" /\ mode' = "body"
        /\ UNCHANGED <<vars, calls, pending, sp, fp, ra, csr, mem, written, dyn>>
    BY DEF DefineAT, KillAT
  <1>2. Active /\ Settled /\ pass = "done"
    BY <1>1, ReadySettled DEF Active, Ready, RunInv, ModeInv, InActivation
  <1>3. ModeInv /\ RegisterInv /\ BaseInv /\ SlotsKept /\ TransientInv /\ ValueInv
    BY DEF Ready, RunInv
  <1>4. ModeInv'
    BY <1>1, <1>2, <1>3, SameFrame DEF ModeInv, Modes
  <1>5. RegisterInv'
    BY <1>1, <1>3, SameFrame DEF RegisterInv, CallerCSR, CallerFP, CallerRA
  <1>6. BaseInv'
    BY <1>1, <1>3, SameFrame DEF BaseInv, InActivation, CallerFP
  <1>7. SlotsKept'
    <2>1. NumObjs \notin FrameIndices /\ NumObjs \notin written
      BY <1>2, <1>3 DEF FrameIndices, Settled, FrameInv, IInv, TypeOK, SlotsKept, InActivation, Active
    <2> QED
      BY <1>1, <1>2, <2>1, BodyKeeps
  <1>8. ValueInv'
    BY <1>1, <1>3, SameFrame DEF ValueInv, ObjectValue
  <1>9. CallerInv'
    BY <1>1, <1>2, CallerKept
  <1>10. TransientInv'
    <2>1. pending' = {}
      BY <1>1, <1>3 DEF ModeInv
    <2>2. AllocaKeepsValues => AllocaKeepsValues'
      BY <1>1 DEF AllocaKeepsValues, DynValue
    <2> QED
      BY <1>1, <1>3, <2>1, <2>2 DEF TransientInv
  <1> QED
    BY <1>4, <1>5, <1>6, <1>7, <1>8, <1>9, <1>10 DEF RunInv

\* Stack word j of a call: where it is in the frame.
LEMMA OutFacts ==
  ASSUME Settled, NEW c, CallFacts(c), NEW j \in 0..(StackWords(c.n) - 1)
  PROVE  /\ OutObject(c, j) \in FrameIndices /\ InFrame(OutObject(c, j))
         /\ Objects[OutObject(c, j)].kind = "out"
         /\ RegSize * j \in Nat /\ FirstStackArgLoc(c.va) \in Nat
         /\ FirstStackArgLoc(c.va) + RegSize * j + RegSize <= StackSize
         /\ FrameBytes(OutObject(c, j)) =
              (FirstStackArgLoc(c.va) + RegSize * j - StackSize)..
              (FirstStackArgLoc(c.va) + RegSize * j - StackSize + RegSize - 1)
  <1>1. PICK i : i = OutObject(c, j)
    OBVIOUS
  <1>2. /\ NumFixed \in Nat /\ NumObjs \in Nat /\ StackSize \in Nat /\ RegSize \in Nat \ {0}
        /\ c.base \in Nat /\ c.base + StackWords(c.n) <= NumFixed
        /\ c.n \in Nat /\ c.va \in BOOLEAN
        /\ Objects[i].kind = "out" /\ Objects[i].off = FirstStackArgLoc(c.va) + LocMemOffset(j)
    BY <1>1, WordAssumption DEF CallFacts, Settled, FrameInv, IInv, TypeOK
  <1>3. StackWords(c.n) \in Nat /\ FirstStackArgLoc(c.va) \in Nat
    BY <1>2, WordCounts
  <1>4. i \in FrameIndices /\ i < 0
    BY <1>1, <1>2, <1>3 DEF OutObject, FrameIndices
  <1>5. Objects[i].size = RegSize /\ InFrame(i)
    BY <1>2, <1>4 DEF Settled, FrameInv, SlotInv, IInv, LayoutInv, FixedInv, InFrame, DeadSize, Caller
  <1>6. Start(i) = Objects[i].off /\ Start(i) \in Nat /\ End(i) = Start(i) + RegSize /\ End(i) <= StackSize
    BY <1>4, <1>5, FinalOffsets DEF Settled, FrameInv
  <1>7. RegSize * j \in Nat /\ LocMemOffset(j) = RegSize * j
    BY <1>2, <1>3 DEF LocMemOffset
  <1>8. PICK s : s = FirstStackArgLoc(c.va) + RegSize * j
    OBVIOUS
  <1>9. s \in Nat /\ Start(i) = s /\ End(i) = s + RegSize /\ s + RegSize <= StackSize
    BY <1>2, <1>3, <1>6, <1>7, <1>8
  <1>10. FrameBytes(i) = (s - StackSize)..(s - StackSize + RegSize - 1)
    <2>1. (s + RegSize) - StackSize - 1 = s - StackSize + RegSize - 1
      BY <1>2, <1>9
    <2> QED
      BY <1>9, <2>1 DEF FrameBytes
  <1>11. /\ FirstStackArgLoc(c.va) + RegSize * j - StackSize = s - StackSize
         /\ FirstStackArgLoc(c.va) + RegSize * j - StackSize + RegSize - 1 = s - StackSize + RegSize - 1
    BY <1>2, <1>3, <1>7, <1>8
  <1> QED
    BY <1>1, <1>2, <1>3, <1>4, <1>5, <1>7, <1>8, <1>9, <1>10, <1>11

\* LowerCall's stores put each stack word into its slot, and nothing else anywhere.
LEMMA PassEffect ==
  ASSUME Ready, NEW c \in calls, PassArguments(c)
  PROVE  /\ DOMAIN mem' = DOMAIN mem
         /\ \A j \in 0..(StackWords(c.n) - 1) : \A x \in FrameBytes(OutObject(c, j)) :
              mem'[x] = OutWord(j)
         /\ \A x \in DOMAIN mem :
              \/ mem'[x] = mem[x]
              \/ \E j \in 0..(StackWords(c.n) - 1) :
                   mem'[x] = OutWord(j) /\ x \in FrameBytes(OutObject(c, j))
  <1> DEFINE words == 0..(StackWords(c.n) - 1)
             wordOf(x) == {j \in words : x \in ObjectBytes(OutObject(c, j))}
  <1>1. /\ mode = "body"
        /\ mem' = [x \in DOMAIN mem |-> IF wordOf(x) # {}
                                          THEN OutWord(CHOOSE j \in wordOf(x) : TRUE)
                                          ELSE mem[x]]
    BY DEF PassArguments
  <1>2. Active /\ Settled /\ CallFacts(c)
    BY <1>1, ReadySettled DEF Active, Ready, RunInv, ModeInv, InActivation, CallsInv
  <1>3. ASSUME NEW j \in words
        PROVE  /\ ObjectBytes(OutObject(c, j)) = FrameBytes(OutObject(c, j))
               /\ FrameBytes(OutObject(c, j)) \subseteq DOMAIN mem
               /\ j \in Nat
               /\ \A l \in words : l # j =>
                    FrameBytes(OutObject(c, j)) \cap FrameBytes(OutObject(c, l)) = {}
    <2>1. PICK i : i = OutObject(c, j)
      OBVIOUS
    <2>2. i \in FrameIndices /\ InFrame(i)
      BY <1>2, <2>1, OutFacts
    <2>3. ObjectBytes(i) = FrameBytes(i) /\ FrameBytes(i) \subseteq DOMAIN mem
      BY <1>2, <2>2, FrameBytesApart
    <2>4. ASSUME NEW l \in words, l # j, NEW x \in FrameBytes(i), x \in FrameBytes(OutObject(c, l))
          PROVE  FALSE
      <3>1. PICK F, R, S : F = FirstStackArgLoc(c.va) /\ R = RegSize /\ S = StackSize
        OBVIOUS
      <3>2. /\ F \in Nat /\ R \in Nat \ {0} /\ S \in Nat /\ R * j \in Nat /\ R * l \in Nat
            /\ j \in Nat /\ l \in Nat
            /\ x \in (F + R * j - S)..(F + R * j - S + R - 1)
            /\ x \in (F + R * l - S)..(F + R * l - S + R - 1)
        <4>1. /\ F \in Nat /\ R \in Nat \ {0} /\ S \in Nat
              /\ StackWords(c.n) \in Nat
          BY <1>2, <3>1, OutFacts, ReachFacts, WordAssumption, WordCounts DEF CallFacts
        <4>2. R * j \in Nat /\ x \in (F + R * j - S)..(F + R * j - S + R - 1)
          BY <1>2, <2>1, <2>4, <3>1, OutFacts
        <4>3. R * l \in Nat /\ x \in (F + R * l - S)..(F + R * l - S + R - 1)
          BY <1>2, <2>4, <3>1, OutFacts
        <4> QED
          BY <4>1, <4>2, <4>3
      <3>3. PICK y : y = (x + S) - F
        OBVIOUS
      <3>4. y \in (R * j)..(R * j + R - 1) /\ y \in (R * l)..(R * l + R - 1)
        BY <3>2, <3>3
      <3>5. j = l
        BY <3>2, <3>4, OneWord
      <3> QED
        BY <2>4, <3>5
    <2>5. j \in Nat
      OBVIOUS
    <2> QED
      BY <2>1, <2>3, <2>4, <2>5
  <1>4. DOMAIN mem' = DOMAIN mem
    BY <1>1
  <1>5. ASSUME NEW j \in words, NEW x \in FrameBytes(OutObject(c, j)) PROVE mem'[x] = OutWord(j)
    <2>1. x \in DOMAIN mem /\ j \in wordOf(x)
      BY <1>3, <1>5
    <2>2. \A l \in wordOf(x) : l = j
      BY <1>3, <1>5
    <2> HIDE DEF wordOf
    <2>3. (CHOOSE l \in wordOf(x) : TRUE) = j
      BY <2>1, <2>2
    <2> QED
      BY <1>1, <2>1, <2>3
  <1>6. ASSUME NEW x \in DOMAIN mem
        PROVE  \/ mem'[x] = mem[x]
               \/ \E j \in words : mem'[x] = OutWord(j) /\ x \in FrameBytes(OutObject(c, j))
    <2>1. CASE wordOf(x) = {}
      <3> HIDE DEF wordOf
      <3> QED
        BY <1>1, <2>1
    <2>2. CASE wordOf(x) # {}
      <3>1. PICK j \in words : x \in FrameBytes(OutObject(c, j))
        BY <1>3, <2>2
      <3> QED
        BY <1>5, <3>1
    <2> QED
      BY <2>1, <2>2
  <1> QED
    BY <1>4, <1>5, <1>6

LEMMA PassStep ==
  ASSUME Ready, FrameFits', CallsInv', NEW c \in calls, PassArguments(c)
  PROVE  RunInv'
  <1> DEFINE words == 0..(StackWords(c.n) - 1)
             W == UNION {FrameBytes(OutObject(c, j)) : j \in words}
  <1>1. /\ mode = "body" /\ mode' = "calling" /\ pending' = {c} /\ ~atLive
        /\ UNCHANGED <<vars, calls, sp, fp, ra, csr, written, dyn, atLive>>
    BY DEF PassArguments
  <1>2. Active /\ Settled /\ pass = "done" /\ CallFacts(c)
    BY <1>1, ReadySettled DEF Active, Ready, RunInv, ModeInv, InActivation, CallsInv
  <1>3. /\ ModeInv /\ RegisterInv /\ BaseInv /\ SlotsKept /\ TransientInv /\ ValueInv
        /\ DOMAIN mem = (-MemBelow)..MemHigh
    BY <1>1 DEF Ready, RunInv, ModeInv
  <1>4. /\ DOMAIN mem' = DOMAIN mem
        /\ \A j \in words : \A x \in FrameBytes(OutObject(c, j)) : mem'[x] = OutWord(j)
        /\ \A x \in DOMAIN mem :
             \/ mem'[x] = mem[x]
             \/ \E j \in words : mem'[x] = OutWord(j) /\ x \in FrameBytes(OutObject(c, j))
    BY PassEffect
  <1>5. ASSUME NEW j \in words
        PROVE  LET i == OutObject(c, j)
               IN /\ i \in FrameIndices /\ InFrame(i) /\ Objects[i].kind = "out"
                  /\ FrameBytes(i) \cap (dyn[1]..(dyn[1] + dyn[2] - 1)) = {}
                  /\ \A x \in FrameBytes(i) : ~(x >= 0)
    <2>1. PICK i : i = OutObject(c, j)
      OBVIOUS
    <2>2. i \in FrameIndices /\ InFrame(i) /\ Objects[i].kind = "out"
      BY <1>2, <2>1, OutFacts
    <2> QED
      BY <1>2, <2>1, <2>2, FrameBytesApart
  <1>6. ModeInv'
    BY <1>1, <1>2, <1>3, <1>4, SameFrame DEF ModeInv, Modes
  <1>7. RegisterInv'
    BY <1>1, <1>3, SameFrame DEF RegisterInv, CallerCSR, CallerFP, CallerRA
  <1>8. BaseInv'
    BY <1>1, <1>3, SameFrame DEF BaseInv, InActivation, CallerFP
  <1>9. SlotsKept'
    <2>1. ASSUME NEW i, Own(i) PROVE W \cap FrameBytes(i) = {}
      <3>1. ASSUME NEW j \in words PROVE FrameBytes(OutObject(c, j)) \cap FrameBytes(i) = {}
        <4>1. PICK o : o = OutObject(c, j)
          OBVIOUS
        <4>2. o \in FrameIndices /\ InFrame(o) /\ o # i
          BY <1>5, <2>1, <4>1 DEF Own
        <4> QED
          BY <1>2, <2>1, <4>1, <4>2, OwnBytes
      <3> QED
        BY <3>1
    <2>2. \A x \in DOMAIN mem : x \notin W => mem'[x] = mem[x]
      BY <1>4
    <2>3. NumObjs \notin FrameIndices /\ NumObjs \notin written
      BY <1>2, <1>3 DEF FrameIndices, Settled, FrameInv, IInv, TypeOK, SlotsKept, InActivation, Active
    <2> HIDE DEF W
    <2> QED
      BY <1>1, <1>2, <1>4, <2>1, <2>2, <2>3, BodyKeeps
  <1>10. ValueInv'
    BY <1>1, <1>3, <1>4, SameFrame, ValuesDiffer DEF ValueInv, ObjectValue
  <1>11. CallerInv'
    <2>1. \A x \in DOMAIN mem : x >= 0 => mem'[x] = mem[x]
      BY <1>4, <1>5
    <2> QED
      BY <1>1, <1>2, <1>4, <2>1, CallerKept
  <1>12. TransientInv'
    <2>1. \A j \in words : Holds(FrameBytes(OutObject(c, j)), OutWord(j))'
      <3> SUFFICES ASSUME NEW j \in words PROVE Holds(FrameBytes(OutObject(c, j)), OutWord(j))'
        OBVIOUS
      <3>1. PICK i : i = OutObject(c, j)
        OBVIOUS
      <3>2. FrameBytes(i)' = FrameBytes(i)
        BY <1>1, SameFrame
      <3>3. FrameBytes(OutObject(c, j))' = FrameBytes(OutObject(c, j))
        BY <1>1, SameFrame DEF FrameBytes, Start, End, FrameOffset, OutObject
      <3> QED
        BY <1>4, <3>3 DEF Holds, OutWord
    <2>2. AllocaKeepsValues => AllocaKeepsValues'
      <3> SUFFICES ASSUME AllocaKeepsValues, \A d \in calls : ~d.va
                   PROVE  AllocaKeepsValues'
        BY <1>1 DEF AllocaKeepsValues
      <3>1. \A x \in dyn[1]..(dyn[1] + dyn[2] - 1) : mem[x] = DynValue /\ x \in DOMAIN mem
        BY <1>1, <1>2, DynBytes DEF AllocaKeepsValues
      <3>2. \A x \in dyn[1]..(dyn[1] + dyn[2] - 1) : mem'[x] = DynValue
        BY <1>4, <1>5, <3>1
      <3> QED
        BY <1>1, <3>2 DEF AllocaKeepsValues, DynValue
    <2> QED
      BY <1>1, <1>3, <2>1, <2>2 DEF TransientInv
  <1> QED
    BY <1>6, <1>7, <1>8, <1>9, <1>10, <1>11, <1>12 DEF RunInv

\* A callee writes below the caller's own objects: below SP, or in the home area
\* that LowerCall allocates for a variadic one.
LEMMA CalleeBytes ==
  ASSUME Active, NEW c, CallFacts(c), NEW x \in CalleeOwns(c)
  PROVE  /\ x \in Int /\ ~(x >= 0) /\ (~c.va => x < sp)
         /\ \A i : Own(i) => x \notin FrameBytes(i)
  <1>1. /\ Settled /\ StackSize \in Nat /\ sp \in Int /\ sp <= -StackSize
        /\ DOMAIN mem = (-MemBelow)..MemHigh /\ MemBelow \in Nat /\ MemHigh \in Nat
        /\ RegSize \in Nat \ {0} /\ NumArgRegs \in Nat
    BY ActiveFacts, ReachFacts, WordAssumption, RegAssumption
  <1>2. /\ x \in DOMAIN mem
        /\ x < sp \/ (c.va /\ x \in (sp + RegSize)..(sp + FirstStackArgLoc(TRUE) - 1))
    BY DEF CalleeOwns
  <1>3. x \in Int
    BY <1>1, <1>2
  <1>4. ASSUME NEW i, Own(i)
        PROVE  /\ Start(i) \in Nat
               /\ FrameBytes(i) \subseteq (Start(i) - StackSize)..(-1)
    <2>1. FrameBytes(i) \subseteq (-StackSize)..(-1) /\ Start(i) \in Nat /\ End(i) \in Int
      BY <1>1, <1>4, FrameBytesFacts DEF Own
    <2> QED
      BY <1>1, <2>1 DEF FrameBytes
  <1>5. CASE x < sp
    <2>1. x < -StackSize /\ ~(x >= 0)
      BY <1>1, <1>3, <1>5
    <2>2. ASSUME NEW i, Own(i) PROVE x \notin FrameBytes(i)
      <3>1. Start(i) \in Nat /\ (x \in FrameBytes(i) => x >= Start(i) - StackSize)
        BY <1>4, <2>2
      <3>2. x < Start(i) - StackSize
        BY <1>1, <1>3, <2>1, <3>1
      <3> QED
        BY <1>1, <1>3, <3>1, <3>2
    <2> QED
      BY <1>3, <1>5, <2>1, <2>2
  <1>6. CASE ~(x < sp)
    <2>1. c.va /\ x \in (sp + RegSize)..(sp + FirstStackArgLoc(TRUE) - 1)
      BY <1>2, <1>6
    <2>2. PICK h : h = -c.base
      OBVIOUS
    <2>3. /\ c.base > 0 /\ Objects[h].kind = "out" /\ Objects[h].off = RegSize * (NumArgRegs - 1)
          /\ c.base \in Nat /\ c.base + StackWords(c.n) <= NumFixed /\ c.n \in Nat
      BY <2>1, <2>2 DEF CallFacts
    <2>4. StackWords(c.n) \in Nat /\ NumFixed \in Nat /\ NumObjs \in Nat
      BY <2>3, WordCounts, <1>1 DEF Settled, FrameInv, IInv, TypeOK
    <2>5. h \in FrameIndices /\ h < 0
      BY <2>2, <2>3, <2>4 DEF FrameIndices
    <2>6. Objects[h].size = RegSize /\ InFrame(h)
      BY <1>1, <2>3, <2>5 DEF Settled, FrameInv, IInv, LayoutInv, FixedInv, InFrame, DeadSize
    <2>7. End(h) = RegSize * (NumArgRegs - 1) + RegSize /\ End(h) <= StackSize
      BY <1>1, <2>3, <2>5, <2>6, FinalOffsets DEF Settled, FrameInv
    <2>8. FirstStackArgLoc(TRUE) = RegSize * NumArgRegs
      BY DEF FirstStackArgLoc
    <2>9. RegSize * (NumArgRegs - 1) + RegSize = RegSize * NumArgRegs /\ RegSize * NumArgRegs \in Nat
      BY <1>1
    <2>10. PICK e \in Nat : e = End(h) /\ e = FirstStackArgLoc(TRUE) /\ e <= StackSize
      BY <2>7, <2>8, <2>9
    <2>11. PICK z \in Int, S \in Nat, y \in Int : z = sp /\ S = StackSize /\ y = x
      BY <1>1, <1>3
    <2>12. x <= (-StackSize + e) - 1 /\ ~(x >= 0)
      <3>1. y \in (z + RegSize)..(z + e - 1)
        BY <2>1, <2>10, <2>11
      <3>2. z <= -S /\ e <= S
        BY <1>1, <2>10, <2>11
      <3>3. y <= (-S + e) - 1 /\ ~(y >= 0)
        BY <1>1, <3>1, <3>2
      <3> QED
        BY <2>11, <3>3
    <2>13. ASSUME NEW i, Own(i) PROVE x \notin FrameBytes(i)
      <3>1. Start(i) \in Nat /\ (x \in FrameBytes(i) => x >= Start(i) - StackSize)
        BY <1>4, <2>13
      <3>2. i # h
        BY <2>3, <2>13 DEF Own
      <3>3. e <= Start(i)
        BY <1>1, <2>3, <2>5, <2>6, <2>10, <2>13, <3>2, OwnBytes
      <3>4. x < Start(i) - StackSize
        BY <1>1, <1>3, <2>12, <3>1, <3>3
      <3> QED
        BY <1>1, <1>3, <3>1, <3>4
    <2> QED
      BY <1>3, <1>6, <2>1, <2>12, <2>13
  <1> QED
    BY <1>5, <1>6

LEMMA CalleeStep ==
  ASSUME Ready, FrameFits', CallsInv', NEW c \in pending, RunCallee(c)
  PROVE  RunInv'
  <1>1. /\ mode = "calling" /\ mode' = "body" /\ pending' = {}
        /\ mem' = [x \in DOMAIN mem |-> IF x \in CalleeOwns(c) THEN CalleeValue ELSE mem[x]]
        /\ UNCHANGED <<vars, calls, sp, fp, csr, written, dyn, atLive>>
    BY DEF RunCallee
  <1>2. Active /\ Settled /\ pass = "done" /\ CallFacts(c) /\ c \in calls /\ hasCalls
    BY <1>1, ReadySettled DEF Active, Ready, RunInv, ModeInv, InActivation, CallsInv, CallFacts
  <1>3. /\ ModeInv /\ RegisterInv /\ BaseInv /\ SlotsKept /\ TransientInv /\ ValueInv
        /\ DOMAIN mem = (-MemBelow)..MemHigh
    BY <1>1 DEF Ready, RunInv, ModeInv
  <1>4. \A x \in CalleeOwns(c) : /\ x \in Int /\ ~(x >= 0) /\ (~c.va => x < sp)
                                 /\ \A i : Own(i) => x \notin FrameBytes(i)
    BY <1>2, CalleeBytes
  <1>5. ModeInv'
    BY <1>1, <1>2, <1>3, SameFrame DEF ModeInv, Modes
  <1>6. RegisterInv'
    BY <1>1, <1>3, SameFrame DEF RegisterInv, CallerCSR
  <1>7. BaseInv'
    BY <1>1, <1>3, SameFrame DEF BaseInv, InActivation, CallerFP
  <1>8. SlotsKept'
    <2>1. PICK W : W = CalleeOwns(c)
      OBVIOUS
    <2>2. \A i : Own(i) => W \cap FrameBytes(i) = {}
      BY <1>4, <2>1
    <2>3. DOMAIN mem' = DOMAIN mem /\ \A x \in DOMAIN mem : x \notin W => mem'[x] = mem[x]
      BY <1>1, <2>1
    <2>4. NumObjs \notin FrameIndices /\ NumObjs \notin written
      BY <1>2, <1>3 DEF FrameIndices, Settled, FrameInv, IInv, TypeOK, SlotsKept, InActivation, Active
    <2> QED
      BY <1>1, <1>2, <2>2, <2>3, <2>4, BodyKeeps
  <1>9. ValueInv'
    BY <1>1, <1>3, SameFrame, ValuesDiffer DEF ValueInv, ObjectValue
  <1>10. CallerInv'
    <2>1. DOMAIN mem' = DOMAIN mem /\ \A x \in DOMAIN mem : x >= 0 => mem'[x] = mem[x]
      BY <1>1, <1>4
    <2> QED
      BY <1>1, <1>2, <2>1, CallerKept
  <1>11. TransientInv'
    <2>1. AllocaKeepsValues'
      <3> SUFFICES ASSUME \A d \in calls : ~d.va PROVE AllocaKeepsValues'
        BY <1>1 DEF AllocaKeepsValues
      <3> ~c.va
        BY <1>2
      <3>1. \A x \in dyn[1]..(dyn[1] + dyn[2] - 1) : mem[x] = DynValue
        BY <1>1, <1>3 DEF TransientInv, AllocaKeepsValues
      <3>2. \A x \in dyn[1]..(dyn[1] + dyn[2] - 1) : x \in DOMAIN mem /\ ~(x < sp)
        <4>1. sp \in Int /\ StackSize \in Nat
          BY <1>2, ActiveFacts, ReachFacts
        <4> QED
          BY <1>2, <4>1, DynBytes
      <3>3. \A x \in dyn[1]..(dyn[1] + dyn[2] - 1) : mem'[x] = DynValue
        BY <1>1, <1>4, <3>1, <3>2
      <3> QED
        BY <1>1, <3>3 DEF AllocaKeepsValues, DynValue
    <2> QED
      BY <1>1, <2>1 DEF TransientInv
  <1> QED
    BY <1>5, <1>6, <1>7, <1>8, <1>9, <1>10, <1>11 DEF RunInv

(***************************************************************************)
(* The return.                                                             *)
(***************************************************************************)
LEMMA ReadWord ==
  ASSUME NEW m, NEW a \in Int, NEW n \in Nat \ {0}, NEW v,
         \A x \in a..(a + n - 1) : x \in DOMAIN m /\ m[x] = v
  PROVE  Read(m, a, n) = v
  <1>1. a \in a..(a + n - 1)
    OBVIOUS
  <1>2. a \in DOMAIN m /\ m[a] = v
    BY <1>1
  <1> QED
    BY <1>2 DEF Read

\* A load from a slot gives what the slot holds.
LEMMA ReadObject ==
  ASSUME Active, NEW i \in FrameIndices, InFrame(i), Objects[i].size = RegSize,
         NEW v, Holds(FrameBytes(i), v)
  PROVE  Read(mem, Addr(i, 0), RegSize) = v
  <1>1. /\ Start(i) \in Nat /\ End(i) = Start(i) + RegSize /\ End(i) <= StackSize
        /\ FrameBytes(i) \subseteq DOMAIN mem
    BY ActiveFacts, FrameBytesFacts, FrameBytesApart
  <1>2. StackSize \in Nat /\ StackSize <= Reach /\ Reach \in Nat /\ RegSize \in Nat \ {0}
    BY ActiveFacts, ReachFacts, WordAssumption
  <1>3. FrameOffset(i) = Start(i) /\ FrameOffset(i) + 0 < Reach /\ FrameOffset(i) + 0 = Start(i)
    BY <1>1, <1>2 DEF Start
  <1>4. Addr(i, 0) = Start(i) - StackSize
    <2>1. Addr(i, 0) = FrameOffset(i) + 0 - StackSize
      BY <1>1, <1>3, ActiveFacts, AddrFacts
    <2>2. FrameOffset(i) + (0 - StackSize) = Start(i) - StackSize
      BY <1>1, <1>2, <1>3
    <2> QED
      BY <2>1, <2>2
  <1>5. PICK a \in Int : a = Start(i) - StackSize
    BY <1>1, <1>2
  <1>6. FrameBytes(i) = a..(a + RegSize - 1)
    <2>1. End(i) - StackSize - 1 = a + RegSize - 1
      BY <1>1, <1>2, <1>5
    <2> QED
      BY <1>5, <2>1 DEF FrameBytes
  <1>7. \A x \in a..(a + RegSize - 1) : x \in DOMAIN mem /\ mem[x] = v
    BY <1>1, <1>6 DEF Holds
  <1>8. Read(mem, a, RegSize) = v
    <2>1. a \in a..(a + RegSize - 1)
      BY <1>2, <1>5
    <2>2. a \in DOMAIN mem /\ mem[a] = v
      BY <1>7, <2>1
    <2> QED
      BY <1>7, <2>2 DEF Read
  <1> QED
    BY <1>4, <1>5, <1>8

LEMMA RestoreStep == Ready /\ FrameFits' /\ CallsInv' /\ RestoreRegisters => RunInv'
  <1> SUFFICES ASSUME Ready, FrameFits', CallsInv', RestoreRegisters PROVE RunInv'
    OBVIOUS
  <1>1. /\ mode = "body" /\ mode' = "epilogue" /\ ~atLive
        /\ csr' = [k \in 1..NumCSRs |->
               IF k <= maxCS - minCS + 1
                 THEN Read(mem, Addr(minCS + k - 1, 0), RegSize) ELSE csr[k]]
        /\ UNCHANGED <<vars, calls, pending, sp, fp, ra, at, mem, written, dyn, atLive>>
    BY DEF RestoreRegisters
  <1>2. Active /\ Settled /\ pass = "done"
    BY <1>1, ReadySettled DEF Active, Ready, RunInv, ModeInv, InActivation
  <1>3. ModeInv /\ RegisterInv /\ BaseInv /\ SlotsKept /\ TransientInv /\ ValueInv
    BY DEF Ready, RunInv
  <1>4. ModeInv'
    BY <1>1, <1>2, <1>3, SameFrame DEF ModeInv, Modes
  <1>5. RegisterInv'
    <2>1. ASSUME NEW k \in 1..NumCSRs PROVE csr'[k] = CallerCSR(k)
      <3>1. SavedCSRs \in 0..NumCSRs /\ NumCSRs \in Nat /\ SavedCSRs = maxCS - minCS + 1
        BY <1>2, SlotFacts, RegAssumption DEF SavedCSRs
      <3>2. CASE k <= SavedCSRs
        <4>1. PICK i : i = minCS + k - 1
          OBVIOUS
        <4>2. k \in 1..SavedCSRs
          BY <3>1, <3>2
        <4>3. Own(i) /\ Objects[i].size = RegSize
          BY <1>2, <4>1, <4>2, SlotFacts
        <4>4. Holds(FrameBytes(i), CallerCSR(k))
          BY <1>1, <1>2, <1>3, <4>1, <4>2 DEF SlotsKept, Active
        <4>5. Read(mem, Addr(i, 0), RegSize) = CallerCSR(k)
          BY <1>2, <4>3, <4>4, ReadObject DEF Own
        <4> QED
          BY <1>1, <3>1, <3>2, <4>1, <4>5
      <3>3. CASE ~(k <= SavedCSRs)
        <4>1. k > SavedCSRs
          BY <3>1, <3>3
        <4>2. csr[k] = CallerCSR(k)
          BY <1>3, <4>1 DEF RegisterInv
        <4> QED
          BY <1>1, <3>1, <3>3, <4>2
      <3> QED
        BY <3>2, <3>3
    <2> QED
      BY <1>1, <2>1 DEF RegisterInv, CallerCSR
  <1>6. BaseInv'
    BY <1>1, <1>3, SameFrame DEF BaseInv, InActivation, CallerFP
  <1>7. SlotsKept'
    <2>1. NumObjs \notin FrameIndices /\ NumObjs \notin written
      BY <1>2, <1>3 DEF FrameIndices, Settled, FrameInv, IInv, TypeOK, SlotsKept, InActivation, Active
    <2> QED
      BY <1>1, <1>2, <2>1, BodyKeeps
  <1>8. ValueInv'
    BY <1>1, <1>3, SameFrame DEF ValueInv, ObjectValue
  <1>9. CallerInv'
    BY <1>1, <1>2, CallerKept
  <1>10. TransientInv'
    BY <1>1, <1>3 DEF ModeInv, TransientInv, AllocaKeepsValues
  <1> QED
    BY <1>4, <1>5, <1>6, <1>7, <1>8, <1>9, <1>10 DEF RunInv

\* emitEpilogue gives back SP, FP and RA.
LEMMA EpilogueEffect ==
  ASSUME Ready, RunEpilogue
  PROVE  sp' = 0 /\ fp' = CallerFP /\ ra' = CallerRA
  <1> DEFINE raAddr == EpilogueBase + (IF isInt(RAStackOffset) THEN ShortImm(RAStackOffset)
                                                               ELSE Materialize(RAStackOffset))
  <1>1. /\ mode = "epilogue"
        /\ fp' = IF ~hasFP THEN fp
                 ELSE IF Read(mem, EpilogueBase + ShortImm(FPStackOffset), RegSize) = SavedFP
                   THEN CallerFP ELSE WildFP
        /\ ra' = IF StackSize # 0 /\ hasCalls THEN Read(mem, raAddr, RegSize) ELSE ra
        /\ sp' = EpilogueBase + (IF isInt(StackSize) THEN ShortImm(StackSize)
                                                     ELSE Materialize(StackSize))
    BY DEF RunEpilogue
  <1>2. Active /\ Settled /\ pass = "done"
    BY <1>1, ReadySettled DEF Active, Ready, RunInv, ModeInv, InActivation
  <1>3. BaseInv /\ SlotsKept
    BY DEF Ready, RunInv
  <1>4. StackSize \in Nat /\ RegSize \in Nat \ {0}
    BY <1>2, ReachFacts, WordAssumption
  <1>5. EpilogueBase = -StackSize
    <2>1. CASE hasFP
      BY <1>2, <1>3, <2>1 DEF EpilogueBase, BaseInv, Active
    <2>2. CASE ~hasFP
      BY <1>2, <1>3, <2>2 DEF EpilogueBase, BaseInv, Active
    <2> QED
      BY <2>1, <2>2
  <1>6. sp' = 0
    <2>1. (IF isInt(StackSize) THEN ShortImm(StackSize) ELSE Materialize(StackSize)) = StackSize
      BY <1>2, SaveAddresses
    <2>2. sp' = -StackSize + StackSize
      BY <1>1, <1>5, <2>1
    <2> QED
      BY <1>4, <2>2
  <1>7. fp' = CallerFP
    <2>1. CASE ~hasFP
      <3>1. fp = CallerFP
        BY <1>2, <1>3, <2>1 DEF BaseInv, Active
      <3> QED
        BY <1>1, <2>1, <3>1, Zenon
    <2>2. CASE hasFP
      <3>1. PICK a : a = FPStackOffset - StackSize
        OBVIOUS
      <3>2. /\ Own(FPSlot) /\ FPStackOffset \in Nat /\ ShortImm(FPStackOffset) = FPStackOffset
            /\ FrameBytes(FPSlot) = a..(a + RegSize - 1)
        BY <1>2, <2>2, <3>1, SlotFacts, SaveAddresses
      <3>3. a \in Int /\ EpilogueBase + ShortImm(FPStackOffset) = a
        BY <1>4, <1>5, <3>1, <3>2
      <3>4. \A x \in a..(a + RegSize - 1) : x \in DOMAIN mem /\ mem[x] = SavedFP
        BY <1>2, <1>3, <2>2, <3>2, FrameBytesApart DEF SlotsKept, Holds, Own, Active
      <3>5. Read(mem, EpilogueBase + ShortImm(FPStackOffset), RegSize) = SavedFP
        BY <1>4, <3>3, <3>4, ReadWord
      <3> QED
        BY <1>1, <2>2, <3>5, Zenon
    <2> QED
      BY <2>1, <2>2
  <1>8. ra' = CallerRA
    <2>1. CASE ~hasCalls
      <3>1. ra = CallerRA
        BY <1>2, <1>3, <2>1 DEF SlotsKept, Active
      <3> QED
        BY <1>1, <2>1, <3>1, Zenon
    <2>2. CASE hasCalls
      <3>1. PICK a : a = RAStackOffset - StackSize
        OBVIOUS
      <3>2. /\ Own(RASlot) /\ RAStackOffset \in Nat /\ StackSize # 0
            /\ raAddr = EpilogueBase + RAStackOffset
            /\ FrameBytes(RASlot) = a..(a + RegSize - 1)
        BY <1>2, <2>2, <3>1, SlotFacts, SaveAddresses
      <3> HIDE DEF raAddr
      <3>3. a \in Int /\ raAddr = a
        BY <1>4, <1>5, <3>1, <3>2
      <3>4. \A x \in a..(a + RegSize - 1) : x \in DOMAIN mem /\ mem[x] = CallerRA
        BY <1>2, <1>3, <2>2, <3>2, FrameBytesApart DEF SlotsKept, Holds, Own, Active
      <3>5. Read(mem, raAddr, RegSize) = CallerRA
        BY <1>4, <3>3, <3>4, ReadWord
      <3> QED
        BY <1>1, <2>2, <3>2, <3>5, Zenon
    <2> QED
      BY <2>1, <2>2
  <1> QED
    BY <1>6, <1>7, <1>8

LEMMA EpilogueStep == Ready /\ FrameFits' /\ CallsInv' /\ RunEpilogue => RunInv'
  <1> SUFFICES ASSUME Ready, FrameFits', CallsInv', RunEpilogue PROVE RunInv'
    OBVIOUS
  <1>1. /\ mode = "epilogue" /\ mode' = "returned"
        /\ UNCHANGED <<vars, calls, pending, csr, mem, written, dyn, atLive>>
    BY DEF RunEpilogue
  <1>2. Active /\ pass = "done"
    BY <1>1, ReadySettled DEF Active, Ready, RunInv, ModeInv, InActivation
  <1>3. ModeInv /\ RegisterInv /\ ValueInv
    BY DEF Ready, RunInv
  <1>4. ModeInv'
    BY <1>1, <1>2, <1>3, SameFrame DEF ModeInv, Modes
  <1>5. RegisterInv'
    BY <1>1, <1>3, EpilogueEffect DEF RegisterInv, CallerCSR, CallerFP, CallerRA
  <1>6. BaseInv' /\ SlotsKept'
    BY <1>1 DEF BaseInv, SlotsKept, InActivation
  <1>7. ValueInv'
    BY <1>1, <1>3, SameFrame DEF ValueInv, ObjectValue
  <1>8. CallerInv'
    BY <1>1, <1>2, CallerKept
  <1>9. TransientInv'
    BY <1>1, <1>3 DEF ModeInv, TransientInv, AllocaKeepsValues
  <1> QED
    BY <1>4, <1>5, <1>6, <1>7, <1>8, <1>9 DEF RunInv

(***************************************************************************)
(* The invariant.                                                          *)
(***************************************************************************)
LEMMA RunStart == RunInit => RunInv
  <1> SUFFICES ASSUME RunInit PROVE RunInv
    OBVIOUS
  <1>1. /\ calls = {} /\ mode = "compile" /\ pending = {}
        /\ sp = 0 /\ fp = CallerFP /\ ra = CallerRA
        /\ csr = [k \in 1..NumCSRs |-> CallerCSR(k)]
        /\ written = {} /\ dyn = <<0, 0>> /\ atLive = FALSE
    BY DEF RunInit
  <1>2. CallsInv /\ ModeInv
    BY <1>1 DEF CallsInv, ModeInv, Modes
  <1>3. RegisterInv
    BY <1>1 DEF RegisterInv
  <1>4. BaseInv /\ SlotsKept /\ ValueInv
    BY <1>1 DEF BaseInv, SlotsKept, ValueInv, InActivation
  <1>5. CallerInv /\ TransientInv
    BY <1>1 DEF CallerInv, CallerFrameIntact, TransientInv, AllocaKeepsValues
  <1> QED
    BY <1>2, <1>3, <1>4, <1>5 DEF RunInv

LEMMA RunStutter == RunInv /\ UNCHANGED allVars => RunInv'
  <1> SUFFICES ASSUME RunInv, UNCHANGED allVars PROVE RunInv'
    OBVIOUS
  <1>1. UNCHANGED vars /\ UNCHANGED runVars
    BY DEF allVars
  <1>2. UNCHANGED <<calls, mode, pending, sp, fp, ra, at, csr, mem, written, dyn, atLive>>
    BY <1>1 DEF runVars
  <1>3. CallsInv' /\ ModeInv' /\ RegisterInv' /\ BaseInv'
    BY <1>1, <1>2, SameFrame DEF RunInv, CallsInv, CallFacts, ModeInv, RegisterInv, BaseInv,
      InActivation, OutObject, CallerCSR, CallerFP, CallerRA
  <1>4. SlotsKept'
    BY <1>1, <1>2 DEF RunInv, SlotsKept, InActivation, Holds, FrameBytes, Start, End, FrameOffset,
      FPSlot, RASlot, SaveSlots, SavedCSRs, hasFP, InFrame, FrameIndices, ObjectValue, CallerCSR,
      CallerRA, SavedFP, vars, mfiVars, fnVars, callVars, csVars, saveVars
  <1>5. ValueInv' /\ CallerInv'
    BY <1>1, <1>2, SameFrame DEF RunInv, ValueInv, CallerInv, CallerFrameIntact, Holds, EntryByte,
      PassedWords, ObjectValue, ArgWord
  <1>6. TransientInv'
    <2>1. ASSUME NEW c \in pending, NEW j \in 0..(StackWords(c.n) - 1)
          PROVE  Holds(FrameBytes(OutObject(c, j)), OutWord(j))'
      <3>1. Holds(FrameBytes(OutObject(c, j)), OutWord(j))
        BY <2>1 DEF RunInv, TransientInv
      <3>2. FrameBytes(OutObject(c, j))' = FrameBytes(OutObject(c, j))
        BY <1>1, SameFrame DEF FrameBytes, Start, End, FrameOffset, OutObject
      <3> QED
        BY <1>2, <3>1, <3>2 DEF Holds, OutWord
    <2>2. AllocaKeepsValues => AllocaKeepsValues'
      BY <1>2 DEF AllocaKeepsValues, DynValue
    <2> QED
      BY <1>2, <2>1, <2>2 DEF RunInv, TransientInv
  <1> QED
    BY <1>3, <1>4, <1>5, <1>6 DEF RunInv

LEMMA RunStep == Ready /\ FrameFits' /\ [RunNext]_allVars => RunInv'
  <1> SUFFICES ASSUME Ready, FrameFits', [RunNext]_allVars PROVE RunInv'
    OBVIOUS
  <1>1. CallsInv'
    BY CallsNext DEF Ready, RunInv
  <1>2. CASE Compile
    BY <1>1, <1>2, CompileStep
  <1>3. CASE Enter
    BY <1>1, <1>3, EnterStep
  <1>4. CASE RunPrologue
    BY <1>1, <1>4, PrologueStep
  <1>5. CASE SpillRegisters
    BY <1>1, <1>5, SpillStep
  <1>6. CASE Body
    BY <1>1, <1>6, StoreLocalStep, AllocaStep, ATStep, PassStep, CalleeStep DEF Body
  <1>7. CASE RestoreRegisters
    BY <1>1, <1>7, RestoreStep
  <1>8. CASE RunEpilogue
    BY <1>1, <1>8, EpilogueStep
  <1>9. CASE UNCHANGED allVars
    BY <1>9, RunStutter DEF Ready
  <1> QED
    BY <1>2, <1>3, <1>4, <1>5, <1>6, <1>7, <1>8, <1>9 DEF RunNext, Run, Returned

\* The inductive invariant, for every frame that the immediates reach.
THEOREM RunInvHolds == RunSpec /\ []FrameFits => []RunInv
  <1>1. RunInit => RunInv
    BY RunStart
  <1>2. FrameInv /\ FrameFits /\ FrameFits' /\ RunInv /\ [RunNext]_allVars => RunInv'
    BY RunStep DEF Ready
  <1> QED
    BY <1>1, <1>2, RunFrame, PTL DEF RunSpec

(***************************************************************************)
(* What it says of the activation.                                         *)
(***************************************************************************)
LEMMA ReadyAlways == RunSpec /\ []FrameFits => []Ready
  BY RunFrame, RunInvHolds, PTL DEF Ready

LEMMA ReadyActive == Ready /\ InActivation => Active
  BY ReadySettled DEF Ready, RunInv, ModeInv, Active, InActivation

\* emitPrologue, the spills and restores, and emitEpilogue: a function returns
\* with SP, FP, RA and every callee-saved register as they were when it was
\* called, whatever it stored, allocated and called in between.
THEOREM ReturnHolds == RunSpec /\ []FrameFits => []ReturnRestoresCaller
  <1>1. RunInv => ReturnRestoresCaller
    BY DEF RunInv, RegisterInv, ReturnRestoresCaller
  <1> QED
    BY <1>1, RunInvHolds, PTL

\* eliminateFrameIndex: a local holds what the body stored to it, whatever else
\* is stored, allocated or called, and wherever SP has gone.
THEOREM LocalsHold == RunSpec /\ []FrameFits => []LocalsKeepValues
  <1>1. ASSUME Ready PROVE LocalsKeepValues
    <2> SUFFICES ASSUME mode \in {"body", "calling"}, NEW i \in written, NEW x \in ObjectBytes(i)
                 PROVE  mem[x] = ObjectValue(i)
      BY DEF LocalsKeepValues
    <2>1. Active /\ SlotsKept /\ InActivation
      BY <1>1, ReadyActive DEF Ready, RunInv, InActivation
    <2>2. i \in FrameIndices /\ InFrame(i) /\ Holds(FrameBytes(i), ObjectValue(i))
      BY <2>1 DEF SlotsKept
    <2> QED
      BY <2>1, <2>2, FrameBytesApart DEF Holds
  <1> QED
    BY <1>1, ReadyAlways, PTL

\* No store of the function or of the functions it calls reaches the frame of
\* its caller, but for the homes of a variadic function's register arguments.
THEOREM CallerFrameHolds == RunSpec /\ []FrameFits => []CallerFrameIntact
  <1>1. RunInv => CallerFrameIntact
    BY DEF RunInv, CallerInv
  <1> QED
    BY <1>1, RunInvHolds, PTL

\* ExpandDYNAMIC_STACKALLOC: as long as no call is variadic, the block of a
\* variable sized alloca keeps its contents.
THEOREM AllocaHolds ==
  RunSpec /\ []FrameFits => []AllocaKeepsValues
  <1>1. RunInv => AllocaKeepsValues
    BY DEF RunInv, TransientInv
  <1> QED
    BY <1>1, RunInvHolds, PTL

\* LowerCall and LowerFormalArguments: as long as there was no variable sized
\* alloca, a callee finds its stack arguments at FirstStackArgLoc above SP.
THEOREM CalleeHolds ==
  RunSpec /\ []FrameFits => [](dyn = <<0, 0>> => CalleeFindsArguments)
  <1>1. ASSUME Ready PROVE dyn = <<0, 0>> => CalleeFindsArguments
    <2> SUFFICES ASSUME dyn = <<0, 0>>, NEW c \in pending, NEW j \in 0..(StackWords(c.n) - 1)
                 PROVE  Read(mem, sp + FirstStackArgLoc(c.va) + LocMemOffset(j), RegSize) = OutWord(j)
      BY DEF CalleeFindsArguments
    <2>1. InActivation /\ RunInv
      BY <1>1 DEF Ready, RunInv, ModeInv, InActivation
    <2>2. Active /\ Settled /\ CallFacts(c)
      BY <1>1, <2>1, ReadyActive DEF Active, RunInv, CallsInv
    <2>3. sp = -StackSize
      BY <2>1 DEF RunInv, BaseInv
    <2>4. PICK F, r, S : F = FirstStackArgLoc(c.va) /\ r = RegSize * j /\ S = StackSize
      OBVIOUS
    <2>5. /\ OutObject(c, j) \in FrameIndices /\ InFrame(OutObject(c, j))
          /\ F \in Nat /\ r \in Nat /\ S \in Nat /\ RegSize \in Nat \ {0}
          /\ FrameBytes(OutObject(c, j)) = (F + r - S)..(F + r - S + RegSize - 1)
      BY <2>2, <2>4, OutFacts, ReachFacts, WordAssumption
    <2>6. PICK a \in Int : a = (F + r) - S
      BY <2>5
    <2>7. sp + FirstStackArgLoc(c.va) + LocMemOffset(j) = a
      BY <2>3, <2>4, <2>5, <2>6 DEF LocMemOffset
    <2>8. FrameBytes(OutObject(c, j)) = a..(a + RegSize - 1)
      BY <2>5, <2>6
    <2>9. \A x \in FrameBytes(OutObject(c, j)) : x \in DOMAIN mem /\ mem[x] = OutWord(j)
      BY <2>1, <2>2, <2>5, FrameBytesApart DEF RunInv, TransientInv, Holds
    <2>10. Read(mem, a, RegSize) = OutWord(j)
      BY <2>5, <2>8, <2>9, ReadWord
    <2> QED
      BY <2>7, <2>10
  <1> QED
    BY <1>1, ReadyAlways, PTL

(***************************************************************************)
(* Incoming arguments.                                                     *)
(***************************************************************************)
\* A stack word that the caller passed.
LEMMA EntryWord ==
  ASSUME Settled, NEW j \in Nat, NumArgRegs + j < PassedWords, NEW F, F = FirstStackArgLoc(isVarArg),
         NEW x \in (F + RegSize * j)..(F + RegSize * j + RegSize - 1)
  PROVE  x \in F..MemHigh /\ EntryByte(x) = ArgWord(NumArgRegs + j)
  <1>1. /\ F \in Nat /\ RegSize \in Nat \ {0} /\ NumArgRegs \in Nat /\ PassedWords \in Nat
        /\ RegSize * j \in Nat /\ MemHigh \in Nat
        /\ F + LocMemOffset(StackWords(PassedWords)) <= MemHigh + 1
    BY PassedFits, WordAssumption, RegAssumption, MemAssumption
  <1>2. StackWords(PassedWords) = PassedWords - NumArgRegs
    BY <1>1 DEF StackWords
  <1>3. RegSize * j + RegSize <= RegSize * (PassedWords - NumArgRegs)
    <2>1. PICK d \in Nat : d = (PassedWords - NumArgRegs) - (j + 1)
      BY <1>1
    <2>2. RegSize * d >= 0
      BY <1>1, <2>1
    <2>3. PassedWords - NumArgRegs = j + 1 + d
      BY <1>1, <2>1
    <2>4. RegSize * (j + 1 + d) = RegSize * j + RegSize + RegSize * d
      BY <1>1
    <2> QED
      BY <1>1, <2>1, <2>2, <2>3, <2>4
  <1>4. RegSize * (PassedWords - NumArgRegs) \in Nat
    BY <1>1
  <1>5. x \in F..MemHigh
    BY <1>1, <1>2, <1>3, <1>4 DEF LocMemOffset
  <1>6. (x - F) \div RegSize = j
    <2>1. PICK r : r = x - (F + RegSize * j)
      OBVIOUS
    <2>2. r \in 0..(RegSize - 1) /\ x - F = j * RegSize + r
      BY <1>1, <2>1
    <2>3. PICK b \in Nat \ {0}, q \in Int, s \in Int : b = RegSize /\ q = j /\ s = r
      BY <1>1, <2>2
    <2>4. (q * b + s) \div b = q
      <3>1. s \in 0..(b - 1)
        BY <2>2, <2>3
      <3> QED
        BY <3>1, DivModUnique
    <2> QED
      BY <2>2, <2>3, <2>4
  <1>7. ~(x < 0) /\ x >= F
    BY <1>1, <1>5
  <1> QED
    BY <1>5, <1>6, <1>7 DEF EntryByte

\* LowerFormalArguments: a named argument on the stack is the word that the
\* caller passed, as long as the body can read it.
THEOREM ArgumentsHold == RunSpec /\ []FrameFits => []ArgumentsArrive
  <1>1. ASSUME Ready PROVE ArgumentsArrive
    <2> SUFFICES ASSUME mode \in {"body", "calling"}, NEW j \in 0..(StackWords(numFormals) - 1)
                 PROVE  Read(mem, Addr(-(j + 1), 0), RegSize) = ArgWord(NumArgRegs + j)
      BY DEF ArgumentsArrive
    <2>1. Active /\ Settled /\ AtBottom /\ RunInv /\ DOMAIN mem = (-MemBelow)..MemHigh
      BY <1>1, ReadyActive, ActiveFacts DEF Ready, InActivation, Active
    <2>2. PICK F, n, S, w : F = FirstStackArgLoc(isVarArg) /\ n = numFormals /\ S = StackSize
                            /\ w = RegSize * j
      OBVIOUS
    <2>3. /\ n \in Nat /\ F \in Nat /\ S \in Nat /\ RegSize \in Nat \ {0} /\ NumArgRegs \in Nat
          /\ StackWords(n) \in Nat /\ j \in Nat /\ w \in Nat
          /\ Reach = S + F + LocMemOffset(StackWords(n)) /\ pass = "done"
          /\ MemBelow \in Nat /\ MemHigh \in Nat
      <3>1. n \in Nat /\ RegSize \in Nat \ {0} /\ NumArgRegs \in Nat /\ j \in Nat
        BY <2>1, <2>2, WordAssumption, RegAssumption DEF Settled, FrameInv, IInv, TypeOK
      <3>2. StackWords(n) \in Nat
        BY <3>1 DEF StackWords
      <3>3. w \in Nat
        BY <2>2, <3>1
      <3> QED
        BY <2>1, <2>2, <3>1, <3>2, <3>3, ReachFacts, MemAssumption DEF Settled
    <2>4. NumArgRegs + j < n /\ StackWords(n) = n - NumArgRegs
      BY <2>2, <2>3 DEF StackWords
    <2>5. FrameOffset(-(j + 1)) = S + F + w
      BY <2>1, <2>2, <2>3, LayoutIncoming
      DEF Settled, FrameInv, IncomingArgsWhereCallerPutThem, LocMemOffset
    <2>6. w < LocMemOffset(StackWords(n)) /\ LocMemOffset(StackWords(n)) \in Nat
      <3>1. PICK d \in Nat \ {0} : d = StackWords(n) - j
        BY <2>2, <2>3
      <3>2. RegSize * d \in Nat \ {0} /\ RegSize * StackWords(n) = w + RegSize * d
        <4>1. StackWords(n) = j + d
          BY <2>3, <3>1
        <4>2. RegSize * (j + d) = RegSize * j + RegSize * d
          BY <2>3
        <4>3. RegSize * d \in Nat /\ RegSize * d > 0
          BY <2>3, <3>1
        <4> QED
          BY <2>2, <4>1, <4>2, <4>3
      <3> QED
        BY <2>3, <3>2 DEF LocMemOffset
    <2>7. PICK i : i = -(j + 1)
      OBVIOUS
    <2>8. Addr(i, 0) = F + w
      <3>1. FrameOffset(i) \in Nat /\ FrameOffset(i) + 0 < Reach
        BY <2>3, <2>5, <2>6, <2>7
      <3>2. Addr(i, 0) = FrameOffset(i) + 0 - S
        BY <2>1, <2>2, <3>1, AddrFacts
      <3> QED
        BY <2>3, <2>5, <2>7, <3>2
    <2>9. PassedWords \in Nat /\ PassedWords >= n
      BY <2>2, <2>3, ArgAssumption DEF PassedWords, Larger
    <2>10. \A x \in (F + w)..(F + w + RegSize - 1) : x \in DOMAIN mem /\ mem[x] = ArgWord(NumArgRegs + j)
      <3> SUFFICES ASSUME NEW x \in (F + w)..(F + w + RegSize - 1)
                   PROVE  x \in DOMAIN mem /\ mem[x] = ArgWord(NumArgRegs + j)
        OBVIOUS
      <3>1. x \in F..MemHigh /\ EntryByte(x) = ArgWord(NumArgRegs + j)
        BY <2>1, <2>2, <2>3, <2>4, <2>9, EntryWord
      <3>2. mem[x] = EntryByte(x)
        BY <2>1, <2>2, <3>1 DEF RunInv, CallerInv, CallerFrameIntact
      <3> QED
        BY <2>1, <2>3, <3>1, <3>2
    <2>11. Read(mem, F + w, RegSize) = ArgWord(NumArgRegs + j)
      BY <2>3, <2>10, ReadWord
    <2> QED
      BY <2>7, <2>8, <2>11
  <1> QED
    BY <1>1, ReadyAlways, PTL

\* LowerFormalArguments of a variadic function with unnamed argument registers:
\* from the homes that it fills into the stack words that its caller wrote, the
\* unnamed arguments follow one another.
THEOREM VaListHolds == RunSpec /\ []FrameFits => []VaListInOrder
  <1>1. ASSUME Ready PROVE VaListInOrder
    <2> SUFFICES ASSUME mode \in {"body", "calling"}, VarArgHomes(numFormals, isVarArg) > 0
                 PROVE  UnnamedInOrder
      BY DEF VaListInOrder
    <2>1. Active /\ Settled /\ AtBottom /\ RunInv /\ DOMAIN mem = (-MemBelow)..MemHigh
      BY <1>1, ReadyActive, ActiveFacts DEF Ready, InActivation, Active
    <2>2. PICK n, S : n = numFormals /\ S = StackSize
      OBVIOUS
    <2>3. /\ n \in Nat /\ isVarArg \in BOOLEAN /\ S \in Nat /\ RegSize \in Nat \ {0}
          /\ NumArgRegs \in Nat /\ MemBelow \in Nat /\ MemHigh \in Nat
          /\ NumFixed \in Nat /\ NumObjs \in Nat
      <3>1. n \in Nat /\ isVarArg \in BOOLEAN /\ NumFixed \in Nat /\ NumObjs \in Nat
        BY <2>1, <2>2 DEF Settled, FrameInv, IInv, TypeOK
      <3> QED
        BY <2>1, <2>2, <3>1, ReachFacts, WordAssumption, RegAssumption, MemAssumption
    <2>4. /\ StackWords(n) = 0 /\ n + VarArgHomes(n, isVarArg) = NumArgRegs
          /\ VarArgHomes(n, isVarArg) \in Nat /\ n < NumArgRegs
          /\ FirstStackArgLoc(isVarArg) = RegSize * NumArgRegs
      BY <2>2, <2>3 DEF VarArgHomes, StackWords, FirstStackArgLoc
    <2>5. PICK v : v = VarArgsFrameIndex
      OBVIOUS
    <2>6. v = -1 /\ v \in FrameIndices
      <3>1. /\ VarArgsFrameIndex = -(StackWords(n) + 1)
            /\ StackWords(n) + VarArgHomes(n, isVarArg) <= NumFixed
        BY <2>1, <2>2 DEF Settled, FrameInv, IInv, LayoutInv, FormalInv
      <3> QED
        BY <2>2, <2>3, <2>4, <2>5, <3>1 DEF FrameIndices
    <2>7. RegSize * n \in Nat /\ RegSize * NumArgRegs \in Nat /\ RegSize * n < RegSize * NumArgRegs
      <3>1. PICK d \in Nat \ {0} : NumArgRegs = n + d
        BY <2>2, <2>3, <2>4
      <3>2. RegSize * (n + d) = RegSize * n + RegSize * d /\ RegSize * d \in Nat /\ RegSize * d > 0
        BY <2>3
      <3>3. RegSize * n \in Nat
        BY <2>3
      <3> QED
        BY <3>1, <3>2, <3>3
    <2>8. Addr(v, 0) = RegSize * n
      <3>1. FrameOffset(v) = S + RegSize * n
        <4>1. 0 \in 0..(VarArgHomes(n, isVarArg) - 1)
          BY <2>2, <2>4
        <4>2. FrameOffset(VarArgsFrameIndex - 0) = S + RegSize * (n + 0)
          BY <2>1, <2>2, <4>1, LayoutIncoming
          DEF Settled, FrameInv, IncomingArgsWhereCallerPutThem
        <4>3. VarArgsFrameIndex - 0 = v /\ n + 0 = n
          BY <2>3, <2>5, <2>6
        <4> QED
          BY <4>2, <4>3
      <3>2. Reach >= S + RegSize * NumArgRegs /\ Reach \in Nat
        BY <2>1, <2>2, <2>3, <2>4, <2>7, ReachFacts
      <3>3. FrameOffset(v) \in Nat /\ FrameOffset(v) + 0 < Reach
        BY <2>3, <2>7, <3>1, <3>2
      <3>4. Addr(v, 0) = FrameOffset(v) + 0 - S
        BY <2>1, <2>2, <3>3, AddrFacts
      <3> QED
        BY <2>3, <2>7, <3>1, <3>4
    <2>9. ASSUME NEW k \in n..(PassedWords - 1)
          PROVE  Read(mem, Addr(v, 0) + RegSize * (k - n), RegSize) = ArgWord(k)
      <3>1. k \in Nat /\ k < PassedWords
        BY <2>1, <2>3, PassedFits
      <3>2. RegSize * k \in Nat /\ Addr(v, 0) + RegSize * (k - n) = RegSize * k
        <4>1. RegSize * n + RegSize * (k - n) = RegSize * k
          BY <2>3, <3>1
        <4>2. RegSize * k \in Nat
          BY <2>3, <3>1
        <4> QED
          BY <2>8, <4>1, <4>2
      <3>3. ASSUME NEW x \in (RegSize * k)..(RegSize * k + RegSize - 1)
            PROVE  x \in DOMAIN mem /\ mem[x] = ArgWord(k)
        <4>1. CASE k < NumArgRegs
          <5>1. k \in numFormals..(NumArgRegs - 1)
            BY <2>2, <2>3, <3>1, <4>1
          <5>2. x \in HomeWord(k)
            BY <3>3 DEF HomeWord
          <5>3. x \in 0..MemHigh
            BY <2>1, <5>1, <5>2, HomesFit
          <5>4. mem[x] = ArgWord(k)
            BY <2>1, <3>3, <5>1 DEF RunInv, CallerInv, Holds
          <5> QED
            BY <2>1, <2>3, <5>3, <5>4
        <4>2. CASE ~(k < NumArgRegs)
          <5>1. PICK j \in Nat : j = k - NumArgRegs
            BY <2>3, <3>1, <4>2
          <5>2. k = NumArgRegs + j /\ NumArgRegs + j < PassedWords
            BY <2>3, <3>1, <5>1
          <5>3. PICK F \in Nat : F = RegSize * NumArgRegs
            BY <2>7
          <5>4. RegSize * k = F + RegSize * j
            BY <2>3, <5>2, <5>3
          <5>5. x \in (F + RegSize * j)..(F + RegSize * j + RegSize - 1)
            BY <3>3, <5>4
          <5>6. F = FirstStackArgLoc(isVarArg)
            BY <2>4, <5>3
          <5>7. x \in F..MemHigh /\ EntryByte(x) = ArgWord(NumArgRegs + j)
            BY <2>1, <5>2, <5>5, <5>6, EntryWord
          <5>8. mem[x] = EntryByte(x)
            BY <2>1, <5>6, <5>7 DEF RunInv, CallerInv, CallerFrameIntact
          <5>9. x \in DOMAIN mem
            BY <2>1, <2>3, <5>7
          <5> QED
            BY <5>2, <5>7, <5>8, <5>9
        <4> QED
          BY <4>1, <4>2
      <3>4. PICK a \in Int : a = RegSize * k
        BY <3>2
      <3>5. \A x \in a..(a + RegSize - 1) : x \in DOMAIN mem /\ mem[x] = ArgWord(k)
        BY <3>3, <3>4
      <3>6. Read(mem, a, RegSize) = ArgWord(k)
        BY <2>3, <3>5, ReadWord
      <3> QED
        BY <3>2, <3>4, <3>6
    <2> QED
      BY <2>2, <2>5, <2>6, <2>9 DEF UnnamedInOrder
  <1> QED
    BY <1>1, ReadyAlways, PTL

(***************************************************************************)
(* Types and alignment.                                                    *)
(***************************************************************************)
LEMMA MultipleSum ==
  ASSUME NEW a \in Nat \ {0}, NEW x \in Int, x % a = 0, NEW y \in Int, y % a = 0
  PROVE  (x + y) % a = 0 /\ (x - y) % a = 0 /\ (-y) % a = 0
  <1>1. PICK q \in Int : y = q * a
    <2>1. PICK p, r : p = y \div a /\ r = y % a
      OBVIOUS
    <2>2. p \in Int /\ y = p * a + r
      BY <2>1, DivMod
    <2>3. r = 0
      BY <2>1
    <2> HIDE <2>1
    <2>4. y = p * a
      BY <2>2, <2>3
    <2> QED
      BY <2>2, <2>4
  <1>2. (x + (q * a)) % a = x % a
    BY ModShift
  <1>3. PICK p \in Int : p = -q
    OBVIOUS
  <1>4. p * a = -(q * a) /\ q * a \in Int
    BY <1>3
  <1>5. (x + (p * a)) % a = x % a
    BY ModShift
  <1>6. x + (p * a) = x - y
    BY <1>1, <1>4
  <1>7. (0 + (p * a)) % a = 0
    <2>1. (p * a + 0) % a = 0
      BY DivModUnique
    <2>2. p * a + 0 = 0 + (p * a)
      BY <1>4
    <2> QED
      BY <2>1, <2>2
  <1>8. 0 + (p * a) = -y
    BY <1>1, <1>4
  <1> QED
    BY <1>1, <1>2, <1>5, <1>6, <1>7, <1>8

\* An alignment mask of a multiple of b is one of b.
LEMMA ModMultiple ==
  ASSUME NEW b \in Nat \ {0}, NEW a \in Nat \ {0}, a % b = 0, NEW x \in Int, x % b = 0
  PROVE  (x % a) % b = 0
  <1>1. PICK q \in Int : q = x \div a /\ x = q * a + (x % a)
    BY DivMod
  <1>2. PICK r \in Int : r = x % a /\ x = q * a + r
    <2>1. x % a \in Int
      BY DivMod
    <2> QED
      BY <1>1, <2>1
  <1>3. PICK k \in Int : a = k * b
    <2>1. PICK p, m : p = a \div b /\ m = a % b
      OBVIOUS
    <2>2. p \in Int /\ a = p * b + m
      BY <2>1, DivMod
    <2>3. m = 0
      BY <2>1
    <2> HIDE <2>1
    <2>4. a = p * b
      BY <2>2, <2>3
    <2> QED
      BY <2>2, <2>4
  <1>4. PICK p \in Int : p = q * k
    OBVIOUS
  <1>5. q * a = p * b
    <2>1. q * (k * b) = (q * k) * b
      OBVIOUS
    <2> QED
      BY <1>3, <1>4, <2>1
  <1>6. (r + (p * b)) % b = r % b
    BY ModShift
  <1>7. r + (p * b) = x
    BY <1>2, <1>5
  <1> QED
    BY <1>2, <1>6, <1>7

\* What RunTypeOK says beyond RunInv.
AlignInv ==
  /\ sp % StackAlign = 0
  /\ DOMAIN mem = (-MemBelow)..MemHigh
  /\ written \subseteq FrameIndices
  /\ atLive \in BOOLEAN

\* emitPrologue and the alloca expansion move SP by multiples of the alignment.
LEMMA AlignStep ==
  ASSUME Ready, RunInv', AlignInv, [RunNext]_allVars
  PROVE  AlignInv'
  <1>1. StackAlign \in Nat \ {0}
    BY WordAssumption
  <1>2. ASSUME pass = "done" PROVE StackSize \in Nat /\ (-StackSize) % StackAlign = 0
    <2>1. StackSize \in Nat /\ StackSize % StackAlign = 0
      BY <1>2 DEF Ready, FrameInv, SlotInv, IInv, TypeOK
    <2>2. 0 % StackAlign = 0
      <3>1. (0 * StackAlign + 0) % StackAlign = 0
        BY <1>1, DivModUnique
      <3>2. 0 * StackAlign + 0 = 0
        BY <1>1
      <3> QED
        BY <3>1, <3>2
    <2>3. (0 - StackSize) % StackAlign = 0
      <3>1. PICK a \in Nat \ {0}, x \in Int, y \in Int :
              a = StackAlign /\ x = 0 /\ y = StackSize /\ x % a = 0 /\ y % a = 0
        BY <1>1, <2>1, <2>2
      <3>2. (x - y) % a = 0
        BY <3>1, MultipleSum, ZenonT(40)
      <3> QED
        BY <3>1, <3>2
    <2>4. 0 - StackSize = -StackSize
      BY <2>1
    <2> QED
      BY <2>1, <2>3, <2>4
  <1>3. 0 % StackAlign = 0
    <2>1. (0 * StackAlign + 0) % StackAlign = 0
      BY <1>1, DivModUnique
    <2>2. 0 * StackAlign + 0 = 0
      BY <1>1
    <2> QED
      BY <2>1, <2>2
  <1>4. DOMAIN mem' = (-MemBelow)..MemHigh
    <2>1. CASE mode' # "compile"
      BY <2>1 DEF RunInv, ModeInv
    <2>2. CASE mode' = "compile"
      <3>1. UNCHANGED mem
        BY <2>2 DEF RunNext, Compile, EmitCall, Run, Body, Enter, RunPrologue, SpillRegisters,
          StoreLocal, DynamicAlloca, DefineAT, KillAT, PassArguments, RunCallee, RestoreRegisters,
          RunEpilogue, Returned, allVars, runVars
      <3> QED
        BY <3>1 DEF AlignInv
    <2> QED
      BY <2>1, <2>2
  <1>5. CASE Compile
    <2>1. mode = "compile" /\ mode' = "compile" /\ UNCHANGED <<sp, written, atLive>>
      <3>1. pass # "done"
        BY <1>5 DEF Compile, CompileOther, EmitCall, LowerCall, CreateStackObject, RemoveStackObject,
          LowerFormalArguments, VisitAlloca, Layout, CalculateCalleeSavedRegisters, SkipFixedObject,
          FixedDone, PlaceCalleeSaved, CalleeSavedDone, PlaceObject, SkipObject, SetStackSize,
          AdjustRigelStackFrame
      <3> QED
        BY <1>5, <3>1 DEF Compile, EmitCall, runVars, Ready, RunInv, ModeInv
    <2>2. written' = {}
      BY <2>1 DEF RunInv, ModeInv
    <2> QED
      BY <1>4, <2>1, <2>2 DEF AlignInv
  <1>6. ASSUME UNCHANGED <<vars, sp>>, written' \subseteq written \cup FrameIndices, atLive' \in BOOLEAN
        PROVE  AlignInv'
    BY <1>4, <1>6, SameFrame DEF AlignInv
  <1>7. CASE RunPrologue
    <2>1. UNCHANGED vars /\ UNCHANGED <<written, atLive>> /\ pass = "done" /\ sp' = -StackSize
      BY <1>7, PrologueEffect DEF RunPrologue, Ready, RunInv, ModeInv
    <2> QED
      BY <1>2, <1>4, <2>1, SameFrame DEF AlignInv
  <1>8. CASE RunEpilogue
    <2>1. UNCHANGED vars /\ UNCHANGED <<written, atLive>> /\ sp' = 0
      BY <1>8, EpilogueEffect DEF RunEpilogue
    <2> QED
      BY <1>3, <1>4, <2>1, SameFrame DEF AlignInv
  <1>9. ASSUME NEW i \in FrameIndices, NEW n \in DynSizes, DynamicAlloca(i, n)
        PROVE  AlignInv'
    <2> DEFINE a == Objects[i].align
               base == IF a > StackAlign THEN sp - ((EntrySP + sp) % a) ELSE sp
    <2>1. /\ UNCHANGED vars /\ UNCHANGED <<written, atLive>>
          /\ sp' = base - AlignUp(n, StackAlign) /\ mode = "body" /\ Objects[i].kind = "dynamic"
      BY <1>9 DEF DynamicAlloca
    <2>2. sp \in Int /\ sp % StackAlign = 0 /\ EntrySP \in Nat /\ EntrySP % StackAlign = 0 /\ n \in Nat
      BY <2>1, MemAssumption, AlignAssumption, ArgAssumption
      DEF AlignInv, Ready, RunInv, BaseInv, InActivation
    <2>3. a \in Nat \ {0} /\ (a > StackAlign => a % StackAlign = 0)
      BY <2>1, AlignAssumption DEF Ready, FrameInv, SlotInv, IInv, TypeOK, Object
    <2>4. PICK e \in Int : e = EntrySP + sp
      BY <2>2
    <2>5. e % StackAlign = 0
      <3>1. PICK b \in Nat \ {0}, x \in Int, y \in Int :
              b = StackAlign /\ x = EntrySP /\ y = sp /\ x % b = 0 /\ y % b = 0
        BY <1>1, <2>2
      <3>2. (x + y) % b = 0
        BY <3>1, MultipleSum
      <3> QED
        BY <2>4, <3>1, <3>2
    <2> HIDE DEF a
    <2>6. base \in Int /\ base % StackAlign = 0
      <3>1. CASE a > StackAlign
        <4>1. PICK m \in Int : m = e % a
          <5>1. e % a \in 0..(a - 1)
            BY <2>3, DivMod
          <5>2. e % a \in Int
            BY <2>3, <5>1
          <5> QED
            BY <5>2
        <4>2. m % StackAlign = 0
          BY <1>1, <2>3, <2>5, <3>1, <4>1, ModMultiple
        <4>3. (sp - m) % StackAlign = 0
          BY <1>1, <2>2, <4>2, MultipleSum
        <4>4. base = sp - m
          BY <2>4, <3>1, <4>1
        <4> QED
          BY <2>2, <4>1, <4>3, <4>4
      <3>2. CASE ~(a > StackAlign)
        BY <2>2, <3>2
      <3> QED
        BY <3>1, <3>2
    <2> HIDE DEF base
    <2>7. AlignUp(n, StackAlign) \in Int /\ AlignUp(n, StackAlign) % StackAlign = 0
      BY <1>1, <2>2, AlignUpBounds, AlignUpMultiple
    <2>8. sp' % StackAlign = 0
      BY <1>1, <2>1, <2>6, <2>7, MultipleSum
    <2> QED
      BY <1>4, <2>1, <2>8, SameFrame DEF AlignInv
  <1>10. CASE UNCHANGED allVars
    BY <1>6, <1>10 DEF allVars, runVars, AlignInv
  <1>11. CASE Run /\ ~RunPrologue /\ ~RunEpilogue
    BY <1>6, <1>9, <1>11 DEF Run, Body, Enter, SpillRegisters, StoreLocal, DefineAT, KillAT,
      PassArguments, RunCallee, RestoreRegisters, AlignInv
  <1> QED
    BY <1>5, <1>7, <1>8, <1>10, <1>11 DEF RunNext, Returned

\* The run-time state is well formed, SP always aligned.
THEOREM RunTypes == RunSpec /\ []FrameFits => []RunTypeOK
  <1>1. RunInit => AlignInv
    <2> SUFFICES ASSUME RunInit PROVE AlignInv
      OBVIOUS
    <2>1. sp = 0 /\ DOMAIN mem = (-MemBelow)..MemHigh /\ written = {} /\ atLive = FALSE
      BY DEF RunInit
    <2>2. 0 % StackAlign = 0
      <3>1. StackAlign \in Nat \ {0}
        BY WordAssumption
      <3>2. (0 * StackAlign + 0) % StackAlign = 0
        BY <3>1, DivModUnique
      <3>3. 0 * StackAlign + 0 = 0
        BY <3>1
      <3> QED
        BY <3>2, <3>3
    <2> QED
      BY <2>1, <2>2 DEF AlignInv
  <1>2. Ready /\ RunInv' /\ AlignInv /\ [RunNext]_allVars => AlignInv'
    BY AlignStep
  <1>3. Ready /\ AlignInv => RunTypeOK
    <2> SUFFICES ASSUME Ready, AlignInv PROVE RunTypeOK
      OBVIOUS
    <2>1. mode \in Modes /\ pending \subseteq calls /\ DOMAIN csr = 1..NumCSRs
      BY DEF Ready, RunInv, ModeInv, CallsInv, RegisterInv
    <2>2. sp \in Int /\ fp \in Int
      <3>1. CASE InActivation
        <4>1. StackSize \in Nat /\ CallerFP \in Int
          BY MemAssumption, WordAssumption DEF Ready, FrameInv, IInv, TypeOK, CallerFP
        <4>2. sp \in Int /\ fp = IF hasFP THEN -StackSize ELSE CallerFP
          BY <3>1 DEF Ready, RunInv, BaseInv
        <4>3. fp = -StackSize \/ fp = CallerFP
          BY <4>2, Zenon
        <4>4. -StackSize \in Int
          BY <4>1
        <4> QED
          BY <4>1, <4>2, <4>3, <4>4
      <3>2. CASE ~InActivation
        <4>1. sp = 0 /\ fp = CallerFP
          BY <3>2, <2>1 DEF Ready, RunInv, RegisterInv, InActivation, Modes
        <4> QED
          BY <4>1, MemAssumption, WordAssumption DEF CallerFP
      <3> QED
        BY <3>1, <3>2
    <2> QED
      BY <2>1, <2>2 DEF AlignInv, RunTypeOK
  <1> QED
    BY <1>1, <1>2, <1>3, ReadyAlways, RunInvHolds, PTL DEF RunSpec

(***************************************************************************)
(* The calling convention.                                                 *)
(***************************************************************************)
WrittenStore == [i \in Locals |-> IF i \in written THEN "set" ELSE "undef"]

\* A local's bytes hold its value if and only if the body has stored to it.
LEMMA StoreNow == Ready /\ InActivation => LocalStore = WrittenStore
  <1> SUFFICES ASSUME Ready, InActivation, NEW i \in Locals
               PROVE  (\A x \in ObjectBytes(i) : mem[x] = ObjectValue(i)) <=> i \in written
    BY DEF LocalStore, WrittenStore
  <1>1. Active /\ Settled /\ RunInv
    BY ReadyActive DEF Active
  <1>2. i \in FrameIndices /\ InFrame(i) /\ Objects[i].kind = "local"
    BY DEF Locals
  <1>3. ObjectBytes(i) = FrameBytes(i) /\ FrameBytes(i) \subseteq DOMAIN mem
    BY <1>1, <1>2, FrameBytesApart
  <1>4. i \in written => \A x \in ObjectBytes(i) : mem[x] = ObjectValue(i)
    BY <1>1, <1>3 DEF RunInv, SlotsKept, Holds
  <1>5. ASSUME \A x \in ObjectBytes(i) : mem[x] = ObjectValue(i) PROVE i \in written
    <2>1. PICK x : x \in FrameBytes(i)
      <3>1. /\ Start(i) \in Nat /\ Objects[i].size \in Nat /\ End(i) = Start(i) + Objects[i].size
            /\ StackSize \in Nat
        BY <1>1, <1>2, FrameBytesFacts, ReachFacts
      <3>2. Objects[i].size # 0
        BY <1>1, <1>2 DEF Settled, FrameInv, SlotInv
      <3>3. Start(i) - StackSize \in FrameBytes(i)
        BY <3>1, <3>2 DEF FrameBytes
      <3> QED
        BY <3>3
    <2>2. mem[x] = ObjectValue(i) /\ x \in DOMAIN mem
      BY <1>3, <1>5, <2>1
    <2> QED
      BY <1>1, <1>2, <2>2 DEF RunInv, ValueInv, InActivation
  <1> QED
    BY <1>4, <1>5

LEMMA StoreNext == Ready' /\ InActivation' => (LocalStore = WrittenStore)'
  BY StoreNow, PTL

\* The state of the calling convention, mode by mode.
Represented ==
  /\ mode \in {"compile", "prologue", "spill"} =>
       Phase = "idle" /\ Store = <<>> /\ Preserved = Context
  /\ mode \in {"body", "epilogue"} =>
       Phase = "running" /\ Store = WrittenStore /\ Preserved = Context
  /\ mode = "calling" => Phase = "calling" /\ Store = WrittenStore /\ Preserved = Context
  /\ mode = "returned" => Phase = "returned" /\ Store = <<>> /\ Preserved = Context

LEMMA RepresentedNow == Ready => Represented
  <1> SUFFICES ASSUME Ready PROVE Represented
    OBVIOUS
  <1>1. mode \in {"compile", "prologue", "spill"} =>
          Phase = "idle" /\ Store = <<>> /\ Preserved = Context
    BY DEF Phase, Store, Preserved
  <1>2. mode \in {"body", "calling", "epilogue"} => Store = WrittenStore /\ Preserved = Context
    BY StoreNow DEF Store, Preserved, InActivation
  <1>3. mode \in {"body", "epilogue"} => Phase = "running"
    BY DEF Phase
  <1>4. mode = "calling" => Phase = "calling"
    BY DEF Phase
  <1>5. mode = "returned" => Phase = "returned" /\ Store = <<>> /\ Preserved = Context
    <2> SUFFICES ASSUME mode = "returned" PROVE Phase = "returned" /\ Store = <<>> /\ Preserved = Context
      OBVIOUS
    <2>1. Phase = "returned" /\ Store = <<>>
      BY DEF Phase, Store
    <2>2. /\ sp = 0 /\ fp = CallerFP /\ ra = CallerRA /\ csr = [k \in 1..NumCSRs |-> csr[k]]
          /\ \A k \in 1..NumCSRs : csr[k] = CallerCSR(k)
      BY DEF Ready, RunInv, RegisterInv
    <2>3. csr = [k \in 1..NumCSRs |-> CallerCSR(k)]
      BY <2>2
    <2> QED
      BY <2>1, <2>2, <2>3 DEF Preserved, Context
  <1> QED
    BY <1>1, <1>2, <1>3, <1>4, <1>5 DEF Represented

LEMMA RepresentedNext == Ready' => Represented'
  BY RepresentedNow, PTL

\* Every step of the compiled code is a step of the calling convention or
\* changes nothing in it.
LEMMA ABIStep == Ready /\ Ready' /\ [RunNext]_allVars => [ABI!ABINext]_(ABI!abiVars)
  <1> SUFFICES ASSUME Ready, Ready', [RunNext]_allVars PROVE [ABI!ABINext]_(ABI!abiVars)
    OBVIOUS
  <1> USE DEF ABI!abiVars
  <1>1. Represented /\ Represented' /\ Context' = Context
    BY RepresentedNow, RepresentedNext DEF Context, CallerFP, CallerRA, CallerCSR
  <1>2. ASSUME UNCHANGED <<vars, written>>,
               \/ mode \in {"compile", "prologue", "spill"} /\ mode' \in {"compile", "prologue", "spill"}
               \/ mode \in {"body", "epilogue"} /\ mode' \in {"body", "epilogue"}
               \/ mode = "calling" /\ mode' = "calling"
               \/ mode = "returned" /\ mode' = "returned"
        PROVE  UNCHANGED <<Phase, Store, Preserved>>
    <2>1. WrittenStore' = WrittenStore
      BY <1>2, SameFrame DEF WrittenStore, Locals
    <2> QED
      BY <1>1, <1>2, <2>1 DEF Represented
  <1>3. CASE Compile
    <2>1. mode = "compile" /\ mode' = "compile"
      <3>1. pass # "done"
        BY <1>3 DEF Compile, CompileOther, EmitCall, LowerCall, CreateStackObject, RemoveStackObject,
          LowerFormalArguments, VisitAlloca, Layout, CalculateCalleeSavedRegisters, SkipFixedObject,
          FixedDone, PlaceCalleeSaved, CalleeSavedDone, PlaceObject, SkipObject, SetStackSize,
          AdjustRigelStackFrame
      <3> QED
        BY <1>3, <3>1 DEF Compile, EmitCall, runVars, Ready, RunInv, ModeInv
    <2>2. UNCHANGED <<Phase, Store, Preserved>>
      BY <1>1, <2>1 DEF Represented
    <2> QED
      BY <2>2
  <1>4. CASE Enter \/ RunPrologue
    <2>1. UNCHANGED <<Phase, Store, Preserved>>
      BY <1>2, <1>4 DEF Enter, RunPrologue
    <2> QED
      BY <2>1
  <1>5. CASE SpillRegisters
    <2>1. mode = "spill" /\ mode' = "body" /\ UNCHANGED <<vars, written>> /\ written = {}
      BY <1>5 DEF SpillRegisters, Ready, RunInv, ModeInv
    <2>2. Phase = "idle" /\ Phase' = "running" /\ Store' = WrittenStore' /\ Preserved' = Preserved
      BY <1>1, <2>1 DEF Represented
    <2>3. Store' = [i \in DOMAIN Store' |-> "undef"]
      <3>1. WrittenStore' = [i \in Locals' |-> "undef"]
        BY <2>1 DEF WrittenStore
      <3> QED
        BY <2>2, <3>1
    <2>4. ABI!Begin
      BY <2>2, <2>3 DEF ABI!Begin
    <2> QED
      BY <2>4 DEF ABI!ABINext
  <1>6. CASE \E i \in FrameIndices : StoreLocal(i)
    <2>1. PICK i \in FrameIndices : StoreLocal(i)
      BY <1>6
    <2>2. /\ mode = "body" /\ mode' = "body" /\ UNCHANGED vars /\ written' = written \cup {i}
          /\ i \in Locals
      BY <2>1 DEF StoreLocal, Locals
    <2>3. /\ Phase = "running" /\ Phase' = "running" /\ Preserved' = Preserved
          /\ Store = WrittenStore /\ Store' = WrittenStore'
      BY <1>1, <2>2 DEF Represented
    <2>4. Locals' = Locals
      BY <2>2, SameFrame DEF Locals
    <2>5. WrittenStore' = [WrittenStore EXCEPT ![i] = "set"] /\ i \in DOMAIN WrittenStore
      BY <2>2, <2>4 DEF WrittenStore
    <2>6. i \in DOMAIN Store /\ ABI!Assign(i)
      BY <2>3, <2>5 DEF ABI!Assign
    <2> QED
      BY <2>6 DEF ABI!ABINext
  <1>7. CASE (\E i \in FrameIndices, n \in DynSizes : DynamicAlloca(i, n)) \/ DefineAT \/ KillAT
    <2>1. UNCHANGED <<Phase, Store, Preserved>>
      BY <1>2, <1>7 DEF DynamicAlloca, DefineAT, KillAT
    <2> QED
      BY <2>1
  <1>8. ASSUME UNCHANGED <<vars, written>>, mode \in {"body", "calling"}, mode' \in {"body", "calling"}
        PROVE  Store' = Store /\ Preserved' = Preserved
    <2>1. WrittenStore' = WrittenStore
      BY <1>8, SameFrame DEF WrittenStore, Locals
    <2> QED
      BY <1>1, <1>8, <2>1 DEF Represented
  <1>9. CASE \E c \in calls : PassArguments(c)
    <2>1. mode = "body" /\ mode' = "calling" /\ UNCHANGED <<vars, written>>
      BY <1>9 DEF PassArguments
    <2>2. ABI!Call
      BY <1>1, <1>8, <2>1 DEF Represented, ABI!Call
    <2> QED
      BY <2>2 DEF ABI!ABINext
  <1>10. CASE \E c \in pending : RunCallee(c)
    <2>1. mode = "calling" /\ mode' = "body" /\ UNCHANGED <<vars, written>>
      BY <1>10 DEF RunCallee
    <2>2. ABI!Resume
      BY <1>1, <1>8, <2>1 DEF Represented, ABI!Resume
    <2> QED
      BY <2>2 DEF ABI!ABINext
  <1>11. CASE RestoreRegisters
    <2>1. UNCHANGED <<Phase, Store, Preserved>>
      BY <1>2, <1>11 DEF RestoreRegisters
    <2> QED
      BY <2>1
  <1>12. CASE RunEpilogue
    <2>1. mode = "epilogue" /\ mode' = "returned"
      BY <1>12 DEF RunEpilogue
    <2>2. ABI!Return
      BY <1>1, <2>1 DEF Represented, ABI!Return
    <2> QED
      BY <2>2 DEF ABI!ABINext
  <1>13. CASE UNCHANGED allVars
    <2>1. UNCHANGED <<vars, written, mode>> /\ mode \in Modes
      BY <1>13 DEF allVars, runVars, Ready, RunInv, ModeInv
    <2>2. UNCHANGED <<Phase, Store, Preserved>>
      BY <1>2, <2>1 DEF Modes
    <2> QED
      BY <2>2
  <1> QED
    BY <1>3, <1>4, <1>5, <1>6, <1>7, <1>9, <1>10, <1>11, <1>12, <1>13
    DEF RunNext, Run, Body, Returned

\* The compiled function implements the calling convention: what RigelABI
\* promises of locals and preserved registers, its prologue, spills, accesses,
\* calls, restores and epilogue do to registers and memory.
THEOREM ImplementsConvention == RunSpec /\ []FrameFits => ImplementsABI
  <1>1. RunInit => ABI!ABIInit
    BY DEF RunInit, ABI!ABIInit, Phase, Store, Preserved
  <1> QED
    BY <1>1, ABIStep, ReadyAlways, PTL DEF RunSpec, ImplementsABI, ABI!ABISpec
===========================================================================
