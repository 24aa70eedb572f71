--------------------------- MODULE RigelFrameProofs ---------------------------
(***************************************************************************)
(* The frame layout is correct for every number of arguments, calls,       *)
(* objects and registers, and for every size and alignment.                *)
(***************************************************************************)
EXTENDS RigelFrame, IntegerDivision

(***************************************************************************)
(* Arithmetic.                                                             *)
(***************************************************************************)

\* Integer division of a natural number, as the code's unsigned division.
LEMMA DivBounds ==
  ASSUME NEW n \in Nat, NEW a \in Nat \ {0}
  PROVE  (n \div a) \in Nat /\ (n \div a) * a <= n /\ n < (n \div a) * a + a
  OBVIOUS

\* Rounding up to an alignment never moves an offset down.
LEMMA AlignUpBounds ==
  ASSUME NEW x \in Nat, NEW a \in Nat \ {0}
  PROVE  AlignUp(x, a) \in Nat /\ AlignUp(x, a) >= x
  <1> DEFINE n == x + a - 1
  <1>1. n \in Nat
    OBVIOUS
  <1>2. (n \div a) \in Nat /\ n < (n \div a) * a + a
    BY <1>1, DivBounds
  <1>3. n = x + a - 1 /\ AlignUp(x, a) = (n \div a) * a
    BY DEF AlignUp
  <1> HIDE DEF n
  <1>4. (n \div a) * a \in Nat
    BY <1>2
  <1> QED
    BY <1>2, <1>3, <1>4

\* A product of natural numbers is one (slots of RegSize bytes each).
LEMMA SlotBytes ==
  ASSUME NEW j \in Nat
  PROVE  RegSize \in Nat \ {0} /\ StackAlign \in Nat \ {0} /\ RegSize * j \in Nat
  BY WordAssumption

(***************************************************************************)
(* Type correctness.                                                       *)
(***************************************************************************)

\* The counts of words that CC_Rigel assigns to the stack and to homes.
LEMMA WordCounts ==
  ASSUME NEW n \in Nat, NEW va \in BOOLEAN
  PROVE  /\ StackWords(n) \in Nat
         /\ VarArgHomes(n, va) \in Nat
         /\ FirstStackArgLoc(va) \in Nat
         /\ CallObjects(n, va) \in Nat
  <1>1. RegSize * NumArgRegs \in Nat
    BY WordAssumption, RegAssumption
  <1> QED
    BY <1>1, RegAssumption DEF StackWords, VarArgHomes, FirstStackArgLoc, CallObjects

\* Objects created by LowerFormalArguments and LowerCall are objects.
LEMMA FixedObjectType ==
  ASSUME NEW o \in Int, NEW s \in Int, NEW k \in Kinds
  PROVE  FixedObject(o, s, k) \in Object
  BY WordAssumption DEF FixedObject, Object

\* What LowerFormalArguments records for a stack word or a home is an object.
LEMMA FormalObjectType ==
  ASSUME NEW n \in Nat, NEW va \in BOOLEAN, NEW j \in Nat \ {0}
  PROVE  FormalObject(n, va, j) \in Object
  <1>1. StackWords(n) \in Nat /\ FirstStackArgLoc(va) \in Nat
    BY WordCounts
  <1>2. RegSize * (j - 1) \in Nat
    BY SlotBytes
  <1>3. CASE j <= StackWords(n)
    BY <1>1, <1>2, <1>3, FixedObjectType, WordAssumption
       DEF FormalObject, LocMemOffset, Kinds
  <1>4. CASE j > StackWords(n)
    <2>1. n + (j - StackWords(n) - 1) \in Nat
      BY <1>1, <1>4
    <2>2. RegSize * (n + (j - StackWords(n) - 1)) \in Nat
      BY <2>1, SlotBytes
    <2> QED
      BY <1>1, <1>4, <2>2, FixedObjectType, WordAssumption DEF FormalObject, Kinds
  <1> QED
    BY <1>1, <1>3, <1>4

\* A slot that LowerCall creates is an object at a non-negative offset.
LEMMA CallObjectType ==
  ASSUME NEW va \in BOOLEAN, NEW j \in Nat \ {0}
  PROVE  /\ CallObject(va, j) \in Object
         /\ CallObject(va, j).kind = "out"
         /\ CallObject(va, j).size = RegSize
         /\ CallObject(va, j).off >= 0
  <1> DEFINE k == IF va THEN j - 2 ELSE j - 1
             o == IF k < 0 THEN RegSize * (NumArgRegs - 1)
                           ELSE FirstStackArgLoc(va) + LocMemOffset(k)
  <1>1. k \in Int
    OBVIOUS
  <1>2. RegSize * (NumArgRegs - 1) \in Nat
    BY SlotBytes, RegAssumption
  <1>3. ASSUME k >= 0 PROVE FirstStackArgLoc(va) + LocMemOffset(k) \in Nat
    <2>1. FirstStackArgLoc(va) \in Nat
      BY RegAssumption, WordAssumption DEF FirstStackArgLoc
    <2>2. RegSize * k \in Nat
      BY <1>1, <1>3, SlotBytes
    <2> QED
      BY <2>1, <2>2 DEF LocMemOffset
  <1>4. o \in Nat
    BY <1>1, <1>2, <1>3
  <1>5. CallObject(va, j) = FixedObject(o, 0, "out")
    BY DEF CallObject
  <1> HIDE DEF o
  <1> QED
    BY <1>4, <1>5, WordAssumption DEF FixedObject, Object, Kinds

\* Every variable keeps its type through the lowering and PEI.
LEMMA TypeInit == Init => TypeOK
  <1> SUFFICES ASSUME Init PROVE TypeOK
    OBVIOUS
  <1>1. (-0)..(0 - 1) = {}
    OBVIOUS
  <1>2. Objects \in [FrameIndices -> Object]
    BY <1>1 DEF Init, FrameIndices
  <1>3. disableFPElim \in BOOLEAN
    BY ObjectAssumption, Zenon DEF Init
  <1>4. /\ isVarArg \in BOOLEAN /\ hasVarSized \in BOOLEAN
        /\ hasCalls \in BOOLEAN /\ adjustsStack \in BOOLEAN
    BY DEF Init
  <1> QED
    BY <1>2, <1>3, <1>4 DEF Init, TypeOK, Passes

\* Every step of instruction selection and PEI keeps the types.
LEMMA TypeNext == TypeOK /\ LoopInv /\ [Next]_vars => TypeOK'
  <1> SUFFICES ASSUME TypeOK, LoopInv, [Next]_vars PROVE TypeOK'
    OBVIOUS
  <1> USE DEF TypeOK, FrameIndices, Passes, mfiVars, fnVars, callVars, csVars,
          offVars, saveVars
  <1>1. ASSUME NEW s \in Sizes, NEW a \in Aligns, CreateStackObject(s, a)
        PROVE  TypeOK'
    <2>1. StackObject(s, a, "local") \in Object
      BY ObjectAssumption DEF StackObject, Object, Kinds
    <2> QED
      BY <1>1, <2>1, ObjectAssumption DEF CreateStackObject, PushBack, Larger, Object
  <1>2. ASSUME NEW i \in FrameIndices, RemoveStackObject(i)
        PROVE  TypeOK'
    <2>1. WithSize(Objects[i], DeadSize) \in Object
      BY DEF WithSize, Object, DeadSize
    <2> QED
      BY <1>2, <2>1 DEF RemoveStackObject
  <1>3. ASSUME NEW n \in FormalCounts, NEW va \in BOOLEAN, LowerFormalArguments(n, va)
        PROVE  TypeOK'
    <2>1. n \in Nat
      BY ObjectAssumption
    <2>2. StackWords(n) \in Nat /\ VarArgHomes(n, va) \in Nat
      BY <2>1, WordCounts
    <2>3. \A j \in Nat \ {0} : FormalObject(n, va, j) \in Object
      BY <2>1, FormalObjectType
    <2> DEFINE k   == StackWords(n) + VarArgHomes(n, va)
               new == [j \in 1..k |-> FormalObject(n, va, j)]
    <2>4. k \in Nat /\ new \in [1..k -> Object]
      BY <2>2, <2>3
    <2>5. CreateFixedObjects(k, new) /\ UNCHANGED NumObjs
      BY <1>3 DEF LowerFormalArguments
    <2>6. Objects' \in [FrameIndices' -> Object] /\ NumFixed' \in Nat
      <3> HIDE DEF k, new
      <3> QED
        BY <2>4, <2>5 DEF CreateFixedObjects
    <2>7. VarArgsFrameIndex' \in Int
      BY <1>3, <2>2 DEF LowerFormalArguments, CreateFixedObjects
    <2> QED
      BY <1>3, <2>1, <2>6, <2>7 DEF LowerFormalArguments
  <1>4. ASSUME NEW n \in CallCounts, NEW va \in CallVarArgs, LowerCall(n, va)
        PROVE  TypeOK'
    <2>1. n \in Nat /\ va \in BOOLEAN
      BY ObjectAssumption
    <2>2. CallObjects(n, va) \in Nat /\ StackWords(n) \in Nat
      BY <2>1, WordCounts
    <2>3. \A j \in Nat \ {0} : CallObject(va, j) \in Object
      BY <2>1, CallObjectType
    <2>4. LocMemOffset(StackWords(n)) \in Nat
      BY <2>2, SlotBytes DEF LocMemOffset
    <2> QED
      BY <1>4, <2>1, <2>2, <2>3, <2>4 DEF LowerCall, CreateFixedObjects, Larger
  <1>5. ASSUME NEW a \in DynAligns, VisitAlloca(a)
        PROVE  TypeOK'
    <2> DEFINE b == IF a <= StackAlign THEN 1 ELSE a
    <2>1. b \in Nat \ {0} /\ StackObject(0, b, "dynamic") \in Object
      BY ObjectAssumption DEF StackObject, Object, Kinds
    <2> QED
      BY <1>5, <2>1 DEF VisitAlloca, PushBack, Larger, StackObject
  <1>6. ASSUME NEW n \in 0..NumCSRs, CalculateCalleeSavedRegisters(n)
        PROVE  TypeOK'
    <2>1. n \in Nat
      BY RegAssumption
    <2>2. StackObject(RegSize, StackAlign, "csr") \in Object
      BY WordAssumption DEF StackObject, Object, Kinds
    <2> QED
      BY <1>6, <2>1, <2>2, WordAssumption DEF CalculateCalleeSavedRegisters, Larger
  <1>7. CASE SkipFixedObject
    <2>1. Objects[idx] \in Object
      BY <1>7 DEF SkipFixedObject, LoopInv
    <2>2. Objects[idx].off + Objects[idx].size \in Int
      BY <2>1 DEF Object, DeadSize
    <2> QED
      BY <1>7, <2>2 DEF SkipFixedObject, Larger
  <1>8. CASE FixedDone
    BY <1>8 DEF FixedDone
  <1>9. ASSUME NEW i \in FrameIndices, Objects[i].size >= 0, AdjustStackOffset(i)
        PROVE  /\ Objects' \in [FrameIndices -> Object]
               /\ Offset' \in Nat /\ maxAlign' \in Nat
    <2>1. Objects[i] \in Object
      OBVIOUS
    <2>2. Objects[i].size \in Nat /\ Objects[i].align \in Nat \ {0}
      BY <1>9, <2>1 DEF Object, DeadSize
    <2>3. AlignUp(Offset, Objects[i].align) \in Nat
      BY <2>2, AlignUpBounds
    <2>4. WithOffset(Objects[i], AlignUp(Offset, Objects[i].align)) \in Object
      BY <2>1, <2>3 DEF WithOffset, Object
    <2> QED
      BY <1>9, <2>2, <2>3, <2>4 DEF AdjustStackOffset, Larger
  <1>10. CASE PlaceCalleeSaved
    <2>1. idx \in FrameIndices /\ Objects[idx].size >= 0
      BY <1>10 DEF PlaceCalleeSaved, LoopInv
    <2>2. AdjustStackOffset(idx)
      BY <1>10 DEF PlaceCalleeSaved
    <2> QED
      BY <1>9, <1>10, <2>1, <2>2 DEF PlaceCalleeSaved
  <1>11. CASE CalleeSavedDone
    BY <1>11 DEF CalleeSavedDone
  <1>12. CASE PlaceObject
    <2>1. idx \in FrameIndices
      BY <1>12 DEF PlaceObject, LoopInv
    <2>2. Objects[idx].size >= 0
      BY <1>12, <2>1 DEF PlaceObject, Skipped, Object, DeadSize
    <2>3. AdjustStackOffset(idx)
      BY <1>12 DEF PlaceObject
    <2> QED
      BY <1>9, <1>12, <2>1, <2>2, <2>3 DEF PlaceObject
  <1>13. CASE SkipObject
    BY <1>13 DEF SkipObject
  <1>14. CASE SetStackSize
    <2>1. Larger(StackAlign, maxAlign) \in Nat \ {0}
      BY WordAssumption DEF Larger
    <2>2. \A o \in Nat : AlignUp(o, Larger(StackAlign, maxAlign)) \in Nat
      BY <2>1, AlignUpBounds
    <2> QED
      BY <1>14, <2>2 DEF SetStackSize
  <1>15. CASE AdjustRigelStackFrame
    <2>1. SaveSlots \in Nat
      BY DEF SaveSlots
    <2>2. StackSize + RegSize * SaveSlots \in Nat
      BY <2>1, SlotBytes
    <2>3. AlignUp(StackSize + RegSize * SaveSlots, StackAlign) \in Nat
      BY <2>2, AlignUpBounds, WordAssumption
    <2>4. \A i \in Nat : SaveSlot(StackSize + RegSize * i) \in Object
      <3> SUFFICES ASSUME NEW i \in Nat
                   PROVE  SaveSlot(StackSize + RegSize * i) \in Object
        OBVIOUS
      <3>1. StackSize + RegSize * i \in Nat
        BY SlotBytes
      <3> QED
        BY <3>1, WordAssumption DEF SaveSlot, WithOffset, StackObject, Object, Kinds
    <2>5. \A i \in FrameIndices : WithOffset(Objects[i], Objects[i].sp) \in Object
      BY DEF WithOffset, Object
    <2>6. Objects' \in [FrameIndices' -> Object]
      BY <1>15, <2>1, <2>4, <2>5 DEF AdjustRigelStackFrame
    <2>7. hasCalls => StackSize + RegSize * SaveSlots - RegSize \in Nat
      <3>1. hasCalls => SaveSlots - 1 \in Nat
        BY DEF SaveSlots
      <3>2. hasCalls => RegSize * (SaveSlots - 1) \in Nat
        BY <3>1, SlotBytes
      <3>3. RegSize * (SaveSlots - 1) = RegSize * SaveSlots - RegSize
        BY <2>1, WordAssumption
      <3> QED
        BY <3>2, <3>3
    <2> QED
      BY <1>15, <2>1, <2>2, <2>3, <2>6, <2>7, WordAssumption
         DEF AdjustRigelStackFrame, Larger
  <1>16. CASE UNCHANGED vars
    BY <1>16 DEF vars
  <1> QED
    BY <1>1, <1>2, <1>3, <1>4, <1>5, <1>6, <1>7, <1>8, <1>10, <1>11, <1>12,
       <1>13, <1>14, <1>15, <1>16 DEF Next, Lower, Layout

(***************************************************************************)
(* The layout invariant.                                                   *)
(***************************************************************************)

\* Nothing is placed before PEI starts.
LEMMA NothingPlaced == pass \in {"set", "body"} => PlacedInv
  BY DEF PlacedInv, Placed

\* The layout invariant holds when the lowering of a function starts.
LEMMA LayoutInit == Init => LayoutInv
  <1> SUFFICES ASSUME Init PROVE LayoutInv
    OBVIOUS
  <1>1. FrameIndices = {}
    BY DEF Init, FrameIndices
  <1>2. FixedInv /\ LoopInv /\ FormalInv
    BY <1>1 DEF Init, FixedInv, LoopInv, FormalInv
  <1>3. PlacedInv
    BY NothingPlaced DEF Init
  <1> QED
    BY <1>2, <1>3 DEF LayoutInv

\* Lowering a formal argument list records the arguments and homes.
LEMMA FormalObjectFields ==
  ASSUME NEW n \in Nat, NEW va \in BOOLEAN, NEW j \in Nat \ {0}
  PROVE  /\ FormalObject(n, va, j).kind \in {"arg", "va"}
         /\ FormalObject(n, va, j).size = RegSize
         /\ FormalObject(n, va, j).off = 0
         /\ FormalObject(n, va, j).sp <= -RegSize
  <1>1. StackWords(n) \in Nat /\ FirstStackArgLoc(va) \in Nat
    BY WordCounts
  <1>2. RegSize * (j - 1) \in Nat
    BY SlotBytes
  <1>3. CASE j <= StackWords(n)
    BY <1>1, <1>2, <1>3, WordAssumption DEF FormalObject, FixedObject, LocMemOffset
  <1>4. CASE j > StackWords(n)
    <2>1. n + (j - StackWords(n) - 1) \in Nat
      BY <1>1, <1>4
    <2>2. RegSize * (n + (j - StackWords(n) - 1)) \in Nat
      BY <2>1, SlotBytes
    <2> QED
      BY <1>1, <1>4, <2>2, WordAssumption DEF FormalObject, FixedObject
  <1> QED
    BY <1>1, <1>3, <1>4

\* The recorded arguments outlive every step that keeps the fixed objects
\* there are and adds new ones in front of them only after the formals.
LEMMA FormalKept ==
  ASSUME TypeOK, FormalInv, NumFixed' \in Nat, NumFixed' >= NumFixed,
         pass = "set" => pass' = "set" /\ NumFixed' = NumFixed,
         pass # "set" => pass' # "set",
         UNCHANGED <<numFormals, isVarArg, VarArgsFrameIndex>>,
         \A i \in (-NumFixed)..(-1) :
           Objects'[i].kind = Objects[i].kind /\ Objects'[i].sp = Objects[i].sp
  PROVE  FormalInv'
  <1>1. StackWords(numFormals) \in Nat /\ VarArgHomes(numFormals, isVarArg) \in Nat
    BY WordCounts DEF TypeOK
  <1>2. CASE pass = "set"
    BY <1>2 DEF FormalInv
  <1>3. CASE pass # "set"
    <2> DEFINE m == StackWords(numFormals) + VarArgHomes(numFormals, isVarArg)
    <2>1. m \in Nat /\ m <= NumFixed /\ m' = m
      BY <1>1, <1>3 DEF FormalInv
    <2>2. \A j \in 1..m : -j \in (-NumFixed)..(-1)
      BY <2>1 DEF TypeOK
    <2>3. \A j \in 1..m :
            /\ Objects'[-j].kind = FormalObject(numFormals, isVarArg, j).kind
            /\ Objects'[-j].sp = FormalObject(numFormals, isVarArg, j).sp
      BY <1>3, <2>2 DEF FormalInv
    <2> QED
      BY <1>3, <2>1, <2>3 DEF FormalInv, TypeOK
  <1> QED
    BY <1>2, <1>3

\* Instruction selection preserves the invariant.
LEMMA LayoutLower == TypeOK /\ LayoutInv /\ Lower => LayoutInv'
  <1> SUFFICES ASSUME TypeOK, FixedInv, LoopInv, FormalInv, Lower
               PROVE  FixedInv' /\ LoopInv' /\ FormalInv' /\ PlacedInv'
    BY DEF LayoutInv
  <1> USE DEF TypeOK, FrameIndices, fnVars, callVars, csVars, offVars, saveVars
  <1>0. pass' \in {"set", "body"} => PlacedInv'
    BY DEF PlacedInv, Placed
  <1>1. ASSUME NEW s \in Sizes, NEW a \in Aligns, CreateStackObject(s, a)
        PROVE  FixedInv' /\ LoopInv' /\ FormalInv' /\ PlacedInv'
    <2> USE <1>1 DEF CreateStackObject, PushBack
    <2>1. FixedInv'
      BY DEF FixedInv, Caller, StackObject
    <2>2. LoopInv'
      BY DEF LoopInv
    <2>3. FormalInv'
      BY FormalKept
    <2> QED
      BY <1>0, <2>1, <2>2, <2>3
  <1>2. ASSUME NEW i \in FrameIndices, RemoveStackObject(i)
        PROVE  FixedInv' /\ LoopInv' /\ FormalInv' /\ PlacedInv'
    <2>1. /\ pass = "body" /\ Objects[i].kind = "local"
          /\ UNCHANGED <<pass, NumFixed, NumObjs, fnVars, csVars>>
          /\ Objects' = [Objects EXCEPT ![i] = WithSize(Objects[i], DeadSize)]
      BY <1>2 DEF RemoveStackObject
    <2>2. \A k \in FrameIndices :
            /\ Objects'[k].kind = Objects[k].kind /\ Objects'[k].sp = Objects[k].sp
            /\ Objects'[k].off = Objects[k].off
            /\ k # i => Objects'[k].size = Objects[k].size
      BY <2>1 DEF WithSize
    <2>3. FixedInv'
      BY <2>1, <2>2 DEF FixedInv, Caller
    <2>4. LoopInv'
      BY <2>1 DEF LoopInv
    <2>5. FormalInv'
      BY <2>1, <2>2, FormalKept
    <2> QED
      BY <1>0, <2>1, <2>3, <2>4, <2>5
  <1>3. ASSUME NEW n \in FormalCounts, NEW va \in BOOLEAN, LowerFormalArguments(n, va)
        PROVE  FixedInv' /\ LoopInv' /\ FormalInv' /\ PlacedInv'
    <2> USE <1>3 DEF LowerFormalArguments, CreateFixedObjects
    <2>1. n \in Nat
      BY ObjectAssumption
    <2>2. StackWords(n) \in Nat /\ VarArgHomes(n, va) \in Nat
      BY <2>1, WordCounts
    <2>3. \A j \in Nat \ {0} :
            /\ FormalObject(n, va, j).kind \in {"arg", "va"}
            /\ FormalObject(n, va, j).size = RegSize
            /\ FormalObject(n, va, j).off = 0
            /\ FormalObject(n, va, j).sp <= -RegSize
      BY <2>1, FormalObjectFields
    <2>4. FixedInv'
      <3> SUFFICES ASSUME NEW i \in FrameIndices'
                   PROVE  /\ i < 0 <=> Objects'[i].kind \in {"out", "arg", "va"}
                          /\ i < 0 => Objects'[i].size = RegSize
                          /\ Objects'[i].kind \in {"arg", "va"} =>
                               Objects'[i].sp <= -RegSize /\ Objects'[i].off = 0
                          /\ Objects'[i].kind = "out" => Objects'[i].off >= 0
        BY DEF FixedInv, Caller
      <3>1. CASE i < -NumFixed
        <4>1. -i - NumFixed \in Nat \ {0} /\ Objects'[i] = FormalObject(n, va, -i - NumFixed)
          BY <2>2, <3>1
        <4> QED
          BY <2>3, <3>1, <4>1
      <3>2. CASE i >= -NumFixed
        BY <2>2, <3>2 DEF FixedInv, Caller
      <3> QED
        BY <2>2, <3>1, <3>2
    <2>5. LoopInv'
      BY <2>2 DEF LoopInv
    <2>6. FormalInv'
      BY <2>1, <2>2 DEF FormalInv
    <2> QED
      BY <1>0, <2>4, <2>5, <2>6
  <1>4. ASSUME NEW n \in CallCounts, NEW va \in CallVarArgs, LowerCall(n, va)
        PROVE  FixedInv' /\ LoopInv' /\ FormalInv' /\ PlacedInv'
    <2> USE <1>4 DEF LowerCall, CreateFixedObjects
    <2>1. n \in Nat /\ va \in BOOLEAN
      BY ObjectAssumption
    <2>2. CallObjects(n, va) \in Nat
      BY <2>1, WordCounts
    <2>3. \A j \in Nat \ {0} :
            /\ CallObject(va, j).kind = "out"
            /\ CallObject(va, j).size = RegSize
            /\ CallObject(va, j).off >= 0
      BY <2>1, CallObjectType
    <2>4. FixedInv'
      BY <2>2, <2>3 DEF FixedInv, Caller
    <2>5. LoopInv'
      BY <2>2 DEF LoopInv
    <2>6. FormalInv'
      BY <2>2, FormalKept
    <2> QED
      BY <1>0, <2>4, <2>5, <2>6
  <1>5. ASSUME NEW a \in DynAligns, VisitAlloca(a)
        PROVE  FixedInv' /\ LoopInv' /\ FormalInv' /\ PlacedInv'
    <2> USE <1>5 DEF VisitAlloca, PushBack
    <2>1. FixedInv'
      BY DEF FixedInv, Caller, StackObject
    <2>2. LoopInv'
      BY DEF LoopInv
    <2>3. FormalInv'
      BY FormalKept
    <2> QED
      BY <1>0, <2>1, <2>2, <2>3
  <1> QED
    BY <1>1, <1>2, <1>3, <1>4, <1>5 DEF Lower

\* The offset that AdjustStackOffset gives to an object, and what it keeps.
LEMMA AdjustFacts ==
  ASSUME TypeOK, NEW i \in FrameIndices, Objects[i].size >= 0, AdjustStackOffset(i)
  PROVE  /\ Objects'[i].off >= Offset
         /\ Offset' = Objects'[i].off + Objects[i].size
         /\ Offset' >= Offset
         /\ \A k \in FrameIndices :
              /\ Objects'[k].size = Objects[k].size
              /\ Objects'[k].kind = Objects[k].kind
              /\ Objects'[k].sp = Objects[k].sp
              /\ k # i => Objects'[k].off = Objects[k].off
  <1>1. Objects[i] \in Object
    BY DEF TypeOK
  <1>2. Objects[i].size \in Nat /\ Objects[i].align \in Nat \ {0}
    BY <1>1 DEF Object, DeadSize
  <1>3. Offset \in Nat /\ Objects \in [FrameIndices -> Object]
    BY DEF TypeOK
  <1> DEFINE o == AlignUp(Offset, Objects[i].align)
  <1>4. o \in Nat /\ o >= Offset
    BY <1>2, <1>3, AlignUpBounds
  <1>5. /\ Objects' = [Objects EXCEPT ![i] = WithOffset(Objects[i], o)]
        /\ Offset' = o + Objects[i].size
    BY DEF AdjustStackOffset
  <1> HIDE DEF o
  <1> QED
    BY <1>2, <1>3, <1>4, <1>5 DEF WithOffset

\* Placing one more object above all that are placed.
LEMMA PlaceOne ==
  ASSUME TypeOK, TypeOK', FixedInv, PlacedInv, pass \in {"cs", "rest"},
         NEW i \in FrameIndices, i >= 0, Objects[i].size >= 0, ~Placed(i),
         AdjustStackOffset(i), UNCHANGED <<pass, NumFixed, NumObjs>>,
         \A k \in FrameIndices : Placed(k)' => Placed(k) \/ k = i
  PROVE  PlacedInv'
  <1>1. /\ Objects'[i].off >= Offset
        /\ Offset' = Objects'[i].off + Objects[i].size
        /\ Offset' >= Offset
        /\ \A k \in FrameIndices :
             /\ Objects'[k].size = Objects[k].size
             /\ Objects'[k].kind = Objects[k].kind
             /\ k # i => Objects'[k].off = Objects[k].off
    BY AdjustFacts
  <1>2. FrameIndices' = FrameIndices /\ Top = Offset /\ Top' = Offset'
    BY DEF FrameIndices, Top
  <1>3. \A k \in FrameIndices : /\ Objects[k].off \in Int /\ Objects[k].size \in Int
                                /\ Objects'[k].off \in Int /\ Objects'[k].size \in Int
    BY <1>2 DEF TypeOK, Object, DeadSize
  <1>4. Offset \in Nat /\ Offset' \in Nat
    BY DEF TypeOK
  <1>5. ASSUME NEW f \in FrameIndices, f < 0
        PROVE  /\ f # i /\ Objects'[f].off = Objects[f].off
               /\ Objects'[f].off + Objects'[f].size <= Offset
               /\ Caller(f)' <=> Caller(f)
    <2>1. f # i
      BY <1>5 DEF FrameIndices, TypeOK
    <2>2. Objects[f].off + Objects[f].size <= Offset
      BY <1>2, <1>5 DEF PlacedInv
    <2> QED
      BY <1>1, <2>1, <2>2 DEF Caller
  <1>6. \A k \in FrameIndices : Placed(k) =>
          Objects'[k].off >= 0 /\ Objects'[k].off + Objects'[k].size <= Offset
    BY <1>1, <1>2, <1>3, <1>4 DEF PlacedInv
  <1>7. ASSUME NEW k \in FrameIndices, Placed(k)'
        PROVE  /\ Objects'[k].off >= 0
               /\ Objects'[k].off + Objects'[k].size <= Offset'
    BY <1>1, <1>3, <1>4, <1>6, <1>7
  <1>8. ASSUME NEW k \in FrameIndices, Placed(k)',
               NEW f \in FrameIndices, f < 0, ~Caller(f)'
        PROVE  Objects'[f].off + Objects'[f].size <= Objects'[k].off
    <2>1. CASE k = i
      BY <1>1, <1>3, <1>4, <1>5, <1>8, <2>1
    <2>2. CASE k # i
      BY <1>1, <1>5, <1>8, <2>2 DEF PlacedInv
    <2> QED
      BY <2>1, <2>2
  <1>9. ASSUME NEW k \in FrameIndices, Placed(k)',
               NEW j \in FrameIndices, Placed(j)', k # j
        PROVE  \/ Objects'[k].off + Objects'[k].size <= Objects'[j].off
               \/ Objects'[j].off + Objects'[j].size <= Objects'[k].off
    <2>1. CASE k = i
      BY <1>1, <1>3, <1>4, <1>6, <1>9, <2>1
    <2>2. CASE j = i
      BY <1>1, <1>3, <1>4, <1>6, <1>9, <2>2
    <2>3. CASE k # i /\ j # i
      BY <1>1, <1>9, <2>3 DEF PlacedInv
    <2> QED
      BY <2>1, <2>2, <2>3
  <1>10. \A f \in FrameIndices : f < 0 => Objects'[f].off + Objects'[f].size <= Offset'
    BY <1>1, <1>3, <1>4, <1>5
  <1>11. pass' # "adjust"
    OBVIOUS
  <1> QED
    BY <1>2, <1>7, <1>8, <1>9, <1>10, <1>11 DEF PlacedInv

\* A step of PEI that moves no object and changes no size keeps FixedInv; so
\* does placing an object of index 0 and up.
LEMMA FixedKept ==
  ASSUME TypeOK, FixedInv, UNCHANGED <<NumFixed, NumObjs>>,
         pass # "done", pass' # "done",
         \A k \in FrameIndices :
           /\ Objects'[k].size = Objects[k].size
           /\ Objects'[k].kind = Objects[k].kind
           /\ Objects'[k].sp = Objects[k].sp
           /\ k < 0 => Objects'[k].off = Objects[k].off
  PROVE  FixedInv'
  <1>1. FrameIndices' = FrameIndices
    BY DEF FrameIndices
  <1> QED
    BY <1>1 DEF FixedInv, Caller

\* PEI preserves the invariant.
LEMMA LayoutLayout == TypeOK /\ TypeOK' /\ LayoutInv /\ Layout => LayoutInv'
  <1> SUFFICES ASSUME TypeOK, TypeOK', FixedInv, LoopInv, FormalInv, PlacedInv, Layout
               PROVE  FixedInv' /\ LoopInv' /\ FormalInv' /\ PlacedInv'
    BY DEF LayoutInv
  <1> USE DEF mfiVars, fnVars, callVars, csVars, offVars, saveVars
  <1>1. ASSUME NEW n \in 0..NumCSRs, CalculateCalleeSavedRegisters(n)
        PROVE  FixedInv' /\ LoopInv' /\ FormalInv' /\ PlacedInv'
    <2> USE <1>1 DEF CalculateCalleeSavedRegisters
    <2>1. n \in Nat
      BY RegAssumption
    <2>2. FixedInv'
      BY <2>1 DEF FixedInv, Caller, StackObject, FrameIndices, TypeOK
    <2>3. LoopInv'
      BY <2>1, WordAssumption DEF LoopInv, StackObject, TypeOK
    <2>4. FormalInv'
      BY <2>1, FormalKept DEF TypeOK
    <2>5. PlacedInv'
      BY <2>1 DEF PlacedInv, Placed, FrameIndices, TypeOK
    <2> QED
      BY <2>2, <2>3, <2>4, <2>5
  <1>2. CASE SkipFixedObject
    <2> USE <1>2 DEF SkipFixedObject
    <2>1. FixedInv'
      BY FixedKept
    <2>2. LoopInv'
      BY DEF LoopInv, TypeOK
    <2>3. FormalInv'
      BY FormalKept DEF TypeOK
    <2>4. idx \in FrameIndices
      BY DEF LoopInv, FrameIndices, TypeOK
    <2>5. \A k \in FrameIndices : k \in Int /\ Objects[k].off \in Int /\ Objects[k].size \in Int
      BY DEF FrameIndices, TypeOK, Object, DeadSize
    <2>6. ASSUME NEW f \in FrameIndices, f < idx + 1
          PROVE  Objects[f].off + Objects[f].size <= Offset'
      <3>1. CASE f = idx
        BY <2>4, <2>5, <3>1 DEF TypeOK, Larger
      <3>2. CASE f < idx
        <4>1. Objects[f].off + Objects[f].size <= Offset
          BY <2>5, <3>2 DEF PlacedInv, Top, TypeOK
        <4> QED
          BY <2>4, <2>5, <4>1 DEF TypeOK, Larger
      <3> QED
        BY <2>5, <2>6, <3>1, <3>2 DEF TypeOK
    <2>7. PlacedInv'
      BY <2>6 DEF PlacedInv, Placed, FrameIndices, Top
    <2> QED
      BY <2>1, <2>2, <2>3, <2>7
  <1>3. CASE FixedDone
    <2> USE <1>3 DEF FixedDone
    <2>1. FixedInv'
      BY FixedKept
    <2>2. LoopInv'
      BY DEF LoopInv, TypeOK
    <2>3. FormalInv'
      BY FormalKept DEF TypeOK
    <2>4. \A k \in FrameIndices : ~Placed(k)'
      BY DEF Placed, FrameIndices, TypeOK
    <2>5. PlacedInv'
      BY <2>4 DEF PlacedInv, FrameIndices, Top, Caller
    <2> QED
      BY <2>1, <2>2, <2>3, <2>5
  <1>4. CASE PlaceCalleeSaved
    <2> USE <1>4 DEF PlaceCalleeSaved
    <2>1. idx \in FrameIndices /\ idx >= 0 /\ Objects[idx].size >= 0
      BY DEF LoopInv, FrameIndices, TypeOK
    <2>2. \A k \in FrameIndices :
            /\ Objects'[k].size = Objects[k].size
            /\ Objects'[k].kind = Objects[k].kind
            /\ Objects'[k].sp = Objects[k].sp
            /\ k # idx => Objects'[k].off = Objects[k].off
      BY <2>1, AdjustFacts
    <2>3. FixedInv'
      BY <2>1, <2>2, FixedKept DEF FrameIndices, TypeOK
    <2>4. LoopInv'
      <3>1. \A i \in minCS..maxCS : i \in FrameIndices
        BY DEF LoopInv, FrameIndices, TypeOK
      <3> QED
        BY <2>2, <3>1 DEF LoopInv, TypeOK
    <2>5. FormalInv'
      BY <2>1, <2>2, FormalKept DEF FrameIndices, TypeOK
    <2>6. /\ ~Placed(idx)
          /\ \A k \in FrameIndices : Placed(k)' => Placed(k) \/ k = idx
      BY <2>2 DEF Placed, FrameIndices, TypeOK
    <2>7. PlacedInv'
      BY <2>1, <2>6, PlaceOne
    <2> QED
      BY <2>3, <2>4, <2>5, <2>7
  <1>5. CASE CalleeSavedDone
    <2> USE <1>5 DEF CalleeSavedDone
    <2>1. FixedInv'
      BY FixedKept
    <2>2. LoopInv'
      BY DEF LoopInv, TypeOK
    <2>3. FormalInv'
      BY FormalKept DEF TypeOK
    <2>4. \A k \in FrameIndices : Placed(k)' => Placed(k)
      BY DEF Placed, LoopInv, FrameIndices, TypeOK
    <2>5. PlacedInv'
      BY <2>4 DEF PlacedInv, FrameIndices, Top, Caller
    <2> QED
      BY <2>1, <2>2, <2>3, <2>5
  <1>6. CASE PlaceObject
    <2> USE <1>6 DEF PlaceObject
    <2>1. idx \in FrameIndices /\ idx >= 0
      BY DEF LoopInv, FrameIndices, TypeOK
    <2>2. Objects[idx].size >= 0
      BY <2>1 DEF Skipped, TypeOK, Object, DeadSize
    <2>3. \A k \in FrameIndices :
            /\ Objects'[k].size = Objects[k].size
            /\ Objects'[k].kind = Objects[k].kind
            /\ Objects'[k].sp = Objects[k].sp
            /\ k # idx => Objects'[k].off = Objects[k].off
      BY <2>1, <2>2, AdjustFacts
    <2>4. FixedInv'
      BY <2>1, <2>3, FixedKept DEF FrameIndices, TypeOK
    <2>5. LoopInv'
      <3>1. \A i \in minCS..maxCS : i \in FrameIndices
        BY DEF LoopInv, FrameIndices, TypeOK
      <3> QED
        BY <2>3, <3>1 DEF LoopInv, TypeOK
    <2>6. FormalInv'
      BY <2>1, <2>3, FormalKept DEF FrameIndices, TypeOK
    <2>7. /\ ~Placed(idx)
          /\ \A k \in FrameIndices : Placed(k)' => Placed(k) \/ k = idx
      BY <2>3 DEF Placed, Skipped, FrameIndices, TypeOK
    <2>8. PlacedInv'
      BY <2>1, <2>2, <2>7, PlaceOne
    <2> QED
      BY <2>4, <2>5, <2>6, <2>8
  <1>7. CASE SkipObject
    <2> USE <1>7 DEF SkipObject
    <2>1. FixedInv'
      BY FixedKept
    <2>2. LoopInv'
      BY DEF LoopInv, TypeOK
    <2>3. FormalInv'
      BY FormalKept DEF TypeOK
    <2>4. ASSUME NEW k \in FrameIndices, Placed(k)'
          PROVE  Placed(k)
      <3>1. k \in Int /\ idx \in Int /\ (k < idx + 1 \/ k \in minCS..maxCS)
        BY <2>4 DEF Placed, FrameIndices, TypeOK
      <3>2. k = idx => Objects[k].size # DeadSize
        BY <2>4 DEF Placed, DeadSize
      <3> QED
        BY <2>4, <3>1, <3>2 DEF Placed, Skipped
    <2>5. PlacedInv'
      BY <2>4 DEF PlacedInv, FrameIndices, Top, Caller
    <2> QED
      BY <2>1, <2>2, <2>3, <2>5
  <1>8. CASE SetStackSize
    <2>a. /\ pass = "rest" /\ pass' = "adjust" /\ idx = NumObjs
          /\ UNCHANGED <<mfiVars, csVars>>
      BY <1>8 DEF SetStackSize
    <2>4. \A k \in FrameIndices : Placed(k)' => Placed(k)
      <3>1. \A k \in FrameIndices : k < NumObjs
        BY DEF FrameIndices, TypeOK
      <3> QED
        BY <2>a, <3>1 DEF Placed
    <2> USE <1>8 DEF SetStackSize
    <2>1. FixedInv'
      BY FixedKept
    <2>2. LoopInv'
      BY DEF LoopInv, TypeOK
    <2>3. FormalInv'
      BY FormalKept DEF TypeOK
    <2>5. Offset' <= StackSize'
      <3> DEFINE o == IF adjustsStack /\ hasReservedCallFrame
                        THEN Offset + maxCallFrame ELSE Offset
                 a == Larger(StackAlign, maxAlign)
      <3>1. o \in Nat /\ o >= Offset
        BY DEF TypeOK
      <3>2. a \in Nat \ {0}
        BY WordAssumption DEF Larger, TypeOK
      <3>3. AlignUp(o, a) \in Nat /\ AlignUp(o, a) >= o
        BY <3>1, <3>2, AlignUpBounds
      <3>4. StackSize' = AlignUp(o, a) /\ Offset' = Offset
        OBVIOUS
      <3> QED
        BY <3>1, <3>3, <3>4 DEF TypeOK
    <2>6. PlacedInv'
      BY <2>4, <2>5 DEF PlacedInv, FrameIndices, Top, Caller
    <2> QED
      BY <2>1, <2>2, <2>3, <2>6
  <1>9. CASE AdjustRigelStackFrame
    <2>1. /\ pass = "adjust" /\ pass' = "done"
          /\ NumFixed' = NumFixed /\ NumObjs' = NumObjs + SaveSlots
          /\ UNCHANGED <<fnVars, csVars, offVars>>
          /\ StackSize' = AlignUp(StackSize + RegSize * SaveSlots, StackAlign)
      BY <1>9 DEF AdjustRigelStackFrame
    <2>2. SaveSlots \in {0, 1, 2}
      BY DEF SaveSlots
    <2>a. NumFixed \in Nat /\ NumObjs \in Nat /\ minCS \in Nat /\ maxCS \in Int
      BY DEF TypeOK
    <2>b. \A k \in FrameIndices : k \in (-NumFixed)..(NumObjs + SaveSlots - 1) /\ ~(k >= NumObjs)
      BY <2>2, <2>a DEF FrameIndices
    <2>c. \A k \in FrameIndices :
            Objects'[k] = IF Caller(k) THEN WithOffset(Objects[k], Objects[k].sp)
                                       ELSE Objects[k]
      <3>1. Objects' = [i \in (-NumFixed)..(NumObjs + SaveSlots - 1) |->
                          IF i >= NumObjs
                            THEN SaveSlot(StackSize + RegSize * (i - NumObjs))
                            ELSE IF Caller(i)
                              THEN WithOffset(Objects[i], Objects[i].sp)
                              ELSE Objects[i]]
        BY <1>9 DEF AdjustRigelStackFrame, Caller
      <3> QED
        BY <2>b, <3>1
    <2>3. \A k \in FrameIndices :
            /\ k \in FrameIndices' /\ k < NumObjs
            /\ Objects'[k].size = Objects[k].size
            /\ Objects'[k].kind = Objects[k].kind
            /\ Objects'[k].sp = Objects[k].sp
            /\ Objects'[k].off = IF Caller(k) THEN Objects[k].sp ELSE Objects[k].off
      <3>1. \A k \in FrameIndices : k \in FrameIndices' /\ k < NumObjs
        BY <2>1, <2>2, <2>a DEF FrameIndices
      <3>2. \A k \in FrameIndices :
              /\ Objects'[k].size = Objects[k].size
              /\ Objects'[k].kind = Objects[k].kind
              /\ Objects'[k].sp = Objects[k].sp
              /\ Objects'[k].off = IF Caller(k) THEN Objects[k].sp ELSE Objects[k].off
        <4> SUFFICES ASSUME NEW k \in FrameIndices
                     PROVE  /\ Objects'[k].size = Objects[k].size
                            /\ Objects'[k].kind = Objects[k].kind
                            /\ Objects'[k].sp = Objects[k].sp
                            /\ Objects'[k].off = IF Caller(k) THEN Objects[k].sp
                                                               ELSE Objects[k].off
          OBVIOUS
        <4>1. CASE Caller(k)
          <5>1. Objects'[k] = WithOffset(Objects[k], Objects[k].sp)
            BY <2>c, <4>1
          <5>2. /\ Objects'[k].size = Objects[k].size
                /\ Objects'[k].kind = Objects[k].kind
                /\ Objects'[k].sp = Objects[k].sp
                /\ Objects'[k].off = Objects[k].sp
            BY <5>1 DEF WithOffset
          <5> QED
            BY <4>1, <5>2
        <4>2. CASE ~Caller(k)
          BY <2>c, <4>2
        <4> QED
          BY <4>1, <4>2
      <3> QED
        BY <3>1, <3>2
    <2>4. \A k \in FrameIndices' : k \notin FrameIndices =>
            /\ k \in NumObjs..(NumObjs + SaveSlots - 1)
            /\ Objects'[k].size = RegSize /\ Objects'[k].kind = "save"
            /\ Objects'[k].off = StackSize + RegSize * (k - NumObjs)
      BY <1>9, <2>1, <2>2
         DEF AdjustRigelStackFrame, SaveSlot, StackObject, WithOffset, FrameIndices, TypeOK
    <2>5. StackSize' >= StackSize + RegSize * SaveSlots
      <3>1. StackSize + RegSize * SaveSlots \in Nat
        BY <2>2, SlotBytes DEF TypeOK
      <3> QED
        BY <2>1, <3>1, AlignUpBounds, WordAssumption
    <2>6. FixedInv'
      <3>1. \A k \in FrameIndices :
              /\ k < 0 <=> Objects[k].kind \in {"out", "arg", "va"}
              /\ k < 0 => Objects[k].size = RegSize
              /\ Caller(k) => Objects[k].sp <= -RegSize
              /\ Objects[k].kind = "out" => Objects[k].off >= 0
        BY DEF FixedInv
      <3>2. \A k \in FrameIndices' : k \notin FrameIndices => k >= 0
        BY <2>2, <2>4 DEF TypeOK
      <3> QED
        BY <2>1, <2>3, <2>4, <3>1, <3>2 DEF FixedInv, Caller
    <2>7. LoopInv'
      <3>1. \A i \in minCS..maxCS : i \in FrameIndices
        BY <2>a DEF LoopInv, FrameIndices
      <3> QED
        BY <2>1, <2>2, <2>3, <2>a, <3>1 DEF LoopInv
    <2>8. FormalInv'
      <3>1. \A k \in (-NumFixed)..(-1) : k \in FrameIndices
        BY <2>a DEF FrameIndices
      <3> QED
        BY <2>1, <2>3, <2>a, <3>1, FormalKept
    <2>9. PlacedInv'
      <3>1. /\ StackSize \in Nat /\ StackSize' \in Nat /\ Offset \in Nat /\ RegSize \in Nat
            /\ Top = Offset /\ Top' = StackSize' /\ Offset <= StackSize
        BY <2>1, WordAssumption DEF TypeOK, Top, PlacedInv
      <3>2. \A k \in FrameIndices : /\ Objects[k].off \in Int /\ Objects[k].size \in Int
                                    /\ k \in Int
        <4>1. \A k \in FrameIndices : Objects[k] \in Object
          BY DEF TypeOK
        <4> QED
          BY <2>a, <4>1 DEF Object, DeadSize, FrameIndices
      <3>3. /\ RegSize * 0 = 0 /\ RegSize * 1 = RegSize /\ RegSize * 2 = RegSize + RegSize
            /\ StackSize <= StackSize'
        BY <2>2, <2>5, <3>1
      <3>4. ASSUME NEW k \in FrameIndices', k \notin FrameIndices
            PROVE  /\ k >= 0
                   /\ \/ Objects'[k].off = StackSize /\ k = NumObjs
                      \/ Objects'[k].off = StackSize + RegSize /\ k = NumObjs + 1
                   /\ Objects'[k].off + RegSize <= StackSize'
        <4>1. /\ k \in NumObjs..(NumObjs + SaveSlots - 1)
              /\ Objects'[k].off = StackSize + RegSize * (k - NumObjs)
          BY <2>4, <3>4
        <4>2. CASE k = NumObjs
          <5>1. k - NumObjs = 0 /\ SaveSlots \in {1, 2}
            BY <2>2, <2>a, <4>1, <4>2
          <5>2. Objects'[k].off = StackSize
            BY <3>1, <3>3, <4>1, <5>1
          <5>3. StackSize' >= StackSize + RegSize
            BY <2>5, <3>1, <3>3, <5>1
          <5> QED
            BY <2>a, <4>2, <5>2, <5>3
        <4>3. CASE k # NumObjs
          <5>1. k - NumObjs = 1 /\ k = NumObjs + 1 /\ SaveSlots = 2
            BY <2>2, <2>a, <4>1, <4>3
          <5>2. Objects'[k].off = StackSize + RegSize
            BY <3>3, <4>1, <5>1
          <5>3. StackSize' >= StackSize + RegSize + RegSize
            BY <2>5, <3>1, <3>3, <5>1
          <5> QED
            BY <2>a, <3>1, <5>1, <5>2, <5>3
        <4> QED
          BY <4>2, <4>3
      <3>5. ASSUME NEW k \in FrameIndices
            PROVE  /\ Caller(k)' <=> Caller(k)
                   /\ Placed(k)' => Placed(k) /\ k >= 0
        BY <2>1, <2>3 DEF Placed, Caller
      <3>6. ASSUME NEW k \in FrameIndices, Placed(k)'
            PROVE  /\ ~Caller(k) /\ Objects'[k].off = Objects[k].off /\ Objects[k].off >= 0
                   /\ Objects'[k].size = Objects[k].size
                   /\ Objects[k].off + Objects[k].size <= StackSize
        <4>1. Placed(k) /\ ~Caller(k)
          BY <3>2, <3>5, <3>6 DEF FixedInv, Caller
        <4>2. Objects[k].off >= 0 /\ Objects[k].off + Objects[k].size <= Offset
          BY <3>1, <4>1 DEF PlacedInv
        <4> QED
          BY <2>3, <3>1, <3>2, <4>1, <4>2
      <3>7. ASSUME NEW f \in FrameIndices', f < 0
            PROVE  /\ f \in FrameIndices
                   /\ ~Caller(f)' => /\ ~Caller(f) /\ Objects'[f].off = Objects[f].off
                                     /\ Objects'[f].size = Objects[f].size
                                     /\ Objects[f].off + Objects[f].size <= StackSize
        <4>1. f \in FrameIndices
          BY <2>a, <3>4, <3>7
        <4>2. Objects[f].off + Objects[f].size <= Offset
          BY <2>1, <3>1, <3>7, <4>1 DEF PlacedInv
        <4> QED
          BY <2>3, <3>1, <3>2, <3>5, <4>1, <4>2
      <3>8. ASSUME NEW k \in FrameIndices', Placed(k)'
            PROVE  /\ Objects'[k].off >= 0
                   /\ Objects'[k].off + Objects'[k].size <= StackSize'
        BY <2>4, <3>1, <3>2, <3>3, <3>4, <3>6, <3>8
      <3>9. ASSUME NEW k \in FrameIndices', Placed(k)',
                   NEW f \in FrameIndices', f < 0, ~Caller(f)'
            PROVE  Objects'[f].off + Objects'[f].size <= Objects'[k].off
        <4>1. CASE k \in FrameIndices
          BY <3>5, <3>6, <3>7, <3>9, <4>1 DEF PlacedInv
        <4>2. CASE k \notin FrameIndices
          BY <3>1, <3>2, <3>4, <3>7, <3>9, <4>2
        <4> QED
          BY <4>1, <4>2
      <3>10. ASSUME NEW k \in FrameIndices', Placed(k)',
                    NEW j \in FrameIndices', Placed(j)', k # j
             PROVE  \/ Objects'[k].off + Objects'[k].size <= Objects'[j].off
                    \/ Objects'[j].off + Objects'[j].size <= Objects'[k].off
        <4>1. CASE k \in FrameIndices /\ j \in FrameIndices
          BY <3>5, <3>6, <3>10, <4>1 DEF PlacedInv
        <4>2. CASE k \in FrameIndices /\ j \notin FrameIndices
          BY <3>1, <3>2, <3>4, <3>6, <3>10, <4>2
        <4>3. CASE k \notin FrameIndices /\ j \in FrameIndices
          BY <3>1, <3>2, <3>4, <3>6, <3>10, <4>3
        <4>4. CASE k \notin FrameIndices /\ j \notin FrameIndices
          BY <2>4, <3>1, <3>4, <3>10, <4>4
        <4> QED
          BY <4>1, <4>2, <4>3, <4>4
      <3>11. \A f \in FrameIndices' : f < 0 /\ ~Caller(f)' =>
               Objects'[f].off + Objects'[f].size <= StackSize'
        BY <3>1, <3>2, <3>3, <3>7
      <3> QED
        BY <2>1, <3>1, <3>8, <3>9, <3>10, <3>11 DEF PlacedInv
    <2> QED
      BY <2>6, <2>7, <2>8, <2>9
  <1> QED
    BY <1>1, <1>2, <1>3, <1>4, <1>5, <1>6, <1>7, <1>8, <1>9 DEF Layout

(***************************************************************************)
(* Theorems.                                                               *)
(***************************************************************************)
\* The inductive invariant.
IInv == TypeOK /\ LayoutInv

\* Types and the layout invariant are preserved by every step.
LEMMA Inductive == IInv /\ [Next]_vars => IInv'
  <1> SUFFICES ASSUME TypeOK, LayoutInv, [Next]_vars PROVE TypeOK' /\ LayoutInv'
    BY DEF IInv
  <1>1. TypeOK'
    BY TypeNext DEF LayoutInv
  <1>2. CASE Lower
    BY <1>1, <1>2, LayoutLower
  <1>3. CASE Layout
    BY <1>1, <1>3, LayoutLayout
  <1>4. CASE UNCHANGED vars
    <2> USE <1>4 DEF vars, mfiVars, fnVars, csVars, offVars, saveVars, LayoutInv,
            FrameIndices
    <2>1. FixedInv'
      BY DEF FixedInv, Caller
    <2>2. LoopInv'
      BY DEF LoopInv
    <2>3. PlacedInv'
      BY DEF PlacedInv, Placed, Caller, Top
    <2>4. FormalInv'
      BY DEF FormalInv
    <2> QED
      BY <1>1, <2>1, <2>2, <2>3, <2>4
  <1> QED
    BY <1>1, <1>2, <1>3, <1>4 DEF Next

\* The frame invariant holds in every reachable state, whatever the function.
THEOREM Invariance == Spec => []IInv
  <1>1. Init => IInv
    BY TypeInit, LayoutInit DEF IInv
  <1> QED
    BY <1>1, Inductive, PTL DEF Spec

\* Type correctness of the frame tables built by instruction selection and PEI.
THEOREM TypeCorrect == Spec => []TypeOK
  <1>1. IInv => TypeOK
    BY DEF IInv
  <1> QED
    BY <1>1, Invariance, PTL

\* The layout invariant by itself: fixed objects, loop positions, placed objects
\* and formal arguments, as the passes of PrologEpilogInserter leave them.
THEOREM LayoutHolds == Spec => []LayoutInv
  <1>1. IInv => LayoutInv
    BY DEF IInv
  <1> QED
    BY <1>1, Invariance, PTL

\* What eliminateFrameIndex computes for an object of this frame.
LEMMA FinalOffsets ==
  ASSUME IInv, pass = "done", NEW i \in FrameIndices, InFrame(i)
  PROVE  /\ i \in Int /\ Objects[i].off \in Nat /\ Objects[i].size \in Nat
         /\ ~Caller(i)
         /\ Start(i) = Objects[i].off /\ End(i) = Objects[i].off + Objects[i].size
         /\ Objects[i].off + Objects[i].size <= StackSize
         /\ i >= 0 => Placed(i)
         /\ i < 0 => Objects[i].kind = "out"
  <1>1. i \in Int /\ Objects[i] \in Object
    BY DEF IInv, TypeOK, FrameIndices
  <1>2. Objects[i].size \in Nat /\ Objects[i].off \in Int /\ ~Caller(i)
    BY <1>1 DEF InFrame, Object, DeadSize, Caller
  <1>3. i >= 0 => Placed(i)
    BY <1>2 DEF Placed
  <1>4. i < 0 => Objects[i].kind = "out"
    BY <1>2 DEF IInv, LayoutInv, FixedInv, Caller
  <1>5. Objects[i].off >= 0
    BY <1>1, <1>3, <1>4 DEF IInv, LayoutInv, FixedInv, PlacedInv
  <1>6. Objects[i].off + Objects[i].size <= StackSize
    BY <1>1, <1>2, <1>3 DEF IInv, LayoutInv, PlacedInv, Top
  <1> QED
    BY <1>1, <1>2, <1>3, <1>4, <1>5, <1>6 DEF Start, End, FrameOffset

\* Placed objects of a finished frame are disjoint, and above the outgoing ones.
LEMMA LayoutDisjoint == IInv => FrameObjectsDisjoint
  <1> SUFFICES ASSUME IInv, pass = "done", NEW i \in FrameIndices,
                      NEW j \in FrameIndices, i # j, InFrame(i), InFrame(j)
               PROVE  Disjoint(i, j) \/ Shared(i, j)
    BY DEF FrameObjectsDisjoint
  <1>1. CASE i < 0 /\ j < 0
    BY <1>1, FinalOffsets DEF Shared
  <1>2. CASE i < 0 /\ j >= 0
    BY <1>2, FinalOffsets DEF Disjoint, IInv, LayoutInv, PlacedInv
  <1>3. CASE i >= 0 /\ j < 0
    BY <1>3, FinalOffsets DEF Disjoint, IInv, LayoutInv, PlacedInv
  <1>4. CASE i >= 0 /\ j >= 0
    BY <1>4, FinalOffsets DEF Disjoint, IInv, LayoutInv, PlacedInv
  <1>5. i \in Int /\ j \in Int
    BY FinalOffsets
  <1> QED
    BY <1>1, <1>2, <1>3, <1>4, <1>5

\* For every function, no two objects of its frame share a byte: locals, spilled
\* callee-saved registers, FP, RA and outgoing arguments do not overwrite one
\* another.
THEOREM ObjectsDisjoint == Spec => []FrameObjectsDisjoint
  BY LayoutDisjoint, Invariance, PTL

\* For every function, its objects lie in the bytes that the prologue allocates.
THEOREM ObjectsInside == Spec => []ObjectsInsideFrame
  <1>1. IInv => ObjectsInsideFrame
    BY FinalOffsets DEF ObjectsInsideFrame
  <1> QED
    BY <1>1, Invariance, PTL

\* The recorded offsets, once installed, give the addresses of the arguments.
LEMMA LayoutIncoming == IInv => IncomingArgsWhereCallerPutThem
  <1> SUFFICES ASSUME IInv, pass = "done" PROVE IncomingArgsWhereCallerPutThem
    BY DEF IncomingArgsWhereCallerPutThem
  <1> DEFINE sw == StackWords(numFormals)
             vh == VarArgHomes(numFormals, isVarArg)
             fl == FirstStackArgLoc(isVarArg)
  <1>1. /\ numFormals \in Nat /\ isVarArg \in BOOLEAN /\ NumFixed \in Nat
        /\ NumObjs \in Nat /\ StackSize \in Nat
    BY DEF IInv, TypeOK
  <1>2. sw \in Nat /\ vh \in Nat /\ fl \in Nat
    BY <1>1, WordCounts
  <1>3. /\ sw + vh <= NumFixed
        /\ \A j \in 1..(sw + vh) :
             /\ Objects[-j].kind = FormalObject(numFormals, isVarArg, j).kind
             /\ Objects[-j].sp = FormalObject(numFormals, isVarArg, j).sp
        /\ vh > 0 => VarArgsFrameIndex = -(sw + 1)
    BY DEF IInv, LayoutInv, FormalInv
  <1> HIDE DEF sw, vh, fl
  <1>4. ASSUME NEW j \in 1..(sw + vh)
        PROVE  /\ FormalObject(numFormals, isVarArg, j).sp \in Int
               /\ FrameOffset(-j) =
                    StackSize - FormalObject(numFormals, isVarArg, j).sp - RegSize
    <2>1. -j \in FrameIndices /\ j \in Nat \ {0}
      BY <1>1, <1>2, <1>3 DEF FrameIndices
    <2>2. /\ FormalObject(numFormals, isVarArg, j).kind \in {"arg", "va"}
          /\ FormalObject(numFormals, isVarArg, j).sp <= -RegSize
      BY <1>1, <2>1, FormalObjectFields
    <2>3. FormalObject(numFormals, isVarArg, j).sp \in Int
      BY <1>1, <2>1, FormalObjectType DEF Object
    <2>4. Objects[-j].off = FormalObject(numFormals, isVarArg, j).sp
      BY <1>3, <2>1, <2>2 DEF IInv, LayoutInv, FixedInv, Caller
    <2> QED
      BY <1>1, <2>2, <2>3, <2>4, WordAssumption DEF FrameOffset
  <1>5. ASSUME NEW j \in 0..(sw - 1)
        PROVE  FrameOffset(-(j + 1)) = StackSize + fl + LocMemOffset(j)
    <2>1. j + 1 \in 1..(sw + vh) /\ j + 1 <= sw /\ RegSize * j \in Nat
      BY <1>2, SlotBytes
    <2>2. FormalObject(numFormals, isVarArg, j + 1).sp = -(RegSize + fl + RegSize * j)
      BY <2>1 DEF FormalObject, FixedObject, LocMemOffset, sw, fl
    <2> QED
      BY <1>1, <1>2, <1>4, <2>1, <2>2, WordAssumption DEF LocMemOffset
  <1>6. ASSUME NEW j \in 0..(vh - 1)
        PROVE  FrameOffset(VarArgsFrameIndex - j) = StackSize + RegSize * (numFormals + j)
    <2>1. /\ sw + 1 + j \in 1..(sw + vh) /\ ~(sw + 1 + j <= sw)
          /\ (sw + 1 + j) - sw - 1 = j
          /\ VarArgsFrameIndex - j = -(sw + 1 + j)
      BY <1>2, <1>3
    <2>2. FormalObject(numFormals, isVarArg, sw + 1 + j).sp
            = -(RegSize + RegSize * (numFormals + j))
      BY <2>1 DEF FormalObject, FixedObject, sw
    <2>3. RegSize * (numFormals + j) \in Nat
      BY <1>1, <1>2, SlotBytes
    <2>4. FrameOffset(-(sw + 1 + j)) =
            StackSize - FormalObject(numFormals, isVarArg, sw + 1 + j).sp - RegSize
      BY <1>4, <2>1
    <2> QED
      BY <1>1, <2>1, <2>2, <2>3, <2>4, WordAssumption
  <1> QED
    BY <1>5, <1>6 DEF IncomingArgsWhereCallerPutThem, sw, vh, fl

\* For every argument list, the callee finds each stack word and each home at
\* the distance above its frame at which LowerCall of the caller placed it.
THEOREM IncomingArgs == Spec => []IncomingArgsWhereCallerPutThem
  BY LayoutIncoming, Invariance, PTL

\* An object that has been placed is never moved.
THEOREM PlacedStay == Spec => PlacedObjectsStay
  <1> DEFINE A == \A i \in FrameIndices : Placed(i) => Objects'[i].off = Objects[i].off
  <1>1. IInv /\ [Next]_vars => [A]_vars
    <2> SUFFICES ASSUME TypeOK, LayoutInv, Next,
                        NEW i \in FrameIndices, Placed(i)
                 PROVE  Objects'[i].off = Objects[i].off
      BY DEF IInv
    <2>1. pass \in {"cs", "rest", "adjust", "done"} /\ i >= 0 /\ Objects[i].size >= 0
      BY DEF Placed
    <2>2. ASSUME NEW k \in FrameIndices, Objects[k].size >= 0, ~Placed(k), AdjustStackOffset(k)
          PROVE  Objects'[i].off = Objects[i].off
      BY <2>2, AdjustFacts
    <2>3. CASE PlaceCalleeSaved
      <3>1. /\ idx \in FrameIndices /\ Objects[idx].size >= 0 /\ ~Placed(idx)
            /\ AdjustStackOffset(idx)
        BY <2>3 DEF PlaceCalleeSaved, LayoutInv, LoopInv, Placed, FrameIndices, TypeOK
      <3> QED
        BY <2>2, <3>1
    <2>4. CASE PlaceObject
      <3>1. idx \in FrameIndices /\ idx \in Int
        BY <2>4 DEF PlaceObject, LayoutInv, LoopInv, FrameIndices, TypeOK
      <3>2. Objects[idx].size >= 0 /\ ~Placed(idx) /\ AdjustStackOffset(idx)
        BY <2>4, <3>1 DEF PlaceObject, Skipped, Placed, TypeOK, Object, DeadSize
      <3> QED
        BY <2>2, <3>1, <3>2
    <2>5. CASE AdjustRigelStackFrame
      <3>1. i < NumObjs /\ i \in (-NumFixed)..(NumObjs + SaveSlots - 1)
        BY DEF FrameIndices, TypeOK, SaveSlots
      <3>2. Objects[i].kind \notin {"arg", "va"}
        BY <2>1 DEF LayoutInv, FixedInv, FrameIndices, TypeOK
      <3> QED
        BY <2>5, <3>1, <3>2 DEF AdjustRigelStackFrame, FrameIndices, TypeOK
    <2> QED
      BY <2>1, <2>3, <2>4, <2>5
         DEF Next, Lower, Layout, CreateStackObject, RemoveStackObject,
             LowerFormalArguments, LowerCall, VisitAlloca, mfiVars,
             CalculateCalleeSavedRegisters, SkipFixedObject, FixedDone,
             CalleeSavedDone, SkipObject, SetStackSize
  <1> QED
    BY <1>1, Invariance, PTL DEF Spec, PlacedObjectsStay

(***************************************************************************)
(* The slots that the prologue, the spills and the epilogue use.           *)
(***************************************************************************)
\* Rounding up gives a multiple of the alignment.
LEMMA AlignUpMultiple ==
  ASSUME NEW x \in Nat, NEW a \in Nat \ {0}
  PROVE  AlignUp(x, a) % a = 0
  <1>1. PICK q : q = (x + a - 1) \div a
    OBVIOUS
  <1>2. q \in Int
    BY <1>1
  <1>3. (q * a + 0) % a = 0
    BY <1>2, DivModUnique
  <1>4. q * a + 0 = q * a
    BY <1>2
  <1> QED
    BY <1>1, <1>3, <1>4 DEF AlignUp

\* The facts about the slots are preserved by every step.
LEMMA SlotInit == Init => SlotInv
  BY RegAssumption DEF Init, SlotInv, FrameIndices

LEMMA SlotNext == IInv /\ SlotInv /\ [Next]_vars => SlotInv'
  <1> SUFFICES ASSUME IInv, IInv', SlotInv, [Next]_vars PROVE SlotInv'
    BY Inductive
  <1> USE DEF mfiVars, fnVars, csVars, offVars, saveVars, callVars
  <1>0. /\ NumFixed \in Nat /\ NumObjs \in Nat /\ minCS \in Nat /\ maxCS \in Int
        /\ pass \in {"set", "body"} => maxCS = -1
        /\ 0 <= minCS /\ minCS <= maxCS + 1 /\ maxCS < NumObjs
        /\ Objects \in [FrameIndices -> Object]
    BY DEF IInv, TypeOK, LayoutInv, LoopInv
  <1>a. \A i \in FrameIndices : Caller(i) => i < 0
    BY DEF IInv, LayoutInv, FixedInv, Caller
  <1>1. CASE \E s \in Sizes, a \in Aligns : CreateStackObject(s, a)
    <2>1. PICK s \in Sizes, a \in Aligns : CreateStackObject(s, a)
      BY <1>1
    <2>2. s # 0
      BY ObjectAssumption
    <2> QED
      BY <1>0, <2>1, <2>2 DEF CreateStackObject, PushBack, StackObject, SlotInv, FrameIndices, Caller
  <1>2. CASE \E i \in FrameIndices : RemoveStackObject(i)
    <2>1. PICK i \in FrameIndices : RemoveStackObject(i)
      BY <1>2
    <2> QED
      BY <1>0, <2>1 DEF RemoveStackObject, WithSize, DeadSize, SlotInv, FrameIndices, Caller
  <1>3. CASE \E n \in FormalCounts, va \in BOOLEAN : LowerFormalArguments(n, va)
    <2>1. PICK n \in FormalCounts, va \in BOOLEAN : LowerFormalArguments(n, va)
      BY <1>3
    <2>2. StackWords(n) + VarArgHomes(n, va) \in Nat
      BY ObjectAssumption, WordCounts
    <2>3. \A j \in 1..(StackWords(n) + VarArgHomes(n, va)) :
            FormalObject(n, va, j).kind \notin {"local", "dynamic", "csr", "save"}
      BY DEF FormalObject, FixedObject
    <2>4. NumFixed = 0
      BY <2>1 DEF LowerFormalArguments, IInv, LayoutInv, FormalInv
    <2> QED
      BY <1>0, <1>a, <2>1, <2>2, <2>3, <2>4
      DEF LowerFormalArguments, CreateFixedObjects, SlotInv, FrameIndices, Caller
  <1>4. CASE \E n \in CallCounts, va \in CallVarArgs : LowerCall(n, va)
    <2>1. PICK n \in CallCounts, va \in CallVarArgs : LowerCall(n, va)
      BY <1>4
    <2>2. CallObjects(n, va) \in Nat
      BY ObjectAssumption, WordCounts
    <2>3. \A j \in 1..CallObjects(n, va) :
            CallObject(va, j).kind = "out"
      BY DEF CallObject, FixedObject
    <2> QED
      BY <1>0, <2>1, <2>2, <2>3 DEF LowerCall, CreateFixedObjects, SlotInv, FrameIndices, Caller
  <1>5. CASE \E a \in DynAligns : VisitAlloca(a)
    <2>1. PICK a \in DynAligns : VisitAlloca(a)
      BY <1>5
    <2>2. PICK b : b = IF a <= StackAlign THEN 1 ELSE a
      OBVIOUS
    <2>3. b > StackAlign => b \in DynAligns
      BY <2>2, WordAssumption, ObjectAssumption
    <2> QED
      BY <1>0, <2>1, <2>2, <2>3
      DEF VisitAlloca, PushBack, StackObject, SlotInv, FrameIndices, Caller
  <1>6. CASE \E n \in 0..NumCSRs : CalculateCalleeSavedRegisters(n)
    <2>1. PICK n \in 0..NumCSRs : CalculateCalleeSavedRegisters(n)
      BY <1>6
    <2> QED
      BY <1>0, <2>1, RegAssumption
      DEF CalculateCalleeSavedRegisters, StackObject, SlotInv, FrameIndices, Caller
  <1>7. ASSUME UNCHANGED <<Objects, NumFixed, NumObjs, hasVarSized, csVars, fnVars>>, pass' # "done"
        PROVE  SlotInv'
    BY <1>7 DEF SlotInv, FrameIndices, Caller
  <1>8. CASE SkipFixedObject
    BY <1>7, <1>8 DEF SkipFixedObject
  <1>9. CASE FixedDone
    BY <1>7, <1>9 DEF FixedDone
  <1>10. CASE CalleeSavedDone
    BY <1>7, <1>10 DEF CalleeSavedDone
  <1>11. CASE SkipObject
    BY <1>7, <1>11 DEF SkipObject
  <1>12. CASE SetStackSize
    BY <1>7, <1>12 DEF SetStackSize
  <1>13. ASSUME NEW i, AdjustStackOffset(i), pass' # "done",
                UNCHANGED <<NumFixed, NumObjs, hasVarSized, csVars, fnVars>>
         PROVE  SlotInv'
    BY <1>0, <1>13 DEF AdjustStackOffset, WithOffset, SlotInv, FrameIndices, Caller
  <1>14. CASE PlaceCalleeSaved
    BY <1>13, <1>14 DEF PlaceCalleeSaved
  <1>15. CASE PlaceObject
    BY <1>13, <1>15 DEF PlaceObject
  <1>16. CASE AdjustRigelStackFrame
    <2>1. /\ SaveSlots \in 0..2 /\ SaveSlots' = SaveSlots
          /\ hasFP => SaveSlots >= 1
          /\ hasCalls => SaveSlots >= 1
          /\ hasFP /\ hasCalls => SaveSlots = 2
          /\ hasFP' = hasFP /\ hasCalls' = hasCalls
      BY <1>16 DEF AdjustRigelStackFrame, SaveSlots, hasFP
    <2>2. /\ NumFixed' = NumFixed /\ NumObjs' = NumObjs + SaveSlots
          /\ minCS' = minCS /\ maxCS' = maxCS /\ hasVarSized' = hasVarSized
          /\ numFormals' = numFormals /\ isVarArg' = isVarArg
      BY <1>16 DEF AdjustRigelStackFrame
    <2>3. \A i \in FrameIndices' :
            /\ i < NumObjs => /\ i \in FrameIndices /\ Objects'[i].kind = Objects[i].kind
                              /\ Objects'[i].size = Objects[i].size
                              /\ Objects'[i].align = Objects[i].align
            /\ i >= NumObjs => /\ Objects'[i].kind = "save" /\ Objects'[i].size = RegSize
                               /\ Objects'[i].off = StackSize + RegSize * (i - NumObjs)
      BY <1>0, <1>16, <2>1, <2>2
      DEF AdjustRigelStackFrame, FrameIndices, SaveSlot, StackObject, WithOffset
    <2>4. StackSize' % StackAlign = 0
      <3>1. StackSize \in Nat /\ RegSize * SaveSlots \in Nat
        BY <2>1, SlotBytes DEF IInv, TypeOK
      <3>2. StackSize + RegSize * SaveSlots \in Nat
        BY <3>1
      <3>3. StackSize' = AlignUp(StackSize + RegSize * SaveSlots, StackAlign)
        BY <1>16 DEF AdjustRigelStackFrame
      <3> QED
        BY <3>2, <3>3, AlignUpMultiple, SlotBytes
    <2>5. /\ hasFP => FPStackOffset' = StackSize
          /\ hasCalls => RAStackOffset' = (StackSize + RegSize * SaveSlots) - RegSize
      <3>1. FPStackOffset' = IF hasFP THEN StackSize ELSE FPStackOffset
        BY <1>16, Zenon DEF AdjustRigelStackFrame
      <3>2. RAStackOffset' = IF hasCalls THEN (StackSize + RegSize * SaveSlots) - RegSize
                                         ELSE RAStackOffset
        BY <1>16 DEF AdjustRigelStackFrame
      <3> QED
        BY <3>1, <3>2, Zenon
    <2>6. /\ StackSize \in Nat /\ RegSize \in Nat /\ NumObjs \in Nat
          /\ RegSize * 0 = 0 /\ RegSize * 1 = RegSize /\ RegSize * 2 = RegSize + RegSize
      BY <1>0, SlotBytes DEF IInv, TypeOK
    <2>7. hasFP => IsSaveSlot(FPSlot, FPStackOffset)'
      <3> SUFFICES ASSUME hasFP PROVE IsSaveSlot(FPSlot, FPStackOffset)'
        OBVIOUS
      <3>1. FPSlot' = NumObjs /\ NumObjs \in 0..(NumObjs' - 1) /\ NumObjs \in FrameIndices'
        BY <1>0, <2>1, <2>2 DEF FPSlot, FrameIndices
      <3>2. NumObjs - NumObjs = 0 /\ NumObjs >= NumObjs
        BY <2>6
      <3>3. /\ Objects'[NumObjs].kind = "save" /\ Objects'[NumObjs].size = RegSize
            /\ Objects'[NumObjs].off = StackSize + RegSize * 0
        BY <2>3, <3>1, <3>2
      <3>4. FPStackOffset' = StackSize /\ StackSize + RegSize * 0 = StackSize
        BY <2>5, <2>6
      <3>5. Objects'[NumObjs].off = FPStackOffset'
        BY <3>3, <3>4
      <3> QED
        BY <3>1, <3>3, <3>5 DEF IsSaveSlot
    <2>8. hasCalls => IsSaveSlot(RASlot, RAStackOffset)'
      <3> SUFFICES ASSUME hasCalls PROVE IsSaveSlot(RASlot, RAStackOffset)'
        OBVIOUS
      <3>1. PICK r : r = NumObjs + SaveSlots - 1
        OBVIOUS
      <3>2. RASlot' = r /\ r \in 0..(NumObjs' - 1) /\ r \in FrameIndices' /\ r >= NumObjs
        BY <1>0, <2>1, <2>2, <3>1 DEF RASlot, FrameIndices
      <3>3. Objects'[r].off = StackSize + RegSize * (r - NumObjs)
        BY <2>3, <3>2
      <3>4. StackSize + RegSize * (r - NumObjs) = RAStackOffset'
        <4>1. CASE SaveSlots = 1
          <5>1. r - NumObjs = 0
            BY <4>1, <3>1, <2>6
          <5> QED
            BY <5>1, <4>1, <2>5, <2>6
        <4>2. CASE SaveSlots = 2
          <5>1. r - NumObjs = 1
            BY <4>2, <3>1, <2>6
          <5> QED
            BY <5>1, <4>2, <2>5, <2>6
        <4> QED
          BY <4>1, <4>2, <2>1
      <3> QED
        BY <2>3, <3>2, <3>3, <3>4 DEF IsSaveSlot
    <2>9. hasFP /\ hasCalls => FPStackOffset' + RegSize = RAStackOffset'
      BY <2>1, <2>5, <2>6
    <2>10. \A i \in minCS..maxCS : i \in FrameIndices' /\ i < NumObjs
      BY <1>0, <2>1, <2>2 DEF FrameIndices
    <2>11. /\ \A i \in FrameIndices' :
                /\ Objects'[i].kind = "local" => Objects'[i].size # 0
                /\ Objects'[i].kind = "dynamic" =>
                     /\ hasVarSized'
                     /\ Objects'[i].align > StackAlign => Objects'[i].align \in DynAligns
                /\ Caller(i)' => i >= -(StackWords(numFormals') + VarArgHomes(numFormals', isVarArg'))
           /\ maxCS' - minCS' + 1 \in 0..NumCSRs
           /\ \A i \in minCS'..maxCS' : Objects'[i].kind = "csr" /\ Objects'[i].size = RegSize
      <3>1. \A i \in FrameIndices' : i < NumObjs \/ i >= NumObjs
        BY <2>1, <2>2, <2>6, <1>0 DEF FrameIndices
      <3> QED
        BY <2>2, <2>3, <2>10, <3>1 DEF SlotInv, Caller
    <2> QED
      BY <2>1, <2>4, <2>7, <2>8, <2>9, <2>11 DEF SlotInv
  <1>17. CASE UNCHANGED vars
    BY <1>17 DEF SlotInv, FrameIndices, Caller, vars, hasFP, IsSaveSlot, FPSlot, RASlot, SaveSlots
  <1> QED
    BY <1>1, <1>2, <1>3, <1>4, <1>5, <1>6, <1>8, <1>9, <1>10, <1>11, <1>12, <1>14, <1>15,
       <1>16, <1>17 DEF Next, Lower, Layout

\* The slots for FP and RA that adjustRigelStackFrame appends are at the offsets
\* that emitPrologue and emitEpilogue use, and each spilled register has a word.
THEOREM SlotsHold == Spec => []SlotInv
  <1> QED
    BY SlotInit, SlotNext, Invariance, PTL DEF Spec
===========================================================================
