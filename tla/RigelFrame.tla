------------------------------ MODULE RigelFrame ------------------------------
(***************************************************************************)
(* The stack frame of one function, from the lowering of its arguments and *)
(* calls (RigelISelLowering.cpp) through the generic prolog/epilog         *)
(* inserter (PrologEpilogInserter.cpp) to the final Rigel adjustment       *)
(* (RigelRegisterInfo.cpp).                                                *)
(*                                                                         *)
(* Frame objects live in one table, MachineFrameInfo::Objects: the fixed   *)
(* ones have negative indices and are created by inserting at the front,   *)
(* the others have indices 0, 1, ... .  Stack growth is StackGrowsUp: all  *)
(* offsets are non-negative distances above SP (or FP) once the prologue   *)
(* has run; objects of the caller's frame are recorded with negative       *)
(* numbers that eliminateFrameIndex turns into StackSize + distance.       *)
(***************************************************************************)
EXTENDS Integers

CONSTANTS
  RegSize,     \* bytes of a register and of an argument slot (4)
  StackAlign,  \* TargetFrameInfo stack and transient alignment (4)
  NumArgRegs,  \* argument registers A0..A7 (8)
  NumCSRs,     \* callee-saved registers S0..S7 (8)
  Sizes,       \* sizes of statically sized objects
  Aligns,      \* alignments of statically sized objects
  DynAligns,   \* alignments of variable sized allocas ({}: there is none)
  FPElimOff,   \* values of -disable-fp-elim that are considered
  FormalCounts,\* numbers of argument words of the function itself
  CallCounts,  \* numbers of argument words of the calls it makes
  CallVarArgs, \* whether the calls it makes are to variadic functions
  MaxObjs,     \* bound: stack objects created before PEI
  MaxFixed     \* bound: fixed objects

ASSUME WordAssumption ==
  /\ RegSize \in Nat \ {0}
  /\ StackAlign \in Nat \ {0}
  /\ RegSize % StackAlign = 0

ASSUME RegAssumption == NumArgRegs \in Nat \ {0} /\ NumCSRs \in Nat

ASSUME ObjectAssumption ==
  /\ Sizes \subseteq Nat \ {0}
  /\ Aligns \subseteq Nat \ {0}
  /\ DynAligns \subseteq Nat \ {0}
  /\ FPElimOff \subseteq BOOLEAN
  /\ FormalCounts \subseteq Nat
  /\ CallCounts \subseteq Nat
  /\ CallVarArgs \subseteq BOOLEAN
  /\ MaxObjs \in Nat
  /\ MaxFixed \in Nat

VARIABLES
  pass,         \* the pass that runs next
  Objects,      \* frame index |-> object
  NumFixed,     \* MachineFrameInfo::NumFixedObjects
  NumObjs,      \* Objects.size() - NumFixedObjects
  maxAlign,     \* MachineFrameInfo::MaxAlignment
  isVarArg,     \* the function is variadic
  numFormals,   \* ArgLocs.size() of LowerFormalArguments
  VarArgsFrameIndex,
  hasVarSized,  \* MachineFrameInfo::HasVarSizedObjects
  hasCalls,     \* MachineFrameInfo::HasCalls
  adjustsStack, \* some call frame pseudo was emitted
  maxCallFrame, \* the largest operand of a call frame pseudo
  disableFPElim,\* DisableFramePointerElim(MF)
  minCS, maxCS, \* PEI's MinCSFrameIndex and MaxCSFrameIndex
  idx,          \* loop variable of calculateFrameObjectOffsets
  Offset,       \* its running offset
  StackSize,    \* MachineFrameInfo::StackSize
  FPStackOffset, RAStackOffset, CPUTopSavedRegOff

mfiVars  == <<Objects, NumFixed, NumObjs, maxAlign>>
fnVars   == <<isVarArg, numFormals, VarArgsFrameIndex, disableFPElim>>
callVars == <<hasVarSized, hasCalls, adjustsStack, maxCallFrame>>
csVars   == <<minCS, maxCS>>
offVars  == <<idx, Offset>>
saveVars == <<StackSize, FPStackOffset, RAStackOffset, CPUTopSavedRegOff>>
vars == <<pass, mfiVars, fnVars, callVars, csVars, offVars, saveVars>>

(***************************************************************************)
(* Objects.  "kind" says who created the object: "local" (a static alloca, *)
(* temporary or register-allocator spill), "dynamic" (the placeholder of a *)
(* variable sized alloca), "csr" (a callee-saved register's spill slot),   *)
(* "save" (FP or RA), "out" (an outgoing argument or the home area of a    *)
(* variadic call), "arg" (an incoming stack argument) and "va" (the home   *)
(* of a register argument of a variadic function).  "sp" is the SPOffset   *)
(* of the RigelFIHolder that records an "arg" or "va" object.              *)
(***************************************************************************)
Kinds == {"local", "dynamic", "csr", "save", "out", "arg", "va"}

\* Size given to an object by RemoveStackObject (~0ULL in the code).
DeadSize == -1

Object == [size : Nat \cup {DeadSize}, align : Nat \ {0}, off : Int,
           sp : Int, kind : Kinds]

FrameIndices == (-NumFixed)..(NumObjs - 1)

StackObject(s, a, k) ==
  [size |-> s, align |-> a, off |-> 0, sp |-> 0, kind |-> k]

FixedObject(o, sp, k) ==
  [size |-> RegSize, align |-> StackAlign, off |-> o, sp |-> sp, kind |-> k]

\* Field updates of an object: setObjectOffset, RemoveStackObject.
WithOffset(obj, o) ==
  [size |-> obj.size, align |-> obj.align, off |-> o, sp |-> obj.sp, kind |-> obj.kind]

WithSize(obj, s) ==
  [size |-> s, align |-> obj.align, off |-> obj.off, sp |-> obj.sp, kind |-> obj.kind]

Larger(a, b) == IF a > b THEN a ELSE b

\* Mutants of AlignUp: rounding down; the mask is missing.
AlignDown(x, a) == (x \div a) * a

AlignNoMask(x, a) == x + a - 1

\* (x + a - 1) / a * a
AlignUp(x, a) == ((x + a - 1) \div a) * a

hasFP == disableFPElim \/ hasVarSized

\* RegInfo->hasReservedCallFrame: the default of TargetRegisterInfo.
hasReservedCallFrame == ~hasFP

\* FirstStackArgLoc: variadic functions keep a home for each argument register.
FirstStackArgLoc(va) == IF va THEN RegSize * NumArgRegs ELSE 0

\* CC_Rigel: the words of an argument list that do not fit in registers.
StackWords(n) == IF n > NumArgRegs THEN n - NumArgRegs ELSE 0

\* LocMemOffset of the j-th stack word (from 0).
LocMemOffset(j) == RegSize * j

(***************************************************************************)
(* MachineFrameInfo.                                                       *)
(***************************************************************************)

\* Objects.push_back: the new object gets index NumObjs.
PushBack(obj) ==
  /\ Objects' = [i \in (-NumFixed)..NumObjs |->
                   IF i = NumObjs THEN obj ELSE Objects[i]]
  /\ NumObjs' = NumObjs + 1
  /\ maxAlign' = Larger(maxAlign, obj.align)

\* Mutant of CreateFixedObjects: ++NumFixedObjects is missing.
CreateFixedUncounted(n, new) ==
  /\ Objects' = [i \in (-(NumFixed + n))..(NumObjs - 1) |->
                   IF i < -NumFixed THEN new[-i - NumFixed] ELSE Objects[i]]
  /\ NumFixed' = NumFixed

\* n calls of CreateFixedObject; the j-th one (from 1) gets index
\* -(NumFixed + j) and is the object new[j].
CreateFixedObjects(n, new) ==
  /\ Objects' = [i \in (-(NumFixed + n))..(NumObjs - 1) |->
                   IF i < -NumFixed THEN new[-i - NumFixed] ELSE Objects[i]]
  /\ NumFixed' = NumFixed + n

(***************************************************************************)
(* Instruction selection.                                                  *)
(***************************************************************************)

\* A static alloca (FunctionLoweringInfo::set, before the arguments are
\* lowered), or a temporary or spill slot created while the body is compiled.
CreateStackObject(s, a) ==
  /\ pass \in {"set", "body"}
  /\ NumObjs < MaxObjs
  /\ PushBack(StackObject(s, a, "local"))
  /\ UNCHANGED <<pass, NumFixed, fnVars, callVars, csVars, offVars, saveVars>>

\* Stack slot coloring marks a slot dead; its index stays.
RemoveStackObject(i) ==
  /\ pass = "body"
  /\ Objects[i].kind = "local"
  /\ Objects' = [Objects EXCEPT ![i] = WithSize(Objects[i], DeadSize)]
  /\ UNCHANGED <<pass, NumFixed, NumObjs, maxAlign, fnVars, callVars, csVars,
                 offVars, saveVars>>

\* Homes written by a variadic function: the argument registers after the
\* last named one, unless there is none (ArgRegEnd = 0) or it is on the stack.
VarArgHomes(n, va) ==
  IF va /\ n > 0 /\ n <= NumArgRegs THEN NumArgRegs - n ELSE 0

\* Mutants of FormalObject: the home area is not skipped; the homes start one
\* register too high.
FormalNoHomeArea(n, va, j) ==
  IF j <= StackWords(n)
    THEN FixedObject(0, -(RegSize + LocMemOffset(j - 1)), "arg")
    ELSE FixedObject(0, -(RegSize + RegSize * (n + (j - StackWords(n) - 1))), "va")

FormalHomesShifted(n, va, j) ==
  IF j <= StackWords(n)
    THEN FixedObject(0, -(RegSize + FirstStackArgLoc(va) + LocMemOffset(j - 1)), "arg")
    ELSE FixedObject(0, -(RegSize + RegSize * (n + (j - StackWords(n)))), "va")

\* The j-th fixed object of LowerFormalArguments: first the stack arguments,
\* then the homes.  Both get the dummy offset 0 and are recorded.
FormalObject(n, va, j) ==
  IF j <= StackWords(n)
    THEN FixedObject(0, -(RegSize + FirstStackArgLoc(va) + LocMemOffset(j - 1)), "arg")
    ELSE FixedObject(0, -(RegSize + RegSize * (n + (j - StackWords(n) - 1))), "va")

LowerFormalArguments(n, va) ==
  /\ pass = "set"
  /\ StackWords(n) + VarArgHomes(n, va) <= MaxFixed
  /\ CreateFixedObjects(StackWords(n) + VarArgHomes(n, va),
                        [j \in 1..(StackWords(n) + VarArgHomes(n, va)) |-> FormalObject(n, va, j)])
  /\ VarArgsFrameIndex' = IF VarArgHomes(n, va) > 0
                            THEN -(NumFixed + StackWords(n) + 1) ELSE 0
  /\ isVarArg' = va
  /\ numFormals' = n
  /\ pass' = "body"
  /\ UNCHANGED <<NumObjs, maxAlign, disableFPElim, callVars, csVars, offVars,
                 saveVars>>

\* Fixed objects of LowerCall: the last slot of the home area of a variadic
\* call, then the stack arguments.
CallObjects(n, va) == (IF va THEN 1 ELSE 0) + StackWords(n)

\* Mutant of CallObject: the home area of a variadic callee is forgotten.
CallNoHomeArea(va, j) ==
  LET k == IF va THEN j - 2 ELSE j - 1
  IN FixedObject(IF k < 0 THEN 0 ELSE LocMemOffset(k), 0, "out")

CallObject(va, j) ==
  LET k == IF va THEN j - 2 ELSE j - 1
  IN FixedObject(IF k < 0 THEN RegSize * (NumArgRegs - 1)
                          ELSE FirstStackArgLoc(va) + LocMemOffset(k), 0, "out")

LowerCall(n, va) ==
  /\ pass = "body"
  /\ NumFixed + CallObjects(n, va) <= MaxFixed
  /\ CreateFixedObjects(CallObjects(n, va), [j \in 1..CallObjects(n, va) |-> CallObject(va, j)])
  /\ hasCalls' = TRUE
  /\ adjustsStack' = TRUE
  /\ maxCallFrame' = Larger(maxCallFrame, LocMemOffset(StackWords(n)))
  /\ UNCHANGED <<pass, NumObjs, maxAlign, fnVars, hasVarSized, csVars, offVars,
                 saveVars>>

\* visitAlloca of a variable sized object, and the call frame pseudos
\* (of size 0) around its expansion.
VisitAlloca(a) ==
  /\ pass = "body"
  /\ NumObjs < MaxObjs
  /\ PushBack(StackObject(0, IF a <= StackAlign THEN 1 ELSE a, "dynamic"))
  /\ hasVarSized' = TRUE
  /\ adjustsStack' = TRUE
  /\ UNCHANGED <<pass, NumFixed, fnVars, hasCalls, maxCallFrame, csVars,
                 offVars, saveVars>>

(***************************************************************************)
(* The prolog/epilog inserter.                                             *)
(***************************************************************************)

\* calculateCalleeSavedRegisters with n callee-saved registers modified.
\* minCS > maxCS stands for the initial INT_MAX and 0.
CalculateCalleeSavedRegisters(n) ==
  /\ pass = "body"
  /\ Objects' = [i \in (-NumFixed)..(NumObjs + n - 1) |->
                   IF i >= NumObjs THEN StackObject(RegSize, StackAlign, "csr")
                                   ELSE Objects[i]]
  /\ NumObjs' = NumObjs + n
  /\ minCS' = NumObjs
  /\ maxCS' = NumObjs + n - 1
  /\ maxAlign' = IF n > 0 THEN Larger(maxAlign, StackAlign) ELSE maxAlign
  /\ pass' = "fixed"
  /\ idx' = -NumFixed
  /\ Offset' = 0
  /\ UNCHANGED <<NumFixed, fnVars, callVars, saveVars>>

\* calculateFrameObjectOffsets, first loop: Offset ends above the fixed
\* objects.
SkipFixedObject ==
  /\ pass = "fixed" /\ idx < 0
  /\ Offset' = Larger(Offset, Objects[idx].off + Objects[idx].size)
  /\ idx' = idx + 1
  /\ UNCHANGED <<pass, mfiVars, fnVars, callVars, csVars, saveVars>>

FixedDone ==
  /\ pass = "fixed" /\ idx = 0
  /\ pass' = "cs"
  /\ idx' = maxCS
  /\ UNCHANGED <<Offset, mfiVars, fnVars, callVars, csVars, saveVars>>

\* Mutant of AdjustStackOffset: Offset += size is missing.
AdjustNoAdvance(i) ==
  LET o == AlignUp(Offset, Objects[i].align)
  IN /\ Objects' = [Objects EXCEPT ![i] = WithOffset(Objects[i], o)]
     /\ Offset' = o
     /\ maxAlign' = Larger(maxAlign, Objects[i].align)

\* AdjustStackOffset for a stack that grows up (the loop over the
\* callee-saved slots has the same body).
AdjustStackOffset(i) ==
  LET o == AlignUp(Offset, Objects[i].align)
  IN /\ Objects' = [Objects EXCEPT ![i] = WithOffset(Objects[i], o)]
     /\ Offset' = o + Objects[i].size
     /\ maxAlign' = Larger(maxAlign, Objects[i].align)

\* Second loop: callee-saved slots, from the last to the first.
PlaceCalleeSaved ==
  /\ pass = "cs" /\ idx >= minCS
  /\ AdjustStackOffset(idx)
  /\ idx' = idx - 1
  /\ UNCHANGED <<pass, NumFixed, NumObjs, fnVars, callVars, csVars, saveVars>>

CalleeSavedDone ==
  /\ pass = "cs" /\ idx < minCS
  /\ pass' = "rest"
  /\ idx' = 0
  /\ UNCHANGED <<Offset, mfiVars, fnVars, callVars, csVars, saveVars>>

\* Mutant of Skipped: callee-saved slots are not skipped.
SkippedDeadOnly(i) == Objects[i].size = DeadSize

\* Third loop: every other object that is alive.
Skipped(i) == i \in minCS..maxCS \/ Objects[i].size = DeadSize

PlaceObject ==
  /\ pass = "rest" /\ idx < NumObjs
  /\ ~Skipped(idx)
  /\ AdjustStackOffset(idx)
  /\ idx' = idx + 1
  /\ UNCHANGED <<pass, NumFixed, NumObjs, fnVars, callVars, csVars, saveVars>>

\* Mutant of SkipObject: "continue" without the increment.
SkipObjectAgain ==
  /\ pass = "rest" /\ idx < NumObjs
  /\ Skipped(idx)
  /\ UNCHANGED vars

SkipObject ==
  /\ pass = "rest" /\ idx < NumObjs
  /\ Skipped(idx)
  /\ idx' = idx + 1
  /\ UNCHANGED <<pass, Offset, mfiVars, fnVars, callVars, csVars, saveVars>>

\* The end of calculateFrameObjectOffsets: the reserved call frame and the
\* rounding of the frame.
SetStackSize ==
  /\ pass = "rest" /\ idx = NumObjs
  /\ LET o == IF adjustsStack /\ hasReservedCallFrame
                THEN Offset + maxCallFrame ELSE Offset
     IN StackSize' = AlignUp(o, Larger(StackAlign, maxAlign))
  /\ pass' = "adjust"
  /\ UNCHANGED <<mfiVars, fnVars, callVars, csVars, offVars, FPStackOffset,
                 RAStackOffset, CPUTopSavedRegOff>>

\* Mutant of SaveSlots: the offset is not advanced past the FP slot.
SaveSlotsShared == IF hasFP \/ hasCalls THEN 1 ELSE 0

\* Slots that adjustRigelStackFrame appends.
SaveSlots == (IF hasFP THEN 1 ELSE 0) + (IF hasCalls THEN 1 ELSE 0)

SaveSlot(o) == WithOffset(StackObject(RegSize, RegSize, "save"), o)

\* adjustRigelStackFrame: the recorded offsets replace the dummy ones, FP and
\* then RA get slots on top, and the size is rounded to StackAlign.
AdjustRigelStackFrame ==
  LET top == StackSize + RegSize * SaveSlots
      size == AlignUp(top, StackAlign)
  IN
  /\ pass = "adjust"
  /\ Objects' = [i \in (-NumFixed)..(NumObjs + SaveSlots - 1) |->
                   IF i >= NumObjs
                     THEN SaveSlot(StackSize + RegSize * (i - NumObjs))
                     ELSE IF Objects[i].kind \in {"arg", "va"}
                       THEN WithOffset(Objects[i], Objects[i].sp)
                       ELSE Objects[i]]
  /\ NumObjs' = NumObjs + SaveSlots
  /\ maxAlign' = IF SaveSlots > 0 THEN Larger(maxAlign, RegSize) ELSE maxAlign
  /\ FPStackOffset' = IF hasFP THEN StackSize ELSE FPStackOffset
  /\ RAStackOffset' = IF hasCalls THEN top - RegSize ELSE RAStackOffset
  /\ StackSize' = size
  /\ CPUTopSavedRegOff' = IF SaveSlots > 0 THEN top - RegSize - size
                                           ELSE CPUTopSavedRegOff
  /\ pass' = "done"
  /\ UNCHANGED <<NumFixed, fnVars, callVars, csVars, offVars>>

\* Mutant of FrameOffset: the word added by the recording side is not removed.
FrameOffsetPlusWord(i) ==
  IF Objects[i].off < 0 THEN StackSize - Objects[i].off ELSE Objects[i].off

\* eliminateFrameIndex: the offset that replaces frame index i in an operand
\* whose immediate is 0.
FrameOffset(i) ==
  IF Objects[i].off < 0 THEN StackSize + (-(Objects[i].off + RegSize))
                        ELSE Objects[i].off

(***************************************************************************)
(* Specification.                                                          *)
(***************************************************************************)
Init ==
  /\ pass = "set"
  /\ Objects = [i \in {} |-> StackObject(0, 1, "local")]
  /\ NumFixed = 0 /\ NumObjs = 0 /\ maxAlign = 0
  /\ isVarArg = FALSE /\ numFormals = 0 /\ VarArgsFrameIndex = 0
  /\ hasVarSized = FALSE /\ hasCalls = FALSE
  /\ adjustsStack = FALSE /\ maxCallFrame = 0
  /\ disableFPElim \in FPElimOff
  /\ minCS = 0 /\ maxCS = -1
  /\ idx = 0 /\ Offset = 0
  /\ StackSize = 0 /\ FPStackOffset = 0 /\ RAStackOffset = 0
  /\ CPUTopSavedRegOff = 0

Lower ==
  \/ \E s \in Sizes, a \in Aligns : CreateStackObject(s, a)
  \/ \E i \in FrameIndices : RemoveStackObject(i)
  \/ \E n \in FormalCounts, va \in BOOLEAN : LowerFormalArguments(n, va)
  \/ \E n \in CallCounts, va \in CallVarArgs : LowerCall(n, va)
  \/ \E a \in DynAligns : VisitAlloca(a)

Layout ==
  \/ \E n \in 0..NumCSRs : CalculateCalleeSavedRegisters(n)
  \/ SkipFixedObject \/ FixedDone
  \/ PlaceCalleeSaved \/ CalleeSavedDone
  \/ PlaceObject \/ SkipObject \/ SetStackSize
  \/ AdjustRigelStackFrame

Next == Lower \/ Layout

Spec == Init /\ [][Next]_vars

\* PEI is straight-line code: once it has started it runs to its end.
FairSpec == Spec /\ WF_vars(Layout)

(***************************************************************************)
(* Properties.                                                             *)
(***************************************************************************)
Passes == {"set", "body", "fixed", "cs", "rest", "adjust", "done"}

\* Type invariant: every variable keeps its type, and the object table has
\* exactly the indices that MachineFrameInfo hands out.
TypeOK ==
  /\ pass \in Passes
  /\ NumFixed \in Nat /\ NumObjs \in Nat /\ maxAlign \in Nat
  /\ Objects \in [FrameIndices -> Object]
  /\ isVarArg \in BOOLEAN /\ numFormals \in Nat
  /\ VarArgsFrameIndex \in Int
  /\ hasVarSized \in BOOLEAN /\ hasCalls \in BOOLEAN
  /\ adjustsStack \in BOOLEAN /\ maxCallFrame \in Nat
  /\ disableFPElim \in BOOLEAN
  /\ minCS \in Nat /\ maxCS \in Int
  /\ idx \in Int /\ Offset \in Nat
  /\ StackSize \in Nat /\ FPStackOffset \in Nat /\ RAStackOffset \in Nat
  /\ CPUTopSavedRegOff \in Int

Start(i) == FrameOffset(i)
End(i) == FrameOffset(i) + Objects[i].size

Disjoint(i, j) == End(i) <= Start(j) \/ End(j) <= Start(i)

\* Objects of this frame that code can reference once the layout is final.
InFrame(i) == Objects[i].size # DeadSize /\ Objects[i].kind \notin {"arg", "va"}

\* Outgoing argument slots of different calls share memory: no two calls are
\* in progress at once.
Shared(i, j) == Objects[i].kind = "out" /\ Objects[j].kind = "out"

\* When emitPrologue has fixed the layout, no two objects of the frame share
\* a byte: a local, a spilled callee-saved register, the saved FP, the saved
\* RA and the arguments of a call never overwrite one another.
FrameObjectsDisjoint ==
  pass = "done" =>
    \A i, j \in FrameIndices :
      i # j /\ InFrame(i) /\ InFrame(j) => Disjoint(i, j) \/ Shared(i, j)

\* Every object of the frame lies in [0, StackSize), the bytes the prologue
\* allocates: nothing is written below SP, where a callee's frame goes, or
\* above the frame, into the caller's.
ObjectsInsideFrame ==
  pass = "done" =>
    \A i \in FrameIndices : InFrame(i) => Start(i) >= 0 /\ End(i) <= StackSize

\* The argument words are where LowerCall of the caller put them, above this
\* frame and at the distance that the caller used above its SP.  The homes of
\* a variadic function's registers continue that array downwards: word k is
\* at 4*k, so that va_arg steps from the last home to the first stack word.
IncomingArgsWhereCallerPutThem ==
  pass = "done" =>
    /\ \A j \in 0..(StackWords(numFormals) - 1) :
         FrameOffset(-(j + 1)) = StackSize + FirstStackArgLoc(isVarArg) + LocMemOffset(j)
    /\ \A j \in 0..(VarArgHomes(numFormals, isVarArg) - 1) :
         FrameOffset(VarArgsFrameIndex - j) = StackSize + RegSize * (numFormals + j)

\* The loops of calculateFrameObjectOffsets end, and the layout is completed.
LayoutCompletes == (pass = "fixed") ~> (pass = "done")

\* Objects of index 0 and up that already have their offset.
Placed(i) ==
  /\ i >= 0
  /\ Objects[i].size >= 0
  /\ \/ pass = "cs" /\ idx < i /\ i <= maxCS
     \/ pass = "rest" /\ (i < idx \/ i \in minCS..maxCS)
     \/ pass \in {"adjust", "done"}

\* An object that calculateFrameObjectOffsets has placed keeps its place: no
\* later loop places it again, and installing the recorded incoming arguments
\* and appending the FP and RA slots leaves it alone.
PlacedObjectsStay ==
  [][ \A i \in FrameIndices : Placed(i) => Objects'[i].off = Objects[i].off ]_vars

(***************************************************************************)
(* The inductive invariant behind the layout properties.                   *)
(***************************************************************************)
Caller(i) == Objects[i].kind \in {"arg", "va"}

\* Fixed objects are the ones with negative indices; until the recorded
\* offsets are installed, an object of the caller's frame has the dummy 0.
FixedInv ==
  \A i \in FrameIndices :
    /\ i < 0 <=> Objects[i].kind \in {"out", "arg", "va"}
    /\ i < 0 => Objects[i].size = RegSize
    /\ Caller(i) => /\ Objects[i].sp <= -RegSize
                    /\ Objects[i].off = IF pass = "done" THEN Objects[i].sp ELSE 0
    /\ Objects[i].kind = "out" => Objects[i].off >= 0

\* The callee-saved slots are the last objects that PEI creates before the
\* layout, and idx stays in the range of the loop that runs.
LoopInv ==
  /\ 0 <= minCS /\ minCS <= maxCS + 1 /\ maxCS < NumObjs
  /\ pass \in {"set", "body"} => maxCS = -1
  /\ \A i \in minCS..maxCS : Objects[i].size >= 0
  /\ pass = "fixed" => -NumFixed <= idx /\ idx <= 0
  /\ pass = "cs" => minCS - 1 <= idx /\ idx <= maxCS
  /\ pass = "rest" => 0 <= idx /\ idx <= NumObjs

Top == IF pass = "done" THEN StackSize ELSE Offset

\* Placed objects lie below Top, are disjoint, and are above the fixed ones.
PlacedInv ==
  /\ \A f \in FrameIndices :
       f < 0 /\ ~(Caller(f) /\ pass = "done")
             /\ (pass = "fixed" => f < idx)
             /\ pass \notin {"set", "body"}
         => Objects[f].off + Objects[f].size <= Top
  /\ \A i \in FrameIndices : Placed(i) =>
       /\ Objects[i].off >= 0
       /\ Objects[i].off + Objects[i].size <= Top
       /\ \A f \in FrameIndices : f < 0 /\ ~Caller(f) =>
            Objects[f].off + Objects[f].size <= Objects[i].off
       /\ \A j \in FrameIndices : Placed(j) /\ i # j =>
            \/ Objects[i].off + Objects[i].size <= Objects[j].off
            \/ Objects[j].off + Objects[j].size <= Objects[i].off
  /\ pass = "adjust" => Offset <= StackSize

\* The first fixed objects are those of LowerFormalArguments.
FormalInv ==
  /\ pass = "set" => NumFixed = 0
  /\ pass # "set" =>
       /\ StackWords(numFormals) + VarArgHomes(numFormals, isVarArg) <= NumFixed
       /\ \A j \in 1..(StackWords(numFormals) + VarArgHomes(numFormals, isVarArg)) :
            /\ Objects[-j].kind = FormalObject(numFormals, isVarArg, j).kind
            /\ Objects[-j].sp = FormalObject(numFormals, isVarArg, j).sp
       /\ VarArgHomes(numFormals, isVarArg) > 0 =>
            VarArgsFrameIndex = -(StackWords(numFormals) + 1)

\* The layout invariant: it is preserved by every step of the lowering and of
\* PEI and implies the three layout properties.
LayoutInv == FixedInv /\ LoopInv /\ PlacedInv /\ FormalInv

(***************************************************************************)
(* What the generated code relies on besides the layout.                   *)
(***************************************************************************)
\* The frame index of the slot of FP and of RA.
FPSlot == NumObjs - SaveSlots
RASlot == NumObjs - 1

IsSaveSlot(i, o) ==
  /\ i \in 0..(NumObjs - 1)
  /\ Objects[i].kind = "save" /\ Objects[i].size = RegSize /\ Objects[i].off = o

\* Locals have bytes, dynamic objects make the frame need a frame pointer, the
\* callee-saved slots are one word each, FPStackOffset and RAStackOffset are the
\* offsets of slots of their own, and only LowerFormalArguments makes objects of
\* the caller's frame.
SlotInv ==
  /\ \A i \in FrameIndices :
       /\ Objects[i].kind = "local" => Objects[i].size # 0
       /\ Objects[i].kind = "dynamic" =>
            /\ hasVarSized
            /\ Objects[i].align > StackAlign => Objects[i].align \in DynAligns
       /\ Caller(i) => i >= -(StackWords(numFormals) + VarArgHomes(numFormals, isVarArg))
  /\ maxCS - minCS + 1 \in 0..NumCSRs
  /\ \A i \in minCS..maxCS : Objects[i].kind = "csr" /\ Objects[i].size = RegSize
  /\ pass = "done" =>
       /\ StackSize % StackAlign = 0
       /\ hasFP => IsSaveSlot(FPSlot, FPStackOffset)
       /\ hasCalls => IsSaveSlot(RASlot, RAStackOffset)
       /\ hasFP /\ hasCalls => FPStackOffset + RegSize = RAStackOffset
===========================================================================
