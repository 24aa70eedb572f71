--------------------------- MODULE RigelActivation ---------------------------
(***************************************************************************)
(* One activation of a compiled function at run time.  RigelFrame compiles *)
(* the function; then the code that emitPrologue, the callee-saved spills, *)
(* eliminateFrameIndex, LowerCall, the alloca expansion and emitEpilogue   *)
(* inserted runs against registers and a byte memory.  The functions it    *)
(* calls are represented by what the calling convention lets them do.      *)
(*                                                                         *)
(* Addresses are relative to SP on entry: the caller's frame starts at 0,  *)
(* this frame at -StackSize.  A byte of memory holds the identity of the   *)
(* value last written over it.                                             *)
(***************************************************************************)
EXTENDS RigelFrame

CONSTANTS
  ImmHalf,    \* half the values of an immediate operand (2^15)
  MemBelow,   \* bound: bytes represented below SP on entry
  MemHigh,    \* bound: highest address represented
  ActualArgs, \* argument words a caller passes to a variadic function
  EntrySP,    \* the address in $sp on entry, modulo the largest alignment
  DynSizes,   \* sizes requested from a variable sized alloca
  UseAT       \* TRUE: the register allocator keeps a value in AT

ASSUME ImmAssumption == ImmHalf \in Nat \ {0}
ASSUME MemAssumption == MemBelow \in Nat \ {0} /\ MemHigh \in Nat \ {0} /\ EntrySP \in Nat
\* Alignments are powers of two, and SP is aligned on entry.
ASSUME AlignAssumption ==
  /\ EntrySP % StackAlign = 0
  /\ \A a \in DynAligns : a > StackAlign => a % StackAlign = 0
ASSUME ArgAssumption == ActualArgs \in Nat /\ DynSizes \subseteq Nat /\ UseAT \in BOOLEAN

VARIABLES
  calls,   \* call sequences emitted by LowerCall
  mode,    \* what runs next: see Modes
  pending, \* the call sequence in progress, if any
  sp, fp,  \* addresses in $sp and $fp
  ra, at,  \* values in $ra and $at
  csr,     \* values in the callee-saved registers
  mem,     \* the memory
  written, \* objects the body has stored to
  dyn,     \* bytes of the last variable sized alloca, as <<first, size>>
  atLive   \* the body holds a value in $at

runVars == <<calls, mode, pending, sp, fp, ra, at, csr, mem, written, dyn, atLive>>
allVars == <<vars, runVars>>

(***************************************************************************)
(* Values and memory.                                                      *)
(***************************************************************************)
Junk == <<"junk", 0>>
CallerValue == <<"caller", 0>>
CalleeValue == <<"callee", 0>>
CallerRA == <<"ra", 0>>
SavedFP == <<"fp", 0>>
CallerCSR(k) == <<"csr", k>>
ArgWord(k) == <<"arg", k>>
OutWord(j) == <<"out", j>>
ObjectValue(i) == <<"obj", i>>
DynValue == <<"dyn", 0>>
LiveValue == <<"live", 0>>

\* Some address that is not in this frame: the caller's FP, and what FP holds
\* after it is loaded from a slot that does not hold the caller's FP.
CallerFP == MemHigh + RegSize
WildFP == MemHigh + 2 * RegSize

Write(m, a, n, v) == [x \in DOMAIN m |-> IF x \in a..(a + n - 1) THEN v ELSE m[x]]

Read(m, a, n) ==
  IF /\ a \in DOMAIN m
     /\ \A x \in a..(a + n - 1) : x \in DOMAIN m /\ m[x] = m[a]
    THEN m[a] ELSE Junk

(***************************************************************************)
(* Immediates.                                                             *)
(***************************************************************************)
\* Mutant of isInt: the range includes the half itself.
isIntInclusive(x) == x >= -ImmHalf /\ x <= ImmHalf

isInt(x) == x >= -ImmHalf /\ x < ImmHalf

\* The values of an immediate (2^16).
ImmValues == 2 * ImmHalf

\* printOperand: (short int)MO.getImm()
ShortImm(x) == ((x + ImmHalf) % ImmValues) - ImmHalf

\* Mutant of Materialize: the ORi of the low half is missing.
MaterializeUpperOnly(x) == ((x \div ImmValues) % ImmValues) * ImmValues

\* MVUi of x >> 16, ORi of x & 0xFFFF
Materialize(x) == ((x \div ImmValues) % ImmValues) * ImmValues + (x % ImmValues)

(***************************************************************************)
(* eliminateFrameIndex: the address that an access at distance d from the  *)
(* start of object i reaches, and whether $at is used to reach it.         *)
(***************************************************************************)
\* Mutant of FrameRegister: SP even when there is a frame pointer.
FrameRegisterSP == sp

FrameRegister == IF hasFP THEN fp ELSE sp

Addr(i, d) ==
  LET o == FrameOffset(i) + d
  IN IF isInt(o) THEN FrameRegister + ShortImm(o) ELSE sp + Materialize(o)

UsesAT(i, d) == ~isInt(FrameOffset(i) + d)

\* $at after accesses to the words of object i.
ATAfter(i) ==
  IF \E b \in 0..(Objects[i].size - 1) : UsesAT(i, RegSize * (b \div RegSize))
    THEN Junk ELSE at

\* The bytes of object i, one word-sized access after another.
ObjectBytes(i) ==
  {Addr(i, RegSize * (b \div RegSize)) + (b % RegSize) : b \in 0..(Objects[i].size - 1)}

WriteObject(i, v) == [x \in DOMAIN mem |-> IF x \in ObjectBytes(i) THEN v ELSE mem[x]]

(***************************************************************************)
(* Compilation.                                                            *)
(***************************************************************************)

\* LowerCall, keeping the call sequence it emits: the frame index of stack
\* word j is -(base + j + 1).
EmitCall(n, va) ==
  /\ LowerCall(n, va)
  /\ calls' = calls \cup {[n |-> n, va |-> va,
                           base |-> NumFixed + (IF va THEN 1 ELSE 0)]}
  /\ UNCHANGED <<mode, pending, sp, fp, ra, at, csr, mem, written, dyn, atLive>>

CompileOther ==
  \/ \E s \in Sizes, a \in Aligns : CreateStackObject(s, a)
  \/ \E i \in FrameIndices : RemoveStackObject(i)
  \/ \E n \in FormalCounts, va \in BOOLEAN : LowerFormalArguments(n, va)
  \/ \E a \in DynAligns : VisitAlloca(a)
  \/ Layout

Compile ==
  \/ \E n \in CallCounts, va \in CallVarArgs : EmitCall(n, va)
  \/ CompileOther /\ UNCHANGED runVars

(***************************************************************************)
(* Execution.                                                              *)
(***************************************************************************)

\* Words the caller passes: a variadic function may get more than it names.
PassedWords == IF isVarArg THEN Larger(numFormals, ActualArgs) ELSE numFormals

\* What the caller's LowerCall left at address x of its frame.
EntryByte(x) ==
  LET k == NumArgRegs + ((x - FirstStackArgLoc(isVarArg)) \div RegSize)
  IN IF x < 0 THEN Junk
     ELSE IF x >= FirstStackArgLoc(isVarArg) /\ k < PassedWords THEN ArgWord(k)
     ELSE CallerValue

\* A caller jumps to the compiled function.
Enter ==
  /\ pass = "done" /\ mode = "compile"
  /\ mem' = [x \in (-MemBelow)..MemHigh |-> EntryByte(x)]
  /\ mode' = "prologue"
  /\ UNCHANGED <<vars, calls, pending, sp, fp, ra, at, csr, written, dyn, atLive>>

\* emitPrologue.  SP moves down, RA is saved (through $at when its offset does
\* not fit), FP is saved with its offset printed as a short, FP := SP.
RunPrologue ==
  LET newsp == IF isInt(StackSize) THEN sp + ShortImm(-StackSize)
                                   ELSE sp - Materialize(StackSize)
      raAddr == newsp + (IF isInt(RAStackOffset) THEN ShortImm(RAStackOffset)
                                                 ELSE Materialize(RAStackOffset))
      m1 == IF hasCalls THEN Write(mem, raAddr, RegSize, ra) ELSE mem
      m2 == IF hasFP THEN Write(m1, newsp + ShortImm(FPStackOffset), RegSize, SavedFP)
                     ELSE m1
  IN
  /\ mode = "prologue"
  /\ IF StackSize = 0 /\ ~adjustsStack
       THEN UNCHANGED <<sp, fp, at, mem>>
       ELSE /\ sp' = newsp
            /\ mem' = m2
            /\ fp' = IF hasFP THEN newsp ELSE fp
            /\ at' = IF isInt(StackSize) /\ (hasCalls => isInt(RAStackOffset))
                       THEN at ELSE Junk
  /\ mode' = "spill"
  /\ UNCHANGED <<vars, calls, pending, ra, csr, written, dyn, atLive>>

\* The spills that insertCSRSpillsAndRestores put after the prologue, then the
\* stores of a variadic function's argument registers into their homes.
SpillBytes(k) == ObjectBytes(minCS + k - 1)

SpillRegisters ==
  LET homes == {i \in FrameIndices : Objects[i].kind = "va"}
      homeOf(x) == {i \in homes : x \in ObjectBytes(i)}
      spillOf(x) == {k \in 1..(maxCS - minCS + 1) : x \in SpillBytes(k)}
  IN
  /\ mode = "spill"
  /\ mem' = [x \in DOMAIN mem |->
               IF homeOf(x) # {}
                 THEN LET i == CHOOSE i \in homeOf(x) : TRUE
                      IN ArgWord(numFormals + VarArgsFrameIndex - i)
                 ELSE IF spillOf(x) # {}
                   THEN csr[CHOOSE k \in spillOf(x) : TRUE]
                   ELSE mem[x]]
  /\ csr' = [k \in 1..NumCSRs |-> IF k <= maxCS - minCS + 1 THEN Junk ELSE csr[k]]
  /\ mode' = "body"
  /\ UNCHANGED <<vars, calls, pending, sp, fp, ra, at, written, dyn, atLive>>

\* The body stores to a local.
StoreLocal(i) ==
  /\ mode = "body"
  /\ Objects[i].kind = "local" /\ InFrame(i)
  /\ mem' = WriteObject(i, ObjectValue(i))
  /\ at' = ATAfter(i)
  /\ written' = written \cup {i}
  /\ UNCHANGED <<vars, calls, mode, pending, sp, fp, ra, csr, dyn, atLive>>

\* Mutant of DynamicAlloca: the new SP is not copied back.
AllocaKeepsSP(i, n) ==
  LET newsp == sp - AlignUp(n, StackAlign)
  IN
  /\ mode = "body"
  /\ Objects[i].kind = "dynamic"
  /\ dyn = <<0, 0>>
  /\ dyn' = <<newsp, n>>
  /\ mem' = Write(mem, newsp, n, DynValue)
  /\ UNCHANGED <<vars, calls, mode, pending, sp, fp, ra, at, csr, written, atLive>>

\* ExpandDYNAMIC_STACKALLOC: SP, masked when the object is over-aligned, minus
\* the rounded size; the body then fills the block.
DynamicAlloca(i, n) ==
  LET a == Objects[i].align
      base == IF a > StackAlign THEN sp - ((EntrySP + sp) % a) ELSE sp
      newsp == base - AlignUp(n, StackAlign)
  IN
  /\ mode = "body"
  /\ Objects[i].kind = "dynamic"
  /\ dyn = <<0, 0>>
  /\ sp' = newsp
  /\ dyn' = <<newsp, n>>
  /\ mem' = Write(mem, newsp, n, DynValue)
  /\ UNCHANGED <<vars, calls, mode, pending, fp, ra, at, csr, written, atLive>>

\* The register allocator keeps a value in $at, and later uses it.
DefineAT ==
  /\ UseAT /\ mode = "body" /\ ~atLive
  /\ at' = LiveValue /\ atLive' = TRUE
  /\ UNCHANGED <<vars, calls, mode, pending, sp, fp, ra, csr, mem, written, dyn>>

KillAT ==
  /\ mode = "body" /\ atLive
  /\ atLive' = FALSE
  /\ UNCHANGED <<vars, calls, mode, pending, sp, fp, ra, at, csr, mem, written, dyn>>

\* A call sequence up to the jump: its stack arguments are stored.  Nothing
\* is live in $at across a call (JAL defines it).
OutObject(c, j) == -(c.base + j + 1)

PassArguments(c) ==
  LET words == 0..(StackWords(c.n) - 1)
      wordOf(x) == {j \in words : x \in ObjectBytes(OutObject(c, j))}
  IN
  /\ mode = "body" /\ ~atLive
  /\ mem' = [x \in DOMAIN mem |-> IF wordOf(x) # {}
                                    THEN OutWord(CHOOSE j \in wordOf(x) : TRUE)
                                    ELSE mem[x]]
  /\ pending' = {c}
  /\ mode' = "calling"
  /\ UNCHANGED <<vars, calls, sp, fp, ra, at, csr, written, dyn, atLive>>

\* Memory that the callee may write: all of it below SP and, if it is variadic,
\* the homes of its unnamed arguments, the first of which is the second word.
CalleeOwns(c) ==
  {x \in DOMAIN mem :
     x < sp \/ (c.va /\ x \in (sp + RegSize)..(sp + FirstStackArgLoc(TRUE) - 1))}

\* The callee runs and returns.  It preserves SP, FP and the callee-saved
\* registers.
RunCallee(c) ==
  /\ mode = "calling"
  /\ mem' = [x \in DOMAIN mem |-> IF x \in CalleeOwns(c) THEN CalleeValue ELSE mem[x]]
  /\ ra' = Junk
  /\ at' = Junk
  /\ pending' = {}
  /\ mode' = "body"
  /\ UNCHANGED <<vars, calls, sp, fp, csr, written, dyn, atLive>>

\* A return block: the restores of insertCSRSpillsAndRestores.
RestoreRegisters ==
  /\ mode = "body" /\ ~atLive
  /\ csr' = [k \in 1..NumCSRs |->
               IF k <= maxCS - minCS + 1
                 THEN Read(mem, Addr(minCS + k - 1, 0), RegSize) ELSE csr[k]]
  /\ mode' = "epilogue"
  /\ UNCHANGED <<vars, calls, pending, sp, fp, ra, at, mem, written, dyn, atLive>>

\* Mutant of EpilogueBase: SP is not restored from FP.
EpilogueSP == sp

EpilogueBase == IF hasFP THEN fp ELSE sp

\* emitEpilogue.
RunEpilogue ==
  LET base == EpilogueBase
      raAddr == base + (IF isInt(RAStackOffset) THEN ShortImm(RAStackOffset)
                                                ELSE Materialize(RAStackOffset))
  IN
  /\ mode = "epilogue"
  /\ fp' = IF ~hasFP THEN fp
           ELSE IF Read(mem, base + ShortImm(FPStackOffset), RegSize) = SavedFP
             THEN CallerFP ELSE WildFP
  /\ ra' = IF StackSize # 0 /\ hasCalls THEN Read(mem, raAddr, RegSize) ELSE ra
  /\ sp' = base + (IF isInt(StackSize) THEN ShortImm(StackSize)
                                       ELSE Materialize(StackSize))
  /\ at' = IF StackSize = 0 \/ (isInt(StackSize) /\ (hasCalls => isInt(RAStackOffset)))
             THEN at ELSE Junk
  /\ mode' = "returned"
  /\ UNCHANGED <<vars, calls, pending, csr, mem, written, dyn, atLive>>

(***************************************************************************)
(* Specification.                                                          *)
(***************************************************************************)
RunInit ==
  /\ Init
  /\ calls = {} /\ mode = "compile" /\ pending = {}
  /\ sp = 0 /\ fp = CallerFP /\ ra = CallerRA /\ at = Junk
  /\ csr = [k \in 1..NumCSRs |-> CallerCSR(k)]
  /\ mem = [x \in (-MemBelow)..MemHigh |-> Junk]
  /\ written = {} /\ dyn = <<0, 0>> /\ atLive = FALSE

Body ==
  \/ \E i \in FrameIndices : StoreLocal(i)
  \/ \E i \in FrameIndices, n \in DynSizes : DynamicAlloca(i, n)
  \/ DefineAT \/ KillAT
  \/ \E c \in calls : PassArguments(c)
  \/ \E c \in pending : RunCallee(c)

Run ==
  \/ Enter \/ RunPrologue \/ SpillRegisters
  \/ Body
  \/ RestoreRegisters \/ RunEpilogue

\* The function has returned: nothing more happens.
Returned == mode = "returned" /\ UNCHANGED allVars

RunNext == Compile \/ Run \/ Returned

RunSpec == RunInit /\ [][RunNext]_allVars

(***************************************************************************)
(* Properties.                                                             *)
(***************************************************************************)
Modes == {"compile", "prologue", "spill", "body", "calling", "epilogue", "returned"}

\* Type invariant of the run-time state; SP is always aligned.
RunTypeOK ==
  /\ mode \in Modes
  /\ pending \subseteq calls
  /\ sp \in Int /\ sp % StackAlign = 0 /\ fp \in Int
  /\ DOMAIN csr = 1..NumCSRs
  /\ DOMAIN mem = (-MemBelow)..MemHigh
  /\ written \subseteq FrameIndices
  /\ atLive \in BOOLEAN

\* When the function returns, SP, RA and every callee-saved register hold what
\* they held when it was called, whatever it stored, allocated and called in
\* between (emitPrologue, emitEpilogue and the spills and restores).  FP does
\* when an immediate reaches its slot: its save and restore do not test that.
ReturnRestoresCaller ==
  mode = "returned" =>
    /\ sp = 0
    /\ (hasFP => isInt(FPStackOffset)) => fp = CallerFP
    /\ ra = CallerRA
    /\ \A k \in 1..NumCSRs : csr[k] = CallerCSR(k)

\* Every local that the body stored to still holds its value, at the address
\* that eliminateFrameIndex would give another access to it: no other store,
\* call or alloca reaches its bytes, and moving SP does not move it.
LocalsKeepValues ==
  mode \in {"body", "calling"} =>
    \A i \in written : \A x \in ObjectBytes(i) : mem[x] = ObjectValue(i)

\* The block of a variable sized alloca keeps its contents, in a function that
\* calls no variadic one: those write homes above the SP they are entered with.
AllocaKeepsValues ==
  mode \in {"body", "calling"} /\ (\A c \in calls : ~c.va) =>
    \A x \in dyn[1]..(dyn[1] + dyn[2] - 1) : mem[x] = DynValue

\* The named stack arguments are the words that the caller passed, as long as
\* the body can read them.
ArgumentsArrive ==
  mode \in {"body", "calling"} =>
    \A j \in 0..(StackWords(numFormals) - 1) :
      Read(mem, Addr(-(j + 1), 0), RegSize) = ArgWord(NumArgRegs + j)

\* At the jump of a call sequence, the stack words of the call are where the
\* callee's LowerFormalArguments looks for them: at FirstStackArgLoc above SP.
CalleeFindsArguments ==
  \A c \in pending : \A j \in 0..(StackWords(c.n) - 1) :
    Read(mem, sp + FirstStackArgLoc(c.va) + LocMemOffset(j), RegSize) = OutWord(j)

\* The word at distance 4*j from the varargs frame index is argument word
\* numFormals + j, for words passed in registers and on the stack alike.
UnnamedInOrder ==
  /\ VarArgsFrameIndex \in FrameIndices
  /\ \A k \in numFormals..(PassedWords - 1) :
       Read(mem, Addr(VarArgsFrameIndex, 0) + RegSize * (k - numFormals), RegSize)
         = ArgWord(k)

\* RigelMachineFunction.h:85, VarArgsFrameIndex is the "FrameIndex for start of
\* varargs area": in every variadic function va_start delivers the unnamed
\* arguments in order.
VaStartFindsArguments ==
  mode \in {"body", "calling"} /\ isVarArg => UnnamedInOrder

\* In a variadic function that leaves an argument register unnamed, va_arg
\* steps through the unnamed arguments in order: from the homes that the
\* function wrote into the stack words that its caller wrote, with no gap.
VaListInOrder ==
  mode \in {"body", "calling"} /\ VarArgHomes(numFormals, isVarArg) > 0 => UnnamedInOrder

\* The activation writes nothing in its caller's frame but the homes of a
\* variadic function's register arguments.
CallerFrameIntact ==
  mode # "compile" =>
    \A x \in FirstStackArgLoc(isVarArg)..MemHigh : mem[x] = EntryByte(x)

\* RigelRegisterInfo.cpp:108, "$AT is always scavenged.": getReservedRegs leaves
\* $at to the register allocator because code inserted after allocation takes
\* it only while it is dead, so a value kept there survives until its last use.
ScratchRegisterKept == atLive => at = LiveValue

(***************************************************************************)
(* The calling convention that the activation implements.                  *)
(***************************************************************************)
Locals == {i \in FrameIndices : Objects[i].kind = "local" /\ InFrame(i)}

\* A local is set when its bytes hold its value.
LocalStore ==
  [i \in Locals |->
     IF \A x \in ObjectBytes(i) : mem[x] = ObjectValue(i) THEN "set" ELSE "undef"]

Context == <<0, CallerFP, CallerRA, [k \in 1..NumCSRs |-> CallerCSR(k)]>>

\* The state of the calling convention that a state of the machine represents.
Phase ==
  CASE mode \in {"compile", "prologue", "spill"} -> "idle"
    [] mode \in {"body", "epilogue"} -> "running"
    [] OTHER -> mode

Store == IF mode \in {"body", "calling", "epilogue"} THEN LocalStore ELSE <<>>

Preserved == IF mode = "returned" THEN <<sp, fp, ra, csr>> ELSE Context

ABI == INSTANCE RigelABI WITH
  CallerContext <- Context, phase <- Phase, store <- Store, ctx <- Preserved

\* The compiled function, run on registers and memory, implements the promise
\* of the calling convention: each step of its code is a step of RigelABI on
\* the locals that its memory represents, or changes none of them.
ImplementsABI == ABI!ABISpec

(***************************************************************************)
(* The inductive invariant behind these properties.                        *)
(***************************************************************************)
\* What the immediates must reach: the frame and the incoming arguments.
Reach == StackSize + FirstStackArgLoc(isVarArg) + LocMemOffset(StackWords(numFormals))

\* The memory of the model represents what the activation uses, and immediates
\* reach all of it: FP is saved, and FP is the base of an access, only with an
\* offset of one instruction; SP also with a constant of two.
FrameFits ==
  /\ sp >= -MemBelow
  /\ pass = "done" =>
       /\ StackSize <= MemBelow
       /\ Reach < IF hasFP THEN ImmHalf ELSE ImmValues * ImmValues
       /\ FirstStackArgLoc(isVarArg) + LocMemOffset(StackWords(PassedWords)) <= MemHigh + 1

\* The bytes of object i once SP has moved down.
FrameBytes(i) == (Start(i) - StackSize)..(End(i) - StackSize - 1)

Holds(S, v) == \A x \in S : mem[x] = v

SavedCSRs == maxCS - minCS + 1

\* The slots of a call's home area and of its stack words are objects.
CallFacts(c) ==
  /\ hasCalls
  /\ c.n \in Nat /\ c.va \in BOOLEAN /\ c.base \in Nat
  /\ c.base + StackWords(c.n) <= NumFixed
  /\ \A j \in 0..(StackWords(c.n) - 1) :
       /\ Objects[OutObject(c, j)].kind = "out"
       /\ Objects[OutObject(c, j)].off = FirstStackArgLoc(c.va) + LocMemOffset(j)
  /\ c.va => /\ c.base > 0 /\ Objects[-c.base].kind = "out"
             /\ Objects[-c.base].off = RegSize * (NumArgRegs - 1)

CallsInv == pending \subseteq calls /\ \A c \in calls : CallFacts(c)

\* Modes follow one another as emitPrologue, the spills, the body, the restores
\* and emitEpilogue do.
ModeInv ==
  /\ mode \in Modes
  /\ mode # "compile" => pass = "done"
  /\ mode \in {"compile", "prologue", "spill"} => written = {} /\ dyn = <<0, 0>>
  /\ pending # {} => mode = "calling"
  /\ atLive => mode = "body"
  /\ mode # "compile" => DOMAIN mem = (-MemBelow)..MemHigh

\* Until the spills the registers are the caller's; the restores give back the
\* callee-saved ones and the epilogue the others.
RegisterInv ==
  /\ mode \in {"compile", "prologue", "returned"} => sp = 0 /\ fp = CallerFP /\ ra = CallerRA
  /\ csr = [k \in 1..NumCSRs |-> csr[k]]
  /\ \A k \in 1..NumCSRs :
       k > SavedCSRs \/ mode \notin {"body", "calling"} => csr[k] = CallerCSR(k)

InActivation == mode \in {"spill", "body", "calling", "epilogue"}

\* The base register stays at the bottom of the frame, SP below it only after
\* an alloca, whose block lies between the two.
BaseInv ==
  InActivation =>
    /\ sp \in Int /\ sp <= -StackSize
    /\ fp = IF hasFP THEN -StackSize ELSE CallerFP
    /\ dyn = <<0, 0>> \/ ~hasFP => sp = -StackSize
    /\ dyn # <<0, 0>> => /\ dyn[1] = sp /\ dyn[2] \in Nat
                         /\ dyn[1] + dyn[2] <= -StackSize

\* The slots of the frame keep what was saved in them and the locals what was
\* stored to them.
SlotsKept ==
  InActivation =>
    /\ hasFP => Holds(FrameBytes(FPSlot), SavedFP)
    /\ IF hasCalls THEN Holds(FrameBytes(RASlot), CallerRA) ELSE ra = CallerRA
    /\ mode \in {"body", "calling"} =>
         \A k \in 1..SavedCSRs : Holds(FrameBytes(minCS + k - 1), CallerCSR(k))
    /\ \A i \in written : /\ i \in FrameIndices /\ InFrame(i) /\ Objects[i].kind = "local"
                          /\ Holds(FrameBytes(i), ObjectValue(i))

\* Only a store to a local writes its value.
ValueInv ==
  mode # "compile" => \A x \in DOMAIN mem, i \in FrameIndices :
                        mem[x] = ObjectValue(i) => i \in written

\* The caller's frame, with the homes that a variadic function fills.
CallerInv ==
  /\ CallerFrameIntact
  /\ mode \in {"body", "calling"} /\ VarArgHomes(numFormals, isVarArg) > 0 =>
       \A k \in numFormals..(NumArgRegs - 1) :
         Holds((RegSize * k)..(RegSize * k + RegSize - 1), ArgWord(k))

\* The words of the call in progress, and the block of an alloca.
TransientInv ==
  /\ \A c \in pending : \A j \in 0..(StackWords(c.n) - 1) :
       Holds(FrameBytes(OutObject(c, j)), OutWord(j))
  /\ AllocaKeepsValues

\* What the inserted code keeps true between any two of its steps: every slot
\* of the frame holds what was put there, in the frame of the base register.
RunInv ==
  /\ CallsInv /\ ModeInv /\ RegisterInv /\ BaseInv /\ SlotsKept
  /\ ValueInv /\ CallerInv /\ TransientInv
===========================================================================
