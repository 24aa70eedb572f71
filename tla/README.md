# Rigel code generator: TLA+ models and proofs

This directory holds the formal models of the Rigel back end of
`llvm-2.8` (`src/llvm-2.8/lib/Target/Rigel`) and of the generic LLVM passes
that it drives. The repository is a fork of LLVM 2.8, clang and binutils 2.18;
what is its own is the Rigel target. The models cover the parts of that target
where a mistake produces wrong code without a diagnostic: the stack frame, the
branches between basic blocks, sub-word memory accesses, the selection of
constants and comparisons, and the two-part addresses that the assembler and
the linker put together.

## 1. The system

A function passes through these parts; each rewrites the tables of the one
before it.

| Part | State it keeps | Operations | Correct when |
|---|---|---|---|
| Call and argument lowering (`RigelISelLowering.cpp`, `RigelCallingConv.td`) | fixed frame objects, recorded argument offsets, `VarArgsFrameIndex` | `LowerFormalArguments`, `LowerCall` | caller and callee agree on the address of every argument word |
| Frame object table (`MachineFrameInfo.h`, `MachineFunction.cpp`) | `Objects`, `NumFixedObjects`, `MaxAlignment`, `StackSize` | create, remove, set offset | indices stay valid, dead slots are skipped |
| Prolog/epilog inserter (`PrologEpilogInserter.cpp`) | running offset, callee-saved index range | collect call frame data, spill, lay out, replace frame indices | objects are disjoint and inside the frame |
| Rigel frame lowering (`RigelRegisterInfo.cpp`, `RigelMachineFunction.h`) | FP and RA offsets, recorded incoming arguments | `adjustRigelStackFrame`, `emitPrologue`, `emitEpilogue`, `eliminateFrameIndex` | a call leaves its caller's registers and frame as they were |
| Alloca of variable size (`SelectionDAGBuilder.cpp`, `LegalizeDAG.cpp`) | SP in the middle of a body | `visitAlloca`, `ExpandDYNAMIC_STACKALLOC` | nothing addressed through SP before is lost |
| Branch hooks (`RigelInstrInfo.cpp`) | terminators of a block | `AnalyzeBranch`, `InsertBranch`, `RemoveBranch`, `ReverseBranchCondition` | the answer describes the block; inversion is exact |
| Basic blocks (`MachineBasicBlock.cpp`, `UnreachableBlockElim.cpp`) | successor lists, layout order | `updateTerminator`, `SplitCriticalEdge`, `canFallThrough`, `CorrectExtraCFGEdges` | edges cover what the code does |
| Branch folding (`BranchFolding.cpp`) | iterator over a list it rewrites, "changed" flag | `OptimizeFunction`, `OptimizeBranches`, `OptimizeBlock` | same control flow, terminates, nothing left to fold |
| Sub-word memory access (`RigelISelLowering.cpp`) | words of memory shared by the cores; words loaded and not yet stored back | `LowerLOAD`, `LowerSTORE`, the library calls | a load returns the bytes it names, a store changes those bytes only |
| Instruction selection, pseudo expansion (`RigelISelDAGToDAG.cpp`, `RigelInstrInfo.td`, `RigelISelLowering.cpp`, `RigelExpandPseudoInsts.cpp`) | the instructions of the blocks, the iterator of the expansion | patterns, `SelectAddr`, `LowerSELECT`, `EmitInstrWithCustomInserter`, `ExpandMBB` | the code computes the node's value, the branch is taken when its condition holds |
| Assembly printer (`AsmPrinter/RigelAsmPrinter.cpp`) | - | operands as text | an immediate is read back as the value the pass meant |
| Assembler and linker (`tc-mips.c`, `write.c`, `elfxx-mips.c`) | list of fixups, `mips_hi_fixup_list`, `mips_hi16_list`, instruction fields | `append_insn`, `adjust_reloc_syms`, `mips_frob_file`, `write_relocs`, `relocate_section` | the two halves of an address add up to it |
| Target description, clang target, encoding tables | tables | - | - |

The compiler, the assembler and the linker are sequential, nothing is persisted
and no message is lost. Concurrent is what they produce: Rigel has many cores
on one memory, and a byte store of one core rewrites a whole word. What is hard
inside the tools is (a) the order in which passes
write one table (an offset is a dummy in one pass and real in the next), (b)
boundaries (the 16-bit immediate, the last argument register, an empty frame,
a halfword at the end of a word, a low half that is negative), (c) moving SP while addresses are computed from it, and (d) passes that rewrite
the list they walk: branch folding, which restarts until nothing changes, the
expansion of pseudo instructions, and the assembler's sorting of fixups. Those
are the hazards of `PROJECT.json`.

## 2. Modules

### RigelFrame

One function from argument lowering to the final frame. `pass` says which part
runs: `"set"` (static allocas), `"body"` (instruction selection and register
allocation), `"fixed"`, `"cs"`, `"rest"` (the three loops of
`calculateFrameObjectOffsets`), `"adjust"` (`adjustRigelStackFrame`) and
`"done"`. `Objects` is `MachineFrameInfo::Objects` with the indices LLVM hands
out: negative for fixed objects, from 0 for the others. An object has a size
(`DeadSize` after slot coloring removed it), an alignment, an offset, the
`SPOffset` recorded in `RigelFunctionInfo`, and a ghost `kind` saying who
created it. There is one action per operation (`LowerFormalArguments`,
`LowerCall`, `VisitAlloca`, `CreateStackObject`, `RemoveStackObject`,
`CalculateCalleeSavedRegisters`, one action per iteration of each loop,
`SetStackSize`, `AdjustRigelStackFrame`). `FrameOffset(i)` is the arithmetic of
`eliminateFrameIndex`: an object of the caller's frame has a negative offset
that stands for a distance above `StackSize`.

### RigelActivation

`RigelFrame` compiles the function, then the code that the passes inserted runs
on registers (`sp`, `fp`, `ra`, `at`, `csr`) and a byte memory. A byte holds the
identity of the last value stored over it, so a store that reaches a byte of
another object is visible. The actions are the prologue, the spills (with the
stores of a variadic function's registers into their homes), stores of the
body, a variable sized alloca, a call in two steps (`PassArguments`,
`RunCallee`), the restores and the epilogue. `Addr` is the address that
`eliminateFrameIndex` produces: base register plus printed immediate, or SP
plus a constant materialised in `$at`. An immediate has
2 * `ImmHalf` values (`ShortImm` is the `short int` cast of `printOperand`); with
`ImmHalf` = 16, small frames outgrow them. Called functions are represented by what the calling
convention allows them: they write everything below SP and, if variadic, the
homes of their unnamed arguments, and preserve SP, FP and the callee-saved
registers. `Write`, `Read` and the state at entry stand for the machine.

### RigelABI, MCActivation

`RigelABI` is the abstract promise: locals change only when assigned, callees do
not touch them, the preserved registers are back at the return.
`RigelActivation` maps registers and memory to it (`Phase`, `Store`, `Preserved`);
`ImplementsABI` is the refinement.

### RigelBranch

The terminators and layout of a function. A block is a sequence of one opaque
piece of work and its terminators. `SelectBlock` builds the function as
`visitBr`, `visitSwitchCase` and `handleJTSwitchCase` leave it (no branch to the
next block; one successor edge for each table destination),
`RemoveUnreachable` is `UnreachableMachineBlockElim`, `SplitCriticalEdge` is
what PHI elimination calls, and the rest is branch folding, one action per
branch of `OptimizeBlock`. The four hooks of `RigelInstrInfo.cpp` are operators
on a block's instructions (`AnalyzeBranch` returns the instructions too, since
it erases a jump after a jump). `flow` is a ghost: it records for each piece of
work and each outcome of the comparisons which work came next in the selected
code (`Reached` passes through blocks without work; it is stated with the sets
of blocks that control cannot leave, `Trails`, not by recursion, since empty
blocks can form a loop). The order of predecessor lists is left open. `Live` is
the layout without the block that `RemoveDeadBlock` is about to remove.

### RigelSubword, ByteMemory

The machine has only aligned word accesses. A program is, for each core, a set
of chains; the accesses of one chain are not ordered by LLVM (tokens joined by
a `TokenFactor`), so a chain may hold several as long as no store meets another
access. `LowerLOAD` is given by the words that a load reads (`LoadWords`) and
what shifts, OR and extension make of them (`LoadedWord`, `LoadResult`);
`LowerSTORE` by `PlainStore` or a library call. Every word load and store is an
action of its own, so that cores interleave between them. A byte is a set of
bits, which makes OR a union; shifts are by whole bytes. The library calls are
declared by the repository and defined elsewhere: `UnalignedLoad`, `Merge` and
`StoreBack` are external.

`ByteMemory` is the abstract specification: stores give bytes their values, part
by part, and nothing else changes a byte, except in a word on which the stores
of two cores overlapped in time. There a byte may return to a value it held
before. This exception is what the lowering costs: without it the refinement
`ImplementsByteMemory` fails.

### RigelSelect

One node of the selection DAG at a time. `SelectCode` is the set of
instruction sequences that the patterns allow: where two patterns of equal
complexity match, the table generator's order is left open, and so is the order
in which the scheduler emits the operands of a comparison. `Diamond` splits the
block for a select, `ExpandMBB` walks the blocks with its iterator, `Printed`
is the cast of `printOperand`; then the machine runs the blocks instruction by
instruction, `PHI` included. `Half` stands for 2^16. The node's meaning
(`Meaning`, `ConditionHolds`) is defined without the patterns. The instruction
set is external (`Value`): the td file says which operation an instruction
stands for, and a comment there that addi sign-extends and ori does not.

### RigelReloc

A section's instructions with `%hi` and `%lo` parts, from `append_insn` to the
linked fields. `chain` is the list of fixups and later of relocations,
`hiFixups` is `mips_hi_fixup_list`, `hi16` is bfd's static `mips_hi16_list`.
Each element of a loop (`mips_frob_file`, `write_relocs`, `relocate_section`) is
one action. Local symbols become the section plus an offset, so that different
symbols meet in one search.

`MCActivation`, `MCFrame`, `MCBranch`, `MCReloc` and `MCSelect` only give small values to
constants; `MCSubword` also lists the programs.

### RigelFrameProofs, RigelActivationProofs, RigelSubwordProofs, RigelRelocProofs, RigelSelectProofs, RigelBranchProofs

The theorems about the six modules, section 5. `RigelActivationProofs` extends
`RigelFrameProofs`; `RigelBranchProofs` extends `RigelBranchLemmas`, the lemmas
on blocks, layouts and flow; `IntegerDivision` holds the facts about quotients and
remainders that the proofs share.

## 3. Runs

| Run | Question | Bounds | Result |
|---|---|---|---|
| `frame_layout` | Are frame objects disjoint, inside the frame, incoming arguments where the caller put them, and does the layout end? | 2 argument registers, 2 callee-saved registers, up to 2 objects of size 1 or 6 and alignment 1 or 8, dynamic allocas, up to 3 fixed objects | holds; `LayoutInv`, the invariant of the proofs, too |
| `act_large` | Does the code of a function with locals, spills, fixed and variadic calls give its caller everything back, keep its locals and find its arguments when the frame outgrows the immediates, with and without a frame pointer? Is a `va_list` in order? | 5-bit immediates, 3 argument registers, 5 actual arguments, a value in `$at` | holds; of FP, as long as an immediate reaches its slot |
| `act_alloca` | Does such a function keep the calling convention, also when it has a variable sized alloca, over-aligned ones included? | frames up to 80 bytes, 8-bit immediates, calls with register and stack arguments | holds, including `ImplementsABI`; `RunInv`, the invariant of the proofs, too |
| `branch_folding` | Do edge splitting and branch folding keep the control flow, and does folding end? | 4 blocks (+1 split), conditional branches in blocks 1 and 3, one jump table, block 3 may be empty | holds |
| `subword` | Do lowered accesses of two cores behave like a byte memory? | 2 words, bytes of one bit, 3 chains in all; loads and stores of every size, offset and extension, negative offsets included | holds |
| `reloc` | Do the halves of addresses survive sorting, installing and linking? | 5 parts, two local symbols and a global one, two offsets, fields of 2 bits | holds |
| `select` | Does the selected, expanded and printed code compute the node? | fields of 2 bits, all words as operands, constants of every class, floats in 3 ranks | holds |
| `bug_alloca_args` | Does a callee find its stack arguments after an alloca? | 8-bit immediates | violated |
| `bug_va_start` | Does `va_start` find the unnamed arguments of every variadic function? | named arguments fill the registers | violated |
| `bug_scratch` | Does a value that the register allocator keeps in `$at` survive the code that is inserted after allocation? | 5-bit immediates | violated |
| `bug_fp_compare` | The `select` question for the ordered `>` and `>=` of floats | as `select` | violated |
| `bug_addiu` | Are immediates read back when any constant is added? | as `select` | violated |

Why these bounds are enough to be interesting. Two argument registers separate
"all in registers", "exactly full" and "on the stack"; three are used where a
variadic function must have several homes. Size 6 with alignments 1 and 8 makes
both padding and unaligned ends occur. Two objects plus callee-saved slots, FP
and RA slots and outgoing slots give every pair of kinds that could overlap. The
narrow immediates of `act_large` and `bug_scratch` put the limit inside the frame,
so that each offset occurs on both sides of it, the FP slot's included: there are
frames that are too large for an immediate while their FP slot is still in reach,
and frames whose FP slot is not. Four blocks are the least in which every branch of
`OptimizeBlock` is taken (moving a block before its successor needs four), and
a fifth appears when an edge is split. Two words are the least that an
unaligned access can span and three chains let a core start a store while the
other is between its load and its store, and read afterwards. Five parts of an
address give two high parts that compete for low parts with one to spare; the
symbol values put low halves on both sides of the sign, before and after the
section's address is added. With fields of two bits every word is enumerated,
and the classes of constants (sign-extended, zero-extended only, upper half,
both halves) all have members.

The five violated properties state what comments in the source say; the findings
of `PROJECT.json` quote them. In short: outgoing stack arguments are stored
relative to FP after an alloca, where the callee does not look for them;
`VarArgsFrameIndex` is not set when the named arguments use all argument
registers; `eliminateFrameIndex` takes `$at` as a scratch register although the
allocator may keep a value in it; the value patterns of `setogt` and `setoge` are
exchanged, while the branch patterns are right; and a register plus a constant from
0x8000 to 0xFFFF selects `ADDiu`, whose immediate is printed as a negative number.
`act_large`, `act_alloca` and `select` show that everything else holds: the first
has an `$at` in use and does not ask for it, the second does not ask whether a
callee finds its arguments, the third leaves the two patterns out.

More disagrees with the code and has no run of its own:

- the save and restore of FP take their offset as an immediate without the test
  that RA gets (`RigelRegisterInfo.cpp:371`, `:401`). Beyond the limit the printed
  offset wraps below SP, where a callee may write. `act_large` has such frames and
  shows that SP, RA, the callee-saved registers, locals and arguments survive
  even then; `ReturnRestoresCaller` promises FP only while `isInt(FPStackOffset)`;
- when an offset does not fit an immediate, the address is relative to SP even
  in a function whose alloca has moved SP (`RigelRegisterInfo.cpp:298`);
- appending the FP and RA slots undoes the rounding of the frame to the largest
  alignment (`RigelRegisterInfo.cpp:209`, `PrologEpilogInserter.cpp:659`);
- the frame picture of `RigelRegisterInfo.cpp:128-138` puts callee-saved
  registers above the locals, the inserter puts them below;
- `RigelISelLowering.cpp:664` says all frame indices are word aligned; the data
  layout prefers that for the objects a program can declare, not for `i1`;
- a `MOVi32imm` of a global would be expanded to ORi with `%lo`, whose carry the
  linker accounts for as if it were an addition; no pattern creates one.

Every property of a passing run has a mutant, an operator next to the definition
it replaces (marked "Mutant"), which imitates a plausible mistake in that code;
TLC finds the property violated with it.

## 4. Fairness and liveness

`LayoutCompletes` assumes `WF_vars(Layout)`: the inserter is straight-line code
with loops, and once it has started nothing else runs. `FoldingTerminates`
assumes weak fairness of branch folding for the same reason. It is written with
the explicit condition `Folding` for "a folding step is enabled": the run checks
for deadlock, and there is none before `"done"`. Termination of folding is the
claim of the comment at `BranchFolding.cpp:1280`; removing the test it
explains makes TLC show the endless loop (the mutant `MayFollowAnywhere`).

## 5. Proofs

A theorem holds for every value of the constants that satisfies the named
assumptions of its module; TLC checks the same property on the small instance of
section 3. Each inductive invariant is defined at the end of the module that it
is about, was checked by TLC on the instance of that module's run, and is an
invariant of the specification by a theorem of its own (`Invariance`, `RunInvHolds`,
`SubwordInvariance`, `RelocInvariance`, `MachineInvariance`). Those of branches,
`BranchInv` and `ScanInv`, are defined with their proofs, since they quantify
over infinite sets of instructions; TLC checked bounded versions of their parts,
and `BranchInvariant` is the theorem. So is `ResultInv` of the selection
(`ResultInvariance`).

### The frame (`RigelFrameProofs`)

For every number of argument and callee-saved registers, every set of sizes and
alignments, and any number of objects and calls:

- `TypeCorrect`: `Spec => []TypeOK`;
- `LayoutHolds`: `Spec => []LayoutInv`;
- `ObjectsDisjoint`: no two objects of a finished frame share a byte, except
  outgoing slots of different calls;
- `ObjectsInside`: every object lies in the bytes that the prologue allocates;
- `IncomingArgs`: arguments and homes are where the caller put them;
- `PlacedStay`: an object that has been placed is not moved again;
- `SlotsHold`: what the activation needs of its frame (`SlotInv`): the slots for FP
  and RA are objects of their own at the offsets that the prologue and the epilogue
  use, every callee-saved register has a word, and only arguments and homes lie in
  the caller's frame.

Assumed: register size and stack alignment are positive and the first is a
multiple of the second, sizes and alignments are positive, counts are natural
numbers. None of the properties is inductive: they speak of the finished frame
only. The inductive invariant is `TypeOK /\ LayoutInv`. `FixedInv`: exactly the
fixed objects have negative indices, and those of the caller's frame have the
dummy offset 0 until the last pass. `LoopInv`: the callee-saved slots form one
index range and `idx` stays within the running loop. `PlacedInv`, the core: with
`Placed(i)` saying which objects the loops have already passed, all placed
objects are disjoint, above the outgoing slots and below the running offset.
`FormalInv`: the oldest fixed objects are the formal arguments in order. Placing
one more object is one lemma (`PlaceOne`) used by the two placing loops; it rests
on `AlignUp` never moving an offset down.

### Activations (`RigelActivationProofs`)

For every function that `RigelFrame` can compile and every sequence of stores and
calls, with at most one variable sized alloca among them, and `RunSpec` under the
hypothesis `[]FrameFits`:

- `ReturnHolds`: SP, FP, RA and the callee-saved registers are the caller's at the
  return;
- `LocalsHold`: locals keep what the body stored to them;
- `CallerFrameHolds`: the caller's frame is not written, homes apart;
- `ArgumentsHold`: the body reads the stack arguments that its caller passed;
- `VaListHolds`: homes and stack words of a variadic function make one list, in
  every function that `VaListInOrder` is about;
- `RunTypes`: `RunTypeOK`, the alignment of SP included;
- `ImplementsConvention`: the activation implements `RigelABI`;
- `AllocaHolds`: the block of an alloca keeps its contents, in functions that call no
  variadic one, which is what `AllocaKeepsValues` says;
- `CalleeHolds`: a callee finds its stack arguments, as long as no alloca has run.

Nothing is proved of `$at`: `bug_scratch` shows that its value can be lost.

`FrameFits` says two things. The memory that the model represents covers the frame,
SP and the words passed: a bound of the model. And the frame with its incoming
arguments is smaller than `ImmHalf` when there is a frame pointer, and smaller than
two immediates together when there is none: a bound of the code, and the first two of
the disagreements that section 3 lists without a run are why. The
save of FP does not test its offset, and an address that does not fit an immediate is
taken from SP, wherever an alloca has put it. TLC finds `FrameFits` to be an invariant
of the instances of `act_alloca`, `bug_alloca_args` and `bug_va_start`; `act_large`
goes beyond it: there, and in `bug_scratch`, frames with a frame pointer exceed
`ImmHalf`. The conditions of the last two theorems are not proof artefacts either:
a variadic callee writes its home area upwards from SP, where the block of an alloca
is; and `bug_alloca_args` violates `CalleeFindsArguments` after an alloca. Of the constants it is assumed that the
alignments of allocas above the stack's are multiples of it, as powers of two are,
and that SP is aligned on entry.

Most of the properties are inductive only together, and only with what the frame
theorems say: a store to a local leaves the saved registers alone because objects
are disjoint and inside the frame, and the restores find them because no store did.
`RunImpliesFrame` shows that `RunSpec` implies `Spec`, so that `TypeOK`, `LayoutInv`
and `SlotInv` hold along an activation. `RunInv` adds `ModeInv` and `RegisterInv`
(which registers are the caller's in which mode), `BaseInv` (the base register of
`eliminateFrameIndex` stays at the bottom of the frame, SP below it only after an
alloca, whose block lies between the two), `SlotsKept` (each slot holds what was saved
in it, each local what was stored), `ValueInv` (a local's value is found nowhere
unless the body stored it, which is what makes an unassigned local `"undef"` in the
refinement), `CallerInv`, `TransientInv` (the words of the call in progress) and
`CallsInv` (the outgoing slots of an emitted call are still objects). `AddrFacts`
turns `FrameFits` into "the address that the code computes is the one that the
layout meant", through `ShortImmFits` and `MaterializeFits`. There is one lemma per
action. The refinement is `ABIStep`: a store of the body is `Assign`, the two halves
of a call are `Call` and `Resume`, every other step stutters or begins or ends the
activation.

### Sub-word accesses (`RigelSubwordProofs`)

For any number of cores, words, chains and any programs that satisfy the module's
assumptions:

- `SubwordTypeCorrect`: `Spec => []SubwordTypeOK`;
- `LoadsOwnWords`: a lowered load reads only words that hold a byte of the access;
- `LoadsCorrect`: a finished load returns values that its bytes held while its
  chain ran, extended as the node asks;
- `BytesKeepTheirValues`: no byte ever holds a value that was not stored there;
- `SubwordRefinement`: the lowered code implements `ByteMemory`.

The first lemmas are about addresses: which words an access spans, and that the
shifts and the OR of `LoadedWord` put each byte of the access at its position,
whatever the address, the size and the offset (`LoadedBytes`, `LoadResultFacts`).
The inductive invariant adds four parts to the type. `CallInv`: a core has at
most one call open, and what it has written belongs to it. `GotInv`: words are
held only for accesses under way. `HistoryInv`: what is in memory, and what a
core has loaded from it, are values that the bytes held while the chain ran; this
is what makes a byte store that writes back a stale word harmless for
`NoForeignValues`. `FreshInv`: stores of two cores to one word are recorded as
overlapping, and a word loaded by a store that overlaps no other is still what
memory holds. `FreshInv` is what the refinement needs: a word stored back changes
only bytes of the store, unless stores overlapped in that word.

### Addresses in two halves (`RigelRelocProofs`)

For any number of parts, symbols and offsets and every even width of a field:

- `RelocTypeCorrect`: `Spec => []RelocTypeOK`, with the sorted list keeping every
  fixup exactly once;
- `HighPartsMeetLowParts`: after sorting, every high part meets a low part of its
  address before any other;
- `AddressesAddUp`: in the linked program, high and low part of an address add up
  to it;
- `LowPartsStay`: sorting moves high parts only.

The arithmetic is `HighLow`: adding half before the division makes up for the sign
extension of the low half. The move of a list element is `Rotate`, a permutation
of positions: what was before what is a lemma about positions (`OrderKept`), and
`MoveBefore`, the pointer assignments of `mips_frob_file`, is one such rotation.
The inductive invariant `RelocInv` follows the passes. `ChainInv` and `FixInv`: the
list is a permutation of the parts, and a fixup is what `append_insn` or
`adjust_reloc_syms` left. `SortInv`: the high parts that the loop has passed meet
their low parts, and moving another one in front of its low part does not come
between them. `InstallInv`: the fields of the parts already written hold their
offset, and the high parts kept in `hi16` wait for the low part that comes next.
`LinkInv`: the fields of the parts already relocated hold the halves of the
address, the others still those of the offset.

### Selection (`RigelSelectProofs`)

For every width of a field that is a power of two, all constants and all nodes:

- `SelectTypeCorrect`: `Spec => []SelectTypeOK`;
- `NoPseudo`: no pseudo instruction reaches the printer;
- `ReadBack`: printed immediates are read back, provided `AddImmsFit`: no register
  is added a constant that is a zero-extended field and not a sign-extended one.
  The run `bug_addiu` shows that the proviso is needed;
- `ValueComputed`: the printed code computes the value of its node, provided
  `AddImmsFit` and that no value is an ordered > or >= of floats; `bug_fp_compare`
  shows that the second proviso is needed;
- `BranchDecides`: a branch is taken exactly when its condition holds, provided
  `AddImmsFit`;
- `ZeroBranchTable`: the branches against zero that replace a comparison with 0, 1
  or -1 go exactly when the comparison holds;
- `IntCompareTable`, `FPCompareTable`: every compare of the td file, with its swap
  and its inversion, decides its condition; of the float ones, `setogt` and
  `setoge` decide each other's, which is the finding of `bug_fp_compare`.

The inductive invariant has three layers. `SelectInv` says of each phase what
instructions the blocks may hold (`Insn`, `InsertedInsn`, `ExpandedInsn`,
`PrintedInsn`) and, during the expansion, that nothing behind the iterator is a
pseudo instruction. That selected code is of that kind is one lemma for each group
of patterns; `ExpandCode` shows that the iterator passes what `ExpandMBB` has
inserted and nothing else. `MachineInv` adds the shape of the blocks (`ShapeInv`:
one block, or the diamond of a select with its branch and its PHI in place) and
where the machine is in them (`RunInv`: the sink is reached through copy0MBB exactly
when the condition was false). `ResultInv` is the argument: in every phase, what is
left of the code, run from the registers as they are, leads to what the node means
(`Leads`). It holds after selection by one lemma for each group of patterns; the
diamond, the expansion of `MOVi32imm` and printing replace code by code that runs
the same (`DiamondSame`, `ExpandSame`, `RetextedSame`); an instruction that the
machine executes is the first of what was left. `ResultInv` and `Runs`, what a
sequence of instructions does to registers, are defined with the proofs, since they
quantify over all registers.

Two facts need induction over data: AND, OR and XOR are defined bit by bit, and
what is used of them (masking with a low half, OR of disjoint halves, complement) is
proved by the least word at which it would fail, halving that word. That is where
`Half` must be a power of two, which `SelectAssumption` says by its divisors.

### Branches (`RigelBranchLemmas`, `RigelBranchProofs`)

For every number of blocks, every choice of empty blocks, of conditional
branches and of jump tables, and every number of split edges:

- `BranchTypeCorrect`: the layout is a list of different blocks that starts with
  the entry, and edges lead to blocks of the layout;
- `FlowIsPreserved`: whatever edge splitting and branch folding rewrite, each
  piece of work is followed by the same piece of work as in the selected code,
  for every outcome of the comparisons;
- `EdgesCover`: wherever the code of a block can lead, there is an edge;
- `FoldingIsComplete`: what `FoldedCompletely` says of a function that branch
  folding has finished with.

The lemmas come first. A block ends in one of six forms (`FormCases`), and for
each the hooks' answer (`AnaCases`) and what `InsertBranch`, `RemoveBranch` and
`ReverseBranchCondition` make of it are stated. Others say where a block is after
one is moved, inserted or removed, and which edges `CorrectExtraCFGEdges` keeps:
it is a fold (`Kept`), and what it computes is shown by the least index at which
it would be wrong (`NatLeast`), an induction that needs no induction theorem.
The last group is about the program that a function is: `FirstBypass`,
`FirstAbsorb` and `FirstDetour` say that the first work reached from anywhere
stays the same when an empty block is skipped, a block is merged into its only
predecessor, and an empty block is put on an edge.

`FlowPreserved` is not inductive. A rewrite is right only if the edges that it
trusts cover the code (a block without predecessors is removed with its
work), and only if blocks are as the phase before left them. `BranchInv` adds
that:

- `SelInv`: blocks selected so far are of the shapes that `visitBr`,
  `visitSwitchCase` and `handleJTSwitchCase` emit;
- `SplitInv`: while edges are split, blocks are `Whole` (well formed, edges into
  the layout, never to the entry, covering the code) and `Ready`: a conditional
  branch has two edges, or its second destination was split off and falls
  through to the new block;
- `FoldInv`: during branch folding blocks are `Whole`, but for the moment before
  `RemoveDeadBlock`, when one block, empty and entered by nobody, may have lost
  its edge while the block before still falls into it (`Half`);
- `PosInv`: the block looked at and the iterator stay in the layout that is
  rewritten around them;
- `FlowInv`: the recorded flow is the flow of the code.

Each step is shown to keep `Whole` or lead to `Half`, and to be a step of
`Evolves`: same work in the same order, and no comparison that was not there.

`FoldingIsComplete` needs the history of the scan. `ScanInv` says of a scan that
has changed nothing so far that the blocks behind the iterator are as they
should be, and of the block being looked at what has been tested so far; an
erased jump after a jump, which the code does not count as a change, keeps that.

### Only model checked

- Liveness: `LayoutCompletes` and `FoldingTerminates`. The prover has no rule for
  fairness here.
- Activations beyond `FrameFits`, which `act_large` runs.

## 6. Not modelled

- Of the frame: PIC and the global pointer slot, the register scavenging slot,
  the stack protector, shrink wrapping; Rigel uses none of them.
- Values: conversions of arguments, return values and `sret`, floating point.
- Of branch folding: tail merging, landing pads, blocks with their address
  taken, debug values. `CodePlacementOpt` never runs for Rigel
  (`benefitFromCodePlacementOpt` is false).
- Of selection: multiplication, shifts, floating-point arithmetic and NaNs
  (which the target does not support), atomics, inline assembly. The two
  patterns of a comparison with an immediate (`RigelInstrInfo.td:1086-1089`)
  never match, since DAG combining turns `>=` with a constant into `>`.
- Of the assembler and linker: macros, encoding tables, the disassembler, other
  relocations than HI16 and LO16, the GOT, MIPS16, relocatable links.
- The order of accesses by different cores beyond interleaving: the caches of
  the Rigel chip are not part of the repository.
- Upstream LLVM, clang and binutils code for other targets.

## 7. Plan

1. Done: `RigelFrame`, `RigelActivation`, `RigelABI`, `RigelBranch`,
   `RigelSubword`, `ByteMemory`, `RigelSelect`, `RigelReloc`, and the proofs about
   `RigelFrame`, `RigelActivation`, `RigelSubword`, `RigelReloc`, `RigelSelect` and
   `RigelBranch`.
2. `RigelBranch`: tail merging. `RigelIsa`: the encoding tables of assembler and
   disassembler.
