------------------------------ MODULE RigelBranch ------------------------------
(***************************************************************************)
(* The terminators of a function's basic blocks, from the critical edges   *)
(* that PHI elimination splits to the end of branch folding.  The generic  *)
(* passes (MachineBasicBlock.cpp, BranchFolding.cpp) rewrite branches only *)
(* through the hooks of RigelInstrInfo.cpp: AnalyzeBranch, InsertBranch,   *)
(* RemoveBranch and ReverseBranchCondition.                                *)
(*                                                                         *)
(* A block is a sequence of instructions: first its work, then its         *)
(* terminators.  Work is one opaque instruction per original block; a      *)
(* block that ends in a call that does not return has "HALT" instead.      *)
(***************************************************************************)
EXTENDS Integers, FiniteSets, SequencesExt

CONSTANTS
  NumBlocks,   \* blocks of the function; block 1 is the entry
  EmptyBlocks, \* blocks that may have no work of their own
  CondOp,      \* block that may end in a conditional branch |-> its opcode
  Tables,      \* jump tables that block 2 may jump through
  MaxSplits    \* bound: critical edges split

ASSUME BlockAssumption ==
  /\ NumBlocks \in Nat \ {0, 1}
  /\ EmptyBlocks \subseteq 2..NumBlocks
  /\ DOMAIN CondOp \subseteq 1..NumBlocks
  /\ \A b \in DOMAIN CondOp : CondOp[b] \in {"BEQ", "BNE", "BGE", "BGT", "BLE", "BLT", "BE", "BNZ"}
  /\ Tables \subseteq (3..NumBlocks) \X (3..NumBlocks)
  /\ MaxSplits \in Nat

VARIABLES
  pc,      \* where OptimizeFunction and OptimizeBlock are
  layout,  \* the blocks in layout order
  code,    \* block |-> instructions
  succs,   \* block |-> MachineBasicBlock::Successors
  num,     \* block |-> its number after RenumberBlocks
  MBB,     \* the block that is looked at
  I,       \* the iterator of the loop over the blocks (0: end)
  changed, \* MadeChangeThisIteration
  flow     \* what the program did before: see Flow

branchVars == <<pc, layout, code, succs, num, MBB, I, changed, flow>>

Range1(s) == {s[i] : i \in DOMAIN s}

\* The elements of s at the indices in K, in their order.
Kept(s, K) ==
  LET F[i \in 0..Len(s)] ==
        IF i = 0 THEN <<>> ELSE IF i \in K THEN Append(F[i - 1], s[i]) ELSE F[i - 1]
  IN F[Len(s)]

(***************************************************************************)
(* Instructions.                                                           *)
(***************************************************************************)
CondBranches == {"BEQ", "BNE", "BGE", "BGT", "BLE", "BLT", "BE", "BNZ"}

\* GetAnalyzableBrOpc
Analyzable == CondBranches \cup {"JMP"}

Terminators == Analyzable \cup {"JMPR", "RET"}

Barriers == {"JMP", "JMPR", "RET"}

Instr(op, to, r) == [op |-> op, to |-> to, reg |-> r]
Work(k) == Instr("WORK", <<>>, k)
Halt(k) == Instr("HALT", <<>>, k)
Jmp(t) == Instr("JMP", <<t>>, 0)
Ret == Instr("RET", <<>>, 0)

\* Mutant: the operands are swapped instead of the condition inverted.
OppositeSwapsOperands(op) ==
  CASE op = "BEQ" -> "BNE" [] op = "BNE" -> "BEQ"
    [] op = "BE"  -> "BNZ" [] op = "BNZ" -> "BE"
    [] op = "BGT" -> "BLT" [] op = "BLT" -> "BGT"
    [] op = "BGE" -> "BLE" [] op = "BLE" -> "BGE"

GetOppositeBranchOpcode(op) ==
  CASE op = "BEQ" -> "BNE" [] op = "BNE" -> "BEQ"
    [] op = "BE"  -> "BNZ" [] op = "BNZ" -> "BE"
    [] op = "BGT" -> "BLE" [] op = "BLE" -> "BGT"
    [] op = "BGE" -> "BLT" [] op = "BLT" -> "BGE"

\* Cond is <<>> or <<opcode, operands>>.
ReverseBranchCondition(Cond) == <<GetOppositeBranchOpcode(Cond[1]), Cond[2]>>

Analysis(tbb, fbb, cond, c) ==
  [fail |-> FALSE, tbb |-> tbb, fbb |-> fbb, cond |-> cond, code |-> c]

Failed(c) == [fail |-> TRUE, tbb |-> 0, fbb |-> 0, cond |-> <<>>, code |-> c]

\* AnalyzeBranch of a block with instructions c: its answer, and the
\* instructions it leaves (it erases a jump after a jump if it may).
AnalyzeBranch(c, AllowModify) ==
  LET n == Len(c)
      Term(i) == i > 0 /\ c[i].op \in Terminators
      Known(i) == i > 0 /\ c[i].op \in Analyzable
      Cond(i) == <<c[i].op, c[i].reg>>
      Dest(i) == c[i].to[1]
  IN IF ~Term(n) THEN Analysis(0, 0, <<>>, c)
     ELSE IF ~Known(n) \/ (Term(n - 1) /\ ~Known(n - 1)) THEN Failed(c)
     ELSE IF ~Known(n - 1) THEN Analysis(Dest(n), 0, IF c[n].op = "JMP" THEN <<>> ELSE Cond(n), c)
     ELSE IF Term(n - 2) THEN Failed(c)
     ELSE IF c[n - 1].op = "JMP"
       THEN IF AllowModify THEN Analysis(Dest(n - 1), 0, <<>>, Front(c)) ELSE Failed(c)
     ELSE IF c[n].op # "JMP" THEN Failed(c)
     ELSE Analysis(Dest(n - 1), Dest(n), Cond(n - 1), c)

\* RemoveBranch: up to two analyzable branches at the end.
RemoveBranch(c) ==
  LET n == Len(c)
      Known(i) == i > 0 /\ c[i].op \in Analyzable
  IN SubSeq(c, 1, IF ~Known(n) THEN n ELSE IF Known(n - 1) THEN n - 2 ELSE n - 1)

InsertBranch(c, tbb, fbb, cond) ==
  c \o (IF cond = <<>> THEN <<Jmp(tbb)>> ELSE <<Instr(cond[1], <<tbb>>, cond[2])>>)
    \o (IF fbb = 0 THEN <<>> ELSE <<Jmp(fbb)>>)

Rewritten(c, tbb, fbb, cond) == InsertBranch(RemoveBranch(c), tbb, fbb, cond)

(***************************************************************************)
(* Layout and control flow graph.                                          *)
(***************************************************************************)
Blocks == Range1(layout)
PositionIn(l, b) == CHOOSE i \in DOMAIN l : l[i] = b
Position(b) == PositionIn(layout, b)
EntryBlock == layout[1]

\* The block after b in a layout, or 0.
Following(l, b) == IF PositionIn(l, b) = Len(l) THEN 0 ELSE l[PositionIn(l, b) + 1]

\* A layout without block b, and with b inserted after block p or before s.
Without(l, b) == RemoveAt(l, PositionIn(l, b))
PutAfter(l, b, p) == InsertAt(l, PositionIn(l, p) + 1, b)
PutBefore(l, b, s) == InsertAt(l, PositionIn(l, s), b)

LayoutSuccessor(b) == Following(layout, b)
Prior(b) == layout[Position(b) - 1]

isSuccessor(b, s) == s \in Range1(succs[b])
Preds(b) == {p \in Blocks : isSuccessor(p, b)}
PredEdges(b) == UNION {{<<p, i>> : i \in {j \in DOMAIN succs[p] : succs[p][j] = b}} : p \in Blocks}
OnePred(b) == \E e \in PredEdges(b) : PredEdges(b) = {e}
ManyPreds(b) == \E e, f \in PredEdges(b) : e # f

canFallThrough(b) ==
  LET a == AnalyzeBranch(code[b], FALSE)
      ft == LayoutSuccessor(b)
  IN /\ ft # 0 /\ isSuccessor(b, ft)
     /\ IF a.fail THEN Last(code[b]).op \notin Barriers
        ELSE \/ a.tbb = 0
             \/ a.tbb = ft \/ a.fbb = ft
             \/ a.cond # <<>> /\ a.fbb = 0

\* ReplaceUsesOfBlockWith: branch operands and successor edges.  A jump table
\* is not an operand.
ReplaceUses(c, old, new) ==
  [i \in DOMAIN c |-> IF c[i].op \in Analyzable /\ c[i].to[1] = old
                        THEN [c[i] EXCEPT !.to = <<new>>] ELSE c[i]]

\* Mutant: removeSuccessor without addSuccessor.
ReplaceEdgesOnlyRemoves(s, old, new) == Kept(s, {i \in DOMAIN s : s[i] # old})

ReplaceEdges(s, old, new) ==
  Kept(s, {i \in DOMAIN s : s[i] # old})
    \o [i \in 1..Cardinality({j \in DOMAIN s : s[j] = old}) |-> new]

ReplaceMBBInJumpTables(c, old, new) ==
  [i \in DOMAIN c |-> IF c[i].op = "JMPR"
                        THEN [c[i] EXCEPT !.to = ReplaceAll(c[i].to, old, new)] ELSE c[i]]

\* CorrectExtraCFGEdges, for the answer a of AnalyzeBranch: one edge for each
\* destination stays.
CorrectExtraCFGEdges(s, a, ft) ==
  LET DestA == IF a.tbb = 0 THEN ft ELSE a.tbb
      DestB == IF a.fbb # 0 THEN a.fbb ELSE IF a.tbb = 0 \/ a.cond # <<>> THEN ft ELSE 0
  IN Kept(s, {i \in DOMAIN s : s[i] \in {DestA, DestB} /\ \A j \in 1..(i - 1) : s[j] # s[i]})

\* AnalyzeBranch with AllowModify, and CorrectExtraCFGEdges if it succeeds.
Analyze(b) == AnalyzeBranch(code[b], TRUE)

CleanedEdges(b) ==
  IF Analyze(b).fail THEN succs[b]
                     ELSE CorrectExtraCFGEdges(succs[b], Analyze(b), LayoutSuccessor(b))

Clean(b) ==
  /\ code' = [code EXCEPT ![b] = Analyze(b).code]
  /\ succs' = [succs EXCEPT ![b] = CleanedEdges(b)]

\* updateTerminator of a block with instructions c and successors s, when the
\* block after it is ft.
updateTerminator(c, s, ft) ==
  LET a == AnalyzeBranch(c, FALSE)
      MBBA == IF s[1] = a.tbb THEN s[2] ELSE s[1]
  IN IF s = <<>> THEN c
     ELSE IF a.cond = <<>> /\ a.tbb # 0 THEN IF a.tbb = ft THEN RemoveBranch(c) ELSE c
     ELSE IF a.cond = <<>> THEN IF s[1] = ft THEN c ELSE InsertBranch(c, s[1], 0, <<>>)
     ELSE IF a.fbb # 0
       THEN IF a.tbb = ft THEN Rewritten(c, a.fbb, 0, ReverseBranchCondition(a.cond))
            ELSE IF a.fbb = ft THEN Rewritten(c, a.tbb, 0, a.cond)
            ELSE c
     ELSE IF a.tbb = ft THEN Rewritten(c, MBBA, 0, ReverseBranchCondition(a.cond))
     ELSE IF MBBA # ft THEN Rewritten(c, a.tbb, MBBA, a.cond)
     ELSE c

(***************************************************************************)
(* What the code does: the next work after a given work, for each outcome  *)
(* of the comparisons.  Exit: the function returns or never comes back.    *)
(***************************************************************************)
Outcomes == {"lt", "eq", "gt"}
Exit == -1
Loop == -2  \* no more work is done
OffEnd == 0 \* control runs past the last block

Taken(op, v) ==
  CASE op \in {"BEQ", "BE"} -> v = "eq" [] op \in {"BNE", "BNZ"} -> v # "eq"
    [] op = "BGT" -> v = "gt" [] op = "BLE" -> v # "gt"
    [] op = "BLT" -> v = "lt" [] op = "BGE" -> v # "lt"
    [] OTHER -> TRUE

\* Where instructions c lead without doing work, when ft is the block after.
Leads(c, nu, ft) ==
  LET out == {i \in DOMAIN c : c[i].op \in Terminators
                /\ (c[i].op \in CondBranches => Taken(c[i].op, nu[c[i].reg]))}
      i == CHOOSE i \in out : \A j \in out : i <= j
  IN IF out = {} THEN ft
     ELSE IF c[i].op = "RET" THEN Exit
     ELSE IF c[i].op = "JMPR" THEN c[i].to[IF nu[c[i].reg] = "lt" THEN 1 ELSE 2]
     ELSE c[i].to[1]

IsWork(x) == x.op \in {"WORK", "HALT"}

\* The blocks that do no work of their own before they lead elsewhere.
Passed(l, cd) == {b \in Range1(l) : cd[b] = <<>> \/ ~IsWork(cd[b][1])}

\* The work done first when control comes to d.  Control passes through blocks
\* without work; where it leads is what every set of them that it cannot leave
\* otherwise leads to, and if there is no such place it never does any work.
Reached(l, cd, nu, d) ==
  LET P == Passed(l, cd)
      Next(b) == Leads(cd[b], nu, Following(l, b))
      Trails == {S \in SUBSET P : d \in S /\ \A b \in S : Next(b) \in P => Next(b) \in S}
      First(e) == IF e \in {Exit, OffEnd} THEN e ELSE cd[e][1].reg
      Ends(S) == {First(e) : e \in {Next(b) : b \in S} \ P}
      Common == {x \in Ends(P) : \A S \in Trails : x \in Ends(S)}
  IN IF d \notin P THEN First(d) ELSE IF Common = {} THEN Loop ELSE CHOOSE x \in Common : TRUE

Sites(cd) == {k \in 1..NumBlocks :
                \E b \in DOMAIN cd : \E i \in DOMAIN cd[b] :
                  cd[b][i].op \in CondBranches \cup {"JMPR"} /\ cd[b][i].reg = k}

Works(l, cd) == {k \in 1..NumBlocks :
                   \E b \in Range1(l) : \E i \in DOMAIN cd[b] :
                     IsWork(cd[b][i]) /\ cd[b][i].reg = k}

NextWork(l, cd, k, nu) ==
  LET b == CHOOSE b \in Range1(l) : \E i \in DOMAIN cd[b] : IsWork(cd[b][i]) /\ cd[b][i].reg = k
      i == CHOOSE i \in DOMAIN cd[b] : IsWork(cd[b][i]) /\ cd[b][i].reg = k
      rest == SubSeq(cd[b], i + 1, Len(cd[b]))
      d == Leads(rest, nu, Following(l, b))
  IN IF cd[b][i].op = "HALT" THEN Exit
     ELSE IF rest # <<>> /\ IsWork(rest[1]) THEN rest[1].reg
     ELSE Reached(l, cd, nu, d)

Flow(l, cd) ==
  [k \in Works(l, cd) |-> [nu \in [Sites(cd) -> Outcomes] |-> NextWork(l, cd, k, nu)]]

(***************************************************************************)
(* Functions as instruction selection leaves them: it emits no branch to   *)
(* the block that follows, and the entry has no predecessor.               *)
(***************************************************************************)
After(b) == IF b = NumBlocks THEN 0 ELSE b + 1
Targets(b) == (2..NumBlocks) \ {After(b)}

Taking(b) ==
  IF b \in DOMAIN CondOp THEN {<<Instr(CondOp[b], <<t>>, b)>> : t \in Targets(b)} ELSE {}
Falling(b) == IF After(b) = 0 THEN {} ELSE {<<>>} \cup Taking(b)
Jumping(b) == {<<Jmp(t)>> : t \in Targets(b)}
Endings(b) == Falling(b) \cup Jumping(b) \cup {e \o j : e \in Taking(b), j \in Jumping(b)}

TableEndings == {<<Instr("JMPR", t, 2)>> : t \in Tables}

Shapes(b) ==
  {<<Work(b)>> \o e : e \in Endings(b)}
  \cup (IF b = 2 THEN {<<Work(2)>> \o e : e \in TableEndings} ELSE {})
  \cup (IF b = 1 THEN {} ELSE {<<Work(b), Ret>>, <<Halt(b)>>})
  \cup (IF b \in EmptyBlocks THEN Endings(b) \cup {<<Ret>>} ELSE {})

\* The edges that are added with a branch: those of a conditional one in
\* either order when it has been inverted to fall through, for a jump table
\* one for each destination.
SelectedEdges(c, b) ==
  LET a == AnalyzeBranch(c, FALSE)
      halts == c # <<>> /\ Last(c).op \in {"HALT", "RET"}
  IN CASE halts -> {<<>>}
       [] ~halts /\ a.fail -> {LET t == Last(c).to IN IF t[1] = t[2] THEN <<t[1]>> ELSE t}
       [] ~halts /\ ~a.fail /\ a.tbb = 0 -> {<<After(b)>>}
       [] a.tbb # 0 /\ a.cond = <<>> -> {<<a.tbb>>}
       [] a.tbb # 0 /\ a.cond # <<>> /\ a.fbb # 0 -> {<<a.tbb, a.fbb>>}
       [] OTHER -> {<<a.tbb, After(b)>>, <<After(b), a.tbb>>}

\* A block made for a jump table has no predecessor but the range check.
Enterable(c) ==
  Len(code) >= 2 /\ code[2] # <<>> /\ Last(code[2]).op = "JMPR"
    => \A i \in DOMAIN c : c[i].to # <<2>>

BranchInit ==
  /\ pc = "select"
  /\ layout = <<>> /\ code = <<>> /\ succs = <<>>
  /\ num = <<>>
  /\ MBB = 1 /\ I = 0 /\ changed = FALSE
  /\ flow = <<>>

\* Instruction selection of the next block.
SelectBlock ==
  LET b == Len(layout) + 1
  IN
  /\ pc = "select" /\ b <= NumBlocks
  /\ \E c \in Shapes(b) : \E e \in SelectedEdges(c, b) :
       /\ Enterable(c)
       /\ code' = Append(code, c)
       /\ succs' = Append(succs, e)
  /\ layout' = Append(layout, b)
  /\ UNCHANGED <<pc, num, MBB, I, changed, flow>>

\* UnreachableMachineBlockElim: blocks that the entry does not reach go.
Reachable ==
  {b \in Blocks : \A S \in SUBSET Blocks :
     EntryBlock \in S /\ (\A p \in S : Range1(succs[p]) \subseteq S) => b \in S}

RemoveUnreachable ==
  LET Left(s) == [b \in DOMAIN s |-> IF b \in Reachable THEN s[b] ELSE <<>>]
  IN
  /\ pc = "select" /\ Len(layout) = NumBlocks
  /\ pc' = "split"
  /\ layout' = Kept(layout, {i \in DOMAIN layout : layout[i] \in Reachable})
  /\ code' = Left(code) /\ succs' = Left(succs)
  /\ flow' = Flow(layout', code')
  /\ UNCHANGED <<num, MBB, I, changed>>

(***************************************************************************)
(* Splitting of critical edges.                                            *)
(***************************************************************************)
SplitCriticalEdge(b, s) ==
  LET n == Len(code) + 1
      newLayout == PutAfter(layout, n, b)
      newSuccs == Append(RemoveFirst(succs[b], s), n)
      terminated == updateTerminator(ReplaceUses(code[b], s, n), newSuccs, n)
  IN
  /\ pc = "split" /\ n <= NumBlocks + MaxSplits
  /\ b # s /\ isSuccessor(b, s)
  /\ Len(succs[b]) > 1 /\ ManyPreds(s)
  /\ ~AnalyzeBranch(code[b], FALSE).fail
  /\ layout' = newLayout
  /\ code' = Append([code EXCEPT ![b] = terminated],
                    IF Following(newLayout, n) = s THEN <<>> ELSE <<Jmp(s)>>)
  /\ succs' = Append([succs EXCEPT ![b] = newSuccs], <<s>>)
  /\ UNCHANGED <<pc, num, MBB, I, changed, flow>>

(***************************************************************************)
(* Branch folding.                                                         *)
(***************************************************************************)

\* OptimizeFunction, first loop: "Fix CFG".
StartFolding ==
  /\ pc = "split" /\ pc' = "fix"
  /\ MBB' = EntryBlock
  /\ UNCHANGED <<layout, code, succs, num, I, changed, flow>>

FixCFG ==
  /\ pc = "fix"
  /\ Clean(MBB)
  /\ IF LayoutSuccessor(MBB) = 0
       THEN pc' = "start" /\ UNCHANGED MBB
       ELSE MBB' = LayoutSuccessor(MBB) /\ UNCHANGED pc
  /\ UNCHANGED <<layout, num, I, changed, flow>>

\* OptimizeBranches.
OptimizeBranches ==
  /\ pc = "start" /\ pc' = "next"
  /\ num' = [b \in DOMAIN code |-> IF b \in Blocks THEN Position(b) ELSE 0]
  /\ I' = LayoutSuccessor(EntryBlock)
  /\ changed' = FALSE
  /\ UNCHANGED <<layout, code, succs, MBB, flow>>

NextBlock ==
  /\ pc = "next" /\ I # 0
  /\ MBB' = I
  /\ I' = LayoutSuccessor(I)
  /\ pc' = "top"
  /\ UNCHANGED <<layout, code, succs, num, changed, flow>>

\* Mutant: one scan, whatever has changed.
EndOfFirstScan ==
  /\ pc = "next" /\ I = 0
  /\ pc' = "done"
  /\ UNCHANGED <<layout, code, succs, num, MBB, I, changed, flow>>

EndOfBlocks ==
  /\ pc = "next" /\ I = 0
  /\ pc' = IF changed THEN "start" ELSE "done"
  /\ UNCHANGED <<layout, code, succs, num, MBB, I, changed, flow>>

\* Mutant: the optimized block is removed without asking for predecessors.
RemoveBlockAnyway ==
  /\ pc = "dead"
  /\ layout' = Without(layout, MBB)
  /\ code' = [code EXCEPT ![MBB] = <<>>]
  /\ succs' = [succs EXCEPT ![MBB] = <<>>]
  /\ changed' = TRUE
  /\ pc' = "next"
  /\ UNCHANGED <<num, MBB, I, flow>>

\* The block has been optimized; if it is dead it is removed.
RemoveDeadBlock ==
  /\ pc = "dead" /\ Preds(MBB) = {}
  /\ layout' = Without(layout, MBB)
  /\ code' = [code EXCEPT ![MBB] = <<>>]
  /\ succs' = [succs EXCEPT ![MBB] = <<>>]
  /\ changed' = TRUE
  /\ pc' = "next"
  /\ UNCHANGED <<num, MBB, I, flow>>

KeepBlock ==
  /\ pc = "dead" /\ Preds(MBB) # {}
  /\ pc' = "next"
  /\ UNCHANGED <<layout, code, succs, num, MBB, I, changed, flow>>

(***************************************************************************)
(* OptimizeBlock.  "top" is the label ReoptimizeBlock, "prior", "cur" and  *)
(* "place" are the three parts of its body.                                *)
(***************************************************************************)
Reoptimize == pc' = "top" /\ changed' = TRUE

\* An empty block: everyone uses its fall-through instead.
SkipEmptyBlock ==
  LET ft == LayoutSuccessor(MBB)
  IN
  /\ pc = "top" /\ code[MBB] = <<>>
  /\ IF Preds(MBB) = {} \/ ft = 0
       THEN UNCHANGED <<code, succs, changed>>
       ELSE /\ code' = [b \in DOMAIN code |->
                          ReplaceMBBInJumpTables(
                            IF b \in Preds(MBB) THEN ReplaceUses(code[b], MBB, ft) ELSE code[b],
                            MBB, ft)]
            /\ succs' = [b \in DOMAIN succs |->
                           IF b \in Preds(MBB) THEN ReplaceEdges(succs[b], MBB, ft) ELSE succs[b]]
            /\ changed' = TRUE
  /\ pc' = "dead"
  /\ UNCHANGED <<layout, num, MBB, I, flow>>

PrevBB == Prior(MBB)

AnalyzePrior ==
  /\ pc = "top" /\ code[MBB] # <<>>
  /\ Clean(PrevBB)
  /\ changed' = (changed \/ CleanedEdges(PrevBB) # succs[PrevBB])
  /\ pc' = "prior"
  /\ UNCHANGED <<layout, num, MBB, I, flow>>

\* Both directions of the previous branch go to one block.
SameDestination(a) == ~a.fail /\ a.tbb # 0 /\ a.tbb = a.fbb

\* The previous block falls through to this one, which nobody else reaches.
OnlyFallThrough(a) ==
  /\ ~a.fail /\ a.cond = <<>> /\ a.tbb = 0
  /\ OnePred(MBB) /\ Len(succs[PrevBB]) = 1

\* The previous branch only branches here.
OnlyHere(a) == ~a.fail /\ a.tbb = MBB /\ a.fbb = 0
FalseHere(a) == ~a.fail /\ a.fbb = MBB /\ a.tbb # MBB
TrueHere(a) == ~a.fail /\ a.tbb = MBB /\ a.fbb \notin {0, MBB}

IsBetterFallthrough(b1, b2) ==
  /\ code[b1] # <<>> /\ code[b2] # <<>>
  /\ \/ isSuccessor(b1, b2)
     \/ /\ ~isSuccessor(b2, b1)
        /\ Last(code[b2]).op = "HALT" /\ Last(code[b1]).op # "HALT"

\* A block without successors between a conditional branch and its target.
InTheWay(a) ==
  LET ft == LayoutSuccessor(MBB)
  IN /\ ~a.fail /\ a.cond # <<>> /\ a.fbb = 0
     /\ succs[MBB] = <<>> /\ a.tbb = ft /\ ~canFallThrough(MBB)
     /\ ft = Last(layout) => IsBetterFallthrough(ft, MBB)

RewritePrior(c) ==
  /\ code' = [code EXCEPT ![PrevBB] = c]
  /\ Reoptimize
  /\ UNCHANGED <<layout, succs, num, MBB, I, flow>>

JoinDestinations ==
  LET a == Analyze(PrevBB)
  IN /\ pc = "prior" /\ SameDestination(a)
     /\ RewritePrior(IF a.tbb = MBB THEN RemoveBranch(code[PrevBB])
                                       ELSE Rewritten(code[PrevBB], a.tbb, 0, <<>>))

RemoveOnlyBranch ==
  LET a == Analyze(PrevBB)
  IN pc = "prior" /\ OnlyHere(a) /\ RewritePrior(RemoveBranch(code[PrevBB]))

DropFalseBranch ==
  LET a == Analyze(PrevBB)
  IN pc = "prior" /\ FalseHere(a) /\ RewritePrior(Rewritten(code[PrevBB], a.tbb, 0, a.cond))

ReversePrior ==
  LET a == Analyze(PrevBB)
  IN /\ pc = "prior" /\ TrueHere(a)
     /\ RewritePrior(Rewritten(code[PrevBB], a.fbb, 0, ReverseBranchCondition(a.cond)))

\* The contents move into the previous block; this block is dead then.
MergeIntoPrior ==
  /\ pc = "prior" /\ OnlyFallThrough(Analyze(PrevBB))
  /\ code' = [code EXCEPT ![PrevBB] = @ \o code[MBB], ![MBB] = <<>>]
  /\ succs' = [succs EXCEPT ![PrevBB] = succs[MBB], ![MBB] = <<>>]
  /\ changed' = TRUE
  /\ pc' = "dead"
  /\ UNCHANGED <<layout, num, MBB, I, flow>>

MoveToEnd(b) == Append(Without(layout, b), b)

MoveOutOfTheWay ==
  LET a == Analyze(PrevBB)
  IN /\ pc = "prior" /\ InTheWay(a)
     /\ code' = [code EXCEPT ![PrevBB] = Rewritten(@, MBB, 0, ReverseBranchCondition(a.cond))]
     /\ layout' = MoveToEnd(MBB)
     /\ changed' = TRUE
     /\ pc' = "dead"
     /\ UNCHANGED <<succs, num, MBB, I, flow>>

\* None of these: the branch of this block is analyzed.
AnalyzeCurrent ==
  LET a == Analyze(PrevBB)
  IN /\ pc = "prior"
     /\ ~(\/ SameDestination(a) \/ OnlyFallThrough(a) \/ OnlyHere(a)
          \/ FalseHere(a) \/ TrueHere(a) \/ InTheWay(a))
     /\ Clean(MBB)
     /\ changed' = (changed \/ CleanedEdges(MBB) # succs[MBB])
     /\ pc' = "cur"
     /\ UNCHANGED <<layout, num, MBB, I, flow>>

\* A two-way branch whose false direction is this block.
SelfLoop(a) == ~a.fail /\ a.tbb \notin {0, MBB} /\ a.fbb = MBB

ReverseLoop ==
  LET a == Analyze(MBB)
  IN /\ pc = "cur" /\ SelfLoop(a)
     /\ code' = [code EXCEPT ![MBB] = Rewritten(@, a.fbb, a.tbb, ReverseBranchCondition(a.cond))]
     /\ Reoptimize
     /\ UNCHANGED <<layout, succs, num, MBB, I, flow>>

\* Only an unconditional branch, and the previous block can be rewritten.
Forwardable ==
  LET a == Analyze(MBB)
  IN /\ ~a.fail /\ a.tbb \notin {0, MBB} /\ a.cond = <<>>
     /\ code[MBB] = <<Jmp(a.tbb)>>
     /\ \/ ~canFallThrough(PrevBB)
        \/ ~Analyze(PrevBB).fail
        \/ ~isSuccessor(PrevBB, MBB)
     /\ Preds(MBB) # {}

\* The previous block, when it falls through into this one, gets a branch.
ExplicitPrior ==
  LET a == Analyze(PrevBB)
  IN IF canFallThrough(PrevBB) /\ isSuccessor(PrevBB, MBB) /\ MBB \notin {a.tbb, a.fbb}
       THEN IF a.tbb = 0 THEN Rewritten(code[PrevBB], MBB, 0, a.cond)
                         ELSE Rewritten(code[PrevBB], a.tbb, MBB, a.cond)
       ELSE code[PrevBB]

\* A predecessor with instructions c and successors s branches to t instead;
\* a conditional branch with one destination becomes unconditional.
Revectored(c, s, t) ==
  LET s1 == ReplaceEdges(s, MBB, t)
      a == AnalyzeBranch(ReplaceUses(c, MBB, t), TRUE)
  IN IF ~a.fail /\ a.tbb # 0 /\ a.tbb = a.fbb
       THEN [code |-> Rewritten(a.code, a.tbb, 0, <<>>),
             succs |-> CorrectExtraCFGEdges(s1, Analysis(a.tbb, 0, <<>>, c), 0)]
       ELSE [code |-> a.code, succs |-> s1]

ForwardBlock ==
  LET t == Analyze(MBB).tbb
      before(b) == IF b = PrevBB THEN ExplicitPrior ELSE code[b]
      new == [b \in Preds(MBB) |-> Revectored(before(b), succs[b], t)]
  IN
  /\ pc = "cur" /\ Forwardable
  /\ code' = [b \in DOMAIN code |->
                ReplaceMBBInJumpTables(
                  IF b = MBB THEN <<>> ELSE IF b \in Preds(MBB) THEN new[b].code ELSE before(b),
                  MBB, t)]
  /\ succs' = [b \in DOMAIN succs |-> IF b \in Preds(MBB) THEN new[b].succs ELSE succs[b]]
  /\ changed' = TRUE
  /\ pc' = "dead"
  /\ UNCHANGED <<layout, num, MBB, I, flow>>

CurrentDone ==
  /\ pc = "cur" /\ ~SelfLoop(Analyze(MBB)) /\ ~Forwardable
  /\ pc' = "place"
  /\ UNCHANGED <<layout, code, succs, num, MBB, I, changed, flow>>

(***************************************************************************)
(* Placement.                                                              *)
(***************************************************************************)

\* Predecessors that end in a branch elsewhere; asking for it erases a jump
\* after a jump.
OpenPreds == {p \in Preds(MBB) \ {MBB} : ~canFallThrough(p) /\ ~Analyze(p).fail}

\* Mutant: blocks that fall through are moved in both directions.
MayFollowAnywhere(p) ==
  LET a == Analyze(MBB)
  IN canFallThrough(MBB) => a.tbb = 0 \/ a.fbb = 0

\* This block may be moved after p.
MayFollow(p) ==
  LET a == Analyze(MBB)
  IN canFallThrough(MBB) => (a.tbb = 0 \/ a.fbb = 0) /\ num[MBB] >= num[p]

Erased(T) == [b \in DOMAIN code |-> IF b \in T THEN Analyze(b).code ELSE code[b]]

\* A predecessor without fall-through is found; those in T were asked.
MoveAfterPred(p, T) ==
  /\ pc = "place" /\ ~canFallThrough(PrevBB)
  /\ p \in T /\ T \subseteq OpenPreds
  /\ MayFollow(p) /\ \A q \in T \ {p} : ~MayFollow(q)
  /\ code' = IF canFallThrough(MBB)
               THEN [Erased(T) EXCEPT ![MBB] = InsertBranch(@, LayoutSuccessor(MBB), 0, <<>>)]
               ELSE Erased(T)
  /\ layout' = PutAfter(Without(layout, MBB), MBB, p)
  /\ Reoptimize
  /\ UNCHANGED <<succs, num, MBB, I, flow>>

NoPred == \A p \in OpenPreds : ~MayFollow(p)

\* The i-th successor can be reached by falling through from this block.
MayPrecede(i) ==
  LET s == succs[MBB][i]
  IN s # MBB /\ Prior(s) # MBB /\ ~canFallThrough(Prior(s)) /\ ~Analyze(MBB).fail

MoveBeforeSucc(i) ==
  /\ pc = "place" /\ ~canFallThrough(PrevBB) /\ NoPred /\ ~canFallThrough(MBB)
  /\ MayPrecede(i) /\ \A k \in 1..(i - 1) : ~MayPrecede(k)
  /\ layout' = PutBefore(Without(layout, MBB), MBB, succs[MBB][i])
  /\ code' = Erased(OpenPreds)
  /\ Reoptimize
  /\ UNCHANGED <<succs, num, MBB, I, flow>>

NoSucc == \A i \in DOMAIN succs[MBB] : ~MayPrecede(i)

\* Without this block the previous one would fall through.
MoveLast ==
  LET ft == LayoutSuccessor(MBB)
  IN ~Analyze(PrevBB).fail /\ ft # 0 /\ isSuccessor(PrevBB, ft)

PlaceLast ==
  /\ pc = "place" /\ ~canFallThrough(PrevBB) /\ NoPred /\ ~canFallThrough(MBB) /\ NoSucc
  /\ MoveLast
  /\ code' = Erased(OpenPreds \cup {PrevBB})
  /\ layout' = MoveToEnd(MBB)
  /\ changed' = TRUE
  /\ pc' = "dead"
  /\ UNCHANGED <<succs, num, MBB, I, flow>>

LeaveInPlace ==
  /\ pc = "place"
  /\ IF canFallThrough(PrevBB) THEN UNCHANGED code
     ELSE /\ NoPred
          /\ canFallThrough(MBB) \/ (NoSucc /\ ~MoveLast)
          /\ code' = Erased(IF canFallThrough(MBB) \/ LayoutSuccessor(MBB) = 0
                              THEN OpenPreds ELSE OpenPreds \cup {PrevBB})
  /\ pc' = "dead"
  /\ UNCHANGED <<layout, succs, num, MBB, I, changed, flow>>

(***************************************************************************)
(* Specification.                                                          *)
(***************************************************************************)
OptimizeBlock ==
  \/ SkipEmptyBlock \/ AnalyzePrior
  \/ JoinDestinations \/ MergeIntoPrior \/ RemoveOnlyBranch \/ DropFalseBranch
  \/ ReversePrior \/ MoveOutOfTheWay \/ AnalyzeCurrent
  \/ ReverseLoop \/ ForwardBlock \/ CurrentDone
  \/ pc = "place" /\ \E T \in SUBSET OpenPreds : \E p \in T : MoveAfterPred(p, T)
  \/ pc = "place" /\ \E i \in DOMAIN succs[MBB] : MoveBeforeSucc(i)
  \/ PlaceLast \/ LeaveInPlace

FoldBranches ==
  \/ FixCFG \/ OptimizeBranches \/ NextBlock \/ EndOfBlocks
  \/ RemoveDeadBlock \/ KeepBlock
  \/ OptimizeBlock

BranchNext ==
  \/ SelectBlock \/ RemoveUnreachable
  \/ \E b, s \in Blocks : SplitCriticalEdge(b, s)
  \/ StartFolding
  \/ FoldBranches
  \/ pc = "done" /\ UNCHANGED branchVars

Folding == pc \notin {"select", "split", "done"}

\* Branch folding is a loop that runs until nothing changes.  The fairness is
\* WF_branchVars(FoldBranches) with Folding for its enabling condition (there
\* is no deadlock before "done"), which spares TLC the evaluation of ENABLED.
BranchSpec ==
  /\ BranchInit /\ [][BranchNext]_branchVars
  /\ []<>~Folding \/ []<><<FoldBranches>>_branchVars

(***************************************************************************)
(* Properties.                                                             *)
(***************************************************************************)
BranchPCs == {"select", "split", "fix", "start", "next", "top", "prior", "cur",
              "place", "dead", "done"}

\* Type invariant: the layout is a list of different blocks that starts with
\* the entry, and edges lead to blocks of the layout.
BranchTypeOK ==
  /\ pc \in BranchPCs
  /\ DOMAIN code = DOMAIN succs
  /\ Blocks \subseteq DOMAIN code
  /\ \A i, j \in DOMAIN layout : i # j => layout[i] # layout[j]
  /\ layout # <<>> => layout[1] = 1
  /\ pc # "select" => \A b \in Blocks : Range1(succs[b]) \subseteq Blocks \ {1}
  /\ I \in Blocks \cup {0}
  /\ changed \in BOOLEAN

\* Whatever branch folding and edge splitting rewrite, from each piece of work control reaches the
\* same next piece of work as in the selected code, for every outcome of the
\* comparisons: no inverted, dropped or redirected branch changes the program.
FlowPreserved ==
  pc # "select" =>
    \A k \in Works(layout, code) : \A nu \in DOMAIN flow[k] :
      NextWork(layout, code, k, nu) = flow[k][nu]

\* The layout without the block that RemoveDeadBlock is about to remove.
Live == IF pc = "dead" /\ Preds(MBB) = {} THEN Without(layout, MBB) ELSE layout

\* Wherever the code of a block can lead, the control flow graph has an edge:
\* the later passes that trust it (liveness, block removal) see every path.
EdgesCoverCode ==
  pc # "select" =>
    \A b \in Range1(Live) : ~(\E i \in DOMAIN code[b] : code[b][i].op = "HALT") =>
      \A nu \in [Sites(code) -> Outcomes] :
        Leads(code[b], nu, Following(Live, b)) \in Range1(succs[b]) \cup {Exit}

\* Branch folding terminates: reoptimizing a block, moving it and restarting
\* the scan never goes on for ever.
FoldingTerminates == (pc = "fix") ~> (pc = "done")

\* When nothing changes any more, no block ends in a jump to the block that
\* follows it, no block but the entry is empty or unreachable, and no
\* conditional branch has a single destination.  The last block of the layout
\* is never the previous block of another one: it may keep such a branch.
FoldedCompletely ==
  pc = "done" =>
    \A b \in Blocks :
      LET a == AnalyzeBranch(code[b], FALSE)
          ft == LayoutSuccessor(b)
      IN /\ b # 1 => code[b] # <<>> /\ Preds(b) # {}
         /\ ft # 0 /\ ~a.fail => ft \notin {a.tbb, a.fbb}
         /\ ft # 0 /\ a.fbb # 0 => a.fbb # a.tbb
=============================================================================
