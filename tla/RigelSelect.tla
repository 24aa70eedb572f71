---------------------------- MODULE RigelSelect ----------------------------
(***************************************************************************)
(* One node of a function from the selection DAG to the machine: the       *)
(* patterns of RigelInstrInfo.td select instructions for it, the custom    *)
(* inserter replaces a select by a diamond of blocks, the expansion pass   *)
(* replaces 32-bit constants, the printer writes the immediates, and the   *)
(* machine runs the result instruction by instruction.                     *)
(*                                                                         *)
(* Half stands for 2^16: a word is two fields of Half values.  When two    *)
(* patterns of equal complexity match, either may be selected, and the     *)
(* operands of a comparison may be computed in either order.               *)
(***************************************************************************)
EXTENDS Integers, Sequences, FiniteSetsExt, SequencesExt

CONSTANTS
  Half,        \* values of a 16-bit field
  Consts,      \* 32-bit constants of the program
  AddImms,     \* constants that it adds to a register
  IntOperands, \* values of the operands of integer nodes
  FPOperands,  \* floats, by their order; NaNs are not supported
  FPSetCCs,    \* conditions of the floating-point comparisons
  FPBrConds    \* conditions of the floating-point branches

Word == 0..(Half * Half - 1)
Field == 0..(Half - 1)

ASSUME SelectAssumption ==
  /\ Half \in Nat \ {0, 1}
  /\ \A d \in 2..Half : Half % d = 0 => d % 2 = 0   \* Half is a power of two
  /\ Consts \subseteq Word /\ AddImms \subseteq Word
  /\ IntOperands \subseteq Word /\ FPOperands \subseteq Word

VARIABLES
  node,    \* the node: kind, condition, constants
  phase,   \* "select", "insert", "expand", "print", "run" or "done"
  blocks,  \* the machine basic blocks in layout order
  at,      \* block and instruction of the running pass, or of the machine
  from,    \* block that control came from
  regs,    \* the registers
  taken    \* TRUE when the node's branch was taken

vars == <<node, phase, blocks, at, from, regs, taken>>

Regs == {"zero", "a", "b", "t", "f", "l", "r", "k", "c", "dst", "out"}
NoImm == -1

---------------------------------------------------------------------------
(* Words.                                                                  *)

Wrap(v) == v % (Half * Half)
Signed(w) == IF w < (Half * Half) \div 2 THEN w ELSE w - Half * Half
SignedField(h) == IF h < Half \div 2 THEN h ELSE h - Half

Bool(P) == IF P THEN 1 ELSE 0

BitOfBits(op, a, b) ==
  Bool(CASE op = "and" -> a = 1 /\ b = 1
         [] op = "or"  -> a = 1 \/ b = 1
         [] op = "xor" -> a # b)

\* AND, OR and XOR of words, from the lowest bit on
BitOp(op, x, y) ==
  LET F[p \in Word \X Word] ==
        IF p = <<0, 0>> THEN 0
        ELSE BitOfBits(op, p[1] % 2, p[2] % 2) + 2 * F[<<p[1] \div 2, p[2] \div 2>>]
  IN F[<<x, y>>]

immSExt16(c) == c = Wrap(SignedField(c % Half))
immZExt16(c) == c = c % Half
immUpperHalfword(c) == c % Half = 0
LO16(c) == c % Half
\* Mutant: the high half is masked but not shifted.
HI16Unshifted(c) == c - (c % Half)
HI16(c) == c \div Half

---------------------------------------------------------------------------
(* Patterns.  Each operator gives the set of sequences of instructions     *)
(* that may be selected.                                                   *)

\* A machine instruction and, once printed, its immediate in the text
I(op, dst, s1, s2, imm) ==
  [op |-> op, dst |-> dst, s1 |-> s1, s2 |-> s2, imm |-> imm, text |-> 0]

When(P, s) == IF P THEN {s} ELSE {}
Then(X, Y) == {x \o y : x \in X, y \in Y}
EitherOrder(X, Y) == Then(X, Y) \cup Then(Y, X)

\* (i32 imm)
Constant(c, dst) ==
  LET small == When(immSExt16(c), <<I("ADDi", dst, "zero", "zero", c)>>)
                 \cup When(immZExt16(c), <<I("ORi", dst, "zero", "zero", LO16(c))>>)
                 \cup When(immUpperHalfword(c), <<I("MVUi", dst, "zero", "zero", HI16(c))>>)
  IN  IF small # {} THEN small
      ELSE {<<I("MOVi32imm", dst, "zero", "zero", c)>>}

\* (add reg, imm)
AddImmediate(src, c, dst) ==
  LET small == When(immSExt16(c), <<I("ADDi", dst, src, "zero", c)>>)
                 \cup When(immZExt16(c), <<I("ADDiu", dst, src, "zero", LO16(c))>>)
  IN  IF small # {} THEN small
      ELSE Then(Constant(c, "k"), {<<I("ADDu", dst, src, "k", 0)>>})

\* (and reg, imm), (or reg, imm), (xor reg, imm)
LogicI == [and |-> "ANDi", or |-> "ORi", xor |-> "XORi"]
LogicR == [and |-> "AND", or |-> "OR", xor |-> "XOR"]
LogicImmediate(op, src, c, dst) ==
  IF immZExt16(c) THEN {<<I(LogicI[op], dst, src, "zero", LO16(c))>>}
  ELSE Then(Constant(c, "k"), {<<I(LogicR[op], dst, src, "k", 0)>>})

\* SelectAddr on (add reg, imm), for a load; isInt<16> is immSExt16
SelectAddr(src, c, dst) ==
  IF immSExt16(c) THEN {<<I("LDW", dst, src, "zero", c)>>}
  ELSE Then(AddImmediate(src, c, "l"), {<<I("LDW", dst, "l", "zero", 0)>>})

\* Each compare: instruction, whether its operands are swapped, whether the
\* result is inverted by XORi 1
Cmp(op, swap, invert) == [op |-> op, swap |-> swap, invert |-> invert]
IntCompare ==
  [seteq  |-> Cmp("CEQ", FALSE, FALSE),  setne  |-> Cmp("CEQ", FALSE, TRUE),
   setlt  |-> Cmp("CLT", FALSE, FALSE),  setle  |-> Cmp("CLE", FALSE, FALSE),
   setgt  |-> Cmp("CLT", TRUE, FALSE),   setge  |-> Cmp("CLE", TRUE, FALSE),
   setult |-> Cmp("CLTU", FALSE, FALSE), setule |-> Cmp("CLEU", FALSE, FALSE),
   setugt |-> Cmp("CLTU", TRUE, FALSE),  setuge |-> Cmp("CLEU", TRUE, FALSE)]

FPCompare ==
  [seteq  |-> Cmp("CEQF", FALSE, FALSE),  setne  |-> Cmp("CEQF", FALSE, TRUE),
   setlt  |-> Cmp("CLTF", FALSE, FALSE),  setle  |-> Cmp("CLTEF", FALSE, FALSE),
   setoeq |-> Cmp("CEQF", FALSE, FALSE),  setone |-> Cmp("CEQF", FALSE, TRUE),
   setolt |-> Cmp("CLTF", FALSE, FALSE),  setole |-> Cmp("CLTEF", FALSE, FALSE),
   setogt |-> Cmp("CLTEF", TRUE, FALSE),  setoge |-> Cmp("CLTF", TRUE, FALSE),
   setueq |-> Cmp("CEQF", FALSE, FALSE),  setune |-> Cmp("CEQF", FALSE, TRUE),
   setult |-> Cmp("CLTF", FALSE, FALSE),  setule |-> Cmp("CLTEF", FALSE, FALSE),
   setugt |-> Cmp("CLTF", TRUE, FALSE),   setuge |-> Cmp("CLTEF", TRUE, FALSE)]

\* Each condition has a pattern
ASSUME ConditionAssumption ==
  /\ FPSetCCs \subseteq DOMAIN FPCompare \cup {"seto", "setuo"}
  /\ FPBrConds \subseteq DOMAIN FPCompare \cup {"seto", "setuo", "setgt", "setge"}

Compare(c, l, r, dst) ==
  LET x == IF c.swap THEN r ELSE l
      y == IF c.swap THEN l ELSE r
  IN  IF c.invert THEN <<I(c.op, "k", x, y, 0), I("XORi", dst, "k", "zero", 1)>>
                  ELSE <<I(c.op, dst, x, y, 0)>>

\* (seto l, r) and (setuo l, r): each operand equals itself
Ordered(cc, dst) ==
  <<I("CEQF", "l", "a", "a", 0), I("CEQF", "r", "b", "b", 0)>> \o
  (IF cc = "seto" THEN <<I("AND", dst, "l", "r", 0)>>
   ELSE <<I("AND", "k", "l", "r", 0), I("XORi", dst, "k", "zero", 1)>>)

\* The operands of an integer comparison: the left one may be a sum, the
\* right one a constant
Lhs(n) == IF n.off = NoImm THEN "a" ELSE "l"
Rhs(n) == IF n.rhs = NoImm THEN "b" ELSE "r"
LhsCode(n) == IF n.off = NoImm THEN {<<>>} ELSE AddImmediate("a", n.off, "l")
RhsCode(n) == IF n.rhs = NoImm THEN {<<>>} ELSE Constant(n.rhs, "r")
OperandCode(n) == EitherOrder(LhsCode(n), RhsCode(n))

SetCC(n, dst) ==
  IF n.cc \in {"seto", "setuo"} THEN {Ordered(n.cc, dst)}
  ELSE Then(OperandCode(n),
            {Compare(IF n.fp THEN FPCompare[n.cc] ELSE IntCompare[n.cc], Lhs(n), Rhs(n), dst)})

MinusOne == Half * Half - 1

\* Mutant: > -1 is taken for > 0.
ZeroBranchOffByOne(cc, c) ==
  CASE c = 0 /\ cc = "seteq" -> "BE"   [] c = 0 /\ cc = "setne" -> "BNZ"
    [] c = 0 /\ cc = "setgt" -> "BGT"  [] c = 0 /\ cc = "setge" -> "BGE"
    [] c = 0 /\ cc = "setle" -> "BLE"  [] c = 0 /\ cc = "setlt" -> "BLT"
    [] c = MinusOne /\ cc = "setgt" -> "BGT"  [] c = 1 /\ cc = "setlt" -> "BLE"
    [] c = 1 /\ cc = "setge" -> "BGT"  [] c = MinusOne /\ cc = "setle" -> "BLT"
    [] OTHER -> "none"

\* The branch against zero that makes the constant operand c unnecessary
ZeroBranch(cc, c) ==
  CASE c = 0 /\ cc = "seteq" -> "BE"   [] c = 0 /\ cc = "setne" -> "BNZ"
    [] c = 0 /\ cc = "setgt" -> "BGT"  [] c = 0 /\ cc = "setge" -> "BGE"
    [] c = 0 /\ cc = "setle" -> "BLE"  [] c = 0 /\ cc = "setlt" -> "BLT"
    [] c = MinusOne /\ cc = "setgt" -> "BGE"  [] c = 1 /\ cc = "setlt" -> "BLE"
    [] c = 1 /\ cc = "setge" -> "BGT"  [] c = MinusOne /\ cc = "setle" -> "BLT"
    [] OTHER -> "none"

IntBranch(n) ==
  IF ZeroBranch(n.cc, n.rhs) # "none"
  THEN Then(LhsCode(n), {<<I(ZeroBranch(n.cc, n.rhs), "zero", Lhs(n), "zero", 0)>>})
  ELSE Then(OperandCode(n),
            IF n.cc \in {"seteq", "setne"}
            THEN {<<I(IF n.cc = "seteq" THEN "BEQ" ELSE "BNE", "zero", Lhs(n), Rhs(n), 0)>>}
            ELSE {Compare(IntCompare[n.cc], Lhs(n), Rhs(n), "c")
                    \o <<I("BNZ", "zero", "c", "zero", 0)>>})

\* The branches on floats: their own compares, BE for the inequalities
\* and the generic BNE for the conditions that have no pattern of their own
FPBranch(cc) ==
  LET op == CASE cc \in {"seteq", "setne", "setoeq", "setone", "setueq", "setune"} -> "CEQF"
              [] cc \in {"setlt", "setgt", "setolt", "setogt", "setult", "setugt"} -> "CLTF"
              [] OTHER -> "CLTEF"
      swap == cc \in {"setgt", "setge", "setogt", "setoge", "setugt", "setuge"}
      inverse == cc \in {"setne", "setone", "setune"}
  IN  IF cc \in {"seto", "setuo"}
      THEN {Ordered(cc, "c") \o <<I("BNE", "zero", "c", "zero", 0)>>}
      ELSE {Compare(Cmp(op, swap, FALSE), "a", "b", "c")
         \o <<I(IF inverse THEN "BE" ELSE "BNZ", "zero", "c", "zero", 0)>>}

\* LowerSELECT: the pseudo instruction Select_CC_to_i on the condition
SelectCC(n) == Then(SetCC(n, "c"), {<<I("Select_CC", "dst", "t", "f", 0)>>})

\* The rest of the block uses the node's value
Use == <<I("ADDu", "out", "dst", "zero", 0)>>

SelectCode(n) ==
  CASE n.kind = "const" -> Then(Constant(n.rhs, "dst"), {Use})
    [] n.kind = "add" -> Then(AddImmediate("a", n.rhs, "dst"), {Use})
    [] n.kind \in {"and", "or", "xor"} ->
         Then(LogicImmediate(n.kind, "a", n.rhs, "dst"), {Use})
    [] n.kind = "not" -> Then({<<I("NOR", "dst", "a", "zero", 0)>>}, {Use})
    [] n.kind = "load" -> Then(SelectAddr("a", n.off, "dst"), {Use})
    [] n.kind = "setcc" -> Then(SetCC(n, "dst"), {Use})
    [] n.kind = "select" -> Then(SelectCC(n), {Use})
    [] n.kind = "brcond" -> IF n.fp THEN FPBranch(n.cc) ELSE IntBranch(n)

---------------------------------------------------------------------------
(* The nodes, and the passes that make code of one.                        *)

N(kind, fp, cc, off, rhs) ==
  [kind |-> kind, fp |-> fp, cc |-> cc, off |-> off, rhs |-> rhs]

\* DAG combining leaves no value comparison >= or <= with a constant
Comparisons ==
  {N(k, FALSE, cc, off, NoImm) : k \in {"setcc", "select", "brcond"},
       cc \in DOMAIN IntCompare, off \in AddImms \cup {NoImm}}
  \cup {N(k, FALSE, cc, off, c) : k \in {"setcc", "select"}, c \in Consts,
           off \in AddImms \cup {NoImm},
           cc \in DOMAIN IntCompare \ {"setge", "setle", "setuge", "setule"}}
  \cup {N("brcond", FALSE, cc, off, c) : c \in Consts, cc \in DOMAIN IntCompare,
           off \in AddImms \cup {NoImm}}
  \cup {N(k, TRUE, cc, NoImm, NoImm) : k \in {"setcc", "select"}, cc \in FPSetCCs}
  \cup {N("brcond", TRUE, cc, NoImm, NoImm) : cc \in FPBrConds}
Nodes ==
  Comparisons
  \cup {N("const", FALSE, "none", NoImm, c) : c \in Word}
  \cup {N(op, FALSE, "none", NoImm, c) : op \in {"and", "or", "xor"}, c \in Word}
  \cup {N("add", FALSE, "none", NoImm, c) : c \in AddImms}
  \cup {N("load", FALSE, "none", c, NoImm) : c \in AddImms}
  \cup {N("not", FALSE, "none", NoImm, NoImm)}

\* Only nodes that read register b distinguish its values
Init ==
  \E n \in Nodes :
    \E a \in IF n.fp THEN FPOperands ELSE IntOperands :
      \E b \in IF n.fp THEN FPOperands
               ELSE IF n.cc # "none" /\ n.rhs = NoImm THEN IntOperands ELSE {0} :
        /\ node = n
        /\ regs = [r \in Regs |-> CASE r = "a" -> a [] r = "b" -> b
                                    [] r = "t" -> 1 [] r = "f" -> 2 [] OTHER -> 0]
        /\ phase = "select" /\ blocks = <<>> /\ at = <<1, 1>> /\ from = 0
        /\ taken = FALSE

Block(name, insns) == [name |-> name, insns |-> insns]

Select ==
  /\ phase = "select"
  /\ \E s \in SelectCode(node) : blocks' = <<Block("thisMBB", s)>>
  /\ phase' = "insert"
  /\ UNCHANGED <<node, at, from, regs, taken>>

\* Mutant: sinkMBB is laid out before copy0MBB.
DiamondSinkFirst(insns, p) ==
  <<Block("thisMBB", SubSeq(insns, 1, p - 1) \o <<I("BNZ", "zero", "c", "zero", 0)>>),
    Block("sinkMBB", <<I("PHI", insns[p].dst, insns[p].s2, insns[p].s1, 0)>>
                       \o SubSeq(insns, p + 1, Len(insns))),
    Block("copy0MBB", <<>>)>>

\* The diamond for the pseudo instruction at position p
Diamond(insns, p) ==
  <<Block("thisMBB", SubSeq(insns, 1, p - 1) \o <<I("BNZ", "zero", "c", "zero", 0)>>),
    Block("copy0MBB", <<>>),
    Block("sinkMBB", <<I("PHI", insns[p].dst, insns[p].s2, insns[p].s1, 0)>>
                       \o SubSeq(insns, p + 1, Len(insns)))>>

EmitInstrWithCustomInserter ==
  /\ phase = "insert"
  /\ LET insns == blocks[1].insns
         P == {p \in DOMAIN insns : insns[p].op = "Select_CC"}
     IN  blocks' = IF P = {} THEN blocks ELSE Diamond(insns, Min(P))
  /\ phase' = "expand"
  /\ UNCHANGED <<node, at, from, regs, taken>>

\* MVUi of the high half, then ORi of the low half into the same register
MoveHalves(i) ==
  <<I("MVUi", i.dst, "zero", "zero", HI16(i.imm)),
    I("ORi", i.dst, i.dst, "zero", LO16(i.imm))>>

\* Mutant: the iterator goes past the instruction after the expanded one.
ExpandAtSkipping(insns, i) ==
  IF insns[i].op # "MOVi32imm" THEN <<insns, 1>>
  ELSE <<SubSeq(insns, 1, i - 1) \o MoveHalves(insns[i])
           \o SubSeq(insns, i + 1, Len(insns)), 3>>

\* ExpandMBB on instruction i of a block: the block, and how far NMBBI is
ExpandAt(insns, i) ==
  IF insns[i].op # "MOVi32imm" THEN <<insns, 1>>
  ELSE <<SubSeq(insns, 1, i - 1) \o MoveHalves(insns[i])
           \o SubSeq(insns, i + 1, Len(insns)), 2>>

ExpandMBB ==
  /\ phase = "expand" /\ at[2] <= Len(blocks[at[1]].insns)
  /\ LET e == ExpandAt(blocks[at[1]].insns, at[2])
     IN  /\ blocks' = [blocks EXCEPT ![at[1]].insns = e[1]]
         /\ at' = <<at[1], at[2] + e[2]>>
  /\ UNCHANGED <<node, phase, from, regs, taken>>

NextMBB ==
  /\ phase = "expand" /\ at[2] > Len(blocks[at[1]].insns)
  /\ IF at[1] < Len(blocks) THEN at' = <<at[1] + 1, 1>> /\ UNCHANGED phase
                            ELSE at' = <<1, 1>> /\ phase' = "print"
  /\ UNCHANGED <<node, blocks, from, regs, taken>>

\* Mutant: every immediate is printed as a short.
PrintedSigned(i) == SignedField(i.imm % Half)

\* printOperand: unsigned short for four opcodes, short for the others
Printed(i) ==
  IF i.op \in {"ORi", "ANDi", "XORi", "MVUi"} THEN i.imm % Half
  ELSE SignedField(i.imm % Half)

PrintInstructions ==
  /\ phase = "print"
  /\ blocks' = [b \in DOMAIN blocks |->
                  Block(blocks[b].name,
                        [i \in DOMAIN blocks[b].insns |->
                           [blocks[b].insns[i] EXCEPT !.text = Printed(blocks[b].insns[i])]])]
  /\ phase' = "run"
  /\ UNCHANGED <<node, at, from, regs, taken>>

---------------------------------------------------------------------------
(* The machine.                                                            *)

\* Memory holds at each address that address
Value(i, r) ==
  LET x == r[i.s1]
      y == r[i.s2]
  IN  CASE i.op \in {"ADDi", "ADDiu", "LDW"} -> Wrap(x + i.text)
        [] i.op = "ADDu" -> Wrap(x + y)
        [] i.op = "MVUi" -> Wrap(i.text * Half)
        [] i.op \in {"ANDi", "ORi", "XORi"} ->
             BitOp(CHOOSE op \in DOMAIN LogicI : LogicI[op] = i.op, x, Wrap(i.text))
        [] i.op \in {"AND", "OR", "XOR"} ->
             BitOp(CHOOSE op \in DOMAIN LogicR : LogicR[op] = i.op, x, y)
        [] i.op = "NOR" -> BitOp("xor", MinusOne, BitOp("or", x, y))
        [] i.op \in {"CEQ", "CEQF"} -> Bool(x = y)
        [] i.op = "CLT" -> Bool(Signed(x) < Signed(y))
        [] i.op = "CLE" -> Bool(Signed(x) <= Signed(y))
        [] i.op \in {"CLTU", "CLTF"} -> Bool(x < y)
        [] i.op \in {"CLEU", "CLTEF"} -> Bool(x <= y)

\* A PHI takes the operand of the block that control came from
Incoming(i, r) == IF blocks[from].name = "copy0MBB" THEN r[i.s1] ELSE r[i.s2]

Branches == {"BEQ", "BNE", "BE", "BNZ", "BGT", "BGE", "BLE", "BLT"}
Goes(i, r) ==
  LET x == r[i.s1]
  IN  CASE i.op = "BEQ" -> x = r[i.s2]
        [] i.op = "BNE" -> x # r[i.s2]
        [] i.op = "BE"  -> x = 0
        [] i.op = "BNZ" -> x # 0
        [] i.op = "BGT" -> Signed(x) > 0
        [] i.op = "BGE" -> Signed(x) >= 0
        [] i.op = "BLE" -> Signed(x) <= 0
        [] i.op = "BLT" -> Signed(x) < 0

Insns == blocks[at[1]].insns
Running == phase = "run" /\ at[2] <= Len(Insns)

Compute ==
  /\ Running /\ Insns[at[2]].op \notin Branches
  /\ LET i == Insns[at[2]]
     IN  regs' = [regs EXCEPT ![i.dst] = IF i.op = "PHI" THEN Incoming(i, regs) ELSE Value(i, regs)]
  /\ at' = <<at[1], at[2] + 1>>
  /\ UNCHANGED <<node, phase, blocks, from, taken>>

NotTaken ==
  /\ Running /\ Insns[at[2]].op \in Branches /\ ~Goes(Insns[at[2]], regs)
  /\ at' = <<at[1], at[2] + 1>>
  /\ UNCHANGED <<node, phase, blocks, from, regs, taken>>

\* The branch of a diamond goes to sinkMBB, the node's own leaves the code
Taken ==
  /\ Running /\ Insns[at[2]].op \in Branches /\ Goes(Insns[at[2]], regs)
  /\ IF node.kind = "brcond"
     THEN taken' = TRUE /\ phase' = "done" /\ UNCHANGED <<at, from>>
     ELSE /\ at' = <<CHOOSE b \in DOMAIN blocks : blocks[b].name = "sinkMBB", 1>>
          /\ from' = at[1] /\ UNCHANGED <<phase, taken>>
  /\ UNCHANGED <<node, blocks, regs>>

FallThrough ==
  /\ phase = "run" /\ at[2] > Len(Insns)
  /\ IF at[1] < Len(blocks) THEN at' = <<at[1] + 1, 1>> /\ from' = at[1] /\ UNCHANGED phase
                            ELSE phase' = "done" /\ UNCHANGED <<at, from>>
  /\ UNCHANGED <<node, blocks, regs, taken>>

Next ==
  \/ Select
  \/ EmitInstrWithCustomInserter
  \/ ExpandMBB
  \/ NextMBB
  \/ PrintInstructions
  \/ Compute
  \/ NotTaken
  \/ Taken
  \/ FallThrough

Spec == Init /\ [][Next]_vars

---------------------------------------------------------------------------
(* What the node means.                                                    *)

Holds(cc, fp, x, y) ==
  LET sx == IF fp THEN x ELSE Signed(x)
      sy == IF fp THEN y ELSE Signed(y)
  IN  CASE cc \in {"seteq", "setoeq", "setueq"} -> x = y
        [] cc \in {"setne", "setone", "setune"} -> x # y
        [] cc \in {"setlt", "setolt"} -> sx < sy
        [] cc \in {"setle", "setole"} -> sx <= sy
        [] cc \in {"setgt", "setogt"} -> sx > sy
        [] cc \in {"setge", "setoge"} -> sx >= sy
        [] cc = "setult" -> x < y
        [] cc = "setule" -> x <= y
        [] cc = "setugt" -> x > y
        [] cc = "setuge" -> x >= y
        [] cc = "seto" -> TRUE
        [] cc = "setuo" -> FALSE

ConditionHolds ==
  Holds(node.cc, node.fp,
        IF node.off = NoImm THEN regs["a"] ELSE Wrap(regs["a"] + node.off),
        IF node.rhs = NoImm THEN regs["b"] ELSE node.rhs)

Meaning ==
  CASE node.kind = "const" -> node.rhs
    [] node.kind = "add" -> Wrap(regs["a"] + node.rhs)
    [] node.kind \in {"and", "or", "xor"} -> BitOp(node.kind, regs["a"], node.rhs)
    [] node.kind = "not" -> MinusOne - regs["a"]
    [] node.kind = "load" -> Wrap(regs["a"] + node.off)
    [] node.kind = "setcc" -> Bool(ConditionHolds)
    [] node.kind = "select" -> IF ConditionHolds THEN regs["t"] ELSE regs["f"]

---------------------------------------------------------------------------
(* Properties.                                                             *)

AllInsns == UNION {Range(blocks[b].insns) : b \in DOMAIN blocks}

(* Registers hold words, and the instructions whose immediate is an        *)
(* unsigned field (MVUi, ORi, ANDi, XORi) get one that fits, so that       *)
(* neither selection nor expansion hands the printer a half too large.     *)
SelectTypeOK ==
  /\ node \in Nodes /\ taken \in BOOLEAN
  /\ phase \in {"select", "insert", "expand", "print", "run", "done"}
  /\ regs \in [Regs -> Word] /\ from \in 0..Len(blocks)
  /\ \A i \in AllInsns :
       /\ i.dst \in Regs /\ i.s1 \in Regs /\ i.s2 \in Regs /\ i.imm \in Word
       /\ i.op \in {"MVUi", "ORi", "ANDi", "XORi"} => i.imm \in Field

(* The code that the patterns, the diamond, the expansion and the printer  *)
(* make of a node leaves the node's value in its register: a constant      *)
(* however it is split into halves, a sum, a mask, the address of a load,  *)
(* the 0 or 1 of a comparison, the operand that a select chooses.          *)
ComputesNodeValue ==
  phase = "done" /\ node.kind # "brcond" => regs["out"] = Meaning

(* A conditional branch leaves the code exactly when its condition holds,  *)
(* through the branches against zero, the swapped compares and the         *)
(* inverted ones alike.                                                    *)
BranchTakenIffHolds ==
  phase = "done" /\ node.kind = "brcond" => (taken <=> ConditionHolds)

(* The text of an immediate, read back by its instruction (zero-extended   *)
(* for the logical ones, sign-extended for the others), is the operand     *)
(* that selection gave the instruction.                                    *)
ImmediatesReadBack ==
  phase = "run" => \A i \in AllInsns : Wrap(i.text) = i.imm

(* No pseudo instruction reaches the printer, which has no text for one,   *)
(* wherever in its block the expansion pass met it and whatever it had     *)
(* just expanded.                                                          *)
NoPseudoPrinted ==
  phase \in {"print", "run"} =>
    \A i \in AllInsns : i.op \notin {"MOVi32imm", "Select_CC"}
---------------------------------------------------------------------------
(* The inductive invariant behind the properties.                          *)

UnsignedImm == {"ORi", "ANDi", "XORi", "MVUi"}

\* Every constant that ADDiu can add is one that it sign-extends to itself.
AddImmsFit == \A c \in AddImms : immZExt16(c) => immSExt16(c)

\* The immediate is one that the instruction's field holds.
Fits(i) ==
  /\ i.op \in UnsignedImm => i.imm \in Field
  /\ i.op \notin UnsignedImm \cup {"MOVi32imm"} /\ AddImmsFit => immSExt16(i.imm)

Opcodes == Branches \cup UnsignedImm \cup
  {"ADDi", "ADDiu", "LDW", "ADDu", "AND", "OR", "XOR", "NOR", "CEQ", "CEQF", "CLT", "CLE",
   "CLTU", "CLTF", "CLEU", "CLTEF", "PHI", "MOVi32imm", "Select_CC"}
Insn == {i \in [op : Opcodes, dst : Regs, s1 : Regs, s2 : Regs, imm : Word, text : Int] : Fits(i)}
InsertedInsn == {i \in Insn : i.op # "Select_CC"}
ExpandedInsn == {i \in InsertedInsn : i.op # "MOVi32imm"}
PrintedInsn == {i \in ExpandedInsn : AddImmsFit => Wrap(i.text) = i.imm}

BlockOf(S) == [name : {"thisMBB", "copy0MBB", "sinkMBB"}, insns : Seq(S)]
Code(S) == blocks \in Seq(BlockOf(S))

\* At most one select.
OneSelect(s) == \A p, q \in DOMAIN s : s[p].op = "Select_CC" /\ s[q].op = "Select_CC" => p = q

\* No branch and no PHI from m to n.
Straight(s, m, n) == \A p \in m..n : s[p].op \notin Branches \cup {"PHI"}

\* A branch at the end, and nowhere else.
Branching(s) == s # <<>> /\ s[Len(s)].op \in Branches /\ Straight(s, 1, Len(s) - 1)

\* One block, with the node's own branch at its end if it is one.
OneBlock ==
  /\ Len(blocks) = 1
  /\ IF node.kind = "brcond" THEN Branching(blocks[1].insns)
     ELSE Straight(blocks[1].insns, 1, Len(blocks[1].insns))

\* The diamond of a select: c decides whether copy0MBB is passed over.
ThreeBlocks ==
  /\ node.kind = "select" /\ Len(blocks) = 3
  /\ blocks[1].name = "thisMBB" /\ blocks[2].name = "copy0MBB" /\ blocks[3].name = "sinkMBB"
  /\ LET s == blocks[1].insns
         e == blocks[3].insns
     IN  /\ Branching(s) /\ s[Len(s)].op = "BNZ" /\ s[Len(s)].s1 = "c"
         /\ e # <<>> /\ e[1].op = "PHI" /\ Straight(e, 2, Len(e))
  /\ blocks[2].insns = <<>>

Shape == OneBlock \/ ThreeBlocks

\* Selection leaves one block with at most one select.
InsertInv ==
  phase = "insert" =>
    Code(Insn) /\ Len(blocks) = 1 /\ OneSelect(blocks[1].insns)

\* Before the iterator of ExpandMBB there is no pseudo instruction left.
ExpandInv ==
  phase = "expand" =>
    /\ Code(InsertedInsn)
    /\ at[1] \in DOMAIN blocks /\ at[2] \in 1..(Len(Insns) + 1)
    /\ \A b \in DOMAIN blocks : \A p \in DOMAIN blocks[b].insns :
         b < at[1] \/ (b = at[1] /\ p < at[2]) => blocks[b].insns[p].op # "MOVi32imm"

SelectInv ==
  /\ node \in Nodes
  /\ phase \in {"select", "insert", "expand", "print", "run", "done"}
  /\ phase \in {"select", "insert"} => at = <<1, 1>>
  /\ InsertInv
  /\ ExpandInv
  /\ phase = "print" => Code(ExpandedInsn)
  /\ phase = "run" => Code(PrintedInsn)

\* The blocks of each phase: branches, PHIs and selects are where they belong.
ShapeInv ==
  /\ phase = "select" => blocks = <<>>
  /\ phase = "insert" =>
       /\ OneBlock
       /\ node.kind # "select" =>
            \A p \in DOMAIN blocks[1].insns : blocks[1].insns[p].op # "Select_CC"
  /\ phase \in {"expand", "print", "run", "done"} => Shape
  /\ phase = "done" => Code(PrintedInsn)

\* The machine is at an instruction or behind the last one of a block, and comes
\* to the end of the diamond through copy0MBB exactly when c is 0.
RunInv ==
  phase = "run" =>
    /\ at[1] \in DOMAIN blocks /\ at[2] \in 1..(Len(Insns) + 1)
    /\ node.kind = "brcond" /\ at[2] > Len(Insns) => ~Goes(Insns[Len(Insns)], regs)
    /\ ThreeBlocks =>
         /\ at[1] = 1 /\ at[2] > Len(Insns) => regs["c"] = 0
         /\ at[1] = 2 => regs["c"] = 0
         /\ at[1] = 3 /\ at[2] = 1 => from = IF regs["c"] = 0 THEN 2 ELSE 1

MachineInv ==
  /\ regs \in [Regs -> Word] /\ taken \in BOOLEAN /\ from \in 0..Len(blocks)
  /\ phase # "done" => ~taken
  /\ phase \in {"select", "insert", "expand", "print"} => from = 0
  /\ phase = "print" => at = <<1, 1>>
  /\ ShapeInv
  /\ RunInv
=============================================================================
