-------------------------- MODULE RigelBranchLemmas --------------------------
(***************************************************************************)
(* Lemmas on branches, layouts and control flow graphs: what the branch    *)
(* analysis hooks answer for every form a block can have and what their    *)
(* rewrites keep; the layout with a block moved, inserted or removed; the  *)
(* edges that a rewritten branch needs; and when two functions do the same *)
(* work in the same order.                                                 *)
(***************************************************************************)
EXTENDS RigelBranch, TLAPS, NaturalsInduction, WellFoundedInduction, SequenceTheorems, FiniteSetTheorems

\* The instructions of a block.
Instrs == [op : Terminators \cup {"WORK", "HALT"}, to : Seq(Nat), reg : Nat]

\* A well formed block: m pieces of work, then at most two terminators.
Form(c, m) ==
  /\ c \in Seq(Instrs) /\ m \in 0..Len(c) /\ Len(c) <= m + 2
  /\ \A i \in 1..m : IsWork(c[i]) /\ (c[i].op = "HALT" => i = Len(c)) /\ c[i].reg \in 1..NumBlocks
  /\ \A i \in (m + 1)..Len(c) :
       /\ c[i].op \in Terminators
       /\ c[i].op \in Analyzable => Len(c[i].to) = 1 /\ c[i].to[1] > 1
       /\ c[i].op \in CondBranches \cup {"JMPR"} => c[i].reg \in 1..NumBlocks
       /\ c[i].op = "JMPR" => Len(c[i].to) = 2 /\ c[i].to[1] > 1 /\ c[i].to[2] > 1
  /\ Len(c) = m + 2 => c[m + 1].op \in Analyzable /\ c[m + 2].op = "JMP"

\* What a successful answer of AnalyzeBranch says.
LEMMA AnalysisFields ==
  \A a, b, d, c : /\ ~Analysis(a, b, d, c).fail /\ Analysis(a, b, d, c).code = c
                 /\ Analysis(a, b, d, c).tbb = a /\ Analysis(a, b, d, c).fbb = b
                 /\ Analysis(a, b, d, c).cond = d
BY DEF Analysis

\* What a failed answer of AnalyzeBranch says.
LEMMA FailedFields ==
  \A c : /\ Failed(c).fail /\ Failed(c).code = c /\ Failed(c).cond = <<>>
        /\ Failed(c).tbb = 0 /\ Failed(c).fbb = 0
BY DEF Failed

\* A block without terminators is analyzed as a fall through.
LEMMA AnalyzeNone ==
  ASSUME NEW c, NEW m, Form(c, m), Len(c) = m, NEW w \in BOOLEAN
  PROVE  AnalyzeBranch(c, w) = Analysis(0, 0, <<>>, c)
<1>1. Len(c) \in Nat /\ (Len(c) > 0 => Len(c) \in 1..m)
  BY DEF Form
<1>2. Len(c) > 0 => c[Len(c)].op \notin Terminators
  BY <1>1 DEF Form, IsWork, Terminators, Analyzable, CondBranches
<1> QED
  BY <1>1, <1>2 DEF AnalyzeBranch

\* A block with one known branch at its end: its destination, and its
\* condition if it has one.
LEMMA AnalyzeOne ==
  ASSUME NEW c, NEW m, Form(c, m), Len(c) = m + 1, c[m + 1].op \in Analyzable, NEW w \in BOOLEAN
  PROVE  AnalyzeBranch(c, w) =
           Analysis(c[m + 1].to[1], 0, IF c[m + 1].op = "JMP" THEN <<>> ELSE <<c[m + 1].op, c[m + 1].reg>>, c)
BY SMTT(30) DEF AnalyzeBranch, Form, Instrs, IsWork, Terminators, Analyzable, CondBranches

\* A block that ends in a return or a jump table cannot be analyzed.
LEMMA AnalyzeFailed ==
  ASSUME NEW c, NEW m, Form(c, m), Len(c) = m + 1, c[m + 1].op \notin Analyzable, NEW w \in BOOLEAN
  PROVE  AnalyzeBranch(c, w) = Failed(c)
BY DEF AnalyzeBranch, Form, Instrs, IsWork, Terminators, Analyzable, CondBranches

\* The operations at the end of a block with two terminators.
LEMMA OpsOf ==
  ASSUME NEW c, NEW m, Form(c, m), Len(c) = m + 2
  PROVE  /\ m \in Nat /\ Len(c) > 0 /\ c[Len(c)].op = "JMP" /\ c[m + 2].op = "JMP"
         /\ c[Len(c) - 1].op \in Analyzable /\ Len(c) - 1 > 0 /\ Len(c) - 1 = m + 1
         /\ Len(c) - 2 > 0 => c[Len(c) - 2].op \notin Terminators
         /\ "JMP" \in Analyzable /\ Analyzable \subseteq Terminators
BY DEF Form, Instrs, IsWork, Terminators, Analyzable, CondBranches

\* A conditional branch and a jump: both destinations and the condition.
LEMMA AnalyzeTwo ==
  ASSUME NEW c, NEW m, Form(c, m), Len(c) = m + 2, c[m + 1].op # "JMP", NEW w \in BOOLEAN
  PROVE  AnalyzeBranch(c, w) =
           Analysis(c[m + 1].to[1], c[m + 2].to[1], <<c[m + 1].op, c[m + 1].reg>>, c)
<1>1. Len(c) \in Nat
  BY DEF Form
<1> QED
  BY <1>1, OpsOf DEF AnalyzeBranch

\* A jump after a jump: erased when the caller allows it, no answer otherwise.
LEMMA AnalyzeJumps ==
  ASSUME NEW c, NEW m, Form(c, m), Len(c) = m + 2, c[m + 1].op = "JMP", NEW w \in BOOLEAN
  PROVE  AnalyzeBranch(c, w) =
           IF w THEN Analysis(c[m + 1].to[1], 0, <<>>, Front(c)) ELSE Failed(c)
<1>1. Len(c) \in Nat
  BY DEF Form
<1> QED
  BY <1>1, OpsOf DEF AnalyzeBranch

\* RemoveBranch takes every known branch off the end and nothing else.
LEMMA RemoveBranches ==
  ASSUME NEW c, NEW m, Form(c, m), Len(c) > m => c[m + 1].op \in Analyzable
  PROVE  RemoveBranch(c) = SubSeq(c, 1, m)
<1> DEFINE n == Len(c)
           Known(i) == i > 0 /\ c[i].op \in Analyzable
<1>1. n \in Nat /\ m \in 0..n /\ n <= m + 2
  BY DEF Form
<1>2. \A i \in 1..m : ~Known(i)
  BY DEF Form, Instrs, IsWork, Terminators, Analyzable, CondBranches
<1>3. \A i \in (m + 1)..n : Known(i)
  <2>1. CASE n = m + 2
    BY <2>1, <1>1 DEF Form, Analyzable
  <2>2. CASE n # m + 2
    BY <2>2, <1>1
  <2> QED
    BY <2>1, <2>2
<1>4. RemoveBranch(c) = SubSeq(c, 1, IF ~Known(n) THEN n ELSE IF Known(n - 1) THEN n - 2 ELSE n - 1)
  BY DEF RemoveBranch
<1>5. (IF ~Known(n) THEN n ELSE IF Known(n - 1) THEN n - 2 ELSE n - 1) = m
  <2> HIDE DEF Known, n
  <2>1. ~Known(0)
    BY DEF Known
  <2> QED
    BY <2>1, <1>1, <1>2, <1>3
<1> QED
  BY <1>4, <1>5
Through(x, nu, other) ==
  IF x.op = "RET" THEN Exit
  ELSE IF x.op = "JMPR" THEN x.to[IF nu[x.reg] = "lt" THEN 1 ELSE 2]
  ELSE IF x.op \in CondBranches /\ ~Taken(x.op, nu[x.reg]) THEN other
  ELSE x.to[1]

\* Where a block leads, from its first and its second terminator.
LEMMA LeadsForm ==
  ASSUME NEW c, NEW m, Form(c, m), NEW nu, NEW ft
  PROVE  Leads(c, nu, ft) =
           IF Len(c) = m THEN ft
           ELSE IF Len(c) = m + 1 THEN Through(c[m + 1], nu, ft)
           ELSE Through(c[m + 1], nu, c[m + 2].to[1])
<1> DEFINE out == {i \in DOMAIN c : c[i].op \in Terminators
                     /\ (c[i].op \in CondBranches => Taken(c[i].op, nu[c[i].reg]))}
           first == CHOOSE i \in out : \A j \in out : i <= j
           cond == c[m + 1].op \in CondBranches /\ ~Taken(c[m + 1].op, nu[c[m + 1].reg])
<1>1. Len(c) \in Nat /\ DOMAIN c = 1..Len(c) /\ m \in 0..Len(c) /\ Len(c) <= m + 2
  BY DEF Form
<1>0. Len(c) \in Int /\ m \in Int /\ 0 <= m /\ m <= Len(c) /\ Len(c) <= m + 2
  BY <1>1
<1>2. \A i \in 1..m : i \notin out
  BY DEF Form, IsWork, Terminators, Analyzable, CondBranches
<1>3. Leads(c, nu, ft) =
        IF out = {} THEN ft
        ELSE IF c[first].op = "RET" THEN Exit
        ELSE IF c[first].op = "JMPR" THEN c[first].to[IF nu[c[first].reg] = "lt" THEN 1 ELSE 2]
        ELSE c[first].to[1]
  BY DEF Leads
<1>4. ASSUME NEW i \in out, \A j \in out : i <= j
      PROVE  first = i
  <2>1. first \in out /\ \A j \in out : first <= j
    BY <1>4
  <2>2. out \subseteq Int
    BY <1>1
  <2> HIDE DEF out, first
  <2> QED
    BY <1>4, <2>1, <2>2
<1>in. out \subseteq 1..Len(c)
  BY <1>1
<1>at. \A i \in 1..Len(c) : i \in out <=>
         c[i].op \in Terminators /\ (c[i].op \in CondBranches => Taken(c[i].op, nu[c[i].reg]))
  BY <1>1
<1> HIDE DEF out, first
<1>5. CASE Len(c) = m
  <2>1. out = {}
    BY <1>1, <1>2, <1>5, <1>in
  <2> QED
    BY <2>1, <1>3, <1>5
<1>6. CASE Len(c) > m
  <2>0. m + 1 \in (m + 1)..Len(c) /\ m + 1 \in 1..Len(c)
    BY <1>0, <1>6
  <2>1. c[m + 1].op \in Terminators /\ m + 1 \in DOMAIN c
    BY <2>0, <1>1 DEF Form
  <2>2. ~cond <=> m + 1 \in out
    BY <2>1, <1>at, <1>1
  <2>3. CASE ~cond
    <3>1. m + 1 \in out /\ \A j \in out : m + 1 <= j
      BY <2>2, <2>3, <1>1, <1>2, <1>in
    <3>2. first = m + 1
      BY <1>4, <3>1
    <3>3. Leads(c, nu, ft) = Through(c[m + 1], nu, ft)
      BY <1>3, <3>1, <3>2, <2>3 DEF Through
    <3>4. Through(c[m + 1], nu, ft) = Through(c[m + 1], nu, c[m + 2].to[1])
      BY <2>3 DEF Through
    <3> HIDE DEF cond
    <3> QED
      BY <3>3, <3>4, <1>0, <1>6
  <2>4. CASE cond /\ Len(c) = m + 1
    <3>1. out = {}
      BY <2>4, <1>1, <1>2, <2>2, <1>in
    <3>2. Through(c[m + 1], nu, ft) = ft
      BY <2>4 DEF Through, CondBranches
    <3> QED
      BY <3>1, <3>2, <1>3, <2>4, <1>1
  <2>5. CASE cond /\ Len(c) = m + 2
    <3>1. c[m + 2].op = "JMP" /\ m + 2 \in DOMAIN c
      BY <2>5, <1>1 DEF Form
    <3>2. m + 2 \in out
      BY <3>1, <1>at, <1>1 DEF Terminators, Analyzable, CondBranches
    <3>3. \A j \in out : m + 2 <= j
      BY <2>5, <1>1, <1>2, <2>2, <1>in
    <3>4. first = m + 2
      BY <1>4, <3>2, <3>3
    <3>5. Leads(c, nu, ft) = c[m + 2].to[1]
      BY <1>3, <3>2, <3>4, <3>1
    <3>6. Through(c[m + 1], nu, c[m + 2].to[1]) = c[m + 2].to[1]
      BY <2>5 DEF Through, CondBranches
    <3> QED
      BY <3>5, <3>6, <2>5, <1>1
  <2> QED
    BY <2>3, <2>4, <2>5, <1>0, <1>6
<1> QED
  BY <1>0, <1>5, <1>6

\* The opposite opcode is taken exactly when the opcode is not.
LEMMA OppositeTaken ==
  ASSUME NEW op \in CondBranches, NEW v \in Outcomes
  PROVE  /\ GetOppositeBranchOpcode(op) \in CondBranches
         /\ Taken(GetOppositeBranchOpcode(op), v) = ~Taken(op, v)
         /\ Taken(op, v) \in BOOLEAN
BY DEF CondBranches, Outcomes, GetOppositeBranchOpcode, Taken
IsFall(c, m) == Form(c, m) /\ Len(c) = m
IsJump(c, m, t) == Form(c, m) /\ Len(c) = m + 1 /\ c[m + 1].op = "JMP" /\ c[m + 1].to[1] = t
IsCond(c, m, op, r, t) ==
  /\ Form(c, m) /\ Len(c) = m + 1 /\ op \in CondBranches
  /\ c[m + 1].op = op /\ c[m + 1].reg = r /\ c[m + 1].to[1] = t
IsCond2(c, m, op, r, t, u) ==
  /\ Form(c, m) /\ Len(c) = m + 2 /\ op \in CondBranches
  /\ c[m + 1].op = op /\ c[m + 1].reg = r /\ c[m + 1].to[1] = t /\ c[m + 2].to[1] = u
IsJumps(c, m, t, u) ==
  /\ Form(c, m) /\ Len(c) = m + 2
  /\ c[m + 1].op = "JMP" /\ c[m + 1].to[1] = t /\ c[m + 2].to[1] = u
IsOther(c, m) == Form(c, m) /\ Len(c) = m + 1 /\ c[m + 1].op \in {"JMPR", "RET"}

\* What a branch can lead to: every block but the entry.
Targets1 == {t \in Nat : t > 1}

\* How a well formed block can end: six cases.
LEMMA FormCases ==
  ASSUME NEW c, NEW m, Form(c, m)
  PROVE  \/ IsFall(c, m)
         \/ \E t \in Targets1 : IsJump(c, m, t)
         \/ \E op \in CondBranches, r \in 1..NumBlocks, t \in Targets1 : IsCond(c, m, op, r, t)
         \/ \E op \in CondBranches, r \in 1..NumBlocks, t, u \in Targets1 : IsCond2(c, m, op, r, t, u)
         \/ \E t, u \in Targets1 : IsJumps(c, m, t, u)
         \/ IsOther(c, m)
<1>1. Len(c) \in Int /\ m \in Int /\ 0 <= m /\ m <= Len(c) /\ Len(c) <= m + 2
  BY DEF Form
<1>2. ASSUME NEW i \in (m + 1)..Len(c), c[i].op \in Analyzable
      PROVE  c[i].to[1] \in Targets1
  <2>1. i \in 1..Len(c) /\ c[i].to \in Seq(Nat) /\ Len(c[i].to) = 1 /\ c[i].to[1] > 1
    <3>1. i \in 1..Len(c)
      BY <1>1
    <3>2. c[i] \in Instrs
      BY <3>1 DEF Form
    <3> QED
      BY <3>1, <3>2, <1>2 DEF Form, Instrs
  <2> QED
    BY <2>1 DEF Targets1
<1>3. CASE Len(c) = m
  BY <1>3 DEF IsFall
<1>4. CASE Len(c) = m + 1
  <2>1. m + 1 \in (m + 1)..Len(c)
    BY <1>1, <1>4
  <2>2. c[m + 1].op \in Terminators
    BY <2>1 DEF Form
  <2>3. CASE c[m + 1].op = "JMP"
    BY <2>1, <2>3, <1>2, <1>4 DEF IsJump, Analyzable
  <2>4. CASE c[m + 1].op \in CondBranches
    <3>1. c[m + 1].reg \in 1..NumBlocks
      BY <2>1, <2>4 DEF Form
    <3> QED
      BY <2>1, <2>4, <1>2, <1>4, <3>1 DEF IsCond, Analyzable
  <2> QED
    BY <2>2, <2>3, <2>4, <1>4 DEF IsOther, Terminators, Analyzable
<1>5. CASE Len(c) = m + 2
  <2>1. m + 1 \in (m + 1)..Len(c) /\ m + 2 \in (m + 1)..Len(c)
    BY <1>1, <1>5
  <2>2. c[m + 1].op \in Analyzable /\ c[m + 2].op = "JMP" /\ c[m + 2].op \in Analyzable
    BY <1>5 DEF Form, Analyzable
  <2>3. c[m + 1].to[1] \in Targets1 /\ c[m + 2].to[1] \in Targets1
    BY <2>1, <2>2, <1>2
  <2>4. CASE c[m + 1].op = "JMP"
    BY <2>3, <2>4, <1>5 DEF IsJumps
  <2>5. CASE c[m + 1].op \in CondBranches
    <3>1. c[m + 1].reg \in 1..NumBlocks
      BY <2>1, <2>5 DEF Form
    <3> QED
      BY <2>3, <2>5, <1>5, <3>1 DEF IsCond2
  <2> QED
    BY <2>2, <2>4, <2>5 DEF Analyzable
<1> QED
  BY <1>1, <1>3, <1>4, <1>5

\* No instruction of the block keeps control from running on.
Falls(c) == \A i \in 1..Len(c) : c[i].op \notin Barriers \cup {"HALT"}
LeadsTo(c, t) ==
  \E i \in 1..Len(c) : c[i].op \in Terminators \ {"RET"} /\ \E j \in 1..Len(c[i].to) : c[i].to[j] = t
RegsIn(c, S) == \A i \in 1..Len(c) : c[i].op \in CondBranches \cup {"JMPR"} => c[i].reg \in S
Halts(c) == \E i \in 1..Len(c) : c[i].op = "HALT"

\* The two ways the passes ask for the analysis.
Ana(c) == AnalyzeBranch(c, TRUE)
AnaF(c) == AnalyzeBranch(c, FALSE)

\* What the operations say of a block without terminators.
FallProfile(c, m) ==
  /\ Ana(c) = Analysis(0, 0, <<>>, c) /\ AnaF(c) = Analysis(0, 0, <<>>, c)
  /\ RemoveBranch(c) = SubSeq(c, 1, m)
  /\ \A nu, ft : Leads(c, nu, ft) = ft
  /\ Falls(c) <=> ~Halts(c)
  /\ \A t : ~LeadsTo(c, t)
  /\ \A S : RegsIn(c, S)

\* What every operation says of a block that falls through.
LEMMA FallFacts ==
  ASSUME NEW c, NEW m, IsFall(c, m)
  PROVE  FallProfile(c, m)
<1>1. Form(c, m) /\ Len(c) = m /\ ~(Len(c) > m) /\ Len(c) \in Nat
  BY DEF IsFall, Form
<1>2. \A i \in 1..Len(c) : c[i].op \in {"WORK", "HALT"}
  BY <1>1 DEF Form, IsWork
<1>3. (Falls(c) <=> ~Halts(c)) /\ (\A t : ~LeadsTo(c, t)) /\ (\A S : RegsIn(c, S))
  BY <1>2 DEF Falls, Halts, LeadsTo, RegsIn, Barriers, Terminators, Analyzable, CondBranches
<1>4. RemoveBranch(c) = SubSeq(c, 1, m)
  BY <1>1, RemoveBranches
<1>8. ASSUME NEW w \in BOOLEAN PROVE AnalyzeBranch(c, w) = Analysis(0, 0, <<>>, c)
  BY <1>1, AnalyzeNone
<1>81. Ana(c) = Analysis(0, 0, <<>>, c) /\ AnaF(c) = Analysis(0, 0, <<>>, c)
  BY <1>8 DEF Ana, AnaF
<1> QED
  BY <1>1, <1>3, <1>4, <1>81, LeadsForm DEF FallProfile

\* What they say of a block that ends in a jump.
JumpProfile(c, m, t) ==
  /\ Ana(c) = Analysis(t, 0, <<>>, c) /\ AnaF(c) = Analysis(t, 0, <<>>, c)
  /\ RemoveBranch(c) = SubSeq(c, 1, m)
  /\ \A nu, ft : Leads(c, nu, ft) = t
  /\ ~Falls(c) /\ ~Halts(c)
  /\ \A x : LeadsTo(c, x) <=> x = t
  /\ \A S : RegsIn(c, S)

\* What every operation says of a block that ends in a jump.
LEMMA JumpFacts ==
  ASSUME NEW c, NEW m, NEW t, IsJump(c, m, t)
  PROVE  JumpProfile(c, m, t)
<1>1. Form(c, m) /\ Len(c) = m + 1 /\ Len(c) # m /\ Len(c) \in Int /\ m \in Int /\ 0 <= m
  BY DEF IsJump, Form
<1>2. \A i \in 1..m : c[i].op = "WORK"
  BY <1>1 DEF Form, IsWork
<1>3. /\ m + 1 \in (m + 1)..Len(c) /\ m + 1 \in 1..Len(c)
      /\ c[m + 1].op = "JMP" /\ c[m + 1].to[1] = t
      /\ \A i \in 1..Len(c) : i \in 1..m \/ i = m + 1
  BY <1>1 DEF IsJump
<1>4. Len(c[m + 1].to) = 1 /\ c[m + 1].op \in Analyzable
  BY <1>3 DEF Form, IsJump, Analyzable
<1>5. ~Falls(c) /\ ~Halts(c) /\ (\A S : RegsIn(c, S))
  BY <1>2, <1>3 DEF Falls, Halts, LeadsTo, RegsIn, Barriers, Terminators, Analyzable, CondBranches
<1>6. ASSUME NEW x PROVE LeadsTo(c, x) <=> x = t
  BY <1>2, <1>3, <1>4 DEF LeadsTo, Terminators, Analyzable, CondBranches
<1>7. RemoveBranch(c) = SubSeq(c, 1, m)
  BY <1>1, <1>4, RemoveBranches
<1>8. ASSUME NEW w \in BOOLEAN PROVE AnalyzeBranch(c, w) = Analysis(t, 0, <<>>, c)
  BY <1>1, <1>3, <1>4, AnalyzeOne
<1>9. ASSUME NEW nu, NEW ft PROVE Leads(c, nu, ft) = t
  <2>1. Leads(c, nu, ft) = Through(c[m + 1], nu, ft)
    BY <1>1, LeadsForm
  <2> QED
    BY <2>1, <1>3 DEF Through, CondBranches
<1>81. Ana(c) = Analysis(t, 0, <<>>, c) /\ AnaF(c) = Analysis(t, 0, <<>>, c)
  BY <1>8 DEF Ana, AnaF
<1> QED
  BY <1>5, <1>6, <1>7, <1>81, <1>9 DEF JumpProfile

\* What they say of a block that ends in a conditional branch.
CondProfile(c, m, op, r, t) ==
  /\ Ana(c) = Analysis(t, 0, <<op, r>>, c) /\ AnaF(c) = Analysis(t, 0, <<op, r>>, c)
  /\ RemoveBranch(c) = SubSeq(c, 1, m)
  /\ \A nu, ft : Leads(c, nu, ft) = IF Taken(op, nu[r]) THEN t ELSE ft
  /\ Falls(c) /\ ~Halts(c)
  /\ \A x : LeadsTo(c, x) <=> x = t
  /\ \A S : RegsIn(c, S) <=> r \in S

\* What every operation says of a block that ends in a conditional branch.
LEMMA CondFacts ==
  ASSUME NEW c, NEW m, NEW op, NEW r, NEW t, IsCond(c, m, op, r, t)
  PROVE  CondProfile(c, m, op, r, t)
<1>1. Form(c, m) /\ Len(c) = m + 1 /\ Len(c) # m /\ Len(c) \in Int /\ m \in Int /\ 0 <= m
  BY DEF IsCond, Form
<1>2. \A i \in 1..m : c[i].op = "WORK"
  BY <1>1 DEF Form, IsWork
<1>3. /\ m + 1 \in (m + 1)..Len(c) /\ m + 1 \in 1..Len(c)
      /\ op \in CondBranches /\ c[m + 1].op = op /\ c[m + 1].to[1] = t /\ c[m + 1].reg = r
      /\ \A i \in 1..Len(c) : i \in 1..m \/ i = m + 1
  BY <1>1 DEF IsCond
<1>4. Len(c[m + 1].to) = 1 /\ c[m + 1].op \in Analyzable /\ op # "JMP"
  BY <1>3 DEF Form, IsCond, Analyzable, CondBranches
<1>5. Falls(c) /\ ~Halts(c)
  BY <1>2, <1>3 DEF Falls, Halts, Barriers, CondBranches
<1>6. ASSUME NEW x PROVE LeadsTo(c, x) <=> x = t
  BY <1>2, <1>3, <1>4 DEF LeadsTo, Terminators, Analyzable, CondBranches
<1>7. RemoveBranch(c) = SubSeq(c, 1, m)
  BY <1>1, <1>4, RemoveBranches
<1>8. ASSUME NEW w \in BOOLEAN PROVE AnalyzeBranch(c, w) = Analysis(t, 0, <<op, r>>, c)
  BY <1>1, <1>3, <1>4, AnalyzeOne
<1>9. ASSUME NEW nu, NEW ft PROVE Leads(c, nu, ft) = IF Taken(op, nu[r]) THEN t ELSE ft
  <2>1. Leads(c, nu, ft) = Through(c[m + 1], nu, ft)
    BY <1>1, LeadsForm
  <2> QED
    BY <2>1, <1>3 DEF Through, CondBranches
<1>10. ASSUME NEW S PROVE RegsIn(c, S) <=> r \in S
  BY <1>2, <1>3 DEF RegsIn, CondBranches
<1>81. Ana(c) = Analysis(t, 0, <<op, r>>, c) /\ AnaF(c) = Analysis(t, 0, <<op, r>>, c)
  BY <1>8 DEF Ana, AnaF
<1> QED
  BY <1>5, <1>6, <1>7, <1>81, <1>9, <1>10 DEF CondProfile

\* What they say of a conditional branch and a jump.
Cond2Profile(c, m, op, r, t, u) ==
  /\ Ana(c) = Analysis(t, u, <<op, r>>, c) /\ AnaF(c) = Analysis(t, u, <<op, r>>, c)
  /\ RemoveBranch(c) = SubSeq(c, 1, m)
  /\ \A nu, ft : Leads(c, nu, ft) = IF Taken(op, nu[r]) THEN t ELSE u
  /\ ~Falls(c) /\ ~Halts(c)
  /\ \A x : LeadsTo(c, x) <=> x \in {t, u}
  /\ \A S : RegsIn(c, S) <=> r \in S

\* What every operation says of a block that ends in a conditional branch and
\* a jump.
LEMMA Cond2Facts ==
  ASSUME NEW c, NEW m, NEW op, NEW r, NEW t, NEW u, IsCond2(c, m, op, r, t, u)
  PROVE  Cond2Profile(c, m, op, r, t, u)
<1>1. Form(c, m) /\ Len(c) = m + 2 /\ Len(c) # m /\ Len(c) # m + 1 /\ Len(c) \in Int /\ m \in Int /\ 0 <= m
  BY DEF IsCond2, Form
<1>2. \A i \in 1..m : c[i].op = "WORK"
  BY <1>1 DEF Form, IsWork
<1>3. /\ m + 1 \in (m + 1)..Len(c) /\ m + 1 \in 1..Len(c)
      /\ m + 2 \in (m + 1)..Len(c) /\ m + 2 \in 1..Len(c)
      /\ op \in CondBranches /\ c[m + 1].op = op /\ c[m + 1].to[1] = t /\ c[m + 1].reg = r
      /\ c[m + 2].to[1] = u
      /\ \A i \in 1..Len(c) : i \in 1..m \/ i = m + 1 \/ i = m + 2
  BY <1>1 DEF IsCond2
<1>4. /\ Len(c[m + 1].to) = 1 /\ c[m + 1].op \in Analyzable /\ op # "JMP"
      /\ c[m + 2].op = "JMP" /\ Len(c[m + 2].to) = 1
  <2>1. c[m + 2].op = "JMP"
    BY <1>1 DEF Form
  <2> QED
    BY <2>1, <1>3 DEF Form, IsCond2, Analyzable, CondBranches
<1>5. ~Falls(c) /\ ~Halts(c)
  BY <1>2, <1>3, <1>4 DEF Falls, Halts, Barriers, CondBranches
<1>6. ASSUME NEW x PROVE LeadsTo(c, x) <=> x \in {t, u}
  BY <1>2, <1>3, <1>4, SMTT(30) DEF LeadsTo, Terminators, Analyzable, CondBranches
<1>7. RemoveBranch(c) = SubSeq(c, 1, m)
  BY <1>1, <1>4, RemoveBranches
<1>8. ASSUME NEW w \in BOOLEAN PROVE AnalyzeBranch(c, w) = Analysis(t, u, <<op, r>>, c)
  BY <1>1, <1>3, <1>4, AnalyzeTwo
<1>9. ASSUME NEW nu, NEW ft PROVE Leads(c, nu, ft) = IF Taken(op, nu[r]) THEN t ELSE u
  <2>1. Leads(c, nu, ft) = Through(c[m + 1], nu, c[m + 2].to[1])
    BY <1>1, LeadsForm
  <2> QED
    BY <2>1, <1>3 DEF Through, CondBranches
<1>10. ASSUME NEW S PROVE RegsIn(c, S) <=> r \in S
  BY <1>2, <1>3, <1>4 DEF RegsIn, CondBranches
<1>81. Ana(c) = Analysis(t, u, <<op, r>>, c) /\ AnaF(c) = Analysis(t, u, <<op, r>>, c)
  BY <1>8 DEF Ana, AnaF
<1> QED
  BY <1>5, <1>6, <1>7, <1>81, <1>9, <1>10 DEF Cond2Profile

\* What they say of a jump after a jump.
JumpsProfile(c, m, t, u) ==
  /\ Ana(c) = Analysis(t, 0, <<>>, Front(c)) /\ AnaF(c) = Failed(c)
  /\ RemoveBranch(c) = SubSeq(c, 1, m)
  /\ \A nu, ft : Leads(c, nu, ft) = t
  /\ ~Falls(c) /\ ~Halts(c)
  /\ \A x : LeadsTo(c, x) <=> x \in {t, u}
  /\ \A S : RegsIn(c, S)
  /\ Last(c).op = "JMP"
  /\ IsJump(Front(c), m, t)
  /\ \A i \in 1..m : Front(c)[i] = c[i]

\* What every operation says of a block that ends in two jumps.
LEMMA JumpsFacts ==
  ASSUME NEW c, NEW m, NEW t, NEW u, IsJumps(c, m, t, u)
  PROVE  JumpsProfile(c, m, t, u)
<1>1. Form(c, m) /\ Len(c) = m + 2 /\ Len(c) # m /\ Len(c) # m + 1 /\ Len(c) \in Int /\ m \in Int /\ 0 <= m
  BY DEF IsJumps, Form
<1>2. \A i \in 1..m : c[i].op = "WORK"
  BY <1>1 DEF Form, IsWork
<1>3. /\ m + 1 \in (m + 1)..Len(c) /\ m + 1 \in 1..Len(c)
      /\ m + 2 \in (m + 1)..Len(c) /\ m + 2 \in 1..Len(c)
      /\ c[m + 1].op = "JMP" /\ c[m + 1].to[1] = t
      /\ c[m + 2].to[1] = u
      /\ \A i \in 1..Len(c) : i \in 1..m \/ i = m + 1 \/ i = m + 2
  BY <1>1 DEF IsJumps
<1>4. /\ Len(c[m + 1].to) = 1 /\ c[m + 1].op \in Analyzable
      /\ c[m + 2].op = "JMP" /\ Len(c[m + 2].to) = 1
  <2>1. c[m + 2].op = "JMP"
    BY <1>1 DEF Form
  <2> QED
    BY <2>1, <1>3 DEF Form, IsJumps, Analyzable, CondBranches
<1>5. ~Falls(c) /\ ~Halts(c)
  BY <1>2, <1>3, <1>4 DEF Falls, Halts, Barriers, CondBranches
<1>6. ASSUME NEW x PROVE LeadsTo(c, x) <=> x \in {t, u}
  BY <1>2, <1>3, <1>4, SMTT(30) DEF LeadsTo, Terminators, Analyzable, CondBranches
<1>7. RemoveBranch(c) = SubSeq(c, 1, m)
  BY <1>1, <1>4, RemoveBranches
<1>8. ASSUME NEW w \in BOOLEAN PROVE AnalyzeBranch(c, w) = IF w THEN Analysis(t, 0, <<>>, Front(c)) ELSE Failed(c)
  BY <1>1, <1>3, <1>4, AnalyzeJumps
<1>81. Ana(c) = Analysis(t, 0, <<>>, Front(c)) /\ AnaF(c) = Failed(c)
  BY <1>8 DEF Ana, AnaF
<1>9. ASSUME NEW nu, NEW ft PROVE Leads(c, nu, ft) = t
  <2>1. Leads(c, nu, ft) = Through(c[m + 1], nu, c[m + 2].to[1])
    BY <1>1, LeadsForm
  <2> QED
    BY <2>1, <1>3 DEF Through, CondBranches
<1>10. ASSUME NEW S PROVE RegsIn(c, S)
  BY <1>2, <1>3, <1>4 DEF RegsIn, CondBranches
<1>11. /\ Front(c) \in Seq(Instrs) /\ Len(Front(c)) = m + 1
       /\ \A i \in 1..(m + 1) : Front(c)[i] = c[i]
  BY <1>1 DEF Front, Form
<1>12. IsJump(Front(c), m, t)
  <2>1. \A i \in 1..m : IsWork(Front(c)[i]) /\ Front(c)[i].op # "HALT" /\ Front(c)[i].reg \in 1..NumBlocks
    BY <1>1, <1>2, <1>11 DEF Form
  <2>2. \A i \in (m + 1)..Len(Front(c)) : i = m + 1 /\ Front(c)[i] = c[m + 1]
    BY <1>1, <1>11
  <2>3. c[m + 1].op \in Terminators /\ c[m + 1].to[1] > 1
    BY <1>1, <1>3, <1>4 DEF Form
  <2>5. c[m + 1].op \notin CondBranches \cup {"JMPR"}
    BY <1>3 DEF CondBranches
  <2>4. Form(Front(c), m)
    BY <1>1, <1>4, <1>11, <2>1, <2>2, <2>3, <2>5 DEF Form
  <2> QED
    BY <2>4, <1>1, <1>3, <1>11 DEF IsJump
<1> QED
  <2>1. Last(c).op = "JMP"
    BY <1>1, <1>4 DEF Last
  <2>2. \A i \in 1..m : Front(c)[i] = c[i]
    BY <1>1, <1>11
  <2> QED
    BY <2>1, <2>2, <1>5, <1>6, <1>7, <1>81, <1>9, <1>10, <1>12 DEF JumpsProfile

\* What they say of a return or a jump table.
OtherProfile(c, m) ==
  /\ Ana(c) = Failed(c) /\ AnaF(c) = Failed(c)
  /\ \A nu, ft : Leads(c, nu, ft) = Exit \/ LeadsTo(c, Leads(c, nu, ft))
  /\ \A nu, ft, ft2 : Leads(c, nu, ft2) = Leads(c, nu, ft)
  /\ ~Falls(c) /\ ~Halts(c)
  /\ Last(c) = c[m + 1]

\* What every operation says of a block that ends in a return or a jump table.
LEMMA OtherFacts ==
  ASSUME NEW c, NEW m, IsOther(c, m)
  PROVE  OtherProfile(c, m)
<1>1. Form(c, m) /\ Len(c) = m + 1 /\ Len(c) # m /\ Len(c) \in Int /\ m \in Int /\ 0 <= m
  BY DEF IsOther, Form
<1>2. \A i \in 1..m : c[i].op = "WORK"
  BY <1>1 DEF Form, IsWork
<1>3. /\ m + 1 \in (m + 1)..Len(c) /\ m + 1 \in 1..Len(c)
      /\ c[m + 1].op \in {"JMPR", "RET"}
      /\ \A i \in 1..Len(c) : i \in 1..m \/ i = m + 1
  BY <1>1 DEF IsOther
<1>4. c[m + 1].op \notin Analyzable /\ (c[m + 1].op = "JMPR" => Len(c[m + 1].to) = 2)
  <2>1. c[m + 1].op \notin Analyzable
    BY <1>3 DEF Analyzable, CondBranches
  <2>2. c[m + 1].op = "JMPR" => Len(c[m + 1].to) = 2
    BY <1>1, <1>3 DEF Form
  <2> QED
    BY <2>1, <2>2
<1>5. ~Falls(c) /\ ~Halts(c)
  BY <1>2, <1>3 DEF Falls, Halts, Barriers
<1>6. ASSUME NEW nu, NEW ft
      PROVE  Leads(c, nu, ft) = IF c[m + 1].op = "RET" THEN Exit ELSE c[m + 1].to[IF nu[c[m + 1].reg] = "lt" THEN 1 ELSE 2]
  <2>1. Leads(c, nu, ft) = Through(c[m + 1], nu, ft)
    BY <1>1, LeadsForm
  <2>2. c[m + 1].op # "RET" => c[m + 1].op = "JMPR"
    BY <1>3
  <2> QED
    BY <2>1, <2>2 DEF Through
<1>7. ASSUME NEW nu, NEW ft, c[m + 1].op # "RET"
      PROVE  LeadsTo(c, Leads(c, nu, ft))
  <2> DEFINE j == IF nu[c[m + 1].reg] = "lt" THEN 1 ELSE 2
  <2>1. j \in 1..Len(c[m + 1].to) /\ Leads(c, nu, ft) = c[m + 1].to[j]
    BY <1>3, <1>4, <1>6, <1>7
  <2>2. c[m + 1].op \in Terminators \ {"RET"}
    BY <1>3, <1>7 DEF Terminators
  <2> QED
    BY <2>1, <2>2, <1>3 DEF LeadsTo
<1>8. ASSUME NEW w \in BOOLEAN PROVE AnalyzeBranch(c, w) = Failed(c)
  BY <1>1, <1>4, AnalyzeFailed
<1>81. Ana(c) = Failed(c) /\ AnaF(c) = Failed(c)
  BY <1>8 DEF Ana, AnaF
<1> QED
  BY <1>1, <1>5, <1>6, <1>7, <1>81 DEF Last, OtherProfile

\* The work of a block without its terminators falls through.
LEMMA Cut ==
  ASSUME NEW c, NEW m, Form(c, m)
  PROVE  /\ IsFall(SubSeq(c, 1, m), m)
         /\ \A i \in 1..m : SubSeq(c, 1, m)[i] = c[i]
         /\ Halts(SubSeq(c, 1, m)) <=> Halts(c)
<1> DEFINE w == SubSeq(c, 1, m)
<1>1. c \in Seq(Instrs) /\ Len(c) \in Int /\ m \in Int /\ 0 <= m /\ m <= Len(c)
  BY DEF Form
<1>2. w \in Seq(Instrs) /\ Len(w) = m /\ \A i \in 1..m : w[i] = c[i]
  BY <1>1
<1>3. \A i \in 1..m : IsWork(w[i]) /\ (w[i].op = "HALT" => i = m) /\ w[i].reg \in 1..NumBlocks
  BY <1>1, <1>2 DEF Form
<1>4. \A i \in (m + 1)..Len(c) : c[i].op # "HALT"
  BY DEF Form, Terminators, Analyzable, CondBranches
<1>5. Halts(w) <=> Halts(c)
  <2>1. ASSUME NEW i \in 1..Len(w), w[i].op = "HALT" PROVE Halts(c)
    BY <2>1, <1>1, <1>2 DEF Halts
  <2>2. ASSUME NEW i \in 1..Len(c), c[i].op = "HALT" PROVE Halts(w)
    <3>1. i \in 1..m
      BY <2>2, <1>1, <1>4
    <3> QED
      BY <3>1, <2>2, <1>2 DEF Halts
  <2> QED
    BY <2>1, <2>2 DEF Halts
<1> HIDE DEF w
<1>6. Form(w, m)
  BY <1>1, <1>2, <1>3 DEF Form
<1> QED
  BY <1>2, <1>5, <1>6 DEF w, IsFall

\* An element appended to a sequence.
LEMMA Appended ==
  ASSUME NEW S, NEW c \in Seq(S), NEW x \in S
  PROVE  /\ c \o <<x>> \in Seq(S) /\ Len(c \o <<x>>) = Len(c) + 1
         /\ \A i \in 1..Len(c) : (c \o <<x>>)[i] = c[i]
         /\ (c \o <<x>>)[Len(c) + 1] = x
         /\ c \o <<x>> \o <<>> = c \o <<x>>
OBVIOUS

\* A branch appended to work that falls through.
LEMMA AddOne ==
  ASSUME NEW c, NEW m, IsFall(c, m), ~Halts(c), NEW x \in Instrs, x.op \in Analyzable,
         Len(x.to) = 1, x.to[1] > 1, x.op \in CondBranches => x.reg \in 1..NumBlocks
  PROVE  /\ Form(c \o <<x>>, m) /\ Len(c \o <<x>>) = m + 1 /\ (c \o <<x>>)[m + 1] = x
         /\ \A i \in 1..m : (c \o <<x>>)[i] = c[i]
<1> DEFINE d == c \o <<x>>
<1>1. c \in Seq(Instrs) /\ Len(c) = m /\ m \in Int /\ 0 <= m /\ Form(c, m)
  BY DEF Form, IsFall
<1>2. d \in Seq(Instrs) /\ Len(d) = m + 1 /\ (\A i \in 1..m : d[i] = c[i]) /\ d[m + 1] = x
  BY <1>1, Appended
<1> HIDE DEF d
<1>3. \A i \in 1..m : IsWork(d[i]) /\ d[i].op # "HALT" /\ d[i].reg \in 1..NumBlocks
  BY <1>1, <1>2 DEF Form, Halts
<1>4. x.op \in Terminators /\ x.op # "JMPR"
  BY DEF Terminators, Analyzable, CondBranches
<1>5. \A i \in (m + 1)..Len(d) : d[i] = x
  BY <1>1, <1>2
<1>6. Form(d, m)
  BY <1>1, <1>2, <1>3, <1>4, <1>5 DEF Form
<1> QED
  BY <1>2, <1>6 DEF d

\* The block ends in one known branch.
EndsIn1(c, m) == Form(c, m) /\ Len(c) = m + 1 /\ c[m + 1].op \in Analyzable

\* A jump appended to a block with one branch.
LEMMA AddJump ==
  ASSUME NEW c, NEW m \in Nat, EndsIn1(c, m),
         NEW x \in Instrs, x.op = "JMP", Len(x.to) = 1, x.to[1] > 1
  PROVE  /\ Form(c \o <<x>>, m) /\ Len(c \o <<x>>) = m + 2
         /\ (c \o <<x>>)[m + 1] = c[m + 1] /\ (c \o <<x>>)[m + 2] = x
         /\ \A i \in 1..m : (c \o <<x>>)[i] = c[i]
<1> DEFINE d == c \o <<x>>
<1>0. Form(c, m) /\ Len(c) = m + 1 /\ c[m + 1].op \in Analyzable
  BY DEF EndsIn1
<1>1. c \in Seq(Instrs) /\ m \in Int /\ 0 <= m /\ Len(c) = m + 1
  BY <1>0 DEF Form
<1>2. x.op \in Terminators /\ x.op \notin CondBranches \cup {"JMPR"}
  BY DEF Terminators, Analyzable, CondBranches
<1>3. d \in Seq(Instrs) /\ Len(d) = m + 2 /\ (\A i \in 1..(m + 1) : d[i] = c[i]) /\ d[m + 2] = x
  BY <1>1, <1>2, Appended
<1> HIDE DEF d
<1>4. \A i \in 1..m : d[i] = c[i] /\ IsWork(d[i]) /\ d[i].op # "HALT" /\ d[i].reg \in 1..NumBlocks
  BY <1>0, <1>1, <1>3 DEF Form
<1>5. \A i \in (m + 1)..Len(d) : (i \in (m + 1)..Len(c) /\ d[i] = c[i]) \/ d[i] = x
  BY <1>1, <1>3
<1>6. m + 1 \in 1..(m + 1) /\ m \in 0..Len(d)
  BY <1>1, <1>3
<1>7. d[m + 1] = c[m + 1]
  BY <1>3, <1>6
<1>8. Form(d, m)
  BY <1>0, <1>1, <1>2, <1>3, <1>4, <1>5, <1>6, <1>7 DEF Form
<1> QED
  BY <1>3, <1>4, <1>7, <1>8 DEF d

\* The jump to a block.
LEMMA JmpIs ==
  ASSUME NEW u \in Targets1
  PROVE  /\ Jmp(u) \in Instrs /\ Jmp(u).op = "JMP" /\ Len(Jmp(u).to) = 1
         /\ Jmp(u).to[1] > 1 /\ Jmp(u).to[1] = u
BY DEF Jmp, Instr, Instrs, Terminators, Analyzable, CondBranches, Targets1

\* InsertBranch without a condition ends the block in a jump.
LEMMA InsertJump ==
  ASSUME NEW c, NEW m, IsFall(c, m), ~Halts(c), NEW t \in Targets1
  PROVE  /\ IsJump(InsertBranch(c, t, 0, <<>>), m, t)
         /\ \A i \in 1..m : InsertBranch(c, t, 0, <<>>)[i] = c[i]
<1> DEFINE x == Jmp(t)
<1>1. /\ x \in Instrs /\ x.op = "JMP" /\ Len(x.to) = 1 /\ x.to[1] > 1 /\ x.to[1] = t
      /\ x.op \in Analyzable /\ (x.op \in CondBranches => x.reg \in 1..NumBlocks)
  BY DEF Jmp, Instr, Instrs, Terminators, Analyzable, CondBranches, Targets1
<1>2. c \in Seq(Instrs)
  BY DEF Form, IsFall
<1>3. InsertBranch(c, t, 0, <<>>) = c \o <<x>> \o <<>>
  BY DEF InsertBranch
<1> HIDE DEF x
<1>4. InsertBranch(c, t, 0, <<>>) = c \o <<x>>
  BY <1>1, <1>2, <1>3, Appended
<1>5. /\ Form(c \o <<x>>, m) /\ Len(c \o <<x>>) = m + 1 /\ (c \o <<x>>)[m + 1] = x
      /\ \A i \in 1..m : (c \o <<x>>)[i] = c[i]
  BY <1>1, AddOne, ZenonT(60)
<1> QED
  BY <1>1, <1>4, <1>5 DEF IsJump

\* InsertBranch with a condition and one destination ends the block in a
\* conditional branch.
LEMMA InsertCond ==
  ASSUME NEW c, NEW m, IsFall(c, m), ~Halts(c), NEW t \in Targets1,
         NEW op \in CondBranches, NEW r \in 1..NumBlocks
  PROVE  /\ IsCond(InsertBranch(c, t, 0, <<op, r>>), m, op, r, t)
         /\ \A i \in 1..m : InsertBranch(c, t, 0, <<op, r>>)[i] = c[i]
<1> DEFINE x == Instr(op, <<t>>, r)
<1>1. /\ x \in Instrs /\ x.op = op /\ Len(x.to) = 1 /\ x.to[1] > 1 /\ x.to[1] = t
      /\ x.op \in Analyzable /\ x.reg = r /\ (x.op \in CondBranches => x.reg \in 1..NumBlocks)
  BY DEF Instr, Instrs, Terminators, Analyzable, Targets1
<1>2. c \in Seq(Instrs)
  BY DEF Form, IsFall
<1>3. InsertBranch(c, t, 0, <<op, r>>) = c \o <<x>> \o <<>>
  BY DEF InsertBranch
<1> HIDE DEF x
<1>4. InsertBranch(c, t, 0, <<op, r>>) = c \o <<x>>
  BY <1>1, <1>2, <1>3, Appended
<1>5. /\ Form(c \o <<x>>, m) /\ Len(c \o <<x>>) = m + 1 /\ (c \o <<x>>)[m + 1] = x
      /\ \A i \in 1..m : (c \o <<x>>)[i] = c[i]
  BY <1>1, AddOne, ZenonT(60)
<1> QED
  BY <1>1, <1>4, <1>5 DEF IsCond

\* InsertBranch with a condition and two destinations ends the block in both
\* branches.
LEMMA InsertCond2 ==
  ASSUME NEW c, NEW m, IsFall(c, m), ~Halts(c), NEW t \in Targets1, NEW u \in Targets1,
         NEW op \in CondBranches, NEW r \in 1..NumBlocks
  PROVE  /\ IsCond2(InsertBranch(c, t, u, <<op, r>>), m, op, r, t, u)
         /\ \A i \in 1..m : InsertBranch(c, t, u, <<op, r>>)[i] = c[i]
<1> DEFINE x == Instr(op, <<t>>, r)
           d == c \o <<x>>
<1>1. /\ x \in Instrs /\ x.op = op /\ Len(x.to) = 1 /\ x.to[1] > 1 /\ x.to[1] = t
      /\ x.op \in Analyzable /\ x.reg = r /\ u # 0 /\ (x.op \in CondBranches => x.reg \in 1..NumBlocks)
  BY DEF Instr, Instrs, Terminators, Analyzable, Targets1
<1>3. InsertBranch(c, t, u, <<op, r>>) = c \o <<x>> \o <<Jmp(u)>>
  BY <1>1 DEF InsertBranch
<1> HIDE DEF x
<1>5. /\ Form(d, m) /\ Len(d) = m + 1 /\ d[m + 1] = x
      /\ \A i \in 1..m : d[i] = c[i]
  BY <1>1, AddOne, ZenonT(60)
<1> DEFINE y == Jmp(u)
<1>6. InsertBranch(c, t, u, <<op, r>>) = d \o <<y>>
  BY <1>3
<1>y. y \in Instrs /\ y.op = "JMP" /\ Len(y.to) = 1 /\ y.to[1] > 1 /\ y.to[1] = u
  BY JmpIs
<1> HIDE DEF d, y
<1>7. /\ Form(d \o <<y>>, m) /\ Len(d \o <<y>>) = m + 2
      /\ (d \o <<y>>)[m + 1] = d[m + 1] /\ (d \o <<y>>)[m + 2] = y
      /\ \A i \in 1..m : (d \o <<y>>)[i] = d[i]
  <2>1. EndsIn1(d, m)
    BY <1>1, <1>5 DEF EndsIn1
  <2>2. m \in Nat
    BY DEF IsFall, Form
  <2> QED
    BY <2>1, <2>2, <1>5, <1>y, AddJump
<1> QED
  BY <1>1, <1>5, <1>6, <1>7, <1>y DEF IsCond2

\* A jump inserted after the branch that a block already has.
LEMMA InsertAfter ==
  ASSUME NEW c, NEW m, NEW u \in Targets1
  PROVE  /\ \A t \in Targets1 : IsJump(c, m, t) => IsJumps(InsertBranch(c, u, 0, <<>>), m, t, u)
         /\ \A op \in CondBranches, r \in 1..NumBlocks, t \in Targets1 :
              IsCond(c, m, op, r, t) => IsCond2(InsertBranch(c, u, 0, <<>>), m, op, r, t, u)
         /\ (\E t \in Targets1 : IsJump(c, m, t))
              \/ (\E op \in CondBranches, r \in 1..NumBlocks, t \in Targets1 : IsCond(c, m, op, r, t)) =>
            \A i \in 1..m : InsertBranch(c, u, 0, <<>>)[i] = c[i]
<1> DEFINE known == EndsIn1(c, m)
           e == InsertBranch(c, u, 0, <<>>)
           y == Jmp(u)
<1>1. ASSUME known
      PROVE  Form(e, m) /\ Len(e) = m + 2 /\ e[m + 1] = c[m + 1] /\ e[m + 2].to[1] = u
             /\ \A i \in 1..m : e[i] = c[i]
  <2>1. e = c \o <<y>> \o <<>>
    BY DEF InsertBranch
  <2>2. y \in Instrs /\ y.op = "JMP" /\ Len(y.to) = 1 /\ y.to[1] > 1 /\ y.to[1] = u
    BY JmpIs
  <2>3. c \in Seq(Instrs)
    BY <1>1 DEF Form, EndsIn1
  <2>6. m \in Nat
    BY <1>1 DEF Form, EndsIn1
  <2> HIDE DEF y, e
  <2>4. e = c \o <<y>>
    BY <2>1, <2>2, <2>3, Appended
  <2>5. /\ Form(c \o <<y>>, m) /\ Len(c \o <<y>>) = m + 2
        /\ (c \o <<y>>)[m + 1] = c[m + 1] /\ (c \o <<y>>)[m + 2] = y
        /\ \A i \in 1..m : (c \o <<y>>)[i] = c[i]
    BY <2>2, <2>6, <1>1, AddJump
  <2> QED
    BY <2>2, <2>4, <2>5
<1>2. ASSUME NEW t, IsJump(c, m, t) PROVE known
  BY <1>2 DEF IsJump, Analyzable, EndsIn1
<1>3. ASSUME NEW t, NEW op, NEW r, IsCond(c, m, op, r, t) PROVE known
  BY <1>3 DEF IsCond, Analyzable, EndsIn1
<1> HIDE DEF known, e
<1> QED
  BY <1>1, <1>2, <1>3 DEF IsJump, IsCond, IsJumps, IsCond2, e
Like(c, d, m) == Form(d, m) /\ \A i \in 1..m : d[i] = c[i]

\* Instructions d lead, when ft2 is the block after, where c leads when ft is.
SameLeads(c, ft, d, ft2, S) == \A nu \in [S -> Outcomes] : Leads(d, nu, ft2) = Leads(c, nu, ft)

\* The same work halts or does not.
LEMMA LikeHalts ==
  ASSUME NEW m \in Nat, NEW c, NEW d, Form(c, m), Like(c, d, m)
  PROVE  Halts(d) <=> Halts(c)
<1>1. ASSUME NEW b, NEW e, Form(b, m), Form(e, m), \A i \in 1..m : b[i] = e[i], Halts(b)
      PROVE  Halts(e)
  <2>1. PICK i \in 1..Len(b) : b[i].op = "HALT"
    BY <1>1 DEF Halts
  <2>2. i \in 1..m
    <3>1. Len(b) \in Int
      BY <1>1 DEF Form
    <3>2. i \notin (m + 1)..Len(b)
      BY <1>1, <2>1 DEF Form, Terminators, Analyzable, CondBranches
    <3> QED
      BY <3>1, <3>2
  <2>3. i \in 1..Len(e)
    BY <2>2, <1>1 DEF Form
  <2> QED
    BY <2>1, <2>2, <2>3, <1>1 DEF Halts
<1> QED
  BY <1>1 DEF Like

\* The block, and the same block without a jump after a jump.
ErasedProfile(c, d, m) ==
  /\ Like(c, d, m)
  /\ Falls(d) <=> Falls(c)
  /\ \A x : LeadsTo(d, x) => LeadsTo(c, x)
  /\ \A S : RegsIn(c, S) => RegsIn(d, S)
  /\ \A nu, ft : Leads(d, nu, ft) = Leads(c, nu, ft)

\* A block from which a jump after a jump has been erased leads where it led.
LEMMA Erase ==
  ASSUME NEW m \in Nat, NEW c, Form(c, m)
  PROVE  ErasedProfile(c, Ana(c).code, m)
<1> DEFINE d == Ana(c).code
<1>1. CASE d = c
  BY <1>1 DEF Like, ErasedProfile
<1>2. ASSUME NEW tt, NEW f, NEW cond, Ana(c) = Analysis(tt, f, cond, c)
      PROVE  d = c
  BY <1>2, AnalysisFields
<1>3. CASE \E t, u \in Targets1 : IsJumps(c, m, t, u)
  <2>1. PICK t \in Targets1, u \in Targets1 : IsJumps(c, m, t, u)
    BY <1>3
  <2>2. JumpsProfile(c, m, t, u)
    BY <2>1, JumpsFacts
  <2>3. d = Front(c)
    BY <2>2, AnalysisFields DEF JumpsProfile
  <2> HIDE DEF d
  <2>4. IsJump(d, m, t) /\ (\A i \in 1..m : d[i] = c[i])
    BY <2>2, <2>3 DEF JumpsProfile
  <2>5. Form(d, m)
    BY <2>4 DEF IsJump
  <2>6. JumpProfile(d, m, t)
    BY <2>4, JumpFacts
  <2>7. Like(c, d, m)
    BY <2>4, <2>5 DEF Like
  <2>8. ErasedProfile(c, d, m)
    BY <2>2, <2>6, <2>7 DEF JumpProfile, JumpsProfile, ErasedProfile
  <2> QED
    BY <2>8 DEF d
<1>4. CASE IsFall(c, m)
  <2>1. FallProfile(c, m)
    BY <1>4, FallFacts
  <2> QED
    BY <2>1, <1>1, <1>2 DEF FallProfile
<1>5. CASE \E t \in Targets1 : IsJump(c, m, t)
  <2>1. PICK t \in Targets1 : IsJump(c, m, t)
    BY <1>5
  <2>2. JumpProfile(c, m, t)
    BY <2>1, JumpFacts
  <2> QED
    BY <2>2, <1>1, <1>2 DEF JumpProfile
<1>6. CASE \E op \in CondBranches, r \in 1..NumBlocks, t \in Targets1 : IsCond(c, m, op, r, t)
  <2>1. PICK op \in CondBranches, r \in 1..NumBlocks, t \in Targets1 : IsCond(c, m, op, r, t)
    BY <1>6
  <2>2. CondProfile(c, m, op, r, t)
    BY <2>1, CondFacts
  <2> QED
    BY <2>2, <1>1, <1>2 DEF CondProfile
<1>7. CASE \E op \in CondBranches, r \in 1..NumBlocks, t, u \in Targets1 : IsCond2(c, m, op, r, t, u)
  <2>1. PICK op \in CondBranches, r \in 1..NumBlocks, t \in Targets1, u \in Targets1 : IsCond2(c, m, op, r, t, u)
    BY <1>7
  <2>2. Cond2Profile(c, m, op, r, t, u)
    BY <2>1, Cond2Facts
  <2> QED
    BY <2>2, <1>1, <1>2 DEF Cond2Profile
<1>8. CASE IsOther(c, m)
  <2>1. OtherProfile(c, m)
    BY <1>8, OtherFacts
  <2>2. d = c
    BY <2>1, FailedFields DEF OtherProfile
  <2> QED
    BY <2>2, <1>1
<1> HIDE DEF d
<1>9. Like(c, c, m)
  BY DEF Like
<1> QED
  BY <1>3, <1>4, <1>5, <1>6, <1>7, <1>8, FormCases DEF d

\* What a block with instructions d does at its end.
EndsFalling(d) ==
  /\ Falls(d)
  /\ \A x : ~LeadsTo(d, x)
  /\ \A S : RegsIn(d, S)
  /\ \A nu, ft : Leads(d, nu, ft) = ft

\* The block leads to one block.
EndsJumping(d, t) ==
  /\ ~Falls(d)
  /\ \A x : LeadsTo(d, x) <=> x = t
  /\ \A S : RegsIn(d, S)
  /\ \A nu, ft : Leads(d, nu, ft) = t

\* The block leads to t or falls through.
EndsBranching(d, op, r, t) ==
  /\ Falls(d)
  /\ \A x : LeadsTo(d, x) <=> x = t
  /\ \A S : RegsIn(d, S) <=> r \in S
  /\ \A nu, ft : Leads(d, nu, ft) = IF Taken(op, nu[r]) THEN t ELSE ft

\* The block leads to t or to u.
EndsChoosing(d, op, r, t, u) ==
  /\ ~Falls(d)
  /\ \A x : LeadsTo(d, x) <=> x \in {t, u}
  /\ \A S : RegsIn(d, S) <=> r \in S
  /\ \A nu, ft : Leads(d, nu, ft) = IF Taken(op, nu[r]) THEN t ELSE u

\* A block cut down to its work falls through.
LEMMA ToFall ==
  ASSUME NEW m \in Nat, NEW c, Form(c, m), ~Halts(c)
  PROVE  Like(c, SubSeq(c, 1, m), m) /\ EndsFalling(SubSeq(c, 1, m))
<1> DEFINE w == SubSeq(c, 1, m)
<1>1. IsFall(w, m) /\ (\A i \in 1..m : w[i] = c[i]) /\ ~Halts(w)
  BY Cut
<1> HIDE DEF w
<1>2. Form(w, m)
  BY <1>1 DEF IsFall
<1>3. FallProfile(w, m)
  BY <1>1, FallFacts
<1>4. EndsFalling(w)
  BY <1>1, <1>3 DEF FallProfile, EndsFalling
<1> QED
  BY <1>1, <1>2, <1>4 DEF Like, w

\* A block rewritten to end in a jump keeps its work.
LEMMA ToJump ==
  ASSUME NEW m \in Nat, NEW c, Form(c, m), ~Halts(c), NEW t \in Targets1
  PROVE  /\ Like(c, InsertBranch(SubSeq(c, 1, m), t, 0, <<>>), m)
         /\ EndsJumping(InsertBranch(SubSeq(c, 1, m), t, 0, <<>>), t)
<1> DEFINE w == SubSeq(c, 1, m)
           d == InsertBranch(w, t, 0, <<>>)
<1>1. IsFall(w, m) /\ (\A i \in 1..m : w[i] = c[i]) /\ ~Halts(w)
  BY Cut
<1> HIDE DEF w
<1>3. IsJump(d, m, t) /\ (\A i \in 1..m : d[i] = w[i])
  BY <1>1, InsertJump
<1> HIDE DEF d
<1>4. Form(d, m)
  BY <1>3 DEF IsJump
<1>5. JumpProfile(d, m, t)
  BY <1>3, JumpFacts
<1>6. Like(c, d, m) /\ EndsJumping(d, t)
  BY <1>1, <1>3, <1>4, <1>5 DEF Like, JumpProfile, EndsJumping
<1> QED
  BY <1>6 DEF d, w

\* A block rewritten to end in a conditional branch keeps its work.
LEMMA ToCond ==
  ASSUME NEW m \in Nat, NEW c, Form(c, m), ~Halts(c), NEW t \in Targets1,
         NEW op \in CondBranches, NEW r \in 1..NumBlocks
  PROVE  /\ Like(c, InsertBranch(SubSeq(c, 1, m), t, 0, <<op, r>>), m)
         /\ EndsBranching(InsertBranch(SubSeq(c, 1, m), t, 0, <<op, r>>), op, r, t)
<1> DEFINE w == SubSeq(c, 1, m)
           d == InsertBranch(w, t, 0, <<op, r>>)
<1>1. IsFall(w, m) /\ (\A i \in 1..m : w[i] = c[i]) /\ ~Halts(w)
  BY Cut
<1> HIDE DEF w
<1>3. IsCond(d, m, op, r, t) /\ (\A i \in 1..m : d[i] = w[i])
  BY <1>1, InsertCond
<1> HIDE DEF d
<1>4. Form(d, m)
  BY <1>3 DEF IsCond
<1>5. CondProfile(d, m, op, r, t)
  BY <1>3, CondFacts
<1>6. Like(c, d, m)
  BY <1>1, <1>3, <1>4 DEF Like
<1>7. EndsBranching(d, op, r, t)
  BY <1>5 DEF CondProfile, EndsBranching
<1> QED
  BY <1>6, <1>7 DEF d, w

\* A block rewritten to end in a two-way branch keeps its work.
LEMMA ToCond2 ==
  ASSUME NEW m \in Nat, NEW c, Form(c, m), ~Halts(c), NEW t \in Targets1, NEW u \in Targets1,
         NEW op \in CondBranches, NEW r \in 1..NumBlocks
  PROVE  /\ Like(c, InsertBranch(SubSeq(c, 1, m), t, u, <<op, r>>), m)
         /\ EndsChoosing(InsertBranch(SubSeq(c, 1, m), t, u, <<op, r>>), op, r, t, u)
<1> DEFINE w == SubSeq(c, 1, m)
           d == InsertBranch(w, t, u, <<op, r>>)
<1>1. IsFall(w, m) /\ (\A i \in 1..m : w[i] = c[i]) /\ ~Halts(w)
  BY Cut
<1> HIDE DEF w
<1>3. IsCond2(d, m, op, r, t, u) /\ (\A i \in 1..m : d[i] = w[i])
  BY <1>1, InsertCond2
<1> HIDE DEF d
<1>4. Form(d, m)
  BY <1>3 DEF IsCond2
<1>5. Cond2Profile(d, m, op, r, t, u)
  BY <1>3, Cond2Facts
<1>6. Like(c, d, m)
  BY <1>1, <1>3, <1>4 DEF Like
<1>7. EndsChoosing(d, op, r, t, u)
  BY <1>5 DEF Cond2Profile, EndsChoosing
<1> QED
  BY <1>6, <1>7 DEF d, w
\* The answers a and f of the analysis with and without leave to modify, for
\* each form of the instructions.
Answer(a, tbb, fbb, cond, c) ==
  ~a.fail /\ a.tbb = tbb /\ a.fbb = fbb /\ a.cond = cond /\ a.code = c
NoAnswer(a, c) == a.fail /\ a.tbb = 0 /\ a.fbb = 0 /\ a.cond = <<>> /\ a.code = c

\* The six ends of a block with the two answers they get.
CaseFall(c, m, a, f) ==
  FallProfile(c, m) /\ IsFall(c, m) /\ Answer(a, 0, 0, <<>>, c) /\ Answer(f, 0, 0, <<>>, c)
CaseJump(c, m, a, f, t) ==
  /\ t \in Targets1
  /\ JumpProfile(c, m, t) /\ IsJump(c, m, t) /\ Answer(a, t, 0, <<>>, c) /\ Answer(f, t, 0, <<>>, c)
CaseCond(c, m, a, f, op, r, t) ==
  /\ t \in Targets1 /\ op \in CondBranches /\ r \in 1..NumBlocks
  /\ CondProfile(c, m, op, r, t) /\ IsCond(c, m, op, r, t)
  /\ Answer(a, t, 0, <<op, r>>, c) /\ Answer(f, t, 0, <<op, r>>, c)
CaseCond2(c, m, a, f, op, r, t, u) ==
  /\ t \in Targets1 /\ u \in Targets1 /\ op \in CondBranches /\ r \in 1..NumBlocks
  /\ Cond2Profile(c, m, op, r, t, u) /\ IsCond2(c, m, op, r, t, u)
  /\ Answer(a, t, u, <<op, r>>, c) /\ Answer(f, t, u, <<op, r>>, c)
CaseJumps(c, m, a, f, t, u) ==
  /\ t \in Targets1 /\ u \in Targets1
  /\ JumpsProfile(c, m, t, u) /\ IsJumps(c, m, t, u)
  /\ Answer(a, t, 0, <<>>, Front(c)) /\ NoAnswer(f, c)
CaseOther(c, m, a, f) ==
  OtherProfile(c, m) /\ IsOther(c, m) /\ NoAnswer(a, c) /\ NoAnswer(f, c)

\* The answers of AnalyzeBranch, with and without leave to erase a jump, for
\* the six ends of a block.
LEMMA AnaCases ==
  ASSUME NEW m \in Nat, NEW c, Form(c, m), NEW a, a = Ana(c), NEW f, f = AnaF(c)
  PROVE  \/ CaseFall(c, m, a, f)
         \/ \E t : CaseJump(c, m, a, f, t)
         \/ \E op, r, t : CaseCond(c, m, a, f, op, r, t)
         \/ \E op, r, t, u : CaseCond2(c, m, a, f, op, r, t, u)
         \/ \E t, u : CaseJumps(c, m, a, f, t, u)
         \/ CaseOther(c, m, a, f)
<1>1. CASE IsFall(c, m)
  <2>1. FallProfile(c, m)
    BY <1>1, FallFacts
  <2>2. a = Analysis(0, 0, <<>>, c) /\ f = Analysis(0, 0, <<>>, c)
    BY <2>1 DEF FallProfile
  <2>3. Answer(a, 0, 0, <<>>, c) /\ Answer(f, 0, 0, <<>>, c)
    BY <2>2, AnalysisFields DEF Answer
  <2> QED
    BY <1>1, <2>1, <2>3 DEF CaseFall
<1>2. ASSUME NEW t \in Targets1, IsJump(c, m, t)
      PROVE  CaseJump(c, m, a, f, t)
  <2>1. JumpProfile(c, m, t)
    BY <1>2, JumpFacts
  <2>2. a = Analysis(t, 0, <<>>, c) /\ f = Analysis(t, 0, <<>>, c)
    BY <2>1 DEF JumpProfile
  <2>3. Answer(a, t, 0, <<>>, c) /\ Answer(f, t, 0, <<>>, c)
    BY <2>2, AnalysisFields DEF Answer
  <2> QED
    BY <1>2, <2>1, <2>3 DEF CaseJump
<1>3. ASSUME NEW op \in CondBranches, NEW r \in 1..NumBlocks, NEW t \in Targets1, IsCond(c, m, op, r, t)
      PROVE  CaseCond(c, m, a, f, op, r, t)
  <2>1. CondProfile(c, m, op, r, t)
    BY <1>3, CondFacts
  <2>2. a = Analysis(t, 0, <<op, r>>, c) /\ f = Analysis(t, 0, <<op, r>>, c)
    BY <2>1 DEF CondProfile
  <2>3. Answer(a, t, 0, <<op, r>>, c) /\ Answer(f, t, 0, <<op, r>>, c)
    BY <2>2, AnalysisFields DEF Answer
  <2> QED
    BY <1>3, <2>1, <2>3 DEF CaseCond
<1>4. ASSUME NEW op \in CondBranches, NEW r \in 1..NumBlocks, NEW t \in Targets1, NEW u \in Targets1,
             IsCond2(c, m, op, r, t, u)
      PROVE  CaseCond2(c, m, a, f, op, r, t, u)
  <2>1. Cond2Profile(c, m, op, r, t, u)
    BY <1>4, Cond2Facts
  <2>2. a = Analysis(t, u, <<op, r>>, c) /\ f = Analysis(t, u, <<op, r>>, c)
    BY <2>1 DEF Cond2Profile
  <2>3. Answer(a, t, u, <<op, r>>, c) /\ Answer(f, t, u, <<op, r>>, c)
    BY <2>2, AnalysisFields DEF Answer
  <2> QED
    BY <1>4, <2>1, <2>3 DEF CaseCond2
<1>5. ASSUME NEW t \in Targets1, NEW u \in Targets1, IsJumps(c, m, t, u)
      PROVE  CaseJumps(c, m, a, f, t, u)
  <2>1. JumpsProfile(c, m, t, u)
    BY <1>5, JumpsFacts
  <2>2. a = Analysis(t, 0, <<>>, Front(c)) /\ f = Failed(c)
    BY <2>1 DEF JumpsProfile
  <2>3. Answer(a, t, 0, <<>>, Front(c)) /\ NoAnswer(f, c)
    BY <2>2, AnalysisFields, FailedFields DEF Answer, NoAnswer
  <2> QED
    BY <1>5, <2>1, <2>3 DEF CaseJumps
<1>6. CASE IsOther(c, m)
  <2>1. OtherProfile(c, m)
    BY <1>6, OtherFacts
  <2>2. a = Failed(c) /\ f = Failed(c)
    BY <2>1 DEF OtherProfile
  <2>3. NoAnswer(a, c) /\ NoAnswer(f, c)
    BY <2>2, FailedFields DEF NoAnswer
  <2> QED
    BY <1>6, <2>1, <2>3 DEF CaseOther
<1> QED
  BY <1>1, <1>2, <1>3, <1>4, <1>5, <1>6, FormCases

\* An answer with a second destination comes from a conditional branch and a
\* jump.
LEMMA TwoTargets ==
  ASSUME NEW m \in Nat, NEW c, Form(c, m), NEW a, a = Ana(c), a.fbb # 0
  PROVE  \E op, r, t, u : CaseCond2(c, m, a, AnaF(c), op, r, t, u)
<1> DEFINE f == AnaF(c)
<1>1. f = AnaF(c)
  OBVIOUS
<1> HIDE DEF f
<1>2. ~CaseFall(c, m, a, f) /\ ~CaseOther(c, m, a, f)
  BY DEF CaseFall, CaseOther, Answer, NoAnswer
<1>3. \A t : ~CaseJump(c, m, a, f, t)
  BY DEF CaseJump, Answer
<1>4. \A op, r, t : ~CaseCond(c, m, a, f, op, r, t)
  BY DEF CaseCond, Answer
<1>5. \A t, u : ~CaseJumps(c, m, a, f, t, u)
  BY DEF CaseJumps, Answer
<1>6. \E op, r, t, u : CaseCond2(c, m, a, f, op, r, t, u)
  BY <1>1, <1>2, <1>3, <1>4, <1>5, AnaCases
<1> QED
  BY <1>1, <1>6

\* An answer without a destination comes from a block that falls through.
LEMMA NoTarget ==
  ASSUME NEW m \in Nat, NEW c, Form(c, m), NEW a, a = Ana(c) \/ a = AnaF(c), ~a.fail, a.tbb = 0
  PROVE  IsFall(c, m) /\ FallProfile(c, m) /\ Answer(a, 0, 0, <<>>, c)
<1> DEFINE f == AnaF(c)
           b == Ana(c)
<1>1. b = Ana(c) /\ f = AnaF(c) /\ a \in {b, f}
  OBVIOUS
<1> HIDE DEF f, b
<1>2. ~CaseOther(c, m, b, f)
  BY <1>1 DEF CaseOther, Answer, NoAnswer
<1>3. \A t : ~CaseJump(c, m, b, f, t)
  BY <1>1 DEF CaseJump, Answer, Targets1
<1>4. \A op, r, t : ~CaseCond(c, m, b, f, op, r, t)
  BY <1>1 DEF CaseCond, Answer, Targets1
<1>5. \A t, u : ~CaseJumps(c, m, b, f, t, u)
  BY <1>1 DEF CaseJumps, Answer, NoAnswer, Targets1
<1>6. \A op, r, t, u : ~CaseCond2(c, m, b, f, op, r, t, u)
  BY <1>1 DEF CaseCond2, Answer, Targets1
<1>7. CaseFall(c, m, b, f)
  BY <1>1, <1>2, <1>3, <1>4, <1>5, <1>6, AnaCases
<1> QED
  BY <1>1, <1>7 DEF CaseFall

\* An answer with a condition and one destination comes from a conditional
\* branch alone.
LEMMA CondOne ==
  ASSUME NEW m \in Nat, NEW c, Form(c, m), NEW a, a = Ana(c), a.cond # <<>>, a.fbb = 0
  PROVE  \E op, r, t : CaseCond(c, m, a, AnaF(c), op, r, t)
<1> DEFINE f == AnaF(c)
<1>1. f = AnaF(c)
  OBVIOUS
<1> HIDE DEF f
<1>2. ~CaseFall(c, m, a, f) /\ ~CaseOther(c, m, a, f)
  BY DEF CaseFall, CaseOther, Answer, NoAnswer
<1>3. \A t : ~CaseJump(c, m, a, f, t)
  BY DEF CaseJump, Answer
<1>5. \A t, u : ~CaseJumps(c, m, a, f, t, u)
  BY DEF CaseJumps, Answer
<1>4. \A op, r, t, u : ~CaseCond2(c, m, a, f, op, r, t, u)
  BY DEF CaseCond2, Answer, Targets1
<1>6. \E op, r, t : CaseCond(c, m, a, f, op, r, t)
  BY <1>1, <1>2, <1>3, <1>4, <1>5, AnaCases
<1> QED
  BY <1>1, <1>6
\* Instructions d do the same work as c and lead, when ft2 is the block after,
\* where c leads when ft is.
Rewrites(c, ft, d, ft2, m) ==
  /\ Like(c, d, m)
  /\ \A S : RegsIn(c, S) => RegsIn(d, S)
  /\ \A S : RegsIn(c, S) => \A nu \in [S -> Outcomes] : Leads(d, nu, ft2) = Leads(c, nu, ft)

\* A two-way branch with one destination becomes a jump or a fall through.
LEMMA RewriteJoin ==
  ASSUME NEW m \in Nat, NEW c, Form(c, m), NEW a, a = Ana(c), a.tbb # 0, a.fbb = a.tbb, NEW ft, NEW ft2
  PROVE  /\ LeadsTo(c, a.tbb) /\ ~Falls(c) /\ ~Halts(c) /\ a.code = c
         /\ Rewrites(c, ft, RemoveBranch(c), a.tbb, m) /\ EndsFalling(RemoveBranch(c))
         /\ Rewrites(c, ft, Rewritten(c, a.tbb, 0, <<>>), ft2, m)
         /\ EndsJumping(Rewritten(c, a.tbb, 0, <<>>), a.tbb)
<1> DEFINE f == AnaF(c)
<1>1. PICK op, r, t, u : CaseCond2(c, m, a, f, op, r, t, u)
  BY TwoTargets
<1> HIDE DEF f
<1>2. /\ t \in Targets1 /\ u = t /\ a.tbb = t /\ a.code = c /\ op \in CondBranches
      /\ Cond2Profile(c, m, op, r, t, u)
  BY <1>1 DEF CaseCond2, Answer
<1>3. /\ RemoveBranch(c) = SubSeq(c, 1, m) /\ ~Halts(c) /\ ~Falls(c) /\ LeadsTo(c, t)
      /\ \A nu, x : Leads(c, nu, x) = t
  BY <1>2 DEF Cond2Profile
<1> DEFINE d == SubSeq(c, 1, m)
           e == InsertBranch(d, t, 0, <<>>)
<1>4. Like(c, d, m) /\ EndsFalling(d)
  BY <1>3, ToFall
<1>5. Like(c, e, m) /\ EndsJumping(e, t)
  BY <1>2, <1>3, ToJump
<1>6. Rewritten(c, a.tbb, 0, <<>>) = e
  BY <1>2, <1>3 DEF Rewritten
<1> HIDE DEF d, e
<1>7. Rewrites(c, ft, d, t, m)
  BY <1>3, <1>4 DEF Rewrites, EndsFalling
<1>8. Rewrites(c, ft, e, ft2, m)
  BY <1>3, <1>5 DEF Rewrites, EndsJumping
<1> QED
  BY <1>2, <1>3, <1>4, <1>5, <1>6, <1>7, <1>8 DEF d

\* A branch to the block that follows is not needed.
LEMMA RewriteOnly ==
  ASSUME NEW m \in Nat, NEW c, Form(c, m), NEW a, a = Ana(c), a.tbb # 0, a.fbb = 0
  PROVE  /\ LeadsTo(c, a.tbb) /\ ~Halts(c)
         /\ Rewrites(c, a.tbb, RemoveBranch(c), a.tbb, m) /\ EndsFalling(RemoveBranch(c))
<1> DEFINE f == AnaF(c)
           d == SubSeq(c, 1, m)
<1>1. f = AnaF(c)
  OBVIOUS
<1> HIDE DEF f
<1>2. ~CaseFall(c, m, a, f) /\ ~CaseOther(c, m, a, f)
  BY DEF CaseFall, CaseOther, Answer, NoAnswer
<1>3. \A op, r, t, u : ~CaseCond2(c, m, a, f, op, r, t, u)
  BY DEF CaseCond2, Answer, Targets1
<1>4. /\ RemoveBranch(c) = d /\ ~Halts(c) /\ LeadsTo(c, a.tbb)
      /\ \A nu : Leads(c, nu, a.tbb) = a.tbb
  <2>1. ASSUME NEW t, CaseJump(c, m, a, f, t) PROVE <1>4!:
    <3>1. a.tbb = t /\ JumpProfile(c, m, t)
      BY <2>1 DEF CaseJump, Answer
    <3> QED
      BY <3>1 DEF JumpProfile
  <2>2. ASSUME NEW op, NEW r, NEW t, CaseCond(c, m, a, f, op, r, t) PROVE <1>4!:
    <3>1. a.tbb = t /\ CondProfile(c, m, op, r, t)
      BY <2>2 DEF CaseCond, Answer
    <3> QED
      BY <3>1 DEF CondProfile
  <2>3. ASSUME NEW t, NEW u, CaseJumps(c, m, a, f, t, u) PROVE <1>4!:
    <3>1. a.tbb = t /\ JumpsProfile(c, m, t, u)
      BY <2>3 DEF CaseJumps, Answer
    <3> QED
      BY <3>1 DEF JumpsProfile
  <2> QED
    BY <1>1, <1>2, <1>3, <2>1, <2>2, <2>3, AnaCases
<1>5. Like(c, d, m) /\ EndsFalling(d)
  BY <1>4, ToFall
<1> HIDE DEF d
<1>6. Rewrites(c, a.tbb, d, a.tbb, m)
  BY <1>4, <1>5 DEF Rewrites, EndsFalling
<1> QED
  BY <1>4, <1>5, <1>6

\* What DropFalseBranch makes of a two-way branch.
FalseProfile(c, m, a, ft, d) ==
  /\ LeadsTo(c, a.fbb) /\ ~Falls(c) /\ ~Halts(c)
  /\ Rewrites(c, ft, d, a.fbb, m)
  /\ \A x : LeadsTo(d, x) => LeadsTo(c, x)

\* A two-way branch whose false destination follows keeps the true one.
LEMMA RewriteFalse ==
  ASSUME NEW m \in Nat, NEW c, Form(c, m), NEW a, a = Ana(c), a.fbb # 0, NEW ft,
         NEW d, d = Rewritten(c, a.tbb, 0, a.cond)
  PROVE  FalseProfile(c, m, a, ft, d)
<1>1. PICK op, r, t, u : CaseCond2(c, m, a, AnaF(c), op, r, t, u)
  BY TwoTargets
<1>2. /\ t \in Targets1 /\ a.fbb = u /\ a.tbb = t /\ a.cond = <<op, r>> /\ op \in CondBranches
      /\ r \in 1..NumBlocks /\ Cond2Profile(c, m, op, r, t, u)
  BY <1>1 DEF CaseCond2, Answer
<1>3. /\ RemoveBranch(c) = SubSeq(c, 1, m) /\ ~Halts(c) /\ ~Falls(c) /\ LeadsTo(c, u) /\ LeadsTo(c, t)
      /\ \A nu, x : Leads(c, nu, x) = IF Taken(op, nu[r]) THEN t ELSE u
      /\ \A S : RegsIn(c, S) <=> r \in S
  BY <1>2 DEF Cond2Profile
<1>4. d = InsertBranch(SubSeq(c, 1, m), t, 0, <<op, r>>)
  BY <1>2, <1>3 DEF Rewritten
<1>5. Like(c, d, m) /\ EndsBranching(d, op, r, t)
  BY <1>2, <1>3, <1>4, ToCond
<1>7. Rewrites(c, ft, d, u, m)
  BY <1>3, <1>5 DEF Rewrites, EndsBranching
<1>8. \A x : LeadsTo(d, x) => LeadsTo(c, x)
  BY <1>3, <1>5 DEF EndsBranching
<1> QED
  BY <1>2, <1>3, <1>7, <1>8 DEF FalseProfile

\* ReverseBranchCondition changes the opcode and keeps the operands.
LEMMA ReversedIs ==
  ASSUME NEW op, NEW r, NEW cond, cond = <<op, r>>
  PROVE  ReverseBranchCondition(cond) = <<GetOppositeBranchOpcode(op), r>>
BY DEF ReverseBranchCondition

\* The inverted condition holds exactly when the condition does not.
LEMMA ReversedTaken ==
  ASSUME NEW op \in CondBranches, NEW S, NEW nu \in [S -> Outcomes], NEW r \in S, NEW x, NEW y
  PROVE  (IF Taken(GetOppositeBranchOpcode(op), nu[r]) THEN x ELSE y)
           = IF Taken(op, nu[r]) THEN y ELSE x
<1>1. nu[r] \in Outcomes
  OBVIOUS
<1>2. Taken(GetOppositeBranchOpcode(op), nu[r]) = ~Taken(op, nu[r]) /\ Taken(op, nu[r]) \in BOOLEAN
  BY <1>1, OppositeTaken
<1> QED
  BY <1>2

\* What ReversePrior makes of a two-way branch.
ReverseProfile(c, m, a, ft, d) ==
  /\ LeadsTo(c, a.tbb) /\ ~Falls(c) /\ ~Halts(c)
  /\ Rewrites(c, ft, d, a.tbb, m)
  /\ \A x : LeadsTo(d, x) => LeadsTo(c, x)

\* A two-way branch whose true destination follows is reversed.
LEMMA RewriteReverse ==
  ASSUME NEW m \in Nat, NEW c, Form(c, m), NEW a, a = Ana(c), a.fbb # 0, NEW ft,
         NEW d, d = Rewritten(c, a.fbb, 0, ReverseBranchCondition(a.cond))
  PROVE  ReverseProfile(c, m, a, ft, d)
<1>1. PICK op, r, t, u : CaseCond2(c, m, a, AnaF(c), op, r, t, u)
  BY TwoTargets
<1>2. /\ u \in Targets1 /\ a.fbb = u /\ a.tbb = t /\ a.cond = <<op, r>> /\ op \in CondBranches
      /\ r \in 1..NumBlocks /\ Cond2Profile(c, m, op, r, t, u)
  BY <1>1 DEF CaseCond2, Answer
<1>3. /\ RemoveBranch(c) = SubSeq(c, 1, m) /\ ~Halts(c) /\ ~Falls(c) /\ LeadsTo(c, u) /\ LeadsTo(c, t)
      /\ \A nu, x : Leads(c, nu, x) = IF Taken(op, nu[r]) THEN t ELSE u
      /\ \A S : RegsIn(c, S) <=> r \in S
  BY <1>2 DEF Cond2Profile
<1> DEFINE o == GetOppositeBranchOpcode(op)
<1>4. d = InsertBranch(SubSeq(c, 1, m), u, 0, <<o, r>>)
  <2>1. ReverseBranchCondition(a.cond) = <<o, r>>
    BY <1>2, ReversedIs
  <2> HIDE DEF o
  <2> QED
    BY <2>1, <1>2, <1>3 DEF Rewritten
<1>5. o \in CondBranches
  BY <1>2 DEF GetOppositeBranchOpcode, CondBranches
<1>r. \A S : \A nu \in [S -> Outcomes] : r \in S =>
        \A x, y : (IF Taken(o, nu[r]) THEN x ELSE y) = IF Taken(op, nu[r]) THEN y ELSE x
  BY <1>2, ReversedTaken
<1> HIDE DEF o
<1>6. Like(c, d, m) /\ EndsBranching(d, o, r, u)
  BY <1>2, <1>3, <1>4, <1>5, ToCond
<1>7. Rewrites(c, ft, d, t, m)
  <2>1. ASSUME NEW S, RegsIn(c, S), NEW nu \in [S -> Outcomes] PROVE Leads(d, nu, t) = Leads(c, nu, ft)
    <3>1. r \in S
      BY <2>1, <1>3
    <3>2. Leads(d, nu, t) = IF Taken(o, nu[r]) THEN u ELSE t
      BY <1>6 DEF EndsBranching
    <3>3. Leads(c, nu, ft) = IF Taken(op, nu[r]) THEN t ELSE u
      BY <1>3
    <3> QED
      BY <3>1, <3>2, <3>3, <2>1, <1>r
  <2> QED
    BY <2>1, <1>3, <1>6 DEF Rewrites, EndsBranching
<1>8. \A x : LeadsTo(d, x) => LeadsTo(c, x)
  BY <1>3, <1>6 DEF EndsBranching
<1> QED
  BY <1>2, <1>3, <1>7, <1>8 DEF ReverseProfile

\* What ReverseLoop makes of a two-way branch.
LoopProfile(c, m, a, ft, d, ft2) ==
  /\ Rewrites(c, ft, d, ft2, m) /\ ~Falls(d) /\ ~Falls(c) /\ ~Halts(c)
  /\ \A x : LeadsTo(d, x) => LeadsTo(c, x)

\* A two-way branch with its destinations swapped and its condition reversed.
LEMMA RewriteLoop ==
  ASSUME NEW m \in Nat, NEW c, Form(c, m), NEW a, a = Ana(c), a.fbb # 0, NEW ft, NEW ft2,
         NEW d, d = Rewritten(c, a.fbb, a.tbb, ReverseBranchCondition(a.cond))
  PROVE  LoopProfile(c, m, a, ft, d, ft2)
<1>1. PICK op, r, t, u : CaseCond2(c, m, a, AnaF(c), op, r, t, u)
  BY TwoTargets
<1>2. /\ u \in Targets1 /\ t \in Targets1
      /\ a.fbb = u /\ a.tbb = t /\ a.cond = <<op, r>> /\ op \in CondBranches
      /\ r \in 1..NumBlocks /\ Cond2Profile(c, m, op, r, t, u)
  BY <1>1 DEF CaseCond2, Answer
<1>3. /\ RemoveBranch(c) = SubSeq(c, 1, m) /\ ~Halts(c) /\ ~Falls(c)
      /\ \A x : LeadsTo(c, x) <=> x \in {t, u}
      /\ \A nu, x : Leads(c, nu, x) = IF Taken(op, nu[r]) THEN t ELSE u
      /\ \A S : RegsIn(c, S) <=> r \in S
  BY <1>2 DEF Cond2Profile
<1> DEFINE o == GetOppositeBranchOpcode(op)
<1>4. d = InsertBranch(SubSeq(c, 1, m), u, t, <<o, r>>)
  <2>1. ReverseBranchCondition(a.cond) = <<o, r>>
    BY <1>2, ReversedIs
  <2> HIDE DEF o
  <2> QED
    BY <2>1, <1>2, <1>3 DEF Rewritten
<1>5. o \in CondBranches
  BY <1>2 DEF GetOppositeBranchOpcode, CondBranches
<1>r. \A S : \A nu \in [S -> Outcomes] : r \in S =>
        \A x, y : (IF Taken(o, nu[r]) THEN x ELSE y) = IF Taken(op, nu[r]) THEN y ELSE x
  BY <1>2, ReversedTaken
<1> HIDE DEF o
<1>6. Like(c, d, m) /\ EndsChoosing(d, o, r, u, t)
  BY <1>2, <1>3, <1>4, <1>5, ToCond2
<1>7. Rewrites(c, ft, d, ft2, m)
  <2>1. ASSUME NEW S, RegsIn(c, S), NEW nu \in [S -> Outcomes] PROVE Leads(d, nu, ft2) = Leads(c, nu, ft)
    <3>1. r \in S
      BY <2>1, <1>3
    <3>2. Leads(d, nu, ft2) = IF Taken(o, nu[r]) THEN u ELSE t
      BY <1>6 DEF EndsChoosing
    <3>3. Leads(c, nu, ft) = IF Taken(op, nu[r]) THEN t ELSE u
      BY <1>3
    <3> QED
      BY <3>1, <3>2, <3>3, <2>1, <1>r
  <2> QED
    BY <2>1, <1>3, <1>6 DEF Rewrites, EndsChoosing
<1>8. \A x : LeadsTo(d, x) => LeadsTo(c, x)
  BY <1>3, <1>6 DEF EndsChoosing
<1>9. ~Falls(d)
  BY <1>6 DEF EndsChoosing
<1> QED
  BY <1>3, <1>7, <1>8, <1>9 DEF LoopProfile

\* What MoveOutOfTheWay makes of a conditional branch.
AsideProfile(c, m, a, b, d) ==
  /\ LeadsTo(c, a.tbb) /\ Falls(c) /\ ~Halts(c)
  /\ Rewrites(c, b, d, a.tbb, m) /\ Falls(d)
  /\ \A x : LeadsTo(d, x) <=> x = b

\* A conditional branch over the following block becomes the opposite branch
\* to it.
LEMMA RewriteAside ==
  ASSUME NEW m \in Nat, NEW c, Form(c, m), NEW a, a = Ana(c), a.cond # <<>>, a.fbb = 0,
         NEW b \in Targets1, NEW d, d = Rewritten(c, b, 0, ReverseBranchCondition(a.cond))
  PROVE  AsideProfile(c, m, a, b, d)
<1>1. PICK op, r, t : CaseCond(c, m, a, AnaF(c), op, r, t)
  BY CondOne
<1>2. /\ t \in Targets1 /\ a.tbb = t /\ a.cond = <<op, r>> /\ op \in CondBranches
      /\ r \in 1..NumBlocks /\ CondProfile(c, m, op, r, t)
  BY <1>1 DEF CaseCond, Answer
<1>3. /\ RemoveBranch(c) = SubSeq(c, 1, m) /\ ~Halts(c) /\ Falls(c) /\ LeadsTo(c, t)
      /\ \A nu, x : Leads(c, nu, x) = IF Taken(op, nu[r]) THEN t ELSE x
      /\ \A S : RegsIn(c, S) <=> r \in S
  BY <1>2 DEF CondProfile
<1> DEFINE o == GetOppositeBranchOpcode(op)
<1>4. d = InsertBranch(SubSeq(c, 1, m), b, 0, <<o, r>>)
  <2>1. ReverseBranchCondition(a.cond) = <<o, r>>
    BY <1>2, ReversedIs
  <2> HIDE DEF o
  <2> QED
    BY <2>1, <1>2, <1>3 DEF Rewritten
<1>5. o \in CondBranches
  BY <1>2 DEF GetOppositeBranchOpcode, CondBranches
<1>r. \A S : \A nu \in [S -> Outcomes] : r \in S =>
        \A x, y : (IF Taken(o, nu[r]) THEN x ELSE y) = IF Taken(op, nu[r]) THEN y ELSE x
  BY <1>2, ReversedTaken
<1> HIDE DEF o
<1>6. Like(c, d, m) /\ EndsBranching(d, o, r, b)
  BY <1>2, <1>3, <1>4, <1>5, ToCond
<1>7. Rewrites(c, b, d, t, m)
  <2>1. ASSUME NEW S, RegsIn(c, S), NEW nu \in [S -> Outcomes] PROVE Leads(d, nu, t) = Leads(c, nu, b)
    <3>1. r \in S
      BY <2>1, <1>3
    <3>2. Leads(d, nu, t) = IF Taken(o, nu[r]) THEN b ELSE t
      BY <1>6 DEF EndsBranching
    <3>3. Leads(c, nu, b) = IF Taken(op, nu[r]) THEN t ELSE b
      BY <1>3
    <3> QED
      BY <3>1, <3>2, <3>3, <2>1, <1>r
  <2> QED
    BY <2>1, <1>3, <1>6 DEF Rewrites, EndsBranching
<1>8. Falls(d) /\ \A x : LeadsTo(d, x) <=> x = b
  BY <1>6 DEF EndsBranching
<1> QED
  BY <1>2, <1>3, <1>7, <1>8 DEF AsideProfile

\* A layout: different blocks, the entry first.
Lay(l) ==
  /\ l \in Seq(Nat \ {0}) /\ Len(l) > 0 /\ l[1] = 1
  /\ \A i, j \in 1..Len(l) : l[i] = l[j] => i = j

\* The elements of a sequence.
LEMMA RangeOf ==
  ASSUME NEW T, NEW l \in Seq(T)
  PROVE  /\ Range1(l) = {l[i] : i \in 1..Len(l)} /\ Range1(l) \subseteq T
         /\ \A i \in 1..Len(l) : l[i] \in Range1(l)
BY DEF Range1

\* The position of the block at a position of the layout.
LEMMA AtPosition ==
  ASSUME NEW l, Lay(l), NEW i \in 1..Len(l)
  PROVE  PositionIn(l, l[i]) = i
<1>1. DOMAIN l = 1..Len(l)
  BY DEF Lay
<1>2. \A j \in DOMAIN l : l[j] = l[i] => j = i
  BY <1>1 DEF Lay
<1>3. i \in DOMAIN l /\ l[i] = l[i]
  BY <1>1
<1> QED
  BY <1>2, <1>3 DEF PositionIn

\* The block that follows a position of the layout.
LEMMA FollowingAt ==
  ASSUME NEW l, Lay(l), NEW i \in 1..Len(l)
  PROVE  Following(l, l[i]) = IF i = Len(l) THEN 0 ELSE l[i + 1]
BY AtPosition DEF Following

\* A block of the layout has a position; only the entry has the first.
LEMMA PositionOf ==
  ASSUME NEW l, Lay(l), NEW b \in Range1(l)
  PROVE  /\ PositionIn(l, b) \in 1..Len(l) /\ l[PositionIn(l, b)] = b
         /\ b # 1 => PositionIn(l, b) > 1
<1>1. PICK i \in 1..Len(l) : l[i] = b
  BY DEF Lay, Range1
<1>2. PositionIn(l, b) = i
  BY <1>1, AtPosition
<1>3. b # 1 => i # 1
  BY <1>1 DEF Lay
<1> QED
  BY <1>1, <1>2, <1>3

\* The block that follows is another block, never the entry, one position
\* later.
LEMMA FollowingFacts ==
  ASSUME NEW l, Lay(l), NEW b \in Range1(l)
  PROVE  /\ Following(l, b) = 0 \/ Following(l, b) \in Range1(l) \ {1, b}
         /\ Following(l, b) = 0 <=> PositionIn(l, b) = Len(l)
         /\ Following(l, b) # 0 => PositionIn(l, Following(l, b)) = PositionIn(l, b) + 1
         /\ b \in Nat /\ b # 0
<1> DEFINE i == PositionIn(l, b)
<1>1. i \in 1..Len(l) /\ l[i] = b
  BY PositionOf
<1>2. l \in Seq(Nat \ {0}) /\ l[1] = 1 /\ \A p, q \in 1..Len(l) : l[p] = l[q] => p = q
  BY DEF Lay
<1> HIDE DEF i
<1>3. Following(l, b) = IF i = Len(l) THEN 0 ELSE l[i + 1]
  BY <1>1, FollowingAt
<1>4. b \in Nat \ {0}
  BY <1>1, <1>2
<1>5. CASE i # Len(l)
  <2>1. i + 1 \in 1..Len(l) /\ 1 \in 1..Len(l) /\ i + 1 # 1 /\ i + 1 # i
    BY <1>1, <1>2, <1>5
  <2>2. l[i + 1] \in Range1(l) /\ l[i + 1] # 1 /\ l[i + 1] # b /\ l[i + 1] # 0
    BY <1>1, <1>2, <2>1, RangeOf, SMTT(30)
  <2>3. PositionIn(l, l[i + 1]) = i + 1
    BY <2>1, AtPosition
  <2> QED
    BY <1>3, <1>4, <1>5, <2>2, <2>3 DEF i
<1>6. CASE i = Len(l)
  BY <1>3, <1>4, <1>6 DEF i
<1> QED
  BY <1>5, <1>6

\* No two blocks are followed by the same block.
LEMMA OneBefore ==
  ASSUME NEW l, Lay(l), NEW b \in Range1(l), NEW e \in Range1(l),
         Following(l, b) = Following(l, e)
  PROVE  b = e
<1>1. PositionIn(l, b) = PositionIn(l, e)
  <2>1. PositionIn(l, b) \in Nat /\ PositionIn(l, e) \in Nat
    BY PositionOf
  <2> QED
    BY <2>1, FollowingFacts
<1> QED
  BY <1>1, PositionOf

\* Every block but the entry has a block before it.
LEMMA PriorFacts ==
  ASSUME NEW l, Lay(l), NEW s \in Range1(l), s # 1
  PROVE  /\ l[PositionIn(l, s) - 1] \in Range1(l) \ {s}
         /\ Following(l, l[PositionIn(l, s) - 1]) = s
<1> DEFINE i == PositionIn(l, s)
<1>1. i \in 1..Len(l) /\ l[i] = s /\ i > 1
  BY PositionOf
<1>2. Len(l) \in Nat /\ l \in Seq(Nat \ {0}) /\ \A p, q \in 1..Len(l) : l[p] = l[q] => p = q
  BY DEF Lay
<1> HIDE DEF i
<1>3. i - 1 \in 1..Len(l) /\ i - 1 # i /\ i - 1 # Len(l) /\ i - 1 + 1 = i
  BY <1>1, <1>2
<1>4. Following(l, l[i - 1]) = s
  BY <1>1, <1>3, FollowingAt
<1>5. l[i - 1] \in Range1(l) /\ l[i - 1] # s
  BY <1>1, <1>2, <1>3, RangeOf
<1> QED
  BY <1>4, <1>5 DEF i

\* A sequence without one element.
LEMMA WithoutElements ==
  ASSUME NEW T, NEW l \in Seq(T), NEW p \in 1..Len(l)
  PROVE  /\ RemoveAt(l, p) \in Seq(T) /\ Len(RemoveAt(l, p)) = Len(l) - 1
         /\ \A i \in 1..(Len(l) - 1) : RemoveAt(l, p)[i] = IF i < p THEN l[i] ELSE l[i + 1]
<1> DEFINE f == SubSeq(l, 1, p - 1)
           g == SubSeq(l, p + 1, Len(l))
<1>0. Len(l) \in Int /\ p \in Int /\ 1 <= p /\ p <= Len(l)
  OBVIOUS
<1>1. f \in Seq(T) /\ Len(f) = p - 1 /\ \A i \in 1..(p - 1) : f[i] = l[i]
  OBVIOUS
<1>2. g \in Seq(T) /\ Len(g) = Len(l) - p /\ \A i \in 1..(Len(l) - p) : g[i] = l[p + i]
  OBVIOUS
<1>3. RemoveAt(l, p) = f \o g
  BY DEF RemoveAt
<1> HIDE DEF f, g
<1>4. /\ f \o g \in Seq(T) /\ Len(f \o g) = Len(f) + Len(g)
      /\ \A i \in 1..(Len(f) + Len(g)) : (f \o g)[i] = IF i <= Len(f) THEN f[i] ELSE g[i - Len(f)]
  BY <1>1, <1>2, ConcatProperties
<1>5. ASSUME NEW i \in 1..(Len(l) - 1)
      PROVE  (f \o g)[i] = IF i < p THEN l[i] ELSE l[i + 1]
  <2>1. i \in 1..(Len(f) + Len(g)) /\ i \in Int /\ (i <= Len(f) <=> i < p)
    BY <1>0, <1>1, <1>2
  <2>2. CASE i < p
    BY <2>1, <2>2, <1>0, <1>1, <1>4
  <2>3. CASE ~(i < p)
    <3>1. i - Len(f) \in 1..(Len(l) - p) /\ p + (i - Len(f)) = i + 1
      BY <2>1, <2>3, <1>0, <1>1
    <3>2. (f \o g)[i] = g[i - Len(f)]
      BY <2>1, <2>3, <1>4
    <3> QED
      BY <3>1, <3>2, <2>3, <1>2
  <2> QED
    BY <2>2, <2>3
<1> QED
  BY <1>0, <1>1, <1>2, <1>3, <1>4, <1>5

\* A sequence with one element inserted.
LEMMA InsertElements ==
  ASSUME NEW T, NEW l \in Seq(T), NEW p \in 1..(Len(l) + 1), NEW x \in T
  PROVE  /\ InsertAt(l, p, x) \in Seq(T) /\ Len(InsertAt(l, p, x)) = Len(l) + 1
         /\ \A i \in 1..(Len(l) + 1) :
              InsertAt(l, p, x)[i] = IF i < p THEN l[i] ELSE IF i = p THEN x ELSE l[i - 1]
<1> DEFINE f == SubSeq(l, 1, p - 1)
           h == f \o <<x>>
           g == SubSeq(l, p, Len(l))
<1>0. Len(l) \in Int /\ p \in Int /\ 1 <= p /\ p <= Len(l) + 1
  OBVIOUS
<1>1. f \in Seq(T) /\ Len(f) = p - 1 /\ \A i \in 1..(p - 1) : f[i] = l[i]
  OBVIOUS
<1>2. g \in Seq(T) /\ Len(g) = Len(l) - p + 1 /\ \A i \in 1..(Len(l) - p + 1) : g[i] = l[p + i - 1]
  OBVIOUS
<1>3. InsertAt(l, p, x) = h \o g
  BY DEF InsertAt
<1> HIDE DEF f, g
<1>4. h \in Seq(T) /\ Len(h) = p /\ h[p] = x /\ \A i \in 1..(p - 1) : h[i] = l[i]
  BY <1>1, SMTT(30)
<1> HIDE DEF h
<1>5. /\ h \o g \in Seq(T) /\ Len(h \o g) = Len(h) + Len(g)
      /\ \A i \in 1..(Len(h) + Len(g)) : (h \o g)[i] = IF i <= Len(h) THEN h[i] ELSE g[i - Len(h)]
  BY <1>4, <1>2, ConcatProperties
<1>6. ASSUME NEW i \in 1..(Len(l) + 1)
      PROVE  (h \o g)[i] = IF i < p THEN l[i] ELSE IF i = p THEN x ELSE l[i - 1]
  <2>1. i \in 1..(Len(h) + Len(g)) /\ i \in Int /\ (i <= Len(h) <=> i <= p)
    BY <1>0, <1>4, <1>2
  <2>2. CASE i <= p
    <3>1. (h \o g)[i] = h[i]
      BY <2>1, <2>2, <1>5
    <3>2. i = p \/ i \in 1..(p - 1)
      BY <2>1, <2>2, <1>0
    <3> QED
      BY <3>1, <3>2, <1>4, <1>0
  <2>3. CASE ~(i <= p)
    <3>1. i - Len(h) \in 1..(Len(l) - p + 1) /\ p + (i - Len(h)) - 1 = i - 1
      BY <2>1, <2>3, <1>0, <1>4
    <3>2. (h \o g)[i] = g[i - Len(h)]
      BY <2>1, <2>3, <1>5
    <3>3. ~(i < p) /\ i # p
      BY <2>1, <2>3, <1>0
    <3> QED
      BY <3>1, <3>2, <3>3, <1>2
  <2> QED
    BY <2>2, <2>3
<1> QED
  BY <1>0, <1>2, <1>3, <1>4, <1>5, <1>6

\* Removing a block other than the entry.
LEMMA WithoutFacts ==
  ASSUME NEW l, Lay(l), NEW b \in Range1(l), b # 1
  PROVE  /\ Lay(Without(l, b)) /\ Range1(Without(l, b)) = Range1(l) \ {b}
         /\ \A x \in Range1(l) \ {b} :
              Following(Without(l, b), x) =
                IF Following(l, x) = b THEN Following(l, b) ELSE Following(l, x)
<1> DEFINE p == PositionIn(l, b)
           k == RemoveAt(l, p)
           n == Len(l)
<1>1. /\ l \in Seq(Nat \ {0}) /\ n \in Int /\ n > 0 /\ l[1] = 1 /\ Len(l) = n
      /\ \A i, j \in 1..n : l[i] = l[j] => i = j
  BY DEF Lay
<1> HIDE DEF n
<1>2. p \in Int /\ 1 < p /\ p <= n /\ p \in 1..n /\ l[p] = b
  BY <1>1, PositionOf
<1> HIDE DEF p
<1>3. /\ k \in Seq(Nat \ {0}) /\ Len(k) = n - 1
      /\ \A i \in 1..(n - 1) : k[i] = IF i < p THEN l[i] ELSE l[i + 1]
  BY <1>1, <1>2, WithoutElements
<1>4. Without(l, b) = k
  BY DEF Without, p
<1> HIDE DEF k
<1>5. \A i \in 1..(n - 1) : i < p \/ (i + 1 \in 1..n /\ i + 1 > p)
  BY <1>1, <1>2
<1>6. Lay(k)
  <2>1. Len(k) > 0 /\ k[1] = 1
    BY <1>1, <1>2, <1>3
  <2>2. ASSUME NEW i \in 1..(n - 1), NEW j \in 1..(n - 1), k[i] = k[j] PROVE i = j
    <3> DEFINE i1 == IF i < p THEN i ELSE i + 1
               j1 == IF j < p THEN j ELSE j + 1
    <3>1. i1 \in 1..n /\ j1 \in 1..n /\ k[i] = l[i1] /\ k[j] = l[j1]
      BY <1>1, <1>2, <1>3
    <3>2. i1 = j1
      BY <3>1, <2>2, <1>1
    <3> QED
      BY <3>2, <1>2
  <2> QED
    BY <2>1, <2>2, <1>1, <1>3 DEF Lay
<1>7. \A q \in 1..n : q # p => (IF q < p THEN q ELSE q - 1) \in 1..(n - 1)
                              /\ k[IF q < p THEN q ELSE q - 1] = l[q]
  <2> TAKE q \in 1..n
  <2> HAVE q # p
  <2>1. CASE q < p
    BY <2>1, <1>1, <1>2, <1>3
  <2>2. CASE q > p
    <3>1. q - 1 \in 1..(n - 1) /\ ~(q - 1 < p) /\ q - 1 + 1 = q /\ ~(q < p)
      BY <2>2, <1>1, <1>2
    <3> QED
      BY <3>1, <1>3
  <2>3. q \in Int
    OBVIOUS
  <2> QED
    BY <2>1, <2>2, <2>3, <1>2
<1>8. Range1(k) = Range1(l) \ {b}
  <2>1. ASSUME NEW x \in Range1(k) PROVE x \in Range1(l) \ {b}
    <3>1. PICK i \in 1..(n - 1) : x = k[i]
      BY <1>3, RangeOf
    <3> DEFINE j == IF i < p THEN i ELSE i + 1
    <3>2. j \in 1..n /\ x = l[j] /\ j # p
      BY <3>1, <1>1, <1>2, <1>3, <1>5
    <3> QED
      BY <3>2, <1>1, <1>2, RangeOf
  <2>2. ASSUME NEW x \in Range1(l), x # b PROVE x \in Range1(k)
    <3>1. PICK q \in 1..n : x = l[q]
      BY <1>1, RangeOf
    <3> QED
      BY <3>1, <2>2, <1>2, <1>3, <1>7, RangeOf
  <2> QED
    BY <2>1, <2>2
<1>9. ASSUME NEW x \in Range1(l) \ {b}
      PROVE  Following(k, x) = IF Following(l, x) = b THEN Following(l, b) ELSE Following(l, x)
  <2>1. PICK q \in 1..n : x = l[q]
    BY <1>1, RangeOf
  <2>2. q # p /\ q \in Int /\ 1 <= q /\ q <= n
    BY <2>1, <1>1, <1>2
  <2>3. Following(l, x) = (IF q = n THEN 0 ELSE l[q + 1]) /\ Following(l, b) = IF p = n THEN 0 ELSE l[p + 1]
    BY <2>1, <1>1, <1>2, FollowingAt
  <2>4. Following(l, x) = b <=> q + 1 = p
    <3>1. CASE q = n
      BY <3>1, <2>3, <1>1, <1>2, RangeOf
    <3>2. CASE q # n
      <4>1. q + 1 \in 1..n
        BY <3>2, <2>2, <1>1
      <4> QED
        BY <3>2, <4>1, <2>3, <1>1, <1>2
    <3> QED
      BY <3>1, <3>2
  <2>5. CASE q < p
    <3>1. q \in 1..Len(k) /\ k[q] = x
      BY <2>1, <2>2, <2>5, <1>3, <1>7
    <3>2. Following(k, x) = IF q = n - 1 THEN 0 ELSE k[q + 1]
      BY <3>1, <1>3, <1>6, FollowingAt
    <3>3. CASE q + 1 = p
      <4>1. q = n - 1 <=> p = n
        BY <3>3, <2>2, <1>1, <1>2
      <4>2. p # n => k[p] = l[p + 1]
        BY <1>1, <1>2, <1>3
      <4> QED
        BY <4>1, <4>2, <3>2, <3>3, <2>3, <2>4
    <3>4. CASE q + 1 # p
      <4>1. q # n - 1 /\ q # n /\ q + 1 \in 1..(n - 1) /\ q + 1 < p
        BY <3>4, <2>2, <2>5, <1>1, <1>2
      <4> QED
        BY <4>1, <3>2, <3>4, <2>3, <2>4, <1>3
    <3> QED
      BY <3>3, <3>4
  <2>6. CASE q > p
    <3>1. q - 1 \in 1..Len(k) /\ k[q - 1] = x /\ q + 1 # p
      <4>1. ~(q < p) /\ q - 1 \in 1..(n - 1)
        BY <2>2, <2>6, <1>1, <1>2
      <4> QED
        BY <4>1, <2>1, <2>2, <2>6, <1>2, <1>3, <1>7
    <3>2. Following(k, x) = IF q - 1 = n - 1 THEN 0 ELSE k[(q - 1) + 1]
      BY <3>1, <1>3, <1>6, FollowingAt
    <3>3. q # n => (q - 1) + 1 = q /\ k[q] = l[q + 1]
      <4> HAVE q # n
      <4>1. q \in 1..(n - 1) /\ ~(q < p)
        BY <2>2, <2>6, <1>1, <1>2
      <4> QED
        BY <4>1, <2>2, <1>3
    <3>4. q - 1 = n - 1 <=> q = n
      BY <2>2, <1>1
    <3> QED
      BY <3>1, <3>2, <3>3, <3>4, <2>3, <2>4
  <2> QED
    BY <2>2, <2>5, <2>6, <1>2
<1> QED
  BY <1>4, <1>6, <1>8, <1>9

\* A new block x at position p > 1 of a layout.
LEMMA InsertFacts ==
  ASSUME NEW l, Lay(l), NEW p \in 2..(Len(l) + 1), NEW x \in Nat \ {0}, x \notin Range1(l)
  PROVE  /\ Lay(InsertAt(l, p, x)) /\ Range1(InsertAt(l, p, x)) = Range1(l) \cup {x}
         /\ Following(InsertAt(l, p, x), x) = IF p = Len(l) + 1 THEN 0 ELSE l[p]
         /\ \A i \in 1..Len(l) :
              Following(InsertAt(l, p, x), l[i]) = IF i + 1 = p THEN x ELSE Following(l, l[i])
<1> DEFINE k == InsertAt(l, p, x)
           n == Len(l)
<1>1. /\ l \in Seq(Nat \ {0}) /\ n \in Int /\ n > 0 /\ l[1] = 1 /\ Len(l) = n
      /\ \A i, j \in 1..n : l[i] = l[j] => i = j
  BY DEF Lay
<1> HIDE DEF n
<1>2. p \in Int /\ 2 <= p /\ p <= n + 1 /\ p \in 1..(n + 1)
  BY <1>1
<1>3. /\ k \in Seq(Nat \ {0}) /\ Len(k) = n + 1
      /\ \A i \in 1..(n + 1) : k[i] = IF i < p THEN l[i] ELSE IF i = p THEN x ELSE l[i - 1]
  <2>1. p \in 1..(Len(l) + 1) /\ x \in Nat \ {0}
    BY <1>1, <1>2
  <2>2. /\ k \in Seq(Nat \ {0}) /\ Len(k) = Len(l) + 1
        /\ \A i \in 1..(Len(l) + 1) : k[i] = IF i < p THEN l[i] ELSE IF i = p THEN x ELSE l[i - 1]
    <3> DEFINE T == Nat \ {0}
    <3>1. l \in Seq(T) /\ x \in T
      BY <1>1, <2>1
    <3> HIDE DEF T, k
    <3>2. /\ InsertAt(l, p, x) \in Seq(T) /\ Len(InsertAt(l, p, x)) = Len(l) + 1
          /\ \A i \in 1..(Len(l) + 1) :
               InsertAt(l, p, x)[i] = IF i < p THEN l[i] ELSE IF i = p THEN x ELSE l[i - 1]
      BY <2>1, <3>1, InsertElements
    <3> QED
      BY <3>2 DEF T, k
  <2> HIDE DEF k
  <2> QED
    BY <1>1, <2>2
<1>x. \A i \in 1..n : l[i] # x
  BY <1>1, RangeOf
<1> HIDE DEF k
<1>6. Lay(k)
  <2>1. Len(k) > 0 /\ k[1] = 1
    BY <1>1, <1>2, <1>3
  <2>2. ASSUME NEW i \in 1..(n + 1), NEW j \in 1..(n + 1), k[i] = k[j] PROVE i = j
    <3>1. \A h \in 1..(n + 1) : (h < p /\ h \in 1..n) \/ h = p \/ (h > p /\ h - 1 \in 1..n)
      BY <1>1, <1>2
    <3>2. CASE i = p \/ j = p
      <4>1. k[p] = x /\ \A h \in 1..(n + 1) : h # p => k[h] # x
        <5>1. k[p] = x
          BY <1>2, <1>3
        <5>2. ASSUME NEW h \in 1..(n + 1), h # p PROVE k[h] # x
          <6>1. CASE h < p /\ h \in 1..n
            BY <6>1, <1>3, <1>x
          <6>2. CASE h > p /\ h - 1 \in 1..n
            <7>1. ~(h < p) /\ h # p
              BY <6>2, <1>2
            <7> QED
              BY <7>1, <6>2, <1>3, <1>x
          <6> QED
            BY <5>2, <6>1, <6>2, <3>1
        <5> QED
          BY <5>1, <5>2
      <4> QED
        BY <4>1, <3>2, <2>2
    <3>3. CASE i # p /\ j # p
      <4> DEFINE i1 == IF i < p THEN i ELSE i - 1
                 j1 == IF j < p THEN j ELSE j - 1
      <4>1. i1 \in 1..n /\ j1 \in 1..n /\ k[i] = l[i1] /\ k[j] = l[j1]
        BY <3>1, <3>3, <1>2, <1>3
      <4>2. i1 = j1
        BY <4>1, <2>2, <1>1
      <4> QED
        BY <4>2, <3>1, <3>3, <1>2
    <3> QED
      BY <3>2, <3>3
  <2> QED
    BY <2>1, <2>2, <1>1, <1>3 DEF Lay
<1>7. \A q \in 1..n : (IF q < p THEN q ELSE q + 1) \in 1..(n + 1)
                        /\ k[IF q < p THEN q ELSE q + 1] = l[q]
  <2> TAKE q \in 1..n
  <2>1. CASE q < p
    BY <2>1, <1>1, <1>2, <1>3
  <2>2. CASE ~(q < p)
    <3>1. q + 1 \in 1..(n + 1) /\ ~(q + 1 < p) /\ q + 1 # p /\ q + 1 - 1 = q
      BY <2>2, <1>1, <1>2
    <3> QED
      BY <3>1, <2>2, <1>3
  <2> QED
    BY <2>1, <2>2
<1>8. Range1(k) = Range1(l) \cup {x}
  <2>1. ASSUME NEW y \in Range1(k) PROVE y \in Range1(l) \cup {x}
    <3>1. PICK i \in 1..(n + 1) : y = k[i]
      BY <1>3, RangeOf
    <3>2. (i < p /\ i \in 1..n) \/ i = p \/ (i > p /\ i - 1 \in 1..n)
      BY <1>1, <1>2
    <3> QED
      <4>1. CASE i < p /\ i \in 1..n
        BY <4>1, <3>1, <1>1, <1>3, RangeOf
      <4>2. CASE i > p /\ i - 1 \in 1..n
        <5>1. ~(i < p) /\ i # p
          BY <4>2, <1>2
        <5> QED
          BY <5>1, <4>2, <3>1, <1>1, <1>3, RangeOf
      <4>3. CASE i = p
        BY <4>3, <3>1, <1>2, <1>3
      <4> QED
        BY <4>1, <4>2, <4>3, <3>2
  <2>2. ASSUME NEW y \in Range1(l) PROVE y \in Range1(k)
    <3>1. PICK q \in 1..n : y = l[q]
      BY <1>1, RangeOf
    <3> QED
      BY <3>1, <1>3, <1>7, RangeOf
  <2>3. x \in Range1(k)
    BY <1>2, <1>3, RangeOf
  <2> QED
    BY <2>1, <2>2, <2>3
<1>9. Following(k, x) = IF p = n + 1 THEN 0 ELSE l[p]
  <2>1. p \in 1..Len(k) /\ k[p] = x
    BY <1>2, <1>3
  <2>2. Following(k, x) = IF p = n + 1 THEN 0 ELSE k[p + 1]
    BY <2>1, <1>3, <1>6, FollowingAt
  <2>3. p # n + 1 => p + 1 \in 1..(n + 1) /\ ~(p + 1 < p) /\ p + 1 # p /\ p + 1 - 1 = p
    BY <1>1, <1>2
  <2> QED
    BY <2>2, <2>3, <1>3
<1>10. ASSUME NEW q \in 1..n
       PROVE  Following(k, l[q]) = IF q + 1 = p THEN x ELSE Following(l, l[q])
  <2>1. Following(l, l[q]) = IF q = n THEN 0 ELSE l[q + 1]
    BY <1>1, FollowingAt
  <2>2. q \in Int /\ 1 <= q /\ q <= n
    BY <1>1
  <2>3. CASE q < p
    <3>1. q \in 1..Len(k) /\ k[q] = l[q] /\ q # n + 1
      BY <2>2, <2>3, <1>1, <1>3, <1>7
    <3>2. Following(k, l[q]) = k[q + 1]
      BY <3>1, <1>3, <1>6, FollowingAt
    <3>3. q + 1 \in 1..(n + 1) /\ (q + 1 = p \/ (q + 1 < p /\ q # n))
      BY <2>2, <2>3, <1>1, <1>2
    <3> QED
      BY <3>2, <3>3, <2>1, <1>2, <1>3
  <2>4. CASE ~(q < p)
    <3>1. q + 1 \in 1..Len(k) /\ k[q + 1] = l[q] /\ q + 1 # p
      BY <2>2, <2>4, <1>1, <1>2, <1>3, <1>7
    <3>2. Following(k, l[q]) = IF q + 1 = n + 1 THEN 0 ELSE k[(q + 1) + 1]
      BY <3>1, <1>3, <1>6, FollowingAt
    <3>3. q + 1 = n + 1 <=> q = n
      BY <2>2, <1>1
    <3>4. q # n => (q + 1) + 1 \in 1..(n + 1) /\ ~((q + 1) + 1 < p) /\ (q + 1) + 1 # p /\ ((q + 1) + 1) - 1 = q + 1
      BY <2>2, <2>4, <1>1, <1>2
    <3> QED
      BY <3>1, <3>2, <3>3, <3>4, <2>1, <1>3
  <2> QED
    BY <2>3, <2>4
<1> QED
  BY <1>1, <1>6, <1>8, <1>9, <1>10 DEF k

\* A new block x after block p.
LEMMA PutAfterFacts ==
  ASSUME NEW l, Lay(l), NEW p \in Range1(l), NEW x \in Nat \ {0}, x \notin Range1(l)
  PROVE  /\ Lay(PutAfter(l, x, p)) /\ Range1(PutAfter(l, x, p)) = Range1(l) \cup {x}
         /\ Following(PutAfter(l, x, p), x) = Following(l, p)
         /\ \A y \in Range1(l) :
              Following(PutAfter(l, x, p), y) = IF y = p THEN x ELSE Following(l, y)
<1> DEFINE q == PositionIn(l, p) + 1
           k == InsertAt(l, q, x)
<1>1. l \in Seq(Nat \ {0}) /\ Len(l) \in Int
  BY DEF Lay
<1>2. q - 1 \in 1..Len(l) /\ l[q - 1] = p /\ q \in Int
  BY PositionOf
<1>0. PutAfter(l, x, p) = k
  BY DEF PutAfter
<1> HIDE DEF q
<1>3. q \in 2..(Len(l) + 1)
  BY <1>1, <1>2
<1>4. /\ Lay(k) /\ Range1(k) = Range1(l) \cup {x}
      /\ Following(k, x) = IF q = Len(l) + 1 THEN 0 ELSE l[q]
      /\ \A i \in 1..Len(l) : Following(k, l[i]) = IF i + 1 = q THEN x ELSE Following(l, l[i])
  BY <1>3, InsertFacts
<1> HIDE DEF k
<1>5. Following(k, x) = Following(l, p)
  <2>1. Following(l, p) = IF q - 1 = Len(l) THEN 0 ELSE l[q - 1 + 1]
    BY <1>2, FollowingAt
  <2> QED
    BY <2>1, <1>1, <1>2, <1>4
<1>6. ASSUME NEW y \in Range1(l) PROVE Following(k, y) = IF y = p THEN x ELSE Following(l, y)
  <2>1. PICK i \in 1..Len(l) : y = l[i]
    BY <1>1, RangeOf
  <2>2. i + 1 = q <=> y = p
    <3>1. y = p => i = q - 1
      BY <2>1, <1>2 DEF Lay
    <3>2. i + 1 = q => i = q - 1
      BY <1>2
    <3> QED
      BY <3>1, <3>2, <2>1, <1>2
  <2> QED
    BY <2>1, <2>2, <1>4
<1> QED
  BY <1>0, <1>4, <1>5, <1>6

\* A new block x before block s.
LEMMA PutBeforeFacts ==
  ASSUME NEW l, Lay(l), NEW s \in Range1(l), s # 1, NEW x \in Nat \ {0}, x \notin Range1(l)
  PROVE  /\ Lay(PutBefore(l, x, s)) /\ Range1(PutBefore(l, x, s)) = Range1(l) \cup {x}
         /\ Following(PutBefore(l, x, s), x) = s
         /\ \A y \in Range1(l) :
              Following(PutBefore(l, x, s), y) = IF Following(l, y) = s THEN x ELSE Following(l, y)
<1> DEFINE q == PositionIn(l, s)
           k == InsertAt(l, q, x)
<1>1. l \in Seq(Nat \ {0}) /\ Len(l) \in Int
  BY DEF Lay
<1>2. q \in 1..Len(l) /\ l[q] = s /\ q > 1
  BY PositionOf
<1>0. PutBefore(l, x, s) = k
  BY DEF PutBefore
<1> HIDE DEF q
<1>3. q \in 2..(Len(l) + 1) /\ q # Len(l) + 1
  BY <1>1, <1>2
<1>4. /\ Lay(k) /\ Range1(k) = Range1(l) \cup {x}
      /\ Following(k, x) = IF q = Len(l) + 1 THEN 0 ELSE l[q]
      /\ \A i \in 1..Len(l) : Following(k, l[i]) = IF i + 1 = q THEN x ELSE Following(l, l[i])
  BY <1>3, InsertFacts
<1> HIDE DEF k
<1>6. ASSUME NEW y \in Range1(l) PROVE Following(k, y) = IF Following(l, y) = s THEN x ELSE Following(l, y)
  <2>1. PICK i \in 1..Len(l) : y = l[i]
    BY <1>1, RangeOf
  <2>2. i + 1 = q <=> Following(l, y) = s
    <3>1. Following(l, y) = IF i = Len(l) THEN 0 ELSE l[i + 1]
      BY <2>1, FollowingAt
    <3>2. s # 0
      BY <1>1, <1>2
    <3>3. i # Len(l) => i + 1 \in 1..Len(l)
      BY <1>1
    <3>4. i + 1 = q => i # Len(l) /\ l[i + 1] = s
      BY <1>1, <1>2
    <3> QED
      BY <3>1, <3>2, <3>3, <3>4, <1>2 DEF Lay
  <2> QED
    BY <2>1, <2>2, <1>4
<1> QED
  BY <1>0, <1>2, <1>3, <1>4, <1>6

\* A new block x at the end.
LEMMA AppendFacts ==
  ASSUME NEW l, Lay(l), NEW x \in Nat \ {0}, x \notin Range1(l)
  PROVE  /\ Lay(Append(l, x)) /\ Range1(Append(l, x)) = Range1(l) \cup {x}
         /\ Following(Append(l, x), x) = 0
         /\ \A y \in Range1(l) :
              Following(Append(l, x), y) = IF Following(l, y) = 0 THEN x ELSE Following(l, y)
<1> DEFINE n == Len(l)
           q == n + 1
           k == InsertAt(l, q, x)
<1>1. l \in Seq(Nat \ {0}) /\ n \in Int /\ n > 0 /\ Len(l) = n
  BY DEF Lay
<1> HIDE DEF n
<1>3. q \in 2..(Len(l) + 1) /\ q \in 1..(Len(l) + 1)
  BY <1>1
<1>4. /\ Lay(k) /\ Range1(k) = Range1(l) \cup {x}
      /\ Following(k, x) = IF q = Len(l) + 1 THEN 0 ELSE l[q]
      /\ \A i \in 1..Len(l) : Following(k, l[i]) = IF i + 1 = q THEN x ELSE Following(l, l[i])
  <2> HIDE DEF q
  <2> QED
    BY <1>3, InsertFacts
<1>5. Append(l, x) = k
  <2> DEFINE T == Nat \ {0}
             h == Append(l, x)
  <2>1. h \in Seq(T) /\ Len(h) = n + 1 /\ h[n + 1] = x /\ \A i \in 1..n : h[i] = l[i]
    BY <1>1
  <2>2. l \in Seq(T) /\ x \in T
    BY <1>1
  <2> HIDE DEF T, h
  <2>3. /\ k \in Seq(T) /\ Len(k) = Len(l) + 1
        /\ \A i \in 1..(Len(l) + 1) : k[i] = IF i < q THEN l[i] ELSE IF i = q THEN x ELSE l[i - 1]
    <3> HIDE DEF q
    <3> QED
      BY <1>3, <2>2, InsertElements
  <2> HIDE DEF k
  <2>4. \A i \in 1..(n + 1) : h[i] = k[i]
    <3> TAKE i \in 1..(n + 1)
    <3>1. CASE i = n + 1
      BY <3>1, <2>1, <2>3, <1>1
    <3>2. CASE i \in 1..n
      BY <3>2, <2>1, <2>3, <1>1
    <3> QED
      BY <3>1, <3>2, <1>1
  <2>5. Len(h) = Len(k) /\ Len(h) = n + 1
    BY <2>1, <2>3, <1>1
  <2>6. h = k
    BY <2>1, <2>3, <2>4, <2>5
  <2> QED
    BY <2>6 DEF h
<1> HIDE DEF k
<1>6. ASSUME NEW y \in Range1(l) PROVE Following(k, y) = IF Following(l, y) = 0 THEN x ELSE Following(l, y)
  <2>1. PICK i \in 1..Len(l) : y = l[i]
    BY <1>1, RangeOf
  <2>2. i + 1 = q <=> Following(l, y) = 0
    <3>1. Following(l, y) = IF i = Len(l) THEN 0 ELSE l[i + 1]
      BY <2>1, FollowingAt
    <3>3. i # Len(l) => l[i + 1] # 0
      BY <1>1
    <3> QED
      BY <3>1, <3>3, <1>1
  <2> QED
    BY <2>1, <2>2, <1>4
<1> QED
  BY <1>1, <1>4, <1>5, <1>6

(***************************************************************************)
(* Control that passes through a set P of blocks without work, from each   *)
(* block b to N[b]; a block e with work does F[e] first.                   *)
(***************************************************************************)
TrailsOf(P, N, d) == {S \in SUBSET P : d \in S /\ \A b \in S : N[b] \in P => N[b] \in S}
EndsOf(P, N, F, S) == {F[e] : e \in {N[b] : b \in S} \ P}

\* What control does first when it comes to d: one thing, or nothing.
FirstOf(P, N, F, d) ==
  IF d \in P THEN {x \in EndsOf(P, N, F, P) : \A S \in TrailsOf(P, N, d) : x \in EndsOf(P, N, F, S)}
             ELSE {F[d]}

\* What a set of empty blocks leads out to.
LEMMA EndOf ==
  ASSUME NEW P, NEW N, NEW F, NEW S, NEW x
  PROVE  x \in EndsOf(P, N, F, S) <=> \E b \in S : N[b] \notin P /\ x = F[N[b]]
BY DEF EndsOf

\* The first work that is reached, as what every trail from a block leads out
\* to.
LEMMA FirstIs ==
  ASSUME NEW P, NEW N, NEW F, NEW d \in P, NEW x
  PROVE  x \in FirstOf(P, N, F, d) <=>
           x \in EndsOf(P, N, F, P) /\ \A S \in TrailsOf(P, N, d) : x \in EndsOf(P, N, F, S)
BY DEF FirstOf

\* It is what control does first when it comes to the next block.
LEMMA FirstNext ==
  ASSUME NEW P, NEW N, NEW F, NEW d \in P
  PROVE  FirstOf(P, N, F, d) = FirstOf(P, N, F, N[d])
<1>1. CASE N[d] \notin P
  <2>1. FirstOf(P, N, F, N[d]) = {F[N[d]]}
    BY <1>1 DEF FirstOf
  <2>2. {d} \in TrailsOf(P, N, d)
    BY <1>1 DEF TrailsOf
  <2>3. \A x : x \in EndsOf(P, N, F, {d}) <=> x = F[N[d]]
    BY <1>1, EndOf
  <2>4. \A S \in TrailsOf(P, N, d) : F[N[d]] \in EndsOf(P, N, F, S)
    BY <1>1, EndOf DEF TrailsOf
  <2>5. F[N[d]] \in EndsOf(P, N, F, P)
    BY <1>1, EndOf
  <2>6. \A x : x \in FirstOf(P, N, F, d) <=> x = F[N[d]]
    BY <2>2, <2>3, <2>4, <2>5, FirstIs
  <2> QED
    BY <2>1, <2>6
<1>2. CASE N[d] \in P
  <2>1. ASSUME NEW S \in TrailsOf(P, N, d) PROVE S \in TrailsOf(P, N, N[d])
    BY <1>2 DEF TrailsOf
  <2>2. ASSUME NEW S \in TrailsOf(P, N, N[d])
        PROVE  /\ S \cup {d} \in TrailsOf(P, N, d)
               /\ \A x : x \in EndsOf(P, N, F, S \cup {d}) <=> x \in EndsOf(P, N, F, S)
    <3>1. S \cup {d} \in TrailsOf(P, N, d)
      BY <1>2 DEF TrailsOf
    <3>2. \A x : x \in EndsOf(P, N, F, S \cup {d}) <=> x \in EndsOf(P, N, F, S)
      BY <1>2, EndOf
    <3> QED
      BY <3>1, <3>2
  <2>3. \A x : x \in FirstOf(P, N, F, d) <=> x \in FirstOf(P, N, F, N[d])
    BY <1>2, <2>1, <2>2, FirstIs
  <2> QED
    BY <2>3
<1> QED
  BY <1>1, <1>2

\* Nothing else is done first: whatever the blocks agree on with the next ones
\* contains it.
LEMMA FirstLeast ==
  ASSUME NEW P, NEW N, NEW F, NEW G,
         \A b \in P : G[b] = IF N[b] \in P THEN G[N[b]] ELSE {F[N[b]]},
         NEW d \in P
  PROVE  FirstOf(P, N, F, d) \subseteq G[d]
<1> DEFINE S == {b \in P : G[b] = G[d]}
<1>1. S \in TrailsOf(P, N, d)
  BY DEF TrailsOf
<1>2. ASSUME NEW x, x \in EndsOf(P, N, F, S) PROVE x \in G[d]
  <2>1. PICK b \in S : N[b] \notin P /\ x = F[N[b]]
    BY <1>2, EndOf
  <2> QED
    BY <2>1
<1> HIDE DEF S
<1>3. ASSUME NEW x \in FirstOf(P, N, F, d) PROVE x \in G[d]
  BY <1>1, <1>2, FirstIs
<1> QED
  BY <1>3

\* Another graph that does the same first for each block and the next one does
\* no less.
LEMMA FirstBelow ==
  ASSUME NEW P, NEW N, NEW F, NEW P2, NEW N2, NEW F2,
         \A b \in P : N[b] \in P => FirstOf(P2, N2, F2, b) = FirstOf(P2, N2, F2, N[b]),
         \A b \in P : N[b] \notin P => FirstOf(P2, N2, F2, b) = {F[N[b]]}
  PROVE  \A d \in P : FirstOf(P, N, F, d) \subseteq FirstOf(P2, N2, F2, d)
<1> DEFINE G == [b \in P |-> FirstOf(P2, N2, F2, b)]
<1>1. \A b \in P : G[b] = FirstOf(P2, N2, F2, b)
  OBVIOUS
<1> HIDE DEF G
<1>2. \A b \in P : G[b] = IF N[b] \in P THEN G[N[b]] ELSE {F[N[b]]}
  BY <1>1
<1>3. ASSUME NEW d \in P PROVE FirstOf(P, N, F, d) \subseteq G[d]
  BY <1>2, FirstLeast
<1> QED
  BY <1>1, <1>3

\* The same blocks without work, which lead to the same blocks.
LEMMA FirstSame ==
  ASSUME NEW P, NEW N, NEW F, NEW N2, NEW F2,
         \A b \in P : N2[b] = N[b] /\ (N[b] \notin P => F2[N[b]] = F[N[b]]),
         NEW d, d \notin P => F2[d] = F[d]
  PROVE  FirstOf(P, N2, F2, d) = FirstOf(P, N, F, d)
<1>1. CASE d \notin P
  BY <1>1 DEF FirstOf
<1>2. CASE d \in P
  <2>1. \A b \in P : /\ FirstOf(P, N2, F2, b) = FirstOf(P, N2, F2, N[b])
                     /\ FirstOf(P, N, F, b) = FirstOf(P, N, F, N2[b])
    BY FirstNext
  <2>2. \A b \in P : N[b] \notin P => /\ FirstOf(P, N2, F2, b) = {F[N[b]]}
                                      /\ FirstOf(P, N, F, b) = {F2[N2[b]]}
    BY <2>1 DEF FirstOf
  <2>3. FirstOf(P, N2, F2, d) \subseteq FirstOf(P, N, F, d)
    BY <1>2, <2>1, <2>2, FirstBelow
  <2>4. FirstOf(P, N, F, d) \subseteq FirstOf(P, N2, F2, d)
    BY <1>2, <2>1, <2>2, FirstBelow
  <2> QED
    BY <2>3, <2>4
<1> QED
  BY <1>1, <1>2

\* Block m has no work and leads to t: the blocks that lead to m may lead to t
\* instead, and m may go.
Bypasses(P, N, F, P2, N2, F2, m, t) ==
  /\ m \in P
  /\ t = N[m]
  /\ t # m
  /\ P2 \subseteq P
  /\ P \ {m} \subseteq P2
  /\ \A b \in P2 \ {m} : N2[b] = N[b] \/ (N[b] = m /\ N2[b] = t)
  /\ \A b \in P2 \ {m} : N2[b] = m => m \in P2 /\ N2[m] = t
  /\ m \in P2 => N2[m] # m
  /\ \A b \in P : N[b] \notin P => F2[N[b]] = F[N[b]]

\* An empty block that is bypassed does not change the work that is reached.
LEMMA FirstBypass ==
  ASSUME NEW P, NEW N, NEW F, NEW P2, NEW N2, NEW F2, NEW m, NEW t,
         Bypasses(P, N, F, P2, N2, F2, m, t),
         NEW d, d # m, d \notin P => F2[d] = F[d]
  PROVE  FirstOf(P2, N2, F2, d) = FirstOf(P, N, F, d)
<1>0. /\ m \in P
      /\ t = N[m]
      /\ t # m
      /\ P2 \subseteq P
      /\ P \ {m} \subseteq P2
      /\ \A b \in P2 \ {m} : N2[b] = N[b] \/ (N[b] = m /\ N2[b] = t)
      /\ \A b \in P2 \ {m} : N2[b] = m => m \in P2 /\ N2[m] = t
      /\ m \in P2 => N2[m] # m
      /\ \A b \in P : N[b] \notin P => F2[N[b]] = F[N[b]]
  BY DEF Bypasses
<1> USE <1>0
<1> DEFINE C(e) == FirstOf(P, N, F, e)
           C2(e) == FirstOf(P2, N2, F2, e)
           H == [b \in P |-> IF b = m THEN C2(t) ELSE C2(b)]
           H2 == [b \in P2 |-> IF b = m THEN (IF N2[m] \in P THEN C(N2[m]) ELSE {F2[N2[m]]}) ELSE C(b)]
<1>1. \A e \in P : C(e) = C(N[e])
  BY FirstNext
<1>2. \A e \in P2 : C2(e) = C2(N2[e])
  BY FirstNext
<1>3. \A e : (e \notin P => C(e) = {F[e]}) /\ (e \notin P2 => C2(e) = {F2[e]})
  BY DEF FirstOf
<1>4. \A b \in P : H[b] = IF b = m THEN C2(t) ELSE C2(b)
  OBVIOUS
<1>5. \A b \in P2 : H2[b] = IF b = m THEN (IF N2[m] \in P THEN C(N2[m]) ELSE {F2[N2[m]]}) ELSE C(b)
  OBVIOUS
<1>l. ASSUME NEW G, \A b \in P : G[b] = IF N[b] \in P THEN G[N[b]] ELSE {F[N[b]]}
      PROVE  \A b \in P : C(b) \subseteq G[b]
  BY <1>l, FirstLeast
<1>m. ASSUME NEW G, \A b \in P2 : G[b] = IF N2[b] \in P2 THEN G[N2[b]] ELSE {F2[N2[b]]}
      PROVE  \A b \in P2 : C2(b) \subseteq G[b]
  BY <1>m, FirstLeast
<1> HIDE DEF C, C2, H, H2
<1>6. ASSUME NEW b \in P PROVE H[b] = IF N[b] \in P THEN H[N[b]] ELSE {F[N[b]]}
  <2>1. ASSUME NEW e, e \notin P, F2[e] = F[e] PROVE C2(e) = {F[e]}
    BY <2>1, <1>3
  <2>2. CASE b = m
    BY <2>1, <2>2, <1>4
  <2>3. CASE b # m /\ N[b] # m
    <3>1. b \in P2 /\ N2[b] = N[b]
      BY <2>3
    <3>2. C2(b) = C2(N[b])
      BY <3>1, <1>2
    <3> QED
      BY <3>2, <2>1, <2>3, <1>4
  <2>4. CASE b # m /\ N[b] = m
    <3>1. b \in P2 /\ (N2[b] = t \/ (N2[b] = m /\ m \in P2 /\ N2[m] = t))
      BY <2>4
    <3>2. C2(b) = C2(t)
      BY <3>1, <1>2
    <3> QED
      BY <3>2, <2>4, <1>4
  <2> QED
    BY <2>2, <2>3, <2>4
<1>7. ASSUME NEW b \in P2 PROVE H2[b] = IF N2[b] \in P2 THEN H2[N2[b]] ELSE {F2[N2[b]]}
  <2>0. \A e : e # m => (e \in P2 <=> e \in P)
    OBVIOUS
  <2>1. CASE b = m
    <3>1. N2[m] # m
      BY <2>1
    <3> QED
      BY <3>1, <2>0, <2>1, <1>5
  <2>2. CASE b # m /\ N2[b] = N[b] /\ N[b] # m
    <3>1. C(b) = C(N[b]) /\ b \in P /\ H2[b] = C(b)
      BY <2>2, <1>1, <1>5
    <3>2. CASE N[b] \in P2
      BY <3>1, <3>2, <2>2, <1>5
    <3>3. CASE N[b] \notin P2
      <4>1. N[b] \notin P
        BY <3>3, <2>0, <2>2
      <4>2. C(N[b]) = {F2[N[b]]}
        BY <4>1, <3>1, <1>3
      <4> QED
        BY <4>2, <3>1, <3>3, <2>2
    <3> QED
      BY <3>2, <3>3
  <2>3. CASE b # m /\ N[b] = m /\ N2[b] = m
    <3>1. C(b) = C(t) /\ m \in P2 /\ N2[m] = t
      BY <2>3, <1>1
    <3> QED
      BY <3>1, <2>0, <2>3, <1>3, <1>5
  <2>4. CASE b # m /\ N[b] = m /\ N2[b] = t
    <3>1. C(b) = C(t) /\ H2[b] = C(b)
      BY <2>4, <1>1, <1>5
    <3>2. CASE t \in P2
      BY <3>1, <3>2, <2>4, <1>5
    <3>3. CASE t \notin P2
      <4>1. t \notin P
        BY <3>3, <2>0
      <4>2. C(t) = {F2[t]}
        BY <4>1, <1>3
      <4> QED
        BY <4>2, <3>1, <3>3, <2>4
    <3> QED
      BY <3>2, <3>3
  <2> QED
    BY <2>1, <2>2, <2>3, <2>4
<1>8. CASE d \in P
  <2>1. \A b \in P : C(b) \subseteq H[b]
    <3>1. \A b \in P : H[b] = IF N[b] \in P THEN H[N[b]] ELSE {F[N[b]]}
      BY <1>6
    <3> QED
      BY <3>1, <1>l
  <2>2. \A b \in P2 : C2(b) \subseteq H2[b]
    <3>1. \A b \in P2 : H2[b] = IF N2[b] \in P2 THEN H2[N2[b]] ELSE {F2[N2[b]]}
      BY <1>7
    <3> QED
      BY <3>1, <1>m
  <2>3. d \in P2 /\ H[d] = C2(d) /\ H2[d] = C(d)
    BY <1>8, <1>4, <1>5
  <2>4. C(d) \subseteq C2(d) /\ C2(d) \subseteq C(d)
    BY <1>8, <2>1, <2>2, <2>3
  <2> QED
    BY <2>4 DEF C, C2
<1>9. CASE d \notin P
  BY <1>9, <1>3 DEF C, C2
<1> QED
  BY <1>8, <1>9

\* Block m has work and is only led to from p, if at all: p may do its work.
Absorbs(P, N, F, P2, N2, F2, m, p) ==
  /\ m \notin P
  /\ p # m
  /\ P2 = (P \ {p}) \cup {m}
  /\ \A b \in P \ {p} : N2[b] = N[b] /\ N[b] # m
  /\ p \in P => N[p] = m
  /\ N2[m] # m
  /\ F2[p] = IF p \in P THEN F[m] ELSE F[p]
  /\ \A b \in P : N[b] \notin P \cup {p, m} => F2[N[b]] = F[N[b]]

\* A block whose work moves into its only predecessor does not change the work
\* that is reached.
LEMMA FirstAbsorb ==
  ASSUME NEW P, NEW N, NEW F, NEW P2, NEW N2, NEW F2, NEW m, NEW p,
         Absorbs(P, N, F, P2, N2, F2, m, p),
         NEW d, d # m, d \notin P \cup {p} => F2[d] = F[d]
  PROVE  FirstOf(P2, N2, F2, d) = FirstOf(P, N, F, d)
<1>0. /\ m \notin P
      /\ p # m
      /\ P2 = (P \ {p}) \cup {m}
      /\ \A b \in P \ {p} : N2[b] = N[b] /\ N[b] # m
      /\ p \in P => N[p] = m
      /\ N2[m] # m
      /\ F2[p] = IF p \in P THEN F[m] ELSE F[p]
      /\ \A b \in P : N[b] \notin P \cup {p, m} => F2[N[b]] = F[N[b]]
  BY DEF Absorbs
<1> USE <1>0
<1> DEFINE C(e) == FirstOf(P, N, F, e)
           C2(e) == FirstOf(P2, N2, F2, e)
           H == [b \in P |-> C2(b)]
           H2 == [b \in P2 |-> IF b = m THEN (IF N2[m] \in P THEN C(N2[m]) ELSE {F2[N2[m]]}) ELSE C(b)]
<1>1. \A e \in P : C(e) = C(N[e])
  BY FirstNext
<1>2. \A e \in P2 : C2(e) = C2(N2[e])
  BY FirstNext
<1>3. \A e : (e \notin P => C(e) = {F[e]}) /\ (e \notin P2 => C2(e) = {F2[e]})
  BY DEF FirstOf
<1>5. \A b \in P2 : H2[b] = IF b = m THEN (IF N2[m] \in P THEN C(N2[m]) ELSE {F2[N2[m]]}) ELSE C(b)
  OBVIOUS
<1>4. \A b \in P : H[b] = C2(b)
  OBVIOUS
<1>l. ASSUME NEW G, \A b \in P : G[b] = IF N[b] \in P THEN G[N[b]] ELSE {F[N[b]]}
      PROVE  \A b \in P : C(b) \subseteq G[b]
  BY <1>l, FirstLeast
<1>m. ASSUME NEW G, \A b \in P2 : G[b] = IF N2[b] \in P2 THEN G[N2[b]] ELSE {F2[N2[b]]}
      PROVE  \A b \in P2 : C2(b) \subseteq G[b]
  BY <1>m, FirstLeast, ZenonT(60)
<1> HIDE DEF C, C2, H, H2
<1>p. C2(p) = {F2[p]} /\ (p \in P => C(p) = {F[m]}) /\ (p \notin P => C(p) = {F[p]})
  BY <1>1, <1>3
<1>8. CASE d \in P
  <2>1. C(d) \subseteq C2(d)
    <3>1. ASSUME NEW b \in P
          PROVE  /\ N[b] \in P => C2(b) = C2(N[b])
                 /\ N[b] \notin P => C2(b) = {F[N[b]]}
      <4>1. CASE b = p
        BY <4>1, <3>1, <1>p
      <4>2. CASE b # p
        <5>1. b \in P2 /\ N2[b] = N[b] /\ N[b] # m
          BY <4>2
        <5>2. C2(b) = C2(N[b])
          BY <5>1, <1>2
        <5>3. ASSUME N[b] \notin P PROVE C2(N[b]) = {F[N[b]]}
          <6>1. N[b] \notin P2 /\ F2[N[b]] = F[N[b]]
            BY <5>1, <5>3
          <6> QED
            BY <6>1, <1>3
        <5> QED
          BY <5>2, <5>3
      <4> QED
        BY <4>1, <4>2
    <3>2. \A b \in P : H[b] = IF N[b] \in P THEN H[N[b]] ELSE {F[N[b]]}
      BY <3>1, <1>4
    <3>3. \A b \in P : C(b) \subseteq H[b]
      BY <3>2, <1>l
    <3> QED
      BY <3>3, <1>4, <1>8
  <2>2. CASE d # p
    <3>1. ASSUME NEW b \in P2 PROVE H2[b] = IF N2[b] \in P2 THEN H2[N2[b]] ELSE {F2[N2[b]]}
      <4>1. CASE b = m
        <5>1. CASE N2[m] \in P2
          BY <4>1, <5>1, <1>5
        <5>2. CASE N2[m] = p
          BY <4>1, <5>2, <1>5, <1>p
        <5>3. CASE N2[m] \notin P2 /\ N2[m] # p
          BY <4>1, <5>3, <1>5
        <5> QED
          BY <5>1, <5>2, <5>3
      <4>2. CASE b # m
        <5>1. b \in P \ {p} /\ N2[b] = N[b] /\ N[b] # m /\ C(b) = C(N[b])
          BY <4>2, <1>1
        <5>0. H2[b] = C(b)
          BY <4>2, <1>5
        <5>2. CASE N[b] = p
          <6>1. C(p) = {F2[p]} /\ p \notin P2
            BY <1>p
          <6> QED
            BY <6>1, <5>0, <5>1, <5>2
        <5>3. CASE N[b] # p /\ N[b] \in P2
          BY <5>0, <5>1, <5>3, <1>5
        <5>4. CASE N[b] # p /\ N[b] \notin P2
          <6>1. N[b] \notin P \cup {p, m}
            BY <5>1, <5>4
          <6>2. C(N[b]) = {F2[N[b]]}
            BY <6>1, <5>1, <1>3
          <6> QED
            BY <6>2, <5>0, <5>1, <5>4
        <5> QED
          BY <5>2, <5>3, <5>4
      <4> QED
        BY <4>1, <4>2
    <3>3. \A b \in P2 : C2(b) \subseteq H2[b]
      <4>1. \A b \in P2 : H2[b] = IF N2[b] \in P2 THEN H2[N2[b]] ELSE {F2[N2[b]]}
        BY <3>1
      <4> QED
        BY <4>1, <1>m
    <3>2. C2(d) \subseteq C(d)
      BY <3>3, <2>2, <1>8, <1>5
    <3> QED
      BY <3>2, <2>1 DEF C, C2
  <2>3. CASE d = p
    BY <2>3, <1>8, <1>p DEF C, C2
  <2> QED
    BY <2>2, <2>3
<1>9. CASE d \notin P
  <2>1. CASE d = p
    BY <2>1, <1>9, <1>p DEF C, C2
  <2>2. CASE d # p
    <3>1. d \notin P2 /\ d \notin P \cup {p}
      BY <2>2, <1>9
    <3>2. C(d) = {F[d]} /\ C2(d) = {F2[d]} /\ F2[d] = F[d]
      BY <3>1, <1>3
    <3> QED
      BY <3>2 DEF C, C2
  <2> QED
    BY <2>1, <2>2
<1> QED
  BY <1>8, <1>9

\* Block n without work is inserted on the way to t.
Detours(P, N, F, P2, N2, F2, n, t) ==
  /\ n \notin P
  /\ P2 = P \cup {n}
  /\ t # n
  /\ N2[n] = t
  /\ \A b \in P : N[b] # n
  /\ \A b \in P : N2[b] = N[b] \/ (N2[b] = n /\ (N[b] = t \/ (N[b] \in P /\ N[N[b]] = t /\ N2[N[b]] = t)))
  /\ \A b \in P : N[b] \notin P => F2[N[b]] = F[N[b]]
  /\ t \notin P => F2[t] = F[t]

\* A new empty block on an edge does not change the work that is reached.
LEMMA FirstDetour ==
  ASSUME NEW P, NEW N, NEW F, NEW P2, NEW N2, NEW F2, NEW n, NEW t,
         Detours(P, N, F, P2, N2, F2, n, t),
         NEW d, d # n, d \notin P => F2[d] = F[d]
  PROVE  FirstOf(P2, N2, F2, d) = FirstOf(P, N, F, d)
<1>0. /\ n \notin P
      /\ P2 = P \cup {n}
      /\ t # n
      /\ N2[n] = t
      /\ \A b \in P : N[b] # n
      /\ \A b \in P : N2[b] = N[b] \/ (N2[b] = n /\ (N[b] = t \/ (N[b] \in P /\ N[N[b]] = t /\ N2[N[b]] = t)))
      /\ \A b \in P : N[b] \notin P => F2[N[b]] = F[N[b]]
      /\ t \notin P => F2[t] = F[t]
  BY DEF Detours
<1> USE <1>0
<1> DEFINE C(e) == FirstOf(P, N, F, e)
           C2(e) == FirstOf(P2, N2, F2, e)
           H == [b \in P |-> C2(b)]
           H2 == [b \in P2 |-> IF b = n THEN C(t) ELSE C(b)]
<1>1. \A e \in P : C(e) = C(N[e])
  BY FirstNext
<1>2. \A e \in P2 : C2(e) = C2(N2[e])
  BY FirstNext
<1>3. \A e : (e \notin P => C(e) = {F[e]}) /\ (e \notin P2 => C2(e) = {F2[e]})
  BY DEF FirstOf
<1>4. \A b \in P : H[b] = C2(b)
  OBVIOUS
<1>5. \A b \in P2 : H2[b] = IF b = n THEN C(t) ELSE C(b)
  OBVIOUS
<1>l. ASSUME NEW G, \A b \in P : G[b] = IF N[b] \in P THEN G[N[b]] ELSE {F[N[b]]}
      PROVE  \A b \in P : C(b) \subseteq G[b]
  BY <1>l, FirstLeast
<1>m. ASSUME NEW G, \A b \in P2 : G[b] = IF N2[b] \in P2 THEN G[N2[b]] ELSE {F2[N2[b]]}
      PROVE  \A b \in P2 : C2(b) \subseteq G[b]
  BY <1>m, FirstLeast
<1> HIDE DEF C, C2, H, H2
<1>6. ASSUME NEW b \in P PROVE H[b] = IF N[b] \in P THEN H[N[b]] ELSE {F[N[b]]}
  <2>1. C2(b) = C2(N2[b]) /\ C2(n) = C2(t) /\ b \in P2
    BY <1>2
  <2>2. C2(b) = C2(N[b])
    <3>1. CASE N2[b] = N[b]
      BY <3>1, <2>1
    <3>2. CASE N2[b] = n /\ N[b] = t
      BY <3>2, <2>1
    <3>3. CASE N2[b] = n /\ N[b] \in P /\ N2[N[b]] = t
      <4>1. C2(N[b]) = C2(t)
        BY <3>3, <1>2
      <4> QED
        BY <4>1, <3>3, <2>1
    <3> QED
      BY <3>1, <3>2, <3>3
  <2>3. CASE N[b] \in P
    BY <2>2, <2>3, <1>4
  <2>4. CASE N[b] \notin P
    <3>1. N[b] \notin P2 /\ F2[N[b]] = F[N[b]]
      BY <2>4
    <3>2. C2(N[b]) = {F[N[b]]}
      BY <3>1, <1>3
    <3> QED
      BY <3>2, <2>2, <2>4, <1>4
  <2> QED
    BY <2>3, <2>4
<1>7. ASSUME NEW b \in P2 PROVE H2[b] = IF N2[b] \in P2 THEN H2[N2[b]] ELSE {F2[N2[b]]}
  <2>0. ASSUME NEW e, e # n, e \notin P => F2[e] = F[e]
        PROVE  C(e) = IF e \in P2 THEN H2[e] ELSE {F2[e]}
    <3>1. CASE e \in P
      BY <3>1, <2>0, <1>5
    <3>2. CASE e \notin P
      <4>1. C(e) = {F[e]} /\ e \notin P2
        BY <3>2, <2>0, <1>3
      <4> QED
        BY <4>1, <3>2, <2>0
    <3> QED
      BY <3>1, <3>2
  <2>1. CASE b = n
    BY <2>0, <2>1, <1>5
  <2>2. CASE b # n
    <3>0. b \in P /\ H2[b] = C(b) /\ C(b) = C(N[b]) /\ N[b] # n
      BY <2>2, <1>1, <1>5
    <3>1. CASE N2[b] = N[b]
      BY <2>0, <3>0, <3>1
    <3>2. CASE N2[b] = n
      <4>1. C(N[b]) = C(t)
        BY <3>0, <3>2, <1>1
      <4>2. H2[n] = C(t)
        BY <1>5
      <4> QED
        BY <4>1, <4>2, <3>0, <3>2
    <3> QED
      BY <3>0, <3>1, <3>2
  <2> QED
    BY <2>1, <2>2
<1>8. CASE d \in P
  <2>1. \A b \in P : C(b) \subseteq H[b]
    <3>1. \A b \in P : H[b] = IF N[b] \in P THEN H[N[b]] ELSE {F[N[b]]}
      BY <1>6
    <3> QED
      BY <3>1, <1>l
  <2>2. \A b \in P2 : C2(b) \subseteq H2[b]
    <3>1. \A b \in P2 : H2[b] = IF N2[b] \in P2 THEN H2[N2[b]] ELSE {F2[N2[b]]}
      BY <1>7
    <3> QED
      BY <3>1, <1>m
  <2>3. d \in P2 /\ H[d] = C2(d) /\ H2[d] = C(d)
    BY <1>8, <1>4, <1>5
  <2>4. C(d) \subseteq C2(d) /\ C2(d) \subseteq C(d)
    BY <1>8, <2>1, <2>2, <2>3
  <2> QED
    BY <2>4 DEF C, C2
<1>9. CASE d \notin P
  <2>1. C(d) = {F[d]} /\ C2(d) = {F2[d]} /\ F2[d] = F[d]
    BY <1>9, <1>3
  <2> QED
    BY <2>1 DEF C, C2
<1> QED
  BY <1>8, <1>9

\* One step of the fold that Kept is.
KeptStep(s, K, g, i) == IF i = 0 THEN <<>> ELSE IF i \in K THEN Append(g[i - 1], s[i]) ELSE g[i - 1]

\* A set of natural numbers that is not empty has a least element.
LEMMA NatLeast ==
  ASSUME NEW N, N \subseteq Nat, N # {}
  PROVE  \E k \in N : \A j \in N : ~(j < k)
<1> DEFINE R == {ss \in Nat \X Nat : ss[1] < ss[2]}
<1>1. IsWellFoundedOn(R, Nat)
  BY NatLessThanWellFounded, Zenon DEF OpToRel
<1>3. \A i, j \in N : i < j => <<i, j>> \in R
  OBVIOUS
<1> HIDE DEF R
<1>4. PICK k \in N : \A j \in N : ~(<<j, k>> \in R)
  BY <1>1, WFMin
<1> QED
  BY <1>3, <1>4

\* The fold of Kept exists on every prefix (by a least counterexample).
LEMMA KeptPartial ==
  ASSUME NEW s, NEW K, NEW n \in Nat
  PROVE  \A k \in 0..n : \E g : g = [i \in 0..k |-> KeptStep(s, K, g, i)]
<1> DEFINE Bad == {k \in 0..n : ~\E g : g = [i \in 0..k |-> KeptStep(s, K, g, i)]}
<1>1. SUFFICES ASSUME Bad # {} PROVE FALSE
  OBVIOUS
<1>2. PICK k \in Bad : \A j \in Bad : ~(j < k)
  <2>1. Bad \subseteq Nat
    OBVIOUS
  <2> HIDE DEF Bad
  <2> QED
    BY <1>1, <2>1, NatLeast
<1>3. k \in 0..n /\ ~\E g : g = [i \in 0..k |-> KeptStep(s, K, g, i)]
  BY <1>2
<1>4. k # 0
  <2>1. SUFFICES ASSUME k = 0 PROVE FALSE
    OBVIOUS
  <2> DEFINE g == [i \in 0..0 |-> <<>>]
  <2>2. g = [i \in 0..k |-> KeptStep(s, K, g, i)]
    BY <2>1 DEF KeptStep
  <2> QED
    BY <2>2, <1>3
<1>5. k - 1 \in 0..n /\ k - 1 < k
  BY <1>3, <1>4
<1>6. k - 1 \notin Bad
  BY <1>2, <1>5
<1>7. PICK g : g = [i \in 0..(k - 1) |-> KeptStep(s, K, g, i)]
  BY <1>5, <1>6
<1> DEFINE h == [i \in 0..k |-> IF i < k THEN g[i] ELSE KeptStep(s, K, g, k)]
<1>8. \A i \in 0..(k - 1) : h[i] = g[i]
  BY <1>3
<1>9. ASSUME NEW i \in 0..k PROVE h[i] = KeptStep(s, K, h, i)
  <2>1. KeptStep(s, K, h, i) = KeptStep(s, K, g, i)
    <3>1. i # 0 => i - 1 \in 0..(k - 1)
      BY <1>3
    <3> HIDE DEF h
    <3> QED
      BY <3>1, <1>8 DEF KeptStep
  <2>2. CASE i = k
    BY <2>1, <2>2, <1>3
  <2>3. CASE i # k
    <3>1. i \in 0..(k - 1)
      BY <2>3, <1>3
    <3>2. g[i] = KeptStep(s, K, g, i)
      BY <3>1, <1>7
    <3> QED
      BY <3>1, <3>2, <2>1, <1>8
  <2> QED
    BY <2>2, <2>3
<1>10. h = [i \in 0..k |-> KeptStep(s, K, h, i)]
  <2>1. h = [i \in 0..k |-> h[i]]
    OBVIOUS
  <2> HIDE DEF h
  <2> QED
    BY <2>1, <1>9
<1> QED
  BY <1>3, <1>10

\* Kept is the value of that fold on the whole sequence.
LEMMA KeptDef ==
  ASSUME NEW T, NEW s \in Seq(T), NEW K
  PROVE  \E g : /\ g = [i \in 0..Len(s) |-> KeptStep(s, K, g, i)]
                /\ Kept(s, K) = g[Len(s)]
<1> DEFINE g == CHOOSE g : g = [i \in 0..Len(s) |-> KeptStep(s, K, g, i)]
<1>1. Kept(s, K) = g[Len(s)]
  BY DEF Kept, KeptStep
<1>2. \E h : h = [i \in 0..Len(s) |-> KeptStep(s, K, h, i)]
  <2>1. Len(s) \in Nat /\ Len(s) \in 0..Len(s)
    OBVIOUS
  <2> QED
    BY <2>1, KeptPartial
<1>3. g = [i \in 0..Len(s) |-> KeptStep(s, K, g, i)]
  BY <1>2
<1> QED
  BY <1>1, <1>3

\* f lists, in order, the elements of K among the first n indices, and g those
\* elements of s.
KeptBy(s, K, n, f, g) ==
  /\ Len(g) = Len(f)
  /\ \A a \in 1..Len(f) : f[a] \in K /\ f[a] \in 1..n /\ g[a] = s[f[a]]
  /\ \A a, b \in 1..Len(f) : a < b => f[a] < f[b]
  /\ \A i \in 1..n : i \in K => \E a \in 1..Len(f) : f[a] = i

\* One more element of the sequence, kept or left out.
LEMMA KeptNext ==
  ASSUME NEW T, NEW s \in Seq(T), NEW K, NEW n \in Nat, n + 1 \in 1..Len(s),
         NEW f \in Seq(Nat), NEW g \in Seq(T), KeptBy(s, K, n, f, g)
  PROVE  /\ n + 1 \in K => KeptBy(s, K, n + 1, Append(f, n + 1), Append(g, s[n + 1]))
         /\ n + 1 \notin K => KeptBy(s, K, n + 1, f, g)
<1>1. /\ Len(g) = Len(f) /\ Len(f) \in Nat
      /\ \A a \in 1..Len(f) : f[a] \in K /\ f[a] \in 1..n /\ g[a] = s[f[a]]
      /\ \A a, b \in 1..Len(f) : a < b => f[a] < f[b]
      /\ \A i \in 1..n : i \in K => \E a \in 1..Len(f) : f[a] = i
  BY DEF KeptBy
<1>2. \A i \in 1..(n + 1) : i \in 1..n \/ i = n + 1
  OBVIOUS
<1>3. CASE n + 1 \notin K
  <2>1. \A a \in 1..Len(f) : f[a] \in 1..(n + 1)
    BY <1>1
  <2>2. \A i \in 1..(n + 1) : i \in K => \E a \in 1..Len(f) : f[a] = i
    BY <1>1, <1>2, <1>3
  <2> QED
    BY <1>1, <1>3, <2>1, <2>2 DEF KeptBy
<1>4. CASE n + 1 \in K
  <2> DEFINE f2 == Append(f, n + 1)
             g2 == Append(g, s[n + 1])
  <2>1. /\ Len(f2) = Len(f) + 1 /\ Len(g2) = Len(f) + 1
        /\ \A a \in 1..Len(f) : f2[a] = f[a]
        /\ f2[Len(f) + 1] = n + 1
    BY <1>1
  <2>9. /\ \A a \in 1..Len(f) : g2[a] = g[a]
        /\ g2[Len(f) + 1] = s[n + 1]
    BY <1>1
  <2>2. \A a \in 1..(Len(f) + 1) : a \in 1..Len(f) \/ a = Len(f) + 1
    BY <1>1
  <2> HIDE DEF f2, g2
  <2>3. \A a \in 1..Len(f2) : f2[a] \in K /\ f2[a] \in 1..(n + 1) /\ g2[a] = s[f2[a]]
    <3>1. \A a \in 1..Len(f) : f2[a] \in K /\ f2[a] \in 1..(n + 1) /\ g2[a] = s[f2[a]]
      BY <1>1, <2>1, <2>9
    <3>2. n + 1 \in 1..(n + 1)
      OBVIOUS
    <3> QED
      BY <1>4, <2>1, <2>2, <2>9, <3>1, <3>2
  <2>4. \A a, b \in 1..Len(f2) : a < b => f2[a] < f2[b]
    <3>1. SUFFICES ASSUME NEW a \in 1..(Len(f) + 1), NEW b \in 1..(Len(f) + 1), a < b PROVE f2[a] < f2[b]
      BY <2>1
    <3>2. a \in 1..Len(f) /\ f2[a] = f[a] /\ f[a] \in 1..n
      BY <1>1, <2>1, <3>1
    <3>3. CASE b = Len(f) + 1
      BY <2>1, <3>2, <3>3
    <3>4. CASE b \in 1..Len(f)
      BY <1>1, <2>1, <3>1, <3>2, <3>4
    <3> QED
      BY <2>2, <3>3, <3>4
  <2>5. \A i \in 1..(n + 1) : i \in K => \E a \in 1..Len(f2) : f2[a] = i
    <3>1. \A i \in 1..n : i \in K => \E a \in 1..Len(f2) : f2[a] = i
      <4>1. \A a \in 1..Len(f) : a \in 1..Len(f2)
        BY <1>1, <2>1
      <4> QED
        BY <1>1, <2>1, <4>1
    <3>2. Len(f) + 1 \in 1..Len(f2)
      BY <1>1, <2>1
    <3> QED
      BY <1>2, <2>1, <3>1, <3>2
  <2>6. KeptBy(s, K, n + 1, f2, g2)
    BY <2>1, <2>3, <2>4, <2>5 DEF KeptBy
  <2> QED
    BY <1>4, <2>6 DEF f2, g2
<1> QED
  BY <1>3, <1>4

\* What Kept keeps: the elements at the indices in K, in their order.
LEMMA KeptIs ==
  ASSUME NEW T, NEW s \in Seq(T), NEW K
  PROVE  /\ Kept(s, K) \in Seq(T)
         /\ \E f \in Seq(Nat) : KeptBy(s, K, Len(s), f, Kept(s, K))
<1>1. PICK g : g = [i \in 0..Len(s) |-> KeptStep(s, K, g, i)] /\ Kept(s, K) = g[Len(s)]
  BY KeptDef
<1> DEFINE n == Len(s)
           OK(i) == g[i] \in Seq(T) /\ \E f \in Seq(Nat) : KeptBy(s, K, i, f, g[i])
           Bad == {i \in 0..n : ~OK(i)}
<1>2. n \in Nat /\ Len(s) = n
  OBVIOUS
<1> HIDE DEF n
<1>3. \A i \in 0..n : g[i] = KeptStep(s, K, g, i)
  BY <1>1, <1>2
<1>4. OK(0)
  <2>1. g[0] = <<>>
    BY <1>2, <1>3 DEF KeptStep
  <2>2. <<>> \in Seq(Nat) /\ <<>> \in Seq(T) /\ Len(<<>>) = 0
    OBVIOUS
  <2>3. KeptBy(s, K, 0, <<>>, <<>>)
    BY <2>2 DEF KeptBy
  <2> QED
    BY <2>1, <2>2, <2>3
<1>5. ASSUME NEW i \in 0..n, i # 0, OK(i - 1) PROVE OK(i)
  <2> DEFINE j == i - 1
  <2>1. j \in Nat /\ j + 1 = i /\ j + 1 \in 1..Len(s) /\ OK(j)
    BY <1>2, <1>5
  <2>2. g[i] = IF j + 1 \in K THEN Append(g[j], s[j + 1]) ELSE g[j]
    BY <1>3, <1>5, <2>1 DEF KeptStep
  <2> HIDE DEF j
  <2>3. PICK f \in Seq(Nat) : KeptBy(s, K, j, f, g[j])
    BY <2>1
  <2>4. g[j] \in Seq(T) /\ s[j + 1] \in T
    BY <2>1
  <2>5. /\ j + 1 \in K => KeptBy(s, K, j + 1, Append(f, j + 1), Append(g[j], s[j + 1]))
        /\ j + 1 \notin K => KeptBy(s, K, j + 1, f, g[j])
    BY <2>1, <2>3, <2>4, KeptNext
  <2>6. Append(f, j + 1) \in Seq(Nat) /\ Append(g[j], s[j + 1]) \in Seq(T)
    BY <2>1, <2>4
  <2>7. CASE j + 1 \in K
    <3>1. g[i] = Append(g[j], s[j + 1]) /\ KeptBy(s, K, i, Append(f, j + 1), g[i])
      BY <2>1, <2>2, <2>5, <2>7
    <3> QED
      BY <3>1, <2>6
  <2>8. CASE j + 1 \notin K
    <3>1. g[i] = g[j] /\ KeptBy(s, K, i, f, g[i])
      BY <2>1, <2>2, <2>5, <2>8
    <3> QED
      BY <3>1, <2>4
  <2> QED
    BY <2>7, <2>8
<1>6. Bad = {}
  <2>1. SUFFICES ASSUME Bad # {} PROVE FALSE
    OBVIOUS
  <2>2. Bad \subseteq Nat
    BY <1>2
  <2> HIDE DEF OK
  <2>3. PICK k \in Bad : \A j \in Bad : ~(j < k)
    <3> HIDE DEF Bad
    <3> QED
      BY <2>1, <2>2, NatLeast
  <2>4. k \in 0..n /\ ~OK(k)
    BY <2>3
  <2>5. k # 0
    BY <1>4, <2>4
  <2>6. k - 1 \in 0..n /\ k - 1 < k
    BY <1>2, <2>4, <2>5
  <2>7. OK(k - 1)
    BY <2>3, <2>6
  <2> QED
    BY <1>5, <2>4, <2>5, <2>7
<1>7. OK(n)
  BY <1>2, <1>6
<1> QED
  BY <1>1, <1>2, <1>7

\* What is kept: the elements at the kept positions and no other.
LEMMA KeptRange ==
  ASSUME NEW T, NEW s \in Seq(T), NEW K
  PROVE  /\ Kept(s, K) \in Seq(T) /\ Len(Kept(s, K)) <= Len(s)
         /\ \A x : x \in Range1(Kept(s, K)) <=> \E i \in 1..Len(s) : i \in K /\ s[i] = x
<1> DEFINE k == Kept(s, K)
<1>1. k \in Seq(T)
  BY KeptIs
<1>2. PICK f \in Seq(Nat) : KeptBy(s, K, Len(s), f, k)
  BY KeptIs
<1> HIDE DEF k
<1>3. /\ Len(k) = Len(f) /\ Len(f) \in Nat /\ Len(s) \in Nat
      /\ \A a \in 1..Len(f) : f[a] \in K /\ f[a] \in 1..Len(s) /\ k[a] = s[f[a]]
      /\ \A a, b \in 1..Len(f) : a < b => f[a] < f[b]
      /\ \A i \in 1..Len(s) : i \in K => \E a \in 1..Len(f) : f[a] = i
  BY <1>2 DEF KeptBy
<1>4. Range1(k) = {k[a] : a \in 1..Len(f)}
  BY <1>1, <1>3 DEF Range1
<1>5. \A x : x \in Range1(k) <=> \E i \in 1..Len(s) : i \in K /\ s[i] = x
  <2>1. \A x : x \in Range1(k) <=> \E a \in 1..Len(f) : k[a] = x
    BY <1>4
  <2>2. \A x : (\E a \in 1..Len(f) : k[a] = x) => \E i \in 1..Len(s) : i \in K /\ s[i] = x
    BY <1>3
  <2>3. \A x : (\E i \in 1..Len(s) : i \in K /\ s[i] = x) => \E a \in 1..Len(f) : k[a] = x
    BY <1>3
  <2> QED
    BY <2>1, <2>2, <2>3
<1>6. Len(f) <= Len(s)
  <2> DEFINE Bad == {a \in 1..Len(f) : f[a] < a}
  <2>1. Bad = {}
    <3>1. SUFFICES ASSUME Bad # {} PROVE FALSE
      OBVIOUS
    <3>2. Bad \subseteq Nat
      BY <1>3
    <3>3. PICK a \in Bad : \A j \in Bad : ~(j < a)
      <4> HIDE DEF Bad
      <4> QED
        BY <3>1, <3>2, NatLeast
    <3>4. a \in 1..Len(f) /\ f[a] < a /\ f[a] \in 1..Len(s)
      BY <1>3, <3>3
    <3>5. a - 1 \in 1..Len(f) /\ a - 1 < a
      BY <1>3, <3>4
    <3>6. f[a - 1] < f[a] /\ f[a - 1] \in Int
      <4>1. \A b \in 1..Len(f) : b < a => f[b] < f[a] /\ f[b] \in Int
        BY <1>3, <3>4
      <4> QED
        BY <3>5, <4>1
    <3>7. ~(f[a - 1] < a - 1)
      BY <3>3, <3>5
    <3> QED
      BY <1>3, <3>4, <3>5, <3>6, <3>7
  <2>2. CASE Len(f) > 0
    <3>1. Len(f) \in 1..Len(f)
      BY <1>3, <2>2
    <3>2. ~(f[Len(f)] < Len(f)) /\ f[Len(f)] \in 1..Len(s)
      BY <1>3, <2>1, <3>1
    <3> QED
      BY <1>3, <3>2
  <2>3. CASE Len(f) = 0
    BY <1>3, <2>3
  <2> QED
    BY <1>3, <2>2, <2>3
<1> QED
  BY <1>1, <1>3, <1>5, <1>6 DEF k

\* A list with the first of each of its elements that are in D.
LEMMA KeptFirsts ==
  ASSUME NEW T, NEW s \in Seq(T), NEW D,
         NEW k, k = Kept(s, {i \in DOMAIN s : s[i] \in D /\ \A j \in 1..(i - 1) : s[j] # s[i]})
  PROVE  k \in Seq(T) /\ Len(k) <= Len(s) /\ Range1(k) = Range1(s) \cap D
<1> DEFINE K == {i \in DOMAIN s : s[i] \in D /\ \A j \in 1..(i - 1) : s[j] # s[i]}
<1>1. /\ k \in Seq(T) /\ Len(k) <= Len(s)
      /\ \A x : x \in Range1(k) <=> \E i \in 1..Len(s) : i \in K /\ s[i] = x
  <2>1. k = Kept(s, K)
    BY DEF K
  <2> HIDE DEF K
  <2>2. /\ Kept(s, K) \in Seq(T) /\ Len(Kept(s, K)) <= Len(s)
        /\ \A x : x \in Range1(Kept(s, K)) <=> \E i \in 1..Len(s) : i \in K /\ s[i] = x
    BY KeptRange
  <2> QED
    BY <2>1, <2>2
<1>2. DOMAIN s = 1..Len(s) /\ Len(s) \in Nat
  OBVIOUS
<1>3. ASSUME NEW x \in Range1(s) \cap D PROVE \E i \in 1..Len(s) : i \in K /\ s[i] = x
  <2> DEFINE N == {i \in 1..Len(s) : s[i] = x}
  <2>1. N # {}
    BY <1>2, <1>3 DEF Range1
  <2>2. N \subseteq Nat
    BY <1>2
  <2>3. PICK i \in N : \A j \in N : ~(j < i)
    <3> HIDE DEF N
    <3> QED
      BY <2>1, <2>2, NatLeast
  <2>4. i \in 1..Len(s) /\ s[i] = x
    BY <2>3
  <2>5. \A j \in 1..(i - 1) : s[j] # s[i]
    <3>1. \A j \in 1..(i - 1) : j \in 1..Len(s) /\ j < i
      BY <1>2, <2>4
    <3> QED
      BY <2>3, <2>4, <3>1
  <2> QED
    BY <1>2, <1>3, <2>4, <2>5
<1>4. \A i \in K : s[i] \in Range1(s) \cap D
  BY <1>2 DEF Range1
<1> QED
  BY <1>1, <1>3, <1>4

\* CorrectExtraCFGEdges keeps the edges to the destinations of the branch and
\* drops the others.
LEMMA CorrectedEdges ==
  ASSUME NEW T, NEW s \in Seq(T), NEW a, NEW ft,
         NEW k, k = CorrectExtraCFGEdges(s, a, ft)
  PROVE  /\ k \in Seq(T) /\ Len(k) <= Len(s) /\ Range1(k) \subseteq Range1(s)
         /\ \A x \in Range1(s) :
              x \in Range1(k) <=>
                \/ x = IF a.tbb = 0 THEN ft ELSE a.tbb
                \/ x = IF a.fbb # 0 THEN a.fbb ELSE IF a.tbb = 0 \/ a.cond # <<>> THEN ft ELSE 0
<1> DEFINE DA == IF a.tbb = 0 THEN ft ELSE a.tbb
           DB == IF a.fbb # 0 THEN a.fbb ELSE IF a.tbb = 0 \/ a.cond # <<>> THEN ft ELSE 0
<1> HIDE DEF DA, DB
<1>1. k = Kept(s, {i \in DOMAIN s : s[i] \in {DA, DB} /\ \A j \in 1..(i - 1) : s[j] # s[i]})
  BY DEF CorrectExtraCFGEdges, DA, DB
<1>2. k \in Seq(T) /\ Len(k) <= Len(s) /\ Range1(k) = Range1(s) \cap {DA, DB}
  BY <1>1, KeptFirsts
<1> QED
  BY <1>2 DEF DA, DB

\* The edges to old become edges to new.
LEMMA ReplacedEdges ==
  ASSUME NEW T, NEW s \in Seq(T), NEW old, NEW new \in T, NEW k, k = ReplaceEdges(s, old, new)
  PROVE  /\ k \in Seq(T)
         /\ \A x : x \in Range1(k) <=>
                     (x \in Range1(s) /\ x # old) \/ (x = new /\ old \in Range1(s))
<1> DEFINE K == {i \in DOMAIN s : s[i] # old}
           O == {j \in DOMAIN s : s[j] = old}
           n == Cardinality(O)
           p == Kept(s, K)
           q == [i \in 1..n |-> new]
<1>1. DOMAIN s = 1..Len(s) /\ Len(s) \in Nat
  OBVIOUS
<1>2. n \in Nat /\ (n = 0 <=> O = {})
  <2>1. IsFiniteSet(1..Len(s))
    BY <1>1, FS_Interval
  <2>2. O \subseteq 1..Len(s)
    BY <1>1
  <2> HIDE DEF O
  <2>3. IsFiniteSet(O)
    BY <2>1, <2>2, FS_Subset
  <2> QED
    BY <2>3, FS_CardinalityType, FS_EmptySet
<1>3. old \in Range1(s) <=> O # {}
  BY DEF Range1
<1>4. \A i : i \in K <=> i \in 1..Len(s) /\ s[i] # old
  BY <1>1
<1>5. k = p \o q
  BY DEF ReplaceEdges
<1> HIDE DEF K, O, n
<1>6. /\ p \in Seq(T)
      /\ \A x : x \in Range1(p) <=> \E i \in 1..Len(s) : i \in K /\ s[i] = x
  BY KeptRange
<1>7. q \in Seq(T) /\ Len(q) = n /\ \A i \in 1..n : q[i] = new
  BY <1>2
<1> HIDE DEF p, q
<1>8. /\ k \in Seq(T) /\ Len(k) = Len(p) + n /\ Len(p) \in Nat
      /\ \A i \in 1..Len(p) : k[i] = p[i]
      /\ \A i \in (Len(p) + 1)..(Len(p) + n) : k[i] = new
  <2>0. /\ p \o q \in Seq(T) /\ Len(p \o q) = Len(p) + Len(q)
        /\ \A i \in 1..(Len(p) + Len(q)) : (p \o q)[i] = IF i <= Len(p) THEN p[i] ELSE q[i - Len(p)]
    BY <1>6, <1>7, ConcatProperties
  <2>1. /\ k \in Seq(T) /\ Len(k) = Len(p) + Len(q)
        /\ \A i \in 1..(Len(p) + Len(q)) : k[i] = IF i <= Len(p) THEN p[i] ELSE q[i - Len(p)]
    BY <1>5, <2>0
  <2>2. Len(p) \in Nat
    BY <1>6
  <2>3. \A i \in (Len(p) + 1)..(Len(p) + n) : i - Len(p) \in 1..n /\ i \in 1..(Len(p) + n) /\ ~(i <= Len(p))
    BY <1>2, <2>2
  <2>4. \A i \in 1..Len(p) : i \in 1..(Len(p) + n) /\ i <= Len(p)
    BY <1>2, <2>2
  <2> QED
    BY <1>7, <2>1, <2>2, <2>3, <2>4
<1>9. DOMAIN k = 1..(Len(p) + n) /\ DOMAIN p = 1..Len(p)
  BY <1>6, <1>8
<1>10. ASSUME NEW x PROVE x \in Range1(k) <=> x \in Range1(p) \/ (x = new /\ n # 0)
  <2>1. ASSUME x \in Range1(k) PROVE x \in Range1(p) \/ (x = new /\ n # 0)
    <3>1. PICK i \in 1..(Len(p) + n) : k[i] = x
      BY <1>9, <2>1 DEF Range1
    <3>2. CASE i \in 1..Len(p)
      BY <1>8, <1>9, <3>1, <3>2 DEF Range1
    <3>3. CASE i \notin 1..Len(p)
      <4>1. i \in (Len(p) + 1)..(Len(p) + n) /\ n # 0
        BY <1>2, <1>8, <3>3
      <4> QED
        BY <1>8, <3>1, <4>1
    <3> QED
      BY <3>2, <3>3
  <2>2. ASSUME x \in Range1(p) PROVE x \in Range1(k)
    <3>1. PICK i \in 1..Len(p) : p[i] = x
      BY <1>9, <2>2 DEF Range1
    <3>2. i \in 1..(Len(p) + n) /\ k[i] = x
      BY <1>2, <1>8, <3>1
    <3> QED
      BY <1>9, <3>2 DEF Range1
  <2>3. ASSUME x = new, n # 0 PROVE x \in Range1(k)
    <3>1. Len(p) + 1 \in (Len(p) + 1)..(Len(p) + n) /\ Len(p) + 1 \in 1..(Len(p) + n)
      BY <1>2, <1>8, <2>3
    <3>2. k[Len(p) + 1] = new
      BY <1>8, <3>1
    <3> QED
      BY <1>9, <2>3, <3>1, <3>2 DEF Range1
  <2> QED
    BY <2>1, <2>2, <2>3
<1>11. ASSUME NEW x PROVE x \in Range1(p) <=> x \in Range1(s) /\ x # old
  BY <1>1, <1>4, <1>6 DEF Range1
<1> QED
  BY <1>2, <1>3, <1>8, <1>10, <1>11

\* What is left of a layout in the order of the numbers of the blocks.
LEMMA KeptLayout ==
  ASSUME NEW n \in Nat \ {0}, NEW l \in Seq(Nat), Len(l) = n, \A i \in 1..n : l[i] = i,
         NEW R, 1 \in R, NEW k, k = Kept(l, {i \in DOMAIN l : l[i] \in R})
  PROVE  /\ Lay(k) /\ Range1(k) = R \cap (1..n)
         /\ \A b \in R \cap (1..n) : b + 1 \in R \cap (1..n) => Following(k, b) = b + 1
<1> DEFINE K == {i \in DOMAIN l : l[i] \in R}
           T == Nat
<1>1. \A i : i \in K <=> i \in 1..n /\ i \in R
  OBVIOUS
<1>2. k = Kept(l, K) /\ l \in Seq(T)
  OBVIOUS
<1> HIDE DEF K, T
<1>3. Kept(l, K) \in Seq(T) /\ \E f \in Seq(Nat) : KeptBy(l, K, Len(l), f, Kept(l, K))
  BY <1>2, KeptIs
<1>4. PICK f \in Seq(Nat) : KeptBy(l, K, n, f, k)
  BY <1>2, <1>3
<1> DEFINE m == Len(k)
<1>5. k \in Seq(Nat) /\ Len(k) = m /\ m \in Nat
  BY <1>2, <1>3 DEF T
<1> HIDE DEF m
<1>6. /\ \A a \in 1..m : k[a] \in K /\ k[a] \in 1..n /\ k[a] = f[a]
      /\ \A a, b \in 1..m : a < b => k[a] < k[b]
      /\ \A i \in 1..n : i \in K => \E a \in 1..m : k[a] = i
  <2>1. /\ m = Len(f)
        /\ \A a \in 1..m : f[a] \in K /\ f[a] \in 1..n /\ k[a] = l[f[a]]
        /\ \A a, b \in 1..m : a < b => f[a] < f[b]
        /\ \A i \in 1..n : i \in K => \E a \in 1..m : f[a] = i
    BY <1>4, <1>5 DEF KeptBy
  <2>2. \A a \in 1..m : k[a] = f[a]
    BY <2>1
  <2>3. \A a \in 1..m : k[a] \in K /\ k[a] \in 1..n
    BY <2>1, <2>2
  <2>4. \A a, b \in 1..m : a < b => k[a] < k[b]
    BY <2>1, <2>2
  <2>5. \A i \in 1..n : i \in K => \E a \in 1..m : k[a] = i
    BY <2>1, <2>2, SMTT(30)
  <2> HIDE DEF KeptBy
  <2> QED
    BY <2>2, <2>3, <2>4, <2>5
<1>7. \A x : x \in Range1(k) <=> \E a \in 1..m : k[a] = x
  <2>1. DOMAIN k = 1..m
    BY <1>5
  <2> QED
    BY <2>1 DEF Range1
<1>8. \A x : x \in Range1(k) <=> x \in R /\ x \in 1..n
  <2>1. ASSUME NEW x \in Range1(k) PROVE x \in R /\ x \in 1..n
    <3>1. PICK a \in 1..m : k[a] = x
      BY <1>7
    <3>2. k[a] \in K
      BY <1>6
    <3> QED
      BY <1>1, <3>1, <3>2
  <2>2. ASSUME NEW x \in 1..n, x \in R PROVE x \in Range1(k)
    <3>1. x \in K
      BY <1>1, <2>2
    <3> QED
      BY <1>6, <1>7, <3>1
  <2> QED
    BY <2>1, <2>2
<1>9. \A a, b \in 1..m : k[a] = k[b] => a = b
  BY <1>6
<1>10. m > 0 /\ k[1] = 1
  <2>1. PICK a \in 1..m : k[a] = 1
    BY <1>1, <1>6
  <2>2. m > 0 /\ 1 \in 1..m
    BY <1>5, <2>1
  <2>3. a = 1
    <3>1. SUFFICES ASSUME 1 < a PROVE FALSE
      BY <2>1
    <3>2. k[1] < k[a] /\ k[1] \in 1..n
      BY <1>6, <2>1, <2>2, <3>1
    <3> QED
      BY <2>1, <3>2
  <2> QED
    BY <2>1, <2>2, <2>3
<1>11. Lay(k)
  <2>1. k \in Seq(Nat \ {0})
    BY <1>5, <1>6
  <2> QED
    BY <1>5, <1>9, <1>10, <2>1 DEF Lay
<1>12. ASSUME NEW b \in 1..n, b \in R, b + 1 \in R, b + 1 \in 1..n PROVE Following(k, b) = b + 1
  <2>1. PICK a \in 1..m : k[a] = b
    BY <1>1, <1>6, <1>12
  <2>2. PICK e \in 1..m : k[e] = b + 1
    BY <1>1, <1>6, <1>12
  <2>3. a < e
    <3>1. SUFFICES ASSUME e < a \/ e = a PROVE FALSE
      BY <1>5, <2>1, <2>2
    <3>2. e < a => k[e] < k[a]
      BY <1>6
    <3> QED
      BY <2>1, <2>2, <3>1, <3>2
  <2>4. e = a + 1
    <3>1. SUFFICES ASSUME a + 1 < e PROVE FALSE
      BY <1>5, <2>3
    <3>2. a + 1 \in 1..m /\ a < a + 1
      BY <1>5, <2>1, <3>1
    <3> DEFINE z == a + 1
    <3>3. z \in 1..m /\ a < z /\ z < e
      BY <3>1, <3>2
    <3> HIDE DEF z
    <3>4. k[a] < k[z] /\ k[z] < k[e] /\ k[z] \in Int
      BY <1>6, <3>3
    <3> QED
      BY <2>1, <2>2, <3>4
  <2>5. a # m
    BY <1>5, <2>2, <2>4
  <2>6. Following(k, k[a]) = IF a = Len(k) THEN 0 ELSE k[a + 1]
    BY <1>5, <1>11, <2>1, FollowingAt
  <2> QED
    BY <1>5, <2>1, <2>2, <2>4, <2>5, <2>6
<1> QED
  BY <1>8, <1>11, <1>12

\* A block leads to an operand of a branch, to the exit, or falls through.
LEMMA CoverLeads ==
  ASSUME NEW m \in Nat, NEW c, Form(c, m), NEW nu, NEW ft
  PROVE  /\ Halts(c) => ~Falls(c) /\ Leads(c, nu, ft) = ft
         /\ ~Halts(c) => \/ Leads(c, nu, ft) = Exit
                         \/ LeadsTo(c, Leads(c, nu, ft))
                         \/ Falls(c) /\ Leads(c, nu, ft) = ft
         /\ ~Halts(c) /\ ~Falls(c) => \A ft2 : Leads(c, nu, ft2) = Leads(c, nu, ft)
         /\ \A x : LeadsTo(c, x) => x \in Targets1
<1> DEFINE a == Ana(c)
           f == AnaF(c)
<1>1. \/ CaseFall(c, m, a, f)
      \/ \E t : CaseJump(c, m, a, f, t)
      \/ \E op, r, t : CaseCond(c, m, a, f, op, r, t)
      \/ \E op, r, t, u : CaseCond2(c, m, a, f, op, r, t, u)
      \/ \E t, u : CaseJumps(c, m, a, f, t, u)
      \/ CaseOther(c, m, a, f)
  BY AnaCases
<1>2. CASE CaseFall(c, m, a, f)
  BY <1>2 DEF CaseFall, FallProfile
<1>3. ASSUME NEW t, CaseJump(c, m, a, f, t) PROVE ~Halts(c) /\ ~Falls(c) /\ (\A ft2 : Leads(c, nu, ft2) = t) /\ (\A x : LeadsTo(c, x) <=> x = t) /\ t \in Targets1
  BY <1>3 DEF CaseJump, JumpProfile
<1>4. ASSUME NEW op, NEW r, NEW t, CaseCond(c, m, a, f, op, r, t)
      PROVE  ~Halts(c) /\ Falls(c) /\ (Leads(c, nu, ft) = t \/ Leads(c, nu, ft) = ft) /\ (\A x : LeadsTo(c, x) <=> x = t) /\ t \in Targets1
  BY <1>4 DEF CaseCond, CondProfile
<1>5. ASSUME NEW op, NEW r, NEW t, NEW u, CaseCond2(c, m, a, f, op, r, t, u)
      PROVE  /\ ~Halts(c) /\ ~Falls(c) /\ (Leads(c, nu, ft) = t \/ Leads(c, nu, ft) = u)
             /\ \A x : LeadsTo(c, x) <=> x \in {t, u}
             /\ t \in Targets1 /\ u \in Targets1
             /\ \A ft2 : Leads(c, nu, ft2) = Leads(c, nu, ft)
  BY <1>5 DEF CaseCond2, Cond2Profile
<1>6. ASSUME NEW t, NEW u, CaseJumps(c, m, a, f, t, u)
      PROVE  /\ ~Halts(c) /\ ~Falls(c) /\ \A ft2 : Leads(c, nu, ft2) = t
             /\ \A x : LeadsTo(c, x) <=> x \in {t, u}
             /\ t \in Targets1 /\ u \in Targets1
  BY <1>6 DEF CaseJumps, JumpsProfile
<1>7. ASSUME CaseOther(c, m, a, f)
      PROVE  /\ ~Halts(c) /\ ~Falls(c)
             /\ Leads(c, nu, ft) = Exit \/ LeadsTo(c, Leads(c, nu, ft))
             /\ \A ft2 : Leads(c, nu, ft2) = Leads(c, nu, ft)
             /\ \A x : LeadsTo(c, x) => x \in Targets1
  <2>1. OtherProfile(c, m) /\ IsOther(c, m)
    BY <1>7 DEF CaseOther
  <2>2. \A x : LeadsTo(c, x) => x \in Targets1
    <3>1. SUFFICES ASSUME NEW x, LeadsTo(c, x) PROVE x \in Targets1
      OBVIOUS
    <3>2. PICK i \in 1..Len(c) : c[i].op \in Terminators \ {"RET"} /\ \E j \in 1..Len(c[i].to) : c[i].to[j] = x
      BY <3>1 DEF LeadsTo
    <3>3. /\ c \in Seq(Instrs) /\ Len(c) = m + 1
          /\ \A k \in 1..m : IsWork(c[k])
          /\ c[m + 1].op \in {"JMPR", "RET"}
          /\ c[m + 1].op = "JMPR" => Len(c[m + 1].to) = 2 /\ c[m + 1].to[1] > 1 /\ c[m + 1].to[2] > 1
      BY <2>1 DEF IsOther, Form
    <3>4. i = m + 1
      <4>1. i \in 1..m => IsWork(c[i])
        BY <3>3
      <4>2. i \notin 1..m
        BY <3>2, <4>1 DEF IsWork, Terminators, Analyzable, CondBranches
      <4> QED
        BY <3>2, <3>3, <4>2
    <3>5. c[m + 1].to \in Seq(Nat) /\ c[m + 1].op = "JMPR"
      <4>1. c[m + 1] \in Instrs
        BY <3>3, <3>4
      <4> QED
        BY <3>2, <3>3, <3>4, <4>1 DEF Instrs
    <3>6. PICK j \in 1..Len(c[m + 1].to) : c[m + 1].to[j] = x
      BY <3>2, <3>4
    <3>7. j \in 1..2
      BY <3>3, <3>5, <3>6
    <3>8. x \in Nat /\ x > 1
      BY <3>3, <3>5, <3>6, <3>7
    <3> QED
      BY <3>8 DEF Targets1
  <2>3. \A nv, gt : Leads(c, nv, gt) = Exit \/ LeadsTo(c, Leads(c, nv, gt))
    BY <2>1 DEF OtherProfile
  <2>4. ~Halts(c) /\ ~Falls(c) /\ \A nv, gt, gt2 : Leads(c, nv, gt2) = Leads(c, nv, gt)
    BY <2>1 DEF OtherProfile
  <2> QED
    BY <2>2, <2>3, <2>4
<1> HIDE DEF a, f
<1>8. CASE \E t : CaseJump(c, m, a, f, t)
  BY <1>3, <1>8
<1>9. CASE \E op, r, t : CaseCond(c, m, a, f, op, r, t)
  BY <1>4, <1>9
<1>10. CASE \E op, r, t, u : CaseCond2(c, m, a, f, op, r, t, u)
  BY <1>5, <1>10
<1>11. CASE \E t, u : CaseJumps(c, m, a, f, t, u)
  BY <1>6, <1>11
<1>12. CASE CaseOther(c, m, a, f)
  BY <1>7, <1>12
<1> QED
  BY <1>1, <1>2, <1>8, <1>9, <1>10, <1>11, <1>12

\* canFallThrough for a block with instructions c and edges s, when ft is the
\* block after it.
CanFall(c, s, ft) ==
  /\ ft # 0 /\ ft \in Range1(s)
  /\ IF AnaF(c).fail THEN Last(c).op \notin Barriers
     ELSE \/ AnaF(c).tbb = 0
          \/ AnaF(c).tbb = ft \/ AnaF(c).fbb = ft
          \/ AnaF(c).cond # <<>> /\ AnaF(c).fbb = 0

\* canFallThrough from the code and the edges of the block.
LEMMA CanFallIs ==
  ASSUME NEW b
  PROVE  canFallThrough(b) <=> CanFall(code[b], succs[b], LayoutSuccessor(b))
BY DEF canFallThrough, CanFall, AnaF, isSuccessor

\* The four forms in which control may fall through or branch to ft.
LEMMA CanFallCases ==
  ASSUME NEW m \in Nat, NEW c, Form(c, m), NEW s, NEW ft, CanFall(c, s, ft)
  PROVE  /\ ft # 0 /\ ft \in Range1(s)
         /\ \/ CaseFall(c, m, Ana(c), AnaF(c))
            \/ CaseJump(c, m, Ana(c), AnaF(c), ft)
            \/ \E op, r, t : CaseCond(c, m, Ana(c), AnaF(c), op, r, t)
            \/ \E op, r, t, u : CaseCond2(c, m, Ana(c), AnaF(c), op, r, t, u) /\ ft \in {t, u}
<1> DEFINE a == Ana(c)
           f == AnaF(c)
<1>1. \/ CaseFall(c, m, a, f)
      \/ \E t : CaseJump(c, m, a, f, t)
      \/ \E op, r, t : CaseCond(c, m, a, f, op, r, t)
      \/ \E op, r, t, u : CaseCond2(c, m, a, f, op, r, t, u)
      \/ \E t, u : CaseJumps(c, m, a, f, t, u)
      \/ CaseOther(c, m, a, f)
  BY AnaCases
<1>2. /\ ft # 0 /\ ft \in Range1(s)
      /\ f.fail => Last(c).op \notin Barriers
      /\ ~f.fail => \/ f.tbb = 0
                    \/ f.tbb = ft \/ f.fbb = ft
                    \/ f.cond # <<>> /\ f.fbb = 0
  BY DEF CanFall
<1> HIDE DEF a, f
<1>3. ASSUME NEW t, CaseJump(c, m, a, f, t) PROVE t = ft
  <2>1. t \in Targets1 /\ ~f.fail /\ f.tbb = t /\ f.fbb = 0 /\ f.cond = <<>>
    BY <1>3 DEF CaseJump, Answer
  <2>2. t # 0
    BY <2>1 DEF Targets1
  <2> QED
    BY <1>2, <2>1, <2>2
<1>4. ASSUME NEW op, NEW r, NEW t, NEW u, CaseCond2(c, m, a, f, op, r, t, u) PROVE ft \in {t, u}
  <2>1. t \in Targets1 /\ u \in Targets1 /\ ~f.fail /\ f.tbb = t /\ f.fbb = u
    BY <1>4 DEF CaseCond2, Answer
  <2>2. t # 0 /\ u # 0
    BY <2>1 DEF Targets1
  <2> QED
    BY <1>2, <2>1, <2>2
<1>5. ~CaseOther(c, m, a, f)
  <2>1. SUFFICES ASSUME CaseOther(c, m, a, f) PROVE FALSE
    OBVIOUS
  <2>2. f.fail /\ OtherProfile(c, m) /\ IsOther(c, m)
    BY <2>1 DEF CaseOther, NoAnswer
  <2>3. Last(c).op \in {"JMPR", "RET"}
    BY <2>2 DEF OtherProfile, IsOther
  <2> QED
    BY <1>2, <2>2, <2>3 DEF Barriers
<1>6. ASSUME NEW t, NEW u, CaseJumps(c, m, a, f, t, u) PROVE FALSE
  <2>1. f.fail /\ Last(c).op = "JMP"
    BY <1>6 DEF CaseJumps, NoAnswer, JumpsProfile
  <2> QED
    BY <1>2, <2>1 DEF Barriers
<1> QED
  BY <1>1, <1>2, <1>3, <1>4, <1>5, <1>6 DEF a, f

\* A block that falls through into its successor is found to.
LEMMA FallsCanFall ==
  ASSUME NEW m \in Nat, NEW c, Form(c, m), NEW s, NEW ft, ft # 0, ft \in Range1(s), Falls(c)
  PROVE  CanFall(c, s, ft)
<1> DEFINE a == Ana(c)
           f == AnaF(c)
<1>1. \/ CaseFall(c, m, a, f)
      \/ \E t : CaseJump(c, m, a, f, t)
      \/ \E op, r, t : CaseCond(c, m, a, f, op, r, t)
      \/ \E op, r, t, u : CaseCond2(c, m, a, f, op, r, t, u)
      \/ \E t, u : CaseJumps(c, m, a, f, t, u)
      \/ CaseOther(c, m, a, f)
  BY AnaCases
<1> HIDE DEF a, f
<1>2. CASE CaseFall(c, m, a, f)
  <2>1. ~f.fail /\ f.tbb = 0
    BY <1>2 DEF CaseFall, Answer
  <2> QED
    BY <2>1 DEF CanFall, f
<1>3. ASSUME NEW t, CaseJump(c, m, a, f, t) PROVE FALSE
  BY <1>3 DEF CaseJump, JumpProfile
<1>4. ASSUME NEW op, NEW r, NEW t, CaseCond(c, m, a, f, op, r, t) PROVE CanFall(c, s, ft)
  <2>1. ~f.fail /\ f.cond = <<op, r>> /\ f.fbb = 0
    BY <1>4 DEF CaseCond, Answer
  <2>2. f.cond # <<>>
    BY <2>1
  <2> QED
    BY <2>1, <2>2 DEF CanFall, f
<1>5. ASSUME NEW op, NEW r, NEW t, NEW u, CaseCond2(c, m, a, f, op, r, t, u) PROVE FALSE
  BY <1>5 DEF CaseCond2, Cond2Profile
<1>6. ASSUME NEW t, NEW u, CaseJumps(c, m, a, f, t, u) PROVE FALSE
  BY <1>6 DEF CaseJumps, JumpsProfile
<1>7. ASSUME CaseOther(c, m, a, f) PROVE FALSE
  BY <1>7 DEF CaseOther, OtherProfile
<1> QED
  BY <1>1, <1>2, <1>3, <1>4, <1>5, <1>6, <1>7

\* What ExplicitPrior makes of a block that falls through.
ExplicitProfile(c, m, a, ft, d, ft2) ==
  /\ Rewrites(c, ft, d, ft2, m) /\ ~Falls(d) /\ Falls(c)
  /\ \A x : LeadsTo(d, x) => LeadsTo(c, x) \/ x = ft

\* A block that falls through, or may branch, into ft gets a branch to ft.
LEMMA RewriteExplicit ==
  ASSUME NEW m \in Nat, NEW c, Form(c, m), ~Halts(c), NEW a, a = Ana(c), NEW s, NEW ft \in Targets1,
         CanFall(c, s, ft), ft \notin {a.tbb, a.fbb}, NEW ft2,
         NEW d, d = IF a.tbb = 0 THEN Rewritten(c, ft, 0, a.cond) ELSE Rewritten(c, a.tbb, ft, a.cond)
  PROVE  ExplicitProfile(c, m, a, ft, d, ft2)
<1> DEFINE f == AnaF(c)
<1>1. \/ CaseFall(c, m, a, f)
      \/ CaseJump(c, m, a, f, ft)
      \/ \E op, r, t : CaseCond(c, m, a, f, op, r, t)
      \/ \E op, r, t, u : CaseCond2(c, m, a, f, op, r, t, u) /\ ft \in {t, u}
  BY CanFallCases
<1> HIDE DEF f
<1>2. CASE CaseFall(c, m, a, f)
  <2>1. a.tbb = 0 /\ a.cond = <<>> /\ FallProfile(c, m)
    BY <1>2 DEF CaseFall, Answer
  <2>2. RemoveBranch(c) = SubSeq(c, 1, m) /\ Falls(c) /\ \A nu, x : Leads(c, nu, x) = x
    BY <2>1 DEF FallProfile
  <2>3. d = InsertBranch(SubSeq(c, 1, m), ft, 0, <<>>)
    BY <2>1, <2>2 DEF Rewritten
  <2>4. Like(c, d, m) /\ EndsJumping(d, ft)
    BY <2>3, ToJump
  <2>5. Rewrites(c, ft, d, ft2, m)
    BY <2>2, <2>4 DEF Rewrites, EndsJumping
  <2> QED
    BY <2>2, <2>4, <2>5 DEF EndsJumping, ExplicitProfile
<1>3. CaseJump(c, m, a, f, ft) => FALSE
  BY DEF CaseJump, Answer
<1>4. ASSUME NEW op, NEW r, NEW t, NEW u, CaseCond2(c, m, a, f, op, r, t, u), ft \in {t, u} PROVE FALSE
  BY <1>4 DEF CaseCond2, Answer
<1>5. ASSUME NEW op, NEW r, NEW t, CaseCond(c, m, a, f, op, r, t)
      PROVE  /\ Rewrites(c, ft, d, ft2, m) /\ ~Falls(d) /\ Falls(c)
             /\ \A x : LeadsTo(d, x) => LeadsTo(c, x) \/ x = ft
  <2>1. /\ t \in Targets1 /\ op \in CondBranches /\ r \in 1..NumBlocks
        /\ a.tbb = t /\ a.cond = <<op, r>> /\ CondProfile(c, m, op, r, t)
    BY <1>5 DEF CaseCond, Answer
  <2>2. /\ RemoveBranch(c) = SubSeq(c, 1, m) /\ Falls(c)
        /\ \A nu, x : Leads(c, nu, x) = IF Taken(op, nu[r]) THEN t ELSE x
        /\ \A x : LeadsTo(c, x) <=> x = t
        /\ \A S : RegsIn(c, S) <=> r \in S
    BY <2>1 DEF CondProfile
  <2>3. t # 0
    BY <2>1 DEF Targets1
  <2>4. d = InsertBranch(SubSeq(c, 1, m), t, ft, <<op, r>>)
    BY <2>1, <2>2, <2>3 DEF Rewritten
  <2>5. Like(c, d, m) /\ EndsChoosing(d, op, r, t, ft)
    BY <2>1, <2>4, ToCond2
  <2>6. Rewrites(c, ft, d, ft2, m)
    BY <2>2, <2>5 DEF Rewrites, EndsChoosing
  <2> QED
    BY <2>2, <2>5, <2>6 DEF EndsChoosing
<1> QED
  BY <1>1, <1>2, <1>3, <1>4, <1>5 DEF ExplicitProfile

\* A jump to ft is added to a block that may fall through to it and does not
\* choose between two destinations already.
LEMMA RewriteInsert ==
  ASSUME NEW m \in Nat, NEW c, Form(c, m), ~Halts(c), NEW a, a = Ana(c), NEW s, NEW ft \in Targets1,
         CanFall(c, s, ft), a.tbb = 0 \/ a.fbb = 0, NEW ft2,
         NEW d, d = InsertBranch(c, ft, 0, <<>>)
  PROVE  /\ Rewrites(c, ft, d, ft2, m) /\ ~Falls(d)
         /\ \A x : LeadsTo(d, x) => LeadsTo(c, x) \/ x = ft
<1> DEFINE f == AnaF(c)
<1>1. \/ CaseFall(c, m, a, f)
      \/ CaseJump(c, m, a, f, ft)
      \/ \E op, r, t : CaseCond(c, m, a, f, op, r, t)
      \/ \E op, r, t, u : CaseCond2(c, m, a, f, op, r, t, u) /\ ft \in {t, u}
  BY CanFallCases
<1> HIDE DEF f
<1>2. CASE CaseFall(c, m, a, f)
  <2>1. FallProfile(c, m) /\ IsFall(c, m)
    BY <1>2 DEF CaseFall, Answer
  <2>2. IsJump(d, m, ft) /\ \A i \in 1..m : d[i] = c[i]
    BY <2>1, InsertJump
  <2>3. JumpProfile(d, m, ft)
    BY <2>2, JumpFacts
  <2>4. Like(c, d, m)
    BY <2>2 DEF Like, IsJump
  <2> QED
    BY <2>1, <2>3, <2>4 DEF FallProfile, JumpProfile, Rewrites
<1>3. CASE CaseJump(c, m, a, f, ft)
  <2>1. JumpProfile(c, m, ft) /\ IsJump(c, m, ft)
    BY <1>3 DEF CaseJump, Answer
  <2>2. IsJumps(d, m, ft, ft) /\ \A i \in 1..m : d[i] = c[i]
    <3>1. IsJumps(InsertBranch(c, ft, 0, <<>>), m, ft, ft)
      BY <2>1, InsertAfter
    <3>2. \A i \in 1..m : InsertBranch(c, ft, 0, <<>>)[i] = c[i]
      BY <2>1, InsertAfter
    <3> QED
      BY <3>1, <3>2
  <2>3. JumpsProfile(d, m, ft, ft)
    BY <2>2, JumpsFacts
  <2>4. Like(c, d, m)
    BY <2>2 DEF Like, IsJumps
  <2> QED
    BY <2>1, <2>3, <2>4 DEF JumpsProfile, JumpProfile, Rewrites
<1>4. ASSUME NEW op, NEW r, NEW t, NEW u, CaseCond2(c, m, a, f, op, r, t, u) PROVE FALSE
  BY <1>4 DEF CaseCond2, Answer, Targets1
<1>5. ASSUME NEW op, NEW r, NEW t, CaseCond(c, m, a, f, op, r, t)
      PROVE  /\ Rewrites(c, ft, d, ft2, m) /\ ~Falls(d)
             /\ \A x : LeadsTo(d, x) => LeadsTo(c, x) \/ x = ft
  <2>1. /\ t \in Targets1 /\ op \in CondBranches /\ r \in 1..NumBlocks
        /\ CondProfile(c, m, op, r, t) /\ IsCond(c, m, op, r, t)
    BY <1>5 DEF CaseCond, Answer
  <2>2. IsCond2(d, m, op, r, t, ft) /\ \A i \in 1..m : d[i] = c[i]
    <3>1. IsCond2(InsertBranch(c, ft, 0, <<>>), m, op, r, t, ft)
      BY <2>1, InsertAfter
    <3>2. \A i \in 1..m : InsertBranch(c, ft, 0, <<>>)[i] = c[i]
      BY <2>1, InsertAfter
    <3> QED
      BY <3>1, <3>2
  <2>3. Cond2Profile(d, m, op, r, t, ft)
    BY <2>2, Cond2Facts
  <2>4. Like(c, d, m)
    BY <2>2 DEF Like, IsCond2
  <2> QED
    BY <2>1, <2>3, <2>4 DEF CondProfile, Cond2Profile, Rewrites
<1> QED
  BY <1>1, <1>2, <1>3, <1>4, <1>5

\* Instructions d are c with some of the destinations old replaced by new.
Retargeted(c, d, old, new) ==
  /\ d \in Seq(Instrs) /\ Len(d) = Len(c)
  /\ \A i \in 1..Len(c) :
       /\ d[i].op = c[i].op /\ d[i].reg = c[i].reg /\ Len(d[i].to) = Len(c[i].to)
       /\ \A j \in 1..Len(c[i].to) :
            d[i].to[j] = c[i].to[j] \/ (c[i].to[j] = old /\ d[i].to[j] = new)
       /\ c[i].op \notin Terminators => d[i] = c[i]

\* What retargeting branches keeps and changes.
RetargetProfile(c, d, old, new, m) ==
  /\ Like(c, d, m)
  /\ Falls(d) <=> Falls(c)
  /\ \A S : RegsIn(c, S) <=> RegsIn(d, S)
  /\ \A x : LeadsTo(d, x) => LeadsTo(c, x) \/ (x = new /\ LeadsTo(c, old))
  /\ \A nu, ft : Leads(d, nu, ft) = Leads(c, nu, ft) \/ (Leads(c, nu, ft) = old /\ Leads(d, nu, ft) = new)
  /\ IsOther(d, m) <=> IsOther(c, m)

\* Branches with one destination replaced lead to the new one wherever they
\* led to the old.
LEMMA Retarget ==
  ASSUME NEW m \in Nat, NEW c, Form(c, m), NEW old, NEW new \in Targets1, NEW d, Retargeted(c, d, old, new)
  PROVE  RetargetProfile(c, d, old, new, m)
<1> DEFINE n == Len(c)
<1>1. /\ c \in Seq(Instrs) /\ n \in Nat /\ m \in 0..n /\ n <= m + 2
      /\ \A i \in 1..m : IsWork(c[i]) /\ (c[i].op = "HALT" => i = n) /\ c[i].reg \in 1..NumBlocks
      /\ \A i \in (m + 1)..n :
           /\ c[i].op \in Terminators
           /\ c[i].op \in Analyzable => Len(c[i].to) = 1 /\ c[i].to[1] > 1
           /\ c[i].op \in CondBranches \cup {"JMPR"} => c[i].reg \in 1..NumBlocks
           /\ c[i].op = "JMPR" => Len(c[i].to) = 2 /\ c[i].to[1] > 1 /\ c[i].to[2] > 1
      /\ n = m + 2 => c[m + 1].op \in Analyzable /\ c[m + 2].op = "JMP"
      /\ Len(c) = n
  BY DEF Form
<1> HIDE DEF n
<1>2. /\ d \in Seq(Instrs) /\ Len(d) = n
      /\ \A i \in 1..n :
           /\ d[i].op = c[i].op /\ d[i].reg = c[i].reg /\ Len(d[i].to) = Len(c[i].to)
           /\ \A j \in 1..Len(c[i].to) :
                d[i].to[j] = c[i].to[j] \/ (c[i].to[j] = old /\ d[i].to[j] = new)
           /\ c[i].op \notin Terminators => d[i] = c[i]
  BY <1>1 DEF Retargeted
<1>3. new \in Nat /\ new > 1
  BY DEF Targets1
<1>4. \A i \in 1..m : i \in 1..n /\ c[i].op \notin Terminators
  <2>1. \A i \in 1..m : i \in 1..n
    BY <1>1
  <2> QED
    BY <1>1, <2>1 DEF IsWork, Terminators, Analyzable, CondBranches
<1>5. \A i \in 1..m : d[i] = c[i]
  BY <1>2, <1>4
<1>6. ASSUME NEW i \in (m + 1)..n
      PROVE  /\ i \in 1..n
             /\ d[i].op \in Analyzable => Len(d[i].to) = 1 /\ d[i].to[1] > 1
             /\ d[i].op = "JMPR" => Len(d[i].to) = 2 /\ d[i].to[1] > 1 /\ d[i].to[2] > 1
  <2>1. i \in 1..n
    BY <1>1, <1>6
  <2>2. d[i].op = c[i].op /\ Len(d[i].to) = Len(c[i].to)
    BY <1>2, <2>1
  <2>3. ASSUME d[i].op \in Analyzable PROVE Len(d[i].to) = 1 /\ d[i].to[1] > 1
    <3>1. Len(c[i].to) = 1 /\ c[i].to[1] > 1
      BY <1>1, <1>6, <2>2, <2>3
    <3>2. 1 \in 1..Len(c[i].to)
      BY <3>1
    <3>3. d[i].to[1] = c[i].to[1] \/ d[i].to[1] = new
      BY <1>2, <2>1, <3>2
    <3> QED
      BY <1>3, <2>2, <3>1, <3>3
  <2>4. ASSUME d[i].op = "JMPR" PROVE Len(d[i].to) = 2 /\ d[i].to[1] > 1 /\ d[i].to[2] > 1
    <3>1. Len(c[i].to) = 2 /\ c[i].to[1] > 1 /\ c[i].to[2] > 1
      BY <1>1, <1>6, <2>2, <2>4
    <3>2. 1 \in 1..Len(c[i].to) /\ 2 \in 1..Len(c[i].to)
      BY <3>1
    <3>3. /\ d[i].to[1] = c[i].to[1] \/ d[i].to[1] = new
          /\ d[i].to[2] = c[i].to[2] \/ d[i].to[2] = new
      BY <1>2, <2>1, <3>2
    <3> QED
      BY <1>3, <2>2, <3>1, <3>3
  <2> QED
    BY <2>1, <2>3, <2>4
<1>7. Form(d, m)
  <2>1. \A i \in 1..m : IsWork(d[i]) /\ (d[i].op = "HALT" => i = n) /\ d[i].reg \in 1..NumBlocks
    BY <1>1, <1>5
  <2>2. \A i \in (m + 1)..n : d[i].op \in Terminators /\ (d[i].op \in CondBranches \cup {"JMPR"} => d[i].reg \in 1..NumBlocks)
    BY <1>1, <1>2, <1>6
  <2>3. n = m + 2 => d[m + 1].op \in Analyzable /\ d[m + 2].op = "JMP"
    <3>1. SUFFICES ASSUME n = m + 2 PROVE d[m + 1].op \in Analyzable /\ d[m + 2].op = "JMP"
      OBVIOUS
    <3>2. m + 1 \in 1..n /\ m + 2 \in 1..n
      BY <1>1, <3>1
    <3> QED
      BY <1>1, <1>2, <3>1, <3>2
  <2> QED
    BY <1>1, <1>2, <1>6, <2>1, <2>2, <2>3 DEF Form
<1>8. Like(c, d, m)
  BY <1>5, <1>7 DEF Like
<1>9. Falls(d) <=> Falls(c)
  BY <1>1, <1>2 DEF Falls
<1>10. \A S : RegsIn(c, S) <=> RegsIn(d, S)
  BY <1>1, <1>2 DEF RegsIn
<1>11. ASSUME NEW x, LeadsTo(d, x) PROVE LeadsTo(c, x) \/ (x = new /\ LeadsTo(c, old))
  <2>1. PICK i \in 1..n : d[i].op \in Terminators \ {"RET"} /\ \E j \in 1..Len(d[i].to) : d[i].to[j] = x
    BY <1>2, <1>11 DEF LeadsTo
  <2>2. PICK j \in 1..Len(d[i].to) : d[i].to[j] = x
    BY <2>1
  <2>3. c[i].op \in Terminators \ {"RET"} /\ j \in 1..Len(c[i].to)
    BY <1>2, <2>1, <2>2
  <2>4. c[i].to[j] = x \/ (c[i].to[j] = old /\ x = new)
    BY <1>2, <2>2, <2>3
  <2>5. i \in 1..Len(c)
    BY <1>1
  <2> QED
    BY <2>3, <2>4, <2>5 DEF LeadsTo
<1>12. ASSUME NEW i \in 1..n, i > m, NEW nu, NEW x, NEW y, y = x \/ (x = old /\ y = new)
       PROVE  \/ Through(d[i], nu, y) = Through(c[i], nu, x)
              \/ Through(c[i], nu, x) = old /\ Through(d[i], nu, y) = new
  <2>0. i \in (m + 1)..n
    BY <1>1, <1>12
  <2>1. d[i].op = c[i].op /\ d[i].reg = c[i].reg
    BY <1>2
  <2>2. CASE c[i].op = "RET"
    BY <2>1, <2>2 DEF Through
  <2>3. CASE c[i].op = "JMPR"
    <3> DEFINE j == IF nu[c[i].reg] = "lt" THEN 1 ELSE 2
    <3>1. j \in 1..Len(c[i].to)
      BY <1>1, <2>0, <2>3
    <3>2. Through(c[i], nu, x) = c[i].to[j] /\ Through(d[i], nu, y) = d[i].to[j]
      BY <2>1, <2>3 DEF Through
    <3> HIDE DEF j
    <3> QED
      BY <1>2, <3>1, <3>2
  <2>4. CASE c[i].op \in Analyzable
    <3>1. 1 \in 1..Len(c[i].to)
      BY <1>1, <2>0, <2>4
    <3>2. d[i].to[1] = c[i].to[1] \/ (c[i].to[1] = old /\ d[i].to[1] = new)
      BY <1>2, <3>1
    <3>3. c[i].op # "RET" /\ c[i].op # "JMPR"
      BY <2>4 DEF Analyzable, CondBranches
    <3> QED
      BY <1>12, <2>1, <3>2, <3>3 DEF Through
  <2> QED
    BY <1>1, <2>0, <2>2, <2>3, <2>4 DEF Terminators
<1>13. ASSUME NEW nu, NEW ft
       PROVE  Leads(d, nu, ft) = Leads(c, nu, ft) \/ (Leads(c, nu, ft) = old /\ Leads(d, nu, ft) = new)
  <2>1. /\ Leads(c, nu, ft) = IF n = m THEN ft ELSE IF n = m + 1 THEN Through(c[m + 1], nu, ft)
                              ELSE Through(c[m + 1], nu, c[m + 2].to[1])
        /\ Leads(d, nu, ft) = IF n = m THEN ft ELSE IF n = m + 1 THEN Through(d[m + 1], nu, ft)
                              ELSE Through(d[m + 1], nu, d[m + 2].to[1])
    <3>1. Leads(c, nu, ft) = IF Len(c) = m THEN ft ELSE IF Len(c) = m + 1 THEN Through(c[m + 1], nu, ft)
                                ELSE Through(c[m + 1], nu, c[m + 2].to[1])
      BY LeadsForm
    <3>2. Leads(d, nu, ft) = IF Len(d) = m THEN ft ELSE IF Len(d) = m + 1 THEN Through(d[m + 1], nu, ft)
                                ELSE Through(d[m + 1], nu, d[m + 2].to[1])
      BY <1>7, LeadsForm
    <3>3. Len(c) = n /\ Len(d) = n
      BY <1>1, <1>2
    <3> QED
      BY <3>1, <3>2, <3>3
  <2>2. CASE n = m
    BY <2>1, <2>2
  <2>3. CASE n = m + 1
    <3>1. m + 1 \in 1..n /\ m + 1 > m
      BY <1>1, <2>3
    <3>2. /\ Leads(c, nu, ft) = Through(c[m + 1], nu, ft)
          /\ Leads(d, nu, ft) = Through(d[m + 1], nu, ft)
      BY <2>1, <2>3
    <3> QED
      BY <3>1, <3>2, <1>12
  <2>4. CASE n = m + 2
    <3>1. m + 1 \in 1..n /\ m + 1 > m /\ m + 2 \in 1..n /\ m + 2 \in (m + 1)..n /\ n # m /\ n # m + 1
      BY <1>1, <2>4
    <3>2. Len(c[m + 2].to) = 1
      BY <1>1, <2>4, <3>1 DEF Analyzable
    <3>3. d[m + 2].to[1] = c[m + 2].to[1] \/ (c[m + 2].to[1] = old /\ d[m + 2].to[1] = new)
      <4>1. 1 \in 1..Len(c[m + 2].to)
        BY <3>2
      <4> QED
        BY <1>2, <3>1, <4>1
    <3>4. /\ Leads(c, nu, ft) = Through(c[m + 1], nu, c[m + 2].to[1])
          /\ Leads(d, nu, ft) = Through(d[m + 1], nu, d[m + 2].to[1])
      BY <2>1, <3>1
    <3> QED
      BY <3>1, <3>3, <3>4, <1>12
  <2> QED
    BY <1>1, <2>2, <2>3, <2>4
<1>14. IsOther(d, m) <=> IsOther(c, m)
  <2>1. n = m + 1 => d[m + 1].op = c[m + 1].op
    <3>1. n = m + 1 => m + 1 \in 1..n
      BY <1>1
    <3> QED
      BY <1>2, <3>1
  <2> QED
    BY <1>1, <1>2, <1>7, <2>1 DEF IsOther
<1> QED
  BY <1>8, <1>9, <1>10, <1>11, <1>13, <1>14 DEF RetargetProfile

\* ReplaceUsesOfBlockWith retargets the branches but no jump table.
LEMMA UsesRetargeted ==
  ASSUME NEW m \in Nat, NEW c, Form(c, m), NEW old \in Targets1, NEW new \in Targets1, old # new,
         NEW d, d = ReplaceUses(c, old, new)
  PROVE  /\ Retargeted(c, d, old, new)
         /\ ~IsOther(c, m) => ~LeadsTo(d, old)
<1>1. /\ c \in Seq(Instrs) /\ Len(c) \in Nat /\ DOMAIN c = 1..Len(c)
      /\ m \in 0..Len(c) /\ Len(c) <= m + 2
      /\ \A i \in 1..m : IsWork(c[i])
      /\ \A i \in (m + 1)..Len(c) : c[i].op \in Analyzable => Len(c[i].to) = 1
      /\ \A i \in (m + 1)..Len(c) : c[i].op \in Terminators
      /\ Len(c) = m + 2 => c[m + 1].op \in Analyzable /\ c[m + 2].op = "JMP"
  BY DEF Form
<1>2. new \in Nat
  BY DEF Targets1
<1> DEFINE n == Len(c)
<1>3. /\ DOMAIN d = 1..n
      /\ \A i \in 1..n : d[i] = IF c[i].op \in Analyzable /\ c[i].to[1] = old
                                  THEN [c[i] EXCEPT !.to = <<new>>] ELSE c[i]
  BY <1>1 DEF ReplaceUses
<1>4. \A i \in 1..n : c[i].op \in Analyzable => Len(c[i].to) = 1
  <2>1. \A i \in 1..n : i \in 1..m \/ i \in (m + 1)..n
    BY <1>1
  <2>2. \A i \in 1..m : c[i].op \notin Analyzable
    BY <1>1 DEF IsWork, Analyzable, CondBranches
  <2> QED
    BY <1>1, <2>1, <2>2
<1>9. n = Len(c) /\ n \in Nat /\ (\A i \in 1..n : c[i] \in Instrs) /\ n >= m /\ n <= m + 2
  <2>0. c \in Seq(Instrs) /\ Len(c) \in Nat /\ m \in 0..Len(c) /\ Len(c) <= m + 2
    BY <1>1
  <2>1. \A i \in 1..Len(c) : c[i] \in Instrs
    BY <2>0
  <2>2. Len(c) >= m
    BY <2>0
  <2> QED
    BY <2>0, <2>1, <2>2
<1> HIDE DEF n
<1>5. ASSUME NEW i \in 1..n
      PROVE  /\ d[i] \in Instrs
             /\ d[i].op = c[i].op /\ d[i].reg = c[i].reg /\ Len(d[i].to) = Len(c[i].to)
             /\ \A j \in 1..Len(c[i].to) :
                  d[i].to[j] = c[i].to[j] \/ (c[i].to[j] = old /\ d[i].to[j] = new)
             /\ c[i].op \notin Terminators => d[i] = c[i]
             /\ c[i].op \in Analyzable => d[i].to[1] # old /\ Len(d[i].to) = 1
  <2>1. CASE c[i].op \in Analyzable /\ c[i].to[1] = old
    <3>1. d[i] = [c[i] EXCEPT !.to = <<new>>]
      BY <1>3, <2>1
    <3>2. c[i] \in Instrs /\ Len(c[i].to) = 1 /\ <<new>> \in Seq(Nat)
      BY <1>2, <1>4, <1>9, <2>1
    <3>3. d[i] \in Instrs /\ d[i].op = c[i].op /\ d[i].reg = c[i].reg /\ d[i].to = <<new>>
      BY <3>1, <3>2 DEF Instrs
    <3>4. c[i].op \in Terminators
      BY <2>1 DEF Terminators
    <3>5. \A j \in 1..Len(c[i].to) : j = 1
      BY <3>2
    <3> QED
      BY <2>1, <3>2, <3>3, <3>4, <3>5
  <2>2. CASE ~(c[i].op \in Analyzable /\ c[i].to[1] = old)
    <3>1. d[i] = c[i]
      BY <1>3, <2>2
    <3> QED
      BY <1>4, <1>9, <2>2, <3>1
  <2> QED
    BY <2>1, <2>2
<1>6. d \in Seq(Instrs) /\ Len(d) = n
  <2>1. d = [i \in 1..n |-> d[i]]
    BY <1>1, <1>9 DEF ReplaceUses
  <2>2. d \in [1..n -> Instrs]
    BY <1>5, <2>1
  <2> QED
    BY <1>9, <2>2
<1>7. Retargeted(c, d, old, new)
  BY <1>5, <1>6, <1>9 DEF Retargeted
<1>8. ASSUME ~IsOther(c, m), LeadsTo(d, old) PROVE FALSE
  <2>1. PICK i \in 1..n : d[i].op \in Terminators \ {"RET"} /\ \E j \in 1..Len(d[i].to) : d[i].to[j] = old
    BY <1>6, <1>8 DEF LeadsTo
  <2>2. c[i].op \in Terminators \ {"RET"}
    BY <1>5, <2>1
  <2>3. c[i].op \in Analyzable
    <3>1. SUFFICES ASSUME c[i].op = "JMPR" PROVE FALSE
      BY <2>2 DEF Terminators
    <3>2. i \notin 1..m
      BY <1>1, <3>1 DEF IsWork
    <3>3. i \in Nat /\ i > m /\ i <= n /\ (n = m + 1 \/ n = m + 2)
      <4>1. i \in Nat /\ i > m /\ i <= n
        BY <1>9, <3>2
      <4> QED
        BY <1>9, <4>1
    <3>4. "JMPR" \notin Analyzable
      BY DEF Analyzable, CondBranches
    <3>5. n # m + 2
      <4>1. SUFFICES ASSUME n = m + 2 PROVE FALSE
        OBVIOUS
      <4>2. i = m + 1 \/ i = m + 2
        BY <3>3, <4>1
      <4>3. c[m + 1].op \in Analyzable /\ c[m + 2].op = "JMP"
        BY <1>1, <1>9, <4>1
      <4> QED
        BY <3>1, <3>4, <4>2, <4>3
    <3>6. i = m + 1 /\ Len(c) = m + 1
      BY <1>9, <3>3, <3>5
    <3> QED
      BY <1>8, <3>1, <3>6 DEF IsOther
  <2>4. d[i].to[1] # old /\ Len(d[i].to) = 1
    BY <1>5, <2>3
  <2>5. PICK j \in 1..Len(d[i].to) : d[i].to[j] = old
    BY <2>1
  <2> QED
    BY <2>4, <2>5
<1> QED
  BY <1>7, <1>8

\* ReplaceMBBInJumpTables retargets the jump table but no branch.
LEMMA TablesRetargeted ==
  ASSUME NEW m \in Nat, NEW c, Form(c, m), NEW old \in Targets1, NEW new \in Targets1, old # new,
         NEW d, d = ReplaceMBBInJumpTables(c, old, new)
  PROVE  /\ Retargeted(c, d, old, new)
         /\ LeadsTo(d, old) => ~IsOther(c, m) /\ LeadsTo(c, old)
<1> DEFINE n == Len(c)
<1>1. /\ c \in Seq(Instrs) /\ n \in Nat /\ DOMAIN c = 1..n /\ Len(c) = n
      /\ \A i \in 1..n : c[i] \in Instrs
  <2>1. c \in Seq(Instrs)
    BY DEF Form
  <2> QED
    BY <2>1
<1> HIDE DEF n
<1>2. new \in Nat /\ old \in Nat
  BY DEF Targets1
<1>3. /\ DOMAIN d = 1..n
      /\ \A i \in 1..n : d[i] = IF c[i].op = "JMPR" THEN [c[i] EXCEPT !.to = ReplaceAll(c[i].to, old, new)]
                                                    ELSE c[i]
  BY <1>1 DEF ReplaceMBBInJumpTables
<1>4. ASSUME NEW i \in 1..n
      PROVE  /\ d[i] \in Instrs
             /\ d[i].op = c[i].op /\ d[i].reg = c[i].reg /\ Len(d[i].to) = Len(c[i].to)
             /\ \A j \in 1..Len(c[i].to) :
                  d[i].to[j] = c[i].to[j] \/ (c[i].to[j] = old /\ d[i].to[j] = new)
             /\ c[i].op \notin Terminators => d[i] = c[i]
             /\ c[i].op = "JMPR" => \A j \in 1..Len(d[i].to) : d[i].to[j] # old
             /\ c[i].op # "JMPR" => d[i] = c[i]
  <2>1. CASE c[i].op = "JMPR"
    <3> DEFINE t == c[i].to
               r == ReplaceAll(t, old, new)
    <3>1. d[i] = [c[i] EXCEPT !.to = r]
      BY <1>3, <2>1
    <3>2. t \in Seq(Nat) /\ c[i] \in Instrs
      BY <1>1 DEF Instrs
    <3>3. /\ r \in Seq(Nat) /\ Len(r) = Len(t)
          /\ \A j \in 1..Len(t) : r[j] = IF t[j] = old THEN new ELSE t[j]
      <4>1. r = [j \in 1..Len(t) |-> IF t[j] = old THEN new ELSE t[j]]
        BY DEF ReplaceAll
      <4>2. Len(t) \in Nat /\ \A j \in 1..Len(t) : t[j] \in Nat
        BY <3>2
      <4> HIDE DEF t
      <4>3. r \in [1..Len(t) -> Nat]
        BY <1>2, <4>1, <4>2
      <4> HIDE DEF r
      <4> QED
        BY <4>1, <4>2, <4>3
    <3> HIDE DEF r
    <3>4. d[i] \in Instrs /\ d[i].op = c[i].op /\ d[i].reg = c[i].reg /\ d[i].to = r
      BY <3>1, <3>2, <3>3 DEF Instrs
    <3>5. c[i].op \in Terminators
      BY <2>1 DEF Terminators
    <3> QED
      BY <2>1, <3>3, <3>4, <3>5
  <2>2. CASE c[i].op # "JMPR"
    <3>1. d[i] = c[i]
      BY <1>3, <2>2
    <3> QED
      BY <1>1, <2>2, <3>1
  <2> QED
    BY <2>1, <2>2
<1>5. d \in Seq(Instrs) /\ Len(d) = n
  <2>1. d = [i \in 1..n |-> d[i]]
    BY <1>1, <1>3 DEF ReplaceMBBInJumpTables
  <2>2. d \in [1..n -> Instrs]
    BY <1>4, <2>1
  <2> QED
    BY <1>1, <2>2
<1>6. Retargeted(c, d, old, new)
  BY <1>1, <1>4, <1>5 DEF Retargeted
<1>7. ASSUME LeadsTo(d, old) PROVE ~IsOther(c, m) /\ LeadsTo(c, old)
  <2>1. PICK i \in 1..n : d[i].op \in Terminators \ {"RET"} /\ \E j \in 1..Len(d[i].to) : d[i].to[j] = old
    BY <1>5, <1>7 DEF LeadsTo
  <2>2. c[i].op # "JMPR" /\ d[i] = c[i]
    BY <1>4, <2>1
  <2>3. LeadsTo(c, old)
    BY <1>1, <2>1, <2>2 DEF LeadsTo
  <2>4. ASSUME IsOther(c, m) PROVE FALSE
    <3>1. /\ n = m + 1 /\ c[m + 1].op \in {"JMPR", "RET"}
          /\ \A k \in 1..m : IsWork(c[k])
      BY <1>1, <2>4 DEF IsOther, Form
    <3>2. i # m + 1
      BY <2>1, <2>2, <3>1
    <3>3. i \in 1..m
      BY <3>1, <3>2
    <3>4. c[i].op \notin Terminators
      BY <3>1, <3>3 DEF IsWork, Terminators, Analyzable, CondBranches
    <3> QED
      BY <2>1, <2>2, <3>4
  <2> QED
    BY <2>3, <2>4
<1> QED
  BY <1>6, <1>7

\* Instructions d lead nowhere to old, and to new where c leads to old.
Redirects(c, d, old, new, m) ==
  /\ Like(c, d, m)
  /\ \A S : RegsIn(c, S) => RegsIn(d, S)
  /\ Falls(d) <=> Falls(c)
  /\ \A x : LeadsTo(d, x) => x # old /\ (LeadsTo(c, x) \/ (x = new /\ LeadsTo(c, old)))
  /\ \A nu, ft : Leads(d, nu, ft) = Leads(c, nu, ft) \/ (Leads(c, nu, ft) = old /\ Leads(d, nu, ft) = new)

\* A block that has no branch to old, only an entry of a jump table.
LEMMA RedirectTables ==
  ASSUME NEW m \in Nat, NEW c, Form(c, m), NEW old \in Targets1, NEW new \in Targets1, old # new,
         IsOther(c, m) \/ ~LeadsTo(c, old),
         NEW d, d = ReplaceMBBInJumpTables(c, old, new)
  PROVE  Redirects(c, d, old, new, m)
<1>1. Retargeted(c, d, old, new) /\ ~LeadsTo(d, old)
  BY TablesRetargeted
<1>2. RetargetProfile(c, d, old, new, m)
  BY <1>1, Retarget
<1> QED
  BY <1>1, <1>2 DEF RetargetProfile, Redirects

\* Both together leave no use of the old block.
LEMMA RedirectUses ==
  ASSUME NEW m \in Nat, NEW c, Form(c, m), NEW old \in Targets1, NEW new \in Targets1, old # new,
         NEW d, d = ReplaceMBBInJumpTables(ReplaceUses(c, old, new), old, new)
  PROVE  Redirects(c, d, old, new, m)
<1> DEFINE e == ReplaceUses(c, old, new)
<1>1. Retargeted(c, e, old, new) /\ (IsOther(c, m) \/ ~LeadsTo(e, old))
  BY UsesRetargeted
<1>d. d = ReplaceMBBInJumpTables(e, old, new)
  OBVIOUS
<1> HIDE DEF e
<1>2. RetargetProfile(c, e, old, new, m)
  BY <1>1, Retarget
<1>3. Form(e, m) /\ (IsOther(e, m) \/ ~LeadsTo(e, old))
  BY <1>1, <1>2 DEF RetargetProfile, Like
<1>4. Redirects(e, d, old, new, m)
  BY <1>d, <1>3, RedirectTables
<1> QED
  BY <1>2, <1>4 DEF RetargetProfile, Redirects, Like

\* What ForwardBlock makes of a predecessor.
RevectorProfile(c, s, d, q, old, t, m, T) ==
  /\ Redirects(c, d, old, t, m)
  /\ q \in Seq(T)
  /\ \A x : x \in Range1(q) => (x \in Range1(s) /\ x # old) \/ (x = t /\ old \in Range1(s))
  /\ \A x : LeadsTo(d, x) => x \in Range1(q)
  /\ Falls(c) => \A x : x \in Range1(s) /\ x # old => x \in Range1(q)

\* A predecessor of MBB, which branches to t instead.
LEMMA RevectoredIs ==
  ASSUME NEW m \in Nat, NEW c, Form(c, m), NEW T, NEW s \in Seq(T), NEW t \in T, t \in Targets1,
         MBB \in Targets1, MBB # t, \A x : LeadsTo(c, x) => x \in Range1(s),
         NEW r, r = Revectored(c, s, t), NEW d, d = ReplaceMBBInJumpTables(r.code, MBB, t)
  PROVE  RevectorProfile(c, s, d, r.succs, MBB, t, m, T)
<1> DEFINE s1 == ReplaceEdges(s, MBB, t)
           e == ReplaceUses(c, MBB, t)
           a == Ana(e)
           join == ~a.fail /\ a.tbb # 0 /\ a.tbb = a.fbb
<1>1. /\ s1 \in Seq(T)
      /\ \A x : x \in Range1(s1) <=> (x \in Range1(s) /\ x # MBB) \/ (x = t /\ MBB \in Range1(s))
  BY ReplacedEdges
<1>2. RetargetProfile(c, e, MBB, t, m) /\ (~IsOther(c, m) => ~LeadsTo(e, MBB))
  <2>1. Retargeted(c, e, MBB, t) /\ (~IsOther(c, m) => ~LeadsTo(e, MBB))
    BY UsesRetargeted
  <2> QED
    BY <2>1, Retarget
<1>3. Form(e, m) /\ (~LeadsTo(e, MBB) \/ IsOther(e, m))
  BY <1>2 DEF RetargetProfile, Like
<1>4. /\ join => /\ r.code = Rewritten(a.code, a.tbb, 0, <<>>)
                 /\ r.succs = CorrectExtraCFGEdges(s1, Analysis(a.tbb, 0, <<>>, c), 0)
      /\ ~join => r.code = a.code /\ r.succs = s1
  BY DEF Revectored, Ana
<1>a. a = Ana(e)
  OBVIOUS
<1> HIDE DEF s1, e, a
<1>6. ASSUME NEW x, LeadsTo(e, x), x # MBB PROVE x \in Range1(s1)
  <2>1. LeadsTo(c, x) \/ (x = t /\ LeadsTo(c, MBB))
    BY <1>2, <1>6 DEF RetargetProfile
  <2> QED
    BY <1>1, <1>6, <2>1
<1>7. CASE join
  <2>1. /\ LeadsTo(e, a.tbb) /\ ~Falls(e) /\ ~Halts(e) /\ a.code = e
        /\ Rewrites(e, 0, Rewritten(e, a.tbb, 0, <<>>), 0, m)
        /\ EndsJumping(Rewritten(e, a.tbb, 0, <<>>), a.tbb)
    BY <1>3, <1>7, <1>a, RewriteJoin
  <2> DEFINE g == Rewritten(e, a.tbb, 0, <<>>)
  <2>2. PICK op, rr, x, u : CaseCond2(e, m, a, AnaF(e), op, rr, x, u)
    BY <1>3, <1>7, <1>a, TwoTargets
  <2>3. x = a.tbb /\ u = x /\ IsCond2(e, m, op, rr, x, u) /\ Cond2Profile(e, m, op, rr, x, u) /\ x \in Targets1
    BY <1>7, <2>2 DEF CaseCond2, Answer
  <2>4. ~IsOther(e, m)
    BY <2>3 DEF IsCond2, IsOther, Form
  <2>5. \A nu, ft : Leads(e, nu, ft) = a.tbb
    BY <2>3 DEF Cond2Profile
  <2>6. a.tbb # MBB /\ a.tbb \in Range1(s1)
    BY <1>3, <1>6, <2>1, <2>4
  <2>7. /\ Like(e, g, m) /\ (\A S : RegsIn(g, S)) /\ ~Falls(g)
        /\ (\A y : LeadsTo(g, y) <=> y = a.tbb)
        /\ \A nu, ft : Leads(g, nu, ft) = a.tbb
    BY <2>1 DEF Rewrites, EndsJumping
  <2>8. r.code = g
    BY <1>4, <1>7, <2>1
  <2> HIDE DEF g
  <2>9. Form(g, m) /\ ~LeadsTo(g, MBB)
    BY <2>6, <2>7 DEF Like
  <2>10. Redirects(g, d, MBB, t, m)
    BY <2>8, <2>9, RedirectTables
  <2>11. /\ \A x1 : LeadsTo(d, x1) => x1 = a.tbb
         /\ \A nu, ft : Leads(d, nu, ft) = a.tbb
    BY <2>6, <2>7, <2>9, <2>10 DEF Redirects
  <2>12. Redirects(c, d, MBB, t, m)
    <3>1. Like(c, d, m)
      BY <1>2, <2>7, <2>10 DEF RetargetProfile, Redirects, Like
    <3>2. \A S : RegsIn(d, S)
      BY <2>7, <2>10 DEF Redirects
    <3>3. ~Falls(d) /\ ~Falls(c)
      BY <1>2, <2>1, <2>7, <2>10 DEF Redirects, RetargetProfile
    <3>4. \A y : LeadsTo(d, y) => y # MBB /\ (LeadsTo(c, y) \/ (y = t /\ LeadsTo(c, MBB)))
      BY <1>2, <2>1, <2>6, <2>11 DEF RetargetProfile
    <3>5. \A nu, ft : Leads(d, nu, ft) = Leads(c, nu, ft) \/ (Leads(c, nu, ft) = MBB /\ Leads(d, nu, ft) = t)
      BY <1>2, <2>5, <2>11 DEF RetargetProfile
    <3> QED
      BY <3>1, <3>2, <3>3, <3>4, <3>5 DEF Redirects
  <2> DEFINE b == Analysis(a.tbb, 0, <<>>, c)
  <2>13. b.tbb = a.tbb /\ b.fbb = 0 /\ b.cond = <<>> /\ a.tbb # 0
    BY <1>7, AnalysisFields
  <2>14. r.succs = CorrectExtraCFGEdges(s1, b, 0)
    BY <1>4, <1>7
  <2> HIDE DEF b
  <2>15. /\ r.succs \in Seq(T) /\ Range1(r.succs) \subseteq Range1(s1)
         /\ a.tbb \in Range1(r.succs)
    BY <1>1, <2>6, <2>13, <2>14, CorrectedEdges
  <2>16. ~Falls(c)
    BY <1>2, <2>1 DEF RetargetProfile
  <2> QED
    BY <1>1, <2>11, <2>12, <2>15, <2>16 DEF RevectorProfile
<1>8. CASE ~join
  <2> DEFINE g == a.code
  <2>1. ErasedProfile(e, g, m)
    BY <1>3, <1>a, Erase
  <2>2. r.code = g /\ r.succs = s1
    BY <1>4, <1>8
  <2>3. ~IsOther(e, m) => ~LeadsTo(g, MBB)
    BY <1>3, <2>1 DEF ErasedProfile
  <2>4. Form(g, m) /\ (IsOther(g, m) \/ ~LeadsTo(g, MBB))
    <3>1. IsOther(e, m) => g = e
      <4>1. SUFFICES ASSUME IsOther(e, m) PROVE g = e
        OBVIOUS
      <4>2. Ana(e) = Failed(e)
        BY <4>1, OtherFacts DEF OtherProfile
      <4> QED
        BY <1>a, <4>2, FailedFields
    <3> QED
      BY <2>1, <2>3, <3>1 DEF ErasedProfile, Like
  <2> HIDE DEF g
  <2>5. Redirects(g, d, MBB, t, m)
    BY <2>2, <2>4, RedirectTables
  <2>6. Redirects(c, d, MBB, t, m)
    <3>1. Like(c, d, m)
      BY <1>2, <2>1, <2>5 DEF RetargetProfile, ErasedProfile, Redirects, Like
    <3>2. \A S : RegsIn(c, S) => RegsIn(d, S)
      BY <1>2, <2>1, <2>5 DEF RetargetProfile, ErasedProfile, Redirects
    <3>3. Falls(d) <=> Falls(c)
      BY <1>2, <2>1, <2>5 DEF Redirects, ErasedProfile, RetargetProfile
    <3>4. \A y : LeadsTo(d, y) => y # MBB /\ (LeadsTo(c, y) \/ (y = t /\ LeadsTo(c, MBB)))
      BY <1>2, <2>1, <2>5 DEF RetargetProfile, ErasedProfile, Redirects
    <3>5. \A nu, ft : Leads(d, nu, ft) = Leads(c, nu, ft) \/ (Leads(c, nu, ft) = MBB /\ Leads(d, nu, ft) = t)
      BY <1>2, <2>1, <2>5 DEF RetargetProfile, ErasedProfile, Redirects
    <3> QED
      BY <3>1, <3>2, <3>3, <3>4, <3>5 DEF Redirects
  <2>7. \A x : LeadsTo(d, x) => x \in Range1(s1)
    BY <1>1, <2>6 DEF Redirects
  <2> QED
    BY <1>1, <2>2, <2>6, <2>7 DEF RevectorProfile
<1> QED
  BY <1>7, <1>8

(***************************************************************************)
(* The next work after a given work.                                       *)
(***************************************************************************)
RestProfile(c, m, i, r) ==
  /\ (r # <<>> /\ IsWork(r[1])) <=> i < m
  /\ i < m => r[1] = c[i + 1]
  /\ \A nu, ft : Leads(r, nu, ft) = Leads(c, nu, ft)

\* What follows a piece of work in its block.
LEMMA RestOf ==
  ASSUME NEW m \in Nat, NEW c, Form(c, m), NEW i \in 1..m, NEW r, r = SubSeq(c, i + 1, Len(c))
  PROVE  RestProfile(c, m, i, r)
<1> DEFINE n == Len(c)
<1>1. /\ c \in Seq(Instrs) /\ n \in Nat /\ m <= n /\ n <= m + 2 /\ i \in Nat /\ 1 <= i /\ i <= m
      /\ Len(c) = n
  BY DEF Form
<1>2. /\ \A k \in 1..m : IsWork(c[k]) /\ (c[k].op = "HALT" => k = n) /\ c[k].reg \in 1..NumBlocks
      /\ \A k \in (m + 1)..n :
           /\ c[k].op \in Terminators
           /\ c[k].op \in Analyzable => Len(c[k].to) = 1 /\ c[k].to[1] > 1
           /\ c[k].op \in CondBranches \cup {"JMPR"} => c[k].reg \in 1..NumBlocks
           /\ c[k].op = "JMPR" => Len(c[k].to) = 2 /\ c[k].to[1] > 1 /\ c[k].to[2] > 1
      /\ n = m + 2 => c[m + 1].op \in Analyzable /\ c[m + 2].op = "JMP"
  BY DEF Form
<1> HIDE DEF n
<1>3. r \in Seq(Instrs) /\ Len(r) = n - i /\ \A k \in 1..(n - i) : r[k] = c[i + k]
  BY <1>1
<1> DEFINE p == m - i
           q == n - i
<1>4. p \in Nat /\ q \in Nat /\ p <= q /\ q <= p + 2 /\ p \in 0..q /\ Len(r) = q
  BY <1>1, <1>3
<1>5. \A k \in 1..p : r[k] = c[i + k] /\ i + k \in 1..m /\ (i + k = n => k = q)
  BY <1>1, <1>3
<1>6. \A k \in (p + 1)..q : r[k] = c[i + k] /\ i + k \in (m + 1)..n
  BY <1>1, <1>3
<1>7. (q = p <=> n = m) /\ (q = p + 1 <=> n = m + 1) /\ (q = p + 2 <=> n = m + 2)
  BY <1>1
<1>v. n >= m + 1 => r[p + 1] = c[m + 1]
  <2>1. SUFFICES ASSUME n >= m + 1 PROVE r[p + 1] = c[m + 1]
    OBVIOUS
  <2>2. p + 1 \in 1..(n - i) /\ i + (p + 1) = m + 1
    BY <1>1, <2>1
  <2> HIDE DEF p, q
  <2> QED
    BY <1>3, <2>2
<1>w. n = m + 2 => r[p + 2] = c[m + 2]
  <2>1. SUFFICES ASSUME n = m + 2 PROVE r[p + 2] = c[m + 2]
    OBVIOUS
  <2>2. p + 2 \in 1..(n - i) /\ i + (p + 2) = m + 2
    BY <1>1, <2>1
  <2> HIDE DEF p, q
  <2> QED
    BY <1>3, <2>2
<1>8. p > 0 <=> i < m
  BY <1>1
<1>9. r # <<>> <=> q > 0
  BY <1>3, <1>4
<1> HIDE DEF p, q
<1>10. Form(r, p)
  <2>1. \A k \in 1..p : IsWork(r[k]) /\ (r[k].op = "HALT" => k = q) /\ r[k].reg \in 1..NumBlocks
    BY <1>2, <1>5
  <2>2. \A k \in (p + 1)..q :
           /\ r[k].op \in Terminators
           /\ r[k].op \in Analyzable => Len(r[k].to) = 1 /\ r[k].to[1] > 1
           /\ r[k].op \in CondBranches \cup {"JMPR"} => r[k].reg \in 1..NumBlocks
           /\ r[k].op = "JMPR" => Len(r[k].to) = 2 /\ r[k].to[1] > 1 /\ r[k].to[2] > 1
    BY <1>2, <1>6, ZenonT(60)
  <2>3. q = p + 2 => r[p + 1].op \in Analyzable /\ r[p + 2].op = "JMP"
    <3>1. n = m + 2 => n >= m + 1
      BY <1>1
    <3> QED
      BY <1>2, <1>7, <1>v, <1>w, <3>1
  <2> QED
    BY <1>3, <1>4, <2>1, <2>2, <2>3 DEF Form
<1>11. ASSUME NEW nu, NEW ft PROVE Leads(r, nu, ft) = Leads(c, nu, ft)
  <2>1. Leads(c, nu, ft) = IF n = m THEN ft ELSE IF n = m + 1 THEN Through(c[m + 1], nu, ft)
                              ELSE Through(c[m + 1], nu, c[m + 2].to[1])
    <3>1. Leads(c, nu, ft) = IF Len(c) = m THEN ft ELSE IF Len(c) = m + 1 THEN Through(c[m + 1], nu, ft)
                                ELSE Through(c[m + 1], nu, c[m + 2].to[1])
      BY LeadsForm
    <3>2. Len(c) = n
      BY <1>1
    <3> QED
      BY <3>1, <3>2
  <2>2. Leads(r, nu, ft) = IF q = p THEN ft ELSE IF q = p + 1 THEN Through(r[p + 1], nu, ft)
                              ELSE Through(r[p + 1], nu, r[p + 2].to[1])
    <3>0. PICK z, y : z \in Nat /\ z = p /\ y = r
      BY <1>4
    <3>2. Form(y, z)
      BY <1>10, <3>0
    <3>3. Leads(y, nu, ft) = IF Len(y) = z THEN ft ELSE IF Len(y) = z + 1 THEN Through(y[z + 1], nu, ft)
                              ELSE Through(y[z + 1], nu, y[z + 2].to[1])
      BY <3>2, LeadsForm
    <3>1. Leads(r, nu, ft) = IF Len(r) = p THEN ft ELSE IF Len(r) = p + 1 THEN Through(r[p + 1], nu, ft)
                              ELSE Through(r[p + 1], nu, r[p + 2].to[1])
      BY <3>0, <3>3
    <3> QED
      BY <1>4, <3>1
  <2>3. n # m => n >= m + 1
    BY <1>1
  <2>4. n # m => n = m + 1 \/ n = m + 2
    BY <1>1
  <2>5. CASE n = m
    BY <1>7, <2>1, <2>2, <2>5
  <2>6. CASE n = m + 1
    <3>1. n # m /\ q # p /\ q = p + 1 /\ r[p + 1] = c[m + 1]
      BY <1>1, <1>4, <1>7, <1>v, <2>3, <2>6
    <3> QED
      BY <2>1, <2>2, <2>6, <3>1
  <2>7. CASE n = m + 2
    <3>1. n # m /\ n # m + 1 /\ q # p /\ q # p + 1 /\ r[p + 1] = c[m + 1] /\ r[p + 2] = c[m + 2]
      BY <1>1, <1>4, <1>7, <1>v, <1>w, <2>3, <2>7
    <3>2. Leads(c, nu, ft) = Through(c[m + 1], nu, c[m + 2].to[1])
      BY <2>1, <3>1
    <3>3. Leads(r, nu, ft) = Through(r[p + 1], nu, r[p + 2].to[1])
      BY <2>2, <3>1
    <3> QED
      BY <3>1, <3>2, <3>3
  <2> QED
    BY <2>4, <2>5, <2>6, <2>7
<1>12. i < m => r[1] = c[i + 1] /\ IsWork(r[1]) /\ r # <<>>
  <2>1. i < m => 1 \in 1..(n - i) /\ i + 1 \in 1..m /\ q > 0
    BY <1>1, <1>4, <1>8
  <2> QED
    BY <1>2, <1>3, <1>9, <2>1
<1>13. r # <<>> /\ IsWork(r[1]) => i < m
  <2>1. SUFFICES ASSUME r # <<>>, IsWork(r[1]), ~(i < m) PROVE FALSE
    OBVIOUS
  <2>2. p = 0 /\ q > 0
    BY <1>4, <1>8, <1>9, <2>1
  <2>3. 1 \in (p + 1)..q
    BY <1>4, <2>2
  <2>4. r[1].op \in Terminators
    BY <1>2, <1>6, <2>3
  <2> QED
    BY <2>1, <2>4 DEF IsWork, Terminators, Analyzable, CondBranches
<1> QED
  BY <1>11, <1>12, <1>13 DEF RestProfile

\* Every piece of work is in one place.
OwnWork(l, cd) ==
  \A b1, b2 \in Range1(l) : \A i \in DOMAIN cd[b1], j \in DOMAIN cd[b2] :
    IsWork(cd[b1][i]) /\ IsWork(cd[b2][j]) /\ cd[b1][i].reg = cd[b2][j].reg => b1 = b2 /\ i = j

\* The next work: in the same block, or what the end of the block reaches.
LEMMA NextWorkIs ==
  ASSUME NEW l, NEW cd, OwnWork(l, cd), NEW b \in Range1(l), NEW m \in Nat, Form(cd[b], m),
         NEW i \in 1..m, NEW nu
  PROVE  NextWork(l, cd, cd[b][i].reg, nu) =
           IF cd[b][i].op = "HALT" THEN Exit
           ELSE IF i < m THEN cd[b][i + 1].reg
           ELSE Reached(l, cd, nu, Leads(cd[b], nu, Following(l, b)))
<1> DEFINE k == cd[b][i].reg
           e == CHOOSE e \in Range1(l) : \E j \in DOMAIN cd[e] : IsWork(cd[e][j]) /\ cd[e][j].reg = k
           h == CHOOSE j \in DOMAIN cd[e] : IsWork(cd[e][j]) /\ cd[e][j].reg = k
           r == SubSeq(cd[b], i + 1, Len(cd[b]))
<1>1. i \in DOMAIN cd[b] /\ IsWork(cd[b][i])
  BY DEF Form
<1>2. e = b
  <2>1. \E x \in Range1(l) : \E j \in DOMAIN cd[x] : IsWork(cd[x][j]) /\ cd[x][j].reg = k
    BY <1>1
  <2>2. e \in Range1(l) /\ \E j \in DOMAIN cd[e] : IsWork(cd[e][j]) /\ cd[e][j].reg = k
    BY <2>1
  <2> HIDE DEF e
  <2> QED
    BY <1>1, <2>2 DEF OwnWork
<1>3. h = i
  <2>1. \E j \in DOMAIN cd[e] : IsWork(cd[e][j]) /\ cd[e][j].reg = k
    BY <1>1, <1>2
  <2>2. h \in DOMAIN cd[e] /\ IsWork(cd[e][h]) /\ cd[e][h].reg = k
    BY <2>1
  <2> HIDE DEF e, h
  <2> QED
    BY <1>1, <1>2, <2>2 DEF OwnWork
<1>4. NextWork(l, cd, k, nu) =
        IF cd[e][h].op = "HALT" THEN Exit
        ELSE IF SubSeq(cd[e], h + 1, Len(cd[e])) # <<>> /\ IsWork(SubSeq(cd[e], h + 1, Len(cd[e]))[1])
          THEN SubSeq(cd[e], h + 1, Len(cd[e]))[1].reg
        ELSE Reached(l, cd, nu, Leads(SubSeq(cd[e], h + 1, Len(cd[e])), nu, Following(l, e)))
  BY DEF NextWork
<1>5. NextWork(l, cd, k, nu) =
        IF cd[b][i].op = "HALT" THEN Exit
        ELSE IF r # <<>> /\ IsWork(r[1]) THEN r[1].reg
        ELSE Reached(l, cd, nu, Leads(r, nu, Following(l, b)))
  <2> HIDE DEF e, h
  <2> QED
    BY <1>2, <1>3, <1>4
<1>r. r = SubSeq(cd[b], i + 1, Len(cd[b]))
  OBVIOUS
<1> HIDE DEF r
<1>6. RestProfile(cd[b], m, i, r)
  BY <1>r, RestOf
<1> QED
  BY <1>5, <1>6 DEF RestProfile

(***************************************************************************)
(* The work that control does first when it comes to a block.              *)
(***************************************************************************)
NextOf(l, cd, nu) == [b \in Range1(l) |-> Leads(cd[b], nu, Following(l, b))]
FirstWork(cd) == [e \in Nat \cup {Exit} |-> IF e \in {Exit, OffEnd} THEN e ELSE cd[e][1].reg]
Gets(l, cd, nu, d) == FirstOf(Passed(l, cd), NextOf(l, cd, nu), FirstWork(cd), d)
PickOf(C) == IF C = {} THEN Loop ELSE CHOOSE x \in C : TRUE
Places(l) == Range1(l) \cup {Exit, OffEnd}

\* The work that is reached from a block, as a set with at most one element.
LEMMA ReachedIs ==
  ASSUME NEW l, Range1(l) \subseteq Nat, NEW cd, NEW nu, NEW d \in Places(l),
         \A b \in Range1(l) : Leads(cd[b], nu, Following(l, b)) \in Places(l)
  PROVE  Reached(l, cd, nu, d) = PickOf(Gets(l, cd, nu, d))
<1> DEFINE P == Passed(l, cd)
           Next(b) == Leads(cd[b], nu, Following(l, b))
           Trails == {S \in SUBSET P : d \in S /\ \A b \in S : Next(b) \in P => Next(b) \in S}
           First(e) == IF e \in {Exit, OffEnd} THEN e ELSE cd[e][1].reg
           Ends(S) == {First(e) : e \in {Next(b) : b \in S} \ P}
           Common == {x \in Ends(P) : \A S \in Trails : x \in Ends(S)}
           N == NextOf(l, cd, nu)
           F == FirstWork(cd)
<1>1. Reached(l, cd, nu, d) = IF d \notin P THEN First(d) ELSE PickOf(Common)
  BY DEF Reached, PickOf
<1>2. P \subseteq Range1(l)
  BY DEF Passed
<1>3. \A e \in Places(l) : F[e] = First(e)
  BY DEF FirstWork, Places, Exit, OffEnd
<1>4. \A b \in P : N[b] = Next(b) /\ Next(b) \in Places(l)
  BY <1>2 DEF NextOf
<1> HIDE DEF P, Next, First, N, F
<1>5. CASE d \notin P
  <2>1. Gets(l, cd, nu, d) = {First(d)}
    BY <1>3, <1>5 DEF Gets, FirstOf, P, N, F
  <2> QED
    BY <1>1, <1>5, <2>1 DEF PickOf
<1>6. CASE d \in P
  <2>1. ASSUME NEW S \in SUBSET P, NEW x PROVE x \in Ends(S) <=> x \in EndsOf(P, N, F, S)
    <3>1. x \in Ends(S) <=> \E b \in S : Next(b) \notin P /\ x = First(Next(b))
      OBVIOUS
    <3>2. x \in EndsOf(P, N, F, S) <=> \E b \in S : N[b] \notin P /\ x = F[N[b]]
      BY EndOf
    <3>3. \A b \in S : N[b] = Next(b) /\ F[N[b]] = First(Next(b))
      BY <1>3, <1>4
    <3> QED
      BY <3>1, <3>2, <3>3
  <2>2. \A S : S \in Trails <=> S \in TrailsOf(P, N, d)
    BY <1>4 DEF TrailsOf
  <2>3. \A S : S \in Trails => S \in SUBSET P
    OBVIOUS
  <2>4. \A x : x \in Common <=> x \in Ends(P) /\ \A S \in Trails : x \in Ends(S)
    OBVIOUS
  <2> HIDE DEF Ends, Trails, Common
  <2>5. \A x : x \in FirstOf(P, N, F, d) <=>
           x \in EndsOf(P, N, F, P) /\ \A S \in TrailsOf(P, N, d) : x \in EndsOf(P, N, F, S)
    BY <1>6, FirstIs
  <2>6. \A x : x \in Common <=> x \in FirstOf(P, N, F, d)
    <3>1. P \in SUBSET P
      OBVIOUS
    <3> QED
      BY <2>1, <2>2, <2>3, <2>4, <2>5, <3>1
  <2>7. Common \subseteq FirstOf(P, N, F, d) /\ FirstOf(P, N, F, d) \subseteq Common
    BY <2>6
  <2>8. Common = FirstOf(P, N, F, d)
    BY <2>7
  <2>9. Gets(l, cd, nu, d) = FirstOf(P, N, F, d)
    BY DEF Gets, P, N, F
  <2> QED
    BY <1>1, <1>6, <2>8, <2>9
<1> QED
  BY <1>5, <1>6

\* A well formed block.
Formed(c) == \E m \in Nat : Form(c, m)

\* Branches lead into the layout.
Inside(l, cd) == \A b \in Range1(l) : \A t : LeadsTo(cd[b], t) => t \in Range1(l)

\* The work of a block is its front, and it halts only at its end.
LEMMA WorkIndex ==
  ASSUME NEW m \in Nat, NEW c, Form(c, m)
  PROVE  /\ c \in Seq(Instrs) /\ DOMAIN c = 1..Len(c) /\ Len(c) \in Nat /\ m <= Len(c)
         /\ \A i \in DOMAIN c : IsWork(c[i]) <=> i \in 1..m
         /\ \A i \in 1..m : i \in DOMAIN c /\ c[i].reg \in 1..NumBlocks
         /\ Halts(c) <=> m > 0 /\ c[m].op = "HALT"
         /\ (c = <<>> \/ ~IsWork(c[1])) <=> m = 0
<1> DEFINE n == Len(c)
<1>0. c \in Seq(Instrs) /\ n \in Nat /\ DOMAIN c = 1..n /\ m <= n /\ n <= m + 2 /\ Len(c) = n
  BY DEF Form
<1>1. /\ \A i \in 1..m : IsWork(c[i]) /\ (c[i].op = "HALT" => i = n) /\ c[i].reg \in 1..NumBlocks
      /\ \A i \in (m + 1)..n : c[i].op \in Terminators
  BY DEF Form
<1> HIDE DEF n
<1>n. n \in Nat /\ m <= n
  BY <1>0
<1>2. \A i \in (m + 1)..n : ~IsWork(c[i])
  BY <1>1 DEF IsWork, Terminators, Analyzable, CondBranches
<1>3. \A i \in 1..n : i \in 1..m \/ i \in (m + 1)..n
  BY <1>n
<1>4. \A i \in 1..m : i \in 1..n
  BY <1>n
<1>5. \A i \in 1..n : IsWork(c[i]) <=> i \in 1..m
  BY <1>1, <1>2, <1>3, <1>4
<1>6. Halts(c) => m > 0 /\ c[m].op = "HALT"
  <2>1. SUFFICES ASSUME Halts(c) PROVE m > 0 /\ c[m].op = "HALT"
    OBVIOUS
  <2>2. PICK i \in 1..n : c[i].op = "HALT"
    BY <1>0, <2>1 DEF Halts
  <2>3. i \in 1..m
    BY <1>5, <2>2 DEF IsWork
  <2>4. i = n
    BY <1>1, <2>2, <2>3
  <2>5. i = m /\ m > 0
    BY <1>n, <2>3, <2>4
  <2> QED
    BY <2>2, <2>5
<1>7. m > 0 /\ c[m].op = "HALT" => Halts(c)
  <2>1. m > 0 => m \in 1..n
    BY <1>n
  <2> QED
    BY <1>0, <2>1 DEF Halts
<1>8. m = 0 => c = <<>> \/ ~IsWork(c[1])
  <2>1. SUFFICES ASSUME m = 0, c # <<>> PROVE ~IsWork(c[1])
    OBVIOUS
  <2>2. n # 0
    BY <1>0, <2>1
  <2>3. 1 \in (m + 1)..n
    BY <1>n, <2>1, <2>2
  <2> QED
    BY <1>2, <2>3
<1>9. m # 0 => c # <<>> /\ IsWork(c[1])
  <2>1. SUFFICES ASSUME m # 0 PROVE c # <<>> /\ IsWork(c[1])
    OBVIOUS
  <2>2. 1 \in 1..m /\ n # 0
    BY <1>n, <2>1
  <2>3. c # <<>>
    BY <1>0, <2>2
  <2> QED
    BY <1>1, <2>2, <2>3
<1> QED
  BY <1>0, <1>1, <1>4, <1>5, <1>6, <1>7, <1>8, <1>9

\* The blocks that are passed through are those without work.
LEMMA InPassed ==
  ASSUME NEW l, NEW cd, NEW b \in Range1(l), NEW m \in Nat, Form(cd[b], m)
  PROVE  b \in Passed(l, cd) <=> m = 0
BY WorkIndex DEF Passed

\* Control never leaves the layout but over its end.
LEMMA LeadsPlaces ==
  ASSUME NEW l, Lay(l), NEW cd, Inside(l, cd), NEW b \in Range1(l), Formed(cd[b]), NEW nu
  PROVE  /\ Leads(cd[b], nu, Following(l, b)) \in Places(l)
         /\ Following(l, b) \in Places(l)
<1>1. PICK m \in Nat : Form(cd[b], m)
  BY DEF Formed
<1>2. Following(l, b) \in Places(l)
  BY FollowingFacts DEF Places, OffEnd
<1> DEFINE c == cd[b]
           ft == Following(l, b)
<1>3. \A t : LeadsTo(c, t) => t \in Range1(l)
  BY DEF Inside
<1>4. Form(c, m)
  BY <1>1
<1> HIDE DEF c, ft
<1>5. Leads(c, nu, ft) = Exit \/ LeadsTo(c, Leads(c, nu, ft)) \/ Leads(c, nu, ft) = ft
  BY <1>4, CoverLeads
<1>6. Leads(c, nu, ft) \in Places(l)
  BY <1>2, <1>3, <1>5 DEF Places, ft
<1> QED
  BY <1>2, <1>6 DEF c, ft

\* Blocks are positive numbers, and the entry is one.
LEMMA LayNat ==
  ASSUME NEW l, Lay(l)
  PROVE  Range1(l) \subseteq Nat \ {0} /\ 1 \in Range1(l)
<1>1. l \in Seq(Nat \ {0}) /\ Len(l) > 0 /\ l[1] = 1
  BY DEF Lay
<1>2. 1 \in DOMAIN l
  BY <1>1
<1>3. \A i \in DOMAIN l : l[i] \in Nat \ {0}
  BY <1>1
<1> QED
  BY <1>1, <1>2, <1>3 DEF Range1

\* What the program does is the same after a step that takes layout l and
\* instructions cd to l2 and cd2.
SameFlow(l, cd, l2, cd2, S) ==
  \A k \in Works(l2, cd2) :
    /\ k \in Works(l, cd)
    /\ \A nu \in [S -> Outcomes] : NextWork(l2, cd2, k, nu) = NextWork(l, cd, k, nu)

\* A piece of work of the function is in some block of the layout.
LEMMA WorkPlace ==
  ASSUME NEW l, NEW cd, \A b \in Range1(l) : Formed(cd[b]), NEW k
  PROVE  k \in Works(l, cd) <=>
           \E b \in Range1(l) : \E m \in Nat : \E i \in 1..m : Form(cd[b], m) /\ cd[b][i].reg = k
<1>1. ASSUME k \in Works(l, cd)
      PROVE  \E b \in Range1(l) : \E m \in Nat : \E i \in 1..m : Form(cd[b], m) /\ cd[b][i].reg = k
  <2>1. PICK b \in Range1(l) : \E i \in DOMAIN cd[b] : IsWork(cd[b][i]) /\ cd[b][i].reg = k
    BY <1>1 DEF Works
  <2>2. PICK i \in DOMAIN cd[b] : IsWork(cd[b][i]) /\ cd[b][i].reg = k
    BY <2>1
  <2>3. PICK m \in Nat : Form(cd[b], m)
    BY DEF Formed
  <2>4. i \in 1..m
    BY <2>2, <2>3, WorkIndex
  <2> QED
    BY <2>2, <2>3, <2>4
<1>2. ASSUME NEW b \in Range1(l), NEW m \in Nat, NEW i \in 1..m, Form(cd[b], m), cd[b][i].reg = k
      PROVE  k \in Works(l, cd)
  <2>1. i \in DOMAIN cd[b] /\ cd[b][i].reg \in 1..NumBlocks /\ IsWork(cd[b][i])
    BY <1>2, WorkIndex
  <2> QED
    BY <1>2, <2>1 DEF Works
<1> QED
  BY <1>1, <1>2

\* A layout and the instructions of its blocks.
Well(l, cd) ==
  /\ Lay(l) /\ Inside(l, cd) /\ OwnWork(l, cd)
  /\ \A b \in Range1(l) : Formed(cd[b])

\* Every block with work in the new layout did that work before, and where
\* control comes after the last of it the same is done first.
LEMMA FlowStep ==
  ASSUME NEW l, NEW cd, NEW l2, NEW cd2, NEW S,
         Well(l, cd), Lay(l2), Inside(l2, cd2), \A b \in Range1(l2) : Formed(cd2[b]),
         \A b \in Range1(l2) \ Passed(l2, cd2) :
           b \in Range1(l) /\ \E m \in Nat : Form(cd[b], m) /\ Like(cd[b], cd2[b], m),
         \A b \in Range1(l2) \ Passed(l2, cd2) : ~Halts(cd[b]) =>
           \A nu \in [S -> Outcomes] :
             Gets(l2, cd2, nu, NextOf(l2, cd2, nu)[b]) = Gets(l, cd, nu, NextOf(l, cd, nu)[b])
  PROVE  Well(l2, cd2) /\ SameFlow(l, cd, l2, cd2, S)
<1>1. /\ \A b \in Range1(l2) : Formed(cd2[b])
      /\ Lay(l) /\ Inside(l, cd) /\ OwnWork(l, cd) /\ \A b \in Range1(l) : Formed(cd[b])
  BY DEF Well
<1>a. ASSUME NEW b \in Range1(l2), NEW i \in DOMAIN cd2[b], IsWork(cd2[b][i])
      PROVE  b \in Range1(l2) \ Passed(l2, cd2)
  <2>1. PICK m \in Nat : Form(cd2[b], m)
    BY <1>1 DEF Formed
  <2>2. i \in 1..m
    BY <1>a, <2>1, WorkIndex
  <2> QED
    BY <2>1, <2>2, InPassed
<1>2. OwnWork(l2, cd2)
  <2>1. ASSUME NEW b \in Range1(l2), NEW i \in DOMAIN cd2[b], IsWork(cd2[b][i])
        PROVE  b \in Range1(l) /\ i \in DOMAIN cd[b] /\ cd2[b][i] = cd[b][i]
    <3>0. b \in Range1(l2) \ Passed(l2, cd2)
      BY <1>a, <2>1
    <3>1. PICK m \in Nat : Form(cd[b], m) /\ Like(cd[b], cd2[b], m)
      BY <3>0
    <3>2. Form(cd2[b], m) /\ \A j \in 1..m : cd2[b][j] = cd[b][j]
      BY <3>1 DEF Like
    <3>3. i \in 1..m
      BY <2>1, <3>2, WorkIndex
    <3>4. i \in DOMAIN cd[b]
      BY <3>1, <3>3, WorkIndex
    <3> QED
      BY <3>0, <3>2, <3>3, <3>4
  <2>2. SUFFICES ASSUME NEW b1 \in Range1(l2), NEW b2 \in Range1(l2),
                        NEW i \in DOMAIN cd2[b1], NEW j \in DOMAIN cd2[b2],
                        IsWork(cd2[b1][i]), IsWork(cd2[b2][j]), cd2[b1][i].reg = cd2[b2][j].reg
                 PROVE  b1 = b2 /\ i = j
    BY DEF OwnWork
  <2>3. /\ b1 \in Range1(l) /\ i \in DOMAIN cd[b1] /\ cd2[b1][i] = cd[b1][i]
        /\ b2 \in Range1(l) /\ j \in DOMAIN cd[b2] /\ cd2[b2][j] = cd[b2][j]
    BY <2>1, <2>2
  <2> QED
    BY <1>1, <2>2, <2>3 DEF OwnWork
<1>3. ASSUME NEW k \in Works(l2, cd2)
      PROVE  /\ k \in Works(l, cd)
             /\ \A nu \in [S -> Outcomes] : NextWork(l2, cd2, k, nu) = NextWork(l, cd, k, nu)
  <2>a. PICK b \in Range1(l2) : \E n \in Nat : \E i \in 1..n : Form(cd2[b], n) /\ cd2[b][i].reg = k
    BY <1>1, <1>3, WorkPlace
  <2>b. PICK n \in Nat : \E i \in 1..n : Form(cd2[b], n) /\ cd2[b][i].reg = k
    BY <2>a
  <2>1. PICK i \in 1..n : Form(cd2[b], n) /\ cd2[b][i].reg = k
    BY <2>b
  <2>c. i \in DOMAIN cd2[b] /\ IsWork(cd2[b][i])
    BY <2>1, WorkIndex
  <2>d. b \in Range1(l2) \ Passed(l2, cd2)
    BY <1>a, <2>c
  <2>2. PICK m \in Nat : Form(cd[b], m) /\ Like(cd[b], cd2[b], m)
    BY <2>d
  <2>3. Form(cd2[b], m) /\ \A j \in 1..m : cd2[b][j] = cd[b][j]
    BY <2>2 DEF Like
  <2>4. i \in 1..m
    BY <2>3, <2>c, WorkIndex
  <2>5. cd2[b][i] = cd[b][i] /\ cd[b][i].reg = k /\ b \in Range1(l)
    BY <2>1, <2>3, <2>4, <2>d
  <2>6. k \in Works(l, cd)
    BY <1>1, <2>2, <2>4, <2>5, WorkPlace
  <2>7. ASSUME NEW nu \in [S -> Outcomes] PROVE NextWork(l2, cd2, k, nu) = NextWork(l, cd, k, nu)
    <3>1. NextWork(l, cd, k, nu) =
            IF cd[b][i].op = "HALT" THEN Exit
            ELSE IF i < m THEN cd[b][i + 1].reg
            ELSE Reached(l, cd, nu, Leads(cd[b], nu, Following(l, b)))
      BY <1>1, <2>2, <2>4, <2>5, NextWorkIs
    <3>2. NextWork(l2, cd2, k, nu) =
            IF cd2[b][i].op = "HALT" THEN Exit
            ELSE IF i < m THEN cd2[b][i + 1].reg
            ELSE Reached(l2, cd2, nu, Leads(cd2[b], nu, Following(l2, b)))
      <4>1. cd2[b][i].reg = k
        BY <2>5
      <4>2. OwnWork(l2, cd2) /\ Form(cd2[b], m)
        BY <1>2, <2>3
      <4> QED
        BY <2>4, <4>1, <4>2, NextWorkIs
    <3>3. CASE cd[b][i].op = "HALT"
      BY <2>5, <3>1, <3>2, <3>3
    <3>4. CASE cd[b][i].op # "HALT" /\ i < m
      <4>1. i + 1 \in 1..m
        BY <2>4, <3>4
      <4> QED
        BY <2>3, <2>5, <3>1, <3>2, <3>4, <4>1
    <3>5. CASE cd[b][i].op # "HALT" /\ ~(i < m)
      <4>1. i = m /\ m # 0
        BY <2>4, <3>5
      <4>2. ~Halts(cd[b])
        BY <2>2, <3>5, <4>1, WorkIndex
      <4>3. b \notin Passed(l2, cd2)
        BY <2>3, <4>1, InPassed
      <4>4. Gets(l2, cd2, nu, NextOf(l2, cd2, nu)[b]) = Gets(l, cd, nu, NextOf(l, cd, nu)[b])
        BY <4>2, <4>3
      <4>5. /\ NextOf(l2, cd2, nu)[b] = Leads(cd2[b], nu, Following(l2, b))
            /\ NextOf(l, cd, nu)[b] = Leads(cd[b], nu, Following(l, b))
        BY <2>5 DEF NextOf
      <4>6. Reached(l, cd, nu, Leads(cd[b], nu, Following(l, b)))
              = PickOf(Gets(l, cd, nu, Leads(cd[b], nu, Following(l, b))))
        <5>1. \A x \in Range1(l) : Leads(cd[x], nu, Following(l, x)) \in Places(l)
          BY <1>1, LeadsPlaces
        <5>2. Range1(l) \subseteq Nat
          BY <1>1, LayNat
        <5> QED
          BY <2>5, <5>1, <5>2, ReachedIs
      <4>7. Reached(l2, cd2, nu, Leads(cd2[b], nu, Following(l2, b)))
              = PickOf(Gets(l2, cd2, nu, Leads(cd2[b], nu, Following(l2, b))))
        <5>1. \A x \in Range1(l2) : Leads(cd2[x], nu, Following(l2, x)) \in Places(l2)
          BY <1>1, LeadsPlaces
        <5>2. Range1(l2) \subseteq Nat
          BY LayNat
        <5> QED
          BY <5>1, <5>2, ReachedIs
      <4> QED
        BY <2>5, <3>1, <3>2, <3>5, <4>4, <4>5, <4>6, <4>7
    <3> QED
      BY <3>3, <3>4, <3>5
  <2> QED
    BY <2>6, <2>7
<1> QED
  BY <1>1, <1>2, <1>3 DEF SameFlow, Well

\* Block b does the same work with the instructions cd2.
Keeps(cd, cd2, b) == \E m \in Nat : Form(cd[b], m) /\ Like(cd[b], cd2[b], m)

\* A block that keeps its work keeps what it is for the flow.
LEMMA KeepsWork ==
  ASSUME NEW l, NEW cd, NEW l2, NEW cd2, NEW b \in Range1(l), b \in Range1(l2), Keeps(cd, cd2, b)
  PROVE  /\ b \in Passed(l, cd) <=> b \in Passed(l2, cd2)
         /\ Formed(cd[b]) /\ Formed(cd2[b])
         /\ Halts(cd2[b]) <=> Halts(cd[b])
         /\ b \in Passed(l, cd) => ~Halts(cd[b])
         /\ b \notin Passed(l, cd) => cd2[b][1] = cd[b][1]
<1>1. PICK m \in Nat : Form(cd[b], m) /\ Like(cd[b], cd2[b], m)
  BY DEF Keeps
<1>2. Form(cd2[b], m) /\ \A i \in 1..m : cd2[b][i] = cd[b][i]
  BY <1>1 DEF Like
<1>3. (b \in Passed(l, cd) <=> m = 0) /\ (b \in Passed(l2, cd2) <=> m = 0)
  BY <1>1, <1>2, InPassed
<1>4. Halts(cd2[b]) <=> Halts(cd[b])
  BY <1>1, LikeHalts
<1>5. m = 0 => ~Halts(cd[b])
  BY <1>1, WorkIndex
<1>6. m # 0 => 1 \in 1..m
  OBVIOUS
<1> QED
  BY <1>1, <1>2, <1>3, <1>4, <1>5, <1>6 DEF Formed

\* A block that comes first has the same first work.
LEMMA SameFirst ==
  ASSUME NEW cd, NEW cd2, NEW e \in Nat \cup {Exit},
         e \notin {Exit, OffEnd} => cd2[e][1] = cd[e][1]
  PROVE  FirstWork(cd2)[e] = FirstWork(cd)[e]
BY DEF FirstWork

\* No block without work goes, and all blocks lead where they led.
LEMMA FlowLocal ==
  ASSUME NEW l, NEW cd, NEW l2, NEW cd2, NEW S,
         Well(l, cd), Lay(l2), Inside(l2, cd2), Range1(l2) \subseteq Range1(l),
         Passed(l, cd) \subseteq Range1(l2), \A b \in Range1(l2) : Keeps(cd, cd2, b),
         \A nu \in [S -> Outcomes] : \A b \in Range1(l2) : ~Halts(cd[b]) =>
           Leads(cd2[b], nu, Following(l2, b)) = Leads(cd[b], nu, Following(l, b))
  PROVE  Well(l2, cd2) /\ SameFlow(l, cd, l2, cd2, S)
<1>1. /\ Lay(l) /\ Inside(l, cd) /\ OwnWork(l, cd) /\ \A b \in Range1(l) : Formed(cd[b])
  BY DEF Well
<1>2. \A b \in Range1(l2) :
        /\ b \in Passed(l, cd) <=> b \in Passed(l2, cd2)
        /\ Formed(cd2[b])
        /\ b \in Passed(l, cd) => ~Halts(cd[b])
        /\ b \notin Passed(l, cd) => cd2[b][1] = cd[b][1]
  BY KeepsWork
<1>3. Passed(l2, cd2) = Passed(l, cd)
  <2>1. Passed(l2, cd2) \subseteq Range1(l2)
    BY DEF Passed
  <2> QED
    BY <1>2, <2>1
<1>4. ASSUME NEW nu \in [S -> Outcomes], NEW b \in Range1(l2) \ Passed(l2, cd2), ~Halts(cd[b])
      PROVE  Gets(l2, cd2, nu, NextOf(l2, cd2, nu)[b]) = Gets(l, cd, nu, NextOf(l, cd, nu)[b])
  <2> DEFINE P == Passed(l, cd)
             N == NextOf(l, cd, nu)
             N2 == NextOf(l2, cd2, nu)
             F == FirstWork(cd)
             F2 == FirstWork(cd2)
             d == N[b]
  <2>1. \A x \in Range1(l2) : ~Halts(cd[x]) => N2[x] = N[x]
    BY DEF NextOf
  <2>2. \A x \in Range1(l2) : N2[x] \in Places(l2)
    BY <1>2, LeadsPlaces DEF NextOf
  <2>3. \A e \in Places(l2) : e \notin P => F2[e] = F[e]
    <3>1. SUFFICES ASSUME NEW e \in Places(l2), e \notin P PROVE F2[e] = F[e]
      OBVIOUS
    <3>2. e \in Nat \cup {Exit}
      BY LayNat DEF Places, Exit, OffEnd
    <3>3. e \notin {Exit, OffEnd} => cd2[e][1] = cd[e][1]
      BY <1>2, <3>1 DEF Places
    <3> QED
      BY <3>2, <3>3, SameFirst
  <2>4. \A x \in P : x \in Range1(l2) /\ ~Halts(cd[x])
    BY <1>2
  <2>5. N2[b] = d
    BY <1>4, <2>1
  <2>6. d \in Places(l2)
    BY <2>2, <2>5
  <2> HIDE DEF P, N, N2, F, F2, d
  <2>7. \A x \in P : N2[x] = N[x] /\ (N[x] \notin P => F2[N[x]] = F[N[x]])
    BY <2>1, <2>2, <2>3, <2>4
  <2>8. d \notin P => F2[d] = F[d]
    BY <2>3, <2>6
  <2>9. FirstOf(P, N2, F2, d) = FirstOf(P, N, F, d)
    BY <2>7, <2>8, FirstSame
  <2> QED
    BY <1>3, <2>5, <2>9 DEF Gets, P, N, N2, F, F2, d
<1>5. \A b \in Range1(l2) \ Passed(l2, cd2) :
           b \in Range1(l) /\ \E m \in Nat : Form(cd[b], m) /\ Like(cd[b], cd2[b], m)
  BY DEF Keeps
<1> QED
  BY <1>2, <1>4, <1>5, FlowStep

\* Where control goes from block b.
Goes(l, cd, nu, b) == Leads(cd[b], nu, Following(l, b))

\* Control goes to a block of the layout, to the exit or off the end.
LEMMA GoesPlaces ==
  ASSUME NEW l, NEW cd, Lay(l), Inside(l, cd), \A b \in Range1(l) : Formed(cd[b]), NEW nu, NEW b \in Range1(l)
  PROVE  /\ NextOf(l, cd, nu)[b] = Goes(l, cd, nu, b)
         /\ Goes(l, cd, nu, b) \in Places(l)
BY LeadsPlaces DEF NextOf, Goes

\* The first work of a block that keeps its work.
LEMMA FirstKept ==
  ASSUME NEW l, NEW cd, NEW l2, NEW cd2, Lay(l), NEW e \in Places(l), e \notin Passed(l, cd),
         e \in Range1(l) => e \in Range1(l2) /\ Keeps(cd, cd2, e)
  PROVE  FirstWork(cd2)[e] = FirstWork(cd)[e]
<1>1. e \in Nat \cup {Exit}
  BY LayNat DEF Places, Exit, OffEnd
<1>2. e \notin {Exit, OffEnd} => cd2[e][1] = cd[e][1]
  BY KeepsWork DEF Places
<1> QED
  BY <1>1, <1>2, SameFirst

\* Control no longer passes through a block x that does no work, or x goes.
LEMMA FlowBypass ==
  ASSUME NEW l, NEW cd, NEW l2, NEW cd2, NEW S, NEW x,
         Well(l, cd), Lay(l2), Inside(l2, cd2), x \in Passed(l, cd),
         Range1(l2) \subseteq Range1(l), Range1(l) \ {x} \subseteq Range1(l2),
         \A b \in Range1(l2) : Keeps(cd, cd2, b),
         \A nu \in [S -> Outcomes] :
           /\ Goes(l, cd, nu, x) # x
           /\ x \in Range1(l2) => Goes(l2, cd2, nu, x) # x
           /\ \A b \in Range1(l2) \ {x} : ~Halts(cd[b]) =>
                /\ \/ Goes(l2, cd2, nu, b) = Goes(l, cd, nu, b)
                   \/ Goes(l, cd, nu, b) = x /\ Goes(l2, cd2, nu, b) = Goes(l, cd, nu, x)
                /\ Goes(l2, cd2, nu, b) = x => Goes(l2, cd2, nu, x) = Goes(l, cd, nu, x)
  PROVE  Well(l2, cd2) /\ SameFlow(l, cd, l2, cd2, S)
<1>1. /\ Lay(l) /\ Inside(l, cd) /\ OwnWork(l, cd) /\ \A b \in Range1(l) : Formed(cd[b])
  BY DEF Well
<1>2. \A b \in Range1(l2) :
        /\ b \in Passed(l, cd) <=> b \in Passed(l2, cd2)
        /\ Formed(cd2[b])
        /\ b \in Passed(l, cd) => ~Halts(cd[b])
  BY KeepsWork
<1>3. /\ Passed(l2, cd2) \subseteq Range1(l2) /\ Passed(l, cd) \subseteq Range1(l)
      /\ x \in Range1(l)
  BY DEF Passed
<1>4. ASSUME NEW nu \in [S -> Outcomes], NEW b \in Range1(l2) \ Passed(l2, cd2), ~Halts(cd[b])
      PROVE  Gets(l2, cd2, nu, NextOf(l2, cd2, nu)[b]) = Gets(l, cd, nu, NextOf(l, cd, nu)[b])
  <2> DEFINE P == Passed(l, cd)
             P2 == Passed(l2, cd2)
             N == NextOf(l, cd, nu)
             N2 == NextOf(l2, cd2, nu)
             F == FirstWork(cd)
             F2 == FirstWork(cd2)
             t == N[x]
  <2>1. \A y \in Range1(l) : N[y] = Goes(l, cd, nu, y) /\ N[y] \in Places(l)
    BY <1>1, GoesPlaces
  <2>2. \A y \in Range1(l2) : N2[y] = Goes(l2, cd2, nu, y) /\ N2[y] \in Places(l2)
    BY <1>2, GoesPlaces
  <2>3. /\ \A y \in P2 : y \in P
        /\ \A y \in P : y # x => y \in P2
        /\ x \in Range1(l2) => x \in P2
    BY <1>2, <1>3
  <2>4. t # x /\ (x \in P2 => N2[x] # x)
    BY <1>3, <2>1, <2>2
  <2>5. \A y \in Range1(l2) \ {x} : ~Halts(cd[y]) =>
          /\ N2[y] = N[y] \/ (N[y] = x /\ N2[y] = t)
          /\ N2[y] = x => x \in P2 /\ N2[x] = t
    <3>1. SUFFICES ASSUME NEW y \in Range1(l2) \ {x}, ~Halts(cd[y])
                   PROVE  /\ N2[y] = N[y] \/ (N[y] = x /\ N2[y] = t)
                          /\ N2[y] = x => x \in P2 /\ N2[x] = t
      OBVIOUS
    <3>2. N2[y] = x => x \in Range1(l2)
      <4>1. x # Exit /\ x # OffEnd
        BY <1>1, <1>3, LayNat DEF Exit, OffEnd
      <4> QED
        BY <2>2, <4>1 DEF Places
    <3>3. y \in Range1(l)
      OBVIOUS
    <3> QED
      BY <1>3, <2>1, <2>2, <2>3, <3>1, <3>2, <3>3
  <2>6. \A e \in Places(l) : e \notin P => F2[e] = F[e]
    BY <1>1, <1>3, FirstKept
  <2>7. b # x /\ b \notin P
    BY <1>2, <1>3, <1>4
  <2>8. \A y \in P2 \ {x} : y \in Range1(l2) \ {x} /\ ~Halts(cd[y])
    BY <1>2, <1>3
  <2>9. \A y \in P : N[y] \notin P => F2[N[y]] = F[N[y]]
    BY <1>3, <2>1, <2>6
  <2>10. t \in Places(l) /\ N[b] \in Places(l)
    BY <1>3, <2>1
  <2>11. x \in P /\ P2 \subseteq P /\ P \ {x} \subseteq P2
    BY <2>3
  <2>12. N2[b] = N[b] \/ (N[b] = x /\ N2[b] = t)
    BY <1>4, <2>5, <2>7
  <2>13. N2[b] = x => x \in P2 /\ N2[x] = t
    BY <1>4, <2>5, <2>7
  <2>t. t = N[x]
    OBVIOUS
  <2> HIDE DEF P, P2, N, N2, F, F2, t
  <2>14. /\ \A y \in P2 \ {x} : N2[y] = N[y] \/ (N[y] = x /\ N2[y] = t)
         /\ \A y \in P2 \ {x} : N2[y] = x => x \in P2 /\ N2[x] = t
    BY <2>5, <2>8
  <2>b. Bypasses(P, N, F, P2, N2, F2, x, t)
    BY <2>4, <2>9, <2>11, <2>14, <2>t DEF Bypasses
  <2>15. ASSUME NEW d \in Places(l), d # x PROVE FirstOf(P2, N2, F2, d) = FirstOf(P, N, F, d)
    <3>1. d \notin P => F2[d] = F[d]
      BY <2>6, <2>15
    <3> QED
      BY <2>15, <2>b, <3>1, FirstBypass
  <2>16. FirstOf(P, N, F, x) = FirstOf(P, N, F, t)
    BY <2>11, <2>t, FirstNext
  <2>17. FirstOf(P2, N2, F2, t) = FirstOf(P, N, F, t)
    BY <2>4, <2>10, <2>15
  <2>18. FirstOf(P2, N2, F2, N2[b]) = FirstOf(P, N, F, N[b])
    <3>1. CASE N[b] # x
      BY <2>10, <2>12, <2>15, <3>1
    <3>2. CASE N[b] = x /\ N2[b] = t
      BY <2>16, <2>17, <3>2
    <3>3. CASE N[b] = x /\ N2[b] = x
      <4>1. x \in P2 /\ N2[x] = t
        BY <2>13, <3>3
      <4>2. FirstOf(P2, N2, F2, x) = FirstOf(P2, N2, F2, t)
        BY <4>1, FirstNext
      <4> QED
        BY <2>16, <2>17, <3>3, <4>2
    <3> QED
      BY <2>12, <3>1, <3>2, <3>3
  <2> QED
    BY <2>18 DEF Gets, P, P2, N, N2, F, F2
<1>5. \A b \in Range1(l2) \ Passed(l2, cd2) :
           b \in Range1(l) /\ \E m \in Nat : Form(cd[b], m) /\ Like(cd[b], cd2[b], m)
  BY DEF Keeps
<1> QED
  BY <1>2, <1>4, <1>5, FlowStep

\* A new block n, without work, on the way to block t.
LEMMA FlowSplit ==
  ASSUME NEW l, NEW cd, NEW l2, NEW cd2, NEW S, NEW n, NEW t \in Range1(l),
         Well(l, cd), Lay(l2), Inside(l2, cd2), n \notin Range1(l), Range1(l2) = Range1(l) \cup {n},
         \A b \in Range1(l) : Keeps(cd, cd2, b), Formed(cd2[n]), n \in Passed(l2, cd2),
         \A nu \in [S -> Outcomes] :
           /\ Goes(l2, cd2, nu, n) = t
           /\ \A b \in Range1(l) : ~Halts(cd[b]) =>
                \/ Goes(l2, cd2, nu, b) = Goes(l, cd, nu, b)
                \/ /\ Goes(l2, cd2, nu, b) = n
                   /\ \/ Goes(l, cd, nu, b) = t
                      \/ \E e \in Passed(l, cd) :
                           /\ Goes(l, cd, nu, b) = e
                           /\ Goes(l, cd, nu, e) = t /\ Goes(l2, cd2, nu, e) = t
  PROVE  Well(l2, cd2) /\ SameFlow(l, cd, l2, cd2, S)
<1>1. /\ Lay(l) /\ Inside(l, cd) /\ OwnWork(l, cd) /\ \A b \in Range1(l) : Formed(cd[b])
  BY DEF Well
<1>2. \A b \in Range1(l) :
        /\ b \in Passed(l, cd) <=> b \in Passed(l2, cd2)
        /\ Formed(cd2[b])
        /\ b \in Passed(l, cd) => ~Halts(cd[b])
  BY KeepsWork
<1>3. /\ Passed(l2, cd2) \subseteq Range1(l2) /\ Passed(l, cd) \subseteq Range1(l)
  BY DEF Passed
<1>f. \A b \in Range1(l2) : Formed(cd2[b])
  BY <1>2
<1>n. n # Exit /\ n # OffEnd
  BY LayNat DEF Exit, OffEnd
<1>4. ASSUME NEW nu \in [S -> Outcomes], NEW b \in Range1(l2) \ Passed(l2, cd2), ~Halts(cd[b])
      PROVE  Gets(l2, cd2, nu, NextOf(l2, cd2, nu)[b]) = Gets(l, cd, nu, NextOf(l, cd, nu)[b])
  <2> DEFINE P == Passed(l, cd)
             P2 == Passed(l2, cd2)
             N == NextOf(l, cd, nu)
             N2 == NextOf(l2, cd2, nu)
             F == FirstWork(cd)
             F2 == FirstWork(cd2)
  <2>1. \A y \in Range1(l) : N[y] = Goes(l, cd, nu, y) /\ N[y] \in Places(l)
    BY <1>1, GoesPlaces
  <2>2. \A y \in Range1(l2) : N2[y] = Goes(l2, cd2, nu, y) /\ N2[y] \in Places(l2)
    BY <1>f, GoesPlaces
  <2>3. n \notin P /\ P2 = P \cup {n} /\ t # n
    BY <1>2, <1>3
  <2>4. N2[n] = t
    BY <2>2
  <2>5. \A y \in Range1(l) : ~Halts(cd[y]) =>
          N2[y] = N[y] \/ (N2[y] = n /\ (N[y] = t \/ (N[y] \in P /\ N[N[y]] = t /\ N2[N[y]] = t)))
    <3>1. SUFFICES ASSUME NEW y \in Range1(l), ~Halts(cd[y]), N2[y] # N[y]
                   PROVE  N2[y] = n /\ (N[y] = t \/ (N[y] \in P /\ N[N[y]] = t /\ N2[N[y]] = t))
      OBVIOUS
    <3>2. /\ Goes(l2, cd2, nu, y) = n
          /\ \/ Goes(l, cd, nu, y) = t
             \/ \E e \in P :
                  /\ Goes(l, cd, nu, y) = e
                  /\ Goes(l, cd, nu, e) = t /\ Goes(l2, cd2, nu, e) = t
      BY <2>1, <2>2, <3>1
    <3>3. N2[y] = n /\ N[y] = Goes(l, cd, nu, y)
      BY <2>1, <2>2, <3>2
    <3>4. \A e \in P : N[e] = Goes(l, cd, nu, e) /\ N2[e] = Goes(l2, cd2, nu, e)
      BY <1>3, <2>1, <2>2
    <3> HIDE DEF P, N, N2
    <3> QED
      BY <3>2, <3>3, <3>4
  <2>6. \A e \in Places(l) : e \notin P => F2[e] = F[e]
    BY <1>1, FirstKept
  <2>7. \A y \in P : y \in Range1(l) /\ ~Halts(cd[y]) /\ N[y] # n /\ N[y] \in Places(l)
    <3>1. n \notin Places(l)
      BY <1>n DEF Places
    <3> QED
      BY <1>2, <1>3, <2>1, <3>1
  <2>8. b \in Range1(l) /\ b \notin P /\ N[b] \in Places(l) /\ N[b] # n /\ t \in Places(l)
    <3>1. n \notin Places(l)
      BY <1>n DEF Places
    <3>2. t \in Places(l)
      BY DEF Places
    <3>3. b \in Range1(l) /\ b \notin P
      BY <2>3
    <3> QED
      BY <2>1, <3>1, <3>2, <3>3
  <2>9. N2[b] = N[b] \/ (N2[b] = n /\ (N[b] = t \/ (N[b] \in P /\ N[N[b]] = t /\ N2[N[b]] = t)))
    BY <1>4, <2>5, <2>8
  <2> HIDE DEF P, P2, N, N2, F, F2
  <2>10. Detours(P, N, F, P2, N2, F2, n, t)
    BY <2>3, <2>4, <2>5, <2>6, <2>7, <2>8 DEF Detours
  <2>11. ASSUME NEW d \in Places(l), d # n PROVE FirstOf(P2, N2, F2, d) = FirstOf(P, N, F, d)
    BY <2>6, <2>10, <2>11, FirstDetour
  <2>12. FirstOf(P2, N2, F2, n) = FirstOf(P, N, F, t)
    <3>1. FirstOf(P2, N2, F2, n) = FirstOf(P2, N2, F2, t)
      BY <2>3, <2>4, FirstNext
    <3> QED
      BY <2>3, <2>8, <2>11, <3>1
  <2>13. FirstOf(P2, N2, F2, N2[b]) = FirstOf(P, N, F, N[b])
    <3>1. CASE N2[b] = N[b]
      BY <2>8, <2>11, <3>1
    <3>2. CASE N2[b] = n /\ N[b] = t
      BY <2>12, <3>2
    <3>3. CASE N2[b] = n /\ N[b] \in P /\ N[N[b]] = t
      <4>1. FirstOf(P, N, F, N[b]) = FirstOf(P, N, F, t)
        BY <3>3, FirstNext
      <4> QED
        BY <2>12, <3>3, <4>1
    <3> QED
      BY <2>9, <3>1, <3>2, <3>3
  <2> QED
    BY <2>13 DEF Gets, P, P2, N, N2, F, F2
<1>5. \A b \in Range1(l2) \ Passed(l2, cd2) :
           b \in Range1(l) /\ \E m \in Nat : Form(cd[b], m) /\ Like(cd[b], cd2[b], m)
  BY DEF Keeps
<1> QED
  BY <1>f, <1>4, <1>5, FlowStep

(***************************************************************************)
(* One block's instructions after those of a block that falls into it.     *)
(***************************************************************************)
Joined(c, d, e, p, q) ==
  /\ Form(e, p + q)
  /\ \A i \in 1..p : e[i] = c[i]
  /\ \A i \in 1..q : e[p + i] = d[i]
  /\ \A nu, ft : Leads(e, nu, ft) = Leads(d, nu, ft)
  /\ Falls(e) <=> Falls(d)
  /\ Halts(e) <=> Halts(d)
  /\ \A x : LeadsTo(e, x) <=> LeadsTo(d, x)
  /\ \A S : RegsIn(d, S) => RegsIn(e, S)

\* Two pieces of code one after the other, element by element.
LEMMA JoinElements ==
  ASSUME NEW p \in Nat, NEW c, IsFall(c, p), ~Halts(c), NEW q \in Nat, NEW d, Form(d, q),
         NEW e \in Seq(Instrs), Len(e) = p + Len(d),
         \A i \in 1..p : e[i] = c[i], \A i \in 1..Len(d) : e[p + i] = d[i]
  PROVE  Joined(c, d, e, p, q)
<1> DEFINE n == Len(d)
           k == p + q
<1>1. /\ c \in Seq(Instrs) /\ Len(c) = p /\ Form(c, p)
      /\ \A i \in 1..p : IsWork(c[i]) /\ c[i].reg \in 1..NumBlocks
  BY DEF IsFall, Form
<1>2. /\ d \in Seq(Instrs) /\ n \in Nat /\ q <= n /\ n <= q + 2 /\ Len(d) = n
      /\ \A i \in 1..q : IsWork(d[i]) /\ (d[i].op = "HALT" => i = n) /\ d[i].reg \in 1..NumBlocks
      /\ \A i \in (q + 1)..n :
           /\ d[i].op \in Terminators
           /\ d[i].op \in Analyzable => Len(d[i].to) = 1 /\ d[i].to[1] > 1
           /\ d[i].op \in CondBranches \cup {"JMPR"} => d[i].reg \in 1..NumBlocks
           /\ d[i].op = "JMPR" => Len(d[i].to) = 2 /\ d[i].to[1] > 1 /\ d[i].to[2] > 1
      /\ n = q + 2 => d[q + 1].op \in Analyzable /\ d[q + 2].op = "JMP"
  BY DEF Form
<1> HIDE DEF n
<1>4. /\ e \in Seq(Instrs) /\ Len(e) = p + n
      /\ \A i \in 1..p : e[i] = c[i]
      /\ \A i \in 1..n : e[p + i] = d[i]
  BY DEF n
<1>5. \A i \in 1..p : e[i].op = "WORK" /\ IsWork(e[i]) /\ e[i].reg \in 1..NumBlocks
  BY <1>1, <1>4 DEF Halts, IsWork
<1>6. \A i \in 1..(p + n) : i \in 1..p \/ \E j \in 1..n : i = p + j
  <2>1. SUFFICES ASSUME NEW i \in 1..(p + n), i \notin 1..p PROVE \E j \in 1..n : i = p + j
    OBVIOUS
  <2>2. i - p \in 1..n /\ i = p + (i - p)
    BY <1>2, <2>1
  <2> QED
    BY <2>2
<1>7. \A j \in 1..n : p + j \in 1..(p + n)
  BY <1>2
<1>8. k \in Nat /\ k <= p + n /\ p + n <= k + 2 /\ k \in 0..(p + n)
  BY <1>2
<1>9. \A i \in 1..k : IsWork(e[i]) /\ (e[i].op = "HALT" => i = p + n) /\ e[i].reg \in 1..NumBlocks
  <2>1. SUFFICES ASSUME NEW i \in 1..k
                 PROVE  IsWork(e[i]) /\ (e[i].op = "HALT" => i = p + n) /\ e[i].reg \in 1..NumBlocks
    OBVIOUS
  <2>2. CASE i \in 1..p
    BY <1>5, <2>2
  <2>3. CASE i \notin 1..p
    <3>1. PICK j \in 1..q : i = p + j
      <4>1. i - p \in 1..q /\ i = p + (i - p)
        BY <2>3
      <4> QED
        BY <4>1
    <3>2. e[i] = d[j]
      BY <1>2, <1>4, <3>1
    <3> QED
      BY <1>2, <3>1, <3>2
  <2> QED
    BY <2>2, <2>3
<1>10. \A i \in (k + 1)..(p + n) : \E j \in (q + 1)..n : i = p + j /\ e[i] = d[j]
  <2>1. SUFFICES ASSUME NEW i \in (k + 1)..(p + n) PROVE \E j \in (q + 1)..n : i = p + j /\ e[i] = d[j]
    OBVIOUS
  <2>2. i - p \in (q + 1)..n /\ i - p \in 1..n /\ i = p + (i - p)
    BY <1>2, <2>1
  <2> QED
    BY <1>4, <2>2
<1>11. /\ n = q + 2 <=> p + n = k + 2
       /\ n = q + 1 <=> p + n = k + 1
       /\ n = q <=> p + n = k
  BY <1>2
<1>12. n >= q + 1 => e[k + 1] = d[q + 1]
  <2>1. k + 1 = p + (q + 1)
    OBVIOUS
  <2>2. n >= q + 1 => q + 1 \in 1..n
    BY <1>2
  <2> HIDE DEF k
  <2> QED
    BY <1>4, <2>1, <2>2
<1>13. n = q + 2 => e[k + 2] = d[q + 2]
  <2>1. k + 2 = p + (q + 2)
    OBVIOUS
  <2>2. n = q + 2 => q + 2 \in 1..n
    BY <1>2
  <2> HIDE DEF k
  <2> QED
    BY <1>4, <2>1, <2>2
<1> HIDE DEF k
<1>14. \A i \in (k + 1)..Len(e) :
         /\ e[i].op \in Terminators
         /\ e[i].op \in Analyzable => Len(e[i].to) = 1 /\ e[i].to[1] > 1
         /\ e[i].op \in CondBranches \cup {"JMPR"} => e[i].reg \in 1..NumBlocks
         /\ e[i].op = "JMPR" => Len(e[i].to) = 2 /\ e[i].to[1] > 1 /\ e[i].to[2] > 1
  BY <1>2, <1>4, <1>10
<1>15. Form(e, k)
  BY <1>2, <1>4, <1>8, <1>9, <1>11, <1>12, <1>13, <1>14 DEF Form
<1>16. \A nu, ft : Leads(e, nu, ft) = Leads(d, nu, ft)
  <2>1. SUFFICES ASSUME NEW nu, NEW ft PROVE Leads(e, nu, ft) = Leads(d, nu, ft)
    OBVIOUS
  <2>2. Leads(e, nu, ft) =
           IF Len(e) = k THEN ft
           ELSE IF Len(e) = k + 1 THEN Through(e[k + 1], nu, ft)
           ELSE Through(e[k + 1], nu, e[k + 2].to[1])
    BY <1>15, LeadsForm
  <2>3. Leads(d, nu, ft) =
           IF Len(d) = q THEN ft
           ELSE IF Len(d) = q + 1 THEN Through(d[q + 1], nu, ft)
           ELSE Through(d[q + 1], nu, d[q + 2].to[1])
    BY LeadsForm
  <2>4. n \in {q, q + 1, q + 2}
    BY <1>2
  <2>5. Len(e) = p + n /\ Len(d) = n /\ n \in Nat
    BY <1>2, <1>4
  <2>6. CASE n = q
    BY <1>11, <2>2, <2>3, <2>5, <2>6
  <2>7. CASE n = q + 1
    BY <1>11, <1>12, <2>2, <2>3, <2>5, <2>7
  <2>8. CASE n = q + 2
    BY <1>11, <1>12, <1>13, <2>2, <2>3, <2>5, <2>8
  <2> QED
    BY <2>4, <2>6, <2>7, <2>8
<1>e. \A i \in 1..Len(e) : e[i].op = "WORK" \/ \E j \in 1..Len(d) : e[i] = d[j]
  BY <1>2, <1>4, <1>5, <1>6
<1>f. \A j \in 1..Len(d) : \E i \in 1..Len(e) : e[i] = d[j]
  BY <1>2, <1>4, <1>7
<1>17. Falls(e) <=> Falls(d)
  <2>1. "WORK" \notin Barriers \cup {"HALT"}
    BY DEF Barriers
  <2> QED
    BY <1>e, <1>f, <2>1 DEF Falls
<1>18. Halts(e) <=> Halts(d)
  <2>1. ASSUME Halts(e) PROVE Halts(d)
    <3>1. PICK i \in 1..Len(e) : e[i].op = "HALT"
      BY <2>1 DEF Halts
    <3>2. PICK j \in 1..Len(d) : e[i] = d[j]
      BY <1>e, <3>1
    <3> QED
      BY <3>1, <3>2 DEF Halts
  <2>2. ASSUME Halts(d) PROVE Halts(e)
    <3>1. PICK j \in 1..Len(d) : d[j].op = "HALT"
      BY <2>2 DEF Halts
    <3>2. PICK i \in 1..Len(e) : e[i] = d[j]
      BY <1>f
    <3> QED
      BY <3>1, <3>2 DEF Halts
  <2> QED
    BY <2>1, <2>2
<1>19. \A x : LeadsTo(e, x) <=> LeadsTo(d, x)
  <2>1. "WORK" \notin Terminators
    BY DEF Terminators, Analyzable, CondBranches
  <2> QED
    <3>1. ASSUME NEW x, LeadsTo(e, x) PROVE LeadsTo(d, x)
      <4>1. PICK i \in 1..Len(e) : e[i].op \in Terminators \ {"RET"} /\ \E h \in 1..Len(e[i].to) : e[i].to[h] = x
        BY <3>1 DEF LeadsTo
      <4>2. PICK j \in 1..Len(d) : e[i] = d[j]
        BY <1>e, <2>1, <4>1
      <4> QED
        BY <4>1, <4>2 DEF LeadsTo
    <3>2. ASSUME NEW x, LeadsTo(d, x) PROVE LeadsTo(e, x)
      <4>1. PICK j \in 1..Len(d) : d[j].op \in Terminators \ {"RET"} /\ \E h \in 1..Len(d[j].to) : d[j].to[h] = x
        BY <3>2 DEF LeadsTo
      <4>2. PICK i \in 1..Len(e) : e[i] = d[j]
        BY <1>f
      <4> QED
        BY <4>1, <4>2 DEF LeadsTo
    <3> QED
      BY <3>1, <3>2
<1>20. \A S : RegsIn(d, S) => RegsIn(e, S)
  <2>1. "WORK" \notin CondBranches \cup {"JMPR"}
    BY DEF CondBranches
  <2> QED
    BY <1>e, <2>1 DEF RegsIn
<1>21. \A i \in 1..q : e[p + i] = d[i]
  <2>1. \A i \in 1..q : i \in 1..n
    BY <1>2
  <2> QED
    BY <1>4, <2>1
<1> QED
  BY <1>4, <1>15, <1>16, <1>17, <1>18, <1>19, <1>20, <1>21 DEF Joined, k

\* Code that falls through followed by a block ends as that block does.
LEMMA Join ==
  ASSUME NEW p \in Nat, NEW c, IsFall(c, p), ~Halts(c), NEW q \in Nat, NEW d, Form(d, q),
         NEW e, e = c \o d
  PROVE  Joined(c, d, e, p, q)
<1>1. c \in Seq(Instrs) /\ d \in Seq(Instrs) /\ Len(c) = p /\ Len(d) \in Nat
  BY DEF IsFall, Form
<1>2. /\ c \o d \in Seq(Instrs) /\ Len(c \o d) = Len(c) + Len(d)
      /\ \A i \in 1..(Len(c) + Len(d)) :
           (c \o d)[i] = IF i <= Len(c) THEN c[i] ELSE d[i - Len(c)]
  BY <1>1, ConcatProperties
<1>3. \A i \in 1..p : (c \o d)[i] = c[i]
  BY <1>1, <1>2
<1>4. \A i \in 1..Len(d) : (c \o d)[p + i] = d[i]
  <2>1. SUFFICES ASSUME NEW i \in 1..Len(d) PROVE (c \o d)[p + i] = d[i]
    OBVIOUS
  <2>2. p + i \in 1..(Len(c) + Len(d)) /\ ~(p + i <= Len(c)) /\ (p + i) - Len(c) = i
    BY <1>1
  <2>3. (c \o d)[p + i] = d[(p + i) - Len(c)]
    BY <1>2, <2>2
  <2> QED
    BY <2>2, <2>3
<1>5. PICK z : z = c \o d /\ z = e
  OBVIOUS
<1>6. /\ z \in Seq(Instrs) /\ Len(z) = p + Len(d)
      /\ \A i \in 1..p : z[i] = c[i]
      /\ \A i \in 1..Len(d) : z[p + i] = d[i]
  BY <1>1, <1>2, <1>3, <1>4, <1>5
<1>7. Joined(c, d, z, p, q)
  BY <1>6, JoinElements
<1> QED
  BY <1>5, <1>7

\* The empty block falls through and has no branch.
LEMMA EmptyForm ==
  /\ IsFall(<<>>, 0) /\ ~Halts(<<>>) /\ Falls(<<>>)
  /\ \A t : ~LeadsTo(<<>>, t)
  /\ \A nu, ft : Leads(<<>>, nu, ft) = ft
  /\ \A S : RegsIn(<<>>, S)
<1>1. <<>> \in Seq(Instrs) /\ Len(<<>>) = 0 /\ 0 \in 0..0 /\ 1..0 = {} /\ (0 + 1)..0 = {}
  OBVIOUS
<1>2. IsFall(<<>>, 0)
  BY <1>1 DEF IsFall, Form
<1>3. ~Halts(<<>>)
  BY <1>1 DEF Halts
<1>4. FallProfile(<<>>, 0)
  BY <1>2, FallFacts
<1> QED
  BY <1>2, <1>3, <1>4 DEF FallProfile

\* For given outcomes a block either ends with its code or goes on after it.
LEMMA LeadsEither ==
  ASSUME NEW m \in Nat, NEW c, Form(c, m), NEW nu
  PROVE  \/ \A ft : Leads(c, nu, ft) = ft
         \/ \A ft, ft2 : Leads(c, nu, ft) = Leads(c, nu, ft2)
<1>1. \A ft : Leads(c, nu, ft) =
           IF Len(c) = m THEN ft
           ELSE IF Len(c) = m + 1 THEN Through(c[m + 1], nu, ft)
           ELSE Through(c[m + 1], nu, c[m + 2].to[1])
  BY LeadsForm
<1>2. \/ \A ft : Through(c[m + 1], nu, ft) = ft
      \/ \A ft, ft2 : Through(c[m + 1], nu, ft) = Through(c[m + 1], nu, ft2)
  BY DEF Through
<1> QED
  BY <1>1, <1>2

\* The instructions of x move to the end of those of p, which falls into x.
Merges(l, cd, cd2, p, x, m1, m2) ==
  /\ Well(l, cd) /\ p \in Range1(l) /\ x \in Range1(l) /\ p # x /\ Following(l, p) = x
  /\ IsFall(cd[p], m1) /\ ~Halts(cd[p]) /\ Form(cd[x], m2)
  /\ cd2[p] = cd[p] \o cd[x] /\ cd2[x] = <<>>
  /\ \A b \in Range1(l) \ {p, x} : cd2[b] = cd[b]

\* The blocks before and after a merge.
MergedFacts(l, cd, cd2, p, x, m1, m2) ==
  /\ Joined(cd[p], cd[x], cd2[p], m1, m2)
  /\ \A b \in Range1(l) : Formed(cd2[b])
  /\ Inside(l, cd2)
  /\ x \in Passed(l, cd2)
  /\ p \in Passed(l, cd2) <=> m1 + m2 = 0
  /\ p \in Passed(l, cd) <=> m1 = 0
  /\ x \in Passed(l, cd) <=> m2 = 0
  /\ \A b \in Range1(l) \ {p, x} : b \in Passed(l, cd2) <=> b \in Passed(l, cd)

\* What the blocks are before and after a merge.
LEMMA MergeForms ==
  ASSUME NEW l, NEW cd, NEW cd2, NEW p, NEW x, NEW m1 \in Nat, NEW m2 \in Nat,
         Merges(l, cd, cd2, p, x, m1, m2)
  PROVE  MergedFacts(l, cd, cd2, p, x, m1, m2)
<1>1. /\ Lay(l) /\ Inside(l, cd) /\ OwnWork(l, cd) /\ \A b \in Range1(l) : Formed(cd[b])
      /\ p \in Range1(l) /\ x \in Range1(l) /\ p # x
      /\ IsFall(cd[p], m1) /\ ~Halts(cd[p]) /\ Form(cd[x], m2)
      /\ cd2[p] = cd[p] \o cd[x] /\ cd2[x] = <<>>
      /\ \A b \in Range1(l) \ {p, x} : cd2[b] = cd[b]
  BY DEF Merges, Well
<1>2. Joined(cd[p], cd[x], cd2[p], m1, m2)
  <2>1. PICK e : e = cd2[p]
    OBVIOUS
  <2>2. e = cd[p] \o cd[x]
    BY <1>1, <2>1
  <2>3. Joined(cd[p], cd[x], e, m1, m2)
    BY <1>1, <2>2, Join
  <2> QED
    BY <2>1, <2>3
<1>3. Form(cd2[p], m1 + m2) /\ m1 + m2 \in Nat /\ \A t : LeadsTo(cd2[p], t) <=> LeadsTo(cd[x], t)
  BY <1>2 DEF Joined
<1>4. Form(cd2[x], 0) /\ \A t : ~LeadsTo(cd2[x], t)
  BY <1>1, EmptyForm DEF IsFall
<1>5. \A b \in Range1(l) : Formed(cd2[b])
  BY <1>1, <1>3, <1>4 DEF Formed
<1>6. Inside(l, cd2)
  <2>1. SUFFICES ASSUME NEW b \in Range1(l), NEW t, LeadsTo(cd2[b], t) PROVE t \in Range1(l)
    BY DEF Inside
  <2>2. CASE b = p
    BY <1>1, <1>3, <2>1, <2>2 DEF Inside
  <2>3. CASE b = x
    BY <1>4, <2>1, <2>3
  <2>4. CASE b \notin {p, x}
    BY <1>1, <2>1, <2>4 DEF Inside
  <2> QED
    BY <2>2, <2>3, <2>4
<1>7. p \in Passed(l, cd2) <=> m1 + m2 = 0
  BY <1>1, <1>3, InPassed
<1>8. x \in Passed(l, cd2)
  BY <1>1, <1>4, InPassed
<1>9. (p \in Passed(l, cd) <=> m1 = 0) /\ (x \in Passed(l, cd) <=> m2 = 0)
  BY <1>1, InPassed DEF IsFall
<1>10. \A b \in Range1(l) \ {p, x} : b \in Passed(l, cd2) <=> b \in Passed(l, cd)
  BY <1>1 DEF Passed
<1> QED
  BY <1>2, <1>5, <1>6, <1>7, <1>8, <1>9, <1>10 DEF MergedFacts

\* Where a work instruction of a merged block comes from.
Origin(cd, cd2, p, x, m1, m2, b, i) ==
  /\ b # x
  /\ b # p => i \in DOMAIN cd[b] /\ cd[b][i] = cd2[b][i]
  /\ b = p => \/ i \in 1..m1 /\ i \in DOMAIN cd[p] /\ cd[p][i] = cd2[p][i]
              \/ \E j \in 1..m2 : i = m1 + j /\ j \in DOMAIN cd[x] /\ cd[x][j] = cd2[p][i]

\* Where a piece of work comes from after a merge.
LEMMA MergeOrigin ==
  ASSUME NEW l, NEW cd, NEW cd2, NEW p, NEW x, NEW m1 \in Nat, NEW m2 \in Nat,
         Merges(l, cd, cd2, p, x, m1, m2), NEW b \in Range1(l), NEW i \in DOMAIN cd2[b], IsWork(cd2[b][i])
  PROVE  Origin(cd, cd2, p, x, m1, m2, b, i)
<1>1. MergedFacts(l, cd, cd2, p, x, m1, m2)
  BY MergeForms
<1>2. /\ Form(cd2[p], m1 + m2) /\ m1 + m2 \in Nat
      /\ \A j \in 1..m1 : cd2[p][j] = cd[p][j]
      /\ \A j \in 1..m2 : cd2[p][m1 + j] = cd[x][j]
  BY <1>1 DEF MergedFacts, Joined
<1>3. /\ Form(cd[p], m1) /\ Form(cd[x], m2) /\ cd2[x] = <<>>
      /\ \A y \in Range1(l) \ {p, x} : cd2[y] = cd[y]
  BY DEF Merges, IsFall
<1>4. b # x
  BY <1>3
<1>5. b # p => i \in DOMAIN cd[b] /\ cd[b][i] = cd2[b][i]
  BY <1>3, <1>4
<1>6. ASSUME b = p
      PROVE  \/ i \in 1..m1 /\ i \in DOMAIN cd[p] /\ cd[p][i] = cd2[p][i]
             \/ \E j \in 1..m2 : i = m1 + j /\ j \in DOMAIN cd[x] /\ cd[x][j] = cd2[p][i]
  <2>1. i \in 1..(m1 + m2)
    BY <1>2, <1>6, WorkIndex
  <2>2. CASE i \in 1..m1
    BY <1>2, <1>3, <2>2, WorkIndex
  <2>3. CASE i \notin 1..m1
    <3>1. PICK j \in 1..m2 : i = m1 + j
      <4>1. i - m1 \in 1..m2 /\ i = m1 + (i - m1)
        BY <2>1, <2>3
      <4> QED
        BY <4>1
    <3>2. cd[x][j] = cd2[p][i]
      BY <1>2, <3>1
    <3>3. j \in DOMAIN cd[x]
      BY <1>3, WorkIndex
    <3> QED
      BY <3>1, <3>2, <3>3
  <2> QED
    BY <2>2, <2>3
<1> QED
  BY <1>4, <1>5, <1>6 DEF Origin

\* After a merge every piece of work is still in one place.
LEMMA MergeOwn ==
  ASSUME NEW l, NEW cd, NEW cd2, NEW p, NEW x, NEW m1 \in Nat, NEW m2 \in Nat,
         Merges(l, cd, cd2, p, x, m1, m2)
  PROVE  OwnWork(l, cd2)
<1> DEFINE From(b, i, c, j) ==
             /\ c \in Range1(l) /\ j \in DOMAIN cd[c] /\ cd[c][j] = cd2[b][i]
             /\ b # p => c = b /\ j = i
             /\ b = p => (c = p /\ j = i) \/ (c = x /\ j \in Nat /\ i = m1 + j)
<1>1. ASSUME NEW b \in Range1(l), NEW i \in DOMAIN cd2[b], IsWork(cd2[b][i])
      PROVE  b # x /\ \E c, j : From(b, i, c, j)
  <2>0. Origin(cd, cd2, p, x, m1, m2, b, i)
    BY <1>1, MergeOrigin
  <2>1. /\ b # x
        /\ b # p => i \in DOMAIN cd[b] /\ cd[b][i] = cd2[b][i]
        /\ b = p => \/ i \in 1..m1 /\ i \in DOMAIN cd[p] /\ cd[p][i] = cd2[p][i]
                    \/ \E j \in 1..m2 : i = m1 + j /\ j \in DOMAIN cd[x] /\ cd[x][j] = cd2[p][i]
    BY <2>0 DEF Origin
  <2>2. p \in Range1(l) /\ x \in Range1(l)
    BY DEF Merges
  <2>3. CASE b # p
    <3>1. From(b, i, b, i)
      BY <2>1, <2>3
    <3> QED
      BY <2>1, <3>1
  <2>4. CASE b = p /\ i \in DOMAIN cd[p] /\ cd[p][i] = cd2[p][i]
    <3>1. From(b, i, p, i)
      BY <2>2, <2>4
    <3> QED
      BY <2>1, <3>1
  <2>5. CASE b = p /\ \E j \in 1..m2 : i = m1 + j /\ j \in DOMAIN cd[x] /\ cd[x][j] = cd2[p][i]
    <3>1. PICK j \in 1..m2 : i = m1 + j /\ j \in DOMAIN cd[x] /\ cd[x][j] = cd2[p][i]
      BY <2>5
    <3>2. From(b, i, x, j)
      BY <2>2, <2>5, <3>1
    <3> QED
      BY <2>1, <3>2
  <2> QED
    BY <2>1, <2>3, <2>4, <2>5
<1>2. SUFFICES ASSUME NEW b1 \in Range1(l), NEW b2 \in Range1(l),
                      NEW i \in DOMAIN cd2[b1], NEW j \in DOMAIN cd2[b2],
                      IsWork(cd2[b1][i]), IsWork(cd2[b2][j]), cd2[b1][i].reg = cd2[b2][j].reg
               PROVE  b1 = b2 /\ i = j
  BY DEF OwnWork
<1>3. b1 # x /\ b2 # x /\ p # x
  BY <1>1, <1>2 DEF Merges
<1>4. PICK c1, j1 : From(b1, i, c1, j1)
  BY <1>1, <1>2
<1>5. PICK c2, j2 : From(b2, j, c2, j2)
  BY <1>1, <1>2
<1>6. OwnWork(l, cd)
  BY DEF Merges, Well
<1>7. c1 = c2 /\ j1 = j2
  <2>1. /\ c1 \in Range1(l) /\ j1 \in DOMAIN cd[c1] /\ cd[c1][j1] = cd2[b1][i]
        /\ c2 \in Range1(l) /\ j2 \in DOMAIN cd[c2] /\ cd[c2][j2] = cd2[b2][j]
    BY <1>4, <1>5
  <2> HIDE DEF From
  <2>2. /\ IsWork(cd[c1][j1]) /\ IsWork(cd[c2][j2]) /\ cd[c1][j1].reg = cd[c2][j2].reg
    BY <1>2, <2>1
  <2> QED
    BY <1>6, <2>1, <2>2 DEF OwnWork
<1> QED
  BY <1>3, <1>4, <1>5, <1>7

\* The work that is reached before and after a merge.
MergedFirst(l, cd, cd2, p, x, m2, nu) ==
  /\ \A d \in Places(l) \ {x} : Gets(l, cd2, nu, d) = Gets(l, cd, nu, d)
  /\ ~Halts(cd[x]) =>
       Gets(l, cd2, nu, Goes(l, cd2, nu, p)) = Gets(l, cd, nu, Goes(l, cd, nu, x))
  /\ m2 = 0 => Gets(l, cd, nu, x) = Gets(l, cd, nu, Goes(l, cd, nu, x))
  /\ m2 > 0 => Gets(l, cd, nu, x) = {cd[x][1].reg}
  /\ Goes(l, cd, nu, p) = x
  /\ \A b \in Range1(l) \ {p, x} : Goes(l, cd2, nu, b) = Goes(l, cd, nu, b)

\* After a merge the work that is reached is the same.
LEMMA MergeFirst ==
  ASSUME NEW l, NEW cd, NEW cd2, NEW p, NEW x, NEW m1 \in Nat, NEW m2 \in Nat,
         Merges(l, cd, cd2, p, x, m1, m2), NEW nu,
         \A b \in Range1(l) \ {p} : ~Halts(cd[b]) => Goes(l, cd, nu, b) # x
  PROVE  MergedFirst(l, cd, cd2, p, x, m2, nu)
<1> DEFINE P == Passed(l, cd)
           P2 == Passed(l, cd2)
           N == NextOf(l, cd, nu)
           N2 == NextOf(l, cd2, nu)
           F == FirstWork(cd)
           F2 == FirstWork(cd2)
           t == N[x]
<1>1. /\ Lay(l) /\ Inside(l, cd) /\ \A b \in Range1(l) : Formed(cd[b])
      /\ p \in Range1(l) /\ x \in Range1(l) /\ p # x /\ Following(l, p) = x
      /\ IsFall(cd[p], m1) /\ ~Halts(cd[p]) /\ Form(cd[x], m2)
      /\ cd2[x] = <<>>
      /\ \A b \in Range1(l) \ {p, x} : cd2[b] = cd[b]
  BY DEF Merges, Well
<1>2. MergedFacts(l, cd, cd2, p, x, m1, m2)
  BY MergeForms
<1>3. /\ \A b \in Range1(l) : Formed(cd2[b])
      /\ Inside(l, cd2)
      /\ x \in P2
      /\ p \in P2 <=> m1 + m2 = 0
      /\ p \in P <=> m1 = 0
      /\ x \in P <=> m2 = 0
      /\ \A b \in Range1(l) \ {p, x} : b \in P2 <=> b \in P
      /\ P \subseteq Range1(l) /\ P2 \subseteq Range1(l)
  BY <1>2 DEF MergedFacts, Passed
<1>4. /\ \A i \in 1..m1 : cd2[p][i] = cd[p][i]
      /\ \A i \in 1..m2 : cd2[p][m1 + i] = cd[x][i]
      /\ \A ft : Leads(cd2[p], nu, ft) = Leads(cd[x], nu, ft)
  BY <1>2 DEF MergedFacts, Joined
<1>5. \A y \in Range1(l) : N[y] = Goes(l, cd, nu, y) /\ N[y] \in Places(l)
  BY <1>1, GoesPlaces
<1>6. \A y \in Range1(l) : N2[y] = Goes(l, cd2, nu, y) /\ N2[y] \in Places(l)
  BY <1>1, <1>3, GoesPlaces
<1>7. N[p] = x
  <2>1. FallProfile(cd[p], m1)
    BY <1>1, FallFacts
  <2> QED
    BY <1>1, <1>5, <2>1 DEF FallProfile, Goes
<1>8. \A y \in Range1(l) \ {p, x} : N2[y] = N[y]
  BY <1>1, <1>5, <1>6 DEF Goes
<1>9. N2[x] = Following(l, x) /\ N2[x] # x
  <2>1. Following(l, x) # x
    BY <1>1, FollowingFacts, LayNat
  <2> QED
    BY <1>1, <1>6, <2>1, EmptyForm DEF Goes
<1>10. N2[p] = t \/ (N2[p] = x /\ N2[x] = t)
  <2>1. N2[p] = Leads(cd[x], nu, x) /\ t = Leads(cd[x], nu, Following(l, x))
    BY <1>1, <1>4, <1>5, <1>6 DEF Goes
  <2>2. (\A ft : Leads(cd[x], nu, ft) = ft) \/ (\A ft, ft2 : Leads(cd[x], nu, ft) = Leads(cd[x], nu, ft2))
    BY <1>1, LeadsEither
  <2> QED
    BY <1>9, <2>1, <2>2
<1>11. \A b \in Range1(l) \ {p} : ~Halts(cd[b]) => N[b] # x
  BY <1>5
<1>12. \A y \in P : ~Halts(cd[y])
  <2>1. SUFFICES ASSUME NEW y \in P PROVE ~Halts(cd[y])
    OBVIOUS
  <2>2. PICK m \in Nat : Form(cd[y], m)
    BY <1>1, <1>3 DEF Formed
  <2>3. m = 0
    BY <1>3, <2>2, InPassed
  <2>4. Halts(cd[y]) <=> m > 0 /\ cd[y][m].op = "HALT"
    BY <2>2, WorkIndex
  <2> QED
    BY <2>3, <2>4
<1>13. ~Halts(cd[x]) => t # x
  BY <1>1, <1>11
<1>14. \A e \in Places(l) : (e \notin {p, x} \/ (e = p /\ p \notin P)) => F2[e] = F[e]
  <2>1. SUFFICES ASSUME NEW e \in Places(l), e \notin {p, x} \/ (e = p /\ p \notin P) PROVE F2[e] = F[e]
    OBVIOUS
  <2>2. e \in Nat \cup {Exit}
    BY <1>1, LayNat DEF Places, Exit, OffEnd
  <2>3. e \notin {Exit, OffEnd} => cd2[e][1] = cd[e][1]
    <3>1. CASE e \notin {p, x}
      BY <1>1, <3>1 DEF Places
    <3>2. CASE e = p /\ p \notin P
      <4>1. 1 \in 1..m1
        BY <1>3, <3>2
      <4> QED
        BY <1>4, <3>2, <4>1
    <3> QED
      BY <2>1, <3>1, <3>2
  <2> QED
    BY <2>2, <2>3, SameFirst
<1>15. m2 > 0 => F2[p] = IF p \in P THEN F[x] ELSE F[p]
  <2>1. SUFFICES ASSUME m2 > 0 PROVE F2[p] = IF p \in P THEN F[x] ELSE F[p]
    OBVIOUS
  <2>2. CASE p \notin P
    <3>1. p \in Places(l)
      BY <1>1 DEF Places
    <3> QED
      BY <1>14, <2>2, <3>1
  <2>3. CASE p \in P
    <3>1. m1 = 0 /\ 1 \in 1..m2
      BY <1>3, <2>1, <2>3
    <3>2. cd2[p][1] = cd[x][1]
      <4>1. cd2[p][m1 + 1] = cd[x][1] /\ m1 + 1 = 1
        BY <1>4, <3>1
      <4> QED
        BY <4>1
    <3>3. p \in Nat \ {0} /\ x \in Nat \ {0}
      BY <1>1, LayNat
    <3>4. F2[p] = cd2[p][1].reg /\ F[x] = cd[x][1].reg
      BY <3>3 DEF FirstWork, Exit, OffEnd
    <3> QED
      BY <2>3, <3>2, <3>4
  <2> QED
    BY <2>2, <2>3
<1>16. m2 > 0 => F[x] = cd[x][1].reg
  <2>1. x \in Nat \ {0}
    BY <1>1, LayNat
  <2> QED
    BY <2>1 DEF FirstWork, Exit, OffEnd
<1>17. t \in Places(l) /\ t = N[x]
  BY <1>1, <1>5
<1> HIDE DEF P, P2, N, N2, F, F2, t
<1>18. ASSUME m2 = 0, NEW d \in Places(l), d # x PROVE FirstOf(P2, N2, F2, d) = FirstOf(P, N, F, d)
  <2>1. x \in P /\ t # x
    BY <1>3, <1>12, <1>13, <1>18
  <2>2. P2 = P
    <3>1. p \in P2 <=> p \in P
      BY <1>3, <1>18
    <3>2. \A b \in Range1(l) : b \in P2 <=> b \in P
      BY <1>3, <2>1, <3>1
    <3>3. P2 \subseteq P /\ P \subseteq P2
      BY <1>3, <3>2
    <3> QED
      BY <3>3
  <2>3. \A b \in P : N[b] \notin P => F2[N[b]] = F[N[b]]
    <3>1. SUFFICES ASSUME NEW b \in P, N[b] \notin P PROVE F2[N[b]] = F[N[b]]
      OBVIOUS
    <3>2. N[b] \in Places(l) /\ N[b] # x
      BY <1>3, <1>5, <2>1, <3>1
    <3> QED
      BY <1>14, <3>1, <3>2
  <2>4. \A b \in P2 \ {x} : N2[b] = N[b] \/ (N[b] = x /\ N2[b] = t)
    BY <1>3, <1>7, <1>8, <1>10
  <2>5. \A b \in P2 \ {x} : N2[b] = x => x \in P2 /\ N2[x] = t
    <3>1. SUFFICES ASSUME NEW b \in P2 \ {x}, N2[b] = x PROVE x \in P2 /\ N2[x] = t
      OBVIOUS
    <3>2. b = p
      BY <1>3, <1>8, <1>11, <1>12, <2>2, <3>1
    <3> QED
      BY <1>3, <1>10, <2>1, <3>1, <3>2
  <2>6. Bypasses(P, N, F, P2, N2, F2, x, t)
    BY <1>9, <1>17, <2>1, <2>2, <2>3, <2>4, <2>5 DEF Bypasses
  <2>7. d \notin P => F2[d] = F[d]
    BY <1>14, <1>18
  <2> QED
    BY <1>18, <2>6, <2>7, FirstBypass
<1>19. ASSUME m2 > 0, NEW d \in Places(l), d # x PROVE FirstOf(P2, N2, F2, d) = FirstOf(P, N, F, d)
  <2>1. x \notin P /\ p \notin P2
    BY <1>3, <1>19
  <2>2. P2 = (P \ {p}) \cup {x}
    BY <1>1, <1>3, <2>1
  <2>3. \A b \in P \ {p} : N2[b] = N[b] /\ N[b] # x
    BY <1>3, <1>8, <1>11, <1>12, <2>1
  <2>4. \A b \in P : N[b] \notin P \cup {p, x} => F2[N[b]] = F[N[b]]
    BY <1>3, <1>5, <1>14
  <2>5. Absorbs(P, N, F, P2, N2, F2, x, p)
    BY <1>1, <1>7, <1>9, <1>15, <1>19, <2>1, <2>2, <2>3, <2>4 DEF Absorbs
  <2>6. d \notin P \cup {p} => F2[d] = F[d]
    BY <1>14, <1>19
  <2> QED
    BY <1>19, <2>5, <2>6, FirstAbsorb
<1>20. ASSUME NEW d \in Places(l), d # x PROVE FirstOf(P2, N2, F2, d) = FirstOf(P, N, F, d)
  BY <1>18, <1>19, <1>20
<1>21. ~Halts(cd[x]) => FirstOf(P2, N2, F2, N2[p]) = FirstOf(P, N, F, t)
  <2>1. SUFFICES ASSUME ~Halts(cd[x]) PROVE FirstOf(P2, N2, F2, N2[p]) = FirstOf(P, N, F, t)
    OBVIOUS
  <2>2. FirstOf(P2, N2, F2, t) = FirstOf(P, N, F, t)
    BY <1>13, <1>17, <1>20, <2>1
  <2>3. CASE N2[p] = t
    BY <2>2, <2>3
  <2>4. CASE N2[p] = x /\ N2[x] = t
    <3>1. FirstOf(P2, N2, F2, x) = FirstOf(P2, N2, F2, N2[x])
      BY <1>3, FirstNext
    <3> QED
      BY <2>2, <2>4, <3>1
  <2> QED
    BY <1>10, <2>3, <2>4
<1>22. m2 = 0 => FirstOf(P, N, F, x) = FirstOf(P, N, F, t)
  BY <1>3, <1>17, FirstNext
<1>23. m2 > 0 => FirstOf(P, N, F, x) = {cd[x][1].reg}
  BY <1>3, <1>16 DEF FirstOf
<1>24. \A b \in Range1(l) \ {p, x} : Goes(l, cd2, nu, b) = Goes(l, cd, nu, b)
  BY <1>5, <1>6, <1>8
<1>25. Goes(l, cd, nu, p) = x /\ N2[p] = Goes(l, cd2, nu, p) /\ t = Goes(l, cd, nu, x)
  BY <1>1, <1>5, <1>6, <1>7, <1>17
<1> QED
  BY <1>20, <1>21, <1>22, <1>23, <1>24, <1>25 DEF MergedFirst, Gets, P, P2, N, N2, F, F2

\* The work reached from the end of a block, in a well formed function.
LEMMA ReachedGets ==
  ASSUME NEW l, NEW cd, Well(l, cd), NEW nu, NEW b \in Range1(l)
  PROVE  Reached(l, cd, nu, Goes(l, cd, nu, b)) = PickOf(Gets(l, cd, nu, Goes(l, cd, nu, b)))
<1>1. Lay(l) /\ Inside(l, cd) /\ \A y \in Range1(l) : Formed(cd[y])
  BY DEF Well
<1>2. \A y \in Range1(l) : Leads(cd[y], nu, Following(l, y)) \in Places(l)
  BY <1>1, GoesPlaces DEF Goes
<1>3. Range1(l) \subseteq Nat
  BY <1>1, LayNat
<1>4. Goes(l, cd, nu, b) \in Places(l)
  BY <1>2 DEF Goes
<1> QED
  BY <1>2, <1>3, <1>4, ReachedIs

\* The next work after the i-th instruction of block b.
WorkAfter(l, cd, nu, b, m, i) ==
  IF cd[b][i].op = "HALT" THEN Exit
  ELSE IF i < m THEN cd[b][i + 1].reg
  ELSE PickOf(Gets(l, cd, nu, Goes(l, cd, nu, b)))

\* The work after a given work, in a well formed function.
LEMMA NextWorkAfter ==
  ASSUME NEW l, NEW cd, Well(l, cd), NEW b \in Range1(l), NEW m \in Nat, Form(cd[b], m),
         NEW i \in 1..m, NEW k, cd[b][i].reg = k, NEW nu
  PROVE  k \in Works(l, cd) /\ NextWork(l, cd, k, nu) = WorkAfter(l, cd, nu, b, m, i)
<1>1. Reached(l, cd, nu, Leads(cd[b], nu, Following(l, b))) = PickOf(Gets(l, cd, nu, Goes(l, cd, nu, b)))
  BY ReachedGets DEF Goes
<1>2. OwnWork(l, cd) /\ \A y \in Range1(l) : Formed(cd[y])
  BY DEF Well
<1>3. NextWork(l, cd, cd[b][i].reg, nu) =
           IF cd[b][i].op = "HALT" THEN Exit
           ELSE IF i < m THEN cd[b][i + 1].reg
           ELSE Reached(l, cd, nu, Leads(cd[b], nu, Following(l, b)))
  BY <1>2, NextWorkIs
<1>4. k \in Works(l, cd)
  BY <1>2, WorkPlace
<1> QED
  BY <1>1, <1>3, <1>4 DEF WorkAfter

\* Merging a block into the one before it, from which alone it is reached,
\* changes nothing that the program does.
LEMMA FlowMerge ==
  ASSUME NEW l, NEW cd, NEW cd2, NEW p, NEW x, NEW m1 \in Nat, NEW m2 \in Nat,
         Merges(l, cd, cd2, p, x, m1, m2), NEW S,
         \A nu \in [S -> Outcomes] : \A b \in Range1(l) \ {p} : ~Halts(cd[b]) => Goes(l, cd, nu, b) # x
  PROVE  Well(l, cd2) /\ SameFlow(l, cd, l, cd2, S)
<1>1. /\ Well(l, cd) /\ Lay(l)
      /\ p \in Range1(l) /\ x \in Range1(l) /\ p # x
      /\ IsFall(cd[p], m1) /\ ~Halts(cd[p]) /\ Form(cd[x], m2) /\ Form(cd[p], m1)
      /\ \A b \in Range1(l) \ {p, x} : cd2[b] = cd[b]
  BY DEF Merges, Well, IsFall
<1>2. MergedFacts(l, cd, cd2, p, x, m1, m2)
  BY MergeForms
<1>3. /\ \A b \in Range1(l) : Formed(cd2[b])
      /\ Inside(l, cd2)
      /\ Joined(cd[p], cd[x], cd2[p], m1, m2)
  BY <1>2 DEF MergedFacts
<1>4. /\ Form(cd2[p], m1 + m2) /\ m1 + m2 \in Nat
      /\ \A i \in 1..m1 : cd2[p][i] = cd[p][i]
      /\ \A i \in 1..m2 : cd2[p][m1 + i] = cd[x][i]
  BY <1>3 DEF Joined
<1>5. Well(l, cd2)
  BY <1>1, <1>3, MergeOwn DEF Well
<1>6. ASSUME NEW k \in Works(l, cd2)
      PROVE  /\ k \in Works(l, cd)
             /\ \A nu \in [S -> Outcomes] : NextWork(l, cd2, k, nu) = NextWork(l, cd, k, nu)
  <2>a. PICK b \in Range1(l) : \E n \in Nat : \E i \in 1..n : Form(cd2[b], n) /\ cd2[b][i].reg = k
    BY <1>3, <1>6, WorkPlace
  <2>b. PICK n \in Nat : \E i \in 1..n : Form(cd2[b], n) /\ cd2[b][i].reg = k
    BY <2>a
  <2>1. PICK i \in 1..n : Form(cd2[b], n) /\ cd2[b][i].reg = k
    BY <2>b
  <2>2. i \in DOMAIN cd2[b] /\ IsWork(cd2[b][i])
    BY <2>1, WorkIndex
  <2>3. Origin(cd, cd2, p, x, m1, m2, b, i)
    BY <2>2, MergeOrigin
  <2>4. b # x
    BY <2>3 DEF Origin
  <2>m. ASSUME NEW nu \in [S -> Outcomes] PROVE MergedFirst(l, cd, cd2, p, x, m2, nu)
    BY MergeFirst
  <2>5. CASE b # p
    <3>1. cd2[b] = cd[b] /\ Form(cd[b], n) /\ cd[b][i].reg = k
      BY <1>1, <2>1, <2>4, <2>5
    <3>2. k \in Works(l, cd)
      BY <1>1, <3>1, NextWorkAfter
    <3>3. ASSUME NEW nu \in [S -> Outcomes] PROVE NextWork(l, cd2, k, nu) = NextWork(l, cd, k, nu)
      <4>1. NextWork(l, cd, k, nu) = WorkAfter(l, cd, nu, b, n, i)
        BY <1>1, <3>1, NextWorkAfter
      <4>2. NextWork(l, cd2, k, nu) = WorkAfter(l, cd2, nu, b, n, i)
        BY <1>5, <2>1, NextWorkAfter
      <4>3. CASE cd[b][i].op = "HALT" \/ i < n
        BY <3>1, <4>1, <4>2, <4>3 DEF WorkAfter
      <4>4. CASE cd[b][i].op # "HALT" /\ ~(i < n)
        <5>1. i = n
          BY <4>4
        <5>2. ~Halts(cd[b])
          BY <3>1, <4>4, <5>1, WorkIndex
        <5>3. Goes(l, cd, nu, b) # x
          BY <2>5, <5>2
        <5>4. Goes(l, cd, nu, b) \in Places(l)
          BY <1>1, GoesPlaces DEF Well
        <5>5. /\ \A d \in Places(l) \ {x} : Gets(l, cd2, nu, d) = Gets(l, cd, nu, d)
              /\ Goes(l, cd2, nu, b) = Goes(l, cd, nu, b)
          BY <2>m, <2>4, <2>5 DEF MergedFirst
        <5>6. Gets(l, cd2, nu, Goes(l, cd2, nu, b)) = Gets(l, cd, nu, Goes(l, cd, nu, b))
          BY <5>3, <5>4, <5>5
        <5> QED
          BY <3>1, <4>1, <4>2, <4>4, <5>6 DEF WorkAfter
      <4> QED
        BY <4>3, <4>4
    <3> QED
      BY <3>2, <3>3
  <2>6. CASE b = p /\ i \in 1..m1
    <3>1. cd2[p][i] = cd[p][i] /\ cd[p][i].reg = k
      BY <1>4, <2>1, <2>6
    <3>2. k \in Works(l, cd)
      BY <1>1, <2>6, <3>1, NextWorkAfter
    <3>3. ASSUME NEW nu \in [S -> Outcomes] PROVE NextWork(l, cd2, k, nu) = NextWork(l, cd, k, nu)
      <4>1. NextWork(l, cd, k, nu) = WorkAfter(l, cd, nu, p, m1, i)
        BY <1>1, <2>6, <3>1, NextWorkAfter
      <4>2. NextWork(l, cd2, k, nu) = WorkAfter(l, cd2, nu, p, m1 + m2, i)
        <5>1. i \in 1..(m1 + m2) /\ cd2[p][i].reg = k
          BY <2>6, <3>1
        <5> QED
          BY <1>1, <1>4, <1>5, <5>1, NextWorkAfter
      <4>3. cd[p][i].op # "HALT"
        <5>1. i \in DOMAIN cd[p] /\ DOMAIN cd[p] = 1..Len(cd[p])
          BY <1>1, <2>6, WorkIndex
        <5> QED
          BY <1>1, <5>1 DEF Halts
      <4>4. CASE i < m1
        <5>1. i + 1 \in 1..m1 /\ i < m1 + m2
          BY <2>6, <4>4
        <5>2. cd2[p][i + 1] = cd[p][i + 1]
          BY <1>4, <5>1
        <5> QED
          BY <3>1, <4>1, <4>2, <4>3, <4>4, <5>1, <5>2 DEF WorkAfter
      <4>5. CASE i = m1 /\ m2 > 0
        <5>1. 1 \in 1..m2 /\ i < m1 + m2 /\ ~(i < m1) /\ i + 1 = m1 + 1
          BY <4>5
        <5>2. cd2[p][m1 + 1] = cd[x][1]
          BY <1>4, <5>1
        <5>3. /\ Gets(l, cd, nu, x) = {cd[x][1].reg}
              /\ Goes(l, cd, nu, p) = x
          BY <2>m, <4>5 DEF MergedFirst
        <5>4. PickOf({cd[x][1].reg}) = cd[x][1].reg
          BY DEF PickOf
        <5>5. WorkAfter(l, cd, nu, p, m1, i) = cd[x][1].reg
          BY <4>3, <5>1, <5>3, <5>4 DEF WorkAfter
        <5>6. WorkAfter(l, cd2, nu, p, m1 + m2, i) = cd2[p][i + 1].reg
          BY <3>1, <4>3, <5>1 DEF WorkAfter
        <5> QED
          BY <4>1, <4>2, <5>1, <5>2, <5>5, <5>6
      <4>6. CASE i = m1 /\ m2 = 0
        <5>1. ~(i < m1) /\ ~(i < m1 + m2)
          BY <4>6
        <5>2. ~Halts(cd[x])
          <6>1. Halts(cd[x]) <=> m2 > 0 /\ cd[x][m2].op = "HALT"
            BY <1>1, WorkIndex
          <6> QED
            BY <4>6, <6>1
        <5>3. /\ Gets(l, cd2, nu, Goes(l, cd2, nu, p)) = Gets(l, cd, nu, Goes(l, cd, nu, x))
              /\ Gets(l, cd, nu, x) = Gets(l, cd, nu, Goes(l, cd, nu, x))
              /\ Goes(l, cd, nu, p) = x
          BY <2>m, <4>6, <5>2 DEF MergedFirst
        <5> QED
          BY <3>1, <4>1, <4>2, <4>3, <5>1, <5>3 DEF WorkAfter
      <4> QED
        BY <2>6, <4>4, <4>5, <4>6
    <3> QED
      BY <3>2, <3>3
  <2>7. CASE b = p /\ i \notin 1..m1
    <3>1. PICK j \in 1..m2 : i = m1 + j /\ cd[x][j] = cd2[p][i]
      BY <2>3, <2>7 DEF Origin
    <3>2. cd[x][j].reg = k
      BY <2>1, <2>7, <3>1
    <3>3. k \in Works(l, cd)
      BY <1>1, <3>2, NextWorkAfter
    <3>4. ASSUME NEW nu \in [S -> Outcomes] PROVE NextWork(l, cd2, k, nu) = NextWork(l, cd, k, nu)
      <4>1. NextWork(l, cd, k, nu) = WorkAfter(l, cd, nu, x, m2, j)
        BY <1>1, <3>2, NextWorkAfter
      <4>2. NextWork(l, cd2, k, nu) = WorkAfter(l, cd2, nu, p, m1 + m2, i)
        <5>1. i \in 1..(m1 + m2) /\ cd2[p][i].reg = k
          BY <2>1, <2>7, <3>1
        <5> QED
          BY <1>1, <1>4, <1>5, <5>1, NextWorkAfter
      <4>3. CASE cd[x][j].op = "HALT"
        BY <3>1, <4>1, <4>2, <4>3 DEF WorkAfter
      <4>4. CASE cd[x][j].op # "HALT" /\ j < m2
        <5>1. j + 1 \in 1..m2 /\ i < m1 + m2 /\ i + 1 = m1 + (j + 1)
          BY <3>1, <4>4
        <5>2. cd2[p][m1 + (j + 1)] = cd[x][j + 1]
          BY <1>4, <5>1
        <5>3. WorkAfter(l, cd, nu, x, m2, j) = cd[x][j + 1].reg
          BY <4>4 DEF WorkAfter
        <5>4. WorkAfter(l, cd2, nu, p, m1 + m2, i) = cd2[p][i + 1].reg
          BY <3>1, <4>4, <5>1 DEF WorkAfter
        <5> QED
          BY <4>1, <4>2, <5>1, <5>2, <5>3, <5>4
      <4>5. CASE cd[x][j].op # "HALT" /\ ~(j < m2)
        <5>1. j = m2 /\ ~(i < m1 + m2) /\ m2 > 0
          BY <3>1, <4>5
        <5>2. ~Halts(cd[x])
          BY <1>1, <4>5, <5>1, WorkIndex
        <5>3. Gets(l, cd2, nu, Goes(l, cd2, nu, p)) = Gets(l, cd, nu, Goes(l, cd, nu, x))
          BY <2>m, <5>2 DEF MergedFirst
        <5>4. WorkAfter(l, cd, nu, x, m2, j) = PickOf(Gets(l, cd, nu, Goes(l, cd, nu, x)))
          BY <4>5 DEF WorkAfter
        <5>5. WorkAfter(l, cd2, nu, p, m1 + m2, i) = PickOf(Gets(l, cd2, nu, Goes(l, cd2, nu, p)))
          BY <3>1, <4>5, <5>1 DEF WorkAfter
        <5> QED
          BY <4>1, <4>2, <5>3, <5>4, <5>5
      <4> QED
        BY <4>3, <4>4, <4>5
    <3> QED
      BY <3>3, <3>4
  <2> QED
    BY <2>5, <2>6, <2>7
<1> QED
  BY <1>5, <1>6 DEF SameFlow

(***************************************************************************)
(* Steps of branch folding, seen from a single block.                      *)
(***************************************************************************)

\* The edges s cover where instructions c lead when the block after is ft.
Covered(c, ft, s) ==
  /\ \A t : LeadsTo(c, t) => t \in Range1(s)
  /\ Falls(c) => ft \in Range1(s)
  /\ Halts(c) => s = <<>>

\* A function whose edges cover its code: branch folding keeps it so.
Whole(l, cd, sc) ==
  /\ Lay(l) /\ OwnWork(l, cd)
  /\ DOMAIN sc = DOMAIN cd /\ Range1(l) \subseteq DOMAIN cd
  /\ \A b \in Range1(l) :
       /\ Formed(cd[b]) /\ sc[b] \in Seq(Range1(l) \ {1})
       /\ Covered(cd[b], Following(l, b), sc[b])

\* The program does after a step what it did before.
Evolves(l, cd, l2, cd2) ==
  /\ Well(l2, cd2)
  /\ \A S : (\A b \in Range1(l) : RegsIn(cd[b], S)) =>
       SameFlow(l, cd, l2, cd2, S) /\ \A b \in Range1(l2) : RegsIn(cd2[b], S)

\* Instructions c before block ft become d before block ft2.
Becomes(c, ft, d, ft2) ==
  /\ \E m \in Nat : Form(c, m) /\ Like(c, d, m)
  /\ \A S : RegsIn(c, S) => RegsIn(d, S)
  /\ ~Halts(c) => \A S : RegsIn(c, S) =>
       \A nu \in [S -> Outcomes] : Leads(d, nu, ft2) = Leads(c, nu, ft)

\* A block keeps its work, leads where it led, and its edges cover it.
BlockStep(c, ft, d, ft2, s2, T) ==
  /\ Becomes(c, ft, d, ft2) /\ Covered(d, ft2, s2) /\ s2 \in Seq(T)

\* An element of a sequence is in the set it is a sequence over.
LEMMA SeqRange ==
  ASSUME NEW T, NEW s \in Seq(T), NEW x \in Range1(s)
  PROVE  x \in T
BY RangeOf

\* A function whose edges cover its code is well formed.
LEMMA WholeWell ==
  ASSUME NEW l, NEW cd, NEW sc, Whole(l, cd, sc)
  PROVE  Well(l, cd)
<1>1. Inside(l, cd)
  <2>1. SUFFICES ASSUME NEW b \in Range1(l), NEW t, LeadsTo(cd[b], t) PROVE t \in Range1(l)
    BY DEF Inside
  <2>2. sc[b] \in Seq(Range1(l) \ {1}) /\ t \in Range1(sc[b])
    BY <2>1 DEF Whole, Covered
  <2> QED
    BY <2>2, SeqRange
<1> QED
  BY <1>1 DEF Well, Whole

\* Comparisons read the registers of selected blocks.
LEMMA RegsBound ==
  ASSUME NEW c, Formed(c)
  PROVE  RegsIn(c, 1..NumBlocks)
<1>1. PICK m \in Nat : Form(c, m)
  BY DEF Formed
<1>2. SUFFICES ASSUME NEW i \in 1..Len(c), c[i].op \in CondBranches \cup {"JMPR"}
               PROVE  c[i].reg \in 1..NumBlocks
  BY DEF RegsIn
<1>3. Len(c) \in Nat /\ m \in 0..Len(c)
  BY <1>1 DEF Form
<1>4. i \in 1..m \/ i \in (m + 1)..Len(c)
  BY <1>3
<1> QED
  BY <1>1, <1>2, <1>4 DEF Form

\* A step that, block by block, keeps work and leads preserves the whole
\* function and its flow.
LEMMA StepByBlocks ==
  ASSUME NEW l, NEW cd, NEW sc, Whole(l, cd, sc), NEW l2, NEW cd2, NEW sc2,
         Lay(l2), Range1(l2) = Range1(l), DOMAIN cd2 = DOMAIN cd, DOMAIN sc2 = DOMAIN cd,
         \A b \in Range1(l) :
           BlockStep(cd[b], Following(l, b), cd2[b], Following(l2, b), sc2[b], Range1(l) \ {1})
  PROVE  Whole(l2, cd2, sc2) /\ Evolves(l, cd, l2, cd2)
<1>1. /\ Well(l, cd) /\ Range1(l) \subseteq DOMAIN cd
      /\ \A b \in Range1(l) : Formed(cd[b])
  BY WholeWell DEF Whole
<1>2. \A b \in Range1(l) :
        /\ Keeps(cd, cd2, b) /\ Formed(cd2[b])
        /\ sc2[b] \in Seq(Range1(l) \ {1}) /\ Covered(cd2[b], Following(l2, b), sc2[b])
  BY DEF BlockStep, Becomes, Keeps, Formed, Like
<1>3. Inside(l2, cd2)
  <2>1. SUFFICES ASSUME NEW b \in Range1(l2), NEW t, LeadsTo(cd2[b], t) PROVE t \in Range1(l2)
    BY DEF Inside
  <2>2. sc2[b] \in Seq(Range1(l) \ {1}) /\ t \in Range1(sc2[b])
    BY <1>2, <2>1 DEF Covered
  <2> QED
    BY <2>2, SeqRange
<1>4. ASSUME NEW S, \A b \in Range1(l) : RegsIn(cd[b], S)
      PROVE  /\ Well(l2, cd2) /\ SameFlow(l, cd, l2, cd2, S)
             /\ \A b \in Range1(l2) : RegsIn(cd2[b], S)
  <2>1. \A nu \in [S -> Outcomes] : \A b \in Range1(l2) : ~Halts(cd[b]) =>
          Leads(cd2[b], nu, Following(l2, b)) = Leads(cd[b], nu, Following(l, b))
    BY <1>4 DEF BlockStep, Becomes
  <2>2. \A b \in Range1(l2) : RegsIn(cd2[b], S)
    BY <1>4 DEF BlockStep, Becomes
  <2>3. Passed(l, cd) \subseteq Range1(l2) /\ Range1(l2) \subseteq Range1(l)
    BY DEF Passed
  <2>4. Well(l2, cd2) /\ SameFlow(l, cd, l2, cd2, S)
    BY <1>1, <1>2, <1>3, <2>1, <2>3, FlowLocal
  <2> QED
    BY <2>2, <2>4
<1>5. Well(l2, cd2)
  <2>1. \A b \in Range1(l) : RegsIn(cd[b], 1..NumBlocks)
    BY <1>1, RegsBound
  <2> QED
    BY <1>4, <2>1
<1>6. Evolves(l, cd, l2, cd2)
  BY <1>4, <1>5 DEF Evolves
<1>7. Whole(l2, cd2, sc2)
  BY <1>1, <1>2, <1>5 DEF Whole, Well
<1> QED
  BY <1>6, <1>7

\* A rewritten branch leads where the branch led.
LEMMA RewritesBecomes ==
  ASSUME NEW m \in Nat, NEW c, NEW ft, NEW d, NEW ft2, Form(c, m), Rewrites(c, ft, d, ft2, m)
  PROVE  Becomes(c, ft, d, ft2) /\ (Halts(d) <=> Halts(c))
<1>1. Like(c, d, m)
  BY DEF Rewrites
<1> QED
  BY <1>1, LikeHalts DEF Rewrites, Becomes

\* A block that is not changed.
LEMMA SameBlock ==
  ASSUME NEW c, Formed(c), NEW ft, NEW ft2, NEW T, NEW s \in Seq(T), Covered(c, ft, s), ft2 = ft \/ ~Falls(c)
  PROVE  BlockStep(c, ft, c, ft2, s, T)
<1>1. PICK m \in Nat : Form(c, m)
  BY DEF Formed
<1>2. Like(c, c, m)
  BY <1>1 DEF Like
<1>3. ~Halts(c) => \A nu : Leads(c, nu, ft2) = Leads(c, nu, ft)
  BY <1>1, CoverLeads
<1> QED
  BY <1>1, <1>2, <1>3 DEF BlockStep, Becomes, Covered

\* A block that only loses a jump after a jump.
LEMMA ErasedBlock ==
  ASSUME NEW c, Formed(c), NEW ft, NEW ft2, NEW T, NEW s \in Seq(T), Covered(c, ft, s), ft2 = ft \/ ~Falls(c)
  PROVE  BlockStep(c, ft, Ana(c).code, ft2, s, T)
<1>1. PICK m \in Nat : Form(c, m)
  BY DEF Formed
<1>2. PICK d : d = Ana(c).code
  OBVIOUS
<1>3. ErasedProfile(c, d, m)
  BY <1>1, <1>2, Erase
<1>4. /\ Like(c, d, m)
      /\ Falls(d) <=> Falls(c)
      /\ \A x : LeadsTo(d, x) => LeadsTo(c, x)
      /\ \A S : RegsIn(c, S) => RegsIn(d, S)
      /\ \A nu, f : Leads(d, nu, f) = Leads(c, nu, f)
  BY <1>3 DEF ErasedProfile
<1>5. Halts(d) <=> Halts(c)
  BY <1>1, <1>4, LikeHalts
<1>6. ~Halts(c) => \A nu : Leads(c, nu, ft2) = Leads(c, nu, ft)
  BY <1>1, CoverLeads
<1>7. BlockStep(c, ft, d, ft2, s, T)
  BY <1>1, <1>4, <1>5, <1>6 DEF BlockStep, Becomes, Covered
<1> QED
  BY <1>2, <1>7

\* The edges that are left when a branch is cleaned up.
CleanEdges(c, s, ft) == IF Ana(c).fail THEN s ELSE CorrectExtraCFGEdges(s, Ana(c), ft)

\* A block that loses a jump after a jump and the edges its branch does not
\* take.
LEMMA CleanBlock ==
  ASSUME NEW c, Formed(c), NEW ft, NEW T, NEW s \in Seq(T), Covered(c, ft, s)
  PROVE  BlockStep(c, ft, Ana(c).code, ft, CleanEdges(c, s, ft), T)
<1>1. PICK m \in Nat : Form(c, m)
  BY DEF Formed
<1>2. BlockStep(c, ft, Ana(c).code, ft, s, T)
  BY ErasedBlock
<1>3. PICK a : a = Ana(c)
  OBVIOUS
<1>4. PICK d : d = a.code
  OBVIOUS
<1>5. PICK k : k = CorrectExtraCFGEdges(s, a, ft)
  OBVIOUS
<1>6. Becomes(c, ft, d, ft) /\ Covered(d, ft, s)
  BY <1>2, <1>3, <1>4 DEF BlockStep
<1>7. ASSUME ~a.fail PROVE Covered(d, ft, k) /\ k \in Seq(T)
  <2>1. /\ k \in Seq(T) /\ Len(k) <= Len(s)
        /\ \A x \in Range1(s) :
              x \in Range1(k) <=>
                \/ x = IF a.tbb = 0 THEN ft ELSE a.tbb
                \/ x = IF a.fbb # 0 THEN a.fbb ELSE IF a.tbb = 0 \/ a.cond # <<>> THEN ft ELSE 0
    BY <1>5, CorrectedEdges
  <2>2. s = <<>> => k = <<>>
    BY <2>1
  <2>3. PICK f : f = AnaF(c)
    OBVIOUS
  <2>4. CASE CaseFall(c, m, a, f)
    <3>1. /\ a.tbb = 0 /\ a.fbb = 0 /\ d = c
          /\ \A t : ~LeadsTo(d, t)
      BY <1>4, <2>4 DEF CaseFall, Answer, FallProfile
    <3> QED
      BY <1>6, <2>1, <2>2, <3>1 DEF Covered
  <2>5. CASE \E t : CaseJump(c, m, a, f, t)
    <3>1. PICK t : CaseJump(c, m, a, f, t)
      BY <2>5
    <3>2. /\ a.tbb = t /\ a.tbb # 0 /\ d = c /\ ~Falls(d)
          /\ \A x : LeadsTo(d, x) => x = t
      BY <1>4, <3>1 DEF CaseJump, Answer, JumpProfile, Targets1
    <3> QED
      BY <1>6, <2>1, <2>2, <3>2 DEF Covered
  <2>6. CASE \E op, r, t : CaseCond(c, m, a, f, op, r, t)
    <3>1. PICK op, r, t : CaseCond(c, m, a, f, op, r, t)
      BY <2>6
    <3>2. /\ a.tbb = t /\ a.tbb # 0 /\ d = c /\ a.fbb = 0 /\ a.cond = <<op, r>>
          /\ \A x : LeadsTo(d, x) => x = t
      BY <1>4, <3>1 DEF CaseCond, Answer, CondProfile, Targets1
    <3>3. a.cond # <<>>
      BY <3>2
    <3> QED
      BY <1>6, <2>1, <2>2, <3>2, <3>3 DEF Covered
  <2>7. CASE \E op, r, t, u : CaseCond2(c, m, a, f, op, r, t, u)
    <3>1. PICK op, r, t, u : CaseCond2(c, m, a, f, op, r, t, u)
      BY <2>7
    <3>2. /\ a.tbb = t /\ a.tbb # 0 /\ d = c /\ a.fbb = u /\ u # 0 /\ ~Falls(d)
          /\ \A x : LeadsTo(d, x) => x \in {t, u}
      BY <1>4, <3>1 DEF CaseCond2, Answer, Cond2Profile, Targets1
    <3> QED
      BY <1>6, <2>1, <2>2, <3>2 DEF Covered
  <2>8. CASE \E t, u : CaseJumps(c, m, a, f, t, u)
    <3>1. PICK t, u : CaseJumps(c, m, a, f, t, u)
      BY <2>8
    <3>2. /\ a.tbb = t /\ a.tbb # 0 /\ d = Front(c) /\ IsJump(Front(c), m, t)
      BY <1>4, <3>1 DEF CaseJumps, Answer, JumpsProfile, Targets1
    <3>3. JumpProfile(d, m, t)
      BY <3>2, JumpFacts
    <3>4. ~Falls(d) /\ \A x : LeadsTo(d, x) => x = t
      BY <3>3 DEF JumpProfile
    <3> QED
      BY <1>6, <2>1, <2>2, <3>2, <3>4 DEF Covered
  <2>9. CASE CaseOther(c, m, a, f)
    BY <1>7, <2>9 DEF CaseOther, NoAnswer
  <2> QED
    BY <1>1, <1>3, <2>3, <2>4, <2>5, <2>6, <2>7, <2>8, <2>9, AnaCases
<1>8. CASE a.fail
  BY <1>2, <1>3, <1>8 DEF CleanEdges
<1>9. CASE ~a.fail
  <2>1. CleanEdges(c, s, ft) = k
    BY <1>3, <1>5, <1>9 DEF CleanEdges
  <2> QED
    BY <1>3, <1>4, <1>6, <1>7, <1>9, <2>1 DEF BlockStep
<1> QED
  BY <1>8, <1>9

(***************************************************************************)
(* The rewritings of the previous block's branch.                          *)
(***************************************************************************)
LEMMA RewrittenBlock ==
  ASSUME NEW m \in Nat, NEW c, NEW ft, NEW d, NEW ft2, Form(c, m), Rewrites(c, ft, d, ft2, m), ~Halts(c),
         NEW T, NEW s \in Seq(T), \A x : LeadsTo(d, x) => x \in Range1(s), Falls(d) => ft2 \in Range1(s)
  PROVE  BlockStep(c, ft, d, ft2, s, T)
BY RewritesBecomes DEF BlockStep, Covered

\* JoinDestinations on the block before.
LEMMA JoinBlock ==
  ASSUME NEW c, Formed(c), NEW ft, NEW T, NEW s \in Seq(T), Covered(c, ft, s),
         NEW a, a = Ana(c), a.tbb # 0, a.fbb = a.tbb,
         NEW d, d = IF a.tbb = ft THEN RemoveBranch(c) ELSE Rewritten(c, a.tbb, 0, <<>>)
  PROVE  BlockStep(c, ft, d, ft, s, T)
<1>1. PICK m \in Nat : Form(c, m)
  BY DEF Formed
<1>2. PICK t : t = a.tbb
  OBVIOUS
<1>3. PICK e : e = RemoveBranch(c)
  OBVIOUS
<1>4. PICK g : g = Rewritten(c, a.tbb, 0, <<>>)
  OBVIOUS
<1>5. /\ LeadsTo(c, a.tbb) /\ ~Falls(c) /\ ~Halts(c)
      /\ Rewrites(c, ft, e, a.tbb, m) /\ EndsFalling(e)
      /\ Rewrites(c, ft, g, ft, m)
      /\ EndsJumping(g, a.tbb)
  BY <1>1, <1>3, <1>4, RewriteJoin
<1>6. a.tbb \in Range1(s)
  BY <1>5 DEF Covered
<1>7. a.tbb = ft => BlockStep(c, ft, e, ft, s, T)
  <2>1. SUFFICES ASSUME a.tbb = ft PROVE BlockStep(c, ft, e, ft, s, T)
    OBVIOUS
  <2>2. /\ Rewrites(c, ft, e, ft, m)
        /\ \A x : LeadsTo(e, x) => x \in Range1(s)
        /\ Falls(e) => ft \in Range1(s)
    BY <1>5, <1>6, <2>1 DEF EndsFalling
  <2> QED
    BY <1>1, <1>5, <2>2, RewrittenBlock
<1>8. BlockStep(c, ft, g, ft, s, T)
  <2>1. /\ \A x : LeadsTo(g, x) => x \in Range1(s)
        /\ Falls(g) => ft \in Range1(s)
    BY <1>5, <1>6 DEF EndsJumping
  <2> QED
    BY <1>1, <1>5, <2>1, RewrittenBlock
<1> QED
  BY <1>3, <1>4, <1>7, <1>8

\* RemoveOnlyBranch on the block before.
LEMMA OnlyBlock ==
  ASSUME NEW c, Formed(c), NEW ft, NEW T, NEW s \in Seq(T), Covered(c, ft, s),
         NEW a, a = Ana(c), a.tbb # 0, a.tbb = ft, a.fbb = 0,
         NEW d, d = RemoveBranch(c)
  PROVE  BlockStep(c, ft, d, ft, s, T)
<1>1. PICK m \in Nat : Form(c, m)
  BY DEF Formed
<1>2. /\ LeadsTo(c, a.tbb) /\ ~Halts(c)
      /\ Rewrites(c, a.tbb, d, a.tbb, m) /\ EndsFalling(d)
  BY <1>1, RewriteOnly
<1>3. /\ Rewrites(c, ft, d, ft, m)
      /\ \A x : LeadsTo(d, x) => x \in Range1(s)
      /\ Falls(d) => ft \in Range1(s)
  BY <1>2 DEF EndsFalling, Covered
<1> QED
  BY <1>1, <1>2, <1>3, RewrittenBlock

\* DropFalseBranch on the block before.
LEMMA FalseBlock ==
  ASSUME NEW c, Formed(c), NEW ft, NEW T, NEW s \in Seq(T), Covered(c, ft, s),
         NEW a, a = Ana(c), a.fbb # 0, a.fbb = ft,
         NEW d, d = Rewritten(c, a.tbb, 0, a.cond)
  PROVE  BlockStep(c, ft, d, ft, s, T)
<1>1. PICK m \in Nat : Form(c, m)
  BY DEF Formed
<1>e. PICK e : e = Rewritten(c, a.tbb, 0, a.cond)
  OBVIOUS
<1>f. d = e
  BY <1>e
<1>p. FalseProfile(c, m, a, ft, e)
  BY <1>1, <1>e, RewriteFalse
<1>2. /\ LeadsTo(c, a.fbb) /\ ~Falls(c) /\ ~Halts(c)
      /\ Rewrites(c, ft, e, a.fbb, m)
      /\ \A x : LeadsTo(e, x) => LeadsTo(c, x)
  BY <1>p DEF FalseProfile
<1>3. /\ Rewrites(c, ft, e, ft, m)
      /\ \A x : LeadsTo(e, x) => x \in Range1(s)
      /\ Falls(e) => ft \in Range1(s)
  BY <1>2 DEF Covered
<1>g. BlockStep(c, ft, e, ft, s, T)
  BY <1>1, <1>2, <1>3, RewrittenBlock
<1> QED
  BY <1>f, <1>g

\* ReversePrior on the block before.
LEMMA ReverseBlock ==
  ASSUME NEW c, Formed(c), NEW ft, NEW T, NEW s \in Seq(T), Covered(c, ft, s),
         NEW a, a = Ana(c), a.fbb # 0, a.tbb = ft,
         NEW d, d = Rewritten(c, a.fbb, 0, ReverseBranchCondition(a.cond))
  PROVE  BlockStep(c, ft, d, ft, s, T)
<1>1. PICK m \in Nat : Form(c, m)
  BY DEF Formed
<1>e. PICK e : e = Rewritten(c, a.fbb, 0, ReverseBranchCondition(a.cond))
  OBVIOUS
<1>f. d = e
  BY <1>e
<1>p. ReverseProfile(c, m, a, ft, e)
  BY <1>1, <1>e, RewriteReverse
<1>2. /\ LeadsTo(c, a.tbb) /\ ~Falls(c) /\ ~Halts(c)
      /\ Rewrites(c, ft, e, a.tbb, m)
      /\ \A x : LeadsTo(e, x) => LeadsTo(c, x)
  BY <1>p DEF ReverseProfile
<1>3. /\ Rewrites(c, ft, e, ft, m)
      /\ \A x : LeadsTo(e, x) => x \in Range1(s)
      /\ Falls(e) => ft \in Range1(s)
  BY <1>2 DEF Covered
<1>g. BlockStep(c, ft, e, ft, s, T)
  BY <1>1, <1>2, <1>3, RewrittenBlock
<1> QED
  BY <1>f, <1>g

\* ReverseLoop on a block.
LEMMA LoopBlock ==
  ASSUME NEW c, Formed(c), NEW ft, NEW T, NEW s \in Seq(T), Covered(c, ft, s),
         NEW a, a = Ana(c), a.fbb # 0,
         NEW d, d = Rewritten(c, a.fbb, a.tbb, ReverseBranchCondition(a.cond))
  PROVE  BlockStep(c, ft, d, ft, s, T)
<1>1. PICK m \in Nat : Form(c, m)
  BY DEF Formed
<1>e. PICK e : e = Rewritten(c, a.fbb, a.tbb, ReverseBranchCondition(a.cond))
  OBVIOUS
<1>f. d = e
  BY <1>e
<1>p. LoopProfile(c, m, a, ft, e, ft)
  BY <1>1, <1>e, RewriteLoop
<1>2. /\ Rewrites(c, ft, e, ft, m) /\ ~Falls(e) /\ ~Falls(c) /\ ~Halts(c)
      /\ \A x : LeadsTo(e, x) => LeadsTo(c, x)
  BY <1>p DEF LoopProfile
<1>3. /\ \A x : LeadsTo(e, x) => x \in Range1(s)
      /\ Falls(e) => ft \in Range1(s)
  BY <1>2 DEF Covered
<1>g. BlockStep(c, ft, e, ft, s, T)
  BY <1>1, <1>2, <1>3, RewrittenBlock
<1> QED
  BY <1>f, <1>g

\* The block moves away: what was its target is now what follows.
LEMMA AsideBlock ==
  ASSUME NEW c, Formed(c), NEW ft \in Targets1, NEW T, NEW s \in Seq(T), Covered(c, ft, s),
         NEW a, a = Ana(c), a.cond # <<>>, a.fbb = 0, NEW ft2, a.tbb = ft2,
         NEW d, d = Rewritten(c, ft, 0, ReverseBranchCondition(a.cond))
  PROVE  BlockStep(c, ft, d, ft2, s, T)
<1>1. PICK m \in Nat : Form(c, m)
  BY DEF Formed
<1>e. PICK e : e = Rewritten(c, ft, 0, ReverseBranchCondition(a.cond))
  OBVIOUS
<1>f. d = e
  BY <1>e
<1>p. AsideProfile(c, m, a, ft, e)
  BY <1>1, <1>e, RewriteAside
<1>2. /\ LeadsTo(c, a.tbb) /\ Falls(c) /\ ~Halts(c)
      /\ Rewrites(c, ft, e, a.tbb, m) /\ Falls(e)
      /\ \A x : LeadsTo(e, x) <=> x = ft
  BY <1>p DEF AsideProfile
<1>3. /\ Rewrites(c, ft, e, ft2, m)
      /\ \A x : LeadsTo(e, x) => x \in Range1(s)
      /\ Falls(e) => ft2 \in Range1(s)
  BY <1>2 DEF Covered
<1>g. BlockStep(c, ft, e, ft2, s, T)
  BY <1>1, <1>2, <1>3, RewrittenBlock
<1> QED
  BY <1>f, <1>g

\* A fall through made explicit leads to the block that followed, wherever the
\* block is put.
LEMMA ExplicitBlock ==
  ASSUME NEW c, Formed(c), NEW ft \in Targets1, NEW T, NEW s \in Seq(T), Covered(c, ft, s),
         CanFall(c, s, ft), NEW a, a = Ana(c), ft \notin {a.tbb, a.fbb}, NEW ft2,
         NEW d, d = IF a.tbb = 0 THEN Rewritten(c, ft, 0, a.cond) ELSE Rewritten(c, a.tbb, ft, a.cond)
  PROVE  BlockStep(c, ft, d, ft2, s, T) /\ ~Falls(d)
<1>1. PICK m \in Nat : Form(c, m)
  BY DEF Formed
<1>e. PICK e : e = IF a.tbb = 0 THEN Rewritten(c, ft, 0, a.cond) ELSE Rewritten(c, a.tbb, ft, a.cond)
  OBVIOUS
<1>f. d = e
  BY <1>e
<1>2. ft \in Range1(s)
  BY DEF CanFall
<1>h. ~Halts(c)
  <2>1. Halts(c) => s = <<>>
    BY DEF Covered
  <2>2. Range1(<<>>) = {}
    BY DEF Range1
  <2> QED
    BY <1>2, <2>1, <2>2
<1>p. ExplicitProfile(c, m, a, ft, e, ft2)
  BY <1>1, <1>e, <1>h, RewriteExplicit
<1>3. /\ Rewrites(c, ft, e, ft2, m) /\ ~Falls(e) /\ Falls(c)
      /\ \A x : LeadsTo(e, x) => LeadsTo(c, x) \/ x = ft
  BY <1>p DEF ExplicitProfile
<1>4. /\ \A x : LeadsTo(e, x) => x \in Range1(s)
      /\ Falls(e) => ft2 \in Range1(s)
  BY <1>2, <1>3 DEF Covered
<1>g. BlockStep(c, ft, e, ft2, s, T) /\ ~Falls(e)
  BY <1>1, <1>3, <1>4, <1>h, RewrittenBlock
<1> QED
  BY <1>f, <1>g

\* A jump inserted into a block that falls through leads to the block that
\* followed.
LEMMA InsertBlock ==
  ASSUME NEW c, Formed(c), NEW ft \in Targets1, NEW T, NEW s \in Seq(T), Covered(c, ft, s),
         CanFall(c, s, ft), NEW a, a = Ana(c), a.tbb = 0 \/ a.fbb = 0, NEW ft2,
         NEW d, d = InsertBranch(c, ft, 0, <<>>)
  PROVE  BlockStep(c, ft, d, ft2, s, T)
<1>1. PICK m \in Nat : Form(c, m)
  BY DEF Formed
<1>2. ft \in Range1(s)
  BY DEF CanFall
<1>h. ~Halts(c)
  <2>1. Halts(c) => s = <<>>
    BY DEF Covered
  <2>2. Range1(<<>>) = {}
    BY DEF Range1
  <2> QED
    BY <1>2, <2>1, <2>2
<1>3. /\ Rewrites(c, ft, d, ft2, m) /\ ~Falls(d)
      /\ \A x : LeadsTo(d, x) => LeadsTo(c, x) \/ x = ft
  BY <1>1, <1>h, RewriteInsert
<1>4. /\ \A x : LeadsTo(d, x) => x \in Range1(s)
      /\ Falls(d) => ft2 \in Range1(s)
  BY <1>2, <1>3 DEF Covered
<1> QED
  BY <1>1, <1>3, <1>4, <1>h, RewrittenBlock

\* Flow that is the same for every set of registers evolves.
LEMMA EvolvesBy ==
  ASSUME NEW l, NEW cd, NEW l2, NEW cd2, Well(l, cd),
         \A S : (\A b \in Range1(l) : RegsIn(cd[b], S)) =>
           Well(l2, cd2) /\ SameFlow(l, cd, l2, cd2, S) /\ \A b \in Range1(l2) : RegsIn(cd2[b], S)
  PROVE  Evolves(l, cd, l2, cd2)
<1>1. \A b \in Range1(l) : RegsIn(cd[b], 1..NumBlocks)
  BY RegsBound DEF Well
<1>2. Well(l2, cd2)
  BY <1>1
<1> QED
  BY <1>2 DEF Evolves

\* A sequence that avoids an element.
LEMMA SeqLess ==
  ASSUME NEW T, NEW s \in Seq(T), NEW x, x \notin Range1(s)
  PROVE  s \in Seq(T \ {x})
<1>1. Range1(s) = {s[i] : i \in 1..Len(s)} /\ \A i \in 1..Len(s) : s[i] \in Range1(s)
  BY RangeOf
<1>2. \A i \in 1..Len(s) : s[i] \in T \ {x}
  BY <1>1
<1>3. Len(s) \in Nat /\ s = [i \in 1..Len(s) |-> s[i]]
  OBVIOUS
<1> QED
  BY <1>2, <1>3

\* A sequence over a set is one over a larger set.
LEMMA SeqMore ==
  ASSUME NEW T, NEW U, T \subseteq U, NEW s \in Seq(T)
  PROVE  s \in Seq(U)
  OBVIOUS

\* Block x is entered by nobody: its removal leaves a function whose edges
\* cover its code.
Half(l, cd, sc, x) ==
  /\ Lay(l) /\ OwnWork(l, cd) /\ x \in Range1(l) \ {1}
  /\ DOMAIN sc = DOMAIN cd /\ Range1(l) \subseteq DOMAIN cd
  /\ \A b \in Range1(l) : Formed(cd[b]) /\ sc[b] \in Seq(Range1(l) \ {1, x})
  /\ \A b \in Range1(l) \ {x} : Covered(cd[b], Following(Without(l, x), b), sc[b])
  /\ \A t : LeadsTo(cd[x], t) => t \in Range1(l) \ {x}

\* A function with one block that nobody enters is well formed.
LEMMA HalfWell ==
  ASSUME NEW l, NEW cd, NEW sc, NEW x, Half(l, cd, sc, x)
  PROVE  Well(l, cd)
<1>1. Inside(l, cd)
  <2>1. SUFFICES ASSUME NEW b \in Range1(l), NEW t, LeadsTo(cd[b], t) PROVE t \in Range1(l)
    BY DEF Inside
  <2>2. CASE b = x
    BY <2>1, <2>2 DEF Half
  <2>3. CASE b # x
    <3>1. sc[b] \in Seq(Range1(l) \ {1, x}) /\ t \in Range1(sc[b])
      BY <2>1, <2>3 DEF Half, Covered
    <3> QED
      BY <3>1, SeqRange
  <2> QED
    BY <2>2, <2>3
<1> QED
  BY <1>1 DEF Well, Half

\* Whether a block that falls through precedes x.
FallsInto(l, cd, x) == \E b \in Range1(l) \ {x} : Falls(cd[b]) /\ Following(l, b) = x

\* A block without incoming edges may be removed.
LEMMA WholeHalf ==
  ASSUME NEW l, NEW cd, NEW sc, NEW x, Whole(l, cd, sc), x \in Range1(l) \ {1},
         \A b \in Range1(l) : x \notin Range1(sc[b])
  PROVE  Half(l, cd, sc, x) /\ ~FallsInto(l, cd, x)
<1>1. Lay(l) /\ OwnWork(l, cd) /\ DOMAIN sc = DOMAIN cd /\ Range1(l) \subseteq DOMAIN cd
  BY DEF Whole
<1>2. \A b \in Range1(l) : Formed(cd[b]) /\ sc[b] \in Seq(Range1(l) \ {1}) /\ Covered(cd[b], Following(l, b), sc[b])
  BY DEF Whole
<1>3. \A b \in Range1(l) : sc[b] \in Seq(Range1(l) \ {1, x})
  <2>1. SUFFICES ASSUME NEW b \in Range1(l) PROVE sc[b] \in Seq(Range1(l) \ {1, x})
    OBVIOUS
  <2>2. sc[b] \in Seq((Range1(l) \ {1}) \ {x})
    BY <1>2, SeqLess
  <2>3. (Range1(l) \ {1}) \ {x} = Range1(l) \ {1, x}
    OBVIOUS
  <2> QED
    BY <2>2, <2>3
<1>4. ~FallsInto(l, cd, x)
  BY <1>2 DEF FallsInto, Covered
<1>5. \A b \in Range1(l) \ {x} : Covered(cd[b], Following(Without(l, x), b), sc[b])
  <2>1. SUFFICES ASSUME NEW b \in Range1(l) \ {x} PROVE Covered(cd[b], Following(Without(l, x), b), sc[b])
    OBVIOUS
  <2>2. Following(Without(l, x), b) = IF Following(l, b) = x THEN Following(l, x) ELSE Following(l, b)
    BY <1>1, WithoutFacts
  <2>3. Following(Without(l, x), b) = Following(l, b) \/ ~Falls(cd[b])
    BY <1>4, <2>2 DEF FallsInto
  <2> QED
    BY <1>2, <2>3 DEF Covered
<1>6. \A t : LeadsTo(cd[x], t) => t \in Range1(l) \ {x}
  <2>1. SUFFICES ASSUME NEW t, LeadsTo(cd[x], t) PROVE t \in Range1(l) \ {x}
    OBVIOUS
  <2>2. t \in Range1(sc[x]) /\ sc[x] \in Seq(Range1(l) \ {1, x})
    BY <1>2, <1>3, <2>1 DEF Covered
  <2> QED
    BY <2>2, SeqRange
<1> QED
  BY <1>1, <1>2, <1>3, <1>4, <1>5, <1>6 DEF Half

\* What removing block x leaves in its place.
Removes(l, cd, sc, x, l2, cd2, sc2) ==
  /\ l2 = Without(l, x)
  /\ cd2 = [cd EXCEPT ![x] = <<>>] /\ sc2 = [sc EXCEPT ![x] = <<>>]

\* The layout and the blocks after a removal.
LEMMA RemovedFacts ==
  ASSUME NEW l, NEW cd, NEW sc, NEW x, Half(l, cd, sc, x),
         NEW l2, NEW cd2, NEW sc2, Removes(l, cd, sc, x, l2, cd2, sc2)
  PROVE  /\ Lay(l2) /\ Range1(l2) = Range1(l) \ {x} /\ x \notin Range1(l2)
         /\ Range1(l2) \subseteq Range1(l)
         /\ \A b \in Range1(l2) :
              /\ cd2[b] = cd[b] /\ sc2[b] = sc[b] /\ Keeps(cd, cd2, b)
              /\ Following(l2, b) = IF Following(l, b) = x THEN Following(l, x) ELSE Following(l, b)
         /\ DOMAIN sc2 = DOMAIN cd2 /\ Range1(l2) \subseteq DOMAIN cd2
         /\ Inside(l2, cd2)
<1>1. Lay(l) /\ x \in Range1(l) /\ x # 1 /\ DOMAIN sc = DOMAIN cd /\ Range1(l) \subseteq DOMAIN cd
  BY DEF Half
<1>2. /\ Lay(l2) /\ Range1(l2) = Range1(l) \ {x}
      /\ \A b \in Range1(l2) :
           Following(l2, b) = IF Following(l, b) = x THEN Following(l, x) ELSE Following(l, b)
  BY <1>1, WithoutFacts DEF Removes
<1>3. \A b \in Range1(l2) : cd2[b] = cd[b] /\ sc2[b] = sc[b]
  BY <1>1, <1>2 DEF Removes
<1>4. DOMAIN sc2 = DOMAIN cd2 /\ Range1(l2) \subseteq DOMAIN cd2
  BY <1>1, <1>2 DEF Removes
<1>5. \A b \in Range1(l2) : Keeps(cd, cd2, b)
  BY <1>2, <1>3 DEF Half, Keeps, Formed, Like
<1>6. Inside(l2, cd2)
  <2>1. SUFFICES ASSUME NEW b \in Range1(l2), NEW t, LeadsTo(cd2[b], t) PROVE t \in Range1(l2)
    BY DEF Inside
  <2>2. LeadsTo(cd[b], t) /\ b \in Range1(l) \ {x}
    BY <1>2, <1>3, <2>1
  <2>3. sc[b] \in Seq(Range1(l) \ {1, x}) /\ t \in Range1(sc[b])
    BY <2>2 DEF Half, Covered
  <2>4. t \in Range1(l) \ {1, x}
    BY <2>3, SeqRange
  <2> QED
    BY <1>2, <2>4
<1> QED
  BY <1>2, <1>3, <1>4, <1>5, <1>6

\* The other blocks lead where they led, past the block that goes.
LEMMA RemovedGoes ==
  ASSUME NEW l, NEW cd, NEW sc, NEW x, Half(l, cd, sc, x), cd[x] = <<>> \/ ~FallsInto(l, cd, x),
         NEW l2, NEW cd2, NEW sc2, Removes(l, cd, sc, x, l2, cd2, sc2),
         NEW nu, NEW b \in Range1(l2), ~Halts(cd[b])
  PROVE  \/ Goes(l2, cd2, nu, b) = Goes(l, cd, nu, b)
         \/ /\ Goes(l, cd, nu, b) = x /\ Goes(l2, cd2, nu, b) = Goes(l, cd, nu, x)
            /\ cd[x] = <<>>
<1>1. /\ Range1(l2) = Range1(l) \ {x} /\ cd2[b] = cd[b]
      /\ Following(l2, b) = IF Following(l, b) = x THEN Following(l, x) ELSE Following(l, b)
  BY RemovedFacts
<1>2. PICK m \in Nat : Form(cd[b], m)
  BY <1>1 DEF Half, Formed
<1>3. CASE Following(l, b) # x
  BY <1>1, <1>3 DEF Goes
<1>4. CASE Following(l, b) = x /\ ~Falls(cd[b])
  <2>1. \A ft2 : Leads(cd[b], nu, ft2) = Leads(cd[b], nu, Following(l, b))
    BY <1>2, <1>4, CoverLeads
  <2> QED
    BY <1>1, <2>1 DEF Goes
<1>5. CASE Following(l, b) = x /\ Falls(cd[b])
  <2>1. FallsInto(l, cd, x)
    BY <1>1, <1>5 DEF FallsInto
  <2>2. cd[x] = <<>>
    BY <2>1
  <2>3. Goes(l, cd, nu, x) = Following(l, x)
    BY <2>2, EmptyForm DEF Goes
  <2>4. CASE \A ft : Leads(cd[b], nu, ft) = ft
    BY <1>1, <1>5, <2>2, <2>3, <2>4 DEF Goes
  <2>5. CASE \A ft, ft2 : Leads(cd[b], nu, ft) = Leads(cd[b], nu, ft2)
    BY <1>1, <2>5 DEF Goes
  <2> QED
    BY <1>2, <2>4, <2>5, LeadsEither
<1> QED
  BY <1>3, <1>4, <1>5

\* The removal of a block that nobody enters preserves the flow.
LEMMA RemoveBlock ==
  ASSUME NEW l, NEW cd, NEW sc, NEW x, Half(l, cd, sc, x), cd[x] = <<>> \/ ~FallsInto(l, cd, x),
         NEW l2, NEW cd2, NEW sc2, Removes(l, cd, sc, x, l2, cd2, sc2)
  PROVE  Whole(l2, cd2, sc2) /\ Evolves(l, cd, l2, cd2)
<1>1. Well(l, cd) /\ Lay(l) /\ x \in Range1(l) /\ Inside(l, cd)
  BY HalfWell DEF Half, Well
<1>2. /\ Lay(l2) /\ Range1(l2) = Range1(l) \ {x} /\ x \notin Range1(l2)
      /\ Range1(l2) \subseteq Range1(l)
      /\ DOMAIN sc2 = DOMAIN cd2 /\ Range1(l2) \subseteq DOMAIN cd2
      /\ Inside(l2, cd2)
      /\ \A b \in Range1(l2) : cd2[b] = cd[b] /\ sc2[b] = sc[b] /\ Keeps(cd, cd2, b)
  BY RemovedFacts
<1>3. ASSUME NEW S, NEW nu \in [S -> Outcomes], NEW b \in Range1(l2), ~Halts(cd[b])
      PROVE  \/ Goes(l2, cd2, nu, b) = Goes(l, cd, nu, b)
             \/ /\ Goes(l, cd, nu, b) = x /\ Goes(l2, cd2, nu, b) = Goes(l, cd, nu, x)
                /\ cd[x] = <<>>
  BY <1>3, RemovedGoes
<1>4. ASSUME NEW S PROVE Well(l2, cd2) /\ SameFlow(l, cd, l2, cd2, S)
  <2>1. CASE x \in Passed(l, cd)
    <3>1. ASSUME NEW nu \in [S -> Outcomes] PROVE Goes(l, cd, nu, x) # x
      <4>1. PICK m \in Nat : Form(cd[x], m)
        BY <1>1 DEF Well, Formed
      <4>2. CASE Halts(cd[x])
        <5>1. Goes(l, cd, nu, x) = Following(l, x)
          BY <4>1, <4>2, CoverLeads DEF Goes
        <5> QED
          BY <1>1, <5>1, FollowingFacts
      <4>3. CASE ~Halts(cd[x])
        <5>1. \/ Goes(l, cd, nu, x) = Exit
              \/ LeadsTo(cd[x], Goes(l, cd, nu, x))
              \/ Goes(l, cd, nu, x) = Following(l, x)
          BY <4>1, <4>3, CoverLeads DEF Goes
        <5>2. x \in Nat /\ Following(l, x) # x
          BY <1>1, FollowingFacts
        <5>3. x # Exit
          BY <5>2 DEF Exit
        <5> QED
          BY <5>1, <5>2, <5>3 DEF Half
      <4> QED
        BY <4>2, <4>3
    <3>2. ASSUME NEW nu \in [S -> Outcomes], NEW b \in Range1(l2) PROVE Goes(l2, cd2, nu, b) # x
      <4>1. Goes(l2, cd2, nu, b) \in Range1(l2) \cup {Exit, OffEnd}
        BY <1>2, LeadsPlaces DEF Goes, Places, Keeps, Formed, Like
      <4>2. x # Exit /\ x # OffEnd
        <5>1. x \in Nat /\ x # 0
          BY <1>1, FollowingFacts
        <5> QED
          BY <5>1 DEF Exit, OffEnd
      <4> QED
        BY <1>2, <4>1, <4>2
    <3>3. \A b \in Range1(l2) : Keeps(cd, cd2, b)
      BY <1>2
    <3>4. Range1(l) \ {x} \subseteq Range1(l2)
      BY <1>2
    <3>5. \A nu \in [S -> Outcomes] :
            /\ Goes(l, cd, nu, x) # x
            /\ x \in Range1(l2) => Goes(l2, cd2, nu, x) # x
            /\ \A b \in Range1(l2) \ {x} : ~Halts(cd[b]) =>
                 /\ \/ Goes(l2, cd2, nu, b) = Goes(l, cd, nu, b)
                    \/ Goes(l, cd, nu, b) = x /\ Goes(l2, cd2, nu, b) = Goes(l, cd, nu, x)
                 /\ Goes(l2, cd2, nu, b) = x => Goes(l2, cd2, nu, x) = Goes(l, cd, nu, x)
      BY <1>2, <1>3, <3>1, <3>2
    <3> QED
      BY <1>1, <1>2, <2>1, <3>3, <3>4, <3>5, FlowBypass
  <2>2. CASE x \notin Passed(l, cd)
    <3>1. cd[x] # <<>>
      BY <1>1, <2>2 DEF Passed
    <3>2. \A nu \in [S -> Outcomes] : \A b \in Range1(l2) : ~Halts(cd[b]) =>
            Leads(cd2[b], nu, Following(l2, b)) = Leads(cd[b], nu, Following(l, b))
      BY <1>3, <3>1 DEF Goes
    <3>3. Passed(l, cd) \subseteq Range1(l2)
      BY <1>2, <2>2 DEF Passed
    <3>4. \A b \in Range1(l2) : Keeps(cd, cd2, b)
      BY <1>2
    <3> QED
      BY <1>1, <1>2, <3>2, <3>3, <3>4, FlowLocal
  <2> QED
    BY <2>1, <2>2
<1>5. ASSUME NEW S, \A b \in Range1(l) : RegsIn(cd[b], S)
      PROVE  \A b \in Range1(l2) : RegsIn(cd2[b], S)
  BY <1>2, <1>5
<1>6. \A S : (\A b \in Range1(l) : RegsIn(cd[b], S)) =>
        Well(l2, cd2) /\ SameFlow(l, cd, l2, cd2, S) /\ \A b \in Range1(l2) : RegsIn(cd2[b], S)
  BY <1>4, <1>5
<1>7. Evolves(l, cd, l2, cd2)
  BY <1>1, <1>6, EvolvesBy
<1>8. Whole(l2, cd2, sc2)
  <2>1. Range1(l2) \ {1} = Range1(l) \ {1, x}
    BY <1>2
  <2>2. \A b \in Range1(l2) : b \in Range1(l) \ {x} /\ Formed(cd2[b]) /\ sc2[b] \in Seq(Range1(l2) \ {1})
    BY <1>2, <2>1 DEF Half
  <2>3. \A b \in Range1(l2) : Covered(cd2[b], Following(l2, b), sc2[b])
    BY <1>2, <2>2 DEF Half, Removes
  <2>4. OwnWork(l2, cd2)
    BY <1>7 DEF Evolves, Well
  <2> QED
    BY <1>2, <2>2, <2>3, <2>4 DEF Whole
<1> QED
  BY <1>7, <1>8

\* Block x only passes control on to block t.
PassesTo(l, cd, x, t) ==
  \/ cd[x] = <<>> /\ Following(l, x) = t
  \/ cd[x] = <<Jmp(t)>> /\ ~FallsInto(l, cd, x)

\* Instructions c with edges to x replaced by edges to t are d with edges s2.
Redirected(c, d, s2, x, t, ft, T) ==
  /\ \E m \in Nat : Form(c, m) /\ Redirects(c, d, x, t, m)
  /\ Covered(d, ft, s2) /\ s2 \in Seq(T)

\* Every predecessor of x, a block without work, is redirected to t.
Detaches(l, cd, sc, x, t, cd2, sc2) ==
  /\ Whole(l, cd, sc) /\ x \in Range1(l) \ {1} /\ t \in Range1(l) \ {1, x}
  /\ PassesTo(l, cd, x, t)
  /\ DOMAIN cd2 = DOMAIN cd /\ DOMAIN sc2 = DOMAIN cd
  /\ cd2[x] = <<>> /\ sc2[x] \in Seq(Range1(l) \ {1, x})
  /\ \A b \in Range1(l) \ {x} :
       Redirected(cd[b], cd2[b], sc2[b], x, t, Following(Without(l, x), b), Range1(l) \ {1, x})

\* A block that is nothing but a jump.
LEMMA JumpAlone ==
  ASSUME NEW t \in Targets1
  PROVE  IsJump(<<Jmp(t)>>, 0, t)
<1>1. /\ Jmp(t) \in Instrs /\ Jmp(t).op = "JMP" /\ Len(Jmp(t).to) = 1
      /\ Jmp(t).to[1] > 1 /\ Jmp(t).to[1] = t
  BY JmpIs
<1>2. PICK j : j = Jmp(t)
  OBVIOUS
<1>3. PICK c : c = <<j>>
  OBVIOUS
<1>4. Len(c) = 1 /\ c[1] = j /\ c \in Seq(Instrs)
  BY <1>1, <1>2, <1>3
<1>5. IsJump(c, 0, t)
  BY <1>1, <1>2, <1>4 DEF IsJump, Form, Terminators, Analyzable, CondBranches
<1> QED
  BY <1>2, <1>3, <1>5

\* The block that is passed over when its predecessors are redirected.
LEMMA PassingFacts ==
  ASSUME NEW l, NEW cd, NEW sc, NEW x, NEW t, NEW cd2, NEW sc2, Detaches(l, cd, sc, x, t, cd2, sc2)
  PROVE  /\ Form(cd[x], 0) /\ Like(cd[x], cd2[x], 0) /\ x \in Passed(l, cd)
         /\ \A nu : Goes(l, cd, nu, x) = t /\ Goes(l, cd2, nu, x) = Following(l, x)
         /\ FallsInto(l, cd, x) => Following(l, x) = t
         /\ Following(l, x) # x /\ x \in Nat /\ x # 0 /\ x # Exit
<1>1. Lay(l) /\ x \in Range1(l)
  BY DEF Detaches, Whole
<1>2. t \in Targets1
  BY <1>1, LayNat DEF Detaches, Targets1
<1>3. IsFall(<<>>, 0) /\ \A nu, ft : Leads(<<>>, nu, ft) = ft
  BY EmptyForm
<1>4. Form(cd[x], 0) /\ \A nu : Goes(l, cd, nu, x) = t
  <2>1. CASE cd[x] = <<>> /\ Following(l, x) = t
    BY <1>3, <2>1 DEF IsFall, Goes
  <2>2. CASE cd[x] = <<Jmp(t)>>
    <3>1. IsJump(cd[x], 0, t)
      BY <1>2, <2>2, JumpAlone
    <3>2. JumpProfile(cd[x], 0, t)
      BY <3>1, JumpFacts
    <3> QED
      BY <3>1, <3>2 DEF JumpProfile, IsJump, Goes
  <2> QED
    BY <2>1, <2>2 DEF Detaches, PassesTo
<1>5. Like(cd[x], cd2[x], 0) /\ \A nu : Goes(l, cd2, nu, x) = Following(l, x)
  <2>1. cd2[x] = <<>>
    BY DEF Detaches
  <2>2. \A i \in 1..0 : FALSE
    OBVIOUS
  <2> QED
    BY <1>3, <2>1, <2>2 DEF Like, IsFall, Goes
<1>6. x \in Passed(l, cd)
  <2>1. x \in Passed(l, cd) <=> 0 = 0
    BY <1>1, <1>4, InPassed
  <2> QED
    BY <2>1
<1>7. Following(l, x) # x /\ x \in Nat /\ x # 0
  BY <1>1, FollowingFacts
<1>8. x # Exit
  BY <1>7 DEF Exit
<1>9. FallsInto(l, cd, x) => Following(l, x) = t
  BY DEF Detaches, PassesTo
<1> QED
  BY <1>4, <1>5, <1>6, <1>7, <1>8, <1>9

\* A redirected block goes where it went, or past the block it went to.
LEMMA RedirectedGoes ==
  ASSUME NEW l, NEW cd, NEW sc, NEW x, NEW t, NEW cd2, NEW sc2, Detaches(l, cd, sc, x, t, cd2, sc2),
         NEW nu, NEW b \in Range1(l) \ {x}
  PROVE  /\ Keeps(cd, cd2, b) /\ Formed(cd2[b])
         /\ \/ Goes(l, cd2, nu, b) = Goes(l, cd, nu, b)
            \/ Goes(l, cd, nu, b) = x /\ Goes(l, cd2, nu, b) = t
         /\ ~Halts(cd[b]) /\ Goes(l, cd2, nu, b) = x => Goes(l, cd2, nu, x) = t
         /\ \A S : RegsIn(cd[b], S) => RegsIn(cd2[b], S)
<1>1. PICK m \in Nat : Form(cd[b], m) /\ Redirects(cd[b], cd2[b], x, t, m)
  BY DEF Detaches, Redirected
<1>2. /\ Like(cd[b], cd2[b], m) /\ Form(cd2[b], m)
      /\ \A S : RegsIn(cd[b], S) => RegsIn(cd2[b], S)
      /\ Falls(cd2[b]) <=> Falls(cd[b])
      /\ \A y : LeadsTo(cd2[b], y) => y # x
      /\ \/ Goes(l, cd2, nu, b) = Goes(l, cd, nu, b)
         \/ Goes(l, cd, nu, b) = x /\ Goes(l, cd2, nu, b) = t
  BY <1>1 DEF Redirects, Goes, Like
<1>3. ASSUME ~Halts(cd[b]), Goes(l, cd2, nu, b) = x PROVE Goes(l, cd2, nu, x) = t
  <2>1. ~Halts(cd2[b])
    BY <1>1, <1>2, <1>3, LikeHalts
  <2>2. \/ x = Exit
        \/ LeadsTo(cd2[b], x)
        \/ Falls(cd2[b]) /\ Following(l, b) = x
    BY <1>2, <1>3, <2>1, CoverLeads DEF Goes
  <2>3. FallsInto(l, cd, x)
    BY <1>2, <2>2, PassingFacts DEF FallsInto
  <2>4. Following(l, x) = t /\ Goes(l, cd2, nu, x) = Following(l, x)
    BY <2>3, PassingFacts
  <2> QED
    BY <2>4
<1> QED
  BY <1>1, <1>2, <1>3 DEF Keeps, Formed

\* Redirecting every predecessor past a block without work preserves the flow.
LEMMA Detach ==
  ASSUME NEW l, NEW cd, NEW sc, NEW x, NEW t, NEW cd2, NEW sc2, Detaches(l, cd, sc, x, t, cd2, sc2)
  PROVE  Half(l, cd2, sc2, x) /\ cd2[x] = <<>> /\ Evolves(l, cd, l, cd2)
<1>1. /\ Whole(l, cd, sc) /\ x \in Range1(l) /\ x # 1 /\ t \in Range1(l) /\ t # x
      /\ DOMAIN cd2 = DOMAIN cd /\ DOMAIN sc2 = DOMAIN cd /\ cd2[x] = <<>>
  BY DEF Detaches
<1>2. Well(l, cd) /\ Lay(l) /\ DOMAIN sc = DOMAIN cd /\ Range1(l) \subseteq DOMAIN cd
  BY <1>1, WholeWell DEF Whole
<1>3. \A b \in Range1(l) : Keeps(cd, cd2, b) /\ Formed(cd2[b])
  <2>1. Keeps(cd, cd2, x) /\ Formed(cd2[x])
    <3>1. Form(cd[x], 0) /\ Like(cd[x], cd2[x], 0) /\ 0 \in Nat
      BY PassingFacts
    <3> QED
      BY <3>1 DEF Keeps, Formed, Like
  <2> QED
    BY <2>1, RedirectedGoes
<1>4. \A b \in Range1(l) : sc2[b] \in Seq(Range1(l) \ {1, x})
  BY DEF Detaches, Redirected
<1>5. \A t2 : ~LeadsTo(cd2[x], t2)
  BY <1>1, EmptyForm
<1>6. Inside(l, cd2)
  <2>1. SUFFICES ASSUME NEW b \in Range1(l), NEW y, LeadsTo(cd2[b], y) PROVE y \in Range1(l)
    BY DEF Inside
  <2>2. b \in Range1(l) \ {x}
    BY <1>5, <2>1
  <2>3. y \in Range1(sc2[b]) /\ sc2[b] \in Seq(Range1(l) \ {1, x})
    BY <2>1, <2>2 DEF Detaches, Redirected, Covered
  <2> QED
    BY <2>3, SeqRange
<1>7. ASSUME NEW S PROVE Well(l, cd2) /\ SameFlow(l, cd, l, cd2, S)
  <2>1. ASSUME NEW nu \in [S -> Outcomes]
        PROVE  /\ Goes(l, cd, nu, x) # x
               /\ x \in Range1(l) => Goes(l, cd2, nu, x) # x
               /\ \A b \in Range1(l) \ {x} : ~Halts(cd[b]) =>
                    /\ \/ Goes(l, cd2, nu, b) = Goes(l, cd, nu, b)
                       \/ Goes(l, cd, nu, b) = x /\ Goes(l, cd2, nu, b) = Goes(l, cd, nu, x)
                    /\ Goes(l, cd2, nu, b) = x => Goes(l, cd2, nu, x) = Goes(l, cd, nu, x)
    <3>1. Goes(l, cd, nu, x) = t /\ Goes(l, cd2, nu, x) # x
      BY PassingFacts
    <3> QED
      BY <1>1, <3>1, RedirectedGoes
  <2>2. x \in Passed(l, cd)
    BY PassingFacts
  <2>3. \A b \in Range1(l) : Keeps(cd, cd2, b)
    BY <1>3
  <2> QED
    BY <1>2, <1>6, <2>1, <2>2, <2>3, FlowBypass
<1>8. ASSUME NEW S, \A b \in Range1(l) : RegsIn(cd[b], S)
      PROVE  \A b \in Range1(l) : RegsIn(cd2[b], S)
  <2>1. RegsIn(cd2[x], S)
    BY <1>1, EmptyForm
  <2> QED
    BY <1>8, <2>1, RedirectedGoes
<1>9. \A S : (\A b \in Range1(l) : RegsIn(cd[b], S)) =>
        Well(l, cd2) /\ SameFlow(l, cd, l, cd2, S) /\ \A b \in Range1(l) : RegsIn(cd2[b], S)
  BY <1>7, <1>8
<1>10. Evolves(l, cd, l, cd2)
  BY <1>2, <1>9, EvolvesBy
<1>11. Half(l, cd2, sc2, x)
  <2>1. OwnWork(l, cd2)
    BY <1>10 DEF Evolves, Well
  <2>2. \A b \in Range1(l) \ {x} : Covered(cd2[b], Following(Without(l, x), b), sc2[b])
    BY DEF Detaches, Redirected
  <2> QED
    BY <1>1, <1>2, <1>3, <1>4, <1>5, <2>1, <2>2 DEF Half
<1> QED
  BY <1>1, <1>10, <1>11

\* The edges of a block that is skipped go.
LEMMA EdgesRedirected ==
  ASSUME NEW T, NEW s \in Seq(T), NEW x, NEW t \in T, t # x, NEW s2,
         s2 = IF x \in Range1(s) THEN ReplaceEdges(s, x, t) ELSE s
  PROVE  /\ s2 \in Seq(T \ {x})
         /\ \A y : y \in Range1(s) => (IF y = x THEN t ELSE y) \in Range1(s2)
         /\ x \notin Range1(s) => s2 = s
<1>1. CASE x \in Range1(s)
  <2>1. /\ s2 \in Seq(T)
        /\ \A y : y \in Range1(s2) <=> (y \in Range1(s) /\ y # x) \/ (y = t /\ x \in Range1(s))
    BY <1>1, ReplacedEdges
  <2>2. x \notin Range1(s2)
    BY <2>1
  <2> QED
    BY <1>1, <2>1, <2>2, SeqLess
<1>2. CASE x \notin Range1(s)
  BY <1>2, SeqLess
<1> QED
  BY <1>1, <1>2

\* SkipEmptyBlock on one predecessor.
LEMMA SkippedBlock ==
  ASSUME NEW c, Formed(c), NEW T, NEW s \in Seq(T), NEW ft, Covered(c, ft, s),
         NEW x \in Targets1, NEW t \in T, t \in Targets1, t # x,
         NEW d, d = ReplaceMBBInJumpTables(IF x \in Range1(s) THEN ReplaceUses(c, x, t) ELSE c, x, t),
         NEW s2, s2 = IF x \in Range1(s) THEN ReplaceEdges(s, x, t) ELSE s
  PROVE  Redirected(c, d, s2, x, t, IF ft = x THEN t ELSE ft, T \ {x})
<1>1. PICK m \in Nat : Form(c, m)
  BY DEF Formed
<1>2. Redirects(c, d, x, t, m)
  <2>1. CASE x \in Range1(s)
    BY <1>1, <2>1, RedirectUses
  <2>2. CASE x \notin Range1(s)
    <3>1. ~LeadsTo(c, x)
      BY <2>2 DEF Covered
    <3>2. d = ReplaceMBBInJumpTables(c, x, t)
      BY <2>2
    <3> QED
      BY <1>1, <3>1, <3>2, RedirectTables
  <2> QED
    BY <2>1, <2>2
<1>3. /\ s2 \in Seq(T \ {x})
      /\ \A y : y \in Range1(s) => (IF y = x THEN t ELSE y) \in Range1(s2)
      /\ x \notin Range1(s) => s2 = s
  BY EdgesRedirected, SMTT(30)
<1>4. /\ \A y : LeadsTo(d, y) => y # x /\ (LeadsTo(c, y) \/ (y = t /\ LeadsTo(c, x)))
      /\ Falls(d) <=> Falls(c)
      /\ Like(c, d, m)
  BY <1>2 DEF Redirects
<1>5. Halts(d) <=> Halts(c)
  BY <1>1, <1>4, LikeHalts
<1>6. \A y : LeadsTo(d, y) => y \in Range1(s2)
  BY <1>3, <1>4 DEF Covered
<1>7. Halts(c) => s2 = <<>>
  <2>1. x \notin Range1(<<>>)
    BY DEF Range1
  <2> QED
    BY <1>3, <2>1 DEF Covered
<1>8. Covered(d, IF ft = x THEN t ELSE ft, s2)
  BY <1>3, <1>4, <1>5, <1>6, <1>7 DEF Covered
<1> QED
  BY <1>1, <1>2, <1>3, <1>8 DEF Redirected

\* Retargeting an empty block.
LEMMA EmptyTables ==
  ASSUME NEW x, NEW t
  PROVE  ReplaceMBBInJumpTables(<<>>, x, t) = <<>> /\ ReplaceUses(<<>>, x, t) = <<>>
BY DEF ReplaceMBBInJumpTables, ReplaceUses

\* SkipEmptyBlock redirects every predecessor.
LEMMA SkipBlock ==
  ASSUME NEW l, NEW cd, NEW sc, Whole(l, cd, sc), NEW x \in Range1(l) \ {1}, cd[x] = <<>>,
         NEW t, t = Following(l, x), t # 0, NEW cd2, NEW sc2,
         DOMAIN cd2 = DOMAIN cd, DOMAIN sc2 = DOMAIN cd,
         \A b \in Range1(l) :
           /\ cd2[b] = ReplaceMBBInJumpTables(IF x \in Range1(sc[b]) THEN ReplaceUses(cd[b], x, t) ELSE cd[b], x, t)
           /\ sc2[b] = IF x \in Range1(sc[b]) THEN ReplaceEdges(sc[b], x, t) ELSE sc[b]
  PROVE  Detaches(l, cd, sc, x, t, cd2, sc2)
<1>1. Lay(l) /\ \A b \in Range1(l) : Formed(cd[b]) /\ sc[b] \in Seq(Range1(l) \ {1}) /\ Covered(cd[b], Following(l, b), sc[b])
  BY DEF Whole
<1>2. t \in Range1(l) \ {1, x}
  BY <1>1, FollowingFacts
<1>3. x \in Targets1 /\ t \in Targets1
  BY <1>1, <1>2, LayNat DEF Targets1
<1>4. Range1(l) \ {1, x} = (Range1(l) \ {1}) \ {x}
  OBVIOUS
<1>5. cd2[x] = <<>>
  BY EmptyTables
<1>6. sc2[x] \in Seq(Range1(l) \ {1, x})
  <2>1. sc2[x] \in Seq((Range1(l) \ {1}) \ {x})
    BY <1>1, <1>2, EdgesRedirected
  <2> QED
    BY <1>4, <2>1
<1>7. \A b \in Range1(l) \ {x} :
        Redirected(cd[b], cd2[b], sc2[b], x, t, Following(Without(l, x), b), Range1(l) \ {1, x})
  <2>1. SUFFICES ASSUME NEW b \in Range1(l) \ {x}
                 PROVE  Redirected(cd[b], cd2[b], sc2[b], x, t, Following(Without(l, x), b), Range1(l) \ {1, x})
    OBVIOUS
  <2>2. Following(Without(l, x), b) = IF Following(l, b) = x THEN t ELSE Following(l, b)
    BY <1>1, WithoutFacts
  <2>3. Redirected(cd[b], cd2[b], sc2[b], x, t, IF Following(l, b) = x THEN t ELSE Following(l, b), (Range1(l) \ {1}) \ {x})
    BY <1>1, <1>2, <1>3, SkippedBlock, ZenonT(60)
  <2> QED
    BY <1>4, <2>2, <2>3
<1> QED
  BY <1>2, <1>5, <1>6, <1>7 DEF Detaches, PassesTo

\* ForwardBlock on one predecessor.
LEMMA ForwardedBlock ==
  ASSUME NEW c, Formed(c), NEW T, NEW s \in Seq(T), NEW ft, Covered(c, ft, s),
         MBB \in Targets1, NEW t \in T, t \in Targets1, t # MBB, NEW ft2, Falls(c) => ft # MBB /\ ft2 = ft,
         NEW d, d = ReplaceMBBInJumpTables(IF MBB \in Range1(s) THEN Revectored(c, s, t).code ELSE c, MBB, t),
         NEW s2, s2 = IF MBB \in Range1(s) THEN Revectored(c, s, t).succs ELSE s
  PROVE  Redirected(c, d, s2, MBB, t, ft2, T \ {MBB})
<1>1. PICK m \in Nat : Form(c, m)
  BY DEF Formed
<1>2. /\ Redirects(c, d, MBB, t, m) /\ s2 \in Seq(T) /\ MBB \notin Range1(s2)
      /\ \A x : LeadsTo(d, x) => x \in Range1(s2)
      /\ Falls(c) => \A x : x \in Range1(s) /\ x # MBB => x \in Range1(s2)
      /\ MBB \notin Range1(s) => s2 = s
  <2>1. CASE MBB \in Range1(s)
    <3>1. PICK r : r = Revectored(c, s, t)
      OBVIOUS
    <3>2. d = ReplaceMBBInJumpTables(r.code, MBB, t) /\ s2 = r.succs
      BY <2>1, <3>1
    <3>3. \A x : LeadsTo(c, x) => x \in Range1(s)
      BY DEF Covered
    <3>4. RevectorProfile(c, s, d, r.succs, MBB, t, m, T)
      BY <1>1, <3>1, <3>2, <3>3, RevectoredIs
    <3> QED
      BY <2>1, <3>2, <3>4 DEF RevectorProfile
  <2>2. CASE MBB \notin Range1(s)
    <3>1. ~LeadsTo(c, MBB)
      BY <2>2 DEF Covered
    <3>2. d = ReplaceMBBInJumpTables(c, MBB, t) /\ s2 = s
      BY <2>2
    <3>3. Redirects(c, d, MBB, t, m)
      BY <1>1, <3>1, <3>2, RedirectTables
    <3>4. \A x : LeadsTo(d, x) => x \in Range1(s2)
      BY <3>1, <3>2, <3>3 DEF Redirects, Covered
    <3> QED
      BY <2>2, <3>2, <3>3, <3>4
  <2> QED
    BY <2>1, <2>2
<1>3. Like(c, d, m) /\ (Falls(d) <=> Falls(c))
  BY <1>2 DEF Redirects
<1>4. Halts(d) <=> Halts(c)
  BY <1>1, <1>3, LikeHalts
<1>5. Halts(c) => s2 = <<>>
  <2>1. MBB \notin Range1(<<>>)
    BY DEF Range1
  <2> QED
    BY <1>2, <2>1 DEF Covered
<1>6. Covered(d, ft2, s2)
  BY <1>2, <1>3, <1>4, <1>5 DEF Covered
<1>7. s2 \in Seq(T \ {MBB})
  BY <1>2, SeqLess
<1> QED
  BY <1>1, <1>2, <1>6, <1>7 DEF Redirected

\* ForwardBlock redirects every predecessor.
LEMMA ForwardedBlocks ==
  ASSUME NEW l, NEW cd, NEW sc, Whole(l, cd, sc), MBB \in Range1(l) \ {1}, NEW t, t # MBB,
         cd[MBB] = <<Jmp(t)>>, ~FallsInto(l, cd, MBB), NEW cd2, NEW sc2,
         DOMAIN cd2 = DOMAIN cd, DOMAIN sc2 = DOMAIN cd, cd2[MBB] = <<>>,
         sc2[MBB] = IF MBB \in Range1(sc[MBB]) THEN Revectored(cd[MBB], sc[MBB], t).succs ELSE sc[MBB],
         \A b \in Range1(l) \ {MBB} :
           /\ cd2[b] = ReplaceMBBInJumpTables(
                IF MBB \in Range1(sc[b]) THEN Revectored(cd[b], sc[b], t).code ELSE cd[b], MBB, t)
           /\ sc2[b] = IF MBB \in Range1(sc[b]) THEN Revectored(cd[b], sc[b], t).succs ELSE sc[b]
  PROVE  Detaches(l, cd, sc, MBB, t, cd2, sc2)
<1>1. Lay(l) /\ \A b \in Range1(l) : Formed(cd[b]) /\ sc[b] \in Seq(Range1(l) \ {1}) /\ Covered(cd[b], Following(l, b), sc[b])
  BY DEF Whole
<1>2. t \in Range1(l) \ {1}
  <2>1. PICK m \in Nat : Form(cd[MBB], m)
    BY <1>1 DEF Formed
  <2>2. LeadsTo(cd[MBB], t)
    <3>1. 1 \in 1..Len(<<Jmp(t)>>) /\ <<Jmp(t)>>[1].op \in Terminators \ {"RET"}
          /\ 1 \in 1..Len(<<Jmp(t)>>[1].to) /\ <<Jmp(t)>>[1].to[1] = t
      BY DEF Jmp, Instr, Terminators, Analyzable
    <3> QED
      BY <3>1 DEF LeadsTo
  <2>3. t \in Range1(sc[MBB]) /\ sc[MBB] \in Seq(Range1(l) \ {1})
    BY <1>1, <2>2 DEF Covered
  <2> QED
    BY <2>3, SeqRange
<1>3. MBB \in Targets1 /\ t \in Targets1
  BY <1>1, <1>2, LayNat DEF Targets1
<1>4. Range1(l) \ {1, MBB} = (Range1(l) \ {1}) \ {MBB}
  OBVIOUS
<1>5. sc2[MBB] \in Seq(Range1(l) \ {1, MBB})
  <2>1. PICK c : c = cd[MBB]
    OBVIOUS
  <2>2. PICK d : d = ReplaceMBBInJumpTables(IF MBB \in Range1(sc[MBB]) THEN Revectored(c, sc[MBB], t).code ELSE c, MBB, t)
    OBVIOUS
  <2>3. ~Falls(c)
    <3>1. IsJump(c, 0, t)
      BY <1>3, <2>1, JumpAlone
    <3> QED
      BY <3>1, JumpFacts DEF JumpProfile
  <2>4. Redirected(c, d, sc2[MBB], MBB, t, Following(l, MBB), (Range1(l) \ {1}) \ {MBB})
    BY <1>1, <1>2, <1>3, <2>1, <2>2, <2>3, ForwardedBlock
  <2> QED
    BY <1>4, <2>4 DEF Redirected
<1>6. \A b \in Range1(l) \ {MBB} :
        Redirected(cd[b], cd2[b], sc2[b], MBB, t, Following(Without(l, MBB), b), Range1(l) \ {1, MBB})
  <2>1. SUFFICES ASSUME NEW b \in Range1(l) \ {MBB}
                 PROVE  Redirected(cd[b], cd2[b], sc2[b], MBB, t, Following(Without(l, MBB), b), Range1(l) \ {1, MBB})
    OBVIOUS
  <2>2. Following(Without(l, MBB), b) = IF Following(l, b) = MBB THEN Following(l, MBB) ELSE Following(l, b)
    BY <1>1, WithoutFacts
  <2>3. Falls(cd[b]) => Following(l, b) # MBB
    BY DEF FallsInto
  <2>4. Redirected(cd[b], cd2[b], sc2[b], MBB, t, Following(Without(l, MBB), b), (Range1(l) \ {1}) \ {MBB})
    BY <1>1, <1>2, <1>3, <2>2, <2>3, ForwardedBlock
  <2> QED
    BY <1>4, <2>4
<1> QED
  BY <1>2, <1>5, <1>6 DEF Detaches, PassesTo

\* Block x, which only p before it reaches, is appended to p.
Appends(l, cd, sc, p, x, cd2, sc2) ==
  /\ Whole(l, cd, sc) /\ x \in Range1(l) \ {1} /\ p \in Range1(l) /\ Following(l, p) = x
  /\ \E m \in Nat : IsFall(cd[p], m)
  /\ ~Halts(cd[p])
  /\ \A b \in Range1(l) \ {p} : x \notin Range1(sc[b])
  /\ DOMAIN cd2 = DOMAIN cd /\ DOMAIN sc2 = DOMAIN cd
  /\ cd2[p] = cd[p] \o cd[x] /\ cd2[x] = <<>> /\ sc2[p] = sc[x] /\ sc2[x] = <<>>
  /\ \A b \in Range1(l) \ {p, x} : cd2[b] = cd[b] /\ sc2[b] = sc[b]

\* MergeIntoPrior moves the work of a block into its only predecessor.
LEMMA AppendsMerges ==
  ASSUME NEW l, NEW cd, NEW sc, NEW p, NEW x, NEW cd2, NEW sc2, Appends(l, cd, sc, p, x, cd2, sc2)
  PROVE  \E m1, m2 \in Nat : Merges(l, cd, cd2, p, x, m1, m2)
<1>1. /\ Well(l, cd) /\ Lay(l) /\ x \in Range1(l) /\ p \in Range1(l) /\ Following(l, p) = x
  BY WholeWell DEF Appends, Whole
<1>2. p # x
  BY <1>1, FollowingFacts
<1>3. PICK m1 \in Nat : IsFall(cd[p], m1)
  BY DEF Appends
<1>4. PICK m2 \in Nat : Form(cd[x], m2)
  BY <1>1 DEF Well, Formed
<1>5. Merges(l, cd, cd2, p, x, m1, m2)
  BY <1>1, <1>2, <1>3, <1>4 DEF Merges, Appends
<1> QED
  BY <1>5

\* MergeIntoPrior preserves the flow.
LEMMA MergeBlock ==
  ASSUME NEW l, NEW cd, NEW sc, NEW p, NEW x, NEW cd2, NEW sc2, Appends(l, cd, sc, p, x, cd2, sc2)
  PROVE  Half(l, cd2, sc2, x) /\ cd2[x] = <<>> /\ Evolves(l, cd, l, cd2)
<1>1. PICK m1, m2 \in Nat : Merges(l, cd, cd2, p, x, m1, m2)
  BY AppendsMerges
<1>2. /\ Well(l, cd) /\ Lay(l) /\ x \in Range1(l) /\ x # 1 /\ p \in Range1(l) /\ p # x
      /\ Following(l, p) = x /\ DOMAIN sc = DOMAIN cd /\ Range1(l) \subseteq DOMAIN cd
      /\ cd2[x] = <<>> /\ Form(cd[x], m2)
  BY <1>1 DEF Appends, Merges, Whole
<1>3. /\ Joined(cd[p], cd[x], cd2[p], m1, m2)
      /\ \A b \in Range1(l) : Formed(cd2[b])
  BY <1>1, MergeForms DEF MergedFacts
<1>4. \A b \in Range1(l) : Formed(cd[b]) /\ sc[b] \in Seq(Range1(l) \ {1}) /\ Covered(cd[b], Following(l, b), sc[b])
  BY DEF Appends, Whole
<1>5. ASSUME NEW nu, NEW b \in Range1(l) \ {p}, ~Halts(cd[b]) PROVE Goes(l, cd, nu, b) # x
  <2>1. PICK m \in Nat : Form(cd[b], m)
    BY <1>4 DEF Formed
  <2>2. \/ Goes(l, cd, nu, b) = Exit
        \/ LeadsTo(cd[b], Goes(l, cd, nu, b))
        \/ Falls(cd[b]) /\ Goes(l, cd, nu, b) = Following(l, b)
    BY <1>5, <2>1, CoverLeads DEF Goes
  <2>3. x \notin Range1(sc[b])
    BY DEF Appends
  <2>4. x # Exit
    <3>1. x \in Nat
      BY <1>2, FollowingFacts
    <3> QED
      BY <3>1 DEF Exit
  <2> QED
    BY <1>4, <2>2, <2>3, <2>4 DEF Covered
<1>6. ASSUME NEW S PROVE Well(l, cd2) /\ SameFlow(l, cd, l, cd2, S)
  BY <1>1, <1>5, FlowMerge
<1>7. ASSUME NEW S, \A b \in Range1(l) : RegsIn(cd[b], S)
      PROVE  \A b \in Range1(l) : RegsIn(cd2[b], S)
  <2>1. RegsIn(cd2[p], S)
    BY <1>2, <1>3, <1>7 DEF Joined
  <2>2. RegsIn(cd2[x], S)
    BY <1>2, EmptyForm
  <2> QED
    BY <1>7, <2>1, <2>2 DEF Appends
<1>8. \A S : (\A b \in Range1(l) : RegsIn(cd[b], S)) =>
        Well(l, cd2) /\ SameFlow(l, cd, l, cd2, S) /\ \A b \in Range1(l) : RegsIn(cd2[b], S)
  BY <1>6, <1>7
<1>9. Evolves(l, cd, l, cd2)
  BY <1>2, <1>8, EvolvesBy
<1>10. \A b \in Range1(l) : sc2[b] \in Seq(Range1(l) \ {1, x})
  <2>1. Range1(l) \ {1, x} = (Range1(l) \ {1}) \ {x}
    OBVIOUS
  <2>2. \A b \in Range1(l) \ {p} : sc[b] \in Seq(Range1(l) \ {1, x})
    BY <1>4, <2>1, SeqLess DEF Appends
  <2>3. sc2[p] = sc[x] /\ sc2[x] = <<>> /\ \A b \in Range1(l) \ {p, x} : sc2[b] = sc[b]
    BY DEF Appends
  <2>4. <<>> \in Seq(Range1(l) \ {1, x})
    OBVIOUS
  <2> QED
    BY <1>2, <2>2, <2>3, <2>4
<1>11. \A b \in Range1(l) \ {x} : Covered(cd2[b], Following(Without(l, x), b), sc2[b])
  <2>1. \A b \in Range1(l) \ {x} :
          Following(Without(l, x), b) = IF Following(l, b) = x THEN Following(l, x) ELSE Following(l, b)
    BY <1>2, WithoutFacts
  <2>2. Covered(cd2[p], Following(Without(l, x), p), sc2[p])
    <3>1. sc2[p] = sc[x] /\ Following(Without(l, x), p) = Following(l, x)
      BY <1>2, <2>1 DEF Appends
    <3>2. Covered(cd[x], Following(l, x), sc[x])
      BY <1>2, <1>4
    <3> QED
      BY <1>3, <3>1, <3>2 DEF Covered, Joined
  <2>3. ASSUME NEW b \in Range1(l) \ {p, x} PROVE Covered(cd2[b], Following(Without(l, x), b), sc2[b])
    <3>1. Following(l, b) # x
      BY <1>2, <2>3, OneBefore
    <3>2. cd2[b] = cd[b] /\ sc2[b] = sc[b]
      BY DEF Appends
    <3> QED
      BY <1>4, <2>1, <3>1, <3>2
  <2> QED
    BY <2>2, <2>3
<1>12. Half(l, cd2, sc2, x)
  <2>1. OwnWork(l, cd2)
    BY <1>9 DEF Evolves, Well
  <2>2. \A t : ~LeadsTo(cd2[x], t)
    BY <1>2, EmptyForm
  <2>3. DOMAIN cd2 = DOMAIN cd /\ DOMAIN sc2 = DOMAIN cd
    BY DEF Appends
  <2> QED
    BY <1>2, <1>3, <1>10, <1>11, <2>1, <2>2, <2>3 DEF Half
<1> QED
  BY <1>2, <1>9, <1>12

\* A layout of the same blocks in which the blocks of B that fall through
\* have the same block after them.
Rearranges(l, cd, l2, B) ==
  /\ Lay(l2) /\ Range1(l2) = Range1(l)
  /\ \A b \in B : Following(l2, b) = Following(l, b) \/ ~Falls(cd[b])

\* The last block of the layout does not fall through.
LEMMA LastStops ==
  ASSUME NEW l, NEW cd, NEW sc, Whole(l, cd, sc), NEW b \in Range1(l), Following(l, b) = 0
  PROVE  ~Falls(cd[b])
<1>1. Lay(l) /\ sc[b] \in Seq(Range1(l) \ {1}) /\ Covered(cd[b], 0, sc[b])
  BY DEF Whole
<1>2. 0 \notin Range1(l)
  BY <1>1, LayNat
<1>3. 0 \notin Range1(sc[b])
  BY <1>1, <1>2, SeqRange
<1> QED
  BY <1>1, <1>3 DEF Covered

\* Block x has been moved to the end of the layout.
AtEnd(l, cd, x, l2) ==
  /\ Lay(l2) /\ Range1(l2) = Range1(l)
  /\ Following(l2, x) = 0
  /\ \A b \in Range1(l) \ {x} :
       \/ Following(l2, b) = IF Following(l, b) = x THEN Following(l, x) ELSE Following(l, b)
       \/ Following(l, b) = 0 /\ ~Falls(cd[b])
       \/ Following(l, b) = x /\ Following(l, x) = 0

\* The layout with one block moved to the end.
LEMMA MovedToEnd ==
  ASSUME NEW l, NEW cd, NEW sc, Whole(l, cd, sc), NEW x \in Range1(l) \ {1}, NEW l2, l2 = Append(Without(l, x), x)
  PROVE  AtEnd(l, cd, x, l2)
<1>1. Lay(l)
  BY DEF Whole
<1>2. PICK l1 : l1 = Without(l, x)
  OBVIOUS
<1>3. /\ Lay(l1) /\ Range1(l1) = Range1(l) \ {x}
      /\ \A b \in Range1(l) \ {x} :
           Following(l1, b) = IF Following(l, b) = x THEN Following(l, x) ELSE Following(l, b)
  BY <1>1, <1>2, WithoutFacts
<1>4. x \in Nat \ {0}
  BY <1>1, LayNat
<1>5. /\ Lay(l2) /\ Range1(l2) = Range1(l1) \cup {x} /\ Following(l2, x) = 0
      /\ \A b \in Range1(l1) : Following(l2, b) = IF Following(l1, b) = 0 THEN x ELSE Following(l1, b)
  BY <1>2, <1>3, <1>4, AppendFacts
<1>6. \A b \in Range1(l) : Following(l, b) = 0 => ~Falls(cd[b])
  BY LastStops
<1>7. \A b \in Range1(l) \ {x} :
        \/ Following(l2, b) = IF Following(l, b) = x THEN Following(l, x) ELSE Following(l, b)
        \/ Following(l, b) = 0 /\ ~Falls(cd[b])
        \/ Following(l, b) = x /\ Following(l, x) = 0
  BY <1>3, <1>5, <1>6
<1> QED
  BY <1>3, <1>5, <1>7 DEF AtEnd

\* Moving a block to the end keeps every fall through that is used.
LEMMA ToEnd ==
  ASSUME NEW l, NEW cd, NEW sc, Whole(l, cd, sc), NEW x \in Range1(l) \ {1}, NEW l2, l2 = Append(Without(l, x), x),
         ~Falls(cd[x]), NEW B \in SUBSET Range1(l), \A b \in B : Following(l, b) = x => ~Falls(cd[b])
  PROVE  Rearranges(l, cd, l2, B)
<1>1. AtEnd(l, cd, x, l2)
  BY MovedToEnd
<1>2. \A b \in B \ {x} : Following(l2, b) = Following(l, b) \/ ~Falls(cd[b])
  BY <1>1 DEF AtEnd
<1> QED
  BY <1>1, <1>2 DEF Rearranges, AtEnd

\* Moving a block after another keeps every fall through that is used.
LEMMA AfterBlock ==
  ASSUME NEW l, NEW cd, Lay(l), NEW x \in Range1(l) \ {1}, NEW p \in Range1(l) \ {x},
         NEW l2, l2 = PutAfter(Without(l, x), x, p),
         ~Falls(cd[p]), \A b \in Range1(l) \ {x} : Following(l, b) = x => ~Falls(cd[b])
  PROVE  Rearranges(l, cd, l2, Range1(l) \ {x})
<1>2. PICK l1 : l1 = Without(l, x)
  OBVIOUS
<1>3. /\ Lay(l1) /\ Range1(l1) = Range1(l) \ {x}
      /\ \A b \in Range1(l) \ {x} :
           Following(l1, b) = IF Following(l, b) = x THEN Following(l, x) ELSE Following(l, b)
  BY <1>2, WithoutFacts
<1>4. x \in Nat \ {0}
  BY LayNat
<1>5. /\ Lay(l2) /\ Range1(l2) = Range1(l1) \cup {x}
      /\ \A b \in Range1(l1) : Following(l2, b) = IF b = p THEN x ELSE Following(l1, b)
  BY <1>2, <1>3, <1>4, PutAfterFacts
<1>6. \A b \in Range1(l) \ {x} : Following(l2, b) = Following(l, b) \/ ~Falls(cd[b])
  BY <1>3, <1>5
<1> QED
  BY <1>3, <1>5, <1>6 DEF Rearranges

\* Moving a block before another keeps every fall through that is used.
LEMMA BeforeBlock ==
  ASSUME NEW l, NEW cd, Lay(l), NEW x \in Range1(l) \ {1}, NEW s \in Range1(l) \ {1, x},
         NEW l2, l2 = PutBefore(Without(l, x), x, s),
         ~Falls(cd[x]), \A b \in Range1(l) \ {x} : Following(l, b) \in {x, s} => ~Falls(cd[b])
  PROVE  Rearranges(l, cd, l2, Range1(l))
<1>2. PICK l1 : l1 = Without(l, x)
  OBVIOUS
<1>3. /\ Lay(l1) /\ Range1(l1) = Range1(l) \ {x}
      /\ \A b \in Range1(l) \ {x} :
           Following(l1, b) = IF Following(l, b) = x THEN Following(l, x) ELSE Following(l, b)
  BY <1>2, WithoutFacts
<1>4. x \in Nat \ {0} /\ s \in Range1(l1) /\ s # 1 /\ x \notin Range1(l1)
  BY <1>3, LayNat
<1>5. /\ Lay(l2) /\ Range1(l2) = Range1(l1) \cup {x}
      /\ \A b \in Range1(l1) : Following(l2, b) = IF Following(l1, b) = s THEN x ELSE Following(l1, b)
  BY <1>2, <1>3, <1>4, PutBeforeFacts
<1>6. \A b \in Range1(l) \ {x} : Following(l2, b) = Following(l, b) \/ ~Falls(cd[b])
  BY <1>3, <1>5
<1> QED
  BY <1>3, <1>5, <1>6 DEF Rearranges

\* Blocks that keep their instructions, or lose a jump after a jump.
LEMMA Rearrange ==
  ASSUME NEW l, NEW cd, NEW sc, Whole(l, cd, sc), NEW l2, NEW cd2, NEW B, Rearranges(l, cd, l2, B),
         NEW b \in B \cap Range1(l), cd2[b] \in {cd[b], Ana(cd[b]).code}
  PROVE  BlockStep(cd[b], Following(l, b), cd2[b], Following(l2, b), sc[b], Range1(l) \ {1})
<1>1. /\ Formed(cd[b]) /\ sc[b] \in Seq(Range1(l) \ {1})
      /\ Covered(cd[b], Following(l, b), sc[b])
      /\ Following(l2, b) = Following(l, b) \/ ~Falls(cd[b])
  BY DEF Whole, Rearranges
<1> QED
  BY <1>1, SameBlock, ErasedBlock

=============================================================================
