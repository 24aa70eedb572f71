-------------------------- MODULE RigelBranchProofs --------------------------
(***************************************************************************)
(* Theorems on instruction selection of branches, critical edge splitting  *)
(* and branch folding. The inductive invariant is BranchInv; ScanInv, on   *)
(* top of it, says how far a scan that has changed nothing has come.       *)
(***************************************************************************)
EXTENDS RigelBranchLemmas

\* The edges left when one of two goes.
LEMMA OneEdgeLess ==
  ASSUME NEW p, NEW q, NEW t, NEW s, s = <<p, q>>
  PROVE  /\ p = t => RemoveFirst(s, t) = <<q>>
         /\ p # t /\ q = t => RemoveFirst(s, t) = <<p>>
<1>1. Len(s) = 2 /\ s[1] = p /\ s[2] = q /\ s \in Seq({p, q})
  OBVIOUS
<1>2. SelectInSeq(s, LAMBDA v : v = t) =
        IF \E i \in 1..2 : s[i] = t
          THEN CHOOSE i \in 1..2 : s[i] = t /\ \A j \in 1..2 : s[j] = t => i <= j ELSE 0
  BY <1>1 DEF SelectInSeq, Min
<1>3. PICK k : k = SelectInSeq(s, LAMBDA v : v = t)
  OBVIOUS
<1>4. (p = t => k = 1) /\ (p # t /\ q = t => k = 2)
  BY <1>1, <1>2, <1>3
<1>5. p = t \/ q = t => RemoveFirst(s, t) = RemoveAt(s, k)
  <2>1. p = t \/ q = t => \E i \in 1..Len(s) : s[i] = t
    BY <1>1
  <2> QED
    BY <2>1, <1>3 DEF RemoveFirst
<1>6. \A i \in {1, 2} : /\ RemoveAt(s, i) \in Seq({p, q}) /\ Len(RemoveAt(s, i)) = 1
                        /\ RemoveAt(s, i)[1] = IF i = 1 THEN q ELSE p
  <2>1. SUFFICES ASSUME NEW i \in {1, 2}
                 PROVE  /\ RemoveAt(s, i) \in Seq({p, q}) /\ Len(RemoveAt(s, i)) = 1
                        /\ RemoveAt(s, i)[1] = IF i = 1 THEN q ELSE p
    OBVIOUS
  <2>2. i \in 1..Len(s)
    BY <1>1
  <2>3. /\ RemoveAt(s, i) \in Seq({p, q}) /\ Len(RemoveAt(s, i)) = Len(s) - 1
        /\ \A j \in 1..(Len(s) - 1) : RemoveAt(s, i)[j] = IF j < i THEN s[j] ELSE s[j + 1]
    BY <1>1, <2>2, WithoutElements, ZenonT(60)
  <2>4. Len(s) - 1 = 1 /\ 1 \in 1..(Len(s) - 1)
    BY <1>1
  <2>5. PICK r : r = RemoveAt(s, i)
    OBVIOUS
  <2>6. r \in Seq({p, q}) /\ Len(r) = 1 /\ r[1] = IF 1 < i THEN s[1] ELSE s[1 + 1]
    BY <1>1, <2>3, <2>4, <2>5
  <2>7. r[1] = IF i = 1 THEN q ELSE p
    BY <1>1, <2>6
  <2> QED
    BY <2>5, <2>6, <2>7
<1>7. \A r \in Seq({p, q}) : Len(r) = 1 => r = <<r[1]>>
  OBVIOUS
<1> QED
  BY <1>4, <1>5, <1>6, <1>7

\* One destination replaced.
Replaced(x, t, n) == IF x = t THEN n ELSE x

\* ReplaceUsesOfBlockWith keeps opcodes and registers and replaces
\* destinations.
LEMMA UsesBranches ==
  ASSUME NEW m \in Nat, NEW c, Form(c, m), NEW t \in Targets1, NEW n \in Targets1, t # n, NEW d, d = ReplaceUses(c, t, n)
  PROVE  /\ Like(c, d, m) /\ Len(d) = Len(c)
         /\ \A i \in 1..Len(c) :
              /\ d[i].op = c[i].op /\ d[i].reg = c[i].reg
              /\ c[i].op \in Analyzable => d[i].to[1] = Replaced(c[i].to[1], t, n)
<1>1. Retargeted(c, d, t, n)
  BY UsesRetargeted
<1>2. Like(c, d, m)
  BY <1>1, Retarget DEF RetargetProfile
<1>3. c \in Seq(Instrs)
  BY DEF Form
<1>4. ASSUME NEW i \in 1..Len(c), c[i].op \in Analyzable PROVE d[i].to[1] = Replaced(c[i].to[1], t, n)
  <2>1. i \in DOMAIN c /\ c[i] \in Instrs
    BY <1>3
  <2>2. d[i] = IF c[i].to[1] = t THEN [c[i] EXCEPT !.to = <<n>>] ELSE c[i]
    BY <1>4, <2>1 DEF ReplaceUses
  <2>3. CASE c[i].to[1] = t
    <3>1. d[i].to = <<n>>
      BY <2>1, <2>2, <2>3 DEF Instrs
    <3> QED
      BY <2>3, <3>1 DEF Replaced
  <2>4. CASE c[i].to[1] # t
    BY <2>2, <2>4 DEF Replaced
  <2> QED
    BY <2>3, <2>4
<1> QED
  BY <1>1, <1>2, <1>4 DEF Retargeted

\* ReplaceUsesOfBlockWith on a conditional branch.
LEMMA UsesCond ==
  ASSUME NEW m \in Nat, NEW c, NEW op, NEW r, NEW x, IsCond(c, m, op, r, x),
         NEW t \in Targets1, NEW n \in Targets1, t # n, NEW d, d = ReplaceUses(c, t, n)
  PROVE  IsCond(d, m, op, r, Replaced(x, t, n)) /\ Like(c, d, m)
<1>1. Form(c, m) /\ Len(c) = m + 1 /\ op \in CondBranches
      /\ c[m + 1].op = op /\ c[m + 1].reg = r /\ c[m + 1].to[1] = x
  BY DEF IsCond
<1>2. /\ Like(c, d, m) /\ Len(d) = Len(c)
      /\ \A i \in 1..Len(c) :
           /\ d[i].op = c[i].op /\ d[i].reg = c[i].reg
           /\ c[i].op \in Analyzable => d[i].to[1] = Replaced(c[i].to[1], t, n)
  BY <1>1, UsesBranches
<1>3. m + 1 \in 1..Len(c) /\ op \in Analyzable
  BY <1>1 DEF Analyzable
<1>4. d[m + 1].op = op /\ d[m + 1].reg = r /\ d[m + 1].to[1] = Replaced(x, t, n)
  BY <1>1, <1>2, <1>3
<1> QED
  BY <1>1, <1>2, <1>4 DEF IsCond, Like

\* ReplaceUsesOfBlockWith on a conditional branch and a jump.
LEMMA UsesCond2 ==
  ASSUME NEW m \in Nat, NEW c, NEW op, NEW r, NEW x, NEW y, IsCond2(c, m, op, r, x, y),
         NEW t \in Targets1, NEW n \in Targets1, t # n, NEW d, d = ReplaceUses(c, t, n)
  PROVE  IsCond2(d, m, op, r, Replaced(x, t, n), Replaced(y, t, n)) /\ Like(c, d, m)
<1>1. Form(c, m) /\ Len(c) = m + 2 /\ op \in CondBranches
      /\ c[m + 1].op = op /\ c[m + 1].reg = r /\ c[m + 1].to[1] = x /\ c[m + 2].to[1] = y
  BY DEF IsCond2
<1>2. /\ Like(c, d, m) /\ Len(d) = Len(c)
      /\ \A i \in 1..Len(c) :
           /\ d[i].op = c[i].op /\ d[i].reg = c[i].reg
           /\ c[i].op \in Analyzable => d[i].to[1] = Replaced(c[i].to[1], t, n)
  BY <1>1, UsesBranches
<1>3. m + 1 \in 1..Len(c) /\ m + 2 \in 1..Len(c) /\ op \in Analyzable
  BY <1>1 DEF Analyzable
<1>4. c[m + 2].op = "JMP" /\ "JMP" \in Analyzable
  BY <1>1, OpsOf
<1>5. /\ d[m + 1].op = op /\ d[m + 1].reg = r /\ d[m + 1].to[1] = Replaced(x, t, n)
      /\ d[m + 2].to[1] = Replaced(y, t, n)
  BY <1>1, <1>2, <1>3, <1>4
<1> QED
  BY <1>1, <1>2, <1>5 DEF IsCond2, Like

\* A branch rewritten into one conditional branch.
LEMMA TermCond ==
  ASSUME NEW m \in Nat, NEW c, NEW op, NEW r,
         (\E x : IsCond(c, m, op, r, x)) \/ (\E x, y : IsCond2(c, m, op, r, x, y)),
         NEW op2 \in CondBranches, NEW t \in Targets1, NEW d, d = Rewritten(c, t, 0, <<op2, r>>)
  PROVE  IsCond(d, m, op2, r, t) /\ Like(c, d, m)
<1>1. /\ Form(c, m) /\ RemoveBranch(c) = SubSeq(c, 1, m) /\ ~Halts(c)
  <2>1. CASE \E x : IsCond(c, m, op, r, x)
    <3>1. PICK x : IsCond(c, m, op, r, x)
      BY <2>1
    <3>2. CondProfile(c, m, op, r, x)
      BY <3>1, CondFacts
    <3> QED
      BY <3>1, <3>2 DEF CondProfile, IsCond
  <2>2. CASE \E x, y : IsCond2(c, m, op, r, x, y)
    <3>1. PICK x, y : IsCond2(c, m, op, r, x, y)
      BY <2>2
    <3>2. Cond2Profile(c, m, op, r, x, y)
      BY <3>1, Cond2Facts
    <3> QED
      BY <3>1, <3>2 DEF Cond2Profile, IsCond2
  <2> QED
    BY <2>1, <2>2
<1>2. r \in 1..NumBlocks
  <2>1. Len(c) >= m + 1 /\ c[m + 1].op \in CondBranches /\ c[m + 1].reg = r /\ Len(c) \in Nat
    BY <1>1 DEF IsCond, IsCond2, Form
  <2>2. m + 1 \in (m + 1)..Len(c)
    BY <2>1
  <2> QED
    BY <1>1, <2>1, <2>2 DEF Form
<1>3. PICK w : w = SubSeq(c, 1, m)
  OBVIOUS
<1>4. IsFall(w, m) /\ (\A i \in 1..m : w[i] = c[i]) /\ ~Halts(w)
  BY <1>1, <1>3, Cut
<1>5. d = InsertBranch(w, t, 0, <<op2, r>>)
  BY <1>1, <1>3 DEF Rewritten
<1>6. IsCond(d, m, op2, r, t) /\ \A i \in 1..m : d[i] = w[i]
  BY <1>2, <1>4, <1>5, InsertCond
<1> QED
  BY <1>4, <1>6 DEF Like, IsCond

\* The fields of an answer.
LEMMA CondAnswer ==
  ASSUME NEW m, NEW c, NEW op, NEW r, NEW x, IsCond(c, m, op, r, x), NEW a, a = AnaF(c)
  PROVE  a.tbb = x /\ a.fbb = 0 /\ a.cond = <<op, r>> /\ ~a.fail
<1>1. a = Analysis(x, 0, <<op, r>>, c)
  BY CondFacts DEF CondProfile
<1> QED
  BY <1>1, AnalysisFields

\* The answer for a conditional branch and a jump.
LEMMA Cond2Answer ==
  ASSUME NEW m, NEW c, NEW op, NEW r, NEW x, NEW y, IsCond2(c, m, op, r, x, y), NEW a, a = AnaF(c)
  PROVE  a.tbb = x /\ a.fbb = y /\ a.cond = <<op, r>> /\ ~a.fail
<1>1. a = Analysis(x, y, <<op, r>>, c)
  BY Cond2Facts DEF Cond2Profile
<1> QED
  BY <1>1, AnalysisFields

\* updateTerminator of a conditional branch, when n is now the block after.
LEMMA TurnedCond ==
  ASSUME NEW m, NEW c, NEW op, NEW r, NEW p, NEW n, p # n, IsCond(c, m, op, r, n), NEW s, s = <<p, n>>
  PROVE  updateTerminator(c, s, n) = Rewritten(c, p, 0, <<GetOppositeBranchOpcode(op), r>>)
<1>1. PICK a : a = AnaF(c)
  OBVIOUS
<1>2. a.tbb = n /\ a.fbb = 0 /\ a.cond = <<op, r>>
  BY <1>1, CondAnswer
<1>3. AnalyzeBranch(c, FALSE) = a
  BY <1>1 DEF AnaF
<1>4. s # <<>> /\ s[1] = p /\ s[2] = n /\ a.cond # <<>>
  BY <1>2
<1>5. ReverseBranchCondition(a.cond) = <<GetOppositeBranchOpcode(op), r>>
  BY <1>2, ReversedIs
<1>6. updateTerminator(c, s, n) =
        IF a.tbb = n THEN Rewritten(c, IF p = a.tbb THEN n ELSE p, 0, ReverseBranchCondition(a.cond))
        ELSE IF (IF p = a.tbb THEN n ELSE p) # n THEN Rewritten(c, a.tbb, IF p = a.tbb THEN n ELSE p, a.cond) ELSE c
  BY <1>2, <1>3, <1>4 DEF updateTerminator
<1> QED
  BY <1>2, <1>5, <1>6

\* updateTerminator leaves a conditional branch whose other destination
\* follows.
LEMMA KeptCond ==
  ASSUME NEW m, NEW c, NEW op, NEW r, NEW p, NEW n, p # n, IsCond(c, m, op, r, p), NEW s, s = <<p, n>>
  PROVE  updateTerminator(c, s, n) = c
<1>1. PICK a : a = AnaF(c)
  OBVIOUS
<1>2. a.tbb = p /\ a.fbb = 0 /\ a.cond = <<op, r>>
  BY <1>1, CondAnswer
<1>3. AnalyzeBranch(c, FALSE) = a
  BY <1>1 DEF AnaF
<1>4. s # <<>> /\ s[1] = p /\ s[2] = n /\ a.cond # <<>>
  BY <1>2
<1>5. ReverseBranchCondition(a.cond) = <<GetOppositeBranchOpcode(op), r>>
  BY <1>2, ReversedIs
<1>6. updateTerminator(c, s, n) =
        IF a.tbb = n THEN Rewritten(c, IF p = a.tbb THEN n ELSE p, 0, ReverseBranchCondition(a.cond))
        ELSE IF (IF p = a.tbb THEN n ELSE p) # n THEN Rewritten(c, a.tbb, IF p = a.tbb THEN n ELSE p, a.cond) ELSE c
  BY <1>2, <1>3, <1>4 DEF updateTerminator
<1> QED
  BY <1>2, <1>5, <1>6

\* updateTerminator reverses a two-way branch whose true destination follows.
LEMMA TurnedCond2 ==
  ASSUME NEW m, NEW c, NEW op, NEW r, NEW y, NEW n, y # 0, IsCond2(c, m, op, r, n, y), NEW p, NEW s, s = <<p, n>>
  PROVE  updateTerminator(c, s, n) = Rewritten(c, y, 0, <<GetOppositeBranchOpcode(op), r>>)
<1>1. PICK a : a = AnaF(c)
  OBVIOUS
<1>2. a.tbb = n /\ a.fbb = y /\ a.cond = <<op, r>>
  BY <1>1, Cond2Answer
<1>3. AnalyzeBranch(c, FALSE) = a
  BY <1>1 DEF AnaF
<1>4. s # <<>> /\ a.cond # <<>>
  BY <1>2
<1>5. ReverseBranchCondition(a.cond) = <<GetOppositeBranchOpcode(op), r>>
  BY <1>2, ReversedIs
<1>6. updateTerminator(c, s, n) =
        IF a.tbb = n THEN Rewritten(c, a.fbb, 0, ReverseBranchCondition(a.cond))
        ELSE IF a.fbb = n THEN Rewritten(c, a.tbb, 0, a.cond) ELSE c
  BY <1>2, <1>3, <1>4 DEF updateTerminator
<1> QED
  BY <1>2, <1>5, <1>6

\* updateTerminator drops the jump of a two-way branch whose false destination
\* follows.
LEMMA ShortenedCond2 ==
  ASSUME NEW m, NEW c, NEW op, NEW r, NEW x, NEW n, n # 0, x # n, IsCond2(c, m, op, r, x, n), NEW p, NEW s, s = <<p, n>>
  PROVE  updateTerminator(c, s, n) = Rewritten(c, x, 0, <<op, r>>)
<1>1. PICK a : a = AnaF(c)
  OBVIOUS
<1>2. a.tbb = x /\ a.fbb = n /\ a.cond = <<op, r>>
  BY <1>1, Cond2Answer
<1>3. AnalyzeBranch(c, FALSE) = a
  BY <1>1 DEF AnaF
<1>4. s # <<>> /\ a.cond # <<>>
  BY <1>2
<1>5. ReverseBranchCondition(a.cond) = <<GetOppositeBranchOpcode(op), r>>
  BY <1>2, ReversedIs
<1>6. updateTerminator(c, s, n) =
        IF a.tbb = n THEN Rewritten(c, a.fbb, 0, ReverseBranchCondition(a.cond))
        ELSE IF a.fbb = n THEN Rewritten(c, a.tbb, 0, a.cond) ELSE c
  BY <1>2, <1>3, <1>4 DEF updateTerminator
<1> QED
  BY <1>2, <1>5, <1>6

\* The branch of a block with two ways out and its edges, when ft is the block after.
Single(c, s) == Len(s) <= 1 \/ AnaF(c).fail
PlainTwo(c, s, m, op, r, x, y) == IsCond2(c, m, op, r, x, y) /\ s = <<x, y>>
PlainOne(c, s, ft, m, op, r, x) == IsCond(c, m, op, r, x) /\ x # ft /\ s \in {<<x, ft>>, <<ft, x>>}
Plain(c, s, ft) ==
  \E m \in Nat : \E op, r :
    \/ \E x, y : PlainTwo(c, s, m, op, r, x, y)
    \/ \E x : PlainOne(c, s, ft, m, op, r, x)
TwinOne(c, s, ft, y, m, op, r) == IsCond(c, m, op, r, ft) /\ s = <<y, ft>> /\ y # ft
Twin(c, s, ft, y) == \E m \in Nat : \E op, r : TwinOne(c, s, ft, y, m, op, r)

\* The split block leads where it led, but for the new block in between.
SplitLeads(c, ft, t, d, n, twin) ==
  \A S : RegsIn(c, S) => \A nu \in [S -> Outcomes] :
    \/ Leads(d, nu, n) = Leads(c, nu, ft)
    \/ Leads(d, nu, n) = n /\ (Leads(c, nu, ft) = t \/ (twin /\ Leads(c, nu, ft) = ft))
Splits(c, s, ft, t, d, s2, n, twin) ==
  /\ \E m \in Nat : Form(c, m) /\ Like(c, d, m)
  /\ \A S : RegsIn(c, S) => RegsIn(d, S)
  /\ Covered(d, n, s2)
  /\ Plain(d, s2, n) \/ Twin(d, s2, n, t)
  /\ Len(s2) = 2 /\ Range1(s2) \subseteq Range1(s) \cup {n}
  /\ \A T : s \in Seq(T) => s2 \in Seq(T \cup {n})
  /\ SplitLeads(c, ft, t, d, n, twin)

\* The block ends in one conditional branch.
CondEnds(d, op, r, x) ==
  /\ ~Halts(d)
  /\ \A z : LeadsTo(d, z) <=> z = x
  /\ \A S : RegsIn(d, S) <=> r \in S
  /\ \A nu, ft : Leads(d, nu, ft) = IF Taken(op, nu[r]) THEN x ELSE ft
\* What a block that ends in a conditional branch takes and uses.
LEMMA CondEndsIs ==
  ASSUME NEW m, NEW d, NEW op, NEW r, NEW x, IsCond(d, m, op, r, x)
  PROVE  CondEnds(d, op, r, x)
BY CondFacts, ZenonT(60) DEF CondProfile, CondEnds

\* Two edges cover a conditional branch whose other destination follows.
LEMMA CondCovered ==
  ASSUME NEW d, NEW op, NEW r, NEW x, CondEnds(d, op, r, x), NEW p, NEW n, NEW s2, s2 = <<p, n>>, x \in {p, n}
  PROVE  Covered(d, n, s2) /\ Len(s2) = 2 /\ Range1(s2) = {p, n}
<1>1. Range1(s2) = {p, n} /\ Len(s2) = 2
  BY DEF Range1
<1> QED
  BY <1>1 DEF CondEnds, Covered

\* The block leads to u or to v, by the outcome of one comparison.
Chooses(c, ft, op, r, u, v) ==
  /\ op \in CondBranches
  /\ \A nu : Leads(c, nu, ft) = IF Taken(op, nu[r]) THEN u ELSE v
  /\ \A S : RegsIn(c, S) <=> r \in S

\* Where a two-way branch and its rewritten form lead.
LEMMA SplitSame ==
  ASSUME NEW c, NEW ft, NEW op, NEW r, NEW u, NEW v, Chooses(c, ft, op, r, u, v),
         NEW d, NEW x, CondEnds(d, op, r, x), NEW t, NEW n, NEW twin, x = u,
         v = t \/ (twin /\ v = ft)
  PROVE  SplitLeads(c, ft, t, d, n, twin)
<1>1. SUFFICES ASSUME NEW S, RegsIn(c, S), NEW nu \in [S -> Outcomes]
               PROVE  \/ Leads(d, nu, n) = Leads(c, nu, ft)
                      \/ Leads(d, nu, n) = n /\ (Leads(c, nu, ft) = t \/ (twin /\ Leads(c, nu, ft) = ft))
  BY DEF SplitLeads
<1>2. Leads(c, nu, ft) = IF Taken(op, nu[r]) THEN u ELSE v
  BY DEF Chooses
<1>3. Leads(d, nu, n) = IF Taken(op, nu[r]) THEN x ELSE n
  BY DEF CondEnds
<1> QED
  BY <1>2, <1>3

\* A branch split on its fall-through side leads where it led, by way of the
\* new block.
LEMMA SplitOpposite ==
  ASSUME NEW c, NEW ft, NEW op, NEW r, NEW u, NEW v, Chooses(c, ft, op, r, u, v),
         NEW d, NEW x, CondEnds(d, GetOppositeBranchOpcode(op), r, x), NEW t, NEW n, NEW twin, u = t,
         x = v \/ (x = n /\ v = t)
  PROVE  SplitLeads(c, ft, t, d, n, twin)
<1>1. SUFFICES ASSUME NEW S, RegsIn(c, S), NEW nu \in [S -> Outcomes]
               PROVE  \/ Leads(d, nu, n) = Leads(c, nu, ft)
                      \/ Leads(d, nu, n) = n /\ (Leads(c, nu, ft) = t \/ (twin /\ Leads(c, nu, ft) = ft))
  BY DEF SplitLeads
<1>2. Leads(c, nu, ft) = IF Taken(op, nu[r]) THEN u ELSE v
  BY DEF Chooses
<1>3. Leads(d, nu, n) = IF Taken(GetOppositeBranchOpcode(op), nu[r]) THEN x ELSE n
  BY DEF CondEnds
<1>4. r \in S /\ op \in CondBranches
  BY <1>1 DEF Chooses
<1>5. Leads(d, nu, n) = IF Taken(op, nu[r]) THEN n ELSE x
  BY <1>3, <1>4, ReversedTaken
<1> QED
  BY <1>2, <1>5

\* A conditional branch chooses between its destination and the following
\* block.
LEMMA CondChooses ==
  ASSUME NEW m, NEW c, NEW op, NEW r, NEW x, IsCond(c, m, op, r, x), NEW ft
  PROVE  Chooses(c, ft, op, r, x, ft)
<1>1. CondProfile(c, m, op, r, x) /\ op \in CondBranches
  BY CondFacts DEF IsCond
<1> QED
  BY <1>1 DEF CondProfile, Chooses

\* A two-way branch chooses between its destinations.
LEMMA Cond2Chooses ==
  ASSUME NEW m, NEW c, NEW op, NEW r, NEW x, NEW y, IsCond2(c, m, op, r, x, y), NEW ft
  PROVE  Chooses(c, ft, op, r, x, y)
<1>1. Cond2Profile(c, m, op, r, x, y) /\ op \in CondBranches
  BY Cond2Facts DEF IsCond2
<1> QED
  BY <1>1 DEF Cond2Profile, Chooses

\* How the block whose edge is split ends.
SplitEnd(c, ft, d, t, n, twin, m, op, r, x, p) ==
  /\ Form(c, m) /\ Like(c, d, m) /\ IsCond(d, m, op, r, x)
  /\ \A S : RegsIn(c, S) => r \in S
  /\ (x = p /\ p # n) \/ (x = n /\ p = t /\ t # n)
  /\ SplitLeads(c, ft, t, d, n, twin)
\* A split branch ends as its edges say.
LEMMA SplitIs ==
  ASSUME NEW m \in Nat, NEW c, NEW ft, NEW d, NEW t, NEW n, NEW twin, NEW op, NEW r, NEW x, NEW p,
         SplitEnd(c, ft, d, t, n, twin, m, op, r, x, p), NEW s2, s2 = <<p, n>>, NEW s, p \in Range1(s)
  PROVE  Splits(c, s, ft, t, d, s2, n, twin)
<1>1. CondEnds(d, op, r, x) /\ x \in {p, n}
  BY CondEndsIs DEF SplitEnd
<1>2. Covered(d, n, s2) /\ Len(s2) = 2 /\ Range1(s2) = {p, n}
  BY <1>1, CondCovered
<1>3. \A S : RegsIn(c, S) => RegsIn(d, S)
  BY <1>1 DEF SplitEnd, CondEnds
<1>4. Plain(d, s2, n) \/ Twin(d, s2, n, t)
  <2>1. CASE x = p /\ p # n
    <3>1. PlainOne(d, s2, n, m, op, r, x)
      BY <2>1 DEF PlainOne, SplitEnd
    <3> QED
      BY <3>1 DEF Plain
  <2>2. CASE x = n /\ p = t /\ t # n
    <3>1. TwinOne(d, s2, n, t, m, op, r)
      BY <2>2 DEF TwinOne, SplitEnd
    <3> QED
      BY <3>1 DEF Twin
  <2> QED
    BY <2>1, <2>2 DEF SplitEnd
<1>5. ASSUME NEW T, s \in Seq(T) PROVE s2 \in Seq(T \cup {n})
  <2>1. p \in T
    BY <1>5, SeqRange
  <2> QED
    BY <2>1
<1>6. Range1(s2) \subseteq Range1(s) \cup {n}
  BY <1>2
<1> QED
  BY <1>2, <1>3, <1>4, <1>5, <1>6 DEF Splits, SplitEnd

\* A pair from one element.
LEMMA AppendOne ==
  ASSUME NEW z, NEW n
  PROVE  Append(<<z>>, n) = <<z, n>>
<1>1. PICK w : w = <<z>>
  OBVIOUS
<1>2. w \in Seq({z, n}) /\ Len(w) = 1 /\ w[1] = z
  BY <1>1
<1>3. PICK v : v = Append(w, n)
  OBVIOUS
<1>4. v \in Seq({z, n}) /\ Len(v) = 2 /\ v[1] = z /\ v[2] = n
  BY <1>2, <1>3
<1>5. v = <<v[1], v[2]>>
  BY <1>4
<1> QED
  BY <1>1, <1>3, <1>4, <1>5

\* One of two edges goes, an edge to n comes.
LEMMA EdgeMoved ==
  ASSUME NEW p, NEW q, NEW t, NEW n, NEW s, s = <<p, q>>
  PROVE  /\ p = t => Append(RemoveFirst(s, t), n) = <<q, n>>
         /\ p # t /\ q = t => Append(RemoveFirst(s, t), n) = <<p, n>>
         /\ Range1(s) = {p, q}
<1>1. Range1(s) = {p, q}
  BY DEF Range1
<1>2. p = t => Append(RemoveFirst(s, t), n) = <<q, n>>
  <2>1. p = t => RemoveFirst(s, t) = <<q>>
    BY OneEdgeLess
  <2> QED
    BY <2>1, AppendOne
<1>3. p # t /\ q = t => Append(RemoveFirst(s, t), n) = <<p, n>>
  <2>1. p # t /\ q = t => RemoveFirst(s, t) = <<p>>
    BY OneEdgeLess
  <2> QED
    BY <2>1, AppendOne
<1> QED
  BY <1>1, <1>2, <1>3

\* What the split of an edge makes of a block and its edges.
SplitData(c, s, t, n, d, s2) ==
  /\ t \in Targets1 /\ n \in Targets1 /\ t # n
  /\ s2 = Append(RemoveFirst(s, t), n)
  /\ d = updateTerminator(ReplaceUses(c, t, n), s2, n)

\* Keeping the same work is transitive.
LEMMA LikeThrough ==
  ASSUME NEW m, NEW c, NEW e, NEW d, Like(c, e, m), Like(e, d, m)
  PROVE  Like(c, d, m)
BY DEF Like

\* The branch is taken to the split edge.
LEMMA SplitTaken ==
  ASSUME NEW m \in Nat, NEW c, NEW s, NEW ft, NEW op, NEW r, NEW x, PlainOne(c, s, ft, m, op, r, x),
         NEW t, NEW n, NEW d, NEW s2, SplitData(c, s, t, n, d, s2), t = x, n # ft, ft \in Targets1
  PROVE  Splits(c, s, ft, t, d, s2, n, FALSE)
<1> DEFINE o == GetOppositeBranchOpcode(op)
<1>1. IsCond(c, m, op, r, x) /\ x # ft /\ op \in CondBranches /\ Form(c, m)
  BY DEF PlainOne, IsCond
<1>2. s2 = <<ft, n>> /\ ft \in Range1(s)
  <2>1. s = <<x, ft>> \/ s = <<ft, x>>
    BY DEF PlainOne
  <2> QED
    BY <1>1, <2>1, EdgeMoved DEF SplitData
<1>3. PICK e : e = ReplaceUses(c, t, n)
  OBVIOUS
<1>4. IsCond(e, m, op, r, Replaced(x, t, n)) /\ Like(c, e, m)
  BY <1>1, <1>3, UsesCond DEF SplitData
<1>5. IsCond(e, m, op, r, n)
  BY <1>4 DEF Replaced
<1>6. d = Rewritten(e, ft, 0, <<o, r>>)
  <2>1. d = updateTerminator(e, s2, n)
    BY <1>3 DEF SplitData
  <2>2. updateTerminator(e, s2, n) = Rewritten(e, ft, 0, <<o, r>>)
    BY <1>2, <1>5, TurnedCond DEF o
  <2> QED
    BY <2>1, <2>2
<1>7. o \in CondBranches
  BY <1>1 DEF GetOppositeBranchOpcode, CondBranches
<1> HIDE DEF o
<1>8. IsCond(d, m, o, r, ft) /\ Like(e, d, m)
  BY <1>5, <1>6, <1>7, TermCond
<1>9. Chooses(c, ft, op, r, x, ft)
  BY <1>1, CondChooses
<1>10. CondEnds(d, o, r, ft)
  BY <1>8, CondEndsIs
<1>11. SplitLeads(c, ft, t, d, n, FALSE)
  BY <1>9, <1>10, SplitOpposite DEF o
<1>12. SplitEnd(c, ft, d, t, n, FALSE, m, o, r, ft, ft)
  BY <1>1, <1>4, <1>8, <1>9, <1>11, LikeThrough DEF SplitEnd, Chooses
<1> QED
  BY <1>2, <1>12, SplitIs

\* The split edge is the one that is fallen through.
LEMMA SplitFallen ==
  ASSUME NEW m \in Nat, NEW c, NEW s, NEW ft, NEW op, NEW r, NEW x, PlainOne(c, s, ft, m, op, r, x),
         NEW t, NEW n, NEW d, NEW s2, SplitData(c, s, t, n, d, s2), t = ft, n # x
  PROVE  Splits(c, s, ft, t, d, s2, n, FALSE)
<1>1. IsCond(c, m, op, r, x) /\ x # ft /\ op \in CondBranches /\ Form(c, m)
  BY DEF PlainOne, IsCond
<1>2. s2 = <<x, n>> /\ x \in Range1(s)
  <2>1. s = <<x, ft>> \/ s = <<ft, x>>
    BY DEF PlainOne
  <2> QED
    BY <1>1, <2>1, EdgeMoved DEF SplitData
<1>3. PICK e : e = ReplaceUses(c, t, n)
  OBVIOUS
<1>4. IsCond(e, m, op, r, Replaced(x, t, n)) /\ Like(c, e, m)
  BY <1>1, <1>3, UsesCond DEF SplitData
<1>5. IsCond(e, m, op, r, x)
  BY <1>1, <1>4 DEF Replaced
<1>6. d = e
  <2>1. d = updateTerminator(e, s2, n)
    BY <1>3 DEF SplitData
  <2>2. updateTerminator(e, s2, n) = e
    BY <1>1, <1>2, <1>5, KeptCond
  <2> QED
    BY <2>1, <2>2
<1>8. IsCond(d, m, op, r, x) /\ Like(c, d, m)
  BY <1>4, <1>5, <1>6
<1>9. Chooses(c, ft, op, r, x, ft)
  BY <1>1, CondChooses
<1>10. CondEnds(d, op, r, x)
  BY <1>8, CondEndsIs
<1>11. SplitLeads(c, ft, t, d, n, FALSE)
  BY <1>9, <1>10, SplitSame
<1>12. SplitEnd(c, ft, d, t, n, FALSE, m, op, r, x, x)
  BY <1>1, <1>8, <1>9, <1>11 DEF SplitEnd, Chooses
<1> QED
  BY <1>2, <1>12, SplitIs

\* A branch with two explicit destinations: the split edge is that of the
\* conditional branch, of the jump, or of both.
LEMMA SplitFirst ==
  ASSUME NEW m \in Nat, NEW c, NEW s, NEW ft, NEW op, NEW r, NEW x, NEW y, PlainTwo(c, s, m, op, r, x, y),
         NEW t, NEW n, NEW d, NEW s2, SplitData(c, s, t, n, d, s2), t = x, n # y, y \in Targets1
  PROVE  Splits(c, s, ft, t, d, s2, n, FALSE)
<1> DEFINE o == GetOppositeBranchOpcode(op)
           z == Replaced(y, t, n)
<1>1. IsCond2(c, m, op, r, x, y) /\ op \in CondBranches /\ Form(c, m) /\ s = <<x, y>>
  BY DEF PlainTwo, IsCond2
<1>2. s2 = <<y, n>> /\ y \in Range1(s)
  BY <1>1, EdgeMoved DEF SplitData
<1>3. PICK e : e = ReplaceUses(c, t, n)
  OBVIOUS
<1>4. IsCond2(e, m, op, r, Replaced(x, t, n), z) /\ Like(c, e, m)
  BY <1>1, <1>3, UsesCond2 DEF SplitData
<1>z. z = (IF y = t THEN n ELSE y) /\ z \in Targets1 /\ z # 0
  BY DEF Replaced, SplitData, Targets1
<1> HIDE DEF z
<1>5. IsCond2(e, m, op, r, n, z)
  BY <1>4 DEF Replaced
<1>6. d = Rewritten(e, z, 0, <<o, r>>)
  <2>1. d = updateTerminator(e, s2, n)
    BY <1>3 DEF SplitData
  <2>2. updateTerminator(e, s2, n) = Rewritten(e, z, 0, <<o, r>>)
    BY <1>2, <1>5, <1>z, TurnedCond2 DEF o
  <2> QED
    BY <2>1, <2>2
<1>7. o \in CondBranches
  BY <1>1 DEF GetOppositeBranchOpcode, CondBranches
<1> HIDE DEF o
<1>8. IsCond(d, m, o, r, z) /\ Like(e, d, m)
  BY <1>5, <1>6, <1>7, <1>z, TermCond
<1>9. Chooses(c, ft, op, r, x, y)
  BY <1>1, Cond2Chooses
<1>10. CondEnds(d, o, r, z)
  BY <1>8, CondEndsIs
<1>11. SplitLeads(c, ft, t, d, n, FALSE)
  <2>1. z = y \/ (z = n /\ y = t)
    BY <1>z
  <2>2. CondEnds(d, GetOppositeBranchOpcode(op), r, z)
    BY <1>10 DEF o
  <2> QED
    BY <1>9, <2>1, <2>2, SplitOpposite
<1>12. SplitEnd(c, ft, d, t, n, FALSE, m, o, r, z, y)
  <2>1. \A S : RegsIn(c, S) => r \in S
    BY <1>9 DEF Chooses
  <2>2. (z = y /\ y # n) \/ (z = n /\ y = t /\ t # n)
    BY <1>z DEF SplitData
  <2>3. Like(c, d, m)
    BY <1>4, <1>8, LikeThrough
  <2> QED
    BY <1>1, <1>8, <1>11, <2>1, <2>2, <2>3 DEF SplitEnd
<1> QED
  BY <1>2, <1>12, SplitIs

\* The edge to the second destination of a two-way branch is split.
LEMMA SplitSecond ==
  ASSUME NEW m \in Nat, NEW c, NEW s, NEW ft, NEW op, NEW r, NEW x, NEW y, PlainTwo(c, s, m, op, r, x, y),
         NEW t, NEW n, NEW d, NEW s2, SplitData(c, s, t, n, d, s2), t # x, t = y, n # x, x \in Targets1
  PROVE  Splits(c, s, ft, t, d, s2, n, FALSE)
<1>1. IsCond2(c, m, op, r, x, y) /\ op \in CondBranches /\ Form(c, m) /\ s = <<x, y>>
  BY DEF PlainTwo, IsCond2
<1>2. s2 = <<x, n>> /\ x \in Range1(s)
  BY <1>1, EdgeMoved DEF SplitData
<1>3. PICK e : e = ReplaceUses(c, t, n)
  OBVIOUS
<1>4. IsCond2(e, m, op, r, Replaced(x, t, n), Replaced(y, t, n)) /\ Like(c, e, m)
  BY <1>1, <1>3, UsesCond2 DEF SplitData
<1>5. IsCond2(e, m, op, r, x, n)
  BY <1>4 DEF Replaced
<1>6. d = Rewritten(e, x, 0, <<op, r>>)
  <2>1. d = updateTerminator(e, s2, n)
    BY <1>3 DEF SplitData
  <2>2. n # 0
    BY DEF SplitData, Targets1
  <2>3. updateTerminator(e, s2, n) = Rewritten(e, x, 0, <<op, r>>)
    BY <1>2, <1>5, <2>2, ShortenedCond2
  <2> QED
    BY <2>1, <2>3
<1>8. IsCond(d, m, op, r, x) /\ Like(e, d, m)
  BY <1>1, <1>5, <1>6, TermCond
<1>9. Chooses(c, ft, op, r, x, y)
  BY <1>1, Cond2Chooses
<1>10. CondEnds(d, op, r, x)
  BY <1>8, CondEndsIs
<1>11. SplitLeads(c, ft, t, d, n, FALSE)
  BY <1>9, <1>10, SplitSame
<1>12. SplitEnd(c, ft, d, t, n, FALSE, m, op, r, x, x)
  <2>1. \A S : RegsIn(c, S) => r \in S
    BY <1>9 DEF Chooses
  <2>3. Like(c, d, m)
    BY <1>4, <1>8, LikeThrough
  <2> QED
    BY <1>1, <1>8, <1>11, <2>1, <2>3 DEF SplitEnd
<1> QED
  BY <1>2, <1>12, SplitIs

\* A branch to a block that has been put on an edge, and an edge beside it.
LEMMA SplitTwin ==
  ASSUME NEW m \in Nat, NEW c, NEW s, NEW ft, NEW op, NEW r, NEW t, TwinOne(c, s, ft, t, m, op, r),
         NEW n, NEW d, NEW s2, SplitData(c, s, t, n, d, s2), n # ft
  PROVE  Splits(c, s, ft, t, d, s2, n, TRUE)
<1>1. IsCond(c, m, op, r, ft) /\ t # ft /\ op \in CondBranches /\ Form(c, m) /\ s = <<t, ft>>
  BY DEF TwinOne, IsCond
<1>2. s2 = <<ft, n>> /\ ft \in Range1(s)
  BY <1>1, EdgeMoved DEF SplitData
<1>3. PICK e : e = ReplaceUses(c, t, n)
  OBVIOUS
<1>4. IsCond(e, m, op, r, Replaced(ft, t, n)) /\ Like(c, e, m)
  BY <1>1, <1>3, UsesCond DEF SplitData
<1>5. IsCond(e, m, op, r, ft)
  BY <1>1, <1>4 DEF Replaced
<1>6. d = e
  <2>1. d = updateTerminator(e, s2, n)
    BY <1>3 DEF SplitData
  <2>2. updateTerminator(e, s2, n) = e
    BY <1>1, <1>2, <1>5, KeptCond
  <2> QED
    BY <2>1, <2>2
<1>8. IsCond(d, m, op, r, ft) /\ Like(c, d, m)
  BY <1>4, <1>5, <1>6
<1>9. Chooses(c, ft, op, r, ft, ft)
  BY <1>1, CondChooses
<1>10. CondEnds(d, op, r, ft)
  BY <1>8, CondEndsIs
<1>11. SplitLeads(c, ft, t, d, n, TRUE)
  BY <1>9, <1>10, SplitSame
<1>12. SplitEnd(c, ft, d, t, n, TRUE, m, op, r, ft, ft)
  <2>1. \A S : RegsIn(c, S) => r \in S
    BY <1>9 DEF Chooses
  <2> QED
    BY <1>1, <1>8, <1>11, <2>1 DEF SplitEnd
<1> QED
  BY <1>2, <1>12, SplitIs

\* e is a block made for an edge from b to y: nobody else goes there.
Landing(l, cd, sc, b, e, y) ==
  /\ \A p \in Range1(l) \ {b} : e \notin Range1(sc[p])
  /\ sc[e] = <<y>> /\ cd[e] \in {<<>>, <<Jmp(y)>>}
Ready(l, cd, sc, b) ==
  \/ Single(cd[b], sc[b])
  \/ Plain(cd[b], sc[b], Following(l, b))
  \/ \E y : Twin(cd[b], sc[b], Following(l, b), y) /\ Landing(l, cd, sc, b, Following(l, b), y)

\* Two edges to t.
ManyTo(l, sc, t) ==
  \E p, q \in Range1(l) : \E i \in 1..Len(sc[p]), j \in 1..Len(sc[q]) :
    sc[p][i] = t /\ sc[q][j] = t /\ (p # q \/ i # j)

\* A block on a split edge has one predecessor: the edge into it is never
\* split again.
LEMMA TwinAlone ==
  ASSUME NEW l, NEW cd, NEW sc, NEW b \in Range1(l), NEW e, NEW y, y # e,
         \A p \in Range1(l) : sc[p] \in Seq(Nat),
         sc[b] = <<y, e>>, Landing(l, cd, sc, b, e, y)
  PROVE  ~ManyTo(l, sc, e)
<1>1. SUFFICES ASSUME NEW p \in Range1(l), NEW q \in Range1(l),
                      NEW i \in 1..Len(sc[p]), NEW j \in 1..Len(sc[q]),
                      sc[p][i] = e, sc[q][j] = e, p # q \/ i # j
               PROVE  FALSE
  BY DEF ManyTo
<1>2. \A x \in Range1(l) : \A k \in 1..Len(sc[x]) : sc[x][k] \in Range1(sc[x])
  BY RangeOf
<1>3. p = b /\ q = b
  BY <1>1, <1>2 DEF Landing
<1>4. Len(sc[b]) = 2 /\ sc[b][1] = y /\ sc[b][2] = e
  OBVIOUS
<1>5. i \in {1, 2} /\ j \in {1, 2}
  <2>1. Len(sc[p]) = 2 /\ Len(sc[q]) = 2
    BY <1>3, <1>4
  <2>2. PICK k, h : k = Len(sc[p]) /\ h = Len(sc[q])
    OBVIOUS
  <2>3. i \in 1..k /\ j \in 1..h
    BY <2>2
  <2> QED
    BY <2>1, <2>2, <2>3
<1> QED
  BY <1>1, <1>3, <1>4, <1>5

\* The split of the edge from b to t by block n.
SplitOf(l, cd, sc, b, t, n, l2, cd2, sc2) ==
  /\ Whole(l, cd, sc) /\ b \in Range1(l) /\ t \in Range1(sc[b])
  /\ Len(sc[b]) > 1 /\ ManyTo(l, sc, t) /\ ~AnaF(cd[b]).fail
  /\ n \in Nat /\ n > 1 /\ n \notin Range1(l)
  /\ l2 = PutAfter(l, n, b)
  /\ DOMAIN cd2 = DOMAIN cd \cup {n} /\ DOMAIN sc2 = DOMAIN cd \cup {n}
  /\ sc2[b] = Append(RemoveFirst(sc[b], t), n)
  /\ cd2[b] = updateTerminator(ReplaceUses(cd[b], t, n), sc2[b], n)
  /\ cd2[n] = (IF Following(l2, n) = t THEN <<>> ELSE <<Jmp(t)>>) /\ sc2[n] = <<t>>
  /\ \A x \in Range1(l) \ {b} : cd2[x] = cd[x] /\ sc2[x] = sc[x]

\* What holds where an edge is split.
LEMMA SplitBasics ==
  ASSUME NEW l, NEW cd, NEW sc, NEW b, NEW t, NEW n, NEW l2, NEW cd2, NEW sc2,
         SplitOf(l, cd, sc, b, t, n, l2, cd2, sc2)
  PROVE  /\ Well(l, cd) /\ Lay(l) /\ Range1(l) \ {1} \subseteq Targets1
         /\ \A x \in Range1(l) : /\ Formed(cd[x]) /\ sc[x] \in Seq(Range1(l) \ {1})
                                 /\ Range1(sc[x]) \subseteq Range1(l) \ {1}
                                 /\ sc[x] \in Seq(Nat)
                                 /\ Covered(cd[x], Following(l, x), sc[x])
         /\ b \in Range1(l) /\ t \in Range1(l) \ {1} /\ t \in Targets1 /\ n \in Targets1 /\ t # n
         /\ n \in Nat \ {0} /\ n # Exit /\ n # 0 /\ b # n
         /\ SplitData(cd[b], sc[b], t, n, cd2[b], sc2[b])
<1>1. Whole(l, cd, sc) /\ Well(l, cd) /\ Lay(l)
  BY WholeWell DEF SplitOf, Whole
<1>2. Range1(l) \subseteq Nat \ {0} /\ 1 \in Range1(l)
  BY <1>1, LayNat
<1>3. Range1(l) \ {1} \subseteq Targets1
  BY <1>2 DEF Targets1
<1>4. \A x \in Range1(l) : /\ Formed(cd[x]) /\ sc[x] \in Seq(Range1(l) \ {1})
                           /\ Covered(cd[x], Following(l, x), sc[x])
  BY <1>1 DEF Whole
<1>5. \A x \in Range1(l) : Range1(sc[x]) \subseteq Range1(l) \ {1}
  BY <1>4, SeqRange
<1>6. \A x \in Range1(l) : sc[x] \in Seq(Nat)
  <2>1. Range1(l) \ {1} \subseteq Nat
    BY <1>2
  <2> QED
    BY <2>1, <1>4, SeqMore
<1>7. b \in Range1(l) /\ t \in Range1(l) \ {1} /\ t \in Targets1
  BY <1>3, <1>5 DEF SplitOf
<1>8. n \in Nat /\ n > 1 /\ n \notin Range1(l)
  BY DEF SplitOf
<1>9. n \in Targets1 /\ t # n /\ n \in Nat \ {0} /\ n # 0 /\ b # n
  BY <1>7, <1>8 DEF Targets1
<1>10. n # Exit
  BY <1>8 DEF Exit
<1>11. SplitData(cd[b], sc[b], t, n, cd2[b], sc2[b])
  BY <1>7, <1>9 DEF SplitData, SplitOf
<1> QED
  BY <1>1, <1>3, <1>4, <1>5, <1>6, <1>7, <1>9, <1>10, <1>11

\* updateTerminator on the block whose edge is split, for every form its
\* branch can have.
LEMMA SplitBranch ==
  ASSUME NEW l, NEW cd, NEW sc, NEW b, NEW t, NEW n, NEW l2, NEW cd2, NEW sc2,
         SplitOf(l, cd, sc, b, t, n, l2, cd2, sc2), Ready(l, cd, sc, b), NEW ft, ft = Following(l, b)
  PROVE  \/ Splits(cd[b], sc[b], ft, t, cd2[b], sc2[b], n, FALSE)
         \/ /\ Splits(cd[b], sc[b], ft, t, cd2[b], sc2[b], n, TRUE)
            /\ ft \in Range1(sc[b]) /\ Landing(l, cd, sc, b, ft, t) /\ ft # t
<1>1. PICK c : c = cd[b]
  OBVIOUS
<1>2. PICK s : s = sc[b]
  OBVIOUS
<1>3. PICK d : d = cd2[b]
  OBVIOUS
<1>4. PICK s2 : s2 = sc2[b]
  OBVIOUS
<1>5. SplitData(c, s, t, n, d, s2)
  BY <1>1, <1>2, <1>3, <1>4, SplitBasics
<1>6. /\ Range1(s) \subseteq Range1(l) \ {1} /\ Range1(l) \ {1} \subseteq Targets1
      /\ n \notin Range1(s) /\ t \in Range1(s)
  <2>1. b \in Range1(l) /\ t \in Range1(sc[b]) /\ n \notin Range1(l)
    BY DEF SplitOf
  <2>2. Range1(l) \ {1} \subseteq Targets1 /\ \A x \in Range1(l) : Range1(sc[x]) \subseteq Range1(l) \ {1}
    BY SplitBasics
  <2> QED
    BY <1>2, <2>1, <2>2
<1>7. ~Single(c, s)
  <2>1. Len(s) > 1 /\ ~AnaF(c).fail
    BY <1>1, <1>2 DEF SplitOf
  <2>2. s \in Seq(Nat)
    BY <1>2, SplitBasics
  <2> QED
    BY <2>1, <2>2 DEF Single
<1>8. CASE Plain(c, s, ft)
  <2>1. PICK m, op, r : m \in Nat /\ ((\E x, y : PlainTwo(c, s, m, op, r, x, y)) \/ \E x : PlainOne(c, s, ft, m, op, r, x))
    BY <1>8 DEF Plain
  <2>2. CASE \E x : PlainOne(c, s, ft, m, op, r, x)
    <3>1. PICK x : PlainOne(c, s, ft, m, op, r, x)
      BY <2>2
    <3>2. s = <<x, ft>> \/ s = <<ft, x>>
      BY <3>1 DEF PlainOne
    <3>3. Range1(s) = {x, ft}
      BY <3>2, EdgeMoved
    <3>4. ft \in Targets1 /\ n # ft /\ n # x /\ (t = x \/ t = ft)
      BY <1>6, <3>3
    <3>5. Splits(c, s, ft, t, d, s2, n, FALSE)
      <4>1. m \in Nat
        BY <2>1
      <4>2. CASE t = x
        BY <1>5, <3>1, <3>4, <4>1, <4>2, SplitTaken
      <4>3. CASE t = ft
        BY <1>5, <3>1, <3>4, <4>1, <4>3, SplitFallen
      <4> QED
        BY <3>4, <4>2, <4>3
    <3> QED
      BY <1>1, <1>2, <1>3, <1>4, <3>5
  <2>3. CASE \E x, y : PlainTwo(c, s, m, op, r, x, y)
    <3>1. PICK x, y : PlainTwo(c, s, m, op, r, x, y)
      BY <2>3
    <3>2. s = <<x, y>>
      BY <3>1 DEF PlainTwo
    <3>3. Range1(s) = {x, y}
      BY <3>2, EdgeMoved
    <3>4. x \in Targets1 /\ y \in Targets1 /\ n # y /\ n # x /\ (t = x \/ t = y)
      BY <1>6, <3>3
    <3>5. Splits(c, s, ft, t, d, s2, n, FALSE)
      <4>1. m \in Nat
        BY <2>1
      <4>2. CASE t = x
        BY <1>5, <3>1, <3>4, <4>1, <4>2, SplitFirst
      <4>3. CASE t # x
        <5>1. t = y
          BY <3>4, <4>3
        <5> QED
          BY <1>5, <3>1, <3>4, <4>1, <4>3, <5>1, SplitSecond
      <4> QED
        BY <4>2, <4>3
    <3> QED
      BY <1>1, <1>2, <1>3, <1>4, <3>5
  <2> QED
    BY <2>1, <2>2, <2>3
<1>9. CASE \E y : Twin(c, s, ft, y) /\ Landing(l, cd, sc, b, ft, y)
  <2>1. PICK y : Twin(c, s, ft, y) /\ Landing(l, cd, sc, b, ft, y)
    BY <1>9
  <2>2. PICK m, op, r : m \in Nat /\ TwinOne(c, s, ft, y, m, op, r)
    BY <2>1 DEF Twin
  <2>3. s = <<y, ft>> /\ y # ft
    BY <2>2 DEF TwinOne
  <2>4. Range1(s) = {y, ft}
    BY <2>3, EdgeMoved
  <2>5. n # ft /\ (t = y \/ t = ft) /\ ft \in Range1(s)
    BY <1>6, <2>4
  <2>6. t # ft
    <3>1. ~ManyTo(l, sc, ft)
      <4>1. b \in Range1(l) /\ \A p \in Range1(l) : sc[p] \in Seq(Nat)
        BY SplitBasics
      <4> QED
        BY <4>1, <1>2, <2>1, <2>3, TwinAlone
    <3> QED
      BY <3>1 DEF SplitOf
  <2>7. t = y
    BY <2>5, <2>6
  <2>8. Splits(c, s, ft, t, d, s2, n, TRUE)
    BY <1>5, <2>2, <2>5, <2>7, SplitTwin
  <2> QED
    BY <1>1, <1>2, <1>3, <1>4, <2>1, <2>5, <2>6, <2>7, <2>8
<1> QED
  BY <1>1, <1>2, <1>7, <1>8, <1>9 DEF Ready

\* The block on the edge.
LEMMA EdgeBlock ==
  ASSUME NEW t \in Targets1, NEW f, NEW c, c = IF f = t THEN <<>> ELSE <<Jmp(t)>>, NEW s, s = <<t>>
  PROVE  /\ Form(c, 0) /\ (\A nu : Leads(c, nu, f) = t) /\ Covered(c, f, s)
         /\ (\A S : RegsIn(c, S)) /\ ~Halts(c) /\ c \in {<<>>, <<Jmp(t)>>}
         /\ Range1(s) = {t} /\ Len(s) = 1
<1>1. Range1(s) = {t} /\ Len(s) = 1
  BY DEF Range1
<1>2. CASE f = t
  <2>1. c = <<>>
    BY <1>2
  <2>2. /\ Form(c, 0) /\ ~Halts(c) /\ (\A x : ~LeadsTo(c, x)) /\ (\A nu, ft : Leads(c, nu, ft) = ft)
        /\ \A S : RegsIn(c, S)
    BY <2>1, EmptyForm DEF IsFall
  <2> QED
    BY <1>1, <1>2, <2>1, <2>2 DEF Covered
<1>3. CASE f # t
  <2>1. c = <<Jmp(t)>>
    BY <1>3
  <2>2. IsJump(c, 0, t)
    BY <2>1, JumpAlone
  <2>3. JumpProfile(c, 0, t)
    BY <2>2, JumpFacts
  <2>4. Form(c, 0)
    BY <2>2 DEF IsJump
  <2>5. /\ ~Halts(c) /\ ~Falls(c) /\ (\A x : LeadsTo(c, x) <=> x = t) /\ (\A nu, ft : Leads(c, nu, ft) = t)
        /\ \A S : RegsIn(c, S)
    BY <2>3 DEF JumpProfile
  <2> QED
    BY <1>1, <2>1, <2>4, <2>5 DEF Covered
<1> QED
  BY <1>2, <1>3

\* The new block follows the one whose edge is split.
SplitLayout(l, b, n, l2, ft) ==
  /\ Lay(l2) /\ Range1(l2) = Range1(l) \cup {n}
  /\ Following(l2, n) = ft /\ Following(l2, b) = n
  /\ \A x \in Range1(l) \ {b} : Following(l2, x) = Following(l, x)
\* The layout with the new block after the one whose edge is split.
LEMMA SplitLaid ==
  ASSUME NEW l, NEW cd, NEW sc, NEW b, NEW t, NEW n, NEW l2, NEW cd2, NEW sc2,
         SplitOf(l, cd, sc, b, t, n, l2, cd2, sc2), NEW ft, ft = Following(l, b)
  PROVE  SplitLayout(l, b, n, l2, ft)
<1>1. Lay(l) /\ b \in Range1(l) /\ n \in Nat \ {0} /\ n \notin Range1(l) /\ l2 = PutAfter(l, n, b)
  <2>1. n \notin Range1(l) /\ l2 = PutAfter(l, n, b) /\ b \in Range1(l)
    BY DEF SplitOf
  <2>2. Lay(l) /\ n \in Nat \ {0}
    BY SplitBasics
  <2> QED
    BY <2>1, <2>2
<1> QED
  BY <1>1, PutAfterFacts DEF SplitLayout

\* A block that has been put on an edge goes to its end.
LEMMA LandingGoes ==
  ASSUME NEW l, NEW cd, NEW sc, Whole(l, cd, sc), NEW b, NEW e \in Range1(l), NEW y \in Targets1, Landing(l, cd, sc, b, e, y), NEW nu
  PROVE  e \in Passed(l, cd) /\ Goes(l, cd, nu, e) = y
<1>1. sc[e] = <<y>> /\ cd[e] \in {<<>>, <<Jmp(y)>>}
  BY DEF Landing
<1>2. Covered(cd[e], Following(l, e), sc[e])
  BY DEF Whole
<1>3. Range1(sc[e]) = {y}
  BY <1>1 DEF Range1
<1>4. CASE cd[e] = <<>>
  <2>1. Form(cd[e], 0) /\ Falls(cd[e]) /\ \A ft : Leads(cd[e], nu, ft) = ft
    BY <1>4, EmptyForm DEF IsFall
  <2>2. Following(l, e) = y
    BY <1>2, <1>3, <2>1 DEF Covered
  <2>3. e \in Passed(l, cd)
    BY <2>1, InPassed
  <2> QED
    BY <2>1, <2>2, <2>3 DEF Goes
<1>5. CASE cd[e] = <<Jmp(y)>>
  <2>1. PICK c : c = cd[e]
    OBVIOUS
  <2>2. IsJump(c, 0, y)
    BY <1>5, <2>1, JumpAlone
  <2>3. JumpProfile(c, 0, y) /\ Form(c, 0)
    BY <2>2, JumpFacts DEF IsJump
  <2>4. \A ft : Leads(c, nu, ft) = y
    BY <2>3 DEF JumpProfile
  <2>5. e \in Passed(l, cd)
    BY <2>1, <2>3, InPassed
  <2> QED
    BY <2>1, <2>4, <2>5 DEF Goes
<1> QED
  BY <1>1, <1>4, <1>5

\* The other blocks are as ready as before.
LEMMA SplitOthers ==
  ASSUME NEW l, NEW cd, NEW sc, NEW b, NEW t, NEW n, NEW l2, NEW cd2, NEW sc2,
         SplitOf(l, cd, sc, b, t, n, l2, cd2, sc2), Range1(sc2[b]) \subseteq Range1(sc[b]) \cup {n},
         NEW x \in Range1(l) \ {b}, Ready(l, cd, sc, x)
  PROVE  Ready(l2, cd2, sc2, x)
<1>1. cd2[x] = cd[x] /\ sc2[x] = sc[x] /\ sc2[n] = <<t>> /\ n \notin Range1(l) /\ ManyTo(l, sc, t)
      /\ \A z \in Range1(l) \ {b} : cd2[z] = cd[z] /\ sc2[z] = sc[z]
  BY DEF SplitOf
<1>2. SplitLayout(l, b, n, l2, Following(l, b))
  BY SplitLaid
<1>3. Following(l2, x) = Following(l, x) /\ Range1(l2) = Range1(l) \cup {n}
  BY <1>2 DEF SplitLayout
<1>4. CASE Single(cd[x], sc[x])
  BY <1>1, <1>4 DEF Ready
<1>5. CASE Plain(cd[x], sc[x], Following(l, x))
  BY <1>1, <1>3, <1>5 DEF Ready
<1>6. CASE \E y : Twin(cd[x], sc[x], Following(l, x), y) /\ Landing(l, cd, sc, x, Following(l, x), y)
  <2>1. PICK e : e = Following(l, x)
    OBVIOUS
  <2>2. PICK y : Twin(cd[x], sc[x], e, y) /\ Landing(l, cd, sc, x, e, y)
    BY <1>6, <2>1
  <2>3. sc[x] = <<y, e>> /\ y # e
    BY <2>2 DEF Twin, TwinOne
  <2>4. Range1(sc[x]) = {y, e}
    BY <2>3, EdgeMoved
  <2>5. e \in Range1(l) /\ b \in Range1(l)
    <3>1. Range1(sc[x]) \subseteq Range1(l) \ {1} /\ b \in Range1(l)
      BY SplitBasics
    <3> QED
      BY <2>4, <3>1
  <2>6. e # t
    <3>1. \A p \in Range1(l) : sc[p] \in Seq(Nat)
      BY SplitBasics
    <3>2. ~ManyTo(l, sc, e)
      BY <2>2, <2>3, <3>1, TwinAlone
    <3> QED
      BY <1>1, <3>2
  <2>7. e # b
    <3>1. sc[e] = <<y>>
      BY <2>2 DEF Landing
    <3>2. Len(sc[e]) = 1
      BY <3>1
    <3>3. Len(sc[b]) > 1 /\ Len(sc[b]) \in Nat
      <4>1. sc[b] \in Seq(Nat)
        BY <2>5, SplitBasics
      <4> QED
        BY <4>1 DEF SplitOf
    <3>4. Len(sc[b]) # 1
      <4>1. \A k \in Nat : k > 1 => k # 1
        OBVIOUS
      <4> QED
        BY <3>3, <4>1
    <3> QED
      BY <3>2, <3>4
  <2>8. cd2[e] = cd[e] /\ sc2[e] = sc[e]
    BY <1>1, <2>5, <2>7
  <2>9. ASSUME NEW p \in Range1(l2) \ {x} PROVE e \notin Range1(sc2[p])
    <3>1. CASE p = n
      <4>1. Range1(sc2[p]) = {t}
        BY <1>1, <3>1 DEF Range1
      <4> QED
        BY <4>1, <2>6
    <3>2. CASE p = b
      <4>1. e \notin Range1(sc[b])
        BY <2>2, <2>5 DEF Landing
      <4>2. e # n
        BY <1>1, <2>5
      <4> QED
        BY <3>2, <4>1, <4>2
    <3>3. CASE p \in Range1(l) \ {b}
      <4>1. sc2[p] = sc[p]
        BY <1>1, <3>3
      <4> QED
        BY <3>3, <4>1, <2>2, <2>9 DEF Landing
    <3> QED
      BY <1>3, <3>1, <3>2, <3>3
  <2>10. Landing(l2, cd2, sc2, x, e, y)
    <3>1. sc2[e] = <<y>> /\ cd2[e] \in {<<>>, <<Jmp(y)>>}
      BY <2>2, <2>8 DEF Landing
    <3> QED
      BY <3>1, <2>9 DEF Landing
  <2>11. Twin(cd2[x], sc2[x], Following(l2, x), y) /\ Landing(l2, cd2, sc2, x, Following(l2, x), y)
    BY <1>1, <1>3, <2>1, <2>2, <2>10
  <2> QED
    BY <2>11 DEF Ready
<1> QED
  BY <1>4, <1>5, <1>6 DEF Ready

\* The block whose edge was split is ready for the next split.
LEMMA SplitItself ==
  ASSUME NEW l, NEW cd, NEW sc, NEW b, NEW t, NEW n, NEW l2, NEW cd2, NEW sc2,
         SplitOf(l, cd, sc, b, t, n, l2, cd2, sc2), NEW ft, NEW twin,
         Splits(cd[b], sc[b], ft, t, cd2[b], sc2[b], n, twin)
  PROVE  Ready(l2, cd2, sc2, b)
<1>1. SplitLayout(l, b, n, l2, Following(l, b))
  BY SplitLaid
<1>2. Following(l2, b) = n /\ Range1(l2) = Range1(l) \cup {n}
  BY <1>1 DEF SplitLayout
<1>3. CASE Plain(cd2[b], sc2[b], n)
  BY <1>2, <1>3 DEF Ready
<1>4. CASE Twin(cd2[b], sc2[b], n, t)
  <2>1. ASSUME NEW p \in Range1(l2) \ {b} PROVE n \notin Range1(sc2[p])
    <3>1. CASE p = n
      <4>1. sc2[p] = <<t>> /\ t # n
        <5>1. sc2[n] = <<t>>
          BY DEF SplitOf
        <5> QED
          BY <3>1, <5>1, SplitBasics, ZenonT(60)
      <4>2. Range1(sc2[p]) = {t}
        BY <4>1 DEF Range1
      <4> QED
        BY <4>1, <4>2
    <3>2. CASE p \in Range1(l) \ {b}
      <4>1. sc2[p] = sc[p] /\ n \notin Range1(l)
        BY <3>2 DEF SplitOf
      <4>2. Range1(sc[p]) \subseteq Range1(l) \ {1}
        BY <3>2, SplitBasics
      <4> QED
        BY <4>1, <4>2
    <3> QED
      BY <1>2, <2>1, <3>1, <3>2
  <2>2. sc2[n] = <<t>> /\ cd2[n] \in {<<>>, <<Jmp(t)>>}
    BY DEF SplitOf
  <2>3. Landing(l2, cd2, sc2, b, n, t)
    BY <2>1, <2>2 DEF Landing
  <2> QED
    BY <1>2, <1>4, <2>3 DEF Ready
<1> QED
  BY <1>3, <1>4 DEF Splits

\* After a split every block is ready for the next.
LEMMA SplitDone ==
  ASSUME NEW l, NEW cd, NEW sc, NEW b, NEW t, NEW n, NEW l2, NEW cd2, NEW sc2,
         SplitOf(l, cd, sc, b, t, n, l2, cd2, sc2), \A x \in Range1(l) : Ready(l, cd, sc, x)
  PROVE  \A x \in Range1(l2) : Ready(l2, cd2, sc2, x)
<1>1. PICK ft : ft = Following(l, b)
  OBVIOUS
<1>2. b \in Range1(l) /\ Ready(l, cd, sc, b)
  BY SplitBasics
<1>3. PICK twin \in BOOLEAN : Splits(cd[b], sc[b], ft, t, cd2[b], sc2[b], n, twin)
  BY <1>1, <1>2, SplitBranch
<1>4. Ready(l2, cd2, sc2, b)
  BY <1>3, SplitItself
<1>5. Range1(sc2[b]) \subseteq Range1(sc[b]) \cup {n}
  BY <1>3 DEF Splits
<1>6. ASSUME NEW x \in Range1(l) \ {b} PROVE Ready(l2, cd2, sc2, x)
  <2>1. Ready(l, cd, sc, x)
    BY <1>6
  <2> QED
    BY <1>5, <2>1, SplitOthers
<1>7. Ready(l2, cd2, sc2, n)
  <2>1. sc2[n] = <<t>>
    BY DEF SplitOf
  <2>2. Len(sc2[n]) <= 1
    BY <2>1
  <2> QED
    BY <2>2 DEF Ready, Single
<1>8. Range1(l2) = Range1(l) \cup {n}
  BY SplitLaid DEF SplitLayout
<1> QED
  BY <1>4, <1>6, <1>7, <1>8

\* The new block.
OnEdge(l2, cd2, sc2, t, n) ==
  /\ Formed(cd2[n]) /\ n \in Passed(l2, cd2) /\ \A nu : Goes(l2, cd2, nu, n) = t
  /\ \A S : RegsIn(cd2[n], S)
  /\ Covered(cd2[n], Following(l2, n), sc2[n]) /\ sc2[n] \in Seq(Range1(l2) \ {1})
\* The new block on the edge leads to the old destination.
LEMMA SplitNew ==
  ASSUME NEW l, NEW cd, NEW sc, NEW b, NEW t, NEW n, NEW l2, NEW cd2, NEW sc2,
         SplitOf(l, cd, sc, b, t, n, l2, cd2, sc2)
  PROVE  OnEdge(l2, cd2, sc2, t, n)
<1>1. t \in Targets1 /\ t \in Range1(l) \ {1}
  BY SplitBasics
<1>2. PICK c : c = cd2[n]
  OBVIOUS
<1>3. PICK s : s = sc2[n]
  OBVIOUS
<1>4. PICK f : f = Following(l2, n)
  OBVIOUS
<1>5. c = (IF f = t THEN <<>> ELSE <<Jmp(t)>>) /\ s = <<t>>
  BY <1>2, <1>3, <1>4 DEF SplitOf
<1>6. Form(c, 0) /\ (\A nu : Leads(c, nu, f) = t) /\ Covered(c, f, s) /\ \A S : RegsIn(c, S)
  BY <1>1, <1>5, EdgeBlock, ZenonT(60)
<1>7. Range1(l2) = Range1(l) \cup {n}
  BY SplitLaid DEF SplitLayout
<1>8. n \in Passed(l2, cd2)
  BY <1>2, <1>6, <1>7, InPassed
<1>9. s \in Seq(Range1(l2) \ {1})
  BY <1>1, <1>5, <1>7
<1> QED
  BY <1>2, <1>3, <1>4, <1>6, <1>8, <1>9 DEF Formed, Goes, OnEdge

\* A block that is not split off from.
OffEdge(l, cd, l2, cd2, sc2, x) ==
  /\ Keeps(cd, cd2, x) /\ cd2[x] = cd[x]
  /\ Covered(cd2[x], Following(l2, x), sc2[x]) /\ sc2[x] \in Seq(Range1(l2) \ {1})
  /\ \A nu : Goes(l2, cd2, nu, x) = Goes(l, cd, nu, x)
\* The blocks whose edges are not split.
LEMMA SplitKept ==
  ASSUME NEW l, NEW cd, NEW sc, NEW b, NEW t, NEW n, NEW l2, NEW cd2, NEW sc2,
         SplitOf(l, cd, sc, b, t, n, l2, cd2, sc2), NEW x \in Range1(l) \ {b}
  PROVE  OffEdge(l, cd, l2, cd2, sc2, x)
<1>1. cd2[x] = cd[x] /\ sc2[x] = sc[x]
  BY DEF SplitOf
<1>2. Following(l2, x) = Following(l, x) /\ Range1(l2) = Range1(l) \cup {n}
  BY SplitLaid DEF SplitLayout
<1>3. Formed(cd[x]) /\ Covered(cd[x], Following(l, x), sc[x]) /\ sc[x] \in Seq(Range1(l) \ {1})
  BY SplitBasics
<1>4. sc[x] \in Seq(Range1(l2) \ {1})
  <2>1. Range1(l) \ {1} \subseteq Range1(l2) \ {1}
    BY <1>2
  <2> QED
    BY <2>1, <1>3, SeqMore
<1>5. Keeps(cd, cd2, x)
  BY <1>1, <1>3 DEF Keeps, Like, Formed
<1> QED
  BY <1>1, <1>2, <1>3, <1>4, <1>5 DEF Goes, OffEdge

\* The block whose edge is split.
AtEdge(l, cd, l2, cd2, sc2, b, t, n) ==
  /\ Keeps(cd, cd2, b) /\ \A S : RegsIn(cd[b], S) => RegsIn(cd2[b], S)
  /\ Covered(cd2[b], Following(l2, b), sc2[b]) /\ sc2[b] \in Seq(Range1(l2) \ {1})
  /\ \A S : RegsIn(cd[b], S) => \A nu \in [S -> Outcomes] :
       \/ Goes(l2, cd2, nu, b) = Goes(l, cd, nu, b)
       \/ /\ Goes(l2, cd2, nu, b) = n
          /\ \/ Goes(l, cd, nu, b) = t
             \/ \E e \in Passed(l, cd) :
                  Goes(l, cd, nu, b) = e /\ Goes(l, cd, nu, e) = t /\ Goes(l2, cd2, nu, e) = t
\* The block whose edge is split leads where it led, by way of the new block.
LEMMA SplitSelf ==
  ASSUME NEW l, NEW cd, NEW sc, NEW b, NEW t, NEW n, NEW l2, NEW cd2, NEW sc2,
         SplitOf(l, cd, sc, b, t, n, l2, cd2, sc2), Ready(l, cd, sc, b)
  PROVE  AtEdge(l, cd, l2, cd2, sc2, b, t, n)
<1>1. PICK ft : ft = Following(l, b)
  OBVIOUS
<1>2. PICK twin \in BOOLEAN :
        /\ Splits(cd[b], sc[b], ft, t, cd2[b], sc2[b], n, twin)
        /\ twin => ft \in Range1(sc[b]) /\ Landing(l, cd, sc, b, ft, t) /\ ft # t
  BY <1>1, SplitBranch
<1>3. Following(l2, b) = n /\ Range1(l2) = Range1(l) \cup {n}
  BY SplitLaid DEF SplitLayout
<1>4. Keeps(cd, cd2, b) /\ (\A S : RegsIn(cd[b], S) => RegsIn(cd2[b], S)) /\ Covered(cd2[b], n, sc2[b])
  BY <1>2 DEF Splits, Keeps
<1>5. sc2[b] \in Seq(Range1(l2) \ {1})
  <2>1. sc[b] \in Seq(Range1(l) \ {1}) /\ n \in Targets1
    BY SplitBasics
  <2>2. sc2[b] \in Seq((Range1(l) \ {1}) \cup {n})
    BY <2>1, <1>2 DEF Splits
  <2>3. (Range1(l) \ {1}) \cup {n} \subseteq Range1(l2) \ {1}
    BY <1>3, <2>1 DEF Targets1
  <2> QED
    BY <2>2, <2>3, SeqMore
<1>6. ASSUME NEW S, RegsIn(cd[b], S), NEW nu \in [S -> Outcomes],
             Goes(l2, cd2, nu, b) # Goes(l, cd, nu, b)
      PROVE  /\ Goes(l2, cd2, nu, b) = n
             /\ \/ Goes(l, cd, nu, b) = t
                \/ \E e \in Passed(l, cd) :
                     Goes(l, cd, nu, b) = e /\ Goes(l, cd, nu, e) = t /\ Goes(l2, cd2, nu, e) = t
  <2>1. Goes(l2, cd2, nu, b) = Leads(cd2[b], nu, n) /\ Goes(l, cd, nu, b) = Leads(cd[b], nu, ft)
    BY <1>1, <1>3 DEF Goes
  <2>2. SplitLeads(cd[b], ft, t, cd2[b], n, twin)
    BY <1>2 DEF Splits
  <2>3. Goes(l2, cd2, nu, b) = n /\ (Goes(l, cd, nu, b) = t \/ (twin /\ Goes(l, cd, nu, b) = ft))
    BY <1>6, <2>1, <2>2 DEF SplitLeads
  <2>4. ASSUME twin PROVE ft \in Passed(l, cd) /\ Goes(l, cd, nu, ft) = t /\ Goes(l2, cd2, nu, ft) = t
    <3>1. ft \in Range1(l) /\ ft # b
      <4>1. Range1(sc[b]) \subseteq Range1(l) \ {1} /\ Lay(l) /\ b \in Range1(l)
        BY SplitBasics
      <4>2. ft \in Range1(l) \ {1}
        BY <1>2, <2>4, <4>1
      <4>3. ft # 0
        BY <4>1, <4>2, LayNat
      <4> QED
        BY <1>1, <4>1, <4>2, <4>3, FollowingFacts
    <3>2. ft \in Passed(l, cd) /\ Goes(l, cd, nu, ft) = t
      <4>1. t \in Targets1
        BY SplitBasics
      <4>2. Whole(l, cd, sc)
        BY DEF SplitOf
      <4> QED
        BY <4>1, <4>2, <3>1, <1>2, <2>4, LandingGoes
    <3>3. Goes(l2, cd2, nu, ft) = Goes(l, cd, nu, ft)
      <4>1. OffEdge(l, cd, l2, cd2, sc2, ft)
        BY <3>1, SplitKept
      <4> QED
        BY <4>1 DEF OffEdge
    <3> QED
      BY <3>2, <3>3
  <2> QED
    BY <2>3, <2>4
<1> QED
  BY <1>3, <1>4, <1>5, <1>6 DEF AtEdge

\* Splitting a critical edge keeps the edges covering the code and preserves
\* the flow.
LEMMA SplitStep ==
  ASSUME NEW l, NEW cd, NEW sc, NEW b, NEW t, NEW n, NEW l2, NEW cd2, NEW sc2,
         SplitOf(l, cd, sc, b, t, n, l2, cd2, sc2), Ready(l, cd, sc, b)
  PROVE  Whole(l2, cd2, sc2) /\ Evolves(l, cd, l2, cd2)
<1>s. OnEdge(l2, cd2, sc2, t, n) /\ AtEdge(l, cd, l2, cd2, sc2, b, t, n)
      /\ \A x \in Range1(l) \ {b} : OffEdge(l, cd, l2, cd2, sc2, x)
  BY SplitNew, SplitSelf, SplitKept
<1>1. Lay(l2) /\ Range1(l2) = Range1(l) \cup {n}
  BY SplitLaid DEF SplitLayout
<1>2. ASSUME NEW x \in Range1(l2)
      PROVE  /\ Formed(cd2[x]) /\ Covered(cd2[x], Following(l2, x), sc2[x]) /\ sc2[x] \in Seq(Range1(l2) \ {1})
             /\ \A S : (x = n \/ RegsIn(cd[x], S)) => RegsIn(cd2[x], S)
  <2>1. CASE x = n
    <3>1. /\ Formed(cd2[n]) /\ Covered(cd2[n], Following(l2, n), sc2[n]) /\ sc2[n] \in Seq(Range1(l2) \ {1})
          /\ \A S : RegsIn(cd2[n], S)
      BY <1>s DEF OnEdge
    <3> QED
      BY <2>1, <3>1
  <2>2. CASE x = b
    <3>1. /\ Keeps(cd, cd2, b) /\ Covered(cd2[b], Following(l2, b), sc2[b]) /\ sc2[b] \in Seq(Range1(l2) \ {1})
          /\ \A S : RegsIn(cd[b], S) => RegsIn(cd2[b], S)
      BY <1>s DEF AtEdge
    <3>2. Formed(cd2[b])
      BY <3>1 DEF Keeps, Like, Formed
    <3>3. b # n
      BY SplitBasics
    <3> QED
      BY <2>2, <3>1, <3>2, <3>3
  <2>3. CASE x \in Range1(l) \ {b}
    <3>1. /\ Keeps(cd, cd2, x) /\ Covered(cd2[x], Following(l2, x), sc2[x]) /\ sc2[x] \in Seq(Range1(l2) \ {1})
          /\ cd2[x] = cd[x]
      BY <1>s, <2>3 DEF OffEdge
    <3>2. Formed(cd2[x])
      BY <3>1 DEF Keeps, Like, Formed
    <3>3. x # n
      BY <2>3 DEF SplitOf
    <3> QED
      BY <3>1, <3>2, <3>3
  <2> QED
    BY <1>1, <1>2, <2>1, <2>2, <2>3
<1>3. Inside(l2, cd2)
  <2>1. ASSUME NEW x \in Range1(l2), NEW u, LeadsTo(cd2[x], u) PROVE u \in Range1(l2)
    <3>1. u \in Range1(sc2[x])
      BY <1>2, <2>1 DEF Covered
    <3> QED
      BY <3>1, <1>2, SeqRange
  <2> QED
    BY <2>1 DEF Inside
<1>4. ASSUME NEW S, \A x \in Range1(l) : RegsIn(cd[x], S)
      PROVE  Well(l2, cd2) /\ SameFlow(l, cd, l2, cd2, S) /\ \A x \in Range1(l2) : RegsIn(cd2[x], S)
  <2>1. \A x \in Range1(l2) : RegsIn(cd2[x], S)
    <3>1. \A x \in Range1(l2) : x = n \/ RegsIn(cd[x], S)
      BY <1>1, <1>4
    <3> QED
      BY <1>2, <3>1
  <2>2. Well(l, cd) /\ n \notin Range1(l) /\ t \in Range1(l) /\ b \in Range1(l)
    <3>1. n \notin Range1(l)
      BY DEF SplitOf
    <3> QED
      BY <3>1, SplitBasics
  <2>3. \A x \in Range1(l) : Keeps(cd, cd2, x)
    BY <1>s DEF AtEdge, OffEdge
  <2>4. Formed(cd2[n]) /\ n \in Passed(l2, cd2)
    BY <1>s DEF OnEdge
  <2>5. ASSUME NEW nu \in [S -> Outcomes]
        PROVE  /\ Goes(l2, cd2, nu, n) = t
               /\ \A x \in Range1(l) : ~Halts(cd[x]) =>
                    \/ Goes(l2, cd2, nu, x) = Goes(l, cd, nu, x)
                    \/ /\ Goes(l2, cd2, nu, x) = n
                       /\ \/ Goes(l, cd, nu, x) = t
                          \/ \E e \in Passed(l, cd) :
                               /\ Goes(l, cd, nu, x) = e
                               /\ Goes(l, cd, nu, e) = t /\ Goes(l2, cd2, nu, e) = t
    <3>1. Goes(l2, cd2, nu, n) = t
      BY <1>s DEF OnEdge
    <3>2. \A x \in Range1(l) \ {b} : Goes(l2, cd2, nu, x) = Goes(l, cd, nu, x)
      BY <1>s DEF OffEdge
    <3>3. RegsIn(cd[b], S)
      BY <1>4, <2>2
    <3>4. \/ Goes(l2, cd2, nu, b) = Goes(l, cd, nu, b)
          \/ /\ Goes(l2, cd2, nu, b) = n
             /\ \/ Goes(l, cd, nu, b) = t
                \/ \E e \in Passed(l, cd) :
                     Goes(l, cd, nu, b) = e /\ Goes(l, cd, nu, e) = t /\ Goes(l2, cd2, nu, e) = t
      BY <1>s, <3>3 DEF AtEdge
    <3> QED
      BY <3>1, <3>2, <3>4
  <2>6. Well(l2, cd2) /\ SameFlow(l, cd, l2, cd2, S)
    BY <1>1, <1>3, <2>2, <2>3, <2>4, <2>5, FlowSplit
  <2> QED
    BY <2>1, <2>6
<1>5. Evolves(l, cd, l2, cd2)
  <2>1. Well(l, cd)
    BY SplitBasics
  <2> QED
    BY <1>4, <2>1, EvolvesBy
<1>6. OwnWork(l2, cd2)
  BY <1>5 DEF Evolves, Well
<1>7. DOMAIN sc2 = DOMAIN cd2 /\ Range1(l2) \subseteq DOMAIN cd2
  <2>1. Range1(l) \subseteq DOMAIN cd /\ DOMAIN cd2 = DOMAIN cd \cup {n} /\ DOMAIN sc2 = DOMAIN cd \cup {n}
    BY DEF SplitOf, Whole
  <2> QED
    BY <1>1, <2>1
<1> QED
  BY <1>1, <1>2, <1>5, <1>6, <1>7 DEF Whole

(* Selected code. *)
GoodTerm(x) ==
  /\ x \in Instrs /\ x.op \in Terminators
  /\ x.op \in Analyzable => Len(x.to) = 1 /\ x.to[1] > 1
  /\ x.op \in CondBranches \cup {"JMPR"} => x.reg \in 1..NumBlocks
  /\ x.op = "JMPR" => Len(x.to) = 2 /\ x.to[1] > 1 /\ x.to[2] > 1

\* A block that does no work but its own.
OwnWorkOnly(c, m, b) ==
  /\ m \in {0, 1} /\ c \in Seq(Instrs) /\ m <= Len(c)
  /\ m = 1 => IsWork(c[1]) /\ c[1].reg = b /\ (c[1].op = "HALT" => Len(c) = 1)

\* A selected block is well formed when its terminators are.
LEMMA FormEnd ==
  ASSUME NEW b \in 1..NumBlocks, NEW m, NEW c, OwnWorkOnly(c, m, b), NEW k \in {0, 1, 2}, Len(c) = m + k,
         k > 0 => GoodTerm(c[m + 1]),
         k = 2 => GoodTerm(c[m + 2]) /\ c[m + 1].op \in Analyzable /\ c[m + 2].op = "JMP"
  PROVE  Form(c, m)
<1>1. m \in {0, 1} /\ m \in Nat /\ c \in Seq(Instrs) /\ Len(c) \in Nat
  BY DEF OwnWorkOnly
<1>2. m \in 0..Len(c) /\ Len(c) <= m + 2
  BY <1>1
<1>3. ASSUME NEW i \in 1..m PROVE IsWork(c[i]) /\ (c[i].op = "HALT" => i = Len(c)) /\ c[i].reg \in 1..NumBlocks
  <2>1. i = 1 /\ m = 1
    BY <1>1
  <2> QED
    BY <2>1 DEF OwnWorkOnly
<1>4. ASSUME NEW i \in (m + 1)..Len(c) PROVE GoodTerm(c[i])
  <2>1. (i = m + 1 /\ k > 0) \/ (i = m + 2 /\ k = 2)
    BY <1>1
  <2> QED
    BY <2>1
<1>5. Len(c) = m + 2 => c[m + 1].op \in Analyzable /\ c[m + 2].op = "JMP"
  BY <1>1
<1> QED
  BY <1>1, <1>2, <1>3, <1>4, <1>5 DEF Form, GoodTerm

\* The branches that instruction selection emits are good terminators.
LEMMA BranchTerm ==
  ASSUME NEW op \in CondBranches \cup {"JMP"}, NEW t \in Targets1, NEW r \in Nat, op # "JMP" => r \in 1..NumBlocks,
         NEW x, x = Instr(op, <<t>>, r)
  PROVE  GoodTerm(x) /\ x.op = op /\ x.reg = r /\ x.to[1] = t /\ x.op \in Analyzable
<1>1. x.op = op /\ x.reg = r /\ x.to = <<t>>
  BY DEF Instr
<1>2. Len(x.to) = 1 /\ x.to[1] = t /\ t \in Nat /\ t > 1 /\ x.to \in Seq(Nat)
  <2>1. t \in Nat /\ t > 1
    BY DEF Targets1
  <2>2. PICK v : v = <<t>>
    OBVIOUS
  <2>3. v \in Seq(Nat) /\ Len(v) = 1 /\ v[1] = t
    BY <2>1, <2>2
  <2> QED
    BY <1>1, <2>1, <2>2, <2>3
<1>3. op \in Analyzable /\ op \in Terminators /\ op # "JMPR"
  BY DEF Analyzable, Terminators, CondBranches
<1>4. op \in Terminators \cup {"WORK", "HALT"}
  BY <1>3
<1>5. x \in Instrs
  BY <1>1, <1>2, <1>4 DEF Instrs, Instr
<1>6. op \in CondBranches \cup {"JMPR"} => x.reg \in 1..NumBlocks
  BY <1>1, <1>3 DEF CondBranches
<1> QED
  BY <1>1, <1>2, <1>3, <1>5, <1>6 DEF GoodTerm

\* The conditional branch that a block may be selected to.
LEMMA CondOpIs ==
  ASSUME NEW b \in DOMAIN CondOp
  PROVE  CondOp[b] \in CondBranches /\ b \in 1..NumBlocks
BY BlockAssumption DEF CondBranches

\* The destinations that a selected branch may have.
LEMMA TargetsIs ==
  ASSUME NEW b \in 1..NumBlocks
  PROVE  /\ \A t \in Targets(b) : t \in Targets1 /\ t \in 2..NumBlocks /\ t # After(b)
         /\ After(b) # 0 => After(b) = b + 1 /\ After(b) \in 2..NumBlocks /\ After(b) \in Targets1
BY BlockAssumption DEF Targets, Targets1, After

\* The endings of a block, by their elements.
EndsNone(e, b) == Len(e) = 0 /\ After(b) # 0
EndsCond(e, b, t) == Len(e) = 1 /\ After(b) # 0 /\ e[1] = Instr(CondOp[b], <<t>>, b)
EndsJump(e, b, t) == Len(e) = 1 /\ e[1] = Jmp(t)
EndsCond2(e, b, t, u) == Len(e) = 2 /\ e[1] = Instr(CondOp[b], <<t>>, b) /\ e[2] = Jmp(u)
\* The ends that visitSwitchCase and its callers give a block.
LEMMA EndingCases ==
  ASSUME NEW b \in 1..NumBlocks, NEW e \in Endings(b)
  PROVE  /\ e \in Seq(Instrs)
         /\ \/ EndsNone(e, b)
            \/ b \in DOMAIN CondOp /\ \E t \in Targets(b) : EndsCond(e, b, t)
            \/ \E t \in Targets(b) : EndsJump(e, b, t)
            \/ b \in DOMAIN CondOp /\ \E t, u \in Targets(b) : EndsCond2(e, b, t, u)
<1>1. \A t \in Targets(b) : Jmp(t) \in Instrs
  BY TargetsIs, JmpIs
<1>2. b \in DOMAIN CondOp => \A t \in Targets(b) : Instr(CondOp[b], <<t>>, b) \in Instrs
  BY TargetsIs, CondOpIs, BranchTerm DEF GoodTerm
<1>3. CASE e = <<>> /\ After(b) # 0
  BY <1>3 DEF EndsNone
<1>4. CASE b \in DOMAIN CondOp /\ After(b) # 0 /\ \E t \in Targets(b) : e = <<Instr(CondOp[b], <<t>>, b)>>
  BY <1>2, <1>4 DEF EndsCond
<1>5. CASE \E t \in Targets(b) : e = <<Jmp(t)>>
  BY <1>1, <1>5 DEF EndsJump
<1>6. CASE b \in DOMAIN CondOp /\ \E t, u \in Targets(b) : e = <<Instr(CondOp[b], <<t>>, b)>> \o <<Jmp(u)>>
  <2>1. PICK t \in Targets(b), u \in Targets(b) : e = <<Instr(CondOp[b], <<t>>, b)>> \o <<Jmp(u)>>
    BY <1>6
  <2>2. PICK x : x = Instr(CondOp[b], <<t>>, b)
    OBVIOUS
  <2>3. PICK w : w = <<x>>
    OBVIOUS
  <2>4. x \in Instrs /\ Jmp(u) \in Instrs
    BY <1>1, <1>2, <1>6, <2>2
  <2>5. w \in Seq(Instrs) /\ Len(w) = 1 /\ w[1] = x
    BY <2>3, <2>4
  <2>6. e = w \o <<Jmp(u)>>
    BY <2>1, <2>2, <2>3
  <2>7. e \in Seq(Instrs) /\ Len(e) = 2 /\ e[1] = x /\ e[2] = Jmp(u)
    <3>1. w \in Seq(Instrs)
      BY <2>5
    <3>2. /\ w \o <<Jmp(u)>> \in Seq(Instrs) /\ Len(w \o <<Jmp(u)>>) = Len(w) + 1
          /\ \A i \in 1..Len(w) : (w \o <<Jmp(u)>>)[i] = w[i]
          /\ (w \o <<Jmp(u)>>)[Len(w) + 1] = Jmp(u)
      BY <3>1, <2>4, Appended
    <3> QED
      BY <2>5, <2>6, <3>2
  <2>8. EndsCond2(e, b, t, u)
    BY <2>2, <2>7 DEF EndsCond2
  <2> QED
    BY <1>6, <2>7, <2>8
<1>7. \/ e = <<>> /\ After(b) # 0
      \/ b \in DOMAIN CondOp /\ After(b) # 0 /\ \E t \in Targets(b) : e = <<Instr(CondOp[b], <<t>>, b)>>
      \/ \E t \in Targets(b) : e = <<Jmp(t)>>
      \/ b \in DOMAIN CondOp /\ \E t, u \in Targets(b) : e = <<Instr(CondOp[b], <<t>>, b)>> \o <<Jmp(u)>>
  <2>2. \A x \in Taking(b) : b \in DOMAIN CondOp /\ \E t \in Targets(b) : x = <<Instr(CondOp[b], <<t>>, b)>>
    BY DEF Taking
  <2>3. \A j \in Jumping(b) : \E t \in Targets(b) : j = <<Jmp(t)>>
    BY DEF Jumping
  <2>4. CASE e \in Falling(b)
    BY <2>2, <2>4 DEF Falling
  <2>5. CASE e \in Jumping(b)
    BY <2>3, <2>5
  <2>6. CASE \E x \in Taking(b), j \in Jumping(b) : e = x \o j
    <3>1. PICK x \in Taking(b), j \in Jumping(b) : e = x \o j
      BY <2>6
    <3>2. PICK t \in Targets(b) : x = <<Instr(CondOp[b], <<t>>, b)>>
      BY <2>2
    <3>3. PICK u \in Targets(b) : j = <<Jmp(u)>>
      BY <2>3
    <3> QED
      BY <2>2, <3>1, <3>2, <3>3
  <2>7. e \in Falling(b) \/ e \in Jumping(b) \/ \E x \in Taking(b), j \in Jumping(b) : e = x \o j
    BY SMT DEF Endings
  <2> QED
    BY <2>4, <2>5, <2>6, <2>7
<1> QED
  BY <1>3, <1>4, <1>5, <1>6, <1>7

\* A block with m pieces of its own work before its end.
Prefixed(c, m, b, e) ==
  /\ m \in {0, 1} /\ c \in Seq(Instrs) /\ Len(c) = m + Len(e)
  /\ \A i \in 1..Len(e) : c[m + i] = e[i]
  /\ m = 1 => c[1] = Work(b)

\* The work of a selected block.
LEMMA WorkIs ==
  ASSUME NEW b \in 1..NumBlocks
  PROVE  /\ Work(b) \in Instrs /\ Work(b).op = "WORK" /\ Work(b).reg = b /\ IsWork(Work(b))
         /\ Halt(b) \in Instrs /\ Halt(b).op = "HALT" /\ Halt(b).reg = b /\ IsWork(Halt(b))
         /\ Ret \in Instrs /\ Ret.op = "RET"
<1>1. b \in Nat /\ <<>> \in Seq(Nat) /\ "RET" \in Terminators
  BY BlockAssumption DEF Terminators
<1> QED
  BY <1>1 DEF Work, Halt, Ret, Instr, Instrs, IsWork

\* A block of work and an end.
LEMMA PrefixWork ==
  ASSUME NEW b \in 1..NumBlocks, NEW e \in Seq(Instrs), NEW c, c = <<Work(b)>> \o e
  PROVE  Prefixed(c, 1, b, e)
<1>1. PICK w : w = <<Work(b)>>
  OBVIOUS
<1>2. w \in Seq(Instrs) /\ Len(w) = 1 /\ w[1] = Work(b)
  BY <1>1, WorkIs
<1>3. c = w \o e
  BY <1>1
<1>4. /\ w \o e \in Seq(Instrs) /\ Len(w \o e) = Len(w) + Len(e)
      /\ \A i \in 1..(Len(w) + Len(e)) : (w \o e)[i] = IF i <= Len(w) THEN w[i] ELSE e[i - Len(w)]
  BY <1>2, ConcatProperties
<1>5. Len(e) \in Nat
  OBVIOUS
<1>6. c \in Seq(Instrs) /\ Len(c) = 1 + Len(e)
      /\ \A i \in 1..(1 + Len(e)) : c[i] = IF i <= 1 THEN w[i] ELSE e[i - 1]
  BY <1>2, <1>3, <1>4
<1>7. \A i \in 1..Len(e) : c[1 + i] = e[i]
  BY <1>5, <1>6
<1>8. c[1] = Work(b)
  BY <1>2, <1>5, <1>6
<1> QED
  BY <1>6, <1>7, <1>8 DEF Prefixed

\* A block that is nothing but its end.
LEMMA PrefixNone ==
  ASSUME NEW b, NEW c \in Seq(Instrs)
  PROVE  Prefixed(c, 0, b, c)
BY DEF Prefixed

\* The front of a selected block is its own work.
LEMMA PrefixOwn ==
  ASSUME NEW b \in 1..NumBlocks, NEW c, NEW m, NEW e \in Seq(Instrs), Prefixed(c, m, b, e)
  PROVE  OwnWorkOnly(c, m, b) /\ m \in Nat
<1>1. Len(e) \in Nat
  OBVIOUS
<1> QED
  BY <1>1, WorkIs DEF Prefixed, OwnWorkOnly

\* The forms of a selected block.
SelFall(c, m, b) == IsFall(c, m) /\ ~Halts(c) /\ After(b) # 0
SelCond(c, m, b, t) ==
  b \in DOMAIN CondOp /\ t \in Targets(b) /\ After(b) # 0 /\ IsCond(c, m, CondOp[b], b, t)
SelJump(c, m, b, t) == t \in Targets(b) /\ IsJump(c, m, t)
SelCond2(c, m, b, t, u) ==
  b \in DOMAIN CondOp /\ t \in Targets(b) /\ u \in Targets(b) /\ IsCond2(c, m, CondOp[b], b, t, u)
SelTable(c, m, t) == IsOther(c, m) /\ Last(c).op = "JMPR" /\ Last(c).to = t /\ t \in Tables
SelRet(c, m) == IsOther(c, m) /\ Last(c).op = "RET"
SelHalt(c, m) == IsFall(c, m) /\ Halts(c) /\ Last(c).op = "HALT" /\ c # <<>>
Sel(c, m, b) ==
  \/ SelFall(c, m, b)
  \/ \E t : SelCond(c, m, b, t)
  \/ \E t : SelJump(c, m, b, t)
  \/ \E t, u : SelCond2(c, m, b, t, u)
  \/ \E t : SelTable(c, m, t)
  \/ SelRet(c, m)
  \/ SelHalt(c, m)

\* Work, if there is any, with nothing after it falls through.
LEMMA WorkFalls ==
  ASSUME NEW b \in 1..NumBlocks, NEW c, NEW m, NEW e, Prefixed(c, m, b, e), Len(e) = 0
  PROVE  IsFall(c, m) /\ ~Halts(c)
<1>1. m \in {0, 1} /\ c \in Seq(Instrs) /\ Len(c) = m /\ (m = 1 => c[1] = Work(b))
  BY DEF Prefixed
<1>2. OwnWorkOnly(c, m, b)
  BY <1>1, WorkIs DEF OwnWorkOnly
<1>3. Form(c, m)
  <2>1. 0 \in {0, 1, 2} /\ Len(c) = m + 0
    BY <1>1
  <2> QED
    BY <1>2, <2>1, FormEnd
<1>4. ~Halts(c)
  BY <1>1, WorkIs DEF Halts
<1> QED
  BY <1>1, <1>3, <1>4 DEF IsFall

\* One terminator.
LEMMA WorkOne ==
  ASSUME NEW b \in 1..NumBlocks, NEW c, NEW m, NEW e \in Seq(Instrs), Prefixed(c, m, b, e), Len(e) = 1,
         GoodTerm(e[1])
  PROVE  Form(c, m) /\ Len(c) = m + 1 /\ c[m + 1] = e[1] /\ m \in Nat
<1>1. OwnWorkOnly(c, m, b) /\ m \in Nat
  BY PrefixOwn
<1>2. Len(c) = m + 1 /\ c[m + 1] = e[1]
  BY DEF Prefixed
<1>3. 1 \in {0, 1, 2} /\ 1 # 2
  OBVIOUS
<1>4. Form(c, m)
  BY <1>1, <1>2, <1>3, FormEnd
<1> QED
  BY <1>1, <1>2, <1>4

\* A selected block with two terminators.
LEMMA WorkTwo ==
  ASSUME NEW b \in 1..NumBlocks, NEW c, NEW m, NEW e \in Seq(Instrs), Prefixed(c, m, b, e), Len(e) = 2,
         GoodTerm(e[1]), GoodTerm(e[2]), e[1].op \in Analyzable, e[2].op = "JMP"
  PROVE  Form(c, m) /\ Len(c) = m + 2 /\ c[m + 1] = e[1] /\ c[m + 2] = e[2] /\ m \in Nat
<1>1. OwnWorkOnly(c, m, b) /\ m \in Nat
  BY PrefixOwn
<1>2. Len(c) = m + 2 /\ c[m + 1] = e[1] /\ c[m + 2] = e[2]
  BY DEF Prefixed
<1>3. 2 \in {0, 1, 2} /\ 2 > 0
  OBVIOUS
<1>4. Form(c, m)
  BY <1>1, <1>2, <1>3, FormEnd
<1> QED
  BY <1>1, <1>2, <1>4

\* What a selected block with a branch, or without one, is.
LEMMA EndingSelected ==
  ASSUME NEW b \in 1..NumBlocks, NEW e \in Endings(b), NEW c, NEW m, Prefixed(c, m, b, e)
  PROVE  Sel(c, m, b)
<1>1. e \in Seq(Instrs)
  BY EndingCases
<1>2. CASE EndsNone(e, b)
  <2>1. IsFall(c, m) /\ ~Halts(c)
    BY <1>2, WorkFalls DEF EndsNone
  <2> QED
    BY <1>2, <2>1 DEF EndsNone, SelFall, Sel
<1>3. CASE b \in DOMAIN CondOp /\ \E t \in Targets(b) : EndsCond(e, b, t)
  <2>1. PICK t \in Targets(b) : EndsCond(e, b, t)
    BY <1>3
  <2>2. t \in Targets1 /\ CondOp[b] \in CondBranches /\ b \in Nat
    BY <1>3, TargetsIs, CondOpIs
  <2>3. e[1] = Instr(CondOp[b], <<t>>, b) /\ Len(e) = 1 /\ After(b) # 0
    BY <2>1 DEF EndsCond
  <2>4. GoodTerm(e[1]) /\ e[1].op = CondOp[b] /\ e[1].reg = b /\ e[1].to[1] = t
    BY <2>2, <2>3, BranchTerm
  <2>5. Form(c, m) /\ Len(c) = m + 1 /\ c[m + 1] = e[1]
    BY <1>1, <2>3, <2>4, WorkOne
  <2>6. IsCond(c, m, CondOp[b], b, t)
    BY <2>2, <2>4, <2>5 DEF IsCond
  <2> QED
    BY <1>3, <2>3, <2>6 DEF SelCond, Sel
<1>4. CASE \E t \in Targets(b) : EndsJump(e, b, t)
  <2>1. PICK t \in Targets(b) : EndsJump(e, b, t)
    BY <1>4
  <2>2. t \in Targets1 /\ 0 \in Nat
    BY TargetsIs
  <2>3. e[1] = Instr("JMP", <<t>>, 0) /\ Len(e) = 1
    BY <2>1 DEF EndsJump, Jmp
  <2>4. GoodTerm(e[1]) /\ e[1].op = "JMP" /\ e[1].to[1] = t
    BY <2>2, <2>3, BranchTerm
  <2>5. Form(c, m) /\ Len(c) = m + 1 /\ c[m + 1] = e[1]
    BY <1>1, <2>3, <2>4, WorkOne
  <2>6. IsJump(c, m, t)
    BY <2>4, <2>5 DEF IsJump
  <2> QED
    BY <2>6 DEF SelJump, Sel
<1>5. CASE b \in DOMAIN CondOp /\ \E t, u \in Targets(b) : EndsCond2(e, b, t, u)
  <2>1. PICK t \in Targets(b), u \in Targets(b) : EndsCond2(e, b, t, u)
    BY <1>5
  <2>2. t \in Targets1 /\ u \in Targets1 /\ CondOp[b] \in CondBranches /\ b \in Nat /\ 0 \in Nat
    BY <1>5, TargetsIs, CondOpIs
  <2>3. e[1] = Instr(CondOp[b], <<t>>, b) /\ e[2] = Instr("JMP", <<u>>, 0) /\ Len(e) = 2
    BY <2>1 DEF EndsCond2, Jmp
  <2>4. /\ GoodTerm(e[1]) /\ e[1].op = CondOp[b] /\ e[1].reg = b /\ e[1].to[1] = t /\ e[1].op \in Analyzable
    BY <2>2, <2>3, BranchTerm
  <2>5. GoodTerm(e[2]) /\ e[2].op = "JMP" /\ e[2].to[1] = u
    BY <2>2, <2>3, BranchTerm
  <2>6. Form(c, m) /\ Len(c) = m + 2 /\ c[m + 1] = e[1] /\ c[m + 2] = e[2]
    BY <1>1, <2>3, <2>4, <2>5, WorkTwo
  <2>7. IsCond2(c, m, CondOp[b], b, t, u)
    BY <2>2, <2>4, <2>5, <2>6 DEF IsCond2
  <2> QED
    BY <1>5, <2>7 DEF SelCond2, Sel
<1> QED
  BY <1>2, <1>3, <1>4, <1>5, EndingCases

\* A selected block.
Shaped(c, b) == \E m \in {0, 1} : OwnWorkOnly(c, m, b) /\ Sel(c, m, b)

\* Instruction selection: a return ends a block.
LEMMA ReturnSelected ==
  ASSUME NEW b \in 1..NumBlocks, NEW c, NEW m, NEW e, e = <<Ret>>, Prefixed(c, m, b, e)
  PROVE  Sel(c, m, b)
<1>1. e \in Seq(Instrs) /\ Len(e) = 1 /\ e[1] = Ret
  BY WorkIs
<1>2. Ret \in Instrs /\ Ret.op = "RET"
  BY WorkIs
<1>3. GoodTerm(Ret)
  BY <1>2 DEF GoodTerm, Terminators, Analyzable, CondBranches
<1>4. Form(c, m) /\ Len(c) = m + 1 /\ c[m + 1] = Ret
  BY <1>1, <1>3, WorkOne
<1>5. IsOther(c, m)
  BY <1>2, <1>4 DEF IsOther
<1>6. Last(c) = c[m + 1]
  BY <1>5, OtherFacts DEF OtherProfile
<1> QED
  BY <1>2, <1>4, <1>5, <1>6 DEF SelRet, Sel

\* Instruction selection: block 2 may jump through a table.
LEMMA TableSelected ==
  ASSUME 2 \in 1..NumBlocks, NEW c, NEW m, NEW t \in Tables, NEW e, e = <<Instr("JMPR", t, 2)>>, Prefixed(c, m, 2, e)
  PROVE  e \in Seq(Instrs) /\ Sel(c, m, 2)
<1>1. PICK x \in 3..NumBlocks, y \in 3..NumBlocks : t = <<x, y>>
  BY BlockAssumption
<1>2. NumBlocks \in Nat
  BY BlockAssumption
<1>3. x \in Nat /\ y \in Nat /\ x > 1 /\ y > 1
  BY <1>1, <1>2
<1>4. t \in Seq(Nat) /\ Len(t) = 2 /\ t[1] > 1 /\ t[2] > 1
  BY <1>1, <1>3
<1>5. PICK z : z = Instr("JMPR", t, 2)
  OBVIOUS
<1>6. z.op = "JMPR" /\ z.to = t /\ z.reg = 2
  BY <1>5 DEF Instr
<1>7. z \in Instrs
  BY <1>4, <1>5 DEF Instr, Instrs, Terminators
<1>8. GoodTerm(z)
  BY <1>4, <1>6, <1>7 DEF GoodTerm, Terminators, Analyzable, CondBranches
<1>9. e \in Seq(Instrs) /\ Len(e) = 1 /\ e[1] = z
  BY <1>5, <1>7
<1>10. Form(c, m) /\ Len(c) = m + 1 /\ c[m + 1] = z
  BY <1>8, <1>9, WorkOne
<1>11. IsOther(c, m)
  BY <1>6, <1>10 DEF IsOther
<1>12. Last(c) = z
  BY <1>10, <1>11, OtherFacts DEF OtherProfile
<1>13. SelTable(c, m, t)
  BY <1>6, <1>11, <1>12 DEF SelTable
<1> QED
  BY <1>9, <1>13 DEF Sel

\* Instruction selection: a block that ends in a call that does not return.
LEMMA HaltSelected ==
  ASSUME NEW b \in 1..NumBlocks, NEW c, c = <<Halt(b)>>
  PROVE  OwnWorkOnly(c, 1, b) /\ Sel(c, 1, b)
<1>1. PICK h : h = Halt(b)
  OBVIOUS
<1>2. h \in Instrs /\ h.op = "HALT" /\ h.reg = b /\ IsWork(h)
  BY <1>1, WorkIs
<1>3. c \in Seq(Instrs) /\ Len(c) = 1 /\ c[1] = h
  BY <1>1, <1>2
<1>4. OwnWorkOnly(c, 1, b)
  BY <1>2, <1>3 DEF OwnWorkOnly
<1>5. Form(c, 1)
  <2>1. PICK m, k : m = 1 /\ k = 0
    OBVIOUS
  <2>2. OwnWorkOnly(c, m, b) /\ k \in {0, 1, 2} /\ Len(c) = m + k /\ ~(k > 0) /\ k # 2
    BY <1>3, <1>4, <2>1
  <2>3. Form(c, m)
    BY <2>2, FormEnd
  <2> QED
    BY <2>1, <2>3
<1>6. IsFall(c, 1)
  BY <1>3, <1>5 DEF IsFall
<1>7. Halts(c) /\ c # <<>> /\ Last(c) = h
  BY <1>2, <1>3 DEF Halts, Last
<1> QED
  BY <1>2, <1>4, <1>6, <1>7 DEF SelHalt, Sel

\* What instruction selection leaves in a block.
LEMMA ShapeSelected ==
  ASSUME NEW b \in 1..NumBlocks, NEW c \in Shapes(b)
  PROVE  Shaped(c, b)
<1>1. CASE c \in {<<Work(b)>> \o e : e \in Endings(b)}
  <2>1. PICK e \in Endings(b) : c = <<Work(b)>> \o e
    BY <1>1
  <2>2. e \in Seq(Instrs)
    BY EndingCases
  <2>3. Prefixed(c, 1, b, e)
    BY <2>1, <2>2, PrefixWork
  <2>4. OwnWorkOnly(c, 1, b)
    BY <2>2, <2>3, PrefixOwn
  <2>5. Sel(c, 1, b)
    BY <2>1, <2>3, EndingSelected
  <2> QED
    BY <2>4, <2>5 DEF Shaped
<1>2. CASE b = 2 /\ c \in {<<Work(2)>> \o e : e \in TableEndings}
  <2>1. PICK e \in TableEndings : c = <<Work(2)>> \o e
    BY <1>2
  <2>2. PICK t \in Tables : e = <<Instr("JMPR", t, 2)>>
    BY <2>1 DEF TableEndings
  <2>3. e \in Seq(Instrs)
    <3>1. PICK x \in 3..NumBlocks, y \in 3..NumBlocks : t = <<x, y>>
      BY BlockAssumption
    <3>2. t \in Seq(Nat)
      BY <3>1, BlockAssumption
    <3>3. Instr("JMPR", t, 2) \in Instrs
      BY <3>2 DEF Instr, Instrs, Terminators
    <3> QED
      BY <2>2, <3>3
  <2>4. Prefixed(c, 1, 2, e)
    BY <1>2, <2>1, <2>3, PrefixWork
  <2>5. OwnWorkOnly(c, 1, 2)
    BY <1>2, <2>3, <2>4, PrefixOwn
  <2>6. Sel(c, 1, 2)
    BY <1>2, <2>2, <2>4, TableSelected
  <2> QED
    BY <1>2, <2>5, <2>6 DEF Shaped
<1>3. CASE c = <<Work(b), Ret>>
  <2>1. PICK e : e = <<Ret>>
    OBVIOUS
  <2>2. PICK w, r : w = Work(b) /\ r = Ret
    OBVIOUS
  <2>3. w \in Instrs /\ r \in Instrs
    BY <2>2, WorkIs
  <2>4. c = <<w, r>> /\ e = <<r>>
    BY <1>3, <2>1, <2>2
  <2>5. e \in Seq(Instrs) /\ Len(e) = 1 /\ e[1] = r
    BY <2>3, <2>4
  <2>6. c \in Seq(Instrs) /\ Len(c) = 2 /\ c[1] = w /\ c[2] = r
    BY <2>3, <2>4
  <2>7. Prefixed(c, 1, b, e)
    BY <2>2, <2>5, <2>6 DEF Prefixed
  <2>8. OwnWorkOnly(c, 1, b)
    BY <2>5, <2>7, PrefixOwn
  <2>9. Sel(c, 1, b)
    BY <2>1, <2>7, ReturnSelected
  <2> QED
    BY <2>8, <2>9 DEF Shaped
<1>4. CASE c = <<Halt(b)>>
  <2>1. OwnWorkOnly(c, 1, b) /\ Sel(c, 1, b)
    BY <1>4, HaltSelected
  <2> QED
    BY <2>1 DEF Shaped
<1>5. CASE c \in Endings(b)
  <2>1. c \in Seq(Instrs)
    BY <1>5, EndingCases
  <2>2. Prefixed(c, 0, b, c)
    BY <2>1, PrefixNone
  <2>3. OwnWorkOnly(c, 0, b)
    BY <2>1, <2>2, PrefixOwn
  <2>4. Sel(c, 0, b)
    BY <1>5, <2>2, EndingSelected
  <2> QED
    BY <2>3, <2>4 DEF Shaped
<1>6. CASE c = <<Ret>>
  <2>1. Ret \in Instrs
    BY WorkIs
  <2>2. c \in Seq(Instrs)
    BY <1>6, <2>1
  <2>3. Prefixed(c, 0, b, c)
    BY <2>2, PrefixNone
  <2>4. OwnWorkOnly(c, 0, b)
    BY <2>2, <2>3, PrefixOwn
  <2>5. Sel(c, 0, b)
    BY <1>6, <2>3, ReturnSelected
  <2> QED
    BY <2>4, <2>5 DEF Shaped
<1> QED
  BY <1>1, <1>2, <1>3, <1>4, <1>5, <1>6 DEF Shapes

\* SelectedEdges, one alternative at a time.
EndsHere(c) == c # <<>> /\ Last(c).op \in {"HALT", "RET"}

\* No edges out of a block that returns or halts.
LEMMA EdgesEnd ==
  ASSUME NEW c, NEW b, EndsHere(c), AnaF(c).tbb = 0, NEW s \in SelectedEdges(c, b)
  PROVE  s = <<>>
BY DEF SelectedEdges, EndsHere, AnaF

\* The edges of a jump table, each destination once.
LEMMA EdgesTable ==
  ASSUME NEW c, NEW b, ~EndsHere(c), AnaF(c).fail, AnaF(c).tbb = 0, NEW t, t = Last(c).to, NEW s \in SelectedEdges(c, b)
  PROVE  s = IF t[1] = t[2] THEN <<t[1]>> ELSE t
BY DEF SelectedEdges, EndsHere, AnaF

\* The edge of a block that falls through.
LEMMA EdgesFall ==
  ASSUME NEW c, NEW b, ~EndsHere(c), ~AnaF(c).fail, AnaF(c).tbb = 0, NEW s \in SelectedEdges(c, b)
  PROVE  s = <<After(b)>>
BY DEF SelectedEdges, EndsHere, AnaF

\* The edge of a jump.
LEMMA EdgesJump ==
  ASSUME NEW c, NEW b, ~EndsHere(c), ~AnaF(c).fail, AnaF(c).tbb # 0, AnaF(c).cond = <<>>, NEW s \in SelectedEdges(c, b)
  PROVE  s = <<AnaF(c).tbb>>
BY DEF SelectedEdges, EndsHere, AnaF

\* The edges of a two-way branch.
LEMMA EdgesCond2 ==
  ASSUME NEW c, NEW b, ~EndsHere(c), ~AnaF(c).fail, AnaF(c).tbb # 0, AnaF(c).cond # <<>>, AnaF(c).fbb # 0, NEW s \in SelectedEdges(c, b)
  PROVE  s = <<AnaF(c).tbb, AnaF(c).fbb>>
BY DEF SelectedEdges, EndsHere, AnaF

\* The edges of a conditional branch, in either order.
LEMMA EdgesCond ==
  ASSUME NEW c, NEW b, ~EndsHere(c), ~AnaF(c).fail, AnaF(c).tbb # 0, AnaF(c).cond # <<>>, AnaF(c).fbb = 0, NEW s \in SelectedEdges(c, b)
  PROVE  s \in {<<AnaF(c).tbb, After(b)>>, <<After(b), AnaF(c).tbb>>}
BY DEF SelectedEdges, EndsHere, AnaF

\* What the edges added with the selected branch are.
Edged(c, b, s) ==
  /\ s \in Seq(2..NumBlocks)
  /\ Covered(c, After(b), s)
  /\ Falls(c) => After(b) # 0
  /\ Single(c, s) \/ Plain(c, s, After(b))

\* The last instruction of a block.
LEMMA LastOf ==
  ASSUME NEW c \in Seq(Instrs), NEW n \in Nat, n > 0, Len(c) = n
  PROVE  Last(c) = c[n] /\ c # <<>>
BY DEF Last

\* The selected edges cover a block that falls through.
LEMMA FallEdged ==
  ASSUME NEW b \in 1..NumBlocks, NEW c, NEW m \in Nat, SelFall(c, m, b), NEW s \in SelectedEdges(c, b)
  PROVE  Edged(c, b, s)
<1>1. IsFall(c, m) /\ ~Halts(c) /\ After(b) # 0
  BY DEF SelFall
<1>2. FallProfile(c, m)
  BY <1>1, FallFacts
<1>3. c \in Seq(Instrs) /\ Len(c) = m /\ \A i \in 1..m : IsWork(c[i])
  BY <1>1 DEF IsFall, Form
<1>4. ~EndsHere(c)
  <2>1. SUFFICES ASSUME c # <<>>, Last(c).op \in {"HALT", "RET"} PROVE FALSE
    BY DEF EndsHere
  <2>2. m > 0
    BY <1>3, <2>1
  <2>3. Last(c) = c[m] /\ m \in 1..m
    BY <1>3, <2>2, LastOf
  <2>4. IsWork(c[m])
    BY <1>3, <2>3
  <2>5. c[m].op = "HALT"
    BY <2>1, <2>3, <2>4 DEF IsWork
  <2> QED
    BY <1>1, <1>3, <2>3, <2>5 DEF Halts
<1>5. AnaF(c) = Analysis(0, 0, <<>>, c)
  BY <1>2 DEF FallProfile
<1>6. ~AnaF(c).fail /\ AnaF(c).tbb = 0
  BY <1>5, AnalysisFields
<1>7. s = <<After(b)>>
  BY <1>4, <1>6, EdgesFall
<1>8. After(b) \in 2..NumBlocks
  BY <1>1, TargetsIs
<1>9. s \in Seq(2..NumBlocks) /\ Len(s) = 1 /\ Range1(s) = {After(b)}
  BY <1>7, <1>8 DEF Range1
<1>10. Covered(c, After(b), s)
  BY <1>1, <1>2, <1>9 DEF Covered, FallProfile
<1>11. Single(c, s)
  BY <1>9 DEF Single
<1> QED
  BY <1>1, <1>9, <1>10, <1>11 DEF Edged

\* The selected edges cover a jump.
LEMMA JumpEdged ==
  ASSUME NEW b \in 1..NumBlocks, NEW c, NEW m \in Nat, NEW t, SelJump(c, m, b, t), NEW s \in SelectedEdges(c, b)
  PROVE  Edged(c, b, s)
<1>1. t \in Targets(b) /\ IsJump(c, m, t)
  BY DEF SelJump
<1>2. JumpProfile(c, m, t)
  BY <1>1, JumpFacts
<1>3. c \in Seq(Instrs) /\ Len(c) = m + 1 /\ c[m + 1].op = "JMP"
  BY <1>1 DEF IsJump, Form
<1>4. ~EndsHere(c)
  <2>1. Last(c) = c[m + 1]
    BY <1>3, LastOf
  <2> QED
    BY <1>3, <2>1 DEF EndsHere
<1>5. AnaF(c) = Analysis(t, 0, <<>>, c)
  BY <1>2 DEF JumpProfile
<1>6. t \in 2..NumBlocks /\ t # 0
  BY <1>1, TargetsIs
<1>7. ~AnaF(c).fail /\ AnaF(c).tbb = t /\ AnaF(c).cond = <<>>
  BY <1>5, AnalysisFields
<1>8. s = <<t>>
  BY <1>4, <1>6, <1>7, EdgesJump
<1>9. s \in Seq(2..NumBlocks) /\ Len(s) = 1 /\ Range1(s) = {t}
  BY <1>6, <1>8 DEF Range1
<1>10. Covered(c, After(b), s) /\ ~Falls(c)
  BY <1>2, <1>9 DEF Covered, JumpProfile
<1>11. Single(c, s)
  BY <1>9 DEF Single
<1> QED
  BY <1>9, <1>10, <1>11 DEF Edged

\* The selected edges cover a conditional branch.
LEMMA CondEdged ==
  ASSUME NEW b \in 1..NumBlocks, NEW c, NEW m \in Nat, NEW t, SelCond(c, m, b, t), NEW s \in SelectedEdges(c, b)
  PROVE  Edged(c, b, s)
<1>1. PICK op, f : op = CondOp[b] /\ f = After(b)
  OBVIOUS
<1>2. t \in Targets(b) /\ f # 0 /\ IsCond(c, m, op, b, t)
  BY <1>1 DEF SelCond
<1>3. CondProfile(c, m, op, b, t)
  BY <1>2, CondFacts
<1>4. c \in Seq(Instrs) /\ Len(c) = m + 1 /\ c[m + 1].op = op /\ op \in CondBranches
  BY <1>2 DEF IsCond, Form
<1>5. ~EndsHere(c)
  <2>1. Last(c) = c[m + 1]
    BY <1>4, LastOf
  <2> QED
    BY <1>4, <2>1 DEF EndsHere, CondBranches
<1>6. t \in 2..NumBlocks /\ t # 0 /\ t # f /\ f \in 2..NumBlocks
  BY <1>1, <1>2, TargetsIs
<1>7. ~AnaF(c).fail /\ AnaF(c).tbb = t /\ AnaF(c).fbb = 0 /\ AnaF(c).cond = <<op, b>>
  BY <1>2, CondAnswer
<1>8. AnaF(c).cond # <<>>
  BY <1>7
<1>9. s \in {<<t, f>>, <<f, t>>}
  BY <1>1, <1>5, <1>6, <1>7, <1>8, EdgesCond
<1>10. s \in Seq(2..NumBlocks) /\ Range1(s) = {t, f}
  <2>1. CASE s = <<t, f>>
    BY <1>6, <2>1 DEF Range1
  <2>2. CASE s = <<f, t>>
    BY <1>6, <2>2 DEF Range1
  <2> QED
    BY <1>9, <2>1, <2>2
<1>11. Covered(c, f, s)
  BY <1>3, <1>10 DEF Covered, CondProfile
<1>12. Plain(c, s, f)
  <2>1. PlainOne(c, s, f, m, op, b, t)
    BY <1>2, <1>6, <1>9 DEF PlainOne
  <2> QED
    BY <2>1 DEF Plain
<1> QED
  BY <1>1, <1>2, <1>10, <1>11, <1>12 DEF Edged

\* The selected edges cover a two-way branch.
LEMMA Cond2Edged ==
  ASSUME NEW b \in 1..NumBlocks, NEW c, NEW m \in Nat, NEW t, NEW u, SelCond2(c, m, b, t, u), NEW s \in SelectedEdges(c, b)
  PROVE  Edged(c, b, s)
<1>1. PICK op : op = CondOp[b]
  OBVIOUS
<1>2. t \in Targets(b) /\ u \in Targets(b) /\ IsCond2(c, m, op, b, t, u)
  BY <1>1 DEF SelCond2
<1>3. Cond2Profile(c, m, op, b, t, u)
  BY <1>2, Cond2Facts
<1>4. c \in Seq(Instrs) /\ Len(c) = m + 2 /\ c[m + 2].op = "JMP"
  BY <1>2 DEF IsCond2, Form
<1>5. ~EndsHere(c)
  <2>1. Last(c) = c[m + 2]
    BY <1>4, LastOf
  <2> QED
    BY <1>4, <2>1 DEF EndsHere
<1>6. t \in 2..NumBlocks /\ t # 0 /\ u \in 2..NumBlocks /\ u # 0
  BY <1>2, TargetsIs
<1>7. ~AnaF(c).fail /\ AnaF(c).tbb = t /\ AnaF(c).fbb = u /\ AnaF(c).cond = <<op, b>>
  BY <1>2, Cond2Answer
<1>8. AnaF(c).cond # <<>>
  BY <1>7
<1>9. s = <<t, u>>
  BY <1>5, <1>6, <1>7, <1>8, EdgesCond2
<1>10. s \in Seq(2..NumBlocks) /\ Range1(s) = {t, u}
  BY <1>6, <1>9 DEF Range1
<1>11. Covered(c, After(b), s) /\ ~Falls(c)
  BY <1>3, <1>10 DEF Covered, Cond2Profile
<1>12. Plain(c, s, After(b))
  <2>1. PlainTwo(c, s, m, op, b, t, u)
    BY <1>2, <1>9 DEF PlainTwo
  <2> QED
    BY <2>1 DEF Plain
<1> QED
  BY <1>10, <1>11, <1>12 DEF Edged

\* A return or a jump table has no answer.
LEMMA OtherAnswer ==
  ASSUME NEW c, NEW m \in Nat, IsOther(c, m)
  PROVE  /\ AnaF(c).fail /\ AnaF(c).tbb = 0 /\ ~Falls(c) /\ ~Halts(c)
         /\ Last(c) = c[m + 1] /\ c # <<>>
<1>1. OtherProfile(c, m)
  BY OtherFacts
<1>2. AnaF(c) = Failed(c)
  BY <1>1 DEF OtherProfile
<1>3. AnaF(c).fail /\ AnaF(c).tbb = 0
  BY <1>2, FailedFields
<1>4. c \in Seq(Instrs) /\ Len(c) = m + 1
  BY DEF IsOther, Form
<1>5. c # <<>>
  BY <1>4
<1> QED
  BY <1>1, <1>3, <1>5 DEF OtherProfile

\* Only the jump table leads somewhere, to one of its two entries.
LEMMA OtherLeads ==
  ASSUME NEW c, NEW m \in Nat, IsOther(c, m), NEW x, LeadsTo(c, x)
  PROVE  c[m + 1].op = "JMPR" /\ Len(c[m + 1].to) = 2 /\ x \in {c[m + 1].to[1], c[m + 1].to[2]}
<1>1. PICK i \in 1..Len(c) : c[i].op \in Terminators \ {"RET"} /\ \E j \in 1..Len(c[i].to) : c[i].to[j] = x
  BY DEF LeadsTo
<1>2. Len(c) = m + 1 /\ \A k \in 1..m : IsWork(c[k])
  BY DEF IsOther, Form
<1>3. ~IsWork(c[i])
  BY <1>1 DEF IsWork, Terminators, Analyzable, CondBranches
<1>4. i = m + 1
  BY <1>2, <1>3
<1>5. c[m + 1].op \in {"JMPR", "RET"}
  BY DEF IsOther
<1>6. c[m + 1].op = "JMPR"
  BY <1>1, <1>4, <1>5
<1>7. m + 1 \in (m + 1)..Len(c)
  BY <1>2
<1>8. Len(c[m + 1].to) = 2
  BY <1>6, <1>7 DEF IsOther, Form
<1>9. PICK j \in 1..2 : c[m + 1].to[j] = x
  BY <1>1, <1>4, <1>8
<1> QED
  BY <1>6, <1>8, <1>9

\* The selected edges cover a jump table.
LEMMA TableEdged ==
  ASSUME NEW b \in 1..NumBlocks, NEW c, NEW m \in Nat, NEW t, SelTable(c, m, t), NEW s \in SelectedEdges(c, b)
  PROVE  Edged(c, b, s)
<1>1. IsOther(c, m) /\ Last(c).op = "JMPR" /\ Last(c).to = t /\ t \in Tables
  BY DEF SelTable
<1>2. AnaF(c).fail /\ AnaF(c).tbb = 0 /\ ~Falls(c) /\ ~Halts(c) /\ Last(c) = c[m + 1]
  BY <1>1, OtherAnswer
<1>3. ~EndsHere(c)
  BY <1>1 DEF EndsHere
<1>4. PICK x \in 3..NumBlocks, y \in 3..NumBlocks : t = <<x, y>>
  BY <1>1, BlockAssumption
<1>5. x \in 2..NumBlocks /\ y \in 2..NumBlocks
  BY <1>4, BlockAssumption
<1>6. s = IF t[1] = t[2] THEN <<t[1]>> ELSE t
  BY <1>1, <1>2, <1>3, EdgesTable
<1>7. s = IF x = y THEN <<x>> ELSE <<x, y>>
  BY <1>4, <1>6
<1>8. s \in Seq(2..NumBlocks) /\ Range1(s) = {x, y}
  <2>1. CASE x = y
    BY <1>5, <1>7, <2>1 DEF Range1
  <2>2. CASE x # y
    <3>1. s = <<x, y>>
      BY <1>7, <2>2
    <3> QED
      BY <1>5, <3>1 DEF Range1
  <2> QED
    BY <2>1, <2>2
<1>9. \A z : LeadsTo(c, z) => z \in {x, y}
  <2>1. TAKE z
  <2>2. HAVE LeadsTo(c, z)
  <2>3. z \in {c[m + 1].to[1], c[m + 1].to[2]}
    BY <1>1, <2>2, OtherLeads
  <2> QED
    BY <1>1, <1>2, <1>4, <2>3
<1>10. Covered(c, After(b), s)
  BY <1>2, <1>8, <1>9 DEF Covered
<1>11. Single(c, s)
  BY <1>2 DEF Single
<1> QED
  BY <1>2, <1>8, <1>10, <1>11 DEF Edged

\* The selected edges cover a return.
LEMMA RetEdged ==
  ASSUME NEW b \in 1..NumBlocks, NEW c, NEW m \in Nat, SelRet(c, m), NEW s \in SelectedEdges(c, b)
  PROVE  Edged(c, b, s)
<1>1. IsOther(c, m) /\ Last(c).op = "RET"
  BY DEF SelRet
<1>2. AnaF(c).fail /\ AnaF(c).tbb = 0 /\ ~Falls(c) /\ ~Halts(c) /\ Last(c) = c[m + 1] /\ c # <<>>
  BY <1>1, OtherAnswer
<1>3. EndsHere(c)
  BY <1>1, <1>2 DEF EndsHere
<1>4. s = <<>>
  BY <1>2, <1>3, EdgesEnd
<1>5. \A z : ~LeadsTo(c, z)
  BY <1>1, <1>2, OtherLeads
<1>6. s \in Seq(2..NumBlocks)
  BY <1>4
<1>7. Covered(c, After(b), s)
  BY <1>2, <1>4, <1>5 DEF Covered
<1>8. Single(c, s)
  BY <1>2 DEF Single
<1> QED
  BY <1>2, <1>6, <1>7, <1>8 DEF Edged

\* The selected edges cover a block that halts.
LEMMA HaltEdged ==
  ASSUME NEW b \in 1..NumBlocks, NEW c, NEW m \in Nat, SelHalt(c, m), NEW s \in SelectedEdges(c, b)
  PROVE  Edged(c, b, s)
<1>1. IsFall(c, m) /\ Halts(c) /\ EndsHere(c)
  BY DEF SelHalt, EndsHere
<1>2. FallProfile(c, m)
  BY <1>1, FallFacts
<1>3. AnaF(c) = Analysis(0, 0, <<>>, c) /\ ~Falls(c) /\ \A z : ~LeadsTo(c, z)
  BY <1>1, <1>2 DEF FallProfile
<1>4. AnaF(c).tbb = 0
  BY <1>3, AnalysisFields
<1>5. s = <<>>
  BY <1>1, <1>4, EdgesEnd
<1>6. s \in Seq(2..NumBlocks) /\ Len(s) <= 1
  BY <1>5
<1>7. Covered(c, After(b), s)
  BY <1>3, <1>5 DEF Covered
<1>8. Single(c, s)
  BY <1>6 DEF Single
<1> QED
  BY <1>3, <1>6, <1>7, <1>8 DEF Edged

\* The selected edges cover every selected block.
LEMMA SelEdged ==
  ASSUME NEW b \in 1..NumBlocks, NEW c, NEW m \in Nat, Sel(c, m, b), NEW s \in SelectedEdges(c, b)
  PROVE  Edged(c, b, s)
<1>1. CASE SelFall(c, m, b)
  BY <1>1, FallEdged
<1>2. CASE \E t : SelCond(c, m, b, t)
  BY <1>2, CondEdged
<1>3. CASE \E t : SelJump(c, m, b, t)
  BY <1>3, JumpEdged
<1>4. CASE \E t, u : SelCond2(c, m, b, t, u)
  BY <1>4, Cond2Edged
<1>5. CASE \E t : SelTable(c, m, t)
  BY <1>5, TableEdged
<1>6. CASE SelRet(c, m)
  BY <1>6, RetEdged
<1>7. CASE SelHalt(c, m)
  BY <1>7, HaltEdged
<1> QED
  BY <1>1, <1>2, <1>3, <1>4, <1>5, <1>6, <1>7 DEF Sel

\* A block as instruction selection leaves it.
Selected(c, b, s) ==
  /\ Formed(c) /\ Edged(c, b, s)
  /\ \A i \in DOMAIN c : IsWork(c[i]) => i = 1 /\ c[i].reg = b

\* A selected block is well formed.
LEMMA SelForm ==
  ASSUME NEW b, NEW c, NEW m, Sel(c, m, b)
  PROVE  Form(c, m)
BY DEF Sel, SelFall, SelCond, SelJump, SelCond2, SelTable, SelRet, SelHalt, IsFall, IsCond, IsJump, IsCond2, IsOther

\* Selected blocks and their edges, as edge splitting needs them.
LEMMA ShapeEdged ==
  ASSUME NEW b \in 1..NumBlocks, NEW c \in Shapes(b), NEW s \in SelectedEdges(c, b)
  PROVE  Selected(c, b, s) /\ c \in Seq(Instrs)
<1>1. Shaped(c, b)
  BY ShapeSelected
<1>2. PICK m \in {0, 1} : OwnWorkOnly(c, m, b) /\ Sel(c, m, b)
  BY <1>1 DEF Shaped
<1>3. m \in Nat
  OBVIOUS
<1>4. Form(c, m)
  BY <1>2, SelForm
<1>5. Edged(c, b, s)
  BY <1>2, <1>3, SelEdged
<1>6. \A i \in DOMAIN c : IsWork(c[i]) => i = 1 /\ c[i].reg = b
  <2>1. TAKE i \in DOMAIN c
  <2>2. HAVE IsWork(c[i])
  <2>3. i \in 1..m
    BY <1>3, <1>4, <2>2, WorkIndex
  <2>4. m = 1 /\ i = 1
    BY <2>3
  <2> QED
    BY <1>2, <2>4 DEF OwnWorkOnly
<1>7. Formed(c) /\ c \in Seq(Instrs)
  BY <1>3, <1>4 DEF Formed, Form
<1> QED
  BY <1>5, <1>6, <1>7 DEF Selected

\* UnreachableMachineBlockElim keeps the blocks R of the selected function.
Keeping(l, cd, sc, R, l2, cd2, sc2) ==
  /\ l \in Seq(Nat) /\ Len(l) = NumBlocks /\ \A i \in 1..NumBlocks : l[i] = i
  /\ 1 \in R /\ R \subseteq 1..NumBlocks
  /\ \A b \in R : Range1(sc[b]) \subseteq R /\ Selected(cd[b], b, sc[b])
  /\ l2 = Kept(l, {i \in DOMAIN l : l[i] \in R})
  /\ DOMAIN cd2 = 1..NumBlocks /\ DOMAIN sc2 = 1..NumBlocks
  /\ \A b \in R : cd2[b] = cd[b] /\ sc2[b] = sc[b]

\* The layout of the blocks that are reachable.
LEMMA KeptLaid ==
  ASSUME NEW l, NEW cd, NEW sc, NEW R, NEW l2, NEW cd2, NEW sc2, Keeping(l, cd, sc, R, l2, cd2, sc2)
  PROVE  /\ Lay(l2) /\ Range1(l2) = R
         /\ \A b \in R : b + 1 \in R => Following(l2, b) = b + 1
<1>1. /\ l \in Seq(Nat) /\ Len(l) = NumBlocks /\ \A i \in 1..NumBlocks : l[i] = i
      /\ 1 \in R /\ R \subseteq 1..NumBlocks
      /\ l2 = Kept(l, {i \in DOMAIN l : l[i] \in R})
  BY DEF Keeping
<1>2. NumBlocks \in Nat \ {0}
  BY BlockAssumption
<1>3. PICK n : n = NumBlocks
  OBVIOUS
<1>4. n \in Nat \ {0} /\ Len(l) = n /\ \A i \in 1..n : l[i] = i
  BY <1>1, <1>2, <1>3
<1>5. /\ Lay(l2) /\ Range1(l2) = R \cap (1..n)
      /\ \A b \in R \cap (1..n) : b + 1 \in R \cap (1..n) => Following(l2, b) = b + 1
  BY <1>1, <1>4, KeptLayout
<1>6. R \cap (1..n) = R
  BY <1>1, <1>3
<1> QED
  BY <1>5, <1>6

\* Block b after the unreachable blocks have gone.
Remains(l2, R, c, s, b) ==
  /\ Formed(c) /\ s \in Seq(R \ {1})
  /\ Covered(c, Following(l2, b), s)
  /\ Single(c, s) \/ Plain(c, s, Following(l2, b))
  /\ \A i \in DOMAIN c : IsWork(c[i]) => i = 1 /\ c[i].reg = b

\* The edges of a block that does not fall through do not depend on what
\* follows.
LEMMA PlainStops ==
  ASSUME NEW c, NEW s, NEW ft, Plain(c, s, ft), ~Falls(c), NEW ft2
  PROVE  Plain(c, s, ft2)
<1>1. PICK m, op, r : m \in Nat /\ ((\E x, y : PlainTwo(c, s, m, op, r, x, y)) \/ \E x : PlainOne(c, s, ft, m, op, r, x))
  BY DEF Plain
<1>2. ~\E x : PlainOne(c, s, ft, m, op, r, x)
  <2>1. SUFFICES ASSUME NEW x, PlainOne(c, s, ft, m, op, r, x) PROVE FALSE
    OBVIOUS
  <2>2. IsCond(c, m, op, r, x)
    BY <2>1 DEF PlainOne
  <2>3. CondProfile(c, m, op, r, x)
    BY <2>2, CondFacts
  <2> QED
    BY <2>3 DEF CondProfile
<1>3. m \in Nat /\ \E x, y : PlainTwo(c, s, m, op, r, x, y)
  BY <1>1, <1>2
<1> QED
  BY <1>3 DEF Plain

\* A sequence whose elements are all in a smaller set.
LEMMA SeqIn ==
  ASSUME NEW T, NEW s \in Seq(T), NEW R, Range1(s) \subseteq R, NEW U, T \cap R \subseteq U
  PROVE  s \in Seq(U)
<1>1. \A i \in 1..Len(s) : s[i] \in T /\ s[i] \in R
  <2>1. DOMAIN s = 1..Len(s)
    OBVIOUS
  <2> QED
    BY <2>1 DEF Range1
<1>2. \A i \in 1..Len(s) : s[i] \in U
  BY <1>1
<1> QED
  BY <1>2

\* A reachable block keeps its code and its edges.
LEMMA KeptBlock ==
  ASSUME NEW l, NEW cd, NEW sc, NEW R, NEW l2, NEW cd2, NEW sc2, Keeping(l, cd, sc, R, l2, cd2, sc2),
         NEW b \in R
  PROVE  Remains(l2, R, cd2[b], sc2[b], b)
<1>1. PICK c, s : c = cd[b] /\ s = sc[b]
  OBVIOUS
<1>2. c = cd2[b] /\ s = sc2[b] /\ Range1(s) \subseteq R /\ Selected(c, b, s) /\ b \in 1..NumBlocks
  BY <1>1 DEF Keeping
<1>3. /\ Formed(c) /\ Edged(c, b, s)
      /\ \A i \in DOMAIN c : IsWork(c[i]) => i = 1 /\ c[i].reg = b
  BY <1>2 DEF Selected
<1>4. PICK a : a = After(b)
  OBVIOUS
<1>5. /\ s \in Seq(2..NumBlocks) /\ Covered(c, a, s) /\ (Falls(c) => a # 0)
      /\ Single(c, s) \/ Plain(c, s, a)
  BY <1>3, <1>4 DEF Edged
<1>6. s \in Seq(R \ {1})
  <2>1. (2..NumBlocks) \cap R \subseteq R \ {1}
    BY BlockAssumption
  <2> QED
    BY <1>2, <1>5, <2>1, SeqIn
<1>7. Falls(c) => Following(l2, b) = a
  <2>1. HAVE Falls(c)
  <2>2. a # 0 /\ a \in R
    BY <1>2, <1>5, <2>1 DEF Covered
  <2>3. a = b + 1
    BY <1>2, <1>4, <2>2, TargetsIs
  <2> QED
    BY <2>2, <2>3, KeptLaid
<1>8. Covered(c, Following(l2, b), s)
  BY <1>5, <1>7 DEF Covered
<1>9. Single(c, s) \/ Plain(c, s, Following(l2, b))
  <2>1. CASE Falls(c)
    BY <1>5, <1>7, <2>1
  <2>2. CASE ~Falls(c)
    BY <1>5, <2>2, PlainStops
  <2> QED
    BY <2>1, <2>2
<1>10. Remains(l2, R, c, s, b)
  BY <1>3, <1>6, <1>8, <1>9 DEF Remains
<1> QED
  BY <1>2, <1>10

\* The reachable blocks are a function whose edges cover its code.
LEMMA KeptWhole ==
  ASSUME NEW l, NEW cd, NEW sc, NEW R, NEW l2, NEW cd2, NEW sc2, Keeping(l, cd, sc, R, l2, cd2, sc2)
  PROVE  Whole(l2, cd2, sc2) /\ \A b \in Range1(l2) : Ready(l2, cd2, sc2, b)
<1>1. Lay(l2) /\ Range1(l2) = R
  BY KeptLaid
<1>2. \A b \in R : Remains(l2, R, cd2[b], sc2[b], b)
  BY KeptBlock
<1>3. DOMAIN cd2 = 1..NumBlocks /\ DOMAIN sc2 = 1..NumBlocks /\ R \subseteq 1..NumBlocks
  BY DEF Keeping
<1>4. OwnWork(l2, cd2)
  <2>1. \A b \in R : \A i \in DOMAIN cd2[b] : IsWork(cd2[b][i]) => i = 1 /\ cd2[b][i].reg = b
    BY <1>2 DEF Remains
  <2> QED
    BY <1>1, <2>1 DEF OwnWork
<1>5. \A b \in R : /\ Formed(cd2[b]) /\ sc2[b] \in Seq(R \ {1})
                   /\ Covered(cd2[b], Following(l2, b), sc2[b])
  BY <1>2 DEF Remains
<1>6. \A b \in R : Ready(l2, cd2, sc2, b)
  BY <1>2 DEF Remains, Ready
<1>7. Whole(l2, cd2, sc2)
  BY <1>1, <1>3, <1>4, <1>5 DEF Whole
<1> QED
  BY <1>1, <1>6, <1>7

\* The comparisons of a block are among those of the function.
LEMMA SitesHold ==
  ASSUME NEW cd, NEW b \in DOMAIN cd, Formed(cd[b])
  PROVE  RegsIn(cd[b], Sites(cd))
<1>1. RegsIn(cd[b], 1..NumBlocks)
  BY RegsBound
<1>2. DOMAIN cd[b] = 1..Len(cd[b])
  BY DEF Formed, Form
<1> QED
  BY <1>1, <1>2 DEF RegsIn, Sites

\* The control states of branch folding, and those of them with a block to
\* look at.
FoldPCs == {"fix", "start", "next", "top", "prior", "cur", "place", "dead", "done"}
BodyPCs == {"top", "prior", "cur", "place", "dead"}

\* The function while branch folding rewrites it: well formed, or well formed
\* but for the empty block that is about to be removed.
BodyOK(p, l, cd, sc, x) == Whole(l, cd, sc) \/ (p = "dead" /\ Half(l, cd, sc, x) /\ cd[x] = <<>>)

\* The previous branch that an answer describes has been rewritten as far as
\* it can be.
Settled(a) == ~SameDestination(a) /\ ~OnlyHere(a) /\ ~FalseHere(a) /\ ~TrueHere(a)

\* Where branch folding is: the block looked at and the iterator are in the
\* layout.
PosInv ==
  /\ pc \in BranchPCs /\ changed \in BOOLEAN
  /\ pc = "fix" => MBB \in Blocks
  /\ pc \in BodyPCs => MBB \in Blocks \ {1} /\ I # MBB
  /\ I \in (Blocks \ {1}) \cup {0}
  /\ pc \in {"select", "split", "fix", "start"} => I = 0
  /\ pc = "cur" => Settled(Analyze(PrevBB))

\* The function while branch folding rewrites it.
FoldInv == pc \in FoldPCs => BodyOK(pc, layout, code, succs, MBB)

\* The recorded flow f is the flow of the code.
Flows(l, cd, f) ==
  \E S : /\ \A b \in Range1(l) : RegsIn(cd[b], S)
         /\ \A k \in Works(l, cd) :
              /\ DOMAIN f[k] = [S -> Outcomes]
              /\ \A nu \in [S -> Outcomes] : NextWork(l, cd, k, nu) = f[k][nu]

\* Once it is recorded, the flow is the flow of the code.
FlowInv == pc # "select" => Flows(layout, code, flow)

\* Flow that was recorded stays right while the code evolves.
LEMMA FlowsOn ==
  ASSUME NEW l, NEW cd, NEW l2, NEW cd2, NEW f, Flows(l, cd, f), Evolves(l, cd, l2, cd2)
  PROVE  Flows(l2, cd2, f)
<1>1. PICK S : /\ \A b \in Range1(l) : RegsIn(cd[b], S)
               /\ \A k \in Works(l, cd) :
                    /\ DOMAIN f[k] = [S -> Outcomes]
                    /\ \A nu \in [S -> Outcomes] : NextWork(l, cd, k, nu) = f[k][nu]
  BY DEF Flows
<1>2. SameFlow(l, cd, l2, cd2, S) /\ \A b \in Range1(l2) : RegsIn(cd2[b], S)
  BY <1>1 DEF Evolves
<1>3. \A k \in Works(l2, cd2) :
        /\ DOMAIN f[k] = [S -> Outcomes]
        /\ \A nu \in [S -> Outcomes] : NextWork(l2, cd2, k, nu) = f[k][nu]
  BY <1>1, <1>2 DEF SameFlow
<1> QED
  BY <1>2, <1>3 DEF Flows

\* The blocks of the function while branch folding rewrites it.
LEMMA BodyBlocks ==
  ASSUME Whole(layout, code, succs)
  PROVE  /\ Blocks = Range1(layout) /\ Lay(layout) /\ DOMAIN succs = DOMAIN code
         /\ Blocks \subseteq DOMAIN code
         /\ \A b \in Blocks :
              /\ Formed(code[b]) /\ succs[b] \in Seq(Blocks \ {1})
              /\ Covered(code[b], LayoutSuccessor(b), succs[b])
              /\ Analyze(b) = Ana(code[b])
              /\ CleanedEdges(b) = CleanEdges(code[b], succs[b], LayoutSuccessor(b))
              /\ LayoutSuccessor(b) = Following(layout, b)
BY DEF Whole, Blocks, LayoutSuccessor, Analyze, Ana, CleanedEdges, CleanEdges

\* The block before the block that is looked at.
LEMMA PrevFacts ==
  ASSUME Whole(layout, code, succs), MBB \in Blocks \ {1}
  PROVE  /\ PrevBB \in Blocks /\ PrevBB # MBB /\ Following(layout, PrevBB) = MBB
         /\ LayoutSuccessor(PrevBB) = MBB
         /\ \A b \in Blocks : Following(layout, b) = MBB => b = PrevBB
         /\ MBB \in Targets1
<1>1. Lay(layout) /\ MBB \in Range1(layout) /\ Blocks = Range1(layout)
  BY BodyBlocks
<1>2. PrevBB \in Blocks \ {MBB} /\ Following(layout, PrevBB) = MBB
  BY <1>1, PriorFacts DEF PrevBB, Prior, Position
<1>3. MBB \in Nat /\ MBB # 0 /\ MBB # 1
  BY <1>1, LayNat
<1> QED
  BY <1>1, <1>2, <1>3, OneBefore DEF LayoutSuccessor, Targets1

\* A single block rewritten in place.
LEMMA OneRewritten ==
  ASSUME Whole(layout, code, succs), NEW x \in Blocks, NEW d, NEW s2,
         BlockStep(code[x], Following(layout, x), d, Following(layout, x), s2, Blocks \ {1}),
         layout' = layout, code' = [code EXCEPT ![x] = d],
         succs' = [succs EXCEPT ![x] = s2] \/ (succs' = succs /\ s2 = succs[x])
  PROVE  Whole(layout', code', succs') /\ Evolves(layout, code, layout', code')
<1>1. /\ Blocks = Range1(layout) /\ Lay(layout) /\ DOMAIN succs = DOMAIN code
      /\ Blocks \subseteq DOMAIN code
      /\ \A b \in Blocks :
           /\ Formed(code[b]) /\ succs[b] \in Seq(Blocks \ {1})
           /\ Covered(code[b], Following(layout, b), succs[b])
  BY BodyBlocks
<1>2. \A b \in Range1(layout) :
        BlockStep(code[b], Following(layout, b), code'[b], Following(layout', b), succs'[b], Range1(layout) \ {1})
  <2>1. ASSUME NEW b \in Blocks
        PROVE  BlockStep(code[b], Following(layout, b), code'[b], Following(layout', b), succs'[b], Blocks \ {1})
    <3>1. CASE b = x
      BY <1>1, <3>1
    <3>2. CASE b # x
      <4>1. code'[b] = code[b] /\ succs'[b] = succs[b]
        BY <1>1, <3>2
      <4>2. BlockStep(code[b], Following(layout, b), code[b], Following(layout, b), succs[b], Blocks \ {1})
        BY <1>1, SameBlock
      <4> QED
        BY <4>1, <4>2
    <3> QED
      BY <3>1, <3>2
  <2> QED
    BY <1>1, <2>1
<1>3. DOMAIN code' = DOMAIN code /\ DOMAIN succs' = DOMAIN code
  BY <1>1
<1> QED
  BY <1>1, <1>2, <1>3, StepByBlocks

\* What a step of branch folding must establish.
Follows ==
  /\ BodyOK(pc', layout', code', succs', MBB')
  /\ Evolves(layout, code, layout', code')

\* Cleaning a block keeps the function whole.
LEMMA CleanStep ==
  ASSUME Whole(layout, code, succs), NEW x \in Blocks, Clean(x), layout' = layout
  PROVE  Whole(layout', code', succs') /\ Evolves(layout, code, layout', code')
<1>1. /\ Formed(code[x]) /\ succs[x] \in Seq(Blocks \ {1})
      /\ Covered(code[x], Following(layout, x), succs[x])
      /\ Analyze(x) = Ana(code[x])
      /\ CleanedEdges(x) = CleanEdges(code[x], succs[x], Following(layout, x))
  BY BodyBlocks
<1>2. PICK d : d = Ana(code[x]).code
  OBVIOUS
<1>3. PICK s2 : s2 = CleanEdges(code[x], succs[x], Following(layout, x))
  OBVIOUS
<1>4. BlockStep(code[x], Following(layout, x), d, Following(layout, x), s2, Blocks \ {1})
  BY <1>1, <1>2, <1>3, CleanBlock
<1>5. code' = [code EXCEPT ![x] = d] /\ succs' = [succs EXCEPT ![x] = s2]
  BY <1>1, <1>2, <1>3 DEF Clean
<1> QED
  BY <1>4, <1>5, OneRewritten

\* A step that changes no code.
LEMMA StillStep ==
  ASSUME Whole(layout, code, succs), UNCHANGED <<layout, code, succs>>
  PROVE  Whole(layout', code', succs') /\ Evolves(layout, code, layout', code')
<1>1. /\ Blocks = Range1(layout) /\ Lay(layout) /\ DOMAIN succs = DOMAIN code
      /\ \A b \in Blocks : Formed(code[b]) /\ succs[b] \in Seq(Blocks \ {1}) /\ Covered(code[b], Following(layout, b), succs[b])
  BY BodyBlocks
<1>2. \A b \in Range1(layout) :
        BlockStep(code[b], Following(layout, b), code'[b], Following(layout', b), succs'[b], Range1(layout) \ {1})
  BY <1>1, SameBlock
<1>3. DOMAIN code' = DOMAIN code /\ DOMAIN succs' = DOMAIN code
  BY <1>1
<1> QED
  BY <1>1, <1>2, <1>3, StepByBlocks

\* FixCFG keeps the function whole.
LEMMA FixStep ==
  ASSUME FoldInv, PosInv, FixCFG
  PROVE  Follows
<1>1. Whole(layout, code, succs) /\ MBB \in Blocks /\ Clean(MBB) /\ layout' = layout
  BY DEF FixCFG, FoldInv, FoldPCs, BodyOK, PosInv
<1> QED
  BY <1>1, CleanStep DEF Follows, BodyOK

\* AnalyzePrior keeps the function whole.
LEMMA PriorCleanStep ==
  ASSUME FoldInv, PosInv, AnalyzePrior
  PROVE  Follows
<1>1. Whole(layout, code, succs) /\ MBB \in Blocks \ {1} /\ Clean(PrevBB) /\ layout' = layout
  BY DEF AnalyzePrior, FoldInv, FoldPCs, BodyPCs, BodyOK, PosInv
<1>2. PrevBB \in Blocks
  BY <1>1, PrevFacts
<1> QED
  BY <1>1, <1>2, CleanStep DEF Follows, BodyOK

\* AnalyzeCurrent keeps the function whole.
LEMMA CurrentCleanStep ==
  ASSUME FoldInv, PosInv, AnalyzeCurrent
  PROVE  Follows
<1>1. Whole(layout, code, succs) /\ MBB \in Blocks /\ Clean(MBB) /\ layout' = layout
  BY DEF AnalyzeCurrent, FoldInv, FoldPCs, BodyPCs, BodyOK, PosInv
<1> QED
  BY <1>1, CleanStep DEF Follows, BodyOK

\* The block before MBB gets instructions d.
LEMMA PriorRewritten ==
  ASSUME Whole(layout, code, succs), MBB \in Blocks \ {1}, NEW d, RewritePrior(d),
         BlockStep(code[PrevBB], MBB, d, MBB, succs[PrevBB], Blocks \ {1})
  PROVE  Follows
<1>1. PrevBB \in Blocks /\ Following(layout, PrevBB) = MBB
  BY PrevFacts
<1>2. PICK x \in Blocks : x = PrevBB
  BY <1>1
<1>3. BlockStep(code[x], Following(layout, x), d, Following(layout, x), succs[x], Blocks \ {1})
  BY <1>1, <1>2
<1>4. layout' = layout /\ code' = [code EXCEPT ![x] = d] /\ succs' = succs
  BY <1>2 DEF RewritePrior
<1>5. Whole(layout', code', succs') /\ Evolves(layout, code, layout', code')
  BY <1>3, <1>4, OneRewritten
<1> QED
  BY <1>5 DEF Follows, BodyOK

\* The block that is looked at and the one before it.
LEMMA AtPrior ==
  ASSUME FoldInv, PosInv, pc \in {"top", "prior", "cur", "place"}
  PROVE  /\ Whole(layout, code, succs) /\ MBB \in Blocks \ {1} /\ MBB \in Targets1
         /\ PrevBB \in Blocks /\ PrevBB # MBB /\ Following(layout, PrevBB) = MBB
         /\ Formed(code[PrevBB]) /\ succs[PrevBB] \in Seq(Blocks \ {1})
         /\ Covered(code[PrevBB], MBB, succs[PrevBB])
         /\ Analyze(PrevBB) = Ana(code[PrevBB])
         /\ Formed(code[MBB]) /\ succs[MBB] \in Seq(Blocks \ {1})
         /\ Covered(code[MBB], Following(layout, MBB), succs[MBB])
         /\ Analyze(MBB) = Ana(code[MBB])
<1>1. Whole(layout, code, succs) /\ MBB \in Blocks \ {1}
  BY DEF FoldInv, FoldPCs, BodyPCs, BodyOK, PosInv
<1>2. PrevBB \in Blocks /\ PrevBB # MBB /\ Following(layout, PrevBB) = MBB /\ MBB \in Targets1
  BY <1>1, PrevFacts
<1>3. \A b \in Blocks :
        /\ Formed(code[b]) /\ succs[b] \in Seq(Blocks \ {1})
        /\ Covered(code[b], Following(layout, b), succs[b])
        /\ Analyze(b) = Ana(code[b])
  BY <1>1, BodyBlocks
<1> QED
  BY <1>1, <1>2, <1>3

\* JoinDestinations keeps the function whole.
LEMMA JoinStep ==
  ASSUME FoldInv, PosInv, JoinDestinations
  PROVE  Follows
<1>1. PICK a : a = Analyze(PrevBB)
  OBVIOUS
<1>2. PICK c : c = code[PrevBB]
  OBVIOUS
<1>3. PICK d : d = IF a.tbb = MBB THEN RemoveBranch(c) ELSE Rewritten(c, a.tbb, 0, <<>>)
  OBVIOUS
<1>4. pc = "prior" /\ a.tbb # 0 /\ a.fbb = a.tbb /\ RewritePrior(d)
  BY <1>1, <1>2, <1>3 DEF JoinDestinations, SameDestination
<1>5. /\ Whole(layout, code, succs) /\ MBB \in Blocks \ {1}
      /\ Formed(c) /\ succs[PrevBB] \in Seq(Blocks \ {1})
      /\ Covered(c, MBB, succs[PrevBB]) /\ a = Ana(c)
  BY <1>1, <1>2, <1>4, AtPrior
<1>6. BlockStep(c, MBB, d, MBB, succs[PrevBB], Blocks \ {1})
  BY <1>3, <1>4, <1>5, JoinBlock
<1> QED
  BY <1>2, <1>4, <1>5, <1>6, PriorRewritten

\* RemoveOnlyBranch keeps the function whole.
LEMMA OnlyStep ==
  ASSUME FoldInv, PosInv, RemoveOnlyBranch
  PROVE  Follows
<1>1. PICK a : a = Analyze(PrevBB)
  OBVIOUS
<1>2. PICK c : c = code[PrevBB]
  OBVIOUS
<1>3. PICK d : d = RemoveBranch(c)
  OBVIOUS
<1>4. pc = "prior" /\ a.tbb = MBB /\ a.fbb = 0 /\ RewritePrior(d)
  BY <1>1, <1>2, <1>3 DEF RemoveOnlyBranch, OnlyHere
<1>5. /\ Whole(layout, code, succs) /\ MBB \in Blocks \ {1} /\ MBB # 0
      /\ Formed(c) /\ succs[PrevBB] \in Seq(Blocks \ {1})
      /\ Covered(c, MBB, succs[PrevBB]) /\ a = Ana(c)
  BY <1>1, <1>2, <1>4, AtPrior DEF Targets1
<1>6. BlockStep(c, MBB, d, MBB, succs[PrevBB], Blocks \ {1})
  BY <1>3, <1>4, <1>5, OnlyBlock
<1> QED
  BY <1>2, <1>4, <1>5, <1>6, PriorRewritten

\* DropFalseBranch keeps the function whole.
LEMMA FalseStep ==
  ASSUME FoldInv, PosInv, DropFalseBranch
  PROVE  Follows
<1>1. PICK a : a = Analyze(PrevBB)
  OBVIOUS
<1>2. PICK c : c = code[PrevBB]
  OBVIOUS
<1>3. PICK d : d = Rewritten(c, a.tbb, 0, a.cond)
  OBVIOUS
<1>4. pc = "prior" /\ a.fbb = MBB /\ RewritePrior(d)
  BY <1>1, <1>2, <1>3 DEF DropFalseBranch, FalseHere
<1>5. /\ Whole(layout, code, succs) /\ MBB \in Blocks \ {1} /\ MBB # 0
      /\ Formed(c) /\ succs[PrevBB] \in Seq(Blocks \ {1})
      /\ Covered(c, MBB, succs[PrevBB]) /\ a = Ana(c)
  BY <1>1, <1>2, <1>4, AtPrior DEF Targets1
<1>6. BlockStep(c, MBB, d, MBB, succs[PrevBB], Blocks \ {1})
  BY <1>3, <1>4, <1>5, FalseBlock
<1> QED
  BY <1>2, <1>4, <1>5, <1>6, PriorRewritten

\* ReversePrior keeps the function whole.
LEMMA ReverseStep ==
  ASSUME FoldInv, PosInv, ReversePrior
  PROVE  Follows
<1>1. PICK a : a = Analyze(PrevBB)
  OBVIOUS
<1>2. PICK c : c = code[PrevBB]
  OBVIOUS
<1>3. PICK d : d = Rewritten(c, a.fbb, 0, ReverseBranchCondition(a.cond))
  OBVIOUS
<1>4. pc = "prior" /\ a.tbb = MBB /\ a.fbb # 0 /\ RewritePrior(d)
  BY <1>1, <1>2, <1>3 DEF ReversePrior, TrueHere
<1>5. /\ Whole(layout, code, succs) /\ MBB \in Blocks \ {1}
      /\ Formed(c) /\ succs[PrevBB] \in Seq(Blocks \ {1})
      /\ Covered(c, MBB, succs[PrevBB]) /\ a = Ana(c)
  BY <1>1, <1>2, <1>4, AtPrior
<1>6. BlockStep(c, MBB, d, MBB, succs[PrevBB], Blocks \ {1})
  BY <1>3, <1>4, <1>5, ReverseBlock
<1> QED
  BY <1>2, <1>4, <1>5, <1>6, PriorRewritten

\* ReverseLoop keeps the function whole.
LEMMA LoopStep ==
  ASSUME FoldInv, PosInv, ReverseLoop
  PROVE  Follows
<1>1. PICK a : a = Analyze(MBB)
  OBVIOUS
<1>2. PICK c : c = code[MBB]
  OBVIOUS
<1>3. PICK d : d = Rewritten(c, a.fbb, a.tbb, ReverseBranchCondition(a.cond))
  OBVIOUS
<1>4. /\ pc = "cur" /\ a.fbb = MBB /\ layout' = layout /\ succs' = succs
      /\ code' = [code EXCEPT ![MBB] = d]
  BY <1>1, <1>2, <1>3 DEF ReverseLoop, SelfLoop, Reoptimize
<1>5. /\ Whole(layout, code, succs) /\ MBB \in Blocks /\ MBB # 0
      /\ Formed(c) /\ succs[MBB] \in Seq(Blocks \ {1})
      /\ Covered(c, Following(layout, MBB), succs[MBB]) /\ a = Ana(c)
  BY <1>1, <1>2, <1>4, AtPrior DEF Targets1
<1>6. BlockStep(c, Following(layout, MBB), d, Following(layout, MBB), succs[MBB], Blocks \ {1})
  BY <1>3, <1>4, <1>5, LoopBlock
<1>7. PICK x \in Blocks : x = MBB
  BY <1>5
<1>8. Whole(layout', code', succs') /\ Evolves(layout, code, layout', code')
  BY <1>2, <1>4, <1>5, <1>6, <1>7, OneRewritten
<1> QED
  BY <1>8 DEF Follows, BodyOK

\* SkipEmptyBlock leaves the function whole but for the skipped block.
LEMMA SkipStep ==
  ASSUME FoldInv, PosInv, SkipEmptyBlock
  PROVE  Follows
<1>1. /\ pc = "top" /\ code[MBB] = <<>> /\ layout' = layout /\ MBB' = MBB /\ pc' = "dead"
  BY DEF SkipEmptyBlock
<1>2. Whole(layout, code, succs) /\ MBB \in Blocks \ {1}
  BY <1>1, AtPrior
<1>3. Blocks = Range1(layout) /\ DOMAIN succs = DOMAIN code /\ Blocks \subseteq DOMAIN code
  BY <1>2, BodyBlocks
<1>4. PICK t : t = LayoutSuccessor(MBB)
  OBVIOUS
<1>5. CASE Preds(MBB) = {} \/ t = 0
  <2>1. UNCHANGED <<layout, code, succs>>
    BY <1>1, <1>4, <1>5 DEF SkipEmptyBlock
  <2> QED
    BY <1>2, <2>1, StillStep DEF Follows, BodyOK
<1>6. CASE ~(Preds(MBB) = {} \/ t = 0)
  <2>1. /\ code' = [b \in DOMAIN code |->
                      ReplaceMBBInJumpTables(
                        IF b \in Preds(MBB) THEN ReplaceUses(code[b], MBB, t) ELSE code[b], MBB, t)]
        /\ succs' = [b \in DOMAIN succs |->
                       IF b \in Preds(MBB) THEN ReplaceEdges(succs[b], MBB, t) ELSE succs[b]]
    BY <1>1, <1>4, <1>6 DEF SkipEmptyBlock
  <2>2. \A b \in Blocks : b \in Preds(MBB) <=> MBB \in Range1(succs[b])
    BY DEF Preds, isSuccessor
  <2>3. \A b \in Range1(layout) :
           /\ code'[b] = ReplaceMBBInJumpTables(
                IF MBB \in Range1(succs[b]) THEN ReplaceUses(code[b], MBB, t) ELSE code[b], MBB, t)
           /\ succs'[b] = IF MBB \in Range1(succs[b]) THEN ReplaceEdges(succs[b], MBB, t) ELSE succs[b]
    BY <1>3, <2>1, <2>2
  <2>4. DOMAIN code' = DOMAIN code /\ DOMAIN succs' = DOMAIN code
    BY <1>3, <2>1
  <2>5. t = Following(layout, MBB) /\ t # 0
    BY <1>4, <1>6 DEF LayoutSuccessor
  <2>6. PICK x \in Range1(layout) \ {1} : x = MBB
    BY <1>2, <1>3
  <2>7. Detaches(layout, code, succs, x, t, code', succs')
    BY <1>1, <1>2, <2>3, <2>4, <2>5, <2>6, SkipBlock
  <2>8. /\ Half(layout, code', succs', x) /\ code'[x] = <<>>
        /\ Evolves(layout, code, layout, code')
    BY <2>7, Detach
  <2> QED
    BY <1>1, <2>6, <2>8 DEF Follows, BodyOK
<1> QED
  BY <1>5, <1>6

\* MergeIntoPrior leaves the function whole but for the merged block.
LEMMA MergeStep ==
  ASSUME FoldInv, PosInv, MergeIntoPrior
  PROVE  Follows
<1>1. PICK p : p = PrevBB
  OBVIOUS
<1>2. PICK x : x = MBB
  OBVIOUS
<1>3. PICK a : a = Analyze(PrevBB)
  OBVIOUS
<1>4. /\ pc = "prior" /\ layout' = layout /\ MBB' = MBB /\ pc' = "dead"
      /\ code' = [code EXCEPT ![p] = @ \o code[x], ![x] = <<>>]
      /\ succs' = [succs EXCEPT ![p] = succs[x], ![x] = <<>>]
      /\ ~a.fail /\ a.tbb = 0 /\ OnePred(MBB) /\ Len(succs[p]) = 1
  BY <1>1, <1>2, <1>3 DEF MergeIntoPrior, OnlyFallThrough
<1>5. /\ Whole(layout, code, succs) /\ x \in Blocks \ {1} /\ p \in Blocks /\ p # x
      /\ Following(layout, p) = x /\ Formed(code[p]) /\ succs[p] \in Seq(Blocks \ {1})
      /\ Covered(code[p], x, succs[p]) /\ a = Ana(code[p])
  BY <1>1, <1>2, <1>3, <1>4, AtPrior
<1>6. Blocks = Range1(layout) /\ DOMAIN succs = DOMAIN code /\ Blocks \subseteq DOMAIN code
      /\ \A b \in Blocks : succs[b] \in Seq(Blocks \ {1})
  BY <1>5, BodyBlocks
<1>7. PICK m \in Nat : IsFall(code[p], m) /\ FallProfile(code[p], m)
  <2>1. PICK m \in Nat : Form(code[p], m)
    BY <1>5 DEF Formed
  <2> QED
    BY <1>4, <1>5, <2>1, NoTarget
<1>8. ~Halts(code[p])
  <2>1. Halts(code[p]) => succs[p] = <<>>
    BY <1>5 DEF Covered
  <2>2. Len(succs[p]) = 1
    BY <1>4
  <2>3. succs[p] # <<>>
    BY <2>2
  <2> QED
    BY <2>1, <2>3
<1>9. ASSUME NEW b \in Blocks \ {p} PROVE x \notin Range1(succs[b])
  <2>1. x \in Range1(succs[p])
    BY <1>5, <1>7, <1>8 DEF Covered, FallProfile
  <2>2. PICK i \in DOMAIN succs[p] : succs[p][i] = x
    BY <2>1 DEF Range1
  <2>3. <<p, i>> \in PredEdges(x)
    BY <1>5, <2>2 DEF PredEdges
  <2>4. SUFFICES ASSUME NEW j \in DOMAIN succs[b], succs[b][j] = x PROVE FALSE
    BY DEF Range1
  <2>5. <<b, j>> \in PredEdges(x)
    BY <2>4 DEF PredEdges
  <2>6. PICK e : PredEdges(x) = {e}
    BY <1>2, <1>4 DEF OnePred
  <2>7. <<p, i>> = <<b, j>>
    BY <2>3, <2>5, <2>6
  <2> QED
    BY <2>7
<1>10. /\ DOMAIN code' = DOMAIN code /\ DOMAIN succs' = DOMAIN code
       /\ code'[p] = code[p] \o code[x] /\ code'[x] = <<>> /\ succs'[p] = succs[x] /\ succs'[x] = <<>>
       /\ \A b \in Range1(layout) \ {p, x} : code'[b] = code[b] /\ succs'[b] = succs[b]
  BY <1>4, <1>5, <1>6
<1>11. Appends(layout, code, succs, p, x, code', succs')
  BY <1>5, <1>6, <1>7, <1>8, <1>9, <1>10 DEF Appends
<1>12. /\ Half(layout, code', succs', x) /\ code'[x] = <<>>
       /\ Evolves(layout, code, layout, code')
  BY <1>11, MergeBlock
<1> QED
  BY <1>2, <1>4, <1>12 DEF Follows, BodyOK

\* Evolving is transitive.
LEMMA EvolvesOn ==
  ASSUME NEW l, NEW cd, NEW l1, NEW cd1, NEW l2, NEW cd2, Evolves(l, cd, l1, cd1), Evolves(l1, cd1, l2, cd2)
  PROVE  Evolves(l, cd, l2, cd2)
<1>1. Well(l2, cd2)
  BY DEF Evolves
<1>2. ASSUME NEW S, \A b \in Range1(l) : RegsIn(cd[b], S)
      PROVE  SameFlow(l, cd, l2, cd2, S) /\ \A b \in Range1(l2) : RegsIn(cd2[b], S)
  <2>1. SameFlow(l, cd, l1, cd1, S) /\ \A b \in Range1(l1) : RegsIn(cd1[b], S)
    BY <1>2 DEF Evolves
  <2>2. SameFlow(l1, cd1, l2, cd2, S) /\ \A b \in Range1(l2) : RegsIn(cd2[b], S)
    BY <2>1 DEF Evolves
  <2> QED
    BY <2>1, <2>2 DEF SameFlow
<1> QED
  BY <1>1, <1>2 DEF Evolves

\* A failed answer names no destination and changes no code.
LEMMA FailedAnswer ==
  ASSUME NEW c, Formed(c), NEW a, a = Ana(c), a.fail
  PROVE  a.tbb = 0 /\ a.fbb = 0 /\ a.code = c
<1>1. PICK m \in Nat : Form(c, m)
  BY DEF Formed
<1>2. PICK f : f = AnaF(c)
  OBVIOUS
<1>3. \/ CaseFall(c, m, a, f)
      \/ \E t : CaseJump(c, m, a, f, t)
      \/ \E op, r, t : CaseCond(c, m, a, f, op, r, t)
      \/ \E op, r, t, u : CaseCond2(c, m, a, f, op, r, t, u)
      \/ \E t, u : CaseJumps(c, m, a, f, t, u)
      \/ CaseOther(c, m, a, f)
  BY <1>1, <1>2, AnaCases
<1>4. NoAnswer(a, c)
  BY <1>3 DEF CaseFall, CaseJump, CaseCond, CaseCond2, CaseJumps, CaseOther, Answer
<1> QED
  BY <1>4 DEF NoAnswer

\* A settled branch of the block before does not lead to the following block.
LEMMA SettledBranch ==
  ASSUME NEW c, Formed(c), NEW a, a = Ana(c), Settled(a), MBB \in Targets1
  PROVE  MBB \notin {a.tbb, a.fbb}
<1>1. MBB # 0
  BY DEF Targets1
<1>2. CASE a.fail
  BY <1>1, <1>2, FailedAnswer
<1>3. CASE ~a.fail
  BY <1>1, <1>3 DEF Settled, SameDestination, OnlyHere, FalseHere, TrueHere
<1> QED
  BY <1>2, <1>3

\* The block before, with its fall through made explicit.
LEMMA ExplicitStep ==
  ASSUME FoldInv, PosInv, pc = "cur", NEW d, d = ExplicitPrior
  PROVE  BlockStep(code[PrevBB], MBB, d, MBB, succs[PrevBB], Blocks \ {1}) /\ ~Falls(d)
<1>1. PICK a : a = Analyze(PrevBB)
  OBVIOUS
<1>2. PICK c : c = code[PrevBB]
  OBVIOUS
<1>3. PICK s : s = succs[PrevBB]
  OBVIOUS
<1>4. /\ MBB \in Targets1 /\ MBB \in Blocks \ {1} /\ Formed(c) /\ s \in Seq(Blocks \ {1})
      /\ Covered(c, MBB, s) /\ a = Ana(c) /\ LayoutSuccessor(PrevBB) = MBB
  BY <1>1, <1>2, <1>3, AtPrior DEF LayoutSuccessor
<1>5. canFallThrough(PrevBB) <=> CanFall(c, s, MBB)
  BY <1>2, <1>3, <1>4, CanFallIs
<1>6. isSuccessor(PrevBB, MBB) <=> MBB \in Range1(s)
  BY <1>3 DEF isSuccessor
<1>7. MBB \notin {a.tbb, a.fbb}
  <2>1. Settled(a)
    BY <1>1 DEF PosInv
  <2> QED
    BY <1>4, <2>1, SettledBranch
<1>8. d = IF CanFall(c, s, MBB) /\ MBB \in Range1(s)
            THEN IF a.tbb = 0 THEN Rewritten(c, MBB, 0, a.cond) ELSE Rewritten(c, a.tbb, MBB, a.cond)
            ELSE c
  BY <1>1, <1>2, <1>5, <1>6, <1>7 DEF ExplicitPrior
<1>9. CASE CanFall(c, s, MBB) /\ MBB \in Range1(s)
  <2>1. d = IF a.tbb = 0 THEN Rewritten(c, MBB, 0, a.cond) ELSE Rewritten(c, a.tbb, MBB, a.cond)
    BY <1>8, <1>9
  <2>2. BlockStep(c, MBB, d, MBB, s, Blocks \ {1}) /\ ~Falls(d)
    BY <1>4, <1>7, <1>9, <2>1, ExplicitBlock
  <2> QED
    BY <1>2, <1>3, <2>2
<1>10. CASE ~(CanFall(c, s, MBB) /\ MBB \in Range1(s))
  <2>1. d = c
    BY <1>8, <1>10
  <2>2. PICK m \in Nat : Form(c, m)
    BY <1>4 DEF Formed
  <2>3. MBB # 0
    BY <1>4 DEF Targets1
  <2>4. ~Falls(c)
    BY <1>4, <1>10, <2>2, <2>3, FallsCanFall DEF Covered
  <2>5. BlockStep(c, MBB, c, MBB, s, Blocks \ {1})
    BY <1>4, SameBlock
  <2> QED
    BY <1>2, <1>3, <2>1, <2>4, <2>5
<1> QED
  BY <1>9, <1>10

\* The predecessors of a block that only jumps: the first half of the step
\* gives the block before it its branch.
LEMMA BranchGiven ==
  ASSUME FoldInv, PosInv, pc = "cur", NEW cd1, cd1 = [code EXCEPT ![PrevBB] = ExplicitPrior]
  PROVE  /\ Whole(layout, cd1, succs) /\ Evolves(layout, code, layout, cd1)
         /\ ~FallsInto(layout, cd1, MBB)
<1>1. PICK d : d = ExplicitPrior
  OBVIOUS
<1>2. PICK p : p = PrevBB
  OBVIOUS
<1>3. BlockStep(code[p], MBB, d, MBB, succs[p], Blocks \ {1}) /\ ~Falls(d)
  BY <1>1, <1>2, ExplicitStep
<1>4. /\ Whole(layout, code, succs) /\ p \in Blocks /\ Following(layout, p) = MBB /\ MBB \in Blocks \ {1}
  BY <1>2, AtPrior
<1>5. /\ Blocks = Range1(layout) /\ Lay(layout) /\ DOMAIN succs = DOMAIN code
      /\ Blocks \subseteq DOMAIN code
      /\ \A b \in Blocks :
           /\ Formed(code[b]) /\ succs[b] \in Seq(Blocks \ {1})
           /\ Covered(code[b], Following(layout, b), succs[b])
  BY <1>4, BodyBlocks
<1>6. DOMAIN cd1 = DOMAIN code /\ cd1[p] = d /\ \A b \in Blocks \ {p} : cd1[b] = code[b]
  BY <1>1, <1>2, <1>4, <1>5
<1>7. \A b \in Range1(layout) :
        BlockStep(code[b], Following(layout, b), cd1[b], Following(layout, b), succs[b], Range1(layout) \ {1})
  <2>1. ASSUME NEW b \in Blocks
        PROVE  BlockStep(code[b], Following(layout, b), cd1[b], Following(layout, b), succs[b], Blocks \ {1})
    <3>1. CASE b = p
      BY <1>3, <1>4, <1>6, <3>1
    <3>2. CASE b # p
      <4>1. cd1[b] = code[b]
        BY <1>6, <3>2
      <4>2. BlockStep(code[b], Following(layout, b), code[b], Following(layout, b), succs[b], Blocks \ {1})
        BY <1>5, SameBlock
      <4> QED
        BY <4>1, <4>2
    <3> QED
      BY <3>1, <3>2
  <2> QED
    BY <1>5, <2>1
<1>8. Whole(layout, cd1, succs) /\ Evolves(layout, code, layout, cd1)
  BY <1>4, <1>5, <1>6, <1>7, StepByBlocks
<1>9. ~FallsInto(layout, cd1, MBB)
  <2>1. SUFFICES ASSUME NEW b \in Range1(layout) \ {MBB}, Falls(cd1[b]), Following(layout, b) = MBB PROVE FALSE
    BY DEF FallsInto
  <2>2. b = p
    BY <1>4, <1>5, <2>1, OneBefore
  <2> QED
    BY <1>3, <1>6, <2>1, <2>2
<1> QED
  BY <1>8, <1>9

\* ForwardBlock leaves the function whole but for the forwarded block.
LEMMA ForwardStep ==
  ASSUME FoldInv, PosInv, ForwardBlock
  PROVE  Follows
<1>1. PICK t : t = Analyze(MBB).tbb
  OBVIOUS
<1>2. PICK cd1 : cd1 = [code EXCEPT ![PrevBB] = ExplicitPrior]
  OBVIOUS
<1>3. pc = "cur" /\ Forwardable /\ layout' = layout /\ MBB' = MBB /\ pc' = "dead"
  BY DEF ForwardBlock
<1>4. t # MBB /\ code[MBB] = <<Jmp(t)>>
  BY <1>1, <1>3 DEF Forwardable
<1>5. /\ Whole(layout, cd1, succs) /\ Evolves(layout, code, layout, cd1)
      /\ ~FallsInto(layout, cd1, MBB)
  BY <1>2, <1>3, BranchGiven
<1>6. /\ Whole(layout, code, succs) /\ MBB \in Blocks \ {1} /\ PrevBB \in Blocks /\ PrevBB # MBB
  BY <1>3, AtPrior
<1>7. Blocks = Range1(layout) /\ DOMAIN succs = DOMAIN code /\ Blocks \subseteq DOMAIN code
  BY <1>6, BodyBlocks
<1>8. \A b \in Blocks : cd1[b] = IF b = PrevBB THEN ExplicitPrior ELSE code[b]
  BY <1>2, <1>6, <1>7
<1>9. \A b \in Blocks : b \in Preds(MBB) <=> MBB \in Range1(succs[b])
  BY DEF Preds, isSuccessor
<1>10. /\ DOMAIN code' = DOMAIN code /\ DOMAIN succs' = DOMAIN succs
       /\ \A b \in DOMAIN code : code'[b] =
            ReplaceMBBInJumpTables(
              IF b = MBB THEN <<>>
              ELSE IF b \in Preds(MBB)
                THEN Revectored(IF b = PrevBB THEN ExplicitPrior ELSE code[b], succs[b], t).code
              ELSE IF b = PrevBB THEN ExplicitPrior ELSE code[b], MBB, t)
       /\ \A b \in DOMAIN succs : succs'[b] =
            IF b \in Preds(MBB)
              THEN Revectored(IF b = PrevBB THEN ExplicitPrior ELSE code[b], succs[b], t).succs
              ELSE succs[b]
  BY <1>1 DEF ForwardBlock
<1>11. \A b \in Blocks : succs'[b] =
         IF MBB \in Range1(succs[b]) THEN Revectored(cd1[b], succs[b], t).succs ELSE succs[b]
  BY <1>7, <1>8, <1>9, <1>10
<1>12. \A b \in Blocks \ {MBB} : code'[b] =
         ReplaceMBBInJumpTables(IF MBB \in Range1(succs[b]) THEN Revectored(cd1[b], succs[b], t).code ELSE cd1[b], MBB, t)
  BY <1>7, <1>8, <1>9, <1>10
<1>13. code'[MBB] = <<>>
  BY <1>6, <1>7, <1>10, EmptyTables
<1>14. cd1[MBB] = <<Jmp(t)>>
  BY <1>4, <1>6, <1>8
<1>15. DOMAIN code' = DOMAIN cd1 /\ DOMAIN succs' = DOMAIN cd1
  BY <1>2, <1>7, <1>10
<1>16. Detaches(layout, cd1, succs, MBB, t, code', succs')
  BY <1>4, <1>5, <1>6, <1>7, <1>11, <1>12, <1>13, <1>14, <1>15, ForwardedBlocks
<1>17. /\ Half(layout, code', succs', MBB) /\ Evolves(layout, cd1, layout, code')
  BY <1>16, Detach
<1>18. Evolves(layout, code, layout, code')
  BY <1>5, <1>17, EvolvesOn
<1> QED
  BY <1>3, <1>13, <1>17, <1>18 DEF Follows, BodyOK

\* A block that canFallThrough denies does not fall through.
LEMMA CannotFall ==
  ASSUME Whole(layout, code, succs), NEW b \in Blocks, ~canFallThrough(b)
  PROVE  ~Falls(code[b])
<1>1. PICK ft : ft = LayoutSuccessor(b)
  OBVIOUS
<1>2. /\ Formed(code[b]) /\ succs[b] \in Seq(Blocks \ {1}) /\ Covered(code[b], ft, succs[b])
      /\ Lay(layout) /\ Blocks = Range1(layout)
  BY <1>1, BodyBlocks
<1>3. PICK m \in Nat : Form(code[b], m)
  BY <1>2 DEF Formed
<1>4. ~CanFall(code[b], succs[b], ft)
  BY <1>1, CanFallIs
<1>5. SUFFICES ASSUME Falls(code[b]) PROVE FALSE
  OBVIOUS
<1>6. ft \in Range1(succs[b])
  BY <1>2, <1>5 DEF Covered
<1>7. ft \in Blocks
  BY <1>2, <1>6, SeqRange
<1>8. ft # 0
  BY <1>2, <1>7, LayNat
<1> QED
  BY <1>3, <1>4, <1>5, <1>6, <1>8, FallsCanFall

\* The blocks that were asked for their branch lose a jump after a jump at
\* most.
LEMMA ErasedIs ==
  ASSUME NEW T, NEW b \in DOMAIN code
  PROVE  /\ DOMAIN Erased(T) = DOMAIN code
         /\ Erased(T)[b] \in {code[b], Ana(code[b]).code}
         /\ b \notin T => Erased(T)[b] = code[b]
BY DEF Erased, Analyze, Ana

\* A step that moves blocks and rewrites those outside B.
LEMMA MovedStep ==
  ASSUME Whole(layout, code, succs), NEW B, Rearranges(layout, code, layout', B),
         DOMAIN code' = DOMAIN code, succs' = succs,
         \A b \in Blocks \cap B : code'[b] \in {code[b], Ana(code[b]).code},
         \A b \in Blocks \ B :
           BlockStep(code[b], Following(layout, b), code'[b], Following(layout', b), succs[b], Blocks \ {1})
  PROVE  Follows
<1>1. Blocks = Range1(layout) /\ DOMAIN succs = DOMAIN code
  BY BodyBlocks
<1>2. Lay(layout') /\ Range1(layout') = Range1(layout)
  BY DEF Rearranges
<1>3. PICK l2 : l2 = layout'
  OBVIOUS
<1>4. PICK cd2 : cd2 = code'
  OBVIOUS
<1>5. \A b \in Blocks \cap B :
        BlockStep(code[b], Following(layout, b), cd2[b], Following(l2, b), succs[b], Blocks \ {1})
  BY <1>1, <1>3, <1>4, Rearrange
<1>6. \A b \in Range1(layout) :
        BlockStep(code[b], Following(layout, b), code'[b], Following(layout', b), succs'[b], Range1(layout) \ {1})
  BY <1>1, <1>3, <1>4, <1>5
<1>7. Whole(layout', code', succs') /\ Evolves(layout, code, layout', code')
  BY <1>1, <1>2, <1>6, StepByBlocks
<1> QED
  BY <1>7 DEF Follows, BodyOK

\* MoveOutOfTheWay keeps the function whole.
LEMMA AsideStep ==
  ASSUME FoldInv, PosInv, MoveOutOfTheWay
  PROVE  Follows
<1>1. PICK p : p = PrevBB
  OBVIOUS
<1>2. PICK a : a = Analyze(PrevBB)
  OBVIOUS
<1>3. PICK ft2 : ft2 = LayoutSuccessor(MBB)
  OBVIOUS
<1>4. PICK d : d = Rewritten(code[p], MBB, 0, ReverseBranchCondition(a.cond))
  OBVIOUS
<1>5. /\ pc = "prior" /\ code' = [code EXCEPT ![p] = d] /\ succs' = succs
      /\ layout' = Append(Without(layout, MBB), MBB)
      /\ a.cond # <<>> /\ a.fbb = 0 /\ a.tbb = ft2 /\ ~canFallThrough(MBB)
  BY <1>1, <1>2, <1>3, <1>4 DEF MoveOutOfTheWay, InTheWay, MoveToEnd
<1>6. /\ Whole(layout, code, succs) /\ MBB \in Blocks \ {1} /\ MBB \in Targets1
      /\ p \in Blocks /\ p # MBB /\ Following(layout, p) = MBB
      /\ Formed(code[p]) /\ succs[p] \in Seq(Blocks \ {1})
      /\ Covered(code[p], MBB, succs[p]) /\ a = Ana(code[p])
  BY <1>1, <1>2, <1>5, AtPrior
<1>7. /\ Blocks = Range1(layout) /\ Lay(layout) /\ DOMAIN succs = DOMAIN code /\ Blocks \subseteq DOMAIN code
      /\ ft2 = Following(layout, MBB)
  BY <1>3, <1>6, BodyBlocks
<1>8. ~Falls(code[MBB])
  BY <1>5, <1>6, CannotFall
<1>9. PICK x \in Range1(layout) \ {1} : x = MBB
  BY <1>6, <1>7
<1>10. PICK l2 : l2 = Append(Without(layout, x), x)
  OBVIOUS
<1>11. \A b \in Range1(layout) : Following(layout, b) = x => b = p
  BY <1>6, <1>7, <1>9, OneBefore
<1>12. Rearranges(layout, code, l2, Range1(layout) \ {p})
  <2>1. \A b \in Range1(layout) \ {p} : Following(layout, b) = x => ~Falls(code[b])
    BY <1>11
  <2>2. Range1(layout) \ {p} \in SUBSET Range1(layout)
    OBVIOUS
  <2>3. PICK B \in SUBSET Range1(layout) : B = Range1(layout) \ {p}
    BY <2>2
  <2>4. Rearranges(layout, code, l2, B)
    BY <1>6, <1>8, <1>9, <1>10, <2>1, <2>3, ToEnd
  <2> QED
    BY <2>3, <2>4
<1>13. Following(l2, p) = ft2
  <2>1. PICK m \in Nat : Form(code[p], m)
    BY <1>6 DEF Formed
  <2>2. \E op, r, t : CaseCond(code[p], m, a, AnaF(code[p]), op, r, t)
    BY <1>5, <1>6, <2>1, CondOne
  <2>3. a.tbb \in Targets1
    BY <2>2 DEF CaseCond, Answer
  <2>4. ft2 # 0
    BY <1>5, <2>3 DEF Targets1
  <2>5. AtEnd(layout, code, x, l2)
    BY <1>6, <1>9, <1>10, MovedToEnd
  <2>6. p \in Range1(layout) \ {x} /\ Following(layout, p) = x /\ x # 0 /\ Following(layout, x) = ft2
    BY <1>6, <1>7, <1>9 DEF Targets1
  <2> QED
    BY <2>4, <2>5, <2>6 DEF AtEnd
<1>14. BlockStep(code[p], MBB, d, ft2, succs[p], Blocks \ {1})
  BY <1>4, <1>5, <1>6, AsideBlock
<1>15. /\ DOMAIN code' = DOMAIN code /\ code'[p] = d
       /\ \A b \in Blocks \ {p} : code'[b] = code[b]
  BY <1>5, <1>6, <1>7
<1>16. PICK B : B = Blocks \ {p}
  OBVIOUS
<1>17. Rearranges(layout, code, layout', B)
  BY <1>5, <1>7, <1>9, <1>10, <1>12, <1>16
<1>18. \A b \in Blocks \cap B : code'[b] \in {code[b], Ana(code[b]).code}
  BY <1>15, <1>16
<1>19. \A b \in Blocks \ B :
           BlockStep(code[b], Following(layout, b), code'[b], Following(layout', b), succs[b], Blocks \ {1})
  BY <1>5, <1>6, <1>9, <1>10, <1>13, <1>14, <1>15, <1>16
<1> QED
  BY <1>5, <1>6, <1>15, <1>17, <1>18, <1>19, MovedStep

\* MoveAfterPred keeps the function whole.
LEMMA AfterStep ==
  ASSUME FoldInv, PosInv, NEW T \in SUBSET OpenPreds, NEW p \in T, MoveAfterPred(p, T)
  PROVE  Follows
<1>1. PICK x : x = MBB
  OBVIOUS
<1>2. /\ pc = "place" /\ ~canFallThrough(PrevBB) /\ MayFollow(p) /\ succs' = succs
      /\ code' = IF canFallThrough(MBB)
                   THEN [Erased(T) EXCEPT ![MBB] = InsertBranch(@, LayoutSuccessor(MBB), 0, <<>>)]
                   ELSE Erased(T)
      /\ layout' = PutAfter(Without(layout, x), x, p)
  BY <1>1 DEF MoveAfterPred
<1>3. /\ Whole(layout, code, succs) /\ x \in Blocks \ {1}
      /\ PrevBB \in Blocks /\ PrevBB # x /\ Following(layout, PrevBB) = x
      /\ Formed(code[x]) /\ succs[x] \in Seq(Blocks \ {1})
      /\ Covered(code[x], Following(layout, x), succs[x])
      /\ Analyze(x) = Ana(code[x])
  BY <1>1, <1>2, AtPrior
<1>4. /\ Blocks = Range1(layout) /\ Lay(layout) /\ DOMAIN succs = DOMAIN code /\ Blocks \subseteq DOMAIN code
  BY <1>3, BodyBlocks
<1>5. p \in Blocks /\ p # x /\ ~canFallThrough(p) /\ x \notin T
  BY <1>1 DEF OpenPreds, Preds
<1>6. ~Falls(code[p]) /\ ~Falls(code[PrevBB])
  BY <1>2, <1>3, <1>5, CannotFall
<1>7. \A b \in Range1(layout) \ {x} : Following(layout, b) = x => ~Falls(code[b])
  BY <1>3, <1>4, <1>6, OneBefore
<1>8. Rearranges(layout, code, layout', Range1(layout) \ {x})
  <2>1. PICK l2 : l2 = PutAfter(Without(layout, x), x, p)
    OBVIOUS
  <2>2. Rearranges(layout, code, l2, Range1(layout) \ {x})
    BY <1>3, <1>4, <1>5, <1>6, <1>7, <2>1, AfterBlock
  <2> QED
    BY <1>2, <2>1, <2>2
<1>9. PICK e : e = Erased(T)
  OBVIOUS
<1>10. /\ DOMAIN e = DOMAIN code /\ e[x] = code[x]
       /\ \A b \in Blocks : e[b] \in {code[b], Ana(code[b]).code}
  BY <1>3, <1>4, <1>5, <1>9, ErasedIs
<1>11. PICK ft : ft = Following(layout, x)
  OBVIOUS
<1>12. PICK d : d = IF canFallThrough(MBB) THEN InsertBranch(code[x], ft, 0, <<>>) ELSE code[x]
  OBVIOUS
<1>13. LayoutSuccessor(MBB) = ft
  BY <1>1, <1>11 DEF LayoutSuccessor
<1>14. DOMAIN code' = DOMAIN code /\ code'[x] = d /\ \A b \in Blocks \ {x} : code'[b] = e[b]
  <2>1. CASE canFallThrough(MBB)
    <3>1. code' = [e EXCEPT ![x] = InsertBranch(@, ft, 0, <<>>)]
      BY <1>1, <1>2, <1>9, <1>13, <2>1
    <3>2. PICK g : g = InsertBranch(e[x], ft, 0, <<>>)
      OBVIOUS
    <3>3. code' = [e EXCEPT ![x] = g]
      BY <3>1, <3>2
    <3>4. g = d
      BY <1>10, <1>12, <2>1, <3>2
    <3> QED
      BY <1>3, <1>4, <1>10, <3>3, <3>4
  <2>2. CASE ~canFallThrough(MBB)
    BY <1>2, <1>9, <1>10, <1>12, <2>2
  <2> QED
    BY <2>1, <2>2
<1>15. \A g : BlockStep(code[x], ft, d, g, succs[x], Blocks \ {1})
  <2>1. SUFFICES ASSUME NEW g PROVE BlockStep(code[x], ft, d, g, succs[x], Blocks \ {1})
    OBVIOUS
  <2>2. CASE canFallThrough(MBB)
    <3>1. CanFall(code[x], succs[x], ft)
      BY <1>1, <1>13, <2>2, CanFallIs
    <3>2. PICK a : a = Ana(code[x])
      OBVIOUS
    <3>3. a.tbb = 0 \/ a.fbb = 0
      BY <1>1, <1>2, <1>3, <2>2, <3>2 DEF MayFollow
    <3>4. ft \in Range1(layout) \ {1}
      <4>1. ft # 0
        BY <3>1 DEF CanFall
      <4> QED
        BY <1>3, <1>4, <1>11, <4>1, FollowingFacts
    <3>5. ft \in Targets1
      BY <1>4, <3>4, LayNat DEF Targets1
    <3>6. d = InsertBranch(code[x], ft, 0, <<>>)
      BY <1>12, <2>2
    <3> QED
      BY <1>3, <1>11, <3>1, <3>2, <3>3, <3>5, <3>6, InsertBlock
  <2>3. CASE ~canFallThrough(MBB)
    <3>1. ~Falls(code[x]) /\ d = code[x]
      BY <1>1, <1>3, <1>12, <2>3, CannotFall
    <3> QED
      BY <1>3, <1>11, <3>1, SameBlock
  <2> QED
    BY <2>2, <2>3
<1>16. PICK B : B = Range1(layout) \ {x}
  OBVIOUS
<1>17. \A b \in Blocks \cap B : code'[b] \in {code[b], Ana(code[b]).code}
  BY <1>4, <1>10, <1>14, <1>16
<1>18. \A b \in Blocks \ B :
           BlockStep(code[b], Following(layout, b), code'[b], Following(layout', b), succs[b], Blocks \ {1})
  BY <1>4, <1>11, <1>14, <1>15, <1>16
<1> QED
  BY <1>2, <1>3, <1>8, <1>14, <1>16, <1>17, <1>18, MovedStep

\* MoveBeforeSucc keeps the function whole.
LEMMA BeforeStep ==
  ASSUME FoldInv, PosInv, NEW i \in DOMAIN succs[MBB], MoveBeforeSucc(i)
  PROVE  Follows
<1>1. PICK x : x = MBB
  OBVIOUS
<1>2. PICK s : s = succs[MBB][i]
  OBVIOUS
<1>3. /\ pc = "place" /\ ~canFallThrough(PrevBB) /\ ~canFallThrough(x) /\ succs' = succs
      /\ code' = Erased(OpenPreds) /\ layout' = PutBefore(Without(layout, x), x, s)
      /\ s # x /\ ~canFallThrough(Prior(s))
  BY <1>1, <1>2 DEF MoveBeforeSucc, MayPrecede
<1>4. /\ Whole(layout, code, succs) /\ x \in Blocks \ {1}
      /\ PrevBB \in Blocks /\ PrevBB # x /\ Following(layout, PrevBB) = x
      /\ succs[x] \in Seq(Blocks \ {1})
  BY <1>1, <1>3, AtPrior
<1>5. /\ Blocks = Range1(layout) /\ Lay(layout) /\ DOMAIN succs = DOMAIN code /\ Blocks \subseteq DOMAIN code
  BY <1>4, BodyBlocks
<1>6. s \in Range1(layout) \ {1, x}
  <2>1. s \in Range1(succs[x])
    BY <1>1, <1>2 DEF Range1
  <2> QED
    BY <1>3, <1>4, <1>5, <2>1, SeqRange
<1>7. Prior(s) \in Blocks /\ Following(layout, Prior(s)) = s
  BY <1>5, <1>6, PriorFacts DEF Prior, Position
<1>8. ~Falls(code[x]) /\ ~Falls(code[PrevBB]) /\ ~Falls(code[Prior(s)])
  BY <1>3, <1>4, <1>7, CannotFall
<1>9. \A b \in Range1(layout) \ {x} : Following(layout, b) \in {x, s} => ~Falls(code[b])
  BY <1>4, <1>5, <1>7, <1>8, OneBefore
<1>10. Rearranges(layout, code, layout', Range1(layout))
  <2>1. PICK l2 : l2 = PutBefore(Without(layout, x), x, s)
    OBVIOUS
  <2>2. Rearranges(layout, code, l2, Range1(layout))
    BY <1>4, <1>5, <1>6, <1>8, <1>9, <2>1, BeforeBlock
  <2> QED
    BY <1>3, <2>1, <2>2
<1>11. DOMAIN code' = DOMAIN code /\ \A b \in Blocks : code'[b] \in {code[b], Ana(code[b]).code}
  BY <1>3, <1>4, <1>5, ErasedIs
<1>12. PICK B : B = Range1(layout)
  OBVIOUS
<1> QED
  BY <1>3, <1>4, <1>5, <1>10, <1>11, <1>12, MovedStep

\* PlaceLast keeps the function whole.
LEMMA LastStep ==
  ASSUME FoldInv, PosInv, PlaceLast
  PROVE  Follows
<1>1. PICK x : x = MBB
  OBVIOUS
<1>2. PICK T : T = OpenPreds \cup {PrevBB}
  OBVIOUS
<1>3. /\ pc = "place" /\ ~canFallThrough(PrevBB) /\ ~canFallThrough(x) /\ succs' = succs
      /\ code' = Erased(T) /\ layout' = Append(Without(layout, x), x)
  BY <1>1, <1>2 DEF PlaceLast, MoveToEnd
<1>4. /\ Whole(layout, code, succs) /\ x \in Blocks \ {1}
      /\ PrevBB \in Blocks /\ Following(layout, PrevBB) = x
  BY <1>1, <1>3, AtPrior
<1>5. /\ Blocks = Range1(layout) /\ Lay(layout) /\ Blocks \subseteq DOMAIN code
  BY <1>4, BodyBlocks
<1>6. ~Falls(code[x]) /\ ~Falls(code[PrevBB])
  BY <1>3, <1>4, CannotFall
<1>7. \A b \in Range1(layout) : Following(layout, b) = x => ~Falls(code[b])
  BY <1>4, <1>5, <1>6, OneBefore
<1>8. PICK B \in SUBSET Range1(layout) : B = Range1(layout)
  OBVIOUS
<1>9. Rearranges(layout, code, layout', B)
  <2>1. PICK l2 : l2 = Append(Without(layout, x), x)
    OBVIOUS
  <2>2. Rearranges(layout, code, l2, B)
    BY <1>4, <1>5, <1>6, <1>7, <1>8, <2>1, ToEnd
  <2> QED
    BY <1>3, <2>1, <2>2
<1>10. DOMAIN code' = DOMAIN code /\ \A b \in Blocks : code'[b] \in {code[b], Ana(code[b]).code}
  BY <1>3, <1>4, <1>5, ErasedIs
<1> QED
  BY <1>3, <1>4, <1>5, <1>8, <1>9, <1>10, MovedStep

\* Blocks that lose a jump after a jump and stay where they are.
LEMMA ErasedStep ==
  ASSUME Whole(layout, code, succs), NEW T, code' = Erased(T), UNCHANGED <<layout, succs>>
  PROVE  Follows
<1>1. /\ Blocks = Range1(layout) /\ Lay(layout) /\ Blocks \subseteq DOMAIN code /\ 1 \in Blocks
  <2>1. Blocks = Range1(layout) /\ Lay(layout) /\ Blocks \subseteq DOMAIN code
    BY BodyBlocks
  <2> QED
    BY <2>1, LayNat
<1>2. PICK B : B = Range1(layout)
  OBVIOUS
<1>3. Rearranges(layout, code, layout', B)
  BY <1>1, <1>2 DEF Rearranges
<1>4. DOMAIN code' = DOMAIN code /\ \A b \in Blocks : code'[b] \in {code[b], Ana(code[b]).code}
  BY <1>1, ErasedIs
<1> QED
  BY <1>1, <1>2, <1>3, <1>4, MovedStep

\* LeaveInPlace keeps the function whole.
LEMMA LeaveStep ==
  ASSUME FoldInv, PosInv, LeaveInPlace
  PROVE  Follows
<1>1. pc = "place" /\ UNCHANGED <<layout, succs>> /\ (code' = code \/ \E T : code' = Erased(T))
  <2>1. pc = "place" /\ UNCHANGED <<layout, succs>>
    BY DEF LeaveInPlace
  <2>2. CASE canFallThrough(PrevBB)
    BY <2>1, <2>2 DEF LeaveInPlace
  <2>3. CASE ~canFallThrough(PrevBB)
    BY <2>1, <2>3 DEF LeaveInPlace
  <2> QED
    BY <2>1, <2>2, <2>3
<1>2. Whole(layout, code, succs)
  BY <1>1, AtPrior
<1>3. CASE code' = code
  BY <1>1, <1>2, <1>3, StillStep DEF Follows, BodyOK
<1>4. CASE \E T : code' = Erased(T)
  BY <1>1, <1>2, <1>4, ErasedStep
<1> QED
  BY <1>1, <1>3, <1>4

\* RemoveDeadBlock makes the function whole again.
LEMMA DeadStep ==
  ASSUME FoldInv, PosInv, RemoveDeadBlock
  PROVE  Follows
<1>1. PICK x : x = MBB
  OBVIOUS
<1>2. /\ pc = "dead" /\ Preds(x) = {}
      /\ Removes(layout, code, succs, x, layout', code', succs')
  BY <1>1 DEF RemoveDeadBlock, Removes
<1>3. x \in Blocks \ {1} /\ Blocks = Range1(layout)
  BY <1>1, <1>2 DEF PosInv, BodyPCs, Blocks
<1>4. Half(layout, code, succs, x) /\ (code[x] = <<>> \/ ~FallsInto(layout, code, x))
  <2>1. CASE Whole(layout, code, succs)
    <3>1. \A b \in Range1(layout) : x \notin Range1(succs[b])
      BY <1>2, <1>3 DEF Preds, isSuccessor
    <3> QED
      BY <1>3, <2>1, <3>1, WholeHalf
  <2>2. CASE Half(layout, code, succs, MBB) /\ code[MBB] = <<>>
    BY <1>1, <2>2
  <2> QED
    BY <1>2, <2>1, <2>2 DEF FoldInv, FoldPCs, BodyOK
<1>5. Whole(layout', code', succs') /\ Evolves(layout, code, layout', code')
  BY <1>2, <1>4, RemoveBlock
<1> QED
  BY <1>5 DEF Follows, BodyOK

\* KeepBlock is only taken in a whole function.
LEMMA KeepStep ==
  ASSUME FoldInv, PosInv, KeepBlock
  PROVE  Follows
<1>1. pc = "dead" /\ Preds(MBB) # {} /\ UNCHANGED <<layout, code, succs>>
  BY DEF KeepBlock
<1>2. Whole(layout, code, succs)
  <2>1. SUFFICES ASSUME Half(layout, code, succs, MBB) PROVE FALSE
    BY <1>1 DEF FoldInv, FoldPCs, BodyOK
  <2>2. PICK b \in Blocks : MBB \in Range1(succs[b])
    BY <1>1 DEF Preds, isSuccessor
  <2>3. succs[b] \in Seq(Range1(layout) \ {1, MBB})
    BY <2>1, <2>2 DEF Half, Blocks
  <2>4. MBB \in Range1(layout) \ {1, MBB}
    BY <2>2, <2>3, SeqRange
  <2> QED
    BY <2>4
<1> QED
  BY <1>1, <1>2, StillStep DEF Follows, BodyOK

\* The steps of the scan itself change no code.
LEMMA IdleStep ==
  ASSUME FoldInv, PosInv, OptimizeBranches \/ NextBlock \/ EndOfBlocks \/ CurrentDone
  PROVE  Follows
<1>1. pc \in {"start", "next", "cur"} /\ UNCHANGED <<layout, code, succs>>
  BY DEF OptimizeBranches, NextBlock, EndOfBlocks, CurrentDone
<1>2. Whole(layout, code, succs)
  BY <1>1 DEF FoldInv, FoldPCs, BodyOK
<1> QED
  BY <1>1, <1>2, StillStep DEF Follows, BodyOK

\* Every step of branch folding keeps the function whole, or whole but for the
\* block about to be removed.
LEMMA FoldStep ==
  ASSUME FoldInv, PosInv, FoldBranches
  PROVE  Follows
<1>1. CASE OptimizeBlock
  <2>1. ASSUME pc = "place", \E T \in SUBSET OpenPreds : \E p \in T : MoveAfterPred(p, T) PROVE Follows
    BY <2>1, AfterStep
  <2>2. ASSUME pc = "place", \E i \in DOMAIN succs[MBB] : MoveBeforeSucc(i) PROVE Follows
    BY <2>2, BeforeStep
  <2> QED
    BY <1>1, <2>1, <2>2, SkipStep, PriorCleanStep, JoinStep, MergeStep, OnlyStep, FalseStep,
       ReverseStep, AsideStep, CurrentCleanStep, LoopStep, ForwardStep, IdleStep, LastStep, LeaveStep
    DEF OptimizeBlock
<1> QED
  BY <1>1, FixStep, IdleStep, DeadStep, KeepStep DEF FoldBranches

\* The moves of a block keep the set of blocks.
LEMMA MovesRange ==
  ASSUME NEW l, Lay(l), NEW x \in Range1(l) \ {1}
  PROVE  /\ Range1(Append(Without(l, x), x)) = Range1(l)
         /\ \A p \in Range1(l) \ {x} : Range1(PutAfter(Without(l, x), x, p)) = Range1(l)
         /\ \A s \in Range1(l) \ {1, x} : Range1(PutBefore(Without(l, x), x, s)) = Range1(l)
<1>1. PICK l1 : l1 = Without(l, x)
  OBVIOUS
<1>2. Lay(l1) /\ Range1(l1) = Range1(l) \ {x}
  BY <1>1, WithoutFacts
<1>3. x \in Nat \ {0}
  BY LayNat
<1>4. Range1(Append(l1, x)) = Range1(l1) \cup {x}
  BY <1>2, <1>3, AppendFacts
<1>5. ASSUME NEW p \in Range1(l) \ {x} PROVE Range1(PutAfter(l1, x, p)) = Range1(l)
  <2>1. Range1(PutAfter(l1, x, p)) = Range1(l1) \cup {x}
    BY <1>2, <1>3, PutAfterFacts
  <2> QED
    BY <1>2, <2>1
<1>6. ASSUME NEW s \in Range1(l) \ {1, x} PROVE Range1(PutBefore(l1, x, s)) = Range1(l)
  <2>1. Range1(PutBefore(l1, x, s)) = Range1(l1) \cup {x}
    BY <1>2, <1>3, PutBeforeFacts
  <2> QED
    BY <1>2, <2>1
<1> QED
  BY <1>1, <1>2, <1>4, <1>5, <1>6

\* The layout is well formed throughout branch folding.
LEMMA FoldLay ==
  ASSUME FoldInv, pc \in FoldPCs
  PROVE  Lay(layout)
BY DEF FoldInv, BodyOK, Whole, Half

\* OptimizeBlock removes no block.
LEMMA SameBlocks ==
  ASSUME FoldInv, PosInv, OptimizeBlock
  PROVE  Blocks' = Blocks /\ pc \in BodyPCs
<1>1. pc \in {"top", "prior", "cur", "place"}
  BY DEF OptimizeBlock, SkipEmptyBlock, AnalyzePrior, JoinDestinations, MergeIntoPrior, RemoveOnlyBranch,
     DropFalseBranch, ReversePrior, MoveOutOfTheWay, AnalyzeCurrent, ReverseLoop, ForwardBlock, CurrentDone,
     MoveAfterPred, MoveBeforeSucc, PlaceLast, LeaveInPlace
<1>2. /\ Lay(layout) /\ MBB \in Range1(layout) \ {1} /\ Blocks = Range1(layout)
      /\ succs[MBB] \in Seq(Blocks \ {1})
  BY <1>1, AtPrior DEF Whole, Blocks
<1>3. PICK x \in Range1(layout) \ {1} : x = MBB
  BY <1>2
<1>4. CASE layout' = layout
  BY <1>1, <1>4 DEF Blocks, BodyPCs
<1>5. CASE MoveOutOfTheWay \/ PlaceLast
  <2>1. layout' = Append(Without(layout, x), x)
    BY <1>3, <1>5 DEF MoveOutOfTheWay, PlaceLast, MoveToEnd
  <2>2. Range1(Append(Without(layout, x), x)) = Range1(layout)
    BY <1>2, MovesRange
  <2> QED
    BY <1>1, <2>1, <2>2 DEF Blocks, BodyPCs
<1>6. CASE \E T \in SUBSET OpenPreds : \E p \in T : MoveAfterPred(p, T)
  <2>0. PICK T \in SUBSET OpenPreds : \E p \in T : MoveAfterPred(p, T)
    BY <1>6
  <2>1. PICK p \in T : MoveAfterPred(p, T)
    BY <2>0
  <2>2. layout' = PutAfter(Without(layout, x), x, p) /\ p \in Range1(layout) \ {x}
    BY <1>3, <2>1 DEF MoveAfterPred, OpenPreds, Preds, Blocks
  <2>3. Range1(PutAfter(Without(layout, x), x, p)) = Range1(layout)
    BY <1>2, <2>2, MovesRange
  <2> QED
    BY <1>1, <2>2, <2>3 DEF Blocks, BodyPCs
<1>7. CASE \E i \in DOMAIN succs[MBB] : MoveBeforeSucc(i)
  <2>1. PICK i \in DOMAIN succs[MBB] : MoveBeforeSucc(i)
    BY <1>7
  <2>2. PICK s : s = succs[MBB][i]
    OBVIOUS
  <2>3. layout' = PutBefore(Without(layout, x), x, s) /\ s # x
    BY <1>3, <2>1, <2>2 DEF MoveBeforeSucc, MayPrecede
  <2>4. s \in Range1(succs[MBB])
    BY <2>2 DEF Range1
  <2>5. s \in Range1(layout) \ {1, x}
    BY <1>2, <2>3, <2>4, SeqRange
  <2>6. Range1(PutBefore(Without(layout, x), x, s)) = Range1(layout)
    BY <1>2, <2>5, MovesRange
  <2> QED
    BY <1>1, <2>3, <2>6 DEF Blocks, BodyPCs
<1> QED
  BY <1>4, <1>5, <1>6, <1>7 DEF OptimizeBlock, SkipEmptyBlock, AnalyzePrior, JoinDestinations, MergeIntoPrior,
     RemoveOnlyBranch, DropFalseBranch, ReversePrior, AnalyzeCurrent, ReverseLoop, ForwardBlock, CurrentDone,
     LeaveInPlace, RewritePrior

\* OptimizeBlock keeps the block it looks at and the iterator in the layout.
LEMMA BodyPosition ==
  ASSUME FoldInv, PosInv, OptimizeBlock
  PROVE  PosInv'
<1>1. Blocks' = Blocks /\ pc \in BodyPCs
  BY SameBlocks
<1>2. MBB' = MBB /\ I' = I /\ MBB \in Blocks \ {1} /\ I # MBB /\ I \in (Blocks \ {1}) \cup {0}
  BY <1>1 DEF PosInv, OptimizeBlock, SkipEmptyBlock, AnalyzePrior, JoinDestinations, MergeIntoPrior,
     RemoveOnlyBranch, DropFalseBranch, ReversePrior, MoveOutOfTheWay, AnalyzeCurrent, ReverseLoop,
     ForwardBlock, CurrentDone, MoveAfterPred, MoveBeforeSucc, PlaceLast, LeaveInPlace, RewritePrior
<1>3. pc' \in BodyPCs /\ changed' \in BOOLEAN
  BY DEF PosInv, BodyPCs, OptimizeBlock, SkipEmptyBlock, AnalyzePrior, JoinDestinations, MergeIntoPrior,
     RemoveOnlyBranch, DropFalseBranch, ReversePrior, MoveOutOfTheWay, AnalyzeCurrent, ReverseLoop,
     ForwardBlock, CurrentDone, MoveAfterPred, MoveBeforeSucc, PlaceLast, LeaveInPlace, RewritePrior,
     Reoptimize
<1>4. pc' = "cur" => AnalyzeCurrent
  BY DEF OptimizeBlock, SkipEmptyBlock, AnalyzePrior, JoinDestinations, MergeIntoPrior,
     RemoveOnlyBranch, DropFalseBranch, ReversePrior, MoveOutOfTheWay, ReverseLoop,
     ForwardBlock, CurrentDone, MoveAfterPred, MoveBeforeSucc, PlaceLast, LeaveInPlace, RewritePrior,
     Reoptimize
<1>5. ASSUME AnalyzeCurrent PROVE Settled(Analyze(PrevBB))'
  <2>1. /\ pc = "prior" /\ layout' = layout /\ code' = [code EXCEPT ![MBB] = Analyze(MBB).code]
    BY <1>5 DEF AnalyzeCurrent, Clean
  <2>2. PrevBB \in Blocks /\ PrevBB # MBB /\ Whole(layout, code, succs)
    BY <2>1, AtPrior
  <2>3. PrevBB' = PrevBB
    BY <1>2, <2>1 DEF PrevBB, Prior, Position
  <2>4. code'[PrevBB] = code[PrevBB]
    BY <2>1, <2>2, BodyBlocks
  <2>5. PICK a : a = Analyze(PrevBB)
    OBVIOUS
  <2>6. Analyze(PrevBB)' = a
    BY <2>3, <2>4, <2>5 DEF Analyze
  <2>7. ~SameDestination(a) /\ ~OnlyHere(a) /\ ~FalseHere(a) /\ ~TrueHere(a)
    BY <1>5, <2>5 DEF AnalyzeCurrent
  <2> QED
    BY <1>2, <2>6, <2>7 DEF Settled, SameDestination, OnlyHere, FalseHere, TrueHere
<1>6. pc' \in BranchPCs /\ pc' \notin {"fix", "select", "split", "start"}
  BY <1>3 DEF BodyPCs, BranchPCs
<1> QED
  BY <1>1, <1>2, <1>3, <1>4, <1>5, <1>6 DEF PosInv

\* Every step of branch folding keeps the block it looks at and the iterator
\* in the layout.
LEMMA FoldPosition ==
  ASSUME FoldInv, PosInv, FoldBranches
  PROVE  PosInv'
<1>1. CASE OptimizeBlock
  BY <1>1, BodyPosition
<1>2. CASE FixCFG
  <2>1. /\ pc = "fix" /\ layout' = layout /\ I' = I /\ changed' = changed /\ MBB \in Blocks /\ I = 0
        /\ \/ pc' = "start" /\ MBB' = MBB
           \/ LayoutSuccessor(MBB) # 0 /\ MBB' = LayoutSuccessor(MBB) /\ pc' = pc
    BY <1>2 DEF FixCFG, PosInv
  <2>2. Lay(layout) /\ MBB \in Range1(layout)
    BY <2>1, FoldLay DEF FoldPCs, Blocks
  <2>3. LayoutSuccessor(MBB) # 0 => LayoutSuccessor(MBB) \in Blocks
    BY <2>2, FollowingFacts DEF LayoutSuccessor, Blocks
  <2> QED
    BY <2>1, <2>3 DEF PosInv, Blocks, BodyPCs, BranchPCs
<1>3. CASE OptimizeBranches
  <2>1. Lay(layout)
    BY <1>3, FoldLay DEF FoldPCs, OptimizeBranches
  <2>2. layout[1] = 1 /\ 1 \in Range1(layout)
    BY <2>1, LayNat DEF Lay
  <2>3. LayoutSuccessor(EntryBlock) \in (Blocks \ {1}) \cup {0}
    BY <2>1, <2>2, FollowingFacts DEF LayoutSuccessor, EntryBlock, Blocks
  <2> QED
    BY <1>3, <2>3 DEF PosInv, OptimizeBranches, Blocks, BodyPCs, BranchPCs
<1>4. CASE NextBlock
  <2>1. pc = "next" /\ I # 0 /\ MBB' = I /\ I' = LayoutSuccessor(I) /\ pc' = "top" /\ layout' = layout /\ changed' = changed
    BY <1>4 DEF NextBlock
  <2>2. Lay(layout) /\ I \in Range1(layout) \ {1}
    BY <2>1, FoldLay DEF FoldPCs, PosInv, Blocks
  <2>3. LayoutSuccessor(I) \in (Blocks \ {1, I}) \cup {0} /\ I # 0
    BY <2>2, FollowingFacts DEF LayoutSuccessor, Blocks
  <2> QED
    BY <2>1, <2>2, <2>3 DEF PosInv, Blocks, BodyPCs, BranchPCs
<1>5. CASE EndOfBlocks
  BY <1>5 DEF EndOfBlocks, PosInv, Blocks, BodyPCs, BranchPCs
<1>6. CASE RemoveDeadBlock
  <2>1. /\ pc = "dead" /\ layout' = Without(layout, MBB) /\ pc' = "next" /\ I' = I /\ changed' = TRUE
        /\ MBB \in Blocks \ {1} /\ I # MBB /\ I \in (Blocks \ {1}) \cup {0}
    BY <1>6 DEF RemoveDeadBlock, PosInv, BodyPCs
  <2>2. Lay(layout) /\ MBB \in Range1(layout) /\ MBB # 1
    BY <2>1, FoldLay DEF FoldPCs, Blocks
  <2>3. Blocks' = Blocks \ {MBB}
    BY <2>1, <2>2, WithoutFacts DEF Blocks
  <2> QED
    BY <2>1, <2>3 DEF PosInv, BodyPCs, BranchPCs
<1>7. CASE KeepBlock
  BY <1>7 DEF KeepBlock, PosInv, Blocks, BodyPCs, BranchPCs
<1> QED
  BY <1>1, <1>2, <1>3, <1>4, <1>5, <1>6, <1>7 DEF FoldBranches

\* A sequence.
SomeSeq(c) == \E T : c \in Seq(T)

\* One element changed and one appended.
Extends1(c, b, x, y, n, w) ==
  /\ SomeSeq(w) /\ DOMAIN w = DOMAIN c \cup {n}
  /\ w[b] = x /\ w[n] = y /\ \A i \in DOMAIN c \ {b} : w[i] = c[i]
\* A sequence with one element changed and one appended.
LEMMA ExtendsIs ==
  ASSUME NEW T, NEW c \in Seq(T), NEW b \in 1..Len(c), NEW n, n = Len(c) + 1, NEW x, NEW y, NEW w, w = Append([c EXCEPT ![b] = x], y)
  PROVE  Extends1(c, b, x, y, n, w)
<1>1. PICK v : v = [c EXCEPT ![b] = x]
  OBVIOUS
<1>2. PICK U : U = T \cup {x, y}
  OBVIOUS
<1>3. v \in Seq(U) /\ Len(v) = Len(c) /\ v[b] = x /\ \A i \in 1..Len(c) : i # b => v[i] = c[i]
  BY <1>1, <1>2
<1>4. w = Append(v, y) /\ y \in U
  BY <1>1, <1>2
<1>5. /\ w \in Seq(U) /\ Len(w) = Len(c) + 1 /\ w[Len(c) + 1] = y
      /\ \A i \in 1..Len(c) : w[i] = v[i]
  <2>1. v \in Seq(U) /\ Len(v) = Len(c)
    BY <1>3
  <2>2. /\ w \in Seq(U) /\ Len(w) = Len(v) + 1 /\ w[Len(v) + 1] = y
        /\ \A i \in 1..Len(v) : w[i] = v[i]
    <3>1. v \in Seq(U)
      BY <1>3
    <3>2. /\ Append(v, y) \in Seq(U) /\ Len(Append(v, y)) = Len(v) + 1
          /\ \A i \in 1..Len(v) : Append(v, y)[i] = v[i]
          /\ Append(v, y)[Len(v) + 1] = y
      BY <1>4, <3>1, AppendProperties
    <3> QED
      BY <1>4, <3>2
  <2> QED
    BY <2>1, <2>2
<1>6. DOMAIN w = 1..(Len(c) + 1) /\ DOMAIN c = 1..Len(c) /\ Len(c) \in Nat
  BY <1>5
<1>7. 1..(Len(c) + 1) = 1..Len(c) \cup {Len(c) + 1}
  BY <1>6
<1> QED
  BY <1>3, <1>5, <1>6, <1>7 DEF SomeSeq, Extends1

\* The function while edges are split: whole, and every block ready for a
\* split.
SplitOK(l, cd, sc) ==
  /\ Whole(l, cd, sc) /\ SomeSeq(cd) /\ SomeSeq(sc)
  /\ \A b \in Range1(l) : Ready(l, cd, sc, b)
SplitInv == pc = "split" => SplitOK(layout, code, succs)

\* Two edges into a block.
LEMMA ManyAre ==
  ASSUME Whole(layout, code, succs), NEW t, ManyPreds(t)
  PROVE  ManyTo(layout, succs, t)
<1>1. PICK e, f \in PredEdges(t) : e # f
  BY DEF ManyPreds
<1>2. \A d \in PredEdges(t) : \E p \in Blocks : \E i \in DOMAIN succs[p] : d = <<p, i>> /\ succs[p][i] = t
  BY DEF PredEdges
<1>3. PICK p \in Blocks : \E i \in DOMAIN succs[p] : e = <<p, i>> /\ succs[p][i] = t
  BY <1>1, <1>2
<1>4. PICK i \in DOMAIN succs[p] : e = <<p, i>> /\ succs[p][i] = t
  BY <1>3
<1>5. PICK q \in Blocks : \E j \in DOMAIN succs[q] : f = <<q, j>> /\ succs[q][j] = t
  BY <1>1, <1>2
<1>6. PICK j \in DOMAIN succs[q] : f = <<q, j>> /\ succs[q][j] = t
  BY <1>5
<1>7. p # q \/ i # j
  BY <1>1, <1>4, <1>6
<1>8. \A x \in Range1(layout) : DOMAIN succs[x] = 1..Len(succs[x])
  BY DEF Whole
<1>9. Blocks = Range1(layout)
  BY DEF Blocks
<1> QED
  BY <1>4, <1>6, <1>7, <1>8, <1>9 DEF ManyTo

\* SplitCriticalEdge does what the lemmas on splitting speak of.
LEMMA SplitMatches ==
  ASSUME SplitOK(layout, code, succs), NEW b \in Blocks, NEW s, SplitCriticalEdge(b, s)
  PROVE  /\ SplitOf(layout, code, succs, b, s, Len(code) + 1, layout', code', succs')
         /\ SomeSeq(code') /\ SomeSeq(succs')
<1>1. Whole(layout, code, succs) /\ SomeSeq(code) /\ SomeSeq(succs)
  BY DEF SplitOK
<1>2. PICK T : code \in Seq(T)
  BY <1>1 DEF SomeSeq
<1>3. PICK U : succs \in Seq(U)
  BY <1>1 DEF SomeSeq
<1>4. Blocks = Range1(layout) /\ Range1(layout) \subseteq DOMAIN code /\ DOMAIN succs = DOMAIN code
  BY <1>1 DEF Blocks, Whole
<1>5. DOMAIN code = 1..Len(code) /\ DOMAIN succs = 1..Len(succs) /\ Len(code) \in Nat /\ Len(succs) \in Nat
  BY <1>2, <1>3
<1>6. Len(succs) = Len(code)
  BY <1>4, <1>5
<1>7. b \in 1..Len(code) /\ b \in 1..Len(succs)
  BY <1>4, <1>5, <1>6
<1>8. PICK n : n = Len(code) + 1
  OBVIOUS
<1>9. n \in Nat /\ n > 1 /\ n \notin Range1(layout)
  <2>1. 1 \in Range1(layout)
    BY <1>1, LayNat DEF Whole
  <2>2. 1 \in 1..Len(code)
    BY <2>1, <1>4, <1>5
  <2>3. n \notin 1..Len(code) /\ n \in Nat /\ n > 1
    BY <1>5, <1>8, <2>2
  <2> QED
    BY <2>3, <1>4, <1>5
<1>10. PICK e : e = Append(RemoveFirst(succs[b], s), n)
  OBVIOUS
<1>11. PICK d : d = updateTerminator(ReplaceUses(code[b], s, n), e, n)
  OBVIOUS
<1>12. PICK c : c = IF Following(layout', n) = s THEN <<>> ELSE <<Jmp(s)>>
  OBVIOUS
<1>13. /\ layout' = PutAfter(layout, n, b)
       /\ code' = Append([code EXCEPT ![b] = d], c)
       /\ succs' = Append([succs EXCEPT ![b] = e], <<s>>)
  BY <1>8, <1>10, <1>11, <1>12 DEF SplitCriticalEdge
<1>14. /\ SomeSeq(code') /\ DOMAIN code' = DOMAIN code \cup {n} /\ code'[b] = d /\ code'[n] = c
       /\ \A i \in DOMAIN code \ {b} : code'[i] = code[i]
    <2>1. PICK w : w = code'
    OBVIOUS
  <2>2. w = Append([code EXCEPT ![b] = d], c)
    BY <1>13, <2>1
  <2>3. Extends1(code, b, d, c, n, w)
    BY <1>2, <1>7, <1>8, <2>2, ExtendsIs
  <2> QED
    BY <2>1, <2>3 DEF Extends1
<1>15. /\ SomeSeq(succs') /\ DOMAIN succs' = DOMAIN code \cup {n} /\ succs'[b] = e /\ succs'[n] = <<s>>
       /\ \A i \in DOMAIN code \ {b} : succs'[i] = succs[i]
  <2>1. n = Len(succs) + 1
    BY <1>6, <1>8
  <2>2. PICK w : w = succs'
    OBVIOUS
  <2>3. w = Append([succs EXCEPT ![b] = e], <<s>>)
    BY <1>13, <2>2
  <2>4. Extends1(succs, b, e, <<s>>, n, w)
    BY <1>3, <1>7, <2>1, <2>3, ExtendsIs
  <2> QED
    BY <1>4, <2>2, <2>4 DEF Extends1
<1>16. s \in Range1(succs[b]) /\ Len(succs[b]) > 1 /\ ManyPreds(s) /\ ~AnaF(code[b]).fail
  BY DEF SplitCriticalEdge, isSuccessor, AnaF
<1>17. ManyTo(layout, succs, s)
  BY <1>1, <1>16, ManyAre
<1>18. \A x \in Range1(layout) \ {b} : code'[x] = code[x] /\ succs'[x] = succs[x]
  BY <1>4, <1>14, <1>15
<1>19. SplitOf(layout, code, succs, b, s, n, layout', code', succs')
  BY <1>1, <1>4, <1>9, <1>10, <1>11, <1>12, <1>13, <1>14, <1>15, <1>16, <1>17, <1>18 DEF SplitOf
<1> QED
  BY <1>8, <1>14, <1>15, <1>19

\* SplitCriticalEdge keeps the function whole and ready for more splits.
LEMMA SplitStateStep ==
  ASSUME SplitOK(layout, code, succs), NEW b \in Blocks, NEW s, SplitCriticalEdge(b, s)
  PROVE  SplitOK(layout', code', succs') /\ Evolves(layout, code, layout', code')
<1>1. /\ SplitOf(layout, code, succs, b, s, Len(code) + 1, layout', code', succs')
      /\ SomeSeq(code') /\ SomeSeq(succs')
  BY SplitMatches
<1>2. \A x \in Range1(layout) : Ready(layout, code, succs, x)
  BY DEF SplitOK
<1>3. Ready(layout, code, succs, b)
  BY <1>2 DEF Blocks
<1>4. Whole(layout', code', succs') /\ Evolves(layout, code, layout', code')
  BY <1>1, <1>3, SplitStep
<1>5. \A x \in Range1(layout') : Ready(layout', code', succs', x)
  BY <1>1, <1>2, SplitDone
<1> QED
  BY <1>1, <1>4, <1>5 DEF SplitOK

\* What instruction selection has done so far.
SelInv ==
  pc = "select" =>
    /\ layout \in Seq(Nat) /\ Len(layout) <= NumBlocks /\ \A i \in 1..Len(layout) : layout[i] = i
    /\ code \in Seq(Seq(Instrs)) /\ succs \in Seq(Seq(Nat))
    /\ Len(code) = Len(layout) /\ Len(succs) = Len(layout)
    /\ \A b \in 1..Len(layout) : Selected(code[b], b, succs[b])

\* The flow recorded before edge splitting is the flow of the code.
LEMMA FlowStarts ==
  ASSUME NEW l, NEW cd, NEW sc, Whole(l, cd, sc), NEW f, f = Flow(l, cd)
  PROVE  Flows(l, cd, f)
<1>1. \A b \in Range1(l) : RegsIn(cd[b], Sites(cd))
  BY SitesHold DEF Whole
<1>2. \A k \in Works(l, cd) :
        /\ DOMAIN f[k] = [Sites(cd) -> Outcomes]
        /\ \A nu \in [Sites(cd) -> Outcomes] : NextWork(l, cd, k, nu) = f[k][nu]
  BY DEF Flow
<1> QED
  BY <1>1, <1>2 DEF Flows

\* One element appended.
LEMMA Appending ==
  ASSUME NEW T, NEW s \in Seq(T), NEW x \in T, NEW w, w = Append(s, x)
  PROVE  /\ w \in Seq(T) /\ Len(w) = Len(s) + 1 /\ w[Len(s) + 1] = x
         /\ \A i \in 1..Len(s) : w[i] = s[i]
  OBVIOUS

\* SelectBlock adds a block as instruction selection leaves it.
LEMMA SelectStep ==
  ASSUME SelInv, SelectBlock
  PROVE  SelInv'
<1>1. PICK n : n = Len(layout)
  OBVIOUS
<1>2. /\ pc = "select" /\ n + 1 <= NumBlocks /\ layout' = Append(layout, n + 1) /\ pc' = pc
  BY <1>1 DEF SelectBlock
<1>3. PICK c \in Shapes(n + 1) : \E e \in SelectedEdges(c, n + 1) :
        code' = Append(code, c) /\ succs' = Append(succs, e)
  BY <1>1 DEF SelectBlock
<1>4. PICK e \in SelectedEdges(c, n + 1) : code' = Append(code, c) /\ succs' = Append(succs, e)
  BY <1>3
<1>5. /\ layout \in Seq(Nat) /\ n \in Nat /\ \A i \in 1..n : layout[i] = i
      /\ code \in Seq(Seq(Instrs)) /\ succs \in Seq(Seq(Nat))
      /\ Len(code) = n /\ Len(succs) = n
      /\ \A b \in 1..n : Selected(code[b], b, succs[b])
  BY <1>1, <1>2 DEF SelInv
<1>6. n + 1 \in 1..NumBlocks /\ n + 1 \in Nat
  BY <1>2, <1>5, BlockAssumption
<1>7. PICK k : k = n + 1
  OBVIOUS
<1>8. Selected(c, k, e) /\ c \in Seq(Instrs)
  BY <1>3, <1>4, <1>6, <1>7, ShapeEdged
<1>9. e \in Seq(Nat)
  <2>1. e \in Seq(2..NumBlocks)
    BY <1>8 DEF Selected, Edged
  <2>2. 2..NumBlocks \subseteq Nat
    BY BlockAssumption
  <2> QED
    BY <2>1, <2>2, SeqMore
<1>10. PICK lw, cw, sw : lw = layout' /\ cw = code' /\ sw = succs'
  OBVIOUS
<1>11. lw \in Seq(Nat) /\ Len(lw) = k /\ lw[k] = k /\ \A i \in 1..n : lw[i] = layout[i]
  <2>1. lw = Append(layout, k) /\ k \in Nat
    BY <1>2, <1>6, <1>7, <1>10
  <2> QED
    BY <1>1, <1>5, <1>7, <2>1, Appending
<1>12. cw \in Seq(Seq(Instrs)) /\ Len(cw) = k /\ cw[k] = c /\ \A i \in 1..n : cw[i] = code[i]
  BY <1>4, <1>5, <1>7, <1>8, <1>10, Appending
<1>13. sw \in Seq(Seq(Nat)) /\ Len(sw) = k /\ sw[k] = e /\ \A i \in 1..n : sw[i] = succs[i]
  BY <1>4, <1>5, <1>7, <1>9, <1>10, Appending
<1>14. \A i \in 1..k : i \in 1..n \/ i = k
  BY <1>5, <1>7
<1>15. \A i \in 1..k : lw[i] = i
  BY <1>5, <1>11, <1>14
<1>16. \A i \in 1..k : Selected(cw[i], i, sw[i])
  BY <1>5, <1>8, <1>12, <1>13, <1>14
<1>17. k <= NumBlocks
  BY <1>6, <1>7
<1> QED
  BY <1>10, <1>11, <1>12, <1>13, <1>15, <1>16, <1>17 DEF SelInv

\* What is reachable is closed under the edges and holds the entry.
LEMMA ReachableIs ==
  ASSUME layout # <<>>, layout \in Seq(Nat), \A b \in Blocks : Range1(succs[b]) \subseteq Blocks, NEW R, R = Reachable
  PROVE  /\ layout[1] \in R /\ R \subseteq Blocks
         /\ \A b \in R : Range1(succs[b]) \subseteq R
<1>1. layout[1] \in Blocks
  <2>1. 1 \in DOMAIN layout
    OBVIOUS
  <2> QED
    BY <2>1 DEF Blocks, Range1
<1>2. \A b : b \in R <=> b \in Blocks /\ \A S \in SUBSET Blocks :
        layout[1] \in S /\ (\A p \in S : Range1(succs[p]) \subseteq S) => b \in S
  BY DEF Reachable, EntryBlock
<1>3. \A b \in R : Range1(succs[b]) \subseteq R
  <2>1. SUFFICES ASSUME NEW b \in R, NEW t \in Range1(succs[b]) PROVE t \in R
    OBVIOUS
  <2>2. t \in Blocks
    BY <1>2
  <2>3. \A S \in SUBSET Blocks : layout[1] \in S /\ (\A p \in S : Range1(succs[p]) \subseteq S) => t \in S
    <3>1. TAKE S \in SUBSET Blocks
    <3>2. HAVE layout[1] \in S /\ \A p \in S : Range1(succs[p]) \subseteq S
    <3>3. b \in S
      BY <1>2, <3>2
    <3> QED
      BY <3>2, <3>3
  <2> QED
    BY <1>2, <2>2, <2>3
<1> QED
  BY <1>1, <1>2, <1>3

\* The elements at the reachable blocks.
LeftOf(s, R, w) == w = [b \in DOMAIN s |-> IF b \in R THEN s[b] ELSE <<>>]

\* The code of the blocks that are left.
LEMMA LeftIs ==
  ASSUME NEW T, NEW s \in Seq(Seq(T)), NEW n, Len(s) = n, NEW R, NEW w, LeftOf(s, R, w)
  PROVE  SomeSeq(w) /\ DOMAIN w = 1..n /\ \A b \in R : b \in 1..n => w[b] = s[b]
<1>1. DOMAIN s = 1..n /\ n \in Nat /\ \A b \in 1..n : s[b] \in Seq(T)
  OBVIOUS
<1>2. <<>> \in Seq(T)
  OBVIOUS
<1>3. w \in [1..n -> Seq(T)]
  BY <1>1, <1>2 DEF LeftOf
<1>4. w \in Seq(Seq(T))
  BY <1>1, <1>3
<1> QED
  BY <1>1, <1>3, <1>4 DEF SomeSeq, LeftOf

\* The selected blocks and their edges.
LEMMA SelectedBlocks ==
  ASSUME SelInv, pc = "select"
  PROVE  /\ Blocks = 1..Len(layout)
         /\ \A b \in Blocks : Range1(succs[b]) \subseteq 2..NumBlocks
<1>1. /\ layout \in Seq(Nat) /\ \A i \in 1..Len(layout) : layout[i] = i
      /\ \A b \in 1..Len(layout) : Selected(code[b], b, succs[b])
  BY DEF SelInv
<1>2. DOMAIN layout = 1..Len(layout)
  BY <1>1
<1>3. Blocks = 1..Len(layout)
  BY <1>1, <1>2 DEF Blocks, Range1
<1>4. \A b \in Blocks : succs[b] \in Seq(2..NumBlocks)
  BY <1>1, <1>3 DEF Selected, Edged
<1>5. \A b \in Blocks : Range1(succs[b]) \subseteq 2..NumBlocks
  <2>1. TAKE b \in Blocks
  <2>2. PICK T : T = 2..NumBlocks
    OBVIOUS
  <2>3. succs[b] \in Seq(T)
    BY <1>4, <2>2
  <2>4. Range1(succs[b]) \subseteq T
    BY <2>3, RangeOf
  <2> QED
    BY <2>2, <2>4
<1> QED
  BY <1>3, <1>5

\* Removing unreachable blocks leaves a whole function, and its flow is
\* recorded.
LEMMA UnreachableStep ==
  ASSUME SelInv, RemoveUnreachable
  PROVE  SplitOK(layout', code', succs') /\ Flows(layout', code', flow') /\ pc' = "split"
<1>1. /\ pc = "select" /\ Len(layout) = NumBlocks /\ pc' = "split"
      /\ layout' = Kept(layout, {i \in DOMAIN layout : layout[i] \in Reachable})
      /\ code' = [b \in DOMAIN code |-> IF b \in Reachable THEN code[b] ELSE <<>>]
      /\ succs' = [b \in DOMAIN succs |-> IF b \in Reachable THEN succs[b] ELSE <<>>]
      /\ flow' = Flow(layout', code')
  BY DEF RemoveUnreachable
<1>2. PICK n : n = NumBlocks
  OBVIOUS
<1>3. n \in Nat \ {0}
  BY <1>2, BlockAssumption
<1>4. /\ layout \in Seq(Nat) /\ \A i \in 1..n : layout[i] = i
      /\ code \in Seq(Seq(Instrs)) /\ succs \in Seq(Seq(Nat))
      /\ Len(code) = n /\ Len(succs) = n
      /\ \A b \in 1..n : Selected(code[b], b, succs[b])
  BY <1>1, <1>2 DEF SelInv
<1>5. PICK R : R = Reachable
  OBVIOUS
<1>6. Blocks = 1..n /\ \A b \in Blocks : Range1(succs[b]) \subseteq Blocks
  <2>1. Blocks = 1..n /\ \A b \in Blocks : Range1(succs[b]) \subseteq 2..n
    BY <1>1, <1>2, SelectedBlocks
  <2>2. 2..n \subseteq 1..n
    BY <1>3
  <2> QED
    BY <2>1, <2>2
<1>7. 1 \in R /\ R \subseteq 1..n /\ \A b \in R : Range1(succs[b]) \subseteq R
  <2>1. layout # <<>> /\ layout[1] = 1
    BY <1>1, <1>2, <1>3, <1>4
  <2> QED
    BY <1>4, <1>5, <1>6, <2>1, ReachableIs
<1>8. PICK l2, cd2, sc2, f2 : l2 = layout' /\ cd2 = code' /\ sc2 = succs' /\ f2 = flow'
  OBVIOUS
<1>9. SomeSeq(cd2) /\ DOMAIN cd2 = 1..n /\ \A b \in R : b \in 1..n => cd2[b] = code[b]
  <2>1. code \in Seq(Seq(Instrs)) /\ Len(code) = n
    BY <1>4
  <2>2. LeftOf(code, R, cd2)
    BY <1>1, <1>5, <1>8 DEF LeftOf
  <2> QED
    BY <2>1, <2>2, LeftIs
<1>10. SomeSeq(sc2) /\ DOMAIN sc2 = 1..n /\ \A b \in R : b \in 1..n => sc2[b] = succs[b]
  <2>1. succs \in Seq(Seq(Nat)) /\ Len(succs) = n
    BY <1>4
  <2>2. LeftOf(succs, R, sc2)
    BY <1>1, <1>5, <1>8 DEF LeftOf
  <2> QED
    BY <2>1, <2>2, LeftIs
<1>11. Keeping(layout, code, succs, R, l2, cd2, sc2)
  BY <1>1, <1>2, <1>4, <1>5, <1>7, <1>8, <1>9, <1>10 DEF Keeping
<1>12. Whole(l2, cd2, sc2) /\ \A b \in Range1(l2) : Ready(l2, cd2, sc2, b)
  BY <1>11, KeptWhole
<1>13. SplitOK(l2, cd2, sc2)
  BY <1>9, <1>10, <1>12 DEF SplitOK
<1>14. f2 = Flow(l2, cd2)
  BY <1>1, <1>8
<1>15. Flows(l2, cd2, f2)
  BY <1>12, <1>14, FlowStarts
<1> QED
  BY <1>1, <1>8, <1>13, <1>15

\* The inductive invariant.
BranchInv == SelInv /\ SplitInv /\ FoldInv /\ PosInv /\ FlowInv

\* Branch folding stays within its own control states.
LEMMA FoldPC ==
  ASSUME FoldBranches
  PROVE  pc \in FoldPCs /\ pc' \in FoldPCs
<1>1. CASE FixCFG
  BY <1>1 DEF FixCFG, FoldPCs
<1>2. CASE OptimizeBranches \/ NextBlock \/ EndOfBlocks
  BY <1>2 DEF OptimizeBranches, NextBlock, EndOfBlocks, FoldPCs
<1>3. CASE RemoveDeadBlock \/ KeepBlock
  BY <1>3 DEF RemoveDeadBlock, KeepBlock, FoldPCs
<1>4. CASE SkipEmptyBlock \/ AnalyzePrior \/ MergeIntoPrior \/ MoveOutOfTheWay \/ AnalyzeCurrent
  BY <1>4 DEF SkipEmptyBlock, AnalyzePrior, MergeIntoPrior, MoveOutOfTheWay, AnalyzeCurrent, FoldPCs
<1>5. CASE JoinDestinations \/ RemoveOnlyBranch \/ DropFalseBranch \/ ReversePrior
  BY <1>5 DEF JoinDestinations, RemoveOnlyBranch, DropFalseBranch, ReversePrior, RewritePrior, Reoptimize, FoldPCs
<1>6. CASE ReverseLoop \/ ForwardBlock \/ CurrentDone
  BY <1>6 DEF ReverseLoop, ForwardBlock, CurrentDone, Reoptimize, FoldPCs
<1>7. CASE pc = "place" /\ \E T \in SUBSET OpenPreds : \E p \in T : MoveAfterPred(p, T)
  BY <1>7 DEF MoveAfterPred, Reoptimize, FoldPCs
<1>8. CASE pc = "place" /\ \E i \in DOMAIN succs[MBB] : MoveBeforeSucc(i)
  BY <1>8 DEF MoveBeforeSucc, Reoptimize, FoldPCs
<1>9. CASE PlaceLast \/ LeaveInPlace
  BY <1>9 DEF PlaceLast, LeaveInPlace, FoldPCs
<1> QED
  BY <1>1, <1>2, <1>3, <1>4, <1>5, <1>6, <1>7, <1>8, <1>9 DEF FoldBranches, OptimizeBlock

\* The invariant holds at first.
LEMMA BranchStarts ==
  ASSUME BranchInit
  PROVE  BranchInv
<1>1. pc = "select" /\ layout = <<>> /\ code = <<>> /\ succs = <<>> /\ I = 0 /\ changed = FALSE
  BY DEF BranchInit
<1>2. SelInv
  <2>1. layout \in Seq(Nat) /\ Len(layout) = 0 /\ 0 <= NumBlocks
    BY <1>1, BlockAssumption
  <2>2. code \in Seq(Seq(Instrs)) /\ succs \in Seq(Seq(Nat)) /\ Len(code) = 0 /\ Len(succs) = 0
    BY <1>1
  <2> QED
    BY <2>1, <2>2 DEF SelInv
<1>3. SplitInv /\ FoldInv /\ FlowInv
  BY <1>1 DEF SplitInv, FoldInv, FlowInv, FoldPCs
<1>4. PosInv
  BY <1>1 DEF PosInv, BranchPCs, BodyPCs
<1> QED
  BY <1>2, <1>3, <1>4 DEF BranchInv

\* SelectBlock keeps the invariant.
LEMMA SelectInv ==
  ASSUME BranchInv, SelectBlock
  PROVE  BranchInv'
<1>1. pc = "select" /\ pc' = "select" /\ I' = I /\ changed' = changed
  BY DEF SelectBlock
<1>2. SelInv'
  BY SelectStep DEF BranchInv
<1>3. (SplitInv /\ FoldInv /\ FlowInv)'
  BY <1>1 DEF SplitInv, FoldInv, FlowInv, FoldPCs
<1>4. PosInv'
  BY <1>1 DEF BranchInv, PosInv, BranchPCs, BodyPCs
<1> QED
  BY <1>2, <1>3, <1>4 DEF BranchInv

\* RemoveUnreachable keeps the invariant.
LEMMA UnreachableInv ==
  ASSUME BranchInv, RemoveUnreachable
  PROVE  BranchInv'
<1>1. pc = "select" /\ pc' = "split" /\ I' = I /\ changed' = changed
  BY DEF RemoveUnreachable
<1>2. SplitOK(layout', code', succs') /\ Flows(layout', code', flow')
  BY UnreachableStep DEF BranchInv
<1>3. (SelInv /\ SplitInv /\ FoldInv /\ FlowInv)'
  BY <1>1, <1>2 DEF SelInv, SplitInv, FoldInv, FlowInv, FoldPCs
<1>4. PosInv'
  BY <1>1 DEF BranchInv, PosInv, BranchPCs, BodyPCs
<1> QED
  BY <1>3, <1>4 DEF BranchInv

\* SplitCriticalEdge keeps the invariant.
LEMMA SplitEdgeInv ==
  ASSUME BranchInv, NEW b \in Blocks, NEW s \in Blocks, SplitCriticalEdge(b, s)
  PROVE  BranchInv'
<1>1. pc = "split" /\ pc' = "split" /\ I' = I /\ changed' = changed /\ flow' = flow
  BY DEF SplitCriticalEdge
<1>2. SplitOK(layout, code, succs)
  BY <1>1 DEF BranchInv, SplitInv
<1>3. SplitOK(layout', code', succs') /\ Evolves(layout, code, layout', code')
  BY <1>2, SplitStateStep
<1>4. Flows(layout, code, flow)
  BY <1>1 DEF BranchInv, FlowInv
<1>5. PICK f : f = flow
  OBVIOUS
<1>6. Flows(layout', code', f)
  BY <1>3, <1>4, <1>5, FlowsOn
<1>7. (SelInv /\ SplitInv /\ FoldInv /\ FlowInv)'
  BY <1>1, <1>3, <1>5, <1>6 DEF SelInv, SplitInv, FoldInv, FlowInv, FoldPCs
<1>8. PosInv'
  BY <1>1 DEF BranchInv, PosInv, BranchPCs, BodyPCs
<1> QED
  BY <1>7, <1>8 DEF BranchInv

\* StartFolding keeps the invariant.
LEMMA StartInv ==
  ASSUME BranchInv, StartFolding
  PROVE  BranchInv'
<1>1. /\ pc = "split" /\ pc' = "fix" /\ I' = I /\ changed' = changed /\ flow' = flow
      /\ layout' = layout /\ code' = code /\ succs' = succs /\ MBB' = layout[1]
  BY DEF StartFolding, EntryBlock
<1>2. Whole(layout, code, succs)
  BY <1>1 DEF BranchInv, SplitInv, SplitOK
<1>3. layout[1] \in Blocks
  <2>1. Lay(layout)
    BY <1>2 DEF Whole
  <2>2. 1 \in DOMAIN layout
    BY <2>1 DEF Lay
  <2> QED
    BY <2>2 DEF Blocks, Range1
<1>4. Blocks' = Blocks
  BY <1>1 DEF Blocks
<1>5. (SelInv /\ SplitInv /\ FoldInv)'
  BY <1>1, <1>2 DEF SelInv, SplitInv, FoldInv, BodyOK
<1>6. FlowInv'
  BY <1>1 DEF BranchInv, FlowInv
<1>7. PosInv'
  BY <1>1, <1>3, <1>4 DEF BranchInv, PosInv, BranchPCs, BodyPCs
<1> QED
  BY <1>5, <1>6, <1>7 DEF BranchInv

\* FoldBranches keeps the invariant.
LEMMA FoldInvStep ==
  ASSUME BranchInv, FoldBranches
  PROVE  BranchInv'
<1>1. pc \in FoldPCs /\ pc' \in FoldPCs
  BY FoldPC
<1>2. Follows /\ PosInv'
  BY FoldStep, FoldPosition DEF BranchInv
<1>3. flow' = flow
  <2>1. CASE OptimizeBlock
    BY <2>1 DEF OptimizeBlock, SkipEmptyBlock, AnalyzePrior, MergeIntoPrior, MoveOutOfTheWay, AnalyzeCurrent,
      JoinDestinations, RemoveOnlyBranch, DropFalseBranch, ReversePrior, RewritePrior, ReverseLoop, ForwardBlock,
      CurrentDone, MoveAfterPred, MoveBeforeSucc, PlaceLast, LeaveInPlace
  <2>2. CASE ~OptimizeBlock
    BY <2>2 DEF FoldBranches, FixCFG, OptimizeBranches, NextBlock, EndOfBlocks, RemoveDeadBlock, KeepBlock
  <2> QED
    BY <2>1, <2>2
<1>4. FoldInv'
  BY <1>2 DEF Follows, FoldInv
<1>5. pc # "select" /\ pc' # "select" /\ pc' # "split"
  BY <1>1 DEF FoldPCs
<1>6. (SelInv /\ SplitInv)'
  BY <1>5 DEF SelInv, SplitInv
<1>7. Flows(layout, code, flow) /\ Evolves(layout, code, layout', code')
  BY <1>2, <1>5 DEF BranchInv, FlowInv, Follows
<1>8. PICK f : f = flow
  OBVIOUS
<1>9. Flows(layout', code', f)
  BY <1>7, <1>8, FlowsOn
<1>10. FlowInv'
  BY <1>3, <1>8, <1>9 DEF FlowInv
<1> QED
  BY <1>2, <1>4, <1>6, <1>10 DEF BranchInv

\* A stuttering step keeps the invariant.
LEMMA StutterInv ==
  ASSUME BranchInv, UNCHANGED branchVars
  PROVE  BranchInv'
<1>1. UNCHANGED <<pc, layout, code, succs, num, MBB, I, changed, flow>>
  BY DEF branchVars
<1>2. Blocks' = Blocks /\ PrevBB' = PrevBB
  BY <1>1 DEF Blocks, PrevBB, Prior, Position
<1>3. Analyze(PrevBB)' = Analyze(PrevBB)
  BY <1>1, <1>2 DEF Analyze
<1>4. PosInv'
  <2>1. Settled(Analyze(PrevBB)) => Settled(Analyze(PrevBB))'
    BY <1>1, <1>3 DEF Settled, SameDestination, OnlyHere, FalseHere, TrueHere
  <2> QED
    BY <1>1, <1>2, <2>1 DEF BranchInv, PosInv
<1>5. (SelInv /\ SplitInv /\ FoldInv /\ FlowInv)'
  BY <1>1 DEF BranchInv, SelInv, SplitInv, FoldInv, FlowInv
<1> QED
  BY <1>4, <1>5 DEF BranchInv

\* The inductive invariant of instruction selection, edge splitting and branch
\* folding: blocks are well formed, edges cover what the code can do, each
\* phase finds the blocks as the phase before leaves them, and the recorded
\* flow is the flow of the code.
THEOREM BranchInvariant == BranchSpec => []BranchInv
<1>1. BranchInit => BranchInv
  BY BranchStarts
<1>2. BranchInv /\ [BranchNext]_branchVars => BranchInv'
  <2> SUFFICES ASSUME BranchInv, [BranchNext]_branchVars PROVE BranchInv'
    OBVIOUS
  <2>1. CASE SelectBlock
    BY <2>1, SelectInv
  <2>2. CASE RemoveUnreachable
    BY <2>2, UnreachableInv
  <2>3. CASE \E b, s \in Blocks : SplitCriticalEdge(b, s)
    BY <2>3, SplitEdgeInv
  <2>4. CASE StartFolding
    BY <2>4, StartInv
  <2>5. CASE FoldBranches
    BY <2>5, FoldInvStep
  <2>6. CASE UNCHANGED branchVars
    BY <2>6, StutterInv
  <2> QED
    BY <2>1, <2>2, <2>3, <2>4, <2>5, <2>6 DEF BranchNext
<1> QED
  BY <1>1, <1>2, PTL DEF BranchSpec

\* Once selection is over the function is whole, or whole but for the block
\* about to be removed.
LEMMA BlocksWhole ==
  ASSUME BranchInv, pc # "select"
  PROVE  \/ Whole(layout, code, succs)
         \/ pc = "dead" /\ Half(layout, code, succs, MBB)
<1>1. pc \in BranchPCs
  BY DEF BranchInv, PosInv
<1>2. CASE pc = "split"
  BY <1>2 DEF BranchInv, SplitInv, SplitOK
<1>3. CASE pc \in FoldPCs
  BY <1>3 DEF BranchInv, FoldInv, BodyOK
<1> QED
  BY <1>1, <1>2, <1>3 DEF BranchPCs, FoldPCs

\* The type invariant while blocks are selected.
LEMMA SelectTyped ==
  ASSUME SelInv, pc = "select"
  PROVE  /\ DOMAIN code = DOMAIN succs /\ Blocks \subseteq DOMAIN code
         /\ \A i, j \in DOMAIN layout : i # j => layout[i] # layout[j]
         /\ layout # <<>> => layout[1] = 1
<1>1. /\ layout \in Seq(Nat) /\ \A i \in 1..Len(layout) : layout[i] = i
      /\ code \in Seq(Seq(Instrs)) /\ succs \in Seq(Seq(Nat))
      /\ Len(code) = Len(layout) /\ Len(succs) = Len(layout)
  BY DEF SelInv
<1>2. DOMAIN layout = 1..Len(layout) /\ DOMAIN code = 1..Len(layout) /\ DOMAIN succs = 1..Len(layout)
  BY <1>1
<1>3. Blocks = 1..Len(layout)
  BY SelectedBlocks
<1>4. layout # <<>> => 1 \in 1..Len(layout)
  BY <1>1
<1>5. (\A i, j \in DOMAIN layout : i # j => layout[i] # layout[j]) /\ (layout # <<>> => layout[1] = 1)
  BY <1>1, <1>2, <1>4
<1> QED
  BY <1>2, <1>3, <1>5

\* A layout has no block twice and starts with the entry.
LEMMA LayTyped ==
  ASSUME NEW l, Lay(l)
  PROVE  (\A i, j \in DOMAIN l : i # j => l[i] # l[j]) /\ l[1] = 1
BY DEF Lay

\* Type correctness: the layout is a list of different blocks that starts with
\* the entry, and edges lead to blocks of the layout, whatever is split,
\* folded, moved or removed.
THEOREM BranchTypeCorrect == BranchSpec => []BranchTypeOK
<1>1. BranchInv => BranchTypeOK
  <2> SUFFICES ASSUME BranchInv PROVE BranchTypeOK
    OBVIOUS
  <2>1. pc \in BranchPCs /\ changed \in BOOLEAN /\ I \in Blocks \cup {0}
    BY DEF BranchInv, PosInv
  <2>2. CASE pc = "select"
    <3>1. /\ DOMAIN code = DOMAIN succs /\ Blocks \subseteq DOMAIN code
          /\ \A i, j \in DOMAIN layout : i # j => layout[i] # layout[j]
          /\ layout # <<>> => layout[1] = 1
      BY <2>2, SelectTyped DEF BranchInv
    <3> QED
      BY <2>1, <2>2, <3>1 DEF BranchTypeOK
  <2>3. CASE pc # "select"
    <3>1. /\ Lay(layout) /\ DOMAIN succs = DOMAIN code /\ Range1(layout) \subseteq DOMAIN code
          /\ \A b \in Range1(layout) : succs[b] \in Seq(Range1(layout) \ {1})
      <4>1. CASE Whole(layout, code, succs)
        BY <4>1 DEF Whole
      <4>2. CASE Half(layout, code, succs, MBB)
        <5>1. \A b \in Range1(layout) : succs[b] \in Seq(Range1(layout) \ {1, MBB})
          BY <4>2 DEF Half
        <5>2. Range1(layout) \ {1, MBB} \subseteq Range1(layout) \ {1}
          OBVIOUS
        <5>3. \A b \in Range1(layout) : succs[b] \in Seq(Range1(layout) \ {1})
          BY <5>1, <5>2, SeqMore
        <5> QED
          BY <4>2, <5>3 DEF Half
      <4> QED
        BY <2>3, <4>1, <4>2, BlocksWhole
    <3>2. \A b \in Range1(layout) : Range1(succs[b]) \subseteq Range1(layout) \ {1}
      <4>1. TAKE b \in Range1(layout)
      <4>2. PICK T : T = Range1(layout) \ {1}
        OBVIOUS
      <4>3. succs[b] \in Seq(T)
        BY <3>1, <4>2
      <4>4. Range1(succs[b]) \subseteq T
        BY <4>3, RangeOf
      <4> QED
        BY <4>2, <4>4
    <3>3. (\A i, j \in DOMAIN layout : i # j => layout[i] # layout[j]) /\ layout[1] = 1
      BY <3>1, LayTyped
    <3> QED
      BY <2>1, <3>1, <3>2, <3>3 DEF BranchTypeOK, Blocks
  <2> QED
    BY <2>2, <2>3
<1> QED
  BY <1>1, BranchInvariant, PTL

\* Whatever edge splitting and branch folding rewrite, from each piece of work
\* control reaches the same next piece of work as in the selected code.
THEOREM FlowIsPreserved == BranchSpec => []FlowPreserved
<1>1. BranchInv => FlowPreserved
  <2> SUFFICES ASSUME BranchInv, pc # "select"
               PROVE \A k \in Works(layout, code) : \A nu \in DOMAIN flow[k] :
                       NextWork(layout, code, k, nu) = flow[k][nu]
    BY DEF FlowPreserved
  <2>1. Flows(layout, code, flow)
    BY DEF BranchInv, FlowInv
  <2> QED
    BY <2>1 DEF Flows
<1> QED
  BY <1>1, BranchInvariant, PTL

\* Where a covered block leads, there is an edge.
LEMMA LeadsCovered ==
  ASSUME NEW c, Formed(c), NEW ft, NEW s, Covered(c, ft, s), NEW nu,
         ~(\E i \in DOMAIN c : c[i].op = "HALT")
  PROVE  Leads(c, nu, ft) \in Range1(s) \cup {Exit}
<1>1. PICK m \in Nat : Form(c, m)
  BY DEF Formed
<1>2. ~Halts(c)
  <2>1. DOMAIN c = 1..Len(c)
    BY <1>1, WorkIndex
  <2> QED
    BY <2>1 DEF Halts
<1>3. \/ Leads(c, nu, ft) = Exit
      \/ LeadsTo(c, Leads(c, nu, ft))
      \/ Falls(c) /\ Leads(c, nu, ft) = ft
  BY <1>1, <1>2, CoverLeads
<1> QED
  BY <1>3 DEF Covered

\* The blocks that are not about to be removed have their edges.
LEMMA LiveCovered ==
  ASSUME BranchInv, pc # "select", NEW b \in Range1(Live)
  PROVE  Formed(code[b]) /\ Covered(code[b], Following(Live, b), succs[b])
<1>1. CASE Live = layout /\ Whole(layout, code, succs)
  BY <1>1 DEF Whole
<1>2. CASE Live = Without(layout, MBB) /\ Half(layout, code, succs, MBB)
  <2>1. Lay(layout) /\ MBB \in Range1(layout) /\ MBB # 1
    BY <1>2 DEF Half
  <2>2. Range1(Live) = Range1(layout) \ {MBB}
    BY <1>2, <2>1, WithoutFacts
  <2>3. b \in Range1(layout) \ {MBB}
    BY <2>2
  <2> QED
    BY <1>2, <2>3 DEF Half
<1>3. CASE pc = "dead" /\ Preds(MBB) = {}
  <2>1. Live = Without(layout, MBB)
    BY <1>3 DEF Live
  <2>2. CASE Half(layout, code, succs, MBB)
    BY <1>2, <2>1, <2>2
  <2>3. CASE Whole(layout, code, succs)
    <3>1. MBB \in Blocks \ {1}
      BY <1>3 DEF BranchInv, PosInv, BodyPCs
    <3>2. \A p \in Range1(layout) : MBB \notin Range1(succs[p])
      BY <1>3 DEF Preds, isSuccessor, Blocks
    <3>3. PICK x : x = MBB
      OBVIOUS
    <3>4. x \in Range1(layout) \ {1} /\ \A p \in Range1(layout) : x \notin Range1(succs[p])
      BY <3>1, <3>2, <3>3 DEF Blocks
    <3>5. Half(layout, code, succs, x)
      BY <2>3, <3>4, WholeHalf
    <3> QED
      BY <1>2, <2>1, <3>3, <3>5
  <2> QED
    BY <2>2, <2>3, BlocksWhole
<1>4. CASE ~(pc = "dead" /\ Preds(MBB) = {})
  <2>1. Live = layout
    BY <1>4 DEF Live
  <2>2. ~(pc = "dead" /\ Half(layout, code, succs, MBB))
    <3>1. SUFFICES ASSUME pc = "dead", Half(layout, code, succs, MBB) PROVE Preds(MBB) = {}
      BY <1>4
    <3>2. \A p \in Range1(layout) : succs[p] \in Seq(Range1(layout) \ {1, MBB})
      BY <3>1 DEF Half
    <3>3. \A p \in Range1(layout) : MBB \notin Range1(succs[p])
      BY <3>2, SeqRange
    <3> QED
      BY <3>3 DEF Preds, isSuccessor, Blocks
  <2> QED
    BY <1>1, <2>1, <2>2, BlocksWhole
<1> QED
  BY <1>3, <1>4

\* Wherever the code of a block can lead, the control flow graph has an edge,
\* in the middle of branch folding too.
THEOREM EdgesCover == BranchSpec => []EdgesCoverCode
<1>1. BranchInv => EdgesCoverCode
  <2> SUFFICES ASSUME BranchInv, pc # "select", NEW b \in Range1(Live),
                      ~(\E i \in DOMAIN code[b] : code[b][i].op = "HALT"), NEW nu
               PROVE Leads(code[b], nu, Following(Live, b)) \in Range1(succs[b]) \cup {Exit}
    BY DEF EdgesCoverCode
  <2>1. Formed(code[b]) /\ Covered(code[b], Following(Live, b), succs[b])
    BY LiveCovered
  <2> QED
    BY <2>1, LeadsCovered
<1> QED
  BY <1>1, BranchInvariant, PTL

\* A branch that branch folding leaves alone when ft is the block after.
GoodAt(c, ft) ==
  ~Ana(c).fail => ft \notin {Ana(c).tbb, Ana(c).fbb} /\ (Ana(c).fbb # 0 => Ana(c).fbb # Ana(c).tbb)

\* The first n blocks of the layout, as a scan that changes nothing leaves them.
SeenOK(l, cd, sc, n) ==
  \A i \in 2..n : /\ GoodAt(cd[l[i - 1]], l[i]) /\ cd[l[i]] # <<>>
                  /\ \E p \in Range1(l) : l[i] \in Range1(sc[p])

\* A block that loses a jump after a jump is as good as it was.
LEMMA ErasedSame ==
  ASSUME NEW c, Formed(c), NEW d \in {c, Ana(c).code}
  PROVE  (\A ft : GoodAt(c, ft) => GoodAt(d, ft)) /\ (c # <<>> => d # <<>>)
<1>1. PICK m \in Nat : Form(c, m)
  BY DEF Formed
<1>2. PICK a, f : a = Ana(c) /\ f = AnaF(c)
  OBVIOUS
<1>3. CASE d = c
  BY <1>3
<1>4. CASE a.code = c
  BY <1>2, <1>4
<1>5. CASE d = a.code /\ \E t, u : CaseJumps(c, m, a, f, t, u)
  <2>1. PICK t, u : CaseJumps(c, m, a, f, t, u)
    BY <1>5
  <2>2. JumpsProfile(c, m, t, u) /\ Answer(a, t, 0, <<>>, Front(c)) /\ t \in Targets1
    BY <2>1 DEF CaseJumps
  <2>3. d = Front(c)
    BY <1>5, <2>2 DEF Answer
  <2>4. IsJump(d, m, t)
    BY <2>2, <2>3 DEF JumpsProfile
  <2>5. Ana(d) = Analysis(t, 0, <<>>, d)
    <3>1. JumpProfile(d, m, t)
      BY <2>4, JumpFacts
    <3> QED
      BY <3>1 DEF JumpProfile
  <2>6. ~Ana(d).fail /\ Ana(d).tbb = t /\ Ana(d).fbb = 0
    BY <2>5, AnalysisFields
  <2>7. ~a.fail /\ a.tbb = t /\ a.fbb = 0
    BY <2>2 DEF Answer
  <2>8. \A ft : GoodAt(c, ft) => GoodAt(d, ft)
    BY <1>2, <2>6, <2>7 DEF GoodAt
  <2>9. d # <<>>
    <3>1. Len(d) = m + 1 /\ d \in Seq(Instrs)
      BY <2>4 DEF IsJump, Form
    <3> QED
      BY <3>1
  <2> QED
    BY <2>8, <2>9
<1>6. a.code = c \/ \E t, u : CaseJumps(c, m, a, f, t, u)
  BY <1>1, <1>2, AnaCases DEF CaseFall, CaseJump, CaseCond, CaseCond2, CaseOther, Answer, NoAnswer
<1>7. d = c \/ d = a.code
  BY <1>2
<1> QED
  BY <1>3, <1>4, <1>5, <1>6, <1>7

\* Nothing but erased jumps.
Quiet(l, cd, sc, cd2, sc2) ==
  \A b \in Range1(l) : Formed(cd[b]) /\ cd2[b] \in {cd[b], Ana(cd[b]).code} /\ sc2[b] = sc[b]

\* Erased jumps do not spoil what the scan has seen.
LEMMA StaysSeen ==
  ASSUME NEW l, Lay(l), NEW cd, NEW sc, NEW cd2, NEW sc2, Quiet(l, cd, sc, cd2, sc2),
         NEW n \in Nat, n <= Len(l), SeenOK(l, cd, sc, n)
  PROVE  SeenOK(l, cd2, sc2, n)
<1>1. SUFFICES ASSUME NEW i \in 2..n
               PROVE  /\ GoodAt(cd2[l[i - 1]], l[i]) /\ cd2[l[i]] # <<>>
                      /\ \E p \in Range1(l) : l[i] \in Range1(sc2[p])
  BY DEF SeenOK
<1>2. /\ GoodAt(cd[l[i - 1]], l[i]) /\ cd[l[i]] # <<>>
      /\ \E p \in Range1(l) : l[i] \in Range1(sc[p])
  BY DEF SeenOK
<1>3. l \in Seq(Nat \ {0})
  BY DEF Lay
<1>4. i \in 1..Len(l) /\ i - 1 \in 1..Len(l)
  <2>1. Len(l) \in Nat
    BY <1>3
  <2> QED
    BY <2>1
<1>5. l[i] \in Range1(l) /\ l[i - 1] \in Range1(l)
  BY <1>3, <1>4, RangeOf
<1>6. PICK x, y : x = l[i - 1] /\ y = l[i]
  OBVIOUS
<1>7. Formed(cd[x]) /\ cd2[x] \in {cd[x], Ana(cd[x]).code} /\ Formed(cd[y]) /\ cd2[y] \in {cd[y], Ana(cd[y]).code}
  BY <1>5, <1>6 DEF Quiet
<1>8. GoodAt(cd2[x], y)
  BY <1>2, <1>6, <1>7, ErasedSame
<1>9. cd2[y] # <<>>
  BY <1>2, <1>6, <1>7, ErasedSame
<1>10. \E p \in Range1(l) : y \in Range1(sc2[p])
  BY <1>2, <1>6 DEF Quiet
<1> QED
  BY <1>6, <1>8, <1>9, <1>10

\* One more block.
LEMMA OneMoreSeen ==
  ASSUME NEW l, NEW cd, NEW sc, NEW n \in Nat, n > 1, SeenOK(l, cd, sc, n - 1),
         GoodAt(cd[l[n - 1]], l[n]), cd[l[n]] # <<>>, \E p \in Range1(l) : l[n] \in Range1(sc[p])
  PROVE  SeenOK(l, cd, sc, n)
<1>1. \A i \in 2..n : i \in 2..(n - 1) \/ i = n
  OBVIOUS
<1>2. \A i \in 2..(n - 1) : /\ GoodAt(cd[l[i - 1]], l[i]) /\ cd[l[i]] # <<>>
                            /\ \E p \in Range1(l) : l[i] \in Range1(sc[p])
  BY DEF SeenOK
<1>3. /\ GoodAt(cd[l[n - 1]], l[n]) /\ cd[l[n]] # <<>>
      /\ \E p \in Range1(l) : l[n] \in Range1(sc[p])
  OBVIOUS
<1>4. \A i \in 2..n : /\ GoodAt(cd[l[i - 1]], l[i]) /\ cd[l[i]] # <<>>
                      /\ \E p \in Range1(l) : l[i] \in Range1(sc[p])
  <2>1. TAKE i \in 2..n
  <2>2. CASE i \in 2..(n - 1)
    BY <1>2, <2>2
  <2>3. CASE i = n
    BY <1>3, <2>3
  <2> QED
    BY <1>1, <2>2, <2>3
<1> QED
  BY <1>4 DEF SeenOK

\* How far the scan has come, from the iterator.
SeenTo(l, i) == IF i = 0 THEN Len(l) ELSE PositionIn(l, i) - 1

\* The scan has come as far as the block before the iterator.
LEMMA SeenNext ==
  ASSUME NEW l, Lay(l), NEW b \in Range1(l), NEW f, f = Following(l, b)
  PROVE  /\ SeenTo(l, f) = PositionIn(l, b)
         /\ PositionIn(l, b) \in 1..Len(l) /\ l[PositionIn(l, b)] = b /\ Len(l) \in Nat
         /\ b # 1 => l[PositionIn(l, b) - 1] \in Range1(l) \ {b}
<1>1. PositionIn(l, b) \in 1..Len(l) /\ l[PositionIn(l, b)] = b
  BY PositionOf
<1>2. Len(l) \in Nat
  BY DEF Lay
<1>3. /\ f = 0 <=> PositionIn(l, b) = Len(l)
      /\ f # 0 => PositionIn(l, f) = PositionIn(l, b) + 1
  BY FollowingFacts
<1>4. SeenTo(l, f) = PositionIn(l, b)
  BY <1>1, <1>2, <1>3 DEF SeenTo
<1>5. b # 1 => l[PositionIn(l, b) - 1] \in Range1(l) \ {b}
  BY PriorFacts
<1> QED
  BY <1>1, <1>2, <1>4, <1>5

\* The control states of a scan.
ScanPCs == BodyPCs \cup {"next", "done"}

\* A scan that has changed nothing so far, with the block looked at and the
\* iterator: the blocks behind it are as they should be.
Scanned(p, l, cd, sc, x, i) ==
  /\ p \in BodyPCs => i = Following(l, x)
  /\ p = "done" => i = 0
  /\ SeenOK(l, cd, sc, IF p \in BodyPCs THEN PositionIn(l, x) - 1 ELSE SeenTo(l, i))
  /\ p \in {"prior", "cur", "place"} => cd[x] # <<>>
  /\ p \in {"cur", "place"} => GoodAt(cd[l[PositionIn(l, x) - 1]], x)
  /\ p = "dead" /\ (\E b \in Range1(l) : x \in Range1(sc[b])) =>
       cd[x] # <<>> /\ GoodAt(cd[l[PositionIn(l, x) - 1]], x)

\* A scan that has changed nothing has found the blocks behind it as they
\* should be.
ScanInv ==
  /\ pc = "done" => ~changed
  /\ pc \in ScanPCs /\ ~changed => Scanned(pc, layout, code, succs, MBB, I)

\* The block looked at, and what stays when jumps are erased.
LEMMA ScanKept ==
  ASSUME NEW p \in BodyPCs, NEW l, Lay(l), NEW cd, NEW sc, NEW x \in Range1(l) \ {1}, NEW i,
         Scanned(p, l, cd, sc, x, i), NEW cd2, NEW sc2, Quiet(l, cd, sc, cd2, sc2),
         NEW y, y = l[PositionIn(l, x) - 1]
  PROVE  /\ i = Following(l, x) /\ SeenOK(l, cd2, sc2, PositionIn(l, x) - 1)
         /\ GoodAt(cd[y], x) => GoodAt(cd2[y], x)
         /\ cd[x] # <<>> => cd2[x] # <<>>
<1>1. i = Following(l, x) /\ SeenOK(l, cd, sc, PositionIn(l, x) - 1)
  BY DEF Scanned
<1>2. PositionIn(l, x) \in 1..Len(l) /\ Len(l) \in Nat
  BY SeenNext
<1>3. PICK n : n = PositionIn(l, x) - 1
  OBVIOUS
<1>4. n \in Nat /\ n <= Len(l)
  BY <1>2, <1>3
<1>5. SeenOK(l, cd2, sc2, n)
  BY <1>1, <1>3, <1>4, StaysSeen
<1>6. y \in Range1(l)
  BY PriorFacts
<1>7. /\ Formed(cd[y]) /\ cd2[y] \in {cd[y], Ana(cd[y]).code}
      /\ Formed(cd[x]) /\ cd2[x] \in {cd[x], Ana(cd[x]).code}
  BY <1>6 DEF Quiet
<1>8. GoodAt(cd[y], x) => GoodAt(cd2[y], x)
  BY <1>7, ErasedSame
<1>9. cd[x] # <<>> => cd2[x] # <<>>
  BY <1>7, ErasedSame
<1> QED
  BY <1>1, <1>3, <1>5, <1>8, <1>9

\* What is to be shown while a block is looked at.
LEMMA ScannedBody ==
  ASSUME NEW p \in BodyPCs, NEW l, NEW cd, NEW sc, NEW x, NEW i, NEW y, y = l[PositionIn(l, x) - 1],
         i = Following(l, x), SeenOK(l, cd, sc, PositionIn(l, x) - 1),
         p \in {"prior", "cur", "place", "dead"} => cd[x] # <<>>,
         p \in {"cur", "place", "dead"} => GoodAt(cd[y], x)
  PROVE  Scanned(p, l, cd, sc, x, i)
<1>1. p # "done"
  BY DEF BodyPCs
<1> QED
  BY <1>1 DEF Scanned

\* Cleaning a block without dropping edges only erases a jump.
LEMMA CleanQuiet ==
  ASSUME Whole(layout, code, succs), NEW x \in Blocks, Clean(x), CleanedEdges(x) = succs[x]
  PROVE  /\ Quiet(layout, code, succs, code', succs')
         /\ \A b \in Blocks : b # x => code'[b] = code[b]
<1>1. /\ Blocks = Range1(layout) /\ DOMAIN succs = DOMAIN code /\ Blocks \subseteq DOMAIN code
      /\ \A b \in Blocks : Formed(code[b]) /\ Analyze(b) = Ana(code[b])
  BY BodyBlocks
<1>2. PICK d : d = Ana(code[x]).code
  OBVIOUS
<1>3. PICK s : s = succs[x]
  OBVIOUS
<1>4. code' = [code EXCEPT ![x] = d] /\ succs' = [succs EXCEPT ![x] = s]
  BY <1>1, <1>2, <1>3 DEF Clean
<1>5. \A b \in Blocks : /\ code'[b] = IF b = x THEN d ELSE code[b]
                        /\ succs'[b] = succs[b]
  BY <1>1, <1>3, <1>4
<1> QED
  BY <1>1, <1>2, <1>5 DEF Quiet

\* What the parts of OptimizeBlock that change nothing start from.
LEMMA AtScan ==
  ASSUME FoldInv, PosInv, ScanInv, pc \in {"top", "prior", "cur", "place"}, ~changed,
         NEW x, x = MBB, NEW y, y = PrevBB
  PROVE  /\ Whole(layout, code, succs) /\ Lay(layout) /\ x \in Range1(layout) \ {1} /\ x \in Targets1
         /\ Blocks = Range1(layout) /\ x \in Blocks /\ y \in Blocks /\ y # x
         /\ y = layout[PositionIn(layout, x) - 1]
         /\ Scanned(pc, layout, code, succs, x, I) /\ pc \in BodyPCs
<1>1. Whole(layout, code, succs) /\ x \in Blocks \ {1} /\ y \in Blocks /\ y # x /\ x \in Targets1
  BY AtPrior
<1>2. Blocks = Range1(layout) /\ Lay(layout)
  BY <1>1, BodyBlocks
<1>3. y = layout[PositionIn(layout, x) - 1]
  BY DEF PrevBB, Prior, Position
<1>4. pc \in BodyPCs
  BY DEF BodyPCs
<1>5. Scanned(pc, layout, code, succs, x, I)
  BY <1>4 DEF ScanInv, ScanPCs
<1> QED
  BY <1>1, <1>2, <1>3, <1>4, <1>5

\* Nothing has changed.
LEMMA StillQuiet ==
  ASSUME Whole(layout, code, succs), UNCHANGED <<layout, code, succs>>
  PROVE  Quiet(layout, code, succs, code', succs')
<1>1. \A b \in Range1(layout) : Formed(code[b])
  BY DEF Whole
<1> QED
  BY <1>1 DEF Quiet

\* The body of OptimizeBlock when it changes nothing but erased jumps.
LEMMA ScanOn ==
  ASSUME FoldInv, PosInv, ScanInv, pc \in {"top", "prior", "cur", "place"}, ~changed,
         NEW x, x = MBB, NEW y, y = PrevBB, UNCHANGED <<layout, MBB, I>>,
         Quiet(layout, code, succs, code', succs'), pc' \in {"prior", "cur", "place", "dead"},
         code[x] # <<>>, pc' \in {"cur", "place", "dead"} => GoodAt(code[y], x)
  PROVE  ScanInv'
<1>1. /\ Lay(layout) /\ x \in Range1(layout) \ {1}
      /\ y = layout[PositionIn(layout, x) - 1]
      /\ Scanned(pc, layout, code, succs, x, I) /\ pc \in BodyPCs
  BY AtScan
<1>2. PICK p, l, cd, sc, i, cd2, sc2, p2 : /\ p = pc /\ l = layout /\ cd = code /\ sc = succs /\ i = I
                                           /\ cd2 = code' /\ sc2 = succs' /\ p2 = pc'
  OBVIOUS
<1>3. /\ p \in BodyPCs /\ Lay(l) /\ x \in Range1(l) \ {1} /\ Scanned(p, l, cd, sc, x, i)
      /\ Quiet(l, cd, sc, cd2, sc2) /\ y = l[PositionIn(l, x) - 1]
  BY <1>1, <1>2
<1>4. /\ i = Following(l, x) /\ SeenOK(l, cd2, sc2, PositionIn(l, x) - 1)
      /\ GoodAt(cd[y], x) => GoodAt(cd2[y], x)
      /\ cd[x] # <<>> => cd2[x] # <<>>
  BY <1>3, ScanKept
<1>5. /\ p2 \in BodyPCs /\ p2 # "done" /\ cd2[x] # <<>>
      /\ p2 \in {"cur", "place", "dead"} => GoodAt(cd2[y], x)
  BY <1>2, <1>4 DEF BodyPCs
<1>6. Scanned(p2, l, cd2, sc2, x, i)
  BY <1>3, <1>4, <1>5, ScannedBody
<1>7. layout' = l /\ code' = cd2 /\ succs' = sc2 /\ MBB' = x /\ I' = i /\ pc' = p2
  BY <1>2
<1> QED
  BY <1>5, <1>6, <1>7 DEF ScanInv

\* SkipEmptyBlock, when it changes nothing: the block is unreachable.
LEMMA SkipScan ==
  ASSUME FoldInv, PosInv, ScanInv, SkipEmptyBlock
  PROVE  ScanInv'
<1>1. pc = "top" /\ pc' = "dead" /\ code[MBB] = <<>> /\ UNCHANGED <<layout, MBB, I>>
  BY DEF SkipEmptyBlock
<1>2. CASE changed'
  BY <1>1, <1>2 DEF ScanInv
<1>3. CASE ~changed'
  <2>1. (Preds(MBB) = {} \/ LayoutSuccessor(MBB) = 0) /\ UNCHANGED <<code, succs, changed>>
    BY <1>3 DEF SkipEmptyBlock
  <2>2. PICK x : x = MBB
    OBVIOUS
  <2>3. PICK y : y = PrevBB
    OBVIOUS
  <2>4. /\ Whole(layout, code, succs) /\ Lay(layout) /\ x \in Range1(layout) \ {1}
        /\ Blocks = Range1(layout) /\ Scanned(pc, layout, code, succs, x, I)
    BY <1>1, <1>3, <2>1, <2>2, <2>3, AtScan
  <2>5. \A b \in Range1(layout) : x \notin Range1(succs[b])
    <3>1. CASE Preds(MBB) = {}
      BY <2>2, <2>4, <3>1 DEF Preds, isSuccessor
    <3>2. CASE Following(layout, x) = 0
      <4>1. Covered(code[x], 0, succs[x]) /\ succs[x] \in Seq(Range1(layout) \ {1})
        BY <2>4, <3>2 DEF Whole
      <4>2. Falls(code[x])
        BY <1>1, <2>2, EmptyForm
      <4>3. 0 \in Range1(succs[x])
        BY <4>1, <4>2 DEF Covered
      <4>4. PICK T : T = Range1(layout) \ {1}
        OBVIOUS
      <4>5. Range1(succs[x]) \subseteq T
        BY <4>1, <4>4, RangeOf
      <4>6. 0 \in Range1(layout)
        BY <4>3, <4>4, <4>5
      <4> QED
        BY <2>4, <4>6, LayNat
    <3> QED
      BY <2>1, <2>2, <3>1, <3>2 DEF LayoutSuccessor
  <2>6. "top" \in BodyPCs /\ "dead" \in BodyPCs
    BY DEF BodyPCs
  <2>7. Scanned("dead", layout, code, succs, x, I)
    BY <1>1, <2>4, <2>5, <2>6 DEF Scanned
  <2> QED
    BY <1>1, <2>1, <2>2, <2>7 DEF ScanInv
<1> QED
  BY <1>2, <1>3

\* AnalyzePrior, when it drops no edge.
LEMMA PriorScan ==
  ASSUME FoldInv, PosInv, ScanInv, AnalyzePrior
  PROVE  ScanInv'
<1>1. /\ pc = "top" /\ pc' = "prior" /\ code[MBB] # <<>> /\ UNCHANGED <<layout, MBB, I>> /\ Clean(PrevBB)
      /\ changed' = (changed \/ CleanedEdges(PrevBB) # succs[PrevBB])
  BY DEF AnalyzePrior
<1>2. CASE changed'
  BY <1>1, <1>2 DEF ScanInv
<1>3. CASE ~changed'
  <2>1. ~changed /\ CleanedEdges(PrevBB) = succs[PrevBB]
    BY <1>1, <1>3
  <2>2. PICK x : x = MBB
    OBVIOUS
  <2>3. PICK y : y = PrevBB
    OBVIOUS
  <2>4. Whole(layout, code, succs) /\ y \in Blocks
    BY <1>1, <2>1, <2>2, <2>3, AtScan
  <2>5. Quiet(layout, code, succs, code', succs')
    BY <1>1, <2>1, <2>3, <2>4, CleanQuiet
  <2>6. pc' \in {"prior", "cur", "place", "dead"} /\ pc' \notin {"cur", "place", "dead"} /\ code[x] # <<>>
    BY <1>1, <2>2
  <2> QED
    BY <1>1, <2>1, <2>2, <2>3, <2>5, <2>6, ScanOn
<1> QED
  BY <1>2, <1>3

\* AnalyzeCurrent, when it drops no edge: the block before is as it should be.
LEMMA CurrentScan ==
  ASSUME FoldInv, PosInv, ScanInv, AnalyzeCurrent
  PROVE  ScanInv'
<1>1. /\ pc = "prior" /\ pc' = "cur" /\ UNCHANGED <<layout, MBB, I>> /\ Clean(MBB)
      /\ changed' = (changed \/ CleanedEdges(MBB) # succs[MBB])
  BY DEF AnalyzeCurrent
<1>2. CASE changed'
  BY <1>1, <1>2 DEF ScanInv
<1>3. CASE ~changed'
  <2>1. ~changed /\ CleanedEdges(MBB) = succs[MBB]
    BY <1>1, <1>3
  <2>2. PICK x : x = MBB
    OBVIOUS
  <2>3. PICK y : y = PrevBB
    OBVIOUS
  <2>4. /\ Whole(layout, code, succs) /\ x \in Blocks /\ y \in Blocks
        /\ Scanned(pc, layout, code, succs, x, I)
    BY <1>1, <2>1, <2>2, <2>3, AtScan
  <2>5. Quiet(layout, code, succs, code', succs')
    BY <1>1, <2>1, <2>2, <2>4, CleanQuiet
  <2>6. code[x] # <<>>
    BY <1>1, <2>4 DEF Scanned
  <2>7. PICK a : a = Analyze(PrevBB)
    OBVIOUS
  <2>8. /\ a = Ana(code[y]) /\ Formed(code[y]) /\ MBB \in Targets1
    BY <1>1, <2>3, <2>7, AtPrior
  <2>9. Settled(a)
    BY <2>7 DEF AnalyzeCurrent, Settled
  <2>10. MBB \notin {a.tbb, a.fbb}
    BY <2>8, <2>9, SettledBranch
  <2>11. ~a.fail => (a.fbb # 0 => a.fbb # a.tbb)
    BY <2>9 DEF Settled, SameDestination
  <2>12. GoodAt(code[y], x)
    BY <2>2, <2>8, <2>10, <2>11 DEF GoodAt
  <2>13. pc' \in {"prior", "cur", "place", "dead"} /\ pc \in {"top", "prior", "cur", "place"}
    BY <1>1
  <2> QED
    BY <1>1, <2>1, <2>2, <2>3, <2>5, <2>6, <2>12, <2>13, ScanOn
<1> QED
  BY <1>2, <1>3

\* CurrentDone goes on to the placement.
LEMMA CurrentDoneScan ==
  ASSUME FoldInv, PosInv, ScanInv, CurrentDone
  PROVE  ScanInv'
<1>1. pc = "cur" /\ pc' = "place" /\ UNCHANGED <<layout, code, succs, MBB, I, changed>>
  BY DEF CurrentDone
<1>2. CASE changed
  BY <1>1, <1>2 DEF ScanInv
<1>3. CASE ~changed
  <2>2. PICK x : x = MBB
    OBVIOUS
  <2>3. PICK y : y = PrevBB
    OBVIOUS
  <2>4. /\ Whole(layout, code, succs) /\ y = layout[PositionIn(layout, x) - 1]
        /\ Scanned(pc, layout, code, succs, x, I)
    BY <1>1, <1>3, <2>2, <2>3, AtScan
  <2>5. Quiet(layout, code, succs, code', succs')
    BY <1>1, <2>4, StillQuiet
  <2>6. code[x] # <<>> /\ GoodAt(code[y], x)
    BY <1>1, <2>4 DEF Scanned
  <2> QED
    BY <1>1, <1>3, <2>2, <2>3, <2>5, <2>6, ScanOn
<1> QED
  BY <1>2, <1>3

\* LeaveInPlace changes nothing but erased jumps.
LEMMA LeaveScan ==
  ASSUME FoldInv, PosInv, ScanInv, LeaveInPlace
  PROVE  ScanInv'
<1>1. pc = "place" /\ pc' = "dead" /\ UNCHANGED <<layout, succs, MBB, I, changed>>
  BY DEF LeaveInPlace
<1>2. code' = code \/ \E T : code' = Erased(T)
  <2>1. CASE canFallThrough(PrevBB)
    BY <2>1 DEF LeaveInPlace
  <2>2. CASE ~canFallThrough(PrevBB)
    BY <2>2 DEF LeaveInPlace
  <2> QED
    BY <2>1, <2>2
<1>3. CASE changed
  BY <1>1, <1>3 DEF ScanInv
<1>4. CASE ~changed
  <2>2. PICK x : x = MBB
    OBVIOUS
  <2>3. PICK y : y = PrevBB
    OBVIOUS
  <2>4. /\ Whole(layout, code, succs) /\ y = layout[PositionIn(layout, x) - 1]
        /\ Scanned(pc, layout, code, succs, x, I)
    BY <1>1, <1>4, <2>2, <2>3, AtScan
  <2>5. Quiet(layout, code, succs, code', succs')
    <3>1. CASE code' = code
      BY <1>1, <2>4, <3>1, StillQuiet
    <3>2. CASE \E T : code' = Erased(T)
      <4>1. \A b \in Range1(layout) : Formed(code[b]) /\ b \in DOMAIN code
        BY <2>4 DEF Whole
      <4>2. \A b \in Range1(layout) : code'[b] \in {code[b], Ana(code[b]).code}
        BY <3>2, <4>1, ErasedIs
      <4> QED
        BY <1>1, <4>1, <4>2 DEF Quiet
    <3> QED
      BY <1>2, <3>1, <3>2
  <2>6. code[x] # <<>> /\ GoodAt(code[y], x)
    BY <1>1, <2>4 DEF Scanned
  <2>7. pc' \in {"prior", "cur", "place", "dead"} /\ pc \in {"top", "prior", "cur", "place"}
    BY <1>1
  <2> QED
    BY <1>1, <1>4, <2>2, <2>3, <2>5, <2>6, <2>7, ScanOn
<1> QED
  BY <1>3, <1>4

\* The block has been looked at and stays.
LEMMA KeepScan ==
  ASSUME FoldInv, PosInv, ScanInv, KeepBlock
  PROVE  ScanInv'
<1>1. pc = "dead" /\ pc' = "next" /\ Preds(MBB) # {} /\ UNCHANGED <<layout, code, succs, MBB, I, changed>>
  BY DEF KeepBlock
<1>2. CASE changed
  BY <1>1, <1>2 DEF ScanInv
<1>3. CASE ~changed
  <2>1. PICK l, cd, sc, i, x : l = layout /\ cd = code /\ sc = succs /\ i = I /\ x = MBB
    OBVIOUS
  <2>2. "dead" \in BodyPCs /\ "next" \notin BodyPCs
    BY DEF BodyPCs
  <2>3. Lay(l) /\ x \in Range1(l) \ {1}
    <3>1. Lay(layout)
      BY <1>1, FoldLay DEF FoldPCs
    <3>2. MBB \in Range1(layout) \ {1}
      BY <1>1, <2>2 DEF PosInv, Blocks
    <3> QED
      BY <2>1, <3>1, <3>2
  <2>4. Scanned("dead", l, cd, sc, x, i)
    BY <1>1, <1>3, <2>1, <2>2 DEF ScanInv, ScanPCs
  <2>5. \E b \in Range1(l) : x \in Range1(sc[b])
    BY <1>1, <2>1 DEF Preds, isSuccessor, Blocks
  <2>6. /\ i = Following(l, x) /\ SeenOK(l, cd, sc, PositionIn(l, x) - 1)
        /\ cd[x] # <<>> /\ GoodAt(cd[l[PositionIn(l, x) - 1]], x)
    BY <2>2, <2>4, <2>5 DEF Scanned
  <2>7. PICK n : n = PositionIn(l, x)
    OBVIOUS
  <2>8. SeenTo(l, i) = n /\ n \in 1..Len(l) /\ l[n] = x /\ Len(l) \in Nat
    BY <2>3, <2>6, <2>7, SeenNext
  <2>9. n \in Nat /\ n > 1
    <3>1. n > 1
      BY <2>3, <2>7, PositionOf
    <3> QED
      BY <2>8, <3>1
  <2>10. SeenOK(l, cd, sc, n)
    <3>1. /\ SeenOK(l, cd, sc, n - 1) /\ GoodAt(cd[l[n - 1]], l[n]) /\ cd[l[n]] # <<>>
          /\ \E p \in Range1(l) : l[n] \in Range1(sc[p])
      BY <2>5, <2>6, <2>7, <2>8
    <3> QED
      BY <2>9, <3>1, OneMoreSeen
  <2>11. Scanned("next", l, cd, sc, x, i)
    BY <2>2, <2>8, <2>10 DEF Scanned
  <2> QED
    BY <1>1, <2>1, <2>11 DEF ScanInv
<1> QED
  BY <1>2, <1>3

\* NextBlock takes the next block up.
LEMMA NextScan ==
  ASSUME FoldInv, PosInv, ScanInv, NextBlock
  PROVE  ScanInv'
<1>1. /\ pc = "next" /\ pc' = "top" /\ I # 0 /\ MBB' = I /\ I' = Following(layout, I)
      /\ UNCHANGED <<layout, code, succs, changed>>
  BY DEF NextBlock, LayoutSuccessor
<1>2. CASE changed
  BY <1>1, <1>2 DEF ScanInv
<1>3. CASE ~changed
  <2>1. "top" \in BodyPCs /\ "next" \notin BodyPCs /\ "next" \in ScanPCs
    BY DEF BodyPCs, ScanPCs
  <2>2. Scanned("next", layout, code, succs, MBB, I)
    BY <1>1, <1>3, <2>1 DEF ScanInv
  <2>3. SeenOK(layout, code, succs, PositionIn(layout, I) - 1)
    BY <1>1, <2>1, <2>2 DEF Scanned, SeenTo
  <2>4. Scanned("top", layout, code, succs, I, Following(layout, I))
    BY <2>1, <2>3 DEF Scanned
  <2> QED
    BY <1>1, <2>4 DEF ScanInv
<1> QED
  BY <1>2, <1>3

\* EndOfBlocks ends the scan, and branch folding if nothing has changed.
LEMMA EndScan ==
  ASSUME FoldInv, PosInv, ScanInv, EndOfBlocks
  PROVE  ScanInv'
<1>1. /\ pc = "next" /\ pc' = (IF changed THEN "start" ELSE "done") /\ I = 0
      /\ UNCHANGED <<layout, code, succs, MBB, I, changed>>
  BY DEF EndOfBlocks
<1>2. CASE changed
  BY <1>1, <1>2 DEF ScanInv
<1>3. CASE ~changed
  <2>1. "done" \notin BodyPCs /\ "next" \notin BodyPCs /\ "next" \in ScanPCs
    BY DEF BodyPCs, ScanPCs
  <2>2. Scanned("next", layout, code, succs, MBB, I)
    BY <1>1, <1>3, <2>1 DEF ScanInv
  <2>3. Scanned("done", layout, code, succs, MBB, I)
    BY <1>1, <2>1, <2>2 DEF Scanned
  <2> QED
    BY <1>1, <1>3, <2>3 DEF ScanInv
<1> QED
  BY <1>2, <1>3

\* A scan starts behind the entry.
LEMMA StartScan ==
  ASSUME FoldInv, PosInv, OptimizeBranches
  PROVE  ScanInv'
<1>1. /\ pc = "start" /\ pc' = "next" /\ I' = Following(layout, layout[1]) /\ changed' = FALSE
      /\ UNCHANGED <<layout, code, succs, MBB>>
  BY DEF OptimizeBranches, LayoutSuccessor, EntryBlock
<1>2. Lay(layout)
  BY <1>1, FoldLay DEF FoldPCs
<1>3. 1 \in Range1(layout) /\ layout[1] = 1 /\ Len(layout) \in Nat
  BY <1>2, LayNat DEF Lay
<1>4. PositionIn(layout, 1) \in 1..Len(layout) /\ layout[PositionIn(layout, 1)] = 1
  BY <1>2, <1>3, PositionOf
<1>5. PositionIn(layout, 1) = 1
  <2>1. 1 \in 1..Len(layout)
    BY <1>3, <1>4
  <2> QED
    BY <1>2, <1>3, <1>4, <2>1 DEF Lay
<1>6. SeenTo(layout, I') = 1
  BY <1>1, <1>2, <1>3, <1>5, SeenNext
<1>7. SeenOK(layout, code, succs, 1)
  BY DEF SeenOK
<1>8. "next" \notin BodyPCs
  BY DEF BodyPCs
<1>9. Scanned("next", layout, code, succs, MBB, I')
  BY <1>6, <1>7, <1>8 DEF Scanned
<1> QED
  BY <1>1, <1>9 DEF ScanInv

\* Every step of branch folding keeps the invariant of the scan.
LEMMA FoldScan ==
  ASSUME FoldInv, PosInv, ScanInv, FoldBranches
  PROVE  ScanInv'
<1>1. CASE SkipEmptyBlock \/ AnalyzePrior \/ AnalyzeCurrent \/ CurrentDone \/ LeaveInPlace
  BY <1>1, SkipScan, PriorScan, CurrentScan, CurrentDoneScan, LeaveScan
<1>2. CASE OptimizeBranches \/ NextBlock \/ EndOfBlocks \/ KeepBlock
  BY <1>2, StartScan, NextScan, EndScan, KeepScan
<1>3. CASE FixCFG
  <2>1. pc' \in {"fix", "start"}
    BY <1>3 DEF FixCFG
  <2> QED
    BY <2>1 DEF ScanInv, ScanPCs, BodyPCs
<1>4. CASE \/ RemoveDeadBlock \/ JoinDestinations \/ MergeIntoPrior \/ RemoveOnlyBranch \/ DropFalseBranch
           \/ ReversePrior \/ MoveOutOfTheWay \/ ReverseLoop \/ ForwardBlock \/ PlaceLast
           \/ (pc = "place" /\ \E T \in SUBSET OpenPreds : \E p \in T : MoveAfterPred(p, T))
           \/ (pc = "place" /\ \E i \in DOMAIN succs[MBB] : MoveBeforeSucc(i))
  <2>1. changed' = TRUE /\ pc' # "done"
    BY <1>4 DEF RemoveDeadBlock, JoinDestinations, MergeIntoPrior, RemoveOnlyBranch, DropFalseBranch,
      ReversePrior, RewritePrior, Reoptimize, MoveOutOfTheWay, ReverseLoop, ForwardBlock, PlaceLast,
      MoveAfterPred, MoveBeforeSucc
  <2> QED
    BY <2>1 DEF ScanInv
<1> QED
  BY <1>1, <1>2, <1>3, <1>4 DEF FoldBranches, OptimizeBlock

\* Nothing outside of folding is a scan.
LEMMA ScanStep ==
  ASSUME BranchInv, ScanInv, [BranchNext]_branchVars
  PROVE  ScanInv'
<1>1. CASE SelectBlock \/ RemoveUnreachable \/ (\E b, s \in Blocks : SplitCriticalEdge(b, s)) \/ StartFolding
  <2>1. pc' \in {"select", "split", "fix"}
    BY <1>1 DEF SelectBlock, RemoveUnreachable, SplitCriticalEdge, StartFolding
  <2> QED
    BY <2>1 DEF ScanInv, ScanPCs, BodyPCs
<1>2. CASE FoldBranches
  BY <1>2, FoldScan DEF BranchInv
<1>3. CASE UNCHANGED branchVars
  BY <1>3 DEF ScanInv, branchVars
<1> QED
  BY <1>1, <1>2, <1>3 DEF BranchNext

\* What the answer without leave to erase a jump says of a good block.
LEMMA GoodAnswer ==
  ASSUME NEW c, Formed(c), NEW ft, GoodAt(c, ft), NEW f, f = AnaF(c)
  PROVE  /\ ~f.fail => ft \notin {f.tbb, f.fbb}
         /\ f.fbb # 0 => f.fbb # f.tbb
<1>1. PICK m \in Nat : Form(c, m)
  BY DEF Formed
<1>2. PICK a : a = Ana(c)
  OBVIOUS
<1>3. (f.fail /\ f.fbb = 0) \/ (~a.fail /\ a.tbb = f.tbb /\ a.fbb = f.fbb)
  BY <1>1, <1>2, AnaCases DEF CaseFall, CaseJump, CaseCond, CaseCond2, CaseJumps, CaseOther, Answer, NoAnswer
<1>4. ~a.fail => ft \notin {a.tbb, a.fbb} /\ (a.fbb # 0 => a.fbb # a.tbb)
  BY <1>2 DEF GoodAt
<1> QED
  BY <1>3, <1>4

\* A scan that comes to its end without a change.
LEMMA ScanEnds ==
  ASSUME BranchInv, ScanInv, pc = "done", NEW b \in Blocks, NEW f, f = AnalyzeBranch(code[b], FALSE),
         NEW ft, ft = LayoutSuccessor(b)
  PROVE  /\ b # 1 => code[b] # <<>> /\ Preds(b) # {}
         /\ ft # 0 /\ ~f.fail => ft \notin {f.tbb, f.fbb}
         /\ ft # 0 /\ f.fbb # 0 => f.fbb # f.tbb
<1>1. Whole(layout, code, succs)
  BY DEF BranchInv, FoldInv, FoldPCs, BodyOK
<1>2. Blocks = Range1(layout) /\ Lay(layout) /\ Formed(code[b]) /\ ft = Following(layout, b)
  BY <1>1, BodyBlocks
<1>3. SeenOK(layout, code, succs, Len(layout))
  <2>1. "done" \notin BodyPCs /\ "done" \in ScanPCs
    BY DEF BodyPCs, ScanPCs
  <2>2. Scanned("done", layout, code, succs, MBB, I)
    BY <2>1 DEF ScanInv
  <2> QED
    BY <2>1, <2>2 DEF Scanned, SeenTo
<1>4. PICK i \in 1..Len(layout) : layout[i] = b /\ i = PositionIn(layout, b)
  BY <1>2, PositionOf
<1>5. Len(layout) \in Nat
  BY <1>2 DEF Lay
<1>6. b # 1 => code[b] # <<>> /\ Preds(b) # {}
  <2>1. SUFFICES ASSUME b # 1 PROVE code[b] # <<>> /\ Preds(b) # {}
    OBVIOUS
  <2>2. i > 1
    BY <1>2, <1>4, <2>1, PositionOf
  <2>3. i \in 2..Len(layout)
    BY <1>4, <1>5, <2>2
  <2>4. code[b] # <<>> /\ \E p \in Blocks : b \in Range1(succs[p])
    BY <1>2, <1>3, <1>4, <2>3 DEF SeenOK
  <2> QED
    BY <2>4 DEF Preds, isSuccessor
<1>7. ft # 0 => GoodAt(code[b], ft)
  <2>1. SUFFICES ASSUME ft # 0 PROVE GoodAt(code[b], ft)
    OBVIOUS
  <2>2. PositionIn(layout, ft) = i + 1 /\ ft \in Range1(layout)
    BY <1>2, <1>4, <2>1, FollowingFacts
  <2>3. PICK j : j = PositionIn(layout, ft)
    OBVIOUS
  <2>4. j \in 1..Len(layout) /\ layout[j] = ft
    BY <1>2, <2>2, <2>3, PositionOf
  <2>5. j \in 2..Len(layout) /\ j - 1 = i
    BY <1>4, <1>5, <2>2, <2>3, <2>4
  <2>6. GoodAt(code[layout[j - 1]], layout[j])
    BY <1>3, <2>5 DEF SeenOK
  <2> QED
    BY <1>4, <2>4, <2>5, <2>6
<1>8. f = AnaF(code[b])
  BY DEF AnaF
<1> QED
  BY <1>2, <1>6, <1>7, <1>8, GoodAnswer

\* When branch folding is done, no block ends in a jump to the next, no
\* block but the entry is empty or unreachable, and no conditional branch has
\* one destination: every block has been looked at in a scan without change.
THEOREM FoldingIsComplete == BranchSpec => []FoldedCompletely
<1>1. BranchInit => ScanInv
  BY DEF BranchInit, ScanInv, ScanPCs, BodyPCs
<1>2. BranchInv /\ ScanInv /\ [BranchNext]_branchVars => ScanInv'
  BY ScanStep
<1>3. BranchInv /\ ScanInv => FoldedCompletely
  BY ScanEnds DEF FoldedCompletely
<1>4. BranchSpec => BranchInit /\ [][BranchNext]_branchVars
  BY DEF BranchSpec
<1> QED
  BY <1>1, <1>2, <1>3, <1>4, BranchInvariant, PTL

=============================================================================
