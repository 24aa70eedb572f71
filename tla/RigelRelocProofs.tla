------------------------- MODULE RigelRelocProofs -------------------------
(***************************************************************************)
(* Proofs about RigelReloc, for fields of any even number of values, any   *)
(* symbols and any number of instructions.                                 *)
(***************************************************************************)
EXTENDS RigelReloc, IntegerDivision, WellFoundedInduction, TLAPS

---------------------------------------------------------------------------
(* The two halves of an address.                                           *)

\* Half of an even number.
LEMMA HalfParts ==
  /\ Half \in Nat \ {0} /\ Half \div 2 \in Nat \ {0} /\ (Half \div 2) + (Half \div 2) = Half
  /\ Half * Half \in Nat \ {0}
  <1>1. /\ Half \in Nat \ {0} /\ Half \div 2 \in Nat \ {0}
        /\ (Half \div 2) + (Half \div 2) = Half
    BY HalfAssumption
  <1>2. Half * Half \in Int /\ Half * Half >= Half
    <2>1. Half \in Int /\ Half >= 1
      BY <1>1
    <2> QED
      BY <1>1, <2>1, AtLeastOnce
  <1> QED
    BY <1>1, <1>2

\* The two halves of an address, put together as the machine does (the lower one
\* sign extended), give the address up to a multiple of Half * Half: the carry of
\* mips_elf_high makes up for the sign.
LEMMA HighLow ==
  ASSUME NEW x \in Int
  PROVE  /\ High(x) \in Field /\ SignExtend(x % Half) \in Int
         /\ \E t \in Int : (High(x) * Half) + SignExtend(x % Half) = x - (t * (Half * Half))
  <1> DEFINE h == Half \div 2
             y == x + h
             q == y \div Half
             r == y % Half
             t == q \div Half
             s == q % Half
  <1>1. Half \in Nat \ {0} /\ h \in Nat \ {0} /\ h + h = Half
    BY HalfParts
  <1>2. y \in Int
    BY <1>1
  <1>3. q \in Int /\ r \in 0..(Half - 1) /\ y = q * Half + r
    BY <1>1, <1>2, DivMod
  <1>4. t \in Int /\ s \in 0..(Half - 1) /\ q = t * Half + s
    BY <1>1, <1>3, DivMod
  <1>5. High(x) = s
    BY DEF High
  <1>y. y = x + h
    OBVIOUS
  <1>s. \A v \in Int : SignExtend(v) = IF v >= h THEN v - Half ELSE v
    BY DEF SignExtend
  <1> HIDE DEF q, r, t, s, h, y
  <1>6. SignExtend(x % Half) = r - h
    <2>1. CASE r >= h
      <3>1. x = (q * Half) + (r - h) /\ r - h \in 0..(Half - 1)
        BY <1>1, <1>3, <1>y, <2>1
      <3>2. ((q * Half) + (r - h)) % Half = r - h
        BY <1>1, <1>3, <3>1, DivModUnique
      <3> QED
        BY <1>1, <1>3, <1>s, <3>1, <3>2, <2>1
    <2>2. CASE r < h
      <3>1. (q - 1) * Half = q * Half - Half
        BY <1>1, <1>3
      <3>2. /\ x = ((q - 1) * Half) + (r - h + Half)
            /\ r - h + Half \in 0..(Half - 1) /\ q - 1 \in Int
        BY <1>1, <1>3, <1>y, <2>2, <3>1
      <3>3. (((q - 1) * Half) + (r - h + Half)) % Half = r - h + Half
        BY <1>1, <3>2, DivModUnique
      <3> QED
        BY <1>1, <1>3, <1>s, <3>2, <3>3, <2>2
    <2> QED
      BY <1>1, <1>3, <2>1, <2>2
  <1>7. q * Half = (t * (Half * Half)) + s * Half
    BY <1>1, <1>4
  <1>8. (s * Half) + (r - h) = x - (t * (Half * Half))
    <2>1. t * (Half * Half) \in Int /\ s * Half \in Int /\ q * Half \in Int
      BY <1>1, <1>3, <1>4
    <2> QED
      BY <1>1, <1>3, <1>4, <1>y, <1>7, <2>1
  <1>9. High(x) \in Field
    BY <1>4, <1>5 DEF Field
  <1>10. r - h \in Int
    BY <1>1, <1>3
  <1> QED
    BY <1>4, <1>5, <1>6, <1>8, <1>9, <1>10

\* What is stored in the fields as the halves of an offset, and relocated by the
\* linker as the halves of the sum with the symbol's address, adds up to the sum.
LEMMA PartsAddUp ==
  ASSUME NEW o \in Int, NEW f \in Nat, NEW addend \in Int,
         addend = (High(o) * Half) + SignExtend(o % Half)
  PROVE  ((High(addend + f) * Half) + SignExtend((f + (o % Half)) % Half)) % (Half * Half)
           = (o + f) % (Half * Half)
  <1> DEFINE M == Half * Half
             E == addend + f
             low == o % Half
  <1>1. PICK t \in Int : addend = o - (t * M)
    BY HighLow
  <1>2. E \in Int
    OBVIOUS
  <1>3. PICK u \in Int : (High(E) * Half) + SignExtend(E % Half) = E - (u * M)
    BY <1>2, HighLow
  <1>4. Half \in Nat \ {0} /\ M \in Nat \ {0}
    BY HalfParts
  <1>5. low \in 0..(Half - 1) /\ o \div Half \in Int /\ o = (o \div Half) * Half + low
    BY <1>4, DivMod
  <1>6. E % Half = (f + low) % Half
    <2> DEFINE k == (o \div Half) - (t * Half)
    <2>1. k \in Int
      BY <1>1, <1>4, <1>5
    <2>2. t * M = (t * Half) * Half
      BY <1>1, <1>4
    <2>3. k * Half = ((o \div Half) * Half) - ((t * Half) * Half)
      <3> DEFINE a == o \div Half
                 c == t * Half
      <3>1. a \in Int /\ c \in Int
        BY <1>1, <1>4, <1>5
      <3> HIDE DEF a, c
      <3>2. (a - c) * Half = (a * Half) - (c * Half)
        BY <3>1, <1>4
      <3> QED
        BY <3>2 DEF a, c
    <2>4. E = (f + low) + (k * Half)
      <3> DEFINE a == (o \div Half) * Half
                 c == t * M
      <3>1. a \in Int /\ c \in Int
        BY <1>1, <1>4, <1>5
      <3>2. addend = o - c
        BY <1>1
      <3>3. o = a + low
        BY <1>5
      <3>4. k * Half = a - c
        <4> HIDE DEF k, M
        <4> QED
          BY <2>2, <2>3 DEF a, c
      <3>5. low \in Int
        BY <1>4, <1>5
      <3> HIDE DEF a, c, k, low
      <3>6. addend + f = (f + low) + (a - c)
        BY <3>1, <3>2, <3>3, <3>5
      <3> QED
        BY <3>4, <3>6
    <2> HIDE DEF k, E, low
    <2>5. f + low \in Int
      BY <1>5
    <2> QED
      BY <1>4, <2>1, <2>4, <2>5, ModShift
  <1>7. E - (u * M) = (o + f) + ((0 - (t + u)) * M)
    <2> HIDE DEF M
    <2> QED
      BY <1>1, <1>3, <1>4
  <1>8. ((o + f) + ((0 - (t + u)) * M)) % M = (o + f) % M
    <2> HIDE DEF M
    <2>1. o + f \in Int /\ 0 - (t + u) \in Int
      BY <1>1, <1>3
    <2> QED
      BY <1>4, <2>1, ModShift
  <1> QED
    BY <1>3, <1>6, <1>7, <1>8

---------------------------------------------------------------------------
(* The list of fixups.                                                     *)

\* What holds of a list that has each of its elements once.
Distinct(ch) == \A p, q \in DOMAIN ch : ch[p] = ch[q] => p = q

\* The place of an element.
LEMMA PosFacts ==
  ASSUME NEW ch, Distinct(ch), NEW p \in DOMAIN ch
  PROVE  PosOf(ch, ch[p]) = p
  BY DEF PosOf, Distinct

\* A list keeps its elements when one of them moves.
LEMMA RotateFacts ==
  ASSUME NEW S, NEW ch \in Seq(S), Distinct(ch), NEW q \in DOMAIN ch, NEW p \in DOMAIN ch
  PROVE  /\ Rotate(ch, q, p) \in Seq(S) /\ Len(Rotate(ch, q, p)) = Len(ch)
         /\ DOMAIN Rotate(ch, q, p) = DOMAIN ch
         /\ Distinct(Rotate(ch, q, p))
         /\ ToSet(Rotate(ch, q, p)) = ToSet(ch)
  <1> DEFINE n == Len(ch)
             src(k) == CASE k = p -> q
                         [] q <= k /\ k < p -> k + 1
                         [] p < k /\ k <= q -> k - 1
                         [] OTHER -> k
             r == Rotate(ch, q, p)
  <1>1. n \in Nat /\ DOMAIN ch = 1..n /\ p \in 1..n /\ q \in 1..n
    OBVIOUS
  <1>2. \A k \in 1..n : src(k) \in 1..n
    BY <1>1
  <1>3. r = [k \in 1..n |-> ch[src(k)]]
    BY <1>1 DEF Rotate
  <1>4. \A k, j \in 1..n : src(k) = src(j) => k = j
    BY <1>1
  <1>5. \A k \in 1..n : \E j \in 1..n : src(j) = k
    <2> TAKE k \in 1..n
    <2> DEFINE dst == CASE k = q -> p
                        [] p <= k /\ k < q -> k + 1
                        [] q < k /\ k <= p -> k - 1
                        [] OTHER -> k
    <2>1. dst \in 1..n /\ src(dst) = k
      BY <1>1
    <2> HIDE DEF dst, src
    <2> QED
      BY <2>1
  <1> HIDE DEF src
  <1>6. r \in Seq(S) /\ Len(r) = n /\ DOMAIN r = 1..n
    BY <1>1, <1>2, <1>3
  <1>7. Distinct(r)
    BY <1>1, <1>2, <1>3, <1>4 DEF Distinct
  <1>8. ToSet(r) = ToSet(ch)
    <2>1. ToSet(r) = {r[k] : k \in 1..n} /\ ToSet(ch) = {ch[k] : k \in 1..n}
      BY <1>1, <1>6 DEF ToSet
    <2>2. \A k \in 1..n : r[k] = ch[src(k)]
      BY <1>3
    <2>3. \A k \in 1..n : \E j \in 1..n : ch[k] = r[j]
      BY <2>2, <1>5
    <2> QED
      BY <2>1, <2>2, <2>3, <1>2
  <1> QED
    BY <1>1, <1>6, <1>7, <1>8

\* The move of one element keeps the order of all others.
LEMMA OrderKept ==
  ASSUME NEW S, NEW ch \in Seq(S), Distinct(ch), NEW q \in DOMAIN ch, NEW p \in DOMAIN ch,
         NEW x, NEW y, x # ch[q], y # ch[q]
  PROVE  Precedes(Rotate(ch, q, p), x, y) <=> Precedes(ch, x, y)
  <1> DEFINE n == Len(ch)
             src(k) == CASE k = p -> q
                         [] q <= k /\ k < p -> k + 1
                         [] p < k /\ k <= q -> k - 1
                         [] OTHER -> k
             dst(k) == CASE k = q -> p
                         [] p <= k /\ k < q -> k + 1
                         [] q < k /\ k <= p -> k - 1
                         [] OTHER -> k
             r == Rotate(ch, q, p)
  <1>1. n \in Nat /\ DOMAIN ch = 1..n /\ p \in 1..n /\ q \in 1..n
    OBVIOUS
  <1>2. r = [k \in 1..n |-> ch[src(k)]]
    BY <1>1 DEF Rotate
  <1>3. \A k \in 1..n : /\ src(k) \in 1..n /\ dst(k) \in 1..n /\ src(dst(k)) = k
                        /\ k = p => src(k) = q
    BY <1>1
  <1>4. \A k, j \in 1..n : k < j /\ k # p /\ j # p => src(k) < src(j)
    BY <1>1
  <1>5. \A k, j \in 1..n : k < j /\ k # q /\ j # q => dst(k) < dst(j)
    BY <1>1
  <1> HIDE DEF src, dst
  <1>6. \A k \in 1..n : r[k] = ch[src(k)] /\ r[dst(k)] = ch[k]
    BY <1>2, <1>3
  <1>7. DOMAIN r = 1..n
    BY <1>2
  <1> HIDE DEF r
  <1>8. ASSUME Precedes(r, x, y) PROVE Precedes(ch, x, y)
    <2>1. PICK k, j \in 1..n : k < j /\ r[k] = x /\ r[j] = y
      BY <1>7, <1>8 DEF Precedes
    <2>2. k # p /\ j # p
      BY <1>3, <1>6, <2>1
    <2>3. src(k) < src(j) /\ ch[src(k)] = x /\ ch[src(j)] = y
      BY <1>4, <1>6, <2>1, <2>2
    <2> QED
      BY <1>1, <1>3, <2>3 DEF Precedes
  <1>9. ASSUME Precedes(ch, x, y) PROVE Precedes(r, x, y)
    <2>1. PICK k, j \in 1..n : k < j /\ ch[k] = x /\ ch[j] = y
      BY <1>1, <1>9 DEF Precedes
    <2>2. dst(k) < dst(j) /\ r[dst(k)] = x /\ r[dst(j)] = y
      BY <1>5, <1>6, <2>1
    <2> QED
      BY <1>3, <1>7, <2>2 DEF Precedes
  <1> QED
    BY <1>8, <1>9 DEF r

\* Between neighbours there is nothing.
LEMMA Neighbours ==
  ASSUME NEW S, NEW ch \in Seq(S), Distinct(ch), NEW p \in DOMAIN ch, p + 1 \in DOMAIN ch
  PROVE  /\ Precedes(ch, ch[p], ch[p + 1])
         /\ \A y : Precedes(ch, ch[p], y) /\ y # ch[p + 1] => Precedes(ch, ch[p + 1], y)
  <1>1. DOMAIN ch = 1..Len(ch) /\ Len(ch) \in Nat
    OBVIOUS
  <1>2. Precedes(ch, ch[p], ch[p + 1])
    BY <1>1 DEF Precedes
  <1>3. ASSUME NEW y, Precedes(ch, ch[p], y), y # ch[p + 1]
        PROVE  Precedes(ch, ch[p + 1], y)
    <2>1. PICK k, j \in DOMAIN ch : k < j /\ ch[k] = ch[p] /\ ch[j] = y
      BY <1>3 DEF Precedes
    <2>2. k = p /\ j # p + 1
      BY <1>3, <2>1 DEF Distinct
    <2>3. p + 1 < j
      BY <1>1, <2>1, <2>2
    <2> QED
      BY <2>1, <2>3 DEF Precedes
  <1> QED
    BY <1>2, <1>3

\* The fixup moves immediately before the other one.
LEMMA MoveBeforeFacts ==
  ASSUME NEW S, NEW ch \in Seq(S), Distinct(ch), NEW q \in DOMAIN ch, NEW p \in DOMAIN ch, q # p
  PROVE  \E t \in DOMAIN ch :
           /\ MoveBefore(ch, ch[q], ch[p]) = Rotate(ch, q, t)
           /\ t + 1 \in DOMAIN ch
           /\ Rotate(ch, q, t)[t] = ch[q] /\ Rotate(ch, q, t)[t + 1] = ch[p]
  <1> DEFINE t == IF q < p THEN p - 1 ELSE p
  <1>1. DOMAIN ch = 1..Len(ch) /\ Len(ch) \in Nat
    OBVIOUS
  <1>2. PosOf(ch, ch[q]) = q /\ PosOf(ch, ch[p]) = p
    BY PosFacts
  <1>3. MoveBefore(ch, ch[q], ch[p]) = Rotate(ch, q, t)
    BY <1>2 DEF MoveBefore
  <1>4. t \in DOMAIN ch /\ t + 1 \in DOMAIN ch
    BY <1>1
  <1>5. Rotate(ch, q, t)[t] = ch[q]
    BY <1>4 DEF Rotate
  <1>6. Rotate(ch, q, t)[t + 1] = ch[p]
    <2>1. CASE q < p
      <3>1. t + 1 = p /\ t = p - 1
        BY <1>1, <2>1
      <3> QED
        BY <1>1, <1>4, <3>1, <2>1 DEF Rotate
    <2>2. CASE p < q
      <3>1. t = p
        BY <1>1, <2>2
      <3>2. t + 1 # t /\ ~(q <= t + 1 /\ t + 1 < t) /\ (t < t + 1 /\ t + 1 <= q) /\ (t + 1) - 1 = p
        BY <1>1, <2>2, <3>1
      <3> QED
        BY <1>4, <3>2 DEF Rotate
    <2> QED
      BY <1>1, <2>1, <2>2
  <1> HIDE DEF t
  <1> QED
    BY <1>3, <1>4, <1>5, <1>6

---------------------------------------------------------------------------
(* Smallest and greatest elements.                                         *)

\* A set of integers with a lower bound has a smallest element.
LEMMA SmallestInt ==
  ASSUME NEW T, T \subseteq Int, T # {}, NEW b \in Int, \A x \in T : x >= b
  PROVE  \E x \in T : \A y \in T : x <= y
  <1> DEFINE N == {k \in Nat : b + k \in T}
  <1>1. PICK z \in T : TRUE
    OBVIOUS
  <1>2. z - b \in N
    <2>1. z \in Int /\ z >= b
      BY <1>1
    <2>2. z - b \in Nat /\ b + (z - b) = z
      BY <2>1
    <2> QED
      BY <2>2, <1>1
  <1>3. PICK k \in N : \A j \in N : k <= j
    <2> DEFINE R == {ss \in Nat \X Nat : ss[1] < ss[2]}
    <2>1. IsWellFoundedOn(R, Nat)
      BY NatLessThanWellFounded, Zenon DEF OpToRel
    <2>2. N \subseteq Nat /\ N # {}
      BY <1>2
    <2> HIDE DEF N
    <2>3. \A i, j \in N : i < j => <<i, j>> \in R
      BY <2>2
    <2> HIDE DEF R
    <2>4. PICK k \in N : \A j \in N : ~(<<j, k>> \in R)
      BY <2>1, <2>2, WFMin
    <2>5. \A j \in N : ~(j < k)
      BY <2>3, <2>4
    <2> QED
      BY <2>2, <2>4, <2>5
  <1>4. ASSUME NEW y \in T PROVE b + k <= y
    <2>1. y \in Int /\ y >= b
      BY <1>4
    <2>2. y - b \in Nat /\ b + (y - b) = y
      BY <2>1
    <2>3. y - b \in N
      BY <2>2, <1>4
    <2>4. k \in Nat /\ k <= y - b
      BY <1>3, <2>3
    <2> QED
      BY <2>1, <2>4
  <1> QED
    BY <1>3, <1>4

\* Min of such a set is its smallest element.
LEMMA MinFacts ==
  ASSUME NEW T, T \subseteq Int, T # {}, NEW b \in Int, \A x \in T : x >= b
  PROVE  Min(T) \in T /\ \A y \in T : Min(T) <= y
  BY SmallestInt DEF Min

\* A set of positions always has one.
LEMMA MinPosition ==
  ASSUME NEW n \in Nat, NEW T, T \subseteq 1..n, T # {}
  PROVE  Min(T) \in T /\ \A y \in T : Min(T) <= y
  <1> DEFINE b == 0
  <1>1. T \subseteq Int /\ b \in Int /\ \A x \in T : x >= b
    OBVIOUS
  <1> HIDE DEF b
  <1> QED
    BY <1>1, MinFacts

\* Max of a set with an upper bound is its greatest element.
LEMMA MaxFacts ==
  ASSUME NEW T, T \subseteq Int, T # {}, NEW b \in Int, \A x \in T : x <= b
  PROVE  Max(T) \in T /\ \A y \in T : y <= Max(T)
  <1> DEFINE N == {k \in Int : 0 - k \in T}
  <1>1. N \subseteq Int /\ \A x \in N : x >= 0 - b
    OBVIOUS
  <1>2. N # {}
    <2>1. PICK z \in T : z \in Int
      OBVIOUS
    <2>2. 0 - z \in N
      BY <2>1
    <2> QED
      BY <2>2
  <1>3. PICK k \in N : \A j \in N : k <= j
    <2> HIDE DEF N
    <2>1. 0 - b \in Int
      OBVIOUS
    <2> QED
      BY <1>1, <1>2, <2>1, SmallestInt
  <1>4. 0 - k \in T
    BY <1>3
  <1>5. ASSUME NEW y \in T PROVE 0 - k >= y
    <2>1. y \in Int /\ 0 - y \in N
      BY <1>5
    <2>2. k <= 0 - y /\ k \in Int
      BY <2>1, <1>3
    <2> QED
      BY <2>1, <2>2
  <1>6. \E x \in T : \A y \in T : x >= y
    BY <1>4, <1>5
  <1>7. Max(T) \in T /\ \A y \in T : Max(T) >= y
    BY <1>6 DEF Max
  <1> QED
    BY <1>7

---------------------------------------------------------------------------
(* Lists of high parts, and the elements of the state.                     *)

\* A list with one more element in front.
LEMMA ConsFacts ==
  ASSUME NEW S, NEW s \in Seq(S), NEW e \in S
  PROVE  <<e>> \o s \in Seq(S) /\ ToSet(<<e>> \o s) = {e} \cup ToSet(s)
  <1> DEFINE t == <<e>> \o s
             n == Len(s)
  <1>1. /\ t \in Seq(S) /\ Len(t) = n + 1 /\ n \in Nat /\ t[1] = e
        /\ \A k \in 1..n : t[k + 1] = s[k]
    OBVIOUS
  <1>2. ToSet(t) = {t[k] : k \in 1..(n + 1)} /\ ToSet(s) = {s[k] : k \in 1..n}
    BY <1>1 DEF ToSet
  <1> HIDE DEF t, n
  <1>3. \A k \in 1..(n + 1) : k = 1 \/ (k - 1 \in 1..n /\ t[k] = s[k - 1])
    <2> TAKE k \in 1..(n + 1)
    <2>1. CASE k # 1
      <3>1. k - 1 \in 1..n /\ (k - 1) + 1 = k
        BY <1>1, <2>1
      <3> QED
        BY <1>1, <3>1
    <2> QED
      BY <2>1
  <1>4. \A k \in 1..n : k + 1 \in 1..(n + 1)
    BY <1>1
  <1>5. 1 \in 1..(n + 1)
    BY <1>1
  <1>6. ToSet(t) \subseteq {t[1]} \cup ToSet(s)
    BY <1>2, <1>3
  <1>7. {e} \cup ToSet(s) \subseteq ToSet(t)
    BY <1>1, <1>2, <1>4, <1>5
  <1> QED
    BY <1>1, <1>6, <1>7 DEF t

\* A list without its first element.
LEMMA TailFacts ==
  ASSUME NEW S, NEW s \in Seq(S), s # <<>>
  PROVE  /\ Head(s) \in S /\ Tail(s) \in Seq(S) /\ ToSet(s) = {Head(s)} \cup ToSet(Tail(s))
  <1> DEFINE t == Tail(s)
             n == Len(s)
  <1>1. n \in Nat /\ n >= 1 /\ DOMAIN s = 1..n /\ Head(s) = s[1] /\ Head(s) \in S
    OBVIOUS
  <1>2. /\ t \in Seq(S) /\ DOMAIN t = 1..(n - 1)
        /\ \A k \in 1..(n - 1) : t[k] = s[k + 1]
    OBVIOUS
  <1> HIDE DEF t, n
  <1>3. \A k \in 1..n : k = 1 \/ (k - 1 \in 1..(n - 1) /\ s[k] = t[k - 1])
    <2> TAKE k \in 1..n
    <2>1. CASE k # 1
      <3>1. k - 1 \in 1..(n - 1) /\ (k - 1) + 1 = k
        BY <1>1, <2>1
      <3> QED
        BY <1>2, <3>1
    <2> QED
      BY <2>1
  <1>4. \A k \in 1..(n - 1) : k + 1 \in 1..n
    BY <1>1
  <1>5. 1 \in 1..n
    BY <1>1
  <1>6. ToSet(s) = {s[k] : k \in 1..n} /\ ToSet(t) = {t[k] : k \in 1..(n - 1)}
    BY <1>1, <1>2 DEF ToSet
  <1>7. ToSet(s) \subseteq {s[1]} \cup ToSet(t)
    BY <1>3, <1>6
  <1>8. {s[1]} \cup ToSet(t) \subseteq ToSet(s)
    BY <1>2, <1>4, <1>5, <1>6
  <1> QED
    BY <1>1, <1>2, <1>7, <1>8 DEF t

\* The elements of a list belong to its set, and a longer alphabet does not hurt.
LEMMA ListFacts ==
  ASSUME NEW S, NEW s \in Seq(S)
  PROVE  /\ ToSet(s) \subseteq S
         /\ \A T : S \subseteq T => s \in Seq(T)
         /\ \A e : e \in ToSet(s) <=> \E k \in DOMAIN s : s[k] = e
  BY DEF ToSet

\* A list with one more element at its end.
LEMMA AppendFacts ==
  ASSUME NEW S, NEW s \in Seq(S), NEW e \in S
  PROVE  /\ Append(s, e) \in Seq(S) /\ Len(Append(s, e)) = Len(s) + 1
         /\ Append(s, e)[Len(s) + 1] = e /\ \A k \in 1..Len(s) : Append(s, e)[k] = s[k]
         /\ Len(s) \in Nat /\ DOMAIN s = 1..Len(s) /\ DOMAIN Append(s, e) = 1..(Len(s) + 1)
  OBVIOUS

\* What RelocTypeOK says of the elements.
LEMMA Elements ==
  ASSUME RelocTypeOK
  PROVE  /\ Len(insns) \in Nat
         /\ DOMAIN insns = 1..Len(insns) /\ DOMAIN fix = 1..Len(insns)
         /\ DOMAIN field = 1..Len(insns) /\ DOMAIN chain = 1..Len(insns)
         /\ Len(chain) = Len(insns) /\ Len(fix) = Len(insns) /\ Len(field) = Len(insns)
         /\ \A i \in 1..Len(insns) : /\ insns[i] \in Fixup /\ fix[i] \in Fixup
                                     /\ fix[i].type = insns[i].type /\ field[i] \in Field
         /\ \A p \in 1..Len(insns) : chain[p] \in 1..Len(insns)
         /\ \A i \in 1..Len(insns) : \E p \in 1..Len(insns) : chain[p] = i
  <1>1. /\ insns \in Seq(Fixup) /\ fix \in Seq(Fixup) /\ field \in Seq(Field)
        /\ Len(fix) = Len(insns) /\ Len(field) = Len(insns) /\ Len(chain) = Len(insns)
        /\ chain \in Seq(Nat) /\ ToSet(chain) = DOMAIN insns
        /\ \A i \in DOMAIN insns : fix[i].type = insns[i].type
    BY DEF RelocTypeOK
  <1>2. /\ DOMAIN insns = 1..Len(insns) /\ DOMAIN fix = 1..Len(insns)
        /\ DOMAIN field = 1..Len(insns) /\ DOMAIN chain = 1..Len(insns) /\ Len(insns) \in Nat
    BY <1>1
  <1>3. \A i \in 1..Len(insns) : insns[i] \in Fixup /\ fix[i] \in Fixup /\ field[i] \in Field
    BY <1>1, <1>2
  <1>4. \A i : i \in 1..Len(insns) <=> \E p \in 1..Len(insns) : chain[p] = i
    BY <1>1, <1>2, ListFacts
  <1> QED
    BY <1>1, <1>2, <1>3, <1>4

\* The fields of a fixup, before and after the replacement of its symbol.
LEMMA AdjustedFacts ==
  ASSUME NEW f \in Fixup
  PROVE  /\ f.type \in {"hi", "lo"} /\ f.off \in Int /\ f.sym \in Local \cup Global \cup {Section}
         /\ Adjusted(f) \in Fixup /\ Adjusted(f).type = f.type
         /\ Adjusted(f).sym \in Global \cup {Section}
         /\ Adjusted(f).off = IF f.sym \in Local THEN f.off + SymValue[f.sym] ELSE f.off
         /\ Adjusted(f).sym = IF f.sym \in Local THEN Section ELSE f.sym
         /\ \A g \in Fixup : Matches(f, g) => Matches(Adjusted(f), Adjusted(g))
  <1>1. f.type \in {"hi", "lo"} /\ f.off \in Int /\ f.sym \in Local \cup Global \cup {Section}
    BY DEF Fixup
  <1>2. CASE f.sym \in Local
    <2>1. Adjusted(f) = [type |-> f.type, sym |-> Section, off |-> f.off + SymValue[f.sym]]
      BY <1>2 DEF Adjusted, Fixup
    <2>2. SymValue[f.sym] \in Nat
      BY <1>2, SymbolAssumption
    <2>3. \A g \in Fixup : g.sym = f.sym => Adjusted(g).sym = Section /\ Adjusted(g).off = g.off + SymValue[g.sym]
      BY <1>2 DEF Adjusted, Fixup
    <2> QED
      BY <1>1, <1>2, <2>1, <2>2, <2>3 DEF Matches, Fixup
  <1>3. CASE f.sym \notin Local
    <2>1. Adjusted(f) = f /\ \A g \in Fixup : g.sym = f.sym => Adjusted(g) = g
      BY <1>3 DEF Adjusted
    <2> QED
      BY <1>1, <1>3, <2>1 DEF Matches
  <1> QED
    BY <1>2, <1>3

\* fixup_has_matching_lo_p for the fixup at place p of the list.
LEMMA MatchingLoAt ==
  ASSUME NEW ch, Distinct(ch), NEW p \in DOMAIN ch, NEW fx
  PROVE  FixupHasMatchingLo(fx, ch, ch[p]) <=>
           /\ p < Len(ch) /\ fx[ch[p + 1]].type = "lo"
           /\ Matches(fx[ch[p]], fx[ch[p + 1]])
  <1>1. PosOf(ch, ch[p]) = p
    BY PosFacts
  <1> QED
    BY <1>1 DEF FixupHasMatchingLo

\* The low part that mips_frob_file picks is one of the candidates, and none of
\* them has a smaller offset.
LEMMA LoPosFacts ==
  ASSUME RelocTypeOK, NEW i \in HighParts, CandidateLos(i) # {}
  PROVE  /\ LoPos(i) \in CandidateLos(i)
         /\ \A p \in CandidateLos(i) : fix[chain[LoPos(i)]].off <= fix[chain[p]].off
  <1> DEFINE C == CandidateLos(i)
             offs == {fix[chain[p]].off : p \in C}
             least == Min(offs)
             best == {p \in C : fix[chain[p]].off = least}
             free == {p \in best : ~MatchedLo(p)}
  <1>1. /\ C \subseteq 1..Len(insns) /\ Len(insns) \in Nat
        /\ \A p \in C : fix[chain[p]].off >= fix[i].off /\ fix[chain[p]].off \in Int
    BY Elements DEF CandidateLos, Fixup
  <1>2. fix[i].off \in Int
    BY Elements DEF HighParts, Fixup
  <1>3. least \in offs /\ \A y \in offs : least <= y
    <2>1. offs \subseteq Int /\ offs # {} /\ \A x \in offs : x >= fix[i].off
      BY <1>1
    <2> HIDE DEF offs
    <2> QED
      BY <1>2, <2>1, MinFacts
  <1>4. best \subseteq 1..Len(insns) /\ best # {} /\ free \subseteq best
    BY <1>1, <1>3
  <1>5. \A p \in best : p \in C /\ \A q \in C : fix[chain[p]].off <= fix[chain[q]].off
    BY <1>3
  <1>6. LoPos(i) = IF free # {} THEN Max(free) ELSE Min(best)
    BY DEF LoPos
  <1> HIDE DEF best, free, C
  <1>7. LoPos(i) \in best
    <2>1. CASE free # {}
      <3>1. free \subseteq Int /\ Len(insns) \in Int /\ \A x \in free : x <= Len(insns)
        BY <1>1, <1>4
      <3>2. Max(free) \in free
        BY <1>1, <2>1, <3>1, MaxFacts
      <3> QED
        BY <1>4, <1>6, <2>1, <3>2
    <2>2. CASE free = {}
      <3>1. Min(best) \in best
        BY <1>1, <1>4, MinPosition
      <3> QED
        BY <1>6, <2>2, <3>1
    <2> QED
      BY <2>1, <2>2
  <1> QED
    BY <1>5, <1>7 DEF C

---------------------------------------------------------------------------
(* The invariant, action by action.                                        *)

\* Initially there is nothing.
LEMMA InvInit == Init => RelocInv
  <1> SUFFICES ASSUME Init PROVE RelocInv
    OBVIOUS
  <1>1. /\ phase = "emit" /\ insns = <<>> /\ fix = <<>> /\ chain = <<>>
        /\ hiFixups = <<>> /\ hi16 = <<>> /\ pos = 1 /\ field = <<>>
    BY DEF Init
  <1>2. \A S : <<>> \in Seq(S)
    OBVIOUS
  <1>3. Len(<<>>) = 0 /\ DOMAIN <<>> = {} /\ ToSet(<<>>) = {}
    BY DEF ToSet
  <1>4. RelocTypeOK
    BY <1>1, <1>2, <1>3 DEF RelocTypeOK
  <1>5. ChainInv /\ FixInv
    BY <1>1, <1>3 DEF ChainInv, FixInv
  <1>6. SortInv /\ InstallInv /\ LinkInv
    BY <1>1, <1>3 DEF SortInv, InstallInv, LinkInv, HighParts
  <1> QED
    BY <1>4, <1>5, <1>6 DEF RelocInv

\* What append_insn does to mips_hi_fixup_list.
LEMMA AppendedList ==
  ASSUME RelocTypeOK, NEW type \in {"hi", "lo"}, NEW sym, NEW off, AppendInsn(type, sym, off)
  PROVE  /\ hiFixups' \in Seq(1..(Len(insns) + 1))
         /\ ToSet(hiFixups') \subseteq ToSet(hiFixups) \cup {Len(insns) + 1}
         /\ type = "lo" => ToSet(hiFixups') = ToSet(hiFixups)
         /\ type = "hi" => Len(insns) + 1 \in ToSet(hiFixups')
         /\ \A j \in ToSet(hiFixups) \ ToSet(hiFixups') : FixupHasMatchingLo(fix, chain, j)
  <1> DEFINE i == Len(insns) + 1
             D == 1..i
  <1>1. Len(insns) \in Nat /\ DOMAIN insns = 1..Len(insns)
    BY Elements
  <1>2. i \in D /\ DOMAIN insns \subseteq D
    BY <1>1
  <1>3. hiFixups \in Seq(D)
    BY <1>2, ListFacts DEF RelocTypeOK
  <1> HIDE DEF D
  <1>4. CASE type = "lo"
    <2>1. hiFixups' = hiFixups
      BY <1>4 DEF AppendInsn
    <2> QED
      BY <1>3, <1>4, <2>1 DEF D
  <1>5. CASE type = "hi" /\ hiFixups # <<>> /\ FixupHasMatchingLo(fix, chain, Head(hiFixups))
    <2>1. hiFixups' = <<i>> \o Tail(hiFixups)
      BY <1>5 DEF AppendInsn
    <2>2. Tail(hiFixups) \in Seq(D) /\ ToSet(hiFixups) = {Head(hiFixups)} \cup ToSet(Tail(hiFixups))
      BY <1>3, <1>5, TailFacts
    <2>3. hiFixups' \in Seq(D) /\ ToSet(hiFixups') = {i} \cup ToSet(Tail(hiFixups))
      BY <1>2, <2>1, <2>2, ConsFacts
    <2> QED
      BY <1>5, <2>2, <2>3 DEF D
  <1>6. CASE type = "hi" /\ ~(hiFixups # <<>> /\ FixupHasMatchingLo(fix, chain, Head(hiFixups)))
    <2>1. hiFixups' = <<i>> \o hiFixups
      BY <1>6 DEF AppendInsn
    <2>2. hiFixups' \in Seq(D) /\ ToSet(hiFixups') = {i} \cup ToSet(hiFixups)
      BY <1>2, <1>3, <2>1, ConsFacts
    <2> QED
      BY <1>6, <2>2 DEF D
  <1> QED
    BY <1>4, <1>5, <1>6

\* append_insn
LEMMA AppendKeeps ==
  ASSUME RelocInv, NEW type \in {"hi", "lo"}, NEW sym \in Local \cup Global, NEW off \in Offsets,
         AppendInsn(type, sym, off)
  PROVE  RelocInv'
  <1> USE DEF RelocInv
  <1> DEFINE n == Len(insns)
             f == [type |-> type, sym |-> sym, off |-> off]
  <1>1. /\ phase = "emit" /\ phase' = "emit" /\ hi16' = hi16 /\ pos' = pos
        /\ insns' = Append(insns, f) /\ fix' = Append(fix, f)
        /\ chain' = Append(chain, n + 1) /\ field' = Append(field, 0)
    BY DEF AppendInsn
  <1>2. f \in Fixup /\ f.type = type /\ f.sym # Section
    BY SymbolAssumption DEF Fixup
  <1>3. n \in Nat /\ Len(fix) = n /\ Len(chain) = n /\ Len(field) = n
    BY Elements
  <1>4. insns \in Seq(Fixup) /\ fix \in Seq(Fixup) /\ chain \in Seq(Nat) /\ field \in Seq(Field)
    BY DEF RelocTypeOK
  <1>5. 0 \in Field /\ n + 1 \in Nat
    BY <1>3, HalfParts DEF Field
  <1> HIDE DEF f
  <1>6. /\ insns' \in Seq(Fixup) /\ Len(insns') = n + 1 /\ DOMAIN insns' = 1..(n + 1)
        /\ insns'[n + 1] = f /\ \A k \in 1..n : insns'[k] = insns[k]
    BY <1>1, <1>2, <1>4, AppendFacts
  <1>7. /\ fix' \in Seq(Fixup) /\ Len(fix') = n + 1 /\ DOMAIN fix' = 1..(n + 1)
        /\ fix'[n + 1] = f /\ \A k \in 1..n : fix'[k] = fix[k]
    BY <1>1, <1>2, <1>3, <1>4, AppendFacts
  <1>8. /\ chain' \in Seq(Nat) /\ Len(chain') = n + 1 /\ DOMAIN chain' = 1..(n + 1)
        /\ chain'[n + 1] = n + 1 /\ \A k \in 1..n : chain'[k] = chain[k]
    BY <1>1, <1>3, <1>4, <1>5, AppendFacts
  <1>9. /\ field' \in Seq(Field) /\ Len(field') = n + 1 /\ DOMAIN field' = 1..(n + 1)
        /\ field'[n + 1] = 0 /\ \A k \in 1..n : field'[k] = field[k]
    BY <1>1, <1>3, <1>4, <1>5, AppendFacts
  <1>10. /\ \A k \in 1..n : chain[k] \in 1..n /\ k \in 1..(n + 1) /\ k # n + 1
         /\ \A k \in 1..(n + 1) : k \in 1..n \/ k = n + 1
         /\ n + 1 \in 1..(n + 1)
    <2>1. \A k \in 1..n : chain[k] \in 1..n
      BY Elements
    <2> HIDE DEF n
    <2>2. \A k \in 1..n : k \in 1..(n + 1) /\ k # n + 1
      BY <1>3
    <2>3. /\ \A k \in 1..(n + 1) : k \in 1..n \/ k = n + 1
          /\ n + 1 \in 1..(n + 1)
      BY <1>3
    <2> QED
      BY <2>1, <2>2, <2>3
  <1>11. hi16 = <<>> /\ pos = 1 /\ \A k \in 1..n : field[k] = 0
    BY <1>1, Elements DEF InstallInv
  <1>12. RelocTypeOK'
    <2>1. ToSet(chain') = 1..(n + 1)
      <3>1. \A k \in 1..(n + 1) : chain'[k] \in 1..(n + 1)
        BY <1>8, <1>10
      <3>2. \A j \in 1..(n + 1) : \E k \in 1..(n + 1) : chain'[k] = j
        <4> TAKE j \in 1..(n + 1)
        <4>1. CASE j = n + 1
          BY <1>8, <1>10, <4>1
        <4>2. CASE j \in 1..n
          <5>1. PICK k \in 1..n : chain[k] = j
            BY <4>2, Elements
          <5> QED
            BY <1>8, <1>10, <5>1
        <4> QED
          BY <1>10, <4>1, <4>2
      <3>3. ToSet(chain') = {chain'[k] : k \in 1..(n + 1)}
        BY <1>8 DEF ToSet
      <3> QED
        BY <3>1, <3>2, <3>3
    <2>2. \A k \in 1..(n + 1) : fix'[k].type = insns'[k].type
      BY <1>6, <1>7, <1>10, Elements
    <2>3. hi16' \in Seq(1..(n + 1)) /\ ToSet(hi16') = {}
      BY <1>1, <1>11 DEF ToSet
    <2>4. \A j \in ToSet(hiFixups') : fix'[j].type = "hi"
      <3> SUFFICES ASSUME NEW j \in ToSet(hiFixups') PROVE fix'[j].type = "hi"
        OBVIOUS
      <3>1. CASE j \in ToSet(hiFixups)
        <4>1. j \in 1..n /\ fix[j].type = "hi"
          BY <3>1, Elements, ListFacts DEF RelocTypeOK
        <4> QED
          BY <1>7, <4>1
      <3>2. CASE j \notin ToSet(hiFixups)
        <4>1. j = n + 1 /\ type # "lo"
          BY <3>2, AppendedList
        <4> QED
          BY <1>2, <1>7, <4>1
      <3> QED
        BY <3>1, <3>2
    <2>5. pos' \in 1..(Len(chain') + 1)
      BY <1>1, <1>3, <1>8, <1>11
    <2>6. hiFixups' \in Seq(1..(n + 1))
      BY AppendedList
    <2> QED
      BY <1>1, <1>6, <1>7, <1>8, <1>9, <2>1, <2>2, <2>3, <2>4, <2>5, <2>6 DEF RelocTypeOK
  <1>13. ChainInv'
    <2>1. \A p, q \in 1..n : chain[p] = chain[q] => p = q
      BY Elements DEF ChainInv
    <2>2. \A p, q \in 1..(n + 1) : chain'[p] = chain'[q] => p = q
      BY <1>8, <1>10, <2>1
    <2> QED
      BY <1>8, <2>2 DEF ChainInv
  <1>14. FixInv'
    <2>1. fix' = insns'
      BY <1>1 DEF FixInv
    <2>2. \A k \in 1..(n + 1) : insns'[k].sym # Section
      BY <1>2, <1>6, <1>10, Elements DEF FixInv
    <2> QED
      BY <1>1, <1>6, <2>1, <2>2 DEF FixInv
  <1>15. InstallInv' /\ LinkInv'
    BY <1>1, <1>9, <1>10, <1>11 DEF InstallInv, LinkInv
  <1>16. SortInv'
    <2>1. Distinct(chain) /\ Distinct(chain')
      BY <1>13 DEF Distinct, ChainInv
    <2>2. ASSUME NEW j \in HighParts', j \notin ToSet(hiFixups')
          PROVE  FixupHasMatchingLo(fix', chain', j)
      <3>1. j # n + 1
        BY <2>2, <1>2, <1>6, AppendedList DEF HighParts
      <3>2. j \in 1..n /\ j \in HighParts
        BY <1>6, <1>10, <2>2, <3>1, Elements DEF HighParts
      <3>3. FixupHasMatchingLo(fix, chain, j)
        BY <1>1, <2>2, <3>2, AppendedList DEF SortInv
      <3>4. PICK p \in 1..n : chain[p] = j
        BY <3>2, Elements
      <3>5. p < n /\ fix[chain[p + 1]].type = "lo" /\ Matches(fix[chain[p]], fix[chain[p + 1]])
        <4>1. p \in DOMAIN chain /\ Len(chain) = n /\ FixupHasMatchingLo(fix, chain, chain[p])
          BY <3>3, <3>4, Elements
        <4> QED
          BY <2>1, <4>1, MatchingLoAt
      <3>6. p + 1 \in 1..n /\ p < n + 1
        <4> HIDE DEF n
        <4> QED
          BY <1>3, <3>4, <3>5
      <3>7. chain[p] \in 1..n /\ chain[p + 1] \in 1..n
        BY <1>10, <3>4, <3>6
      <3>8. /\ p < Len(chain') /\ fix'[chain'[p + 1]].type = "lo"
            /\ Matches(fix'[chain'[p]], fix'[chain'[p + 1]])
        BY <1>7, <1>8, <3>4, <3>5, <3>6, <3>7
      <3>9. p \in DOMAIN chain' /\ chain'[p] = j
        BY <1>8, <1>10, <3>4
      <3> QED
        BY <2>1, <3>8, <3>9, MatchingLoAt
    <2> QED
      BY <1>1, <2>2 DEF SortInv
  <1> QED
    BY <1>12, <1>13, <1>14, <1>15, <1>16

\* adjust_reloc_syms
LEMMA AdjustKeeps ==
  ASSUME RelocInv, AdjustRelocSyms
  PROVE  RelocInv'
  <1> USE DEF RelocInv
  <1> DEFINE n == Len(insns)
  <1>1. /\ phase = "emit" /\ phase' = "frob" /\ fix' = [i \in DOMAIN fix |-> Adjusted(fix[i])]
        /\ UNCHANGED <<insns, chain, hiFixups, hi16, pos, field>>
    BY DEF AdjustRelocSyms
  <1>2. fix = insns
    BY <1>1 DEF FixInv
  <1>3. n \in Nat /\ \A i \in 1..n : fix[i] \in Fixup
    BY Elements
  <1>4. fix' = [i \in 1..n |-> Adjusted(fix[i])]
    BY <1>1, Elements
  <1>5. \A i \in 1..n : fix'[i] = Adjusted(insns[i]) /\ fix'[i] \in Fixup /\ fix'[i].type = fix[i].type
    BY <1>2, <1>3, <1>4, AdjustedFacts
  <1>6. fix' \in Seq(Fixup) /\ Len(fix') = n
    BY <1>3, <1>4, <1>5
  <1>7. RelocTypeOK'
    <2>1. \A i \in ToSet(hiFixups) \cup ToSet(hi16) : i \in 1..n
      BY Elements, ListFacts DEF RelocTypeOK
    <2>2. \A i \in ToSet(hiFixups) \cup ToSet(hi16) : fix'[i].type = "hi"
      BY <1>5, <2>1 DEF RelocTypeOK
    <2>3. \A i \in DOMAIN insns : fix'[i].type = insns[i].type
      BY <1>2, <1>5, Elements
    <2> QED
      BY <1>1, <1>6, <2>2, <2>3 DEF RelocTypeOK
  <1>8. ChainInv'
    BY <1>1 DEF ChainInv
  <1>9. FixInv'
    BY <1>1, <1>5, Elements DEF FixInv
  <1>10. LowParts' = LowParts /\ HighParts' = HighParts
    BY <1>1 DEF LowParts, HighParts
  <1>11. SortInv'
    <2>1. Distinct(chain) /\ chain \in Seq(Nat)
      BY DEF Distinct, ChainInv, RelocTypeOK
    <2>2. ASSUME NEW j \in HighParts \ ToSet(hiFixups)
          PROVE  \E l \in LowParts : Meets(j, l)'
      <3>1. j \in 1..n /\ FixupHasMatchingLo(fix, chain, j)
        BY <1>1, <2>2, Elements DEF SortInv, HighParts
      <3>2. PICK p \in 1..n : chain[p] = j
        BY <3>1, Elements
      <3>3. p < n /\ fix[chain[p + 1]].type = "lo" /\ Matches(fix[chain[p]], fix[chain[p + 1]])
        <4>1. p \in DOMAIN chain /\ Len(chain) = n /\ FixupHasMatchingLo(fix, chain, chain[p])
          BY <3>1, <3>2, Elements
        <4> QED
          BY <2>1, <4>1, MatchingLoAt
      <3>l. PICK l : l = chain[p + 1]
        OBVIOUS
      <3>4. p + 1 \in 1..n
        BY <1>3, <3>2, <3>3
      <3>5. l \in 1..n /\ l \in LowParts
        BY <1>2, <3>l, <3>3, <3>4, Elements DEF LowParts
      <3>6. Matches(fix'[j], fix'[l])
        BY <1>2, <1>3, <1>5, <3>l, <3>1, <3>2, <3>3, <3>5, AdjustedFacts
      <3>7. /\ Precedes(chain, j, l)
            /\ \A y : Precedes(chain, j, y) /\ y # l => Precedes(chain, l, y)
        <4>1. p \in DOMAIN chain /\ p + 1 \in DOMAIN chain
          BY <3>2, <3>4, Elements
        <4> QED
          BY <2>1, <3>l, <3>2, <4>1, Neighbours
      <3>8. Meets(j, l)'
        BY <1>1, <1>10, <3>5, <3>6, <3>7 DEF Meets
      <3> QED
        BY <3>5, <3>8
    <2> QED
      BY <1>1, <1>10, <2>2 DEF SortInv
  <1>12. InstallInv' /\ LinkInv'
    BY <1>1 DEF InstallInv, LinkInv
  <1> QED
    BY <1>7, <1>8, <1>9, <1>11, <1>12

\* A high part with its low part behind it meets it.
LEMMA MatchingLoMeets ==
  ASSUME RelocTypeOK, ChainInv, NEW i \in HighParts, FixupHasMatchingLo(fix, chain, i)
  PROVE  \E l \in LowParts : Meets(i, l)
  <1>1. chain \in Seq(Nat) /\ Distinct(chain)
    BY DEF RelocTypeOK, ChainInv, Distinct
  <1>2. PICK p \in DOMAIN chain : chain[p] = i
    BY Elements DEF HighParts
  <1>3. p < Len(chain) /\ fix[chain[p + 1]].type = "lo" /\ Matches(fix[i], fix[chain[p + 1]])
    BY <1>1, <1>2, MatchingLoAt
  <1>4. p + 1 \in DOMAIN chain
    <2>1. DOMAIN chain = 1..Len(chain) /\ Len(chain) \in Nat
      BY <1>1
    <2> QED
      BY <1>2, <1>3, <2>1
  <1>5. chain[p + 1] \in LowParts
    BY <1>3, <1>4, Elements DEF LowParts
  <1>6. /\ Precedes(chain, i, chain[p + 1])
        /\ \A y : Precedes(chain, i, y) /\ y # chain[p + 1] => Precedes(chain, chain[p + 1], y)
    BY <1>1, <1>2, <1>4, Neighbours
  <1>7. Meets(i, chain[p + 1])
    BY <1>3, <1>5, <1>6 DEF Meets
  <1> QED
    BY <1>5, <1>7

\* A high part with a partner finds a low part with its own offset.
LEMMA HasLoCandidate ==
  ASSUME RelocInv, phase # "emit", NEW i \in HighParts, HasLo(i)
  PROVE  \E p \in CandidateLos(i) : fix[chain[p]].off = fix[i].off
  <1> USE DEF RelocInv
  <1>1. PICK j \in LowParts : Matches(insns[i], insns[j])
    BY DEF HasLo
  <1>2. i \in 1..Len(insns) /\ j \in 1..Len(insns) /\ insns[j].type = "lo"
    BY Elements DEF LowParts, HighParts
  <1>3. insns[i] \in Fixup /\ insns[j] \in Fixup /\ fix[i] \in Fixup /\ fix[j].type = "lo"
    BY <1>2, Elements
  <1>4. Matches(Adjusted(insns[i]), Adjusted(insns[j]))
    BY <1>1, <1>3, AdjustedFacts
  <1>5. fix[i].sym = Adjusted(insns[i]).sym /\ fix[i].off = Adjusted(insns[i]).off
    BY <1>2, Elements DEF FixInv
  <1>6. fix[j].sym = Adjusted(insns[j]).sym /\ fix[j].off = Adjusted(insns[j]).off
    BY <1>2, Elements DEF FixInv
  <1>7. fix[j].sym = fix[i].sym /\ fix[j].off = fix[i].off /\ fix[i].off \in Int
    BY <1>3, <1>4, <1>5, <1>6 DEF Matches, Fixup
  <1>8. PICK p \in DOMAIN chain : chain[p] = j
    BY <1>2, Elements
  <1>9. p \in CandidateLos(i)
    BY <1>3, <1>7, <1>8 DEF CandidateLos
  <1> QED
    BY <1>7, <1>8, <1>9

\* mips_frob_file, for an element that stays where it is.
LEMMA FrobStays ==
  ASSUME RelocInv, FrobHi, UNCHANGED <<fix, chain>>,
         FixupHasMatchingLo(fix, chain, Head(hiFixups)) \/ CandidateLos(Head(hiFixups)) = {}
  PROVE  RelocInv'
  <1> USE DEF RelocInv
  <1>1. /\ phase = "frob" /\ hiFixups # <<>> /\ hiFixups' = Tail(hiFixups)
        /\ UNCHANGED <<phase, insns, hi16, pos, field>>
    BY DEF FrobHi
  <1>2. /\ Tail(hiFixups) \in Seq(DOMAIN insns)
        /\ ToSet(hiFixups) = {Head(hiFixups)} \cup ToSet(Tail(hiFixups))
    BY <1>1, TailFacts DEF RelocTypeOK
  <1>3. RelocTypeOK'
    BY <1>1, <1>2 DEF RelocTypeOK
  <1>4. ChainInv'
    BY DEF ChainInv
  <1>5. LowParts' = LowParts /\ HighParts' = HighParts /\ \A i : HasLo(i)' <=> HasLo(i)
    BY <1>1 DEF LowParts, HighParts, HasLo
  <1>6. FixInv'
    BY <1>1, <1>5 DEF FixInv
  <1>7. \A i, l : Meets(i, l)' <=> Meets(i, l)
    BY <1>5 DEF Meets
  <1>8. ASSUME NEW j \in HighParts, j \notin ToSet(Tail(hiFixups)), HasLo(j)
        PROVE  \E l \in LowParts : Meets(j, l)
    <2>1. CASE j \notin ToSet(hiFixups)
      BY <1>1, <1>8, <2>1 DEF SortInv
    <2>2. CASE j = Head(hiFixups)
      <3>1. CandidateLos(j) # {}
        BY <1>1, <1>8, HasLoCandidate
      <3>2. FixupHasMatchingLo(fix, chain, j)
        BY <2>2, <3>1
      <3> QED
        BY <3>2, MatchingLoMeets
    <2> QED
      BY <1>2, <1>8, <2>1, <2>2
  <1>9. SortInv'
    BY <1>1, <1>5, <1>7, <1>8 DEF SortInv
  <1>10. InstallInv' /\ LinkInv'
    BY <1>1 DEF InstallInv, LinkInv
  <1> QED
    BY <1>3, <1>4, <1>6, <1>9, <1>10

\* mips_frob_file, for an element that it moves before a low part.
LEMMA FrobMoves ==
  ASSUME RelocInv, FrobHi, NEW h, h = Head(hiFixups),
         ~(FixupHasMatchingLo(fix, chain, h) \/ CandidateLos(h) = {})
  PROVE  /\ RelocInv'
         /\ \A x \in LowParts : fix'[x] = fix[x]
         /\ \A x, y \in LowParts : Precedes(chain', x, y) <=> Precedes(chain, x, y)
  <1> USE DEF RelocInv
  <1> DEFINE n == Len(insns)
  <1>1. /\ phase = "frob" /\ hiFixups # <<>> /\ hiFixups' = Tail(hiFixups)
        /\ UNCHANGED <<phase, insns, hi16, pos, field>>
        /\ fix' = [fix EXCEPT ![h].off = fix[chain[LoPos(h)]].off]
        /\ chain' = MoveBefore(chain, h, chain[LoPos(h)])
    BY DEF FrobHi
  <1>2. /\ Tail(hiFixups) \in Seq(DOMAIN insns) /\ h \in DOMAIN insns /\ h \in ToSet(hiFixups)
        /\ ToSet(hiFixups) = {h} \cup ToSet(Tail(hiFixups))
    BY <1>1, TailFacts DEF RelocTypeOK
  <1>3. h \in 1..n /\ h \in HighParts
    BY <1>2, Elements DEF RelocTypeOK, HighParts
  <1>4. chain \in Seq(Nat) /\ Distinct(chain)
    BY DEF RelocTypeOK, ChainInv, Distinct
  <1>5. PICK p : p = LoPos(h)
    OBVIOUS
  <1>6. /\ p \in CandidateLos(h)
        /\ \A k \in CandidateLos(h) : fix[chain[p]].off <= fix[chain[k]].off
    BY <1>3, <1>5, LoPosFacts
  <1>7. PICK lo : lo = chain[p]
    OBVIOUS
  <1>8. p \in DOMAIN chain /\ fix[lo].type = "lo" /\ fix[lo].sym = fix[h].sym
    BY <1>6, <1>7 DEF CandidateLos
  <1>9. lo \in 1..n /\ lo \in LowParts /\ fix[h].type = "hi" /\ lo # h /\ fix[lo].off \in Int
    BY <1>3, <1>7, <1>8, Elements DEF LowParts, HighParts, Fixup
  <1>10. PICK q \in DOMAIN chain : chain[q] = h
    BY <1>3, Elements
  <1>11. PICK t \in DOMAIN chain :
           /\ MoveBefore(chain, chain[q], chain[p]) = Rotate(chain, q, t)
           /\ t + 1 \in DOMAIN chain
           /\ Rotate(chain, q, t)[t] = chain[q] /\ Rotate(chain, q, t)[t + 1] = chain[p]
    <2>1. q # p
      BY <1>7, <1>9, <1>10
    <2> QED
      BY <1>4, <1>8, <1>10, <2>1, MoveBeforeFacts
  <1>12. chain' = Rotate(chain, q, t)
    BY <1>1, <1>5, <1>10, <1>11
  <1>13. chain'[t] = h /\ chain'[t + 1] = lo
    BY <1>7, <1>10, <1>11, <1>12
  <1>14. /\ chain' \in Seq(Nat) /\ Len(chain') = Len(chain) /\ DOMAIN chain' = DOMAIN chain
         /\ Distinct(chain') /\ ToSet(chain') = ToSet(chain)
    BY <1>4, <1>10, <1>11, <1>12, RotateFacts
  <1>15. \A x, y : x # h /\ y # h => (Precedes(chain', x, y) <=> Precedes(chain, x, y))
    BY <1>4, <1>10, <1>11, <1>12, OrderKept
  <1>16. /\ Precedes(chain', h, lo)
         /\ \A y : Precedes(chain', h, y) /\ y # lo => Precedes(chain', lo, y)
    BY <1>11, <1>13, <1>14, Neighbours
  <1>17. /\ fix' \in Seq(Fixup) /\ Len(fix') = n
         /\ \A x \in 1..n : x # h => fix'[x] = fix[x]
         /\ fix'[h].type = fix[h].type /\ fix'[h].sym = fix[h].sym /\ fix'[h].off = fix[lo].off
    <2>1. fix' = [fix EXCEPT ![h] = [fix[h] EXCEPT !.off = fix[lo].off]]
      BY <1>1, <1>5, <1>7
    <2>2. fix \in Seq(Fixup) /\ DOMAIN fix = 1..n /\ Len(fix) = n /\ fix[h] \in Fixup
      BY <1>3, Elements DEF RelocTypeOK
    <2> DEFINE g == [fix[h] EXCEPT !.off = fix[lo].off]
    <2>3. g \in Fixup /\ g.type = fix[h].type /\ g.sym = fix[h].sym /\ g.off = fix[lo].off
      BY <1>9, <2>2 DEF Fixup
    <2> HIDE DEF g
    <2>4. fix' = [fix EXCEPT ![h] = g]
      BY <2>1 DEF g
    <2>5. fix'[h] = g /\ \A x \in 1..n : x # h => fix'[x] = fix[x]
      BY <1>3, <2>2, <2>4
    <2>6. fix' \in Seq(Fixup) /\ Len(fix') = n
      BY <1>3, <2>2, <2>3, <2>4
    <2> QED
      BY <2>3, <2>5, <2>6
  <1>18. LowParts' = LowParts /\ HighParts' = HighParts /\ \A i : HasLo(i)' <=> HasLo(i)
    BY <1>1 DEF LowParts, HighParts, HasLo
  <1>19. \A x \in LowParts : x \in 1..n /\ x # h /\ fix'[x] = fix[x]
    BY <1>9, <1>17, Elements DEF LowParts
  <1>20. RelocTypeOK'
    <2>1. \A i \in ToSet(hiFixups) \cup ToSet(hi16) : i \in 1..n /\ fix[i].type = "hi"
      BY Elements, ListFacts DEF RelocTypeOK
    <2>2. \A i \in ToSet(hiFixups) \cup ToSet(hi16) : fix'[i].type = "hi"
      BY <1>17, <2>1, <1>2
    <2>3. \A i \in DOMAIN insns : fix'[i].type = insns[i].type
      BY <1>17, <1>3, Elements
    <2> QED
      BY <1>1, <1>2, <1>14, <1>17, <2>2, <2>3 DEF RelocTypeOK
  <1>21. ChainInv'
    BY <1>14 DEF ChainInv, Distinct
  <1>22. FixInv'
    <2>1. ASSUME HasLo(h) PROVE fix[lo].off = fix[h].off
      <3>1. PICK k \in CandidateLos(h) : fix[chain[k]].off = fix[h].off
        BY <1>1, <1>3, <2>1, HasLoCandidate
      <3>2. fix[lo].off <= fix[h].off
        BY <1>6, <1>7, <3>1
      <3>3. fix[lo].off >= fix[h].off /\ fix[h].off \in Int
        BY <1>3, <1>6, <1>7, Elements DEF CandidateLos, Fixup
      <3> QED
        BY <1>9, <3>2, <3>3
    <2>2. \A i \in 1..n : /\ fix[i].sym = Adjusted(insns[i]).sym
                          /\ i \in LowParts \/ HasLo(i) => fix[i].off = Adjusted(insns[i]).off
      BY <1>1, Elements DEF FixInv
    <2>3. \A i \in 1..n : /\ fix'[i].sym = Adjusted(insns[i]).sym
                          /\ i \in LowParts \/ HasLo(i) => fix'[i].off = Adjusted(insns[i]).off
      BY <1>17, <1>19, <2>1, <2>2
    <2> QED
      BY <1>1, <1>18, <2>3, Elements DEF FixInv
  <1>23. SortInv'
    <2>1. Meets(h, lo)'
      <3>1. Matches(fix'[h], fix'[lo])
        BY <1>8, <1>9, <1>17, <1>19 DEF Matches
      <3> QED
        BY <1>9, <1>16, <1>18, <3>1 DEF Meets
    <2>2. ASSUME NEW j \in HighParts, j # h, NEW l \in LowParts, Meets(j, l)
          PROVE  Meets(j, l)'
      <3>1. j \in 1..n /\ fix'[j] = fix[j] /\ fix'[l] = fix[l] /\ l # h
        BY <1>17, <1>19, <2>2, Elements DEF HighParts
      <3>2. Precedes(chain', j, l)
        BY <1>15, <2>2, <3>1 DEF Meets
      <3>3. ASSUME NEW m \in LowParts, m # l, fix'[m].sym = fix'[j].sym, Precedes(chain', j, m)
            PROVE  Precedes(chain', l, m)
        <4>1. fix[m].sym = fix[j].sym /\ Precedes(chain, j, m) /\ m # h
          BY <1>15, <1>19, <2>2, <3>1, <3>3
        <4>2. Precedes(chain, l, m)
          BY <2>2, <3>3, <4>1 DEF Meets
        <4> QED
          BY <1>15, <3>1, <4>1, <4>2
      <3>4. Matches(fix'[j], fix'[l])
        BY <2>2, <3>1 DEF Meets
      <3> QED
        BY <1>18, <3>2, <3>3, <3>4 DEF Meets
    <2>3. ASSUME NEW j \in HighParts, j \notin ToSet(Tail(hiFixups)), HasLo(j)
          PROVE  \E l \in LowParts : Meets(j, l)'
      <3>1. CASE j = h
        BY <1>9, <2>1, <3>1
      <3>2. CASE j # h
        <4>1. PICK l \in LowParts : Meets(j, l)
          BY <1>1, <1>2, <2>3, <3>2 DEF SortInv
        <4> QED
          BY <2>2, <3>2, <4>1
      <3> QED
        BY <3>1, <3>2
    <2> QED
      BY <1>1, <1>18, <2>3 DEF SortInv
  <1>24. InstallInv' /\ LinkInv'
    BY <1>1 DEF InstallInv, LinkInv
  <1> QED
    BY <1>15, <1>19, <1>20, <1>21, <1>22, <1>23, <1>24

\* Everything but the fields is settled once mips_frob_file has run.
LEMMA SettledKept ==
  ASSUME RelocInv, UNCHANGED <<insns, fix, chain, hiFixups>>, phase # "emit",
         phase' \in {"install", "link", "done"}, hiFixups = <<>>,
         field' \in Seq(Field), Len(field') = Len(insns),
         hi16' \in Seq(DOMAIN insns), \A i \in ToSet(hi16') : fix[i].type = "hi",
         pos' \in 1..(Len(chain) + 1)
  PROVE  /\ RelocTypeOK' /\ ChainInv' /\ FixInv' /\ SortInv'
         /\ LowParts' = LowParts /\ HighParts' = HighParts /\ \A i : HasLo(i)' <=> HasLo(i)
  <1> USE DEF RelocInv
  <1>1. LowParts' = LowParts /\ HighParts' = HighParts /\ \A i : HasLo(i)' <=> HasLo(i)
    BY DEF LowParts, HighParts, HasLo
  <1>2. RelocTypeOK'
    BY DEF RelocTypeOK
  <1>3. ChainInv'
    BY DEF ChainInv
  <1>4. FixInv'
    BY <1>1 DEF FixInv
  <1>5. \A i, l : Meets(i, l)' <=> Meets(i, l)
    BY <1>1 DEF Meets
  <1>6. SortInv'
    BY <1>1, <1>5 DEF SortInv
  <1> QED
    BY <1>1, <1>2, <1>3, <1>4, <1>6

\* fix_segment
LEMMA FixSegmentKeeps ==
  ASSUME RelocInv, FixSegment
  PROVE  RelocInv'
  <1> USE DEF RelocInv
  <1>1. /\ phase = "frob" /\ phase' = "install" /\ hiFixups = <<>>
        /\ UNCHANGED <<insns, fix, chain, hiFixups, hi16, pos, field>>
    BY DEF FixSegment
  <1>2. /\ RelocTypeOK' /\ ChainInv' /\ FixInv' /\ SortInv'
        /\ LowParts' = LowParts /\ HighParts' = HighParts
    BY <1>1, SettledKept DEF RelocTypeOK
  <1>3. pos = 1 /\ hi16 = <<>> /\ \A i \in DOMAIN field : field[i] = 0
    BY <1>1 DEF InstallInv
  <1>4. \A p \in DOMAIN chain : ~(p < 1) /\ field[chain[p]] = 0
    BY <1>3, Elements
  <1>5. ToSet(hi16) = {}
    BY <1>3 DEF ToSet
  <1>6. InstallInv'
    BY <1>1, <1>3, <1>4, <1>5 DEF InstallInv
  <1>7. LinkInv'
    BY <1>1 DEF LinkInv
  <1> QED
    BY <1>2, <1>6, <1>7

\* The position of the loop, for a place of the list that is not there.
LEMMA StepPast ==
  ASSUME RelocTypeOK, pos <= Len(chain), NEW p \in DOMAIN chain
  PROVE  /\ pos \in DOMAIN chain /\ pos + 1 \in 1..(Len(chain) + 1)
         /\ p # pos => (p < pos + 1 <=> p < pos)
         /\ pos < pos + 1 /\ ~(pos < pos)
  <1>1. Len(chain) \in Nat /\ DOMAIN chain = 1..Len(chain) /\ pos \in 1..(Len(chain) + 1)
    BY Elements DEF RelocTypeOK
  <1> QED
    BY <1>1

\* _bfd_mips_elf_hi16_reloc
LEMMA InstallHiKeeps ==
  ASSUME RelocInv, InstallHi
  PROVE  RelocInv'
  <1> USE DEF RelocInv
  <1>1. /\ phase = "install" /\ phase' = "install" /\ pos <= Len(chain)
        /\ fix[chain[pos]].type = "hi" /\ hi16' = <<chain[pos]>> \o hi16 /\ pos' = pos + 1
        /\ UNCHANGED <<insns, fix, chain, hiFixups, field>> /\ hiFixups = <<>>
    BY DEF InstallHi, SortInv
  <1>2. pos \in DOMAIN chain /\ pos + 1 \in 1..(Len(chain) + 1)
    <2>1. Len(chain) \in Nat /\ DOMAIN chain = 1..Len(chain) /\ pos \in 1..(Len(chain) + 1)
      BY Elements DEF RelocTypeOK
    <2> QED
      BY <1>1, <2>1
  <1>3. chain[pos] \in DOMAIN insns /\ chain[pos] \in HighParts /\ chain[pos] \notin LowParts
    BY <1>1, <1>2, Elements DEF HighParts, LowParts
  <1>4. hi16' \in Seq(DOMAIN insns) /\ ToSet(hi16') = {chain[pos]} \cup ToSet(hi16)
    BY <1>1, <1>3, ConsFacts DEF RelocTypeOK
  <1>5. /\ RelocTypeOK' /\ ChainInv' /\ FixInv' /\ SortInv'
        /\ LowParts' = LowParts /\ HighParts' = HighParts
    <2>1. \A i \in ToSet(hi16') : fix[i].type = "hi"
      BY <1>1, <1>4 DEF RelocTypeOK
    <2>2. field \in Seq(Field) /\ Len(field) = Len(insns)
      BY DEF RelocTypeOK
    <2> QED
      BY <1>1, <1>2, <1>4, <2>1, <2>2, SettledKept
  <1>6. ASSUME NEW p \in DOMAIN chain
        PROVE  /\ chain[p] \in LowParts =>
                    field[chain[p]] = IF p < pos + 1 THEN fix[chain[p]].off % Half ELSE 0
               /\ chain[p] \in HighParts =>
                    field[chain[p]] = IF p < pos + 1 /\ chain[p] \notin ToSet(hi16')
                                      THEN High(fix[chain[p]].off) ELSE 0
               /\ chain[p] \in ToSet(hi16') =>
                    p < pos + 1 /\ \A q \in p..Len(chain) : q < pos + 1 => chain[q] \in HighParts
    <2>1. CASE p = pos
      <3>1. \A q \in p..Len(chain) : q < pos + 1 => q = pos
        <4>1. pos \in Int /\ Len(chain) \in Int
          BY Elements DEF RelocTypeOK
        <4> QED
          BY <2>1, <4>1
      <3>2. field[chain[p]] = 0
        BY <1>1, <1>3, <2>1, <1>6, StepPast DEF InstallInv
      <3> QED
        BY <1>1, <1>3, <1>4, <2>1, <3>1, <3>2, StepPast
    <2>2. CASE p # pos
      <3>1. p < pos + 1 <=> p < pos
        BY <1>1, <2>2, StepPast
      <3>2. chain[p] # chain[pos]
        BY <1>2, <2>2 DEF ChainInv
      <3>3. chain[p] \in ToSet(hi16') <=> chain[p] \in ToSet(hi16)
        BY <1>4, <3>2
      <3>4. \A q \in p..Len(chain) : q < pos + 1 => q < pos \/ q = pos
        <4>1. pos \in Int /\ Len(chain) \in Int /\ p \in Int
          BY Elements DEF RelocTypeOK
        <4> QED
          BY <4>1
      <3>5. chain[p] \in ToSet(hi16') =>
              \A q \in p..Len(chain) : q < pos + 1 => chain[q] \in HighParts
        BY <1>1, <1>3, <3>3, <3>4 DEF InstallInv
      <3> QED
        BY <1>1, <3>1, <3>3, <3>5 DEF InstallInv
    <2> QED
      BY <2>1, <2>2
  <1>7. InstallInv' /\ LinkInv'
    BY <1>1, <1>5, <1>6 DEF InstallInv, LinkInv
  <1> QED
    BY <1>5, <1>7

\* What InstalledHigh stores into an empty field for an empty low part.
LEMMA InstalledFacts ==
  ASSUME NEW i, NEW v, v = 0, fix[i].off \in Int, field[i] = 0
  PROVE  InstalledHigh(i, v) = High(fix[i].off) /\ High(fix[i].off) \in Field
  <1> DEFINE h == Half \div 2
  <1>1. Half \in Nat \ {0} /\ h \in Nat \ {0} /\ h + h = Half
    BY HalfParts
  <1>2. (0 + h) % Half = h
    <2> HIDE DEF h
    <2>1. ((0 * Half) + h) % Half = h
      <3>1. h \in 0..(Half - 1)
        BY <1>1
      <3> QED
        BY <1>1, <3>1, DivModUnique
    <2>2. (0 * Half) + h = 0 + h
      BY <1>1
    <2> QED
      BY <2>1, <2>2
  <1>3. High(fix[i].off) \in Field
    BY HighLow
  <1>4. (fix[i].off + h) \div Half \in Int
    <2>1. fix[i].off + h \in Int
      BY <1>1
    <2> QED
      BY <1>1, <2>1, DivMod
  <1>5. InstalledHigh(i, v) = (0 + ((fix[i].off + h) \div Half)) % Half
    BY <1>2 DEF InstalledHigh
  <1>6. High(fix[i].off) = ((fix[i].off + h) \div Half) % Half
    BY DEF High
  <1> QED
    BY <1>3, <1>4, <1>5, <1>6

\* _bfd_mips_elf_lo16_reloc
LEMMA InstallLoKeeps ==
  ASSUME RelocInv, InstallLo
  PROVE  RelocInv'
  <1> USE DEF RelocInv
  <1> DEFINE n == Len(insns)
  <1>0. PICK lo : lo = chain[pos]
    OBVIOUS
  <1>1. /\ phase = "install" /\ phase' = "install" /\ pos <= Len(chain)
        /\ fix[lo].type = "lo" /\ hi16' = <<>> /\ pos' = pos + 1
        /\ UNCHANGED <<insns, fix, chain, hiFixups>> /\ hiFixups = <<>>
        /\ field' = [i \in DOMAIN field |->
                       CASE i \in ToSet(hi16) -> InstalledHigh(i, field[lo])
                         [] i = lo -> (field[lo] + fix[lo].off) % Half
                         [] OTHER -> field[i]]
    BY <1>0 DEF InstallLo, SortInv
  <1>2. pos \in DOMAIN chain /\ pos + 1 \in 1..(Len(chain) + 1)
    <2>1. Len(chain) \in Nat /\ DOMAIN chain = 1..Len(chain) /\ pos \in 1..(Len(chain) + 1)
      BY Elements DEF RelocTypeOK
    <2> QED
      BY <1>1, <2>1
  <1>3. /\ lo \in 1..n /\ lo \in LowParts /\ lo \notin HighParts /\ lo \notin ToSet(hi16)
        /\ fix[lo].off \in Int
    BY <1>0, <1>1, <1>2, Elements DEF HighParts, LowParts, RelocTypeOK, Fixup
  <1>4. field[lo] = 0
    BY <1>0, <1>1, <1>2, <1>3, StepPast DEF InstallInv
  <1>5. \A i \in ToSet(hi16) : i \in 1..n /\ i \in HighParts /\ i \notin LowParts /\ fix[i].off \in Int
    <2>1. \A i \in ToSet(hi16) : i \in 1..n /\ fix[i].type = "hi"
      BY Elements, ListFacts DEF RelocTypeOK
    <2> QED
      BY <2>1, Elements DEF HighParts, LowParts, Fixup
  <1>6. \A i \in ToSet(hi16) : field[i] = 0
    <2> SUFFICES ASSUME NEW i \in ToSet(hi16) PROVE field[i] = 0
      OBVIOUS
    <2>1. PICK p \in DOMAIN chain : chain[p] = i
      BY <1>5, Elements
    <2> QED
      BY <1>1, <1>5, <2>1 DEF InstallInv
  <1>7. \A i \in ToSet(hi16) : field'[i] = High(fix[i].off) /\ field'[i] \in Field
    <2> SUFFICES ASSUME NEW i \in ToSet(hi16)
                 PROVE  field'[i] = High(fix[i].off) /\ field'[i] \in Field
      OBVIOUS
    <2>1. field'[i] = InstalledHigh(i, field[lo])
      <3>1. i \in DOMAIN field
        BY <1>5, Elements
      <3>2. field'[i] = CASE i \in ToSet(hi16) -> InstalledHigh(i, field[lo])
                          [] i = lo -> (field[lo] + fix[lo].off) % Half
                          [] OTHER -> field[i]
        BY <1>1, <3>1, Zenon
      <3>3. i # lo
        BY <1>3
      <3> QED
        BY <3>2, <3>3
    <2> QED
      BY <2>1, <1>4, <1>5, <1>6, InstalledFacts
  <1>8. field'[lo] = fix[lo].off % Half /\ field'[lo] \in Field
    <2>1. field'[lo] = (0 + fix[lo].off) % Half
      BY <1>1, <1>3, <1>4, Elements
    <2>2. 0 + fix[lo].off = fix[lo].off
      BY <1>3
    <2>3. fix[lo].off % Half \in 0..(Half - 1)
      BY <1>3, DivMod, HalfParts
    <2> QED
      BY <2>1, <2>2, <2>3 DEF Field
  <1>9. \A i \in 1..n : i # lo /\ i \notin ToSet(hi16) => field'[i] = field[i]
    BY <1>1, Elements
  <1>10. field' \in Seq(Field) /\ Len(field') = n
    <2>1. \A i \in 1..n : field'[i] \in Field
      BY <1>7, <1>8, <1>9, Elements
    <2>2. DOMAIN field' = 1..n /\ n \in Nat
      BY <1>1, Elements
    <2>3. field' = [i \in 1..n |-> field'[i]]
      BY <1>1, <2>2
    <2> QED
      BY <2>1, <2>2, <2>3
  <1>11. hi16' \in Seq(DOMAIN insns) /\ ToSet(hi16') = {}
    BY <1>1 DEF ToSet
  <1>12. /\ RelocTypeOK' /\ ChainInv' /\ FixInv' /\ SortInv'
         /\ LowParts' = LowParts /\ HighParts' = HighParts
    BY <1>1, <1>2, <1>10, <1>11, SettledKept
  <1>13. ASSUME NEW p \in DOMAIN chain
         PROVE  /\ chain[p] \in LowParts =>
                     field'[chain[p]] = IF p < pos + 1 THEN fix[chain[p]].off % Half ELSE 0
                /\ chain[p] \in HighParts =>
                     field'[chain[p]] = IF p < pos + 1 THEN High(fix[chain[p]].off) ELSE 0
    <2>0. chain[p] \in 1..n
      BY Elements
    <2>1. CASE p = pos
      BY <1>0, <1>1, <1>3, <1>8, <2>1, StepPast
    <2>2. CASE p # pos
      <3>1. p < pos + 1 <=> p < pos
        BY <1>1, <2>2, StepPast
      <3>2. chain[p] # lo
        BY <1>0, <1>2, <2>2 DEF ChainInv
      <3>3. CASE chain[p] \in ToSet(hi16)
        <4>1. p < pos /\ chain[p] \in HighParts /\ chain[p] \notin LowParts
          BY <1>1, <1>5, <3>3 DEF InstallInv
        <4> QED
          BY <1>7, <3>1, <3>3, <4>1
      <3>4. CASE chain[p] \notin ToSet(hi16)
        BY <1>1, <1>9, <2>0, <3>1, <3>2, <3>4 DEF InstallInv
      <3> QED
        BY <3>3, <3>4
    <2> QED
      BY <2>1, <2>2
  <1>14. InstallInv' /\ LinkInv'
    BY <1>1, <1>11, <1>12, <1>13 DEF InstallInv, LinkInv
  <1> QED
    BY <1>12, <1>14

\* The first low part with the same symbol, from a high part that has a partner:
\* where bfd's mips_elf_next_relocation stops.
LEMMA FirstLo ==
  ASSUME RelocInv, phase \notin {"emit", "frob"}, NEW p \in DOMAIN chain,
         chain[p] \in HighParts, HasLo(chain[p]),
         NEW los, los = {q \in p..Len(chain) : /\ fix[chain[q]].type = "lo"
                                               /\ fix[chain[q]].sym = fix[chain[p]].sym}
  PROVE  /\ los # {} /\ Min(los) \in DOMAIN chain /\ p < Min(los)
         /\ chain[Min(los)] \in LowParts /\ Matches(fix[chain[p]], fix[chain[Min(los)]])
  <1> USE DEF RelocInv
  <1>1. hiFixups = <<>> /\ ToSet(hiFixups) = {}
    BY DEF SortInv, ToSet
  <1>2. PICK l \in LowParts : Meets(chain[p], l)
    BY <1>1 DEF SortInv
  <1>3. DOMAIN chain = 1..Len(chain) /\ Len(chain) \in Nat
    BY Elements
  <1>4. PICK a, b \in DOMAIN chain : a < b /\ chain[a] = chain[p] /\ chain[b] = l
    BY <1>2 DEF Meets, Precedes
  <1>5. p < b
    BY <1>4 DEF ChainInv
  <1>6. Matches(fix[chain[p]], fix[l]) /\ fix[l].type = "lo"
    BY <1>2, Elements DEF Meets, LowParts
  <1>7. b \in los
    BY <1>3, <1>4, <1>5, <1>6 DEF Matches
  <1>8. ASSUME NEW q \in los PROVE b <= q
    <2>1. q \in DOMAIN chain /\ p <= q /\ fix[chain[q]].type = "lo" /\ fix[chain[q]].sym = fix[chain[p]].sym
      BY <1>3, <1>8
    <2>2. chain[q] \in LowParts /\ fix[chain[p]].type = "hi"
      BY <2>1, Elements DEF LowParts, HighParts
    <2>3. CASE chain[q] = l
      BY <1>3, <1>4, <2>1, <2>3 DEF ChainInv
    <2>4. CASE chain[q] # l
      <3>1. p # q
        BY <2>1, <2>2
      <3>2. Precedes(chain, chain[p], chain[q])
        BY <1>3, <2>1, <3>1 DEF Precedes
      <3>3. Precedes(chain, l, chain[q])
        BY <1>2, <2>1, <2>2, <2>4, <3>2 DEF Meets
      <3>4. PICK c, d \in DOMAIN chain : c < d /\ chain[c] = l /\ chain[d] = chain[q]
        BY <3>3 DEF Precedes
      <3>5. c = b /\ d = q
        BY <1>4, <2>1, <3>4 DEF ChainInv
      <3> QED
        BY <1>3, <3>4, <3>5
    <2> QED
      BY <2>3, <2>4
  <1>9. los \subseteq 1..Len(chain)
    BY <1>3
  <1>10. Min(los) \in los /\ \A y \in los : Min(los) <= y
    BY <1>3, <1>7, <1>9, MinPosition
  <1>11. Min(los) = b
    <2>1. b <= Min(los) /\ Min(los) <= b
      BY <1>7, <1>8, <1>10
    <2>2. b \in Int /\ Min(los) \in Int
      BY <1>7, <1>9, <1>10
    <2> QED
      BY <2>1, <2>2
  <1> QED
    BY <1>2, <1>4, <1>5, <1>6, <1>7, <1>11

\* The object file is complete.
LEMMA ObjectWrittenKeeps ==
  ASSUME RelocInv, ObjectWritten
  PROVE  RelocInv'
  <1> USE DEF RelocInv
  <1>1. /\ phase = "install" /\ phase' = "link" /\ pos > Len(chain) /\ pos' = 1
        /\ UNCHANGED <<insns, fix, chain, hiFixups, hi16, field>> /\ hiFixups = <<>>
    BY DEF ObjectWritten, SortInv
  <1>2. Len(chain) \in Nat /\ DOMAIN chain = 1..Len(chain) /\ pos \in 1..(Len(chain) + 1)
    BY Elements DEF RelocTypeOK
  <1>3. 1 \in 1..(Len(chain) + 1) /\ \A p \in DOMAIN chain : p < pos /\ ~(p < 1)
    BY <1>1, <1>2
  <1>4. /\ RelocTypeOK' /\ ChainInv' /\ FixInv' /\ SortInv' /\ LowParts' = LowParts
        /\ HighParts' = HighParts /\ \A i : HasLo(i)' <=> HasLo(i)
    BY <1>1, <1>3, SettledKept DEF RelocTypeOK
  <1>5. ASSUME NEW p \in DOMAIN chain
        PROVE  /\ chain[p] \in LowParts => field[chain[p]] = fix[chain[p]].off % Half
               /\ chain[p] \in HighParts /\ HasLo(chain[p]) =>
                    field[chain[p]] = High(fix[chain[p]].off)
    <2>1. chain[p] \in LowParts => field[chain[p]] = fix[chain[p]].off % Half
      BY <1>1, <1>3 DEF InstallInv
    <2>2. ASSUME chain[p] \in HighParts, HasLo(chain[p])
          PROVE  chain[p] \notin ToSet(hi16)
      <3>1. PICK q \in DOMAIN chain : p < q /\ chain[q] \in LowParts
        BY <1>1, <2>2, FirstLo
      <3>2. q \in p..Len(chain) /\ q < pos /\ chain[q] \notin HighParts
        BY <1>2, <1>3, <3>1 DEF LowParts, HighParts
      <3> QED
        BY <1>1, <3>2 DEF InstallInv
    <2> QED
      BY <1>1, <1>3, <2>1, <2>2 DEF InstallInv
  <1>6. InstallInv' /\ LinkInv'
    BY <1>1, <1>3, <1>4, <1>5 DEF InstallInv, LinkInv
  <1> QED
    BY <1>4, <1>6

\* Symbols have addresses once local ones are replaced.
LEMMA FinalFacts ==
  ASSUME RelocInv, phase # "emit", NEW i \in DOMAIN insns
  PROVE  Final[fix[i].sym] \in Nat /\ fix[i].off \in Int /\ field[i] \in Field /\ field[i] \in Int
  <1>1. fix[i].sym = Adjusted(insns[i]).sym /\ insns[i] \in Fixup
    BY Elements DEF RelocInv, FixInv
  <1>2. fix[i].sym \in Global \cup {Section}
    BY <1>1, AdjustedFacts
  <1>3. Final[fix[i].sym] \in Nat
    BY <1>2, SymbolAssumption
  <1>4. fix[i].off \in Int /\ field[i] \in Field
    BY Elements DEF RelocInv, Fixup
  <1>5. Field \subseteq Int
    BY HalfParts DEF Field
  <1> QED
    BY <1>3, <1>4, <1>5

\* A step of the linker changes one field and goes on.
LEMMA LinkStep ==
  ASSUME RelocInv, phase = "link", phase' = "link", pos <= Len(chain), pos' = pos + 1,
         UNCHANGED <<insns, fix, chain, hiFixups, hi16>>,
         NEW v \in Field, field' = [field EXCEPT ![chain[pos]] = v],
         chain[pos] \in LowParts =>
           v = (Final[fix[chain[pos]].sym] + (fix[chain[pos]].off % Half)) % Half,
         chain[pos] \in HighParts /\ HasLo(chain[pos]) =>
           v = High(((High(fix[chain[pos]].off) * Half) + SignExtend(fix[chain[pos]].off % Half))
                      + Final[fix[chain[pos]].sym])
  PROVE  RelocInv'
  <1> USE DEF RelocInv
  <1> DEFINE n == Len(insns)
  <1>1. hiFixups = <<>>
    BY DEF SortInv
  <1>2. pos \in DOMAIN chain /\ pos + 1 \in 1..(Len(chain) + 1)
    <2>1. Len(chain) \in Nat /\ DOMAIN chain = 1..Len(chain) /\ pos \in 1..(Len(chain) + 1)
      BY Elements DEF RelocTypeOK
    <2> QED
      BY <2>1
  <1>3. chain[pos] \in 1..n /\ field \in Seq(Field) /\ DOMAIN field = 1..n /\ Len(field) = n
    BY <1>2, Elements DEF RelocTypeOK
  <1>4. /\ field' \in Seq(Field) /\ Len(field') = n /\ field'[chain[pos]] = v
        /\ \A i \in 1..n : i # chain[pos] => field'[i] = field[i]
    BY <1>3
  <1>5. /\ RelocTypeOK' /\ ChainInv' /\ FixInv' /\ SortInv' /\ LowParts' = LowParts
        /\ HighParts' = HighParts /\ \A i : HasLo(i)' <=> HasLo(i)
    <2>1. hi16' \in Seq(DOMAIN insns) /\ \A i \in ToSet(hi16') : fix[i].type = "hi"
      BY DEF RelocTypeOK
    <2> QED
      BY <1>1, <1>2, <1>4, <2>1, SettledKept
  <1>6. ASSUME NEW p \in DOMAIN chain, NEW i, i = chain[p]
        PROVE  /\ i \in LowParts =>
                    field'[i] = IF p < pos + 1 THEN (Final[fix[i].sym] + (fix[i].off % Half)) % Half
                                ELSE fix[i].off % Half
               /\ i \in HighParts /\ HasLo(i) =>
                    field'[i] = IF p < pos + 1
                                THEN High(((High(fix[i].off) * Half) + SignExtend(fix[i].off % Half))
                                            + Final[fix[i].sym])
                                ELSE High(fix[i].off)
    <2>1. CASE p = pos
      BY <1>4, <1>6, <2>1, StepPast
    <2>2. CASE p # pos
      <3>1. p < pos + 1 <=> p < pos
        BY <2>2, StepPast
      <3>2. i # chain[pos] /\ i \in 1..n
        BY <1>2, <1>6, <2>2, Elements DEF ChainInv
      <3>3. field'[i] = field[i]
        BY <1>4, <3>2
      <3> QED
        BY <1>6, <3>1, <3>3 DEF LinkInv
    <2> QED
      BY <2>1, <2>2
  <1>7. LinkInv'
    BY <1>5, <1>6 DEF LinkInv
  <1>8. InstallInv'
    BY DEF InstallInv
  <1> QED
    BY <1>5, <1>7, <1>8

\* _bfd_mips_elf_relocate_section for a HI16: it finds the halves of its offset in
\* its own field and in that of the low part it meets, which comes later.
LEMMA RelocateHiKeeps ==
  ASSUME RelocInv, RelocateHi
  PROVE  RelocInv'
  <1> USE DEF RelocInv
  <1> DEFINE h == chain[pos]
             addend == IF NextLos = {} THEN field[h] ELSE CombinedAddend(h, chain[Min(NextLos)])
             v == High(addend + Final[fix[h].sym])
  <1>1. /\ phase = "link" /\ phase' = "link" /\ pos <= Len(chain) /\ fix[h].type = "hi"
        /\ pos' = pos + 1 /\ UNCHANGED <<insns, fix, chain, hiFixups, hi16>>
        /\ field' = [field EXCEPT ![h] = v]
    BY DEF RelocateHi
  <1>2. pos \in DOMAIN chain /\ DOMAIN chain = 1..Len(chain) /\ Len(chain) \in Nat
    <2>1. Len(chain) \in Nat /\ DOMAIN chain = 1..Len(chain) /\ pos \in 1..(Len(chain) + 1)
      BY Elements DEF RelocTypeOK
    <2> QED
      BY <1>1, <2>1
  <1>3. h \in DOMAIN insns /\ h \in HighParts /\ h \notin LowParts
    BY <1>1, <1>2, Elements DEF HighParts, LowParts
  <1>4. Final[fix[h].sym] \in Nat /\ field[h] \in Int
    BY <1>1, <1>3, FinalFacts
  <1>5. \A x \in Field : x \in Int /\ SignExtend(x) \in Int
    BY HalfParts DEF Field, SignExtend
  <1>6. addend \in Int
    <2>1. CASE NextLos # {}
      <3>1. NextLos \subseteq 1..Len(chain)
        BY <1>2 DEF NextLos
      <3>2. Min(NextLos) \in DOMAIN chain
        BY <1>2, <2>1, <3>1, MinPosition
      <3>3. field[chain[Min(NextLos)]] \in Field
        BY <3>2, Elements
      <3>4. CombinedAddend(h, chain[Min(NextLos)]) \in Int
        BY <1>4, <1>5, <3>3, HalfParts DEF CombinedAddend
      <3> QED
        BY <2>1, <3>4
    <2> QED
      BY <1>4, <2>1
  <1>7. v \in Field
    <2> HIDE DEF addend, h
    <2>1. addend + Final[fix[h].sym] \in Int
      BY <1>4, <1>6
    <2> QED
      BY <2>1, HighLow
  <1>8. ASSUME HasLo(h)
        PROVE  addend = (High(fix[h].off) * Half) + SignExtend(fix[h].off % Half)
    <2> DEFINE m == Min(NextLos)
    <2>1. /\ NextLos # {} /\ m \in DOMAIN chain /\ pos < m
          /\ chain[m] \in LowParts /\ Matches(fix[h], fix[chain[m]])
      BY <1>1, <1>2, <1>3, <1>8, FirstLo DEF NextLos
    <2>2. ~(m < pos) /\ ~(pos < pos)
      BY <1>2, <2>1
    <2>3. field[chain[m]] = fix[chain[m]].off % Half
      BY <1>1, <2>1, <2>2 DEF LinkInv
    <2>4. field[h] = High(fix[h].off)
      BY <1>1, <1>2, <1>3, <1>8, <2>2 DEF LinkInv
    <2>5. fix[chain[m]].off = fix[h].off
      BY <2>1 DEF Matches
    <2>6. addend = CombinedAddend(h, chain[m])
      BY <2>1
    <2> HIDE DEF addend, h, m
    <2> QED
      BY <2>3, <2>4, <2>5, <2>6 DEF CombinedAddend
  <1> HIDE DEF addend
  <1> QED
    BY <1>1, <1>3, <1>7, <1>8, LinkStep

\* _bfd_mips_elf_relocate_section for a LO16
LEMMA RelocateLoKeeps ==
  ASSUME RelocInv, RelocateLo
  PROVE  RelocInv'
  <1> USE DEF RelocInv
  <1> DEFINE l == chain[pos]
             v == (Final[fix[l].sym] + field[l]) % Half
  <1>1. /\ phase = "link" /\ phase' = "link" /\ pos <= Len(chain) /\ fix[l].type = "lo"
        /\ pos' = pos + 1 /\ UNCHANGED <<insns, fix, chain, hiFixups, hi16>>
        /\ field' = [field EXCEPT ![l] = v]
    <2>1. pos \in DOMAIN chain => l \in DOMAIN field
      BY Elements
    <2> QED
      BY <2>1 DEF RelocateLo
  <1>2. pos \in DOMAIN chain /\ DOMAIN chain = 1..Len(chain) /\ Len(chain) \in Nat
    <2>1. Len(chain) \in Nat /\ DOMAIN chain = 1..Len(chain) /\ pos \in 1..(Len(chain) + 1)
      BY Elements DEF RelocTypeOK
    <2> QED
      BY <1>1, <2>1
  <1>3. l \in DOMAIN insns /\ l \in LowParts /\ l \notin HighParts
    BY <1>1, <1>2, Elements DEF HighParts, LowParts
  <1>4. field[l] = fix[l].off % Half
    BY <1>1, <1>2, <1>3, StepPast DEF LinkInv
  <1>5. v \in Field
    <2>1. Final[fix[l].sym] + field[l] \in Int
      BY <1>1, <1>3, FinalFacts
    <2> QED
      BY <2>1, DivMod, HalfParts DEF Field
  <1> QED
    BY <1>1, <1>3, <1>4, <1>5, LinkStep

\* The linker is done.
LEMMA LinkedKeeps ==
  ASSUME RelocInv, Linked
  PROVE  RelocInv'
  <1> USE DEF RelocInv
  <1>1. /\ phase = "link" /\ phase' = "done" /\ pos > Len(chain)
        /\ UNCHANGED <<insns, fix, chain, hiFixups, hi16, pos, field>> /\ hiFixups = <<>>
    BY DEF Linked, SortInv
  <1>2. /\ RelocTypeOK' /\ ChainInv' /\ FixInv' /\ SortInv' /\ LowParts' = LowParts
        /\ HighParts' = HighParts /\ \A i : HasLo(i)' <=> HasLo(i)
    BY <1>1, SettledKept DEF RelocTypeOK
  <1>3. \A p \in DOMAIN chain : p < pos
    <2>1. Len(chain) \in Nat /\ DOMAIN chain = 1..Len(chain) /\ pos \in 1..(Len(chain) + 1)
      BY Elements DEF RelocTypeOK
    <2> QED
      BY <1>1, <2>1
  <1>4. InstallInv' /\ LinkInv'
    BY <1>1, <1>2, <1>3 DEF InstallInv, LinkInv
  <1> QED
    BY <1>2, <1>4

\* Every step keeps the invariant.
LEMMA InvNext == RelocInv /\ [Next]_vars => RelocInv'
  <1> SUFFICES ASSUME RelocInv, [Next]_vars PROVE RelocInv'
    OBVIOUS
  <1>1. CASE UNCHANGED vars
    BY <1>1 DEF vars, RelocInv, RelocTypeOK, ChainInv, FixInv, SortInv, InstallInv, LinkInv,
                LowParts, HighParts, HasLo, Meets, NextLos
  <1>2. CASE \E type \in {"hi", "lo"}, sym \in Local \cup Global, off \in Offsets :
               AppendInsn(type, sym, off)
    BY <1>2, AppendKeeps
  <1>3. CASE AdjustRelocSyms
    BY <1>3, AdjustKeeps
  <1>4. CASE FrobHi
    <2>1. CASE FixupHasMatchingLo(fix, chain, Head(hiFixups)) \/ CandidateLos(Head(hiFixups)) = {}
      <3>1. UNCHANGED <<fix, chain>>
        BY <1>4, <2>1 DEF FrobHi
      <3> QED
        BY <1>4, <2>1, <3>1, FrobStays
    <2>2. CASE ~(FixupHasMatchingLo(fix, chain, Head(hiFixups)) \/ CandidateLos(Head(hiFixups)) = {})
      BY <1>4, <2>2, FrobMoves
    <2> QED
      BY <2>1, <2>2
  <1>5. CASE FixSegment
    BY <1>5, FixSegmentKeeps
  <1>6. CASE InstallHi
    BY <1>6, InstallHiKeeps
  <1>7. CASE InstallLo
    BY <1>7, InstallLoKeeps
  <1>8. CASE ObjectWritten
    BY <1>8, ObjectWrittenKeeps
  <1>9. CASE RelocateHi
    BY <1>9, RelocateHiKeeps
  <1>10. CASE RelocateLo
    BY <1>10, RelocateLoKeeps
  <1>11. CASE Linked
    BY <1>11, LinkedKeeps
  <1> QED
    BY <1>1, <1>2, <1>3, <1>4, <1>5, <1>6, <1>7, <1>8, <1>9, <1>10, <1>11 DEF Next

---------------------------------------------------------------------------
(* The theorems.                                                           *)

\* The inductive invariant holds: the list of fixups stays a permutation, each
\* high part that has a partner meets one that matches it, and the fields hold the
\* halves of the offsets and then those of the addresses.
THEOREM RelocInvariance == Spec => []RelocInv
  <1> QED
    BY InvInit, InvNext, PTL DEF Spec

\* The lists stay what they are while the assembler sorts them and the linker
\* walks along them.
THEOREM RelocTypeCorrect == Spec => []RelocTypeOK
  <1>1. RelocInv => RelocTypeOK
    BY DEF RelocInv
  <1> QED
    BY <1>1, RelocInvariance, PTL

\* Adjusted fixups keep their address.
LEMMA SameAddress ==
  ASSUME NEW f \in Fixup, f.sym # Section
  PROVE  /\ Address(f) = (Adjusted(f).off + Final[Adjusted(f).sym]) % (Half * Half)
         /\ Final[Adjusted(f).sym] \in Nat /\ Adjusted(f).off \in Int
  <1>1. /\ f.off \in Int /\ Adjusted(f).sym \in Global \cup {Section}
        /\ f.sym \in Local => /\ Adjusted(f).off = f.off + SymValue[f.sym]
                              /\ Adjusted(f).sym = Section /\ SymValue[f.sym] \in Nat
        /\ f.sym \notin Local => Adjusted(f).off = f.off /\ Adjusted(f).sym = f.sym
    BY AdjustedFacts, SymbolAssumption
  <1>2. Final[Adjusted(f).sym] \in Nat
    BY <1>1, SymbolAssumption
  <1>3. CASE f.sym \in Local
    <2>1. f.off + (Final[Section] + SymValue[f.sym]) = Adjusted(f).off + Final[Adjusted(f).sym]
      BY <1>1, <1>2, <1>3
    <2>2. Address(f) = (f.off + (Final[Section] + SymValue[f.sym])) % (Half * Half)
      BY <1>3 DEF Address
    <2> QED
      BY <1>1, <1>2, <1>3, <2>1, <2>2
  <1>4. CASE f.sym \notin Local
    BY <1>1, <1>2, <1>4 DEF Address
  <1> QED
    BY <1>3, <1>4

\* Once mips_frob_file has sorted the list, the first LO16 that the linker finds
\* from a HI16 on has the HI16's own address, for every HI16 whose address some
\* %lo names, however the scheduler has mixed them.
THEOREM HighPartsMeetLowParts == Spec => []HiMeetsItsLo
  <1>1. ASSUME RelocInv PROVE HiMeetsItsLo
    <2> USE DEF RelocInv
    <2> SUFFICES ASSUME phase \in {"install", "link"}, NEW p \in DOMAIN chain,
                        insns[chain[p]].type = "hi",
                        \E j \in DOMAIN insns :
                          insns[j].type = "lo" /\ Matches(insns[chain[p]], insns[j]),
                        NEW los, los = {q \in p..Len(chain) :
                                          /\ fix[chain[q]].type = "lo"
                                          /\ fix[chain[q]].sym = fix[chain[p]].sym}
                 PROVE  los # {} /\ Address(insns[chain[Min(los)]]) = Address(insns[chain[p]])
      BY DEF HiMeetsItsLo
    <2>1. chain[p] \in HighParts /\ HasLo(chain[p])
      BY <1>1, Elements DEF HighParts, HasLo, LowParts
    <2>2. /\ los # {} /\ Min(los) \in DOMAIN chain /\ chain[Min(los)] \in LowParts
          /\ Matches(fix[chain[p]], fix[chain[Min(los)]])
      BY <1>1, <2>1, FirstLo
    <2> DEFINE i == chain[p]
               l == chain[Min(los)]
    <2>3. i \in DOMAIN insns /\ l \in DOMAIN insns
      BY <1>1, <2>2, Elements
    <2>4. insns[i] \in Fixup /\ insns[l] \in Fixup /\ insns[i].sym # Section /\ insns[l].sym # Section
      BY <1>1, <2>3, Elements DEF FixInv
    <2> HIDE DEF i, l
    <2>5. /\ Adjusted(insns[i]).sym = Adjusted(insns[l]).sym
          /\ Adjusted(insns[i]).off = Adjusted(insns[l]).off
      BY <1>1, <2>1, <2>2, <2>3 DEF FixInv, Matches, i, l
    <2>6. Address(insns[i]) = Address(insns[l])
      BY <2>4, <2>5, SameAddress
    <2> QED
      BY <2>2, <2>6 DEF i, l
  <1> QED
    BY <1>1, RelocInvariance, PTL

\* In the linked program any mvui with %hi and any addi with %lo of the same
\* address add up to it, whatever the width of the fields, the offsets, the
\* symbols and the order and number of the instructions.
THEOREM AddressesAddUp == Spec => []AddressesResolved
  <1>1. ASSUME RelocInv PROVE AddressesResolved
    <2> USE DEF RelocInv
    <2> SUFFICES ASSUME phase = "done", NEW i \in DOMAIN insns, NEW j \in DOMAIN insns,
                        insns[i].type = "hi", insns[j].type = "lo", Matches(insns[i], insns[j])
                 PROVE  ((field[i] * Half) + SignExtend(field[j])) % (Half * Half) = Address(insns[i])
      BY DEF AddressesResolved
    <2>1. i \in HighParts /\ j \in LowParts /\ HasLo(i)
      BY DEF HighParts, LowParts, HasLo
    <2>2. insns[i] \in Fixup /\ insns[j] \in Fixup /\ insns[i].sym # Section
      BY <1>1, Elements DEF FixInv
    <2>3. Matches(Adjusted(insns[i]), Adjusted(insns[j]))
      BY <2>2, AdjustedFacts
    <2>4. /\ fix[i].sym = Adjusted(insns[i]).sym /\ fix[i].off = Adjusted(insns[i]).off
          /\ fix[j].sym = Adjusted(insns[j]).sym /\ fix[j].off = Adjusted(insns[j]).off
      BY <1>1, <2>1 DEF FixInv
    <2> DEFINE o == fix[i].off
               f == Final[fix[i].sym]
               addend == (High(o) * Half) + SignExtend(o % Half)
    <2>5. fix[j].off = o /\ fix[j].sym = fix[i].sym
      BY <2>3, <2>4 DEF Matches
    <2>6. PICK p \in DOMAIN chain : chain[p] = i
      BY <1>1, Elements
    <2>7. PICK q \in DOMAIN chain : chain[q] = j
      BY <1>1, Elements
    <2>8. field[i] = High(addend + f)
      BY <1>1, <2>1, <2>6 DEF LinkInv
    <2>9. field[j] = (f + (o % Half)) % Half
      BY <1>1, <2>1, <2>5, <2>7 DEF LinkInv
    <2>10. o \in Int /\ f \in Nat /\ Address(insns[i]) = (o + f) % (Half * Half)
      BY <2>2, <2>4, SameAddress
    <2> HIDE DEF o, f
    <2>11. addend \in Int
      BY <2>10, HighLow, HalfParts DEF Field
    <2>12. ((High(addend + f) * Half) + SignExtend((f + (o % Half)) % Half)) % (Half * Half)
             = (o + f) % (Half * Half)
      BY <2>10, <2>11, PartsAddUp
    <2> QED
      BY <2>8, <2>9, <2>10, <2>12
  <1> QED
    BY <1>1, RelocInvariance, PTL

\* mips_frob_file moves and changes high parts only: low parts keep their order
\* and their offsets.
THEOREM LowPartsStay == Spec => OnlyHighPartsMove
  <1>1. ASSUME RelocInv, [Next]_vars, phase = "frob"
        PROVE  \A i \in DOMAIN fix : fix[i].type = "lo" =>
                 /\ fix'[i] = fix[i]
                 /\ \A j \in DOMAIN fix :
                      fix[j].type = "lo" => (Precedes(chain', i, j) <=> Precedes(chain, i, j))
    <2>1. \A i \in DOMAIN fix : fix[i].type = "lo" => i \in LowParts
      BY <1>1, Elements DEF LowParts, RelocInv
    <2>2. CASE UNCHANGED <<fix, chain>>
      BY <2>2
    <2>3. CASE FrobHi /\ ~UNCHANGED <<fix, chain>>
      <3>1. ~(FixupHasMatchingLo(fix, chain, Head(hiFixups)) \/ CandidateLos(Head(hiFixups)) = {})
        BY <2>3 DEF FrobHi
      <3>2. /\ \A x \in LowParts : fix'[x] = fix[x]
            /\ \A x, y \in LowParts : Precedes(chain', x, y) <=> Precedes(chain, x, y)
        BY <1>1, <2>3, <3>1, FrobMoves
      <3> QED
        BY <2>1, <3>2
    <2>4. FrobHi \/ UNCHANGED <<fix, chain>>
      <3>1. CASE UNCHANGED vars
        BY <3>1 DEF vars
      <3>2. CASE Next
        BY <1>1, <3>2 DEF Next, AppendInsn, AdjustRelocSyms, FixSegment, InstallHi, InstallLo,
                          ObjectWritten, RelocateHi, RelocateLo, Linked
      <3> QED
        BY <1>1, <3>1, <3>2
    <2> QED
      BY <2>2, <2>3, <2>4
  <1>2. RelocInv /\ [Next]_vars =>
          [phase = "frob" =>
             \A i \in DOMAIN fix : fix[i].type = "lo" =>
               /\ fix'[i] = fix[i]
               /\ \A j \in DOMAIN fix :
                    fix[j].type = "lo" => (Precedes(chain', i, j) <=> Precedes(chain, i, j))]_vars
    BY <1>1
  <1> QED
    BY <1>2, RelocInvariance, PTL DEF Spec, OnlyHighPartsMove
===========================================================================
