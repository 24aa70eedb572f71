------------------------- MODULE RigelSelectProofs -------------------------
(***************************************************************************)
(* Theorems about RigelSelect, for every width of a field and every set of *)
(* constants: the tables of compares and of branches against zero mean     *)
(* what the conditions mean, no pseudo instruction is printed, printed     *)
(* immediates are read back, and the printed code computes the value of    *)
(* the node or takes its branch.                                           *)
(***************************************************************************)
EXTENDS RigelSelect, IntegerDivision, SequenceTheorems, NaturalsInduction, WellFoundedInduction, TLAPS

\* Half and the words built from it are natural numbers of the expected order.
LEMMA WordFacts ==
  /\ Half \in Nat /\ Half >= 2 /\ Half * Half \in Nat
  /\ Half * Half >= Half + Half
  /\ (Half * Half) \div 2 \in Nat /\ (Half * Half) \div 2 >= 2
  /\ (Half * Half) \div 2 <= (Half * Half) - 2
  <1>1. Half \in Nat /\ Half >= 2 /\ Half * Half \in Nat
    BY SelectAssumption
  <1>2. Half * Half >= Half + Half
    <2>1. Half - 1 \in Int /\ Half - 1 >= 1 /\ Half \in Nat \ {0}
      BY <1>1
    <2>2. (Half - 1) * Half >= Half
      BY <2>1, AtLeastOnce
    <2>3. (Half - 1) * Half = (Half * Half) - Half
      BY <1>1
    <2> QED
      BY <1>1, <2>2, <2>3
  <1>3. \A h \in Nat : h >= 4 => h \div 2 \in Nat /\ h \div 2 >= 2 /\ h \div 2 <= h - 2
    OBVIOUS
  <1> QED
    BY <1>1, <1>2, <1>3

\* A set of natural numbers that is not empty has a least element.
LEMMA LeastOf ==
  ASSUME NEW M, M \subseteq Nat, M # {}
  PROVE  \E k \in M : \A j \in M : ~(j < k)
  <1> DEFINE R == {ss \in Nat \X Nat : ss[1] < ss[2]}
  <1>1. IsWellFoundedOn(R, Nat)
    BY NatLessThanWellFounded, Zenon DEF OpToRel
  <1>3. \A i, j \in M : i < j => <<i, j>> \in R
    OBVIOUS
  <1> HIDE DEF R
  <1>4. PICK k \in M : \A j \in M : ~(<<j, k>> \in R)
    BY <1>1, WFMin
  <1> QED
    BY <1>3, <1>4

\* The half and the lowest bit of a natural number.
LEMMA Halved ==
  ASSUME NEW x \in Nat
  PROVE  /\ x \div 2 \in Nat /\ x % 2 \in {0, 1} /\ x = 2 * (x \div 2) + (x % 2)
         /\ x # 0 => x \div 2 < x
         /\ \A n \in Nat : x <= n + 1 => x \div 2 <= n
  OBVIOUS

\* One step of the recursion that BitOp is.
BitStep(op, g, p) ==
  IF p = <<0, 0>> THEN 0
  ELSE BitOfBits(op, p[1] % 2, p[2] % 2) + 2 * g[<<p[1] \div 2, p[2] \div 2>>]

\* The pairs of numbers up to n.
Pairs(n) == (0..n) \X (0..n)

\* Half a pair is a smaller pair.
LEMMA HalfPair ==
  ASSUME NEW n \in Nat, NEW p \in Pairs(n)
  PROVE  /\ <<p[1] \div 2, p[2] \div 2>> \in Pairs(n)
         /\ n # 0 => <<p[1] \div 2, p[2] \div 2>> \in Pairs(n - 1)
  <1>1. p[1] \in 0..n /\ p[2] \in 0..n
    BY DEF Pairs
  <1>2. \A x \in 0..n : x \div 2 \in 0..n /\ (n # 0 => x \div 2 \in 0..(n - 1))
    OBVIOUS
  <1> QED
    BY <1>1, <1>2 DEF Pairs

\* The recursion of BitOp has a solution (by a least counterexample).
LEMMA BitPartial ==
  ASSUME NEW op, NEW n \in Nat
  PROVE  \E g : g = [p \in Pairs(n) |-> BitStep(op, g, p)]
  <1> DEFINE Bad == {k \in Nat : ~\E g : g = [p \in Pairs(k) |-> BitStep(op, g, p)]}
  <1>1. SUFFICES ASSUME Bad # {} PROVE FALSE
    OBVIOUS
  <1>2. PICK k \in Bad : \A j \in Bad : ~(j < k)
    <2>1. Bad \subseteq Nat
      OBVIOUS
    <2> HIDE DEF Bad
    <2> QED
      BY <1>1, <2>1, LeastOf
  <1>3. k \in Nat /\ ~\E g : g = [p \in Pairs(k) |-> BitStep(op, g, p)]
    BY <1>2
  <1>4. k # 0
    <2>1. SUFFICES ASSUME k = 0 PROVE FALSE
      OBVIOUS
    <2> DEFINE g == [p \in Pairs(0) |-> 0]
    <2>2. \A p \in Pairs(0) : p = <<0, 0>>
      BY DEF Pairs
    <2>3. \A p \in Pairs(0) : BitStep(op, g, p) = 0
      BY <2>2 DEF BitStep
    <2>4. g = [p \in Pairs(0) |-> BitStep(op, g, p)]
      BY <2>3
    <2> QED
      BY <2>1, <2>4, <1>3
  <1>5. k - 1 \in Nat /\ k - 1 < k
    BY <1>3, <1>4
  <1>6. k - 1 \notin Bad
    BY <1>2, <1>5
  <1>7. PICK g : g = [p \in Pairs(k - 1) |-> BitStep(op, g, p)]
    BY <1>5, <1>6
  <1> DEFINE h == [p \in Pairs(k) |-> BitStep(op, g, p)]
  <1>8. ASSUME NEW p \in Pairs(k - 1) PROVE h[p] = g[p]
    <2>1. p \in Pairs(k)
      BY <1>5, <1>8 DEF Pairs
    <2> QED
      BY <2>1, <1>7
  <1>h. h = [p \in Pairs(k) |-> BitStep(op, g, p)]
    OBVIOUS
  <1> HIDE DEF h
  <1>9. ASSUME NEW p \in Pairs(k) PROVE BitStep(op, h, p) = BitStep(op, g, p)
    <2>1. <<p[1] \div 2, p[2] \div 2>> \in Pairs(k - 1)
      BY <1>3, <1>4, HalfPair
    <2>2. h[<<p[1] \div 2, p[2] \div 2>>] = g[<<p[1] \div 2, p[2] \div 2>>]
      BY <2>1, <1>8
    <2> QED
      BY <2>2 DEF BitStep
  <1>10. h = [p \in Pairs(k) |-> BitStep(op, h, p)]
    BY <1>h, <1>9
  <1> QED
    BY <1>3, <1>10

\* AND, OR and XOR of words, by their lowest bits and the rest.
LEMMA BitOpNext ==
  ASSUME NEW op, NEW x \in Word, NEW y \in Word
  PROVE  BitOp(op, x, y) =
           IF x = 0 /\ y = 0 THEN 0
           ELSE BitOfBits(op, x % 2, y % 2) + 2 * BitOp(op, x \div 2, y \div 2)
  <1> DEFINE g == CHOOSE g : g = [p \in Word \X Word |-> BitStep(op, g, p)]
  <1>w. Half * Half - 1 \in Nat /\ Word \X Word = Pairs(Half * Half - 1)
    BY WordFacts DEF Word, Pairs
  <1>1. \A u, v : BitOp(op, u, v) = g[<<u, v>>]
    BY DEF BitOp, BitStep
  <1>2. \E h : h = [p \in Word \X Word |-> BitStep(op, h, p)]
    <2>1. PICK n \in Nat : Word \X Word = Pairs(n)
      BY <1>w
    <2>2. PICK h : h = [p \in Pairs(n) |-> BitStep(op, h, p)]
      BY BitPartial
    <2>3. h = [p \in Word \X Word |-> BitStep(op, h, p)]
      BY <2>1, <2>2, Zenon
    <2> QED
      BY <2>3
  <1>3. g = [p \in Word \X Word |-> BitStep(op, g, p)]
    BY <1>2
  <1> HIDE DEF g
  <1>4. <<x, y>> \in Word \X Word
    OBVIOUS
  <1>5. g[<<x, y>>] = BitStep(op, g, <<x, y>>)
    BY <1>3, <1>4
  <1>6. BitStep(op, g, <<x, y>>) =
          IF x = 0 /\ y = 0 THEN 0 ELSE BitOfBits(op, x % 2, y % 2) + 2 * g[<<x \div 2, y \div 2>>]
    BY DEF BitStep
  <1> QED
    BY <1>1, <1>5, <1>6

\* The lowest bit and the rest of a sum.
LEMMA BitsOf ==
  ASSUME NEW n \in Nat, NEW b \in {0, 1}
  PROVE  (2 * n + b) \div 2 = n /\ (2 * n + b) % 2 = b
  OBVIOUS

\* Half of a word is a word.
LEMMA HalfWord ==
  ASSUME NEW x \in Word
  PROVE  x \in Nat /\ x \div 2 \in Word
  BY WordFacts, Halved DEF Word

\* A word OR 0 is the word.
LEMMA OrZero ==
  ASSUME NEW x \in Word
  PROVE  BitOp("or", x, 0) = x
  <1> DEFINE Bad == {v \in Word : BitOp("or", v, 0) # v}
  <1>1. SUFFICES ASSUME Bad # {} PROVE FALSE
    OBVIOUS
  <1>2. PICK k \in Bad : \A j \in Bad : ~(j < k)
    <2>1. Bad \subseteq Nat
      BY HalfWord
    <2> HIDE DEF Bad
    <2> QED
      BY <1>1, <2>1, LeastOf
  <1>3. k \in Word /\ BitOp("or", k, 0) # k
    BY <1>2
  <1>0. 0 \in Word
    BY WordFacts DEF Word
  <1>4. BitOp("or", k, 0) = IF k = 0 THEN 0 ELSE BitOfBits("or", k % 2, 0) + 2 * BitOp("or", k \div 2, 0)
    <2>1. 0 % 2 = 0 /\ 0 \div 2 = 0
      OBVIOUS
    <2>2. BitOp("or", k, 0) =
            IF k = 0 /\ 0 = 0 THEN 0
            ELSE BitOfBits("or", k % 2, 0 % 2) + 2 * BitOp("or", k \div 2, 0 \div 2)
      BY <1>0, <1>3, BitOpNext, Zenon
    <2> QED
      BY <2>1, <2>2
  <1>5. k # 0
    BY <1>3, <1>4
  <1>6. k \in Nat /\ k \div 2 \in Word /\ k \div 2 < k
    BY <1>3, <1>5, HalfWord, Halved
  <1>7. BitOp("or", k \div 2, 0) = k \div 2
    BY <1>2, <1>6
  <1>8. BitOfBits("or", k % 2, 0) = k % 2
    BY <1>6, Halved DEF BitOfBits, Bool
  <1>9. k = 2 * (k \div 2) + (k % 2) /\ k % 2 \in {0, 1} /\ k \div 2 \in Nat
    BY <1>6, Halved
  <1>10. BitOp("or", k, 0) = (k % 2) + 2 * (k \div 2)
    BY <1>4, <1>5, <1>7, <1>8
  <1> QED
    BY <1>3, <1>9, <1>10

\* A power of two.
Power2(h) == h \in Nat \ {0} /\ \A d \in 2..h : h % d = 0 => d % 2 = 0

\* A power of two is one, or twice a power of two.
LEMMA PowerHalf ==
  ASSUME NEW h, Power2(h), h # 1
  PROVE  /\ h \div 2 \in Nat \ {0} /\ h = 2 * (h \div 2) /\ h \div 2 < h
         /\ Power2(h \div 2)
  <1>1. h \in Nat /\ h >= 2 /\ \A d \in 2..h : h % d = 0 => d % 2 = 0
    BY DEF Power2
  <1>2. h % h = 0
    <2>1. h \in Nat \ {0} /\ 0 \in 0..(h - 1) /\ 1 \in Int
      BY <1>1
    <2>2. ((1 * h) + 0) % h = 0
      BY <2>1, DivModUnique
    <2>3. (1 * h) + 0 = h
      BY <1>1
    <2> QED
      BY <2>2, <2>3
  <1>3. h % 2 = 0
    BY <1>1, <1>2
  <1>4. PICK g : g = h \div 2
    OBVIOUS
  <1>5. g \in Nat \ {0} /\ h = 2 * g /\ g < h
    BY <1>1, <1>3, <1>4
  <1>6. ASSUME NEW d \in 2..g, g % d = 0
        PROVE  d % 2 = 0
    <2>1. d \in Nat \ {0} /\ d \in 2..h /\ g \in Int
      BY <1>5
    <2>2. PICK q \in Int : g = q * d
      <3>1. g \div d \in Int /\ g = (g \div d) * d + (g % d)
        BY <2>1, DivMod
      <3>2. PICK q : q = g \div d
        OBVIOUS
      <3>3. q \in Int /\ g = q * d + 0
        BY <1>6, <3>1, <3>2
      <3> QED
        BY <3>3, <2>1
    <2>3. h = ((2 * q) * d) + 0
      BY <1>5, <2>1, <2>2
    <2>4. (((2 * q) * d) + 0) % d = 0
      <3>1. 2 * q \in Int /\ 0 \in 0..(d - 1)
        BY <2>1
      <3> QED
        BY <2>1, <3>1, DivModUnique
    <2> QED
      BY <1>1, <2>1, <2>3, <2>4
  <1> QED
    BY <1>4, <1>5, <1>6 DEF Power2

\* The operations on the numbers below m stay below m, and XOR with m - 1 is
\* the distance to it.
Closed(m) ==
  /\ \A op \in {"and", "or", "xor"} : \A x, y \in 0..(m - 1) : BitOp(op, x, y) \in 0..(m - 1)
  /\ \A x \in 0..(m - 1) : BitOp("xor", m - 1, x) = m - 1 - x

\* What holds below m holds below 2 * m.
LEMMA ClosedTwice ==
  ASSUME NEW m \in Nat \ {0}, Closed(m), 2 * m <= Half * Half
  PROVE  Closed(2 * m)
  <1>1. ASSUME NEW x \in 0..(2 * m - 1)
        PROVE  x \in Word /\ x \div 2 \in 0..(m - 1) /\ x % 2 \in {0, 1} /\ x = 2 * (x \div 2) + (x % 2)
    BY WordFacts DEF Word
  <1>2. ASSUME NEW op \in {"and", "or", "xor"}, NEW x \in 0..(2 * m - 1), NEW y \in 0..(2 * m - 1)
        PROVE  BitOp(op, x, y) \in 0..(2 * m - 1)
    <2>1. PICK z : z = BitOp(op, x \div 2, y \div 2)
      OBVIOUS
    <2>2. z \in 0..(m - 1)
      BY <1>1, <2>1 DEF Closed
    <2>3. PICK b : b = BitOfBits(op, x % 2, y % 2)
      OBVIOUS
    <2>4. b \in {0, 1}
      BY <2>3 DEF BitOfBits, Bool
    <2>5. BitOp(op, x, y) = IF x = 0 /\ y = 0 THEN 0 ELSE b + 2 * z
      <3>1. x \in Word /\ y \in Word
        BY <1>1
      <3> QED
        BY <3>1, <2>1, <2>3, BitOpNext, Zenon
    <2> QED
      BY <2>2, <2>4, <2>5
  <1>3. ASSUME NEW x \in 0..(2 * m - 1)
        PROVE  BitOp("xor", 2 * m - 1, x) = 2 * m - 1 - x
    <2>1. PICK q, r : q = x \div 2 /\ r = x % 2
      OBVIOUS
    <2>2. x \in Word /\ q \in 0..(m - 1) /\ r \in {0, 1} /\ x = 2 * q + r
      BY <1>1, <2>1
    <2>3. /\ 2 * m - 1 \in 0..(2 * m - 1) /\ 2 * m - 1 # 0
          /\ (2 * m - 1) \div 2 = m - 1 /\ (2 * m - 1) % 2 = 1
      OBVIOUS
    <2>4. BitOp("xor", 2 * m - 1, x) = BitOfBits("xor", 1, r) + 2 * BitOp("xor", m - 1, q)
      <3>1. PICK u : u = 2 * m - 1
        OBVIOUS
      <3>2. u \in Word /\ u # 0 /\ u \div 2 = m - 1 /\ u % 2 = 1
        BY <1>1, <2>3, <3>1
      <3>3. BitOp("xor", u, x) =
              IF u = 0 /\ x = 0 THEN 0
              ELSE BitOfBits("xor", u % 2, x % 2) + 2 * BitOp("xor", u \div 2, x \div 2)
        BY <2>2, <3>2, BitOpNext, ZenonT(40)
      <3> QED
        BY <2>1, <3>1, <3>2, <3>3
    <2>5. BitOp("xor", m - 1, q) = m - 1 - q
      BY <2>2 DEF Closed
    <2>6. BitOfBits("xor", 1, r) = 1 - r
      BY <2>2 DEF BitOfBits, Bool
    <2> QED
      BY <2>2, <2>4, <2>5, <2>6
  <1> QED
    BY <1>2, <1>3 DEF Closed

\* What holds below c holds below h * c, for a power of two h.
LEMMA ClosedTimes ==
  ASSUME NEW c \in Nat \ {0}, Closed(c), NEW h, Power2(h), h * c <= Half * Half
  PROVE  Closed(h * c)
  <1> DEFINE Bad == {k \in Nat : Power2(k) /\ k * c <= Half * Half /\ ~Closed(k * c)}
  <1>1. SUFFICES ASSUME Bad # {} PROVE FALSE
    BY DEF Power2
  <1>2. PICK k \in Bad : \A j \in Bad : ~(j < k)
    <2>1. Bad \subseteq Nat
      OBVIOUS
    <2> HIDE DEF Bad
    <2> QED
      BY <1>1, <2>1, LeastOf
  <1>3. k \in Nat /\ Power2(k) /\ k * c <= Half * Half /\ ~Closed(k * c)
    BY <1>2
  <1>4. k # 1
    <2>1. 1 * c = c
      OBVIOUS
    <2> QED
      BY <2>1, <1>3
  <1>5. PICK g : g = k \div 2
    OBVIOUS
  <1>6. g \in Nat \ {0} /\ k = 2 * g /\ g < k /\ Power2(g)
    BY <1>3, <1>4, <1>5, PowerHalf
  <1>7. PICK m : m = g * c
    OBVIOUS
  <1>8. m \in Nat \ {0} /\ k * c = 2 * m
    <2>1. m \in Int /\ m >= c
      BY <1>6, <1>7, AtLeastOnce
    <2>2. k * c = 2 * m
      BY <1>6, <1>7
    <2> QED
      BY <2>1, <2>2
  <1>9. m <= Half * Half
    BY <1>3, <1>8, WordFacts
  <1>10. Closed(m)
    BY <1>2, <1>6, <1>7, <1>9
  <1> QED
    BY <1>3, <1>8, <1>10, ClosedTwice

\* The operations on words give words, and XOR with all ones is the complement.
LEMMA BitOpWord ==
  /\ \A op \in {"and", "or", "xor"} : \A x, y \in Word : BitOp(op, x, y) \in Word
  /\ \A x \in Word : BitOp("xor", MinusOne, x) = MinusOne - x
  <1>1. Power2(Half) /\ Half \in Nat \ {0}
    BY SelectAssumption DEF Power2
  <1>2. Closed(1)
    <2>1. 0 \in Word
      BY WordFacts DEF Word
    <2>2. \A op : BitOp(op, 0, 0) = 0
      BY <2>1, BitOpNext
    <2>3. 0..(1 - 1) = {0} /\ 1 - 1 = 0
      OBVIOUS
    <2> QED
      BY <2>2, <2>3 DEF Closed
  <1>3. Half * 1 = Half /\ Half <= Half * Half
    BY WordFacts
  <1>4. Closed(Half)
    BY <1>1, <1>2, <1>3, ClosedTimes
  <1>5. PICK w : w = Half * Half
    OBVIOUS
  <1>6. Closed(w)
    BY <1>1, <1>4, <1>5, WordFacts, ClosedTimes
  <1>7. Word = 0..(w - 1) /\ MinusOne = w - 1
    BY <1>5 DEF Word, MinusOne
  <1> QED
    BY <1>6, <1>7 DEF Closed

---------------------------------------------------------------------------
(* Words and immediates.                                                   *)

\* Wrapping a word does not change it.
LEMMA WrapWord ==
  ASSUME NEW w \in Word
  PROVE  Wrap(w) = w
  <1>1. Half * Half \in Nat \ {0} /\ 0 \in Int /\ w \in 0..((Half * Half) - 1)
    BY WordFacts DEF Word
  <1>2. ((0 * (Half * Half)) + w) % (Half * Half) = w
    BY <1>1, DivModUnique
  <1>3. (0 * (Half * Half)) + w = w
    BY <1>1
  <1> QED
    BY <1>2, <1>3 DEF Wrap

\* A field is a word, and equal to its lower half.
LEMMA FieldFacts ==
  ASSUME NEW h \in Field
  PROVE  h \in Word /\ h % Half = h
  <1>1. Half \in Nat \ {0} /\ 0 \in Int /\ h \in 0..(Half - 1)
    BY WordFacts DEF Field
  <1>2. ((0 * Half) + h) % Half = h
    BY <1>1, DivModUnique
  <1>3. (0 * Half) + h = h
    BY <1>1
  <1> QED
    BY <1>1, <1>2, <1>3, WordFacts DEF Word

\* The two halves of a word are fields.
LEMMA HalfFacts ==
  ASSUME NEW c \in Word
  PROVE  LO16(c) \in Field /\ HI16(c) \in Field
  <1>1. Half \in Nat \ {0} /\ c \in Int /\ c >= 0 /\ c < Half * Half
    BY WordFacts DEF Word
  <1> DEFINE q == c \div Half
             r == c % Half
  <1>2. q \in Int /\ r \in 0..(Half - 1) /\ c = (q * Half) + r
    BY <1>1, DivMod
  <1>3. HI16(c) = q /\ LO16(c) = r
    BY DEF HI16, LO16
  <1> HIDE DEF q, r
  <1>4. q >= 0
    <2>1. SUFFICES ASSUME q < 0 PROVE FALSE
      BY <1>2
    <2>2. 0 - q \in Int /\ 0 - q >= 1
      BY <1>2, <2>1
    <2>3. (0 - q) * Half >= Half
      BY <1>1, <2>2, AtLeastOnce
    <2>4. (0 - q) * Half = 0 - (q * Half)
      BY <1>1, <1>2
    <2> QED
      BY <1>1, <1>2, <2>3, <2>4
  <1>5. q < Half
    <2>1. SUFFICES ASSUME q >= Half PROVE FALSE
      BY <1>1, <1>2
    <2>2. (q - Half) + 1 \in Int /\ (q - Half) + 1 >= 1
      BY <1>1, <1>2, <2>1
    <2>3. ((q - Half) + 1) * Half >= Half
      BY <1>1, <2>2, AtLeastOnce
    <2>4. ((q - Half) + 1) * Half = (q * Half) - (Half * Half) + Half
      BY <1>1, <1>2
    <2> QED
      BY <1>1, <1>2, <2>3, <2>4
  <1> QED
    BY <1>1, <1>2, <1>3, <1>4, <1>5 DEF Field

\* Zero and one are fields, and zero is also a sign-extended one.
LEMMA SmallFields == 0 \in Field /\ 1 \in Field /\ 0 \in Word /\ immSExt16(0)
  <1>1. 0 \in Field /\ 1 \in Field
    BY WordFacts DEF Field
  <1>2. 0 \in Word /\ 0 % Half = 0
    BY <1>1, FieldFacts
  <1>3. SignedField(0) = 0
    <2>1. \A h \in Nat : h >= 2 => h \div 2 >= 1
      OBVIOUS
    <2>2. 0 < Half \div 2
      BY <2>1, WordFacts
    <2> QED
      BY <2>2 DEF SignedField
  <1>4. Wrap(0) = 0
    BY <1>2, WrapWord
  <1> QED
    BY <1>1, <1>2, <1>3, <1>4 DEF immSExt16

---------------------------------------------------------------------------
(* Selected code.                                                          *)

\* The words that are not selects: a selected instruction is built from its
\* operation, registers and an immediate that its field holds.
LEMMA Built ==
  ASSUME NEW op \in Opcodes, op # "Select_CC",
         NEW dst \in Regs, NEW s1 \in Regs, NEW s2 \in Regs, NEW imm \in Word,
         op \in UnsignedImm => imm \in Field,
         op \notin UnsignedImm \cup {"MOVi32imm"} /\ AddImmsFit => immSExt16(imm)
  PROVE  I(op, dst, s1, s2, imm) \in InsertedInsn
  <1> DEFINE i == I(op, dst, s1, s2, imm)
  <1>1. /\ i \in [op : Opcodes, dst : Regs, s1 : Regs, s2 : Regs, imm : Word, text : Int]
        /\ i.op = op /\ i.imm = imm
    BY DEF I
  <1> HIDE DEF i
  <1>2. Fits(i)
    BY <1>1 DEF Fits
  <1> QED
    BY <1>1, <1>2 DEF Insn, InsertedInsn, i

\* Most instructions have no immediate.
LEMMA BuiltAny ==
  ASSUME NEW op \in Opcodes, op # "Select_CC",
         NEW dst \in Regs, NEW s1 \in Regs, NEW s2 \in Regs
  PROVE  I(op, dst, s1, s2, 0) \in InsertedInsn
  BY SmallFields, Built

\* The instructions that are neither selects nor branches nor PHIs.
Jumping == Branches \cup {"PHI"}

\* Instructions that only compute.
PlainInsn == {i \in InsertedInsn : i.op \notin Jumping}

\* An instruction without immediate is one that the inserter may leave in a block.
LEMMA BuiltPlain ==
  ASSUME NEW op \in Opcodes \ Jumping, op # "Select_CC",
         NEW dst \in Regs, NEW s1 \in Regs, NEW s2 \in Regs
  PROVE  I(op, dst, s1, s2, 0) \in PlainInsn
  <1>1. I(op, dst, s1, s2, 0).op = op
    BY DEF I
  <1> QED
    BY <1>1, BuiltAny DEF PlainInsn

\* So is one with an immediate that its field holds.
LEMMA BuiltImmediate ==
  ASSUME NEW op \in Opcodes \ Jumping, op # "Select_CC",
         NEW dst \in Regs, NEW s1 \in Regs, NEW s2 \in Regs, NEW imm \in Word,
         op \in UnsignedImm => imm \in Field,
         op \notin UnsignedImm \cup {"MOVi32imm"} /\ AddImmsFit => immSExt16(imm)
  PROVE  I(op, dst, s1, s2, imm) \in PlainInsn
  <1>1. I(op, dst, s1, s2, imm).op = op
    BY DEF I
  <1> QED
    BY <1>1, Built DEF PlainInsn

\* XORi 1 inverts a condition.
LEMMA BuiltInversion ==
  ASSUME NEW dst \in Regs, NEW s1 \in Regs
  PROVE  I("XORi", dst, s1, "zero", 1) \in PlainInsn
  <1>1. 1 \in Word /\ 1 \in Field /\ "zero" \in Regs /\ "XORi" \in Opcodes
    BY SmallFields, FieldFacts DEF Regs, Opcodes, UnsignedImm
  <1> QED
    BY <1>1, BuiltImmediate DEF UnsignedImm, Opcodes, Jumping, Branches

\* Sequences of one or two instructions.
LEMMA ShortCode ==
  ASSUME NEW S, NEW x \in S
  PROVE  <<x>> \in Seq(S) /\ \A y \in S : <<x, y>> \in Seq(S)
  OBVIOUS

\* Code that follows code.
LEMMA ThenCode ==
  ASSUME NEW S, NEW X, NEW Y, X \subseteq Seq(S), Y \subseteq Seq(S)
  PROVE  Then(X, Y) \subseteq Seq(S) /\ EitherOrder(X, Y) \subseteq Seq(S)
  <1>1. \A x \in X, y \in Y : x \o y \in Seq(S) /\ y \o x \in Seq(S)
    <2> TAKE x \in X, y \in Y
    <2> QED
      BY ConcatProperties
  <1>2. ASSUME NEW s \in Then(X, Y) PROVE s \in Seq(S)
    <2>1. \E x \in X, y \in Y : s = x \o y
      BY <1>2 DEF Then
    <2> QED
      BY <1>1, <2>1
  <1>3. ASSUME NEW s \in Then(Y, X) PROVE s \in Seq(S)
    <2>1. \E x \in X, y \in Y : s = y \o x
      BY <1>3 DEF Then
    <2> QED
      BY <1>1, <2>1
  <1> QED
    BY <1>2, <1>3 DEF EitherOrder

\* Code without branches.
Body == Seq(PlainInsn)

\* Code with a branch at its end.
BranchInsn == {i \in InsertedInsn : i.op \in Branches}

\* Code with one branch, at its end.
BranchCode == Then(Body, {<<i>> : i \in BranchInsn})

\* Then(X, Y) joins a sequence of X and one of Y.
LEMMA InThen ==
  \A X, Y, s : s \in Then(X, Y) <=> \E x \in X, y \in Y : s = x \o y
  BY DEF Then


\* The patterns of (i32 imm) give an instruction an immediate that it holds.
LEMMA ConstantCode ==
  ASSUME NEW c \in Word, NEW dst \in Regs
  PROVE  Constant(c, dst) \subseteq Body
  <1>r. "zero" \in Regs
    BY DEF Regs
  <1>w. LO16(c) \in Field /\ HI16(c) \in Field /\ LO16(c) \in Word /\ HI16(c) \in Word
    BY HalfFacts, FieldFacts
  <1>1. immSExt16(c) => I("ADDi", dst, "zero", "zero", c) \in PlainInsn
    BY <1>r, BuiltImmediate DEF UnsignedImm, Opcodes, Jumping, Branches
  <1>2. I("ORi", dst, "zero", "zero", LO16(c)) \in PlainInsn
    BY <1>r, <1>w, BuiltImmediate DEF UnsignedImm, Opcodes, Jumping, Branches
  <1>3. I("MVUi", dst, "zero", "zero", HI16(c)) \in PlainInsn
    BY <1>r, <1>w, BuiltImmediate DEF UnsignedImm, Opcodes, Jumping, Branches
  <1>4. I("MOVi32imm", dst, "zero", "zero", c) \in PlainInsn
    BY <1>r, BuiltImmediate DEF UnsignedImm, Opcodes, Jumping, Branches
  <1>5. SUFFICES ASSUME NEW s \in Constant(c, dst) PROVE s \in Body
    OBVIOUS
  <1>6. \/ immSExt16(c) /\ s = <<I("ADDi", dst, "zero", "zero", c)>>
        \/ s = <<I("ORi", dst, "zero", "zero", LO16(c))>>
        \/ s = <<I("MVUi", dst, "zero", "zero", HI16(c))>>
        \/ s = <<I("MOVi32imm", dst, "zero", "zero", c)>>
    BY <1>5, Zenon DEF Constant, When
  <1> QED
    BY <1>1, <1>2, <1>3, <1>4, <1>6, ShortCode DEF Body

\* ADDiu takes a zero-extended constant: that it fits is what AddImmsFit says.
LEMMA AddImmediateCode ==
  ASSUME NEW c \in AddImms, NEW src \in Regs, NEW dst \in Regs
  PROVE  AddImmediate(src, c, dst) \subseteq Body
  <1>r. "zero" \in Regs /\ "k" \in Regs /\ c \in Word
    BY SelectAssumption DEF Regs
  <1>w. LO16(c) \in Field /\ LO16(c) \in Word
    BY <1>r, HalfFacts, FieldFacts
  <1>1. immSExt16(c) => I("ADDi", dst, src, "zero", c) \in PlainInsn
    BY <1>r, BuiltImmediate DEF UnsignedImm, Opcodes, Jumping, Branches
  <1>2. immZExt16(c) => I("ADDiu", dst, src, "zero", LO16(c)) \in PlainInsn
    <2>1. immZExt16(c) => LO16(c) = c
      BY DEF immZExt16, LO16
    <2>2. immZExt16(c) /\ AddImmsFit => immSExt16(LO16(c))
      BY <2>1 DEF AddImmsFit
    <2> QED
      BY <1>r, <1>w, <2>2, BuiltImmediate DEF UnsignedImm, Opcodes, Jumping, Branches
  <1>3. Then(Constant(c, "k"), {<<I("ADDu", dst, src, "k", 0)>>}) \subseteq Body
    <2>1. I("ADDu", dst, src, "k", 0) \in PlainInsn
      BY <1>r, BuiltPlain DEF Opcodes, Jumping, Branches
    <2>2. {<<I("ADDu", dst, src, "k", 0)>>} \subseteq Body
      BY <2>1, ShortCode DEF Body
    <2> QED
      BY <1>r, <2>2, ConstantCode, ThenCode DEF Body
  <1>5. SUFFICES ASSUME NEW s \in AddImmediate(src, c, dst) PROVE s \in Body
    OBVIOUS
  <1>6. \/ immSExt16(c) /\ s = <<I("ADDi", dst, src, "zero", c)>>
        \/ immZExt16(c) /\ s = <<I("ADDiu", dst, src, "zero", LO16(c))>>
        \/ s \in Then(Constant(c, "k"), {<<I("ADDu", dst, src, "k", 0)>>})
    BY <1>5, Zenon DEF AddImmediate, When
  <1> QED
    BY <1>1, <1>2, <1>3, <1>6, ShortCode DEF Body

\* AND, OR and XOR with a constant.
LEMMA LogicCode ==
  ASSUME NEW op \in {"and", "or", "xor"}, NEW c \in Word, NEW src \in Regs, NEW dst \in Regs
  PROVE  LogicImmediate(op, src, c, dst) \subseteq Body
  <1>r. "zero" \in Regs /\ "k" \in Regs
    BY DEF Regs
  <1>w. LO16(c) \in Field /\ LO16(c) \in Word
    BY HalfFacts, FieldFacts
  <1>o. /\ LogicI[op] \in UnsignedImm \cap (Opcodes \ Jumping) /\ LogicI[op] # "Select_CC"
        /\ LogicR[op] \in Opcodes \ Jumping /\ LogicR[op] # "Select_CC"
    BY DEF LogicI, LogicR, UnsignedImm, Opcodes, Jumping, Branches
  <1>1. <<I(LogicI[op], dst, src, "zero", LO16(c))>> \in Body
    BY <1>r, <1>w, <1>o, BuiltImmediate, ShortCode DEF Body
  <1>2. Then(Constant(c, "k"), {<<I(LogicR[op], dst, src, "k", 0)>>}) \subseteq Body
    <2>1. I(LogicR[op], dst, src, "k", 0) \in PlainInsn
      BY <1>r, <1>o, BuiltPlain
    <2>2. {<<I(LogicR[op], dst, src, "k", 0)>>} \subseteq Body
      BY <2>1, ShortCode DEF Body
    <2> QED
      BY <1>r, <2>2, ConstantCode, ThenCode DEF Body
  <1> QED
    BY <1>1, <1>2 DEF LogicImmediate

\* A load whose offset does not fit adds it first.
LEMMA SelectAddrCode ==
  ASSUME NEW c \in AddImms, NEW src \in Regs, NEW dst \in Regs
  PROVE  SelectAddr(src, c, dst) \subseteq Body
  <1>r. "zero" \in Regs /\ "l" \in Regs /\ c \in Word
    BY SelectAssumption DEF Regs
  <1>1. immSExt16(c) => I("LDW", dst, src, "zero", c) \in PlainInsn
    BY <1>r, BuiltImmediate DEF UnsignedImm, Opcodes, Jumping, Branches
  <1>2. {<<I("LDW", dst, "l", "zero", 0)>>} \subseteq Body
    BY <1>r, BuiltPlain, ShortCode DEF Body, Opcodes, Jumping, Branches
  <1>3. Then(AddImmediate(src, c, "l"), {<<I("LDW", dst, "l", "zero", 0)>>}) \subseteq Body
    BY <1>r, <1>2, AddImmediateCode, ThenCode DEF Body
  <1> QED
    BY <1>1, <1>3, ShortCode DEF SelectAddr, Body

\* The entries of the tables of compares.
Compares == [op : Opcodes \ (Jumping \cup {"Select_CC"}), swap : BOOLEAN, invert : BOOLEAN]

\* A compare, with its inversion.
LEMMA CompareCode ==
  ASSUME NEW c \in Compares, NEW l \in Regs, NEW r \in Regs, NEW dst \in Regs
  PROVE  Compare(c, l, r, dst) \in Body
  <1>1. "k" \in Regs
    BY DEF Regs
  <1>2. \A x, y, d \in Regs : I(c.op, d, x, y, 0) \in PlainInsn
    BY BuiltPlain DEF Compares
  <1>3. I("XORi", dst, "k", "zero", 1) \in PlainInsn
    BY <1>1, BuiltInversion
  <1>4. PICK x \in Regs, y \in Regs :
          Compare(c, l, r, dst) =
            IF c.invert THEN <<I(c.op, "k", x, y, 0), I("XORi", dst, "k", "zero", 1)>>
                        ELSE <<I(c.op, dst, x, y, 0)>>
    BY DEF Compare
  <1> QED
    BY <1>1, <1>2, <1>3, <1>4, ShortCode DEF Body

\* seto and setuo.
LEMMA OrderedCode ==
  ASSUME NEW cc, NEW dst \in Regs
  PROVE  Ordered(cc, dst) \in Body
  <1>r. {"a", "b", "l", "r", "k", "zero"} \subseteq Regs
    BY DEF Regs
  <1>1. /\ I("CEQF", "l", "a", "a", 0) \in PlainInsn /\ I("CEQF", "r", "b", "b", 0) \in PlainInsn
        /\ I("AND", dst, "l", "r", 0) \in PlainInsn /\ I("AND", "k", "l", "r", 0) \in PlainInsn
        /\ I("XORi", dst, "k", "zero", 1) \in PlainInsn
    BY <1>r, BuiltPlain, BuiltInversion DEF Opcodes, Jumping, Branches
  <1>2. /\ <<I("CEQF", "l", "a", "a", 0), I("CEQF", "r", "b", "b", 0)>> \in Seq(PlainInsn)
        /\ <<I("AND", dst, "l", "r", 0)>> \in Seq(PlainInsn)
        /\ <<I("AND", "k", "l", "r", 0), I("XORi", dst, "k", "zero", 1)>> \in Seq(PlainInsn)
    BY <1>1, ShortCode
  <1> QED
    BY <1>2, ConcatProperties DEF Ordered, Body

\* The table of integer compares, condition by condition.
LEMMA IntConditions ==
  /\ DOMAIN IntCompare = {"seteq", "setne", "setlt", "setle", "setgt", "setge",
                          "setult", "setule", "setugt", "setuge"}
  /\ IntCompare.seteq = Cmp("CEQ", FALSE, FALSE)
  /\ IntCompare.setne = Cmp("CEQ", FALSE, TRUE)
  /\ IntCompare.setlt = Cmp("CLT", FALSE, FALSE)
  /\ IntCompare.setle = Cmp("CLE", FALSE, FALSE)
  /\ IntCompare.setgt = Cmp("CLT", TRUE, FALSE)
  /\ IntCompare.setge = Cmp("CLE", TRUE, FALSE)
  /\ IntCompare.setult = Cmp("CLTU", FALSE, FALSE)
  /\ IntCompare.setule = Cmp("CLEU", FALSE, FALSE)
  /\ IntCompare.setugt = Cmp("CLTU", TRUE, FALSE)
  /\ IntCompare.setuge = Cmp("CLEU", TRUE, FALSE)
  BY DEF IntCompare

\* The table of float compares, condition by condition.
LEMMA FPConditions ==
  /\ DOMAIN FPCompare = {"seteq", "setne", "setlt", "setle",
                         "setoeq", "setone", "setolt", "setole", "setogt", "setoge",
                         "setueq", "setune", "setult", "setule", "setugt", "setuge"}
  /\ FPCompare.seteq = Cmp("CEQF", FALSE, FALSE)
  /\ FPCompare.setne = Cmp("CEQF", FALSE, TRUE)
  /\ FPCompare.setlt = Cmp("CLTF", FALSE, FALSE)
  /\ FPCompare.setle = Cmp("CLTEF", FALSE, FALSE)
  /\ FPCompare.setoeq = Cmp("CEQF", FALSE, FALSE)
  /\ FPCompare.setone = Cmp("CEQF", FALSE, TRUE)
  /\ FPCompare.setolt = Cmp("CLTF", FALSE, FALSE)
  /\ FPCompare.setole = Cmp("CLTEF", FALSE, FALSE)
  /\ FPCompare.setogt = Cmp("CLTEF", TRUE, FALSE)
  /\ FPCompare.setoge = Cmp("CLTF", TRUE, FALSE)
  /\ FPCompare.setueq = Cmp("CEQF", FALSE, FALSE)
  /\ FPCompare.setune = Cmp("CEQF", FALSE, TRUE)
  /\ FPCompare.setult = Cmp("CLTF", FALSE, FALSE)
  /\ FPCompare.setule = Cmp("CLTEF", FALSE, FALSE)
  /\ FPCompare.setugt = Cmp("CLTF", TRUE, FALSE)
  /\ FPCompare.setuge = Cmp("CLTEF", TRUE, FALSE)
  BY DEF FPCompare

\* Both tables name compares.
LEMMA Tables ==
  /\ \A cc \in DOMAIN IntCompare : IntCompare[cc] \in Compares
  /\ \A cc \in DOMAIN FPCompare : FPCompare[cc] \in Compares
  <1>1. \A op \in {"CEQ", "CLT", "CLE", "CLTU", "CLEU", "CEQF", "CLTF", "CLTEF"} :
          op \in Opcodes \ (Jumping \cup {"Select_CC"})
    BY DEF Opcodes, Jumping, Branches
  <1>2. \A op \in Opcodes \ (Jumping \cup {"Select_CC"}) :
          /\ Cmp(op, FALSE, FALSE) \in Compares /\ Cmp(op, FALSE, TRUE) \in Compares
          /\ Cmp(op, TRUE, FALSE) \in Compares
    BY DEF Cmp, Compares
  <1>3. ASSUME NEW cc \in DOMAIN IntCompare
        PROVE  IntCompare[cc] \in Compares
    BY <1>1, <1>2, IntConditions
  <1>4. ASSUME NEW cc \in DOMAIN FPCompare
        PROVE  FPCompare[cc] \in Compares
    BY <1>1, <1>2, FPConditions, ZenonT(40)
  <1> QED
    BY <1>3, <1>4

\* What the kinds of nodes have.
LEMMA NodeFacts ==
  ASSUME NEW n \in Nodes
  PROVE  /\ n.kind \in {"const", "add", "and", "or", "xor", "not", "load", "setcc", "select", "brcond"}
         /\ n.kind \in {"const", "and", "or", "xor"} => n.rhs \in Word
         /\ n.kind = "add" => n.rhs \in AddImms
         /\ n.kind = "load" => n.off \in AddImms
         /\ n.kind \in {"setcc", "select", "brcond"} =>
              n.off \in AddImms \cup {NoImm} /\ n.rhs \in Word \cup {NoImm}
         /\ n.kind \in {"setcc", "select", "brcond"} => n.fp \in BOOLEAN
         /\ n.kind \in {"setcc", "select", "brcond"} /\ n.fp => n.off = NoImm /\ n.rhs = NoImm
         /\ n.kind \in {"setcc", "select"} /\ n.fp => n.cc \in FPSetCCs
         /\ n.kind = "brcond" /\ n.fp => n.cc \in FPBrConds
         /\ n.kind \in {"setcc", "select", "brcond"} /\ ~n.fp => n.cc \in DOMAIN IntCompare
  <1> DEFINE C == DOMAIN IntCompare
             O == AddImms \cup {NoImm}
  <1>w. Consts \subseteq Word
    BY SelectAssumption
  <1>c. C = DOMAIN IntCompare
    OBVIOUS
  <1>o. O = AddImms \cup {NoImm}
    OBVIOUS
  <1> HIDE DEF C, O
  <1> DEFINE
    S1 == {N(k, FALSE, cc, off, NoImm) : k \in {"setcc", "select", "brcond"}, cc \in C, off \in O}
    S2 == {N(k, FALSE, cc, off, c) : k \in {"setcc", "select"}, c \in Consts, off \in O,
             cc \in C \ {"setge", "setle", "setuge", "setule"}}
    S3 == {N("brcond", FALSE, cc, off, c) : c \in Consts, cc \in C, off \in O}
    S4 == {N(k, TRUE, cc, NoImm, NoImm) : k \in {"setcc", "select"}, cc \in FPSetCCs}
    S5 == {N("brcond", TRUE, cc, NoImm, NoImm) : cc \in FPBrConds}
    S6 == {N("const", FALSE, "none", NoImm, c) : c \in Word}
    S7 == {N(op, FALSE, "none", NoImm, c) : op \in {"and", "or", "xor"}, c \in Word}
    S8 == {N("add", FALSE, "none", NoImm, c) : c \in AddImms}
    S9 == {N("load", FALSE, "none", c, NoImm) : c \in AddImms}
  <1>1. n \in S1 => /\ n.kind \in {"setcc", "select", "brcond"} /\ n.fp = FALSE
                    /\ n.cc \in C /\ n.off \in O /\ n.rhs = NoImm
    BY DEF N
  <1>2. n \in S2 => /\ n.kind \in {"setcc", "select"} /\ n.fp = FALSE
                    /\ n.cc \in C /\ n.off \in O /\ n.rhs \in Consts
    BY DEF N
  <1>3. n \in S3 => /\ n.kind = "brcond" /\ n.fp = FALSE
                    /\ n.cc \in C /\ n.off \in O /\ n.rhs \in Consts
    BY DEF N
  <1>4. n \in S4 => /\ n.kind \in {"setcc", "select"} /\ n.fp = TRUE
                    /\ n.cc \in FPSetCCs /\ n.off = NoImm /\ n.rhs = NoImm
    BY DEF N
  <1>5. n \in S5 => /\ n.kind = "brcond" /\ n.fp = TRUE
                    /\ n.cc \in FPBrConds /\ n.off = NoImm /\ n.rhs = NoImm
    BY DEF N
  <1>6. n \in S6 => n.kind = "const" /\ n.rhs \in Word
    BY DEF N
  <1>7. n \in S7 => n.kind \in {"and", "or", "xor"} /\ n.rhs \in Word
    BY DEF N
  <1>8. n \in S8 => n.kind = "add" /\ n.rhs \in AddImms
    BY DEF N
  <1>9. n \in S9 => n.kind = "load" /\ n.off \in AddImms
    BY DEF N
  <1>10. n = N("not", FALSE, "none", NoImm, NoImm) => n.kind = "not"
    BY DEF N
  <1>11. Comparisons = S1 \cup S2 \cup S3 \cup S4 \cup S5
    BY DEF Comparisons, C, O
  <1>12. Nodes = Comparisons \cup S6 \cup S7 \cup S8 \cup S9
                   \cup {N("not", FALSE, "none", NoImm, NoImm)}
    BY DEF Nodes
  <1> HIDE DEF S1, S2, S3, S4, S5, S6, S7, S8, S9
  <1>13. CASE n \in Comparisons
    BY <1>13, <1>11, <1>1, <1>2, <1>3, <1>4, <1>5, <1>w, <1>c, <1>o
  <1>14. CASE n \notin Comparisons
    BY <1>14, <1>12, <1>6, <1>7, <1>8, <1>9, <1>10
  <1> QED
    BY <1>13, <1>14

\* The code of the operands of a comparison, and the registers they are in.
LEMMA OperandFacts ==
  ASSUME NEW n \in Nodes, n.kind \in {"setcc", "select", "brcond"}
  PROVE  /\ LhsCode(n) \subseteq Body /\ OperandCode(n) \subseteq Body
         /\ Lhs(n) \in Regs /\ Rhs(n) \in Regs
  <1>1. {"a", "b", "l", "r"} \subseteq Regs
    BY DEF Regs
  <1>2. {<<>>} \subseteq Body
    BY DEF Body
  <1>3. LhsCode(n) \subseteq Body
    BY <1>1, <1>2, NodeFacts, AddImmediateCode DEF LhsCode
  <1>4. RhsCode(n) \subseteq Body
    BY <1>1, <1>2, NodeFacts, ConstantCode DEF RhsCode
  <1>5. OperandCode(n) \subseteq Body
    BY <1>3, <1>4, ThenCode DEF OperandCode, Body
  <1> QED
    BY <1>1, <1>3, <1>5 DEF Lhs, Rhs

\* The value of a comparison.
LEMMA SetCCCode ==
  ASSUME NEW n \in Nodes, n.kind \in {"setcc", "select"}, NEW dst \in Regs
  PROVE  SetCC(n, dst) \subseteq Body
  <1>1. CASE n.cc \in {"seto", "setuo"}
    BY <1>1, OrderedCode DEF SetCC
  <1>2. CASE n.cc \notin {"seto", "setuo"}
    <2> DEFINE c == IF n.fp THEN FPCompare[n.cc] ELSE IntCompare[n.cc]
    <2>1. c \in Compares
      BY <1>2, NodeFacts, Tables, ConditionAssumption
    <2> HIDE DEF c
    <2>3. {Compare(c, Lhs(n), Rhs(n), dst)} \subseteq Body
      BY <2>1, OperandFacts, CompareCode
    <2>4. SetCC(n, dst) = Then(OperandCode(n), {Compare(c, Lhs(n), Rhs(n), dst)})
      BY <1>2 DEF SetCC, c
    <2> QED
      BY <2>3, <2>4, OperandFacts, ThenCode DEF Body
  <1> QED
    BY <1>1, <1>2

\* Code that follows safe code.
LEMMA ThenBody ==
  \A X, Y : X \subseteq Body /\ Y \subseteq Body => Then(X, Y) \subseteq Body
  BY ThenCode DEF Body

\* A branch at the end of code.
LEMMA BuiltBranch ==
  ASSUME NEW op \in Branches, NEW s1 \in Regs, NEW s2 \in Regs
  PROVE  I(op, "zero", s1, s2, 0) \in BranchInsn
  <1>1. op \in Opcodes /\ op # "Select_CC" /\ "zero" \in Regs
    BY DEF Branches, Opcodes, Regs
  <1>2. I(op, "zero", s1, s2, 0).op = op
    BY DEF I
  <1> QED
    BY <1>1, <1>2, BuiltAny DEF BranchInsn

\* Code that ends with a branch is a body and that branch.
LEMMA InBranchCode ==
  \A s : s \in BranchCode <=> \E x \in Body, i \in BranchInsn : s = x \o <<i>>
  <1> DEFINE Y == {<<i>> : i \in BranchInsn}
  <1>1. \A y : y \in Y <=> \E i \in BranchInsn : y = <<i>>
    OBVIOUS
  <1>2. BranchCode = Then(Body, Y)
    BY DEF BranchCode
  <1> HIDE DEF Y
  <1>3. \A s : s \in BranchCode <=> \E x \in Body, y \in Y : s = x \o y
    BY <1>2, InThen
  <1>4. \A i \in BranchInsn : <<i>> \in Y
    BY <1>1, Zenon
  <1>5. ASSUME NEW s \in BranchCode PROVE \E x \in Body, i \in BranchInsn : s = x \o <<i>>
    <2>1. PICK x \in Body, y \in Y : s = x \o y
      BY <1>3
    <2>2. PICK i \in BranchInsn : y = <<i>>
      BY <1>1
    <2>3. s = x \o <<i>>
      BY <2>1, <2>2
    <2> QED
      BY <2>3
  <1>6. ASSUME NEW x \in Body, NEW i \in BranchInsn PROVE x \o <<i>> \in BranchCode
    BY <1>3, <1>4
  <1> QED
    BY <1>5, <1>6

\* A branch behind bodies makes branch code.
LEMMA ThenBranch ==
  ASSUME NEW X, X \subseteq Body, NEW i \in BranchInsn
  PROVE  Then(X, {<<i>>}) \subseteq BranchCode
  <1>1. SUFFICES ASSUME NEW s \in Then(X, {<<i>>}) PROVE s \in BranchCode
    OBVIOUS
  <1>2. \E x \in X, y \in {<<i>>} : s = x \o y
    BY <1>1, InThen
  <1>3. PICK x \in X, y \in {<<i>>} : s = x \o y
    BY <1>2
  <1>4. x \in Body /\ y = <<i>>
    OBVIOUS
  <1> QED
    BY <1>3, <1>4, InBranchCode

\* So does a compare with its branch.
LEMMA ThenCompareBranch ==
  ASSUME NEW X, X \subseteq Body, NEW y \in Body, NEW i \in BranchInsn
  PROVE  Then(X, {y \o <<i>>}) \subseteq BranchCode
  <1>1. SUFFICES ASSUME NEW s \in Then(X, {y \o <<i>>}) PROVE s \in BranchCode
    OBVIOUS
  <1>2. PICK x \in X : s = x \o (y \o <<i>>)
    BY <1>1, SMTT(30) DEF Then
  <1>3. x \in Seq(PlainInsn \cup BranchInsn) /\ y \in Seq(PlainInsn \cup BranchInsn)
        /\ <<i>> \in Seq(PlainInsn \cup BranchInsn)
    BY DEF Body
  <1>4. s = (x \o y) \o <<i>>
    <2>1. \A p, q, r \in Seq(PlainInsn \cup BranchInsn) : p \o (q \o r) = (p \o q) \o r
      BY ConcatAssociative, SMTT(30)
    <2> QED
      BY <1>2, <1>3, <2>1
  <1>5. x \o y \in Body
    BY ConcatProperties DEF Body
  <1> QED
    BY <1>4, <1>5, InBranchCode, Zenon

\* Branches on integers.
LEMMA IntBranchCode ==
  ASSUME NEW n \in Nodes, n.kind = "brcond", ~n.fp
  PROVE  IntBranch(n) \subseteq BranchCode
  <1>r. "zero" \in Regs /\ "c" \in Regs /\ Lhs(n) \in Regs /\ Rhs(n) \in Regs
    BY OperandFacts DEF Regs
  <1>p. LhsCode(n) \subseteq Body /\ OperandCode(n) \subseteq Body
    BY OperandFacts
  <1>1. CASE ZeroBranch(n.cc, n.rhs) # "none"
    <2>1. ZeroBranch(n.cc, n.rhs) \in Branches
      BY <1>1 DEF ZeroBranch, Branches
    <2>2. I(ZeroBranch(n.cc, n.rhs), "zero", Lhs(n), "zero", 0) \in BranchInsn
      BY <1>r, <2>1, BuiltBranch
    <2>3. IntBranch(n) = Then(LhsCode(n), {<<I(ZeroBranch(n.cc, n.rhs), "zero", Lhs(n), "zero", 0)>>})
      BY <1>1 DEF IntBranch
    <2> QED
      BY <2>2, <2>3, <1>p, ThenBranch
  <1>2. CASE ZeroBranch(n.cc, n.rhs) = "none" /\ n.cc \in {"seteq", "setne"}
    <2> DEFINE b == I(IF n.cc = "seteq" THEN "BEQ" ELSE "BNE", "zero", Lhs(n), Rhs(n), 0)
    <2>1. b \in BranchInsn
      BY <1>r, BuiltBranch DEF Branches
    <2>2. IntBranch(n) = Then(OperandCode(n), {<<b>>})
      BY <1>2 DEF IntBranch
    <2> HIDE DEF b
    <2> QED
      BY <2>1, <2>2, <1>p, ThenBranch
  <1>3. CASE ZeroBranch(n.cc, n.rhs) = "none" /\ n.cc \notin {"seteq", "setne"}
    <2> DEFINE x == Compare(IntCompare[n.cc], Lhs(n), Rhs(n), "c")
               y == I("BNZ", "zero", "c", "zero", 0)
    <2>1. IntCompare[n.cc] \in Compares
      BY NodeFacts, Tables
    <2>3. x \in Body
      BY <1>r, <2>1, CompareCode
    <2>4. y \in BranchInsn
      BY <1>r, BuiltBranch DEF Branches
    <2>5. IntBranch(n) = Then(OperandCode(n), {x \o <<y>>})
      BY <1>3 DEF IntBranch
    <2> HIDE DEF x, y
    <2> QED
      BY <2>3, <2>4, <2>5, <1>p, ThenCompareBranch
  <1> QED
    BY <1>1, <1>2, <1>3

\* Branches on floats.
LEMMA FPBranchCode ==
  ASSUME NEW cc
  PROVE  FPBranch(cc) \subseteq BranchCode
  <1>r. {"zero", "a", "b", "c"} \subseteq Regs
    BY DEF Regs
  <1>1. \A op \in {"BNE", "BE", "BNZ"} : I(op, "zero", "c", "zero", 0) \in BranchInsn
    BY <1>r, BuiltBranch DEF Branches
  <1>2. \A op \in {"CEQF", "CLTF", "CLTEF"}, swap \in BOOLEAN :
          Compare(Cmp(op, swap, FALSE), "a", "b", "c") \in Body
    BY <1>r, CompareCode DEF Opcodes, Compares, Cmp, Jumping, Branches
  <1>3. Ordered(cc, "c") \in Body
    BY <1>r, OrderedCode
  <1>4. \A s \in Body, i \in BranchInsn : {s \o <<i>>} \subseteq BranchCode
    BY InBranchCode
  <1> DEFINE op == CASE cc \in {"seteq", "setne", "setoeq", "setone", "setueq", "setune"} -> "CEQF"
                     [] cc \in {"setlt", "setgt", "setolt", "setogt", "setult", "setugt"} -> "CLTF"
                     [] OTHER -> "CLTEF"
             swap == cc \in {"setgt", "setge", "setogt", "setoge", "setugt", "setuge"}
             br == IF cc \in {"setne", "setone", "setune"} THEN "BE" ELSE "BNZ"
             x == Compare(Cmp(op, swap, FALSE), "a", "b", "c")
             y == I(br, "zero", "c", "zero", 0)
  <1>5. op \in {"CEQF", "CLTF", "CLTEF"} /\ swap \in BOOLEAN /\ br \in {"BE", "BNZ"}
    OBVIOUS
  <1>6. x \in Body /\ y \in BranchInsn
    <2> HIDE DEF op, swap, br
    <2> QED
      BY <1>1, <1>2, <1>5
  <1>7. CASE cc \in {"seto", "setuo"}
    <2>1. FPBranch(cc) = {Ordered(cc, "c") \o <<I("BNE", "zero", "c", "zero", 0)>>}
      BY <1>7 DEF FPBranch
    <2> QED
      BY <1>1, <1>3, <1>4, <2>1
  <1>8. CASE cc \notin {"seto", "setuo"}
    <2>1. FPBranch(cc) = {x \o <<y>>}
      BY <1>8 DEF FPBranch
    <2> HIDE DEF x, y
    <2> QED
      BY <1>4, <1>6, <2>1
  <1> QED
    BY <1>7, <1>8

\* The pseudo instruction of a select comes once, before the use of its value.
LEMMA SelectCCCode ==
  ASSUME NEW n \in Nodes, n.kind = "select", NEW s \in Then(SelectCC(n), {Use})
  PROVE  s \in Seq(Insn) /\ OneSelect(s) /\ Straight(s, 1, Len(s))
  <1> DEFINE sel == I("Select_CC", "dst", "t", "f", 0)
             use == I("ADDu", "out", "dst", "zero", 0)
  <1>r. {"dst", "t", "f", "c", "out", "zero"} \subseteq Regs
    BY DEF Regs
  <1>1. sel \in Insn /\ sel.op = "Select_CC"
    <2>1. /\ sel \in [op : Opcodes, dst : Regs, s1 : Regs, s2 : Regs, imm : Word, text : Int]
          /\ sel.op = "Select_CC" /\ sel.imm = 0
      BY <1>r, SmallFields DEF I, Opcodes
    <2> HIDE DEF sel
    <2>2. Fits(sel)
      BY <2>1, SmallFields DEF Fits, UnsignedImm
    <2> QED
      BY <2>1, <2>2 DEF Insn
  <1>2. use \in PlainInsn
    BY <1>r, BuiltPlain DEF Opcodes, Jumping, Branches
  <1>u. Use = <<use>>
    BY DEF Use
  <1>s. SelectCC(n) = Then(SetCC(n, "c"), {<<sel>>})
    BY DEF SelectCC
  <1> HIDE DEF sel, use
  <1>3. PICK y \in SelectCC(n) : s = y \o <<use>>
    BY <1>u DEF Then
  <1>y. y \in Then(SetCC(n, "c"), {<<sel>>})
    BY <1>s, <1>3
  <1>4. PICK x \in SetCC(n, "c") : y = x \o <<sel>>
    BY <1>y DEF Then
  <1>5. x \in Seq(PlainInsn)
    BY <1>r, SetCCCode DEF Body
  <1>6. PlainInsn \subseteq Insn /\ \A i \in PlainInsn : i.op # "Select_CC" /\ i.op \notin Jumping
    BY DEF PlainInsn, InsertedInsn
  <1>7. x \in Seq(Insn) /\ <<sel>> \in Seq(Insn) /\ <<use>> \in Seq(Insn)
    BY <1>1, <1>2, <1>5, <1>6
  <1>8. /\ y \in Seq(Insn) /\ Len(y) = Len(x) + 1
        /\ \A i \in 1..Len(y) : y[i] = IF i <= Len(x) THEN x[i] ELSE sel
    BY <1>4, <1>7, ConcatProperties
  <1>9. /\ s \in Seq(Insn) /\ Len(s) = Len(y) + 1
        /\ \A i \in 1..Len(s) : s[i] = IF i <= Len(y) THEN y[i] ELSE use
    BY <1>3, <1>7, <1>8, ConcatProperties
  <1>10. ASSUME NEW p \in 1..Len(s), s[p].op = "Select_CC" PROVE p = Len(x) + 1
    <2>1. p <= Len(x) => s[p] = x[p] /\ x[p] \in PlainInsn
      BY <1>5, <1>8, <1>9
    <2>2. p = Len(x) + 2 => s[p] = use
      BY <1>5, <1>8, <1>9
    <2>3. p <= Len(x) \/ p = Len(x) + 1 \/ p = Len(x) + 2
      BY <1>5, <1>8, <1>9
    <2> QED
      BY <1>2, <1>6, <1>10, <2>1, <2>2, <2>3
  <1>11. DOMAIN s = 1..Len(s)
    BY <1>9
  <1>12. ASSUME NEW p \in 1..Len(s) PROVE s[p].op \notin Branches \cup {"PHI"}
    <2>1. p <= Len(x) => s[p] = x[p] /\ x[p] \in PlainInsn
      BY <1>5, <1>8, <1>9
    <2>2. p = Len(x) + 1 => s[p] = sel
      BY <1>5, <1>8, <1>9
    <2>3. p = Len(x) + 2 => s[p] = use
      BY <1>5, <1>8, <1>9
    <2>4. p <= Len(x) \/ p = Len(x) + 1 \/ p = Len(x) + 2
      BY <1>5, <1>8, <1>9
    <2>5. sel.op \notin Branches \cup {"PHI"}
      BY <1>1 DEF Branches
    <2> QED
      BY <1>2, <1>6, <2>1, <2>2, <2>3, <2>4, <2>5 DEF Jumping
  <1> QED
    BY <1>9, <1>10, <1>11, <1>12 DEF OneSelect, Straight

\* Code without jumps, and code with a branch at its end.
LEMMA BodyCode ==
  ASSUME NEW s \in Body
  PROVE  /\ s \in Seq(Insn) /\ OneSelect(s) /\ Straight(s, 1, Len(s))
         /\ \A p \in DOMAIN s : s[p].op # "Select_CC"
  <1>1. \A i \in PlainInsn : i \in Insn /\ i.op # "Select_CC" /\ i.op \notin Branches \cup {"PHI"}
    BY DEF PlainInsn, InsertedInsn, Jumping
  <1>2. s \in Seq(Insn) /\ DOMAIN s = 1..Len(s) /\ \A p \in 1..Len(s) : s[p] \in PlainInsn
    BY <1>1 DEF Body
  <1> QED
    BY <1>1, <1>2 DEF OneSelect, Straight

\* Branch code branches at its end only and holds no select.
LEMMA BranchCodeFacts ==
  ASSUME NEW s \in BranchCode
  PROVE  /\ s \in Seq(Insn) /\ OneSelect(s) /\ Branching(s)
         /\ \A p \in DOMAIN s : s[p].op # "Select_CC"
  <1>1. PICK x \in Body, i \in BranchInsn : s = x \o <<i>>
    BY InBranchCode, Zenon
  <1>2. x \in Seq(Insn) /\ Straight(x, 1, Len(x)) /\ \A p \in DOMAIN x : x[p].op # "Select_CC"
    BY BodyCode
  <1>3. i \in Insn /\ i.op \in Branches /\ i.op # "Select_CC"
    BY DEF BranchInsn, InsertedInsn
  <1>4. /\ s \in Seq(Insn) /\ Len(s) = Len(x) + 1 /\ Len(x) \in Nat
        /\ \A p \in 1..Len(s) : s[p] = IF p <= Len(x) THEN x[p] ELSE i
    <2>1. <<i>> \in Seq(Insn) /\ Len(<<i>>) = 1 /\ <<i>>[1] = i
      BY <1>3
    <2> QED
      BY <1>1, <1>2, <2>1, ConcatProperties
  <1>5. \A p \in 1..Len(s) : s[p].op # "Select_CC"
    BY <1>2, <1>3, <1>4
  <1>6. DOMAIN s = 1..Len(s)
    BY <1>4
  <1>7. s # <<>> /\ s[Len(s)] = i /\ Len(s) - 1 = Len(x)
    BY <1>4
  <1>8. Straight(s, 1, Len(s) - 1)
    BY <1>2, <1>4, <1>7 DEF Straight
  <1> QED
    BY <1>3, <1>4, <1>5, <1>6, <1>7, <1>8 DEF OneSelect, Branching

\* Every selected sequence has at most one select, fields that fit, and a branch
\* at its end if it is that of a branch.
LEMMA SelectedCode ==
  ASSUME NEW n \in Nodes, NEW s \in SelectCode(n)
  PROVE  /\ s \in Seq(Insn) /\ OneSelect(s)
         /\ IF n.kind = "brcond" THEN Branching(s) ELSE Straight(s, 1, Len(s))
         /\ n.kind # "select" => \A p \in DOMAIN s : s[p].op # "Select_CC"
  <1>r. {"dst", "a", "zero", "out"} \subseteq Regs
    BY DEF Regs
  <1>u. {Use} \subseteq Body
    BY <1>r, BuiltPlain, ShortCode DEF Use, Body, Opcodes, Jumping, Branches
  <1>n. {<<I("NOR", "dst", "a", "zero", 0)>>} \subseteq Body
    BY <1>r, BuiltPlain, ShortCode DEF Body, Opcodes, Jumping, Branches
  <1>1. ASSUME s \in Body
        PROVE  /\ s \in Seq(Insn) /\ OneSelect(s) /\ Straight(s, 1, Len(s))
               /\ \A p \in DOMAIN s : s[p].op # "Select_CC"
    BY <1>1, BodyCode
  <1>2. CASE n.kind = "const"
    <2>1. Constant(n.rhs, "dst") \subseteq Body
      BY <1>2, <1>r, NodeFacts, ConstantCode
    <2> QED
      BY <1>1, <1>2, <1>u, <2>1, ThenBody DEF SelectCode
  <1>3. CASE n.kind = "add"
    <2>1. AddImmediate("a", n.rhs, "dst") \subseteq Body
      BY <1>3, <1>r, NodeFacts, AddImmediateCode
    <2> QED
      BY <1>1, <1>3, <1>u, <2>1, ThenBody DEF SelectCode
  <1>4. CASE n.kind \in {"and", "or", "xor"}
    <2>1. LogicImmediate(n.kind, "a", n.rhs, "dst") \subseteq Body
      BY <1>4, <1>r, NodeFacts, LogicCode
    <2>2. SelectCode(n) = Then(LogicImmediate(n.kind, "a", n.rhs, "dst"), {Use})
      BY <1>4 DEF SelectCode
    <2>3. SelectCode(n) \subseteq Body
      BY <1>u, <2>1, <2>2, ThenBody, Zenon
    <2>4. n.kind # "brcond"
      BY <1>4
    <2> QED
      BY <1>1, <2>3, <2>4
  <1>5. CASE n.kind = "not"
    BY <1>1, <1>5, <1>u, <1>n, ThenBody DEF SelectCode
  <1>6. CASE n.kind = "load"
    <2>1. SelectAddr("a", n.off, "dst") \subseteq Body
      BY <1>6, <1>r, NodeFacts, SelectAddrCode
    <2> QED
      BY <1>1, <1>6, <1>u, <2>1, ThenBody DEF SelectCode
  <1>7. CASE n.kind = "setcc"
    <2>1. SetCC(n, "dst") \subseteq Body
      BY <1>7, <1>r, SetCCCode
    <2> QED
      BY <1>1, <1>7, <1>u, <2>1, ThenBody DEF SelectCode
  <1>8. CASE n.kind = "select"
    <2>1. SelectCode(n) = Then(SelectCC(n), {Use})
      BY <1>8 DEF SelectCode
    <2> QED
      BY <1>8, <2>1, SelectCCCode
  <1>9. CASE n.kind = "brcond"
    <2>1. SelectCode(n) = IF n.fp THEN FPBranch(n.cc) ELSE IntBranch(n)
      BY <1>9 DEF SelectCode
    <2>2. n.fp => SelectCode(n) \subseteq BranchCode
      BY <2>1, FPBranchCode
    <2>3. ~n.fp => SelectCode(n) \subseteq BranchCode
      BY <1>9, <2>1, IntBranchCode
    <2> QED
      BY <1>9, <2>2, <2>3, BranchCodeFacts
  <1> QED
    BY <1>2, <1>3, <1>4, <1>5, <1>6, <1>7, <1>8, <1>9, NodeFacts

---------------------------------------------------------------------------
(* The passes.                                                             *)

\* A part of a sequence.
LEMMA Part ==
  ASSUME NEW S, NEW s \in Seq(S), NEW m \in 1..(Len(s) + 1), NEW n \in 0..Len(s)
  PROVE  /\ SubSeq(s, m, n) \in Seq(S)
         /\ Len(SubSeq(s, m, n)) = IF m <= n THEN n - m + 1 ELSE 0
         /\ \A i \in 1..(n - m + 1) : SubSeq(s, m, n)[i] = s[m + i - 1]
  <1>1. \A i \in m..n : s[i] \in S
    OBVIOUS
  <1> QED
    BY <1>1, SubSeqProperties

\* The only element is the smallest one.
LEMMA MinOfOne ==
  ASSUME NEW p \in Int
  PROVE  Min({p}) = p
  BY DEF Min

\* The first of three elements.
LEMMA FirstOf ==
  ASSUME NEW S, NEW s \in Seq(S), Len(s) = 3
  PROVE  1 \in DOMAIN s /\ s[1] \in S
  OBVIOUS

\* The custom inserter leaves no select: the diamond stands for the only one.
LEMMA DiamondCode ==
  ASSUME NEW s \in Seq(Insn), NEW p \in 1..Len(s), s[p].op = "Select_CC", OneSelect(s)
  PROVE  /\ Diamond(s, p) \in Seq(BlockOf(InsertedInsn))
         /\ Len(Diamond(s, p)) = 3 /\ Len(Diamond(s, p)[1].insns) >= 0
  <1> DEFINE x == SubSeq(s, 1, p - 1)
             y == SubSeq(s, p + 1, Len(s))
             b == I("BNZ", "zero", "c", "zero", 0)
             f == I("PHI", s[p].dst, s[p].s2, s[p].s1, 0)
  <1>1. \A q \in 1..Len(s) : q # p => s[q] \in InsertedInsn
    BY DEF OneSelect, InsertedInsn
  <1>2. x \in Seq(InsertedInsn)
    <2>1. \A q \in 1..(p - 1) : s[q] \in InsertedInsn
      BY <1>1
    <2> QED
      BY <2>1, SubSeqProperties
  <1>3. y \in Seq(InsertedInsn)
    <2>1. \A q \in (p + 1)..Len(s) : s[q] \in InsertedInsn
      BY <1>1
    <2> QED
      BY <2>1, SubSeqProperties
  <1>4. b \in InsertedInsn
    <2>1. "zero" \in Regs /\ "c" \in Regs /\ "BNZ" \in Opcodes
      BY DEF Regs, Opcodes, Branches
    <2> QED
      BY <2>1, BuiltAny
  <1>5. f \in InsertedInsn
    <2>1. s[p].dst \in Regs /\ s[p].s1 \in Regs /\ s[p].s2 \in Regs /\ "PHI" \in Opcodes
      BY DEF Insn, Opcodes
    <2> QED
      BY <2>1, BuiltAny
  <1>6. Diamond(s, p) = <<Block("thisMBB", x \o <<b>>), Block("copy0MBB", <<>>),
                          Block("sinkMBB", <<f>> \o y)>>
    BY DEF Diamond
  <1> HIDE DEF x, y, b, f
  <1>7. x \o <<b>> \in Seq(InsertedInsn) /\ <<f>> \o y \in Seq(InsertedInsn)
    BY <1>2, <1>3, <1>4, <1>5, ShortCode, ConcatProperties
  <1>8. \A c \in Seq(InsertedInsn) : \A k \in {"thisMBB", "copy0MBB", "sinkMBB"} :
          Block(k, c) \in BlockOf(InsertedInsn)
    BY DEF Block, BlockOf
  <1>9. <<>> \in Seq(InsertedInsn)
    OBVIOUS
  <1>10. /\ Block("thisMBB", x \o <<b>>) \in BlockOf(InsertedInsn)
         /\ Block("copy0MBB", <<>>) \in BlockOf(InsertedInsn)
         /\ Block("sinkMBB", <<f>> \o y) \in BlockOf(InsertedInsn)
    BY <1>7, <1>8, <1>9
  <1>11. /\ Diamond(s, p) \in Seq(BlockOf(InsertedInsn)) /\ Len(Diamond(s, p)) = 3
         /\ Diamond(s, p)[1] = Block("thisMBB", x \o <<b>>)
    BY <1>6, <1>10
  <1>12. Diamond(s, p)[1].insns = x \o <<b>>
    BY <1>11 DEF Block
  <1> QED
    BY <1>7, <1>11, <1>12

\* Code as the inserter leaves it.
Safe == Seq(InsertedInsn)

\* ExpandMBB: the iterator goes past what it has inserted and no further, and
\* what is behind it is free of MOVi32imm.
LEMMA ExpandCode ==
  ASSUME NEW s \in Safe, NEW i \in 1..Len(s),
         \A p \in 1..Len(s) : p < i => s[p].op # "MOVi32imm"
  PROVE  LET e == ExpandAt(s, i)
         IN  /\ e[1] \in Safe /\ e[2] \in {1, 2} /\ i + e[2] <= Len(e[1]) + 1
             /\ \A p \in 1..Len(e[1]) : p < i + e[2] => e[1][p].op # "MOVi32imm"
  <1>0. s[i] \in InsertedInsn
    BY DEF Safe
  <1>1. CASE s[i].op # "MOVi32imm"
    <2>1. ExpandAt(s, i)[1] = s /\ ExpandAt(s, i)[2] = 1
      BY <1>1 DEF ExpandAt
    <2>2. \A p \in 1..Len(s) : p < i + 1 => p < i \/ p = i
      BY DEF Safe
    <2> QED
      BY <1>1, <2>1, <2>2 DEF Safe
  <1>2. CASE s[i].op = "MOVi32imm"
    <2> DEFINE x == SubSeq(s, 1, i - 1)
               y == SubSeq(s, i + 1, Len(s))
               u == I("MVUi", s[i].dst, "zero", "zero", HI16(s[i].imm))
               v == I("ORi", s[i].dst, s[i].dst, "zero", LO16(s[i].imm))
               m == <<u, v>>
               z == (x \o m) \o y
    <2>1. ExpandAt(s, i)[1] = z /\ ExpandAt(s, i)[2] = 2
      BY <1>2 DEF ExpandAt, MoveHalves
    <2>2. /\ u \in InsertedInsn /\ u.op # "MOVi32imm"
          /\ v \in InsertedInsn /\ v.op # "MOVi32imm"
      <3>1. s[i].dst \in Regs /\ s[i].imm \in Word /\ "zero" \in Regs
        BY <1>0 DEF InsertedInsn, Insn, Regs
      <3>2. /\ LO16(s[i].imm) \in Field /\ HI16(s[i].imm) \in Field
            /\ LO16(s[i].imm) \in Word /\ HI16(s[i].imm) \in Word
        BY <3>1, HalfFacts, FieldFacts
      <3>3. u \in InsertedInsn /\ v \in InsertedInsn
        BY <3>1, <3>2, Built DEF UnsignedImm, Opcodes
      <3>4. u.op = "MVUi" /\ v.op = "ORi"
        BY DEF I
      <3> QED
        BY <3>3, <3>4
    <2>3. /\ x \in Seq(InsertedInsn) /\ Len(x) = i - 1
          /\ \A p \in 1..(i - 1) : x[p] = s[p]
      <3>1. /\ x \in Seq(InsertedInsn) /\ Len(x) = IF 1 <= i - 1 THEN (i - 1) - 1 + 1 ELSE 0
            /\ \A p \in 1..((i - 1) - 1 + 1) : x[p] = s[1 + p - 1]
        BY Part DEF Safe
      <3> QED
        BY <3>1 DEF Safe
    <2>4. y \in Seq(InsertedInsn)
      BY Part DEF Safe
    <2> HIDE DEF u, v, x, y
    <2>5. m \in Seq(InsertedInsn) /\ Len(m) = 2 /\ m[1] = u /\ m[2] = v
      BY <2>2
    <2> HIDE DEF m
    <2>6. /\ x \o m \in Seq(InsertedInsn) /\ Len(x \o m) = (i - 1) + 2
          /\ \A p \in 1..((i - 1) + 2) : (x \o m)[p] = IF p <= i - 1 THEN x[p] ELSE m[p - (i - 1)]
      <3>1. /\ x \o m \in Seq(InsertedInsn) /\ Len(x \o m) = Len(x) + Len(m)
            /\ \A p \in 1..(Len(x) + Len(m)) :
                 (x \o m)[p] = IF p <= Len(x) THEN x[p] ELSE m[p - Len(x)]
        BY <2>3, <2>5, ConcatProperties
      <3> QED
        BY <2>3, <2>5, <3>1
    <2>7. /\ z \in Seq(InsertedInsn) /\ Len(z) = (i + 1) + Len(y)
          /\ \A p \in 1..(i + 1) : z[p] = (x \o m)[p]
      <3>1. /\ z \in Seq(InsertedInsn) /\ Len(z) = Len(x \o m) + Len(y)
            /\ \A p \in 1..(Len(x \o m) + Len(y)) :
                 z[p] = IF p <= Len(x \o m) THEN (x \o m)[p] ELSE y[p - Len(x \o m)]
        <4>1. PICK w \in Seq(InsertedInsn) : w = x \o m
          BY <2>6
        <4>2. z = w \o y
          BY <4>1
        <4>3. /\ w \o y \in Seq(InsertedInsn) /\ Len(w \o y) = Len(w) + Len(y)
              /\ \A p \in 1..(Len(w) + Len(y)) :
                   (w \o y)[p] = IF p <= Len(w) THEN w[p] ELSE y[p - Len(w)]
          BY <2>4, ConcatProperties
        <4> QED
          BY <4>1, <4>2, <4>3
      <3>2. Len(y) \in Nat
        BY <2>4
      <3> QED
        BY <2>6, <3>1, <3>2 DEF Safe
    <2> HIDE DEF z
    <2>8. ASSUME NEW p \in 1..Len(z), p < i + 2 PROVE z[p].op # "MOVi32imm"
      <3>0. Len(z) \in Nat /\ i \in Nat
        BY <2>7 DEF Safe
      <3>1. p \in 1..(i + 1) /\ z[p] = (x \o m)[p]
        <4>1. p \in 1..(i + 1)
          BY <2>8, <3>0
        <4> QED
          BY <2>7, <4>1
      <3>2. CASE p <= i - 1
        BY <2>3, <2>6, <3>1, <3>2 DEF Safe
      <3>3. CASE p = i
        BY <2>2, <2>5, <2>6, <3>1, <3>3 DEF Safe
      <3>4. CASE p = i + 1
        BY <2>2, <2>5, <2>6, <3>1, <3>4, <3>0
      <3>5. p \in Nat /\ (p <= i - 1 \/ p = i \/ p = i + 1)
        BY <3>0, <3>1
      <3> QED
        BY <3>2, <3>3, <3>4, <3>5
    <2>9. Len(y) \in Nat
      BY <2>4
    <2> QED
      BY <2>1, <2>7, <2>8, <2>9 DEF Safe
  <1> QED
    BY <1>1, <1>2

\* printOperand: the text of an immediate is read back as the immediate.
LEMMA PrintedCode ==
  ASSUME NEW i \in ExpandedInsn
  PROVE  [i EXCEPT !.text = Printed(i)] \in PrintedInsn
  <1> DEFINE t == Printed(i)
             j == [i EXCEPT !.text = t]
  <1>1. /\ i \in [op : Opcodes, dst : Regs, s1 : Regs, s2 : Regs, imm : Word, text : Int]
        /\ Fits(i) /\ i.op # "Select_CC" /\ i.op # "MOVi32imm"
    BY DEF ExpandedInsn, InsertedInsn, Insn
  <1>2. i.imm \in Int /\ i.imm % Half \in Int
    <2>1. i.imm \in Int
      BY <1>1, WordFacts DEF Word
    <2> QED
      BY <2>1, WordFacts
  <1>3. t \in Int /\ (AddImmsFit => Wrap(t) = i.imm)
    <2>1. CASE i.op \in UnsignedImm
      <3>1. t = i.imm % Half /\ i.imm \in Field
        BY <1>1, <2>1 DEF Printed, UnsignedImm, Fits
      <3> QED
        BY <1>2, <3>1, FieldFacts, WrapWord
    <2>2. CASE i.op \notin UnsignedImm
      <3>1. t = SignedField(i.imm % Half)
        BY <2>2 DEF Printed, UnsignedImm
      <3>2. AddImmsFit => immSExt16(i.imm)
        BY <1>1, <2>2 DEF Fits
      <3>3. SignedField(i.imm % Half) \in Int
        BY <1>2, WordFacts DEF SignedField
      <3> QED
        BY <3>1, <3>2, <3>3 DEF immSExt16
    <2> QED
      BY <2>1, <2>2
  <1> HIDE DEF t
  <1>4. /\ j \in [op : Opcodes, dst : Regs, s1 : Regs, s2 : Regs, imm : Word, text : Int]
        /\ j.op = i.op /\ j.imm = i.imm /\ j.text = t
    BY <1>1, <1>3
  <1> HIDE DEF j
  <1>5. Fits(j)
    BY <1>1, <1>4 DEF Fits
  <1>6. j \in PrintedInsn
    BY <1>1, <1>3, <1>4, <1>5 DEF PrintedInsn, ExpandedInsn, InsertedInsn, Insn
  <1> QED
    BY <1>6 DEF j, t

---------------------------------------------------------------------------
(* The invariant.                                                          *)

\* A block of code of one kind.
LEMMA BlockFacts ==
  ASSUME NEW S, Code(S), NEW b \in DOMAIN blocks
  PROVE  /\ blocks[b] \in BlockOf(S) /\ blocks[b].insns \in Seq(S)
         /\ DOMAIN blocks = 1..Len(blocks) /\ Len(blocks) \in Nat
         /\ DOMAIN blocks[b].insns = 1..Len(blocks[b].insns) /\ Len(blocks[b].insns) \in Nat
  <1>1. /\ blocks[b] \in BlockOf(S) /\ DOMAIN blocks = 1..Len(blocks) /\ Len(blocks) \in Nat
    BY DEF Code
  <1>2. blocks[b].insns \in Seq(S)
    BY <1>1 DEF BlockOf
  <1> QED
    BY <1>1, <1>2

\* The pass starts with a node and no code.
LEMMA InvInit == Init => SelectInv
  BY DEF Init, SelectInv, InsertInv, ExpandInv

\* Selection.
LEMMA SelectKeeps == SelectInv /\ Select => SelectInv'
  <1> SUFFICES ASSUME SelectInv, Select PROVE SelectInv'
    OBVIOUS
  <1>1. node \in Nodes /\ at = <<1, 1>> /\ node' = node /\ at' = at /\ phase' = "insert"
    BY DEF SelectInv, Select
  <1>2. PICK s \in SelectCode(node) : blocks' = <<Block("thisMBB", s)>>
    BY DEF Select
  <1>3. s \in Seq(Insn) /\ OneSelect(s)
    BY <1>1, SelectedCode
  <1>4. Block("thisMBB", s) \in BlockOf(Insn) /\ Block("thisMBB", s).insns = s
    BY <1>3 DEF Block, BlockOf
  <1>5. blocks' \in Seq(BlockOf(Insn)) /\ Len(blocks') = 1 /\ blocks'[1].insns = s
    BY <1>2, <1>4
  <1>6. InsertInv'
    BY <1>3, <1>5 DEF InsertInv, Code
  <1>7. ExpandInv'
    BY <1>1 DEF ExpandInv
  <1> QED
    BY <1>1, <1>6, <1>7 DEF SelectInv

\* The custom inserter.
LEMMA InsertKeeps == SelectInv /\ EmitInstrWithCustomInserter => SelectInv'
  <1> SUFFICES ASSUME SelectInv, EmitInstrWithCustomInserter PROVE SelectInv'
    OBVIOUS
  <1> DEFINE s == blocks[1].insns
             P == {p \in DOMAIN s : s[p].op = "Select_CC"}
  <1>1. /\ node \in Nodes /\ at = <<1, 1>> /\ node' = node /\ at' = at
        /\ phase = "insert" /\ phase' = "expand"
        /\ blocks' = IF P = {} THEN blocks ELSE Diamond(s, Min(P))
    BY DEF SelectInv, EmitInstrWithCustomInserter
  <1>2. Code(Insn) /\ Len(blocks) = 1 /\ OneSelect(s)
    BY <1>1 DEF SelectInv, InsertInv
  <1>3. 1 \in DOMAIN blocks
    BY <1>2 DEF Code
  <1>4. s \in Seq(Insn) /\ DOMAIN s = 1..Len(s) /\ Len(s) \in Nat /\ blocks[1] \in BlockOf(Insn)
    BY <1>2, <1>3, BlockFacts
  <1>5. /\ blocks' \in Seq(BlockOf(InsertedInsn)) /\ 1 \in DOMAIN blocks'
        /\ blocks'[1] \in BlockOf(InsertedInsn)
    <2>1. CASE P = {}
      <3>1. \A p \in 1..Len(s) : s[p] \in InsertedInsn
        BY <1>4, <2>1 DEF InsertedInsn
      <3>2. s \in Seq(InsertedInsn)
        BY <1>4, <3>1
      <3>3. blocks[1] \in BlockOf(InsertedInsn)
        BY <1>4, <3>2 DEF BlockOf
      <3>4. \A b \in 1..Len(blocks) : blocks[b] \in BlockOf(InsertedInsn)
        BY <1>2, <3>3
      <3>5. blocks \in Seq(BlockOf(InsertedInsn))
        <4>1. blocks \in Seq(BlockOf(Insn)) /\ DOMAIN blocks = 1..Len(blocks) /\ Len(blocks) \in Nat
          BY <1>2 DEF Code
        <4> HIDE DEF s, P
        <4> QED
          BY <3>4, <4>1
      <3> QED
        BY <1>1, <1>3, <2>1, <3>3, <3>5
    <2>2. CASE P # {}
      <3>1. PICK p \in 1..Len(s) : s[p].op = "Select_CC"
        BY <1>4, <2>2
      <3>2. P = {p}
        BY <1>2, <1>4, <3>1 DEF OneSelect
      <3>3. Min(P) = p
        BY <3>2, MinOfOne
      <3>4. blocks' = Diamond(s, p)
        BY <1>1, <2>2, <3>3
      <3>5. blocks' \in Seq(BlockOf(InsertedInsn)) /\ Len(blocks') = 3
        BY <1>2, <1>4, <3>1, <3>4, DiamondCode
      <3> QED
        BY <3>5, FirstOf
    <2> QED
      BY <2>1, <2>2
  <1>6. blocks'[1].insns \in Seq(InsertedInsn)
    BY <1>5 DEF BlockOf
  <1>7. at'[1] = 1 /\ at'[2] = 1
    BY <1>1
  <1>8. DOMAIN blocks' = 1..Len(blocks')
    BY <1>5
  <1>9. ExpandInv'
    <2>1. Code(InsertedInsn)' /\ at'[1] \in DOMAIN blocks'
      BY <1>5, <1>7 DEF Code
    <2>2. at'[2] \in 1..(Len(Insns') + 1)
      BY <1>6, <1>7 DEF Insns
    <2>3. ASSUME NEW b \in DOMAIN blocks', NEW p \in DOMAIN blocks'[b].insns
          PROVE  ~(b < at'[1] \/ (b = at'[1] /\ p < at'[2]))
      BY <1>6, <1>7, <1>8
    <2> QED
      BY <2>1, <2>2, <2>3 DEF ExpandInv
  <1> QED
    BY <1>1, <1>9 DEF SelectInv, InsertInv

\* One step of ExpandMBB.
LEMMA ExpandKeeps == SelectInv /\ ExpandMBB => SelectInv'
  <1> SUFFICES ASSUME SelectInv, ExpandMBB PROVE SelectInv'
    OBVIOUS
  <1>1. PICK k, i, e : k = at[1] /\ i = at[2] /\ e = ExpandAt(blocks[at[1]].insns, at[2])
    OBVIOUS
  <1>2. /\ phase = "expand" /\ phase' = phase /\ node' = node /\ node \in Nodes
        /\ i <= Len(blocks[k].insns)
        /\ blocks' = [blocks EXCEPT ![k].insns = e[1]] /\ at' = <<k, i + e[2]>>
    BY <1>1 DEF ExpandMBB, SelectInv
  <1>3. /\ Code(InsertedInsn) /\ k \in DOMAIN blocks /\ i \in 1..(Len(blocks[k].insns) + 1)
        /\ \A b \in DOMAIN blocks : \A p \in DOMAIN blocks[b].insns :
             b < k \/ (b = k /\ p < i) => blocks[b].insns[p].op # "MOVi32imm"
    BY <1>1, <1>2 DEF SelectInv, ExpandInv, Insns
  <1>4. /\ blocks[k] \in BlockOf(InsertedInsn) /\ blocks[k].insns \in Safe
        /\ DOMAIN blocks = 1..Len(blocks) /\ Len(blocks) \in Nat
        /\ DOMAIN blocks[k].insns = 1..Len(blocks[k].insns) /\ Len(blocks[k].insns) \in Nat
    BY <1>3, BlockFacts DEF Safe
  <1>5. /\ e[1] \in Safe /\ e[2] \in {1, 2} /\ i + e[2] <= Len(e[1]) + 1
        /\ \A p \in 1..Len(e[1]) : p < i + e[2] => e[1][p].op # "MOVi32imm"
    <2>1. i \in 1..Len(blocks[k].insns)
      BY <1>2, <1>3, <1>4
    <2>2. \A p \in 1..Len(blocks[k].insns) : p < i => blocks[k].insns[p].op # "MOVi32imm"
      BY <1>3, <1>4
    <2>3. e = ExpandAt(blocks[k].insns, i)
      BY <1>1
    <2> QED
      BY <1>4, <2>1, <2>2, <2>3, ExpandCode
  <1>6. PICK nb : nb = [blocks[k] EXCEPT !.insns = e[1]]
    OBVIOUS
  <1>7. nb \in BlockOf(InsertedInsn) /\ nb.insns = e[1]
    BY <1>4, <1>5, <1>6 DEF BlockOf, Safe
  <1>8. blocks' = [blocks EXCEPT ![k] = nb]
    BY <1>2, <1>6
  <1>9. /\ blocks' \in Seq(BlockOf(InsertedInsn)) /\ DOMAIN blocks' = DOMAIN blocks
        /\ blocks'[k] = nb /\ \A b \in DOMAIN blocks : b # k => blocks'[b] = blocks[b]
    BY <1>3, <1>4, <1>7, <1>8 DEF Code
  <1>10. at'[1] = k /\ at'[2] = i + e[2] /\ DOMAIN e[1] = 1..Len(e[1]) /\ Len(e[1]) \in Nat
    BY <1>2, <1>5 DEF Safe
  <1>11. at'[2] \in 1..(Len(e[1]) + 1) /\ i \in Nat
    BY <1>3, <1>4, <1>5, <1>10
  <1>12. ASSUME NEW b \in DOMAIN blocks', NEW p \in DOMAIN blocks'[b].insns,
                b < at'[1] \/ (b = at'[1] /\ p < at'[2])
         PROVE  blocks'[b].insns[p].op # "MOVi32imm"
    <2>1. CASE b = k
      <3>1. p \in 1..Len(e[1]) /\ blocks'[b].insns = e[1]
        BY <1>7, <1>9, <1>10, <2>1
      <3>2. p < i + e[2]
        BY <1>4, <1>9, <1>10, <1>12, <2>1
      <3> QED
        BY <1>5, <3>1, <3>2
    <2>2. CASE b # k
      <3>1. b < k /\ b \in DOMAIN blocks /\ blocks'[b] = blocks[b]
        BY <1>4, <1>9, <1>10, <1>12, <2>2
      <3> QED
        BY <1>3, <3>1
    <2> QED
      BY <2>1, <2>2
  <1>13. ExpandInv'
    <2>1. Code(InsertedInsn)' /\ at'[1] \in DOMAIN blocks'
      BY <1>3, <1>9, <1>10 DEF Code
    <2>2. at'[2] \in 1..(Len(Insns') + 1)
      BY <1>7, <1>9, <1>10, <1>11 DEF Insns
    <2> QED
      BY <1>12, <2>1, <2>2 DEF ExpandInv
  <1> QED
    BY <1>2, <1>13 DEF SelectInv, InsertInv

\* The end of a block, and of the pass.
LEMMA NextMBBKeeps == SelectInv /\ NextMBB => SelectInv'
  <1> SUFFICES ASSUME SelectInv, NextMBB PROVE SelectInv'
    OBVIOUS
  <1>1. PICK k, i : k = at[1] /\ i = at[2]
    OBVIOUS
  <1>2. /\ phase = "expand" /\ node' = node /\ node \in Nodes /\ blocks' = blocks
        /\ i > Len(blocks[k].insns)
        /\ IF k < Len(blocks) THEN at' = <<k + 1, 1>> /\ phase' = phase
                              ELSE at' = <<1, 1>> /\ phase' = "print"
    BY <1>1 DEF NextMBB, SelectInv
  <1>3. /\ Code(InsertedInsn) /\ k \in DOMAIN blocks /\ i \in 1..(Len(blocks[k].insns) + 1)
        /\ \A b \in DOMAIN blocks : \A p \in DOMAIN blocks[b].insns :
             b < k \/ (b = k /\ p < i) => blocks[b].insns[p].op # "MOVi32imm"
    BY <1>1, <1>2 DEF SelectInv, ExpandInv, Insns
  <1>4. /\ DOMAIN blocks = 1..Len(blocks) /\ Len(blocks) \in Nat
        /\ DOMAIN blocks[k].insns = 1..Len(blocks[k].insns) /\ Len(blocks[k].insns) \in Nat
    BY <1>3, BlockFacts
  <1>5. ASSUME NEW b \in DOMAIN blocks, NEW p \in DOMAIN blocks[b].insns, b <= k
        PROVE  blocks[b].insns[p].op # "MOVi32imm"
    <2>1. CASE b = k
      <3>1. p < i
        BY <1>2, <1>3, <1>4, <2>1
      <3> QED
        BY <1>3, <2>1, <3>1
    <2>2. CASE b # k
      <3>1. b < k
        BY <1>3, <1>4, <1>5, <2>2
      <3> QED
        BY <1>3, <3>1
    <2> QED
      BY <2>1, <2>2
  <1>6. CASE k < Len(blocks)
    <2>1. phase' = "expand" /\ at'[1] = k + 1 /\ at'[2] = 1 /\ k + 1 \in DOMAIN blocks
      BY <1>2, <1>3, <1>4, <1>6
    <2>2. Len(blocks[k + 1].insns) \in Nat /\ DOMAIN blocks[k + 1].insns = 1..Len(blocks[k + 1].insns)
      BY <1>3, <2>1, BlockFacts
    <2>3. Code(InsertedInsn)' /\ at'[1] \in DOMAIN blocks' /\ at'[2] \in 1..(Len(Insns') + 1)
      BY <1>2, <1>3, <2>1, <2>2 DEF Insns, Code
    <2>4. ASSUME NEW b \in DOMAIN blocks', NEW p \in DOMAIN blocks'[b].insns,
                 b < at'[1] \/ (b = at'[1] /\ p < at'[2])
          PROVE  blocks'[b].insns[p].op # "MOVi32imm"
      <3>1. b \in DOMAIN blocks /\ p \in DOMAIN blocks[b].insns /\ blocks' = blocks
        BY <1>2, <2>4
      <3>2. b <= k
        <4>1. ~(b = k + 1 /\ p < 1)
          BY <2>2, <3>1
        <4> QED
          BY <1>3, <1>4, <2>1, <2>4, <3>1, <4>1
      <3> QED
        BY <1>5, <3>1, <3>2
    <2>5. ExpandInv'
      BY <2>3, <2>4 DEF ExpandInv
    <2> QED
      BY <1>2, <2>1, <2>5 DEF SelectInv, InsertInv
  <1>7. CASE k = Len(blocks)
    <2>1. phase' = "print"
      BY <1>2, <1>4, <1>7
    <2>2. ASSUME NEW b \in DOMAIN blocks
          PROVE  blocks[b] \in BlockOf(ExpandedInsn)
      <3>1. /\ blocks[b] \in BlockOf(InsertedInsn) /\ blocks[b].insns \in Seq(InsertedInsn)
            /\ DOMAIN blocks[b].insns = 1..Len(blocks[b].insns)
        BY <1>3, BlockFacts
      <3>2. b <= k
        BY <1>4, <1>7
      <3>3. \A p \in 1..Len(blocks[b].insns) : blocks[b].insns[p] \in ExpandedInsn
        BY <1>5, <3>1, <3>2 DEF ExpandedInsn
      <3>4. blocks[b].insns \in Seq(ExpandedInsn)
        BY <3>1, <3>3
      <3> QED
        BY <3>1, <3>4 DEF BlockOf
    <2>3. blocks \in Seq(BlockOf(ExpandedInsn))
      BY <1>3, <1>4, <2>2 DEF Code
    <2>4. Code(ExpandedInsn)'
      BY <1>2, <2>3 DEF Code
    <2> QED
      BY <1>2, <2>1, <2>4 DEF SelectInv, InsertInv, ExpandInv
  <1> QED
    BY <1>3, <1>4, <1>6, <1>7

\* The printer.
LEMMA PrintKeeps == SelectInv /\ PrintInstructions => SelectInv'
  <1> SUFFICES ASSUME SelectInv, PrintInstructions PROVE SelectInv'
    OBVIOUS
  <1>1. /\ phase = "print" /\ phase' = "run" /\ node' = node /\ node \in Nodes
        /\ Code(ExpandedInsn)
    BY DEF PrintInstructions, SelectInv
  <1> DEFINE text(b) == [i \in DOMAIN blocks[b].insns |->
                           [blocks[b].insns[i] EXCEPT !.text = Printed(blocks[b].insns[i])]]
             new(b) == Block(blocks[b].name, text(b))
  <1>2. blocks' = [b \in DOMAIN blocks |-> new(b)]
    BY DEF PrintInstructions
  <1>3. ASSUME NEW b \in DOMAIN blocks
        PROVE  new(b) \in BlockOf(PrintedInsn)
    <2>1. /\ blocks[b] \in BlockOf(ExpandedInsn) /\ blocks[b].insns \in Seq(ExpandedInsn)
          /\ DOMAIN blocks[b].insns = 1..Len(blocks[b].insns) /\ Len(blocks[b].insns) \in Nat
      BY <1>1, BlockFacts
    <2>2. \A i \in 1..Len(blocks[b].insns) :
            [blocks[b].insns[i] EXCEPT !.text = Printed(blocks[b].insns[i])] \in PrintedInsn
      BY <2>1, PrintedCode
    <2>3. text(b) \in [1..Len(blocks[b].insns) -> PrintedInsn]
      BY <2>1, <2>2
    <2>4. text(b) \in Seq(PrintedInsn)
      BY <2>1, <2>3
    <2>5. blocks[b].name \in {"thisMBB", "copy0MBB", "sinkMBB"}
      BY <2>1 DEF BlockOf
    <2> HIDE DEF text
    <2> QED
      BY <2>4, <2>5 DEF Block, BlockOf
  <1> HIDE DEF new
  <1>4. DOMAIN blocks = 1..Len(blocks) /\ Len(blocks) \in Nat
    BY <1>1 DEF Code
  <1>5. blocks' \in [1..Len(blocks) -> BlockOf(PrintedInsn)]
    BY <1>2, <1>3, <1>4
  <1>6. blocks' \in Seq(BlockOf(PrintedInsn))
    BY <1>4, <1>5
  <1>7. Code(PrintedInsn)'
    BY <1>6 DEF Code
  <1> QED
    BY <1>1, <1>7 DEF SelectInv, InsertInv, ExpandInv

\* The machine does not write its code.
LEMMA RunKeeps == SelectInv /\ (Compute \/ NotTaken \/ Taken \/ FallThrough) => SelectInv'
  <1> SUFFICES ASSUME SelectInv, Compute \/ NotTaken \/ Taken \/ FallThrough PROVE SelectInv'
    OBVIOUS
  <1>1. phase = "run" /\ phase' \in {"run", "done"} /\ blocks' = blocks /\ node' = node
    BY DEF Compute, NotTaken, Taken, FallThrough, Running
  <1>2. Code(PrintedInsn) /\ node \in Nodes
    BY <1>1 DEF SelectInv
  <1>3. Code(PrintedInsn)'
    BY <1>1, <1>2 DEF Code
  <1> QED
    BY <1>1, <1>2, <1>3 DEF SelectInv, InsertInv, ExpandInv

\* Every step keeps the invariant.
LEMMA InvNext == SelectInv /\ [Next]_vars => SelectInv'
  <1>1. SelectInv /\ UNCHANGED vars => SelectInv'
    BY DEF vars, SelectInv, InsertInv, ExpandInv, Code, Insns
  <1> QED
    BY <1>1, SelectKeeps, InsertKeeps, ExpandKeeps, NextMBBKeeps, PrintKeeps, RunKeeps DEF Next

\* From selection to the printed text, the code of a node is what the next pass
\* expects: at most one select, no pseudo instruction behind the iterator of
\* ExpandMBB, immediates that their fields hold.
THEOREM SelectInvariance == Spec => []SelectInv
  BY InvInit, InvNext, PTL DEF Spec

\* The instructions of code of one kind.
LEMMA AllInsnsOf ==
  ASSUME NEW S, Code(S)
  PROVE  AllInsns \subseteq S
  <1>1. SUFFICES ASSUME NEW i \in AllInsns PROVE i \in S
    OBVIOUS
  <1>2. PICK b \in DOMAIN blocks : i \in Range(blocks[b].insns)
    BY <1>1 DEF AllInsns
  <1>3. PICK p \in DOMAIN blocks[b].insns : i = blocks[b].insns[p]
    BY <1>2 DEF Range
  <1> QED
    BY <1>3, BlockFacts

\* ExpandMBB and EmitInstrWithCustomInserter leave the printer no pseudo
\* instruction, for every node and every constant.
THEOREM NoPseudo == Spec => []NoPseudoPrinted
  <1>1. SelectInv => NoPseudoPrinted
    <2>1. \A i \in PrintedInsn \cup ExpandedInsn : i.op \notin {"MOVi32imm", "Select_CC"}
      BY DEF PrintedInsn, ExpandedInsn, InsertedInsn
    <2> QED
      BY <2>1, AllInsnsOf DEF SelectInv, NoPseudoPrinted
  <1> QED
    BY <1>1, SelectInvariance, PTL

\* printOperand's casts to short and unsigned short lose nothing, provided that
\* no register is added a constant that ADDiu would take for a negative one.
THEOREM ReadBack == AddImmsFit => (Spec => []ImmediatesReadBack)
  <1>1. AddImmsFit /\ SelectInv => ImmediatesReadBack
    <2>1. AddImmsFit => \A i \in PrintedInsn : Wrap(i.text) = i.imm
      BY DEF PrintedInsn
    <2> QED
      BY <2>1, AllInsnsOf DEF SelectInv, ImmediatesReadBack
  <1>2. SUFFICES ASSUME AddImmsFit PROVE Spec => []ImmediatesReadBack
    OBVIOUS
  <1>3. SelectInv => ImmediatesReadBack
    BY <1>1, <1>2
  <1> QED
    BY <1>3, SelectInvariance, PTL

---------------------------------------------------------------------------
(* The tables of compares and branches.                                    *)

\* The signs of the words next to zero.
LEMMA SignedFacts ==
  /\ \A x \in Word : Signed(x) \in Int /\ (Signed(x) = 0 <=> x = 0)
  /\ Signed(0) = 0 /\ Signed(1) = 1 /\ Signed(MinusOne) = -1
  <1>1. PICK hh, h : hh = Half * Half /\ h = (Half * Half) \div 2
    OBVIOUS
  <1>2. hh \in Nat /\ h \in Nat /\ h >= 2 /\ h <= hh - 2
    BY <1>1, WordFacts
  <1>3. \A x \in 0..(hh - 1) : Signed(x) = IF x < h THEN x ELSE x - hh
    BY <1>1 DEF Signed
  <1>4. Word = 0..(hh - 1) /\ MinusOne = hh - 1
    BY <1>1 DEF Word, MinusOne
  <1>5. 0 \in 0..(hh - 1) /\ 1 \in 0..(hh - 1) /\ hh - 1 \in 0..(hh - 1)
    BY <1>2
  <1> QED
    BY <1>2, <1>3, <1>4, <1>5

\* The branches against zero that IntBranch selects instead of a compare with 0,
\* 1 or -1 go exactly when the condition holds, for words of every width.
THEOREM ZeroBranchTable ==
  ASSUME NEW cc \in DOMAIN IntCompare, NEW c \in Word, ZeroBranch(cc, c) # "none",
         NEW s \in Regs, NEW f \in [Regs -> Word]
  PROVE  Goes(I(ZeroBranch(cc, c), "zero", s, "zero", 0), f) <=> Holds(cc, FALSE, f[s], c)
  <1>1. PICK x : x = f[s]
    OBVIOUS
  <1>2. x \in Word /\ Signed(x) \in Int /\ (Signed(x) = 0 <=> x = 0)
    BY <1>1, SignedFacts
  <1>3. \A op : I(op, "zero", s, "zero", 0).op = op /\ I(op, "zero", s, "zero", 0).s1 = s
    BY DEF I
  <1>4. /\ Goes(I("BE", "zero", s, "zero", 0), f) <=> x = 0
        /\ Goes(I("BNZ", "zero", s, "zero", 0), f) <=> x # 0
        /\ Goes(I("BGT", "zero", s, "zero", 0), f) <=> Signed(x) > 0
        /\ Goes(I("BGE", "zero", s, "zero", 0), f) <=> Signed(x) >= 0
        /\ Goes(I("BLE", "zero", s, "zero", 0), f) <=> Signed(x) <= 0
        /\ Goes(I("BLT", "zero", s, "zero", 0), f) <=> Signed(x) < 0
    BY <1>1, <1>3, ZenonT(40) DEF Goes
  <1>5. /\ Holds("seteq", FALSE, x, c) <=> x = c
        /\ Holds("setne", FALSE, x, c) <=> x # c
        /\ Holds("setlt", FALSE, x, c) <=> Signed(x) < Signed(c)
        /\ Holds("setle", FALSE, x, c) <=> Signed(x) <= Signed(c)
        /\ Holds("setgt", FALSE, x, c) <=> Signed(x) > Signed(c)
        /\ Holds("setge", FALSE, x, c) <=> Signed(x) >= Signed(c)
    BY DEF Holds
  <1>6. \/ c = 0 /\ cc = "seteq" /\ ZeroBranch(cc, c) = "BE"
        \/ c = 0 /\ cc = "setne" /\ ZeroBranch(cc, c) = "BNZ"
        \/ c = 0 /\ cc = "setgt" /\ ZeroBranch(cc, c) = "BGT"
        \/ c = 0 /\ cc = "setge" /\ ZeroBranch(cc, c) = "BGE"
        \/ c = 0 /\ cc = "setle" /\ ZeroBranch(cc, c) = "BLE"
        \/ c = 0 /\ cc = "setlt" /\ ZeroBranch(cc, c) = "BLT"
        \/ c = MinusOne /\ cc = "setgt" /\ ZeroBranch(cc, c) = "BGE"
        \/ c = 1 /\ cc = "setlt" /\ ZeroBranch(cc, c) = "BLE"
        \/ c = 1 /\ cc = "setge" /\ ZeroBranch(cc, c) = "BGT"
        \/ c = MinusOne /\ cc = "setle" /\ ZeroBranch(cc, c) = "BLT"
    <2> HIDE DEF IntCompare
    <2> QED
      BY DEF ZeroBranch
  <1>7. /\ x = 0 <=> Signed(x) = Signed(0)
        /\ Signed(x) > 0 <=> Signed(x) > Signed(0)
        /\ Signed(x) >= 0 <=> Signed(x) >= Signed(0)
        /\ Signed(x) <= 0 <=> Signed(x) <= Signed(0)
        /\ Signed(x) < 0 <=> Signed(x) < Signed(0)
        /\ Signed(x) >= 0 <=> Signed(x) > Signed(MinusOne)
        /\ Signed(x) <= 0 <=> Signed(x) < Signed(1)
        /\ Signed(x) > 0 <=> Signed(x) >= Signed(1)
        /\ Signed(x) < 0 <=> Signed(x) <= Signed(MinusOne)
    BY <1>2, SignedFacts
  <1>8. Goes(I(ZeroBranch(cc, c), "zero", s, "zero", 0), f) <=> Holds(cc, FALSE, x, c)
    BY <1>4, <1>5, <1>6, <1>7, Zenon
  <1> QED
    BY <1>1, <1>8, Zenon

\* What the compare instructions leave in their register.
LEMMA CompareValues ==
  ASSUME NEW i, NEW f
  PROVE  /\ i.op = "CEQ" => Value(i, f) = (IF f[i.s1] = f[i.s2] THEN 1 ELSE 0)
         /\ i.op = "CEQF" => Value(i, f) = (IF f[i.s1] = f[i.s2] THEN 1 ELSE 0)
         /\ i.op = "CLT" => Value(i, f) = (IF Signed(f[i.s1]) < Signed(f[i.s2]) THEN 1 ELSE 0)
         /\ i.op = "CLE" => Value(i, f) = (IF Signed(f[i.s1]) <= Signed(f[i.s2]) THEN 1 ELSE 0)
         /\ i.op = "CLTU" => Value(i, f) = (IF f[i.s1] < f[i.s2] THEN 1 ELSE 0)
         /\ i.op = "CLTF" => Value(i, f) = (IF f[i.s1] < f[i.s2] THEN 1 ELSE 0)
         /\ i.op = "CLEU" => Value(i, f) = (IF f[i.s1] <= f[i.s2] THEN 1 ELSE 0)
         /\ i.op = "CLTEF" => Value(i, f) = (IF f[i.s1] <= f[i.s2] THEN 1 ELSE 0)
  <1>1. i.op = "CEQ" => Value(i, f) = (IF f[i.s1] = f[i.s2] THEN 1 ELSE 0)
    BY DEF Value, Bool
  <1>2. i.op = "CEQF" => Value(i, f) = (IF f[i.s1] = f[i.s2] THEN 1 ELSE 0)
    BY DEF Value, Bool
  <1>3. i.op = "CLT" => Value(i, f) = (IF Signed(f[i.s1]) < Signed(f[i.s2]) THEN 1 ELSE 0)
    BY DEF Value, Bool
  <1>4. i.op = "CLE" => Value(i, f) = (IF Signed(f[i.s1]) <= Signed(f[i.s2]) THEN 1 ELSE 0)
    BY DEF Value, Bool
  <1>5. i.op = "CLTU" => Value(i, f) = (IF f[i.s1] < f[i.s2] THEN 1 ELSE 0)
    BY DEF Value, Bool
  <1>6. i.op = "CLTF" => Value(i, f) = (IF f[i.s1] < f[i.s2] THEN 1 ELSE 0)
    BY DEF Value, Bool
  <1>7. i.op = "CLEU" => Value(i, f) = (IF f[i.s1] <= f[i.s2] THEN 1 ELSE 0)
    BY DEF Value, Bool
  <1>8. i.op = "CLTEF" => Value(i, f) = (IF f[i.s1] <= f[i.s2] THEN 1 ELSE 0)
    BY DEF Value, Bool
  <1> QED
    BY <1>1, <1>2, <1>3, <1>4, <1>5, <1>6, <1>7, <1>8

\* The instruction that IntCompare names, with its operands swapped or not,
\* leaves 1 exactly when the condition holds, or 0 when the table says that the
\* result is inverted.
THEOREM IntCompareTable ==
  ASSUME NEW cc \in DOMAIN IntCompare, NEW l \in Regs, NEW r \in Regs, NEW d \in Regs,
         NEW f \in [Regs -> Word]
  PROVE  LET v == Value(Compare(IntCompare[cc], l, r, d)[1], f)
         IN  /\ v \in {0, 1}
             /\ Holds(cc, FALSE, f[l], f[r]) <=> IF IntCompare[cc].invert THEN v = 0 ELSE v = 1
  <1> SUFFICES ASSUME NEW i, i = Compare(IntCompare[cc], l, r, d)[1]
               PROVE  /\ Value(i, f) \in {0, 1}
                      /\ Holds(cc, FALSE, f[l], f[r])
                           <=> IF IntCompare[cc].invert THEN Value(i, f) = 0 ELSE Value(i, f) = 1
    OBVIOUS
  <1>1. PICK x, y, sx, sy : x = f[l] /\ y = f[r] /\ sx = Signed(x) /\ sy = Signed(y)
    OBVIOUS
  <1>2. x \in Int /\ y \in Int /\ sx \in Int /\ sy \in Int
    BY <1>1, SignedFacts, WordFacts DEF Word
  <1>3. /\ Holds("seteq", FALSE, f[l], f[r]) <=> x = y
        /\ Holds("setne", FALSE, f[l], f[r]) <=> x # y
        /\ Holds("setlt", FALSE, f[l], f[r]) <=> sx < sy
        /\ Holds("setle", FALSE, f[l], f[r]) <=> sx <= sy
        /\ Holds("setgt", FALSE, f[l], f[r]) <=> sx > sy
        /\ Holds("setge", FALSE, f[l], f[r]) <=> sx >= sy
        /\ Holds("setult", FALSE, f[l], f[r]) <=> x < y
        /\ Holds("setule", FALSE, f[l], f[r]) <=> x <= y
        /\ Holds("setugt", FALSE, f[l], f[r]) <=> x > y
        /\ Holds("setuge", FALSE, f[l], f[r]) <=> x >= y
    BY <1>1 DEF Holds
  <1>4. CASE cc = "seteq"
    <2>1. i.op = "CEQ" /\ i.s1 = l /\ i.s2 = r /\ ~IntCompare[cc].invert
      BY <1>4, IntConditions DEF Compare, I, Cmp
    <2>2. Value(i, f) = IF x = y THEN 1 ELSE 0
      BY <1>1, <2>1, CompareValues
    <2>3. Value(i, f) \in {0, 1} /\ (x = y <=> Value(i, f) = 1)
      BY <1>2, <2>2
    <2> QED
      BY <1>3, <1>4, <2>1, <2>3, Zenon
  <1>5. CASE cc = "setne"
    <2>1. i.op = "CEQ" /\ i.s1 = l /\ i.s2 = r /\ IntCompare[cc].invert
      BY <1>5, IntConditions DEF Compare, I, Cmp
    <2>2. Value(i, f) = IF x = y THEN 1 ELSE 0
      BY <1>1, <2>1, CompareValues
    <2>3. Value(i, f) \in {0, 1} /\ (x # y <=> Value(i, f) = 0)
      BY <1>2, <2>2
    <2> QED
      BY <1>3, <1>5, <2>1, <2>3, Zenon
  <1>6. CASE cc = "setlt"
    <2>1. i.op = "CLT" /\ i.s1 = l /\ i.s2 = r /\ ~IntCompare[cc].invert
      BY <1>6, IntConditions DEF Compare, I, Cmp
    <2>2. Value(i, f) = IF sx < sy THEN 1 ELSE 0
      BY <1>1, <2>1, CompareValues
    <2>3. Value(i, f) \in {0, 1} /\ (sx < sy <=> Value(i, f) = 1)
      BY <1>2, <2>2
    <2> QED
      BY <1>3, <1>6, <2>1, <2>3, Zenon
  <1>7. CASE cc = "setle"
    <2>1. i.op = "CLE" /\ i.s1 = l /\ i.s2 = r /\ ~IntCompare[cc].invert
      BY <1>7, IntConditions DEF Compare, I, Cmp
    <2>2. Value(i, f) = IF sx <= sy THEN 1 ELSE 0
      BY <1>1, <2>1, CompareValues
    <2>3. Value(i, f) \in {0, 1} /\ (sx <= sy <=> Value(i, f) = 1)
      BY <1>2, <2>2
    <2> QED
      BY <1>3, <1>7, <2>1, <2>3, Zenon
  <1>8. CASE cc = "setgt"
    <2>1. i.op = "CLT" /\ i.s1 = r /\ i.s2 = l /\ ~IntCompare[cc].invert
      BY <1>8, IntConditions DEF Compare, I, Cmp
    <2>2. Value(i, f) = IF sy < sx THEN 1 ELSE 0
      BY <1>1, <2>1, CompareValues
    <2>3. Value(i, f) \in {0, 1} /\ (sx > sy <=> Value(i, f) = 1)
      BY <1>2, <2>2
    <2> QED
      BY <1>3, <1>8, <2>1, <2>3, Zenon
  <1>9. CASE cc = "setge"
    <2>1. i.op = "CLE" /\ i.s1 = r /\ i.s2 = l /\ ~IntCompare[cc].invert
      BY <1>9, IntConditions DEF Compare, I, Cmp
    <2>2. Value(i, f) = IF sy <= sx THEN 1 ELSE 0
      BY <1>1, <2>1, CompareValues
    <2>3. Value(i, f) \in {0, 1} /\ (sx >= sy <=> Value(i, f) = 1)
      BY <1>2, <2>2
    <2> QED
      BY <1>3, <1>9, <2>1, <2>3, Zenon
  <1>10. CASE cc = "setult"
    <2>1. i.op = "CLTU" /\ i.s1 = l /\ i.s2 = r /\ ~IntCompare[cc].invert
      BY <1>10, IntConditions DEF Compare, I, Cmp
    <2>2. Value(i, f) = IF x < y THEN 1 ELSE 0
      BY <1>1, <2>1, CompareValues
    <2>3. Value(i, f) \in {0, 1} /\ (x < y <=> Value(i, f) = 1)
      BY <1>2, <2>2
    <2> QED
      BY <1>3, <1>10, <2>1, <2>3, Zenon
  <1>11. CASE cc = "setule"
    <2>1. i.op = "CLEU" /\ i.s1 = l /\ i.s2 = r /\ ~IntCompare[cc].invert
      BY <1>11, IntConditions DEF Compare, I, Cmp
    <2>2. Value(i, f) = IF x <= y THEN 1 ELSE 0
      BY <1>1, <2>1, CompareValues
    <2>3. Value(i, f) \in {0, 1} /\ (x <= y <=> Value(i, f) = 1)
      BY <1>2, <2>2
    <2> QED
      BY <1>3, <1>11, <2>1, <2>3, Zenon
  <1>12. CASE cc = "setugt"
    <2>1. i.op = "CLTU" /\ i.s1 = r /\ i.s2 = l /\ ~IntCompare[cc].invert
      BY <1>12, IntConditions DEF Compare, I, Cmp
    <2>2. Value(i, f) = IF y < x THEN 1 ELSE 0
      BY <1>1, <2>1, CompareValues
    <2>3. Value(i, f) \in {0, 1} /\ (x > y <=> Value(i, f) = 1)
      BY <1>2, <2>2
    <2> QED
      BY <1>3, <1>12, <2>1, <2>3, Zenon
  <1>13. CASE cc = "setuge"
    <2>1. i.op = "CLEU" /\ i.s1 = r /\ i.s2 = l /\ ~IntCompare[cc].invert
      BY <1>13, IntConditions DEF Compare, I, Cmp
    <2>2. Value(i, f) = IF y <= x THEN 1 ELSE 0
      BY <1>1, <2>1, CompareValues
    <2>3. Value(i, f) \in {0, 1} /\ (x >= y <=> Value(i, f) = 1)
      BY <1>2, <2>2
    <2> QED
      BY <1>3, <1>13, <2>1, <2>3, Zenon
  <1> QED
    BY <1>4, <1>5, <1>6, <1>7, <1>8, <1>9, <1>10, <1>11, <1>12, <1>13, IntConditions

\* The same for floats, which are ordered as their ranks; the value patterns of
\* setogt and setoge are the ones that are exchanged.
Says(c, v, P) == v \in {0, 1} /\ (P <=> IF c.invert THEN v = 0 ELSE v = 1)

\* Printed or not, a float compare decides its condition, with setogt and setoge
\* exchanged (RigelInstrInfo.td:1049).
LEMMA FPCompareValue ==
  ASSUME NEW cc \in DOMAIN FPCompare, NEW l \in Regs, NEW r \in Regs, NEW d \in Regs,
         NEW f \in [Regs -> Word], NEW i, i = Compare(FPCompare[cc], l, r, d)[1],
         NEW m, m = IF cc = "setogt" THEN "setoge" ELSE IF cc = "setoge" THEN "setogt" ELSE cc
  PROVE  Says(FPCompare[cc], Value(i, f), Holds(m, TRUE, f[l], f[r]))
  <1> DEFINE meant == IF cc = "setogt" THEN "setoge" ELSE IF cc = "setoge" THEN "setogt" ELSE cc
  <1> SUFFICES /\ Value(i, f) \in {0, 1}
               /\ Holds(meant, TRUE, f[l], f[r])
                    <=> IF FPCompare[cc].invert THEN Value(i, f) = 0 ELSE Value(i, f) = 1
    <2>1. m = meant
      OBVIOUS
    <2> HIDE DEF meant
    <2> QED
      BY <2>1, Zenon DEF Says
  <1>1. PICK x, y : x = f[l] /\ y = f[r]
    OBVIOUS
  <1>2. x \in Int /\ y \in Int
    BY <1>1, WordFacts DEF Word
  <1>3. /\ Holds("seteq", TRUE, f[l], f[r]) <=> x = y
        /\ Holds("setne", TRUE, f[l], f[r]) <=> x # y
        /\ Holds("setlt", TRUE, f[l], f[r]) <=> x < y
        /\ Holds("setle", TRUE, f[l], f[r]) <=> x <= y
        /\ Holds("setoeq", TRUE, f[l], f[r]) <=> x = y
        /\ Holds("setone", TRUE, f[l], f[r]) <=> x # y
        /\ Holds("setolt", TRUE, f[l], f[r]) <=> x < y
        /\ Holds("setole", TRUE, f[l], f[r]) <=> x <= y
        /\ Holds("setueq", TRUE, f[l], f[r]) <=> x = y
        /\ Holds("setune", TRUE, f[l], f[r]) <=> x # y
        /\ Holds("setogt", TRUE, f[l], f[r]) <=> x > y
        /\ Holds("setoge", TRUE, f[l], f[r]) <=> x >= y
        /\ Holds("setult", TRUE, f[l], f[r]) <=> x < y
        /\ Holds("setule", TRUE, f[l], f[r]) <=> x <= y
        /\ Holds("setugt", TRUE, f[l], f[r]) <=> x > y
        /\ Holds("setuge", TRUE, f[l], f[r]) <=> x >= y
    BY <1>1 DEF Holds
  <1>4. CASE cc = "seteq"
    <2>1. i.op = "CEQF" /\ i.s1 = l /\ i.s2 = r /\ ~FPCompare[cc].invert
      BY <1>4, FPConditions DEF Compare, I, Cmp
    <2>2. Value(i, f) = IF x = y THEN 1 ELSE 0
      BY <1>1, <2>1, CompareValues
    <2>3. Value(i, f) \in {0, 1} /\ (x = y <=> Value(i, f) = 1)
      BY <1>2, <2>2
    <2> QED
      BY <1>3, <1>4, <2>1, <2>3, Zenon
  <1>5. CASE cc = "setne"
    <2>1. i.op = "CEQF" /\ i.s1 = l /\ i.s2 = r /\ FPCompare[cc].invert
      BY <1>5, FPConditions DEF Compare, I, Cmp
    <2>2. Value(i, f) = IF x = y THEN 1 ELSE 0
      BY <1>1, <2>1, CompareValues
    <2>3. Value(i, f) \in {0, 1} /\ (x # y <=> Value(i, f) = 0)
      BY <1>2, <2>2
    <2> QED
      BY <1>3, <1>5, <2>1, <2>3, Zenon
  <1>6. CASE cc = "setlt"
    <2>1. i.op = "CLTF" /\ i.s1 = l /\ i.s2 = r /\ ~FPCompare[cc].invert
      BY <1>6, FPConditions DEF Compare, I, Cmp
    <2>2. Value(i, f) = IF x < y THEN 1 ELSE 0
      BY <1>1, <2>1, CompareValues
    <2>3. Value(i, f) \in {0, 1} /\ (x < y <=> Value(i, f) = 1)
      BY <1>2, <2>2
    <2> QED
      BY <1>3, <1>6, <2>1, <2>3, Zenon
  <1>7. CASE cc = "setle"
    <2>1. i.op = "CLTEF" /\ i.s1 = l /\ i.s2 = r /\ ~FPCompare[cc].invert
      BY <1>7, FPConditions DEF Compare, I, Cmp
    <2>2. Value(i, f) = IF x <= y THEN 1 ELSE 0
      BY <1>1, <2>1, CompareValues
    <2>3. Value(i, f) \in {0, 1} /\ (x <= y <=> Value(i, f) = 1)
      BY <1>2, <2>2
    <2> QED
      BY <1>3, <1>7, <2>1, <2>3, Zenon
  <1>8. CASE cc = "setoeq"
    <2>1. i.op = "CEQF" /\ i.s1 = l /\ i.s2 = r /\ ~FPCompare[cc].invert
      BY <1>8, FPConditions DEF Compare, I, Cmp
    <2>2. Value(i, f) = IF x = y THEN 1 ELSE 0
      BY <1>1, <2>1, CompareValues
    <2>3. Value(i, f) \in {0, 1} /\ (x = y <=> Value(i, f) = 1)
      BY <1>2, <2>2
    <2> QED
      BY <1>3, <1>8, <2>1, <2>3, Zenon
  <1>9. CASE cc = "setone"
    <2>1. i.op = "CEQF" /\ i.s1 = l /\ i.s2 = r /\ FPCompare[cc].invert
      BY <1>9, FPConditions DEF Compare, I, Cmp
    <2>2. Value(i, f) = IF x = y THEN 1 ELSE 0
      BY <1>1, <2>1, CompareValues
    <2>3. Value(i, f) \in {0, 1} /\ (x # y <=> Value(i, f) = 0)
      BY <1>2, <2>2
    <2> QED
      BY <1>3, <1>9, <2>1, <2>3, Zenon
  <1>10. CASE cc = "setolt"
    <2>1. i.op = "CLTF" /\ i.s1 = l /\ i.s2 = r /\ ~FPCompare[cc].invert
      BY <1>10, FPConditions DEF Compare, I, Cmp
    <2>2. Value(i, f) = IF x < y THEN 1 ELSE 0
      BY <1>1, <2>1, CompareValues
    <2>3. Value(i, f) \in {0, 1} /\ (x < y <=> Value(i, f) = 1)
      BY <1>2, <2>2
    <2> QED
      BY <1>3, <1>10, <2>1, <2>3, Zenon
  <1>11. CASE cc = "setole"
    <2>1. i.op = "CLTEF" /\ i.s1 = l /\ i.s2 = r /\ ~FPCompare[cc].invert
      BY <1>11, FPConditions DEF Compare, I, Cmp
    <2>2. Value(i, f) = IF x <= y THEN 1 ELSE 0
      BY <1>1, <2>1, CompareValues
    <2>3. Value(i, f) \in {0, 1} /\ (x <= y <=> Value(i, f) = 1)
      BY <1>2, <2>2
    <2> QED
      BY <1>3, <1>11, <2>1, <2>3, Zenon
  <1>12. CASE cc = "setogt"
    <2>1. i.op = "CLTEF" /\ i.s1 = r /\ i.s2 = l /\ ~FPCompare[cc].invert
      BY <1>12, FPConditions DEF Compare, I, Cmp
    <2>2. Value(i, f) = IF y <= x THEN 1 ELSE 0
      BY <1>1, <2>1, CompareValues
    <2>3. Value(i, f) \in {0, 1} /\ (x >= y <=> Value(i, f) = 1)
      BY <1>2, <2>2
    <2> QED
      BY <1>3, <1>12, <2>1, <2>3, Zenon
  <1>13. CASE cc = "setoge"
    <2>1. i.op = "CLTF" /\ i.s1 = r /\ i.s2 = l /\ ~FPCompare[cc].invert
      BY <1>13, FPConditions DEF Compare, I, Cmp
    <2>2. Value(i, f) = IF y < x THEN 1 ELSE 0
      BY <1>1, <2>1, CompareValues
    <2>3. Value(i, f) \in {0, 1} /\ (x > y <=> Value(i, f) = 1)
      BY <1>2, <2>2
    <2> QED
      BY <1>3, <1>13, <2>1, <2>3, Zenon
  <1>14. CASE cc = "setueq"
    <2>1. i.op = "CEQF" /\ i.s1 = l /\ i.s2 = r /\ ~FPCompare[cc].invert
      BY <1>14, FPConditions DEF Compare, I, Cmp
    <2>2. Value(i, f) = IF x = y THEN 1 ELSE 0
      BY <1>1, <2>1, CompareValues
    <2>3. Value(i, f) \in {0, 1} /\ (x = y <=> Value(i, f) = 1)
      BY <1>2, <2>2
    <2> QED
      BY <1>3, <1>14, <2>1, <2>3, Zenon
  <1>15. CASE cc = "setune"
    <2>1. i.op = "CEQF" /\ i.s1 = l /\ i.s2 = r /\ FPCompare[cc].invert
      BY <1>15, FPConditions DEF Compare, I, Cmp
    <2>2. Value(i, f) = IF x = y THEN 1 ELSE 0
      BY <1>1, <2>1, CompareValues
    <2>3. Value(i, f) \in {0, 1} /\ (x # y <=> Value(i, f) = 0)
      BY <1>2, <2>2
    <2> QED
      BY <1>3, <1>15, <2>1, <2>3, Zenon
  <1>16. CASE cc = "setult"
    <2>1. i.op = "CLTF" /\ i.s1 = l /\ i.s2 = r /\ ~FPCompare[cc].invert
      BY <1>16, FPConditions DEF Compare, I, Cmp
    <2>2. Value(i, f) = IF x < y THEN 1 ELSE 0
      BY <1>1, <2>1, CompareValues
    <2>3. Value(i, f) \in {0, 1} /\ (x < y <=> Value(i, f) = 1)
      BY <1>2, <2>2
    <2> QED
      BY <1>3, <1>16, <2>1, <2>3, Zenon
  <1>17. CASE cc = "setule"
    <2>1. i.op = "CLTEF" /\ i.s1 = l /\ i.s2 = r /\ ~FPCompare[cc].invert
      BY <1>17, FPConditions DEF Compare, I, Cmp
    <2>2. Value(i, f) = IF x <= y THEN 1 ELSE 0
      BY <1>1, <2>1, CompareValues
    <2>3. Value(i, f) \in {0, 1} /\ (x <= y <=> Value(i, f) = 1)
      BY <1>2, <2>2
    <2> QED
      BY <1>3, <1>17, <2>1, <2>3, Zenon
  <1>18. CASE cc = "setugt"
    <2>1. i.op = "CLTF" /\ i.s1 = r /\ i.s2 = l /\ ~FPCompare[cc].invert
      BY <1>18, FPConditions DEF Compare, I, Cmp
    <2>2. Value(i, f) = IF y < x THEN 1 ELSE 0
      BY <1>1, <2>1, CompareValues
    <2>3. Value(i, f) \in {0, 1} /\ (x > y <=> Value(i, f) = 1)
      BY <1>2, <2>2
    <2> QED
      BY <1>3, <1>18, <2>1, <2>3, Zenon
  <1>19. CASE cc = "setuge"
    <2>1. i.op = "CLTEF" /\ i.s1 = r /\ i.s2 = l /\ ~FPCompare[cc].invert
      BY <1>19, FPConditions DEF Compare, I, Cmp
    <2>2. Value(i, f) = IF y <= x THEN 1 ELSE 0
      BY <1>1, <2>1, CompareValues
    <2>3. Value(i, f) \in {0, 1} /\ (x >= y <=> Value(i, f) = 1)
      BY <1>2, <2>2
    <2> QED
      BY <1>3, <1>19, <2>1, <2>3, Zenon
  <1> QED
    BY <1>4, <1>5, <1>6, <1>7, <1>8, <1>9, <1>10, <1>11, <1>12,
       <1>13, <1>14, <1>15, <1>16, <1>17, <1>18, <1>19, FPConditions

\* The same for floats, which are ordered as their ranks; the value patterns of
\* setogt and setoge are the ones that are exchanged.
THEOREM FPCompareTable ==
  ASSUME NEW cc \in DOMAIN FPCompare, NEW l \in Regs, NEW r \in Regs, NEW d \in Regs,
         NEW f \in [Regs -> Word]
  PROVE  LET v == Value(Compare(FPCompare[cc], l, r, d)[1], f)
             meant == IF cc = "setogt" THEN "setoge" ELSE IF cc = "setoge" THEN "setogt" ELSE cc
         IN  /\ v \in {0, 1}
             /\ Holds(meant, TRUE, f[l], f[r]) <=> IF FPCompare[cc].invert THEN v = 0 ELSE v = 1
  <1> DEFINE meant == IF cc = "setogt" THEN "setoge" ELSE IF cc = "setoge" THEN "setogt" ELSE cc
  <1> SUFFICES ASSUME NEW i, i = Compare(FPCompare[cc], l, r, d)[1]
               PROVE  /\ Value(i, f) \in {0, 1}
                      /\ Holds(meant, TRUE, f[l], f[r])
                           <=> IF FPCompare[cc].invert THEN Value(i, f) = 0 ELSE Value(i, f) = 1
    OBVIOUS
  <1>1. PICK m : m = meant
    OBVIOUS
  <1>2. Says(FPCompare[cc], Value(i, f), Holds(m, TRUE, f[l], f[r]))
    BY <1>1, FPCompareValue
  <1>3. Says(FPCompare[cc], Value(i, f), Holds(meant, TRUE, f[l], f[r]))
    BY <1>1, <1>2
  <1> HIDE DEF meant
  <1> QED
    BY <1>3, Zenon DEF Says

\* What instruction i puts into its register, with the immediate that selection
\* gave it; a select and the PHI of its diamond choose by register c.
Result(i, r) ==
  CASE i.op = "MOVi32imm" -> i.imm
    [] i.op = "Select_CC" -> IF r["c"] = 0 THEN r[i.s2] ELSE r[i.s1]
    [] i.op = "PHI" -> IF r["c"] = 0 THEN r[i.s1] ELSE r[i.s2]
    [] OTHER -> Value([i EXCEPT !.text = i.imm], r)

\* The registers after an instruction.
Effect(i, r) ==
  IF i.op \in Branches THEN r
  ELSE [q \in Regs |-> IF q = i.dst THEN Result(i, r) ELSE r[q]]

\* Instructions s take registers r to r2.
Runs(s, r, r2) ==
  \E t : /\ t[1] = r /\ t[Len(s) + 1] = r2
         /\ \A i \in 1..Len(s) : t[i + 1] = Effect(s[i], t[i])

\* No instruction changes nothing.
LEMMA RunsNone ==
  ASSUME NEW r, NEW r2
  PROVE  Runs(<<>>, r, r2) <=> r2 = r
  <1>1. Len(<<>>) = 0 /\ 1..0 = {} /\ 0 + 1 = 1
    OBVIOUS
  <1>2. ASSUME Runs(<<>>, r, r2) PROVE r2 = r
    BY <1>1, <1>2 DEF Runs
  <1>3. ASSUME r2 = r PROVE Runs(<<>>, r, r2)
    <2> DEFINE t == [i \in 1..1 |-> r]
    <2>1. t[1] = r
      OBVIOUS
    <2> HIDE DEF t
    <2> QED
      BY <1>1, <1>3, <2>1 DEF Runs
  <1> QED
    BY <1>2, <1>3

\* One instruction.
LEMMA RunsOne ==
  ASSUME NEW i, NEW r, NEW r2
  PROVE  Runs(<<i>>, r, r2) <=> r2 = Effect(i, r)
  <1>0. PICK s : s = <<i>>
    OBVIOUS
  <1>1. Len(s) = 1 /\ 1..1 = {1} /\ 1 + 1 = 2 /\ s[1] = i
    BY <1>0
  <1>2. ASSUME Runs(s, r, r2) PROVE r2 = Effect(i, r)
    <2>1. PICK t : /\ t[1] = r /\ t[Len(s) + 1] = r2
                   /\ \A k \in 1..Len(s) : t[k + 1] = Effect(s[k], t[k])
      BY <1>2 DEF Runs
    <2>2. t[1 + 1] = Effect(s[1], t[1])
      BY <2>1, <1>1
    <2> QED
      BY <1>1, <2>1, <2>2
  <1>3. ASSUME r2 = Effect(i, r) PROVE Runs(s, r, r2)
    <2> DEFINE t == [k \in 1..2 |-> IF k = 1 THEN r ELSE r2]
    <2>1. t[1] = r /\ t[2] = r2
      OBVIOUS
    <2> HIDE DEF t
    <2>2. \A k \in 1..Len(s) : t[k + 1] = Effect(s[k], t[k])
      BY <1>1, <1>3, <2>1
    <2> QED
      BY <1>1, <2>1, <2>2 DEF Runs
  <1> QED
    BY <1>0, <1>2, <1>3

\* Instructions after instructions.
LEMMA RunsThen ==
  ASSUME NEW T, NEW s \in Seq(T), NEW u \in Seq(T), NEW r, NEW r2
  PROVE  Runs(s \o u, r, r2) <=> \E q : Runs(s, r, q) /\ Runs(u, q, r2)
  <1>1. PICK w : w = s \o u
    OBVIOUS
  <1>2. /\ Len(s) \in Nat /\ Len(u) \in Nat /\ Len(w) = Len(s) + Len(u)
        /\ \A k \in 1..Len(s) : w[k] = s[k]
        /\ \A k \in 1..Len(u) : w[Len(s) + k] = u[k]
    BY <1>1
  <1>3. PICK m, n : m = Len(s) /\ n = Len(u)
    OBVIOUS
  <1>4. m \in Nat /\ n \in Nat /\ Len(w) = m + n
    BY <1>2, <1>3
  <1>5. ASSUME Runs(w, r, r2) PROVE \E q : Runs(s, r, q) /\ Runs(u, q, r2)
    <2>1. PICK t : /\ t[1] = r /\ t[(m + n) + 1] = r2
                   /\ \A k \in 1..(m + n) : t[k + 1] = Effect(w[k], t[k])
      BY <1>4, <1>5 DEF Runs
    <2>2. \A k \in 1..m : t[k + 1] = Effect(s[k], t[k])
      BY <1>2, <1>3, <1>4, <2>1
    <2>3. Runs(s, r, t[m + 1])
      BY <1>3, <2>1, <2>2 DEF Runs
    <2> DEFINE v == [k \in 1..(n + 1) |-> t[m + k]]
    <2>4. \A k \in 1..(n + 1) : v[k] = t[m + k]
      OBVIOUS
    <2> HIDE DEF v
    <2>5. v[1] = t[m + 1] /\ v[n + 1] = r2
      <3>1. m + (n + 1) = (m + n) + 1 /\ 1 \in 1..(n + 1) /\ n + 1 \in 1..(n + 1)
        BY <1>4
      <3> QED
        BY <3>1, <2>1, <2>4
    <2>6. ASSUME NEW k \in 1..n PROVE v[k + 1] = Effect(u[k], v[k])
      <3>1. /\ k \in 1..(n + 1) /\ k + 1 \in 1..(n + 1) /\ m + k \in 1..(m + n)
            /\ (m + k) + 1 = m + (k + 1)
        BY <1>4
      <3>2. t[(m + k) + 1] = Effect(w[m + k], t[m + k])
        BY <3>1, <2>1
      <3>3. w[m + k] = u[k]
        BY <1>2, <1>3
      <3> QED
        BY <3>1, <3>2, <3>3, <2>4
    <2>7. Runs(u, t[m + 1], r2)
      BY <1>3, <2>5, <2>6 DEF Runs
    <2> QED
      BY <2>3, <2>7
  <1>6. ASSUME NEW q, Runs(s, r, q), Runs(u, q, r2) PROVE Runs(w, r, r2)
    <2>1. PICK t : /\ t[1] = r /\ t[m + 1] = q
                   /\ \A k \in 1..m : t[k + 1] = Effect(s[k], t[k])
      BY <1>3, <1>6 DEF Runs
    <2>2. PICK v : /\ v[1] = q /\ v[n + 1] = r2
                   /\ \A k \in 1..n : v[k + 1] = Effect(u[k], v[k])
      BY <1>3, <1>6 DEF Runs
    <2> DEFINE h == [k \in 1..((m + n) + 1) |-> IF k <= m THEN t[k] ELSE v[k - m]]
    <2>3. \A k \in 1..((m + n) + 1) : h[k] = IF k <= m THEN t[k] ELSE v[k - m]
      OBVIOUS
    <2> HIDE DEF h
    <2>4. \A k \in 1..(m + 1) : h[k] = t[k]
      <3>1. \A k \in 1..(m + 1) : k \in 1..((m + n) + 1) /\ (k > m => k = m + 1 /\ k - m = 1)
        BY <1>4
      <3> QED
        BY <3>1, <2>1, <2>2, <2>3, <1>4
    <2>5. \A k \in 1..(n + 1) : h[m + k] = v[k]
      <3>1. \A k \in 1..(n + 1) : m + k \in 1..((m + n) + 1) /\ ~(m + k <= m) /\ (m + k) - m = k
        BY <1>4
      <3> QED
        BY <3>1, <2>3
    <2>6. h[1] = r /\ h[(m + n) + 1] = r2
      <3>1. 1 \in 1..(m + 1) /\ n + 1 \in 1..(n + 1) /\ m + (n + 1) = (m + n) + 1
        BY <1>4
      <3> QED
        BY <3>1, <2>1, <2>2, <2>4, <2>5
    <2>7. ASSUME NEW k \in 1..(m + n) PROVE h[k + 1] = Effect(w[k], h[k])
      <3>1. CASE k <= m
        <4>1. k \in 1..m /\ k \in 1..(m + 1) /\ k + 1 \in 1..(m + 1)
          BY <3>1, <1>4
        <4>2. w[k] = s[k] /\ h[k] = t[k] /\ h[k + 1] = t[k + 1]
          BY <4>1, <1>2, <1>3, <2>4
        <4> QED
          BY <4>1, <4>2, <2>1
      <3>2. CASE ~(k <= m)
        <4>1. PICK j : j = k - m
          OBVIOUS
        <4>2. j \in 1..n /\ j \in 1..(n + 1) /\ j + 1 \in 1..(n + 1) /\ k = m + j /\ k + 1 = m + (j + 1)
          BY <3>2, <4>1, <1>4
        <4>3. w[k] = u[j] /\ h[k] = v[j] /\ h[k + 1] = v[j + 1]
          BY <4>2, <1>2, <1>3, <2>5
        <4> QED
          BY <4>2, <4>3, <2>2
      <3> QED
        BY <3>1, <3>2
    <2> QED
      BY <1>4, <2>6, <2>7 DEF Runs
  <1> QED
    BY <1>1, <1>5, <1>6

\* Code of the same effects.
LEMMA RunsSame ==
  ASSUME NEW s, NEW u, Len(s) = Len(u),
         \A i \in 1..Len(s) : \A r : Effect(s[i], r) = Effect(u[i], r),
         NEW r, NEW r2
  PROVE  Runs(s, r, r2) <=> Runs(u, r, r2)
  <1>1. ASSUME Runs(s, r, r2) PROVE Runs(u, r, r2)
    <2>1. PICK t : /\ t[1] = r /\ t[Len(s) + 1] = r2
                   /\ \A k \in 1..Len(s) : t[k + 1] = Effect(s[k], t[k])
      BY <1>1 DEF Runs
    <2>2. \A k \in 1..Len(u) : t[k + 1] = Effect(u[k], t[k])
      BY <2>1
    <2> QED
      BY <2>1, <2>2 DEF Runs
  <1>2. ASSUME Runs(u, r, r2) PROVE Runs(s, r, r2)
    <2>1. PICK t : /\ t[1] = r /\ t[Len(u) + 1] = r2
                   /\ \A k \in 1..Len(u) : t[k + 1] = Effect(u[k], t[k])
      BY <1>2 DEF Runs
    <2>2. \A k \in 1..Len(s) : t[k + 1] = Effect(s[k], t[k])
      BY <2>1
    <2> QED
      BY <2>1, <2>2 DEF Runs
  <1> QED
    BY <1>1, <1>2

\* OR puts a low part below a multiple of a power of two.
Joins(h) ==
  \A x \in Nat, y \in 0..(h - 1) :
    x * h + y \in Word => BitOp("or", x * h, y) = x * h + y

\* What joins at m joins at 2 * m.
LEMMA JoinsTwice ==
  ASSUME NEW m \in Nat \ {0}, Joins(m)
  PROVE  Joins(2 * m)
  <1>1. SUFFICES ASSUME NEW x \in Nat, NEW y \in 0..(2 * m - 1), x * (2 * m) + y \in Word
                 PROVE  BitOp("or", x * (2 * m), y) = x * (2 * m) + y
    BY DEF Joins
  <1>2. PICK z, u : z = x * m /\ u = x * (2 * m)
    OBVIOUS
  <1>3. z \in Nat /\ u \in Nat /\ u = 2 * z
    BY <1>2
  <1>4. PICK q, b : q = y \div 2 /\ b = y % 2
    OBVIOUS
  <1>5. y \in Nat /\ q \in 0..(m - 1) /\ b \in {0, 1} /\ y = 2 * q + b
    BY <1>4
  <1>6. u \div 2 = z /\ u % 2 = 0
    BY <1>3
  <1>7. u \in Word /\ y \in Word /\ z + q \in Word
    <2>1. u + y \in Word
      BY <1>1, <1>2
    <2>2. PICK w \in Nat : Word = 0..w
      <3>1. Half * Half - 1 \in Nat
        BY WordFacts
      <3> QED
        BY <3>1 DEF Word
    <2> QED
      BY <1>3, <1>5, <2>1, <2>2
  <1>8. BitOp("or", z, q) = z + q
    BY <1>2, <1>5, <1>7 DEF Joins
  <1>9. BitOp("or", u, y) =
          IF u = 0 /\ y = 0 THEN 0 ELSE BitOfBits("or", 0, b) + 2 * BitOp("or", z, q)
    <2>1. BitOp("or", u, y) =
            IF u = 0 /\ y = 0 THEN 0
            ELSE BitOfBits("or", u % 2, y % 2) + 2 * BitOp("or", u \div 2, y \div 2)
      BY <1>7, BitOpNext, Zenon
    <2> QED
      BY <1>4, <1>6, <2>1
  <1>10. BitOfBits("or", 0, b) = b
    BY <1>5 DEF BitOfBits, Bool
  <1>11. BitOp("or", u, y) = u + y
    BY <1>3, <1>5, <1>8, <1>9, <1>10
  <1> QED
    BY <1>2, <1>11

\* A power of two joins.
LEMMA JoinsAt ==
  ASSUME NEW h, Power2(h)
  PROVE  Joins(h)
  <1> DEFINE Bad == {k \in Nat : Power2(k) /\ ~Joins(k)}
  <1>1. SUFFICES ASSUME Bad # {} PROVE FALSE
    BY DEF Power2
  <1>2. PICK k \in Bad : \A j \in Bad : ~(j < k)
    <2>1. Bad \subseteq Nat
      OBVIOUS
    <2> HIDE DEF Bad
    <2> QED
      BY <1>1, <2>1, LeastOf
  <1>3. k \in Nat /\ Power2(k) /\ ~Joins(k)
    BY <1>2
  <1>4. k # 1
    <2>1. Joins(1)
      <3>1. \A x \in Nat : x * 1 = x /\ x + 0 = x
        OBVIOUS
      <3>2. 0..(1 - 1) = {0}
        OBVIOUS
      <3> QED
        BY <3>1, <3>2, OrZero DEF Joins
    <2> QED
      BY <2>1, <1>3
  <1>5. PICK g : g = k \div 2
    OBVIOUS
  <1>6. g \in Nat \ {0} /\ k = 2 * g /\ g < k /\ Power2(g)
    BY <1>3, <1>4, <1>5, PowerHalf
  <1>7. Joins(g)
    BY <1>2, <1>6
  <1> QED
    BY <1>3, <1>6, <1>7, JoinsTwice

\* OR of the two halves of a word is the word.
LEMMA OrHalves ==
  ASSUME NEW c \in Word
  PROVE  /\ HI16(c) * Half \in Word /\ LO16(c) \in Word
         /\ BitOp("or", HI16(c) * Half, LO16(c)) = c
         /\ c % Half = 0 => HI16(c) * Half = c
  <1>1. Half \in Nat \ {0} /\ c \in Nat
    BY WordFacts DEF Word
  <1> DEFINE q == HI16(c)
             r == LO16(c)
  <1>2. q \in Field /\ r \in Field
    BY HalfFacts
  <1>3. c = q * Half + r /\ (c % Half = 0 => r = 0)
    BY <1>1, DivMod DEF HI16, LO16
  <1> HIDE DEF q, r
  <1>4. q \in Nat /\ r \in 0..(Half - 1)
    BY <1>1, <1>2 DEF Field
  <1>5. PICK z : z = q * Half
    OBVIOUS
  <1>6. z \in Nat /\ c = z + r
    BY <1>1, <1>3, <1>4, <1>5
  <1>7. z \in Word /\ r \in Word
    BY <1>4, <1>6, WordFacts DEF Word
  <1>8. Joins(Half)
    <2>1. Power2(Half)
      BY SelectAssumption DEF Power2
    <2> QED
      BY <2>1, JoinsAt
  <1>9. BitOp("or", z, r) = c
    BY <1>3, <1>4, <1>5, <1>8 DEF Joins
  <1>10. c % Half = 0 => z = c
    BY <1>3, <1>6
  <1>11. /\ z \in Word /\ r \in Word /\ BitOp("or", z, r) = c /\ (c % Half = 0 => z = c)
    BY <1>7, <1>9, <1>10
  <1> QED
    BY <1>5, <1>11 DEF q, r

\* 0 OR a field is the field.
LEMMA ZeroOr ==
  ASSUME NEW y \in Field
  PROVE  BitOp("or", 0, y) = y
  <1>1. y \in Word /\ y % Half = y
    BY FieldFacts
  <1>2. Half \in Nat \ {0} /\ y \in 0..(Half - 1) /\ 0 \in Int
    BY WordFacts DEF Field
  <1>3. y \div Half = 0
    <2>1. (0 * Half + y) \div Half = 0
      BY <1>2, DivModUnique
    <2>2. 0 * Half + y = y
      BY <1>2
    <2> QED
      BY <2>1, <2>2
  <1>4. HI16(y) * Half = 0 /\ LO16(y) = y
    BY <1>1, <1>2, <1>3 DEF HI16, LO16
  <1> QED
    BY <1>1, <1>4, OrHalves

\* The operations on 0 and 1.
LEMMA BitOpBits ==
  ASSUME NEW x \in {0, 1}, NEW y \in {0, 1}
  PROVE  /\ x \in Word
         /\ BitOp("and", x, y) = IF x = 1 /\ y = 1 THEN 1 ELSE 0
         /\ BitOp("xor", x, 1) = 1 - x
  <1>1. 0 \in Word /\ 1 \in Word
    BY WordFacts DEF Word
  <1>2. 0 % 2 = 0 /\ 0 \div 2 = 0 /\ 1 % 2 = 1 /\ 1 \div 2 = 0
    OBVIOUS
  <1>3. \A op : BitOp(op, 0, 0) = 0
    BY <1>1, BitOpNext
  <1>4. ASSUME NEW op, NEW u \in {0, 1}, NEW v \in {0, 1}
        PROVE  BitOp(op, u, v) = IF u = 0 /\ v = 0 THEN 0 ELSE BitOfBits(op, u, v)
    <2>1. u \in Word /\ v \in Word
      BY <1>1
    <2>2. BitOp(op, u, v) = IF u = 0 /\ v = 0 THEN 0
            ELSE BitOfBits(op, u % 2, v % 2) + 2 * BitOp(op, u \div 2, v \div 2)
      BY <2>1, BitOpNext, Zenon
    <2>3. u % 2 = u /\ u \div 2 = 0 /\ v % 2 = v /\ v \div 2 = 0
      BY <1>2
    <2>4. BitOfBits(op, u, v) \in Int
      BY DEF BitOfBits, Bool
    <2> QED
      BY <1>3, <2>2, <2>3, <2>4
  <1>5. /\ BitOfBits("and", x, y) = IF x = 1 /\ y = 1 THEN 1 ELSE 0
        /\ BitOfBits("xor", x, 1) = 1 - x
    BY DEF BitOfBits, Bool
  <1>6. BitOp("and", x, y) = IF x = 0 /\ y = 0 THEN 0 ELSE BitOfBits("and", x, y)
    BY <1>4
  <1>7. BitOp("xor", x, 1) = BitOfBits("xor", x, 1)
    BY <1>4
  <1> QED
    BY <1>1, <1>5, <1>6, <1>7

\* Sums and products of words may wrap before or after.
LEMMA WrapFacts ==
  ASSUME NEW t \in Int
  PROVE  /\ Wrap(t) \in Word
         /\ \A x \in Int : Wrap(x + t) = Wrap(x + Wrap(t))
         /\ Wrap(t * Half) = Wrap(Wrap(t) * Half)
  <1>1. PICK m : m = Half * Half
    OBVIOUS
  <1>2. m \in Nat \ {0} /\ Word = 0..(m - 1) /\ Half \in Nat
    BY <1>1, WordFacts DEF Word
  <1>3. \A x : Wrap(x) = x % m
    BY <1>1 DEF Wrap
  <1>4. PICK q, w : q = t \div m /\ w = t % m
    OBVIOUS
  <1>5. q \in Int /\ w \in 0..(m - 1) /\ t = q * m + w
    BY <1>2, <1>4, DivMod
  <1>6. ASSUME NEW x \in Int PROVE (x + t) % m = (x + w) % m
    <2>1. x + t = (x + w) + (q * m) /\ x + w \in Int
      BY <1>2, <1>5
    <2> QED
      BY <1>2, <1>5, <2>1, ModShift, ZenonT(40)
  <1>7. (t * Half) % m = (w * Half) % m
    <2>1. t * Half = (w * Half) + ((q * Half) * m) /\ w * Half \in Int /\ q * Half \in Int
      BY <1>2, <1>5
    <2> QED
      BY <1>2, <2>1, ModShift
  <1> QED
    BY <1>2, <1>3, <1>4, <1>5, <1>6, <1>7

\* What an instruction with its immediate does, by its operation.
Computes(op, x, y, t, v) ==
  /\ op \in {"ADDi", "ADDiu", "LDW"} => v = Wrap(x + t)
  /\ op = "ADDu" => v = Wrap(x + y)
  /\ op = "MVUi" => v = Wrap(t * Half)
  /\ op = "ANDi" => v = BitOp("and", x, Wrap(t))
  /\ op = "ORi" => v = BitOp("or", x, Wrap(t))
  /\ op = "XORi" => v = BitOp("xor", x, Wrap(t))
  /\ op = "AND" => v = BitOp("and", x, y)
  /\ op = "OR" => v = BitOp("or", x, y)
  /\ op = "XOR" => v = BitOp("xor", x, y)
  /\ op = "NOR" => v = BitOp("xor", MinusOne, BitOp("or", x, y))

\* The opcode that a logic node selects is the one that computes it.
LEMMA LogicNames ==
  /\ (CHOOSE op \in DOMAIN LogicI : LogicI[op] = "ANDi") = "and"
  /\ (CHOOSE op \in DOMAIN LogicI : LogicI[op] = "ORi") = "or"
  /\ (CHOOSE op \in DOMAIN LogicI : LogicI[op] = "XORi") = "xor"
  /\ (CHOOSE op \in DOMAIN LogicR : LogicR[op] = "AND") = "and"
  /\ (CHOOSE op \in DOMAIN LogicR : LogicR[op] = "OR") = "or"
  /\ (CHOOSE op \in DOMAIN LogicR : LogicR[op] = "XOR") = "xor"
  <1>1. /\ DOMAIN LogicI = {"and", "or", "xor"} /\ DOMAIN LogicR = {"and", "or", "xor"}
        /\ LogicI["and"] = "ANDi" /\ LogicI["or"] = "ORi" /\ LogicI["xor"] = "XORi"
        /\ LogicR["and"] = "AND" /\ LogicR["or"] = "OR" /\ LogicR["xor"] = "XOR"
    BY DEF LogicI, LogicR
  <1> QED
    BY <1>1

\* What an instruction puts into its register, opcode by opcode.
LEMMA ValueComputes ==
  ASSUME NEW i, NEW r
  PROVE  Computes(i.op, r[i.s1], r[i.s2], i.text, Value(i, r))
  <1>1. i.op \in {"ADDi", "ADDiu", "LDW"} => Value(i, r) = Wrap(r[i.s1] + i.text)
    BY DEF Value
  <1>2. i.op = "ADDu" => Value(i, r) = Wrap(r[i.s1] + r[i.s2])
    BY DEF Value
  <1>3. i.op = "MVUi" => Value(i, r) = Wrap(i.text * Half)
    BY DEF Value
  <1>4. i.op \in {"ANDi", "ORi", "XORi"} =>
          Value(i, r) = BitOp(CHOOSE op \in DOMAIN LogicI : LogicI[op] = i.op, r[i.s1], Wrap(i.text))
    BY DEF Value
  <1>5. i.op \in {"AND", "OR", "XOR"} =>
          Value(i, r) = BitOp(CHOOSE op \in DOMAIN LogicR : LogicR[op] = i.op, r[i.s1], r[i.s2])
    BY DEF Value
  <1>6. i.op = "NOR" => Value(i, r) = BitOp("xor", MinusOne, BitOp("or", r[i.s1], r[i.s2]))
    BY DEF Value
  <1>7. i.op = "ANDi" => Value(i, r) = BitOp("and", r[i.s1], Wrap(i.text))
    <2>1. SUFFICES ASSUME i.op = "ANDi" PROVE Value(i, r) = BitOp("and", r[i.s1], Wrap(i.text))
      OBVIOUS
    <2>2. (CHOOSE op \in DOMAIN LogicI : LogicI[op] = i.op) = "and"
      BY <2>1, LogicNames
    <2> QED
      BY <1>4, <2>1, <2>2
  <1>8. i.op = "ORi" => Value(i, r) = BitOp("or", r[i.s1], Wrap(i.text))
    <2>1. SUFFICES ASSUME i.op = "ORi" PROVE Value(i, r) = BitOp("or", r[i.s1], Wrap(i.text))
      OBVIOUS
    <2>2. (CHOOSE op \in DOMAIN LogicI : LogicI[op] = i.op) = "or"
      BY <2>1, LogicNames
    <2> QED
      BY <1>4, <2>1, <2>2
  <1>9. i.op = "XORi" => Value(i, r) = BitOp("xor", r[i.s1], Wrap(i.text))
    <2>1. SUFFICES ASSUME i.op = "XORi" PROVE Value(i, r) = BitOp("xor", r[i.s1], Wrap(i.text))
      OBVIOUS
    <2>2. (CHOOSE op \in DOMAIN LogicI : LogicI[op] = i.op) = "xor"
      BY <2>1, LogicNames
    <2> QED
      BY <1>4, <2>1, <2>2
  <1>10. i.op = "AND" => Value(i, r) = BitOp("and", r[i.s1], r[i.s2])
    <2>1. SUFFICES ASSUME i.op = "AND" PROVE Value(i, r) = BitOp("and", r[i.s1], r[i.s2])
      OBVIOUS
    <2>2. (CHOOSE op \in DOMAIN LogicR : LogicR[op] = i.op) = "and"
      BY <2>1, LogicNames
    <2> QED
      BY <1>5, <2>1, <2>2
  <1>11. i.op = "OR" => Value(i, r) = BitOp("or", r[i.s1], r[i.s2])
    <2>1. SUFFICES ASSUME i.op = "OR" PROVE Value(i, r) = BitOp("or", r[i.s1], r[i.s2])
      OBVIOUS
    <2>2. (CHOOSE op \in DOMAIN LogicR : LogicR[op] = i.op) = "or"
      BY <2>1, LogicNames
    <2> QED
      BY <1>5, <2>1, <2>2
  <1>12. i.op = "XOR" => Value(i, r) = BitOp("xor", r[i.s1], r[i.s2])
    <2>1. SUFFICES ASSUME i.op = "XOR" PROVE Value(i, r) = BitOp("xor", r[i.s1], r[i.s2])
      OBVIOUS
    <2>2. (CHOOSE op \in DOMAIN LogicR : LogicR[op] = i.op) = "xor"
      BY <2>1, LogicNames
    <2> QED
      BY <1>5, <2>1, <2>2
  <1> QED
    BY <1>1, <1>2, <1>3, <1>6, <1>7, <1>8, <1>9, <1>10, <1>11, <1>12 DEF Computes

\* The registers of r2 are those of r, but for some in D.
Keeps(r, r2, D) == r2 \in [Regs -> Word] /\ \A q \in Regs \ D : r2[q] = r[q]

\* Opcodes that do not just compute.
Special == Branches \cup {"MOVi32imm", "Select_CC", "PHI"}

\* The instruction puts its result into its register.
LEMMA EffectOf ==
  ASSUME NEW i, i.op \notin Branches, i.dst \in Regs, NEW r \in [Regs -> Word], Result(i, r) \in Word
  PROVE  Keeps(r, Effect(i, r), {i.dst}) /\ Effect(i, r)[i.dst] = Result(i, r)
  <1>1. PICK w \in Word : w = Result(i, r)
    OBVIOUS
  <1>2. PICK d \in Regs : d = i.dst
    OBVIOUS
  <1>3. Effect(i, r) = [q \in Regs |-> IF q = d THEN w ELSE r[q]]
    BY <1>1, <1>2 DEF Effect
  <1> QED
    BY <1>1, <1>2, <1>3 DEF Keeps

\* An instruction with an immediate has the result of one that reads it.
LEMMA PlainResult ==
  ASSUME NEW op, op \notin Special, NEW d, NEW s1, NEW s2, NEW imm, NEW r
  PROVE  /\ Computes(op, r[s1], r[s2], imm, Result(I(op, d, s1, s2, imm), r))
         /\ imm = 0 => Result(I(op, d, s1, s2, imm), r) = Value(I(op, d, s1, s2, imm), r)
  <1>1. PICK i : i = I(op, d, s1, s2, imm)
    OBVIOUS
  <1>2. i.op = op /\ i.s1 = s1 /\ i.s2 = s2 /\ i.imm = imm /\ i.text = 0
    BY <1>1 DEF I
  <1>3. PICK j : j = [i EXCEPT !.text = imm]
    OBVIOUS
  <1>4. j.op = op /\ j.s1 = s1 /\ j.s2 = s2 /\ j.text = imm
    BY <1>1, <1>3 DEF I
  <1>5. Result(i, r) = Value(j, r)
    BY <1>2, <1>3 DEF Result, Special
  <1>6. imm = 0 => j = i
    BY <1>1, <1>3 DEF I
  <1>7. Computes(j.op, r[j.s1], r[j.s2], j.text, Value(j, r))
    BY ValueComputes
  <1>8. Computes(op, r[s1], r[s2], imm, Result(i, r))
    BY <1>4, <1>5, <1>7
  <1> QED
    BY <1>1, <1>5, <1>6, <1>8

\* One instruction that computes w leaves w.
LEMMA OneRuns ==
  ASSUME NEW op, op \notin Special, NEW d \in Regs, NEW s1, NEW s2, NEW imm,
         NEW r \in [Regs -> Word], NEW r2, Runs(<<I(op, d, s1, s2, imm)>>, r, r2), NEW w \in Word,
         \A v : Computes(op, r[s1], r[s2], imm, v) => v = w
  PROVE  Keeps(r, r2, {d}) /\ r2[d] = w
  <1>1. PICK i : i = I(op, d, s1, s2, imm)
    OBVIOUS
  <1>2. i.op = op /\ i.dst = d
    BY <1>1 DEF I
  <1>3. r2 = Effect(i, r)
    BY <1>1, RunsOne
  <1>4. Result(i, r) = w
    BY <1>1, PlainResult
  <1>5. op \notin Branches
    BY DEF Special
  <1> QED
    BY <1>2, <1>3, <1>4, <1>5, EffectOf

\* One compare.
LEMMA OneCompareRuns ==
  ASSUME NEW op, op \notin Special, NEW d \in Regs, NEW s1, NEW s2,
         NEW r \in [Regs -> Word], NEW r2, Runs(<<I(op, d, s1, s2, 0)>>, r, r2),
         Value(I(op, d, s1, s2, 0), r) \in Word
  PROVE  Keeps(r, r2, {d}) /\ r2[d] = Value(I(op, d, s1, s2, 0), r)
  <1>1. PICK i : i = I(op, d, s1, s2, 0)
    OBVIOUS
  <1>2. i.op = op /\ i.dst = d
    BY <1>1 DEF I
  <1>3. r2 = Effect(i, r)
    BY <1>1, RunsOne
  <1>4. Result(i, r) = Value(i, r)
    BY <1>1, PlainResult
  <1>5. op \notin Branches
    BY DEF Special
  <1> QED
    BY <1>1, <1>2, <1>3, <1>4, <1>5, EffectOf

\* Registers that two runs keep, their sequence keeps.
LEMMA KeepsThen ==
  ASSUME NEW r, NEW q, NEW r2, NEW D, NEW E, Keeps(r, q, D), Keeps(q, r2, E)
  PROVE  Keeps(r, r2, D \cup E)
  BY DEF Keeps

\* Keeping all registers but D is keeping all but more.
LEMMA KeepsMore ==
  ASSUME NEW r, NEW r2, NEW D, NEW E, Keeps(r, r2, D), D \subseteq E
  PROVE  Keeps(r, r2, E)
  BY DEF Keeps

\* A constant, whatever instruction or pair of instructions it takes.
LEMMA ConstantRuns ==
  ASSUME NEW c \in Word, NEW d \in Regs, NEW s \in Constant(c, d),
         NEW r \in [Regs -> Word], r["zero"] = 0, NEW r2, Runs(s, r, r2)
  PROVE  Keeps(r, r2, {d}) /\ r2[d] = c
  <1>1. /\ c \in Int /\ 0 + c = c /\ Wrap(c) = c
        /\ LO16(c) \in Field /\ HI16(c) \in Field
    BY WordFacts, WrapWord, HalfFacts DEF Word
  <1>2. CASE s = <<I("ADDi", d, "zero", "zero", c)>>
    <2>1. \A v : Computes("ADDi", r["zero"], r["zero"], c, v) => v = c
      BY <1>1 DEF Computes
    <2>2. "ADDi" \notin Special
      BY DEF Special, Branches
    <2> QED
      BY <1>2, <2>1, <2>2, OneRuns
  <1>3. CASE immZExt16(c) /\ s = <<I("ORi", d, "zero", "zero", LO16(c))>>
    <2>0. LO16(c) = c
      BY <1>3 DEF immZExt16, LO16
    <2>1. \A v : Computes("ORi", r["zero"], r["zero"], c, v) => v = c
      BY <1>1, <2>0, ZeroOr DEF Computes
    <2>2. "ORi" \notin Special
      BY DEF Special, Branches
    <2> QED
      BY <1>3, <2>0, <2>1, <2>2, OneRuns
  <1>4. CASE immUpperHalfword(c) /\ s = <<I("MVUi", d, "zero", "zero", HI16(c))>>
    <2>0. HI16(c) * Half = c
      BY <1>4, OrHalves DEF immUpperHalfword
    <2>1. \A v : Computes("MVUi", r["zero"], r["zero"], HI16(c), v) => v = c
      BY <1>1, <2>0 DEF Computes
    <2>2. "MVUi" \notin Special
      BY DEF Special, Branches
    <2> QED
      BY <1>4, <2>1, <2>2, OneRuns
  <1>5. CASE s = <<I("MOVi32imm", d, "zero", "zero", c)>>
    <2>1. PICK i : i = I("MOVi32imm", d, "zero", "zero", c)
      OBVIOUS
    <2>2. i.op = "MOVi32imm" /\ i.dst = d /\ i.imm = c
      BY <2>1 DEF I
    <2>3. r2 = Effect(i, r)
      BY <1>5, <2>1, RunsOne
    <2>4. Result(i, r) = c
      BY <2>2 DEF Result
    <2>5. i.op \notin Branches
      BY <2>2 DEF Branches
    <2> QED
      BY <2>2, <2>3, <2>4, <2>5, EffectOf
  <1>6. \/ s = <<I("ADDi", d, "zero", "zero", c)>>
        \/ immZExt16(c) /\ s = <<I("ORi", d, "zero", "zero", LO16(c))>>
        \/ immUpperHalfword(c) /\ s = <<I("MVUi", d, "zero", "zero", HI16(c))>>
        \/ s = <<I("MOVi32imm", d, "zero", "zero", c)>>
    BY DEF Constant, When
  <1> QED
    BY <1>2, <1>3, <1>4, <1>5, <1>6

\* Bodies are sequences of instructions.
LEMMA BodyInsn == Body \subseteq Seq(Insn)
  <1>1. PlainInsn \subseteq Insn
    BY DEF PlainInsn, InsertedInsn
  <1> QED
    BY <1>1 DEF Body

\* A single instruction is such a sequence.
LEMMA OneInsn ==
  ASSUME NEW op \in Opcodes, op # "Select_CC", NEW d \in Regs, NEW s1 \in Regs, NEW s2 \in Regs
  PROVE  <<I(op, d, s1, s2, 0)>> \in Seq(Insn)
  <1>1. I(op, d, s1, s2, 0) \in Insn
    BY BuiltAny DEF InsertedInsn
  <1> QED
    BY <1>1, ShortCode

\* Code after code, each with its registers.
LEMMA ThenRuns ==
  ASSUME NEW X, NEW Y, X \subseteq Seq(Insn), Y \subseteq Seq(Insn), NEW s \in Then(X, Y),
         NEW r, NEW r2, Runs(s, r, r2)
  PROVE  \E x \in X, y \in Y : \E q : Runs(x, r, q) /\ Runs(y, q, r2)
  <1>1. \E x \in X, y \in Y : s = x \o y
    BY InThen
  <1>2. PICK x \in X, y \in Y : s = x \o y
    BY <1>1
  <1>3. x \in Seq(Insn) /\ y \in Seq(Insn)
    OBVIOUS
  <1>4. \E q : Runs(x, r, q) /\ Runs(y, q, r2)
    BY <1>2, <1>3, RunsThen
  <1> QED
    BY <1>4

\* Code before code that is given.
LEMMA ThenLast ==
  ASSUME NEW X, X \subseteq Seq(Insn), NEW y \in Seq(Insn), NEW s \in Then(X, {y}),
         NEW r, NEW r2, Runs(s, r, r2)
  PROVE  \E x \in X : \E q : Runs(x, r, q) /\ Runs(y, q, r2)
  <1>1. {y} \subseteq Seq(Insn)
    OBVIOUS
  <1>2. \E x \in X, z \in {y} : \E q : Runs(x, r, q) /\ Runs(z, q, r2)
    BY <1>1, ThenRuns
  <1> QED
    BY <1>2

\* A sum with a constant.
LEMMA AddImmediateRuns ==
  ASSUME NEW src \in Regs, src # "k", NEW c \in AddImms, NEW d \in Regs,
         NEW s \in AddImmediate(src, c, d),
         NEW r \in [Regs -> Word], r["zero"] = 0, NEW r2, Runs(s, r, r2)
  PROVE  Keeps(r, r2, {d, "k"}) /\ r2[d] = Wrap(r[src] + c)
  <1>0. c \in Word
    BY SelectAssumption
  <1>1. c \in Int /\ r[src] \in Int
    BY <1>0, WordFacts DEF Word
  <1>w. PICK w : w = Wrap(r[src] + c)
    OBVIOUS
  <1>v. w \in Word
    BY <1>1, <1>w, WrapFacts
  <1>2. CASE s = <<I("ADDi", d, src, "zero", c)>>
    <2>1. \A v : Computes("ADDi", r[src], r["zero"], c, v) => v = w
      BY <1>w DEF Computes
    <2>2. "ADDi" \notin Special
      BY DEF Special, Branches
    <2>3. Keeps(r, r2, {d}) /\ r2[d] = w
      BY <1>2, <1>v, <2>1, <2>2, OneRuns
    <2> QED
      BY <2>3, <1>w, KeepsMore
  <1>3. CASE immZExt16(c) /\ s = <<I("ADDiu", d, src, "zero", LO16(c))>>
    <2>0. LO16(c) = c
      BY <1>3 DEF immZExt16, LO16
    <2>1. \A v : Computes("ADDiu", r[src], r["zero"], c, v) => v = w
      BY <1>w DEF Computes
    <2>2. "ADDiu" \notin Special
      BY DEF Special, Branches
    <2>3. Keeps(r, r2, {d}) /\ r2[d] = w
      BY <1>3, <1>v, <2>0, <2>1, <2>2, OneRuns
    <2> QED
      BY <2>3, <1>w, KeepsMore
  <1>4. CASE s \in Then(Constant(c, "k"), {<<I("ADDu", d, src, "k", 0)>>})
    <2>r. "k" \in Regs /\ "ADDu" \in Opcodes
      BY DEF Regs, Opcodes
    <2>1. Constant(c, "k") \subseteq Seq(Insn)
      BY <1>0, <2>r, ConstantCode, BodyInsn
    <2>2. <<I("ADDu", d, src, "k", 0)>> \in Seq(Insn)
      BY <2>r, OneInsn
    <2>3. PICK x \in Constant(c, "k") : \E q : Runs(x, r, q) /\ Runs(<<I("ADDu", d, src, "k", 0)>>, q, r2)
      BY <1>4, <2>1, <2>2, ThenLast
    <2>p. PICK q : Runs(x, r, q) /\ Runs(<<I("ADDu", d, src, "k", 0)>>, q, r2)
      BY <2>3
    <2>4. Keeps(r, q, {"k"}) /\ q["k"] = c
      BY <1>0, <2>r, <2>3, <2>p, ConstantRuns
    <2>5. q \in [Regs -> Word] /\ q[src] = r[src]
      BY <2>4 DEF Keeps
    <2>6. \A v : Computes("ADDu", q[src], q["k"], 0, v) => v = w
      BY <1>w, <2>4, <2>5 DEF Computes
    <2>7. "ADDu" \notin Special
      BY DEF Special, Branches
    <2>8. Keeps(q, r2, {d}) /\ r2[d] = w
      <3>1. Runs(<<I("ADDu", d, src, "k", 0)>>, q, r2)
        BY <2>p
      <3> QED
        BY <3>1, <1>v, <2>5, <2>6, <2>7, OneRuns
    <2>9. Keeps(r, r2, {"k"} \cup {d})
      BY <2>4, <2>8, KeepsThen
    <2> QED
      BY <2>8, <2>9, <1>w, KeepsMore
  <1>5. \/ s = <<I("ADDi", d, src, "zero", c)>>
        \/ immZExt16(c) /\ s = <<I("ADDiu", d, src, "zero", LO16(c))>>
        \/ s \in Then(Constant(c, "k"), {<<I("ADDu", d, src, "k", 0)>>})
    BY DEF AddImmediate, When
  <1> QED
    BY <1>2, <1>3, <1>4, <1>5

\* A mask, or another operation, with a constant.
LEMMA LogicRuns ==
  ASSUME NEW op \in {"and", "or", "xor"}, NEW c \in Word, NEW s \in LogicImmediate(op, "a", c, "dst"),
         NEW r \in [Regs -> Word], r["zero"] = 0, NEW r2, Runs(s, r, r2)
  PROVE  Keeps(r, r2, {"dst", "k"}) /\ r2["dst"] = BitOp(op, r["a"], c)
  <1>r. {"a", "k", "dst", "zero"} \subseteq Regs
    BY DEF Regs
  <1>1. r["a"] \in Word /\ Wrap(c) = c
    BY <1>r, WrapWord
  <1>w. PICK w : w = BitOp(op, r["a"], c)
    OBVIOUS
  <1>v. w \in Word
    BY <1>1, <1>w, BitOpWord
  <1>n. /\ LogicI["and"] = "ANDi" /\ LogicI["or"] = "ORi" /\ LogicI["xor"] = "XORi"
        /\ LogicR["and"] = "AND" /\ LogicR["or"] = "OR" /\ LogicR["xor"] = "XOR"
    BY DEF LogicI, LogicR
  <1>s. /\ LogicI[op] \notin Special /\ LogicR[op] \notin Special
        /\ LogicR[op] \in Opcodes /\ LogicR[op] # "Select_CC"
    BY <1>n DEF Special, Branches, Opcodes
  <1>c. /\ \A x, y, v : Computes(LogicI[op], x, y, c, v) => v = BitOp(op, x, Wrap(c))
        /\ \A x, y, v : Computes(LogicR[op], x, y, 0, v) => v = BitOp(op, x, y)
    BY <1>n DEF Computes
  <1>2. CASE immZExt16(c) /\ s = <<I(LogicI[op], "dst", "a", "zero", LO16(c))>>
    <2>0. LO16(c) = c
      BY <1>2 DEF immZExt16, LO16
    <2>1. \A v : Computes(LogicI[op], r["a"], r["zero"], c, v) => v = w
      BY <1>c, <1>w, <1>1
    <2>3. Keeps(r, r2, {"dst"}) /\ r2["dst"] = w
      BY <1>2, <1>r, <1>s, <1>v, <2>0, <2>1, OneRuns
    <2> QED
      BY <2>3, <1>w, KeepsMore
  <1>3. CASE s \in Then(Constant(c, "k"), {<<I(LogicR[op], "dst", "a", "k", 0)>>})
    <2>1. Constant(c, "k") \subseteq Seq(Insn)
      BY <1>r, ConstantCode, BodyInsn
    <2>2. <<I(LogicR[op], "dst", "a", "k", 0)>> \in Seq(Insn)
      BY <1>r, <1>s, OneInsn
    <2>3. PICK x \in Constant(c, "k") : \E q : Runs(x, r, q) /\ Runs(<<I(LogicR[op], "dst", "a", "k", 0)>>, q, r2)
      BY <1>3, <2>1, <2>2, ThenLast
    <2>p. PICK q : Runs(x, r, q) /\ Runs(<<I(LogicR[op], "dst", "a", "k", 0)>>, q, r2)
      BY <2>3
    <2>4. Keeps(r, q, {"k"}) /\ q["k"] = c
      BY <1>r, <2>3, <2>p, ConstantRuns
    <2>5. q \in [Regs -> Word] /\ q["a"] = r["a"]
      BY <2>4, <1>r DEF Keeps
    <2>6. \A v : Computes(LogicR[op], q["a"], q["k"], 0, v) => v = w
      BY <1>c, <1>w, <2>4, <2>5
    <2>8. Keeps(q, r2, {"dst"}) /\ r2["dst"] = w
      <3>1. Runs(<<I(LogicR[op], "dst", "a", "k", 0)>>, q, r2)
        BY <2>p
      <3> QED
        BY <3>1, <1>r, <1>s, <1>v, <2>5, <2>6, OneRuns
    <2>9. Keeps(r, r2, {"k"} \cup {"dst"})
      BY <2>4, <2>8, KeepsThen
    <2> QED
      BY <2>8, <2>9, <1>w, KeepsMore
  <1>5. \/ immZExt16(c) /\ s = <<I(LogicI[op], "dst", "a", "zero", LO16(c))>>
        \/ s \in Then(Constant(c, "k"), {<<I(LogicR[op], "dst", "a", "k", 0)>>})
    BY DEF LogicImmediate
  <1> QED
    BY <1>2, <1>3, <1>5

\* The address of a load.
LEMMA SelectAddrRuns ==
  ASSUME NEW c \in AddImms, NEW s \in SelectAddr("a", c, "dst"),
         NEW r \in [Regs -> Word], r["zero"] = 0, NEW r2, Runs(s, r, r2)
  PROVE  Keeps(r, r2, {"dst", "k", "l"}) /\ r2["dst"] = Wrap(r["a"] + c)
  <1>r. {"a", "k", "l", "dst", "zero"} \subseteq Regs /\ "LDW" \in Opcodes
    BY DEF Regs, Opcodes
  <1>0. c \in Word
    BY SelectAssumption
  <1>1. c \in Int /\ r["a"] \in Int
    BY <1>0, <1>r, WordFacts DEF Word
  <1>w. PICK w : w = Wrap(r["a"] + c)
    OBVIOUS
  <1>v. w \in Word
    BY <1>1, <1>w, WrapFacts
  <1>s. "LDW" \notin Special
    BY DEF Special, Branches
  <1>2. CASE s = <<I("LDW", "dst", "a", "zero", c)>>
    <2>1. \A v : Computes("LDW", r["a"], r["zero"], c, v) => v = w
      BY <1>w DEF Computes
    <2>3. Keeps(r, r2, {"dst"}) /\ r2["dst"] = w
      BY <1>2, <1>r, <1>s, <1>v, <2>1, OneRuns
    <2> QED
      BY <2>3, <1>w, KeepsMore
  <1>3. CASE s \in Then(AddImmediate("a", c, "l"), {<<I("LDW", "dst", "l", "zero", 0)>>})
    <2>1. AddImmediate("a", c, "l") \subseteq Seq(Insn)
      BY <1>r, AddImmediateCode, BodyInsn
    <2>2. <<I("LDW", "dst", "l", "zero", 0)>> \in Seq(Insn)
      BY <1>r, OneInsn
    <2>3. PICK x \in AddImmediate("a", c, "l") : \E q : Runs(x, r, q) /\ Runs(<<I("LDW", "dst", "l", "zero", 0)>>, q, r2)
      BY <1>3, <2>1, <2>2, ThenLast
    <2>p. PICK q : Runs(x, r, q) /\ Runs(<<I("LDW", "dst", "l", "zero", 0)>>, q, r2)
      BY <2>3
    <2>4. Keeps(r, q, {"l", "k"}) /\ q["l"] = w
      BY <1>r, <1>w, <2>3, <2>p, AddImmediateRuns, SMTT(30)
    <2>5. q \in [Regs -> Word]
      BY <2>4 DEF Keeps
    <2>6. \A v : Computes("LDW", q["l"], q["zero"], 0, v) => v = w
      <3>1. w + 0 = w /\ Wrap(w) = w
        BY <1>v, WrapWord, WordFacts DEF Word
      <3> QED
        BY <2>4, <3>1 DEF Computes
    <2>8. Keeps(q, r2, {"dst"}) /\ r2["dst"] = w
      <3>1. Runs(<<I("LDW", "dst", "l", "zero", 0)>>, q, r2)
        BY <2>p
      <3> QED
        BY <3>1, <1>r, <1>s, <1>v, <2>5, <2>6, OneRuns
    <2>9. Keeps(r, r2, {"l", "k"} \cup {"dst"})
      BY <2>4, <2>8, KeepsThen
    <2> QED
      BY <2>8, <2>9, <1>w, KeepsMore
  <1>5. \/ s = <<I("LDW", "dst", "a", "zero", c)>>
        \/ s \in Then(AddImmediate("a", c, "l"), {<<I("LDW", "dst", "l", "zero", 0)>>})
    BY DEF SelectAddr
  <1> QED
    BY <1>2, <1>3, <1>5

\* Two pieces of code, the second one given.
LEMMA RunsPair ==
  ASSUME NEW x \in Seq(Insn), NEW y \in Seq(Insn), NEW r, NEW r2, Runs(x \o y, r, r2)
  PROVE  \E q : Runs(x, r, q) /\ Runs(y, q, r2)
  BY RunsThen

\* Two instructions are one after another.
LEMMA PairOf ==
  ASSUME NEW u, NEW v
  PROVE  <<u, v>> = <<u>> \o <<v>> /\ <<u, v>>[1] = u
  <1>1. PICK T : T = {u, v}
    OBVIOUS
  <1>2. PICK p, q : p = <<u>> /\ q = <<v>>
    OBVIOUS
  <1>3. p \in Seq(T) /\ q \in Seq(T) /\ Len(p) = 1 /\ Len(q) = 1 /\ p[1] = u /\ q[1] = v
    BY <1>1, <1>2
  <1>4. PICK w : w = <<u, v>>
    OBVIOUS
  <1>5. w \in Seq(T) /\ Len(w) = 2 /\ w[1] = u /\ w[2] = v
    BY <1>1, <1>4
  <1>6. /\ p \o q \in Seq(T) /\ Len(p \o q) = 2
        /\ (p \o q)[1] = u /\ (p \o q)[2] = v
    <2>1. /\ p \o q \in Seq(T) /\ Len(p \o q) = Len(p) + Len(q)
          /\ \A i \in 1..(Len(p) + Len(q)) :
               (p \o q)[i] = IF i <= Len(p) THEN p[i] ELSE q[i - Len(p)]
      BY <1>3, ConcatProperties
    <2> QED
      BY <1>3, <2>1
  <1>7. w = p \o q
    <2>1. PICK z \in Seq(T) : z = p \o q
      BY <1>6
    <2>2. Len(z) = 2 /\ z[1] = u /\ z[2] = v
      BY <1>6, <2>1
    <2>3. \A i \in 1..2 : i = 1 \/ i = 2
      OBVIOUS
    <2>4. \A i \in 1..Len(w) : w[i] = z[i]
      BY <1>5, <2>2, <2>3
    <2>5. Len(w) = Len(z)
      BY <1>5, <2>2
    <2>6. \A s1, s2 \in Seq(T) :
            Len(s1) = Len(s2) /\ (\A i \in 1..Len(s1) : s1[i] = s2[i]) => s1 = s2
      BY SeqEqual
    <2>7. w = z
      BY <1>5, <2>1, <2>4, <2>5, <2>6
    <2> QED
      BY <2>1, <2>7
  <1> QED
    BY <1>2, <1>4, <1>5, <1>7

\* The outcome of a compare whose instruction has the value v.
Compared(c, v, r, r2, d) ==
  /\ Keeps(r, r2, {d, "k"})
  /\ c.invert => r2[d] = 1 - v
  /\ ~c.invert => r2[d] = v

\* A compare leaves its value, or the opposite if the table says so.
LEMMA CompareRuns ==
  ASSUME NEW c \in Compares, c.op \notin Special, NEW s1 \in Regs, NEW s2 \in Regs,
         NEW d \in Regs, NEW r \in [Regs -> Word],
         NEW v \in {0, 1}, v = Value(Compare(c, s1, s2, d)[1], r),
         NEW r2, Runs(Compare(c, s1, s2, d), r, r2)
  PROVE  Compared(c, v, r, r2, d)
  <1>r. "k" \in Regs /\ "zero" \in Regs /\ "XORi" \in Opcodes /\ "XORi" \notin Special
    BY DEF Regs, Opcodes, UnsignedImm, Special, Branches
  <1>w. 0 \in Word /\ 1 \in Word /\ 1 \in Field /\ Wrap(1) = 1
    BY SmallFields, FieldFacts, WrapWord
  <1>c. c.op \in Opcodes /\ c.op # "Select_CC"
    BY DEF Compares
  <1>1. PICK x, y : x = (IF c.swap THEN s2 ELSE s1) /\ y = (IF c.swap THEN s1 ELSE s2)
    OBVIOUS
  <1>2. x \in Regs /\ y \in Regs
    BY <1>1
  <1>3. CASE ~c.invert
    <2>1. PICK i : i = I(c.op, d, x, y, 0)
      OBVIOUS
    <2>2. Compare(c, s1, s2, d) = <<i>> /\ Compare(c, s1, s2, d)[1] = i
      BY <1>1, <1>3, <2>1 DEF Compare
    <2>3. Value(i, r) \in Word
      BY <1>w, <2>2
    <2>4. Keeps(r, r2, {d}) /\ r2[d] = Value(i, r)
      <3>1. Runs(<<I(c.op, d, x, y, 0)>>, r, r2)
        BY <2>1, <2>2
      <3> QED
        BY <2>1, <2>3, <3>1, OneCompareRuns
    <2> QED
      BY <1>3, <2>2, <2>4, KeepsMore DEF Compared
  <1>4. CASE c.invert
    <2>1. PICK i, j : i = I(c.op, "k", x, y, 0) /\ j = I("XORi", d, "k", "zero", 1)
      OBVIOUS
    <2>2. Compare(c, s1, s2, d) = <<i>> \o <<j>> /\ Compare(c, s1, s2, d)[1] = i
      <3>1. Compare(c, s1, s2, d) = <<i, j>>
        BY <1>1, <1>4, <2>1 DEF Compare
      <3>2. \A m, n : <<m, n>> = <<m>> \o <<n>> /\ <<m, n>>[1] = m
        BY PairOf
      <3> QED
        BY <3>1, <3>2, Zenon
    <2>3. Value(i, r) \in Word /\ Value(i, r) \in {0, 1}
      BY <1>w, <2>2
    <2>4. <<i>> \in Seq(Insn)
      BY <1>2, <1>c, <1>r, <2>1, OneInsn
    <2>5. <<j>> \in Seq(Insn)
      <3>1. j \in InsertedInsn
        BY <1>r, <1>w, <2>1, Built DEF UnsignedImm
      <3>2. j \in Insn
        BY <3>1 DEF InsertedInsn
      <3> QED
        BY <3>2
    <2>6. PICK q : Runs(<<i>>, r, q) /\ Runs(<<j>>, q, r2)
      BY <2>2, <2>4, <2>5, RunsPair
    <2>7. Keeps(r, q, {"k"}) /\ q["k"] = Value(i, r)
      <3>1. Runs(<<I(c.op, "k", x, y, 0)>>, r, q)
        BY <2>1, <2>6
      <3> QED
        BY <1>r, <2>1, <2>3, <3>1, OneCompareRuns
    <2>8. v = Value(i, r)
      BY <2>2
    <2>0. PICK u : u = 1 - v
      OBVIOUS
    <2>9. u \in Word
      BY <1>w, <2>0, <2>8
    <2>10. \A z : Computes("XORi", q["k"], q["zero"], 1, z) => z = u
      BY <1>w, <2>0, <2>7, <2>8, BitOpBits DEF Computes
    <2>11. q \in [Regs -> Word]
      BY <2>7 DEF Keeps
    <2>12. Keeps(q, r2, {d}) /\ r2[d] = u
      <3>1. Runs(<<I("XORi", d, "k", "zero", 1)>>, q, r2)
        BY <2>1, <2>6
      <3> QED
        BY <1>r, <2>9, <2>10, <2>11, <3>1, OneRuns
    <2>13. Keeps(r, r2, {"k"} \cup {d})
      BY <2>7, <2>12, KeepsThen
    <2>14. Keeps(r, r2, {d, "k"})
      BY <2>13, KeepsMore
    <2> QED
      BY <1>4, <2>0, <2>2, <2>8, <2>12, <2>14 DEF Compared
  <1> QED
    BY <1>3, <1>4

\* The compares of the tables are no special instructions.
LEMMA TableOps ==
  /\ \A cc \in DOMAIN IntCompare : IntCompare[cc] \in Compares /\ IntCompare[cc].op \notin Special
  /\ \A cc \in DOMAIN FPCompare : FPCompare[cc] \in Compares /\ FPCompare[cc].op \notin Special
  <1>1. \A op \in {"CEQ", "CLT", "CLE", "CLTU", "CLEU", "CEQF", "CLTF", "CLTEF"} : op \notin Special
    BY DEF Special, Branches
  <1>2. \A op : /\ Cmp(op, FALSE, FALSE).op = op /\ Cmp(op, FALSE, TRUE).op = op
                /\ Cmp(op, TRUE, FALSE).op = op
    BY DEF Cmp
  <1>0. \A op \in {"CEQ", "CLT", "CLE", "CLTU", "CLEU", "CEQF", "CLTF", "CLTEF"} :
          /\ Cmp(op, FALSE, FALSE).op \notin Special /\ Cmp(op, FALSE, TRUE).op \notin Special
          /\ Cmp(op, TRUE, FALSE).op \notin Special
    BY <1>1, <1>2
  <1>3. ASSUME NEW cc \in DOMAIN IntCompare PROVE IntCompare[cc].op \notin Special
    BY <1>0, IntConditions
  <1>4. ASSUME NEW cc \in DOMAIN FPCompare PROVE FPCompare[cc].op \notin Special
    BY <1>0, FPConditions
  <1> QED
    BY <1>3, <1>4, Tables

\* The value of a condition from its truth.
LEMMA BoolIs ==
  ASSUME NEW P, NEW v \in {0, 1}
  PROVE  /\ (P <=> v = 1) => Bool(P) = v
         /\ (P <=> v = 0) => Bool(P) = 1 - v
  <1>1. P => Bool(P) = 1
    BY DEF Bool
  <1>2. ~P => Bool(P) = 0
    BY DEF Bool
  <1>3. (v = 0 /\ 1 - v = 1) \/ (v = 1 /\ 1 - v = 0)
    OBVIOUS
  <1> QED
    BY <1>1, <1>2, <1>3, Zenon

\* The conditions as 0 or 1.
IntBit(cc, x, y) == Bool(Holds(cc, FALSE, x, y))

\* The value of a float condition.
FPBit(cc, x, y) == Bool(Holds(cc, TRUE, x, y))

\* Integer compares leave their condition.
LEMMA IntCompareRuns ==
  ASSUME NEW cc \in DOMAIN IntCompare, NEW s1 \in Regs, NEW s2 \in Regs, NEW d \in Regs,
         NEW r \in [Regs -> Word], NEW r2, Runs(Compare(IntCompare[cc], s1, s2, d), r, r2)
  PROVE  Keeps(r, r2, {d, "k"}) /\ r2[d] = IntBit(cc, r[s1], r[s2])
  <1>1. PICK c, v : c = IntCompare[cc] /\ v = Value(Compare(c, s1, s2, d)[1], r)
    OBVIOUS
  <1>2. /\ v \in {0, 1}
        /\ Holds(cc, FALSE, r[s1], r[s2]) <=> IF c.invert THEN v = 0 ELSE v = 1
    BY <1>1, IntCompareTable
  <1>3. c \in Compares /\ c.op \notin Special
    BY <1>1, TableOps, Zenon
  <1>4. /\ Keeps(r, r2, {d, "k"})
        /\ c.invert => r2[d] = 1 - v
        /\ ~c.invert => r2[d] = v
    <2>1. Runs(Compare(c, s1, s2, d), r, r2)
      BY <1>1
    <2> QED
      <3>1. v \in {0, 1}
        BY <1>2
      <3>2. Compared(c, v, r, r2, d)
        BY <1>1, <1>3, <2>1, <3>1, CompareRuns
      <3> QED
        BY <3>2, Zenon DEF Compared
  <1> QED
    <2>1. CASE c.invert
      <3>1. r2[d] = 1 - v /\ (Holds(cc, FALSE, r[s1], r[s2]) <=> v = 0)
        BY <1>2, <1>4, <2>1, Zenon
      <3> QED
        BY <1>2, <1>4, <3>1, BoolIs DEF IntBit
    <2>2. CASE ~c.invert
      <3>1. r2[d] = v /\ (Holds(cc, FALSE, r[s1], r[s2]) <=> v = 1)
        BY <1>2, <1>4, <2>2, Zenon
      <3> QED
        BY <1>2, <1>4, <3>1, BoolIs DEF IntBit
    <2> QED
      BY <2>1, <2>2

\* So do those of floats, but for the two exchanged ones.
LEMMA FPCompareRuns ==
  ASSUME NEW cc \in DOMAIN FPCompare, cc \notin {"setogt", "setoge"},
         NEW s1 \in Regs, NEW s2 \in Regs, NEW d \in Regs,
         NEW r \in [Regs -> Word], NEW r2, Runs(Compare(FPCompare[cc], s1, s2, d), r, r2)
  PROVE  Keeps(r, r2, {d, "k"}) /\ r2[d] = FPBit(cc, r[s1], r[s2])
  <1>1. PICK c, v : c = FPCompare[cc] /\ v = Value(Compare(c, s1, s2, d)[1], r)
    OBVIOUS
  <1>2. /\ v \in {0, 1}
        /\ Holds(cc, TRUE, r[s1], r[s2]) <=> IF c.invert THEN v = 0 ELSE v = 1
    <2>1. PICK i : i = Compare(FPCompare[cc], s1, s2, d)[1]
      OBVIOUS
    <2>2. cc = IF cc = "setogt" THEN "setoge" ELSE IF cc = "setoge" THEN "setogt" ELSE cc
      OBVIOUS
    <2>3. Says(FPCompare[cc], Value(i, r), Holds(cc, TRUE, r[s1], r[s2]))
      BY <2>1, <2>2, FPCompareValue
    <2> QED
      BY <1>1, <2>1, <2>3, Zenon DEF Says
  <1>3. c \in Compares /\ c.op \notin Special
    BY <1>1, TableOps, Zenon
  <1>4. /\ Keeps(r, r2, {d, "k"})
        /\ c.invert => r2[d] = 1 - v
        /\ ~c.invert => r2[d] = v
    <2>1. Runs(Compare(c, s1, s2, d), r, r2)
      BY <1>1
    <2> QED
      <3>1. v \in {0, 1}
        BY <1>2
      <3>2. Compared(c, v, r, r2, d)
        BY <1>1, <1>3, <2>1, <3>1, CompareRuns
      <3> QED
        BY <3>2, Zenon DEF Compared
  <1> QED
    <2>1. CASE c.invert
      <3>1. r2[d] = 1 - v /\ (Holds(cc, TRUE, r[s1], r[s2]) <=> v = 0)
        BY <1>2, <1>4, <2>1, Zenon
      <3> QED
        BY <1>2, <1>4, <3>1, BoolIs DEF FPBit
    <2>2. CASE ~c.invert
      <3>1. r2[d] = v /\ (Holds(cc, TRUE, r[s1], r[s2]) <=> v = 1)
        BY <1>2, <1>4, <2>2, Zenon
      <3> QED
        BY <1>2, <1>4, <3>1, BoolIs DEF FPBit
    <2> QED
      BY <2>1, <2>2

\* Both operands of an ordered compare equal themselves.
LEMMA SelvesRun ==
  ASSUME NEW r \in [Regs -> Word], NEW r2,
         Runs(<<I("CEQF", "l", "a", "a", 0), I("CEQF", "r", "b", "b", 0)>>, r, r2)
  PROVE  Keeps(r, r2, {"l", "r"}) /\ r2["l"] = 1 /\ r2["r"] = 1
  <1>r. {"a", "b", "l", "r"} \subseteq Regs /\ "CEQF" \in Opcodes /\ "CEQF" \notin Special
    BY DEF Regs, Opcodes, Special, Branches
  <1>w. 1 \in Word
    BY SmallFields, FieldFacts
  <1>1. PICK i, j : i = I("CEQF", "l", "a", "a", 0) /\ j = I("CEQF", "r", "b", "b", 0)
    OBVIOUS
  <1>2. <<i>> \in Seq(Insn) /\ <<j>> \in Seq(Insn)
    BY <1>1, <1>r, OneInsn
  <1>3. PICK q : Runs(<<i>>, r, q) /\ Runs(<<j>>, q, r2)
    <2>1. Runs(<<i>> \o <<j>>, r, r2)
      BY <1>1, PairOf
    <2> QED
      BY <1>2, <2>1, RunsPair
  <1>4. \A d, x, f : Value(I("CEQF", d, x, x, 0), f) = 1
    <2>1. \A d, x : I("CEQF", d, x, x, 0).op = "CEQF"
                    /\ I("CEQF", d, x, x, 0).s1 = x /\ I("CEQF", d, x, x, 0).s2 = x
      BY DEF I
    <2> QED
      BY <2>1, CompareValues
  <1>5. Keeps(r, q, {"l"}) /\ q["l"] = 1
    <2>1. Runs(<<I("CEQF", "l", "a", "a", 0)>>, r, q)
      BY <1>1, <1>3
    <2> QED
      BY <1>4, <1>r, <1>w, <2>1, OneCompareRuns
  <1>6. q \in [Regs -> Word]
    BY <1>5 DEF Keeps
  <1>7. Keeps(q, r2, {"r"}) /\ r2["r"] = 1
    <2>1. Runs(<<I("CEQF", "r", "b", "b", 0)>>, q, r2)
      BY <1>1, <1>3
    <2> QED
      BY <1>4, <1>6, <1>r, <1>w, <2>1, OneCompareRuns
  <1>8. r2["l"] = 1
    BY <1>5, <1>7, <1>r DEF Keeps
  <1>9. Keeps(r, r2, {"l"} \cup {"r"})
    BY <1>5, <1>7, KeepsThen
  <1> QED
    BY <1>7, <1>8, <1>9, KeepsMore

\* The ordered compare is true of floats that are no NaNs, the other false.
LEMMA OrderedRuns ==
  ASSUME NEW cc \in {"seto", "setuo"}, NEW d \in Regs,
         NEW r \in [Regs -> Word], NEW r2, Runs(Ordered(cc, d), r, r2)
  PROVE  /\ Keeps(r, r2, {d, "k", "l", "r"})
         /\ \A x, y : r2[d] = FPBit(cc, x, y)
  <1>r. {"a", "b", "k", "l", "r", "zero"} \subseteq Regs /\ {"AND", "XORi", "CEQF"} \subseteq Opcodes
        /\ "AND" \notin Special /\ "XORi" \notin Special
    BY DEF Regs, Opcodes, UnsignedImm, Special, Branches
  <1>w. 0 \in Word /\ 1 \in Word /\ 1 \in Field /\ Wrap(1) = 1
    BY SmallFields, FieldFacts, WrapWord
  <1>b. BitOp("and", 1, 1) = 1 /\ BitOp("xor", 1, 1) = 0
    BY BitOpBits
  <1>p. PICK p : p = <<I("CEQF", "l", "a", "a", 0), I("CEQF", "r", "b", "b", 0)>>
    OBVIOUS
  <1>s. p \in Seq(Insn)
    <2>1. I("CEQF", "l", "a", "a", 0) \in Insn /\ I("CEQF", "r", "b", "b", 0) \in Insn
      BY <1>r, BuiltAny DEF InsertedInsn
    <2> QED
      BY <1>p, <2>1
  <1>a. ASSUME NEW q \in [Regs -> Word], q["l"] = 1, q["r"] = 1, NEW e \in Regs, NEW q2,
               Runs(<<I("AND", e, "l", "r", 0)>>, q, q2)
        PROVE  Keeps(q, q2, {e}) /\ q2[e] = 1
    <2>1. \A v : Computes("AND", q["l"], q["r"], 0, v) => v = 1
      BY <1>a, <1>b DEF Computes
    <2> QED
      BY <1>a, <1>r, <1>w, <2>1, OneRuns
  <1>1. CASE cc = "seto"
    <2>1. Ordered(cc, d) = p \o <<I("AND", d, "l", "r", 0)>>
      BY <1>1, <1>p DEF Ordered
    <2>2. <<I("AND", d, "l", "r", 0)>> \in Seq(Insn)
      BY <1>r, OneInsn
    <2>3. PICK q : Runs(p, r, q) /\ Runs(<<I("AND", d, "l", "r", 0)>>, q, r2)
      BY <1>s, <2>1, <2>2, RunsPair
    <2>4. Keeps(r, q, {"l", "r"}) /\ q["l"] = 1 /\ q["r"] = 1
      BY <1>p, <2>3, SelvesRun
    <2>5. q \in [Regs -> Word]
      BY <2>4 DEF Keeps
    <2>6. Keeps(q, r2, {d}) /\ r2[d] = 1
      BY <1>a, <2>3, <2>4, <2>5
    <2>7. Keeps(r, r2, {"l", "r"} \cup {d})
      BY <2>4, <2>6, KeepsThen
    <2>8. Keeps(r, r2, {d, "k", "l", "r"})
      BY <2>7, KeepsMore
    <2>9. \A x, y : FPBit(cc, x, y) = 1
      BY <1>1 DEF Holds, Bool, FPBit
    <2> QED
      BY <2>6, <2>8, <2>9
  <1>2. CASE cc = "setuo"
    <2> DEFINE i == I("AND", "k", "l", "r", 0)
               j == I("XORi", d, "k", "zero", 1)
    <2>1. Ordered(cc, d) = p \o (<<i>> \o <<j>>)
      <3>1. Ordered(cc, d) = p \o <<i, j>>
        BY <1>2, <1>p DEF Ordered
      <3> HIDE DEF i, j
      <3> QED
        BY <3>1, PairOf
    <2>2. <<i>> \in Seq(Insn)
      BY <1>r, OneInsn
    <2>j. <<j>> \in Seq(Insn)
      <3>1. j \in InsertedInsn
        BY <1>r, <1>w, Built DEF UnsignedImm
      <3>2. j \in Insn
        BY <3>1 DEF InsertedInsn
      <3> QED
        BY <3>2
    <2>3. PICK q : Runs(p, r, q) /\ Runs(<<i>> \o <<j>>, q, r2)
      <3>1. <<i>> \o <<j>> \in Seq(Insn)
        BY <2>2, <2>j
      <3> QED
        BY <1>s, <2>1, <3>1, RunsPair
    <2>k. PICK q2 : Runs(<<i>>, q, q2) /\ Runs(<<j>>, q2, r2)
      BY <2>2, <2>3, <2>j, RunsPair
    <2>4. Keeps(r, q, {"l", "r"}) /\ q["l"] = 1 /\ q["r"] = 1
      BY <1>p, <2>3, SelvesRun
    <2>5. q \in [Regs -> Word]
      BY <2>4 DEF Keeps
    <2>6. Keeps(q, q2, {"k"}) /\ q2["k"] = 1
      BY <1>a, <1>r, <2>k, <2>4, <2>5
    <2>7. q2 \in [Regs -> Word]
      BY <2>6 DEF Keeps
    <2>8. \A v : Computes("XORi", q2["k"], q2["zero"], 1, v) => v = 0
      BY <1>w, <1>b, <2>6 DEF Computes
    <2>9. Keeps(q2, r2, {d}) /\ r2[d] = 0
      <3>1. Runs(<<I("XORi", d, "k", "zero", 1)>>, q2, r2)
        BY <2>k
      <3> QED
        BY <1>r, <1>w, <2>7, <2>8, <3>1, OneRuns
    <2>10. Keeps(r, q2, {"l", "r"} \cup {"k"})
      BY <2>4, <2>6, KeepsThen
    <2>11. Keeps(r, r2, ({"l", "r"} \cup {"k"}) \cup {d})
      BY <2>9, <2>10, KeepsThen
    <2>12. Keeps(r, r2, {d, "k", "l", "r"})
      BY <2>11, KeepsMore
    <2>13. \A x, y : FPBit(cc, x, y) = 0
      BY <1>2 DEF Holds, Bool, FPBit
    <2> QED
      BY <2>9, <2>12, <2>13
  <1> QED
    BY <1>1, <1>2

\* The operands of a comparison, and the comparison itself.
LeftValue(n, r) == IF n.off = NoImm THEN r["a"] ELSE Wrap(r["a"] + n.off)

\* The value of a node's right operand.
RightValue(n, r) == IF n.rhs = NoImm THEN r["b"] ELSE n.rhs

\* Whether a node's condition holds.
CondOn(n, r) == Holds(n.cc, n.fp, LeftValue(n, r), RightValue(n, r))

\* The code of the left operand leaves its value in the register of the operand.
LEMMA LhsRuns ==
  ASSUME NEW n \in Nodes, n.kind \in {"setcc", "select", "brcond"}, NEW s \in LhsCode(n),
         NEW r \in [Regs -> Word], r["zero"] = 0, NEW r2, Runs(s, r, r2)
  PROVE  Keeps(r, r2, {"l", "k"}) /\ r2[Lhs(n)] = LeftValue(n, r)
  <1>r. {"a", "k", "l"} \subseteq Regs
    BY DEF Regs
  <1>1. CASE n.off = NoImm
    <2>1. s = <<>> /\ Lhs(n) = "a" /\ LeftValue(n, r) = r["a"]
      BY <1>1 DEF LhsCode, Lhs, LeftValue
    <2>2. r2 = r
      BY <2>1, RunsNone
    <2> QED
      BY <2>1, <2>2 DEF Keeps
  <1>2. CASE n.off # NoImm
    <2>1. s \in AddImmediate("a", n.off, "l") /\ Lhs(n) = "l" /\ LeftValue(n, r) = Wrap(r["a"] + n.off)
      BY <1>2 DEF LhsCode, Lhs, LeftValue
    <2>2. n.off \in AddImms
      BY <1>2, NodeFacts
    <2>3. PICK c \in AddImms : c = n.off
      BY <2>2
    <2>4. s \in AddImmediate("a", c, "l")
      BY <2>1, <2>3
    <2>5. Keeps(r, r2, {"l", "k"}) /\ r2["l"] = Wrap(r["a"] + c)
      BY <1>r, <2>4, AddImmediateRuns
    <2> QED
      BY <2>1, <2>3, <2>5
  <1> QED
    BY <1>1, <1>2

\* The code of the right operand does, too.
LEMMA RhsRuns ==
  ASSUME NEW n \in Nodes, n.kind \in {"setcc", "select", "brcond"}, NEW s \in RhsCode(n),
         NEW r \in [Regs -> Word], r["zero"] = 0, NEW r2, Runs(s, r, r2)
  PROVE  Keeps(r, r2, {"r"}) /\ r2[Rhs(n)] = RightValue(n, r)
  <1>r. {"b", "r"} \subseteq Regs
    BY DEF Regs
  <1>1. CASE n.rhs = NoImm
    <2>1. s = <<>> /\ Rhs(n) = "b" /\ RightValue(n, r) = r["b"]
      BY <1>1 DEF RhsCode, Rhs, RightValue
    <2>2. r2 = r
      BY <2>1, RunsNone
    <2> QED
      BY <2>1, <2>2 DEF Keeps
  <1>2. CASE n.rhs # NoImm
    <2>1. s \in Constant(n.rhs, "r") /\ Rhs(n) = "r" /\ RightValue(n, r) = n.rhs
      BY <1>2 DEF RhsCode, Rhs, RightValue
    <2>2. n.rhs \in Word
      BY <1>2, NodeFacts
    <2>3. PICK c \in Word : c = n.rhs
      BY <2>2
    <2>4. s \in Constant(c, "r")
      BY <2>1, <2>3
    <2>5. Keeps(r, r2, {"r"}) /\ r2["r"] = c
      BY <1>r, <2>4, ConstantRuns
    <2> QED
      BY <2>1, <2>3, <2>5
  <1> QED
    BY <1>1, <1>2

\* Run one after the other they disturb neither value.
LEMMA OperandRuns ==
  ASSUME NEW n \in Nodes, n.kind \in {"setcc", "select", "brcond"}, NEW s \in OperandCode(n),
         NEW r \in [Regs -> Word], r["zero"] = 0, NEW r2, Runs(s, r, r2)
  PROVE  /\ Keeps(r, r2, {"l", "k", "r"})
         /\ r2[Lhs(n)] = LeftValue(n, r) /\ r2[Rhs(n)] = RightValue(n, r)
  <1>r. {"a", "b", "k", "l", "r", "zero"} \subseteq Regs
    BY DEF Regs
  <1>l. Lhs(n) \in {"a", "l"} /\ Rhs(n) \in {"b", "r"}
    BY DEF Lhs, Rhs
  <1>c. LhsCode(n) \subseteq Seq(Insn) /\ RhsCode(n) \subseteq Seq(Insn)
    <2>1. LhsCode(n) \subseteq Body
      BY OperandFacts
    <2>2. RhsCode(n) \subseteq Body
      <3>1. {<<>>} \subseteq Body
        BY DEF Body
      <3> QED
        BY <1>r, <3>1, NodeFacts, ConstantCode DEF RhsCode
    <2> QED
      BY <2>1, <2>2, BodyInsn
  <1>1. CASE s \in Then(LhsCode(n), RhsCode(n))
    <2>0. PICK x \in LhsCode(n), y \in RhsCode(n) : \E q : Runs(x, r, q) /\ Runs(y, q, r2)
      BY <1>1, <1>c, ThenRuns
    <2>1. PICK q : Runs(x, r, q) /\ Runs(y, q, r2)
      BY <2>0
    <2>2. Keeps(r, q, {"l", "k"}) /\ q[Lhs(n)] = LeftValue(n, r)
      BY <2>1, LhsRuns
    <2>3. q \in [Regs -> Word] /\ q["zero"] = 0 /\ RightValue(n, q) = RightValue(n, r)
      BY <2>2, <1>r DEF Keeps, RightValue
    <2>4. Keeps(q, r2, {"r"}) /\ r2[Rhs(n)] = RightValue(n, q)
      BY <2>1, <2>3, RhsRuns
    <2>5. r2[Lhs(n)] = q[Lhs(n)]
      BY <1>l, <1>r, <2>4 DEF Keeps
    <2>6. Keeps(r, r2, {"l", "k"} \cup {"r"})
      BY <2>2, <2>4, KeepsThen
    <2>7. Keeps(r, r2, {"l", "k", "r"})
      BY <2>6, KeepsMore
    <2> QED
      BY <2>2, <2>3, <2>4, <2>5, <2>7
  <1>2. CASE s \in Then(RhsCode(n), LhsCode(n))
    <2>0. PICK x \in RhsCode(n), y \in LhsCode(n) : \E q : Runs(x, r, q) /\ Runs(y, q, r2)
      BY <1>2, <1>c, ThenRuns
    <2>1. PICK q : Runs(x, r, q) /\ Runs(y, q, r2)
      BY <2>0
    <2>2. Keeps(r, q, {"r"}) /\ q[Rhs(n)] = RightValue(n, r)
      BY <2>1, RhsRuns
    <2>3. q \in [Regs -> Word] /\ q["zero"] = 0 /\ LeftValue(n, q) = LeftValue(n, r)
      BY <2>2, <1>r DEF Keeps, LeftValue
    <2>4. Keeps(q, r2, {"l", "k"}) /\ r2[Lhs(n)] = LeftValue(n, q)
      BY <2>1, <2>3, LhsRuns
    <2>5. r2[Rhs(n)] = q[Rhs(n)]
      BY <1>l, <1>r, <2>4 DEF Keeps
    <2>6. Keeps(r, r2, {"r"} \cup {"l", "k"})
      BY <2>2, <2>4, KeepsThen
    <2>7. Keeps(r, r2, {"l", "k", "r"})
      BY <2>6, KeepsMore
    <2> QED
      BY <2>2, <2>3, <2>4, <2>5, <2>7
  <1> QED
    BY <1>1, <1>2 DEF OperandCode, EitherOrder

\* A condition depends on the operands only.
LEMMA CondKept ==
  ASSUME NEW n, NEW r, NEW r2, NEW D, Keeps(r, r2, D), "a" \notin D, "b" \notin D
  PROVE  CondOn(n, r2) <=> CondOn(n, r)
  <1>1. r2["a"] = r["a"] /\ r2["b"] = r["b"]
    BY DEF Keeps, Regs
  <1>2. LeftValue(n, r2) = LeftValue(n, r) /\ RightValue(n, r2) = RightValue(n, r)
    BY <1>1 DEF LeftValue, RightValue
  <1> QED
    BY <1>2, Zenon DEF CondOn

\* The value of a comparison.
LEMMA SetCCRuns ==
  ASSUME NEW n \in Nodes, n.kind \in {"setcc", "select"}, n.fp => n.cc \notin {"setogt", "setoge"},
         NEW d \in {"dst", "c"}, NEW s \in SetCC(n, d),
         NEW r \in [Regs -> Word], r["zero"] = 0, NEW r2, Runs(s, r, r2)
  PROVE  Keeps(r, r2, {d, "k", "l", "r"}) /\ r2[d] = Bool(CondOn(n, r))
  <1>r. {"a", "b", "c", "dst", "k", "l", "r", "zero"} \subseteq Regs /\ d \in Regs
    BY DEF Regs
  <1>e. PICK e \in Regs : e = d
    BY <1>r
  <1>n. /\ n.fp \in BOOLEAN /\ (n.fp => n.cc \in FPSetCCs)
        /\ n.fp = FALSE => n.cc \in DOMAIN IntCompare
    <2>1. /\ n.fp \in BOOLEAN /\ (n.fp => n.cc \in FPSetCCs)
          /\ ~n.fp => n.cc \in DOMAIN IntCompare
      BY NodeFacts
    <2> QED
      BY <2>1
  <1>1. CASE n.cc \in {"seto", "setuo"}
    <2>1. s = Ordered(n.cc, d)
      BY <1>1 DEF SetCC
    <2>2. n.fp = TRUE
      BY <1>n, <1>1, IntConditions
    <2>3. /\ Keeps(r, r2, {d, "k", "l", "r"})
          /\ \A x, y : r2[d] = FPBit(n.cc, x, y)
      <3>1. PICK cc \in {"seto", "setuo"} : cc = n.cc
        BY <1>1
      <3>2. Runs(Ordered(cc, e), r, r2)
        BY <2>1, <3>1, <1>e
      <3>3. /\ Keeps(r, r2, {e, "k", "l", "r"})
            /\ \A x, y : r2[e] = FPBit(cc, x, y)
        BY <3>2, OrderedRuns
      <3> QED
        BY <3>1, <3>3, <1>e
    <2>4. r2[d] = FPBit(n.cc, LeftValue(n, r), RightValue(n, r))
      BY <2>3
    <2> QED
      BY <2>2, <2>3, <2>4 DEF CondOn, FPBit
  <1>2. CASE n.cc \notin {"seto", "setuo"}
    <2>1. PICK c : c = IF n.fp THEN FPCompare[n.cc] ELSE IntCompare[n.cc]
      OBVIOUS
    <2>c. IF n.fp THEN n.cc \in DOMAIN FPCompare /\ c = FPCompare[n.cc]
                  ELSE n.cc \in DOMAIN IntCompare /\ c = IntCompare[n.cc]
      BY <1>n, <1>2, <2>1, ConditionAssumption
    <2>2. Lhs(n) \in Regs /\ Rhs(n) \in Regs /\ OperandCode(n) \subseteq Seq(Insn)
      BY OperandFacts, BodyInsn
    <2>3. Compare(c, Lhs(n), Rhs(n), d) \in Seq(Insn)
      <3>1. c \in Compares
        BY <2>c, Tables
      <3> QED
        BY <1>r, <2>2, <3>1, CompareCode, BodyInsn
    <2>4. s \in Then(OperandCode(n), {Compare(c, Lhs(n), Rhs(n), d)})
      BY <1>2, <2>1 DEF SetCC
    <2>5. PICK x \in OperandCode(n) : \E q : Runs(x, r, q) /\ Runs(Compare(c, Lhs(n), Rhs(n), d), q, r2)
      BY <2>2, <2>3, <2>4, ThenLast
    <2>6. PICK q : Runs(x, r, q) /\ Runs(Compare(c, Lhs(n), Rhs(n), d), q, r2)
      BY <2>5
    <2>7. /\ Keeps(r, q, {"l", "k", "r"})
          /\ q[Lhs(n)] = LeftValue(n, r) /\ q[Rhs(n)] = RightValue(n, r)
      BY <2>6, OperandRuns
    <2>8. q \in [Regs -> Word]
      BY <2>7 DEF Keeps
    <2>9. Keeps(q, r2, {d, "k"}) /\ r2[d] = Bool(CondOn(n, r))
      <3>1. CASE n.fp = TRUE
        <4>1. Keeps(q, r2, {d, "k"}) /\ r2[d] = FPBit(n.cc, q[Lhs(n)], q[Rhs(n)])
          <5>1. n.cc \in DOMAIN FPCompare /\ c = FPCompare[n.cc] /\ n.cc \notin {"setogt", "setoge"}
            BY <2>c, <3>1
          <5>2. PICK cc \in DOMAIN FPCompare : cc = n.cc
            BY <5>1
          <5>3. PICK s1 \in Regs, s2 \in Regs : s1 = Lhs(n) /\ s2 = Rhs(n)
            BY <2>2
          <5>4. Runs(Compare(FPCompare[cc], s1, s2, e), q, r2)
            BY <2>6, <5>1, <5>2, <5>3, <1>e
          <5>5. Keeps(q, r2, {e, "k"}) /\ r2[e] = FPBit(cc, q[s1], q[s2])
            BY <2>8, <5>1, <5>2, <5>4, FPCompareRuns, SMTT(30)
          <5> QED
            BY <5>2, <5>3, <5>5, <1>e
        <4> QED
          BY <2>7, <3>1, <4>1 DEF CondOn, FPBit
      <3>2. CASE n.fp = FALSE
        <4>1. Keeps(q, r2, {d, "k"}) /\ r2[d] = IntBit(n.cc, q[Lhs(n)], q[Rhs(n)])
          <5>1. n.cc \in DOMAIN IntCompare /\ c = IntCompare[n.cc]
            BY <2>c, <3>2
          <5>2. PICK cc \in DOMAIN IntCompare : cc = n.cc
            BY <5>1
          <5>3. PICK s1 \in Regs, s2 \in Regs : s1 = Lhs(n) /\ s2 = Rhs(n)
            BY <2>2
          <5>4. Runs(Compare(IntCompare[cc], s1, s2, e), q, r2)
            BY <2>6, <5>1, <5>2, <5>3, <1>e
          <5>5. Keeps(q, r2, {e, "k"}) /\ r2[e] = IntBit(cc, q[s1], q[s2])
            BY <2>8, <5>2, <5>4, IntCompareRuns
          <5> QED
            BY <5>2, <5>3, <5>5, <1>e
        <4> QED
          BY <2>7, <3>2, <4>1 DEF CondOn, IntBit
      <3> QED
        BY <1>n, <3>1, <3>2
    <2>10. Keeps(r, r2, {"l", "k", "r"} \cup {d, "k"})
      BY <2>7, <2>9, KeepsThen
    <2>11. Keeps(r, r2, {d, "k", "l", "r"})
      BY <2>10, KeepsMore
    <2> QED
      BY <2>9, <2>11
  <1> QED
    BY <1>1, <1>2

\* A branch changes no register.
LEMMA LastBranch ==
  ASSUME NEW x \in Seq(Insn), NEW b \in Insn, b.op \in Branches, NEW r, NEW r2,
         Runs(x \o <<b>>, r, r2)
  PROVE  Runs(x, r, r2) /\ (x \o <<b>>)[Len(x \o <<b>>)] = b
  <1>1. <<b>> \in Seq(Insn) /\ Len(<<b>>) = 1 /\ <<b>>[1] = b
    OBVIOUS
  <1>2. PICK q : Runs(x, r, q) /\ Runs(<<b>>, q, r2)
    BY <1>1, RunsPair
  <1>3. r2 = q
    BY <1>2, RunsOne DEF Effect
  <1>4. (x \o <<b>>)[Len(x \o <<b>>)] = b
    BY <1>1, ConcatProperties
  <1> QED
    BY <1>2, <1>3, <1>4

\* The registers that a compare changes.
Touched(d) == {d, "k"}
\* The compare of an integer condition, with its inversion, gives 1 or 0.
LEMMA IntCompareSteps ==
  ASSUME NEW cc \in DOMAIN IntCompare, NEW s1 \in Regs, NEW s2 \in Regs, NEW d \in Regs,
         NEW r \in [Regs -> Word], NEW r2, Runs(Compare(IntCompare[cc], s1, s2, d), r, r2)
  PROVE  Keeps(r, r2, Touched(d)) /\ r2[d] = IntBit(cc, r[s1], r[s2])
  <1>1. Keeps(r, r2, {d, "k"}) /\ r2[d] = IntBit(cc, r[s1], r[s2])
    BY IntCompareRuns
  <1> QED
    BY <1>1 DEF Touched

\* What each branch tests.
LEMMA GoesOf ==
  ASSUME NEW op, NEW s1, NEW s2, NEW r
  PROVE  /\ op = "BEQ" => (Goes(I(op, "zero", s1, s2, 0), r) <=> r[s1] = r[s2])
         /\ op = "BNE" => (Goes(I(op, "zero", s1, s2, 0), r) <=> r[s1] # r[s2])
         /\ op = "BE" => (Goes(I(op, "zero", s1, s2, 0), r) <=> r[s1] = 0)
         /\ op = "BNZ" => (Goes(I(op, "zero", s1, s2, 0), r) <=> r[s1] # 0)
  <1>1. PICK i : i = I(op, "zero", s1, s2, 0)
    OBVIOUS
  <1>2. i.op = op /\ i.s1 = s1 /\ i.s2 = s2
    BY <1>1 DEF I
  <1>3. op = "BEQ" => (Goes(i, r) <=> r[s1] = r[s2])
    BY <1>2 DEF Goes
  <1>4. op = "BNE" => (Goes(i, r) <=> r[s1] # r[s2])
    BY <1>2 DEF Goes
  <1>5. op = "BE" => (Goes(i, r) <=> r[s1] = 0)
    BY <1>2 DEF Goes
  <1>6. op = "BNZ" => (Goes(i, r) <=> r[s1] # 0)
    BY <1>2 DEF Goes
  <1> QED
    BY <1>1, <1>3, <1>4, <1>5, <1>6

\* Code that ends in a branch runs like the code before it.
Ends(s, X, z) == \E x \in X : s = x \o z
\* When Y is a single sequence, Then(X, Y) ends with it.
LEMMA InThenLast ==
  ASSUME NEW X, NEW Y, NEW s \in Then(X, Y), NEW z, \A w \in Y : w = z
  PROVE  Ends(s, X, z)
  <1>1. \E x \in X, w \in Y : s = x \o w
    BY InThen
  <1> QED
    BY <1>1 DEF Ends

\* z is u and the branch b.
EndsWith(z, u, b) == z = u \o <<b>>

\* Sequences of instructions.
AnyCode == Seq(Insn)
\* What runs before a branch that follows a compare.
LEMMA BranchAfter ==
  ASSUME NEW X, X \subseteq AnyCode, NEW u \in AnyCode, NEW b \in Insn, b.op \in Branches,
         NEW z, EndsWith(z, u, b),
         NEW Y, \A w \in Y : w = z, NEW s \in Then(X, Y), NEW r, NEW r2, Runs(s, r, r2)
  PROVE  s[Len(s)] = b /\ \E x \in X : \E q : Runs(x, r, q) /\ Runs(u, q, r2)
  <1>1. Ends(s, X, z)
    BY InThenLast
  <1>2. PICK x \in X : s = x \o z
    BY <1>1 DEF Ends
  <1>3. x \in Seq(Insn) /\ <<b>> \in Seq(Insn) /\ x \o u \in Seq(Insn)
    <2>1. x \in AnyCode /\ u \in AnyCode
      BY <1>2
    <2>2. x \in Seq(Insn) /\ u \in Seq(Insn)
      BY <2>1 DEF AnyCode
    <2> QED
      BY <2>2
  <1>4. s = (x \o u) \o <<b>>
    <2>1. u \in Seq(Insn) /\ z = u \o <<b>>
      BY DEF EndsWith, AnyCode
    <2> QED
      BY <2>1, <1>2, <1>3
  <1>5. Runs(x \o u, r, r2) /\ s[Len(s)] = b
    BY <1>3, <1>4, LastBranch
  <1>6. \E q : Runs(x, r, q) /\ Runs(u, q, r2)
    <2>1. u \in Seq(Insn)
      BY DEF AnyCode
    <2> QED
      BY <2>1, <1>3, <1>5, RunsPair
  <1> QED
    BY <1>5, <1>6

\* What runs before a branch without a compare.
LEMMA BranchOnly ==
  ASSUME NEW X, X \subseteq Seq(Insn), NEW b \in Insn, b.op \in Branches,
         NEW Y, \A w \in Y : w = <<b>>, NEW s \in Then(X, Y), NEW r, NEW r2, Runs(s, r, r2)
  PROVE  s[Len(s)] = b /\ \E x \in X : Runs(x, r, r2)
  <1>0. \E x \in X, w \in Y : s = x \o w
    BY InThen
  <1>1. PICK x \in X : s = x \o <<b>>
    BY <1>0
  <1>2. x \in Seq(Insn)
    OBVIOUS
  <1>3. Runs(x, r, r2) /\ s[Len(s)] = b
    BY <1>1, <1>2, LastBranch
  <1> QED
    BY <1>3

\* A branch is an instruction.
LEMMA BranchBuilt ==
  ASSUME NEW op \in Branches, NEW s1 \in Regs, NEW s2 \in Regs
  PROVE  I(op, "zero", s1, s2, 0) \in Insn /\ I(op, "zero", s1, s2, 0).op \in Branches
  BY BuiltBranch DEF BranchInsn, InsertedInsn

\* A 0 or 1 that is the condition.
LEMMA BitTells ==
  ASSUME NEW P, NEW v, v = Bool(P)
  PROVE  v # 0 <=> P
  BY DEF Bool

\* The branches against zero need the constant to be there.
LEMMA ZeroBranchConstant ==
  ASSUME NEW cc, NEW c \in Word \cup {NoImm}, ZeroBranch(cc, c) # "none"
  PROVE  c \in Word /\ c # NoImm /\ ZeroBranch(cc, c) \in Branches
  <1>1. MinusOne \in Word /\ 0 \in Word /\ 1 \in Word
        /\ MinusOne # NoImm /\ 0 # NoImm /\ 1 # NoImm
    BY WordFacts DEF Word, MinusOne, NoImm
  <1>2. c \in {0, 1, MinusOne}
    BY DEF ZeroBranch
  <1>3. ZeroBranch(cc, c) \in Branches
    BY DEF ZeroBranch, Branches
  <1> QED
    BY <1>1, <1>2, <1>3

\* The branches on integers.
LEMMA IntBranchRuns ==
  ASSUME NEW n \in Nodes, n.kind = "brcond", n.fp = FALSE, NEW s \in IntBranch(n),
         NEW r \in [Regs -> Word], r["zero"] = 0, NEW r2, Runs(s, r, r2)
  PROVE  Goes(s[Len(s)], r2) <=> CondOn(n, r2)
  <1>r. {"c", "zero"} \subseteq Regs
    BY DEF Regs
  <1>n. /\ Lhs(n) \in Regs /\ Rhs(n) \in Regs
        /\ LhsCode(n) \subseteq Seq(Insn) /\ OperandCode(n) \subseteq Seq(Insn)
        /\ n.rhs \in Word \cup {NoImm} /\ n.cc \in DOMAIN IntCompare
    BY OperandFacts, BodyInsn, NodeFacts
  <1>p. PICK cc \in DOMAIN IntCompare, s1 \in Regs, s2 \in Regs, c \in Word \cup {NoImm} :
          cc = n.cc /\ s1 = Lhs(n) /\ s2 = Rhs(n) /\ c = n.rhs
    BY <1>n
  <1>1. CASE ZeroBranch(n.cc, n.rhs) # "none"
    <2>1. PICK b : b = I(ZeroBranch(cc, c), "zero", s1, "zero", 0)
      OBVIOUS
    <2>2. c \in Word /\ c # NoImm /\ ZeroBranch(cc, c) \in Branches
      BY <1>1, <1>p, ZeroBranchConstant
    <2>3. b \in Insn /\ b.op \in Branches
      BY <1>r, <2>1, <2>2, BranchBuilt
    <2>y. PICK Y : Y = {<<b>>}
      OBVIOUS
    <2>4. s \in Then(LhsCode(n), Y)
      BY <1>1, <1>p, <2>1, <2>y DEF IntBranch
    <2>5. s[Len(s)] = b /\ \E x \in LhsCode(n) : Runs(x, r, r2)
      BY <1>n, <2>3, <2>4, <2>y, BranchOnly
    <2>6. Keeps(r, r2, {"l", "k"}) /\ r2[s1] = LeftValue(n, r)
      BY <1>p, <2>5, LhsRuns
    <2>7. r2 \in [Regs -> Word]
      BY <2>6 DEF Keeps
    <2>8. Goes(b, r2) <=> Holds(cc, FALSE, r2[s1], c)
      BY <1>1, <1>p, <2>1, <2>2, <2>7, ZeroBranchTable
    <2>9. RightValue(n, r) = c
      BY <1>p, <2>2 DEF RightValue
    <2>10. Holds(cc, FALSE, r2[s1], c) <=> CondOn(n, r)
      BY <1>p, <2>6, <2>9 DEF CondOn
    <2>11. CondOn(n, r2) <=> CondOn(n, r)
      BY <2>6, CondKept
    <2> QED
      BY <2>5, <2>8, <2>10, <2>11
  <1>2. CASE ZeroBranch(n.cc, n.rhs) = "none" /\ n.cc \in {"seteq", "setne"}
    <2>1. PICK op : op = IF cc = "seteq" THEN "BEQ" ELSE "BNE"
      OBVIOUS
    <2>b. PICK b : b = I(op, "zero", s1, s2, 0)
      OBVIOUS
    <2>2. op \in Branches
      BY <2>1 DEF Branches
    <2>3. b \in Insn /\ b.op \in Branches
      BY <2>b, <2>2, BranchBuilt
    <2>y. PICK Y : Y = {<<b>>}
      OBVIOUS
    <2>4. s \in Then(OperandCode(n), Y)
      BY <1>2, <1>p, <2>1, <2>b, <2>y DEF IntBranch
    <2>5. s[Len(s)] = b /\ \E x \in OperandCode(n) : Runs(x, r, r2)
      BY <1>n, <2>3, <2>4, <2>y, BranchOnly
    <2>6. /\ Keeps(r, r2, {"l", "k", "r"})
          /\ r2[s1] = LeftValue(n, r) /\ r2[s2] = RightValue(n, r)
      BY <1>p, <2>5, OperandRuns
    <2>8. /\ cc = "seteq" => (Goes(b, r2) <=> r2[s1] = r2[s2])
          /\ cc # "seteq" => (Goes(b, r2) <=> r2[s1] # r2[s2])
      BY <2>1, <2>b, GoesOf
    <2>9. /\ cc = "seteq" => (Holds(cc, FALSE, r2[s1], r2[s2]) <=> r2[s1] = r2[s2])
          /\ cc # "seteq" => (Holds(cc, FALSE, r2[s1], r2[s2]) <=> r2[s1] # r2[s2])
      BY <1>2, <1>p DEF Holds
    <2>10. Goes(b, r2) <=> CondOn(n, r)
      <3>1. CondOn(n, r) <=> Holds(cc, FALSE, r2[s1], r2[s2])
        BY <1>p, <2>6 DEF CondOn
      <3> QED
        BY <2>8, <2>9, <3>1, Zenon
    <2>11. CondOn(n, r2) <=> CondOn(n, r)
      BY <2>6, CondKept
    <2> QED
      BY <2>5, <2>10, <2>11
  <1>3. CASE ZeroBranch(n.cc, n.rhs) = "none" /\ n.cc \notin {"seteq", "setne"}
    <2>1. PICK b : b = I("BNZ", "zero", "c", "zero", 0)
      OBVIOUS
    <2>2. "BNZ" \in Branches
      BY DEF Branches
    <2>3. b \in Insn /\ b.op \in Branches
      BY <1>r, <2>1, <2>2, BranchBuilt
    <2>4. PICK y : y = Compare(IntCompare[cc], s1, s2, "c")
      OBVIOUS
    <2>5. y \in Seq(Insn)
      <3>1. IntCompare[cc] \in Compares
        BY Tables
      <3> QED
        BY <1>r, <2>4, <3>1, CompareCode, BodyInsn
    <2>z. PICK z, Y : z = y \o <<b>> /\ Y = {z}
      OBVIOUS
    <2>w. (\A w \in Y : w = z) /\ EndsWith(z, y, b)
      BY <2>z DEF EndsWith
    <2>6. s \in Then(OperandCode(n), Y)
      BY <1>3, <1>p, <2>1, <2>4, <2>z DEF IntBranch
    <2>v. OperandCode(n) \subseteq AnyCode /\ y \in AnyCode
      BY <1>n, <2>5 DEF AnyCode
    <2>7. s[Len(s)] = b /\ \E x \in OperandCode(n) : \E q : Runs(x, r, q) /\ Runs(y, q, r2)
      BY <2>3, <2>v, <2>6, <2>w, BranchAfter
    <2>8. PICK x \in OperandCode(n) : \E q : Runs(x, r, q) /\ Runs(y, q, r2)
      BY <2>7
    <2>9. PICK q : Runs(x, r, q) /\ Runs(y, q, r2)
      BY <2>8
    <2>10. /\ Keeps(r, q, {"l", "k", "r"})
           /\ q[s1] = LeftValue(n, r) /\ q[s2] = RightValue(n, r)
      BY <1>p, <2>9, OperandRuns
    <2>11. q \in [Regs -> Word]
      BY <2>10 DEF Keeps
    <2>12. Keeps(q, r2, Touched("c")) /\ r2["c"] = IntBit(cc, q[s1], q[s2])
      BY <1>r, <2>4, <2>9, <2>11, IntCompareSteps
    <2>13. r2["c"] = Bool(CondOn(n, r))
      BY <1>p, <2>10, <2>12 DEF CondOn, IntBit
    <2>14. Goes(b, r2) <=> CondOn(n, r)
      BY <2>1, <2>13, GoesOf, BitTells
    <2>15. Keeps(r, r2, {"l", "k", "r"} \cup Touched("c"))
      BY <2>10, <2>12, KeepsThen
    <2>16. CondOn(n, r2) <=> CondOn(n, r)
      <3>1. PICK D : D = {"l", "k", "r"} \cup Touched("c")
        OBVIOUS
      <3>2. "a" \notin D /\ "b" \notin D
        BY <3>1 DEF Touched
      <3> QED
        BY <2>15, <3>1, <3>2, CondKept
    <2> QED
      BY <2>7, <2>14, <2>16
  <1> QED
    BY <1>1, <1>2, <1>3

\* The compare of a branch on floats.
FPOp(cc) ==
  CASE cc \in {"seteq", "setne", "setoeq", "setone", "setueq", "setune"} -> "CEQF"
    [] cc \in {"setlt", "setgt", "setolt", "setogt", "setult", "setugt"} -> "CLTF"
    [] OTHER -> "CLTEF"

\* Float conditions that swap their operands.
FPSwap(cc) == cc \in {"setgt", "setge", "setogt", "setoge", "setugt", "setuge"}

\* Float conditions that branch on the inverse test.
FPInverse(cc) == cc \in {"setne", "setone", "setune"}

\* The compare of a float branch.
FPTest(cc) ==
  I(FPOp(cc), "c", IF FPSwap(cc) THEN "b" ELSE "a", IF FPSwap(cc) THEN "a" ELSE "b", 0)

\* The branch behind it.
FPJump(cc) == I(IF FPInverse(cc) THEN "BE" ELSE "BNZ", "zero", "c", "zero", 0)

\* Conditions with a compare of their own.
FPNames == DOMAIN FPCompare \cup {"setgt", "setge"}

\* The branch of a float condition: the ordered test, or a compare and its branch.
LEMMA FPBranchShape ==
  ASSUME NEW cc, NEW s \in FPBranch(cc)
  PROVE  /\ cc \in {"seto", "setuo"} => s = Ordered(cc, "c") \o <<I("BNE", "zero", "c", "zero", 0)>>
         /\ cc \notin {"seto", "setuo"} => s = <<FPTest(cc)>> \o <<FPJump(cc)>>
  <1>1. CASE cc \in {"seto", "setuo"}
    BY <1>1 DEF FPBranch
  <1>2. CASE cc \notin {"seto", "setuo"}
    <2>1. PICK op : op = FPOp(cc)
      OBVIOUS
    <2>2. PICK swap : swap = FPSwap(cc)
      OBVIOUS
    <2>3. PICK inverse : inverse = FPInverse(cc)
      OBVIOUS
    <2>4. FPBranch(cc) = {Compare(Cmp(op, swap, FALSE), "a", "b", "c")
                            \o <<I(IF inverse THEN "BE" ELSE "BNZ", "zero", "c", "zero", 0)>>}
      BY <1>2, <2>1, <2>2, <2>3 DEF FPBranch, FPOp, FPSwap, FPInverse
    <2>5. Compare(Cmp(op, swap, FALSE), "a", "b", "c")
            = <<I(op, "c", IF swap THEN "b" ELSE "a", IF swap THEN "a" ELSE "b", 0)>>
      BY DEF Compare, Cmp
    <2> QED
      BY <1>2, <2>1, <2>2, <2>3, <2>4, <2>5 DEF FPTest, FPJump
  <1> QED
    BY <1>1, <1>2

\* What the compare finds is what the condition asks for, or its opposite.
LEMMA FPTestValue ==
  ASSUME NEW cc \in FPNames, NEW r \in [Regs -> Word], NEW v, v = Value(FPTest(cc), r)
  PROVE  /\ v \in {0, 1}
         /\ FPInverse(cc) => (Holds(cc, TRUE, r["a"], r["b"]) <=> v = 0)
         /\ ~FPInverse(cc) => (Holds(cc, TRUE, r["a"], r["b"]) <=> v # 0)
  <1>1. PICK x \in Word, y \in Word : x = r["a"] /\ y = r["b"]
    BY DEF Regs
  <1>2. x \in Int /\ y \in Int
    BY WordFacts DEF Word
  <1>3. PICK i : i = FPTest(cc)
    OBVIOUS
  <1>4. /\ i.op = FPOp(cc)
        /\ FPSwap(cc) => i.s1 = "b" /\ i.s2 = "a"
        /\ ~FPSwap(cc) => i.s1 = "a" /\ i.s2 = "b"
    BY <1>3 DEF FPTest, I
  <1>5. /\ i.op = "CEQF" => v = (IF r[i.s1] = r[i.s2] THEN 1 ELSE 0)
        /\ i.op = "CLTF" => v = (IF r[i.s1] < r[i.s2] THEN 1 ELSE 0)
        /\ i.op = "CLTEF" => v = (IF r[i.s1] <= r[i.s2] THEN 1 ELSE 0)
    BY <1>3, CompareValues
  <1>6. CASE cc \in {"seteq", "setoeq", "setueq"}
    <2>1. FPOp(cc) = "CEQF" /\ ~FPSwap(cc) /\ ~FPInverse(cc)
      BY <1>6 DEF FPOp, FPSwap, FPInverse
    <2>2. v = IF x = y THEN 1 ELSE 0
      BY <1>1, <1>4, <1>5, <2>1
    <2>3. Holds(cc, TRUE, x, y) <=> x = y
      BY <1>6 DEF Holds
    <2>4. v \in {0, 1} /\ (x = y <=> v # 0)
      BY <2>2
    <2> QED
      BY <1>1, <2>1, <2>3, <2>4
  <1>7. CASE cc \in {"setne", "setone", "setune"}
    <2>1. FPOp(cc) = "CEQF" /\ ~FPSwap(cc) /\ FPInverse(cc)
      BY <1>7 DEF FPOp, FPSwap, FPInverse
    <2>2. v = IF x = y THEN 1 ELSE 0
      BY <1>1, <1>4, <1>5, <2>1
    <2>3. Holds(cc, TRUE, x, y) <=> x # y
      BY <1>7 DEF Holds
    <2>4. v \in {0, 1} /\ (x # y <=> v = 0)
      BY <2>2
    <2> QED
      BY <1>1, <2>1, <2>3, <2>4
  <1>8. CASE cc \in {"setlt", "setolt", "setult"}
    <2>1. FPOp(cc) = "CLTF" /\ ~FPSwap(cc) /\ ~FPInverse(cc)
      BY <1>8 DEF FPOp, FPSwap, FPInverse
    <2>2. v = IF x < y THEN 1 ELSE 0
      BY <1>1, <1>4, <1>5, <2>1
    <2>3. Holds(cc, TRUE, x, y) <=> x < y
      BY <1>8 DEF Holds
    <2>4. v \in {0, 1} /\ (x < y <=> v # 0)
      BY <2>2
    <2> QED
      BY <1>1, <2>1, <2>3, <2>4
  <1>9. CASE cc \in {"setgt", "setogt", "setugt"}
    <2>1. FPOp(cc) = "CLTF" /\ FPSwap(cc) /\ ~FPInverse(cc)
      BY <1>9 DEF FPOp, FPSwap, FPInverse
    <2>2. v = IF y < x THEN 1 ELSE 0
      BY <1>1, <1>4, <1>5, <2>1
    <2>3. Holds(cc, TRUE, x, y) <=> x > y
      BY <1>9 DEF Holds
    <2>4. v \in {0, 1} /\ (x > y <=> v # 0)
      BY <1>2, <2>2
    <2> QED
      BY <1>1, <2>1, <2>3, <2>4
  <1>10. CASE cc \in {"setle", "setole", "setule"}
    <2>1. FPOp(cc) = "CLTEF" /\ ~FPSwap(cc) /\ ~FPInverse(cc)
      BY <1>10 DEF FPOp, FPSwap, FPInverse
    <2>2. v = IF x <= y THEN 1 ELSE 0
      BY <1>1, <1>4, <1>5, <2>1
    <2>3. Holds(cc, TRUE, x, y) <=> x <= y
      BY <1>10 DEF Holds
    <2>4. v \in {0, 1} /\ (x <= y <=> v # 0)
      BY <2>2
    <2> QED
      BY <1>1, <2>1, <2>3, <2>4
  <1>11. CASE cc \in {"setge", "setoge", "setuge"}
    <2>1. FPOp(cc) = "CLTEF" /\ FPSwap(cc) /\ ~FPInverse(cc)
      BY <1>11 DEF FPOp, FPSwap, FPInverse
    <2>2. v = IF y <= x THEN 1 ELSE 0
      BY <1>1, <1>4, <1>5, <2>1
    <2>3. Holds(cc, TRUE, x, y) <=> x >= y
      BY <1>11 DEF Holds
    <2>4. v \in {0, 1} /\ (x >= y <=> v # 0)
      BY <1>2, <2>2
    <2> QED
      BY <1>1, <2>1, <2>3, <2>4
  <1> QED
    BY <1>6, <1>7, <1>8, <1>9, <1>10, <1>11, FPConditions DEF FPNames

\* The branches on floats.
LEMMA FPBranchRuns ==
  ASSUME NEW n \in Nodes, n.kind = "brcond", n.fp = TRUE, NEW s \in FPBranch(n.cc),
         NEW r \in [Regs -> Word], r["zero"] = 0, NEW r2, Runs(s, r, r2)
  PROVE  Goes(s[Len(s)], r2) <=> CondOn(n, r2)
  <1>r. {"a", "b", "c", "zero"} \subseteq Regs
    BY DEF Regs
  <1>n. /\ n.off = NoImm /\ n.rhs = NoImm
        /\ n.cc \in FPNames \cup {"seto", "setuo"}
    <2>1. n.off = NoImm /\ n.rhs = NoImm /\ n.cc \in FPBrConds
      BY NodeFacts
    <2> QED
      BY <2>1, ConditionAssumption DEF FPNames
  <1>p. PICK cc \in FPNames \cup {"seto", "setuo"} : cc = n.cc
    BY <1>n
  <1>c. CondOn(n, r) <=> Holds(cc, TRUE, r["a"], r["b"])
    BY <1>n, <1>p DEF CondOn, LeftValue, RightValue
  <1>1. CASE cc \in {"seto", "setuo"}
    <2>1. PICK b, y : b = I("BNE", "zero", "c", "zero", 0) /\ y = Ordered(cc, "c")
      OBVIOUS
    <2>2. "BNE" \in Branches
      BY DEF Branches
    <2>3. b \in Insn /\ b.op \in Branches
      BY <1>r, <2>1, <2>2, BranchBuilt
    <2>4. y \in Seq(Insn)
      BY <1>r, <2>1, OrderedCode, BodyInsn
    <2>5. s = y \o <<b>>
      BY <1>1, <1>p, <2>1, FPBranchShape
    <2>6. Runs(y, r, r2) /\ s[Len(s)] = b
      BY <2>3, <2>4, <2>5, LastBranch
    <2>7. PICK d \in Regs : d = "c"
      BY <1>r
    <2>8. /\ Keeps(r, r2, {d, "k", "l", "r"})
          /\ \A u, v : r2[d] = FPBit(cc, u, v)
      <3>1. PICK c2 \in {"seto", "setuo"} : c2 = cc
        BY <1>1
      <3>2. Runs(Ordered(c2, d), r, r2)
        BY <2>1, <2>6, <2>7, <3>1
      <3>3. /\ Keeps(r, r2, {d, "k", "l", "r"})
            /\ \A u, v : r2[d] = FPBit(c2, u, v)
        BY <3>2, OrderedRuns
      <3> QED
        BY <3>1, <3>3
    <2>9. r2["zero"] = 0
      BY <1>r, <2>7, <2>8 DEF Keeps
    <2>10. r2["c"] = Bool(CondOn(n, r))
      <3>1. r2["c"] = FPBit(cc, r["a"], r["b"])
        BY <2>7, <2>8
      <3> QED
        BY <1>n, <1>p, <3>1 DEF FPBit, CondOn, LeftValue, RightValue
    <2>11. Goes(b, r2) <=> r2["c"] # r2["zero"]
      BY <2>1, GoesOf
    <2>12. Goes(b, r2) <=> CondOn(n, r)
      BY <2>9, <2>10, <2>11, BitTells
    <2>13. CondOn(n, r2) <=> CondOn(n, r)
      <3>1. PICK D : D = {d, "k", "l", "r"}
        OBVIOUS
      <3>2. "a" \notin D /\ "b" \notin D
        BY <2>7, <3>1
      <3> QED
        BY <2>8, <3>1, <3>2, CondKept
    <2> QED
      BY <2>6, <2>12, <2>13
  <1>2. CASE cc \notin {"seto", "setuo"}
    <2>0. cc \in FPNames
      BY <1>2
    <2>1. PICK b, i : b = FPJump(cc) /\ i = FPTest(cc)
      OBVIOUS
    <2>2. "BE" \in Branches /\ "BNZ" \in Branches
      BY DEF Branches
    <2>3. b \in Insn /\ b.op \in Branches
      BY <1>r, <2>1, <2>2, BranchBuilt DEF FPJump
    <2>o. PICK op, s1, s2, d :
            /\ op = FPOp(cc) /\ d = "c"
            /\ s1 = IF FPSwap(cc) THEN "b" ELSE "a"
            /\ s2 = IF FPSwap(cc) THEN "a" ELSE "b"
      OBVIOUS
    <2>p. /\ op \in {"CEQF", "CLTF", "CLTEF"} /\ s1 \in Regs /\ s2 \in Regs /\ d \in Regs
          /\ i = I(op, d, s1, s2, 0) /\ d = "c"
      <3>1. op \in {"CEQF", "CLTF", "CLTEF"}
        BY <2>o DEF FPOp
      <3>2. s1 \in Regs /\ s2 \in Regs /\ d \in Regs
        BY <1>r, <2>o
      <3>3. i = I(op, d, s1, s2, 0)
        BY <2>1, <2>o DEF FPTest
      <3> QED
        BY <2>o, <3>1, <3>2, <3>3
    <2>q. op \in Opcodes /\ op # "Select_CC" /\ op \notin Special
      BY <2>p DEF Opcodes, Special, Branches
    <2>4. <<i>> \in Seq(Insn)
      BY <2>p, <2>q, OneInsn
    <2>5. s = <<i>> \o <<b>>
      BY <1>2, <1>p, <2>1, FPBranchShape
    <2>6. Runs(<<i>>, r, r2) /\ s[Len(s)] = b
      BY <2>3, <2>4, <2>5, LastBranch
    <2>7. PICK v : v = Value(i, r)
      OBVIOUS
    <2>8. /\ v \in {0, 1}
          /\ FPInverse(cc) => (Holds(cc, TRUE, r["a"], r["b"]) <=> v = 0)
          /\ ~FPInverse(cc) => (Holds(cc, TRUE, r["a"], r["b"]) <=> v # 0)
      BY <2>0, <2>1, <2>7, FPTestValue
    <2>9. Keeps(r, r2, {d}) /\ r2[d] = v
      <3>1. v \in Word
        BY <2>8, WordFacts DEF Word
      <3>2. Runs(<<I(op, d, s1, s2, 0)>>, r, r2) /\ Value(I(op, d, s1, s2, 0), r) \in Word
        BY <2>p, <2>6, <2>7, <3>1
      <3>4. d \in Regs /\ op \notin Special
        BY <2>p, <2>q
      <3>3. Keeps(r, r2, {d}) /\ r2[d] = Value(I(op, d, s1, s2, 0), r)
        BY <3>2, <3>4, OneCompareRuns
      <3> QED
        BY <2>p, <2>7, <3>3
    <2>10. /\ FPInverse(cc) => (Goes(b, r2) <=> r2["c"] = 0)
           /\ ~FPInverse(cc) => (Goes(b, r2) <=> r2["c"] # 0)
      BY <2>1, GoesOf DEF FPJump
    <2>11. r2["c"] = v
      BY <2>9, <2>p
    <2>12. Goes(b, r2) <=> Holds(cc, TRUE, r["a"], r["b"])
      BY <2>8, <2>10, <2>11, Zenon
    <2>13. CondOn(n, r2) <=> CondOn(n, r)
      <3>1. PICK D : D = {d}
        OBVIOUS
      <3>2. "a" \notin D /\ "b" \notin D
        BY <2>p, <3>1
      <3> QED
        BY <2>9, <3>1, <3>2, CondKept
    <2> QED
      BY <1>c, <2>6, <2>12, <2>13
  <1> QED
    BY <1>1, <1>2

\* A branch leaves the code when its condition holds.
LEMMA BranchRuns ==
  ASSUME NEW n \in Nodes, n.kind = "brcond", NEW s \in SelectCode(n),
         NEW r \in [Regs -> Word], r["zero"] = 0, NEW r2, Runs(s, r, r2)
  PROVE  Goes(s[Len(s)], r2) <=> CondOn(n, r2)
  <1>0. n.fp \in BOOLEAN
    BY NodeFacts
  <1>1. CASE n.fp = TRUE
    <2>1. s \in FPBranch(n.cc)
      BY <1>1 DEF SelectCode
    <2> QED
      BY <1>1, <2>1, FPBranchRuns
  <1>2. CASE n.fp = FALSE
    <2>1. s \in IntBranch(n)
      BY <1>2 DEF SelectCode
    <2> QED
      BY <1>2, <2>1, IntBranchRuns
  <1> QED
    BY <1>0, <1>1, <1>2

\* The value of the node, of the registers r.
MeaningOn(n, r) ==
  CASE n.kind = "const" -> n.rhs
    [] n.kind = "add" -> Wrap(r["a"] + n.rhs)
    [] n.kind \in {"and", "or", "xor"} -> BitOp(n.kind, r["a"], n.rhs)
    [] n.kind = "not" -> MinusOne - r["a"]
    [] n.kind = "load" -> Wrap(r["a"] + n.off)
    [] n.kind = "setcc" -> Bool(CondOn(n, r))
    [] n.kind = "select" -> IF CondOn(n, r) THEN r["t"] ELSE r["f"]

\* The code that puts it into dst.
DstCode(n) ==
  CASE n.kind = "const" -> Constant(n.rhs, "dst")
    [] n.kind = "add" -> AddImmediate("a", n.rhs, "dst")
    [] n.kind \in {"and", "or", "xor"} -> LogicImmediate(n.kind, "a", n.rhs, "dst")
    [] n.kind = "not" -> {<<I("NOR", "dst", "a", "zero", 0)>>}
    [] n.kind = "load" -> SelectAddr("a", n.off, "dst")
    [] n.kind = "setcc" -> SetCC(n, "dst")
    [] n.kind = "select" -> SelectCC(n)

\* Kinds of nodes that have a value.
Values == {"const", "add", "and", "or", "xor", "not", "load", "setcc", "select"}

\* Registers that the code of a node may change.
Scratch == {"dst", "k", "l", "r", "c"}

\* The operands of a node hold the same values.
Operands(r, r2) == \A q \in {"a", "b", "t", "f"} : r2[q] = r[q]

\* The code of a value computes it into dst, which is then used.
LEMMA SelectCodeIs ==
  ASSUME NEW n, n.kind \in Values
  PROVE  SelectCode(n) = Then(DstCode(n), {Use})
  BY DEF SelectCode, DstCode, Values

\* The meaning of a node depends on its operands only.
LEMMA MeaningKept ==
  ASSUME NEW n, n.kind \in Values, NEW r, NEW r2, Operands(r, r2)
  PROVE  MeaningOn(n, r2) = MeaningOn(n, r)
  <1>1. r2["a"] = r["a"] /\ r2["b"] = r["b"] /\ r2["t"] = r["t"] /\ r2["f"] = r["f"]
    BY DEF Operands
  <1>2. CondOn(n, r2) = CondOn(n, r)
    <2>1. LeftValue(n, r2) = LeftValue(n, r) /\ RightValue(n, r2) = RightValue(n, r)
      BY <1>1 DEF LeftValue, RightValue
    <2> QED
      BY <2>1 DEF CondOn
  <1> QED
    BY <1>1, <1>2 DEF MeaningOn, Values

\* The value's instructions, kind by kind.
LEMMA NotRuns ==
  ASSUME NEW s, s = <<I("NOR", "dst", "a", "zero", 0)>>,
         NEW r \in [Regs -> Word], r["zero"] = 0, NEW r2, Runs(s, r, r2)
  PROVE  Keeps(r, r2, {"dst"}) /\ r2["dst"] = MinusOne - r["a"]
  <1>1. PICK x \in Word : x = r["a"]
    BY DEF Regs
  <1>2. PICK w : w = MinusOne - x
    OBVIOUS
  <1>3. BitOp("or", x, 0) = x /\ BitOp("xor", MinusOne, x) = w
    BY <1>2, OrZero, BitOpWord
  <1>4. w \in Word
    BY <1>2, WordFacts DEF Word, MinusOne
  <1>5. \A v : Computes("NOR", r["a"], r["zero"], 0, v) => v = w
    BY <1>1, <1>3 DEF Computes
  <1>6. "NOR" \notin Special /\ "dst" \in Regs
    BY DEF Special, Branches, Regs
  <1>7. Keeps(r, r2, {"dst"}) /\ r2["dst"] = w
    BY <1>4, <1>5, <1>6, OneRuns
  <1> QED
    BY <1>1, <1>2, <1>7

\* The operand that a select chooses.
LEMMA ChooseRuns ==
  ASSUME NEW i, i = I("Select_CC", "dst", "t", "f", 0),
         NEW r \in [Regs -> Word], NEW r2, Runs(<<i>>, r, r2)
  PROVE  Keeps(r, r2, {"dst"}) /\ r2["dst"] = IF r["c"] = 0 THEN r["f"] ELSE r["t"]
  <1>1. i.op = "Select_CC" /\ i.dst = "dst" /\ i.s1 = "t" /\ i.s2 = "f"
    BY DEF I
  <1>2. r2 = Effect(i, r)
    BY RunsOne
  <1>3. Result(i, r) = IF r["c"] = 0 THEN r["f"] ELSE r["t"]
    BY <1>1 DEF Result
  <1>4. Result(i, r) \in Word
    BY <1>3 DEF Regs
  <1>5. i.op \notin Branches /\ i.dst \in Regs
    BY <1>1 DEF Branches, Regs
  <1>6. Keeps(r, r2, {i.dst}) /\ r2[i.dst] = Result(i, r)
    BY <1>2, <1>4, <1>5, EffectOf
  <1> QED
    BY <1>1, <1>3, <1>6

\* The pseudo instruction of a select is an instruction.
LEMMA SelectInsn == <<I("Select_CC", "dst", "t", "f", 0)>> \in Seq(Insn)
  <1>1. I("Select_CC", "dst", "t", "f", 0) \in Insn
    BY SmallFields DEF Insn, Fits, I, Opcodes, Regs, UnsignedImm
  <1> QED
    BY <1>1, ShortCode

\* The node is not one of the float comparisons that the patterns exchange.
Faithful(n) ==
  n.kind \in {"setcc", "select"} => (n.fp => n.cc \notin {"setogt", "setoge"})

\* The code of a comparison puts its truth into the register, unless the value
\* pattern is one of the exchanged ones.
LEMMA SetCCSteps ==
  ASSUME NEW n \in Nodes, n.kind \in {"setcc", "select"}, n.fp => n.cc \notin {"setogt", "setoge"},
         NEW d \in {"dst", "c"}, NEW s \in SetCC(n, d),
         NEW r \in [Regs -> Word], r["zero"] = 0, NEW r2, Runs(s, r, r2)
  PROVE  Keeps(r, r2, Scratch) /\ r2[d] = Bool(CondOn(n, r))
  <1>1. Keeps(r, r2, {d, "k", "l", "r"}) /\ r2[d] = Bool(CondOn(n, r))
    BY SetCCRuns, ZenonT(40)
  <1>2. {d, "k", "l", "r"} \subseteq Scratch
    BY DEF Scratch
  <1> QED
    BY <1>1, <1>2, KeepsMore

\* Each pattern that adds a constant adds it.
LEMMA AddImmediateSteps ==
  ASSUME NEW c \in AddImms, NEW d \in Regs, d = "dst", NEW s \in AddImmediate("a", c, d),
         NEW r \in [Regs -> Word], r["zero"] = 0, NEW r2, Runs(s, r, r2)
  PROVE  Keeps(r, r2, Scratch) /\ r2["dst"] = Wrap(r["a"] + c)
  <1>1. PICK src \in Regs : src = "a"
    BY DEF Regs
  <1>2. s \in AddImmediate(src, c, d) /\ src # "k"
    BY <1>1
  <1>3. Keeps(r, r2, {d, "k"}) /\ r2[d] = Wrap(r[src] + c)
    BY <1>2, AddImmediateRuns
  <1>4. {d, "k"} \subseteq Scratch
    BY DEF Scratch
  <1>5. Keeps(r, r2, Scratch)
    BY <1>3, <1>4, KeepsMore
  <1> QED
    BY <1>1, <1>3, <1>5

\* The condition in c, and the operand that it chooses.
LEMMA SelectCCRuns ==
  ASSUME NEW n \in Nodes, n.kind = "select", Faithful(n), NEW s \in SelectCC(n),
         NEW r \in [Regs -> Word], r["zero"] = 0, NEW r2, Runs(s, r, r2)
  PROVE  Keeps(r, r2, Scratch) /\ r2["dst"] = IF CondOn(n, r) THEN r["t"] ELSE r["f"]
  <1>r. "c" \in Regs /\ "t" \in Regs /\ "f" \in Regs
    BY DEF Regs
  <1>1. PICK i, y, Y : i = I("Select_CC", "dst", "t", "f", 0) /\ y = <<i>> /\ Y = {y}
    OBVIOUS
  <1>2. s \in Then(SetCC(n, "c"), {y})
    BY <1>1 DEF SelectCC
  <1>3. SetCC(n, "c") \subseteq Seq(Insn) /\ y \in Seq(Insn)
    BY <1>r, <1>1, SetCCCode, BodyInsn, SelectInsn
  <1>4. PICK x \in SetCC(n, "c") : \E q : Runs(x, r, q) /\ Runs(y, q, r2)
    BY <1>2, <1>3, ThenLast
  <1>5. PICK q : Runs(x, r, q) /\ Runs(y, q, r2)
    BY <1>4
  <1>6. Keeps(r, q, Scratch) /\ q["c"] = Bool(CondOn(n, r))
    <2>1. PICK d \in {"dst", "c"} : d = "c"
      OBVIOUS
    <2>2. x \in SetCC(n, d) /\ (n.fp => n.cc \notin {"setogt", "setoge"})
      BY <2>1 DEF Faithful
    <2>3. Keeps(r, q, Scratch) /\ q[d] = Bool(CondOn(n, r))
      BY <1>5, <2>2, SetCCSteps
    <2> QED
      BY <2>1, <2>3
  <1>7. q \in [Regs -> Word] /\ q["t"] = r["t"] /\ q["f"] = r["f"]
    BY <1>6, <1>r DEF Keeps, Scratch
  <1>8. Keeps(q, r2, {"dst"}) /\ r2["dst"] = IF q["c"] = 0 THEN q["f"] ELSE q["t"]
    BY <1>1, <1>5, <1>7, ChooseRuns
  <1>9. Keeps(r, r2, Scratch \cup {"dst"})
    BY <1>6, <1>8, KeepsThen
  <1>10. Keeps(r, r2, Scratch)
    BY <1>9, KeepsMore DEF Scratch
  <1>11. q["c"] # 0 <=> CondOn(n, r)
    BY <1>6, BitTells
  <1> QED
    BY <1>7, <1>8, <1>10, <1>11

\* Each kind of node leaves its value in dst.
LEMMA DstRuns ==
  ASSUME NEW n \in Nodes, n.kind \in Values, Faithful(n), NEW s \in DstCode(n),
         NEW r \in [Regs -> Word], r["zero"] = 0, NEW r2, Runs(s, r, r2)
  PROVE  Keeps(r, r2, Scratch) /\ r2["dst"] = MeaningOn(n, r)
  <1>r. "dst" \in Regs /\ "a" \in Regs
    BY DEF Regs
  <1>1. CASE n.kind = "const"
    <2>1. PICK c \in Word : c = n.rhs
      BY <1>1, NodeFacts
    <2>2. s \in Constant(c, "dst") /\ MeaningOn(n, r) = c
      BY <1>1, <2>1 DEF DstCode, MeaningOn
    <2>3. Keeps(r, r2, {"dst"}) /\ r2["dst"] = c
      BY <1>r, <2>2, ConstantRuns
    <2>4. Keeps(r, r2, Scratch)
      BY <2>3, KeepsMore DEF Scratch
    <2> QED
      BY <2>2, <2>3, <2>4
  <1>2. CASE n.kind = "add"
    <2>1. PICK c \in AddImms : c = n.rhs
      BY <1>2, NodeFacts
    <2>2. s \in AddImmediate("a", c, "dst") /\ MeaningOn(n, r) = Wrap(r["a"] + c)
      BY <1>2, <2>1 DEF DstCode, MeaningOn
    <2>3. PICK d \in Regs : d = "dst"
      BY <1>r
    <2>4. s \in AddImmediate("a", c, d)
      BY <2>2, <2>3
    <2>5. Keeps(r, r2, Scratch) /\ r2["dst"] = Wrap(r["a"] + c)
      BY <2>3, <2>4, AddImmediateSteps
    <2> QED
      BY <2>2, <2>5
  <1>3. CASE n.kind \in {"and", "or", "xor"}
    <2>1. PICK c \in Word, op \in {"and", "or", "xor"} : c = n.rhs /\ op = n.kind
      BY <1>3, NodeFacts
    <2>2. s \in LogicImmediate(op, "a", c, "dst") /\ MeaningOn(n, r) = BitOp(op, r["a"], c)
      BY <1>3, <2>1 DEF DstCode, MeaningOn
    <2>3. Keeps(r, r2, {"dst", "k"}) /\ r2["dst"] = BitOp(op, r["a"], c)
      BY <2>2, LogicRuns
    <2>4. Keeps(r, r2, Scratch)
      BY <2>3, KeepsMore DEF Scratch
    <2> QED
      BY <2>2, <2>3, <2>4
  <1>4. CASE n.kind = "not"
    <2>2. s = <<I("NOR", "dst", "a", "zero", 0)>> /\ MeaningOn(n, r) = MinusOne - r["a"]
      BY <1>4 DEF DstCode, MeaningOn
    <2>3. Keeps(r, r2, {"dst"}) /\ r2["dst"] = MinusOne - r["a"]
      BY <2>2, NotRuns
    <2>4. Keeps(r, r2, Scratch)
      BY <2>3, KeepsMore DEF Scratch
    <2> QED
      BY <2>2, <2>3, <2>4
  <1>5. CASE n.kind = "load"
    <2>1. PICK c \in AddImms : c = n.off
      BY <1>5, NodeFacts
    <2>2. s \in SelectAddr("a", c, "dst") /\ MeaningOn(n, r) = Wrap(r["a"] + c)
      BY <1>5, <2>1 DEF DstCode, MeaningOn
    <2>3. Keeps(r, r2, {"dst", "k", "l"}) /\ r2["dst"] = Wrap(r["a"] + c)
      BY <2>2, SelectAddrRuns
    <2>4. Keeps(r, r2, Scratch)
      BY <2>3, KeepsMore DEF Scratch
    <2> QED
      BY <2>2, <2>3, <2>4
  <1>6. CASE n.kind = "setcc"
    <2>1. PICK d \in {"dst", "c"} : d = "dst"
      OBVIOUS
    <2>2. s \in SetCC(n, d) /\ MeaningOn(n, r) = Bool(CondOn(n, r))
      BY <1>6, <2>1 DEF DstCode, MeaningOn
    <2>3. n.fp => n.cc \notin {"setogt", "setoge"}
      BY <1>6 DEF Faithful
    <2>4. Keeps(r, r2, Scratch) /\ r2[d] = Bool(CondOn(n, r))
      BY <1>6, <2>2, <2>3, SetCCSteps
    <2> QED
      BY <2>1, <2>2, <2>4
  <1>7. CASE n.kind = "select"
    <2>1. /\ s \in SelectCC(n)
          /\ MeaningOn(n, r) = IF CondOn(n, r) THEN r["t"] ELSE r["f"]
      BY <1>7 DEF DstCode, MeaningOn
    <2> QED
      BY <1>7, <2>1, SelectCCRuns
  <1> QED
    BY <1>1, <1>2, <1>3, <1>4, <1>5, <1>6, <1>7 DEF Values

\* The code of a value is a sequence of instructions.
LEMMA DstCodeInsn ==
  ASSUME NEW n \in Nodes, n.kind \in Values
  PROVE  DstCode(n) \subseteq Seq(Insn)
  <1>r. "dst" \in Regs /\ "a" \in Regs /\ "zero" \in Regs /\ "c" \in Regs
    BY DEF Regs
  <1>1. CASE n.kind = "const"
    BY <1>1, <1>r, NodeFacts, ConstantCode, BodyInsn DEF DstCode
  <1>2. CASE n.kind = "add"
    BY <1>2, <1>r, NodeFacts, AddImmediateCode, BodyInsn DEF DstCode
  <1>3. CASE n.kind \in {"and", "or", "xor"}
    <2>1. PICK c \in Word, op \in {"and", "or", "xor"} : c = n.rhs /\ op = n.kind
      BY <1>3, NodeFacts
    <2>2. DstCode(n) = LogicImmediate(op, "a", c, "dst")
      BY <1>3, <2>1 DEF DstCode
    <2> QED
      BY <1>r, <2>2, LogicCode, BodyInsn
  <1>4. CASE n.kind = "not"
    <2>1. "NOR" \in Opcodes
      BY DEF Opcodes
    <2>2. <<I("NOR", "dst", "a", "zero", 0)>> \in Seq(Insn)
      BY <1>r, <2>1, OneInsn
    <2> QED
      BY <1>4, <2>2 DEF DstCode
  <1>5. CASE n.kind = "load"
    BY <1>5, <1>r, NodeFacts, SelectAddrCode, BodyInsn DEF DstCode
  <1>6. CASE n.kind = "setcc"
    BY <1>6, <1>r, SetCCCode, BodyInsn DEF DstCode
  <1>7. CASE n.kind = "select"
    <2>1. PICK y, Y : y = <<I("Select_CC", "dst", "t", "f", 0)>> /\ Y = {y}
      OBVIOUS
    <2>2. SetCC(n, "c") \subseteq Seq(Insn) /\ Y \subseteq Seq(Insn)
      BY <1>7, <1>r, <2>1, SetCCCode, BodyInsn, SelectInsn
    <2>3. DstCode(n) = Then(SetCC(n, "c"), Y)
      BY <1>7, <2>1 DEF DstCode, SelectCC
    <2> QED
      BY <2>2, <2>3, ThenCode
  <1> QED
    BY <1>1, <1>2, <1>3, <1>4, <1>5, <1>6, <1>7 DEF Values

\* The use of a value copies it to out.
LEMMA UseRuns ==
  ASSUME NEW r \in [Regs -> Word], r["zero"] = 0, NEW r2, Runs(Use, r, r2)
  PROVE  Keeps(r, r2, {"out"}) /\ r2["out"] = r["dst"] /\ Use \in Seq(Insn)
  <1>r. "out" \in Regs /\ "dst" \in Regs /\ "zero" \in Regs
    BY DEF Regs
  <1>1. PICK w \in Word : w = r["dst"]
    BY <1>r
  <1>2. w \in Int /\ w + 0 = w /\ Wrap(w) = w
    BY WrapWord, WordFacts DEF Word
  <1>3. \A v : Computes("ADDu", r["dst"], r["zero"], 0, v) => v = w
    BY <1>1, <1>2 DEF Computes
  <1>4. "ADDu" \notin Special /\ "ADDu" \in Opcodes
    BY DEF Special, Branches, Opcodes
  <1>5. Keeps(r, r2, {"out"}) /\ r2["out"] = w
    BY <1>r, <1>3, <1>4, OneRuns DEF Use
  <1> QED
    BY <1>1, <1>5, <1>r, <1>4, OneInsn DEF Use

\* The code of a node leaves its value in out.
LEMMA ValueRuns ==
  ASSUME NEW n \in Nodes, n.kind \in Values, Faithful(n), NEW s \in SelectCode(n),
         NEW r \in [Regs -> Word], r["zero"] = 0, NEW r2, Runs(s, r, r2)
  PROVE  r2["out"] = MeaningOn(n, r2)
  <1>r. {"a", "b", "t", "f", "zero"} \subseteq Regs
    BY DEF Regs
  <1>1. DstCode(n) \subseteq Seq(Insn) /\ Use \in Seq(Insn)
    <2>1. "ADDu" \in Opcodes /\ "out" \in Regs /\ "dst" \in Regs /\ "zero" \in Regs
      BY DEF Opcodes, Regs
    <2>2. Use \in Seq(Insn)
      BY <2>1, OneInsn DEF Use
    <2> QED
      BY <2>2, DstCodeInsn
  <1>2. s \in Then(DstCode(n), {Use})
    BY SelectCodeIs
  <1>3. PICK x \in DstCode(n) : \E q : Runs(x, r, q) /\ Runs(Use, q, r2)
    BY <1>1, <1>2, ThenLast
  <1>4. PICK q : Runs(x, r, q) /\ Runs(Use, q, r2)
    BY <1>3
  <1>5. Keeps(r, q, Scratch) /\ q["dst"] = MeaningOn(n, r)
    BY <1>4, DstRuns
  <1>6. q \in [Regs -> Word] /\ q["zero"] = 0
    BY <1>5, <1>r DEF Keeps, Scratch
  <1>7. Keeps(q, r2, {"out"}) /\ r2["out"] = q["dst"]
    BY <1>4, <1>6, UseRuns
  <1>8. Operands(r, r2)
    BY <1>5, <1>7, <1>r DEF Keeps, Scratch, Operands
  <1>9. MeaningOn(n, r2) = MeaningOn(n, r)
    BY <1>8, MeaningKept
  <1> QED
    BY <1>5, <1>7, <1>9

\* What an instruction of each phase is.
LEMMA InsnFacts ==
  ASSUME NEW i \in Insn
  PROVE  /\ i.op \in Opcodes /\ i.dst \in Regs /\ i.s1 \in Regs /\ i.s2 \in Regs
         /\ i.imm \in Word /\ i.text \in Int /\ Fits(i)
  BY DEF Insn

\* Each phase narrows the instructions that may occur.
LEMMA InsnKinds ==
  PrintedInsn \subseteq ExpandedInsn /\ ExpandedInsn \subseteq InsertedInsn /\ InsertedInsn \subseteq Insn
  BY DEF PrintedInsn, ExpandedInsn, InsertedInsn

\* What a compare or an arithmetic instruction computes is a word.
Plain == {"ADDi", "ADDiu", "LDW", "ADDu", "MVUi", "ANDi", "ORi", "XORi", "AND", "OR", "XOR", "NOR"}

\* Opcodes of compares.
Comparing == {"CEQ", "CEQF", "CLT", "CLE", "CLTU", "CLTF", "CLEU", "CLTEF"}

\* Instructions compute words.
LEMMA ComputesWord ==
  ASSUME NEW op \in Plain, NEW x \in Word, NEW y \in Word, NEW t \in Int, NEW v,
         Computes(op, x, y, t, v)
  PROVE  v \in Word
  <1>1. x \in Int /\ y \in Int /\ Half \in Int /\ MinusOne \in Word
    BY WordFacts DEF Word, MinusOne
  <1>2. Wrap(x + t) \in Word /\ Wrap(x + y) \in Word /\ Wrap(t * Half) \in Word /\ Wrap(t) \in Word
    <2>1. x + t \in Int /\ x + y \in Int /\ t * Half \in Int
      BY <1>1
    <2> QED
      BY <2>1, WrapFacts
  <1>3. \A o \in {"and", "or", "xor"} : BitOp(o, x, Wrap(t)) \in Word /\ BitOp(o, x, y) \in Word
    BY <1>2, BitOpWord
  <1>4. BitOp("xor", MinusOne, BitOp("or", x, y)) \in Word
    BY <1>1, <1>3, BitOpWord
  <1>5. CASE op \in {"ADDi", "ADDiu", "LDW", "ADDu", "MVUi"}
    BY <1>2, <1>5 DEF Computes
  <1>6. CASE op \in {"ANDi", "ORi", "XORi", "AND", "OR", "XOR"}
    BY <1>3, <1>6 DEF Computes
  <1>7. CASE op = "NOR"
    BY <1>4, <1>7 DEF Computes
  <1> QED
    BY <1>5, <1>6, <1>7 DEF Plain

\* So do those of an expanded block.
LEMMA ValueWord ==
  ASSUME NEW i \in ExpandedInsn, i.op \notin Jumping, NEW r \in [Regs -> Word]
  PROVE  Value(i, r) \in Word
  <1>1. i \in Insn /\ i.op \notin {"MOVi32imm", "Select_CC"}
    BY InsnKinds DEF ExpandedInsn, InsertedInsn
  <1>2. /\ i.op \in Opcodes /\ i.s1 \in Regs /\ i.s2 \in Regs /\ i.text \in Int
    BY <1>1, InsnFacts
  <1>3. i.op \in Plain \cup Comparing
    BY <1>1, <1>2 DEF Opcodes, Jumping, Branches, UnsignedImm, Plain, Comparing
  <1>4. CASE i.op \in Plain
    <2>1. PICK op \in Plain, x \in Word, y \in Word, t \in Int :
            op = i.op /\ x = r[i.s1] /\ y = r[i.s2] /\ t = i.text
      BY <1>2, <1>4
    <2>2. Computes(op, x, y, t, Value(i, r))
      BY <2>1, ValueComputes
    <2> QED
      BY <2>2, ComputesWord
  <1>5. CASE i.op \in Comparing
    <2>1. Value(i, r) \in {0, 1}
      BY <1>5, CompareValues DEF Comparing
    <2> QED
      BY <2>1, WordFacts DEF Word
  <1> QED
    BY <1>3, <1>4, <1>5

\* Reading the text back gives the value of the operand that selection gave.
LEMMA ComputesBack ==
  ASSUME NEW op \in Plain, NEW x \in Word, NEW y \in Word, NEW t \in Int, NEW m \in Word,
         Wrap(t) = m, NEW v, Computes(op, x, y, t, v), NEW w, Computes(op, x, y, m, w)
  PROVE  v = w
  <1>1. x \in Int /\ Wrap(m) = m
    BY WrapWord, WordFacts DEF Word
  <1>2. Wrap(x + t) = Wrap(x + m) /\ Wrap(t * Half) = Wrap(m * Half)
    BY <1>1, WrapFacts
  <1>3. CASE op \in {"ADDi", "ADDiu", "LDW"}
    BY <1>2, <1>3 DEF Computes
  <1>4. CASE op = "MVUi"
    BY <1>2, <1>4 DEF Computes
  <1>5. CASE op \in {"ANDi", "ORi", "XORi"}
    BY <1>1, <1>5 DEF Computes
  <1>6. CASE op \in {"ADDu", "AND", "OR", "XOR", "NOR"}
    BY <1>6 DEF Computes
  <1> QED
    BY <1>3, <1>4, <1>5, <1>6 DEF Plain

\* A printed instruction computes what the selected one means (printOperand).
LEMMA ValueBack ==
  ASSUME NEW i \in PrintedInsn, AddImmsFit, i.op \notin Jumping, NEW r \in [Regs -> Word]
  PROVE  Value(i, r) = Result(i, r)
  <1>1. i \in Insn /\ i.op \notin {"MOVi32imm", "Select_CC"} /\ Wrap(i.text) = i.imm
    BY InsnKinds DEF PrintedInsn, ExpandedInsn, InsertedInsn
  <1>2. /\ i.op \in Opcodes /\ i.s1 \in Regs /\ i.s2 \in Regs /\ i.text \in Int /\ i.imm \in Word
    BY <1>1, InsnFacts
  <1>3. i.op \in Plain \cup Comparing
    BY <1>1, <1>2 DEF Opcodes, Jumping, Branches, UnsignedImm, Plain, Comparing
  <1>4. PICK j : j = [i EXCEPT !.text = i.imm]
    OBVIOUS
  <1>5. j.op = i.op /\ j.s1 = i.s1 /\ j.s2 = i.s2 /\ j.text = i.imm
    BY <1>1, <1>4 DEF Insn
  <1>6. Result(i, r) = Value(j, r)
    BY <1>1, <1>4 DEF Result, Jumping
  <1>7. CASE i.op \in Plain
    <2>1. PICK op \in Plain, x \in Word, y \in Word, t \in Int, m \in Word :
            op = i.op /\ x = r[i.s1] /\ y = r[i.s2] /\ t = i.text /\ m = i.imm
      BY <1>2, <1>7
    <2>2. Computes(op, x, y, t, Value(i, r)) /\ Computes(op, x, y, m, Value(j, r))
      BY <1>5, <2>1, ValueComputes
    <2>3. Wrap(t) = m
      BY <1>1, <2>1
    <2>4. Value(i, r) = Value(j, r)
      BY <2>2, <2>3, ComputesBack
    <2> QED
      BY <1>6, <2>4
  <1>8. CASE i.op \in Comparing
    <2>1. Value(i, r) = Value(j, r)
      BY <1>5, <1>8 DEF Value, Comparing
    <2> QED
      BY <1>6, <2>1
  <1> QED
    BY <1>3, <1>7, <1>8

\* The two halves of a constant.
LEMMA HalvesCode ==
  ASSUME NEW i \in InsertedInsn, NEW m, m = MoveHalves(i)
  PROVE  /\ m \in Seq(InsertedInsn) /\ Len(m) = 2
         /\ m[1].op = "MVUi" /\ m[2].op = "ORi"
  <1>1. i.dst \in Regs /\ i.imm \in Word /\ "zero" \in Regs
    BY DEF InsertedInsn, Insn, Regs
  <1>2. /\ LO16(i.imm) \in Field /\ HI16(i.imm) \in Field
        /\ LO16(i.imm) \in Word /\ HI16(i.imm) \in Word
    BY <1>1, HalfFacts, FieldFacts
  <1>3. PICK u, v : /\ u = I("MVUi", i.dst, "zero", "zero", HI16(i.imm))
                    /\ v = I("ORi", i.dst, i.dst, "zero", LO16(i.imm))
    OBVIOUS
  <1>4. u \in InsertedInsn /\ v \in InsertedInsn
    BY <1>1, <1>2, <1>3, Built DEF UnsignedImm, Opcodes
  <1>5. u.op = "MVUi" /\ v.op = "ORi"
    BY <1>3 DEF I
  <1>6. m = <<u, v>>
    BY <1>3 DEF MoveHalves
  <1> QED
    BY <1>4, <1>5, <1>6

\* A word's constant in two halves, and the rest of the block where it was.
ExpandedTo(s, i, t) ==
  /\ t \in Safe /\ Len(t) = Len(s) + 1
  /\ \A k \in 1..Len(t) : k < i => t[k] = s[k]
  /\ \A k \in 1..Len(t) : k > i + 1 => t[k] = s[k - 1]
  /\ t[i].op = "MVUi" /\ t[i + 1].op = "ORi"
  /\ t = SubSeq(s, 1, i - 1) \o MoveHalves(s[i]) \o SubSeq(s, i + 1, Len(s))

\* What ExpandAt makes of a sequence, position by position.
LEMMA Expanded ==
  ASSUME NEW s \in Safe, NEW i \in 1..Len(s), s[i].op = "MOVi32imm",
         NEW t, t = ExpandAt(s, i)[1]
  PROVE  ExpandedTo(s, i, t)
  <1>1. t = SubSeq(s, 1, i - 1) \o MoveHalves(s[i]) \o SubSeq(s, i + 1, Len(s))
    BY DEF ExpandAt
  <1>2. s \in Seq(InsertedInsn) /\ s[i] \in InsertedInsn /\ Len(s) \in Nat /\ i \in 1..Len(s)
    BY DEF Safe
  <1>4. PICK a, b, m : a = SubSeq(s, 1, i - 1) /\ b = SubSeq(s, i + 1, Len(s)) /\ m = MoveHalves(s[i])
    OBVIOUS
  <1>5. /\ a \in Seq(InsertedInsn) /\ Len(a) = i - 1
        /\ \A k \in 1..(i - 1) : a[k] = s[k]
    <2>1. 1 \in 1..(Len(s) + 1) /\ i - 1 \in 0..Len(s)
      BY <1>2
    <2>2. /\ a \in Seq(InsertedInsn) /\ Len(a) = IF 1 <= i - 1 THEN (i - 1) - 1 + 1 ELSE 0
          /\ \A k \in 1..((i - 1) - 1 + 1) : a[k] = s[1 + k - 1]
      BY <1>2, <1>4, <2>1, Part
    <2>3. \A k \in 1..(i - 1) : k \in 1..((i - 1) - 1 + 1) /\ 1 + k - 1 = k
      BY <1>2
    <2> QED
      BY <1>2, <2>2, <2>3
  <1>6. /\ b \in Seq(InsertedInsn) /\ Len(b) = Len(s) - i
        /\ \A k \in 1..(Len(s) - i) : b[k] = s[i + k]
    <2>1. i + 1 \in 1..(Len(s) + 1) /\ Len(s) \in 0..Len(s)
      BY <1>2
    <2>2. /\ b \in Seq(InsertedInsn) /\ Len(b) = IF i + 1 <= Len(s) THEN Len(s) - (i + 1) + 1 ELSE 0
          /\ \A k \in 1..(Len(s) - (i + 1) + 1) : b[k] = s[(i + 1) + k - 1]
      BY <1>2, <1>4, <2>1, Part
    <2>3. \A k \in 1..(Len(s) - i) : k \in 1..(Len(s) - (i + 1) + 1) /\ (i + 1) + k - 1 = i + k
      BY <1>2
    <2> QED
      BY <1>2, <2>2, <2>3
  <1>7. m \in Seq(InsertedInsn) /\ Len(m) = 2 /\ m[1].op = "MVUi" /\ m[2].op = "ORi"
    BY <1>2, <1>4, HalvesCode
  <1>8. PICK w : w = a \o m
    OBVIOUS
  <1>9. t = w \o b
    BY <1>1, <1>4, <1>8
  <1>11. /\ w \in Seq(InsertedInsn) /\ Len(w) = i + 1
         /\ \A k \in 1..(i + 1) : w[k] = IF k <= i - 1 THEN a[k] ELSE m[k - (i - 1)]
    <2>1. Len(a) + Len(m) = i + 1
      BY <1>2, <1>5, <1>7
    <2>2. /\ w \in Seq(InsertedInsn) /\ Len(w) = Len(a) + Len(m)
          /\ \A k \in 1..(Len(a) + Len(m)) : w[k] = IF k <= Len(a) THEN a[k] ELSE m[k - Len(a)]
      BY <1>5, <1>7, <1>8, ConcatProperties
    <2> QED
      BY <1>5, <2>1, <2>2
  <1>12. /\ t \in Seq(InsertedInsn) /\ Len(t) = Len(s) + 1
         /\ \A k \in 1..(Len(s) + 1) : t[k] = IF k <= i + 1 THEN w[k] ELSE b[k - (i + 1)]
    <2>1. (i + 1) + (Len(s) - i) = Len(s) + 1
      BY <1>2
    <2>2. /\ t \in Seq(InsertedInsn) /\ Len(t) = Len(w) + Len(b)
          /\ \A k \in 1..(Len(w) + Len(b)) : t[k] = IF k <= Len(w) THEN w[k] ELSE b[k - Len(w)]
      <3>1. PICK e \in Seq(InsertedInsn), f \in Seq(InsertedInsn) : e = w /\ f = b
        BY <1>6, <1>11
      <3>2. /\ e \o f \in Seq(InsertedInsn) /\ Len(e \o f) = Len(e) + Len(f)
            /\ \A k \in 1..(Len(e) + Len(f)) :
                 (e \o f)[k] = IF k <= Len(e) THEN e[k] ELSE f[k - Len(e)]
        BY ConcatProperties
      <3> QED
        BY <1>9, <3>1, <3>2
    <2> QED
      BY <1>6, <1>11, <2>1, <2>2
  <1>3. t \in Safe
    BY <1>12 DEF Safe
  <1>13. ASSUME NEW k \in 1..Len(t), k < i PROVE t[k] = s[k]
    <2>1. k \in 1..(Len(s) + 1) /\ k <= i + 1 /\ k \in 1..(i + 1) /\ k <= i - 1 /\ k \in 1..(i - 1)
      BY <1>2, <1>12, <1>13
    <2> QED
      BY <2>1, <1>5, <1>11, <1>12
  <1>14. ASSUME NEW k \in 1..Len(t), k > i + 1 PROVE t[k] = s[k - 1]
    <2>1. k \in 1..(Len(s) + 1) /\ ~(k <= i + 1) /\ k - (i + 1) \in 1..(Len(s) - i)
          /\ i + (k - (i + 1)) = k - 1
      BY <1>2, <1>12, <1>14
    <2>2. t[k] = b[k - (i + 1)] /\ b[k - (i + 1)] = s[i + (k - (i + 1))]
      BY <2>1, <1>6, <1>12
    <2> QED
      BY <2>1, <2>2
  <1>15. t[i] = m[1] /\ t[i + 1] = m[2]
    <2>1. /\ i \in 1..(Len(s) + 1) /\ i + 1 \in 1..(Len(s) + 1) /\ i \in 1..(i + 1) /\ i + 1 \in 1..(i + 1)
          /\ ~(i <= i - 1) /\ ~(i + 1 <= i - 1) /\ i - (i - 1) = 1 /\ (i + 1) - (i - 1) = 2
          /\ i <= i + 1 /\ i + 1 <= i + 1
      BY <1>2
    <2>2. t[i] = w[i] /\ t[i + 1] = w[i + 1]
      BY <2>1, <1>12
    <2>3. w[i] = m[i - (i - 1)] /\ w[i + 1] = m[(i + 1) - (i - 1)]
      BY <2>1, <1>11
    <2> QED
      BY <2>1, <2>2, <2>3
  <1> QED
    BY <1>1, <1>3, <1>7, <1>12, <1>13, <1>14, <1>15 DEF ExpandedTo

\* A phi ahead of straight code.
Headed(s) == s # <<>> /\ s[1].op = "PHI" /\ Straight(s, 2, Len(s))

\* The straight stay straight, a branch stays last and a phi first.
Reshaped(s, t) ==
  /\ Straight(s, 1, Len(s)) => Straight(t, 1, Len(t))
  /\ Branching(s) => Branching(t) /\ t[Len(t)] = s[Len(s)]
  /\ Headed(s) => Headed(t)

\* The expansion leaves branches and phis where they are.
LEMMA ExpandShape ==
  ASSUME NEW s \in Safe, NEW i \in 1..Len(s), NEW t, t = ExpandAt(s, i)[1]
  PROVE  Reshaped(s, t)
  <1>0. s \in Seq(InsertedInsn) /\ Len(s) \in Nat
    BY DEF Safe
  <1>1. CASE s[i].op # "MOVi32imm"
    <2>1. t = s
      BY <1>1 DEF ExpandAt
    <2> QED
      BY <2>1 DEF Reshaped
  <1>2. CASE s[i].op = "MOVi32imm"
    <2>1. /\ t \in Safe /\ Len(t) = Len(s) + 1
          /\ \A k \in 1..Len(t) : k < i => t[k] = s[k]
          /\ \A k \in 1..Len(t) : k > i + 1 => t[k] = s[k - 1]
          /\ t[i].op = "MVUi" /\ t[i + 1].op = "ORi"
      <3>1. ExpandedTo(s, i, t)
        BY <1>2, Expanded
      <3> QED
        BY <3>1 DEF ExpandedTo
    <2>2. PICK n \in Nat : n = Len(s)
      BY <1>0
    <2>3. Len(t) = n + 1 /\ i \in 1..n /\ t # <<>> /\ s # <<>>
      <3>1. Len(t) = n + 1 /\ i \in 1..n
        BY <2>1, <2>2
      <3>2. Len(t) # 0 /\ n # 0
        BY <3>1
      <3> QED
        BY <3>1, <3>2, <2>2
    <2>4. "MVUi" \notin Jumping /\ "ORi" \notin Jumping /\ "MOVi32imm" \notin Jumping
      BY DEF Jumping, Branches
    <2>5. \A k \in 1..(n + 1) : \/ k < i /\ t[k] = s[k]
                                \/ t[k].op \notin Jumping /\ k \in {i, i + 1}
                                \/ k > i + 1 /\ k - 1 \in 1..n /\ t[k] = s[k - 1]
      BY <2>1, <2>3, <2>4
    <2>6. ASSUME Straight(s, 1, n) PROVE Straight(t, 1, n + 1)
      <3>1. \A k \in 1..n : s[k].op \notin Jumping
        BY <2>6 DEF Straight, Jumping
      <3>2. \A k \in 1..(n + 1) : t[k].op \notin Jumping
        <4>1. SUFFICES ASSUME NEW k \in 1..(n + 1) PROVE t[k].op \notin Jumping
          OBVIOUS
        <4>2. k < i => k \in 1..n
          BY <2>3
        <4> QED
          BY <2>5, <3>1, <4>2
      <3> QED
        BY <3>2 DEF Straight, Jumping
    <2>7. ASSUME Branching(s) PROVE Branching(t) /\ t[n + 1] = s[n]
      <3>1. s[n].op \in Branches /\ \A k \in 1..(n - 1) : s[k].op \notin Jumping
        BY <2>2, <2>7 DEF Branching, Straight, Jumping
      <3>2. i # n
        BY <1>2, <2>4, <3>1 DEF Jumping
      <3>3. n + 1 > i + 1 /\ n + 1 \in 1..(n + 1) /\ (n + 1) - 1 = n
        BY <2>3, <3>2
      <3>4. t[n + 1] = s[n]
        BY <2>1, <2>3, <3>3
      <3>5. \A k \in 1..n : t[k].op \notin Jumping
        <4>1. SUFFICES ASSUME NEW k \in 1..n PROVE t[k].op \notin Jumping
          OBVIOUS
        <4>2. /\ k \in 1..(n + 1) /\ (k < i => k \in 1..(n - 1))
              /\ (k > i + 1 => k - 1 \in 1..(n - 1))
          BY <2>3, <3>2
        <4> QED
          BY <2>5, <3>1, <4>2
      <3>6. Straight(t, 1, n)
        BY <3>5 DEF Straight, Jumping
      <3>7. (n + 1) - 1 = n
        OBVIOUS
      <3> QED
        BY <2>3, <3>1, <3>4, <3>6, <3>7 DEF Branching
    <2>8. ASSUME Headed(s) PROVE Headed(t)
      <3>1. s[1].op = "PHI" /\ \A k \in 2..n : s[k].op \notin Jumping
        BY <2>2, <2>8 DEF Headed, Straight, Jumping
      <3>2. i # 1
        BY <1>2, <3>1
      <3>3. 1 < i /\ 1 \in 1..(n + 1)
        BY <2>3, <3>2
      <3>4. t[1] = s[1]
        BY <2>1, <2>3, <3>3
      <3>5. \A k \in 2..(n + 1) : t[k].op \notin Jumping
        <4>1. SUFFICES ASSUME NEW k \in 2..(n + 1) PROVE t[k].op \notin Jumping
          OBVIOUS
        <4>2. /\ k \in 1..(n + 1) /\ (k < i => k \in 2..n)
              /\ (k > i + 1 => k - 1 \in 2..n)
          BY <2>3, <3>2
        <4> QED
          BY <2>5, <3>1, <4>2
      <3>6. Straight(t, 2, n + 1)
        BY <3>5 DEF Straight, Jumping
      <3> QED
        BY <2>3, <3>1, <3>4, <3>6 DEF Headed
    <2> QED
      BY <2>2, <2>3, <2>6, <2>7, <2>8 DEF Reshaped
  <1> QED
    BY <1>1, <1>2

\* The blocks of the diamond.
DiamondTo(s, p, d) ==
  /\ Len(d) = 3 /\ d[1].name = "thisMBB" /\ d[2].name = "copy0MBB" /\ d[3].name = "sinkMBB"
  /\ d[1].insns = SubSeq(s, 1, p - 1) \o <<I("BNZ", "zero", "c", "zero", 0)>>
  /\ d[2].insns = <<>>
  /\ d[3].insns = <<I("PHI", s[p].dst, s[p].s2, s[p].s1, 0)>> \o SubSeq(s, p + 1, Len(s))
  /\ Branching(d[1].insns) /\ Headed(d[3].insns)
  /\ d[1].insns[Len(d[1].insns)] = I("BNZ", "zero", "c", "zero", 0)

\* The inserter lays them out so.
LEMMA DiamondShape ==
  ASSUME NEW s \in Seq(Insn), NEW p \in 1..Len(s), Straight(s, 1, Len(s)),
         NEW d, d = Diamond(s, p)
  PROVE  DiamondTo(s, p, d)
  <1>1. PICK a, e, u, v : /\ a = SubSeq(s, 1, p - 1) /\ e = SubSeq(s, p + 1, Len(s))
                          /\ u = I("BNZ", "zero", "c", "zero", 0)
                          /\ v = I("PHI", s[p].dst, s[p].s2, s[p].s1, 0)
    OBVIOUS
  <1>2. /\ Len(d) = 3 /\ d[1].name = "thisMBB" /\ d[2].name = "copy0MBB" /\ d[3].name = "sinkMBB"
        /\ d[1].insns = a \o <<u>> /\ d[2].insns = <<>> /\ d[3].insns = <<v>> \o e
    BY <1>1 DEF Diamond, Block
  <1>3. u.op = "BNZ" /\ v.op = "PHI"
    BY <1>1 DEF I
  <1>4. PICK n \in Nat : n = Len(s)
    OBVIOUS
  <1>5. PICK S : S = {u, v} \cup Insn
    OBVIOUS
  <1>6. s \in Seq(S) /\ <<u>> \in Seq(S) /\ <<v>> \in Seq(S) /\ p \in 1..n
    <2>1. Insn \subseteq S
      BY <1>5
    <2>2. u \in S /\ v \in S
      BY <1>5
    <2> QED
      BY <1>4, <2>1, <2>2
  <1>7. /\ a \in Seq(S) /\ Len(a) = p - 1 /\ \A k \in 1..(p - 1) : a[k] = s[k]
    <2>1. 1 \in 1..(Len(s) + 1) /\ p - 1 \in 0..Len(s)
      BY <1>4, <1>6
    <2>2. /\ a \in Seq(S) /\ Len(a) = IF 1 <= p - 1 THEN (p - 1) - 1 + 1 ELSE 0
          /\ \A k \in 1..((p - 1) - 1 + 1) : a[k] = s[1 + k - 1]
      BY <1>1, <1>6, <2>1, Part
    <2>3. \A k \in 1..(p - 1) : k \in 1..((p - 1) - 1 + 1) /\ 1 + k - 1 = k
      BY <1>6
    <2> QED
      BY <1>6, <2>2, <2>3
  <1>8. /\ e \in Seq(S) /\ Len(e) = n - p /\ \A k \in 1..(n - p) : e[k] = s[p + k]
    <2>1. p + 1 \in 1..(Len(s) + 1) /\ Len(s) \in 0..Len(s)
      BY <1>4, <1>6
    <2>2. /\ e \in Seq(S) /\ Len(e) = IF p + 1 <= n THEN n - (p + 1) + 1 ELSE 0
          /\ \A k \in 1..(n - (p + 1) + 1) : e[k] = s[(p + 1) + k - 1]
      BY <1>1, <1>4, <1>6, <2>1, Part
    <2>3. \A k \in 1..(n - p) : k \in 1..(n - (p + 1) + 1) /\ (p + 1) + k - 1 = p + k
      BY <1>6
    <2> QED
      BY <1>6, <2>2, <2>3
  <1>9. \A k \in 1..n : s[k].op \notin Jumping
    BY <1>4 DEF Straight, Jumping
  <1>10. PICK f, g : f = a \o <<u>> /\ g = <<v>> \o e
    OBVIOUS
  <1>11. /\ Len(f) = p /\ f[p] = u /\ \A k \in 1..(p - 1) : f[k] = s[k]
    <2>1. /\ Len(f) = Len(a) + Len(<<u>>)
          /\ \A k \in 1..(Len(a) + Len(<<u>>)) : f[k] = IF k <= Len(a) THEN a[k] ELSE <<u>>[k - Len(a)]
      BY <1>6, <1>7, <1>10, ConcatProperties
    <2>2. Len(<<u>>) = 1 /\ <<u>>[1] = u /\ (p - 1) + 1 = p /\ p - (p - 1) = 1 /\ ~(p <= p - 1)
      BY <1>6
    <2>3. Len(f) = p /\ \A k \in 1..p : f[k] = IF k <= p - 1 THEN a[k] ELSE <<u>>[k - (p - 1)]
      BY <1>7, <2>1, <2>2
    <2>4. p \in 1..p /\ \A k \in 1..(p - 1) : k \in 1..p /\ k <= p - 1
      BY <1>6
    <2> QED
      BY <1>7, <2>2, <2>3, <2>4
  <1>12. /\ Len(g) = n - p + 1 /\ g[1] = v /\ \A k \in 2..(n - p + 1) : g[k] = s[p + (k - 1)]
    <2>1. /\ Len(g) = Len(<<v>>) + Len(e)
          /\ \A k \in 1..(Len(<<v>>) + Len(e)) : g[k] = IF k <= Len(<<v>>) THEN <<v>>[k] ELSE e[k - Len(<<v>>)]
      BY <1>6, <1>8, <1>10, ConcatProperties
    <2>2. Len(<<v>>) = 1 /\ <<v>>[1] = v /\ 1 + (n - p) = n - p + 1
      BY <1>6
    <2>3. Len(g) = n - p + 1 /\ \A k \in 1..(n - p + 1) : g[k] = IF k <= 1 THEN <<v>>[k] ELSE e[k - 1]
      BY <1>8, <2>1, <2>2
    <2>4. /\ 1 \in 1..(n - p + 1)
          /\ \A k \in 2..(n - p + 1) : k \in 1..(n - p + 1) /\ ~(k <= 1) /\ k - 1 \in 1..(n - p)
      BY <1>6
    <2>5. g[1] = v
      BY <2>2, <2>3, <2>4
    <2>6. \A k \in 2..(n - p + 1) : g[k] = e[k - 1]
      BY <2>3, <2>4
    <2>7. \A k \in 2..(n - p + 1) : e[k - 1] = s[p + (k - 1)]
      BY <1>8, <2>4
    <2> QED
      BY <2>3, <2>5, <2>6, <2>7
  <1>13. Branching(f) /\ f[Len(f)] = u
    <2>1. f # <<>>
      <3>1. Len(f) # 0
        BY <1>6, <1>11
      <3> QED
        BY <3>1
    <2>2. \A k \in 1..(p - 1) : f[k].op \notin Jumping
      <3>1. \A k \in 1..(p - 1) : k \in 1..n
        BY <1>6
      <3> QED
        BY <1>9, <1>11, <3>1
    <2>3. "BNZ" \in Branches
      BY DEF Branches
    <2> QED
      BY <1>3, <1>11, <2>1, <2>2, <2>3 DEF Branching, Straight, Jumping
  <1>14. Headed(g)
    <2>1. g # <<>>
      <3>1. Len(g) # 0
        BY <1>6, <1>12
      <3> QED
        BY <3>1
    <2>2. \A k \in 2..(n - p + 1) : g[k].op \notin Jumping
      <3>1. \A k \in 2..(n - p + 1) : p + (k - 1) \in 1..n
        BY <1>6
      <3> QED
        BY <1>9, <1>12, <3>1
    <2> QED
      BY <1>3, <1>12, <2>1, <2>2 DEF Headed, Straight, Jumping
  <1> QED
    BY <1>1, <1>2, <1>10, <1>13, <1>14 DEF DiamondTo

\* MachineInv holds before selection.
LEMMA MachineInit == Init => MachineInv
  <1> SUFFICES ASSUME Init PROVE MachineInv
    OBVIOUS
  <1>1. /\ phase = "select" /\ blocks = <<>> /\ at = <<1, 1>> /\ from = 0 /\ taken = FALSE
    BY DEF Init
  <1>2. regs \in [Regs -> Word]
    <2>1. PICK n \in Nodes :
            \E a \in IF n.fp THEN FPOperands ELSE IntOperands :
              \E b \in IF n.fp THEN FPOperands
                       ELSE IF n.cc # "none" /\ n.rhs = NoImm THEN IntOperands ELSE {0} :
                regs = [r \in Regs |-> CASE r = "a" -> a [] r = "b" -> b
                                         [] r = "t" -> 1 [] r = "f" -> 2 [] OTHER -> 0]
      BY DEF Init
    <2>2. 0 \in Word /\ 1 \in Word /\ 2 \in Word
      BY WordFacts DEF Word
    <2>3. IntOperands \subseteq Word /\ FPOperands \subseteq Word
      BY SelectAssumption
    <2>4. PICK a \in Word, b \in Word :
            regs = [r \in Regs |-> CASE r = "a" -> a [] r = "b" -> b
                                     [] r = "t" -> 1 [] r = "f" -> 2 [] OTHER -> 0]
      BY <2>1, <2>2, <2>3
    <2> QED
      BY <2>2, <2>4
  <1>3. Len(blocks) = 0
    BY <1>1
  <1>4. from \in 0..Len(blocks)
    BY <1>1, <1>3
  <1>5. ShapeInv
    BY <1>1 DEF ShapeInv
  <1>6. RunInv
    BY <1>1 DEF RunInv
  <1> QED
    BY <1>1, <1>2, <1>4, <1>5, <1>6 DEF MachineInv

\* Selection keeps MachineInv.
LEMMA MachineSelect == SelectInv /\ MachineInv /\ Select => MachineInv'
  <1> SUFFICES ASSUME SelectInv, MachineInv, Select PROVE MachineInv'
    OBVIOUS
  <1>1. PICK s \in SelectCode(node) : blocks' = <<Block("thisMBB", s)>>
    BY DEF Select
  <1>2. /\ phase = "select" /\ phase' = "insert" /\ node' = node /\ at' = at /\ from' = from
        /\ regs' = regs /\ taken' = taken
    BY DEF Select
  <1>3. /\ s \in Seq(Insn) /\ OneSelect(s)
        /\ IF node.kind = "brcond" THEN Branching(s) ELSE Straight(s, 1, Len(s))
        /\ node.kind # "select" => \A p \in DOMAIN s : s[p].op # "Select_CC"
    BY SelectedCode DEF SelectInv
  <1>4. Len(blocks') = 1 /\ blocks'[1].insns = s
    BY <1>1 DEF Block
  <1>5. /\ regs \in [Regs -> Word] /\ taken \in BOOLEAN /\ ~taken /\ from = 0
    BY <1>2 DEF MachineInv
  <1>6. from' \in 0..Len(blocks')
    BY <1>2, <1>4, <1>5
  <1>7. OneBlock'
    BY <1>2, <1>3, <1>4 DEF OneBlock
  <1>8. ShapeInv'
    BY <1>2, <1>3, <1>4, <1>7 DEF ShapeInv
  <1>9. RunInv'
    BY <1>2 DEF RunInv
  <1> QED
    BY <1>2, <1>5, <1>6, <1>8, <1>9 DEF MachineInv

\* Where the selects of a block are.
Selects(s) == {p \in DOMAIN s : s[p].op = "Select_CC"}

\* The only select of a block is the one that the inserter finds.
LEMMA FoundSelect ==
  ASSUME NEW s \in Seq(Insn), OneSelect(s), Selects(s) # {}
  PROVE  Min(Selects(s)) \in 1..Len(s) /\ s[Min(Selects(s))].op = "Select_CC"
  <1>1. PICK p \in DOMAIN s : s[p].op = "Select_CC"
    BY DEF Selects
  <1>2. Selects(s) = {p}
    BY <1>1 DEF OneSelect, Selects
  <1>3. p \in 1..Len(s) /\ p \in Int
    OBVIOUS
  <1>4. Min(Selects(s)) = p
    BY <1>2, <1>3, MinOfOne
  <1> QED
    BY <1>1, <1>3, <1>4

\* EmitInstrWithCustomInserter keeps MachineInv.
LEMMA MachineInsert == SelectInv /\ MachineInv /\ EmitInstrWithCustomInserter => MachineInv'
  <1> SUFFICES ASSUME SelectInv, MachineInv, EmitInstrWithCustomInserter PROVE MachineInv'
    OBVIOUS
  <1>0. PICK s : s = blocks[1].insns
    OBVIOUS
  <1>1. blocks' = IF Selects(s) = {} THEN blocks ELSE Diamond(s, Min(Selects(s)))
    BY <1>0 DEF EmitInstrWithCustomInserter, Selects
  <1>2. /\ phase = "insert" /\ phase' = "expand" /\ node' = node /\ at' = at /\ from' = from
        /\ regs' = regs /\ taken' = taken
    BY DEF EmitInstrWithCustomInserter
  <1>3. Code(Insn) /\ Len(blocks) = 1 /\ OneSelect(s)
    BY <1>0, <1>2 DEF SelectInv, InsertInv
  <1>4. s \in Seq(Insn)
    <2>1. 1 \in DOMAIN blocks
      BY <1>3 DEF Code
    <2> QED
      BY <1>0, <1>3, <2>1, BlockFacts
  <1>5. /\ regs \in [Regs -> Word] /\ taken \in BOOLEAN /\ ~taken /\ from = 0 /\ ShapeInv
    BY <1>2 DEF MachineInv
  <1>6. /\ OneBlock
        /\ node.kind # "select" => \A p \in DOMAIN s : s[p].op # "Select_CC"
    BY <1>0, <1>2, <1>5 DEF ShapeInv
  <1>7. Shape' /\ Len(blocks') \in {1, 3}
    <2>1. CASE Selects(s) = {}
      <3>1. blocks' = blocks
        BY <1>1, <2>1
      <3>2. OneBlock'
        BY <1>2, <1>6, <3>1 DEF OneBlock
      <3> QED
        BY <1>3, <3>1, <3>2 DEF Shape
    <2>2. CASE Selects(s) # {}
      <3>1. node.kind = "select"
        BY <1>6, <2>2 DEF Selects
      <3>2. Straight(s, 1, Len(s))
        BY <1>0, <1>6, <3>1 DEF OneBlock
      <3>3. Min(Selects(s)) \in 1..Len(s) /\ s[Min(Selects(s))].op = "Select_CC"
        BY <1>3, <1>4, <2>2, FoundSelect
      <3>4. PICK p \in 1..Len(s) : p = Min(Selects(s))
        BY <3>3
      <3>9. PICK d : d = Diamond(s, p)
        OBVIOUS
      <3>5. blocks' = d
        BY <1>1, <2>2, <3>4, <3>9
      <3>6. DiamondTo(s, p, d)
        BY <1>4, <3>2, <3>9, DiamondShape
      <3>7. /\ I("BNZ", "zero", "c", "zero", 0).op = "BNZ" /\ I("BNZ", "zero", "c", "zero", 0).s1 = "c"
        BY DEF I
      <3>8. ThreeBlocks'
        BY <1>2, <3>1, <3>5, <3>6, <3>7 DEF ThreeBlocks, Headed, DiamondTo
      <3> QED
        BY <3>5, <3>6, <3>8 DEF Shape, DiamondTo
    <2> QED
      BY <2>1, <2>2
  <1>8. from' \in 0..Len(blocks')
    BY <1>2, <1>5, <1>7
  <1>9. ShapeInv' /\ RunInv'
    BY <1>2, <1>7 DEF ShapeInv, RunInv
  <1> QED
    BY <1>2, <1>5, <1>8, <1>9 DEF MachineInv

\* The same instructions with other texts.
Retexted(s, u) ==
  /\ Len(u) = Len(s)
  /\ \A p \in 1..Len(s) : /\ u[p].op = s[p].op /\ u[p].dst = s[p].dst
                          /\ u[p].s1 = s[p].s1 /\ u[p].s2 = s[p].s2 /\ u[p].imm = s[p].imm

\* Intervals from 1 determine their end.
LEMMA SameRange ==
  ASSUME NEW m \in Nat, NEW n \in Nat, 1..m = 1..n
  PROVE  m = n
  <1>1. m # 0 => m \in 1..m
    OBVIOUS
  <1>2. n # 0 => n \in 1..n
    OBVIOUS
  <1>3. (m # 0 => m <= n) /\ (n # 0 => n <= m)
    BY <1>1, <1>2
  <1> QED
    BY <1>3

\* The pass rewrites one block.
LEMMA ExpandStep ==
  ASSUME SelectInv, ExpandMBB
  PROVE  \E k \in DOMAIN blocks : \E s \in Safe : \E i \in 1..Len(s) : \E t :
           /\ k = at[1] /\ i = at[2] /\ s = blocks[k].insns /\ t = ExpandAt(s, i)[1]
           /\ DOMAIN blocks' = DOMAIN blocks /\ Len(blocks') = Len(blocks)
           /\ blocks'[k].insns = t /\ blocks'[k].name = blocks[k].name
           /\ \A b \in DOMAIN blocks : b # k => blocks'[b] = blocks[b]
  <1>1. PICK k, i, s : k = at[1] /\ i = at[2] /\ s = blocks[at[1]].insns
    OBVIOUS
  <1>2. PICK t : t = ExpandAt(s, i)[1]
    OBVIOUS
  <1>3. /\ phase = "expand" /\ i <= Len(s) /\ s = blocks[k].insns
        /\ blocks' = [blocks EXCEPT ![k].insns = t]
    BY <1>1, <1>2 DEF ExpandMBB
  <1>4. /\ Code(InsertedInsn) /\ k \in DOMAIN blocks /\ i \in 1..(Len(s) + 1)
    BY <1>1, <1>3 DEF SelectInv, ExpandInv, Insns
  <1>5. /\ blocks[k] \in BlockOf(InsertedInsn) /\ s \in Safe
        /\ DOMAIN blocks = 1..Len(blocks) /\ Len(blocks) \in Nat /\ Len(s) \in Nat
    BY <1>3, <1>4, BlockFacts DEF Safe
  <1>6. i \in 1..Len(s)
    BY <1>3, <1>4, <1>5
  <1>7. PICK nb : nb = [blocks[k] EXCEPT !.insns = t]
    OBVIOUS
  <1>8. nb.insns = t /\ nb.name = blocks[k].name
    BY <1>5, <1>7 DEF BlockOf
  <1>9. blocks' = [blocks EXCEPT ![k] = nb]
    BY <1>3, <1>7
  <1>10. /\ DOMAIN blocks' = DOMAIN blocks /\ blocks'[k] = nb
         /\ \A b \in DOMAIN blocks : b # k => blocks'[b] = blocks[b]
    BY <1>4, <1>9
  <1>11. Code(InsertedInsn)'
    BY <1>3, ExpandKeeps DEF SelectInv, ExpandInv, ExpandMBB
  <1>12. Len(blocks') = Len(blocks)
    <2>1. DOMAIN blocks' = 1..Len(blocks') /\ Len(blocks') \in Nat
      BY <1>11 DEF Code
    <2>2. 1..Len(blocks') = 1..Len(blocks)
      BY <1>5, <1>10, <2>1
    <2> QED
      BY <1>5, <2>1, <2>2, SameRange
  <1> QED
    BY <1>1, <1>2, <1>3, <1>4, <1>5, <1>6, <1>8, <1>10, <1>12

\* The printer writes only the texts.
LEMMA PrintStep ==
  ASSUME SelectInv, PrintInstructions
  PROVE  /\ DOMAIN blocks' = DOMAIN blocks /\ Len(blocks') = Len(blocks)
         /\ \A b \in DOMAIN blocks : /\ blocks'[b].name = blocks[b].name
                                     /\ Retexted(blocks[b].insns, blocks'[b].insns)
  <1>1. phase = "print" /\ phase' = "run" /\ Code(ExpandedInsn)
    BY DEF PrintInstructions, SelectInv
  <1>2. Code(PrintedInsn)'
    BY <1>1, PrintKeeps DEF SelectInv
  <1>3. DOMAIN blocks = 1..Len(blocks) /\ Len(blocks) \in Nat
    BY <1>1 DEF Code
  <1>4. DOMAIN blocks' = 1..Len(blocks') /\ Len(blocks') \in Nat
    BY <1>2 DEF Code
  <1>5. DOMAIN blocks' = DOMAIN blocks
    BY DEF PrintInstructions
  <1>6. Len(blocks') = Len(blocks)
    <2>1. 1..Len(blocks') = 1..Len(blocks)
      BY <1>3, <1>4, <1>5
    <2> QED
      BY <1>3, <1>4, <2>1, SameRange
  <1>7. ASSUME NEW b \in DOMAIN blocks
        PROVE  /\ blocks'[b].name = blocks[b].name
               /\ Retexted(blocks[b].insns, blocks'[b].insns)
    <2>1. PICK s : s = blocks[b].insns
      OBVIOUS
    <2>2. PICK u : u = [i \in DOMAIN s |-> [s[i] EXCEPT !.text = Printed(s[i])]]
      OBVIOUS
    <2>3. blocks'[b] = Block(blocks[b].name, u)
      BY <2>1, <2>2 DEF PrintInstructions
    <2>4. blocks'[b].name = blocks[b].name /\ blocks'[b].insns = u
      BY <2>3 DEF Block
    <2>5. s \in Seq(ExpandedInsn) /\ DOMAIN s = 1..Len(s) /\ Len(s) \in Nat
      BY <1>1, <2>1, BlockFacts
    <2>6. u \in Seq(PrintedInsn)
      <3>1. \A c \in DOMAIN blocks' : blocks'[c] \in BlockOf(PrintedInsn)
        BY <1>2 DEF Code
      <3> QED
        BY <1>5, <2>4, <3>1 DEF BlockOf
    <2>7. Len(u) = Len(s)
      <3>1. DOMAIN u = 1..Len(u) /\ Len(u) \in Nat
        BY <2>6
      <3>2. 1..Len(u) = 1..Len(s)
        BY <2>2, <2>5, <3>1
      <3> QED
        BY <2>5, <3>1, <3>2, SameRange
    <2>8. ASSUME NEW p \in 1..Len(s)
          PROVE  /\ u[p].op = s[p].op /\ u[p].dst = s[p].dst
                 /\ u[p].s1 = s[p].s1 /\ u[p].s2 = s[p].s2 /\ u[p].imm = s[p].imm
      <3>1. s[p] \in ExpandedInsn
        BY <2>5
      <3>2. s[p] \in [op : Opcodes, dst : Regs, s1 : Regs, s2 : Regs, imm : Word, text : Int]
        BY <3>1 DEF ExpandedInsn, InsertedInsn, Insn
      <3>3. u[p] = [s[p] EXCEPT !.text = Printed(s[p])]
        BY <2>2, <2>5
      <3> QED
        BY <3>2, <3>3
    <2> QED
      BY <2>1, <2>4, <2>7, <2>8 DEF Retexted
  <1> QED
    BY <1>5, <1>6, <1>7

\* Printing changes the text of immediates and no branch.
LEMMA RetextedShape ==
  ASSUME NEW S, NEW s \in Seq(S), NEW u, Retexted(s, u)
  PROVE  /\ Straight(s, 1, Len(s)) => Straight(u, 1, Len(u))
         /\ Branching(s) => Branching(u) /\ u[Len(u)].op = s[Len(s)].op /\ u[Len(u)].s1 = s[Len(s)].s1
         /\ Headed(s) => Headed(u)
  <1>1. PICK n \in Nat : n = Len(s)
    OBVIOUS
  <1>2. /\ Len(u) = n
        /\ \A p \in 1..n : u[p].op = s[p].op /\ u[p].s1 = s[p].s1
    BY <1>1 DEF Retexted
  <1>3. ASSUME Straight(s, 1, n) PROVE Straight(u, 1, n)
    BY <1>2, <1>3 DEF Straight
  <1>4. s # <<>> => n # 0
    BY <1>1
  <1>5. n # 0 => u # <<>>
    BY <1>2
  <1>6. ASSUME Branching(s) PROVE Branching(u) /\ u[n].op = s[n].op /\ u[n].s1 = s[n].s1
    <2>1. s # <<>> /\ s[n].op \in Branches /\ Straight(s, 1, n - 1)
      BY <1>1, <1>6 DEF Branching
    <2>2. n \in 1..n /\ \A p \in 1..(n - 1) : p \in 1..n
      BY <1>4, <2>1
    <2>3. Straight(u, 1, n - 1)
      BY <1>2, <2>1, <2>2 DEF Straight
    <2> QED
      BY <1>2, <1>4, <1>5, <2>1, <2>2, <2>3 DEF Branching
  <1>7. ASSUME Headed(s) PROVE Headed(u)
    <2>1. s # <<>> /\ s[1].op = "PHI" /\ Straight(s, 2, n)
      BY <1>1, <1>7 DEF Headed
    <2>2. 1 \in 1..n /\ \A p \in 2..n : p \in 1..n
      BY <1>4, <2>1
    <2>3. Straight(u, 2, n)
      BY <1>2, <2>1, <2>2 DEF Straight
    <2> QED
      BY <1>2, <1>4, <1>5, <2>1, <2>2, <2>3 DEF Headed
  <1> QED
    BY <1>1, <1>2, <1>3, <1>6, <1>7

\* ExpandMBB keeps MachineInv.
LEMMA MachineExpand == SelectInv /\ MachineInv /\ ExpandMBB => MachineInv'
  <1> SUFFICES ASSUME SelectInv, MachineInv, ExpandMBB PROVE MachineInv'
    OBVIOUS
  <1>1. PICK k \in DOMAIN blocks : \E s \in Safe : \E i \in 1..Len(s) : \E t :
           /\ k = at[1] /\ i = at[2] /\ s = blocks[k].insns /\ t = ExpandAt(s, i)[1]
           /\ DOMAIN blocks' = DOMAIN blocks /\ Len(blocks') = Len(blocks)
           /\ blocks'[k].insns = t /\ blocks'[k].name = blocks[k].name
           /\ \A b \in DOMAIN blocks : b # k => blocks'[b] = blocks[b]
    BY ExpandStep
  <1>2. PICK s \in Safe : \E i \in 1..Len(s) : \E t :
           /\ k = at[1] /\ i = at[2] /\ s = blocks[k].insns /\ t = ExpandAt(s, i)[1]
           /\ DOMAIN blocks' = DOMAIN blocks /\ Len(blocks') = Len(blocks)
           /\ blocks'[k].insns = t /\ blocks'[k].name = blocks[k].name
           /\ \A b \in DOMAIN blocks : b # k => blocks'[b] = blocks[b]
    BY <1>1
  <1>3. PICK i \in 1..Len(s) : \E t :
           /\ k = at[1] /\ i = at[2] /\ s = blocks[k].insns /\ t = ExpandAt(s, i)[1]
           /\ DOMAIN blocks' = DOMAIN blocks /\ Len(blocks') = Len(blocks)
           /\ blocks'[k].insns = t /\ blocks'[k].name = blocks[k].name
           /\ \A b \in DOMAIN blocks : b # k => blocks'[b] = blocks[b]
    BY <1>2
  <1>4. PICK t :
           /\ k = at[1] /\ i = at[2] /\ s = blocks[k].insns /\ t = ExpandAt(s, i)[1]
           /\ DOMAIN blocks' = DOMAIN blocks /\ Len(blocks') = Len(blocks)
           /\ blocks'[k].insns = t /\ blocks'[k].name = blocks[k].name
           /\ \A b \in DOMAIN blocks : b # k => blocks'[b] = blocks[b]
    BY <1>3
  <1>5. Reshaped(s, t)
    BY <1>4, ExpandShape
  <1>6. /\ phase = "expand" /\ phase' = phase /\ node' = node /\ from' = from
        /\ regs' = regs /\ taken' = taken
    BY DEF ExpandMBB
  <1>7. /\ regs \in [Regs -> Word] /\ taken \in BOOLEAN /\ ~taken /\ from = 0 /\ Shape
        /\ from \in 0..Len(blocks)
    BY <1>6 DEF MachineInv, ShapeInv
  <1>8. DOMAIN blocks = 1..Len(blocks) /\ Len(blocks) \in Nat
    BY <1>6 DEF SelectInv, ExpandInv, Code
  <1>9. Shape'
    <2>1. CASE OneBlock
      <3>1. k = 1
        BY <1>8, <2>1 DEF OneBlock
      <3>2. OneBlock'
        BY <1>4, <1>5, <1>6, <2>1, <3>1 DEF OneBlock, Reshaped
      <3> QED
        BY <3>2 DEF Shape
    <2>2. CASE ThreeBlocks
      <3>1. 1 \in DOMAIN blocks /\ 2 \in DOMAIN blocks /\ 3 \in DOMAIN blocks /\ k \in {1, 2, 3}
        BY <1>8, <2>2 DEF ThreeBlocks
      <3>2. k # 2
        <4>1. blocks[2].insns = <<>>
          BY <2>2 DEF ThreeBlocks
        <4>2. k = 2 => Len(s) = 0
          BY <1>4, <4>1
        <4>3. i \in 1..Len(s)
          OBVIOUS
        <4> QED
          BY <4>2, <4>3
      <3>3. CASE k = 1
        <4>1. blocks'[1].insns = t /\ blocks'[2] = blocks[2] /\ blocks'[3] = blocks[3]
          BY <1>4, <3>1, <3>3
        <4>2. ThreeBlocks'
          BY <1>4, <1>5, <1>6, <2>2, <3>3, <4>1 DEF ThreeBlocks, Reshaped
        <4> QED
          BY <4>2 DEF Shape
      <3>4. CASE k = 3
        <4>1. blocks'[3].insns = t /\ blocks'[2] = blocks[2] /\ blocks'[1] = blocks[1]
          BY <1>4, <3>1, <3>4
        <4>2. Headed(t)
          BY <1>4, <1>5, <2>2, <3>4 DEF ThreeBlocks, Headed, Reshaped
        <4>3. ThreeBlocks'
          BY <1>4, <1>6, <2>2, <3>4, <4>1, <4>2 DEF ThreeBlocks, Headed
        <4> QED
          BY <4>3 DEF Shape
      <3> QED
        BY <3>1, <3>2, <3>3, <3>4
    <2> QED
      BY <1>7, <2>1, <2>2 DEF Shape
  <1>10. ShapeInv' /\ RunInv'
    BY <1>6, <1>9 DEF ShapeInv, RunInv
  <1> QED
    BY <1>4, <1>6, <1>7, <1>10 DEF MachineInv

\* The move to the next block keeps MachineInv.
LEMMA MachineNextMBB == SelectInv /\ MachineInv /\ NextMBB => MachineInv'
  <1> SUFFICES ASSUME SelectInv, MachineInv, NextMBB PROVE MachineInv'
    OBVIOUS
  <1>1. /\ phase = "expand" /\ node' = node /\ blocks' = blocks /\ from' = from
        /\ regs' = regs /\ taken' = taken
        /\ phase' = "expand" \/ (phase' = "print" /\ at' = <<1, 1>>)
    BY DEF NextMBB
  <1>2. Shape'
    BY <1>1 DEF MachineInv, ShapeInv, Shape, OneBlock, ThreeBlocks
  <1>3. ShapeInv' /\ RunInv'
    BY <1>1, <1>2 DEF ShapeInv, RunInv
  <1> QED
    BY <1>1, <1>3 DEF MachineInv

\* Printing keeps MachineInv.
LEMMA MachinePrint == SelectInv /\ MachineInv /\ PrintInstructions => MachineInv'
  <1> SUFFICES ASSUME SelectInv, MachineInv, PrintInstructions PROVE MachineInv'
    OBVIOUS
  <1>1. /\ phase = "print" /\ phase' = "run" /\ node' = node /\ at' = at /\ from' = from
        /\ regs' = regs /\ taken' = taken
    BY DEF PrintInstructions
  <1>2. /\ regs \in [Regs -> Word] /\ taken \in BOOLEAN /\ ~taken /\ from = 0 /\ Shape
        /\ from \in 0..Len(blocks) /\ at = <<1, 1>>
    BY <1>1 DEF MachineInv, ShapeInv
  <1>3. /\ DOMAIN blocks' = DOMAIN blocks /\ Len(blocks') = Len(blocks)
        /\ \A b \in DOMAIN blocks : /\ blocks'[b].name = blocks[b].name
                                    /\ Retexted(blocks[b].insns, blocks'[b].insns)
    BY PrintStep
  <1>4. /\ Code(ExpandedInsn) /\ DOMAIN blocks = 1..Len(blocks) /\ Len(blocks) \in Nat
    BY <1>1 DEF SelectInv, Code
  <1>5. \A b \in DOMAIN blocks : blocks[b].insns \in Seq(ExpandedInsn)
    BY <1>4, BlockFacts
  <1>6. /\ Code(PrintedInsn)'
    BY <1>1, PrintKeeps DEF SelectInv
  <1>7. \A b \in DOMAIN blocks' : blocks'[b].insns \in Seq(PrintedInsn)
    <2>1. \A b \in DOMAIN blocks' : blocks'[b] \in BlockOf(PrintedInsn)
      BY <1>6 DEF Code
    <2> QED
      BY <2>1 DEF BlockOf
  <1>8. /\ Shape' /\ 1 \in DOMAIN blocks'
        /\ node.kind = "brcond" \/ ThreeBlocks' => Branching(blocks'[1].insns)
    <2>1. CASE OneBlock
      <3>1. 1 \in DOMAIN blocks
        BY <1>4, <2>1 DEF OneBlock
      <3>2. PICK s \in Seq(ExpandedInsn) : s = blocks[1].insns
        BY <1>5, <3>1
      <3>3. PICK u : u = blocks'[1].insns
        OBVIOUS
      <3>4. Retexted(s, u)
        BY <1>3, <3>1, <3>2, <3>3
      <3>5. /\ Straight(s, 1, Len(s)) => Straight(u, 1, Len(u))
            /\ Branching(s) => Branching(u) /\ u[Len(u)].op = s[Len(s)].op /\ u[Len(u)].s1 = s[Len(s)].s1
            /\ Headed(s) => Headed(u)
        BY <3>4, RetextedShape
      <3>6. OneBlock' /\ (node.kind = "brcond" => Branching(u))
        BY <1>1, <1>3, <2>1, <3>2, <3>3, <3>5 DEF OneBlock
      <3>7. ~ThreeBlocks'
        BY <3>6 DEF OneBlock, ThreeBlocks
      <3> QED
        BY <1>3, <3>1, <3>3, <3>6, <3>7 DEF Shape
    <2>2. CASE ThreeBlocks
      <3>1. 1 \in DOMAIN blocks /\ 2 \in DOMAIN blocks /\ 3 \in DOMAIN blocks
        BY <1>4, <2>2 DEF ThreeBlocks
      <3>2. PICK s \in Seq(ExpandedInsn) : s = blocks[1].insns
        BY <1>5, <3>1
      <3>3. PICK u : u = blocks'[1].insns
        OBVIOUS
      <3>4. Retexted(s, u)
        BY <1>3, <3>1, <3>2, <3>3
      <3>5. /\ Straight(s, 1, Len(s)) => Straight(u, 1, Len(u))
            /\ Branching(s) => Branching(u) /\ u[Len(u)].op = s[Len(s)].op /\ u[Len(u)].s1 = s[Len(s)].s1
            /\ Headed(s) => Headed(u)
        BY <3>4, RetextedShape
      <3>6. PICK e \in Seq(ExpandedInsn) : e = blocks[3].insns
        BY <1>5, <3>1
      <3>7. PICK v : v = blocks'[3].insns
        OBVIOUS
      <3>8. Retexted(e, v)
        BY <1>3, <3>1, <3>6, <3>7
      <3>9. /\ Straight(e, 1, Len(e)) => Straight(v, 1, Len(v))
            /\ Branching(e) => Branching(v) /\ v[Len(v)].op = e[Len(e)].op /\ v[Len(v)].s1 = e[Len(e)].s1
            /\ Headed(e) => Headed(v)
        BY <3>8, RetextedShape
      <3>10. Headed(v)
        BY <2>2, <3>6, <3>9 DEF ThreeBlocks, Headed
      <3>11. blocks'[2].insns = <<>>
        <4>1. Retexted(blocks[2].insns, blocks'[2].insns) /\ blocks'[2].insns \in Seq(PrintedInsn)
          BY <1>3, <1>7, <3>1
        <4>2. blocks[2].insns = <<>>
          BY <2>2 DEF ThreeBlocks
        <4>3. Len(blocks'[2].insns) = 0
          BY <4>1, <4>2 DEF Retexted
        <4> QED
          BY <4>1, <4>3
      <3>12. Branching(u) /\ u[Len(u)].op = "BNZ" /\ u[Len(u)].s1 = "c"
        BY <2>2, <3>2, <3>5 DEF ThreeBlocks
      <3>13. /\ Len(blocks') = 3 /\ node'.kind = "select"
             /\ blocks'[1].name = "thisMBB" /\ blocks'[2].name = "copy0MBB" /\ blocks'[3].name = "sinkMBB"
        BY <1>1, <1>3, <2>2, <3>1 DEF ThreeBlocks
      <3>14. ThreeBlocks'
        BY <3>3, <3>7, <3>10, <3>11, <3>12, <3>13 DEF ThreeBlocks, Headed
      <3> QED
        BY <1>3, <3>1, <3>3, <3>12, <3>14 DEF Shape
    <2> QED
      BY <1>2, <2>1, <2>2 DEF Shape
  <1>9. PICK u \in Seq(PrintedInsn) : u = blocks'[1].insns
    BY <1>7, <1>8
  <1>10. Branching(u) => Len(u) \in Nat /\ Len(u) # 0
    BY <1>9 DEF Branching
  <1>11. at'[1] = 1 /\ at'[2] = 1 /\ at'[1] # 3 /\ Insns' = u
    BY <1>1, <1>2, <1>9 DEF Insns
  <1>12. RunInv'
    <2>1. at'[1] \in DOMAIN blocks' /\ at'[2] \in 1..(Len(u) + 1)
      BY <1>8, <1>9, <1>11
    <2>2. node.kind = "brcond" \/ ThreeBlocks' => ~(at'[2] > Len(u))
      BY <1>8, <1>9, <1>10, <1>11
    <2> QED
      BY <1>1, <1>11, <2>1, <2>2 DEF RunInv
  <1>13. ShapeInv'
    BY <1>1, <1>8 DEF ShapeInv
  <1> QED
    BY <1>1, <1>2, <1>3, <1>12, <1>13 DEF MachineInv

\* Where the machine is.
LEMMA RunFacts ==
  ASSUME SelectInv, MachineInv, phase = "run"
  PROVE  /\ Code(PrintedInsn) /\ DOMAIN blocks = 1..Len(blocks) /\ Len(blocks) \in Nat
         /\ at[1] \in DOMAIN blocks /\ at[2] \in 1..(Len(Insns) + 1) /\ Insns \in Seq(PrintedInsn)
         /\ Len(Insns) \in Nat /\ Shape /\ regs \in [Regs -> Word] /\ ~taken
         /\ node \in Nodes
         /\ from \in 0..Len(blocks)
         /\ node.kind = "brcond" /\ at[2] > Len(Insns) => ~Goes(Insns[Len(Insns)], regs)
         /\ ThreeBlocks =>
              /\ at[1] = 1 /\ at[2] > Len(Insns) => regs["c"] = 0
              /\ at[1] = 2 => regs["c"] = 0
              /\ at[1] = 3 /\ at[2] = 1 => from = IF regs["c"] = 0 THEN 2 ELSE 1
  <1>1. Code(PrintedInsn) /\ node \in Nodes
    BY DEF SelectInv
  <1>2. /\ at[1] \in DOMAIN blocks /\ at[2] \in 1..(Len(Insns) + 1) /\ Shape
        /\ regs \in [Regs -> Word] /\ ~taken /\ from \in 0..Len(blocks)
        /\ node.kind = "brcond" /\ at[2] > Len(Insns) => ~Goes(Insns[Len(Insns)], regs)
        /\ ThreeBlocks =>
              /\ at[1] = 1 /\ at[2] > Len(Insns) => regs["c"] = 0
              /\ at[1] = 2 => regs["c"] = 0
              /\ at[1] = 3 /\ at[2] = 1 => from = IF regs["c"] = 0 THEN 2 ELSE 1
    BY DEF MachineInv, ShapeInv, RunInv
  <1>3. Insns \in Seq(PrintedInsn)
    BY <1>1, <1>2, BlockFacts DEF Insns
  <1>4. Len(Insns) \in Nat
    BY <1>3
  <1>5. DOMAIN blocks = 1..Len(blocks) /\ Len(blocks) \in Nat
    BY <1>1 DEF Code
  <1> QED
    BY <1>1, <1>2, <1>3, <1>4, <1>5

\* A node that is a branch has one block.
LEMMA BranchBlock ==
  ASSUME Shape, node.kind = "brcond"
  PROVE  OneBlock /\ ~ThreeBlocks /\ Len(blocks) = 1 /\ Branching(blocks[1].insns)
  BY DEF Shape, OneBlock, ThreeBlocks

\* An instruction of one of the blocks that is not a branch is not the last of one
\* that ends with a branch.
LEMMA NotLast ==
  ASSUME NEW s, Len(s) \in Nat, Branching(s), NEW p \in 1..Len(s)
  PROVE  p = Len(s) <=> s[p].op \in Branches
  <1>1. PICK n \in Nat : n = Len(s)
    OBVIOUS
  <1>2. s[n].op \in Branches /\ \A k \in 1..(n - 1) : s[k].op \notin Branches
    BY <1>1 DEF Branching, Straight
  <1>3. p # n => p \in 1..(n - 1)
    BY <1>1
  <1> QED
    BY <1>1, <1>2, <1>3

\* The branch that the machine is at is the last of the node's block or of thisMBB.
LEMMA AtBranch ==
  ASSUME SelectInv, MachineInv, Running, Insns[at[2]].op \in Branches
  PROVE  /\ at[1] = 1 /\ at[2] = Len(Insns) /\ Branching(Insns)
         /\ node.kind = "brcond" \/ ThreeBlocks
  <1>1. /\ Code(PrintedInsn) /\ DOMAIN blocks = 1..Len(blocks) /\ Len(blocks) \in Nat
        /\ at[1] \in DOMAIN blocks /\ at[2] \in 1..(Len(Insns) + 1)
        /\ Len(Insns) \in Nat /\ Shape /\ at[2] <= Len(Insns)
    BY RunFacts DEF Running
  <1>2. at[2] \in 1..Len(Insns)
    BY <1>1
  <1>3. PICK s, p : s = Insns /\ p = at[2] /\ p \in 1..Len(s) /\ Len(s) \in Nat
    BY <1>1, <1>2
  <1>4. s[p].op \in Branches
    BY <1>3
  <1>5. Branching(s) => p = Len(s)
    BY <1>3, <1>4, NotLast
  <1>6. CASE OneBlock
    <2>1. at[1] = 1 /\ s = blocks[1].insns
      BY <1>1, <1>3, <1>6 DEF OneBlock, Insns
    <2>2. node.kind = "brcond"
      <3>1. SUFFICES ASSUME node.kind # "brcond" PROVE FALSE
        OBVIOUS
      <3>2. Straight(s, 1, Len(s))
        BY <1>6, <2>1, <3>1 DEF OneBlock
      <3> QED
        BY <1>3, <1>4, <3>2 DEF Straight
    <2>3. Branching(s)
      BY <1>6, <2>1, <2>2 DEF OneBlock
    <2> QED
      BY <1>3, <1>5, <2>1, <2>2, <2>3
  <1>7. CASE ThreeBlocks
    <2>1. at[1] \in {1, 2, 3}
      BY <1>1, <1>7 DEF ThreeBlocks
    <2>2. at[1] # 2
      <3>1. SUFFICES ASSUME at[1] = 2 PROVE FALSE
        OBVIOUS
      <3>2. Len(s) = 0
        BY <1>3, <1>7, <3>1 DEF ThreeBlocks, Insns
      <3> QED
        BY <1>3, <3>2
    <2>3. at[1] # 3
      <3>1. SUFFICES ASSUME at[1] = 3 PROVE FALSE
        OBVIOUS
      <3>2. s[1].op = "PHI" /\ Straight(s, 2, Len(s))
        BY <1>3, <1>7, <3>1 DEF ThreeBlocks, Insns
      <3>3. p = 1 \/ p \in 2..Len(s)
        BY <1>3
      <3>4. "PHI" \notin Branches
        BY DEF Branches
      <3> QED
        BY <1>4, <3>2, <3>3, <3>4 DEF Straight
    <2>4. at[1] = 1
      BY <2>1, <2>2, <2>3
    <2>5. Branching(s)
      BY <1>3, <1>7, <2>4 DEF ThreeBlocks, Insns
    <2> QED
      BY <1>3, <1>5, <1>7, <2>4, <2>5
  <1> QED
    BY <1>1, <1>6, <1>7 DEF Shape

\* Behind the last instruction of the node's block or of thisMBB there was a branch.
LEMMA BranchAtEnd ==
  ASSUME SelectInv, MachineInv, Running, Insns[at[2]].op \notin Branches,
         node.kind = "brcond" \/ (ThreeBlocks /\ at[1] = 1)
  PROVE  at[2] + 1 <= Len(Insns)
  <1>1. /\ DOMAIN blocks = 1..Len(blocks) /\ Len(blocks) \in Nat
        /\ at[1] \in DOMAIN blocks /\ at[2] \in 1..(Len(Insns) + 1)
        /\ Len(Insns) \in Nat /\ Shape /\ at[2] <= Len(Insns)
    BY RunFacts DEF Running
  <1>2. PICK s, p : s = Insns /\ p = at[2] /\ p \in 1..Len(s) /\ Len(s) \in Nat
    BY <1>1
  <1>3. Branching(s)
    <2>1. CASE node.kind = "brcond"
      <3>1. Len(blocks) = 1 /\ Branching(blocks[1].insns)
        BY <1>1, <2>1, BranchBlock
      <3>2. at[1] = 1
        BY <1>1, <3>1
      <3> QED
        BY <1>2, <3>1, <3>2 DEF Insns
    <2>2. CASE ThreeBlocks /\ at[1] = 1
      BY <1>2, <2>2 DEF ThreeBlocks, Insns
    <2> QED
      BY <2>1, <2>2
  <1>4. s[p].op \notin Branches
    BY <1>2
  <1>5. p # Len(s)
    BY <1>2, <1>3, <1>4, NotLast
  <1> QED
    BY <1>2, <1>5

\* Every instruction leaves a word in its register.
LEMMA ComputedWord ==
  ASSUME NEW i \in PrintedInsn, i.op \notin Branches, regs \in [Regs -> Word]
  PROVE  (IF i.op = "PHI" THEN Incoming(i, regs) ELSE Value(i, regs)) \in Word
  <1>1. i \in ExpandedInsn /\ i.s1 \in Regs /\ i.s2 \in Regs
    BY InsnKinds, InsnFacts
  <1>2. CASE i.op = "PHI"
    BY <1>1, <1>2 DEF Incoming
  <1>3. CASE i.op # "PHI"
    <2>1. i.op \notin Jumping
      BY <1>3 DEF Jumping
    <2>2. Value(i, regs) \in Word
      BY <1>1, <2>1, ValueWord
    <2> QED
      BY <1>3, <2>2
  <1> QED
    BY <1>2, <1>3

\* Where the machine was does not say which block it came from, unless it starts sinkMBB.
LEMMA Moved ==
  ASSUME SelectInv, MachineInv, Running, phase' = phase, blocks' = blocks, node' = node,
         from' = from, taken' = taken, at' = <<at[1], at[2] + 1>>,
         regs' \in [Regs -> Word],
         node.kind = "brcond" /\ at[2] = Len(Insns) => ~Goes(Insns[at[2]], regs'),
         ThreeBlocks /\ at[1] = 1 /\ at[2] = Len(Insns) => regs'["c"] = 0
  PROVE  MachineInv'
  <1>1. /\ phase = "run" /\ Code(PrintedInsn) /\ DOMAIN blocks = 1..Len(blocks) /\ Len(blocks) \in Nat
        /\ at[1] \in DOMAIN blocks /\ at[2] \in 1..(Len(Insns) + 1)
        /\ Len(Insns) \in Nat /\ Shape /\ at[2] <= Len(Insns) /\ ~taken
        /\ from \in 0..Len(blocks)
    BY RunFacts DEF Running
  <1>2. at'[1] = at[1] /\ at'[2] = at[2] + 1 /\ Insns' = Insns
    BY DEF Insns
  <1>3. Shape' /\ (ThreeBlocks' => ThreeBlocks)
    BY <1>1 DEF Shape, OneBlock, ThreeBlocks
  <1>4. ShapeInv'
    BY <1>1, <1>3 DEF ShapeInv
  <1>5. PICK s, p : s = Insns /\ p = at[2] /\ p \in 1..Len(s) /\ Len(s) \in Nat
    BY <1>1
  <1>6. at'[1] \in DOMAIN blocks' /\ at'[2] \in 1..(Len(Insns') + 1)
    BY <1>1, <1>2
  <1>7. at'[2] > Len(Insns') => p = Len(s)
    BY <1>2, <1>5
  <1>8. at'[2] # 1
    BY <1>2, <1>5
  <1>9. ThreeBlocks => at[1] # 2
    <2>1. SUFFICES ASSUME ThreeBlocks, at[1] = 2 PROVE FALSE
      OBVIOUS
    <2>2. Len(s) = 0
      BY <1>5, <2>1 DEF ThreeBlocks, Insns
    <2> QED
      BY <1>5, <2>2
  <1>10. node'.kind = "brcond" /\ at'[2] > Len(Insns') => ~Goes(Insns'[Len(Insns')], regs')
    BY <1>2, <1>5, <1>7
  <1>11. RunInv'
    BY <1>2, <1>3, <1>5, <1>6, <1>7, <1>8, <1>9, <1>10 DEF RunInv
  <1> QED
    BY <1>1, <1>4, <1>11 DEF MachineInv

\* An instruction that computes keeps MachineInv.
LEMMA MachineCompute == SelectInv /\ MachineInv /\ Compute => MachineInv'
  <1> SUFFICES ASSUME SelectInv, MachineInv, Compute PROVE MachineInv'
    OBVIOUS
  <1>1. PICK i : i = Insns[at[2]]
    OBVIOUS
  <1>2. /\ Running /\ i.op \notin Branches /\ phase' = phase /\ blocks' = blocks /\ node' = node
        /\ from' = from /\ taken' = taken /\ at' = <<at[1], at[2] + 1>>
        /\ regs' = [regs EXCEPT ![i.dst] = IF i.op = "PHI" THEN Incoming(i, regs) ELSE Value(i, regs)]
    BY <1>1 DEF Compute
  <1>3. /\ at[2] \in 1..(Len(Insns) + 1) /\ at[2] <= Len(Insns) /\ Insns \in Seq(PrintedInsn)
        /\ Len(Insns) \in Nat /\ regs \in [Regs -> Word]
    BY <1>2, RunFacts DEF Running
  <1>4. i \in PrintedInsn
    <2>1. at[2] \in 1..Len(Insns)
      BY <1>3
    <2> QED
      BY <1>1, <1>3, <2>1
  <1>5. (IF i.op = "PHI" THEN Incoming(i, regs) ELSE Value(i, regs)) \in Word
    BY <1>2, <1>3, <1>4, ComputedWord
  <1>6. regs' \in [Regs -> Word]
    BY <1>2, <1>3, <1>5
  <1>7. node.kind = "brcond" \/ (ThreeBlocks /\ at[1] = 1) => at[2] + 1 <= Len(Insns)
    BY <1>1, <1>2, BranchAtEnd
  <1>8. node.kind = "brcond" \/ (ThreeBlocks /\ at[1] = 1) => at[2] # Len(Insns)
    BY <1>3, <1>7
  <1> QED
    BY <1>2, <1>6, <1>8, Moved

\* A branch that is not taken keeps MachineInv.
LEMMA MachineNotTaken == SelectInv /\ MachineInv /\ NotTaken => MachineInv'
  <1> SUFFICES ASSUME SelectInv, MachineInv, NotTaken PROVE MachineInv'
    OBVIOUS
  <1>1. /\ Running /\ Insns[at[2]].op \in Branches /\ ~Goes(Insns[at[2]], regs)
        /\ phase' = phase /\ blocks' = blocks /\ node' = node
        /\ from' = from /\ taken' = taken /\ at' = <<at[1], at[2] + 1>> /\ regs' = regs
    BY DEF NotTaken
  <1>2. regs \in [Regs -> Word]
    BY <1>1, RunFacts DEF Running
  <1>3. /\ at[1] = 1 /\ at[2] = Len(Insns)
    BY <1>1, AtBranch
  <1>4. ThreeBlocks => regs["c"] = 0
    <2>1. SUFFICES ASSUME ThreeBlocks PROVE regs["c"] = 0
      OBVIOUS
    <2>2. Insns[at[2]].op = "BNZ" /\ Insns[at[2]].s1 = "c"
      BY <1>3, <2>1 DEF ThreeBlocks, Insns
    <2> QED
      BY <1>1, <2>2 DEF Goes
  <1>5. regs' \in [Regs -> Word] /\ ~Goes(Insns[at[2]], regs') /\ (ThreeBlocks => regs'["c"] = 0)
    BY <1>1, <1>2, <1>4
  <1> QED
    BY <1>1, <1>5, Moved

\* A branch that is taken keeps MachineInv.
LEMMA MachineTaken == SelectInv /\ MachineInv /\ Taken => MachineInv'
  <1> SUFFICES ASSUME SelectInv, MachineInv, Taken PROVE MachineInv'
    OBVIOUS
  <1>1. /\ Running /\ Insns[at[2]].op \in Branches /\ Goes(Insns[at[2]], regs)
        /\ blocks' = blocks /\ node' = node /\ regs' = regs
    BY DEF Taken
  <1>2. /\ phase = "run" /\ Code(PrintedInsn) /\ DOMAIN blocks = 1..Len(blocks) /\ Len(blocks) \in Nat
        /\ at[1] \in DOMAIN blocks /\ Shape /\ regs \in [Regs -> Word] /\ ~taken
        /\ from \in 0..Len(blocks)
    BY <1>1, RunFacts DEF Running
  <1>3. /\ at[1] = 1 /\ at[2] = Len(Insns)
        /\ node.kind = "brcond" \/ ThreeBlocks
    BY <1>1, AtBranch
  <1>4. Shape' /\ Code(PrintedInsn)' /\ (ThreeBlocks' <=> ThreeBlocks)
    BY <1>1, <1>2 DEF Shape, OneBlock, ThreeBlocks, Code
  <1>5. CASE node.kind = "brcond"
    <2>1. taken' = TRUE /\ phase' = "done" /\ from' = from
      BY <1>5 DEF Taken
    <2>2. ShapeInv' /\ RunInv'
      BY <1>4, <2>1 DEF ShapeInv, RunInv
    <2> QED
      BY <1>1, <1>2, <2>1, <2>2 DEF MachineInv
  <1>6. CASE node.kind # "brcond"
    <2>1. ThreeBlocks
      BY <1>3, <1>6
    <2>2. /\ at' = <<CHOOSE b \in DOMAIN blocks : blocks[b].name = "sinkMBB", 1>>
          /\ from' = at[1] /\ phase' = phase /\ taken' = taken
      BY <1>6 DEF Taken
    <2>3. /\ Len(blocks) = 3
          /\ blocks[1].name = "thisMBB" /\ blocks[2].name = "copy0MBB" /\ blocks[3].name = "sinkMBB"
      BY <2>1 DEF ThreeBlocks
    <2>4. \A b \in DOMAIN blocks : blocks[b].name = "sinkMBB" <=> b = 3
      <3>1. \A b \in DOMAIN blocks : b \in {1, 2, 3}
        BY <1>2, <2>3
      <3> QED
        BY <2>3, <3>1
    <2>5. 3 \in DOMAIN blocks
      BY <1>2, <2>3
    <2>6. (CHOOSE b \in DOMAIN blocks : blocks[b].name = "sinkMBB") = 3
      BY <2>4, <2>5
    <2>7. at' = <<3, 1>> /\ at'[1] = 3 /\ at'[2] = 1
      BY <2>2, <2>6
    <2>8. regs["c"] # 0
      <3>1. Insns[at[2]].op = "BNZ" /\ Insns[at[2]].s1 = "c"
        BY <1>3, <2>1 DEF ThreeBlocks, Insns
      <3> QED
        BY <1>1, <3>1 DEF Goes
    <2>9. Insns' \in Seq(PrintedInsn)
      <3>1. blocks[3].insns \in Seq(PrintedInsn)
        BY <1>2, <2>5, BlockFacts
      <3> QED
        BY <1>1, <2>7, <3>1 DEF Insns
    <2>10. at'[2] \in 1..(Len(Insns') + 1)
      BY <2>7, <2>9
    <2>11. RunInv'
      <3>1. at'[1] \in DOMAIN blocks'
        BY <1>1, <2>5, <2>7
      <3>2. node'.kind # "brcond"
        BY <1>1, <1>6
      <3>3. from' = IF regs'["c"] = 0 THEN 2 ELSE 1
        BY <1>1, <1>3, <2>2, <2>8
      <3>4. at'[1] # 1 /\ at'[1] # 2
        BY <2>7
      <3> QED
        BY <2>10, <3>1, <3>2, <3>3, <3>4 DEF RunInv
    <2>12. ShapeInv'
      BY <1>2, <1>4, <2>2 DEF ShapeInv
    <2>13. from' \in 0..Len(blocks')
      BY <1>1, <1>3, <2>2, <2>3
    <2> QED
      BY <1>1, <1>2, <2>2, <2>11, <2>12, <2>13 DEF MachineInv
  <1> QED
    BY <1>5, <1>6

\* The end of a block keeps MachineInv.
LEMMA MachineFallThrough == SelectInv /\ MachineInv /\ FallThrough => MachineInv'
  <1> SUFFICES ASSUME SelectInv, MachineInv, FallThrough PROVE MachineInv'
    OBVIOUS
  <1>1. /\ phase = "run" /\ at[2] > Len(Insns)
        /\ blocks' = blocks /\ node' = node /\ regs' = regs /\ taken' = taken
    BY DEF FallThrough
  <1>2. /\ Code(PrintedInsn) /\ DOMAIN blocks = 1..Len(blocks) /\ Len(blocks) \in Nat
        /\ at[1] \in DOMAIN blocks /\ Shape /\ regs \in [Regs -> Word] /\ ~taken
        /\ from \in 0..Len(blocks)
        /\ ThreeBlocks =>
              /\ at[1] = 1 /\ at[2] > Len(Insns) => regs["c"] = 0
              /\ at[1] = 2 => regs["c"] = 0
    BY <1>1, RunFacts
  <1>3. Shape' /\ Code(PrintedInsn)' /\ (ThreeBlocks' <=> ThreeBlocks)
    BY <1>1, <1>2 DEF Shape, OneBlock, ThreeBlocks, Code
  <1>4. CASE at[1] < Len(blocks)
    <2>1. at' = <<at[1] + 1, 1>> /\ from' = at[1] /\ phase' = phase
      BY <1>4 DEF FallThrough
    <2>2. at'[1] = at[1] + 1 /\ at'[2] = 1
      BY <2>1
    <2>3. node.kind # "brcond"
      <3>1. SUFFICES ASSUME node.kind = "brcond" PROVE FALSE
        OBVIOUS
      <3>2. Len(blocks) = 1
        BY <1>2, <3>1, BranchBlock
      <3> QED
        BY <1>2, <1>4, <3>2
    <2>4. at'[1] \in DOMAIN blocks'
      BY <1>1, <1>2, <1>4, <2>2
    <2>5. Insns' \in Seq(PrintedInsn)
      BY <1>1, <1>2, <2>4, BlockFacts DEF Insns
    <2>6. at'[2] \in 1..(Len(Insns') + 1)
      BY <2>2, <2>5
    <2>7. ASSUME ThreeBlocks
          PROVE  /\ regs["c"] = 0 /\ at'[1] # 1 /\ (at'[1] = 3 => from' = 2)
      <3>1. at[1] \in {1, 2, 3} /\ Len(blocks) = 3
        BY <1>2, <2>7 DEF ThreeBlocks
      <3>2. at[1] \in {1, 2}
        BY <1>4, <3>1
      <3> QED
        BY <1>1, <1>2, <2>1, <2>2, <2>7, <3>2
    <2>9. RunInv'
      BY <1>1, <1>3, <2>1, <2>2, <2>3, <2>4, <2>6, <2>7 DEF RunInv
    <2>10. ShapeInv'
      BY <1>1, <1>3, <2>1 DEF ShapeInv
    <2>11. from' \in 0..Len(blocks')
      BY <1>1, <1>2, <2>1
    <2> QED
      BY <1>1, <1>2, <2>1, <2>9, <2>10, <2>11 DEF MachineInv
  <1>5. CASE ~(at[1] < Len(blocks))
    <2>1. phase' = "done" /\ from' = from
      BY <1>5 DEF FallThrough
    <2>2. ShapeInv' /\ RunInv'
      BY <1>3, <2>1 DEF ShapeInv, RunInv
    <2> QED
      BY <1>1, <1>2, <2>1, <2>2 DEF MachineInv
  <1> QED
    BY <1>4, <1>5

\* Every step keeps MachineInv.
LEMMA MachineNext == SelectInv /\ MachineInv /\ [Next]_vars => MachineInv'
  <1>1. SelectInv /\ MachineInv /\ UNCHANGED vars => MachineInv'
    BY DEF vars, MachineInv, ShapeInv, RunInv, Shape, OneBlock, ThreeBlocks, Code, Insns
  <1> QED
    BY <1>1, MachineSelect, MachineInsert, MachineExpand, MachineNextMBB, MachinePrint,
       MachineCompute, MachineNotTaken, MachineTaken, MachineFallThrough DEF Next

\* The machine's branches, its registers and the blocks that it comes from.
THEOREM MachineInvariance == Spec => [](SelectInv /\ MachineInv)
  <1>1. Init => SelectInv /\ MachineInv
    BY InvInit, MachineInit
  <1>2. SelectInv /\ MachineInv /\ [Next]_vars => (SelectInv /\ MachineInv)'
    BY InvNext, MachineNext
  <1> QED
    BY <1>1, <1>2, PTL DEF Spec

\* In every phase the blocks hold instructions.
LEMMA AnyPhaseCode ==
  ASSUME SelectInv, MachineInv
  PROVE  AllInsns \subseteq Insn
  <1>1. CASE phase = "select"
    <2>1. blocks = <<>>
      BY <1>1 DEF MachineInv, ShapeInv
    <2>2. DOMAIN blocks = {}
      BY <2>1
    <2> QED
      BY <2>2 DEF AllInsns
  <1>2. CASE phase = "insert"
    <2>1. Code(Insn)
      BY <1>2 DEF SelectInv, InsertInv
    <2> QED
      BY <2>1, AllInsnsOf
  <1>3. CASE phase = "expand"
    <2>1. Code(InsertedInsn)
      BY <1>3 DEF SelectInv, ExpandInv
    <2> QED
      BY <2>1, AllInsnsOf, InsnKinds
  <1>4. CASE phase = "print"
    <2>1. Code(ExpandedInsn)
      BY <1>4 DEF SelectInv
    <2> QED
      BY <2>1, AllInsnsOf, InsnKinds
  <1>5. CASE phase \in {"run", "done"}
    <2>1. Code(PrintedInsn)
      BY <1>5 DEF SelectInv, MachineInv, ShapeInv
    <2> QED
      BY <2>1, AllInsnsOf, InsnKinds
  <1> QED
    BY <1>1, <1>2, <1>3, <1>4, <1>5 DEF SelectInv

\* Registers hold words, whatever the machine runs, and every immediate is one
\* that its instruction's field holds.
THEOREM SelectTypeCorrect == Spec => []SelectTypeOK
  <1>1. SelectInv /\ MachineInv => SelectTypeOK
    <2> SUFFICES ASSUME SelectInv, MachineInv PROVE SelectTypeOK
      OBVIOUS
    <2>1. \A i \in AllInsns :
             /\ i.dst \in Regs /\ i.s1 \in Regs /\ i.s2 \in Regs /\ i.imm \in Word
             /\ i.op \in {"MVUi", "ORi", "ANDi", "XORi"} => i.imm \in Field
      <3>1. SUFFICES ASSUME NEW i \in AllInsns
                     PROVE  /\ i.dst \in Regs /\ i.s1 \in Regs /\ i.s2 \in Regs /\ i.imm \in Word
                            /\ i.op \in {"MVUi", "ORi", "ANDi", "XORi"} => i.imm \in Field
        OBVIOUS
      <3>2. i \in Insn
        BY AnyPhaseCode
      <3>3. i.dst \in Regs /\ i.s1 \in Regs /\ i.s2 \in Regs /\ i.imm \in Word /\ Fits(i)
        BY <3>2, InsnFacts
      <3> QED
        BY <3>3 DEF Fits, UnsignedImm
    <2>2. /\ node \in Nodes
          /\ phase \in {"select", "insert", "expand", "print", "run", "done"}
      BY DEF SelectInv
    <2>3. regs \in [Regs -> Word] /\ from \in 0..Len(blocks) /\ taken \in BOOLEAN
      BY DEF MachineInv
    <2> QED
      BY <2>1, <2>2, <2>3 DEF SelectTypeOK
  <1> QED
    BY <1>1, MachineInvariance, PTL

---------------------------------------------------------------------------
(* Code that computes the same.                                            *)

\* A sequence is what is before, at and behind a position.
LEMMA SplitAt ==
  ASSUME NEW S, NEW s \in Seq(S), NEW p \in 1..Len(s)
  PROVE  /\ SubSeq(s, 1, p - 1) \in Seq(S) /\ SubSeq(s, p + 1, Len(s)) \in Seq(S)
         /\ s = SubSeq(s, 1, p - 1) \o (<<s[p]>> \o SubSeq(s, p + 1, Len(s)))
         /\ SubSeq(s, p, Len(s)) = <<s[p]>> \o SubSeq(s, p + 1, Len(s))
  <1>1. PICK n \in Nat : n = Len(s)
    OBVIOUS
  <1>2. /\ 1 \in 1..(Len(s) + 1) /\ p - 1 \in (1 - 1)..Len(s) /\ n \in (p - 1)..Len(s)
        /\ n \in p..Len(s) /\ p - 1 \in 0..Len(s) /\ p + 1 \in 1..(Len(s) + 1) /\ n \in 0..Len(s)
        /\ (p - 1) + 1 = p
    BY <1>1
  <1>3. SubSeq(s, 1, p - 1) \o SubSeq(s, (p - 1) + 1, n) = SubSeq(s, 1, n)
    BY <1>2, ConcatAdjacentSubSeq
  <1>4. SubSeq(s, p, n) = <<s[p]>> \o SubSeq(s, p + 1, n)
    BY <1>2, SubSeqRecursiveFirst
  <1>5. SubSeq(s, 1, Len(s)) = s
    BY SubSeqFull
  <1>6. SubSeq(s, 1, p - 1) \in Seq(S) /\ SubSeq(s, p + 1, n) \in Seq(S)
    BY <1>2, Part
  <1> QED
    BY <1>1, <1>2, <1>3, <1>4, <1>5, <1>6

\* u and v take the registers from and to the same values.
Same(u, v) == \A r, r2 : Runs(u, r, r2) <=> Runs(v, r, r2)

\* Code may be replaced by code that runs the same, part by part.
LEMMA SameThen ==
  ASSUME NEW s \in AnyCode, NEW u \in AnyCode, NEW v \in AnyCode, NEW w \in AnyCode,
         Same(s, u), Same(v, w)
  PROVE  Same(s \o v, u \o w)
  <1>1. SUFFICES ASSUME NEW r, NEW r2
                 PROVE  Runs(s \o v, r, r2) <=> Runs(u \o w, r, r2)
    BY DEF Same
  <1>2. Runs(s \o v, r, r2) <=> \E q : Runs(s, r, q) /\ Runs(v, q, r2)
    BY RunsThen DEF AnyCode
  <1>3. Runs(u \o w, r, r2) <=> \E q : Runs(u, r, q) /\ Runs(w, q, r2)
    BY RunsThen DEF AnyCode
  <1>4. \A q : (Runs(s, r, q) /\ Runs(v, q, r2)) <=> (Runs(u, r, q) /\ Runs(w, q, r2))
    BY DEF Same
  <1> QED
    BY <1>2, <1>3, <1>4

\* Code runs as itself.
LEMMA SameSelf ==
  ASSUME NEW s
  PROVE  Same(s, s)
  BY DEF Same

\* The phi of sinkMBB after the branch of thisMBB is the select.
LEMMA SelectAsDiamond ==
  ASSUME NEW i \in Insn, i.op = "Select_CC",
         NEW b, b = I("BNZ", "zero", "c", "zero", 0),
         NEW h, h = I("PHI", i.dst, i.s2, i.s1, 0), NEW r
  PROVE  Effect(h, Effect(b, r)) = Effect(i, r)
  <1>1. b.op \in Branches
    BY DEF I, Branches
  <1>2. Effect(b, r) = r
    BY <1>1 DEF Effect
  <1>3. /\ h.op = "PHI" /\ h.dst = i.dst /\ h.s1 = i.s2 /\ h.s2 = i.s1
    BY DEF I
  <1>4. "PHI" \notin Branches /\ "Select_CC" \notin Branches
    BY DEF Branches
  <1>5. Result(h, r) = Result(i, r)
    BY <1>3 DEF Result
  <1> QED
    BY <1>2, <1>3, <1>4, <1>5 DEF Effect

\* The two halves of a constant are the constant.
LEMMA HalvesAsConstant ==
  ASSUME NEW i \in Insn, i.op = "MOVi32imm",
         NEW u, u = I("MVUi", i.dst, "zero", "zero", HI16(i.imm)),
         NEW v, v = I("ORi", i.dst, i.dst, "zero", LO16(i.imm)), NEW r
  PROVE  Effect(v, Effect(u, r)) = Effect(i, r)
  <1>1. PICK c \in Word, d \in Regs : c = i.imm /\ d = i.dst
    BY InsnFacts
  <1>2. /\ HI16(c) * Half \in Word /\ LO16(c) \in Word
        /\ BitOp("or", HI16(c) * Half, LO16(c)) = c
    BY OrHalves
  <1>3. "MVUi" \notin Special /\ "ORi" \notin Special /\ "MOVi32imm" \notin Branches
    BY DEF Special, Branches
  <1>4. u.op = "MVUi" /\ u.dst = d /\ v.op = "ORi" /\ v.dst = d
    BY <1>1 DEF I
  <1>5. PICK q : q = Effect(u, r)
    OBVIOUS
  <1>6. Result(u, r) = HI16(c) * Half
    <2>1. Computes("MVUi", r["zero"], r["zero"], HI16(c), Result(u, r))
      BY <1>1, <1>3, PlainResult
    <2>2. Result(u, r) = Wrap(HI16(c) * Half)
      BY <2>1 DEF Computes
    <2> QED
      BY <1>2, <2>2, WrapWord
  <1>7. q = [x \in Regs |-> IF x = d THEN HI16(c) * Half ELSE r[x]]
    BY <1>3, <1>4, <1>5, <1>6 DEF Effect, Special
  <1>8. q[d] = HI16(c) * Half
    BY <1>7
  <1>9. Result(v, q) = c
    <2>1. Computes("ORi", q[d], q["zero"], LO16(c), Result(v, q))
      BY <1>1, <1>3, PlainResult
    <2>2. Result(v, q) = BitOp("or", q[d], Wrap(LO16(c)))
      BY <2>1 DEF Computes
    <2>3. Wrap(LO16(c)) = LO16(c)
      BY <1>2, WrapWord
    <2> QED
      BY <1>2, <1>8, <2>2, <2>3
  <1>10. Effect(v, q) = [x \in Regs |-> IF x = d THEN c ELSE q[x]]
    BY <1>3, <1>4, <1>9 DEF Effect, Special
  <1>11. Effect(v, q) = [x \in Regs |-> IF x = d THEN c ELSE r[x]]
    BY <1>7, <1>10
  <1>12. Effect(i, r) = [x \in Regs |-> IF x = d THEN c ELSE r[x]]
    BY <1>1, <1>3 DEF Effect, Result
  <1> QED
    BY <1>5, <1>11, <1>12

\* The code around the select stays what it was.
LEMMA DiamondSame ==
  ASSUME NEW s \in Seq(Insn), NEW p \in 1..Len(s), s[p].op = "Select_CC",
         NEW d, DiamondTo(s, p, d)
  PROVE  Same(s, d[1].insns \o d[3].insns)
  <1>1. PICK i \in Insn : i = s[p]
    OBVIOUS
  <1>2. PICK b, h, a, e : /\ b = I("BNZ", "zero", "c", "zero", 0) /\ h = I("PHI", i.dst, i.s2, i.s1, 0)
                          /\ a = SubSeq(s, 1, p - 1) /\ e = SubSeq(s, p + 1, Len(s))
    OBVIOUS
  <1>3. d[1].insns = a \o <<b>> /\ d[3].insns = <<h>> \o e
    BY <1>1, <1>2 DEF DiamondTo
  <1>4. a \in Seq(Insn) /\ e \in Seq(Insn) /\ s = a \o (<<i>> \o e)
    BY <1>1, <1>2, SplitAt
  <1>5. PICK S : S = {b, h} \cup Insn
    OBVIOUS
  <1>6. /\ a \in Seq(S) /\ e \in Seq(S) /\ <<i>> \in Seq(S) /\ <<b>> \in Seq(S) /\ <<h>> \in Seq(S)
    <2>1. Insn \subseteq S /\ b \in S /\ h \in S /\ i \in S
      BY <1>5
    <2> QED
      BY <1>4, <2>1
  <1>7. /\ a \o <<b>> \in Seq(S) /\ <<h>> \o e \in Seq(S) /\ <<i>> \o e \in Seq(S)
    BY <1>6, ConcatProperties
  <1>8. SUFFICES ASSUME NEW r, NEW r2
                 PROVE  Runs(s, r, r2) <=> Runs((a \o <<b>>) \o (<<h>> \o e), r, r2)
    BY <1>3 DEF Same
  <1>9. Runs(a \o (<<i>> \o e), r, r2) <=> \E q : Runs(a, r, q) /\ Runs(<<i>> \o e, q, r2)
    BY <1>6, <1>7, RunsThen
  <1>10. \A q : Runs(<<i>> \o e, q, r2) <=> \E x : Runs(<<i>>, q, x) /\ Runs(e, x, r2)
    BY <1>6, RunsThen
  <1>11. \A q : Runs(<<i>> \o e, q, r2) <=> Runs(e, Effect(i, q), r2)
    BY <1>10, RunsOne
  <1>12. Runs((a \o <<b>>) \o (<<h>> \o e), r, r2)
           <=> \E q : Runs(a \o <<b>>, r, q) /\ Runs(<<h>> \o e, q, r2)
    <2>1. PICK f \in Seq(S), g \in Seq(S) : f = a \o <<b>> /\ g = <<h>> \o e
      BY <1>7
    <2>2. Runs(f \o g, r, r2) <=> \E q : Runs(f, r, q) /\ Runs(g, q, r2)
      BY RunsThen
    <2> QED
      BY <2>1, <2>2
  <1>13. \A q : Runs(a \o <<b>>, r, q) <=> \E x : Runs(a, r, x) /\ Runs(<<b>>, x, q)
    BY <1>6, RunsThen
  <1>14. \A q : Runs(<<h>> \o e, q, r2) <=> \E x : Runs(<<h>>, q, x) /\ Runs(e, x, r2)
    BY <1>6, RunsThen
  <1>15. \A q : Runs(a \o <<b>>, r, q) <=> \E x : Runs(a, r, x) /\ q = Effect(b, x)
    BY <1>13, RunsOne
  <1>16. \A q : Runs(<<h>> \o e, q, r2) <=> Runs(e, Effect(h, q), r2)
    BY <1>14, RunsOne
  <1>17. Runs((a \o <<b>>) \o (<<h>> \o e), r, r2)
           <=> \E x : Runs(a, r, x) /\ Runs(e, Effect(h, Effect(b, x)), r2)
    BY <1>12, <1>15, <1>16
  <1>18. \A x : Effect(h, Effect(b, x)) = Effect(i, x)
    BY <1>1, <1>2, SelectAsDiamond
  <1> QED
    BY <1>4, <1>9, <1>11, <1>17, <1>18

\* The expansion computes what the pseudo instruction stood for.
LEMMA ExpandSame ==
  ASSUME NEW s \in Safe, NEW i \in 1..Len(s), NEW t, t = ExpandAt(s, i)[1]
  PROVE  Same(s, t) /\ t \in Safe
  <1>1. CASE s[i].op # "MOVi32imm"
    <2>1. t = s
      BY <1>1 DEF ExpandAt
    <2> QED
      BY <2>1, SameSelf
  <1>2. CASE s[i].op = "MOVi32imm"
    <2>1. ExpandedTo(s, i, t)
      BY <1>2, Expanded
    <2>2. s \in Seq(Insn)
      BY InsnKinds DEF Safe
    <2>3. PICK k \in Insn : k = s[i]
      BY <2>2
    <2>4. PICK a, e, u, v : /\ a = SubSeq(s, 1, i - 1) /\ e = SubSeq(s, i + 1, Len(s))
                            /\ u = I("MVUi", k.dst, "zero", "zero", HI16(k.imm))
                            /\ v = I("ORi", k.dst, k.dst, "zero", LO16(k.imm))
      OBVIOUS
    <2>5. MoveHalves(s[i]) = <<u, v>>
      BY <2>3, <2>4 DEF MoveHalves
    <2>6. t = (a \o <<u, v>>) \o e /\ t \in Safe
      BY <2>1, <2>4, <2>5 DEF ExpandedTo
    <2>7. a \in Seq(Insn) /\ e \in Seq(Insn) /\ s = a \o (<<k>> \o e)
      BY <2>2, <2>3, <2>4, SplitAt
    <2>8. PICK S : S = {u, v} \cup Insn
      OBVIOUS
    <2>9. /\ a \in Seq(S) /\ e \in Seq(S) /\ <<k>> \in Seq(S) /\ <<u>> \in Seq(S) /\ <<v>> \in Seq(S)
          /\ <<u, v>> \in Seq(S)
      <3>1. Insn \subseteq S /\ u \in S /\ v \in S /\ k \in S
        BY <2>8
      <3> QED
        BY <2>7, <3>1
    <2>10. <<u, v>> = <<u>> \o <<v>> /\ <<u, v>>[1] = u
      BY PairOf
    <2>11. a \o <<u, v>> \in Seq(S) /\ <<k>> \o e \in Seq(S) /\ <<u, v>> \o e \in Seq(S)
      BY <2>9, ConcatProperties
    <2>12. (a \o <<u, v>>) \o e = a \o (<<u, v>> \o e)
      BY <2>9, ConcatAssociative
    <2>13. ASSUME NEW r, NEW r2
           PROVE  Runs(s, r, r2) <=> Runs(t, r, r2)
      <3>1. Runs(a \o (<<k>> \o e), r, r2) <=> \E q : Runs(a, r, q) /\ Runs(<<k>> \o e, q, r2)
        BY <2>9, <2>11, RunsThen
      <3>2. \A q : Runs(<<k>> \o e, q, r2) <=> \E x : Runs(<<k>>, q, x) /\ Runs(e, x, r2)
        BY <2>9, RunsThen
      <3>3. \A q : Runs(<<k>> \o e, q, r2) <=> Runs(e, Effect(k, q), r2)
        BY <3>2, RunsOne
      <3>4. Runs(a \o (<<u, v>> \o e), r, r2) <=> \E q : Runs(a, r, q) /\ Runs(<<u, v>> \o e, q, r2)
        BY <2>9, <2>11, RunsThen
      <3>5. \A q : Runs(<<u, v>> \o e, q, r2) <=> \E x : Runs(<<u, v>>, q, x) /\ Runs(e, x, r2)
        BY <2>9, RunsThen
      <3>6. \A q, x : Runs(<<u>> \o <<v>>, q, x) <=> \E y : Runs(<<u>>, q, y) /\ Runs(<<v>>, y, x)
        BY <2>9, RunsThen
      <3>10. \A q, y : Runs(<<u>>, q, y) <=> y = Effect(u, q)
        BY RunsOne
      <3>11. \A q, y : Runs(<<v>>, q, y) <=> y = Effect(v, q)
        BY RunsOne
      <3>12. \A q, x : Runs(<<u>> \o <<v>>, q, x) <=> x = Effect(v, Effect(u, q))
        <4>1. SUFFICES ASSUME NEW q, NEW x
                       PROVE  Runs(<<u>> \o <<v>>, q, x) <=> x = Effect(v, Effect(u, q))
          OBVIOUS
        <4>2. Runs(<<u>> \o <<v>>, q, x) <=> \E y : Runs(<<u>>, q, y) /\ Runs(<<v>>, y, x)
          BY <3>6
        <4> QED
          BY <3>10, <3>11, <4>2, Zenon
      <3>7. \A q, x : Runs(<<u, v>>, q, x) <=> x = Effect(v, Effect(u, q))
        BY <2>10, <3>12, Zenon
      <3>8. \A q : Effect(v, Effect(u, q)) = Effect(k, q)
        BY <1>2, <2>3, <2>4, HalvesAsConstant
      <3>9. \A q : Runs(<<u, v>> \o e, q, r2) <=> Runs(e, Effect(k, q), r2)
        BY <3>5, <3>7, <3>8
      <3> QED
        BY <2>6, <2>7, <2>12, <3>1, <3>3, <3>4, <3>9
    <2> QED
      BY <2>6, <2>13 DEF Same
  <1> QED
    BY <1>1, <1>2

\* The text of an instruction does not change what selection meant by it.
LEMMA RetextedSame ==
  ASSUME NEW s \in Seq(Insn), NEW u \in Seq(Insn), Retexted(s, u)
  PROVE  /\ Same(s, u)
         /\ \A p \in 1..Len(s) : \A r : Goes(u[p], r) <=> Goes(s[p], r)
  <1>1. /\ Len(u) = Len(s) /\ Len(s) \in Nat
        /\ \A p \in 1..Len(s) : /\ u[p].op = s[p].op /\ u[p].dst = s[p].dst
                                /\ u[p].s1 = s[p].s1 /\ u[p].s2 = s[p].s2 /\ u[p].imm = s[p].imm
    BY DEF Retexted
  <1>2. ASSUME NEW p \in 1..Len(s), NEW r PROVE Effect(s[p], r) = Effect(u[p], r)
    <2>1. PICK x \in Insn, y \in Insn : x = s[p] /\ y = u[p]
      BY <1>1
    <2>2. x.op = y.op /\ x.dst = y.dst /\ x.s1 = y.s1 /\ x.s2 = y.s2 /\ x.imm = y.imm
      BY <1>1, <2>1
    <2>3. [x EXCEPT !.text = x.imm] = [y EXCEPT !.text = y.imm]
      <3>1. /\ x \in [op : Opcodes, dst : Regs, s1 : Regs, s2 : Regs, imm : Word, text : Int]
            /\ y \in [op : Opcodes, dst : Regs, s1 : Regs, s2 : Regs, imm : Word, text : Int]
        BY DEF Insn
      <3> QED
        BY <2>2, <3>1
    <2>4. Result(x, r) = Result(y, r)
      BY <2>2, <2>3 DEF Result
    <2> QED
      BY <2>1, <2>2, <2>4 DEF Effect
  <1>3. \A p \in 1..Len(s) : \A r : Goes(u[p], r) <=> Goes(s[p], r)
    BY <1>1, ZenonT(40) DEF Goes
  <1>4. \A r, r2 : Runs(s, r, r2) <=> Runs(u, r, r2)
    BY <1>1, <1>2, RunsSame
  <1> QED
    BY <1>3, <1>4 DEF Same

\* The machine runs the first instruction of what is left, and then the rest.
LEMMA FirstRuns ==
  ASSUME NEW s \in Seq(Insn), NEW m \in 1..Len(s), NEW e \in Seq(Insn), NEW r, NEW r2
  PROVE  Runs(SubSeq(s, m, Len(s)) \o e, r, r2)
           <=> Runs(SubSeq(s, m + 1, Len(s)) \o e, Effect(s[m], r), r2)
  <1>0. PICK i \in Insn : i = s[m]
    OBVIOUS
  <1>1. PICK a, b : i = s[m] /\ a = SubSeq(s, m, Len(s)) /\ b = SubSeq(s, m + 1, Len(s))
    BY <1>0
  <1>2. b \in Seq(Insn) /\ a = <<i>> \o b
    BY <1>1, SplitAt
  <1>3. <<i>> \in Seq(Insn)
    OBVIOUS
  <1>4. b \o e \in Seq(Insn)
    BY <1>2, ConcatProperties
  <1>5. a \o e = <<i>> \o (b \o e)
    BY <1>2, <1>3, ConcatAssociative
  <1>6. Runs(<<i>> \o (b \o e), r, r2) <=> \E q : Runs(<<i>>, r, q) /\ Runs(b \o e, q, r2)
    BY <1>3, <1>4, RunsThen
  <1>7. \A q : Runs(<<i>>, r, q) <=> q = Effect(i, r)
    BY RunsOne
  <1> QED
    BY <1>1, <1>5, <1>6, <1>7

---------------------------------------------------------------------------
(* The result that the code leads to.                                      *)

\* The block that follows in the end, the code, and what is left of it at b and m.
After(bs, b) == IF Len(bs) = 3 /\ b # 3 THEN bs[3].insns ELSE <<>>

\* All code that runs from the start of the first block.
Whole(bs) == bs[1].insns \o After(bs, 1)

\* The code that is left from position m of block b.
ToRun(bs, b, m) == SubSeq(bs[b].insns, m, Len(bs[b].insns)) \o After(bs, b)

\* The last instruction of a block.
LastOf(s) == s[Len(s)]

\* The registers in the end: b is the node's branch if it is one.
Outcome(n, b, r) ==
  IF n.kind = "brcond" THEN Goes(b, r) <=> CondOn(n, r)
  ELSE Faithful(n) => r["out"] = MeaningOn(n, r)

\* The code u, from the registers r.
Leads(n, b, u, r) == \A r2 : Runs(u, r, r2) => Outcome(n, b, r2)

\* In each phase what is left to run leads to what the node means.
ResultInv ==
  /\ phase = "select" => regs["zero"] = 0
  /\ phase \in {"insert", "expand", "print"} =>
       Leads(node, LastOf(blocks[1].insns), Whole(blocks), regs)
  /\ phase = "run" => Leads(node, LastOf(blocks[1].insns), ToRun(blocks, at[1], at[2]), regs)
  /\ phase = "done" =>
       IF node.kind = "brcond" THEN taken <=> CondOn(node, regs)
       ELSE Faithful(node) => regs["out"] = MeaningOn(node, regs)

\* Code that leads to the outcome may be replaced by code that runs the same.
LEMMA LeadsSame ==
  ASSUME NEW n, NEW b, NEW c, NEW u, NEW v, NEW r, Leads(n, b, u, r), Same(u, v),
         n.kind = "brcond" => \A q : Goes(b, q) <=> Goes(c, q)
  PROVE  Leads(n, c, v, r)
  <1>1. SUFFICES ASSUME NEW r2, Runs(v, r, r2) PROVE Outcome(n, c, r2)
    BY DEF Leads
  <1>2. Runs(u, r, r2)
    BY <1>1 DEF Same
  <1>3. Outcome(n, b, r2)
    BY <1>2 DEF Leads
  <1> QED
    BY <1>3 DEF Outcome

\* The empty sequence adds nothing.
LEMMA Alone ==
  ASSUME NEW S, NEW s \in Seq(S)
  PROVE  s \o <<>> = s /\ <<>> \o s = s
  BY ConcatEmptySeq

\* ResultInv holds before selection.
LEMMA ResultInit == Init => ResultInv
  BY DEF Init, ResultInv, Regs

\* Selection keeps ResultInv.
LEMMA ResultSelect == SelectInv /\ MachineInv /\ ResultInv /\ Select => ResultInv'
  <1> SUFFICES ASSUME SelectInv, MachineInv, ResultInv, Select PROVE ResultInv'
    OBVIOUS
  <1>1. PICK s \in SelectCode(node) : blocks' = <<Block("thisMBB", s)>>
    BY DEF Select
  <1>2. /\ phase = "select" /\ phase' = "insert" /\ node' = node /\ regs' = regs
    BY DEF Select
  <1>3. node \in Nodes /\ regs \in [Regs -> Word] /\ regs["zero"] = 0
    BY <1>2 DEF SelectInv, MachineInv, ResultInv
  <1>4. s \in Seq(Insn)
    BY <1>3, SelectedCode
  <1>5. Len(blocks') = 1 /\ blocks'[1].insns = s
    BY <1>1 DEF Block
  <1>6. Whole(blocks') = s
    BY <1>4, <1>5, Alone DEF Whole, After
  <1>7. ASSUME NEW r2, Runs(s, regs, r2) PROVE Outcome(node, LastOf(s), r2)
    <2>1. CASE node.kind = "brcond"
      <3>1. Goes(s[Len(s)], r2) <=> CondOn(node, r2)
        BY <1>3, <1>7, <2>1, BranchRuns
      <3> QED
        BY <2>1, <3>1 DEF Outcome, LastOf
    <2>2. CASE node.kind # "brcond"
      <3>1. node.kind \in Values
        BY <1>3, <2>2, NodeFacts DEF Values
      <3>2. Faithful(node) => r2["out"] = MeaningOn(node, r2)
        BY <1>3, <1>7, <3>1, ValueRuns
      <3> QED
        BY <2>2, <3>2 DEF Outcome
    <2> QED
      BY <2>1, <2>2
  <1>8. Leads(node, LastOf(s), s, regs)
    BY <1>7 DEF Leads
  <1> QED
    BY <1>2, <1>5, <1>6, <1>8 DEF ResultInv

\* EmitInstrWithCustomInserter keeps ResultInv.
LEMMA ResultInsert == SelectInv /\ MachineInv /\ ResultInv /\ EmitInstrWithCustomInserter => ResultInv'
  <1> SUFFICES ASSUME SelectInv, MachineInv, ResultInv, EmitInstrWithCustomInserter PROVE ResultInv'
    OBVIOUS
  <1>0. PICK s : s = blocks[1].insns
    OBVIOUS
  <1>1. blocks' = IF Selects(s) = {} THEN blocks ELSE Diamond(s, Min(Selects(s)))
    BY <1>0 DEF EmitInstrWithCustomInserter, Selects
  <1>2. /\ phase = "insert" /\ phase' = "expand" /\ node' = node /\ regs' = regs
    BY DEF EmitInstrWithCustomInserter
  <1>3. Code(Insn) /\ Len(blocks) = 1 /\ OneSelect(s)
    BY <1>0, <1>2 DEF SelectInv, InsertInv
  <1>4. s \in Seq(Insn)
    <2>1. 1 \in DOMAIN blocks
      BY <1>3 DEF Code
    <2> QED
      BY <1>0, <1>3, <2>1, BlockFacts
  <1>5. /\ OneBlock
        /\ node.kind # "select" => \A p \in DOMAIN s : s[p].op # "Select_CC"
    BY <1>0, <1>2 DEF MachineInv, ShapeInv
  <1>6. Leads(node, LastOf(s), Whole(blocks), regs)
    BY <1>0, <1>2 DEF ResultInv
  <1>7. CASE Selects(s) = {}
    <2>1. blocks' = blocks
      BY <1>1, <1>7
    <2> QED
      BY <1>0, <1>2, <1>6, <2>1 DEF ResultInv
  <1>8. CASE Selects(s) # {}
    <2>1. node.kind = "select"
      BY <1>5, <1>8 DEF Selects
    <2>2. Straight(s, 1, Len(s))
      BY <1>0, <1>5, <2>1 DEF OneBlock
    <2>3. Min(Selects(s)) \in 1..Len(s) /\ s[Min(Selects(s))].op = "Select_CC"
      BY <1>3, <1>4, <1>8, FoundSelect
    <2>4. PICK p \in 1..Len(s) : p = Min(Selects(s))
      BY <2>3
    <2>5. PICK d : d = Diamond(s, p)
      OBVIOUS
    <2>6. blocks' = d
      BY <1>1, <1>8, <2>4, <2>5
    <2>7. DiamondTo(s, p, d)
      BY <1>4, <2>2, <2>5, DiamondShape
    <2>8. Same(s, d[1].insns \o d[3].insns)
      BY <1>4, <2>3, <2>4, <2>7, DiamondSame
    <2>9. Whole(blocks) = s
      BY <1>0, <1>3, <1>4, Alone DEF Whole, After
    <2>10. Whole(d) = d[1].insns \o d[3].insns
      BY <2>7 DEF Whole, After, DiamondTo
    <2>11. Leads(node, LastOf(s), s, regs) /\ Same(s, Whole(d))
      BY <1>6, <2>8, <2>9, <2>10
    <2>12. Leads(node, LastOf(d[1].insns), Whole(d), regs)
      BY <2>1, <2>11, LeadsSame
    <2> QED
      BY <1>2, <2>6, <2>12 DEF ResultInv
  <1> QED
    BY <1>7, <1>8

\* ExpandMBB keeps ResultInv.
LEMMA ResultExpand == SelectInv /\ MachineInv /\ ResultInv /\ ExpandMBB => ResultInv'
  <1> SUFFICES ASSUME SelectInv, MachineInv, ResultInv, ExpandMBB PROVE ResultInv'
    OBVIOUS
  <1>1. PICK k \in DOMAIN blocks : \E s \in Safe : \E i \in 1..Len(s) : \E t :
           /\ k = at[1] /\ i = at[2] /\ s = blocks[k].insns /\ t = ExpandAt(s, i)[1]
           /\ DOMAIN blocks' = DOMAIN blocks /\ Len(blocks') = Len(blocks)
           /\ blocks'[k].insns = t /\ blocks'[k].name = blocks[k].name
           /\ \A b \in DOMAIN blocks : b # k => blocks'[b] = blocks[b]
    BY ExpandStep
  <1>2. PICK s \in Safe : \E i \in 1..Len(s) : \E t :
           /\ k = at[1] /\ i = at[2] /\ s = blocks[k].insns /\ t = ExpandAt(s, i)[1]
           /\ DOMAIN blocks' = DOMAIN blocks /\ Len(blocks') = Len(blocks)
           /\ blocks'[k].insns = t /\ blocks'[k].name = blocks[k].name
           /\ \A b \in DOMAIN blocks : b # k => blocks'[b] = blocks[b]
    BY <1>1
  <1>3. PICK i \in 1..Len(s) : \E t :
           /\ k = at[1] /\ i = at[2] /\ s = blocks[k].insns /\ t = ExpandAt(s, i)[1]
           /\ DOMAIN blocks' = DOMAIN blocks /\ Len(blocks') = Len(blocks)
           /\ blocks'[k].insns = t /\ blocks'[k].name = blocks[k].name
           /\ \A b \in DOMAIN blocks : b # k => blocks'[b] = blocks[b]
    BY <1>2
  <1>4. PICK t :
           /\ k = at[1] /\ i = at[2] /\ s = blocks[k].insns /\ t = ExpandAt(s, i)[1]
           /\ DOMAIN blocks' = DOMAIN blocks /\ Len(blocks') = Len(blocks)
           /\ blocks'[k].insns = t /\ blocks'[k].name = blocks[k].name
           /\ \A b \in DOMAIN blocks : b # k => blocks'[b] = blocks[b]
    BY <1>3
  <1>5. Reshaped(s, t) /\ Same(s, t) /\ t \in Safe
    BY <1>4, ExpandShape, ExpandSame
  <1>6. /\ phase = "expand" /\ phase' = phase /\ node' = node /\ regs' = regs
    BY DEF ExpandMBB
  <1>7. Shape /\ Leads(node, LastOf(blocks[1].insns), Whole(blocks), regs)
    BY <1>6 DEF MachineInv, ShapeInv, ResultInv
  <1>8. Code(InsertedInsn) /\ DOMAIN blocks = 1..Len(blocks) /\ Len(blocks) \in Nat
    BY <1>6 DEF SelectInv, ExpandInv, Code
  <1>9. Safe \subseteq AnyCode
    BY InsnKinds DEF Safe, AnyCode
  <1>10. \A b \in DOMAIN blocks : blocks[b].insns \in AnyCode
    BY <1>8, <1>9, BlockFacts DEF Safe
  <1>11. Leads(node, LastOf(blocks'[1].insns), Whole(blocks'), regs)
    <2>1. CASE OneBlock
      <3>1. k = 1 /\ Len(blocks) = 1
        BY <1>8, <2>1 DEF OneBlock
      <3>2. s \in AnyCode /\ t \in AnyCode
        BY <1>5, <1>9
      <3>3. Whole(blocks) = s /\ Whole(blocks') = t
        BY <1>4, <3>1, <3>2, Alone DEF Whole, After, AnyCode
      <3>4. node.kind = "brcond" => LastOf(t) = LastOf(s)
        BY <1>4, <1>5, <2>1, <3>1 DEF OneBlock, Reshaped, LastOf
      <3>5. Leads(node, LastOf(s), s, regs)
        BY <1>4, <1>7, <3>1, <3>3
      <3>6. Leads(node, LastOf(t), t, regs)
        BY <1>5, <3>4, <3>5, LeadsSame
      <3> QED
        BY <1>4, <3>1, <3>3, <3>6
    <2>2. CASE ThreeBlocks
      <3>1. /\ 1 \in DOMAIN blocks /\ 3 \in DOMAIN blocks /\ Len(blocks) = 3
            /\ node.kind # "brcond"
        BY <1>8, <2>2 DEF ThreeBlocks
      <3>2. PICK x \in AnyCode, y \in AnyCode : x = blocks[1].insns /\ y = blocks[3].insns
        BY <1>10, <3>1
      <3>3. PICK v, w : v = blocks'[1].insns /\ w = blocks'[3].insns
        OBVIOUS
      <3>4. Whole(blocks) = x \o y /\ Whole(blocks') = v \o w
        <4>1. Len(blocks') = 3 /\ Len(blocks) = 3 /\ 1 # 3
          BY <1>4, <3>1
        <4>2. After(blocks, 1) = y
          BY <3>2, <4>1 DEF After
        <4>3. After(blocks', 1) = w
          BY <3>3, <4>1 DEF After
        <4> QED
          BY <3>2, <3>3, <4>2, <4>3 DEF Whole
      <3>5. v \in AnyCode /\ w \in AnyCode /\ Same(x, v) /\ Same(y, w)
        <4>1. k = 1 => x = s /\ v = t
          BY <1>4, <3>2, <3>3
        <4>2. k # 1 => v = x
          BY <1>4, <3>1, <3>2, <3>3
        <4>3. k = 3 => y = s /\ w = t
          BY <1>4, <3>2, <3>3
        <4>4. k # 3 => w = y
          BY <1>4, <3>1, <3>2, <3>3
        <4> QED
          BY <1>5, <1>9, <4>1, <4>2, <4>3, <4>4, SameSelf
      <3>6. Same(Whole(blocks), Whole(blocks'))
        BY <3>4, <3>5, SameThen
      <3> QED
        BY <1>7, <3>1, <3>6, LeadsSame
    <2> QED
      BY <1>7, <2>1, <2>2 DEF Shape
  <1> QED
    BY <1>6, <1>11 DEF ResultInv

\* The move to the next block keeps ResultInv.
LEMMA ResultNextMBB == SelectInv /\ MachineInv /\ ResultInv /\ NextMBB => ResultInv'
  <1> SUFFICES ASSUME SelectInv, MachineInv, ResultInv, NextMBB PROVE ResultInv'
    OBVIOUS
  <1>1. /\ phase = "expand" /\ phase' \in {"expand", "print"} /\ node' = node /\ regs' = regs
        /\ blocks' = blocks
    BY DEF NextMBB
  <1> QED
    BY <1>1 DEF ResultInv

\* Printing keeps ResultInv.
LEMMA ResultPrint == SelectInv /\ MachineInv /\ ResultInv /\ PrintInstructions => ResultInv'
  <1> SUFFICES ASSUME SelectInv, MachineInv, ResultInv, PrintInstructions PROVE ResultInv'
    OBVIOUS
  <1>1. /\ phase = "print" /\ phase' = "run" /\ node' = node /\ at' = at /\ regs' = regs
    BY DEF PrintInstructions
  <1>2. Shape /\ at = <<1, 1>> /\ Leads(node, LastOf(blocks[1].insns), Whole(blocks), regs)
    BY <1>1 DEF MachineInv, ShapeInv, ResultInv
  <1>3. /\ DOMAIN blocks' = DOMAIN blocks /\ Len(blocks') = Len(blocks)
        /\ \A b \in DOMAIN blocks : /\ blocks'[b].name = blocks[b].name
                                    /\ Retexted(blocks[b].insns, blocks'[b].insns)
    BY PrintStep
  <1>4. /\ Code(ExpandedInsn) /\ DOMAIN blocks = 1..Len(blocks) /\ Len(blocks) \in Nat
    BY <1>1 DEF SelectInv, Code
  <1>5. \A b \in DOMAIN blocks : blocks[b].insns \in AnyCode
    <2>1. \A b \in DOMAIN blocks : blocks[b].insns \in Seq(ExpandedInsn)
      BY <1>4, BlockFacts
    <2>2. Seq(ExpandedInsn) \subseteq Seq(Insn)
      BY InsnKinds
    <2> QED
      BY <2>1, <2>2 DEF AnyCode
  <1>6. \A b \in DOMAIN blocks' : blocks'[b].insns \in AnyCode
    <2>1. Code(PrintedInsn)'
      BY <1>1, PrintKeeps DEF SelectInv
    <2>2. \A b \in DOMAIN blocks' : blocks'[b] \in BlockOf(PrintedInsn)
      BY <2>1 DEF Code
    <2>3. Seq(PrintedInsn) \subseteq Seq(Insn)
      BY InsnKinds
    <2> QED
      BY <2>2, <2>3 DEF BlockOf, AnyCode
  <1>7. 1 \in DOMAIN blocks
    BY <1>2, <1>4 DEF Shape, OneBlock, ThreeBlocks
  <1>8. PICK x \in AnyCode, v \in AnyCode : x = blocks[1].insns /\ v = blocks'[1].insns
    BY <1>3, <1>5, <1>6, <1>7
  <1>9. Retexted(x, v)
    BY <1>3, <1>7, <1>8
  <1>10. /\ Same(x, v)
         /\ \A p \in 1..Len(x) : \A r : Goes(v[p], r) <=> Goes(x[p], r)
    BY <1>9, RetextedSame DEF AnyCode
  <1>11. ToRun(blocks', at'[1], at'[2]) = Whole(blocks')
    <2>1. SubSeq(v, 1, Len(v)) = v
      BY SubSeqFull DEF AnyCode
    <2>2. at'[1] = 1 /\ at'[2] = 1
      BY <1>1, <1>2
    <2> QED
      BY <1>8, <2>1, <2>2 DEF ToRun, Whole
  <1>12. Same(Whole(blocks), Whole(blocks'))
    <2>1. CASE Len(blocks) = 3
      <3>1. 3 \in DOMAIN blocks /\ 3 \in DOMAIN blocks'
        BY <1>3, <1>4, <2>1
      <3>2. PICK y \in AnyCode, w \in AnyCode : y = blocks[3].insns /\ w = blocks'[3].insns
        BY <1>5, <1>6, <3>1
      <3>3. Retexted(y, w)
        BY <1>3, <3>1, <3>2
      <3>4. /\ Same(y, w)
            /\ \A p \in 1..Len(y) : \A r : Goes(w[p], r) <=> Goes(y[p], r)
        BY <3>3, RetextedSame DEF AnyCode
      <3>5. Len(blocks') = 3 /\ 1 # 3
        BY <1>3, <2>1
      <3>6. After(blocks, 1) = y
        BY <2>1, <3>2, <3>5 DEF After
      <3>7. After(blocks', 1) = w
        BY <3>2, <3>5 DEF After
      <3>8. Same(x \o y, v \o w)
        BY <1>10, <3>4, SameThen
      <3> QED
        BY <1>8, <3>6, <3>7, <3>8 DEF Whole
    <2>2. CASE Len(blocks) # 3
      <3>1. Whole(blocks) = x \o <<>> /\ Whole(blocks') = v \o <<>>
        BY <1>3, <1>8, <2>2 DEF Whole, After
      <3>2. x \o <<>> = x /\ v \o <<>> = v
        BY Alone DEF AnyCode
      <3> QED
        BY <1>10, <3>1, <3>2
    <2> QED
      BY <2>1, <2>2
  <1>13. ASSUME node.kind = "brcond"
         PROVE  \A q : Goes(LastOf(x), q) <=> Goes(LastOf(v), q)
    <2>1. Branching(x)
      BY <1>2, <1>8, <1>13, BranchBlock
    <2>2. Len(x) \in 1..Len(x) /\ Len(v) = Len(x)
      <3>1. x # <<>> /\ Len(x) \in Nat
        BY <2>1 DEF Branching, AnyCode
      <3>2. Len(x) # 0
        BY <3>1 DEF AnyCode
      <3> QED
        BY <1>9, <3>1, <3>2 DEF Retexted
    <2> QED
      BY <1>10, <2>2 DEF LastOf
  <1>14. Leads(node, LastOf(x), Whole(blocks), regs)
    BY <1>2, <1>8
  <1>15. Leads(node, LastOf(v), Whole(blocks'), regs)
    BY <1>12, <1>13, <1>14, LeadsSame
  <1> QED
    BY <1>1, <1>8, <1>11, <1>15 DEF ResultInv

\* The code that is left, in the block and after it.
LEMMA LeftCode ==
  ASSUME SelectInv, MachineInv, phase = "run"
  PROVE  /\ After(blocks, at[1]) \in Seq(Insn) /\ Insns \in Seq(Insn)
         /\ ToRun(blocks, at[1], at[2]) = SubSeq(Insns, at[2], Len(Insns)) \o After(blocks, at[1])
  <1>1. /\ Code(PrintedInsn) /\ DOMAIN blocks = 1..Len(blocks) /\ Len(blocks) \in Nat
        /\ Insns \in Seq(PrintedInsn)
    BY RunFacts
  <1>2. Seq(PrintedInsn) \subseteq Seq(Insn)
    BY InsnKinds
  <1>3. Len(blocks) = 3 => blocks[3].insns \in Seq(Insn)
    <2>1. SUFFICES ASSUME Len(blocks) = 3 PROVE blocks[3].insns \in Seq(Insn)
      OBVIOUS
    <2>2. 3 \in DOMAIN blocks
      BY <1>1, <2>1
    <2>3. blocks[3].insns \in Seq(PrintedInsn)
      BY <1>1, <2>2, BlockFacts
    <2> QED
      BY <1>2, <2>3
  <1>4. After(blocks, at[1]) \in Seq(Insn)
    <2>1. <<>> \in Seq(Insn)
      OBVIOUS
    <2> QED
      BY <1>3, <2>1 DEF After
  <1> QED
    BY <1>1, <1>2, <1>4 DEF ToRun, Insns

\* One instruction behind another.
LEMMA Advance ==
  ASSUME SelectInv, MachineInv, ResultInv, Running,
         phase' = phase, blocks' = blocks, node' = node, at' = <<at[1], at[2] + 1>>,
         regs' = Effect(Insns[at[2]], regs)
  PROVE  ResultInv'
  <1>1. /\ phase = "run" /\ at[2] \in 1..(Len(Insns) + 1) /\ at[2] <= Len(Insns) /\ Len(Insns) \in Nat
    BY RunFacts DEF Running
  <1>2. /\ After(blocks, at[1]) \in Seq(Insn) /\ Insns \in Seq(Insn)
        /\ ToRun(blocks, at[1], at[2]) = SubSeq(Insns, at[2], Len(Insns)) \o After(blocks, at[1])
    BY <1>1, LeftCode
  <1>3. PICK s \in Seq(Insn), e \in Seq(Insn) : s = Insns /\ e = After(blocks, at[1])
    BY <1>2
  <1>4. PICK m \in 1..Len(s) : m = at[2]
    BY <1>1, <1>3
  <1>5. Leads(node, LastOf(blocks[1].insns), SubSeq(s, m, Len(s)) \o e, regs)
    BY <1>1, <1>2, <1>3, <1>4 DEF ResultInv
  <1>6. ASSUME NEW r2, Runs(SubSeq(s, m + 1, Len(s)) \o e, regs', r2)
        PROVE  Outcome(node, LastOf(blocks[1].insns), r2)
    <2>1. Runs(SubSeq(s, m + 1, Len(s)) \o e, Effect(s[m], regs), r2)
      BY <1>3, <1>4, <1>6
    <2>2. Runs(SubSeq(s, m, Len(s)) \o e, regs, r2)
      BY <2>1, FirstRuns
    <2> QED
      BY <1>5, <2>2 DEF Leads
  <1>7. ToRun(blocks', at'[1], at'[2]) = SubSeq(s, m + 1, Len(s)) \o e
    <2>1. at'[1] = at[1] /\ at'[2] = m + 1
      BY <1>4
    <2> QED
      BY <1>3, <2>1 DEF ToRun, Insns
  <1>8. Leads(node, LastOf(blocks[1].insns), SubSeq(s, m + 1, Len(s)) \o e, regs')
    BY <1>6 DEF Leads
  <1> QED
    BY <1>1, <1>7, <1>8 DEF ResultInv

\* The machine meets a phi only at the start of sinkMBB.
LEMMA AtPhi ==
  ASSUME SelectInv, MachineInv, Running, Insns[at[2]].op = "PHI"
  PROVE  ThreeBlocks /\ at[1] = 3 /\ at[2] = 1
  <1>1. /\ phase = "run" /\ DOMAIN blocks = 1..Len(blocks) /\ Len(blocks) \in Nat
        /\ at[1] \in DOMAIN blocks /\ at[2] \in 1..(Len(Insns) + 1)
        /\ Len(Insns) \in Nat /\ Shape /\ at[2] <= Len(Insns)
    BY RunFacts DEF Running
  <1>2. PICK s, p : s = Insns /\ p = at[2] /\ p \in 1..Len(s) /\ Len(s) \in Nat
    BY <1>1
  <1>3. s[p].op = "PHI" /\ "PHI" \notin Branches
    BY <1>2 DEF Branches
  <1>4. ~Straight(s, 1, Len(s))
    BY <1>2, <1>3 DEF Straight
  <1>5. ~Branching(s)
    <2>1. SUFFICES ASSUME Branching(s) PROVE FALSE
      OBVIOUS
    <2>2. s[Len(s)].op \in Branches /\ Straight(s, 1, Len(s) - 1)
      BY <2>1 DEF Branching
    <2>3. p # Len(s)
      BY <1>3, <2>2
    <2>4. p \in 1..(Len(s) - 1)
      BY <1>2, <2>3
    <2> QED
      BY <1>3, <2>2, <2>4 DEF Straight
  <1>6. ~OneBlock
    <2>1. SUFFICES ASSUME OneBlock PROVE FALSE
      OBVIOUS
    <2>2. at[1] = 1
      BY <1>1, <2>1 DEF OneBlock
    <2> QED
      BY <1>2, <1>4, <1>5, <2>1, <2>2 DEF OneBlock, Insns
  <1>7. ThreeBlocks
    BY <1>1, <1>6 DEF Shape
  <1>8. at[1] \in {1, 2, 3}
    BY <1>1, <1>7 DEF ThreeBlocks
  <1>9. at[1] # 1
    BY <1>2, <1>5, <1>7 DEF ThreeBlocks, Insns
  <1>10. at[1] # 2
    <2>1. SUFFICES ASSUME at[1] = 2 PROVE FALSE
      OBVIOUS
    <2>2. Len(s) = 0
      BY <1>2, <1>7, <2>1 DEF ThreeBlocks, Insns
    <2> QED
      BY <1>2, <2>2
  <1>11. at[1] = 3
    BY <1>8, <1>9, <1>10
  <1>12. p = 1
    <2>1. Straight(s, 2, Len(s))
      BY <1>2, <1>7, <1>11 DEF ThreeBlocks, Insns
    <2>2. p \notin 2..Len(s)
      BY <1>3, <2>1 DEF Straight
    <2> QED
      BY <1>2, <2>2
  <1> QED
    BY <1>2, <1>7, <1>11, <1>12

\* The machine computes the instruction that selection meant.
LEMMA ComputesEffect ==
  ASSUME AddImmsFit, SelectInv, MachineInv, Running, NEW i \in PrintedInsn, i = Insns[at[2]],
         i.op \notin Branches
  PROVE  [regs EXCEPT ![i.dst] = IF i.op = "PHI" THEN Incoming(i, regs) ELSE Value(i, regs)]
           = Effect(i, regs)
  <1>1. regs \in [Regs -> Word]
    BY RunFacts DEF Running
  <1>2. (IF i.op = "PHI" THEN Incoming(i, regs) ELSE Value(i, regs)) = Result(i, regs)
    <2>1. CASE i.op = "PHI"
      <3>1. ThreeBlocks /\ at[1] = 3 /\ at[2] = 1
        BY <2>1, AtPhi
      <3>2. from = IF regs["c"] = 0 THEN 2 ELSE 1
        BY <3>1, RunFacts DEF Running
      <3>3. blocks[1].name = "thisMBB" /\ blocks[2].name = "copy0MBB"
        BY <3>1 DEF ThreeBlocks
      <3>4. Incoming(i, regs) = IF regs["c"] = 0 THEN regs[i.s1] ELSE regs[i.s2]
        BY <3>2, <3>3 DEF Incoming
      <3> QED
        BY <2>1, <3>4 DEF Result
    <2>2. CASE i.op # "PHI"
      <3>1. i.op \notin Jumping
        BY <2>2 DEF Jumping
      <3>2. Value(i, regs) = Result(i, regs)
        BY <1>1, <3>1, ValueBack
      <3> QED
        BY <2>2, <3>2
    <2> QED
      BY <2>1, <2>2
  <1>3. PICK v, w : v = Result(i, regs) /\ w = IF i.op = "PHI" THEN Incoming(i, regs) ELSE Value(i, regs)
    OBVIOUS
  <1>4. v = w
    BY <1>2, <1>3
  <1>5. [regs EXCEPT ![i.dst] = w] = [q \in Regs |-> IF q = i.dst THEN w ELSE regs[q]]
    BY <1>1
  <1> QED
    BY <1>3, <1>4, <1>5 DEF Effect

\* An instruction that computes keeps ResultInv.
LEMMA ResultCompute == AddImmsFit /\ SelectInv /\ MachineInv /\ ResultInv /\ Compute => ResultInv'
  <1> SUFFICES ASSUME AddImmsFit, SelectInv, MachineInv, ResultInv, Compute PROVE ResultInv'
    OBVIOUS
  <1>1. PICK i : i = Insns[at[2]]
    OBVIOUS
  <1>2. /\ Running /\ i.op \notin Branches /\ phase' = phase /\ blocks' = blocks /\ node' = node
        /\ at' = <<at[1], at[2] + 1>>
        /\ regs' = [regs EXCEPT ![i.dst] = IF i.op = "PHI" THEN Incoming(i, regs) ELSE Value(i, regs)]
    BY <1>1 DEF Compute
  <1>3. /\ at[2] \in 1..(Len(Insns) + 1) /\ at[2] <= Len(Insns) /\ Insns \in Seq(PrintedInsn)
        /\ Len(Insns) \in Nat
    BY <1>2, RunFacts DEF Running
  <1>4. i \in PrintedInsn
    <2>1. at[2] \in 1..Len(Insns)
      BY <1>3
    <2> QED
      BY <1>1, <1>3, <2>1
  <1>5. regs' = Effect(i, regs)
    BY <1>1, <1>2, <1>4, ComputesEffect
  <1> QED
    BY <1>1, <1>2, <1>5, Advance

\* A branch that is not taken keeps ResultInv.
LEMMA ResultNotTaken == SelectInv /\ MachineInv /\ ResultInv /\ NotTaken => ResultInv'
  <1> SUFFICES ASSUME SelectInv, MachineInv, ResultInv, NotTaken PROVE ResultInv'
    OBVIOUS
  <1>1. /\ Running /\ Insns[at[2]].op \in Branches
        /\ phase' = phase /\ blocks' = blocks /\ node' = node
        /\ at' = <<at[1], at[2] + 1>> /\ regs' = regs
    BY DEF NotTaken
  <1>2. regs' = Effect(Insns[at[2]], regs)
    BY <1>1 DEF Effect
  <1> QED
    BY <1>1, <1>2, Advance

\* After the last instruction of a block only the next one's are left.
LEMMA NoneLeft ==
  ASSUME NEW s \in Seq(Insn), NEW e \in Seq(Insn)
  PROVE  SubSeq(s, Len(s) + 1, Len(s)) \o e = e
  <1>1. Len(s) + 1 \in Int /\ Len(s) \in Int /\ Len(s) < Len(s) + 1
    OBVIOUS
  <1>2. SubSeq(s, Len(s) + 1, Len(s)) = <<>>
    BY <1>1, SubSeqEmpty
  <1> QED
    BY <1>2, Alone

\* A branch that is taken keeps ResultInv.
LEMMA ResultTaken == SelectInv /\ MachineInv /\ ResultInv /\ Taken => ResultInv'
  <1> SUFFICES ASSUME SelectInv, MachineInv, ResultInv, Taken PROVE ResultInv'
    OBVIOUS
  <1>1. /\ Running /\ Insns[at[2]].op \in Branches /\ Goes(Insns[at[2]], regs)
        /\ blocks' = blocks /\ node' = node /\ regs' = regs
    BY DEF Taken
  <1>2. /\ phase = "run" /\ DOMAIN blocks = 1..Len(blocks) /\ Len(blocks) \in Nat /\ Shape
        /\ at[2] \in 1..(Len(Insns) + 1) /\ at[2] <= Len(Insns) /\ Len(Insns) \in Nat
        /\ Code(PrintedInsn)
    BY <1>1, RunFacts DEF Running
  <1>3. /\ at[1] = 1 /\ at[2] = Len(Insns)
        /\ node.kind = "brcond" \/ ThreeBlocks
    BY <1>1, AtBranch
  <1>4. /\ After(blocks, at[1]) \in Seq(Insn) /\ Insns \in Seq(Insn)
        /\ ToRun(blocks, at[1], at[2]) = SubSeq(Insns, at[2], Len(Insns)) \o After(blocks, at[1])
    BY <1>2, LeftCode
  <1>5. PICK s \in Seq(Insn), e \in Seq(Insn) : s = Insns /\ e = After(blocks, at[1])
    BY <1>4
  <1>6. s = blocks[1].insns
    BY <1>3, <1>5 DEF Insns
  <1>7. PICK m \in 1..Len(s) : m = Len(s) /\ m = at[2]
    BY <1>2, <1>3, <1>5
  <1>8. Leads(node, s[m], SubSeq(s, m, Len(s)) \o e, regs)
    BY <1>2, <1>4, <1>5, <1>6, <1>7 DEF ResultInv, LastOf
  <1>9. SubSeq(s, m + 1, Len(s)) \o e = e
    BY <1>7, NoneLeft
  <1>10. Effect(s[m], regs) = regs
    BY <1>1, <1>5, <1>7 DEF Effect
  <1>11. \A r2 : Runs(SubSeq(s, m, Len(s)) \o e, regs, r2) <=> Runs(e, regs, r2)
    BY <1>9, <1>10, FirstRuns, ZenonT(40)
  <1>12. Leads(node, s[m], e, regs)
    BY <1>8, <1>11 DEF Leads
  <1>13. CASE node.kind = "brcond"
    <2>1. taken' = TRUE /\ phase' = "done"
      BY <1>13 DEF Taken
    <2>2. Len(blocks) = 1
      BY <1>2, <1>13, BranchBlock
    <2>3. e = <<>>
      BY <1>5, <2>2 DEF After
    <2>4. Runs(<<>>, regs, regs)
      BY RunsNone
    <2>5. Outcome(node, s[m], regs)
      BY <1>12, <2>3, <2>4 DEF Leads
    <2>6. Goes(s[m], regs)
      BY <1>1, <1>5, <1>7
    <2>7. CondOn(node, regs)
      BY <1>13, <2>5, <2>6 DEF Outcome
    <2> QED
      BY <1>1, <1>13, <2>1, <2>7 DEF ResultInv
  <1>14. CASE node.kind # "brcond"
    <2>1. ThreeBlocks
      BY <1>3, <1>14
    <2>2. /\ at' = <<CHOOSE b \in DOMAIN blocks : blocks[b].name = "sinkMBB", 1>>
          /\ phase' = phase
      BY <1>14 DEF Taken
    <2>3. /\ Len(blocks) = 3
          /\ blocks[1].name = "thisMBB" /\ blocks[2].name = "copy0MBB" /\ blocks[3].name = "sinkMBB"
      BY <2>1 DEF ThreeBlocks
    <2>4. \A b \in DOMAIN blocks : blocks[b].name = "sinkMBB" <=> b = 3
      <3>1. \A b \in DOMAIN blocks : b \in {1, 2, 3}
        BY <1>2, <2>3
      <3> QED
        BY <2>3, <3>1
    <2>5. 3 \in DOMAIN blocks
      BY <1>2, <2>3
    <2>6. (CHOOSE b \in DOMAIN blocks : blocks[b].name = "sinkMBB") = 3
      BY <2>4, <2>5
    <2>7. at'[1] = 3 /\ at'[2] = 1
      BY <2>2, <2>6
    <2>8. e = blocks[3].insns
      BY <1>3, <1>5, <2>3 DEF After
    <2>9. ToRun(blocks', at'[1], at'[2]) = e
      <3>1. SubSeq(e, 1, Len(e)) = e
        BY SubSeqFull
      <3>2. After(blocks, 3) = <<>>
        BY DEF After
      <3>3. e \o <<>> = e
        BY Alone
      <3> QED
        BY <1>1, <2>7, <2>8, <3>1, <3>2, <3>3 DEF ToRun
    <2>10. Leads(node, LastOf(blocks[1].insns), e, regs)
      BY <1>6, <1>7, <1>12 DEF LastOf
    <2> QED
      BY <1>1, <1>2, <2>2, <2>9, <2>10 DEF ResultInv
  <1> QED
    BY <1>13, <1>14

\* The end of a block keeps ResultInv.
LEMMA ResultFallThrough == SelectInv /\ MachineInv /\ ResultInv /\ FallThrough => ResultInv'
  <1> SUFFICES ASSUME SelectInv, MachineInv, ResultInv, FallThrough PROVE ResultInv'
    OBVIOUS
  <1>1. /\ phase = "run" /\ at[2] > Len(Insns)
        /\ blocks' = blocks /\ node' = node /\ regs' = regs /\ taken' = taken
    BY DEF FallThrough
  <1>2. /\ DOMAIN blocks = 1..Len(blocks) /\ Len(blocks) \in Nat
        /\ at[1] \in DOMAIN blocks /\ at[2] \in 1..(Len(Insns) + 1) /\ Shape /\ ~taken
        /\ Len(Insns) \in Nat
        /\ node.kind = "brcond" /\ at[2] > Len(Insns) => ~Goes(Insns[Len(Insns)], regs)
    BY <1>1, RunFacts
  <1>3. /\ After(blocks, at[1]) \in Seq(Insn) /\ Insns \in Seq(Insn)
        /\ ToRun(blocks, at[1], at[2]) = SubSeq(Insns, at[2], Len(Insns)) \o After(blocks, at[1])
    BY <1>1, LeftCode
  <1>4. PICK s \in Seq(Insn), e \in Seq(Insn) : s = Insns /\ e = After(blocks, at[1])
    BY <1>3
  <1>5. at[2] = Len(s) + 1
    BY <1>1, <1>2, <1>4
  <1>6. ToRun(blocks, at[1], at[2]) = e
    BY <1>3, <1>4, <1>5, NoneLeft
  <1>7. Leads(node, LastOf(blocks[1].insns), e, regs)
    BY <1>1, <1>6 DEF ResultInv
  <1>8. CASE at[1] < Len(blocks)
    <2>1. at' = <<at[1] + 1, 1>> /\ phase' = phase
      BY <1>8 DEF FallThrough
    <2>2. at'[1] = at[1] + 1 /\ at'[2] = 1
      BY <2>1
    <2>3. ThreeBlocks
      <3>1. ~OneBlock
        BY <1>2, <1>8 DEF OneBlock
      <3> QED
        BY <1>2, <3>1 DEF Shape
    <2>4. Len(blocks) = 3 /\ blocks[2].insns = <<>>
      BY <2>3 DEF ThreeBlocks
    <2>5. at[1] \in {1, 2}
      BY <1>2, <1>8, <2>4
    <2>6. e = blocks[3].insns
      BY <1>4, <2>4, <2>5 DEF After
    <2>7. ToRun(blocks', at'[1], at'[2]) = e
      <3>1. CASE at[1] = 1
        <4>1. at'[1] = 2 /\ After(blocks, 2) = e
          BY <2>2, <2>4, <2>6, <3>1 DEF After
        <4>2. SubSeq(<<>>, 1, Len(<<>>)) = <<>>
          <5>1. Len(<<>>) = 0
            OBVIOUS
          <5>2. SubSeq(<<>>, 1, 0) = <<>>
            BY SubSeqEmpty
          <5> QED
            BY <5>1, <5>2
        <4>3. <<>> \o e = e
          BY Alone
        <4> QED
          BY <1>1, <2>2, <2>4, <4>1, <4>2, <4>3 DEF ToRun
      <3>2. CASE at[1] = 2
        <4>1. at'[1] = 3 /\ After(blocks, 3) = <<>>
          BY <2>2, <3>2 DEF After
        <4>2. SubSeq(e, 1, Len(e)) = e
          BY SubSeqFull
        <4>3. e \o <<>> = e
          BY Alone
        <4> QED
          BY <1>1, <2>2, <2>6, <4>1, <4>2, <4>3 DEF ToRun
      <3> QED
        BY <2>5, <3>1, <3>2
    <2> QED
      BY <1>1, <1>7, <2>1, <2>7 DEF ResultInv
  <1>9. CASE ~(at[1] < Len(blocks))
    <2>1. phase' = "done"
      BY <1>9 DEF FallThrough
    <2>2. Len(blocks) \in {1, 3} /\ at[1] = Len(blocks)
      BY <1>2, <1>9 DEF Shape, OneBlock, ThreeBlocks
    <2>3. e = <<>>
      BY <1>4, <2>2 DEF After
    <2>4. Runs(<<>>, regs, regs)
      BY RunsNone
    <2>5. Outcome(node, LastOf(blocks[1].insns), regs)
      BY <1>7, <2>3, <2>4 DEF Leads
    <2>6. CASE node.kind = "brcond"
      <3>1. Len(blocks) = 1
        BY <1>2, <2>6, BranchBlock
      <3>2. Insns = blocks[1].insns
        BY <2>2, <3>1 DEF Insns
      <3>3. ~Goes(LastOf(blocks[1].insns), regs)
        BY <1>1, <1>2, <2>6, <3>2 DEF LastOf
      <3>4. ~CondOn(node, regs)
        BY <2>5, <2>6, <3>3 DEF Outcome
      <3> QED
        BY <1>1, <1>2, <2>1, <2>6, <3>4 DEF ResultInv
    <2>7. CASE node.kind # "brcond"
      BY <1>1, <2>1, <2>5, <2>7 DEF ResultInv, Outcome
    <2> QED
      BY <2>6, <2>7
  <1> QED
    BY <1>8, <1>9

\* Every step keeps ResultInv.
LEMMA ResultNext == AddImmsFit /\ SelectInv /\ MachineInv /\ ResultInv /\ [Next]_vars => ResultInv'
  <1>1. ResultInv /\ UNCHANGED vars => ResultInv'
    BY DEF vars, ResultInv
  <1> QED
    BY <1>1, ResultSelect, ResultInsert, ResultExpand, ResultNextMBB, ResultPrint,
       ResultCompute, ResultNotTaken, ResultTaken, ResultFallThrough DEF Next

\* What is left of the code leads to what the node means, in every phase.
THEOREM ResultInvariance == AddImmsFit => (Spec => []ResultInv)
  <1> SUFFICES ASSUME AddImmsFit PROVE Spec => []ResultInv
    OBVIOUS
  <1>1. Init => SelectInv /\ MachineInv /\ ResultInv
    BY InvInit, MachineInit, ResultInit
  <1>2. SelectInv /\ MachineInv /\ ResultInv /\ [Next]_vars => (SelectInv /\ MachineInv /\ ResultInv)'
    BY InvNext, MachineNext, ResultNext
  <1> QED
    BY <1>1, <1>2, PTL DEF Spec

\* A comparison for ordered > or >= of floats is the one condition that the table
\* gets wrong (FPCompareTable).
OrderedGreater == {"setogt", "setoge"}

\* The code of a node leaves its value in the register that the rest of the
\* function reads: constants split by HI16 and LO16, sums, masks, addresses of
\* loads, comparisons and selects, whichever patterns of equal complexity are
\* chosen, provided that ADDiu adds no constant above the signed half and that no
\* value is an ordered > or >= of floats.
THEOREM ValueComputed ==
  AddImmsFit /\ FPSetCCs \cap OrderedGreater = {} => (Spec => []ComputesNodeValue)
  <1> SUFFICES ASSUME AddImmsFit, FPSetCCs \cap OrderedGreater = {}
               PROVE  Spec => []ComputesNodeValue
    OBVIOUS
  <1>1. SelectInv /\ ResultInv => ComputesNodeValue
    <2> SUFFICES ASSUME SelectInv, ResultInv, phase = "done", node.kind # "brcond"
                 PROVE  regs["out"] = Meaning
      BY DEF ComputesNodeValue
    <2>1. node \in Nodes
      BY DEF SelectInv
    <2>2. Faithful(node)
      <3>1. node.kind \in {"setcc", "select"} /\ node.fp => node.cc \in FPSetCCs
        BY <2>1, NodeFacts
      <3> QED
        BY <3>1 DEF Faithful, OrderedGreater
    <2>3. regs["out"] = MeaningOn(node, regs)
      BY <2>2 DEF ResultInv
    <2>4. ConditionHolds <=> CondOn(node, regs)
      BY DEF ConditionHolds, CondOn, LeftValue, RightValue
    <2>5. Meaning = MeaningOn(node, regs)
      <3>1. node.kind \in Values
        BY <2>1, NodeFacts DEF Values
      <3>2. Bool(ConditionHolds) = Bool(CondOn(node, regs))
        BY <2>4 DEF Bool
      <3>3. (IF ConditionHolds THEN regs["t"] ELSE regs["f"])
              = IF CondOn(node, regs) THEN regs["t"] ELSE regs["f"]
        BY <2>4
      <3> QED
        BY <3>1, <3>2, <3>3 DEF Meaning, MeaningOn, Values
    <2> QED
      BY <2>3, <2>5
  <1>2. Spec => []SelectInv
    BY SelectInvariance
  <1> QED
    BY <1>1, <1>2, ResultInvariance, PTL

\* A conditional branch leaves the code exactly when its condition holds: the
\* branches against zero, the compares with swapped operands and BE for the
\* inequalities of floats.
THEOREM BranchDecides == AddImmsFit => (Spec => []BranchTakenIffHolds)
  <1> SUFFICES ASSUME AddImmsFit PROVE Spec => []BranchTakenIffHolds
    OBVIOUS
  <1>1. ResultInv => BranchTakenIffHolds
    <2> SUFFICES ASSUME ResultInv, phase = "done", node.kind = "brcond"
                 PROVE  taken <=> ConditionHolds
      BY DEF BranchTakenIffHolds
    <2>1. taken <=> CondOn(node, regs)
      BY DEF ResultInv
    <2> QED
      BY <2>1 DEF ConditionHolds, CondOn, LeftValue, RightValue
  <1> QED
    BY <1>1, ResultInvariance, PTL
=============================================================================
