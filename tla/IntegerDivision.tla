------------------------- MODULE IntegerDivision -------------------------
(***************************************************************************)
(* Facts about \div and % with a divisor that is not a number, for the     *)
(* proofs about fields of any width.                                       *)
(***************************************************************************)
EXTENDS Integers, TLAPS

\* A multiple of b by something positive is at least b.
LEMMA AtLeastOnce ==
  ASSUME NEW b \in Nat \ {0}, NEW k \in Int, k >= 1
  PROVE  k * b >= b
  OBVIOUS

\* Quotient and remainder are what they should be.
LEMMA DivMod ==
  ASSUME NEW x \in Int, NEW b \in Nat \ {0}
  PROVE  /\ x \div b \in Int /\ x % b \in 0..(b - 1)
         /\ x = (x \div b) * b + (x % b)
  <1>1. x \div b \in Int
    OBVIOUS
  <1>2. x % b \in 0..(b - 1)
    OBVIOUS
  <1>3. x = b * (x \div b) + (x % b)
    OBVIOUS
  <1>4. \A k \in Int : b * k = k * b
    OBVIOUS
  <1> QED
    BY <1>1, <1>2, <1>3, <1>4

\* They are the only ones.
LEMMA DivModUnique ==
  ASSUME NEW b \in Nat \ {0}, NEW q \in Int, NEW r \in 0..(b - 1)
  PROVE  ((q * b) + r) \div b = q /\ ((q * b) + r) % b = r
  <1> DEFINE x == (q * b) + r
             q2 == x \div b
             r2 == x % b
  <1>1. x \in Int /\ x = (q * b) + r
    OBVIOUS
  <1> HIDE DEF x
  <1>2. q2 \in Int /\ r2 \in 0..(b - 1) /\ x = (q2 * b) + r2
    BY <1>1, DivMod
  <1> HIDE DEF q2, r2
  <1>3. (q - q2) * b = r2 - r /\ (q2 - q) * b = r - r2
    BY <1>1, <1>2
  <1>4. ~(q - q2 >= 1) /\ ~(q2 - q >= 1)
    <2>1. q - q2 \in Int /\ q2 - q \in Int
      BY <1>2
    <2> QED
      BY <1>2, <1>3, <2>1, AtLeastOnce
  <1>5. q2 = q /\ r2 = r
    BY <1>1, <1>2, <1>4
  <1> QED
    BY <1>5 DEF x, q2, r2

\* Multiples of b do not change a remainder.
LEMMA ModShift ==
  ASSUME NEW b \in Nat \ {0}, NEW x \in Int, NEW k \in Int
  PROVE  (x + (k * b)) % b = x % b
  <1> DEFINE q == x \div b
             r == x % b
  <1>1. q \in Int /\ r \in 0..(b - 1) /\ x = q * b + r
    BY DivMod
  <1> HIDE DEF q, r
  <1>2. x + (k * b) = ((q + k) * b) + r
    BY <1>1
  <1>3. (((q + k) * b) + r) % b = r
    <2>1. q + k \in Int
      BY <1>1
    <2> QED
      BY <1>1, <2>1, DivModUnique
  <1> QED
    BY <1>2, <1>3 DEF r
===========================================================================
