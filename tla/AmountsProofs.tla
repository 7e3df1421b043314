--------------------------- MODULE AmountsProofs ---------------------------
(***************************************************************************)
(* Confidential amounts, for every base, number of limbs, search bound,    *)
(* table, set of keys and history.                                         *)
(***************************************************************************)
EXTENDS Amounts, TLAPS, SequenceTheorems, WellFoundedInduction

----------------------------------------------------------------------------
(* Arithmetic the provers are to be reminded of.                           *)

LEMMA Distributive ==
    \A a, b, c \in Int : a * (b + c) = a * b + a * c /\ a * b = b * a /\ a * b \in Int
OBVIOUS

LEMMA Natural == ASSUME NEW a \in Nat, NEW b \in Nat, NEW c \in Nat PROVE a + b * c \in Nat
OBVIOUS

LEMMA Monotone ==
    \A a, b, c \in Nat : a <= b => a * c \in Nat /\ b * c \in Nat /\ a * c <= b * c
OBVIOUS

LEMMA Division ==
    ASSUME NEW a \in Nat, NEW b \in Nat, b > 0
    PROVE  a = b * (a \div b) + (a % b) /\ a % b \in 0 .. b - 1 /\ a \div b \in Nat
<1>1. a = b * (a \div b) + (a % b)
  OBVIOUS
<1>2. a % b \in 0 .. b - 1
  OBVIOUS
<1>3. a \div b \in Nat
  OBVIOUS
<1>4. QED
  BY <1>1, <1>2, <1>3

(* A number is so many giant steps and a baby step.                        *)
Steps(n, b, g) ==
    /\ \A i \in 0..g, j \in 0 .. b - 1 : i * b + j \in Nat
    /\ \A m \in 0..n : \E i \in 0..g, j \in 0 .. b - 1 : m = i * b + j

LEMMA Stepping ==
    ASSUME NEW n \in Nat, NEW b \in Nat, b > 0, NEW g, g = (n + b) \div b
    PROVE  Steps(n, b, g)
<1> DEFINE r == (n + b) % b
<1>1. n + b = b * g + r /\ r \in 0 .. b - 1 /\ g \in Nat
  BY Division
<1> HIDE DEF r
<1>2. \A i, j \in Nat : i * b + j \in Nat
  OBVIOUS
<1>3. ASSUME NEW m \in 0..n PROVE \E i \in 0..g, j \in 0 .. b - 1 : m = i * b + j
  <2> DEFINE i == m \div b
             j == (m % b)
  <2>1. m = b * i + j /\ j \in 0 .. b - 1 /\ i \in Nat
    BY Division
  <2> HIDE DEF i, j
  <2>2. i <= g
    <3>1. b * i < b * g + b
      <4>1. b * i \in Int /\ b * g \in Int
        BY <1>1, <2>1, Distributive
      <4>2. QED
        BY <1>1, <2>1, <4>1
    <3>2. \A x, y, z \in Nat : z > 0 /\ z * x < z * y + z => x <= y
      OBVIOUS
    <3>3. QED
      BY <1>1, <2>1, <3>1, <3>2
  <2>3. m = i * b + j
    BY <2>1
  <2>4. i \in 0..g
    BY <1>1, <2>1, <2>2
  <2>5. QED
    BY <2>1, <2>3, <2>4, Zenon
<1>4. \A i \in 0..g, j \in 0 .. b - 1 : i * b + j \in Nat
  BY <1>1, <1>2
<1>5. QED
  BY <1>3, <1>4, Zenon DEF Steps

(* A multiple of what is out of bounds is.                                 *)
LEMMA Grown == \A n, a \in Nat : n > 0 => n * a >= a
<1> SUFFICES ASSUME NEW n \in Nat, NEW a \in Nat, n > 0 PROVE n * a >= a
  OBVIOUS
<1>1. n * a = (n - 1) * a + a /\ (n - 1) * a >= 0
  OBVIOUS
<1>2. (n - 1) * a \in Int
  OBVIOUS
<1>3. QED
  BY <1>1, <1>2

LEMMA Scaled ==
    ASSUME NEW q \in Int, q # 0, NEW a \in Int, NEW b \in Nat, Beyond(a, b)
    PROVE  Beyond(q * a, b)
<1>0. /\ (-q) * a = -(q * a) /\ q * (-a) = -(q * a) /\ (-q) * (-a) = q * a
      /\ q * a \in Int
  OBVIOUS
<1>1. CASE q > 0 /\ a > b
  <2>1. q * a >= a
    BY <1>1, Grown
  <2>2. QED
    BY <1>0, <1>1, <2>1 DEF Beyond
<1>2. CASE q > 0 /\ -a > b
  <2>1. q * (-a) >= -a
    BY <1>2, Grown
  <2>2. QED
    BY <1>0, <1>2, <2>1 DEF Beyond
<1>3. CASE q < 0 /\ a > b
  <2>1. (-q) * a >= a
    BY <1>3, Grown
  <2>2. QED
    BY <1>0, <1>3, <2>1 DEF Beyond
<1>4. CASE q < 0 /\ -a > b
  <2>1. (-q) * (-a) >= -a
    BY <1>4, Grown
  <2>2. QED
    BY <1>0, <1>4, <2>1 DEF Beyond
<1>5. QED
  BY <1>1, <1>2, <1>3, <1>4 DEF Beyond

LEMMA Digits ==
    \A a \in Nat : /\ a % LimbBase \in 0 .. LimbBase - 1 /\ a \div LimbBase \in Nat
                   /\ a = LimbBase * (a \div LimbBase) + (a % LimbBase)
<1>1. LimbBase \in Nat /\ LimbBase > 0
  BY AmountsAssumption
<1>2. QED
  BY <1>1, Division

USE AmountsAssumption

----------------------------------------------------------------------------
(* Recursive definitions and induction.                                    *)

(* Induction up to a bound, over a set of numbers.                         *)
LEMMA UpTo ==
    ASSUME NEW lo \in Nat, NEW hi \in Nat, NEW S, lo \in S,
           \A c \in lo + 1 .. hi : c - 1 \in S => c \in S
    PROVE  lo..hi \subseteq S
<1> DEFINE R == {ss \in Nat \X Nat : ss[1] < ss[2]}
           B == (lo..hi) \ S
<1> SUFFICES ASSUME B # {} PROVE FALSE
  OBVIOUS
<1>1. B \subseteq Nat
  OBVIOUS
<1>2. PICK m \in B : \A y \in B : ~(<<y, m>> \in R)
  <2>1. IsWellFoundedOn(R, Nat)
    BY NatLessThanWellFounded DEF OpToRel
  <2> HIDE DEF R, B
  <2>2. QED
    BY <2>1, <1>1, WFMin
<1>3. m \in Nat /\ m # lo /\ m \in lo + 1 .. hi /\ m - 1 \in lo..hi /\ m - 1 \in Nat
  OBVIOUS
<1>4. m - 1 \notin B
  <2> SUFFICES ASSUME m - 1 \in B PROVE FALSE
    OBVIOUS
  <2>1. <<m - 1, m>> \in R
    BY <1>3
  <2>2. QED
    BY <1>2, <2>1
<1>5. QED
  BY <1>3, <1>4

Upto(f, m, V, c, step) ==
    /\ f \in [0..m -> V] /\ f[0] = c
    /\ \A i \in 1..m : f[i] = step[<<i, f[i - 1]>>]

(* A recursion on the numbers up to n whose steps stay in a set V defines a*)
(* function: the one up to each number extends the one up to the number    *)
(* before it.                                                              *)
LEMMA Defined ==
    ASSUME NEW n \in Nat, NEW V, NEW c \in V, NEW step \in [(1..n) \X V -> V]
    PROVE  \E f : Upto(f, n, V, c, step)
<1> DEFINE S == {m \in 0..n : \E f : Upto(f, m, V, c, step)}
<1>1. 0 \in S
  <2>1. Upto([i \in 0..0 |-> c], 0, V, c, step)
    BY DEF Upto
  <2>2. QED
    BY <2>1
<1>2. ASSUME NEW m \in 0 + 1 .. n, m - 1 \in S PROVE m \in S
  <2>1. PICK g : Upto(g, m - 1, V, c, step)
    BY <1>2
  <2> DEFINE f == [i \in 0..m |-> IF i = m THEN step[<<m, g[m - 1]>>] ELSE g[i]]
  <2>2. m \in 1..n /\ m - 1 \in 0 .. m - 1 /\ <<m, g[m - 1]>> \in (1..n) \X V
    BY <2>1 DEF Upto
  <2>3. f \in [0..m -> V]
    BY <2>1, <2>2 DEF Upto
  <2>4. f[0] = c
    BY <2>1 DEF Upto
  <2>5. ASSUME NEW i \in 1..m PROVE f[i] = step[<<i, f[i - 1]>>]
    <3>1. f[i - 1] = g[i - 1]
      OBVIOUS
    <3>2. CASE i = m
      <4>1. f[m] = step[<<m, g[m - 1]>>] /\ f[m - 1] = g[m - 1]
        BY <3>1, <3>2
      <4> HIDE DEF f
      <4>2. QED
        BY <3>2, <4>1
    <3>3. CASE i # m
      <4>1. i \in 1 .. m - 1 /\ f[i] = g[i]
        BY <3>3
      <4>2. QED
        BY <2>1, <3>1, <4>1 DEF Upto
    <3>4. QED
      BY <3>2, <3>3
  <2>6. Upto(f, m, V, c, step)
    BY <2>3, <2>4, <2>5 DEF Upto
  <2>7. QED
    BY <2>6
<1> HIDE DEF S
<1>3. 0..n \subseteq S
  BY <1>1, <1>2, UpTo
<1>4. n \in S
  BY <1>3
<1>5. QED
  BY <1>4 DEF S

(* The sum of the values of a function.                                    *)
SumsTo(f, n, x) == f = [i \in 0..n |-> IF i = 0 THEN 0 ELSE f[i - 1] + x[i]]

LEMMA SumUnfold ==
    ASSUME NEW n \in Nat, NEW x \in [1..n -> Int]
    PROVE  \E f \in [0..n -> Int] :
             /\ SumTo(n, x) = f[n] /\ f[0] = 0
             /\ \A i \in 1..n : f[i] = f[i - 1] + x[i]
<1> DEFINE step == [p \in (1..n) \X Int |-> p[2] + x[p[1]]]
<1>1. step \in [(1..n) \X Int -> Int]
  OBVIOUS
<1>2. PICK f : Upto(f, n, Int, 0, step)
  <2> HIDE DEF step
  <2>1. 0 \in Int
    OBVIOUS
  <2>2. QED
    BY <1>1, <2>1, Defined
<1>3. f \in [0..n -> Int] /\ f[0] = 0 /\ \A i \in 1..n : f[i - 1] \in Int /\ f[i] = f[i - 1] + x[i]
  <2>1. f \in [0..n -> Int] /\ f[0] = 0
    BY <1>2 DEF Upto
  <2>2. ASSUME NEW i \in 1..n PROVE f[i - 1] \in Int /\ f[i] = f[i - 1] + x[i]
    <3>1. f[i - 1] \in Int
      BY <2>1
    <3>2. step[<<i, f[i - 1]>>] = f[i - 1] + x[i]
      BY <3>1
    <3> HIDE DEF step
    <3>3. f[i] = step[<<i, f[i - 1]>>]
      BY <1>2 DEF Upto
    <3>4. QED
      BY <3>1, <3>2, <3>3
  <2>3. QED
    BY <2>1, <2>2
<1>4. SumsTo(f, n, x)
  BY <1>3 DEF SumsTo
<1> DEFINE g == CHOOSE g : SumsTo(g, n, x)
<1>5. SumsTo(g, n, x)
  BY <1>4
<1>6. SumTo(n, x) = g[n]
  BY DEF SumTo, SumsTo
<1> HIDE DEF g
<1>7. g[0] = 0 /\ \A i \in 1..n : g[i] = g[i - 1] + x[i]
  BY <1>5 DEF SumsTo
<1>8. g = f
  <2> DEFINE S == {i \in 0..n : g[i] = f[i]}
  <2>1. 0 \in S
    BY <1>3, <1>7
  <2>2. \A i \in 0 + 1 .. n : i - 1 \in S => i \in S
    BY <1>3, <1>7
  <2> HIDE DEF S
  <2>3. 0..n \subseteq S
    BY <2>1, <2>2, UpTo
  <2>4. g = [i \in 0..n |-> g[i]]
    BY <1>5 DEF SumsTo
  <2>5. \A i \in 0..n : g[i] = f[i]
    BY <2>3 DEF S
  <2>6. QED
    BY <1>3, <2>4, <2>5
<1>9. QED
  BY <1>3, <1>6, <1>8

(* It is linear in the function.                                           *)
Combines(n, x, y, z, q) ==
    /\ n \in Nat /\ q \in Int
    /\ x \in [1..n -> Int] /\ y \in [1..n -> Int] /\ z \in [1..n -> Int]
    /\ \A i \in 1..n : x[i] = y[i] + q * z[i]

LEMMA SumLinear ==
    ASSUME NEW n, NEW x, NEW y, NEW z, NEW q, Combines(n, x, y, z, q)
    PROVE  \E a, b, c \in Int :
             /\ SumTo(n, x) = a /\ SumTo(n, y) = b /\ SumTo(n, z) = c
             /\ a = b + q * c
<1> USE DEF Combines
<1>1. PICK f \in [0..n -> Int] : /\ SumTo(n, x) = f[n] /\ f[0] = 0
                                 /\ \A i \in 1..n : f[i] = f[i - 1] + x[i]
  BY SumUnfold
<1>2. PICK g \in [0..n -> Int] : /\ SumTo(n, y) = g[n] /\ g[0] = 0
                                 /\ \A i \in 1..n : g[i] = g[i - 1] + y[i]
  BY SumUnfold
<1>3. PICK h \in [0..n -> Int] : /\ SumTo(n, z) = h[n] /\ h[0] = 0
                                 /\ \A i \in 1..n : h[i] = h[i - 1] + z[i]
  BY SumUnfold
<1> DEFINE S == {i \in 0..n : f[i] = g[i] + q * h[i]}
<1>4. 0 \in S
  BY <1>1, <1>2, <1>3
<1>5. ASSUME NEW i \in 0 + 1 .. n, i - 1 \in S PROVE i \in S
  <2>1. i \in 1..n /\ i - 1 \in 0..n
    OBVIOUS
  <2>2. /\ f[i] = f[i - 1] + x[i] /\ g[i] = g[i - 1] + y[i] /\ h[i] = h[i - 1] + z[i]
        /\ f[i - 1] = g[i - 1] + q * h[i - 1] /\ x[i] = y[i] + q * z[i]
        /\ g[i - 1] \in Int /\ h[i - 1] \in Int /\ y[i] \in Int /\ z[i] \in Int
    BY <1>1, <1>2, <1>3, <1>5, <2>1
  <2> DEFINE a == h[i - 1]
             b == z[i]
             c == g[i - 1]
             d == y[i]
  <2>3. a \in Int /\ b \in Int /\ c \in Int /\ d \in Int
    BY <2>2
  <2>4. f[i] = (c + q * a) + (d + q * b) /\ g[i] = c + d /\ h[i] = a + b
    BY <2>2
  <2> HIDE DEF a, b, c, d
  <2>5. f[i] = g[i] + q * h[i]
    BY <2>3, <2>4, Distributive
  <2>6. QED
    BY <2>1, <2>5
<1> HIDE DEF S
<1>6. 0..n \subseteq S
  BY <1>4, <1>5, UpTo
<1>7. f[n] = g[n] + q * h[n]
  BY <1>6 DEF S
<1>8. QED
  BY <1>1, <1>2, <1>3, <1>7
(* The weights are the powers of the base.                                 *)
WeighsAs(w) == w = [i \in 1 .. LimbCount + 1 |-> IF i = 1 THEN 1 ELSE w[i - 1] * LimbBase]

LEMMA Weights ==
    /\ Weight \in [1 .. LimbCount + 1 -> Nat \ {0}]
    /\ Weight[1] = 1
    /\ \A i \in Limbs : Weight[i] \in Nat \ {0} /\ Weight[i + 1] = Weight[i] * LimbBase
<1> DEFINE V == Nat \ {0}
           step == [p \in (1..LimbCount) \X V |-> p[2] * LimbBase]
<1>1. step \in [(1..LimbCount) \X V -> V]
  OBVIOUS
<1>2. PICK f : Upto(f, LimbCount, V, 1, step)
  <2> HIDE DEF step
  <2>1. 1 \in V /\ LimbCount \in Nat
    OBVIOUS
  <2> HIDE DEF V
  <2>2. QED
    BY <1>1, <2>1, Defined
<1> DEFINE w == [i \in 1 .. LimbCount + 1 |-> f[i - 1]]
<1>3. f \in [0..LimbCount -> V] /\ f[0] = 1 /\ \A i \in 1..LimbCount : f[i] = f[i - 1] * LimbBase
  <2>1. f \in [0..LimbCount -> V] /\ f[0] = 1
    BY <1>2 DEF Upto
  <2>2. ASSUME NEW i \in 1..LimbCount PROVE f[i] = f[i - 1] * LimbBase
    <3>1. step[<<i, f[i - 1]>>] = f[i - 1] * LimbBase
      BY <2>1
    <3> HIDE DEF step, V
    <3>2. QED
      BY <1>2, <3>1 DEF Upto
  <2>3. QED
    BY <2>1, <2>2
<1>4. \A i \in 1 .. LimbCount + 1 : w[i] = IF i = 1 THEN 1 ELSE w[i - 1] * LimbBase
  <2> SUFFICES ASSUME NEW i \in 1 .. LimbCount + 1
               PROVE  w[i] = IF i = 1 THEN 1 ELSE w[i - 1] * LimbBase
    OBVIOUS
  <2>1. CASE i = 1
    BY <1>3, <2>1
  <2>2. CASE i # 1
    <3>1. i - 1 \in 1..LimbCount /\ w[i] = f[i - 1] /\ w[i - 1] = f[(i - 1) - 1]
      BY <2>2
    <3>2. QED
      BY <1>3, <2>2, <3>1
  <2>3. QED
    BY <2>1, <2>2
<1>5. WeighsAs(w)
  BY <1>4 DEF WeighsAs
<1>6. Weight = CHOOSE g : WeighsAs(g)
  BY DEF Weight, WeighsAs
<1>7. WeighsAs(Weight)
  BY <1>5, <1>6
<1>8. \A i \in 1 .. LimbCount + 1 : Weight[i] = IF i = 1 THEN 1 ELSE Weight[i - 1] * LimbBase
  BY <1>7 DEF WeighsAs
<1>9. \A i \in 1 .. LimbCount + 1 : Weight[i] \in Nat \ {0}
  <2> DEFINE S == {i \in 0..LimbCount : Weight[i + 1] \in Nat \ {0}}
  <2>1. 0 \in S
    BY <1>8
  <2>2. ASSUME NEW i \in 0 + 1 .. LimbCount, i - 1 \in S PROVE i \in S
    <3>1. Weight[i + 1] = Weight[i] * LimbBase /\ Weight[i] \in Nat \ {0}
      BY <1>8, <2>2
    <3>2. \A a, b \in Nat \ {0} : a * b \in Nat \ {0}
      OBVIOUS
    <3>3. Weight[i + 1] \in Nat \ {0}
      BY <3>1, <3>2
    <3>4. QED
      BY <3>3
  <2> HIDE DEF S
  <2>3. 0..LimbCount \subseteq S
    BY <2>1, <2>2, UpTo
  <2>4. ASSUME NEW i \in 1 .. LimbCount + 1 PROVE Weight[i] \in Nat \ {0}
    <3>1. i - 1 \in 0..LimbCount /\ (i - 1) + 1 = i
      OBVIOUS
    <3>2. QED
      BY <2>3, <3>1 DEF S
  <2>5. QED
    BY <2>4
<1>10. Weight \in [1 .. LimbCount + 1 -> Nat \ {0}]
  BY <1>7, <1>9 DEF WeighsAs
<1>11. ASSUME NEW i \in Limbs
       PROVE  Weight[i] \in Nat \ {0} /\ Weight[i + 1] = Weight[i] * LimbBase
  <2>1. i \in 1 .. LimbCount + 1 /\ i + 1 \in 1 .. LimbCount + 1 /\ i + 1 # 1 /\ (i + 1) - 1 = i
    BY DEF Limbs
  <2>2. QED
    BY <1>8, <1>9, <2>1
<1>12. QED
  BY <1>8, <1>10, <1>11

(* Amounts are numbers.                                                    *)
LEMMA AmountType == MaxAmount \in Nat
BY Weights DEF MaxAmount

(* A weighted sum is linear in the limbs.                                  *)
LEMMA WeighedLinear ==
    ASSUME NEW x, NEW y, NEW z, NEW q, Combines(LimbCount, x, y, z, q)
    PROVE  \E a, b, c \in Int :
             /\ WeightedSum(x) = a /\ WeightedSum(y) = b /\ WeightedSum(z) = c
             /\ a = b + q * c
<1>0. /\ Limbs = 1..LimbCount /\ q \in Int
      /\ x \in [Limbs -> Int] /\ y \in [Limbs -> Int] /\ z \in [Limbs -> Int]
      /\ \A i \in Limbs : x[i] = y[i] + q * z[i]
  BY DEF Combines, Limbs
<1> DEFINE w(l) == [i \in Limbs |-> Weight[i] * l[i]]
<1>1. ASSUME NEW l \in [Limbs -> Int] PROVE w(l) \in [Limbs -> Int]
  <2>1. \A i \in Limbs : Weight[i] \in Int /\ l[i] \in Int
    BY Weights
  <2>2. QED
    BY <2>1, Distributive
<1>2. ASSUME NEW i \in Limbs PROVE w(x)[i] = w(y)[i] + q * w(z)[i]
  <2> DEFINE a == Weight[i]
             b == y[i]
             c == z[i]
  <2>1. a \in Int /\ b \in Int /\ c \in Int
    <3>1. a \in Int
      BY Weights
    <3>2. b \in Int /\ c \in Int
      BY <1>0
    <3>3. QED
      BY <3>1, <3>2
  <2>2. w(x)[i] = a * (b + q * c) /\ w(y)[i] = a * b /\ w(z)[i] = a * c
    BY <1>0
  <2> HIDE DEF a, b, c
  <2>3. a * (b + q * c) = a * b + q * (a * c)
    BY <1>0, <2>1
  <2>4. QED
    BY <2>2, <2>3
<1> DEFINE wx == w(x)
           wy == w(y)
           wz == w(z)
<1>3. /\ wx \in [Limbs -> Int] /\ wy \in [Limbs -> Int] /\ wz \in [Limbs -> Int]
      /\ \A i \in Limbs : wx[i] = wy[i] + q * wz[i]
  BY <1>0, <1>1, <1>2
<1>4. /\ WeightedSum(x) = SumTo(LimbCount, wx) /\ WeightedSum(y) = SumTo(LimbCount, wy)
      /\ WeightedSum(z) = SumTo(LimbCount, wz)
  BY DEF WeightedSum
<1> HIDE DEF wx, wy, wz
<1>5. Combines(LimbCount, wx, wy, wz, q)
  BY <1>0, <1>3 DEF Combines
<1>6. QED
  BY <1>4, <1>5, SumLinear
(* The limbs of an amount are digits, and weigh what the amount is.        *)
RestsAs(r, v) == r = [i \in Limbs |-> IF i = 1 THEN v ELSE r[i - 1] \div LimbBase]

LEMMA Split ==
    ASSUME NEW v \in 0..MaxAmount
    PROVE  /\ SplitLimbs(v) \in [Limbs -> 0 .. LimbBase - 1]
           /\ WeightedSum(SplitLimbs(v)) = v
<1> DEFINE step == [p \in (1..LimbCount) \X Nat |-> p[2] \div LimbBase]
<1>0. v \in Nat /\ LimbCount \in Nat /\ Limbs = 1..LimbCount /\ LimbBase \in Nat \ {0, 1}
  BY AmountType DEF Limbs
<1>1. step \in [(1..LimbCount) \X Nat -> Nat]
  BY Digits
<1>2. PICK f : Upto(f, LimbCount, Nat, v, step)
  <2> HIDE DEF step
  <2>1. QED
    BY <1>0, <1>1, Defined
<1>3. f \in [0..LimbCount -> Nat] /\ f[0] = v /\ \A i \in Limbs : f[i] = f[i - 1] \div LimbBase
  <2>1. f \in [0..LimbCount -> Nat] /\ f[0] = v
    BY <1>2 DEF Upto
  <2>2. ASSUME NEW i \in 1..LimbCount PROVE f[i] = f[i - 1] \div LimbBase
    <3>1. step[<<i, f[i - 1]>>] = f[i - 1] \div LimbBase
      BY <2>1
    <3> HIDE DEF step
    <3>2. QED
      BY <1>2, <3>1 DEF Upto
  <2>3. QED
    BY <1>0, <2>1, <2>2
<1> DEFINE r == [i \in Limbs |-> f[i - 1]]
<1>4. \A i \in Limbs : r[i] = IF i = 1 THEN v ELSE r[i - 1] \div LimbBase
  <2> SUFFICES ASSUME NEW i \in Limbs PROVE r[i] = IF i = 1 THEN v ELSE r[i - 1] \div LimbBase
    OBVIOUS
  <2>1. CASE i = 1
    BY <1>3, <2>1
  <2>2. CASE i # 1
    <3>1. i - 1 \in Limbs /\ r[i] = f[i - 1] /\ r[i - 1] = f[(i - 1) - 1]
      BY <1>0, <2>2
    <3>2. QED
      BY <1>3, <2>2, <3>1
  <2>3. QED
    BY <2>1, <2>2
<1>5. RestsAs(r, v)
  BY <1>4 DEF RestsAs
<1> DEFINE h == CHOOSE g : RestsAs(g, v)
<1>6. RestsAs(h, v)
  BY <1>5
<1>7. SplitLimbs(v) = [i \in Limbs |-> h[i] % LimbBase]
  BY DEF SplitLimbs, RestsAs
<1> HIDE DEF h
<1>8. \A i \in Limbs : h[i] = f[i - 1]
  <2> DEFINE S == {i \in 0 .. LimbCount - 1 : h[i + 1] = f[i]}
  <2>1. \A i \in Limbs : h[i] = IF i = 1 THEN v ELSE h[i - 1] \div LimbBase
    BY <1>6 DEF RestsAs
  <2>2. 0 \in S
    BY <1>0, <1>3, <2>1
  <2>3. ASSUME NEW i \in 0 + 1 .. LimbCount - 1, i - 1 \in S PROVE i \in S
    <3>1. i \in Limbs /\ i + 1 \in Limbs /\ i + 1 # 1 /\ h[i] = f[i - 1]
      BY <1>0, <2>3
    <3>2. h[i + 1] = h[i] \div LimbBase
      BY <2>1, <3>1
    <3>3. QED
      BY <1>3, <3>1, <3>2
  <2> HIDE DEF S
  <2>4. LimbCount - 1 \in Nat
    BY <1>0
  <2> DEFINE hi == LimbCount - 1
  <2>5. 0 .. hi \subseteq S
    <3>1. hi \in Nat /\ \A i \in 0 + 1 .. hi : i - 1 \in S => i \in S
      BY <2>3, <2>4
    <3> HIDE DEF hi
    <3>2. QED
      BY <2>2, <3>1, UpTo
  <2>6. ASSUME NEW i \in Limbs PROVE h[i] = f[i - 1]
    <3>1. i - 1 \in S /\ (i - 1) + 1 = i
      BY <1>0, <2>5 DEF hi
    <3>2. QED
      BY <3>1 DEF S
  <2>7. QED
    BY <2>6
<1> DEFINE d == [i \in Limbs |-> f[i - 1] % LimbBase]
<1>9. SplitLimbs(v) = d
  BY <1>7, <1>8
<1>10. ASSUME NEW i \in Limbs
       PROVE  /\ f[i - 1] \in Nat /\ f[i] \in Nat /\ d[i] \in 0 .. LimbBase - 1
              /\ f[i - 1] = LimbBase * f[i] + d[i]
  <2>1. f[i - 1] \in Nat
    BY <1>0, <1>3
  <2>2. f[i] = f[i - 1] \div LimbBase /\ d[i] = f[i - 1] % LimbBase
    BY <1>3
  <2>3. QED
    BY <2>1, <2>2, Digits
<1>11. d \in [Limbs -> 0 .. LimbBase - 1]
  BY <1>10
<1> HIDE DEF d
<1>12. WeightedSum(d) = v
  <2> DEFINE x == [i \in Limbs |-> Weight[i] * d[i]]
  <2>1. x \in [1..LimbCount -> Nat]
    <3>1. \A i \in Limbs : Weight[i] \in Nat /\ d[i] \in Nat
      BY <1>11, Weights
    <3>2. \A a, b \in Nat : a * b \in Nat
      OBVIOUS
    <3>3. QED
      BY <1>0, <3>1, <3>2
  <2>2. PICK s \in [0..LimbCount -> Int] :
          /\ SumTo(LimbCount, x) = s[LimbCount] /\ s[0] = 0
          /\ \A i \in 1..LimbCount : s[i] = s[i - 1] + x[i]
    <3> HIDE DEF x
    <3>1. x \in [1..LimbCount -> Int]
      BY <2>1
    <3>2. QED
      BY <1>0, <3>1, SumUnfold
  <2> DEFINE S == {i \in 0..LimbCount : s[i] \in Nat /\ v = s[i] + Weight[i + 1] * f[i]}
  <2>3. 0 \in S
    <3>1. Weight[0 + 1] = 1 /\ f[0] = v /\ s[0] = 0
      BY <1>3, <2>2, Weights
    <3>2. QED
      BY <1>0, <3>1
  <2>4. ASSUME NEW i \in 0 + 1 .. LimbCount, i - 1 \in S PROVE i \in S
    <3>1. i \in Limbs /\ (i - 1) + 1 = i
      BY <1>0
    <3> DEFINE w == Weight[i]
               p == f[i - 1]
               q == f[i]
               t == s[i - 1]
               e == d[i]
    <3>2. /\ s[i] = t + w * e /\ Weight[i + 1] = w * LimbBase
          /\ v = t + w * p /\ p = LimbBase * q + e
      <4>1. s[i] = t + w * e
        BY <1>0, <2>2, <3>1
      <4>2. Weight[i + 1] = w * LimbBase
        BY <3>1, Weights
      <4>3. v = t + w * p
        BY <2>4, <3>1
      <4>4. p = LimbBase * q + e
        BY <1>10, <3>1
      <4>5. QED
        BY <4>1, <4>2, <4>3, <4>4
    <3>3. w \in Nat /\ p \in Nat /\ q \in Nat /\ t \in Nat /\ e \in Nat
      BY <1>10, <2>4, <3>1, Weights
    <3> HIDE DEF w, p, q, t, e
    <3>4. t + w * p = (t + w * e) + (w * LimbBase) * q
      <4>1. w * p = w * (LimbBase * q) + w * e
        BY <1>0, <3>2, <3>3, Distributive
      <4>2. w * (LimbBase * q) = (w * LimbBase) * q
        BY <1>0, <3>3
      <4>3. QED
        BY <1>0, <3>3, <4>1, <4>2
    <3>5. t + w * e \in Nat
      BY <3>3, Natural
    <3>6. v = s[i] + Weight[i + 1] * f[i] /\ s[i] \in Nat
      BY <3>2, <3>4, <3>5 DEF q
    <3>7. QED
      BY <3>1, <3>6
  <2> HIDE DEF S
  <2>5. 0..LimbCount \subseteq S
    BY <1>0, <2>3, <2>4, UpTo
  <2>6. s[LimbCount] \in Nat /\ v = s[LimbCount] + Weight[LimbCount + 1] * f[LimbCount]
    BY <1>0, <2>5 DEF S
  <2>7. f[LimbCount] = 0
    <3> DEFINE w == Weight[LimbCount + 1]
               q == f[LimbCount]
               t == s[LimbCount]
    <3>1. w \in Nat
      <4>1. LimbCount + 1 \in 1 .. LimbCount + 1
        BY <1>0
      <4>2. QED
        BY <4>1, Weights
    <3>2. q \in Nat /\ t \in Nat /\ v = t + w * q
      BY <1>0, <1>3, <2>6
    <3>3. v < w
      BY <1>0, <3>1 DEF MaxAmount
    <3> HIDE DEF w, q, t
    <3>4. \A a, b, c, e \in Nat : e = c + a * b /\ e < a => b = 0
      OBVIOUS
    <3>5. q = 0
      BY <1>0, <3>1, <3>2, <3>3, <3>4
    <3>6. QED
      BY <3>5 DEF q
  <2>8. v = s[LimbCount]
    BY <1>0, <2>6, <2>7, Weights
  <2>9. QED
    BY <2>2, <2>8 DEF WeightedSum
<1>13. QED
  BY <1>9, <1>11, <1>12

(* Joining limbs, from the last to the first, weighs them: also limbs that *)
(* have run over or gone negative.                                         *)
JoinsAs(f, l) ==
    f = [i \in 0..LimbCount |-> IF i = 0 THEN 0 ELSE f[i - 1] * LimbBase + l[LimbCount + 1 - i]]

LEMMA Join ==
    ASSUME NEW l \in [Limbs -> Int]
    PROVE  JoinLimbs(l) = WeightedSum(l) /\ WeightedSum(l) \in Int
<1>0. LimbCount \in Nat /\ Limbs = 1..LimbCount /\ LimbBase \in Nat
  BY DEF Limbs
<1>1. \A i \in 1..LimbCount : LimbCount + 1 - i \in Limbs /\ l[LimbCount + 1 - i] \in Int
  BY <1>0
<1> DEFINE step == [p \in (1..LimbCount) \X Int |-> p[2] * LimbBase + l[LimbCount + 1 - p[1]]]
<1>2. ASSUME NEW i \in 1..LimbCount, NEW a \in Int
      PROVE  step[<<i, a>>] = a * LimbBase + l[LimbCount + 1 - i]
  OBVIOUS
<1>3. step \in [(1..LimbCount) \X Int -> Int]
  <2>1. \A p \in (1..LimbCount) \X Int : p[2] * LimbBase + l[LimbCount + 1 - p[1]] \in Int
    <3>1. \A a, b \in Int : a * LimbBase + b \in Int
      BY <1>0, Distributive
    <3>2. QED
      BY <1>1, <3>1
  <2>2. QED
    BY <2>1
<1> HIDE DEF step
<1>4. PICK f : Upto(f, LimbCount, Int, 0, step)
  <2>1. 0 \in Int
    OBVIOUS
  <2>2. QED
    BY <1>0, <1>3, <2>1, Defined
<1>5. f \in [0..LimbCount -> Int] /\ f[0] = 0
  BY <1>4 DEF Upto
<1>6. \A i \in 1..LimbCount : f[i] = f[i - 1] * LimbBase + l[LimbCount + 1 - i]
  <2> SUFFICES ASSUME NEW i \in 1..LimbCount
               PROVE  f[i] = f[i - 1] * LimbBase + l[LimbCount + 1 - i]
    OBVIOUS
  <2>1. f[i] = step[<<i, f[i - 1]>>] /\ f[i - 1] \in Int
    BY <1>4, <1>5 DEF Upto
  <2>2. QED
    BY <1>2, <2>1
<1>7. JoinsAs(f, l)
  BY <1>5, <1>6 DEF JoinsAs
<1> DEFINE g == CHOOSE g : JoinsAs(g, l)
<1>8. JoinsAs(g, l)
  BY <1>7
<1>9. JoinLimbs(l) = g[LimbCount]
  BY DEF JoinLimbs, JoinsAs
<1> HIDE DEF g
<1>10. g[0] = 0 /\ \A i \in 1..LimbCount : g[i] = g[i - 1] * LimbBase + l[LimbCount + 1 - i]
  BY <1>0, <1>8 DEF JoinsAs
<1> DEFINE x == [i \in Limbs |-> Weight[i] * l[i]]
<1>11. x \in [1..LimbCount -> Int]
  <2>1. \A i \in Limbs : Weight[i] \in Int /\ l[i] \in Int
    BY Weights
  <2>2. QED
    BY <1>0, <2>1, Distributive
<1>12. WeightedSum(l) = SumTo(LimbCount, x)
  BY DEF WeightedSum
<1>13. ASSUME NEW i \in Limbs PROVE x[i] = Weight[i] * l[i]
  OBVIOUS
<1> HIDE DEF x
<1>14. PICK s \in [0..LimbCount -> Int] :
         /\ SumTo(LimbCount, x) = s[LimbCount] /\ s[0] = 0
         /\ \A i \in 1..LimbCount : s[i] = s[i - 1] + x[i]
  BY <1>0, <1>11, SumUnfold
<1>15. \A i \in 0..LimbCount : Weight[LimbCount - i + 1] \in Nat
  <2>1. \A i \in 0..LimbCount : LimbCount - i + 1 \in 1 .. LimbCount + 1
    BY <1>0
  <2>2. QED
    BY <2>1, Weights
<1> DEFINE S == {i \in 0..LimbCount :
                   /\ g[i] \in Int
                   /\ s[LimbCount] = s[LimbCount - i] + Weight[LimbCount - i + 1] * g[i]}
<1>16. 0 \in S
  <2> DEFINE w == Weight[LimbCount - 0 + 1]
  <2>1. w \in Int /\ g[0] = 0 /\ s[LimbCount - 0] = s[LimbCount] /\ s[LimbCount] \in Int
    BY <1>0, <1>10, <1>14, <1>15
  <2> HIDE DEF w
  <2>2. s[LimbCount] = s[LimbCount - 0] + w * g[0]
    BY <2>1
  <2>3. QED
    BY <1>0, <2>1, <2>2 DEF w
<1>17. ASSUME NEW i \in 0 + 1 .. LimbCount, i - 1 \in S PROVE i \in S
  <2> DEFINE k == LimbCount + 1 - i
  <2>1. /\ k \in Limbs /\ i \in 1..LimbCount
        /\ LimbCount - i = k - 1 /\ LimbCount - i + 1 = k
        /\ LimbCount - (i - 1) = k /\ LimbCount - (i - 1) + 1 = k + 1
    BY <1>0
  <2> HIDE DEF k
  <2> DEFINE w == Weight[k]
             t == s[k - 1]
             a == g[i - 1]
             e == l[k]
  <2>2. w \in Int /\ t \in Int /\ a \in Int /\ e \in Int
    <3>1. w \in Int
      BY <2>1, Weights
    <3>2. t \in Int /\ e \in Int
      BY <1>0, <1>14, <2>1
    <3>3. a \in Int
      BY <1>17
    <3>4. QED
      BY <3>1, <3>2, <3>3
  <2>3. g[i] = a * LimbBase + e
    BY <1>10, <2>1 DEF k
  <2>4. s[k] = t + w * e
    BY <1>0, <1>13, <1>14, <2>1
  <2>5. Weight[k + 1] = w * LimbBase
    BY <2>1, Weights
  <2>6. s[LimbCount] = s[k] + Weight[k + 1] * a
    BY <1>17, <2>1
  <2> HIDE DEF w, t, a, e
  <2>7. (t + w * e) + (w * LimbBase) * a = t + w * (a * LimbBase + e)
    <3>1. (w * LimbBase) * a = w * (a * LimbBase)
      BY <1>0, <2>2
    <3>2. a * LimbBase \in Int
      BY <1>0, <2>2, Distributive
    <3>3. w * (a * LimbBase + e) = w * (a * LimbBase) + w * e
      BY <2>2, <3>2, Distributive
    <3>4. w * e \in Int /\ w * (a * LimbBase) \in Int
      BY <2>2, <3>2, Distributive
    <3>5. QED
      BY <2>2, <3>1, <3>3, <3>4
  <2>8. g[i] \in Int
    BY <1>0, <2>2, <2>3, Distributive
  <2>9. s[LimbCount] = s[k - 1] + Weight[k] * g[i]
    BY <2>3, <2>4, <2>5, <2>6, <2>7 DEF t, w
  <2>10. QED
    BY <2>1, <2>8, <2>9
<1> HIDE DEF S
<1>18. 0..LimbCount \subseteq S
  BY <1>0, <1>16, <1>17, UpTo
<1>19. g[LimbCount] \in Int /\ s[LimbCount] = s[0] + Weight[1] * g[LimbCount]
  <2>1. LimbCount \in S /\ LimbCount - LimbCount = 0 /\ LimbCount - LimbCount + 1 = 1
    BY <1>0, <1>18
  <2>2. QED
    BY <2>1 DEF S
<1>20. s[LimbCount] = g[LimbCount]
  BY <1>14, <1>19, Weights
<1>21. QED
  BY <1>9, <1>12, <1>14, <1>19, <1>20

----------------------------------------------------------------------------
(* Ciphertexts, and what they unmask to.                                   *)

Ciphertext == [Limbs -> [commitment: Int, handle: Int]]
Unmasked(a, k) == [i \in Limbs |-> UnmaskLimb(a[i], k)]
Handles(a) == [i \in Limbs |-> a[i].handle]

LEMMA UnmaskedType ==
    ASSUME NEW a \in Ciphertext, NEW k \in Int
    PROVE  /\ Unmasked(a, k) \in [Limbs -> Int]
           /\ Handles(a) \in [Limbs -> Int]
           /\ WeightedSum(Unmasked(a, k)) \in Int
<1>1. ASSUME NEW i \in Limbs
      PROVE  UnmaskLimb(a[i], k) \in Int /\ a[i].handle \in Int
  <2>1. a[i].commitment \in Int /\ a[i].handle \in Int
    BY DEF Ciphertext
  <2>2. k * a[i].handle \in Int
    BY <2>1, Distributive
  <2>3. QED
    BY <2>1, <2>2 DEF UnmaskLimb
<1>2. Unmasked(a, k) \in [Limbs -> Int] /\ Handles(a) \in [Limbs -> Int]
  BY <1>1 DEF Unmasked, Handles
<1>3. QED
  BY <1>2, Join

(* Under another key the mask is left in, times the draw.                  *)
LEMMA OtherKey ==
    ASSUME NEW a \in Ciphertext, NEW k \in Int, NEW j \in Int
    PROVE  Combines(LimbCount, Unmasked(a, j), Unmasked(a, k), Handles(a), k - j)
<1>1. ASSUME NEW i \in Limbs
      PROVE  Unmasked(a, j)[i] = Unmasked(a, k)[i] + (k - j) * Handles(a)[i]
  <2> DEFINE c == a[i].commitment
             h == a[i].handle
  <2>1. c \in Int /\ h \in Int
    BY DEF Ciphertext
  <2>2. /\ Unmasked(a, j)[i] = c - j * h /\ Unmasked(a, k)[i] = c - k * h
        /\ Handles(a)[i] = h
    BY DEF Unmasked, UnmaskLimb, Handles
  <2> HIDE DEF c, h
  <2>3. c - j * h = (c - k * h) + (k - j) * h
    BY <2>1
  <2>4. QED
    BY <2>2, <2>3
<1>2. LimbCount \in Nat /\ Limbs = 1..LimbCount /\ k - j \in Int
  BY DEF Limbs
<1>3. QED
  BY <1>1, <1>2, UnmaskedType DEF Combines

(* Under its own key an encryption unmasks to the digits of its amount.    *)
LEMMA Encrypted ==
    ASSUME NEW v \in 0..MaxAmount, NEW k \in Int, NEW r \in [Limbs -> Nat \ {0}]
    PROVE  /\ EncryptAmount(v, k, r) \in Ciphertext
           /\ Unmasked(EncryptAmount(v, k, r), k) = SplitLimbs(v)
           /\ Handles(EncryptAmount(v, k, r)) = r
<1> DEFINE a == EncryptAmount(v, k, r)
<1>1. ASSUME NEW i \in Limbs
      PROVE  /\ a[i] \in [commitment: Int, handle: Int]
             /\ UnmaskLimb(a[i], k) = SplitLimbs(v)[i] /\ a[i].handle = r[i]
  <2> DEFINE d == SplitLimbs(v)[i]
             h == r[i]
  <2>1. d \in Int /\ h \in Int
    BY Split
  <2>2. a[i] = [commitment |-> d + h * k, handle |-> h]
    BY DEF EncryptAmount, EncryptLimb
  <2> HIDE DEF d, h
  <2>3. h * k \in Int /\ h * k = k * h
    BY <2>1, Distributive
  <2>4. (d + h * k) - k * h = d
    BY <2>1, <2>3
  <2>5. QED
    BY <2>1, <2>2, <2>3, <2>4 DEF UnmaskLimb, d, h
<1>2. a = [i \in Limbs |-> a[i]]
  BY DEF EncryptAmount
<1> HIDE DEF a
<1>3. a \in Ciphertext
  BY <1>1, <1>2 DEF Ciphertext
<1>4. Unmasked(a, k) = SplitLimbs(v)
  BY <1>1, Split DEF Unmasked
<1>5. Handles(a) = r
  BY <1>1 DEF Handles
<1>6. QED
  BY <1>3, <1>4, <1>5 DEF a

(* Sums and differences of ciphertexts are those of what they unmask to.   *)
LEMMA Added ==
    ASSUME NEW a \in Ciphertext, NEW b \in Ciphertext, NEW k \in Int
    PROVE  /\ AddAmounts(a, b) \in Ciphertext
           /\ Combines(LimbCount, Unmasked(AddAmounts(a, b), k), Unmasked(a, k), Unmasked(b, k), 1)
           /\ Combines(LimbCount, Handles(AddAmounts(a, b)), Handles(a), Handles(b), 1)
<1> DEFINE s == AddAmounts(a, b)
<1>1. ASSUME NEW i \in Limbs
      PROVE  /\ s[i] \in [commitment: Int, handle: Int]
             /\ UnmaskLimb(s[i], k) = UnmaskLimb(a[i], k) + 1 * UnmaskLimb(b[i], k)
             /\ s[i].handle = a[i].handle + 1 * b[i].handle
  <2> DEFINE c == a[i].commitment
             h == a[i].handle
             d == b[i].commitment
             g == b[i].handle
  <2>1. c \in Int /\ h \in Int /\ d \in Int /\ g \in Int
    BY DEF Ciphertext
  <2>2. s[i] = [commitment |-> c + d, handle |-> h + g]
    BY DEF AddAmounts
  <2>3. UnmaskLimb(a[i], k) = c - k * h /\ UnmaskLimb(b[i], k) = d - k * g
    BY DEF UnmaskLimb
  <2>4. UnmaskLimb(s[i], k) = (c + d) - k * (h + g) /\ s[i].handle = h + g
    BY <2>2 DEF UnmaskLimb
  <2> HIDE DEF c, h, d, g, s
  <2>5. (c + d) - k * (h + g) = (c - k * h) + 1 * (d - k * g)
    <3>1. k * (h + g) = k * h + k * g /\ k * h \in Int /\ k * g \in Int
      BY <2>1, Distributive
    <3>2. QED
      BY <2>1, <3>1
  <2>6. c + d \in Int /\ h + g \in Int /\ h + g = h + 1 * g
    BY <2>1
  <2>7. s[i] \in [commitment: Int, handle: Int]
    BY <2>2, <2>6
  <2>8. UnmaskLimb(s[i], k) = UnmaskLimb(a[i], k) + 1 * UnmaskLimb(b[i], k)
    BY <2>3, <2>4, <2>5
  <2>9. s[i].handle = a[i].handle + 1 * b[i].handle
    BY <2>4, <2>6 DEF h, g
  <2>10. QED
    BY <2>7, <2>8, <2>9
<1>2. s = [i \in Limbs |-> s[i]]
  BY DEF AddAmounts
<1> HIDE DEF s
<1>3. s \in Ciphertext
  BY <1>1, <1>2 DEF Ciphertext
<1>4. LimbCount \in Nat /\ Limbs = 1..LimbCount /\ 1 \in Int
  BY DEF Limbs
<1>5. Combines(LimbCount, Unmasked(s, k), Unmasked(a, k), Unmasked(b, k), 1)
  <2>1. \A i \in Limbs : Unmasked(s, k)[i] = Unmasked(a, k)[i] + 1 * Unmasked(b, k)[i]
    BY <1>1 DEF Unmasked
  <2>2. QED
    BY <1>3, <1>4, <2>1, UnmaskedType DEF Combines
<1>6. Combines(LimbCount, Handles(s), Handles(a), Handles(b), 1)
  <2>1. \A i \in Limbs : Handles(s)[i] = Handles(a)[i] + 1 * Handles(b)[i]
    BY <1>1 DEF Handles
  <2>2. QED
    BY <1>3, <1>4, <2>1, UnmaskedType DEF Combines
<1>7. QED
  BY <1>3, <1>5, <1>6 DEF s

LEMMA Subtracted ==
    ASSUME NEW a \in Ciphertext, NEW b \in Ciphertext, NEW k \in Int
    PROVE  /\ SubtractAmounts(a, b) \in Ciphertext
           /\ Combines(LimbCount, Unmasked(SubtractAmounts(a, b), k), Unmasked(a, k), Unmasked(b, k), -1)
           /\ Combines(LimbCount, Handles(SubtractAmounts(a, b)), Handles(a), Handles(b), -1)
<1> DEFINE s == SubtractAmounts(a, b)
<1>1. ASSUME NEW i \in Limbs
      PROVE  /\ s[i] \in [commitment: Int, handle: Int]
             /\ UnmaskLimb(s[i], k) = UnmaskLimb(a[i], k) + (-1) * UnmaskLimb(b[i], k)
             /\ s[i].handle = a[i].handle + (-1) * b[i].handle
  <2> DEFINE c == a[i].commitment
             h == a[i].handle
             d == b[i].commitment
             g == b[i].handle
  <2>1. c \in Int /\ h \in Int /\ d \in Int /\ g \in Int
    BY DEF Ciphertext
  <2>2. s[i] = [commitment |-> c - d, handle |-> h - g]
    BY DEF SubtractAmounts
  <2>3. UnmaskLimb(a[i], k) = c - k * h /\ UnmaskLimb(b[i], k) = d - k * g
    BY DEF UnmaskLimb
  <2>4. UnmaskLimb(s[i], k) = (c - d) - k * (h - g) /\ s[i].handle = h - g
    BY <2>2 DEF UnmaskLimb
  <2> HIDE DEF c, h, d, g, s
  <2>5. (c - d) - k * (h - g) = (c - k * h) + (-1) * (d - k * g)
    <3>1. k * (h - g) = k * h - k * g /\ k * h \in Int /\ k * g \in Int
      BY <2>1
    <3>2. QED
      BY <2>1, <3>1
  <2>6. c - d \in Int /\ h - g \in Int /\ h - g = h + (-1) * g
    BY <2>1
  <2>7. s[i] \in [commitment: Int, handle: Int]
    BY <2>2, <2>6
  <2>8. UnmaskLimb(s[i], k) = UnmaskLimb(a[i], k) + (-1) * UnmaskLimb(b[i], k)
    BY <2>3, <2>4, <2>5
  <2>9. s[i].handle = a[i].handle + (-1) * b[i].handle
    BY <2>4, <2>6 DEF h, g
  <2>10. QED
    BY <2>7, <2>8, <2>9
<1>2. s = [i \in Limbs |-> s[i]]
  BY DEF SubtractAmounts
<1> HIDE DEF s
<1>3. s \in Ciphertext
  BY <1>1, <1>2 DEF Ciphertext
<1>4. LimbCount \in Nat /\ Limbs = 1..LimbCount /\ -1 \in Int
  BY DEF Limbs
<1>5. Combines(LimbCount, Unmasked(s, k), Unmasked(a, k), Unmasked(b, k), -1)
  <2>1. \A i \in Limbs : Unmasked(s, k)[i] = Unmasked(a, k)[i] + (-1) * Unmasked(b, k)[i]
    BY <1>1 DEF Unmasked
  <2>2. QED
    BY <1>3, <1>4, <2>1, UnmaskedType DEF Combines
<1>6. Combines(LimbCount, Handles(s), Handles(a), Handles(b), -1)
  <2>1. \A i \in Limbs : Handles(s)[i] = Handles(a)[i] + (-1) * Handles(b)[i]
    BY <1>1 DEF Handles
  <2>2. QED
    BY <1>3, <1>4, <2>1, UnmaskedType DEF Combines
<1>7. QED
  BY <1>3, <1>5, <1>6 DEF s
----------------------------------------------------------------------------
(* The bounded search.                                                     *)

LEMMA SteppedTo ==
    ASSUME NEW maxAbs \in Nat
    PROVE  Reached(maxAbs, BabySteps(maxAbs)) = 0..maxAbs
<1> DEFINE b == BabySteps(maxAbs)
           g == GiantSteps(maxAbs, b)
<1>1. b \in Nat /\ b > 0
  BY DEF BabySteps
<1>2. g = (maxAbs + b) \div b
  BY DEF GiantSteps
<1> HIDE DEF b, g
<1>3. Reached(maxAbs, b) = {m \in {i * b + j : i \in 0..g, j \in 0 .. b - 1} : m <= maxAbs}
  BY DEF Reached, g
<1>4. Steps(maxAbs, b, g)
  BY <1>1, <1>2, Stepping
<1>5. QED
  BY <1>3, <1>4 DEF Steps, b

LEMMA Solving ==
    ASSUME NEW p \in Int, NEW maxAbs \in Nat, NEW negative \in BOOLEAN
    PROVE  /\ SolveDlog(p, maxAbs, negative) \in {p, Unsolved}
           /\ ~Beyond(p, maxAbs) /\ (negative \/ p >= 0) =>
                SolveDlog(p, maxAbs, negative) = p
           /\ Beyond(p, maxAbs) => SolveDlog(p, maxAbs, negative) = Unsolved
<1>1. SolveDlog(p, maxAbs, negative) =
        IF p = 0 \/ \E m \in IF negative THEN {p, -p} ELSE {p} : m \in 0..maxAbs
        THEN p ELSE Unsolved
  BY SteppedTo DEF SolveDlog
<1>2. ASSUME Beyond(p, maxAbs) PROVE ~(p \in 0..maxAbs) /\ ~(-p \in 0..maxAbs) /\ p # 0
  BY <1>2 DEF Beyond
<1>3. ASSUME ~Beyond(p, maxAbs) PROVE p \in 0..maxAbs \/ -p \in 0..maxAbs
  BY <1>3 DEF Beyond
<1>4. ASSUME ~Beyond(p, maxAbs), p >= 0 PROVE p \in 0..maxAbs
  BY <1>4 DEF Beyond
<1>5. QED
  BY <1>1, <1>2, <1>3, <1>4

LEMMA Decrypting ==
    ASSUME NEW a \in Ciphertext, NEW k \in Int, NEW maxAbs \in Nat, NEW negative \in BOOLEAN
    PROVE  /\ DecryptAmount(a, k, maxAbs, negative) \in {WeightedSum(Unmasked(a, k)), Unsolved}
           /\ (\A i \in Limbs : /\ ~Beyond(Unmasked(a, k)[i], maxAbs)
                                /\ negative \/ Unmasked(a, k)[i] >= 0) =>
                DecryptAmount(a, k, maxAbs, negative) = WeightedSum(Unmasked(a, k))
           /\ (\E i \in Limbs : Beyond(Unmasked(a, k)[i], maxAbs)) =>
                DecryptAmount(a, k, maxAbs, negative) = Unsolved
<1> DEFINE u == Unmasked(a, k)
           s == [i \in Limbs |-> SolveDlog(u[i], maxAbs, negative)]
<1>1. u \in [Limbs -> Int] /\ u = [i \in Limbs |-> u[i]]
  BY UnmaskedType
<1>2. DecryptAmount(a, k, maxAbs, negative) = Solved(s)
  BY DEF DecryptAmount, Unmasked
<1>3. \A i \in Limbs : s[i] = SolveDlog(u[i], maxAbs, negative)
  OBVIOUS
<1>4. Range(s) = {s[i] : i \in Limbs} /\ s = [i \in Limbs |-> s[i]]
  BY DEF Range
<1> HIDE DEF s, u
<1>5. \A i \in Limbs : s[i] \in {u[i], Unsolved}
  BY <1>1, <1>3, Solving
<1>6. CASE Unsolved \in Range(s)
  <2>1. Solved(s) = Unsolved
    BY <1>6 DEF Solved
  <2>2. PICK i \in Limbs : s[i] = Unsolved
    BY <1>4, <1>6
  <2>3. u[i] \in Int /\ s[i] # u[i]
    BY <1>1, <2>2
  <2>4. Beyond(u[i], maxAbs) \/ ~(negative \/ u[i] >= 0)
    BY <1>3, <2>3, Solving
  <2>5. QED
    BY <1>2, <2>1, <2>4 DEF u
<1>7. CASE Unsolved \notin Range(s)
  <2>1. \A i \in Limbs : s[i] = u[i]
    BY <1>4, <1>5, <1>7
  <2>2. s = u
    BY <1>1, <1>4, <2>1
  <2>3. Solved(s) = WeightedSum(u)
    BY <1>1, <1>7, <2>2, Join DEF Solved
  <2>4. ASSUME NEW i \in Limbs PROVE ~Beyond(u[i], maxAbs)
    <3>1. u[i] \in Int /\ s[i] # Unsolved
      BY <1>1, <1>4, <1>7
    <3>2. QED
      BY <1>3, <3>1, Solving
  <2>5. QED
    BY <1>2, <2>3, <2>4 DEF u
<1>8. QED
  BY <1>6, <1>7
----------------------------------------------------------------------------
(* What every reachable state holds.                                       *)

Event == [delta: {"credit", "debit", "replace"}, amount: Ciphertext]

AmountsTypeOK ==
    /\ log \in Seq(Event) /\ Len(log) \in 0..MaxEvents
    /\ balance \in Ciphertext /\ total \in Nat
    /\ key \in Keys /\ width \in 0..Len(log)

(* The balance weighs its total, under its key.                            *)
Worth ==
    /\ WeightedSum(Unmasked(balance, key)) = total
    /\ total <= Len(log) * MaxAmount

(* Its limbs are sums and differences of so many digits.                   *)
Spread(u, n) == \A i \in Limbs : ~Beyond(u[i], n * (LimbBase - 1))
Narrow == Spread(Unmasked(balance, key), width)

BalanceInv == AmountsTypeOK /\ Worth /\ Narrow

LEMMA ZeroWeighs ==
    /\ ZeroAmount \in Ciphertext
    /\ \A k \in Int : /\ Unmasked(ZeroAmount, k) = [i \in Limbs |-> 0]
                      /\ WeightedSum(Unmasked(ZeroAmount, k)) = 0
<1> DEFINE z == [i \in Limbs |-> 0]
<1>1. ZeroAmount \in Ciphertext
  BY DEF ZeroAmount, LimbIdentity, Ciphertext
<1>2. ASSUME NEW k \in Int PROVE Unmasked(ZeroAmount, k) = z
  <2>1. k * 0 = 0
    OBVIOUS
  <2>2. QED
    BY <2>1 DEF Unmasked, UnmaskLimb, ZeroAmount, LimbIdentity
<1>3. WeightedSum(z) = 0
  <2>1. Combines(LimbCount, z, z, z, 1)
    BY DEF Combines, Limbs
  <2> HIDE DEF z
  <2>2. PICK a, b, c \in Int : /\ WeightedSum(z) = a /\ WeightedSum(z) = b /\ WeightedSum(z) = c
                               /\ a = b + 1 * c
    BY <2>1, WeighedLinear
  <2>3. a = b /\ c = b
    BY <2>2
  <2>4. b = b + 1 * b => b = 0
    OBVIOUS
  <2>5. b = 0
    BY <2>2, <2>3, <2>4, Zenon
  <2>6. QED
    BY <2>2, <2>5
<1>4. QED
  BY <1>1, <1>2, <1>3

(* One more limb in a sum or difference is one more digit.                 *)
LEMMA Spreading ==
    ASSUME NEW x, NEW y, NEW z, NEW q \in {1, -1}, NEW n \in Nat,
           Combines(LimbCount, x, y, z, q), Spread(y, n), Spread(z, 1)
    PROVE  Spread(x, n + 1)
<1>1. ASSUME NEW i \in Limbs PROVE ~Beyond(x[i], (n + 1) * (LimbBase - 1))
  <2> DEFINE a == x[i]
             b == y[i]
             c == z[i]
             m == n * (LimbBase - 1)
  <2>1. a \in Int /\ b \in Int /\ c \in Int /\ a = b + q * c
    BY DEF Combines, Limbs
  <2>2. ~Beyond(b, m) /\ ~Beyond(c, 1 * (LimbBase - 1))
    BY DEF Spread
  <2>3. LimbBase - 1 \in Int
    OBVIOUS
  <2> DEFINE d == LimbBase - 1
  <2> HIDE DEF d
  <2>4. (n + 1) * d = n * d + d /\ 1 * d = d /\ n * d \in Int
    <3>1. d \in Int
      BY <2>3 DEF d
    <3>2. QED
      BY <3>1
  <2>5. (n + 1) * (LimbBase - 1) = m + (LimbBase - 1) /\ m \in Int
    BY <2>4 DEF d
  <2> HIDE DEF a, b, c, m
  <2>6. q * c = c \/ q * c = -c
    BY <2>1
  <2>7. ~Beyond(a, m + (LimbBase - 1))
    BY <2>1, <2>2, <2>5, <2>6 DEF Beyond
  <2>8. QED
    BY <2>5, <2>7 DEF a
<1>2. QED
  BY <1>1 DEF Spread

LEMMA Fresh ==
    ASSUME NEW v \in 0..MaxAmount
    PROVE  Spread(SplitLimbs(v), 1)
<1>1. ASSUME NEW i \in Limbs PROVE ~Beyond(SplitLimbs(v)[i], 1 * (LimbBase - 1))
  <2>1. SplitLimbs(v)[i] \in 0 .. LimbBase - 1
    BY Split
  <2>2. QED
    BY <2>1 DEF Beyond
<1>2. QED
  BY <1>1 DEF Spread

LEMMA Drawing ==
    ASSUME AmountsTypeOK, Len(log) < MaxEvents
    PROVE  Len(log) + 1 \in 1..MaxEvents /\ Draw \in [Limbs -> Nat \ {0}] /\ Draw = Random[Len(log) + 1]
BY DEF AmountsTypeOK, Draw

(* What a replacement encrypts again is the total.                         *)
LEMMA Rolled ==
    ASSUME BalanceInv, DecryptBalance(key) # Unsolved
    PROVE  DecryptBalance(key) = total
<1>1. balance \in Ciphertext /\ key \in Int /\ BalanceBound \in Nat /\ TRUE \in BOOLEAN
  BY DEF BalanceInv, AmountsTypeOK
<1>2. DecryptBalance(key) \in {WeightedSum(Unmasked(balance, key)), Unsolved}
  BY <1>1, Decrypting DEF DecryptBalance
<1>3. QED
  BY <1>2 DEF BalanceInv, Worth

LEMMA AddedUp ==
    ASSUME NEW n \in Nat, NEW v \in 0..MaxAmount, NEW t \in Int, t <= n * MaxAmount
    PROVE  t + v <= (n + 1) * MaxAmount
<1>1. MaxAmount \in Nat
  BY AmountType
<1>2. (n + 1) * MaxAmount = n * MaxAmount + MaxAmount /\ n * MaxAmount \in Int
  BY <1>1
<1>3. QED
  BY <1>1, <1>2

(* An event with which the log grows.                                      *)
LEMMA Grows ==
    ASSUME AmountsTypeOK, Len(log) < MaxEvents,
           NEW d \in {"credit", "debit", "replace"}, NEW a \in Ciphertext,
           log' = Append(log, [delta |-> d, amount |-> a])
    PROVE  /\ log' \in Seq(Event) /\ Len(log') = Len(log) + 1 /\ Len(log') \in 0..MaxEvents
           /\ \A n \in 1..Len(log) : log'[n] = log[n]
           /\ log'[Len(log) + 1] = [delta |-> d, amount |-> a]
<1>1. [delta |-> d, amount |-> a] \in Event
  BY DEF Event
<1>2. QED
  BY <1>1 DEF AmountsTypeOK

LEMMA BalanceInitial == Init => BalanceInv
<1> SUFFICES ASSUME Init PROVE BalanceInv
  OBVIOUS
<1> USE DEF Init
<1>1. AmountsTypeOK
  BY ZeroWeighs DEF AmountsTypeOK
<1>2. key \in Int /\ MaxAmount \in Nat
  BY AmountType
<1>3. Worth
  BY <1>2, ZeroWeighs DEF Worth
<1>4. Narrow
  <2>1. Unmasked(balance, key) = [i \in Limbs |-> 0]
    BY <1>2, ZeroWeighs
  <2>2. width * (LimbBase - 1) = 0
    OBVIOUS
  <2>3. QED
    BY <2>1, <2>2 DEF Narrow, Spread, Beyond
<1>5. QED
  BY <1>1, <1>3, <1>4 DEF BalanceInv

(* Crediting and debiting, with the sign q.                                *)
LEMMA BalanceMoves ==
    ASSUME BalanceInv, Len(log) < MaxEvents, NEW v \in 0..MaxAmount, NEW q \in {1, -1},
           \/ q = 1 /\ Credit(v)
           \/ q = -1 /\ Debit(v)
    PROVE  BalanceInv'
<1> DEFINE e == EncryptAmount(v, key, Draw)
<1>1. /\ AmountsTypeOK /\ key \in Int /\ key' = key /\ balance \in Ciphertext
      /\ total \in Nat /\ width \in 0..Len(log) /\ width' = width + 1 /\ Len(log) \in Nat
  BY DEF BalanceInv, AmountsTypeOK, Credit, Debit
<1>2. /\ e \in Ciphertext /\ Unmasked(e, key) = SplitLimbs(v) /\ WeightedSum(Unmasked(e, key)) = v
      /\ Spread(Unmasked(e, key), 1)
  BY <1>1, Drawing, Encrypted, Split, Fresh
<1>3. /\ balance' \in Ciphertext
      /\ Combines(LimbCount, Unmasked(balance', key), Unmasked(balance, key), Unmasked(e, key), q)
  BY <1>1, <1>2, Added, Subtracted DEF Credit, Debit
<1>4. \E d \in {"credit", "debit", "replace"} : log' = Append(log, [delta |-> d, amount |-> e])
  BY DEF Credit, Debit
<1>5. log' \in Seq(Event) /\ Len(log') = Len(log) + 1 /\ Len(log') \in 0..MaxEvents
  BY <1>1, <1>2, <1>4, Grows
<1> HIDE DEF e
<1>6. total' = total + q * v /\ total' \in Nat /\ total' <= total + v
  <2>1. v \in Nat
    BY AmountType
  <2>2. CASE q = 1
    BY <1>1, <2>1, <2>2 DEF Credit
  <2>3. CASE q = -1
    BY <1>1, <2>1, <2>3 DEF Debit
  <2>4. QED
    BY <2>2, <2>3
<1>7. AmountsTypeOK'
  BY <1>1, <1>3, <1>5, <1>6 DEF AmountsTypeOK
<1>8. Worth'
  <2>1. PICK a, b, c \in Int : /\ WeightedSum(Unmasked(balance', key)) = a
                               /\ WeightedSum(Unmasked(balance, key)) = b
                               /\ WeightedSum(Unmasked(e, key)) = c
                               /\ a = b + q * c
    BY <1>3, WeighedLinear
  <2>2. WeightedSum(Unmasked(balance', key)) = total'
    BY <1>2, <1>6, <2>1 DEF BalanceInv, Worth
  <2>3. total + v <= (Len(log) + 1) * MaxAmount
    BY <1>1, AddedUp DEF BalanceInv, Worth
  <2>4. total' <= Len(log') * MaxAmount
    <3>1. (Len(log) + 1) * MaxAmount \in Int /\ v \in Int
      BY <1>1, AmountType
    <3>2. QED
      BY <1>1, <1>5, <1>6, <2>3, <3>1
  <2>5. QED
    BY <1>1, <2>2, <2>4 DEF Worth
<1>9. Narrow'
  <2>1. Spread(Unmasked(balance', key), width + 1)
    BY <1>1, <1>2, <1>3, Spreading DEF BalanceInv, Narrow
  <2>2. QED
    BY <1>1, <2>1 DEF Narrow
<1>10. QED
  BY <1>7, <1>8, <1>9 DEF BalanceInv

LEMMA BalanceReplaced ==
    ASSUME BalanceInv, NEW k \in Keys, Replace(k)
    PROVE  BalanceInv'
<1> DEFINE e == EncryptAmount(total, k, Draw)
<1>1. /\ AmountsTypeOK /\ Len(log) < MaxEvents /\ k \in Int /\ key' = k
      /\ width' = 1 /\ total' = total /\ Len(log) \in Nat /\ total \in Nat
  BY DEF BalanceInv, AmountsTypeOK, Replace
<1>2. DecryptBalance(key) = total /\ total \in 0..MaxAmount
  BY Rolled DEF Replace
<1>3. balance' = e /\ log' = Append(log, [delta |-> "replace", amount |-> e])
  BY <1>2 DEF Replace
<1>4. e \in Ciphertext /\ Unmasked(e, k) = SplitLimbs(total)
  BY <1>1, <1>2, Drawing, Encrypted
<1>5. log' \in Seq(Event) /\ Len(log') = Len(log) + 1 /\ Len(log') \in 0..MaxEvents
  BY <1>1, <1>3, <1>4, Grows
<1> HIDE DEF e
<1>6. AmountsTypeOK'
  BY <1>1, <1>3, <1>4, <1>5 DEF AmountsTypeOK
<1>7. Worth'
  <2>1. WeightedSum(Unmasked(balance', key')) = total'
    BY <1>1, <1>2, <1>3, <1>4, Split
  <2>2. total' <= Len(log') * MaxAmount
    <3>1. 0 <= Len(log) * MaxAmount
      BY <1>1, AmountType
    <3>2. 0 + total <= (Len(log) + 1) * MaxAmount
      BY <1>1, <1>2, <3>1, AddedUp
    <3>3. QED
      BY <1>1, <1>5, <3>2
  <2>3. QED
    BY <2>1, <2>2 DEF Worth
<1>8. Narrow'
  BY <1>1, <1>2, <1>3, <1>4, Fresh DEF Narrow
<1>9. QED
  BY <1>6, <1>7, <1>8 DEF BalanceInv

LEMMA BalanceStep == BalanceInv /\ [Next]_vars => BalanceInv'
<1> SUFFICES ASSUME BalanceInv, [Next]_vars PROVE BalanceInv'
  OBVIOUS
<1>1. ASSUME NEW v \in Values, Credit(v) PROVE BalanceInv'
  <2>1. Len(log) < MaxEvents /\ v \in 0..MaxAmount
    BY <1>1 DEF Credit
  <2>2. QED
    BY <1>1, <2>1, BalanceMoves
<1>2. ASSUME NEW v \in Values, Debit(v) PROVE BalanceInv'
  <2>1. Len(log) < MaxEvents /\ v \in 0..MaxAmount
    BY <1>2 DEF Debit
  <2>2. QED
    BY <1>2, <2>1, BalanceMoves
<1>3. CASE Rollover
  <2>1. key \in Keys
    BY DEF BalanceInv, AmountsTypeOK
  <2>2. QED
    BY <1>3, <2>1, BalanceReplaced DEF Rollover
<1>4. CASE KeyRotation
  BY <1>4, BalanceReplaced DEF KeyRotation
<1>5. CASE UNCHANGED vars
  <2>1. /\ log' = log /\ balance' = balance /\ total' = total /\ key' = key /\ width' = width
    BY <1>5 DEF vars
  <2>2. QED
    BY <2>1 DEF BalanceInv, AmountsTypeOK, Worth, Narrow
<1>6. QED
  BY <1>1, <1>2, <1>3, <1>4, <1>5 DEF Next

LEMMA BalanceAlways == Spec => []BalanceInv
BY BalanceInitial, BalanceStep, PTL DEF Spec

(* The weighted check accepts the balance's value and no other, at every   *)
(* length of history and width of limb.  (verifyAmount.)                   *)
THEOREM AmountVerifiedExactly == Spec => []VerifiesExactly
<1>1. BalanceInv => VerifiesExactly
  <2> SUFFICES ASSUME BalanceInv, NEW x \in 0 .. MaxEvents * MaxAmount
               PROVE  VerifyAmount(balance, key, x) <=> x = total
    BY DEF VerifiesExactly
  <2>1. WeightedSum([i \in Limbs |-> UnmaskLimb(balance[i], key)]) = total
    BY DEF BalanceInv, Worth, Unmasked
  <2>2. QED
    BY <2>1 DEF VerifyAmount
<1>2. QED
  BY <1>1, BalanceAlways, PTL

(* The owner's key opens a balance whose limbs fit the search bound.       *)
(* (decryptAmount, DEFAULT_BALANCE_BOUND.)                                 *)
LEMMA Opens ==
    ASSUME BalanceInv, Tolerated
    PROVE  DecryptBalance(key) = total
<1>1. /\ balance \in Ciphertext /\ key \in Int /\ BalanceBound \in Nat /\ TRUE \in BOOLEAN
      /\ width \in Int
  BY DEF BalanceInv, AmountsTypeOK
<1>2. ASSUME NEW i \in Limbs PROVE ~Beyond(Unmasked(balance, key)[i], BalanceBound)
  <2>1. ~Beyond(Unmasked(balance, key)[i], width * (LimbBase - 1))
    BY DEF BalanceInv, Narrow, Spread
  <2>2. Unmasked(balance, key)[i] \in Int /\ width * (LimbBase - 1) \in Int
    BY <1>1, UnmaskedType
  <2>3. QED
    BY <2>1, <2>2 DEF Beyond, Tolerated
<1>3. DecryptBalance(key) = WeightedSum(Unmasked(balance, key))
  BY <1>1, <1>2, Decrypting DEF DecryptBalance
<1>4. QED
  BY <1>3 DEF BalanceInv, Worth

(* A balance that was made fresh often enough for its limbs to stay within *)
(* the search bound opens, under its own key, and to its value.            *)
(* (decryptAmount, solveDlog.)                                             *)
THEOREM OwnKeyOpensTheBalance == Spec => []DecryptsWhileTolerated
<1>1. BalanceInv => DecryptsWhileTolerated
  BY Opens DEF DecryptsWhileTolerated
<1>2. QED
  BY <1>1, BalanceAlways, PTL
----------------------------------------------------------------------------
(* The masks: draws, each added, subtracted or left out.                   *)

Signs == [1..MaxEvents -> -1..1]
Masks(h, s) == \A i \in Limbs : h[i] = Drawn(s, i)

Single(x, n, m, c) == x = [j \in 1..n |-> IF j = m THEN c ELSE 0]

LEMMA SumPoint ==
    ASSUME NEW n \in Nat, NEW m \in 1..n, NEW c \in Int, NEW x, Single(x, n, m, c)
    PROVE  SumTo(n, x) = c
<1>1. x \in [1..n -> Int] /\ \A j \in 1..n : x[j] = IF j = m THEN c ELSE 0
  BY DEF Single
<1>2. PICK f \in [0..n -> Int] : /\ SumTo(n, x) = f[n] /\ f[0] = 0
                                 /\ \A i \in 1..n : f[i] = f[i - 1] + x[i]
  BY <1>1, SumUnfold
<1> DEFINE S == {i \in 0..n : f[i] = IF m <= i THEN c ELSE 0}
<1>3. 0 \in S
  BY <1>2
<1>4. ASSUME NEW i \in 0 + 1 .. n, i - 1 \in S PROVE i \in S
  <2>1. f[i] = f[i - 1] + x[i] /\ i \in 1..n /\ f[i - 1] = IF m <= i - 1 THEN c ELSE 0
    BY <1>2, <1>4
  <2>2. x[i] = IF i = m THEN c ELSE 0
    BY <1>1, <2>1
  <2>3. f[i] = IF m <= i THEN c ELSE 0
    <3>1. CASE m < i
      BY <2>1, <2>2, <3>1
    <3>2. CASE m = i
      BY <2>1, <2>2, <3>2
    <3>3. CASE m > i
      BY <2>1, <2>2, <3>3
    <3>4. QED
      BY <2>1, <3>1, <3>2, <3>3
  <2>4. QED
    BY <2>1, <2>3
<1> HIDE DEF S
<1>5. 0..n \subseteq S
  BY <1>3, <1>4, UpTo
<1>6. n \in S
  BY <1>5
<1>7. QED
  BY <1>2, <1>6 DEF S

LEMMA SumZero ==
    ASSUME NEW n \in Nat
    PROVE  SumTo(n, [j \in 1..n |-> 0]) = 0
<1> DEFINE x == [j \in 1..n |-> 0]
<1>1. x \in [1..n -> Int] /\ \A j \in 1..n : x[j] = 0
  OBVIOUS
<1> HIDE DEF x
<1>2. PICK f \in [0..n -> Int] : /\ SumTo(n, x) = f[n] /\ f[0] = 0
                                 /\ \A i \in 1..n : f[i] = f[i - 1] + x[i]
  BY <1>1, SumUnfold
<1> DEFINE S == {i \in 0..n : f[i] = 0}
<1>3. 0 \in S
  BY <1>2
<1>4. ASSUME NEW i \in 0 + 1 .. n, i - 1 \in S PROVE i \in S
  BY <1>1, <1>2, <1>4
<1> HIDE DEF S
<1>5. 0..n \subseteq S
  BY <1>3, <1>4, UpTo
<1>6. n \in S
  BY <1>5
<1>7. QED
  BY <1>2, <1>6 DEF S, x

NoSigns == [n \in 1..MaxEvents |-> 0]

LEMMA NothingDrawn == NoSigns \in Signs /\ \A i \in Limbs : Drawn(NoSigns, i) = 0
<1>1. ASSUME NEW i \in Limbs PROVE Drawn(NoSigns, i) = 0
  <2>1. ASSUME NEW n \in 1..MaxEvents PROVE NoSigns[n] * Random[n][i] = 0
    <3>1. NoSigns[n] = 0 /\ Random[n][i] \in Int
      BY DEF NoSigns
    <3>2. QED
      BY <3>1
  <2>2. [n \in 1..MaxEvents |-> NoSigns[n] * Random[n][i]] = [n \in 1..MaxEvents |-> 0]
    BY <2>1
  <2>3. QED
    BY <2>2, SumZero DEF Drawn
<1>2. QED
  BY <1>1 DEF NoSigns, Signs

LEMMA OneMoreDrawn ==
    ASSUME NEW s \in Signs, NEW m \in 1..MaxEvents, s[m] = 0, NEW q \in {1, -1}, NEW i \in Limbs
    PROVE  /\ [s EXCEPT ![m] = q] \in Signs
           /\ Drawn(s, i) \in Int
           /\ Drawn([s EXCEPT ![m] = q], i) = Drawn(s, i) + q * Random[m][i]
<1> DEFINE t == [s EXCEPT ![m] = q]
           r(n) == Random[n][i]
           x == [n \in 1..MaxEvents |-> t[n] * r(n)]
           y == [n \in 1..MaxEvents |-> s[n] * r(n)]
           z == [n \in 1..MaxEvents |-> IF n = m THEN r(m) ELSE 0]
<1>1. t \in Signs /\ t[m] = q /\ \A n \in 1..MaxEvents : n # m => t[n] = s[n]
  BY DEF Signs
<1>2. \A n \in 1..MaxEvents : r(n) \in Int /\ s[n] \in Int /\ t[n] \in Int
  BY <1>1 DEF Signs
<1>3. ASSUME NEW n \in 1..MaxEvents
      PROVE  x[n] \in Int /\ y[n] \in Int /\ z[n] \in Int /\ x[n] = y[n] + q * z[n]
  <2>1. x[n] = t[n] * r(n) /\ y[n] = s[n] * r(n) /\ z[n] = IF n = m THEN r(m) ELSE 0
    OBVIOUS
  <2> HIDE DEF x, y, z, t
  <2>2. x[n] \in Int /\ y[n] \in Int /\ z[n] \in Int
    BY <1>2, <2>1, Distributive
  <2>3. CASE n = m
    <3> DEFINE w == r(m)
    <3>1. w \in Int /\ x[n] = q * w /\ y[n] = 0 * w /\ z[n] = w
      BY <1>1, <1>2, <2>1, <2>3
    <3> HIDE DEF w
    <3>2. x[n] = y[n] + q * z[n]
      BY <3>1
    <3>3. QED
      BY <2>2, <3>2
  <2>4. CASE n # m
    <3>1. x[n] = y[n] /\ z[n] = 0
      BY <1>1, <2>1, <2>4
    <3>2. QED
      BY <2>2, <3>1
  <2>5. QED
    BY <2>3, <2>4
<1>4. x \in [1..MaxEvents -> Int] /\ y \in [1..MaxEvents -> Int] /\ z \in [1..MaxEvents -> Int]
  BY <1>3
<1>5. Drawn(t, i) = SumTo(MaxEvents, x) /\ Drawn(s, i) = SumTo(MaxEvents, y)
  BY DEF Drawn
<1>6. SumTo(MaxEvents, z) = r(m)
  <2> DEFINE c == r(m)
  <2>1. c \in Int /\ Single(z, MaxEvents, m, c)
    BY <1>2 DEF Single
  <2> HIDE DEF c, z
  <2>2. MaxEvents \in Nat
    OBVIOUS
  <2>3. SumTo(MaxEvents, z) = c
    BY <2>1, <2>2, SumPoint, Zenon
  <2>4. QED
    BY <2>3 DEF c
<1> HIDE DEF t, x, y, z
<1>7. Combines(MaxEvents, x, y, z, q)
  BY <1>3, <1>4 DEF Combines
<1>8. PICK a, b, c \in Int : /\ SumTo(MaxEvents, x) = a /\ SumTo(MaxEvents, y) = b
                             /\ SumTo(MaxEvents, z) = c /\ a = b + q * c
  BY <1>7, SumLinear
<1>9. QED
  BY <1>1, <1>5, <1>6, <1>8 DEF t

(* A ciphertext masked by draws, seen under a key that is not its own: out *)
(* of any search's reach in each limb, and by weight.                      *)
LEMMA Foreign ==
    ASSUME DrawsAssumption, NEW a \in Ciphertext,
           NEW s \in Signs, NEW m \in 1..MaxEvents, s[m] # 0, Masks(Handles(a), s),
           NEW k \in Keys, NEW j \in Keys, j # k,
           NEW n \in 0..MaxEvents, Spread(Unmasked(a, k), n)
    PROVE  /\ \E i \in Limbs : Beyond(Unmasked(a, j)[i], BalanceBound)
           /\ \E d \in Int : /\ WeightedSum(Unmasked(a, j)) = WeightedSum(Unmasked(a, k)) + d
                             /\ Beyond(d, MaxEvents * MaxAmount)
<1> DEFINE u == Unmasked(a, k)
           w == Unmasked(a, j)
           h == Handles(a)
           q == k - j
           D == [i \in Limbs |-> Drawn(s, i)]
<1>1. k \in Int /\ j \in Int /\ q \in Int /\ q # 0
  OBVIOUS
<1>2. Combines(LimbCount, w, u, h, q)
  BY <1>1, OtherKey
<1>3. /\ u \in [Limbs -> Int] /\ w \in [Limbs -> Int] /\ h \in [Limbs -> Int]
      /\ \A i \in Limbs : w[i] = u[i] + q * h[i]
  BY <1>2 DEF Combines, Limbs
<1>4. /\ \A i \in Limbs : Beyond(Drawn(s, i), BalanceBound + MaxEvents * (LimbBase - 1))
      /\ Beyond(WeightedSum(D), MaxEvents * MaxAmount)
  BY DEF DrawsAssumption, Signs
<1>5. h = D
  <2>1. h = [i \in Limbs |-> h[i]]
    BY <1>3
  <2>2. QED
    BY <2>1 DEF Masks
<1>6. Spread(u, n)
  OBVIOUS
<1>7. 1 \in Limbs /\ h[1] = Drawn(s, 1)
  BY <1>5 DEF Limbs
<1> HIDE DEF u, w, h, q, D
<1>8. Beyond(w[1], BalanceBound)
  <2> DEFINE x == w[1]
             y == u[1]
             z == q * h[1]
             b == MaxEvents * (LimbBase - 1)
  <2>1. y \in Int /\ h[1] \in Int
    BY <1>3, <1>7
  <2>2. z \in Int /\ x = y + z
    BY <1>1, <1>3, <1>7, <2>1, Distributive
  <2>3. b \in Nat
    <3>1. MaxEvents \in Nat /\ LimbBase - 1 \in Nat
      OBVIOUS
    <3>2. QED
      BY <3>1
  <2>4. BalanceBound + b \in Nat /\ Beyond(h[1], BalanceBound + b)
    <3>1. Beyond(h[1], BalanceBound + b)
      BY <1>4, <1>7
    <3> HIDE DEF b
    <3>2. BalanceBound + b \in Nat
      BY <2>3
    <3>3. QED
      BY <3>1, <3>2
  <2>5. Beyond(z, BalanceBound + b)
    <3> HIDE DEF b
    <3>1. QED
      BY <1>1, <2>1, <2>4, Scaled
  <2>6. ~Beyond(y, b)
    <3>1. ~Beyond(y, n * (LimbBase - 1))
      BY <1>6, <1>7 DEF Spread
    <3>2. n * (LimbBase - 1) \in Int /\ n * (LimbBase - 1) <= b
      <4>1. n \in Nat /\ MaxEvents \in Nat /\ n <= MaxEvents /\ LimbBase - 1 \in Nat
        OBVIOUS
      <4>2. \A e, f, g \in Nat : e <= f => e * g \in Int /\ e * g <= f * g
        OBVIOUS
      <4>3. QED
        BY <4>1, <4>2
    <3>3. QED
      BY <2>1, <2>3, <3>1, <3>2 DEF Beyond
  <2> HIDE DEF x, y, z, b
  <2>7. Beyond(x, BalanceBound)
    BY <2>1, <2>2, <2>3, <2>5, <2>6 DEF Beyond, y
  <2>8. QED
    BY <2>7 DEF x
<1>9. PICK x, y, z \in Int : /\ WeightedSum(w) = x /\ WeightedSum(u) = y /\ WeightedSum(h) = z
                             /\ x = y + q * z
  BY <1>2, WeighedLinear
<1>10. MaxEvents * MaxAmount \in Nat
  BY AmountType
<1>11. Beyond(q * z, MaxEvents * MaxAmount)
  BY <1>1, <1>4, <1>5, <1>9, <1>10, Scaled
<1>12. q * z \in Int
  BY <1>1, <1>9, Distributive
<1>13. QED
  BY <1>7, <1>8, <1>9, <1>11, <1>12 DEF u, w
(* A balance is masked by the draws of its events, the last one's at least,*)
(* and an event by its own.                                                *)
Masked ==
    \E s \in Signs :
        /\ Masks(Handles(balance), s)
        /\ \A n \in Len(log) + 1 .. MaxEvents : s[n] = 0
        /\ log # <<>> => s[Len(log)] # 0

Genuine(a) ==
    \E v \in 0..MaxAmount, k \in Keys, n \in 1..MaxEvents : a = EncryptAmount(v, k, Random[n])
AllGenuine == \A n \in 1..Len(log) : Genuine(log[n].amount)

MaskInv == BalanceInv /\ Masked /\ AllGenuine

LEMMA MaskInitial == Init => MaskInv
<1> SUFFICES ASSUME Init PROVE MaskInv
  OBVIOUS
<1>1. log = <<>> /\ Len(log) = 0 /\ balance = ZeroAmount
  BY DEF Init
<1>2. Masks(Handles(balance), NoSigns)
  BY <1>1, NothingDrawn DEF Masks, Handles, ZeroAmount, LimbIdentity
<1>3. Masked
  BY <1>1, <1>2, NothingDrawn DEF Masked, NoSigns
<1>4. QED
  BY <1>1, <1>3, BalanceInitial DEF MaskInv, AllGenuine

OnlyOf(n) == [NoSigns EXCEPT ![n] = 1]

LEMMA OneMask ==
    ASSUME NEW n \in 1..MaxEvents
    PROVE  /\ OnlyOf(n) \in Signs /\ OnlyOf(n)[n] # 0
           /\ \A m \in 1..MaxEvents : m # n => OnlyOf(n)[m] = 0
           /\ Masks(Random[n], OnlyOf(n))
<1>1. NoSigns \in Signs /\ NoSigns[n] = 0
  BY NothingDrawn DEF NoSigns
<1>2. ASSUME NEW i \in Limbs PROVE Random[n][i] = Drawn(OnlyOf(n), i)
  <2>1. Drawn([NoSigns EXCEPT ![n] = 1], i) = Drawn(NoSigns, i) + 1 * Random[n][i]
    BY <1>1, OneMoreDrawn
  <2>2. Drawn(NoSigns, i) = 0 /\ Random[n][i] \in Int
    BY NothingDrawn
  <2>3. QED
    BY <2>1, <2>2 DEF OnlyOf
<1>3. Masks(Random[n], OnlyOf(n))
  BY <1>2 DEF Masks
<1>4. OnlyOf(n) \in Signs
  BY <1>1 DEF OnlyOf, Signs
<1>5. OnlyOf(n)[n] = 1 /\ \A m \in 1..MaxEvents : m # n => OnlyOf(n)[m] = 0
  BY DEF OnlyOf, NoSigns
<1>6. QED
  BY <1>3, <1>4, <1>5

(* The value an event replays to, under any key.                           *)
LEMMA EventOpened ==
    ASSUME DrawsAssumption, NEW v \in 0..MaxAmount, NEW k \in Keys, NEW n \in 1..MaxEvents,
           NEW j \in Keys
    PROVE  EventValue(EncryptAmount(v, k, Random[n]), j) \in {v, Unsolved}
<1> DEFINE e == EncryptAmount(v, k, Random[n])
<1>1. /\ k \in Int /\ j \in Int /\ Random[n] \in [Limbs -> Nat \ {0}]
      /\ LimbBase \in Nat /\ BalanceBound \in Nat /\ TRUE \in BOOLEAN /\ FALSE \in BOOLEAN
  OBVIOUS
<1>2. /\ e \in Ciphertext /\ Unmasked(e, k) = SplitLimbs(v) /\ WeightedSum(Unmasked(e, k)) = v
      /\ Handles(e) = Random[n]
  BY <1>1, Encrypted, Split
<1>3. Spread(Unmasked(e, k), 1)
  BY <1>2, Fresh
<1> HIDE DEF e
<1>4. CASE j = k
  <2>1. /\ DecryptAmount(e, j, LimbBase, FALSE) \in {v, Unsolved}
        /\ DecryptAmount(e, j, BalanceBound, TRUE) \in {v, Unsolved}
    BY <1>1, <1>2, <1>4, Decrypting
  <2>2. QED
    BY <2>1 DEF EventValue, e
<1>5. CASE j # k
  <2> DEFINE s == OnlyOf(n)
  <2>1. s \in Signs /\ s[n] # 0 /\ Masks(Handles(e), s)
    BY <1>2, OneMask
  <2> HIDE DEF s
  <2>2. 1 \in 0..MaxEvents
    OBVIOUS
  <2>3. PICK i \in Limbs : Beyond(Unmasked(e, j)[i], BalanceBound)
    BY <1>2, <1>3, <1>5, <2>1, <2>2, Foreign
  <2>4. Unmasked(e, j)[i] \in Int
    BY <1>1, <1>2, UnmaskedType
  <2>5. Beyond(Unmasked(e, j)[i], LimbBase)
    BY <1>1, <2>3, <2>4 DEF Beyond
  <2>6. /\ DecryptAmount(e, j, LimbBase, FALSE) = Unsolved
        /\ DecryptAmount(e, j, BalanceBound, TRUE) = Unsolved
    BY <1>1, <1>2, <2>3, <2>5, Decrypting
  <2>7. QED
    BY <2>6 DEF EventValue, e
<1>6. QED
  BY <1>4, <1>5

(* What a balance is masked by once a draw is added or subtracted.         *)
LEMMA MaskMoves ==
    ASSUME BalanceInv, Masked, Len(log) < MaxEvents, NEW q \in {1, -1},
           NEW h \in [Limbs -> Int], Combines(LimbCount, h, Handles(balance), Draw, q)
    PROVE  \E s \in Signs : /\ Masks(h, s) /\ s[Len(log) + 1] # 0
                            /\ \A n \in Len(log) + 2 .. MaxEvents : s[n] = 0
<1> DEFINE m == Len(log) + 1
<1>1. m \in 1..MaxEvents /\ Len(log) \in Nat /\ Draw = Random[m]
  BY Drawing DEF BalanceInv, AmountsTypeOK
<1>2. PICK s \in Signs : Masks(Handles(balance), s) /\ \A n \in m .. MaxEvents : s[n] = 0
  BY DEF Masked
<1> DEFINE t == [s EXCEPT ![m] = q]
<1>3. s[m] = 0
  BY <1>1, <1>2
<1>4. t[m] = q /\ q # 0 /\ \A n \in Len(log) + 2 .. MaxEvents : t[n] = 0
  BY <1>1, <1>2 DEF Signs
<1>5. ASSUME NEW i \in Limbs PROVE t \in Signs /\ h[i] = Drawn(t, i)
  <2>1. t \in Signs /\ Drawn(t, i) = Drawn(s, i) + q * Random[m][i]
    BY <1>1, <1>3, OneMoreDrawn
  <2>2. h[i] = Handles(balance)[i] + q * Draw[i]
    BY DEF Combines, Limbs
  <2>3. Handles(balance)[i] = Drawn(s, i)
    BY <1>2 DEF Masks
  <2>4. QED
    BY <1>1, <2>1, <2>2, <2>3
<1> HIDE DEF t
<1>6. t \in Signs /\ Masks(h, t)
  <2>1. 1 \in Limbs
    BY DEF Limbs
  <2>2. QED
    BY <1>5, <2>1 DEF Masks
<1>7. QED
  BY <1>4, <1>6

LEMMA MaskStep == MaskInv /\ [Next]_vars => MaskInv'
<1> SUFFICES ASSUME MaskInv, [Next]_vars PROVE MaskInv'
  OBVIOUS
<1>1. BalanceInv /\ BalanceInv' /\ AmountsTypeOK /\ balance \in Ciphertext /\ key \in Keys
  BY BalanceStep DEF MaskInv, BalanceInv, AmountsTypeOK
<1>2. ASSUME Len(log) < MaxEvents, NEW v \in 0..MaxAmount, NEW k \in Keys,
             NEW d \in {"credit", "debit", "replace"},
             log' = Append(log, [delta |-> d, amount |-> EncryptAmount(v, k, Draw)]),
             \E s \in Signs : /\ Masks(Handles(balance'), s) /\ s[Len(log) + 1] # 0
                              /\ \A n \in Len(log) + 2 .. MaxEvents : s[n] = 0
      PROVE  MaskInv'
  <2> DEFINE e == EncryptAmount(v, k, Draw)
  <2>1. e \in Ciphertext /\ Genuine(e) /\ Len(log) \in Nat
    <3>1. /\ Len(log) + 1 \in 1..MaxEvents /\ Draw = Random[Len(log) + 1]
          /\ Draw \in [Limbs -> Nat \ {0}]
      BY <1>1, <1>2, Drawing
    <3>2. k \in Int /\ Len(log) \in Nat
      BY <1>1 DEF AmountsTypeOK
    <3>3. e \in Ciphertext
      BY <3>1, <3>2, Encrypted
    <3>4. QED
      BY <3>1, <3>2, <3>3 DEF Genuine
  <2> HIDE DEF e
  <2>2. /\ Len(log') = Len(log) + 1
        /\ \A n \in 1..Len(log) : log'[n] = log[n]
        /\ log'[Len(log) + 1] = [delta |-> d, amount |-> e]
    BY <1>1, <1>2, <2>1, Grows DEF e
  <2>3. Masked'
    BY <1>2, <2>1, <2>2 DEF Masked
  <2>4. ASSUME NEW n \in 1..Len(log') PROVE Genuine(log'[n].amount)
    <3>1. CASE n \in 1..Len(log)
      BY <2>2, <3>1 DEF MaskInv, AllGenuine
    <3>2. CASE n = Len(log) + 1
      BY <2>1, <2>2, <3>2
    <3>3. QED
      BY <2>1, <2>2, <3>1, <3>2
  <2>5. QED
    BY <1>1, <2>3, <2>4 DEF MaskInv, AllGenuine
<1>3. ASSUME NEW v \in Values, NEW q \in {1, -1}, (q = 1 /\ Credit(v)) \/ (q = -1 /\ Debit(v))
      PROVE  MaskInv'
  <2> DEFINE e == EncryptAmount(v, key, Draw)
  <2>1. Len(log) < MaxEvents /\ v \in 0..MaxAmount
    BY <1>3 DEF Credit, Debit
  <2>2. key \in Int /\ e \in Ciphertext /\ Handles(e) = Draw
    BY <1>1, <2>1, Drawing, Encrypted
  <2>3. /\ \/ balance' = AddAmounts(balance, e) /\ q = 1
           \/ balance' = SubtractAmounts(balance, e) /\ q = -1
        /\ \E d \in {"credit", "debit", "replace"} : log' = Append(log, [delta |-> d, amount |-> e])
    BY <1>3 DEF Credit, Debit
  <2> HIDE DEF e
  <2>4. balance' \in Ciphertext /\ Combines(LimbCount, Handles(balance'), Handles(balance), Draw, q)
    BY <1>1, <2>2, <2>3, Added, Subtracted
  <2>5. Handles(balance') \in [Limbs -> Int]
    BY <2>2, <2>4, UnmaskedType
  <2>6. \E s \in Signs : /\ Masks(Handles(balance'), s) /\ s[Len(log) + 1] # 0
                         /\ \A n \in Len(log) + 2 .. MaxEvents : s[n] = 0
    BY <1>1, <2>1, <2>4, <2>5, MaskMoves DEF MaskInv
  <2>7. QED
    BY <1>1, <1>2, <2>1, <2>3, <2>6 DEF e
<1>4. ASSUME NEW k \in Keys, Replace(k) PROVE MaskInv'
  <2> DEFINE e == EncryptAmount(total, k, Draw)
             m == Len(log) + 1
  <2>1. Len(log) < MaxEvents /\ total \in 0..MaxAmount
    BY <1>1, <1>4, Rolled DEF Replace
  <2>2. balance' = e /\ log' = Append(log, [delta |-> "replace", amount |-> e])
    BY <1>1, <1>4, Rolled DEF Replace
  <2>3. m \in 1..MaxEvents /\ Draw = Random[m] /\ Handles(e) = Random[m] /\ Len(log) \in Nat
    <3>1. Len(log) + 1 \in 1..MaxEvents /\ Draw \in [Limbs -> Nat \ {0}] /\ Draw = Random[Len(log) + 1]
      BY <1>1, <2>1, Drawing
    <3>2. k \in Int /\ Len(log) \in Nat
      BY <1>1 DEF AmountsTypeOK
    <3>3. QED
      BY <2>1, <3>1, <3>2, Encrypted
  <2> HIDE DEF e
  <2>4. \A n \in Len(log) + 2 .. MaxEvents : OnlyOf(m)[n] = 0
    BY <2>3, OneMask
  <2>5. \E s \in Signs : /\ Masks(Handles(balance'), s) /\ s[Len(log) + 1] # 0
                         /\ \A n \in Len(log) + 2 .. MaxEvents : s[n] = 0
    <3>1. OnlyOf(m) \in Signs /\ OnlyOf(m)[m] # 0 /\ Masks(Handles(balance'), OnlyOf(m))
      BY <2>2, <2>3, OneMask
    <3>2. QED
      BY <2>4, <3>1
  <2>6. QED
    BY <1>2, <2>1, <2>2, <2>5 DEF e
<1>5. CASE UNCHANGED vars
  <2>1. log' = log /\ balance' = balance
    BY <1>5 DEF vars
  <2>2. QED
    BY <1>1, <2>1 DEF MaskInv, Masked, AllGenuine
<1>6. CASE \E v \in Values : Credit(v) \/ Debit(v)
  <2>1. PICK v \in Values : Credit(v) \/ Debit(v)
    BY <1>6
  <2>2. PICK q \in {1, -1} : (q = 1 /\ Credit(v)) \/ (q = -1 /\ Debit(v))
    BY <2>1
  <2>3. QED
    BY <1>3, <2>2
<1>7. CASE Rollover \/ KeyRotation
  BY <1>1, <1>4, <1>7 DEF Rollover, KeyRotation
<1>8. QED
  BY <1>5, <1>6, <1>7 DEF Next

LEMMA MaskAlways == Spec => []MaskInv
BY MaskInitial, MaskStep, PTL DEF Spec

(* A balance seen under any of the account's keys.                         *)
LEMMA Seen ==
    ASSUME DrawsAssumption, MaskInv, NEW j \in Keys
    PROVE  /\ DecryptBalance(j) \in {WeightedSum(Unmasked(balance, j)), total, Unsolved}
           /\ \/ WeightedSum(Unmasked(balance, j)) = total
              \/ /\ DecryptBalance(j) = Unsolved
                 /\ \E d \in Int : /\ WeightedSum(Unmasked(balance, j)) = total + d
                                   /\ Beyond(d, MaxEvents * MaxAmount)
<1>1. /\ balance \in Ciphertext /\ key \in Int /\ key \in Keys /\ j \in Int /\ total \in Int
      /\ WeightedSum(Unmasked(balance, key)) = total
      /\ BalanceBound \in Nat /\ TRUE \in BOOLEAN /\ Len(log) \in 0..MaxEvents
      /\ Spread(Unmasked(balance, key), width) /\ width \in 0..MaxEvents
  BY DEF MaskInv, BalanceInv, AmountsTypeOK, Worth, Narrow
<1>2. DecryptBalance(j) \in {WeightedSum(Unmasked(balance, j)), Unsolved}
  BY <1>1, Decrypting DEF DecryptBalance
<1>3. CASE j = key
  BY <1>1, <1>2, <1>3
<1>4. CASE j # key /\ log = <<>>
  <2>1. PICK s \in Signs : Masks(Handles(balance), s) /\ \A n \in 1..MaxEvents : s[n] = 0
    BY <1>4 DEF MaskInv, Masked
  <2>2. s = NoSigns
    BY <2>1 DEF Signs, NoSigns
  <2>3. \A i \in Limbs : Handles(balance)[i] = 0
    BY <2>1, <2>2, NothingDrawn DEF Masks
  <2>4. Combines(LimbCount, Unmasked(balance, j), Unmasked(balance, key), Handles(balance), key - j)
    BY <1>1, OtherKey
  <2>5. Unmasked(balance, j) = Unmasked(balance, key)
    <3> DEFINE u == Unmasked(balance, j)
               w == Unmasked(balance, key)
    <3>1. u \in [Limbs -> Int] /\ w \in [Limbs -> Int]
      BY <1>1, UnmaskedType
    <3>2. ASSUME NEW i \in Limbs PROVE u[i] = w[i]
      <4>1. u[i] = w[i] + (key - j) * Handles(balance)[i]
        BY <2>4 DEF Combines, Limbs
      <4>2. Handles(balance)[i] = 0 /\ w[i] \in Int
        BY <2>3, <3>1
      <4>3. (key - j) * 0 = 0
        BY <1>1
      <4>4. QED
        BY <4>1, <4>2, <4>3
    <3> HIDE DEF u, w
    <3>3. u = w
      BY <3>1, <3>2
    <3>4. QED
      BY <3>3 DEF u, w
  <2>6. QED
    BY <1>1, <1>2, <2>5
<1>5. CASE j # key /\ log # <<>>
  <2>1. PICK s \in Signs : Masks(Handles(balance), s) /\ s[Len(log)] # 0
    BY <1>5 DEF MaskInv, Masked
  <2>2. Len(log) \in 1..MaxEvents
    <3>1. log \in Seq(Event)
      BY DEF MaskInv, BalanceInv, AmountsTypeOK
    <3>2. QED
      BY <1>1, <1>5, <3>1
  <2>3. /\ \E i \in Limbs : Beyond(Unmasked(balance, j)[i], BalanceBound)
        /\ \E d \in Int : /\ WeightedSum(Unmasked(balance, j)) = total + d
                          /\ Beyond(d, MaxEvents * MaxAmount)
    BY <1>1, <1>5, <2>1, <2>2, Foreign
  <2>4. DecryptBalance(j) = Unsolved
    BY <1>1, <2>3, Decrypting DEF DecryptBalance
  <2>5. QED
    BY <2>3, <2>4
<1>6. QED
  BY <1>3, <1>4, <1>5

(* Decryption under any key returns the balance's value or refuses.        *)
(* (decryptAmount.)                                                        *)
THEOREM NoWrongNumber ==
    ASSUME DrawsAssumption
    PROVE  Spec => []NeverAWrongNumber
<1>1. MaskInv => NeverAWrongNumber
  BY Seen DEF NeverAWrongNumber
<1>2. QED
  BY <1>1, MaskAlways, PTL
----------------------------------------------------------------------------
(* Replays.                                                                *)

Codes == {"none", "WRONG_KEY", "UNSUPPORTED_EVENT", "MISSING_EVENTS"}
ReplayState == [balance: Ciphertext, value: Nat, count: Nat, error: Codes]
GenuineEvent == {e \in Event : Genuine(e.amount)}

After(s, e, k) == IF s.error # "none" THEN s ELSE ReplayEvent(s, e, k)

LEMMA AppliedType ==
    ASSUME NEW s \in ReplayState, NEW e \in GenuineEvent, NEW v \in 0..MaxAmount \cup {Unsolved}
    PROVE  /\ Applied(s, e, v) \in ReplayState
           /\ Applied(s, e, v).value <= s.value + MaxAmount
<1>1. /\ MaxAmount \in Nat /\ s.value \in Nat /\ s.count \in Nat /\ s.balance \in Ciphertext
      /\ e.amount \in Ciphertext /\ e.delta \in {"credit", "debit", "replace"} /\ 0 \in Int
  BY AmountType DEF ReplayState, GenuineEvent, Event
<1>2. ASSUME NEW c \in Codes
      PROVE  [s EXCEPT !.error = c] \in ReplayState /\ [s EXCEPT !.error = c].value = s.value
  BY DEF ReplayState
<1>3. s.value <= s.value + MaxAmount
  BY <1>1
<1>4. CASE v = Unsolved
  BY <1>2, <1>3, <1>4 DEF Applied, Codes
<1>5. CASE v # Unsolved
  <2> DEFINE next == Accumulated(s, e, v)
  <2>1. v \in Nat /\ v <= MaxAmount
    BY <1>1, <1>5
  <2>2. /\ next.balance \in Ciphertext /\ next.value \in Int
        /\ next.value <= s.value + MaxAmount
    BY <1>1, <2>1, Added, Subtracted DEF Accumulated
  <2> HIDE DEF next
  <2>3. CASE next.value < 0
    <3>1. Applied(s, e, v) = [s EXCEPT !.error = "MISSING_EVENTS"]
      BY <1>5, <2>3 DEF Applied, next
    <3>2. QED
      BY <1>2, <1>3, <3>1 DEF Codes
  <2>4. CASE ~(next.value < 0)
    <3>1. Applied(s, e, v) = [balance |-> next.balance, value |-> next.value,
                              count |-> s.count + 1, error |-> "none"]
      BY <1>5, <2>4 DEF Applied, next
    <3>2. next.value \in Nat
      BY <2>2, <2>4
    <3>3. QED
      BY <1>1, <2>2, <3>1, <3>2 DEF ReplayState, Codes
  <2>5. QED
    BY <2>3, <2>4
<1>6. QED
  BY <1>4, <1>5

LEMMA AfterType ==
    ASSUME DrawsAssumption, NEW s \in ReplayState, NEW e \in GenuineEvent, NEW k \in Keys
    PROVE  After(s, e, k) \in ReplayState /\ After(s, e, k).value <= s.value + MaxAmount
<1>1. EventValue(e.amount, k) \in 0..MaxAmount \cup {Unsolved}
  <2>1. PICK v \in 0..MaxAmount, j \in Keys, n \in 1..MaxEvents :
          e.amount = EncryptAmount(v, j, Random[n])
    BY DEF GenuineEvent, Genuine
  <2>2. EventValue(EncryptAmount(v, j, Random[n]), k) \in {v, Unsolved}
    BY EventOpened
  <2>3. QED
    BY <2>1, <2>2
<1>2. ReplayEvent(s, e, k) \in ReplayState /\ ReplayEvent(s, e, k).value <= s.value + MaxAmount
  BY <1>1, AppliedType DEF ReplayEvent
<1>3. s.value <= s.value + MaxAmount
  BY AmountType DEF ReplayState
<1>4. QED
  BY <1>2, <1>3 DEF After

LEMMA InitialReplay == InitialState \in ReplayState
BY ZeroWeighs DEF InitialState, ReplayState, Codes

ReplaysAs(f, events, k) ==
    f = [n \in 0..Len(events) |->
          IF n = 0 THEN InitialState
          ELSE IF f[n - 1].error # "none" THEN f[n - 1]
          ELSE ReplayEvent(f[n - 1], events[n], k)]

(* A replay goes through the events one by one.                            *)
LEMMA ReplayUnfold ==
    ASSUME DrawsAssumption, NEW events \in Seq(GenuineEvent), NEW k \in Keys
    PROVE  \E f \in [0..Len(events) -> ReplayState] :
             /\ Replay(events, k) = f[Len(events)] /\ f[0] = InitialState
             /\ \A i \in 1..Len(events) : f[i] = After(f[i - 1], events[i], k)
<1> DEFINE l == Len(events)
           step == [p \in (1..l) \X ReplayState |-> After(p[2], events[p[1]], k)]
<1>1. l \in Nat /\ \A i \in 1..l : events[i] \in GenuineEvent
  OBVIOUS
<1>2. step \in [(1..l) \X ReplayState -> ReplayState]
  BY <1>1, AfterType
<1>3. ASSUME NEW i \in 1..l, NEW s \in ReplayState PROVE step[<<i, s>>] = After(s, events[i], k)
  OBVIOUS
<1> HIDE DEF step, l
<1>4. PICK f : Upto(f, l, ReplayState, InitialState, step)
  BY <1>1, <1>2, InitialReplay, Defined
<1>5. f \in [0..l -> ReplayState] /\ f[0] = InitialState
  BY <1>4 DEF Upto
<1>6. ASSUME NEW i \in 1..l PROVE f[i] = After(f[i - 1], events[i], k)
  <2>1. f[i] = step[<<i, f[i - 1]>>] /\ f[i - 1] \in ReplayState
    BY <1>1, <1>4, <1>5 DEF Upto
  <2>2. QED
    BY <1>3, <2>1
<1>7. ReplaysAs(f, events, k)
  <2>1. f = [n \in 0..l |-> f[n]]
    BY <1>5
  <2>2. ASSUME NEW n \in 0..l, n # 0
        PROVE  f[n] = IF f[n - 1].error # "none" THEN f[n - 1] ELSE ReplayEvent(f[n - 1], events[n], k)
    <3>1. n \in 1..l
      BY <1>1, <2>2
    <3>2. QED
      BY <1>6, <3>1 DEF After
  <2>3. QED
    BY <1>5, <2>1, <2>2 DEF ReplaysAs, l
<1> DEFINE g == CHOOSE g : ReplaysAs(g, events, k)
<1>8. ReplaysAs(g, events, k)
  BY <1>7
<1>9. Replay(events, k) = g[l]
  BY DEF Replay, ReplaysAs, l
<1> HIDE DEF g
<1>10. g[0] = InitialState /\ g = [n \in 0..l |-> g[n]]
  BY <1>1, <1>8 DEF ReplaysAs, l
<1>11. ASSUME NEW i \in 1..l PROVE g[i] = After(g[i - 1], events[i], k)
  <2>1. i \in 0..l /\ i # 0
    BY <1>1
  <2>2. g[i] = IF i = 0 THEN InitialState
               ELSE IF g[i - 1].error # "none" THEN g[i - 1]
               ELSE ReplayEvent(g[i - 1], events[i], k)
    BY <1>8, <2>1 DEF ReplaysAs, l
  <2>3. QED
    BY <2>1, <2>2 DEF After
<1>12. g = f
  <2> DEFINE S == {i \in 0..l : g[i] = f[i]}
  <2>1. 0 \in S
    BY <1>1, <1>5, <1>10
  <2>2. ASSUME NEW i \in 0 + 1 .. l, i - 1 \in S PROVE i \in S
    <3>1. i \in 1..l /\ i \in 0..l /\ g[i - 1] = f[i - 1]
      BY <1>1, <2>2
    <3>2. g[i] = f[i]
      BY <1>6, <1>11, <3>1
    <3>3. QED
      BY <3>1, <3>2
  <2> HIDE DEF S
  <2>3. 0..l \subseteq S
    BY <1>1, <2>1, <2>2, UpTo
  <2>4. \A i \in 0..l : g[i] = f[i]
    BY <2>3 DEF S
  <2>5. QED
    BY <1>5, <1>10, <2>4
<1>13. QED
  BY <1>5, <1>6, <1>9, <1>12 DEF l

LEMMA ReplayValue ==
    ASSUME DrawsAssumption, NEW events \in Seq(GenuineEvent), NEW k \in Keys
    PROVE  /\ Replay(events, k) \in ReplayState
           /\ Replay(events, k).value \in 0 .. Len(events) * MaxAmount
<1>1. PICK f \in [0..Len(events) -> ReplayState] :
         /\ Replay(events, k) = f[Len(events)] /\ f[0] = InitialState
         /\ \A i \in 1..Len(events) : f[i] = After(f[i - 1], events[i], k)
  BY ReplayUnfold
<1> DEFINE l == Len(events)
           S == {i \in 0..l : f[i].value <= i * MaxAmount}
<1>2. l \in Nat /\ MaxAmount \in Nat
  BY AmountType
<1>3. 0 \in S
  <2>1. 0 <= 0 * MaxAmount
    BY <1>2
  <2>2. QED
    BY <1>1, <1>2, <2>1 DEF InitialState
<1>4. ASSUME NEW i \in 0 + 1 .. l, i - 1 \in S PROVE i \in S
  <2>1. i \in 1..l /\ f[i - 1] \in ReplayState /\ f[i - 1].value <= (i - 1) * MaxAmount
        /\ events[i] \in GenuineEvent
    BY <1>1, <1>4
  <2>2. f[i] = After(f[i - 1], events[i], k)
    BY <1>1, <2>1
  <2>3. f[i].value <= f[i - 1].value + MaxAmount /\ f[i] \in ReplayState
    <3> DEFINE s == f[i - 1]
               e == events[i]
    <3>1. s \in ReplayState /\ e \in GenuineEvent /\ f[i] = After(s, e, k)
      BY <2>1, <2>2
    <3> HIDE DEF s, e
    <3>2. After(s, e, k) \in ReplayState /\ After(s, e, k).value <= s.value + MaxAmount
      BY <3>1, AfterType
    <3>3. QED
      BY <3>1, <3>2 DEF s
  <2>4. f[i].value \in Nat /\ f[i - 1].value \in Nat
    BY <2>1, <2>3 DEF ReplayState
  <2>5. i * MaxAmount = (i - 1) * MaxAmount + MaxAmount /\ (i - 1) * MaxAmount \in Int
    BY <1>2, <2>1
  <2>6. f[i].value <= i * MaxAmount
    BY <1>2, <2>1, <2>3, <2>4, <2>5
  <2>7. QED
    BY <2>1, <2>6
<1> HIDE DEF S
<1>5. 0..l \subseteq S
  BY <1>2, <1>3, <1>4, UpTo
<1>6. f[l].value <= l * MaxAmount /\ f[l] \in ReplayState
  BY <1>1, <1>2, <1>5 DEF S
<1>7. f[l].value \in Nat /\ l * MaxAmount \in Int
  BY <1>2, <1>6 DEF ReplayState
<1>8. QED
  BY <1>1, <1>6, <1>7

LEMMA ReplayEmpty ==
    ASSUME DrawsAssumption, NEW k \in Keys
    PROVE  Replay(<<>>, k) = InitialState
<1>1. <<>> \in Seq(GenuineEvent) /\ Len(<<>>) = 0
  OBVIOUS
<1>2. QED
  BY <1>1, ReplayUnfold

LEMMA ReplayAppend ==
    ASSUME DrawsAssumption, NEW events \in Seq(GenuineEvent), NEW e \in GenuineEvent, NEW k \in Keys
    PROVE  Replay(Append(events, e), k) = After(Replay(events, k), e, k)
<1> DEFINE l == Len(events)
           more == Append(events, e)
<1>1. /\ more \in Seq(GenuineEvent) /\ Len(more) = l + 1 /\ more[l + 1] = e /\ l \in Nat
      /\ \A i \in 1..l : more[i] = events[i]
  OBVIOUS
<1> HIDE DEF more
<1>2. PICK f \in [0..l -> ReplayState] :
         /\ Replay(events, k) = f[l] /\ f[0] = InitialState
         /\ \A i \in 1..l : f[i] = After(f[i - 1], events[i], k)
  BY ReplayUnfold
<1>3. PICK g \in [0 .. l + 1 -> ReplayState] :
         /\ Replay(more, k) = g[l + 1] /\ g[0] = InitialState
         /\ \A i \in 1 .. l + 1 : g[i] = After(g[i - 1], more[i], k)
  <2>1. \E g \in [0..Len(more) -> ReplayState] :
          /\ Replay(more, k) = g[Len(more)] /\ g[0] = InitialState
          /\ \A i \in 1..Len(more) : g[i] = After(g[i - 1], more[i], k)
    BY <1>1, ReplayUnfold
  <2>2. QED
    BY <1>1, <2>1
<1> DEFINE S == {i \in 0..l : g[i] = f[i]}
<1>4. 0 \in S
  BY <1>1, <1>2, <1>3
<1>5. ASSUME NEW i \in 0 + 1 .. l, i - 1 \in S PROVE i \in S
  <2>1. i \in 1..l /\ i \in 1 .. l + 1 /\ g[i - 1] = f[i - 1] /\ more[i] = events[i]
    BY <1>1, <1>5
  <2>2. g[i] = f[i]
    BY <1>2, <1>3, <2>1
  <2>3. QED
    BY <2>1, <2>2
<1> HIDE DEF S
<1>6. 0..l \subseteq S
  BY <1>1, <1>4, <1>5, UpTo
<1>7. g[l] = f[l]
  BY <1>1, <1>6 DEF S
<1>8. l + 1 \in 1 .. l + 1 /\ (l + 1) - 1 = l
  BY <1>1
<1>9. g[l + 1] = After(g[l], e, k)
  BY <1>1, <1>3, <1>8
<1>10. QED
  BY <1>2, <1>3, <1>7, <1>9 DEF more
(* A replay of the whole history is refused, or is where the chain is; and *)
(* is not refused to a key that opens every event.                         *)
Exact(k) == LET end == Replay(log, k)
            IN  end.error # "none" \/ (end.balance = balance /\ end.value = total)
Accepted(k) ==
    (\A n \in 1..Len(log) : EventValue(log[n].amount, k) # Unsolved) => Replay(log, k).error = "none"

ReplayInv == MaskInv /\ \A k \in Keys : Exact(k) /\ Accepted(k)

LEMMA GenuineLog == MaskInv => log \in Seq(GenuineEvent) /\ Len(log) \in 0..MaxEvents
<1> SUFFICES ASSUME MaskInv PROVE log \in Seq(GenuineEvent) /\ Len(log) \in 0..MaxEvents
  OBVIOUS
<1>1. log \in Seq(Event) /\ Len(log) \in 0..MaxEvents
  BY DEF MaskInv, BalanceInv, AmountsTypeOK
<1>2. \A n \in 1..Len(log) : log[n] \in GenuineEvent
  BY <1>1 DEF MaskInv, AllGenuine, GenuineEvent
<1>3. QED
  BY <1>1, <1>2

LEMMA ReplayInitial == ASSUME DrawsAssumption PROVE Init => ReplayInv
<1> SUFFICES ASSUME Init PROVE ReplayInv
  OBVIOUS
<1>1. log = <<>> /\ balance = ZeroAmount /\ total = 0
  BY DEF Init
<1>2. ASSUME NEW k \in Keys PROVE Exact(k) /\ Accepted(k)
  <2>1. Replay(log, k) = InitialState
    BY <1>1, ReplayEmpty
  <2>2. QED
    BY <1>1, <2>1 DEF Exact, Accepted, InitialState
<1>3. QED
  BY <1>2, MaskInitial DEF ReplayInv

(* What an event makes of the chain's balance, it makes of the replayed.   *)
Turns(e, v) ==
    \/ /\ e.delta = "credit"
       /\ balance' = AddAmounts(balance, e.amount) /\ total' = total + v
    \/ /\ e.delta = "debit"
       /\ balance' = SubtractAmounts(balance, e.amount) /\ total' = total - v
    \/ /\ e.delta = "replace"
       /\ balance' = e.amount /\ total' = v

LEMMA ReplayTurns ==
    ASSUME DrawsAssumption, ReplayInv, NEW e \in GenuineEvent, NEW v \in 0..MaxAmount,
           NEW j \in Keys, NEW m \in 1..MaxEvents, e.amount = EncryptAmount(v, j, Random[m]),
           log' = Append(log, e), Turns(e, v), total' >= 0,
           NEW k \in Keys
    PROVE  Exact(k)' /\ Accepted(k)'
<1> DEFINE s == Replay(log, k)
           t == Replay(log', k)
           x == EventValue(e.amount, k)
<1>1. log \in Seq(GenuineEvent)
  BY GenuineLog DEF ReplayInv
<1>2. t = After(s, e, k)
  BY <1>1, ReplayAppend
<1>3. x \in {v, Unsolved}
  BY EventOpened
<1>4. /\ log'[Len(log) + 1] = e /\ Len(log') = Len(log) + 1 /\ Len(log) \in Nat
      /\ \A n \in 1..Len(log) : log'[n] = log[n] /\ n \in 1..Len(log')
      /\ Len(log) + 1 \in 1..Len(log')
  BY <1>1
<1>5. CASE s.error # "none"
  <2>1. t.error # "none"
    BY <1>2, <1>5 DEF After
  <2>2. PICK n \in 1..Len(log) : EventValue(log[n].amount, k) = Unsolved
    BY <1>5 DEF ReplayInv, Accepted
  <2>3. QED
    BY <1>4, <2>1, <2>2 DEF Exact, Accepted
<1>6. CASE s.error = "none" /\ x = Unsolved
  <2>1. t = Applied(s, e, Unsolved)
    BY <1>2, <1>6 DEF After, ReplayEvent
  <2>2. s \in ReplayState
    BY <1>1, ReplayValue
  <2>3. t.error # "none"
    BY <2>1, <2>2 DEF Applied, ReplayState
  <2>4. EventValue(log'[Len(log) + 1].amount, k) = Unsolved
    BY <1>4, <1>6
  <2>5. QED
    BY <1>4, <2>3, <2>4 DEF Exact, Accepted
<1>7. CASE s.error = "none" /\ x # Unsolved
  <2>1. t = Applied(s, e, v) /\ v # Unsolved
    BY <1>2, <1>3, <1>7 DEF After, ReplayEvent
  <2>2. s.balance = balance /\ s.value = total
    BY <1>7 DEF ReplayInv, Exact
  <2>3. Accumulated(s, e, v) = [balance |-> balance', value |-> total']
    BY <2>2 DEF Accumulated, Turns
  <2>4. ~(total' < 0)
    <3>1. v \in Int /\ total \in Int
      BY AmountType DEF ReplayInv, MaskInv, BalanceInv, AmountsTypeOK
    <3>2. total' \in Int
      BY <3>1 DEF Turns
    <3>3. QED
      BY <3>2
  <2>5. t = [balance |-> balance', value |-> total', count |-> s.count + 1, error |-> "none"]
    BY <2>1, <2>3, <2>4 DEF Applied
  <2>6. QED
    BY <2>5 DEF Exact, Accepted
<1>8. QED
  BY <1>5, <1>6, <1>7

LEMMA ReplayStep == ASSUME DrawsAssumption PROVE ReplayInv /\ [Next]_vars => ReplayInv'
<1> SUFFICES ASSUME ReplayInv, [Next]_vars PROVE ReplayInv'
  OBVIOUS
<1>1. /\ MaskInv /\ MaskInv' /\ BalanceInv /\ AmountsTypeOK /\ key \in Keys
      /\ total \in Nat /\ total' \in Nat
  BY MaskStep DEF ReplayInv, MaskInv, BalanceInv, AmountsTypeOK
<1>2. ASSUME Len(log) < MaxEvents, NEW d \in {"credit", "debit", "replace"},
             NEW v \in 0..MaxAmount, NEW j \in Keys,
             log' = Append(log, [delta |-> d, amount |-> EncryptAmount(v, j, Draw)]),
             Turns([delta |-> d, amount |-> EncryptAmount(v, j, Draw)], v)
      PROVE  ReplayInv'
  <2> DEFINE e == [delta |-> d, amount |-> EncryptAmount(v, j, Draw)]
             m == Len(log) + 1
  <2>1. m \in 1..MaxEvents /\ Draw \in [Limbs -> Nat \ {0}] /\ Draw = Random[m]
    BY <1>1, <1>2, Drawing
  <2>2. EncryptAmount(v, j, Draw) \in Ciphertext /\ Genuine(EncryptAmount(v, j, Draw))
    BY <2>1, Encrypted DEF Genuine
  <2>3. e \in GenuineEvent /\ e.amount = EncryptAmount(v, j, Random[m])
    BY <2>1, <2>2 DEF GenuineEvent, Event
  <2>4. log' = Append(log, e) /\ Turns(e, v)
    BY <1>2
  <2> HIDE DEF e, m
  <2>5. total' >= 0
    BY <1>1
  <2>6. ASSUME NEW k \in Keys PROVE Exact(k)' /\ Accepted(k)'
    BY <2>1, <2>3, <2>4, <2>5, ReplayTurns
  <2>7. QED
    BY <1>1, <2>6 DEF ReplayInv
<1>3. ASSUME NEW v \in Values, Credit(v) PROVE ReplayInv'
  <2>1. Len(log) < MaxEvents /\ v \in 0..MaxAmount
    BY <1>3 DEF Credit
  <2>2. /\ log' = Append(log, [delta |-> "credit", amount |-> EncryptAmount(v, key, Draw)])
        /\ Turns([delta |-> "credit", amount |-> EncryptAmount(v, key, Draw)], v)
    BY <1>3 DEF Credit, Turns
  <2>3. QED
    BY <1>1, <1>2, <2>1, <2>2
<1>4. ASSUME NEW v \in Values, Debit(v) PROVE ReplayInv'
  <2>1. Len(log) < MaxEvents /\ v \in 0..MaxAmount
    BY <1>4 DEF Debit
  <2>2. /\ log' = Append(log, [delta |-> "debit", amount |-> EncryptAmount(v, key, Draw)])
        /\ Turns([delta |-> "debit", amount |-> EncryptAmount(v, key, Draw)], v)
    BY <1>4 DEF Debit, Turns
  <2>3. QED
    BY <1>1, <1>2, <2>1, <2>2
<1>5. ASSUME NEW k \in Keys, Replace(k) PROVE ReplayInv'
  <2>1. Len(log) < MaxEvents /\ total \in 0..MaxAmount /\ DecryptBalance(key) = total /\ total' = total
    BY <1>1, <1>5, Rolled DEF Replace
  <2>2. /\ log' = Append(log, [delta |-> "replace", amount |-> EncryptAmount(total, k, Draw)])
        /\ Turns([delta |-> "replace", amount |-> EncryptAmount(total, k, Draw)], total)
    BY <1>5, <2>1 DEF Replace, Turns
  <2>3. QED
    BY <1>2, <2>1, <2>2
<1>6. CASE UNCHANGED vars
  <2>1. log' = log /\ balance' = balance /\ total' = total
    BY <1>6 DEF vars
  <2>2. QED
    BY <1>1, <2>1 DEF ReplayInv, Exact, Accepted
<1>7. QED
  BY <1>1, <1>3, <1>4, <1>5, <1>6 DEF Next, Rollover, KeyRotation

LEMMA ReplayAlways == ASSUME DrawsAssumption PROVE Spec => []ReplayInv
BY ReplayInitial, ReplayStep, PTL DEF Spec

(* Replaying every event ends where the chain is, or is refused; a key that*)
(* opens every event is not refused.  (replay.)                            *)
THEOREM ReplayEndsWhereTheChainIs ==
    ASSUME DrawsAssumption
    PROVE  Spec => []ReplayExactOrRefused
<1>1. ReplayInv => ReplayExactOrRefused
  <2> SUFFICES ASSUME ReplayInv PROVE ReplayExactOrRefused
    OBVIOUS
  <2>1. key \in Keys
    BY DEF ReplayInv, MaskInv, BalanceInv, AmountsTypeOK
  <2>2. QED
    BY <2>1 DEF ReplayInv, Exact, Accepted, ReplayExactOrRefused
<1>2. QED
  BY <1>1, ReplayAlways, PTL

----------------------------------------------------------------------------
(* Verdicts.                                                               *)

LEMMA VerdictRight ==
    ASSUME DrawsAssumption, MaskInv, NEW k \in Keys, NEW value \in 0 .. MaxEvents * MaxAmount,
           NEW lagOk \in BOOLEAN
    PROVE  RightOf(value, k, lagOk, VerifyState(value, k, lagOk))
<1> DEFINE read == DecryptBalance(k)
           weighs == WeightedSum(Unmasked(balance, k))
           verified == VerifyAmount(balance, k, value)
           bound == MaxEvents * MaxAmount
<1>1. BalanceInv /\ total \in Nat /\ bound \in Nat /\ total <= bound
  <2> DEFINE n == Len(log)
  <2>1. /\ total \in Nat /\ MaxAmount \in Nat /\ total <= n * MaxAmount
        /\ n \in Nat /\ MaxEvents \in Nat /\ n <= MaxEvents
    BY AmountType DEF MaskInv, BalanceInv, AmountsTypeOK, Worth
  <2> HIDE DEF n, bound
  <2>2. n * MaxAmount <= bound /\ n * MaxAmount \in Nat /\ bound \in Nat
    BY <2>1, Monotone, Zenon DEF bound
  <2>3. QED
    BY <2>1, <2>2 DEF MaskInv
<1>2. verified <=> value >= 0 /\ weighs = value
  BY DEF VerifyAmount, Unmasked
<1>3. VerifyState(value, k, lagOk) = Verdict(value, verified, read, lagOk)
  BY DEF VerifyState
<1>4. read \in {weighs, total, Unsolved}
  BY Seen
<1>5. \/ weighs = total
      \/ read = Unsolved /\ \E d \in Int : weighs = total + d /\ Beyond(d, bound)
  BY Seen
<1>6. read = Unsolved => k # key \/ ~Tolerated
  <2>1. Tolerated /\ k = key => read = total
    BY <1>1, Opens
  <2>2. QED
    BY <1>1, <2>1
<1> HIDE DEF read, weighs, verified, bound
<1>7. value \in Int /\ value >= 0 /\ value <= bound
  BY <1>1 DEF bound
<1>8. verified => value = total
  BY <1>1, <1>2, <1>5, <1>7 DEF Beyond
<1>9. read # Unsolved => read = total /\ (verified <=> value = total)
  BY <1>2, <1>4, <1>5, <1>7
<1>10. CASE verified
  <2>1. VerifyState(value, k, lagOk) = IF lagOk THEN "VERIFIED" ELSE "STALE_INDEX"
    BY <1>3, <1>10 DEF Verdict
  <2>2. value = total /\ value <= total
    BY <1>1, <1>8, <1>10
  <2>3. QED
    BY <2>1, <2>2 DEF RightOf
<1>11. CASE ~verified /\ read = Unsolved
  BY <1>3, <1>6, <1>11 DEF Verdict, RightOf
<1>12. CASE ~verified /\ read # Unsolved
  <2>1. read = total /\ value # total
    BY <1>9, <1>12
  <2>2. CASE total > value
    <3>1. VerifyState(value, k, lagOk) = IF lagOk THEN "MISSING_EVENTS" ELSE "STALE_INDEX"
      BY <1>3, <1>12, <2>1, <2>2 DEF Verdict
    <3>2. value < total /\ value <= total
      BY <1>1, <1>7, <2>2
    <3>3. QED
      BY <3>1, <3>2 DEF RightOf
  <2>3. CASE ~(total > value)
    <3>1. VerifyState(value, k, lagOk) = "BALANCE_MISMATCH"
      BY <1>3, <1>12, <2>1, <2>3 DEF Verdict
    <3>2. value > total
      BY <1>1, <1>7, <2>1, <2>3
    <3>3. QED
      BY <3>1, <3>2 DEF RightOf
  <2>4. QED
    BY <2>2, <2>3
<1>13. QED
  BY <1>10, <1>11, <1>12

(* Whatever one event a history lost and under whatever key, the verdict   *)
(* on what it replays to is right.  (verifyState, on what replay returns.) *)
THEOREM VerdictsAreRight ==
    ASSUME DrawsAssumption
    PROVE  Spec => []VerdictsRight
<1>1. MaskInv => VerdictsRight
  <2> SUFFICES ASSUME MaskInv, NEW k \in Keys, NEW lost \in 0..Len(log), NEW lagOk \in BOOLEAN
               PROVE  LET end == Replay(IF lost = 0 THEN log ELSE RemoveAt(log, lost), k)
                      IN  RightOf(end.value, k, lagOk, VerifyState(end.value, k, lagOk))
    BY DEF VerdictsRight
  <2> DEFINE events == IF lost = 0 THEN log ELSE RemoveAt(log, lost)
             value == Replay(events, k).value
  <2>1. log \in Seq(GenuineEvent) /\ Len(log) \in 0..MaxEvents
    BY GenuineLog
  <2>2. events \in Seq(GenuineEvent) /\ Len(events) \in 0..MaxEvents
    <3>1. CASE lost = 0
      BY <2>1, <3>1
    <3>2. CASE lost # 0
      <4>1. lost \in 1..Len(log)
        BY <3>2
      <4> DEFINE p == SubSeq(log, 1, lost - 1)
                 q == SubSeq(log, lost + 1, Len(log))
      <4>2. p \in Seq(GenuineEvent) /\ Len(p) = lost - 1
        BY <2>1, <4>1
      <4>3. q \in Seq(GenuineEvent) /\ Len(q) = Len(log) - lost
        BY <2>1, <4>1
      <4>4. events = p \o q
        BY <3>2 DEF RemoveAt
      <4> HIDE DEF p, q, events
      <4>5. p \o q \in Seq(GenuineEvent) /\ Len(p \o q) = Len(p) + Len(q)
        BY <4>2, <4>3, ConcatProperties
      <4>6. QED
        BY <2>1, <4>1, <4>2, <4>3, <4>4, <4>5
    <3>3. QED
      BY <3>1, <3>2
  <2> HIDE DEF events
  <2>3. value \in 0 .. Len(events) * MaxAmount
    BY <2>2, ReplayValue
  <2>4. value \in 0 .. MaxEvents * MaxAmount
    <3>1. /\ Len(events) \in Nat /\ MaxEvents \in Nat /\ Len(events) <= MaxEvents
          /\ MaxAmount \in Nat
      BY <2>2, AmountType
    <3>2. /\ Len(events) * MaxAmount <= MaxEvents * MaxAmount
          /\ Len(events) * MaxAmount \in Nat /\ MaxEvents * MaxAmount \in Nat
      BY <3>1, Monotone, Zenon
    <3>3. QED
      BY <2>3, <3>2
  <2> HIDE DEF value
  <2>5. RightOf(value, k, lagOk, VerifyState(value, k, lagOk))
    BY <2>4, VerdictRight
  <2>6. QED
    BY <2>5 DEF value, events
<1>2. QED
  BY <1>1, MaskAlways, PTL

=============================================================================
