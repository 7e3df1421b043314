----------------------------- MODULE NodeProofs -----------------------------
(***************************************************************************)
(* What the ingestor gets from its RPC node.  First the canonical events   *)
(* it makes of those of a window, for every node, width of the fields of a *)
(* TOID and of a cursor, and fan-out: their order and their completeness.  *)
(* Then the client the node is asked with, for any number of callers, any  *)
(* timers and any failures: how fast it asks at most, how long a call may  *)
(* take, and that a call ends with the last thing it heard.                *)
(***************************************************************************)
EXTENDS Adapter, RpcClient, TLAPS, SequenceTheorems, FiniteSetTheorems

----------------------------------------------------------------------------
(* Arithmetic, and lists.                                                  *)

LEMMA Distributive ==
    \A a, b, c \in Int : a * (b + c) = a * b + a * c /\ a * b = b * a /\ a * b \in Int
OBVIOUS
LEMMA Natural == ASSUME NEW a \in Nat, NEW b \in Nat, NEW c \in Nat PROVE a + b * c \in Nat
OBVIOUS
LEMMA Monotone ==
    \A a, b, c \in Nat : a <= b => a * c \in Nat /\ b * c \in Nat /\ a * c <= b * c
OBVIOUS
LEMMA Division ==
    ASSUME NEW a \in Nat, NEW b \in Nat, b > 0
    PROVE  a = b * (a \div b) + (a % b) /\ a % b \in 0 .. b - 1 /\ a \div b \in Nat
<1>1. a = b * (a \div b) + (a % b)
  OBVIOUS
<1>2. a % b \in 0 .. b - 1
  OBVIOUS
<1>3. a \div b \in Nat
  OBVIOUS
<1>4. QED
  BY <1>1, <1>2, <1>3
IsList(x, n) == n \in Nat /\ x = [i \in 1..n |-> x[i]]

LEMMA ListLength == ASSUME NEW x, NEW n, IsList(x, n) PROVE Len(x) = n /\ DOMAIN x = 1..n
<1> DEFINE S == {x[i] : i \in 1..n}
<1>1. n \in Nat /\ x \in [1..n -> S]
  BY DEF IsList
<1> HIDE DEF S
<1>2. x \in Seq(S)
  BY <1>1, SeqDef
<1>3. DOMAIN x = 1..n
  BY <1>1
<1>4. QED
  BY <1>1, <1>2, <1>3, LenProperties

----------------------------------------------------------------------------
(* The packing of a TOID and the folding of an index.                      *)

(* q * b + r with r below b: q counts before r does.                       *)
LEMMA Packed ==
    ASSUME NEW b \in Nat \ {0}, NEW q \in Nat, NEW r \in 0 .. b - 1,
           NEW p \in Nat, NEW s \in 0 .. b - 1
    PROVE  /\ q * b + r \in Nat /\ p * b + s \in Nat
           /\ q < p => q * b + r < p * b + s
           /\ q * b + r = p * b + s => q = p /\ r = s
<1>1. ASSUME NEW u \in Nat, NEW v \in Nat, NEW x \in 0 .. b - 1, NEW y \in 0 .. b - 1, u < v
      PROVE  u * b + x < v * b + y
  <2>1. u + 1 \in Nat /\ u + 1 <= v
    BY <1>1
  <2>2. (u + 1) * b <= v * b
    BY <2>1, Monotone
  <2>3. (u + 1) * b = u * b + b /\ u * b \in Int /\ v * b \in Int
    BY Distributive
  <2>4. QED
    BY <2>2, <2>3
<1>2. q * b + r \in Nat /\ p * b + s \in Nat
  BY Natural
<1>3. q * b \in Int
  BY Distributive
<1>4. q * b + r = p * b + s => q = p /\ r = s
  <2>1. q * b + r = p * b + s => ~(q < p) /\ ~(p < q)
    <3>1. q < p => q * b + r < p * b + s
      BY <1>1
    <3>2. p < q => p * b + s < q * b + r
      BY <1>1
    <3>3. QED
      BY <3>1, <3>2, <1>2
  <2>2. q * b + r = q * b + s => r = s
    BY <1>3
  <2>3. QED
    BY <2>1, <2>2
<1>5. q < p => q * b + r < p * b + s
  BY <1>1
<1>6. QED
  BY <1>2, <1>4, <1>5

LEMMA Unpacked ==
    ASSUME NEW b \in Nat \ {0}, NEW q \in Nat, NEW r \in 0 .. b - 1
    PROVE  (q * b + r) \div b = q /\ (q * b + r) % b = r
<1> DEFINE a == q * b + r
           d == a \div b
           m == (a % b)
<1>1. a \in Nat
  BY Natural
<1> HIDE DEF a
<1>2. a = b * d + m /\ m \in 0 .. b - 1 /\ d \in Nat
  BY <1>1, Division
<1> HIDE DEF d, m
<1>3. a = d * b + m
  BY <1>2, Distributive
<1>4. d = q /\ m = r
  BY <1>2, <1>3, Packed DEF a
<1>5. QED
  BY <1>4 DEF a, d, m

LEMMA ToidRoundTrip ==
    ASSUME NEW l \in Nat, NEW tx \in 0 .. TxSlots - 1,
           NEW op \in 0 .. OpSlots - 1, NEW e, e.toid = EncodeToid(l, tx, op)
    PROVE  DecodeEventId(e) = [tx |-> tx, op |-> op, ordinal |-> e.ordinal]
<1> DEFINE q == l * TxSlots + tx
<1>1. q \in Nat /\ TxSlots \in Nat \ {0} /\ OpSlots \in Nat \ {0}
  BY Natural, AdapterAssumption
<1>2. (q % TxSlots) = tx
  BY <1>1, Unpacked
<1>3. e.toid = q * OpSlots + op
  BY DEF EncodeToid
<1> HIDE DEF q
<1>4. (e.toid \div OpSlots) = q /\ (e.toid % OpSlots) = op
  BY <1>1, <1>3, Unpacked
<1>5. QED
  BY <1>2, <1>4 DEF DecodeEventId

----------------------------------------------------------------------------
(* The order of cursors is the lexicographic one.                          *)

Less4(a, b) ==
    \/ a[1] < b[1]
    \/ a[1] = b[1] /\ a[2] < b[2]
    \/ a[1] = b[1] /\ a[2] = b[2] /\ a[3] < b[3]
    \/ a[1] = b[1] /\ a[2] = b[2] /\ a[3] = b[3] /\ a[4] < b[4]

Four(a) == a = <<a[1], a[2], a[3], a[4]>> /\ a[1] \in Nat /\ a[2] \in Nat /\ a[3] \in Nat /\ a[4] \in Nat

LEMMA ComparesFour ==
    ASSUME NEW a, NEW b, Four(a), Four(b)
    PROVE  CompareCursors(a, b) <=> Less4(a, b)
<1>1. DOMAIN a = 1..4
  BY DEF Four
<1> USE <1>1 DEF CompareCursors, Less4
<1>2. ASSUME CompareCursors(a, b) PROVE Less4(a, b)
  <2>1. PICK k \in 1..4 : a[k] < b[k] /\ \A j \in 1 .. k - 1 : a[j] = b[j]
    BY <1>2
  <2>2. CASE k = 1
    BY <2>1, <2>2
  <2>3. CASE k = 2
    BY <2>1, <2>3
  <2>4. CASE k = 3
    BY <2>1, <2>4
  <2>5. CASE k = 4
    BY <2>1, <2>5
  <2>6. QED
    BY <2>2, <2>3, <2>4, <2>5
<1>3. ASSUME Less4(a, b) PROVE CompareCursors(a, b)
  <2>1. CASE a[1] < b[1]
    <3>1. \A j \in 1 .. 1 - 1 : a[j] = b[j]
      OBVIOUS
    <3>2. QED
      BY <2>1, <3>1
  <2>2. CASE a[1] = b[1] /\ a[2] < b[2]
    <3>1. \A j \in 1 .. 2 - 1 : a[j] = b[j]
      BY <2>2
    <3>2. QED
      BY <2>2, <3>1
  <2>3. CASE a[1] = b[1] /\ a[2] = b[2] /\ a[3] < b[3]
    <3>1. \A j \in 1 .. 3 - 1 : a[j] = b[j]
      BY <2>3
    <3>2. QED
      BY <2>3, <3>1
  <2>4. CASE a[1] = b[1] /\ a[2] = b[2] /\ a[3] = b[3] /\ a[4] < b[4]
    <3>1. \A j \in 1 .. 4 - 1 : a[j] = b[j]
      BY <2>4
    <3>2. QED
      BY <2>4, <3>1
  <2>5. QED
    BY <1>3, <2>1, <2>2, <2>3, <2>4
<1>4. QED
  BY <1>2, <1>3

(* Towards the chain's order only one direction is needed.                 *)
LEMMA ComparesFive ==
    ASSUME NEW a, NEW b, DOMAIN a = 1..5,
           NEW k \in 1..5, a[k] < b[k], \A j \in 1 .. k - 1 : a[j] = b[j]
    PROVE  CompareCursors(a, b)
BY DEF CompareCursors

----------------------------------------------------------------------------
(* Sorting by rank.                                                        *)

Linear(R, n) ==
    /\ n \in Nat
    /\ \A i \in 1..n : <<i, i>> \notin R
    /\ \A i, j, k \in 1..n : <<i, j>> \in R /\ <<j, k>> \in R => <<i, k>> \in R
    /\ \A i, j \in 1..n : i = j \/ <<i, j>> \in R \/ <<j, i>> \in R

Below(R, n, i) == {j \in 1..n : <<j, i>> \in R}

(* A linear order of n places gives each of them its own rank, and each    *)
(* rank its place.                                                         *)
Ranked(R, n, i) == Cardinality(Below(R, n, i)) + 1

LEMMA Ranks ==
    ASSUME NEW R, NEW n, Linear(R, n)
    PROVE  /\ \A i \in 1..n : Ranked(R, n, i) \in 1..n
           /\ \A i, j \in 1..n : <<i, j>> \in R <=> Ranked(R, n, i) < Ranked(R, n, j)
           /\ \A m \in 1..n : \E i \in 1..n : Ranked(R, n, i) = m
<1>1. n \in Nat /\ IsFiniteSet(1..n) /\ Cardinality(1..n) = n
  BY FS_Interval DEF Linear
<1>2. ASSUME NEW i \in 1..n
      PROVE  /\ IsFiniteSet(Below(R, n, i)) /\ Cardinality(Below(R, n, i)) \in Nat
             /\ Cardinality(Below(R, n, i)) < n
  <2>1. Below(R, n, i) \in SUBSET (1..n) /\ i \notin Below(R, n, i)
    BY DEF Below, Linear
  <2>2. Below(R, n, i) # 1..n
    BY <2>1
  <2>3. IsFiniteSet(Below(R, n, i)) /\ Cardinality(Below(R, n, i)) <= Cardinality(1..n)
        /\ Cardinality(Below(R, n, i)) # Cardinality(1..n)
    BY <2>1, <2>2, <1>1, FS_Subset
  <2>4. Cardinality(Below(R, n, i)) \in Nat
    BY <2>3, FS_CardinalityType
  <2>5. QED
    BY <2>3, <2>4, <1>1
<1>3. ASSUME NEW i \in 1..n, NEW j \in 1..n, <<i, j>> \in R
      PROVE  Ranked(R, n, i) < Ranked(R, n, j)
  <2>1. Below(R, n, i) \in SUBSET Below(R, n, j)
    BY <1>3 DEF Below, Linear
  <2>2. i \in Below(R, n, j) /\ i \notin Below(R, n, i)
    BY <1>3 DEF Below, Linear
  <2>3. Cardinality(Below(R, n, i)) <= Cardinality(Below(R, n, j))
        /\ Cardinality(Below(R, n, i)) # Cardinality(Below(R, n, j))
    <3>1. IsFiniteSet(Below(R, n, j)) /\ Below(R, n, i) # Below(R, n, j)
      BY <1>2, <2>2
    <3>2. QED
      BY <2>1, <3>1, FS_Subset
  <2>4. Cardinality(Below(R, n, i)) \in Nat /\ Cardinality(Below(R, n, j)) \in Nat
    BY <1>2
  <2>5. QED
    BY <2>3, <2>4 DEF Ranked
<1>4. \A i \in 1..n : Ranked(R, n, i) \in 1..n
  BY <1>1, <1>2 DEF Ranked
<1>5. \A i, j \in 1..n : <<i, j>> \in R <=> Ranked(R, n, i) < Ranked(R, n, j)
  <2> SUFFICES ASSUME NEW i \in 1..n, NEW j \in 1..n
               PROVE  <<i, j>> \in R <=> Ranked(R, n, i) < Ranked(R, n, j)
    OBVIOUS
  <2>1. Ranked(R, n, i) \in Int /\ Ranked(R, n, j) \in Int
    BY <1>4
  <2>2. i = j \/ <<i, j>> \in R \/ <<j, i>> \in R
    BY DEF Linear
  <2>3. <<j, i>> \in R => Ranked(R, n, j) < Ranked(R, n, i)
    BY <1>3
  <2>4. <<i, j>> \in R => Ranked(R, n, i) < Ranked(R, n, j)
    BY <1>3
  <2>5. QED
    BY <2>1, <2>2, <2>3, <2>4
<1>6. \A m \in 1..n : \E i \in 1..n : Ranked(R, n, i) = m
  <2> DEFINE f == [i \in 1..n |-> Ranked(R, n, i)]
  <2>1. f \in [1..n -> 1..n]
    BY <1>4
  <2>2. ASSUME NEW i \in 1..n, NEW j \in 1..n, f[i] = f[j] PROVE i = j
    <3>1. Ranked(R, n, i) = Ranked(R, n, j) /\ Ranked(R, n, i) \in Int
      BY <2>2, <1>4
    <3>2. <<i, j>> \notin R /\ <<j, i>> \notin R
      BY <3>1, <1>5
    <3>3. QED
      BY <3>2 DEF Linear
  <2>3. \A i \in 1..n : f[i] = Ranked(R, n, i)
    OBVIOUS
  <2> HIDE DEF f
  <2>4. f \in Injection(1..n, 1..n)
    BY <2>1, <2>2 DEF Injection, IsInjective
  <2>5. f \in Surjection(1..n, 1..n)
    BY <2>4, <1>1, FS_Injection
  <2>6. QED
    BY <2>3, <2>5 DEF Surjection
<1>7. QED
  BY <1>4, <1>5, <1>6

(* A stable sort by cursors that all differ puts them in strict order, and *)
(* neither drops nor repeats one.                                          *)
Differ(x, n) ==
    /\ IsList(x, n)
    /\ \A i \in 1..n : Four(x[i].cursor)
    /\ \A i, j \in 1..n : x[i].cursor = x[j].cursor => i = j

LEMMA LinearCursors ==
    ASSUME NEW a, NEW b, NEW c, Four(a), Four(b), Four(c)
    PROVE  /\ ~CompareCursors(a, a)
           /\ CompareCursors(a, b) /\ CompareCursors(b, c) => CompareCursors(a, c)
           /\ a = b \/ CompareCursors(a, b) \/ CompareCursors(b, a)
<1>1. ~Less4(a, a)
  BY DEF Four, Less4
<1>2. Less4(a, b) /\ Less4(b, c) => Less4(a, c)
  BY DEF Four, Less4
<1>3. a = b \/ Less4(a, b) \/ Less4(b, a)
  BY DEF Four, Less4
<1>4. QED
  BY <1>1, <1>2, <1>3, ComparesFour

LEMMA SortedInOrder ==
    ASSUME NEW x, NEW n, Differ(x, n)
    PROVE  LET y == Sorted(x)
           IN  /\ IsList(y, n)
               /\ \A i \in 1..n : \E j \in 1..n : y[i] = x[j]
               /\ \A j \in 1..n : \E i \in 1..n : y[i] = x[j]
               /\ \A i, j \in 1..n : i < j => CompareCursors(y[i].cursor, y[j].cursor)
<1> DEFINE R == {p \in (1..n) \X (1..n) : Precedes(x, p[1], p[2])}
           y == Sorted(x)
<1>1. DOMAIN x = 1..n /\ n \in Nat
  BY ListLength DEF Differ, IsList
<1>2. \A i, j \in 1..n : <<i, j>> \in R <=> CompareCursors(x[i].cursor, x[j].cursor)
  <2> SUFFICES ASSUME NEW i \in 1..n, NEW j \in 1..n
               PROVE  Precedes(x, i, j) <=> CompareCursors(x[i].cursor, x[j].cursor)
    OBVIOUS
  <2>1. x[i].cursor = x[j].cursor => i = j
    BY DEF Differ
  <2>2. QED
    BY <2>1 DEF Precedes
<1> HIDE DEF R
<1>3. Linear(R, n)
  <2>1. \A i \in 1..n : Four(x[i].cursor)
    BY DEF Differ
  <2>2. \A i \in 1..n : <<i, i>> \notin R
    BY <1>2, <2>1, LinearCursors
  <2>3. \A i, j, k \in 1..n : <<i, j>> \in R /\ <<j, k>> \in R => <<i, k>> \in R
    BY <1>2, <2>1, LinearCursors
  <2>4. \A i, j \in 1..n : i = j \/ <<i, j>> \in R \/ <<j, i>> \in R
    BY <1>2, <2>1, LinearCursors DEF Differ
  <2>5. QED
    BY <1>1, <2>2, <2>3, <2>4 DEF Linear
<1>4. \A i \in 1..n : Rank(x, i) = Ranked(R, n, i)
  <2> SUFFICES ASSUME NEW i \in 1..n PROVE Rank(x, i) = Ranked(R, n, i)
    OBVIOUS
  <2>1. {j \in DOMAIN x : Precedes(x, j, i)} = Below(R, n, i)
    BY <1>1 DEF R, Below
  <2>2. Rank(x, i) = Cardinality({j \in DOMAIN x : Precedes(x, j, i)}) + 1
    BY DEF Rank
  <2>3. QED
    BY <2>1, <2>2 DEF Ranked
<1> DEFINE g == [m \in 1..n |-> CHOOSE i \in DOMAIN x : Rank(x, i) = m]
<1>5. \A m \in 1..n : g[m] \in 1..n /\ Ranked(R, n, g[m]) = m
  <2> SUFFICES ASSUME NEW m \in 1..n PROVE g[m] \in 1..n /\ Ranked(R, n, g[m]) = m
    OBVIOUS
  <2>1. \E i \in DOMAIN x : Rank(x, i) = m
    <3>1. PICK i \in 1..n : Ranked(R, n, i) = m
      BY <1>3, Ranks
    <3>2. Rank(x, i) = m
      BY <3>1, <1>4
    <3>3. QED
      BY <3>2, <1>1
  <2>2. g[m] \in DOMAIN x /\ Rank(x, g[m]) = m
    BY <2>1
  <2> HIDE DEF g
  <2>3. QED
    BY <2>2, <1>1, <1>4
<1>6. y = [m \in 1..n |-> x[g[m]]]
  <2>1. y = [m \in DOMAIN x |-> x[CHOOSE i \in DOMAIN x : Rank(x, i) = m]]
    BY DEF Sorted
  <2>2. \A m \in 1..n : x[CHOOSE i \in DOMAIN x : Rank(x, i) = m] = x[g[m]]
    OBVIOUS
  <2> HIDE DEF g, y
  <2>3. QED
    BY <2>1, <2>2, <1>1
<1> HIDE DEF g, y
<1>7. IsList(y, n)
  BY <1>1, <1>6 DEF IsList
<1>8. \A i \in 1..n : \E j \in 1..n : y[i] = x[j]
  BY <1>5, <1>6
<1>9. \A j \in 1..n : \E i \in 1..n : y[i] = x[j]
  <2> SUFFICES ASSUME NEW j \in 1..n PROVE \E i \in 1..n : y[i] = x[j]
    OBVIOUS
  <2>1. Ranked(R, n, j) \in 1..n
    BY <1>3, Ranks
  <2> DEFINE i == Ranked(R, n, j)
  <2>2. g[i] \in 1..n /\ Ranked(R, n, g[i]) = Ranked(R, n, j)
    BY <2>1, <1>5
  <2>3. <<g[i], j>> \notin R /\ <<j, g[i]>> \notin R
    BY <2>1, <2>2, <1>3, Ranks
  <2>4. g[i] = j
    BY <2>2, <2>3, <1>3 DEF Linear
  <2>5. y[i] = x[j]
    BY <2>1, <2>4, <1>6
  <2>6. QED
    BY <2>1, <2>5
<1>10. ASSUME NEW i \in 1..n, NEW j \in 1..n, i < j
       PROVE  CompareCursors(y[i].cursor, y[j].cursor)
  <2>1. g[i] \in 1..n /\ g[j] \in 1..n /\ Ranked(R, n, g[i]) < Ranked(R, n, g[j])
    BY <1>5, <1>10
  <2>2. <<g[i], g[j]>> \in R
    BY <2>1, <1>3, Ranks
  <2>3. QED
    BY <2>1, <2>2, <1>2, <1>6
<1>11. QED
  BY <1>7, <1>8, <1>9, <1>10 DEF y

----------------------------------------------------------------------------
(* Lists made longer and shorter.                                          *)

Joined(z, x, n, y, m) ==
    /\ IsList(z, n + m)
    /\ \A k \in 1..n : z[k] = x[k]
    /\ \A k \in 1..m : z[n + k] = y[k]

LEMMA ListAfterList ==
    ASSUME NEW x, NEW n, NEW y, NEW m, IsList(x, n), IsList(y, m)
    PROVE  Joined(x \o y, x, n, y, m)
<1> DEFINE S == {x[i] : i \in 1..n} \cup {y[i] : i \in 1..m}
<1>1. n \in Nat /\ x \in [1..n -> S] /\ m \in Nat /\ y \in [1..m -> S]
  BY DEF IsList
<1> HIDE DEF S
<1>2. x \in Seq(S) /\ y \in Seq(S) /\ Len(x) = n /\ Len(y) = m
  BY <1>1, SeqDef, ListLength
<1>3. /\ x \o y \in Seq(S) /\ Len(x \o y) = n + m
      /\ \A k \in 1 .. n + m : (x \o y)[k] = IF k <= n THEN x[k] ELSE y[k - n]
  BY <1>2, ConcatProperties
<1>4. x \o y = [k \in 1 .. n + m |-> (x \o y)[k]]
  BY <1>1, <1>3, LenProperties
<1>5. QED
  BY <1>1, <1>3, <1>4 DEF IsList, Joined

Longer(z, x, n, e) == IsList(z, n + 1) /\ (\A k \in 1..n : z[k] = x[k]) /\ z[n + 1] = e

LEMMA ListAndOne ==
    ASSUME NEW x, NEW n, NEW e, IsList(x, n) PROVE Longer(Append(x, e), x, n, e)
<1> DEFINE S == {x[i] : i \in 1..n} \cup {e}
<1>1. n \in Nat /\ x \in [1..n -> S]
  BY DEF IsList
<1>2. e \in S
  OBVIOUS
<1> HIDE DEF S
<1>3. x \in Seq(S) /\ Len(x) = n
  BY <1>1, SeqDef, ListLength
<1>4. /\ Append(x, e) \in Seq(S) /\ Len(Append(x, e)) = n + 1
      /\ \A k \in 1..n : Append(x, e)[k] = x[k]
      /\ Append(x, e)[n + 1] = e
  BY <1>2, <1>3, AppendProperties
<1>5. Append(x, e) = [k \in 1 .. n + 1 |-> Append(x, e)[k]]
  BY <1>1, <1>4, LenProperties
<1>6. QED
  BY <1>1, <1>4, <1>5 DEF IsList, Longer

LEMMA ListButOne ==
    ASSUME NEW x, NEW n, IsList(x, n), x # <<>>
    PROVE  /\ n > 0 /\ Head(x) = x[1]
           /\ IsList(Tail(x), n - 1)
           /\ \A k \in 1 .. n - 1 : Tail(x)[k] = x[k + 1]
<1> DEFINE S == {x[i] : i \in 1..n}
<1>1. n \in Nat /\ x \in [1..n -> S]
  BY DEF IsList
<1> HIDE DEF S
<1>2. x \in Seq(S) /\ Len(x) = n
  BY <1>1, SeqDef, ListLength
<1>3. n > 0
  BY <1>1, <1>2, EmptySeq
<1>4. /\ Head(x) = x[1] /\ Tail(x) \in Seq(S) /\ Len(Tail(x)) = n - 1
      /\ \A k \in 1 .. n - 1 : Tail(x)[k] = x[k + 1]
  BY <1>2, HeadTailProperties
<1>5. Tail(x) = [k \in 1 .. n - 1 |-> Tail(x)[k]]
  BY <1>1, <1>3, <1>4, LenProperties
<1>6. QED
  BY <1>1, <1>3, <1>4, <1>5 DEF IsList

----------------------------------------------------------------------------
(* What decoding one event of the node gives.                              *)

Emitted(e) == \E l \in Ledgers, p \in Positions, s \in Shapes : e = RpcEvent(l, p, s)

PartiesOf(e) == PartiesFor(e.shape)
Happened(e)  == e.shape.success /\ e.shape.kind \in Confidential

IndexOf(e, i) == FoldedIndex(e.position.ordinal, i - 1)
Room(e) ==
    /\ Len(PartiesOf(e)) <= MaxFanout
    /\ \A i \in DOMAIN PartiesOf(e) :
         Fits(e.ledger, e.position.tx, e.position.op, IndexOf(e, i))

Entry(e, i) ==
    [cursor |-> EncodeCursor(e.ledger, e.position.tx, e.position.op, IndexOf(e, i)),
     party |-> PartiesOf(e)[i], index |-> i, source |-> e]

LEMMA EmittedFields ==
    ASSUME NEW e, Emitted(e)
    PROVE  /\ e.ledger \in Ledgers /\ e.ledger \in Nat
           /\ e.position.tx \in 0 .. TxSlots - 1 /\ e.position.op \in 0 .. OpSlots - 1
           /\ e.position.ordinal \in Nat
           /\ e.position = [tx |-> e.position.tx, op |-> e.position.op,
                            ordinal |-> e.position.ordinal]
           /\ e.shape.kind \in Kinds
           /\ DecodeEventId(e) = e.position
<1>1. PICK l \in Ledgers, p \in Positions, s \in Shapes : e = RpcEvent(l, p, s)
  BY DEF Emitted
<1>2. /\ e.ledger = l /\ e.toid = EncodeToid(l, p.tx, p.op) /\ e.ordinal = p.ordinal
      /\ e.position = p /\ e.shape = s
  BY <1>1 DEF RpcEvent
<1>3. /\ l \in Nat /\ p \in [tx: 0 .. TxSlots - 1, op: 0 .. OpSlots - 1, ordinal: Nat]
      /\ s.kind \in Kinds
  BY AdapterAssumption
<1>4. /\ p.tx \in 0 .. TxSlots - 1 /\ p.op \in 0 .. OpSlots - 1 /\ p.ordinal \in Nat
      /\ p = [tx |-> p.tx, op |-> p.op, ordinal |-> p.ordinal]
  BY <1>3
<1>5. DecodeEventId(e) = p
  <2>1. DecodeEventId(e) = [tx |-> p.tx, op |-> p.op, ordinal |-> e.ordinal]
    BY <1>2, <1>3, <1>4, ToidRoundTrip
  <2>2. QED
    BY <2>1, <1>2, <1>4
<1>6. QED
  BY <1>2, <1>3, <1>4, <1>5

LEMMA PartiesList ==
    ASSUME NEW s, s.kind \in Confidential
    PROVE  \E n \in {1, 2} : IsList(PartiesFor(s), n)
<1> USE DEF IsList, PartiesFor, Confidential
<1>1. CASE s.kind = "transfer"
  <2> DEFINE q == <<Party(s.from, s.to, "debit"), Party(s.to, s.from, "credit")>>
  <2>1. PartiesFor(s) = q
    BY <1>1
  <2>2. q = [i \in 1..2 |-> q[i]]
    OBVIOUS
  <2>3. QED
    BY <2>1, <2>2
<1>2. CASE s.kind # "transfer"
  <2>1. \E a : PartiesFor(s) = <<a>>
    BY <1>2
  <2>2. PICK a : PartiesFor(s) = <<a>>
    BY <2>1
  <2>3. <<a>> = [i \in 1..1 |-> <<a>>[i]]
    OBVIOUS
  <2>4. QED
    BY <2>2, <2>3
<1>3. QED
  BY <1>1, <1>2

(* Decoding throws, or passes over what is not confidential, or gives one  *)
(* entry for each party, each with a cursor of its own that has room.      *)
Errors == {"LEDGER_GAP", "ADAPTER_DECODE", "INVALID_REQUEST"}

LEMMA Decoding ==
    ASSUME NEW e, Emitted(e)
    PROVE  LET r == DecodeEvent(e)
           IN  \/ r.error \in Errors
               \/ r.error = "none" /\ r.events = <<>> /\ e.shape.kind \notin Confidential
               \/ /\ r.error = "none" /\ e.shape.kind \in Confidential /\ Room(e)
                  /\ r.events = [i \in DOMAIN PartiesOf(e) |-> Entry(e, i)]
<1> DEFINE at == e.position
<1>1. DecodeEventId(e) = at /\ e.shape.kind \in Kinds
  BY EmittedFields
<1>2. DecodeEvent(e) = IF e.ledger \notin headers THEN Thrown("LEDGER_GAP")
                          ELSE IF e.shape.kind = "opaque" THEN Thrown("ADAPTER_DECODE")
                          ELSE IF ~Recognises(e.shape) THEN [error |-> "none", events |-> <<>>]
                          ELSE Decode(e)
  BY DEF DecodeEvent
<1>3. \A c : Thrown(c).error = c
  BY DEF Thrown
<1> HIDE DEF at
<1>4. Decode(e) = IF at.ordinal > MaxRawEventIndex \/ e.shape.kind = "malformed"
                        THEN Thrown("ADAPTER_DECODE")
                     ELSE IF Len(PartiesOf(e)) > MaxFanout THEN Thrown("ADAPTER_DECODE")
                     ELSE IF \E i \in DOMAIN PartiesOf(e) :
                                ~Fits(e.ledger, at.tx, at.op, IndexOf(e, i))
                        THEN Thrown("INVALID_REQUEST")
                     ELSE [error |-> "none",
                           events |-> [i \in DOMAIN PartiesOf(e) |-> Entry(e, i)]]
  <2> DEFINE c(i) == FoldedIndex(at.ordinal, i - 1)
  <2>1. Decode(e) = IF at.ordinal > MaxRawEventIndex \/ e.shape.kind = "malformed"
                        THEN Thrown("ADAPTER_DECODE")
                     ELSE IF Len(PartiesOf(e)) > MaxFanout THEN Thrown("ADAPTER_DECODE")
                     ELSE IF \E i \in DOMAIN PartiesOf(e) : ~Fits(e.ledger, at.tx, at.op, c(i))
                        THEN Thrown("INVALID_REQUEST")
                     ELSE [error |-> "none",
                           events |-> [i \in DOMAIN PartiesOf(e) |->
                             [cursor |-> EncodeCursor(e.ledger, at.tx, at.op, c(i)),
                              party |-> PartiesOf(e)[i], index |-> i, source |-> e]]]
    BY <1>1 DEF Decode, PartiesOf
  <2>2. \A i \in DOMAIN PartiesOf(e) :
            Entry(e, i) = [cursor |-> EncodeCursor(e.ledger, at.tx, at.op, c(i)),
                           party |-> PartiesOf(e)[i], index |-> i, source |-> e]
    BY DEF Entry, at, IndexOf
  <2>3. \A i : IndexOf(e, i) = c(i)
    BY DEF IndexOf, at
  <2> HIDE DEF c
  <2>4. [i \in DOMAIN PartiesOf(e) |-> Entry(e, i)]
          = [i \in DOMAIN PartiesOf(e) |->
                             [cursor |-> EncodeCursor(e.ledger, at.tx, at.op, c(i)),
                              party |-> PartiesOf(e)[i], index |-> i, source |-> e]]
    BY <2>2
  <2>5. QED
    BY <2>1, <2>3, <2>4
<1>5. CASE \/ e.ledger \notin headers \/ e.shape.kind = "opaque"
  BY <1>2, <1>3, <1>5 DEF Errors
<1>6. CASE e.ledger \in headers /\ e.shape.kind # "opaque" /\ ~Recognises(e.shape)
  BY <1>2, <1>6 DEF Recognises
<1>7. CASE e.ledger \in headers /\ e.shape.kind # "opaque" /\ Recognises(e.shape)
  <2>1. DecodeEvent(e) = Decode(e)
    BY <1>2, <1>7
  <2>2. CASE \/ at.ordinal > MaxRawEventIndex \/ e.shape.kind = "malformed"
             \/ Len(PartiesOf(e)) > MaxFanout
             \/ \E i \in DOMAIN PartiesOf(e) :
                  ~Fits(e.ledger, at.tx, at.op, IndexOf(e, i))
    <3>1. Decode(e) = Thrown("ADAPTER_DECODE") \/ Decode(e) = Thrown("INVALID_REQUEST")
      BY <1>4, <2>2
    <3>2. QED
      BY <2>1, <3>1, <1>3 DEF Errors
  <2>3. CASE ~(\/ at.ordinal > MaxRawEventIndex \/ e.shape.kind = "malformed"
               \/ Len(PartiesOf(e)) > MaxFanout
               \/ \E i \in DOMAIN PartiesOf(e) :
                    ~Fits(e.ledger, at.tx, at.op, IndexOf(e, i)))
    <3>1. e.shape.kind \in Confidential
      BY <1>7, <2>3 DEF Recognises
    <3>2. Room(e)
      <4>1. PICK n \in {1, 2} : IsList(PartiesOf(e), n)
        BY <3>1, PartiesList DEF PartiesOf
      <4>2. Len(PartiesOf(e)) \in Nat
        BY <4>1, ListLength
      <4>3. MaxFanout \in Nat
        BY AdapterAssumption
      <4>4. Len(PartiesOf(e)) <= MaxFanout
        BY <4>2, <4>3, <2>3
      <4>5. QED
        BY <4>4, <2>3 DEF Room, at
    <3>3. Decode(e) = [error |-> "none",
                          events |-> [i \in DOMAIN PartiesOf(e) |-> Entry(e, i)]]
      BY <1>4, <2>3
    <3>4. QED
      BY <2>1, <3>1, <3>2, <3>3
  <2>4. QED
    BY <2>2, <2>3
<1>8. QED
  BY <1>5, <1>6, <1>7

(* The cursor of a party.                                                  *)
Fine(e) == Emitted(e) /\ e.shape.kind \in Confidential /\ Room(e)

LEMMA EntryCursor ==
    ASSUME NEW e, Fine(e), NEW i \in DOMAIN PartiesOf(e)
    PROVE  /\ i \in Nat /\ i - 1 \in 0 .. MaxFanout - 1 /\ IndexOf(e, i) \in Nat
           /\ Entry(e, i).cursor = <<e.ledger, e.position.tx, e.position.op, IndexOf(e, i)>>
           /\ Four(Entry(e, i).cursor)
           /\ e.position.tx <= MaxSub /\ e.position.op <= MaxSub /\ IndexOf(e, i) <= MaxSub
<1>1. PICK n \in {1, 2} : IsList(PartiesOf(e), n)
  BY PartiesList DEF PartiesOf, Fine
<1>2. Len(PartiesOf(e)) = n /\ DOMAIN PartiesOf(e) = 1..n
  BY <1>1, ListLength
<1>3. MaxFanout \in Nat \ {0} /\ n <= MaxFanout
  BY <1>2, AdapterAssumption DEF Fine, Room
<1>4. i \in Nat /\ i - 1 \in 0 .. MaxFanout - 1
  BY <1>2, <1>3
<1>5. e.ledger \in Nat /\ e.position.tx \in Nat /\ e.position.op \in Nat /\ e.position.ordinal \in Nat
  <2>1. TxSlots \in Nat /\ OpSlots \in Nat
    BY AdapterAssumption
  <2>2. /\ e.ledger \in Nat /\ e.position.tx \in 0 .. TxSlots - 1
        /\ e.position.op \in 0 .. OpSlots - 1 /\ e.position.ordinal \in Nat
    BY EmittedFields DEF Fine
  <2>3. QED
    BY <2>1, <2>2
<1>6. IndexOf(e, i) \in Nat
  <2>1. IndexOf(e, i) = e.position.ordinal * MaxFanout + (i - 1)
    BY DEF IndexOf, FoldedIndex
  <2>2. QED
    BY <2>1, <1>3, <1>4, <1>5, Packed
<1>7. Entry(e, i).cursor = <<e.ledger, e.position.tx, e.position.op, IndexOf(e, i)>>
  BY DEF Entry, EncodeCursor
<1>8. Four(Entry(e, i).cursor)
  BY <1>5, <1>6, <1>7 DEF Four
<1>9. Fits(e.ledger, e.position.tx, e.position.op, IndexOf(e, i))
  BY DEF Fine, Room
<1>10. QED
  BY <1>4, <1>6, <1>7, <1>8, <1>9 DEF Fits

(* Two parties' folded indices are in the order of event and party.        *)
LEMMA FoldedOrder ==
    ASSUME NEW e, Fine(e), NEW i \in DOMAIN PartiesOf(e),
           NEW f, Fine(f), NEW j \in DOMAIN PartiesOf(f)
    PROVE  /\ IndexOf(e, i) = IndexOf(f, j) => e.position.ordinal = f.position.ordinal /\ i = j
           /\ IndexOf(e, i) < IndexOf(f, j) =>
                \/ e.position.ordinal < f.position.ordinal
                \/ e.position.ordinal = f.position.ordinal /\ i < j
<1> DEFINE q == e.position.ordinal
           p == f.position.ordinal
           r == i - 1
           s == j - 1
<1>1. /\ q \in Nat /\ p \in Nat /\ MaxFanout \in Nat \ {0}
      /\ r \in 0 .. MaxFanout - 1 /\ s \in 0 .. MaxFanout - 1 /\ i \in Nat /\ j \in Nat
  BY EmittedFields, EntryCursor, AdapterAssumption DEF Fine
<1>2. IndexOf(e, i) = q * MaxFanout + r /\ IndexOf(f, j) = p * MaxFanout + s
  BY DEF IndexOf, FoldedIndex
<1>3. i = r + 1 /\ j = s + 1
  BY <1>1
<1> HIDE DEF q, p, r, s
<1>4. q * MaxFanout + r = p * MaxFanout + s => q = p /\ r = s
  BY <1>1, Packed
<1>5. p < q => p * MaxFanout + s < q * MaxFanout + r
  BY <1>1, Packed
<1>6. q * MaxFanout + r \in Nat /\ p * MaxFanout + s \in Nat /\ q * MaxFanout \in Int
  BY <1>1, Packed, Distributive
<1>7. ASSUME IndexOf(e, i) < IndexOf(f, j) PROVE q < p \/ (q = p /\ r < s)
  <2>1. ~(p < q)
    BY <1>2, <1>5, <1>6, <1>7
  <2>2. q = p => r < s
    BY <1>1, <1>2, <1>6, <1>7
  <2>3. QED
    BY <1>1, <2>1, <2>2
<1>8. QED
  BY <1>1, <1>2, <1>3, <1>4, <1>7 DEF q, p

LEMMA OwnCursor ==
    ASSUME NEW e, Fine(e), NEW i \in DOMAIN PartiesOf(e),
           NEW f, Fine(f), NEW j \in DOMAIN PartiesOf(f),
           Entry(e, i).cursor = Entry(f, j).cursor
    PROVE  e.ledger = f.ledger /\ e.position = f.position /\ i = j
<1>1. /\ e.ledger = f.ledger /\ e.position.tx = f.position.tx /\ e.position.op = f.position.op
      /\ IndexOf(e, i) = IndexOf(f, j)
  <2>1. <<e.ledger, e.position.tx, e.position.op, IndexOf(e, i)>>
          = <<f.ledger, f.position.tx, f.position.op, IndexOf(f, j)>>
    BY EntryCursor
  <2>2. QED
    BY <2>1
<1>2. e.position.ordinal = f.position.ordinal /\ i = j
  BY <1>1, FoldedOrder
<1>3. /\ e.position = [tx |-> e.position.tx, op |-> e.position.op,
                       ordinal |-> e.position.ordinal]
      /\ f.position = [tx |-> f.position.tx, op |-> f.position.op,
                       ordinal |-> f.position.ordinal]
  BY EmittedFields DEF Fine
<1>4. QED
  BY <1>1, <1>2, <1>3

(* The order of cursors is the chain's.                                    *)
LEMMA ChainOrder ==
    ASSUME NEW e, Fine(e), NEW i \in DOMAIN PartiesOf(e),
           NEW f, Fine(f), NEW j \in DOMAIN PartiesOf(f),
           CompareCursors(Entry(e, i).cursor, Entry(f, j).cursor)
    PROVE  CompareCursors(ChainPosition(Entry(e, i)), ChainPosition(Entry(f, j)))
<1> DEFINE a == ChainPosition(Entry(e, i))
           b == ChainPosition(Entry(f, j))
<1>1. /\ a = <<e.ledger, e.position.tx, e.position.op, e.position.ordinal, i>>
      /\ b = <<f.ledger, f.position.tx, f.position.op, f.position.ordinal, j>>
  BY DEF ChainPosition, Entry
<1>2. /\ DOMAIN a = 1..5
      /\ a[1] = e.ledger /\ a[2] = e.position.tx /\ a[3] = e.position.op
      /\ a[4] = e.position.ordinal /\ a[5] = i
      /\ b[1] = f.ledger /\ b[2] = f.position.tx /\ b[3] = f.position.op
      /\ b[4] = f.position.ordinal /\ b[5] = j
  BY <1>1
<1>3. Less4(<<e.ledger, e.position.tx, e.position.op, IndexOf(e, i)>>,
            <<f.ledger, f.position.tx, f.position.op, IndexOf(f, j)>>)
  BY EntryCursor, ComparesFour
<1>4. \/ a[1] < b[1]
      \/ a[1] = b[1] /\ a[2] < b[2]
      \/ a[1] = b[1] /\ a[2] = b[2] /\ a[3] < b[3]
      \/ /\ a[1] = b[1] /\ a[2] = b[2] /\ a[3] = b[3]
         /\ IndexOf(e, i) < IndexOf(f, j)
  BY <1>2, <1>3 DEF Less4
<1>5. IndexOf(e, i) < IndexOf(f, j) => a[4] < b[4] \/ (a[4] = b[4] /\ a[5] < b[5])
  BY <1>2, FoldedOrder
<1> HIDE DEF a, b
<1>6. \E k \in 1..5 : a[k] < b[k] /\ \A m \in 1 .. k - 1 : a[m] = b[m]
  <2>1. CASE a[1] < b[1]
    <3>1. \A m \in 1 .. 1 - 1 : a[m] = b[m]
      OBVIOUS
    <3>2. QED
      BY <2>1, <3>1
  <2>2. CASE a[1] = b[1] /\ a[2] < b[2]
    <3>1. \A m \in 1 .. 2 - 1 : a[m] = b[m]
      BY <2>2
    <3>2. QED
      BY <2>2, <3>1
  <2>3. CASE a[1] = b[1] /\ a[2] = b[2] /\ a[3] < b[3]
    <3>1. \A m \in 1 .. 3 - 1 : a[m] = b[m]
      BY <2>3
    <3>2. QED
      BY <2>3, <3>1
  <2>4. CASE a[1] = b[1] /\ a[2] = b[2] /\ a[3] = b[3] /\ a[4] < b[4]
    <3>1. \A m \in 1 .. 4 - 1 : a[m] = b[m]
      BY <2>4
    <3>2. QED
      BY <2>4, <3>1
  <2>5. CASE a[1] = b[1] /\ a[2] = b[2] /\ a[3] = b[3] /\ a[4] = b[4] /\ a[5] < b[5]
    <3>1. \A m \in 1 .. 5 - 1 : a[m] = b[m]
      BY <2>5
    <3>2. QED
      BY <2>5, <3>1
  <2>6. QED
    BY <1>4, <1>5, <2>1, <2>2, <2>3, <2>4, <2>5
<1>7. CompareCursors(a, b)
  BY <1>2, <1>6, ComparesFive
<1>8. QED
  BY <1>7 DEF a, b

(* The bounds of a ledger hold the cursors of its events and no other.     *)
LEMMA LedgerBounds ==
    ASSUME NEW e, Fine(e), NEW i \in DOMAIN PartiesOf(e),
           NEW l \in Ledgers
    PROVE  (/\ AtMost(LedgerLowerBound(l), Entry(e, i).cursor)
            /\ AtMost(Entry(e, i).cursor, LedgerUpperBound(l)))
             <=> e.ledger = l
<1> DEFINE c == Entry(e, i).cursor
           lo == LedgerLowerBound(l)
           hi == LedgerUpperBound(l)
<1>1. l \in Nat /\ MaxSub \in Nat /\ e.ledger \in Nat
  BY EmittedFields, AdapterAssumption DEF Fine
<1>2. lo = <<l, 0, 0, 0>> /\ hi = <<l, MaxSub, MaxSub, MaxSub>>
  BY DEF LedgerLowerBound, LedgerUpperBound, EncodeCursor
<1>3. Four(lo) /\ Four(hi)
  BY <1>1, <1>2 DEF Four
<1>4. /\ Four(c) /\ c[1] = e.ledger
      /\ c[2] \in Nat /\ c[2] <= MaxSub /\ c[3] \in Nat /\ c[3] <= MaxSub
      /\ c[4] \in Nat /\ c[4] <= MaxSub
  <2>1. c = <<e.ledger, e.position.tx, e.position.op, IndexOf(e, i)>> /\ Four(c)
    BY EntryCursor
  <2>2. c[1] = e.ledger /\ c[2] = e.position.tx /\ c[3] = e.position.op /\ c[4] = IndexOf(e, i)
    BY <2>1
  <2>3. c[2] \in Nat /\ c[3] \in Nat /\ c[4] \in Nat
    BY <2>1 DEF Four
  <2>4. e.position.tx <= MaxSub /\ e.position.op <= MaxSub /\ IndexOf(e, i) <= MaxSub
    BY EntryCursor
  <2>5. QED
    BY <2>1, <2>2, <2>3, <2>4
<1>5. lo[1] = l /\ lo[2] = 0 /\ lo[3] = 0 /\ lo[4] = 0
      /\ hi[1] = l /\ hi[2] = MaxSub /\ hi[3] = MaxSub /\ hi[4] = MaxSub
  BY <1>2
<1> HIDE DEF c, lo, hi
<1>6. /\ AtMost(lo, c) <=> lo = c \/ Less4(lo, c)
      /\ AtMost(c, hi) <=> c = hi \/ Less4(c, hi)
  BY <1>3, <1>4, ComparesFour DEF AtMost
<1>7. (lo = c \/ Less4(lo, c)) /\ (c = hi \/ Less4(c, hi)) => c[1] = l
  BY <1>1, <1>4, <1>5 DEF Less4
<1>8. c[1] = l => lo = c \/ Less4(lo, c)
  BY <1>1, <1>3, <1>4, <1>5 DEF Less4, Four
<1>9. c[1] = l => c = hi \/ Less4(c, hi)
  BY <1>1, <1>3, <1>4, <1>5 DEF Less4, Four
<1>10. QED
  BY <1>4, <1>6, <1>7, <1>8, <1>9 DEF c, lo, hi

----------------------------------------------------------------------------
(* The invariant.                                                          *)

(* One event of the node at a position of a ledger.                        *)
NodeOK ==
    /\ \A e \in node : Emitted(e)
    /\ \A e, f \in node : e.ledger = f.ledger /\ e.position = f.position => e = f

(* What waits to be decoded: successful calls, each once.                  *)
Waiting(q) ==
    /\ IsList(q, Len(q))
    /\ \A k \in 1..Len(q) : q[k] \in node /\ q[k].shape.success
    /\ \A k, m \in 1..Len(q) : q[k] = q[m] => k = m

(* What was decoded: parties of such events, each once.                    *)
Owed(d, e, i) == e \in node /\ Happened(e) /\ Fine(e) /\ i \in DOMAIN PartiesOf(e) /\ d = Entry(e, i)
Entered(x) ==
    /\ IsList(x, Len(x))
    /\ \A k \in 1..Len(x) : \E e, i : Owed(x[k], e, i)
    /\ \A k, m \in 1..Len(x) : x[k] = x[m] => k = m

(* No event is both, and none that is owed is neither.                     *)
Apart(x, q) == \A k \in 1..Len(x), m \in 1..Len(q) : x[k].source # q[m]
Paid(x, e)  == \A i \in DOMAIN PartiesOf(e) : \E k \in 1..Len(x) : x[k] = Entry(e, i)
AllOf(x, q) ==
    \A e \in node : Happened(e) => \/ \E m \in 1..Len(q) : q[m] = e
                                   \/ Paid(x, e)

InOrder(x) ==
    \A k, m \in 1..Len(x) : k < m => CompareCursors(x[k].cursor, x[m].cursor)

AdapterInv ==
    /\ NodeOK
    /\ Waiting(rpcEvents)
    /\ Entered(decoded)
    /\ Apart(decoded, rpcEvents)
    /\ AllOf(decoded, rpcEvents)
    /\ outcome = "fetching" => decoded = <<>>
    /\ outcome = "batch" => rpcEvents = <<>> /\ InOrder(decoded)

LEMMA EmptyList == IsList(<<>>, 0) /\ Len(<<>>) = 0 /\ 1..0 = {}
<1>1. <<>> = [i \in 1..0 |-> <<>>[i]]
  OBVIOUS
<1>2. QED
  BY <1>1 DEF IsList

LEMMA AdapterInit == node = {} /\ rpcEvents = <<>> /\ decoded = <<>> => AdapterInv
BY EmptyList DEF AdapterInv, NodeOK, Waiting, Entered, Apart, AllOf, InOrder

LEMMA SomeParty ==
    ASSUME NEW e, e.shape.kind \in Confidential PROVE DOMAIN PartiesOf(e) # {}
<1>1. PICK n \in {1, 2} : IsList(PartiesOf(e), n)
  BY PartiesList DEF PartiesOf
<1>2. DOMAIN PartiesOf(e) = 1..n /\ 1 \in 1..n
  BY <1>1, ListLength
<1>3. QED
  BY <1>2

LEMMA ReceiveStep ==
    ASSUME AdapterInv,
           NEW l \in Ledgers, NEW p \in Positions, NEW s \in Shapes, Receive(l, p, s)
    PROVE  AdapterInv'
<1> DEFINE e == RpcEvent(l, p, s)
           n == Len(rpcEvents)
<1>1. /\ outcome = "fetching" /\ outcome' = "fetching" /\ decoded = <<>> /\ decoded' = <<>>
      /\ \A f \in node : f.ledger # l \/ f.position # p
      /\ node' = node \cup {e}
      /\ rpcEvents' = IF Accept(s) THEN Append(rpcEvents, e) ELSE rpcEvents
  BY DEF Receive, AdapterInv
<1>2. e.ledger = l /\ e.position = p /\ e.shape = s /\ Emitted(e)
  BY DEF RpcEvent, Emitted
<1> HIDE DEF e
<1>3. e \notin node
  BY <1>1, <1>2
<1>4. NodeOK'
  BY <1>1, <1>2 DEF AdapterInv, NodeOK
<1>5. IsList(rpcEvents, n) /\ n \in Nat
  BY DEF AdapterInv, Waiting, IsList
<1>6. Entered(decoded)' /\ Apart(decoded, rpcEvents)'
  BY <1>1, EmptyList DEF Entered, Apart
<1>7. CASE s.success
  <2> DEFINE q == Append(rpcEvents, e)
  <2>1. rpcEvents' = q
    BY <1>1, <1>7 DEF Accept
  <2>2. IsList(q, n + 1) /\ Len(q) = n + 1 /\ (\A k \in 1..n : q[k] = rpcEvents[k]) /\ q[n + 1] = e
    <3> HIDE DEF n
    <3>1. Longer(Append(rpcEvents, e), rpcEvents, n, e)
      BY <1>5, ListAndOne
    <3>2. IsList(q, n + 1) /\ (\A k \in 1..n : q[k] = rpcEvents[k]) /\ q[n + 1] = e
      BY <3>1 DEF Longer
    <3> HIDE DEF q
    <3>3. QED
      BY <3>2, <1>5, ListLength
  <2> HIDE DEF q, n
  <2>3. Waiting(rpcEvents)'
    <3>1. \A k \in 1 .. n + 1 : k \in 1..n \/ k = n + 1
      BY <1>5
    <3>2. /\ \A k \in 1..n : rpcEvents[k] \in node /\ rpcEvents[k].shape.success
          /\ \A k, m \in 1..n : rpcEvents[k] = rpcEvents[m] => k = m
      BY DEF AdapterInv, Waiting, n
    <3>3. \A k \in 1 .. n + 1 : q[k] \in node' /\ q[k].shape.success
      BY <1>1, <1>2, <1>7, <2>2, <3>1, <3>2
    <3>4. \A k, m \in 1 .. n + 1 : q[k] = q[m] => k = m
      BY <1>3, <2>2, <3>1, <3>2
    <3>5. QED
      BY <2>1, <2>2, <3>3, <3>4 DEF Waiting
  <2>4. AllOf(decoded, rpcEvents)'
    <3>1. ASSUME NEW f \in node', Happened(f) PROVE \E m \in 1 .. n + 1 : q[m] = f
      <4>1. CASE f = e
        <5>1. n + 1 \in 1 .. n + 1
          BY <1>5
        <5>2. QED
          BY <4>1, <5>1, <2>2
      <4>2. CASE f # e
        <5>1. f \in node
          BY <1>1, <4>2
        <5>2. (\E m \in 1..n : rpcEvents[m] = f) \/ Paid(decoded, f)
          BY <3>1, <5>1 DEF AdapterInv, AllOf, n
        <5>3. Paid(decoded, f) => DOMAIN PartiesOf(f) = {}
          BY <1>1, EmptyList DEF Paid
        <5>4. DOMAIN PartiesOf(f) # {}
          BY <3>1, SomeParty DEF Happened
        <5>5. PICK m \in 1..n : rpcEvents[m] = f
          BY <5>2, <5>3, <5>4
        <5>6. m \in 1 .. n + 1 /\ q[m] = f
          BY <1>5, <2>2, <5>5
        <5>7. QED
          BY <5>6
      <4>3. QED
        BY <4>1, <4>2
    <3>2. QED
      BY <2>1, <2>2, <3>1 DEF AllOf
  <2>5. QED
    BY <1>1, <1>4, <1>6, <2>3, <2>4 DEF AdapterInv
<1>8. CASE ~s.success
  <2>1. rpcEvents' = rpcEvents
    BY <1>1, <1>8 DEF Accept
  <2>2. Waiting(rpcEvents)'
    BY <1>1, <2>1 DEF AdapterInv, Waiting
  <2>3. AllOf(decoded, rpcEvents)'
    <3>1. \A f \in node' : Happened(f) => f \in node
      BY <1>1, <1>2, <1>8 DEF Happened
    <3>2. QED
      BY <1>1, <2>1, <3>1 DEF AdapterInv, AllOf, Paid
  <2>4. QED
    BY <1>1, <1>4, <1>6, <2>2, <2>3 DEF AdapterInv
<1>9. QED
  BY <1>7, <1>8

(* The decoded event leaves the queue and its parties, if it is one of     *)
(* those looked for, enter.                                                *)
LEMMA DecodeStep ==
    ASSUME AdapterInv, DecodeNext
    PROVE  AdapterInv'
<1> DEFINE e == Head(rpcEvents)
           r == DecodeEvent(e)
           n == Len(rpcEvents)
           d == Len(decoded)
<1>1. /\ outcome = "decoding" /\ rpcEvents # <<>> /\ node' = node
      /\ IF r.error = "none"
         THEN decoded' = decoded \o r.events /\ rpcEvents' = Tail(rpcEvents) /\ outcome' = outcome
         ELSE outcome' = r.error /\ decoded' = decoded /\ rpcEvents' = rpcEvents
  BY DEF DecodeNext
<1>2. /\ NodeOK /\ Waiting(rpcEvents) /\ Entered(decoded) /\ Apart(decoded, rpcEvents)
      /\ AllOf(decoded, rpcEvents)
  BY DEF AdapterInv
<1>3. IsList(rpcEvents, n) /\ n \in Nat /\ IsList(decoded, d) /\ d \in Nat
  BY <1>2 DEF Waiting, Entered, IsList
<1> DEFINE t == Tail(rpcEvents)
<1>4. /\ n > 0 /\ e = rpcEvents[1] /\ IsList(t, n - 1) /\ Len(t) = n - 1
      /\ \A k \in 1 .. n - 1 : t[k] = rpcEvents[k + 1]
  BY <1>1, <1>3, ListButOne, ListLength
<1> HIDE DEF t
<1>5. /\ e \in node /\ e.shape.success /\ Emitted(e)
      /\ \A k \in 1 .. n - 1 : t[k] # e /\ t[k] \in node /\ t[k].shape.success
      /\ \A k, m \in 1 .. n - 1 : t[k] = t[m] => k = m
  <2>1. 1 \in 1..n /\ \A k \in 1 .. n - 1 : k + 1 \in 1..n /\ k + 1 # 1
    BY <1>3, <1>4
  <2>2. \A k, m \in 1 .. n - 1 : k + 1 = m + 1 => k = m
    OBVIOUS
  <2>3. /\ \A k \in 1..n : rpcEvents[k] \in node /\ rpcEvents[k].shape.success
        /\ \A k, m \in 1..n : rpcEvents[k] = rpcEvents[m] => k = m
    BY <1>2 DEF Waiting
  <2> HIDE DEF e, n
  <2>4. e \in node /\ e.shape.success
    BY <2>1, <2>3, <1>4
  <2>5. Emitted(e)
    BY <1>2, <2>4 DEF NodeOK
  <2>6. \A k \in 1 .. n - 1 : t[k] # e /\ t[k] \in node /\ t[k].shape.success
    BY <1>4, <2>1, <2>3
  <2>7. \A k, m \in 1 .. n - 1 : t[k] = t[m] => k = m
    BY <1>4, <2>1, <2>2, <2>3
  <2>8. QED
    BY <2>4, <2>5, <2>6, <2>7
<1> HIDE DEF e
<1>6. \/ r.error \in Errors
      \/ r.error = "none" /\ r.events = <<>> /\ e.shape.kind \notin Confidential
      \/ /\ r.error = "none" /\ e.shape.kind \in Confidential /\ Room(e)
         /\ r.events = [i \in DOMAIN PartiesOf(e) |-> Entry(e, i)]
  BY <1>5, Decoding
<1> HIDE DEF r
<1>7. CASE r.error \in Errors
  <2>1. r.error # "none" /\ r.error # "fetching" /\ r.error # "batch"
    BY <1>7 DEF Errors
  <2>2. decoded' = decoded /\ rpcEvents' = rpcEvents /\ outcome' # "fetching" /\ outcome' # "batch"
    BY <1>1, <2>1
  <2>3. NodeOK' /\ Waiting(rpcEvents)' /\ Entered(decoded)' /\ Apart(decoded, rpcEvents)'
        /\ AllOf(decoded, rpcEvents)'
    BY <1>1, <1>2, <2>2 DEF NodeOK, Waiting, Entered, Owed, Apart, AllOf, Paid
  <2>4. QED
    BY <2>2, <2>3 DEF AdapterInv
<1>8. ASSUME r.error = "none",
             NEW x, NEW c \in Nat, decoded' = x, x = decoded \o r.events, IsList(r.events, c),
             \A i \in 1..c : r.events[i] = Entry(e, i) /\ Owed(r.events[i], e, i),
             Happened(e) => DOMAIN PartiesOf(e) = 1..c
      PROVE  AdapterInv'
  <2>1. /\ IsList(x, d + c) /\ Len(x) = d + c
        /\ \A k \in 1..d : x[k] = decoded[k]
        /\ \A k \in 1..c : x[d + k] = r.events[k]
    <3> DEFINE y == r.events
    <3>1. IsList(y, c) /\ x = decoded \o y
      BY <1>8
    <3> HIDE DEF y, d
    <3>2. Joined(decoded \o y, decoded, d, y, c)
      BY <3>1, <1>3, ListAfterList
    <3>3. /\ IsList(x, d + c)
          /\ \A k \in 1..d : x[k] = decoded[k]
          /\ \A k \in 1..c : x[d + k] = y[k]
      BY <3>1, <3>2 DEF Joined
    <3>4. Len(x) = d + c
      BY <3>3, ListLength
    <3>5. QED
      BY <3>3, <3>4 DEF y
  <2>2. rpcEvents' = t /\ outcome' = "decoding"
    BY <1>1, <1>8 DEF t
  <2>3. \A k \in 1 .. d + c : k \in 1..d \/ \E i \in 1..c : k = d + i
    <3> SUFFICES ASSUME NEW k \in 1 .. d + c, k \notin 1..d PROVE \E i \in 1..c : k = d + i
      OBVIOUS
    <3>1. k - d \in 1..c /\ k = d + (k - d)
      BY <1>3
    <3>2. QED
      BY <3>1
  <2>4. \A k \in 1..d : \E f, i : Owed(decoded[k], f, i)
    BY <1>2 DEF Entered
  <2>5. \A k \in 1..d : decoded[k].source # e
    <3>1. 1 \in 1..n
      BY <1>3, <1>4
    <3>2. QED
      BY <3>1, <1>2, <1>4 DEF Apart
  <2>6. \A i \in 1..c : r.events[i].source = e /\ r.events[i].index = i
    <3>1. \A i : Entry(e, i).source = e /\ Entry(e, i).index = i
      BY DEF Entry
    <3>2. \A i \in 1..c : r.events[i] = Entry(e, i)
      BY <1>8
    <3>3. QED
      BY <3>1, <3>2
  <2> HIDE DEF d, n
  <2>7. Waiting(rpcEvents)'
    BY <1>1, <1>4, <1>5, <2>2 DEF Waiting
  <2>8. Entered(decoded)'
    <3>1. \A k \in 1 .. d + c : \E f, i : Owed(x[k], f, i)'
      <4> SUFFICES ASSUME NEW k \in 1 .. d + c PROVE \E f, i : Owed(x[k], f, i)
        BY <1>1 DEF Owed
      <4>1. CASE k \in 1..d
        BY <4>1, <2>1, <2>4
      <4>2. CASE \E i \in 1..c : k = d + i
        <5>1. PICK i \in 1..c : k = d + i
          BY <4>2
        <5>2. Owed(x[k], e, i)
          BY <5>1, <2>1, <1>8
        <5>3. QED
          BY <5>2
      <4>3. QED
        BY <2>3, <4>1, <4>2
    <3>2. \A k, m \in 1 .. d + c : x[k] = x[m] => k = m
      <4> SUFFICES ASSUME NEW k \in 1 .. d + c, NEW m \in 1 .. d + c, x[k] = x[m] PROVE k = m
        OBVIOUS
      <4>1. CASE k \in 1..d /\ m \in 1..d
        BY <4>1, <2>1, <1>2 DEF Entered, d
      <4>2. ASSUME NEW a \in 1..d, NEW i \in 1..c PROVE x[a] # x[d + i]
        BY <2>1, <2>5, <2>6
      <4>3. CASE k \in 1..d /\ m \notin 1..d
        BY <4>2, <4>3, <2>3
      <4>4. CASE k \notin 1..d /\ m \in 1..d
        BY <4>2, <4>4, <2>3
      <4>5. CASE k \notin 1..d /\ m \notin 1..d
        <5>1. PICK i \in 1..c, j \in 1..c : k = d + i /\ m = d + j
          BY <4>5, <2>3
        <5>2. r.events[i] = r.events[j]
          BY <5>1, <2>1
        <5>3. QED
          BY <5>1, <5>2, <2>6
      <4>6. QED
        BY <4>1, <4>3, <4>4, <4>5
    <3>3. QED
      BY <1>8, <2>1, <3>1, <3>2 DEF Entered
  <2>9. Apart(decoded, rpcEvents)'
    <3>1. \A k \in 1..d, m \in 1 .. n - 1 : decoded[k].source # t[m]
      <4>1. \A m \in 1 .. n - 1 : m + 1 \in 1..n
        BY <1>3
      <4>2. QED
        BY <4>1, <1>2, <1>4 DEF Apart, d, n
    <3>2. ASSUME NEW k \in 1 .. d + c, NEW m \in 1 .. n - 1 PROVE x[k].source # t[m]
      <4>1. CASE k \in 1..d
        BY <4>1, <3>1, <2>1
      <4>2. CASE \E i \in 1..c : k = d + i
        BY <4>2, <2>1, <2>6, <1>5
      <4>3. QED
        BY <4>1, <4>2, <2>3
    <3>3. Apart(x, t)
      BY <3>2, <1>4, <2>1 DEF Apart
    <3>4. decoded' = x /\ rpcEvents' = t
      BY <1>8, <2>2
    <3>5. QED
      BY <3>3, <3>4 DEF Apart
  <2>10. AllOf(decoded, rpcEvents)'
    <3>1. ASSUME NEW f \in node, Happened(f)
          PROVE  (\E m \in 1 .. n - 1 : t[m] = f)
                 \/ \A i \in DOMAIN PartiesOf(f) : \E k \in 1 .. d + c : x[k] = Entry(f, i)
      <4>1. CASE f = e
        <5> SUFFICES ASSUME NEW i \in DOMAIN PartiesOf(e)
                     PROVE  \E k \in 1 .. d + c : x[k] = Entry(e, i)
          BY <4>1
        <5>1. i \in 1..c
          BY <4>1, <3>1, <1>8
        <5>2. d + i \in 1 .. d + c /\ x[d + i] = Entry(e, i)
          <6>1. d + i \in 1 .. d + c
            BY <5>1, <1>3, <1>8
          <6>2. QED
            <7>1. x[d + i] = r.events[i]
              BY <5>1, <2>1
            <7>2. r.events[i] = Entry(e, i)
              BY <5>1, <1>8
            <7>3. QED
              BY <6>1, <7>1, <7>2
        <5>3. QED
          BY <5>2
      <4>2. CASE f # e /\ \E m \in 1..n : rpcEvents[m] = f
        <5>1. PICK m \in 1..n : rpcEvents[m] = f
          BY <4>2
        <5>2. m # 1
          BY <4>2, <5>1, <1>4
        <5>3. m - 1 \in 1 .. n - 1 /\ (m - 1) + 1 = m
          BY <5>2, <1>3
        <5>4. t[m - 1] = f
          BY <5>1, <5>3, <1>4
        <5>5. QED
          BY <5>3, <5>4
      <4>3. CASE Paid(decoded, f)
        <5>1. \A k \in 1..d : k \in 1 .. d + c
          BY <1>3
        <5>2. QED
          BY <4>3, <5>1, <2>1 DEF Paid, d
      <4>4. QED
        BY <4>1, <4>2, <4>3, <3>1, <1>2 DEF AllOf, n
    <3>2. \A f \in node : Happened(f) => (\E m \in 1..Len(t) : t[m] = f) \/ Paid(x, f)
      BY <3>1, <1>4, <2>1 DEF Paid
    <3>3. AllOf(x, t)
      BY <3>2 DEF AllOf
    <3>4. decoded' = x /\ rpcEvents' = t /\ node' = node
      BY <1>1, <1>8, <2>2
    <3>5. QED
      BY <3>3, <3>4 DEF AllOf, Paid
  <2>11. NodeOK'
    BY <1>1, <1>2 DEF NodeOK
  <2>12. QED
    BY <2>2, <2>7, <2>8, <2>9, <2>10, <2>11 DEF AdapterInv
<1>9. CASE r.error = "none" /\ r.events = <<>> /\ e.shape.kind \notin Confidential
  <2>1. /\ IsList(r.events, 0)
        /\ \A i \in 1..0 : r.events[i] = Entry(e, i) /\ Owed(r.events[i], e, i)
    BY <1>9, EmptyList
  <2>2. ~Happened(e)
    BY <1>9 DEF Happened
  <2>3. decoded' = decoded \o r.events
    BY <1>1, <1>9
  <2>4. QED
    BY <1>8, <1>9, <2>1, <2>2, <2>3
<1>10. CASE /\ r.error = "none" /\ e.shape.kind \in Confidential /\ Room(e)
            /\ r.events = [i \in DOMAIN PartiesOf(e) |-> Entry(e, i)]
  <2>1. PICK c \in {1, 2} : IsList(PartiesOf(e), c)
    BY <1>10, PartiesList DEF PartiesOf
  <2>2. DOMAIN PartiesOf(e) = 1..c /\ c \in Nat
    BY <2>1, ListLength
  <2>3. r.events = [i \in 1..c |-> Entry(e, i)]
    BY <1>10, <2>2
  <2>4. \A i \in 1..c : r.events[i] = Entry(e, i)
    BY <2>3
  <2>5. IsList(r.events, c)
    BY <2>2, <2>3 DEF IsList
  <2>6. Fine(e) /\ Happened(e)
    BY <1>5, <1>10 DEF Fine, Happened
  <2>7. \A i \in 1..c : r.events[i] = Entry(e, i) /\ Owed(r.events[i], e, i)
    BY <1>5, <2>2, <2>4, <2>6 DEF Owed
  <2>8. decoded' = decoded \o r.events
    BY <1>1, <1>10
  <2>9. QED
    BY <1>8, <1>10, <2>2, <2>5, <2>7, <2>8
<1>11. QED
  BY <1>6, <1>7, <1>9, <1>10

(* The cursors of what was decoded differ, and the sort only moves it.     *)
LEMMA CursorsDiffer ==
    ASSUME NodeOK, Entered(decoded)
    PROVE  Differ(decoded, Len(decoded))
<1> DEFINE n == Len(decoded)
<1>1. /\ IsList(decoded, n)
      /\ \A k \in 1..n : \E e, i : Owed(decoded[k], e, i)
      /\ \A k, m \in 1..n : decoded[k] = decoded[m] => k = m
  BY DEF Entered
<1> HIDE DEF n
<1>2. \A k \in 1..n : Four(decoded[k].cursor)
  BY <1>1, EntryCursor DEF Owed
<1>3. ASSUME NEW k \in 1..n, NEW m \in 1..n, decoded[k].cursor = decoded[m].cursor
      PROVE  k = m
  <2>1. PICK e, i : Owed(decoded[k], e, i)
    BY <1>1
  <2>2. PICK f, j : Owed(decoded[m], f, j)
    BY <1>1
  <2>3. Entry(e, i).cursor = Entry(f, j).cursor
    BY <1>3, <2>1, <2>2 DEF Owed
  <2>4. e.ledger = f.ledger /\ e.position = f.position /\ i = j
    BY <2>1, <2>2, <2>3, OwnCursor DEF Owed
  <2>5. e = f
    BY <2>1, <2>2, <2>4 DEF Owed, NodeOK
  <2>6. decoded[k] = decoded[m]
    BY <2>1, <2>2, <2>4, <2>5 DEF Owed
  <2>7. QED
    BY <1>1, <2>6
<1>4. QED
  BY <1>1, <1>2, <1>3 DEF Differ, n

LEMMA SortStep ==
    ASSUME AdapterInv, Sort
    PROVE  AdapterInv'
<1> DEFINE n == Len(decoded)
           y == Sorted(decoded)
<1>1. /\ rpcEvents = <<>> /\ rpcEvents' = <<>> /\ node' = node /\ outcome' = "batch"
      /\ decoded' = y
  BY DEF Sort
<1>2. NodeOK /\ Waiting(rpcEvents) /\ Entered(decoded) /\ AllOf(decoded, rpcEvents)
  BY DEF AdapterInv
<1>3. Differ(decoded, n)
  BY <1>2, CursorsDiffer
<1>4. /\ IsList(y, n)
      /\ \A i \in 1..n : \E j \in 1..n : y[i] = decoded[j]
      /\ \A j \in 1..n : \E i \in 1..n : y[i] = decoded[j]
      /\ \A i, j \in 1..n : i < j => CompareCursors(y[i].cursor, y[j].cursor)
  BY <1>3, SortedInOrder
<1> HIDE DEF n, y
<1>5. Len(y) = n /\ n \in Nat
  BY <1>4, ListLength DEF IsList
<1>6. \A i \in 1..n : Four(y[i].cursor)
  BY <1>3, <1>4 DEF Differ
<1>7. \A k, m \in 1..n : y[k] = y[m] => k = m
  <2> SUFFICES ASSUME NEW k \in 1..n, NEW m \in 1..n, y[k] = y[m], k < m PROVE FALSE
    BY <1>5
  <2>1. CompareCursors(y[k].cursor, y[k].cursor)
    BY <1>4
  <2>2. QED
    BY <2>1, <1>6, LinearCursors
<1>8. Entered(y)
  <2>1. \A k \in 1..n : \E e, i : Owed(decoded[k], e, i)
    BY <1>2 DEF Entered, n
  <2>2. \A k \in 1..n : \E e, i : Owed(y[k], e, i)
    BY <1>4, <2>1
  <2>3. QED
    BY <1>4, <1>5, <1>7, <2>2 DEF Entered
<1>9. AllOf(y, <<>>)
  <2> SUFFICES ASSUME NEW e \in node, Happened(e), NEW i \in DOMAIN PartiesOf(e)
               PROVE  \E k \in 1..n : y[k] = Entry(e, i)
    BY <1>5 DEF AllOf, Paid
  <2>1. \E k \in 1..n : decoded[k] = Entry(e, i)
    BY <1>1, <1>2, EmptyList DEF AllOf, Paid, n
  <2>2. QED
    BY <2>1, <1>4
<1>10. Apart(y, <<>>) /\ InOrder(y)
  BY <1>4, <1>5, EmptyList DEF Apart, InOrder
<1>11. NodeOK' /\ Waiting(rpcEvents)' /\ Entered(decoded)' /\ Apart(decoded, rpcEvents)'
       /\ AllOf(decoded, rpcEvents)' /\ InOrder(decoded)'
  BY <1>1, <1>2, <1>8, <1>9, <1>10 DEF NodeOK, Waiting, Entered, Owed, Apart, AllOf, Paid, InOrder
<1>12. QED
  BY <1>1, <1>11 DEF AdapterInv

LEMMA AdapterStep ==
    AdapterInv /\ [WindowNext]_windowVars => AdapterInv'
<1> SUFFICES ASSUME AdapterInv, [WindowNext]_windowVars PROVE AdapterInv'
  OBVIOUS
<1>1. CASE \E l \in Ledgers, p \in Positions, s \in Shapes : Receive(l, p, s)
  BY <1>1, ReceiveStep
<1>2. ASSUME node' = node, rpcEvents' = rpcEvents, decoded' = decoded,
             outcome' = outcome \/ outcome' = "decoding"
      PROVE  AdapterInv'
  <2>1. NodeOK' /\ Waiting(rpcEvents)' /\ Entered(decoded)' /\ Apart(decoded, rpcEvents)'
        /\ AllOf(decoded, rpcEvents)' /\ (InOrder(decoded) => InOrder(decoded)')
    BY <1>2 DEF AdapterInv, NodeOK, Waiting, Entered, Owed, Apart, AllOf, Paid, InOrder
  <2>2. QED
    BY <1>2, <2>1 DEF AdapterInv
<1>3. CASE FetchHeaders
  BY <1>2, <1>3 DEF FetchHeaders
<1>4. CASE DecodeNext
  BY <1>4, DecodeStep
<1>5. CASE Sort
  BY <1>5, SortStep
<1>6. CASE NextWindow
  <2>1. /\ node' = {} /\ rpcEvents' = <<>> /\ decoded' = <<>> /\ outcome' = "fetching"
    BY <1>6 DEF NextWindow
  <2>2. QED
    BY <2>1, EmptyList DEF AdapterInv, NodeOK, Waiting, Entered, Apart, AllOf, InOrder
<1>7. CASE UNCHANGED windowVars
  BY <1>2, <1>7 DEF windowVars
<1>8. QED
  BY <1>1, <1>3, <1>4, <1>5, <1>6, <1>7 DEF WindowNext

LEMMA AdapterAlways == WindowSpec => []AdapterInv
<1>1. WindowInit => AdapterInv
  BY AdapterInit DEF WindowInit
<1>2. AdapterInv /\ [WindowNext]_windowVars => AdapterInv'
  BY AdapterStep
<1>3. QED
  BY <1>1, <1>2, PTL DEF WindowSpec

----------------------------------------------------------------------------
(* A batch is in strict cursor order, and that is the order of the chain,  *)
(* for any widths of the fields of a TOID and of a cursor and any fan-out. *)
(* (decodeEvents, decodeEventId, encodeCursor, MAX_FANOUT.)                *)
THEOREM BatchInChainOrder == WindowSpec => []OrderKept
<1>1. AdapterInv => OrderKept
  <2> SUFFICES ASSUME AdapterInv, outcome = "batch" PROVE OrderKept
    BY DEF OrderKept
  <2> DEFINE n == Len(decoded)
  <2>1. /\ NodeOK /\ Entered(decoded) /\ InOrder(decoded)
    BY DEF AdapterInv
  <2>2. DOMAIN decoded = 1..n /\ n \in Nat /\ IsList(decoded, n)
    BY <2>1, ListLength DEF Entered, IsList
  <2>3. \A k \in 1..n : \E e, i : Owed(decoded[k], e, i)
    BY <2>1 DEF Entered
  <2>4. \A k, m \in 1..n : k < m => CompareCursors(decoded[k].cursor, decoded[m].cursor)
    BY <2>1 DEF InOrder
  <2> HIDE DEF n
  <2>5. ASSUME NEW k \in 1..n, NEW m \in 1..n, k < m
        PROVE  CompareCursors(ChainPosition(decoded[k]), ChainPosition(decoded[m]))
    <3>1. PICK e, i : Owed(decoded[k], e, i)
      BY <2>3
    <3>2. PICK f, j : Owed(decoded[m], f, j)
      BY <2>3
    <3>3. Fine(e) /\ i \in DOMAIN PartiesOf(e) /\ decoded[k] = Entry(e, i)
      BY <3>1 DEF Owed
    <3>4. Fine(f) /\ j \in DOMAIN PartiesOf(f) /\ decoded[m] = Entry(f, j)
      BY <3>2 DEF Owed
    <3>5. CompareCursors(Entry(e, i).cursor, Entry(f, j).cursor)
      BY <2>4, <2>5, <3>3, <3>4
    <3>6. CompareCursors(ChainPosition(Entry(e, i)), ChainPosition(Entry(f, j)))
      BY <3>3, <3>4, <3>5, ChainOrder
    <3>7. QED
      BY <3>3, <3>4, <3>6
  <2>6. ASSUME NEW d \in Range(decoded), NEW l \in Ledgers
        PROVE  (/\ AtMost(LedgerLowerBound(l), d.cursor)
                /\ AtMost(d.cursor, LedgerUpperBound(l)))
                 <=> d.source.ledger = l
    <3>1. PICK k \in 1..n : d = decoded[k]
      BY <2>2 DEF Range
    <3>2. PICK e, i : Owed(d, e, i)
      BY <2>3, <3>1
    <3>3. Fine(e) /\ i \in DOMAIN PartiesOf(e) /\ d = Entry(e, i)
      BY <3>2 DEF Owed
    <3>4. d.source = e
      BY <3>3 DEF Entry
    <3>5. (/\ AtMost(LedgerLowerBound(l), Entry(e, i).cursor)
           /\ AtMost(Entry(e, i).cursor, LedgerUpperBound(l)))
            <=> e.ledger = l
      BY <3>3, LedgerBounds
    <3>6. QED
      BY <3>3, <3>4, <3>5
  <2>7. QED
    BY <2>2, <2>4, <2>5, <2>6 DEF OrderKept
<1>2. QED
  BY <1>1, AdapterAlways, PTL

(* A batch holds every party of every successful confidential event of the *)
(* node once, and nobody else, for any window.  (fetchWindowEvents,        *)
(* decodeEvents, partiesFor.)                                              *)
THEOREM NoPartyLost == WindowSpec => []EveryPartyOnce
<1>1. AdapterInv => EveryPartyOnce
  <2> SUFFICES ASSUME AdapterInv, outcome = "batch" PROVE EveryPartyOnce
    BY DEF EveryPartyOnce
  <2> DEFINE n == Len(decoded)
             About(e, i) == [source |-> e, party |-> PartiesFor(e.shape)[i], index |-> i]
             about(d) == [source |-> d.source, party |-> d.party, index |-> d.index]
             happened == {e \in node : e.shape.success /\ e.shape.kind \in Confidential}
             owed == UNION {{About(e, i) : i \in DOMAIN PartiesFor(e.shape)} : e \in happened}
  <2>1. NodeOK /\ Entered(decoded) /\ AllOf(decoded, <<>>)
    BY DEF AdapterInv
  <2>2. DOMAIN decoded = 1..n /\ n \in Nat /\ IsList(decoded, n)
    BY <2>1, ListLength DEF Entered, IsList
  <2>3. /\ \A k \in 1..n : \E e, i : Owed(decoded[k], e, i)
        /\ \A k, m \in 1..n : decoded[k] = decoded[m] => k = m
    BY <2>1 DEF Entered
  <2>4. \A e \in node : Happened(e) => \A i \in DOMAIN PartiesOf(e) :
            \E k \in 1..n : decoded[k] = Entry(e, i)
    BY <2>1, EmptyList DEF AllOf, Paid
  <2>5. \A e, i : about(Entry(e, i)) = About(e, i)
    BY DEF Entry, PartiesOf
  <2>6. \A z : z \in owed <=> \E e \in happened : \E i \in DOMAIN PartiesOf(e) : z = About(e, i)
    BY DEF PartiesOf
  <2>7. \A e : e \in happened <=> e \in node /\ Happened(e)
    BY DEF Happened
  <2> DEFINE f == [k \in 1..n |-> about(decoded[k])]
  <2>8. \A k \in 1..n : f[k] = about(decoded[k])
    OBVIOUS
  <2>9. {about(d) : d \in Range(decoded)} = {f[k] : k \in 1..n}
    BY <2>2 DEF Range
  <2> HIDE DEF n, f, about, About, happened, owed
  <2>10. \A k \in 1..n : f[k] \in owed
    <3> SUFFICES ASSUME NEW k \in 1..n PROVE f[k] \in owed
      OBVIOUS
    <3>1. PICK e, i : Owed(decoded[k], e, i)
      BY <2>3
    <3>2. e \in happened /\ i \in DOMAIN PartiesOf(e) /\ decoded[k] = Entry(e, i)
      BY <3>1, <2>7 DEF Owed
    <3>3. QED
      BY <3>2, <2>5, <2>6, <2>8
  <2>11. \A z \in owed : \E k \in 1..n : f[k] = z
    BY <2>4, <2>5, <2>6, <2>7, <2>8
  <2>12. ASSUME NEW k \in 1..n, NEW m \in 1..n, f[k] = f[m] PROVE k = m
    <3>1. PICK e, i : Owed(decoded[k], e, i)
      BY <2>3
    <3>2. PICK g, j : Owed(decoded[m], g, j)
      BY <2>3
    <3>3. decoded[k] = Entry(e, i) /\ decoded[m] = Entry(g, j)
      BY <3>1, <3>2 DEF Owed
    <3>4. About(e, i) = About(g, j)
      BY <3>3, <2>5, <2>8, <2>12
    <3>5. e = g /\ i = j
      BY <3>4 DEF About
    <3>6. QED
      BY <3>3, <3>5, <2>3
  <2>13. {f[k] : k \in 1..n} = owed
    BY <2>10, <2>11
  <2>14. Cardinality(owed) = n
    <3>1. f \in [1..n -> owed]
      BY <2>10 DEF f
    <3>2. f \in Bijection(1..n, owed)
      BY <3>1, <2>11, <2>12 DEF Bijection, Injection, Surjection, IsInjective
    <3>3. ExistsBijection(1..n, owed)
      BY <3>2 DEF ExistsBijection
    <3>4. QED
      BY <3>3, <2>2, FS_CountingElements
  <2>15. Cardinality(owed) = n
    BY <2>14
  <2>16. QED
    BY <2>9, <2>13, <2>15 DEF EveryPartyOnce, n, about, About, happened, owed
<1>2. QED
  BY <1>1, AdapterAlways, PTL

----------------------------------------------------------------------------
(* The client.  The first lemma reduces its steps to six kinds of moves of *)
(* one caller; everything else is proved of these.                         *)
USE RpcClientAssumption

Reasons == {"passing", "refused", "error", "result"}

CallRecords ==
    [pc : {"idle", "slot", "request", "body", "backoff"},
     outcome : {"none", "result", "protocol", "unavailable"},
     attempt : Nat, backoff : Nat \ {0}, due : Nat, readAt : Nat, begun : Nat,
     heard : Seq(Reasons)]

Typed ==
    /\ now \in Nat /\ nextSlotAt \in Nat /\ made \in Nat
    /\ sent \in Seq(Nat)
    /\ call \in [Callers -> CallRecords]

----------------------------------------------------------------------------
(* The moves of a caller whose call becomes q.                             *)

Sending(q) == q.pc = "request" /\ q.due = now + RequestTimeout /\ sent' = Append(sent, now)

(* A first or a further attempt: at once, or towards the next slot.        *)
Begins(c, q) ==
    /\ q.outcome = "none"
    /\ \/ call[c].pc = "idle" /\ q.attempt = 1 /\ q.begun = now /\ q.heard = << >>
       \/ /\ call[c].pc = "backoff" /\ call[c].due <= now
          /\ q.attempt = call[c].attempt + 1
          /\ q.begun = call[c].begun /\ q.heard = call[c].heard

AtOnce(c, q) ==
    /\ Begins(c, q) /\ Sending(q)
    /\ nextSlotAt <= now /\ nextSlotAt' = now + MinInterval

InLine(c, q) ==
    /\ Begins(c, q)
    /\ nextSlotAt > now /\ q.pc = "slot" /\ q.due = nextSlotAt /\ q.readAt = now
    /\ UNCHANGED <<nextSlotAt, sent>>

Keeps(c, q) ==
    /\ q.outcome = call[c].outcome /\ q.attempt = call[c].attempt
    /\ q.begun = call[c].begun /\ q.heard = call[c].heard

AtTurn(c, q) ==
    /\ Keeps(c, q) /\ Sending(q)
    /\ call[c].pc = "slot" /\ call[c].due <= now
    /\ nextSlotAt' = GreaterOf(call[c].readAt, nextSlotAt) + MinInterval

Asked(c) == call[c].pc \in {"request", "body"} /\ UNCHANGED <<nextSlotAt, sent>>

Reads(c, q) ==
    Asked(c) /\ Keeps(c, q) /\ q.pc = "body" /\ q.due = call[c].due

Pauses(c, q) ==
    /\ Asked(c) /\ call[c].attempt < MaxAttempts
    /\ q.pc = "backoff" /\ now <= q.due /\ q.due <= now + MaxBackoff - 1
    /\ q.outcome = call[c].outcome /\ q.attempt = call[c].attempt /\ q.begun = call[c].begun
    /\ q.heard = Append(call[c].heard, "passing")

Ends(c, q) ==
    /\ Asked(c) /\ q.pc = "idle"
    /\ \E reason \in Reasons :
          /\ q.heard = Append(call[c].heard, reason)
          /\ \/ reason = "result" /\ q.outcome = "result"
             \/ reason = "error" /\ q.outcome = "protocol"
             \/ reason = "refused" /\ q.outcome = "unavailable"
             \/ reason = "passing" /\ q.outcome = "unavailable" /\ ~(call[c].attempt < MaxAttempts)

Moves(c, q) ==
    /\ call' = [call EXCEPT ![c] = q] /\ now' = now
    /\ \/ AtOnce(c, q) \/ InLine(c, q) \/ AtTurn(c, q)
       \/ Reads(c, q) \/ Pauses(c, q) \/ Ends(c, q)

CallerStep(c) ==
    \/ Call(c) \/ WakeInSlot(c) \/ WakeToRetry(c)
    \/ Respond(c) \/ ReadBody(c) \/ LoseRequest(c) \/ TimeOut(c)

(* A new attempt is sent at once or waits for the next slot.               *)
LEMMA AttemptMoves ==
    ASSUME Typed, NEW c \in Callers, NEW r \in CallRecords, Attempt(c, r), now' = now,
           r.outcome = "none",
           \/ call[c].pc = "idle" /\ r.attempt = 0 /\ r.begun = now /\ r.heard = << >>
           \/ r = call[c] /\ call[c].pc = "backoff" /\ call[c].due <= now
    PROVE  \E q \in CallRecords : Moves(c, q)
<1>1. now \in Nat /\ nextSlotAt \in Nat
  BY DEF Typed
<1>2. CASE nextSlotAt <= now
  <2> DEFINE q == [[r EXCEPT !.attempt = @ + 1, !.readAt = now]
                     EXCEPT !.pc = "request", !.readAt = 0, !.due = now + RequestTimeout]
  <2>1. /\ call' = [call EXCEPT ![c] = q]
        /\ sent' = Append(sent, now) /\ nextSlotAt' = Reserved(now)
    BY <1>2 DEF Attempt, Send, CallRecords
  <2>2. nextSlotAt' = now + MinInterval
    BY <1>1, <1>2, <2>1 DEF Reserved, GreaterOf
  <2>3. q \in CallRecords
    <3>1. now + RequestTimeout \in Nat /\ r.attempt + 1 \in Nat
      BY <1>1 DEF CallRecords
    <3>2. QED
      BY <1>1, <3>1 DEF CallRecords
  <2>4. /\ q.pc = "request" /\ q.due = now + RequestTimeout /\ q.outcome = r.outcome
        /\ q.attempt = r.attempt + 1 /\ q.begun = r.begun /\ q.heard = r.heard
    BY DEF CallRecords
  <2> HIDE DEF q
  <2>5. Begins(c, q)
    BY <2>4 DEF Begins, CallRecords
  <2>6. AtOnce(c, q)
    BY <1>2, <2>1, <2>2, <2>4, <2>5 DEF AtOnce, Sending
  <2>7. QED
    BY <2>1, <2>3, <2>6 DEF Moves
<1>3. CASE ~(nextSlotAt <= now)
  <2> DEFINE q == [[r EXCEPT !.attempt = @ + 1, !.readAt = now]
                     EXCEPT !.pc = "slot", !.due = nextSlotAt]
  <2>1. call' = [call EXCEPT ![c] = q] /\ UNCHANGED <<nextSlotAt, sent>>
    BY <1>3 DEF Attempt
  <2>2. q \in CallRecords
    <3>1. r.attempt + 1 \in Nat
      BY DEF CallRecords
    <3>2. QED
      BY <1>1, <3>1 DEF CallRecords
  <2>3. /\ q.pc = "slot" /\ q.due = nextSlotAt /\ q.readAt = now /\ q.outcome = r.outcome
        /\ q.attempt = r.attempt + 1 /\ q.begun = r.begun /\ q.heard = r.heard
    BY DEF CallRecords
  <2> HIDE DEF q
  <2>4. Begins(c, q)
    BY <2>3 DEF Begins, CallRecords
  <2>5. InLine(c, q)
    BY <1>1, <1>3, <2>1, <2>3, <2>4 DEF InLine
  <2>6. QED
    BY <2>1, <2>2, <2>5 DEF Moves
<1>4. QED
  BY <1>2, <1>3

(* A failure ends the call, or lets it pause for another attempt.          *)
LEMMA FailureMoves ==
    ASSUME Typed, NEW c \in Callers, NEW reason \in {"passing", "refused", "error"},
           Failed(c, reason), now' = now, call[c].pc \in {"request", "body"}
    PROVE  \E q \in CallRecords : Moves(c, q)
<1> DEFINE heard == Append(call[c].heard, reason)
<1>1. /\ now \in Nat /\ call[c] \in CallRecords /\ heard \in Seq(Reasons)
  BY AppendProperties DEF Typed, CallRecords, Reasons
<1>2. CASE Final(reason) \/ ~(call[c].attempt < MaxAttempts)
  <2>1. PICK last \in {"protocol", "unavailable"} :
          /\ Settle(c, last, heard)
          /\ \/ reason = "error" /\ last = "protocol"
             \/ reason = "refused" /\ last = "unavailable"
             \/ /\ reason = "passing" /\ last = "unavailable"
                /\ ~(call[c].attempt < MaxAttempts)
    BY <1>2 DEF Failed, Final, RetryOrGiveUp
  <2> DEFINE q == [NoCall EXCEPT !.outcome = last, !.heard = heard]
  <2>2. q \in CallRecords
    BY <1>1 DEF NoCall, CallRecords
  <2>3. q.pc = "idle" /\ q.outcome = last /\ q.heard = heard
    BY DEF NoCall
  <2>4. call' = [call EXCEPT ![c] = q] /\ UNCHANGED <<nextSlotAt, sent>>
    BY <2>1 DEF Settle
  <2> HIDE DEF q
  <2>5. Ends(c, q)
    BY <2>1, <2>3, <2>4 DEF Ends, Asked, Reasons
  <2>6. QED
    BY <2>2, <2>4, <2>5 DEF Moves
<1>3. CASE ~Final(reason) /\ call[c].attempt < MaxAttempts
  <2>1. reason = "passing"
    BY <1>3 DEF Final
  <2>2. PICK delay \in 0 .. LesserOf(call[c].backoff, MaxBackoff) - 1 :
          /\ call' = [call EXCEPT ![c] =
                         [call[c] EXCEPT !.pc = "backoff", !.due = now + delay, !.heard = heard,
                                         !.backoff = LesserOf(2 * @, MaxBackoff)]]
          /\ UNCHANGED <<nextSlotAt, sent>>
    BY <1>3 DEF Failed, RetryOrGiveUp
  <2> DEFINE q == [call[c] EXCEPT !.pc = "backoff", !.due = now + delay, !.heard = heard,
                                  !.backoff = LesserOf(2 * @, MaxBackoff)]
  <2>3. delay \in Nat /\ delay <= MaxBackoff - 1 /\ LesserOf(2 * call[c].backoff, MaxBackoff) \in Nat \ {0}
    <3>1. call[c].backoff \in Nat \ {0} /\ MaxBackoff \in Nat \ {0}
      BY <1>1 DEF CallRecords
    <3>2. LesserOf(call[c].backoff, MaxBackoff) - 1 <= MaxBackoff - 1
      BY <3>1 DEF LesserOf
    <3>3. LesserOf(call[c].backoff, MaxBackoff) \in Nat
      BY <3>1 DEF LesserOf
    <3>4. LesserOf(2 * call[c].backoff, MaxBackoff) \in Nat \ {0}
      BY <3>1 DEF LesserOf
    <3>5. QED
      BY <3>1, <3>2, <3>3, <3>4
  <2>4. q \in CallRecords
    <3>1. now + delay \in Nat
      BY <1>1, <2>3
    <3>2. QED
      BY <1>1, <2>3, <3>1 DEF CallRecords
  <2>5. /\ q.pc = "backoff" /\ q.due = now + delay /\ q.heard = heard
        /\ q.outcome = call[c].outcome /\ q.attempt = call[c].attempt /\ q.begun = call[c].begun
    BY <1>1 DEF CallRecords
  <2> HIDE DEF q
  <2>6. now <= q.due /\ q.due <= now + MaxBackoff - 1
    BY <1>1, <2>3, <2>5
  <2>7. Pauses(c, q)
    BY <1>3, <2>1, <2>2, <2>5, <2>6 DEF Pauses, Asked
  <2>8. QED
    BY <2>2, <2>4, <2>7 DEF Moves, q
<1>4. QED
  BY <1>2, <1>3

(* What is idle has no attempts behind it, what is not has no outcome yet. *)
Fresh == \A c \in Callers : call[c].pc # "idle" => call[c].outcome = "none"

(* Every step of a caller is one of the moves.                             *)
LEMMA StepMoves ==
    ASSUME Typed, Fresh, NEW c \in Callers, CallerStep(c)
    PROVE  \E q \in CallRecords : Moves(c, q)
<1>1. now \in Nat /\ call[c] \in CallRecords
  BY DEF Typed
<1>2. CASE Call(c)
  <2> DEFINE r == [NoCall EXCEPT !.begun = now]
  <2>1. r \in CallRecords
    <3>1. << >> \in Seq(Reasons)
      OBVIOUS
    <3>2. QED
      BY <1>1, <3>1 DEF NoCall, CallRecords
  <2>2. r.outcome = "none" /\ r.attempt = 0 /\ r.begun = now /\ r.heard = << >>
    BY DEF NoCall
  <2>3. Attempt(c, r) /\ now' = now /\ call[c].pc = "idle"
    BY <1>2 DEF Call
  <2> HIDE DEF r
  <2>4. QED
    BY <2>1, <2>2, <2>3, AttemptMoves
<1>3. CASE WakeToRetry(c)
  <2>1. Attempt(c, call[c]) /\ now' = now /\ call[c].pc = "backoff" /\ call[c].due <= now
    BY <1>3 DEF WakeToRetry
  <2>2. call[c].outcome = "none"
    BY <2>1 DEF Fresh
  <2>3. QED
    BY <1>1, <2>1, <2>2, AttemptMoves
<1>4. CASE WakeInSlot(c)
  <2> DEFINE q == [call[c] EXCEPT !.pc = "request", !.readAt = 0, !.due = now + RequestTimeout]
  <2>1. /\ call' = [call EXCEPT ![c] = q] /\ now' = now
        /\ sent' = Append(sent, now) /\ nextSlotAt' = GreaterOf(call[c].readAt, nextSlotAt) + MinInterval
        /\ call[c].pc = "slot" /\ call[c].due <= now
    BY <1>4 DEF WakeInSlot, Send, Reserved
  <2>2. q \in CallRecords
    <3>1. now + RequestTimeout \in Nat
      BY <1>1
    <3>2. QED
      BY <1>1, <3>1 DEF CallRecords
  <2>3. q.pc = "request" /\ q.due = now + RequestTimeout /\ Keeps(c, q)
    BY <1>1 DEF CallRecords, Keeps
  <2> HIDE DEF q
  <2>4. QED
    BY <2>1, <2>2, <2>3 DEF Moves, AtTurn, Sending
<1>5. CASE Respond(c) /\ call' = [call EXCEPT ![c] = Body(@)] /\ UNCHANGED <<nextSlotAt, sent>>
  <2> DEFINE q == [call[c] EXCEPT !.pc = "body"]
  <2>1. call' = [call EXCEPT ![c] = q] /\ now' = now /\ call[c].pc = "request"
    BY <1>5 DEF Respond, Body
  <2>2. q \in CallRecords /\ q.pc = "body" /\ q.due = call[c].due /\ Keeps(c, q)
    BY <1>1 DEF CallRecords, Keeps
  <2> HIDE DEF q
  <2>3. QED
    BY <1>5, <2>1, <2>2 DEF Moves, Reads, Asked
<1>6. CASE ReadBody(c) /\ Settle(c, "result", Append(call[c].heard, "result"))
  <2> DEFINE heard == Append(call[c].heard, "result")
             q     == [NoCall EXCEPT !.outcome = "result", !.heard = heard]
  <2>1. heard \in Seq(Reasons)
    BY <1>1, AppendProperties DEF CallRecords, Reasons
  <2>2. /\ call' = [call EXCEPT ![c] = q] /\ now' = now /\ call[c].pc = "body"
        /\ UNCHANGED <<nextSlotAt, sent>>
    BY <1>6 DEF ReadBody, Settle
  <2>3. q \in CallRecords
    BY <2>1 DEF NoCall, CallRecords
  <2>4. q.pc = "idle" /\ q.outcome = "result" /\ q.heard = heard
    BY DEF NoCall
  <2> HIDE DEF q
  <2>5. Ends(c, q)
    BY <2>2, <2>4 DEF Ends, Asked, Reasons
  <2>6. QED
    BY <2>2, <2>3, <2>5 DEF Moves
<1>7. ASSUME Failed(c, "passing") \/ Failed(c, "refused") \/ Failed(c, "error"), now' = now,
             call[c].pc \in {"request", "body"}
      PROVE  \E q \in CallRecords : Moves(c, q)
  BY <1>7, FailureMoves
<1>8. CASE LoseRequest(c) \/ TimeOut(c)
  BY <1>7, <1>8 DEF LoseRequest, TimeOut
<1>9. QED
  BY <1>2, <1>3, <1>4, <1>5, <1>6, <1>7, <1>8 DEF CallerStep, Respond, ReadBody

----------------------------------------------------------------------------
(* Types.                                                                  *)

LEMMA IdleTyped == NoCall \in CallRecords
<1>1. << >> \in Seq(Reasons)
  OBVIOUS
<1>2. QED
  BY <1>1 DEF NoCall, CallRecords

LEMMA MovesTyped ==
    ASSUME Typed, NEW c \in Callers, NEW q \in CallRecords, Moves(c, q), made' \in Nat
    PROVE  Typed'
<1>1. now' \in Nat /\ call' \in [Callers -> CallRecords]
  BY DEF Moves, Typed
<1>2. nextSlotAt' \in Nat
  <2>1. \A x \in Nat : GreaterOf(x, nextSlotAt) + MinInterval \in Nat
    BY DEF GreaterOf, Typed
  <2>2. call[c].readAt \in Nat
    BY DEF Typed, CallRecords
  <2>3. \/ nextSlotAt' = nextSlotAt \/ nextSlotAt' = now + MinInterval
        \/ nextSlotAt' = GreaterOf(call[c].readAt, nextSlotAt) + MinInterval
    BY DEF Moves, AtOnce, InLine, AtTurn, Reads, Pauses, Ends, Asked
  <2>4. now + MinInterval \in Nat /\ nextSlotAt \in Nat
    BY DEF Typed
  <2>5. QED
    BY <2>1, <2>2, <2>3, <2>4
<1>3. sent' \in Seq(Nat)
  <2>1. Append(sent, now) \in Seq(Nat) /\ sent \in Seq(Nat)
    BY AppendProperties DEF Typed
  <2>2. QED
    BY <2>1 DEF Moves, AtOnce, InLine, AtTurn, Reads, Pauses, Ends, Asked, Sending
<1>4. QED
  BY <1>1, <1>2, <1>3 DEF Typed

(* What each call has heard of its attempts, and what it was told.         *)
Told(r) ==
    /\ r.pc # "idle" =>
          /\ r.outcome = "none" /\ r.attempt \in 1..MaxAttempts
          /\ \A i \in 1 .. Len(r.heard) : r.heard[i] = "passing"
    /\ r.pc \in {"slot", "request", "body"} => Len(r.heard) = r.attempt - 1
    /\ r.pc = "backoff" => Len(r.heard) = r.attempt /\ r.attempt < MaxAttempts
    /\ r.pc = "idle" =>
          /\ Len(r.heard) <= MaxAttempts
          /\ \A i \in 1 .. Len(r.heard) - 1 : r.heard[i] = "passing"
          /\ r.outcome = "result"   => r.heard[Len(r.heard)] = "result"
          /\ r.outcome = "protocol" => r.heard[Len(r.heard)] = "error"
          /\ r.outcome = "unavailable" =>
                \/ r.heard[Len(r.heard)] = "refused"
                \/ r.heard[Len(r.heard)] = "passing" /\ Len(r.heard) = MaxAttempts

AnswerInv == Typed /\ \A c \in Callers : Told(call[c])

LEMMA InitAnswers == Init => AnswerInv
<1> SUFFICES ASSUME Init PROVE AnswerInv
  OBVIOUS
<1>1. Typed
  BY IdleTyped DEF Init, Typed
<1>2. Told(NoCall)
  BY DEF Told, NoCall
<1>3. QED
  BY <1>1, <1>2 DEF Init, AnswerInv

(* One more thing heard.                                                   *)
LEMMA HearsOne ==
    ASSUME NEW heard \in Seq(Reasons), NEW reason \in Reasons
    PROVE  /\ Append(heard, reason) \in Seq(Reasons)
           /\ Len(heard) \in Nat /\ Len(Append(heard, reason)) = Len(heard) + 1
           /\ \A i \in 1 .. Len(heard) : Append(heard, reason)[i] = heard[i]
           /\ Append(heard, reason)[Len(heard) + 1] = reason
BY AppendProperties, LenProperties

(* Each move leaves the caller told what it may be.                        *)
LEMMA MovesTold ==
    ASSUME Typed, NEW c \in Callers, Told(call[c]), NEW q \in CallRecords, Moves(c, q)
    PROVE  Told(q)
<1>1. call[c] \in CallRecords
  BY DEF Typed
<1>2. /\ call[c].heard \in Seq(Reasons) /\ q.heard \in Seq(Reasons)
      /\ call[c].attempt \in Nat /\ q.attempt \in Nat
  BY <1>1 DEF CallRecords
<1>3. PICK n \in Nat : n = Len(call[c].heard)
  BY <1>2, LenProperties
<1>4. ASSUME Begins(c, q), q.pc \in {"slot", "request"} PROVE Told(q)
  <2>1. CASE call[c].pc = "idle" /\ q.attempt = 1 /\ q.begun = now /\ q.heard = << >>
    <3>1. Len(<< >>) = 0
      OBVIOUS
    <3>2. q.outcome = "none" /\ Len(q.heard) = 0
      BY <1>4, <2>1, <3>1 DEF Begins
    <3>3. QED
      BY <1>4, <2>1, <3>2 DEF Told
  <2>2. CASE call[c].pc = "backoff" /\ q.attempt = call[c].attempt + 1 /\ q.heard = call[c].heard
    <3>1. q.outcome = "none"
      BY <1>4 DEF Begins
    <3>2. n = call[c].attempt /\ call[c].attempt < MaxAttempts
      BY <1>3, <2>2 DEF Told
    <3>3. QED
      BY <1>2, <1>3, <1>4, <2>2, <3>1, <3>2 DEF Told
  <2>3. QED
    BY <1>4, <2>1, <2>2 DEF Begins
<1>5. CASE AtOnce(c, q) \/ InLine(c, q)
  BY <1>4, <1>5 DEF AtOnce, InLine, Sending
<1>6. CASE AtTurn(c, q) \/ Reads(c, q)
  BY <1>6 DEF AtTurn, Reads, Asked, Keeps, Sending, Told
<1>7. CASE Pauses(c, q)
  <2>1. /\ Len(q.heard) = n + 1
        /\ \A i \in 1..n : q.heard[i] = call[c].heard[i]
        /\ q.heard[n + 1] = "passing"
    BY <1>2, <1>3, <1>7, HearsOne DEF Pauses, Reasons
  <2>2. \A i \in 1 .. n + 1 : i \in 1..n \/ i = n + 1
    BY <1>3
  <2>3. /\ n = call[c].attempt - 1 /\ call[c].outcome = "none"
        /\ \A i \in 1..n : call[c].heard[i] = "passing"
    BY <1>3, <1>7 DEF Pauses, Asked, Told
  <2>4. \A i \in 1 .. n + 1 : q.heard[i] = "passing"
    BY <2>1, <2>2, <2>3
  <2>5. /\ q.attempt \in 1..MaxAttempts /\ Len(q.heard) = q.attempt /\ q.attempt < MaxAttempts
        /\ q.outcome = "none" /\ q.pc = "backoff"
    <3>1. /\ q.attempt = call[c].attempt /\ call[c].attempt < MaxAttempts
          /\ q.outcome = call[c].outcome /\ q.pc = "backoff"
      BY <1>7 DEF Pauses
    <3>2. n + 1 = q.attempt /\ q.attempt \in 1..MaxAttempts
      BY <1>2, <1>3, <2>3, <3>1
    <3>3. QED
      BY <2>1, <2>3, <3>1, <3>2
  <2>6. QED
    BY <2>1, <2>4, <2>5 DEF Told
<1>8. CASE Ends(c, q)
  <2>1. PICK reason \in Reasons :
          /\ q.heard = Append(call[c].heard, reason)
          /\ \/ reason = "result" /\ q.outcome = "result"
             \/ reason = "error" /\ q.outcome = "protocol"
             \/ reason = "refused" /\ q.outcome = "unavailable"
             \/ reason = "passing" /\ q.outcome = "unavailable" /\ ~(call[c].attempt < MaxAttempts)
    BY <1>8 DEF Ends
  <2>2. /\ Len(q.heard) = n + 1
        /\ \A i \in 1..n : q.heard[i] = call[c].heard[i]
        /\ q.heard[n + 1] = reason
    BY <1>2, <1>3, <2>1, HearsOne
  <2>3. /\ n = call[c].attempt - 1 /\ call[c].attempt \in 1..MaxAttempts
        /\ \A i \in 1..n : call[c].heard[i] = "passing"
    BY <1>3, <1>8 DEF Ends, Asked, Told
  <2>4. n + 1 <= MaxAttempts /\ (~(call[c].attempt < MaxAttempts) => n + 1 = MaxAttempts)
    BY <1>2, <1>3, <2>3
  <2>5. \A i \in 1 .. Len(q.heard) - 1 : q.heard[i] = "passing"
    <3>1. \A i \in 1 .. (n + 1) - 1 : i \in 1..n
      BY <1>3
    <3>2. QED
      BY <2>2, <2>3, <3>1
  <2>6. q.pc = "idle" /\ q.heard[Len(q.heard)] = reason /\ Len(q.heard) <= MaxAttempts
    BY <1>8, <2>2, <2>4 DEF Ends
  <2>7. QED
    BY <2>1, <2>2, <2>4, <2>5, <2>6 DEF Told
<1>9. QED
  BY <1>5, <1>6, <1>7, <1>8 DEF Moves

(* A step is a tick or the move of one caller.                             *)
LEMMA Steps ==
    ASSUME AnswerInv, Next
    PROVE  \/ Tick
           \/ made' \in Nat /\ \E c \in Callers, q \in CallRecords : Moves(c, q)
<1>1. Typed /\ Fresh
  BY DEF AnswerInv, Fresh, Told
<1>2. ASSUME NEW c \in Callers, CallerStep(c) PROVE made' \in Nat
  <2>1. made' = made \/ made' = made + 1
    BY <1>2 DEF CallerStep, Call, WakeInSlot, WakeToRetry, Respond, ReadBody, LoseRequest, TimeOut
  <2>2. QED
    BY <2>1 DEF AnswerInv, Typed
<1>3. CASE \E c \in Callers : CallerStep(c)
  BY <1>1, <1>2, <1>3, StepMoves
<1>4. QED
  BY <1>3 DEF Next, CallerStep

LEMMA StepAnswers == AnswerInv /\ [Next]_vars => AnswerInv'
<1> SUFFICES ASSUME AnswerInv, [Next]_vars PROVE AnswerInv'
  OBVIOUS
<1>1. CASE Tick
  BY <1>1 DEF Tick, AnswerInv, Typed
<1>2. ASSUME made' \in Nat, NEW c \in Callers, NEW q \in CallRecords, Moves(c, q) PROVE AnswerInv'
  <2>1. Typed /\ Typed'
    BY <1>2, MovesTyped DEF AnswerInv
  <2>2. Told(q)
    BY <1>2, <2>1, MovesTold DEF AnswerInv
  <2>3. \A d \in Callers : call'[d] = IF d = c THEN q ELSE call[d]
    BY <1>2, <2>1 DEF Moves, Typed
  <2>4. QED
    BY <2>1, <2>2, <2>3 DEF AnswerInv
<1>3. CASE UNCHANGED vars
  BY <1>3 DEF vars, AnswerInv, Typed
<1>4. QED
  BY <1>1, <1>2, <1>3, Steps

LEMMA AnswersImply == AnswerInv => OneAnswer
<1> SUFFICES ASSUME AnswerInv, NEW c \in Callers,
                    NEW heard, heard = call[c].heard, NEW last, last = heard[Len(heard)]
             PROVE  /\ \A i \in 1 .. Len(heard) - 1 : heard[i] = "passing"
                    /\ Len(heard) <= MaxAttempts
                    /\ call[c].pc # "idle" => heard = << >> \/ last = "passing"
                    /\ call[c].outcome = "result"   => last = "result"
                    /\ call[c].outcome = "protocol" => last = "error"
                    /\ call[c].outcome = "unavailable" =>
                          last = "refused" \/ (last = "passing" /\ Len(heard) = MaxAttempts)
  BY DEF OneAnswer
<1>1. Told(call[c]) /\ call[c] \in CallRecords
  BY DEF AnswerInv, Typed
<1>2. heard \in Seq(Reasons)
  BY <1>1 DEF CallRecords
<1>3. PICK n \in Nat : n = Len(heard)
  BY <1>2, LenProperties
<1>4. heard = << >> \/ n \in 1..n
  BY <1>2, <1>3, EmptySeq
<1>5. CASE call[c].pc = "idle"
  BY <1>1, <1>5 DEF Told
<1>6. CASE call[c].pc # "idle"
  <2>1. \A i \in 1..n : heard[i] = "passing"
    BY <1>1, <1>3, <1>6 DEF Told
  <2>2. n <= MaxAttempts
    BY <1>1, <1>3, <1>6 DEF Told, CallRecords
  <2>3. call[c].outcome = "none" /\ \A i \in 1 .. n - 1 : i \in 1..n
    BY <1>1, <1>3, <1>6 DEF Told
  <2>4. QED
    BY <1>3, <1>4, <2>1, <2>2, <2>3
<1>7. QED
  BY <1>5, <1>6

(* OneAnswer: a call ends with the last thing it heard, whatever the node  *)
(* answers and however callers interleave.  (call, its catch block)        *)
THEOREM AnswersAreFinal == Spec => []OneAnswer
<1>1. QED
  BY InitAnswers, StepAnswers, AnswersImply, PTL DEF Spec

----------------------------------------------------------------------------
(* How requests are spaced.  Those that sleep take consecutive slots when  *)
(* they wake, in any order; what one of them can still do to the pace      *)
(* depends on how many sleep towards the same slot or an earlier one.      *)

N        == Cardinality(Callers)
Sleepers == {c \in Callers : call[c].pc = "slot"}
Before(c) == {d \in Sleepers : call[d].due <= call[c].due}
Turn(c)  == GreaterOf(now, call[c].due)
Slots(k) == k * MinInterval

Timers ==
    /\ \A i \in 1..Len(sent) : sent[i] <= now
    /\ \A c \in Busy : now <= call[c].due + Lateness
    /\ \A c \in Sleepers : call[c].readAt <= call[c].due /\ call[c].due <= nextSlotAt

(* The next slot is as far from a request as requests have followed it,    *)
(* unless these are no more than may have overslept.                       *)
SlotsAhead ==
    \A i \in 1..Len(sent) :
       \/ nextSlotAt >= sent[i] + Slots(Len(sent) - i - Overslept)
       \/ Len(sent) - i + Cardinality(Sleepers) <= Overslept

(* All that sleep towards the slot of c, or an earlier one, may go when c  *)
(* does, and the pace is kept still.                                       *)
QueueSpaced ==
    \A c \in Sleepers, i \in 1..Len(sent) :
       Turn(c) >= sent[i] + Slots(Len(sent) + Cardinality(Before(c)) - i - N - Overslept)

(* The slots are never further ahead than the callers that took them.      *)
QueueBounded ==
    /\ nextSlotAt <= now + Slots(N)
    /\ \A c \in Sleepers : nextSlotAt <= Turn(c) + Slots(N - Cardinality(Before(c)))

SpaceInv == Timers /\ SlotsAhead /\ QueueSpaced /\ QueueBounded /\ RequestsSpaced

LEMMA SlotsGrow ==
    ASSUME NEW k \in Int, NEW m \in Int
    PROVE  /\ Slots(k) \in Int
           /\ Slots(k + 1) = Slots(k) + MinInterval
           /\ k <= m => Slots(k) <= Slots(m)
           /\ k <= 0 => Slots(k) <= 0
           /\ k >= 0 => Slots(k) >= 0
           /\ k >= 1 => Slots(k) >= MinInterval
<1>1. /\ k * MinInterval \in Int /\ m * MinInterval \in Int
      /\ (k + 1) * MinInterval = k * MinInterval + MinInterval
  OBVIOUS
<1>2. ASSUME NEW a \in Nat PROVE a * MinInterval >= 0
  OBVIOUS
<1>3. k <= m => (m - k) * MinInterval >= 0 /\ (m - k) * MinInterval = m * MinInterval - k * MinInterval
  BY <1>2
<1>4. k <= 0 => (0 - k) * MinInterval >= 0 /\ (0 - k) * MinInterval = 0 - k * MinInterval
  BY <1>2
<1>5. k >= 0 => k * MinInterval >= 0
  BY <1>2
<1>6. k >= 1 => (k - 1) * MinInterval >= 0 /\ (k - 1) * MinInterval = k * MinInterval - MinInterval
  BY <1>2
<1>7. QED
  BY <1>1, <1>3, <1>4, <1>5, <1>6 DEF Slots

LEMMA CallersCounted == N \in Nat \ {0} /\ Overslept \in Nat /\ Overslept <= N
<1>1. N \in Nat /\ N # 0
  BY FS_CardinalityType, FS_EmptySet DEF N
<1>2. QED
  BY <1>1 DEF N, Overslept

(* How many sleep, and towards which slots.                                *)
LEMMA SleepersCounted ==
    /\ IsFiniteSet(Sleepers) /\ Cardinality(Sleepers) \in Nat /\ Cardinality(Sleepers) <= N
    /\ (\E c \in Callers : c \notin Sleepers) => Cardinality(Sleepers) <= N - 1
    /\ \A c \in Sleepers :
          /\ IsFiniteSet(Before(c)) /\ Cardinality(Before(c)) \in Nat
          /\ Cardinality(Before(c)) <= Cardinality(Sleepers)
<1>1. Sleepers \subseteq Callers
  BY DEF Sleepers
<1>2. IsFiniteSet(Sleepers) /\ Cardinality(Sleepers) \in Nat /\ Cardinality(Sleepers) <= N
  BY <1>1, FS_Subset, FS_CardinalityType DEF N
<1>3. (\E c \in Callers : c \notin Sleepers) => Cardinality(Sleepers) <= N - 1
  <2>1. Cardinality(Sleepers) = N => Sleepers = Callers
    BY <1>1, FS_Subset DEF N
  <2>2. QED
    BY <1>2, <2>1, CallersCounted
<1>4. ASSUME NEW c \in Sleepers
      PROVE  /\ IsFiniteSet(Before(c)) /\ Cardinality(Before(c)) \in Nat
             /\ Cardinality(Before(c)) <= Cardinality(Sleepers)
  <2>1. Before(c) \subseteq Sleepers
    BY DEF Before
  <2>2. QED
    BY <1>2, <2>1, FS_Subset, FS_CardinalityType
<1>5. QED
  BY <1>2, <1>3, <1>4

(* A sleeper counts itself, and one more than a sleeper that is due before.*)
LEMMA EarlierFewer ==
    ASSUME Typed, NEW c \in Sleepers
    PROVE  /\ Cardinality(Before(c)) >= 1
           /\ \A d \in Sleepers : call[d].due < call[c].due =>
                 Cardinality(Before(d)) + 1 <= Cardinality(Before(c))
<1>1. \A d \in Sleepers : call[d].due \in Nat
  BY DEF Sleepers, Typed, CallRecords
<1>2. c \in Before(c)
  BY <1>1 DEF Before
<1>3. /\ IsFiniteSet(Before(c) \ {c}) /\ Cardinality(Before(c) \ {c}) \in Nat
      /\ Cardinality(Before(c) \ {c}) = Cardinality(Before(c)) - 1
      /\ Cardinality(Before(c)) \in Nat
  BY <1>2, SleepersCounted, FS_RemoveElement, FS_CardinalityType
<1>4. ASSUME NEW d \in Sleepers, call[d].due < call[c].due
      PROVE  Cardinality(Before(d)) + 1 <= Cardinality(Before(c))
  <2>1. Before(d) \subseteq Before(c) \ {c}
    BY <1>1, <1>4 DEF Before
  <2>2. Cardinality(Before(d)) <= Cardinality(Before(c) \ {c}) /\ Cardinality(Before(d)) \in Nat
    BY <1>3, <2>1, FS_Subset, FS_CardinalityType
  <2>3. QED
    BY <1>3, <2>2
<1>5. QED
  BY <1>3, <1>4

(* A request more.                                                         *)
LEMMA OneMoreSent ==
    ASSUME Typed, sent' = Append(sent, now)
    PROVE  /\ Len(sent) \in Nat /\ Len(sent') = Len(sent) + 1
           /\ \A i \in 1 .. Len(sent) : sent'[i] = sent[i] /\ sent[i] \in Nat
           /\ sent'[Len(sent) + 1] = now
           /\ \A i \in 1 .. Len(sent) + 1 : i \in 1 .. Len(sent) \/ i = Len(sent) + 1
<1>1. sent \in Seq(Nat) /\ now \in Nat
  BY DEF Typed
<1>2. QED
  BY <1>1, AppendProperties, LenProperties, ElementOfSeq

LEMMA Spaced ==
    ASSUME Typed, SpaceInv, NEW i \in 1..Len(sent), NEW j \in 1..Len(sent), i < j
    PROVE  sent[j] - sent[i] >= Slots(j - i - N - Overslept)
<1>1. DOMAIN sent = 1..Len(sent)
  BY LenProperties DEF Typed
<1>2. sent[j] - sent[i] >= (j - i - N - Overslept) * MinInterval
  BY <1>1 DEF SpaceInv, RequestsSpaced, N
<1>3. QED
  BY <1>2 DEF Slots

(* A move that is not to or from the sleepers leaves their queue alone.    *)
LEMMA QueueSame ==
    ASSUME Typed, NEW c \in Callers, NEW q \in CallRecords, call' = [call EXCEPT ![c] = q],
           c \notin Sleepers, q.pc # "slot"
    PROVE  /\ Sleepers' = Sleepers
           /\ \A d \in Sleepers : call'[d] = call[d] /\ Before(d)' = Before(d)
<1>1. \A d \in Callers : call'[d] = IF d = c THEN q ELSE call[d]
  BY DEF Typed
<1>2. Sleepers' = Sleepers
  BY <1>1 DEF Sleepers
<1>3. \A d \in Sleepers : d \in Callers /\ d # c
  BY DEF Sleepers
<1>4. \A d \in Sleepers : call'[d] = call[d]
  BY <1>1, <1>3
<1>5. QED
  BY <1>2, <1>4 DEF Before

(* A request sent at once: the slots that nobody took are lost.            *)
LEMMA AtOnceSpaced ==
    ASSUME Typed, SpaceInv, NEW c \in Callers, NEW q \in CallRecords,
           call' = [call EXCEPT ![c] = q], now' = now, AtOnce(c, q)
    PROVE  SlotsAhead' /\ QueueSpaced' /\ QueueBounded' /\ RequestsSpaced'
<1>1. /\ now \in Nat /\ nextSlotAt \in Nat /\ nextSlotAt <= now
      /\ nextSlotAt' = now + MinInterval /\ sent' = Append(sent, now) /\ MinInterval \in Nat
  BY DEF AtOnce, Sending, Typed
<1>2. c \notin Sleepers /\ q.pc # "slot"
  BY DEF AtOnce, Begins, Sending, Sleepers
<1>3. Sleepers' = Sleepers /\ \A d \in Sleepers : call'[d] = call[d] /\ Before(d)' = Before(d)
  BY <1>2, QueueSame
<1>4. PICK l \in Nat : l = Len(sent)
  BY OneMoreSent, <1>1
<1>5. /\ Len(sent') = l + 1 /\ sent'[l + 1] = now
      /\ \A i \in 1..l : sent'[i] = sent[i] /\ sent[i] \in Nat /\ sent[i] <= now
      /\ \A i \in 1 .. l + 1 : i \in 1..l \/ i = l + 1
  BY <1>1, <1>4, OneMoreSent DEF SpaceInv, Timers
<1>6. PICK o \in Nat, n \in Nat, z \in Nat : o = Overslept /\ n = N /\ z = Cardinality(Sleepers)
  BY CallersCounted, SleepersCounted
<1>7. n >= 1 /\ z <= n - 1
  BY <1>2, <1>6, CallersCounted, SleepersCounted
<1>8. ASSUME NEW i \in 1..l PROVE now >= sent[i] + Slots(l - i - o)
  <2>1. PICK k \in Int : k = l - i - o
    OBVIOUS
  <2>2. Slots(k) \in Int /\ (k <= 0 => Slots(k) <= 0)
    BY SlotsGrow
  <2>3. nextSlotAt >= sent[i] + Slots(k) \/ l - i + z <= o
    BY <1>4, <1>6, <2>1 DEF SpaceInv, SlotsAhead
  <2>4. l - i + z <= o => k <= 0
    BY <1>6, <2>1
  <2>5. QED
    BY <1>1, <1>5, <2>1, <2>2, <2>3, <2>4
<1>9. ASSUME NEW i \in 1 .. l + 1 PROVE now + MinInterval >= sent'[i] + Slots((l + 1) - i - o)
  <2>1. CASE i \in 1..l
    <3>1. PICK k \in Int : k = l - i - o
      OBVIOUS
    <3>2. now >= sent[i] + Slots(k) /\ Slots(k) \in Int /\ Slots(k + 1) = Slots(k) + MinInterval
      BY <1>8, <2>1, <3>1, SlotsGrow
    <3>3. (l + 1) - i - o = k + 1
      BY <3>1
    <3>4. sent'[i] = sent[i] /\ sent[i] \in Nat
      BY <1>5, <2>1
    <3>5. now + MinInterval >= sent'[i] + Slots(k + 1)
      BY <1>1, <3>2, <3>4
    <3>6. QED
      BY <3>3, <3>5
  <2>2. CASE i = l + 1
    <3>1. PICK k \in Int : k = (l + 1) - i - o
      OBVIOUS
    <3>2. k <= 0
      BY <2>2, <3>1
    <3>3. Slots(k) \in Int /\ Slots(k) <= 0
      BY <3>2, SlotsGrow
    <3>4. QED
      BY <1>1, <1>5, <2>2, <3>1, <3>3
  <2>3. QED
    BY <1>5, <2>1, <2>2
<1>10. SlotsAhead'
  BY <1>1, <1>5, <1>6, <1>9 DEF SlotsAhead
<1>11. ASSUME NEW d \in Sleepers
       PROVE  /\ Cardinality(Before(d)) \in Nat /\ Cardinality(Before(d)) <= n - 1
              /\ Turn(d)' = Turn(d) /\ Turn(d) \in Nat /\ Turn(d) >= now
  <2>1. Cardinality(Before(d)) \in Nat /\ Cardinality(Before(d)) <= z
    BY <1>6, SleepersCounted
  <2>2. Turn(d)' = Turn(d)
    BY <1>3 DEF Turn
  <2>3. call[d].due \in Nat
    BY DEF Sleepers, Typed, CallRecords
  <2>4. QED
    BY <1>1, <1>6, <1>7, <2>1, <2>2, <2>3 DEF Turn, GreaterOf
<1>12. QueueSpaced'
  <2> SUFFICES ASSUME NEW d \in Sleepers, NEW i \in 1 .. l + 1
               PROVE  Turn(d) >= sent'[i] + Slots((l + 1) + Cardinality(Before(d)) - i - n - o)
    BY <1>3, <1>5, <1>6, <1>11 DEF QueueSpaced
  <2>1. PICK b \in Nat, t \in Nat : b = Cardinality(Before(d)) /\ t = Turn(d) /\ b <= n - 1 /\ t >= now
    BY <1>11
  <2>2. PICK k \in Int : k = (l + 1) + b - i - n - o
    OBVIOUS
  <2>3. CASE i \in 1..l
    <3>1. PICK m \in Int : m = l - i - o
      OBVIOUS
    <3>2. k <= m
      BY <1>6, <2>1, <2>2, <3>1
    <3>3. Slots(k) \in Int /\ Slots(m) \in Int /\ Slots(k) <= Slots(m) /\ now >= sent[i] + Slots(m)
      BY <1>8, <2>3, <3>1, <3>2, SlotsGrow
    <3>4. t >= sent'[i] + Slots(k)
      <4>1. sent'[i] = sent[i] /\ sent[i] \in Nat
        BY <1>5, <2>3
      <4>2. QED
        <5>1. now >= sent'[i] + Slots(k)
          BY <1>1, <3>3, <4>1
        <5>2. t >= now /\ t \in Nat
          BY <2>1
        <5>3. QED
          BY <1>1, <3>3, <4>1, <5>1, <5>2
    <3>5. QED
      BY <2>1, <2>2, <3>4
  <2>4. CASE i = l + 1
    <3>1. k <= 0
      BY <1>6, <2>1, <2>2, <2>4
    <3>2. Slots(k) \in Int /\ Slots(k) <= 0
      BY <3>1, SlotsGrow
    <3>3. t >= sent'[i] + Slots(k)
      <4>1. sent'[i] = now
        BY <1>5, <2>4
      <4>2. QED
        BY <1>1, <2>1, <3>2, <4>1
    <3>4. QED
      BY <2>1, <2>2, <3>3
  <2>5. QED
    BY <1>5, <2>3, <2>4
<1>13. QueueBounded'
  <2>1. Slots(n) \in Int /\ Slots(n) >= MinInterval
    BY <1>7, SlotsGrow
  <2>2. nextSlotAt' <= now' + Slots(n)
    BY <1>1, <2>1
  <2>3. ASSUME NEW d \in Sleepers PROVE nextSlotAt' <= Turn(d) + Slots(n - Cardinality(Before(d)))
    <3>1. PICK b \in Nat, t \in Nat : b = Cardinality(Before(d)) /\ t = Turn(d) /\ b <= n - 1 /\ t >= now
      BY <1>11
    <3>2. PICK k \in Int : k = n - b /\ k >= 1
      BY <3>1
    <3>3. Slots(k) \in Int /\ Slots(k) >= MinInterval
      BY <3>2, SlotsGrow
    <3>4. now + MinInterval <= t + Slots(k)
      <4>1. t >= now /\ t \in Nat
        BY <3>1
      <4>2. QED
        BY <1>1, <3>3, <4>1
    <3>5. QED
      BY <1>1, <3>1, <3>2, <3>4
  <2>4. QED
    BY <1>3, <1>6, <1>11, <2>2, <2>3 DEF QueueBounded
<1>14. RequestsSpaced'
  <2> SUFFICES ASSUME NEW i \in 1 .. l + 1, NEW j \in 1 .. l + 1, i < j
               PROVE  sent'[j] - sent'[i] >= Slots(j - i - n - o)
    BY <1>5, <1>6 DEF RequestsSpaced, Slots, N
  <2>1. CASE j \in 1..l
    <3>1. i \in 1..l
      BY <2>1
    <3>2. sent[j] - sent[i] >= Slots(j - i - n - o)
      BY <1>4, <1>6, <2>1, <3>1, Spaced
    <3>3. QED
      BY <1>5, <2>1, <3>1, <3>2
  <2>2. CASE j = l + 1
    <3>1. PICK k \in Int, m \in Int : k = j - i - n - o /\ m = l - i - o
      OBVIOUS
    <3>2. k <= m /\ i \in 1..l
      BY <1>7, <2>2, <3>1
    <3>3. Slots(k) \in Int /\ Slots(m) \in Int /\ Slots(k) <= Slots(m) /\ now >= sent[i] + Slots(m)
      BY <1>8, <3>1, <3>2, SlotsGrow
    <3>4. QED
      BY <1>1, <1>5, <2>2, <3>1, <3>2, <3>3
  <2>3. QED
    BY <1>5, <2>1, <2>2
<1>15. QED
  BY <1>10, <1>12, <1>13, <1>14

(* A sleep: the caller joins those that go at the next slot.               *)
LEMMA InLineSpaced ==
    ASSUME Typed, SpaceInv, NEW c \in Callers, NEW q \in CallRecords,
           call' = [call EXCEPT ![c] = q], now' = now, InLine(c, q)
    PROVE  SlotsAhead' /\ QueueSpaced' /\ QueueBounded' /\ RequestsSpaced'
<1>1. /\ now \in Nat /\ nextSlotAt \in Nat /\ nextSlotAt > now
      /\ nextSlotAt' = nextSlotAt /\ sent' = sent /\ MinInterval \in Nat
  BY DEF InLine, Typed
<1>2. c \notin Sleepers /\ q.pc = "slot" /\ q.due = nextSlotAt
  BY DEF InLine, Begins, Sleepers
<1>3. \A d \in Callers : call'[d] = IF d = c THEN q ELSE call[d]
  BY DEF Typed
<1>4. Sleepers' = Sleepers \cup {c}
  BY <1>2, <1>3 DEF Sleepers
<1>5. PICK l \in Nat : l = Len(sent) /\ \A i \in 1..l : sent[i] \in Nat /\ sent[i] <= now
  BY LenProperties, ElementOfSeq DEF Typed, SpaceInv, Timers
<1>6. PICK o \in Nat, n \in Nat, z \in Nat : o = Overslept /\ n = N /\ z = Cardinality(Sleepers)
  BY CallersCounted, SleepersCounted
<1>7. n >= 1 /\ z <= n - 1 /\ Cardinality(Sleepers') = z + 1 /\ IsFiniteSet(Sleepers')
  BY <1>2, <1>4, <1>6, CallersCounted, SleepersCounted, FS_AddElement
<1>8. ASSUME NEW i \in 1..l PROVE nextSlotAt >= sent[i] + Slots(l - i - o)
  <2>1. PICK k \in Int : k = l - i - o
    OBVIOUS
  <2>2. Slots(k) \in Int /\ (k <= 0 => Slots(k) <= 0)
    BY SlotsGrow
  <2>3. nextSlotAt >= sent[i] + Slots(k) \/ l - i + z <= o
    BY <1>5, <1>6, <2>1 DEF SpaceInv, SlotsAhead
  <2>4. l - i + z <= o => k <= 0
    BY <1>6, <2>1
  <2>5. QED
    BY <1>1, <1>5, <2>1, <2>2, <2>3, <2>4
<1>9. SlotsAhead'
  BY <1>1, <1>5, <1>6, <1>8 DEF SlotsAhead
(* Who is due before the next slot has nobody new before it; the others    *)
(* have at most everybody.                                                 *)
<1>10. ASSUME NEW d \in Sleepers'
       PROVE  /\ Cardinality(Before(d)') \in Nat /\ Cardinality(Before(d)') <= n
              /\ Turn(d)' \in Nat /\ Turn(d)' >= now
              /\ \/ d \in Sleepers /\ Before(d)' = Before(d) /\ Turn(d)' = Turn(d)
                 \/ Turn(d)' = nextSlotAt
  <2>1. Before(d)' \subseteq Sleepers'
    BY DEF Before
  <2>2. Cardinality(Before(d)') \in Nat /\ Cardinality(Before(d)') <= n
    BY <1>7, <2>1, FS_Subset, FS_CardinalityType
  <2>3. d \in Callers /\ call'[d].due \in Nat /\ call'[d].due <= nextSlotAt
    <3>1. CASE d = c
      BY <1>1, <1>2, <1>3, <3>1
    <3>2. CASE d \in Sleepers
      BY <1>2, <1>3, <3>2 DEF SpaceInv, Timers, Sleepers, Typed, CallRecords
    <3>3. QED
      BY <1>4, <3>1, <3>2
  <2>4. Turn(d)' \in Nat /\ Turn(d)' >= now
    BY <1>1, <2>3 DEF Turn, GreaterOf
  <2>5. CASE call'[d].due = nextSlotAt
    BY <1>1, <2>2, <2>4, <2>5 DEF Turn, GreaterOf
  <2>6. CASE call'[d].due < nextSlotAt
    <3>1. d # c /\ d \in Sleepers /\ call'[d] = call[d]
      BY <1>1, <1>2, <1>3, <1>4, <2>3, <2>6
    <3>2. Turn(d)' = Turn(d)
      BY <3>1 DEF Turn
    <3>3. \A e \in Sleepers : call'[e] = call[e]
      BY <1>2, <1>3 DEF Sleepers
    <3>4. ~(call'[c].due <= call'[d].due)
      BY <1>1, <1>2, <1>3, <2>3, <2>6
    <3>5. Before(d)' = Before(d)
      BY <1>4, <3>1, <3>3, <3>4 DEF Before
    <3>6. QED
      BY <2>2, <2>4, <3>1, <3>2, <3>5
  <2>7. QED
    BY <1>1, <2>3, <2>5, <2>6
<1>11. QueueSpaced'
  <2> SUFFICES ASSUME NEW d \in Sleepers', NEW i \in 1..l
               PROVE  Turn(d)' >= sent[i] + Slots(l + Cardinality(Before(d)') - i - n - o)
    BY <1>1, <1>5, <1>6 DEF QueueSpaced
  <2>1. PICK b \in Nat, t \in Nat : b = Cardinality(Before(d)') /\ t = Turn(d)' /\ b <= n /\ t >= now
    BY <1>10
  <2>2. CASE d \in Sleepers /\ Before(d)' = Before(d) /\ Turn(d)' = Turn(d)
    BY <1>5, <1>6, <2>2 DEF SpaceInv, QueueSpaced
  <2>3. CASE t = nextSlotAt
    <3>1. PICK k \in Int, m \in Int : k = l + b - i - n - o /\ m = l - i - o
      OBVIOUS
    <3>2. k <= m
      BY <1>6, <2>1, <3>1
    <3>3. Slots(k) \in Int /\ Slots(m) \in Int /\ Slots(k) <= Slots(m) /\ t >= sent[i] + Slots(m)
      BY <1>8, <2>3, <3>1, <3>2, SlotsGrow
    <3>4. sent[i] \in Nat
      BY <1>5
    <3>5. t >= sent[i] + Slots(k)
      BY <2>1, <3>3, <3>4
    <3>6. QED
      BY <2>1, <3>1, <3>5
  <2>4. QED
    BY <1>10, <2>1, <2>2, <2>3
<1>12. QueueBounded'
  <2>1. nextSlotAt' <= now' + Slots(n)
    BY <1>1, <1>6 DEF SpaceInv, QueueBounded
  <2>2. ASSUME NEW d \in Sleepers' PROVE nextSlotAt' <= Turn(d)' + Slots(n - Cardinality(Before(d)'))
    <3>1. PICK b \in Nat, t \in Nat : b = Cardinality(Before(d)') /\ t = Turn(d)' /\ b <= n
      BY <1>10
    <3>2. CASE d \in Sleepers /\ Before(d)' = Before(d) /\ Turn(d)' = Turn(d)
      BY <1>1, <1>6, <3>2 DEF SpaceInv, QueueBounded
    <3>3. CASE t = nextSlotAt
      <4>1. PICK k \in Int : k = n - b /\ k >= 0
        BY <3>1
      <4>2. Slots(k) \in Int /\ Slots(k) >= 0
        BY <4>1, SlotsGrow
      <4>3. QED
        BY <1>1, <3>1, <3>3, <4>1, <4>2
    <3>4. QED
      BY <1>10, <3>1, <3>2, <3>3
  <2>3. QED
    BY <1>6, <2>1, <2>2 DEF QueueBounded
<1>13. RequestsSpaced'
  BY <1>1 DEF SpaceInv, RequestsSpaced
<1>14. QED
  BY <1>9, <1>11, <1>12, <1>13

(* A wake-up: the caller takes the slot after the last one taken, as late  *)
(* as its timer is; those still asleep keep their turns.                   *)
LEMMA AtTurnSpaced ==
    ASSUME Typed, SpaceInv, NEW c \in Callers, NEW q \in CallRecords,
           call' = [call EXCEPT ![c] = q], now' = now, AtTurn(c, q)
    PROVE  SlotsAhead' /\ QueueSpaced' /\ QueueBounded' /\ RequestsSpaced'
<1>1. /\ now \in Nat /\ nextSlotAt \in Nat /\ MinInterval \in Nat /\ Lateness \in Nat
      /\ sent' = Append(sent, now)
  BY DEF AtTurn, Sending, Typed
<1>2. c \in Sleepers /\ q.pc # "slot" /\ c \in Busy
  BY DEF AtTurn, Sending, Sleepers, Busy
<1>3. \A d \in Callers : call'[d] = IF d = c THEN q ELSE call[d]
  BY DEF Typed
<1>4. Sleepers' = Sleepers \ {c} /\ \A d \in Sleepers' : call'[d] = call[d]
  BY <1>2, <1>3 DEF Sleepers
<1>5. /\ call[c].due \in Nat /\ call[c].readAt \in Nat /\ call[c].readAt <= call[c].due
      /\ call[c].due <= nextSlotAt /\ call[c].due <= now /\ now <= call[c].due + Lateness
  BY <1>2 DEF SpaceInv, Timers, AtTurn, Typed, CallRecords
<1>6. nextSlotAt' = nextSlotAt + MinInterval
  <2>1. nextSlotAt' = GreaterOf(call[c].readAt, nextSlotAt) + MinInterval
    BY DEF AtTurn
  <2>2. GreaterOf(call[c].readAt, nextSlotAt) = nextSlotAt
    BY <1>1, <1>5 DEF GreaterOf
  <2>3. QED
    BY <2>1, <2>2
<1>7. PICK l \in Nat : l = Len(sent)
  BY OneMoreSent, <1>1
<1>8. /\ Len(sent') = l + 1 /\ sent'[l + 1] = now
      /\ \A i \in 1..l : sent'[i] = sent[i] /\ sent[i] \in Nat /\ sent[i] <= now
      /\ \A i \in 1 .. l + 1 : i \in 1..l \/ i = l + 1
  BY <1>1, <1>7, OneMoreSent DEF SpaceInv, Timers
<1>9. PICK o \in Nat, n \in Nat, z \in Nat : o = Overslept /\ n = N /\ z = Cardinality(Sleepers)
  BY CallersCounted, SleepersCounted
<1>10. n >= 1 /\ z <= n /\ z >= 1 /\ Cardinality(Sleepers') = z - 1
  BY <1>2, <1>4, <1>9, CallersCounted, SleepersCounted, FS_RemoveElement, FS_CardinalityType, EarlierFewer
<1>11. PICK b \in Nat : b = Cardinality(Before(c)) /\ 1 <= b /\ b <= z
  BY <1>2, <1>9, SleepersCounted, EarlierFewer
<1>12. Turn(c) = now
  BY <1>1, <1>5 DEF Turn, GreaterOf
<1>13. ASSUME NEW i \in 1..l PROVE now >= sent[i] + Slots(l + b - i - n - o)
  BY <1>2, <1>7, <1>9, <1>11, <1>12 DEF SpaceInv, QueueSpaced
<1>14. nextSlotAt <= now + Slots(n - b)
  BY <1>2, <1>9, <1>11, <1>12 DEF SpaceInv, QueueBounded
(* Of those still asleep, one that is due no earlier has one fewer before  *)
(* it, and one that is due earlier had fewer than c.                       *)
<1>15. ASSUME NEW d \in Sleepers'
       PROVE  \E t \in Nat, m \in Nat, m1 \in Nat :
                /\ t = Turn(d) /\ Turn(d)' = t /\ t >= now /\ d \in Sleepers
                /\ m = Cardinality(Before(d)) /\ m1 = Cardinality(Before(d)') /\ m1 <= n - 1
                /\ \/ m1 = m - 1
                   \/ m1 = m /\ t = now /\ m + 1 <= b
  <2>1. d \in Sleepers /\ d # c /\ call'[d] = call[d] /\ call[d].due \in Nat
    BY <1>4 DEF Sleepers, Typed, CallRecords
  <2>2. Turn(d)' = Turn(d) /\ Turn(d) \in Nat /\ Turn(d) >= now
    BY <1>1, <2>1 DEF Turn, GreaterOf
  <2>3. PICK m \in Nat : m = Cardinality(Before(d)) /\ m <= z /\ IsFiniteSet(Before(d))
    BY <1>9, <2>1, SleepersCounted
  <2>4. Before(d)' = Before(d) \ {c}
    BY <1>4, <2>1 DEF Before
  <2>5. CASE call[c].due <= call[d].due
    <3>1. c \in Before(d)
      BY <1>2, <2>5 DEF Before
    <3>2. Cardinality(Before(d) \ {c}) = m - 1 /\ m >= 1
      BY <2>1, <2>3, <3>1, FS_RemoveElement, EarlierFewer
    <3>3. m - 1 \in Nat /\ m - 1 <= n - 1
      BY <1>10, <2>3, <3>2
    <3>4. QED
      BY <2>1, <2>2, <2>3, <2>4, <3>2, <3>3
  <2>6. CASE ~(call[c].due <= call[d].due)
    <3>1. c \notin Before(d)
      BY <2>6 DEF Before
    <3>2. Before(d)' = Before(d)
      BY <2>4, <3>1
    <3>3. call[d].due < call[c].due
      BY <1>5, <2>1, <2>6
    <3>4. m + 1 <= b
      BY <1>2, <1>11, <2>1, <2>3, <3>3, EarlierFewer
    <3>5. Turn(d) = now
      BY <1>1, <1>5, <2>1, <3>3 DEF Turn, GreaterOf
    <3>6. m <= n - 1
      BY <1>10, <1>11, <2>3, <3>4
    <3>7. QED
      BY <2>1, <2>2, <2>3, <3>2, <3>4, <3>5, <3>6
  <2>7. QED
    BY <2>5, <2>6
<1>16. SlotsAhead'
  <2> SUFFICES ASSUME NEW i \in 1 .. l + 1
               PROVE  \/ nextSlotAt + MinInterval >= sent'[i] + Slots((l + 1) - i - o)
                      \/ (l + 1) - i + (z - 1) <= o
    BY <1>6, <1>8, <1>9, <1>10 DEF SlotsAhead
  <2>1. CASE i \in 1..l
    <3>1. PICK k \in Int : k = l - i - o
      OBVIOUS
    <3>2. nextSlotAt >= sent[i] + Slots(k) \/ l - i + z <= o
      BY <1>7, <1>9, <2>1, <3>1 DEF SpaceInv, SlotsAhead
    <3>3. CASE l - i + z <= o
      BY <1>9, <2>1, <3>3
    <3>4. CASE nextSlotAt >= sent[i] + Slots(k)
      <4>1. Slots(k) \in Int /\ Slots(k + 1) = Slots(k) + MinInterval /\ k + 1 = (l + 1) - i - o
        BY <3>1, SlotsGrow
      <4>2. sent'[i] = sent[i] /\ sent[i] \in Nat
        BY <1>8, <2>1
      <4>3. nextSlotAt + MinInterval >= sent'[i] + Slots(k + 1)
        BY <1>1, <3>4, <4>1, <4>2
      <4>4. QED
        BY <4>1, <4>3
    <3>5. QED
      BY <3>2, <3>3, <3>4
  <2>2. CASE i = l + 1
    <3>1. CASE Lateness <= MinInterval
      <4>1. PICK k \in Int : k = (l + 1) - i - o /\ k <= 0
        BY <2>2
      <4>2. Slots(k) \in Int /\ Slots(k) <= 0
        BY <4>1, SlotsGrow
      <4>3. sent'[i] = now
        BY <1>8, <2>2
      <4>4. nextSlotAt + MinInterval >= sent'[i] + Slots(k)
        BY <1>1, <1>5, <3>1, <4>2, <4>3
      <4>5. QED
        BY <4>1, <4>4
    <3>2. CASE ~(Lateness <= MinInterval)
      <4>1. o = n - 1
        BY <1>9, <3>2 DEF Overslept, N
      <4>2. (l + 1) - i + (z - 1) <= o
        BY <1>10, <2>2, <4>1
      <4>3. QED
        BY <4>2
    <3>3. QED
      BY <3>1, <3>2
  <2>3. QED
    BY <1>8, <2>1, <2>2
<1>17. QueueSpaced'
  <2> SUFFICES ASSUME NEW d \in Sleepers', NEW i \in 1 .. l + 1
               PROVE  Turn(d)' >= sent'[i] + Slots((l + 1) + Cardinality(Before(d)') - i - n - o)
    BY <1>8, <1>9 DEF QueueSpaced
  <2>1. PICK t \in Nat, m \in Nat, m1 \in Nat :
          /\ t = Turn(d) /\ Turn(d)' = t /\ t >= now /\ d \in Sleepers
          /\ m = Cardinality(Before(d)) /\ m1 = Cardinality(Before(d)') /\ m1 <= n - 1
          /\ \/ m1 = m - 1
             \/ m1 = m /\ t = now /\ m + 1 <= b
    BY <1>15
  <2>2. PICK k \in Int : k = (l + 1) + m1 - i - n - o
    OBVIOUS
  <2>3. CASE i \in 1..l /\ m1 = m - 1
    <3>1. k = l + m - i - n - o
      BY <2>2, <2>3
    <3>2. t >= sent[i] + Slots(k)
      BY <1>7, <1>9, <2>1, <2>3, <3>1 DEF SpaceInv, QueueSpaced
    <3>3. QED
      BY <1>8, <2>1, <2>2, <2>3, <3>2
  <2>4. CASE i \in 1..l /\ t = now /\ m1 + 1 <= b
    <3>1. PICK j \in Int : j = l + b - i - n - o
      OBVIOUS
    <3>2. k <= j
      BY <2>2, <2>4, <3>1
    <3>3. Slots(k) \in Int /\ Slots(j) \in Int /\ Slots(k) <= Slots(j) /\ now >= sent[i] + Slots(j)
      BY <1>13, <2>4, <3>1, <3>2, SlotsGrow
    <3>4. sent'[i] = sent[i] /\ sent[i] \in Nat
      BY <1>8, <2>4
    <3>5. t >= sent'[i] + Slots(k)
      BY <1>1, <2>4, <3>3, <3>4
    <3>6. QED
      BY <2>1, <2>2, <3>5
  <2>5. CASE i = l + 1
    <3>1. k <= 0
      BY <2>1, <2>2, <2>5
    <3>2. Slots(k) \in Int /\ Slots(k) <= 0 /\ sent'[i] = now
      BY <1>8, <2>5, <3>1, SlotsGrow
    <3>3. t >= sent'[i] + Slots(k)
      BY <1>1, <2>1, <3>2
    <3>4. QED
      BY <2>1, <2>2, <3>3
  <2>6. QED
    BY <1>8, <2>1, <2>3, <2>4, <2>5
<1>18. QueueBounded'
  <2>1. nextSlotAt + MinInterval <= now + Slots(n)
    <3>1. PICK k \in Int, m \in Int : k = n - b /\ m = n /\ k + 1 <= m
      BY <1>11
    <3>2. Slots(k) \in Int /\ Slots(k + 1) = Slots(k) + MinInterval
      BY SlotsGrow
    <3>3. Slots(k + 1) <= Slots(m) /\ Slots(m) \in Int
      BY <3>1, SlotsGrow
    <3>4. nextSlotAt <= now + Slots(k)
      BY <1>14, <3>1
    <3>5. nextSlotAt + MinInterval <= now + Slots(m)
      BY <1>1, <3>2, <3>3, <3>4
    <3>6. QED
      BY <3>1, <3>5
  <2>2. ASSUME NEW d \in Sleepers'
        PROVE  nextSlotAt + MinInterval <= Turn(d)' + Slots(n - Cardinality(Before(d)'))
    <3>1. PICK t \in Nat, m \in Nat, m1 \in Nat :
            /\ t = Turn(d) /\ Turn(d)' = t /\ t >= now /\ d \in Sleepers
            /\ m = Cardinality(Before(d)) /\ m1 = Cardinality(Before(d)') /\ m1 <= n - 1
            /\ \/ m1 = m - 1
               \/ m1 = m /\ t = now /\ m + 1 <= b
      BY <1>15
    <3>2. CASE m1 = m - 1
      <4>1. nextSlotAt <= t + Slots(n - m)
        BY <1>9, <3>1 DEF SpaceInv, QueueBounded
      <4>2. PICK k \in Int : k = n - m /\ k + 1 = n - m1
        BY <3>1, <3>2
      <4>3. Slots(k) \in Int /\ Slots(k + 1) = Slots(k) + MinInterval
        BY SlotsGrow
      <4>4. nextSlotAt + MinInterval <= t + Slots(k + 1)
        <5>1. nextSlotAt <= t + Slots(k)
          BY <4>1, <4>2
        <5>2. t \in Nat
          OBVIOUS
        <5>3. QED
          BY <1>1, <4>3, <5>1, <5>2
      <4>5. QED
        BY <3>1, <4>2, <4>4
    <3>3. CASE t = now /\ m1 + 1 <= b
      <4>1. PICK k \in Int, j \in Int : k = n - b /\ j = n - m1 /\ k + 1 <= j
        BY <3>3
      <4>2. Slots(k) \in Int /\ Slots(k + 1) = Slots(k) + MinInterval
        BY SlotsGrow
      <4>3. Slots(k + 1) <= Slots(j) /\ Slots(j) \in Int
        BY <4>1, SlotsGrow
      <4>4. nextSlotAt <= now + Slots(k)
        BY <1>14, <4>1
      <4>5. nextSlotAt + MinInterval <= t + Slots(j)
        BY <1>1, <3>3, <4>2, <4>3, <4>4
      <4>6. QED
        BY <3>1, <4>1, <4>5
    <3>4. QED
      BY <3>1, <3>2, <3>3
  <2>3. QED
    BY <1>6, <1>9, <2>1, <2>2 DEF QueueBounded
<1>19. RequestsSpaced'
  <2> SUFFICES ASSUME NEW i \in 1 .. l + 1, NEW j \in 1 .. l + 1, i < j
               PROVE  sent'[j] - sent'[i] >= Slots(j - i - n - o)
    BY <1>8, <1>9 DEF RequestsSpaced, Slots, N
  <2>1. CASE j \in 1..l
    <3>1. i \in 1..l
      BY <2>1
    <3>2. sent[j] - sent[i] >= Slots(j - i - n - o)
      BY <1>7, <1>9, <2>1, <3>1, Spaced
    <3>3. QED
      BY <1>8, <2>1, <3>1, <3>2
  <2>2. CASE j = l + 1
    <3>1. PICK k \in Int, m \in Int : k = j - i - n - o /\ m = l + b - i - n - o
      OBVIOUS
    <3>2. k <= m /\ i \in 1..l
      BY <1>11, <2>2, <3>1
    <3>3. Slots(k) \in Int /\ Slots(m) \in Int /\ Slots(k) <= Slots(m) /\ now >= sent[i] + Slots(m)
      BY <1>13, <3>1, <3>2, SlotsGrow
    <3>4. sent'[j] = now /\ sent'[i] = sent[i] /\ sent[i] \in Nat
      BY <1>8, <2>2, <3>2
    <3>5. sent'[j] - sent'[i] >= Slots(k)
      BY <1>1, <3>3, <3>4
    <3>6. QED
      BY <3>1, <3>5
  <2>3. QED
    BY <1>8, <2>1, <2>2
<1>20. QED
  BY <1>16, <1>17, <1>18, <1>19

(* Time passes: whoever sleeps is only due more.                           *)
LEMMA TickSpaced ==
    ASSUME Typed, SpaceInv, Tick
    PROVE  SpaceInv'
<1>1. now \in Nat /\ now' = now + 1 /\ UNCHANGED <<nextSlotAt, call, sent>> /\ nextSlotAt \in Nat
  BY DEF Tick, Typed
<1>2. Sleepers' = Sleepers /\ Busy' = Busy /\ \A d \in Sleepers : Before(d)' = Before(d)
  BY <1>1 DEF Sleepers, Busy, Before
<1>3. ASSUME NEW d \in Sleepers
      PROVE  Turn(d) \in Nat /\ Turn(d)' \in Nat /\ Turn(d) <= Turn(d)'
  <2>1. call[d].due \in Nat
    BY DEF Sleepers, Typed, CallRecords
  <2>2. QED
    BY <1>1, <2>1 DEF Turn, GreaterOf
<1>4. PICK l \in Nat : l = Len(sent) /\ \A i \in 1..l : sent[i] \in Nat /\ sent[i] <= now
  BY LenProperties, ElementOfSeq DEF Typed, SpaceInv, Timers
<1>5. Timers'
  <2>1. \A i \in 1..l : sent[i] <= now + 1
    BY <1>1, <1>4
  <2>2. ASSUME NEW c \in Busy PROVE now + 1 <= call[c].due + Lateness
    <3>1. call[c].due \in Nat /\ now < call[c].due + Lateness
      BY DEF Tick, Busy, Typed, CallRecords
    <3>2. QED
      BY <1>1, <3>1
  <2>3. \A c \in Sleepers : call[c].readAt <= call[c].due /\ call[c].due <= nextSlotAt
    BY DEF SpaceInv, Timers
  <2>4. QED
    BY <1>1, <1>2, <1>4, <2>1, <2>2, <2>3 DEF Timers
<1>6. SlotsAhead'
  BY <1>1, <1>2 DEF SpaceInv, SlotsAhead
<1>7. QueueSpaced'
  <2> SUFFICES ASSUME NEW d \in Sleepers, NEW i \in 1..l
               PROVE  Turn(d)' >= sent[i] + Slots(l + Cardinality(Before(d)) - i - N - Overslept)
    BY <1>1, <1>2, <1>4 DEF QueueSpaced
  <2>1. PICK k \in Int : k = l + Cardinality(Before(d)) - i - N - Overslept
    BY <1>4, SleepersCounted, CallersCounted
  <2>2. Turn(d) >= sent[i] + Slots(k)
    BY <1>4, <2>1 DEF SpaceInv, QueueSpaced
  <2>3. Slots(k) \in Int /\ sent[i] \in Nat
    BY <1>4, SlotsGrow
  <2>4. Turn(d)' >= sent[i] + Slots(k)
    BY <1>3, <2>2, <2>3
  <2>5. QED
    BY <2>1, <2>4
<1>8. QueueBounded'
  <2>1. PICK n \in Nat : n = N /\ Slots(n) \in Int
    BY CallersCounted, SlotsGrow
  <2>2. nextSlotAt <= now + Slots(n)
    BY <2>1 DEF SpaceInv, QueueBounded
  <2>3. nextSlotAt <= (now + 1) + Slots(n)
    BY <1>1, <2>1, <2>2
  <2>4. ASSUME NEW d \in Sleepers PROVE nextSlotAt <= Turn(d)' + Slots(n - Cardinality(Before(d)))
    <3>1. PICK k \in Int : k = n - Cardinality(Before(d))
      BY SleepersCounted
    <3>2. nextSlotAt <= Turn(d) + Slots(k) /\ Slots(k) \in Int
      BY <2>1, <3>1, SlotsGrow DEF SpaceInv, QueueBounded
    <3>3. nextSlotAt <= Turn(d)' + Slots(k)
      BY <1>1, <1>3, <3>2
    <3>4. QED
      BY <3>1, <3>3
  <2>5. QED
    BY <1>1, <1>2, <2>1, <2>3, <2>4 DEF QueueBounded
<1>9. RequestsSpaced'
  BY <1>1 DEF SpaceInv, RequestsSpaced
<1>10. QED
  BY <1>5, <1>6, <1>7, <1>8, <1>9 DEF SpaceInv

(* The timers, whoever moves.                                              *)
LEMMA MovesTimed ==
    ASSUME Typed, SpaceInv, NEW c \in Callers, NEW q \in CallRecords, Moves(c, q)
    PROVE  Timers'
<1>1. /\ now \in Nat /\ now' = now /\ nextSlotAt \in Nat
      /\ RequestTimeout \in Nat /\ MinInterval \in Nat /\ Lateness \in Nat
      /\ call' = [call EXCEPT ![c] = q]
  BY DEF Moves, Typed
<1>2. \A d \in Callers : call'[d] = IF d = c THEN q ELSE call[d]
  BY <1>1 DEF Typed
<1>3. call[c].due \in Nat /\ call[c].readAt \in Nat /\ q.due \in Nat /\ q.readAt \in Nat
  BY DEF Typed, CallRecords
<1>4. nextSlotAt <= nextSlotAt'
  <2>1. nextSlotAt' = nextSlotAt \/ AtOnce(c, q) \/ AtTurn(c, q)
    BY DEF Moves, InLine, Reads, Pauses, Ends, Asked
  <2>2. CASE AtOnce(c, q)
    BY <1>1, <2>2 DEF AtOnce
  <2>3. CASE AtTurn(c, q)
    <3>1. nextSlotAt' = GreaterOf(call[c].readAt, nextSlotAt) + MinInterval
      BY <2>3 DEF AtTurn
    <3>2. GreaterOf(call[c].readAt, nextSlotAt) \in Nat /\ GreaterOf(call[c].readAt, nextSlotAt) >= nextSlotAt
      BY <1>1, <1>3 DEF GreaterOf
    <3>3. QED
      BY <1>1, <3>1, <3>2
  <2>4. QED
    BY <1>1, <2>1, <2>2, <2>3
<1>5. \A i \in 1..Len(sent') : sent'[i] <= now
  <2>1. CASE sent' = Append(sent, now)
    BY <1>1, <2>1, OneMoreSent DEF SpaceInv, Timers
  <2>2. CASE sent' = sent
    BY <2>2 DEF SpaceInv, Timers
  <2>3. QED
    BY <2>1, <2>2 DEF Moves, AtOnce, InLine, AtTurn, Reads, Pauses, Ends, Asked, Sending
<1>6. q.pc # "idle" => now <= q.due + Lateness
  <2>1. CASE Reads(c, q)
    <3>1. q.due = call[c].due /\ c \in Busy
      BY <2>1 DEF Reads, Asked, Busy
    <3>2. QED
      BY <3>1 DEF SpaceInv, Timers
  <2>2. CASE Pauses(c, q) \/ AtOnce(c, q) \/ InLine(c, q) \/ AtTurn(c, q)
    <3>1. q.due >= now
      BY <1>1, <2>2 DEF Pauses, AtOnce, InLine, AtTurn, Sending
    <3>2. QED
      BY <1>1, <1>3, <3>1
  <2>3. CASE Ends(c, q)
    BY <2>3 DEF Ends
  <2>4. QED
    BY <2>1, <2>2, <2>3 DEF Moves
<1>7. q.pc = "slot" => q.readAt <= q.due /\ q.due <= nextSlotAt
  BY <1>1 DEF Moves, AtOnce, InLine, AtTurn, Reads, Pauses, Ends, Sending
<1>8. ASSUME NEW d \in Busy' PROVE now <= call'[d].due + Lateness
  <2>1. CASE d = c
    BY <1>2, <1>6, <2>1 DEF Busy
  <2>2. CASE d # c
    BY <1>2, <2>2 DEF Busy, SpaceInv, Timers
  <2>3. QED
    BY <2>1, <2>2
<1>9. ASSUME NEW d \in Sleepers'
      PROVE  call'[d].readAt <= call'[d].due /\ call'[d].due <= nextSlotAt'
  <2>1. call'[d].readAt <= call'[d].due /\ call'[d].due <= nextSlotAt
    <3>1. CASE d = c
      BY <1>2, <1>7, <3>1 DEF Sleepers
    <3>2. CASE d # c
      BY <1>2, <3>2 DEF Sleepers, SpaceInv, Timers
    <3>3. QED
      BY <3>1, <3>2
  <2>2. call'[d].due \in Nat /\ nextSlotAt' \in Int
    <3>1. call'[d].due \in Nat
      BY <1>2, <1>3 DEF Sleepers, Typed, CallRecords
    <3>2. GreaterOf(call[c].readAt, nextSlotAt) + MinInterval \in Int /\ now + MinInterval \in Int
      BY <1>1, <1>3 DEF GreaterOf
    <3>3. \/ nextSlotAt' = nextSlotAt \/ nextSlotAt' = now + MinInterval
          \/ nextSlotAt' = GreaterOf(call[c].readAt, nextSlotAt) + MinInterval
      BY DEF Moves, AtOnce, InLine, AtTurn, Reads, Pauses, Ends, Asked
    <3>4. nextSlotAt' \in Int
      BY <1>1, <3>2, <3>3
    <3>5. QED
      BY <3>1, <3>4
  <2>3. QED
    BY <1>1, <1>4, <2>1, <2>2
<1>10. QED
  BY <1>1, <1>5, <1>8, <1>9 DEF Timers

LEMMA MovesSpaced ==
    ASSUME Typed, SpaceInv, NEW c \in Callers, NEW q \in CallRecords, Moves(c, q)
    PROVE  SpaceInv'
<1>1. Timers' /\ call' = [call EXCEPT ![c] = q] /\ now' = now
  BY MovesTimed DEF Moves
<1>2. CASE AtOnce(c, q)
  BY <1>1, <1>2, AtOnceSpaced DEF SpaceInv
<1>3. CASE InLine(c, q)
  BY <1>1, <1>3, InLineSpaced DEF SpaceInv
<1>4. CASE AtTurn(c, q)
  BY <1>1, <1>4, AtTurnSpaced DEF SpaceInv
<1>5. CASE Reads(c, q) \/ Pauses(c, q) \/ Ends(c, q)
  <2>1. nextSlotAt' = nextSlotAt /\ sent' = sent /\ c \notin Sleepers /\ q.pc # "slot"
    BY <1>5 DEF Reads, Pauses, Ends, Asked, Sleepers
  <2>2. Sleepers' = Sleepers /\ \A d \in Sleepers : call'[d] = call[d] /\ Before(d)' = Before(d)
    BY <1>1, <2>1, QueueSame
  <2>3. \A d \in Sleepers : Turn(d)' = Turn(d)
    BY <1>1, <2>2 DEF Turn
  <2>4. SlotsAhead' /\ RequestsSpaced'
    BY <2>1, <2>2 DEF SpaceInv, SlotsAhead, RequestsSpaced
  <2>5. QueueSpaced' /\ QueueBounded'
    BY <1>1, <2>1, <2>2, <2>3 DEF SpaceInv, QueueSpaced, QueueBounded
  <2>6. QED
    BY <1>1, <2>4, <2>5 DEF SpaceInv
<1>6. QED
  BY <1>2, <1>3, <1>4, <1>5 DEF Moves

LEMMA InitSpaced == Init => SpaceInv
<1> SUFFICES ASSUME Init PROVE SpaceInv
  OBVIOUS
<1>1. now = 0 /\ nextSlotAt = 0 /\ sent = << >> /\ \A c \in Callers : call[c].pc = "idle"
  BY DEF Init, NoCall
<1>2. Sleepers = {} /\ Busy = {} /\ Len(sent) = 0 /\ DOMAIN sent = {}
  BY <1>1 DEF Sleepers, Busy
<1>3. Slots(N) \in Int /\ Slots(N) >= 0
  BY CallersCounted, SlotsGrow
<1>4. QED
  BY <1>1, <1>2, <1>3 DEF SpaceInv, Timers, SlotsAhead, QueueSpaced, QueueBounded, RequestsSpaced

LEMMA StepSpaced == AnswerInv /\ SpaceInv /\ [Next]_vars => SpaceInv'
<1> SUFFICES ASSUME AnswerInv, SpaceInv, [Next]_vars PROVE SpaceInv'
  OBVIOUS
<1>1. Typed
  BY DEF AnswerInv
<1>2. CASE Next
  BY <1>1, <1>2, Steps, TickSpaced, MovesSpaced
<1>3. CASE UNCHANGED vars
  <2>1. UNCHANGED <<now, nextSlotAt, call, sent>>
    BY <1>3 DEF vars
  <2>2. /\ Sleepers' = Sleepers /\ Busy' = Busy
        /\ \A d \in Sleepers : Before(d)' = Before(d) /\ Turn(d)' = Turn(d)
    BY <2>1 DEF Sleepers, Busy, Before, Turn
  <2>3. Timers' /\ SlotsAhead' /\ RequestsSpaced'
    BY <2>1, <2>2 DEF SpaceInv, Timers, SlotsAhead, RequestsSpaced
  <2>4. QueueSpaced' /\ QueueBounded'
    BY <2>1, <2>2 DEF SpaceInv, QueueSpaced, QueueBounded
  <2>5. QED
    BY <2>3, <2>4 DEF SpaceInv
<1>4. QED
  BY <1>2, <1>3

(* RequestsSpaced: however callers, timers, pauses and failures fall, the  *)
(* node is asked at the pace the client promises, but for one request of   *)
(* each caller and, when timers oversleep, one more of each other.         *)
(* (throttle)                                                              *)
THEOREM NodeIsSpared == Spec => []RequestsSpaced
<1>1. AnswerInv /\ SpaceInv /\ [Next]_vars => (AnswerInv /\ SpaceInv)'
  BY StepAnswers, StepSpaced
<1>2. SpaceInv => RequestsSpaced
  BY DEF SpaceInv
<1>3. QED
  BY InitAnswers, InitSpaced, <1>1, <1>2, PTL DEF Spec

----------------------------------------------------------------------------
(* How long a call takes.  The i-th attempt begins within i - 1 rounds of  *)
(* the call, a round being an attempt and a pause at their longest.        *)

Rounds(k) == k * (LongestAttempt + MaxBackoff - 1 + Lateness)
Latest(r) == r.begun + Rounds(r.attempt - 1)

OnTime(r) ==
    /\ r.pc = "slot" => r.due <= Latest(r) + Slots(N)
    /\ r.pc \in {"request", "body"} => r.due <= Latest(r) + Slots(N) + Lateness + RequestTimeout
    /\ r.pc = "backoff" => r.due <= Latest(r) + LongestAttempt + MaxBackoff - 1

TimeInv == \A c \in Busy : OnTime(call[c])

LEMMA LongestIs ==
    /\ Slots(N) \in Nat /\ LongestAttempt = Slots(N) + RequestTimeout + 2 * Lateness
    /\ LongestAttempt \in Nat /\ LongestAttempt + MaxBackoff - 1 + Lateness \in Nat
<1>1. Slots(N) \in Int /\ Slots(N) >= 0
  BY CallersCounted, SlotsGrow
<1>2. LongestAttempt = Slots(N) + RequestTimeout + 2 * Lateness
  BY DEF LongestAttempt, Slots, N
<1>3. RequestTimeout \in Nat /\ Lateness \in Nat /\ MaxBackoff \in Nat /\ MaxBackoff >= 1
  OBVIOUS
<1>4. QED
  BY <1>1, <1>2, <1>3

LEMMA RoundsGrow ==
    ASSUME NEW k \in Nat, NEW m \in Nat
    PROVE  /\ Rounds(k) \in Nat
           /\ Rounds(k + 1) = Rounds(k) + LongestAttempt + MaxBackoff - 1 + Lateness
           /\ k <= m => Rounds(k) <= Rounds(m)
<1>1. PICK w \in Nat : w = LongestAttempt + MaxBackoff - 1 + Lateness
  BY LongestIs
<1>2. k * w \in Nat /\ m * w \in Nat /\ (k + 1) * w = k * w + w
  BY <1>1
<1>3. ASSUME k <= m PROVE k * w <= m * w
  <2>1. PICK d \in Nat : d = m - k
    BY <1>3
  <2>2. d * w \in Nat /\ m * w = k * w + d * w
    BY <1>1, <2>1
  <2>3. QED
    BY <1>2, <2>2
<1>4. Rounds(k) = k * w /\ Rounds(m) = m * w /\ Rounds(k + 1) = (k + 1) * w
  BY <1>1 DEF Rounds
<1>5. LongestAttempt \in Nat /\ MaxBackoff \in Nat /\ Lateness \in Nat
  BY LongestIs
<1>6. QED
  BY <1>1, <1>2, <1>3, <1>4, <1>5

LEMMA AttemptsCounted ==
    ASSUME NEW r, Told(r), r.pc # "idle"
    PROVE  \E k \in Nat, m \in Nat : k + 1 = r.attempt /\ m + 1 = MaxAttempts /\ k <= m
<1>1. r.attempt \in 1..MaxAttempts
  BY DEF Told
<1>2. r.attempt - 1 \in Nat /\ MaxAttempts - 1 \in Nat /\ r.attempt - 1 <= MaxAttempts - 1
  BY <1>1
<1>3. (r.attempt - 1) + 1 = r.attempt /\ (MaxAttempts - 1) + 1 = MaxAttempts
  BY <1>1
<1>4. QED
  BY <1>2, <1>3

(* An attempt begins on time: at the call, or a pause after the last one.  *)
LEMMA BeginsOnTime ==
    ASSUME Typed, SpaceInv, TimeInv, NEW c \in Callers, Told(call[c]), NEW q \in CallRecords,
           Begins(c, q)
    PROVE  Latest(q) \in Nat /\ now <= Latest(q)
<1>1. now \in Nat /\ q.begun \in Nat /\ call[c].begun \in Nat /\ call[c].due \in Nat
  BY DEF Typed, CallRecords
<1>2. CASE q.attempt = 1 /\ q.begun = now
  <2>1. Rounds(0) \in Nat
    BY RoundsGrow
  <2>2. Latest(q) = now + Rounds(0)
    BY <1>2 DEF Latest
  <2>3. QED
    BY <1>1, <2>1, <2>2
<1>3. CASE /\ call[c].pc = "backoff" /\ call[c].due <= now
           /\ q.attempt = call[c].attempt + 1 /\ q.begun = call[c].begun
  <2>1. c \in Busy
    BY <1>3 DEF Busy
  <2>2. now <= call[c].due + Lateness
    BY <2>1 DEF SpaceInv, Timers
  <2>3. PICK k \in Nat : k + 1 = call[c].attempt
    BY <1>3, AttemptsCounted
  <2>4. /\ Rounds(k) \in Nat /\ Rounds(k + 1) \in Nat
        /\ Rounds(k + 1) = Rounds(k) + LongestAttempt + MaxBackoff - 1 + Lateness
    BY <2>3, RoundsGrow
  <2>5. call[c].due <= call[c].begun + Rounds(k) + LongestAttempt + MaxBackoff - 1
    <3>1. call[c].attempt - 1 = k
      BY <2>3
    <3>2. QED
      BY <1>3, <2>1, <3>1 DEF TimeInv, OnTime, Latest
  <2>6. Latest(q) = call[c].begun + Rounds(k + 1)
    <3>1. q.attempt - 1 = k + 1
      BY <1>3, <2>3
    <3>2. QED
      BY <1>3, <3>1 DEF Latest
  <2>7. LongestAttempt \in Nat /\ MaxBackoff \in Nat /\ Lateness \in Nat
    BY LongestIs
  <2>8. QED
    BY <1>1, <2>2, <2>4, <2>5, <2>6, <2>7
<1>4. QED
  BY <1>2, <1>3 DEF Begins

LEMMA MovesOnTime ==
    ASSUME Typed, SpaceInv, TimeInv, NEW c \in Callers, Told(call[c]), NEW q \in CallRecords,
           Moves(c, q), q.pc # "idle"
    PROVE  OnTime(q)
<1>1. /\ now \in Nat /\ nextSlotAt \in Nat /\ q.due \in Nat /\ call[c].due \in Nat
      /\ RequestTimeout \in Nat /\ Lateness \in Nat /\ MaxBackoff \in Nat
  BY DEF Typed, CallRecords
<1>2. PICK s \in Nat, a \in Nat : s = Slots(N) /\ a = LongestAttempt /\ a = s + RequestTimeout + 2 * Lateness
  BY LongestIs
<1>3. nextSlotAt <= now + s
  BY <1>2 DEF SpaceInv, QueueBounded
<1>4. CASE AtOnce(c, q) \/ InLine(c, q)
  <2>1. Latest(q) \in Nat /\ now <= Latest(q)
    BY <1>4, BeginsOnTime DEF AtOnce, InLine
  <2>2. CASE AtOnce(c, q)
    <3>1. q.pc = "request" /\ q.due = now + RequestTimeout
      BY <2>2 DEF AtOnce, Sending
    <3>2. q.due <= Latest(q) + s + Lateness + RequestTimeout
      BY <1>1, <1>2, <2>1, <3>1
    <3>3. QED
      BY <1>2, <3>1, <3>2 DEF OnTime
  <2>3. CASE InLine(c, q)
    <3>1. q.pc = "slot" /\ q.due = nextSlotAt
      BY <2>3 DEF InLine
    <3>2. q.due <= Latest(q) + s
      BY <1>1, <1>2, <1>3, <2>1, <3>1
    <3>3. QED
      BY <1>2, <3>1, <3>2 DEF OnTime
  <2>4. QED
    BY <1>4, <2>2, <2>3
<1>5. ASSUME ~AtOnce(c, q), ~InLine(c, q)
      PROVE  /\ Latest(q) = Latest(call[c]) /\ Latest(q) \in Nat /\ c \in Busy
             /\ OnTime(call[c]) /\ now <= call[c].due + Lateness
  <2>1. /\ q.attempt = call[c].attempt /\ q.begun = call[c].begun /\ call[c].pc # "idle"
    BY <1>5 DEF Moves, AtTurn, Reads, Pauses, Ends, Asked, Keeps
  <2>2. c \in Busy
    BY <2>1 DEF Busy
  <2>3. call[c].attempt - 1 \in Nat /\ call[c].begun \in Nat
    <3>1. PICK k \in Nat : k + 1 = call[c].attempt
      BY <2>1, AttemptsCounted
    <3>2. call[c].begun \in Nat
      BY DEF Typed, CallRecords
    <3>3. QED
      BY <3>1, <3>2
  <2>4. Rounds(call[c].attempt - 1) \in Nat
    BY <2>3, RoundsGrow
  <2>5. Latest(q) = Latest(call[c]) /\ Latest(q) \in Nat
    BY <2>1, <2>3, <2>4 DEF Latest
  <2>6. QED
    BY <2>2, <2>5 DEF TimeInv, SpaceInv, Timers
<1>6. CASE AtTurn(c, q)
  <2>1. /\ q.pc = "request" /\ q.due = now + RequestTimeout /\ call[c].pc = "slot"
        /\ ~AtOnce(c, q) /\ ~InLine(c, q)
    BY <1>6 DEF AtTurn, Sending, AtOnce, InLine, Begins
  <2>2. Latest(q) = Latest(call[c]) /\ Latest(q) \in Nat /\ OnTime(call[c]) /\ now <= call[c].due + Lateness
    BY <1>5, <2>1
  <2>3. call[c].due <= Latest(q) + s
    BY <1>2, <2>1, <2>2 DEF OnTime
  <2>4. q.due <= Latest(q) + s + Lateness + RequestTimeout
    BY <1>1, <1>2, <2>1, <2>2, <2>3
  <2>5. QED
    BY <1>2, <2>1, <2>4 DEF OnTime
<1>7. CASE Reads(c, q) \/ Pauses(c, q)
  <2>1. call[c].pc \in {"request", "body"} /\ ~AtOnce(c, q) /\ ~InLine(c, q)
    BY <1>7 DEF Reads, Pauses, Asked, AtOnce, InLine, Begins
  <2>2. Latest(q) = Latest(call[c]) /\ Latest(q) \in Nat /\ OnTime(call[c]) /\ now <= call[c].due + Lateness
    BY <1>5, <2>1
  <2>3. call[c].due <= Latest(q) + s + Lateness + RequestTimeout
    BY <1>2, <2>1, <2>2 DEF OnTime
  <2>4. CASE Reads(c, q)
    BY <1>2, <2>3, <2>4 DEF OnTime, Reads
  <2>5. CASE Pauses(c, q)
    <3>1. q.pc = "backoff" /\ q.due <= now + MaxBackoff - 1
      BY <2>5 DEF Pauses
    <3>2. q.due <= Latest(q) + a + MaxBackoff - 1
      BY <1>1, <1>2, <2>2, <2>3, <3>1
    <3>3. QED
      BY <1>2, <3>1, <3>2 DEF OnTime
  <2>6. QED
    BY <1>7, <2>4, <2>5
<1>8. QED
  BY <1>4, <1>6, <1>7 DEF Moves, Ends

LEMMA StepOnTime == AnswerInv /\ SpaceInv /\ TimeInv /\ [Next]_vars => TimeInv'
<1> SUFFICES ASSUME AnswerInv, SpaceInv, TimeInv, [Next]_vars PROVE TimeInv'
  OBVIOUS
<1>1. CASE call' = call
  BY <1>1 DEF TimeInv, Busy, OnTime
<1>2. ASSUME NEW c \in Callers, NEW q \in CallRecords, Moves(c, q) PROVE TimeInv'
  <2>1. Typed /\ Told(call[c])
    BY DEF AnswerInv
  <2>2. q.pc # "idle" => OnTime(q)
    BY <1>2, <2>1, MovesOnTime
  <2>3. \A d \in Callers : call'[d] = IF d = c THEN q ELSE call[d]
    BY <1>2, <2>1 DEF Moves, Typed
  <2>4. \A r : OnTime(r)' = OnTime(r)
    BY DEF OnTime, Latest
  <2>5. QED
    BY <2>2, <2>3 DEF TimeInv, Busy
<1>3. QED
  BY <1>1, <1>2, Steps DEF vars, Tick

(* What the bounds of the timers add up to.                                *)
LEMMA OnTimeEnds == AnswerInv /\ SpaceInv /\ TimeInv => CallsBounded
<1> SUFFICES ASSUME AnswerInv, SpaceInv, TimeInv, NEW c \in Busy
             PROVE  now - call[c].begun <= LongestCall
  BY DEF CallsBounded
<1>1. c \in Callers /\ call[c].pc # "idle"
  BY DEF Busy
<1>2. /\ now \in Nat /\ call[c].due \in Nat /\ call[c].begun \in Nat /\ call[c].attempt \in Nat
      /\ RequestTimeout \in Nat /\ Lateness \in Nat /\ MaxBackoff \in Nat /\ MaxBackoff >= 1
      /\ MaxAttempts \in Nat /\ MaxAttempts >= 1
      /\ call[c].pc \in {"idle", "slot", "request", "body", "backoff"}
  BY <1>1 DEF AnswerInv, Typed, CallRecords
<1>3. /\ now <= call[c].due + Lateness /\ OnTime(call[c]) /\ Told(call[c])
  BY <1>1 DEF SpaceInv, Timers, TimeInv, AnswerInv
<1>4. PICK s \in Nat, a \in Nat : s = Slots(N) /\ a = LongestAttempt /\ a = s + RequestTimeout + 2 * Lateness
  BY LongestIs
<1>5. PICK k \in Nat, m \in Nat : k + 1 = call[c].attempt /\ m + 1 = MaxAttempts /\ k <= m
  BY <1>1, <1>3, AttemptsCounted
<1>6. /\ Rounds(k) \in Nat /\ Rounds(m) \in Nat /\ Rounds(k) <= Rounds(m)
  BY <1>5, RoundsGrow
<1>7. Latest(call[c]) = call[c].begun + Rounds(k)
  <2>1. call[c].attempt - 1 = k
    BY <1>5
  <2>2. QED
    BY <2>1 DEF Latest
<1>8. LongestCall = Rounds(m) + a
  <2>1. LongestCall = (m + 1) * a + m * (MaxBackoff - 1 + Lateness)
    <3>1. MaxAttempts - 1 = m
      BY <1>5
    <3>2. QED
      BY <1>4, <1>5, <3>1 DEF LongestCall
  <2>2. (m + 1) * a = m * a + a
    BY <1>4, <1>5
  <2>3. PICK p \in Nat : p = MaxBackoff - 1 + Lateness
    BY <1>2
  <2>4. m * (a + p) = m * a + m * p
    BY <1>4, <1>5, <2>3
  <2>5. Rounds(m) = m * (a + p)
    <3>1. LongestAttempt + MaxBackoff - 1 + Lateness = a + p
      BY <1>2, <1>4, <2>3
    <3>2. QED
      BY <3>1 DEF Rounds
  <2>6. m * a \in Nat /\ m * p \in Nat
    BY <1>4, <1>5, <2>3
  <2>7. QED
    BY <1>4, <2>1, <2>2, <2>3, <2>4, <2>5, <2>6
<1>9. CASE call[c].pc \in {"slot", "request", "body"}
  <2>1. call[c].due <= call[c].begun + Rounds(k) + s + Lateness + RequestTimeout
    <3>1. CASE call[c].pc = "slot"
      <4>1. call[c].due <= call[c].begun + Rounds(k) + s
        BY <1>3, <1>4, <1>7, <3>1 DEF OnTime
      <4>2. QED
        BY <1>2, <1>4, <1>6, <4>1
    <3>2. CASE call[c].pc \in {"request", "body"}
      BY <1>3, <1>4, <1>7, <3>2 DEF OnTime
    <3>3. QED
      BY <1>9, <3>1, <3>2
  <2>2. now - call[c].begun <= Rounds(m) + a
    BY <1>2, <1>3, <1>4, <1>6, <2>1
  <2>3. QED
    BY <1>8, <2>2
<1>10. CASE call[c].pc = "backoff"
  <2>1. call[c].due <= call[c].begun + Rounds(k) + a + MaxBackoff - 1
    BY <1>3, <1>4, <1>7, <1>10 DEF OnTime
  <2>2. k + 1 <= m
    BY <1>3, <1>5, <1>10 DEF Told
  <2>3. /\ Rounds(k + 1) = Rounds(k) + a + MaxBackoff - 1 + Lateness
        /\ Rounds(k + 1) <= Rounds(m) /\ Rounds(k + 1) \in Nat
    BY <1>4, <1>5, <2>2, RoundsGrow
  <2>4. now - call[c].begun <= Rounds(m) + a
    BY <1>2, <1>3, <1>4, <1>6, <2>1, <2>3
  <2>5. QED
    BY <1>8, <2>4
<1>11. QED
  BY <1>1, <1>2, <1>9, <1>10

(* CallsBounded: a call lasts no longer than its attempts, its pauses and  *)
(* the slots of all callers do, whatever the node does.  (call, throttle)  *)
THEOREM CallsEnd == Spec => []CallsBounded
<1> DEFINE Inv == AnswerInv /\ SpaceInv /\ TimeInv
<1>1. Init => Inv
  <2>1. Init => TimeInv
    BY DEF Init, NoCall, TimeInv, Busy
  <2>2. QED
    BY <2>1, InitAnswers, InitSpaced
<1>2. Inv /\ [Next]_vars => Inv'
  BY StepAnswers, StepSpaced, StepOnTime
<1>3. Inv => CallsBounded
  BY OnTimeEnds
<1>4. QED
  BY <1>1, <1>2, <1>3, PTL DEF Spec
=============================================================================
