---------------------------- MODULE DigestProofs ----------------------------
(***************************************************************************)
(* Integrity digests, for every range, event, encoding and number of       *)
(* tamperings: what a root binds, and what a client that checks one can be *)
(* made to believe.  Then the client of the Redis they are cached in, for  *)
(* any number of calls: nobody gets the answer to somebody else's command. *)
(***************************************************************************)
EXTENDS Digest, RedisCache, TLAPS, SequenceTheorems, WellFoundedInduction

(* Induction up to a bound, over a set of numbers.                         *)
LEMMA UpTo ==
    ASSUME NEW lo \in Nat, NEW hi \in Nat, NEW S, lo \in S,
           \A c \in lo + 1 .. hi : c - 1 \in S => c \in S
    PROVE  lo..hi \subseteq S
<1> DEFINE R == {ss \in Nat \X Nat : ss[1] < ss[2]}
           B == (lo..hi) \ S
<1> SUFFICES ASSUME B # {} PROVE FALSE
  OBVIOUS
<1>1. B \subseteq Nat
  OBVIOUS
<1>2. PICK m \in B : \A y \in B : ~(<<y, m>> \in R)
  <2>1. IsWellFoundedOn(R, Nat)
    BY NatLessThanWellFounded DEF OpToRel
  <2> HIDE DEF R, B
  <2>2. QED
    BY <2>1, <1>1, WFMin
<1>3. m \in Nat /\ m # lo /\ m \in lo + 1 .. hi /\ m - 1 \in lo..hi /\ m - 1 \in Nat
  OBVIOUS
<1>4. m - 1 \notin B
  <2> SUFFICES ASSUME m - 1 \in B PROVE FALSE
    OBVIOUS
  <2>1. <<m - 1, m>> \in R
    BY <1>3
  <2>2. QED
    BY <1>2, <2>1
<1>5. QED
  BY <1>3, <1>4

----------------------------------------------------------------------------
(* Lists and levels of a digest.                                           *)

LEMMA PairSound ==
    \A l, r, x, y, z : /\ NodeHash(l, r) = NodeHash(x, y) => l = x /\ r = y
                       /\ NodeHash(l, r) # eventLeafHash(z)
                       /\ NodeHash(l, r) # <<"empty">> /\ eventLeafHash(z) # <<"empty">>
BY DEF NodeHash, eventLeafHash

IsList(x, n) == n \in Nat /\ x = [i \in 1..n |-> x[i]]

LEMMA ListLength == ASSUME NEW x, NEW n, IsList(x, n) PROVE Len(x) = n /\ DOMAIN x = 1..n
<1> DEFINE S == {x[i] : i \in 1..n}
<1>1. n \in Nat /\ x \in [1..n -> S]
  BY DEF IsList
<1> HIDE DEF S
<1>2. x \in Seq(S)
  BY <1>1, SeqDef
<1>3. DOMAIN x = 1..n
  BY <1>1
<1>4. QED
  BY <1>1, <1>2, <1>3, LenProperties

LEMMA PairedList ==
    ASSUME NEW x, NEW n, IsList(x, n)
    PROVE  /\ IsList(Paired(x), (n + 1) \div 2)
           /\ \A i \in 1 .. (n + 1) \div 2 :
                Paired(x)[i] = IF 2 * i <= n THEN NodeHash(x[2 * i - 1], x[2 * i]) ELSE x[2 * i - 1]
<1>1. Len(x) = n /\ n \in Nat
  BY ListLength DEF IsList
<1>2. (n + 1) \div 2 \in Nat
  BY <1>1
<1>3. Paired(x) = [i \in 1 .. (n + 1) \div 2 |->
                       IF 2 * i <= n THEN NodeHash(x[2 * i - 1], x[2 * i]) ELSE x[2 * i - 1]]
  BY <1>1 DEF Paired
<1>4. QED
  BY <1>2, <1>3 DEF IsList

(* Levels, as many as one likes: they stop changing at the root.           *)
Above(x) == IF Len(x) > 1 THEN Paired(x) ELSE x
Levels(f, n, leaves) ==
    /\ f = [i \in 0..n |-> f[i]]
    /\ f[0] = leaves
    /\ \A i \in 1..n : f[i] = Above(f[i - 1])

LEMMA LevelsExist == ASSUME NEW n \in Nat, NEW leaves PROVE \E f : Levels(f, n, leaves)
<1> DEFINE S == {m \in 0..n : \E f : Levels(f, m, leaves)}
<1>1. 0 \in S
  <2>1. Levels([i \in 0..0 |-> leaves], 0, leaves)
    BY DEF Levels
  <2>2. QED
    BY <2>1
<1>2. ASSUME NEW m \in 0 + 1 .. n, m - 1 \in S PROVE m \in S
  <2>1. PICK g : Levels(g, m - 1, leaves)
    BY <1>2
  <2> DEFINE f == [i \in 0..m |-> IF i = m THEN Above(g[m - 1]) ELSE g[i]]
  <2>2. f = [i \in 0..m |-> f[i]]
    OBVIOUS
  <2>3. f[0] = leaves
    BY <2>1 DEF Levels
  <2>4. ASSUME NEW i \in 1..m PROVE f[i] = Above(f[i - 1])
    <3>1. f[i - 1] = g[i - 1]
      OBVIOUS
    <3>2. CASE i = m
      BY <3>1, <3>2
    <3>3. CASE i # m
      <4>1. i \in 1 .. m - 1 /\ f[i] = g[i]
        BY <3>3
      <4>2. g[i] = Above(g[i - 1])
        BY <2>1, <4>1 DEF Levels
      <4>3. QED
        BY <3>1, <4>1, <4>2
    <3>4. QED
      BY <3>2, <3>3
  <2>5. Levels(f, m, leaves)
    <3> HIDE DEF f
    <3>1. QED
      BY <2>2, <2>3, <2>4 DEF Levels
  <2>6. QED
    BY <2>5
<1> HIDE DEF S
<1>3. 0..n \subseteq S
  BY <1>1, <1>2, UpTo
<1>4. n \in S
  BY <1>3
<1>5. QED
  BY <1>4 DEF S

LEMMA LevelsAgree ==
    ASSUME NEW f, NEW g, NEW m \in Nat, NEW n \in Nat, NEW leaves,
           Levels(f, m, leaves), Levels(g, n, leaves)
    PROVE  \A i \in 0..m : i <= n => f[i] = g[i]
<1> DEFINE S == {i \in 0..m : i <= n => f[i] = g[i]}
<1>1. 0 \in S
  BY DEF Levels
<1>2. ASSUME NEW i \in 0 + 1 .. m, i - 1 \in S PROVE i \in S
  <2>1. ASSUME i <= n PROVE f[i] = g[i]
    <3>1. i \in 1..m /\ i \in 1..n /\ f[i - 1] = g[i - 1]
      BY <1>2, <2>1
    <3>2. f[i] = Above(f[i - 1]) /\ g[i] = Above(g[i - 1])
      BY <3>1 DEF Levels
    <3>3. QED
      BY <3>1, <3>2
  <2>2. QED
    BY <2>1
<1> HIDE DEF S
<1>3. 0..m \subseteq S
  BY <1>1, <1>2, UpTo
<1>4. QED
  BY <1>3 DEF S

(* A level is a list, and shorter than the one below it until it is one.   *)
LEMMA LevelLengths ==
    ASSUME NEW f, NEW n \in Nat, NEW leaves, NEW m \in Nat \ {0}, IsList(leaves, m),
           Levels(f, n, leaves)
    PROVE  \A i \in 0..n : \E l \in Nat \ {0} : IsList(f[i], l) /\ l <= m /\ (l = 1 \/ l + i <= m)
<1> DEFINE P(i) == \E l \in Nat \ {0} : IsList(f[i], l) /\ l <= m /\ (l = 1 \/ l + i <= m)
           S == {i \in 0..n : P(i)}
<1>1. 0 \in S
  BY DEF Levels
<1>2. ASSUME NEW i \in 0 + 1 .. n, i - 1 \in S PROVE i \in S
  <2>1. PICK l \in Nat \ {0} : IsList(f[i - 1], l) /\ l <= m /\ (l = 1 \/ l + (i - 1) <= m)
    BY <1>2
  <2>2. f[i] = Above(f[i - 1]) /\ Len(f[i - 1]) = l
    <3>1. i \in 1..n
      OBVIOUS
    <3>2. f[i] = Above(f[i - 1])
      BY <3>1 DEF Levels
    <3>3. QED
      BY <2>1, <3>2, ListLength
  <2>3. CASE l > 1
    <3> DEFINE k == (l + 1) \div 2
    <3>1. k \in Nat \ {0} /\ k + 1 <= l
      BY <2>1, <2>3
    <3>2. IsList(f[i], k)
      BY <2>1, <2>2, <2>3, PairedList DEF Above
    <3> HIDE DEF k
    <3>3. k <= m /\ (k = 1 \/ k + i <= m)
      BY <2>1, <2>3, <3>1
    <3>4. QED
      BY <3>1, <3>2, <3>3
  <2>4. CASE l = 1
    BY <2>1, <2>2, <2>4 DEF Above
  <2>5. QED
    BY <2>1, <2>3, <2>4
<1> HIDE DEF S
<1>3. 0..n \subseteq S
  BY <1>1, <1>2, UpTo
<1>4. QED
  BY <1>3 DEF S

(* The root of a nonempty list is on top of any number of its levels that  *)
(* is not less than its length.                                            *)
Leaves(events) == [i \in DOMAIN events |-> eventLeafHash(events[i])]

RootsAs(f, events) ==
    f = [n \in 0..Len(events) |->
          IF n = 0 THEN Leaves(events)
          ELSE IF Len(f[n - 1]) > 1 THEN Paired(f[n - 1]) ELSE f[n - 1]]

LEMMA RootOnTop ==
    ASSUME NEW events, NEW m \in Nat \ {0}, IsList(events, m), NEW n \in Nat, m <= n,
           NEW f, Levels(f, n, Leaves(events))
    PROVE  merkleRoot(events) = f[n][1] /\ IsList(f[n], 1)
<1>1. Len(events) = m /\ DOMAIN events = 1..m /\ events # << >>
  BY ListLength
<1>2. IsList(Leaves(events), m)
  BY <1>1 DEF IsList, Leaves
<1>3. PICK h : Levels(h, m, Leaves(events))
  BY LevelsExist
<1>4. RootsAs(h, events)
  <2>1. h = [i \in 0..m |-> h[i]]
    BY <1>3 DEF Levels
  <2>2. ASSUME NEW i \in 0..m
        PROVE  h[i] = IF i = 0 THEN Leaves(events)
                      ELSE IF Len(h[i - 1]) > 1 THEN Paired(h[i - 1]) ELSE h[i - 1]
    <3>1. CASE i = 0
      BY <1>3, <3>1 DEF Levels
    <3>2. CASE i # 0
      <4>1. i \in 1..m
        BY <3>2
      <4>2. h[i] = Above(h[i - 1])
        BY <1>3, <4>1 DEF Levels
      <4>3. QED
        BY <3>2, <4>2 DEF Above
    <3>3. QED
      BY <3>1, <3>2
  <2>3. QED
    BY <1>1, <2>1, <2>2 DEF RootsAs
<1> DEFINE g == CHOOSE g : RootsAs(g, events)
<1>5. RootsAs(g, events)
  BY <1>4
<1>6. merkleRoot(events) = g[m][1]
  BY <1>1 DEF merkleRoot, RootsAs, Leaves
<1> HIDE DEF g
<1>7. Levels(g, m, Leaves(events))
  <2>1. ASSUME NEW i \in 1..m PROVE g[i] = Above(g[i - 1])
    BY <1>1, <1>5 DEF RootsAs, Above
  <2>2. g[0] = Leaves(events) /\ g = [i \in 0..m |-> g[i]]
    BY <1>1, <1>5 DEF RootsAs
  <2>3. QED
    BY <2>1, <2>2 DEF Levels
<1>8. m \in 0..m /\ m \in 0..n
  OBVIOUS
<1>9. g[m] = f[m]
  BY <1>7, <1>8, LevelsAgree
<1>10. ASSUME NEW i \in m..n PROVE IsList(f[i], 1)
  <2>1. i \in 0..n
    OBVIOUS
  <2>2. PICK l \in Nat \ {0} : IsList(f[i], l) /\ (l = 1 \/ l + i <= m)
    BY <1>2, <2>1, LevelLengths
  <2>3. QED
    BY <2>2
<1> DEFINE S == {i \in m..n : f[i] = f[m]}
<1>11. m \in S
  OBVIOUS
<1>12. ASSUME NEW i \in m + 1 .. n, i - 1 \in S PROVE i \in S
  <2>1. i - 1 \in m..n /\ i \in 1..n
    OBVIOUS
  <2>2. Len(f[i - 1]) = 1 /\ f[i] = Above(f[i - 1])
    BY <1>10, <2>1, ListLength DEF Levels
  <2>3. f[i] = f[i - 1]
    BY <2>2 DEF Above
  <2>4. QED
    BY <1>12, <2>3
<1> HIDE DEF S
<1>13. m..n \subseteq S
  BY <1>11, <1>12, UpTo
<1>14. f[n] = f[m]
  BY <1>13 DEF S
<1>15. QED
  BY <1>6, <1>9, <1>10, <1>14

LEMMA HalfOfALevel ==
    \A k \in Nat :
        /\ \A j \in 1 .. (k + 1) \div 2 : 2 * j - 1 \in 1..k
        /\ \A j \in 1 .. (k + 1) \div 2 - 1 : 2 * j \in 1..k /\ 2 * j - 1 \in 1 .. k - 1
<1> SUFFICES ASSUME NEW k \in Nat
             PROVE  /\ \A j \in 1 .. (k + 1) \div 2 : 2 * j - 1 \in 1..k
                    /\ \A j \in 1 .. (k + 1) \div 2 - 1 : 2 * j \in 1..k /\ 2 * j - 1 \in 1 .. k - 1
  OBVIOUS
<1> DEFINE h == (k + 1) \div 2
<1>1. h \in Nat /\ 2 * h <= k + 1
  OBVIOUS
<1> HIDE DEF h
<1>2. \A j \in 1..h : 2 * j - 1 \in 1..k
  BY <1>1
<1>3. \A j \in 1 .. h - 1 : 2 * j \in 1..k /\ 2 * j - 1 \in 1 .. k - 1
  BY <1>1
<1>4. QED
  BY <1>2, <1>3 DEF h

(* What a level consists of: leaves, pairs of neighbours below, and at most*)
(* one node, the last, that came up as it was.                             *)
Joins(x, z, k, l) ==
    /\ IsList(x, k) /\ IsList(z, l)
    /\ \/ k = 1 /\ l = 1 /\ z = x
       \/ /\ k > 1 /\ l = (k + 1) \div 2
          /\ \A j \in 1..l : z[j] = IF 2 * j <= k THEN NodeHash(x[2 * j - 1], x[2 * j])
                                  ELSE x[2 * j - 1]

LEMMA LevelParts ==
    ASSUME NEW f, NEW n \in Nat, NEW events, NEW m \in Nat \ {0}, IsList(events, m),
           Levels(f, n, Leaves(events)), NEW i \in 1..n
    PROVE  \E k, l \in Nat \ {0} : Joins(f[i - 1], f[i], k, l)
<1>1. IsList(Leaves(events), m)
  <2>1. DOMAIN events = 1..m
    BY ListLength
  <2>2. QED
    BY <2>1 DEF IsList, Leaves
<1>2. i - 1 \in 0..n
  OBVIOUS
<1>3. PICK k \in Nat \ {0} : IsList(f[i - 1], k)
  BY <1>1, <1>2, LevelLengths
<1>4. f[i] = Above(f[i - 1]) /\ Len(f[i - 1]) = k
  BY <1>3, ListLength DEF Levels
<1>5. CASE k = 1
  BY <1>3, <1>4, <1>5 DEF Above, Joins
<1>6. CASE k > 1
  <2> DEFINE l == (k + 1) \div 2
  <2>1. l \in Nat \ {0}
    BY <1>3
  <2>2. f[i] = Paired(f[i - 1])
    BY <1>4, <1>6 DEF Above
  <2>3. /\ IsList(f[i], l)
        /\ \A j \in 1..l : f[i][j] = IF 2 * j <= k
                                     THEN NodeHash(f[i - 1][2 * j - 1], f[i - 1][2 * j])
                                     ELSE f[i - 1][2 * j - 1]
    BY <1>3, <2>2, PairedList
  <2>4. QED
    BY <1>3, <1>6, <2>1, <2>3 DEF Joins
<1>7. QED
  BY <1>3, <1>5, <1>6

(* A node of a level that is not its last has the full height of the level,*)
(* and no node of another tree's levels up to that one is on top of it.    *)
NoTop(x, k, y, h) ==
    \A i \in 1 .. k - 1, j \in 1..h : \A w : NodeHash(x[i], w) # y[j]

LEMMA TooHigh ==
    ASSUME NEW f, NEW g, NEW n \in Nat, NEW s, NEW t, NEW a \in Nat \ {0}, NEW b \in Nat \ {0},
           IsList(s, a), IsList(t, b),
           Levels(f, n, Leaves(s)), Levels(g, n, Leaves(t))
    PROVE  \A q \in 0..n : \A p \in q..n : NoTop(f[p], Len(f[p]), g[q], Len(g[q]))
<1> DEFINE P(q) == \A p \in q..n : \A i \in 1 .. Len(f[p]) - 1, j \in 1..Len(g[q]) : \A y :
                      NodeHash(f[p][i], y) # g[q][j]
           S == {q \in 0..n : P(q)}
<1>1. 0 \in S
  <2>1. g[0] = Leaves(t) /\ DOMAIN t = 1..b
    BY ListLength DEF Levels
  <2>2. IsList(g[0], b)
    BY <2>1 DEF IsList, Leaves
  <2>3. Len(g[0]) = b /\ \A j \in 1..b : g[0][j] = eventLeafHash(t[j])
    BY <2>1, <2>2, ListLength DEF Leaves
  <2>4. P(0)
    BY <2>3, PairSound
  <2>5. 0 \in 0..n
    OBVIOUS
  <2> HIDE DEF P
  <2>6. QED
    BY <2>4, <2>5
<1>2. ASSUME NEW q \in 0 + 1 .. n, q - 1 \in S PROVE q \in S
  <2> SUFFICES ASSUME NEW p \in q..n, NEW i \in 1 .. Len(f[p]) - 1, NEW j \in 1..Len(g[q]), NEW y,
                      NodeHash(f[p][i], y) = g[q][j]
               PROVE  FALSE
    OBVIOUS
  <2>1. q \in 1..n /\ p \in 1..n /\ p \in q - 1 .. n /\ p - 1 \in q - 1 .. n
    OBVIOUS
  <2>2. PICK k, l \in Nat \ {0} : Joins(g[q - 1], g[q], k, l)
    BY <2>1, LevelParts
  <2>3. Len(g[q - 1]) = k /\ Len(g[q]) = l /\ j \in 1..l
    BY <2>2, ListLength DEF Joins
  <2>4. P(q - 1)
    BY <1>2
  <2>5. ASSUME NEW x \in 1..k, g[q][j] = g[q - 1][x] PROVE FALSE
    BY <2>1, <2>3, <2>4, <2>5
  <2>6. CASE k = 1 /\ g[q] = g[q - 1] /\ l = 1
    BY <2>3, <2>5, <2>6
  <2>7. CASE k > 1 /\ 2 * j > k /\ l = (k + 1) \div 2 /\ g[q][j] = g[q - 1][2 * j - 1]
    <3>1. 2 * j - 1 \in 1..k
      BY <2>2, <2>3, <2>7, HalfOfALevel
    <3>2. QED
      BY <2>5, <2>7, <3>1
  <2>8. CASE 2 * j <= k /\ g[q][j] = NodeHash(g[q - 1][2 * j - 1], g[q - 1][2 * j])
    <3>1. f[p][i] = g[q - 1][2 * j - 1]
      BY <2>8, PairSound
    <3>2. PICK h, e \in Nat \ {0} : Joins(f[p - 1], f[p], h, e)
      BY <2>1, LevelParts
    <3>3. Len(f[p - 1]) = h /\ Len(f[p]) = e
      BY <3>2, ListLength DEF Joins
    <3>4. h > 1 /\ e = (h + 1) \div 2 /\ i \in 1 .. e - 1 /\ i \in 1..e
      BY <3>2, <3>3 DEF Joins
    <3>5. 2 * i <= h /\ 2 * i - 1 \in 1 .. h - 1
      <4>1. h \in Nat /\ i \in 1 .. (h + 1) \div 2 - 1
        BY <3>4
      <4>2. QED
        BY <4>1, HalfOfALevel
    <3>6. f[p][i] = NodeHash(f[p - 1][2 * i - 1], f[p - 1][2 * i])
      BY <3>2, <3>4, <3>5 DEF Joins
    <3>7. 2 * j - 1 \in 1..k
      BY <2>3, <2>8
    <3>8. NodeHash(f[p - 1][2 * i - 1], f[p - 1][2 * i]) # g[q - 1][2 * j - 1]
      BY <2>1, <2>3, <2>4, <3>3, <3>5, <3>7
    <3>9. QED
      BY <3>1, <3>6, <3>8
  <2>9. QED
    BY <2>2, <2>3, <2>6, <2>7, <2>8 DEF Joins
<1> HIDE DEF S
<1>3. 0..n \subseteq S
  BY <1>1, <1>2, UpTo
<1>4. QED
  BY <1>3 DEF S, NoTop

(* Two levels under one are the same level.                                *)
LEMMA Uneven ==
    ASSUME NEW x, NEW y, NEW z, NEW k \in Nat \ {0}, NEW h \in Nat \ {0},
           NEW l \in Nat \ {0}, NEW e \in Nat \ {0},
           Joins(x, z, k, l), Joins(y, z, h, e), k > h, NoTop(x, k, y, h)
    PROVE  FALSE
<1>1. l = e
  BY ListLength DEF Joins
<1>2. k > 1 /\ l = (k + 1) \div 2
  BY DEF Joins
<1>3. CASE h = 1
  <2>1. z = y /\ l = 1
    BY <1>1, <1>3 DEF Joins
  <2>2. k = 2
    BY <1>2, <2>1
  <2>3. z[1] = NodeHash(x[1], x[2])
    BY <2>1, <2>2 DEF Joins
  <2>4. 1 \in 1 .. k - 1 /\ 1 \in 1..h
    BY <1>3, <2>2
  <2>5. QED
    BY <2>1, <2>3, <2>4 DEF NoTop
<1>4. CASE h > 1
  <2>1. l = (h + 1) \div 2
    BY <1>1, <1>4 DEF Joins
  <2>2. k = 2 * l /\ h = 2 * l - 1
    BY <1>2, <2>1
  <2>3. z[l] = NodeHash(x[2 * l - 1], x[2 * l])
    BY <1>2, <2>2 DEF Joins
  <2>4. z[l] = y[2 * l - 1]
    BY <1>1, <1>4, <2>2 DEF Joins
  <2>5. 2 * l - 1 \in 1 .. k - 1 /\ 2 * l - 1 \in 1..h
    BY <2>2
  <2>6. QED
    BY <2>3, <2>4, <2>5 DEF NoTop
<1>5. QED
  BY <1>3, <1>4

LEMMA OneLevelUnder ==
    ASSUME NEW x, NEW y, NEW z, NEW k \in Nat \ {0}, NEW h \in Nat \ {0},
           NEW l \in Nat \ {0}, NEW e \in Nat \ {0},
           Joins(x, z, k, l), Joins(y, z, h, e), NoTop(x, k, y, h), NoTop(y, h, x, k)
    PROVE  x = y
<1>1. k = h
  <2>1. ~(k > h)
    BY Uneven
  <2>2. ~(h > k)
    BY Uneven
  <2>3. QED
    BY <2>1, <2>2
<1>2. CASE k = 1
  BY <1>1, <1>2 DEF Joins
<1>3. CASE k > 1
  <2>1. ASSUME NEW i \in 1..k PROVE x[i] = y[i]
    <3> DEFINE j == (i + 1) \div 2
    <3>1. /\ j \in 1 .. (k + 1) \div 2 /\ (i = 2 * j \/ i = 2 * j - 1)
      OBVIOUS
    <3> HIDE DEF j
    <3>2. /\ z[j] = IF 2 * j <= k THEN NodeHash(x[2 * j - 1], x[2 * j]) ELSE x[2 * j - 1]
          /\ z[j] = IF 2 * j <= k THEN NodeHash(y[2 * j - 1], y[2 * j]) ELSE y[2 * j - 1]
      BY <1>1, <1>3, <3>1 DEF Joins
    <3>3. CASE 2 * j <= k
      BY <3>1, <3>2, <3>3, PairSound
    <3>4. CASE ~(2 * j <= k)
      BY <3>1, <3>2, <3>4
    <3>5. QED
      BY <3>3, <3>4
  <2>2. x = [i \in 1..k |-> x[i]] /\ y = [i \in 1..k |-> y[i]]
    BY <1>1 DEF Joins, IsList
  <2>3. QED
    BY <2>1, <2>2
<1>4. QED
  BY <1>2, <1>3

LEMMA NeverEmpty ==
    ASSUME NEW f, NEW n \in Nat, NEW events, NEW m \in Nat \ {0}, IsList(events, m),
           Levels(f, n, Leaves(events))
    PROVE  \A i \in 0..n : \A j \in 1..Len(f[i]) : f[i][j] # <<"empty">>
<1> DEFINE P(i) == \A j \in 1..Len(f[i]) : f[i][j] # <<"empty">>
           S == {i \in 0..n : P(i)}
<1>1. 0 \in S
  <2>1. DOMAIN events = 1..m
    BY ListLength
  <2>2. f[0] = Leaves(events) /\ IsList(f[0], m)
    BY <2>1 DEF Levels, IsList, Leaves
  <2>3. Len(f[0]) = m /\ \A j \in 1..m : f[0][j] = eventLeafHash(events[j])
    BY <2>1, <2>2, ListLength DEF Leaves
  <2>4. P(0)
    BY <2>3, PairSound
  <2>5. 0 \in 0..n
    OBVIOUS
  <2> HIDE DEF P
  <2>6. QED
    BY <2>4, <2>5
<1>2. ASSUME NEW i \in 0 + 1 .. n, i - 1 \in S PROVE i \in S
  <2>1. i \in 1..n /\ P(i - 1)
    BY <1>2
  <2>2. PICK k, l \in Nat \ {0} : Joins(f[i - 1], f[i], k, l)
    BY <2>1, LevelParts
  <2>3. Len(f[i - 1]) = k /\ Len(f[i]) = l
    BY <2>2, ListLength DEF Joins
  <2>4. ASSUME NEW j \in 1..l PROVE f[i][j] # <<"empty">>
    <3>1. CASE l = 1 /\ k = 1 /\ f[i] = f[i - 1]
      BY <2>1, <2>3, <3>1
    <3>2. CASE /\ k > 1 /\ l = (k + 1) \div 2
               /\ f[i][j] = IF 2 * j <= k THEN NodeHash(f[i - 1][2 * j - 1], f[i - 1][2 * j])
                            ELSE f[i - 1][2 * j - 1]
      <4>1. 2 * j - 1 \in 1..k
        BY <3>2, HalfOfALevel
      <4>2. CASE 2 * j <= k
        BY <3>2, <4>2, PairSound
      <4>3. CASE ~(2 * j <= k)
        BY <2>1, <2>3, <3>2, <4>1, <4>3
      <4>4. QED
        BY <4>2, <4>3
    <3>3. QED
      BY <2>2, <3>1, <3>2 DEF Joins
  <2>5. QED
    BY <2>1, <2>3, <2>4
<1> HIDE DEF S
<1>3. 0..n \subseteq S
  BY <1>1, <1>2, UpTo
<1>4. QED
  BY <1>3 DEF S

LEMMA EmptyRoot ==
    ASSUME NEW events, NEW m \in Nat, IsList(events, m)
    PROVE  /\ (merkleRoot(events) = <<"empty">>) <=> m = 0
           /\ m = 0 => events = << >>
<1>1. CASE m = 0
  <2>1. Len(events) = 0 /\ DOMAIN events = 1..0 /\ events = [i \in 1..0 |-> events[i]]
    BY <1>1, ListLength DEF IsList
  <2>2. << >> = [i \in 1..0 |-> events[i]]
    OBVIOUS
  <2>3. events = << >>
    BY <2>1, <2>2
  <2>4. QED
    BY <1>1, <2>3 DEF merkleRoot
<1>2. CASE m # 0
  <2>1. PICK f : Levels(f, m, Leaves(events))
    BY LevelsExist
  <2>2. merkleRoot(events) = f[m][1] /\ IsList(f[m], 1)
    BY <1>2, <2>1, RootOnTop
  <2>3. Len(f[m]) = 1
    BY <2>2, ListLength
  <2>4. m \in 0..m /\ 1 \in 1..1
    OBVIOUS
  <2>5. f[m][1] # <<"empty">>
    BY <1>2, <2>1, <2>3, <2>4, NeverEmpty
  <2>6. QED
    BY <1>2, <2>2, <2>5
<1>3. QED
  BY <1>1, <1>2

(* The root determines the leaves.                                         *)
LEMMA RootDetermines ==
    ASSUME NEW s, NEW t, NEW a \in Nat, NEW b \in Nat, IsList(s, a), IsList(t, b),
           merkleRoot(s) = merkleRoot(t)
    PROVE  Leaves(s) = Leaves(t)
<1>1. CASE a = 0 \/ b = 0
  <2>1. a = 0 /\ b = 0
    BY <1>1, EmptyRoot
  <2>2. s = t
    BY <2>1, EmptyRoot
  <2>3. QED
    BY <2>2
<1>2. CASE a # 0 /\ b # 0
  <2> DEFINE n == a + b
  <2>1. a \in Nat \ {0} /\ b \in Nat \ {0} /\ n \in Nat /\ a <= n /\ b <= n
    BY <1>2
  <2> HIDE DEF n
  <2>2. PICK f : Levels(f, n, Leaves(s))
    BY <2>1, LevelsExist
  <2>3. PICK g : Levels(g, n, Leaves(t))
    BY <2>1, LevelsExist
  <2>4. f[n] = g[n]
    <3>1. merkleRoot(s) = f[n][1] /\ IsList(f[n], 1)
      BY <2>1, <2>2, RootOnTop
    <3>2. merkleRoot(t) = g[n][1] /\ IsList(g[n], 1)
      BY <2>1, <2>3, RootOnTop
    <3>3. f[n] = [i \in 1..1 |-> f[n][i]] /\ g[n] = [i \in 1..1 |-> g[n][i]] /\ f[n][1] = g[n][1]
      BY <3>1, <3>2 DEF IsList
    <3>4. \A i \in 1..1 : f[n][i] = g[n][i]
      BY <3>3
    <3>5. QED
      BY <3>3, <3>4
  <2>5. ASSUME NEW i \in 1..n, f[i] = g[i] PROVE f[i - 1] = g[i - 1]
    <3>1. PICK k, l \in Nat \ {0} : Joins(f[i - 1], f[i], k, l)
      BY <2>1, <2>2, LevelParts
    <3>2. PICK h, e \in Nat \ {0} : Joins(g[i - 1], g[i], h, e)
      BY <2>1, <2>3, LevelParts
    <3>3. Len(f[i - 1]) = k /\ Len(g[i - 1]) = h /\ i - 1 \in 0..n /\ i - 1 \in i - 1 .. n
      BY <2>1, <3>1, <3>2, ListLength DEF Joins
    <3>4. NoTop(f[i - 1], k, g[i - 1], h)
      <4>1. NoTop(f[i - 1], Len(f[i - 1]), g[i - 1], Len(g[i - 1]))
        BY <2>1, <2>2, <2>3, <3>3, TooHigh
      <4>2. QED
        BY <3>3, <4>1
    <3>5. NoTop(g[i - 1], h, f[i - 1], k)
      <4>1. NoTop(g[i - 1], Len(g[i - 1]), f[i - 1], Len(f[i - 1]))
        BY <2>1, <2>2, <2>3, <3>3, TooHigh
      <4>2. QED
        BY <3>3, <4>1
    <3>6. QED
      BY <2>5, <3>1, <3>2, <3>4, <3>5, OneLevelUnder
  <2> DEFINE S == {i \in 0..n : f[n - i] = g[n - i]}
  <2>6. 0 \in S
    BY <2>1, <2>4
  <2>7. ASSUME NEW i \in 0 + 1 .. n, i - 1 \in S PROVE i \in S
    <3>1. n - (i - 1) \in 1..n /\ (n - (i - 1)) - 1 = n - i /\ i \in 0..n
      BY <2>1
    <3>2. f[n - i] = g[n - i]
      BY <2>5, <2>7, <3>1
    <3>3. QED
      BY <3>1, <3>2
  <2> HIDE DEF S
  <2>8. 0..n \subseteq S
    BY <2>1, <2>6, <2>7, UpTo
  <2>9. n \in S /\ n - n = 0
    BY <2>1, <2>8
  <2>10. f[0] = g[0]
    BY <2>9 DEF S
  <2>11. QED
    BY <2>2, <2>3, <2>10 DEF Levels
<1>3. QED
  BY <1>1, <1>2

(* What a verification without a mismatch says.                            *)
LEMMA NoMismatch ==
    ASSUME NEW events, NEW digest
    PROVE  verifyAgainstDigest(events, digest) = {} <=>
             /\ OutOfRange(events, digest) = {} /\ OutOfOrder(events) = {}
             /\ digest.eventCount = Len(events) /\ digest.merkleRoot = merkleRoot(events)
<1>1. {<<"count", 0>> : x \in {y \in {digest} : y.eventCount # Len(events)}} = {} <=>
        digest.eventCount = Len(events)
  OBVIOUS
<1>2. {<<"root", 0>> : x \in {y \in {digest} : y.merkleRoot # merkleRoot(events)}} = {} <=>
        digest.merkleRoot = merkleRoot(events)
  OBVIOUS
<1>3. {<<"range", i>> : i \in OutOfRange(events, digest)} = {} <=> OutOfRange(events, digest) = {}
  OBVIOUS
<1>4. {<<IF events[i].cursor = events[i - 1].cursor THEN "duplicate" ELSE "ordering", i>> :
          i \in OutOfOrder(events)} = {} <=> OutOfOrder(events) = {}
  OBVIOUS
<1>5. \A a, b, c, d : a \cup b \cup c \cup d = {} <=> a = {} /\ b = {} /\ c = {} /\ d = {}
  OBVIOUS
<1>6. QED
  BY <1>1, <1>2, <1>3, <1>4, <1>5, Zenon DEF verifyAgainstDigest

DigestInv ==
    /\ held \in Seq(Event) /\ served \in Seq(Event)
    /\ published.fromCursor \in Int /\ published.toCursor \in Int
    /\ \A i \in 2..Len(held) : held[i - 1].cursor < held[i].cursor

LEMMA EventCursor ==
    \A e \in Event : e.cursor \in 1..MaxCursor /\ e.cursor \in Int
BY DigestAssumption DEF Event, Cursors

LEMMA DigestInitial == DigestInit => DigestInv
<1> SUFFICES ASSUME DigestInit PROVE DigestInv
  OBVIOUS
<1>1. PICK n \in 0..MaxCursor : held \in [1..n -> Event]
  BY DEF DigestInit
<1>2. held \in Seq(Event)
  <2>1. n \in Nat
    BY DigestAssumption
  <2>2. QED
    BY <1>1, <2>1, SeqDef
<1>3. published = [fromCursor |-> 1, toCursor |-> MaxCursor, eventCount |-> Len(held),
                   merkleRoot |-> merkleRoot(held), lastCursor |-> lastCursorOf(held)]
  BY DEF DigestInit, computeRangeDigest
<1>4. published.fromCursor = 1 /\ published.toCursor = MaxCursor
  BY <1>3
<1>5. \A i \in 2..Len(held) : held[i - 1].cursor < held[i].cursor
  BY DEF DigestInit
<1>6. QED
  BY <1>2, <1>4, <1>5, DigestAssumption DEF DigestInv, DigestInit

LEMMA DigestStep == DigestInv /\ [DigestNext]_digestVars => DigestInv'
<1> SUFFICES ASSUME DigestInv, [DigestNext]_digestVars PROVE DigestInv'
  OBVIOUS
<1>1. CASE Tamper
  <2>1. held' = held /\ published' = published
    BY <1>1 DEF Tamper
  <2>2. served' \in Seq(Event)
    <3>1. served \in Seq(Event) /\ DOMAIN served = 1..Len(served)
      BY DEF DigestInv
    <3>2. CASE DropOne
      <4>1. PICK i \in 1..Len(served) : served' = WithoutAt(served, i)
        BY <3>1, <3>2 DEF DropOne
      <4>2. /\ Len(served) - 1 \in Nat
            /\ \A k \in 1 .. Len(served) - 1 : (IF k < i THEN served[k] ELSE served[k + 1]) \in Event
        BY <3>1
      <4>3. served' \in [1 .. Len(served) - 1 -> Event]
        BY <4>1, <4>2 DEF WithoutAt
      <4>4. QED
        BY <4>2, <4>3, SeqDef
    <3>3. CASE Repeat
      BY <3>1, <3>3 DEF Repeat
    <3>4. CASE Swap
      <4>1. PICK i, j \in 1..Len(served) :
              served' = [served EXCEPT ![i] = served[j], ![j] = served[i]]
        BY <3>1, <3>4 DEF Swap
      <4>2. served \in [1..Len(served) -> Event] /\ served[i] \in Event /\ served[j] \in Event
            /\ Len(served) \in Nat
        BY <3>1
      <4>3. served' \in [1..Len(served) -> Event]
        BY <4>1, <4>2
      <4>4. QED
        BY <4>2, <4>3, SeqDef
    <3>5. CASE Alter
      <4>1. PICK i \in 1..Len(served), e \in Event : served' = [served EXCEPT ![i] = e]
        BY <3>1, <3>5 DEF Alter
      <4>2. served \in [1..Len(served) -> Event] /\ Len(served) \in Nat
        BY <3>1
      <4>3. served' \in [1..Len(served) -> Event]
        BY <4>1, <4>2
      <4>4. QED
        BY <4>2, <4>3, SeqDef
    <3>6. QED
      BY <1>1, <3>2, <3>3, <3>4, <3>5 DEF Tamper
  <2>3. QED
    BY <2>1, <2>2 DEF DigestInv
<1>2. CASE LieConsistently
  <2>1. held' = held /\ served' = served
    BY <1>2 DEF LieConsistently
  <2>2. PICK from, to \in Cursors : published' = computeRangeDigest(from, to, served)
    BY <1>2 DEF LieConsistently
  <2>3. published' = [fromCursor |-> from, toCursor |-> to, eventCount |-> Len(served),
                      merkleRoot |-> merkleRoot(served), lastCursor |-> lastCursorOf(served)]
    BY <2>2 DEF computeRangeDigest
  <2>4. published'.fromCursor = from /\ published'.toCursor = to /\ from \in Int /\ to \in Int
    BY <2>3 DEF Cursors
  <2>5. QED
    BY <2>1, <2>4 DEF DigestInv
<1>3. CASE UNCHANGED digestVars
  BY <1>3 DEF digestVars, DigestInv
<1>4. QED
  BY <1>1, <1>2, <1>3 DEF DigestNext

LEMMA DigestAlways == DigestSpec => []DigestInv
BY DigestInitial, DigestStep, PTL DEF DigestSpec

(* Whatever digest a provider publishes, what passes against it is in      *)
(* strict order and in the range it commits to.  (verifyAgainstDigest.)    *)
THEOREM EvenLiesAreHistories ==
    DigestSpec => []LiesAreStillHistories
<1>1. DigestInv => LiesAreStillHistories
  <2> SUFFICES ASSUME DigestInv, verifyAgainstDigest(served, published) = {},
                      NEW i \in DOMAIN served, NEW j \in DOMAIN served, i < j
               PROVE  /\ served[i].cursor < served[j].cursor
                      /\ published.fromCursor <= served[i].cursor
                      /\ served[j].cursor <= published.toCursor
    BY DEF LiesAreStillHistories
  <2>1. OutOfRange(served, published) = {} /\ OutOfOrder(served) = {}
    BY NoMismatch
  <2>2. /\ DOMAIN served = 1..Len(served) /\ Len(served) \in Nat
        /\ published.fromCursor \in Int /\ published.toCursor \in Int
        /\ \A n \in 1..Len(served) : served[n].cursor \in Int
    BY EventCursor DEF DigestInv
  <2>3. i \in 1..Len(served) /\ j \in 1..Len(served)
    BY <2>2
  <2>4. /\ ~(served[i].cursor < published.fromCursor)
        /\ ~(served[j].cursor > published.toCursor)
    BY <2>1 DEF OutOfRange
  <2>5. published.fromCursor <= served[i].cursor /\ served[j].cursor <= published.toCursor
    BY <2>2, <2>3, <2>4
  <2>6. ASSUME NEW n \in 2..Len(served) PROVE served[n - 1].cursor < served[n].cursor
    <3>1. ~(served[n].cursor <= served[n - 1].cursor)
      BY <2>1 DEF OutOfOrder
    <3>2. n \in 1..Len(served) /\ n - 1 \in 1..Len(served)
      BY <2>2
    <3>3. QED
      BY <2>2, <3>1, <3>2
  <2> DEFINE S == {n \in i + 1 .. Len(served) : served[i].cursor < served[n].cursor}
  <2>7. i + 1 \in S
    <3>1. i + 1 \in 2..Len(served) /\ (i + 1) - 1 = i
      BY <2>2, <2>3
    <3>2. QED
      BY <2>2, <2>6, <3>1
  <2>8. ASSUME NEW n \in i + 1 + 1 .. Len(served), n - 1 \in S PROVE n \in S
    <3>1. n \in 2..Len(served) /\ n \in 1..Len(served) /\ n - 1 \in 1..Len(served)
      BY <2>2, <2>3
    <3>2. served[i].cursor < served[n - 1].cursor
      BY <2>8
    <3>3. served[i].cursor < served[n].cursor
      <4>1. served[n - 1].cursor < served[n].cursor
        BY <2>6, <3>1
      <4>2. served[i].cursor \in Int /\ served[n - 1].cursor \in Int /\ served[n].cursor \in Int
        BY <2>2, <2>3, <3>1
      <4>3. QED
        BY <3>2, <4>1, <4>2
    <3>4. QED
      BY <2>2, <2>3, <3>1, <3>3
  <2> HIDE DEF S
  <2>9. i + 1 .. Len(served) \subseteq S
    <3>1. i + 1 \in Nat
      BY <2>3
    <3>2. QED
      BY <2>2, <2>7, <2>8, <3>1, UpTo
  <2>10. j \in S
    BY <2>2, <2>3, <2>9
  <2>11. QED
    BY <2>5, <2>10 DEF S
<1>2. QED
  BY <1>1, DigestAlways, PTL

LEMMA ReplayableRoot ==
    ASSUME DigestInv
    PROVE  /\ merkleRoot(served) = merkleRoot(held) => Replayable(served) = Replayable(held)
           /\ Replayable(served) = Replayable(held) =>
                /\ Len(served) = Len(held)
                /\ \A i \in 1..Len(held) : served[i].cursor = held[i].cursor
                /\ merkleRoot(served) = merkleRoot(held)
<1>1. /\ DOMAIN served = 1..Len(served) /\ Len(served) \in Nat /\ IsList(served, Len(served))
      /\ DOMAIN held = 1..Len(held) /\ Len(held) \in Nat /\ IsList(held, Len(held))
  BY DEF DigestInv, IsList
<1>2. \A e : eventLeafHash(e) = <<"leaf", [cursor |-> e.cursor, payload |-> e.payload]>>
  BY DEF eventLeafHash, canonicalEventBytes
<1>3. \A e, x : eventLeafHash(e) = eventLeafHash(x) <=> e.cursor = x.cursor /\ e.payload = x.payload
  <2> SUFFICES ASSUME NEW e, NEW x
               PROVE  eventLeafHash(e) = eventLeafHash(x) <=>
                        e.cursor = x.cursor /\ e.payload = x.payload
    OBVIOUS
  <2>1. eventLeafHash(e)[2] = [cursor |-> e.cursor, payload |-> e.payload]
    BY <1>2
  <2>2. eventLeafHash(x)[2] = [cursor |-> x.cursor, payload |-> x.payload]
    BY <1>2
  <2>3. ASSUME eventLeafHash(e) = eventLeafHash(x) PROVE e.cursor = x.cursor /\ e.payload = x.payload
    <3>1. [cursor |-> e.cursor, payload |-> e.payload] = [cursor |-> x.cursor, payload |-> x.payload]
      BY <2>1, <2>2, <2>3
    <3>2. QED
      BY <3>1
  <2>4. QED
    BY <1>2, <2>3
<1>4. ASSUME merkleRoot(served) = merkleRoot(held)
      PROVE  Replayable(served) = Replayable(held)
  <2>1. Leaves(served) = Leaves(held)
    BY <1>1, <1>4, RootDetermines
  <2>2. DOMAIN served = DOMAIN held
    BY <2>1 DEF Leaves
  <2>3. \A i \in DOMAIN held : eventLeafHash(served[i]) = eventLeafHash(held[i])
    <3>1. \A i \in DOMAIN held : Leaves(served)[i] = Leaves(held)[i]
      BY <2>1
    <3>2. QED
      BY <2>2, <3>1 DEF Leaves
  <2>4. QED
    BY <1>3, <2>2, <2>3 DEF Replayable
<1>5. ASSUME Replayable(served) = Replayable(held)
      PROVE  /\ Len(served) = Len(held)
             /\ \A i \in 1..Len(held) : served[i].cursor = held[i].cursor
             /\ merkleRoot(served) = merkleRoot(held)
  <2>1. DOMAIN served = DOMAIN held
    BY <1>5 DEF Replayable
  <2>2. Len(served) = Len(held)
    <3>1. IsList(served, Len(held))
      BY <1>1, <2>1 DEF IsList
    <3>2. QED
      BY <3>1, ListLength
  <2>3. \A i \in DOMAIN held : served[i].cursor = held[i].cursor /\ served[i].payload = held[i].payload
    <3>1. \A i \in DOMAIN held : Replayable(served)[i] = Replayable(held)[i]
      BY <1>5
    <3>2. \A i \in DOMAIN held : <<served[i].cursor, served[i].payload>> = <<held[i].cursor, held[i].payload>>
      BY <2>1, <3>1 DEF Replayable
    <3>3. QED
      BY <3>2
  <2>4. Leaves(served) = Leaves(held)
    BY <1>3, <2>1, <2>3 DEF Leaves
  <2>5. merkleRoot(served) = merkleRoot(held)
    <3>1. CASE Len(held) = 0
      BY <1>1, <2>2, <3>1, EmptyRoot
    <3>2. CASE Len(held) # 0
      <4> DEFINE n == Len(held)
      <4>1. n \in Nat \ {0} /\ n <= n /\ n \in Nat
        BY <1>1, <3>2
      <4>2. PICK f : Levels(f, n, Leaves(held))
        BY <4>1, LevelsExist
      <4>3. merkleRoot(held) = f[n][1]
        BY <1>1, <4>1, <4>2, RootOnTop
      <4>4. merkleRoot(served) = f[n][1]
        BY <1>1, <2>2, <2>4, <4>1, <4>2, RootOnTop
      <4>5. QED
        BY <4>3, <4>4
    <3>3. QED
      BY <3>1, <3>2
  <2>6. QED
    BY <1>1, <2>2, <2>3, <2>5
<1>6. QED
  BY <1>4, <1>5

(* Against the archive's own digest exactly its history passes, and the    *)
(* root alone determines it.  (merkleRoot, verifyAgainstDigest.)           *)
THEOREM TamperingIsNoticed ==
    DigestSpec => []ExactlyTamperingIsNoticed
<1>1. DigestInv => ExactlyTamperingIsNoticed
  <2> SUFFICES ASSUME DigestInv PROVE ExactlyTamperingIsNoticed
    OBVIOUS
  <2>1. ASSUME published = computeRangeDigest(1, MaxCursor, held)
        PROVE  verifyAgainstDigest(served, published) = {} <=> Replayable(served) = Replayable(held)
    <3>1. published = [fromCursor |-> 1, toCursor |-> MaxCursor, eventCount |-> Len(held),
                       merkleRoot |-> merkleRoot(held), lastCursor |-> lastCursorOf(held)]
      BY <2>1 DEF computeRangeDigest
    <3>2. /\ published.fromCursor = 1 /\ published.toCursor = MaxCursor
          /\ published.eventCount = Len(held) /\ published.merkleRoot = merkleRoot(held)
      BY <3>1
    <3>3. verifyAgainstDigest(served, published) = {} => Replayable(served) = Replayable(held)
      BY <3>2, NoMismatch, ReplayableRoot
    <3>4. ASSUME Replayable(served) = Replayable(held)
          PROVE  verifyAgainstDigest(served, published) = {}
      <4>1. /\ Len(served) = Len(held)
            /\ \A i \in 1..Len(held) : served[i].cursor = held[i].cursor
            /\ merkleRoot(served) = merkleRoot(held)
        BY <3>4, ReplayableRoot
      <4>2. /\ DOMAIN served = 1..Len(held) /\ Len(held) \in Nat /\ MaxCursor \in Nat
            /\ \A i \in 1..Len(held) : served[i].cursor \in 1..MaxCursor
        BY <4>1, EventCursor, DigestAssumption DEF DigestInv
      <4>3. OutOfRange(served, published) = {}
        BY <3>2, <4>2 DEF OutOfRange
      <4>4. OutOfOrder(served) = {}
        <5>1. ASSUME NEW i \in 2..Len(served) PROVE ~(served[i].cursor <= served[i - 1].cursor)
          <6>1. i \in 1..Len(held) /\ i - 1 \in 1..Len(held) /\ i \in 2..Len(held)
            BY <4>1, <4>2
          <6>2. held[i - 1].cursor < held[i].cursor
            BY <6>1 DEF DigestInv
          <6>3. /\ served[i].cursor = held[i].cursor /\ served[i - 1].cursor = held[i - 1].cursor
                /\ served[i].cursor \in Int /\ served[i - 1].cursor \in Int
            BY <4>1, <4>2, <6>1
          <6>4. QED
            BY <6>2, <6>3
        <5>2. QED
          BY <5>1 DEF OutOfOrder
      <4>5. QED
        BY <3>2, <4>1, <4>3, <4>4, NoMismatch
    <3>5. QED
      BY <3>3, <3>4
  <2>2. merkleRoot(served) = merkleRoot(held) => Replayable(served) = Replayable(held)
    BY ReplayableRoot
  <2>3. QED
    BY <2>1, <2>2 DEF ExactlyTamperingIsNoticed
<1>2. QED
  BY <1>1, DigestAlways, PTL

----------------------------------------------------------------------------
(* The Redis client.  While the connection is up, what is buffered or on   *)
(* its way is two halves of a reply for each of the first pending calls,   *)
(* in their order, and what Redis has not read is the rest of them; once   *)
(* it is lost, no reply ever arrives.                                      *)
USE CommandsAssumption

(* The i-th half-reply that is not parsed yet, and how many there are.     *)
Half(i) == IF i <= Len(buffer) THEN buffer[i] ELSE replies[i - Len(buffer)]
Halves  == Len(buffer) + Len(replies)

Lists ==
    /\ pending \in Seq(Commands) /\ requests \in Seq(Commands) /\ unwritten \in Seq(Commands)
    /\ replies \in Seq(Commands) /\ buffer \in Seq(Commands)
    /\ answer \in [Commands -> Commands \cup {"none", "waiting", "rejected"}]

(* A call is made once, and is pending at most once.                       *)
Once ==
    /\ \A i, j \in 1..Len(pending) : pending[i] = pending[j] => i = j
    /\ \A i \in 1..Len(pending) : answer[pending[i]] # "none"

InOrder ==
    /\ Len(requests) <= Len(pending)
    /\ Halves = 2 * (Len(pending) - Len(requests))
    /\ \A i \in 1 .. Len(pending) - Len(requests) : Half(2 * i - 1) = pending[i] /\ Half(2 * i) = pending[i]
    /\ \A i \in 1..Len(requests) : requests[i] = pending[Len(pending) - Len(requests) + i]

Lost == requests = << >> /\ replies = << >>

OrderInv ==
    /\ Lists /\ Once /\ EachOwnReply
    /\ stream = "up" => InOrder /\ unwritten = << >>
    /\ stream # "up" => Lost

LEMMA InitOrder == Init => OrderInv
<1> SUFFICES ASSUME Init PROVE OrderInv
  OBVIOUS
<1>1. Lists /\ Once
  BY DEF Init, Lists, Once
<1>2. EachOwnReply
  BY DEF Init, EachOwnReply
<1>3. InOrder
  BY DEF Init, InOrder, Halves
<1>4. QED
  BY <1>1, <1>2, <1>3 DEF OrderInv, Init

----------------------------------------------------------------------------
(* A stretch of a queue.                                                   *)
LEMMA Part ==
    ASSUME NEW s \in Seq(Commands), NEW m \in 1 .. Len(s) + 1, NEW n \in m - 1 .. Len(s)
    PROVE  /\ SubSeq(s, m, n) \in Seq(Commands)
           /\ Len(SubSeq(s, m, n)) = n - m + 1
           /\ \A i \in 1 .. n - m + 1 : SubSeq(s, m, n)[i] = s[m + i - 1]
<1>1. m \in Int /\ n \in Int /\ Len(s) \in Nat
  BY LenProperties
<1>2. \A i \in m..n : s[i] \in Commands
  BY <1>1, LenProperties
<1>3. /\ SubSeq(s, m, n) \in Seq(Commands)
      /\ Len(SubSeq(s, m, n)) = IF m <= n THEN n - m + 1 ELSE 0
      /\ \A i \in 1 .. n - m + 1 : SubSeq(s, m, n)[i] = s[m + i - 1]
  BY <1>1, <1>2, SubSeqProperties
<1>4. ~(m <= n) => n - m + 1 = 0
  BY <1>1
<1>5. QED
  BY <1>3, <1>4

LEMMA Lengths ==
    ASSUME Lists
    PROVE  /\ Len(pending) \in Nat /\ Len(requests) \in Nat /\ Len(replies) \in Nat
           /\ Len(buffer) \in Nat /\ Len(unwritten) \in Nat
BY LenProperties DEF Lists

(* A rejection gives nobody an answer and makes no call anew.              *)
LEMMA RejectedKeeps ==
    ASSUME Lists, NEW cs
    PROVE  /\ Rejected(cs) \in [Commands -> Commands \cup {"none", "waiting", "rejected"}]
           /\ \A c \in Commands : Rejected(cs)[c] \in {answer[c], "rejected"}
           /\ \A c \in Commands : answer[c] # "none" => Rejected(cs)[c] # "none"
BY DEF Rejected, Lists

(* A new call goes to the end of both queues.                              *)
LEMMA CommandStep == ASSUME OrderInv, NEW c \in Commands, Command(c) PROVE OrderInv'
<1>1. /\ answer[c] = "none" /\ answer' = [answer EXCEPT ![c] = "waiting"]
      /\ pending' = Append(pending, c)
      /\ UNCHANGED <<stream, replies, buffer>>
      /\ stream = "up" => requests' = Append(requests, c) /\ unwritten' = unwritten
      /\ stream # "up" => unwritten' = Append(unwritten, c) /\ requests' = requests
  BY DEF Command
<1>2. Lists /\ Once /\ EachOwnReply
  BY DEF OrderInv
<1>3. PICK p \in Nat, r \in Nat : p = Len(pending) /\ r = Len(requests)
  BY <1>2, Lengths
<1>4. /\ pending' \in Seq(Commands) /\ Len(pending') = p + 1
      /\ \A i \in 1..p : pending'[i] = pending[i]
      /\ pending'[p + 1] = c
  BY <1>1, <1>2, <1>3, AppendProperties DEF Lists
<1>5. /\ requests' \in Seq(Commands) /\ unwritten' \in Seq(Commands)
  <2>1. requests \in Seq(Commands) /\ unwritten \in Seq(Commands)
    BY <1>2 DEF Lists
  <2>2. Append(requests, c) \in Seq(Commands) /\ Append(unwritten, c) \in Seq(Commands)
    BY <2>1, AppendProperties
  <2>3. QED
    BY <1>1, <2>1, <2>2
<1>6. Lists'
  BY <1>1, <1>2, <1>4, <1>5 DEF Lists
<1>7. \A i \in 1..p : pending[i] \in Commands /\ pending[i] # c
  BY <1>1, <1>2, <1>3, ElementOfSeq DEF Once, Lists
<1>8. Once'
  <2>1. \A i \in 1 .. p + 1 : i \in 1..p \/ i = p + 1
    BY <1>3
  <2>2. \A i, j \in 1 .. p + 1 : pending'[i] = pending'[j] => i = j
    BY <1>2, <1>3, <1>4, <1>7, <2>1 DEF Once
  <2>3. \A i \in 1 .. p + 1 : answer'[pending'[i]] # "none"
    BY <1>1, <1>2, <1>3, <1>4, <1>7, <2>1 DEF Once, Lists
  <2>4. QED
    BY <1>4, <2>2, <2>3 DEF Once
<1>9. EachOwnReply'
  <2>1. \A d \in Commands : answer'[d] = IF d = c THEN "waiting" ELSE answer[d]
    BY <1>1, <1>2 DEF Lists
  <2>2. QED
    BY <1>2, <2>1 DEF EachOwnReply
<1>10. ASSUME stream = "up" PROVE InOrder'
  <2>1. InOrder /\ r <= p
    BY <1>3, <1>10 DEF OrderInv, InOrder
  <2>2. /\ Len(requests') = r + 1 /\ requests'[r + 1] = c
        /\ \A i \in 1..r : requests'[i] = requests[i]
    <3>1. requests' = Append(requests, c) /\ requests \in Seq(Commands) /\ r = Len(requests)
      BY <1>1, <1>2, <1>3, <1>10 DEF Lists
    <3>2. QED
      BY <3>1, AppendProperties
  <2>3. Halves' = Halves /\ \A i \in Int : Half(i)' = Half(i)
    <3>1. buffer' = buffer /\ replies' = replies
      BY <1>1
    <3>2. QED
      BY <3>1 DEF Halves, Half
  <2>4. \A i \in 1 .. (p + 1) - (r + 1) : i \in 1 .. p - r /\ i \in 1..p
    BY <2>1, <1>3
  <2>5. Halves' = 2 * ((p + 1) - (r + 1))
    <3>1. Halves = 2 * (p - r)
      BY <1>3, <2>1 DEF InOrder
    <3>2. p - r = (p + 1) - (r + 1)
      BY <1>3
    <3>3. QED
      BY <2>3, <3>1, <3>2
  <2>6. \A i \in 1 .. (p + 1) - (r + 1) : Half(2 * i - 1)' = pending'[i] /\ Half(2 * i)' = pending'[i]
    BY <1>3, <1>4, <2>1, <2>3, <2>4 DEF InOrder
  <2>7. \A i \in 1 .. r + 1 : requests'[i] = pending'[(p + 1) - (r + 1) + i]
    <3> SUFFICES ASSUME NEW i \in 1 .. r + 1 PROVE requests'[i] = pending'[(p + 1) - (r + 1) + i]
      OBVIOUS
    <3>1. CASE i \in 1..r
      <4>1. p - r + i \in 1..p /\ (p + 1) - (r + 1) + i = p - r + i
        BY <1>3, <2>1, <3>1
      <4>2. requests[i] = pending[p - r + i]
        BY <1>3, <2>1, <3>1 DEF InOrder
      <4>3. QED
        BY <1>4, <2>2, <3>1, <4>1, <4>2
    <3>2. CASE i = r + 1
      <4>1. (p + 1) - (r + 1) + i = p + 1
        BY <1>3, <3>2
      <4>2. QED
        BY <1>4, <2>2, <3>2, <4>1
    <3>3. QED
      BY <1>3, <3>1, <3>2
  <2>8. QED
    BY <1>4, <2>1, <2>2, <2>5, <2>6, <2>7, <1>3 DEF InOrder
<1>11. stream # "up" => Lost'
  BY <1>1 DEF OrderInv, Lost
<1>12. QED
  BY <1>1, <1>6, <1>8, <1>9, <1>10, <1>11 DEF OrderInv

(* Redis reads the first request left, and its reply is the next to come.  *)
LEMMA HandleStep == ASSUME OrderInv, Handle PROVE OrderInv'
<1>1. /\ stream = "up" /\ requests # << >>
      /\ replies' = replies \o <<Head(requests), Head(requests)>>
      /\ requests' = Tail(requests)
      /\ UNCHANGED <<stream, pending, unwritten, buffer, answer>>
  BY DEF Handle
<1>2. Lists /\ Once /\ EachOwnReply /\ InOrder /\ unwritten = << >>
  BY <1>1 DEF OrderInv
<1>3. PICK p \in Nat, r \in Nat, b \in Nat, y \in Nat :
        p = Len(pending) /\ r = Len(requests) /\ b = Len(buffer) /\ y = Len(replies)
  BY <1>2, Lengths
<1>4. PICK h \in Commands : h = Head(requests) /\ h = requests[1]
  <2>1. requests \in Seq(Commands)
    BY <1>2 DEF Lists
  <2>2. Head(requests) = requests[1]
    OBVIOUS
  <2>3. QED
    BY <1>1, <2>1, <2>2, HeadTailProperties
<1>5. /\ r > 0 /\ requests' \in Seq(Commands) /\ Len(requests') = r - 1
      /\ \A i \in 1 .. r - 1 : requests'[i] = requests[i + 1]
  <2>1. requests \in Seq(Commands)
    BY <1>2 DEF Lists
  <2>2. r # 0
    BY <1>1, <1>3, <2>1, EmptySeq
  <2>3. QED
    BY <1>1, <1>3, <2>1, <2>2, HeadTailProperties
<1>6. /\ replies' \in Seq(Commands) /\ Len(replies') = y + 2
      /\ \A i \in 1..y : replies'[i] = replies[i]
      /\ replies'[y + 1] = h /\ replies'[y + 2] = h
  <2> DEFINE t == <<h, h>>
  <2>1. t \in Seq(Commands) /\ Len(t) = 2 /\ t[1] = h /\ t[2] = h
    OBVIOUS
  <2>2. replies' = replies \o t /\ replies \in Seq(Commands)
    BY <1>1, <1>2, <1>4 DEF Lists
  <2> HIDE DEF t
  <2>3. /\ replies \o t \in Seq(Commands) /\ Len(replies \o t) = Len(replies) + Len(t)
        /\ \A i \in 1 .. Len(replies) + Len(t) :
             (replies \o t)[i] = IF i <= Len(replies) THEN replies[i] ELSE t[i - Len(replies)]
    BY <2>1, <2>2, ConcatProperties
  <2>4. \A i \in 1..y : i \in 1 .. y + 2 /\ i <= y
    BY <1>3
  <2>5. y + 1 \in 1 .. y + 2 /\ y + 2 \in 1 .. y + 2 /\ (y + 1) - y = 1 /\ (y + 2) - y = 2
        /\ ~(y + 1 <= y) /\ ~(y + 2 <= y)
    BY <1>3
  <2>6. QED
    BY <1>3, <2>1, <2>2, <2>3, <2>4, <2>5
<1>7. Lists'
  BY <1>1, <1>2, <1>5, <1>6 DEF Lists
<1>8. Once' /\ EachOwnReply'
  BY <1>1, <1>2 DEF Once, EachOwnReply
<1>9. r <= p /\ b + y = 2 * (p - r)
  BY <1>2, <1>3 DEF InOrder, Halves
<1>10. \A i \in 1 .. b + y : Half(i)' = Half(i)
  <2>1. \A i \in 1 .. b + y : ~(i <= b) => i - b \in 1..y
    BY <1>3
  <2>2. QED
    BY <1>1, <1>3, <1>6, <2>1 DEF Half
<1>11. Half(b + y + 1)' = h /\ Half(b + y + 2)' = h
  <2>1. /\ ~(b + y + 1 <= b) /\ ~(b + y + 2 <= b)
        /\ (b + y + 1) - b = y + 1 /\ (b + y + 2) - b = y + 2
    BY <1>3
  <2>2. QED
    BY <1>1, <1>3, <1>6, <2>1 DEF Half
<1>12. h = pending[p - r + 1]
  BY <1>2, <1>3, <1>4, <1>5 DEF InOrder
<1>13. Halves' = 2 * (p - (r - 1))
  <2>1. Halves' = b + (y + 2)
    BY <1>1, <1>3, <1>6 DEF Halves
  <2>2. QED
    BY <1>3, <1>9, <2>1
<1>14. \A i \in 1 .. p - (r - 1) : Half(2 * i - 1)' = pending[i] /\ Half(2 * i)' = pending[i]
  <2> SUFFICES ASSUME NEW i \in 1 .. p - (r - 1)
               PROVE  Half(2 * i - 1)' = pending[i] /\ Half(2 * i)' = pending[i]
    OBVIOUS
  <2>1. CASE i = p - r + 1
    <3>1. 2 * i - 1 = b + y + 1 /\ 2 * i = b + y + 2
      BY <1>3, <1>9, <2>1
    <3>2. QED
      BY <1>11, <1>12, <2>1, <3>1
  <2>2. CASE i # p - r + 1
    <3>1. i \in 1 .. p - r /\ 2 * i - 1 \in 1 .. b + y /\ 2 * i \in 1 .. b + y
      BY <1>3, <1>9, <2>2
    <3>2. Half(2 * i - 1) = pending[i] /\ Half(2 * i) = pending[i]
      BY <1>2, <1>3, <3>1 DEF InOrder
    <3>3. QED
      BY <1>10, <3>1, <3>2
  <2>3. QED
    BY <2>1, <2>2
<1>15. \A i \in 1 .. r - 1 : requests'[i] = pending[p - (r - 1) + i]
  <2>1. \A i \in 1 .. r - 1 : i + 1 \in 1..r /\ p - (r - 1) + i = p - r + (i + 1)
    BY <1>3
  <2>2. QED
    BY <1>2, <1>3, <1>5, <2>1 DEF InOrder
<1>16. InOrder'
  <2>1. Len(pending') = p /\ Len(requests') = r - 1 /\ pending' = pending /\ r - 1 <= p
    BY <1>1, <1>3, <1>5, <1>9
  <2>2. QED
    BY <1>13, <1>14, <1>15, <2>1 DEF InOrder
<1>17. QED
  BY <1>1, <1>2, <1>7, <1>8, <1>16 DEF OrderInv

(* The replies a chunk completes settle the calls they were sent for, and  *)
(* what is left of it begins with the reply of the first call left.        *)
LEMMA DataStep == ASSUME OrderInv, OnData PROVE OrderInv'
<1>1. UNCHANGED <<stream, requests, unwritten>>
  BY DEF OnData
<1>2. Lists /\ Once /\ EachOwnReply
  BY DEF OrderInv
<1>3. PICK p \in Nat, r \in Nat, b \in Nat, y \in Nat :
        p = Len(pending) /\ r = Len(requests) /\ b = Len(buffer) /\ y = Len(replies)
  BY <1>2, Lengths
<1>4. PICK n \in 1..y :
        LET received == buffer \o SubSeq(replies, 1, n)
            k        == Complete(received)
        IN  /\ answer' = Settled(received)
            /\ pending' = SubSeq(pending, k + 1, Len(pending))
            /\ buffer' = SubSeq(received, 2 * k + 1, Len(received))
            /\ replies' = SubSeq(replies, n + 1, Len(replies))
  BY <1>3 DEF OnData
<1>5. stream = "up" /\ InOrder /\ unwritten = << >>
  <2>1. y > 0
    BY <1>3
  <2>2. ~Lost
    BY <1>3, <2>1 DEF Lost
  <2>3. QED
    BY <2>2 DEF OrderInv
<1>6. r <= p /\ b + y = 2 * (p - r)
  BY <1>3, <1>5 DEF InOrder, Halves
<1>7. PICK received : received = buffer \o SubSeq(replies, 1, n)
  OBVIOUS
<1>8. /\ received \in Seq(Commands) /\ Len(received) = b + n
      /\ \A i \in 1 .. b + n : received[i] = Half(i)
  <2> DEFINE t == SubSeq(replies, 1, n)
  <2>1. buffer \in Seq(Commands) /\ replies \in Seq(Commands)
    BY <1>2 DEF Lists
  <2>2. t \in Seq(Commands) /\ Len(t) = n /\ \A i \in 1..n : t[i] = replies[i]
    <3>1. 1 \in 1 .. Len(replies) + 1 /\ n \in 1 - 1 .. Len(replies) /\ n - 1 + 1 = n
      BY <1>3
    <3>2. /\ t \in Seq(Commands) /\ Len(t) = n - 1 + 1
          /\ \A i \in 1 .. n - 1 + 1 : t[i] = replies[1 + i - 1]
      BY <2>1, <3>1, Part
    <3>3. QED
      BY <3>1, <3>2
  <2> HIDE DEF t
  <2>3. /\ buffer \o t \in Seq(Commands) /\ Len(buffer \o t) = Len(buffer) + Len(t)
        /\ \A i \in 1 .. Len(buffer) + Len(t) :
             (buffer \o t)[i] = IF i <= Len(buffer) THEN buffer[i] ELSE t[i - Len(buffer)]
    BY <2>1, <2>2, ConcatProperties
  <2>4. \A i \in 1 .. b + n : ~(i <= b) => i - b \in 1..n
    BY <1>3
  <2>5. QED
    BY <1>3, <1>7, <2>2, <2>3, <2>4 DEF Half, t
<1>9. PICK k \in Nat : k = Complete(received) /\ 2 * k <= b + n /\ k <= p - r
  <2>1. Complete(received) = (b + n) \div 2
    BY <1>8 DEF Complete
  <2>2. (b + n) \div 2 \in Nat /\ 2 * ((b + n) \div 2) <= b + n
    BY <1>3
  <2>3. b + n <= 2 * (p - r)
    BY <1>3, <1>6
  <2>4. QED
    BY <1>3, <1>6, <2>1, <2>2, <2>3
<1>10. /\ p \in Nat /\ r \in Nat /\ b \in Nat /\ y \in Nat /\ n \in Nat /\ k \in Nat
       /\ 1 <= n /\ n <= y /\ r <= p /\ b + y = 2 * (p - r) /\ 2 * k <= b + n /\ k <= p - r
  BY <1>3, <1>6, <1>9
<1>11. /\ answer' = Settled(received)
       /\ pending' = SubSeq(pending, k + 1, Len(pending))
       /\ buffer' = SubSeq(received, 2 * k + 1, Len(received))
       /\ replies' = SubSeq(replies, n + 1, Len(replies))
  BY <1>4, <1>7, <1>9
<1>12. /\ pending' \in Seq(Commands) /\ Len(pending') = p - k
       /\ \A i \in 1 .. p - k : pending'[i] = pending[k + i]
  <2>1. /\ pending \in Seq(Commands) /\ k + 1 \in 1 .. Len(pending) + 1
        /\ p \in (k + 1) - 1 .. Len(pending)
    BY <1>2, <1>3, <1>10 DEF Lists
  <2>2. /\ SubSeq(pending, k + 1, p) \in Seq(Commands)
        /\ Len(SubSeq(pending, k + 1, p)) = p - (k + 1) + 1
        /\ \A i \in 1 .. p - (k + 1) + 1 : SubSeq(pending, k + 1, p)[i] = pending[(k + 1) + i - 1]
    BY <2>1, Part
  <2>3. p - (k + 1) + 1 = p - k /\ \A i \in 1 .. p - k : (k + 1) + i - 1 = k + i
    BY <1>10
  <2>4. QED
    BY <1>3, <1>11, <2>2, <2>3
<1>13. /\ buffer' \in Seq(Commands) /\ Len(buffer') = b + n - 2 * k
       /\ \A i \in 1 .. b + n - 2 * k : buffer'[i] = received[2 * k + i]
  <2>1. PICK m \in Nat : m = 2 * k
    BY <1>10
  <2>2. m + 1 \in 1 .. (b + n) + 1 /\ b + n \in (m + 1) - 1 .. b + n
    BY <1>10, <2>1
  <2>3. /\ SubSeq(received, m + 1, b + n) \in Seq(Commands)
        /\ Len(SubSeq(received, m + 1, b + n)) = (b + n) - (m + 1) + 1
        /\ \A i \in 1 .. (b + n) - (m + 1) + 1 :
             SubSeq(received, m + 1, b + n)[i] = received[(m + 1) + i - 1]
    BY <1>8, <2>2, Part
  <2>4. /\ (b + n) - (m + 1) + 1 = b + n - m
        /\ \A i \in 1 .. b + n - m : (m + 1) + i - 1 = m + i
    BY <1>10, <2>1
  <2>5. QED
    BY <1>8, <1>11, <2>1, <2>3, <2>4
<1>14. /\ replies' \in Seq(Commands) /\ Len(replies') = y - n
       /\ \A i \in 1 .. y - n : replies'[i] = replies[n + i]
  <2>1. /\ replies \in Seq(Commands) /\ n + 1 \in 1 .. Len(replies) + 1
        /\ y \in (n + 1) - 1 .. Len(replies)
    BY <1>2, <1>3 DEF Lists
  <2>2. /\ SubSeq(replies, n + 1, y) \in Seq(Commands)
        /\ Len(SubSeq(replies, n + 1, y)) = y - (n + 1) + 1
        /\ \A i \in 1 .. y - (n + 1) + 1 : SubSeq(replies, n + 1, y)[i] = replies[(n + 1) + i - 1]
    BY <2>1, Part
  <2>3. y - (n + 1) + 1 = y - n /\ \A i \in 1 .. y - n : (n + 1) + i - 1 = n + i
    BY <1>10
  <2>4. QED
    BY <1>3, <1>11, <2>2, <2>3
<1>15. \A c \in Commands : answer'[c] = answer[c] \/ answer'[c] = c
  <2> SUFFICES ASSUME NEW c \in Commands, answer'[c] # answer[c] PROVE answer'[c] = c
    OBVIOUS
  <2> DEFINE j == CHOOSE i \in 1..k : pending[i] = c
  <2>1. /\ \E i \in 1..k : pending[i] = c
        /\ answer'[c] = received[2 * j - 1]
    BY <1>9, <1>11 DEF Settled
  <2>2. j \in 1..k /\ pending[j] = c
    BY <2>1
  <2> HIDE DEF j
  <2>3. 2 * j - 1 \in 1 .. b + n /\ j \in 1 .. p - r
    BY <1>10, <2>2
  <2>4. received[2 * j - 1] = pending[j]
    BY <1>3, <1>5, <1>8, <2>3 DEF InOrder
  <2>5. QED
    BY <2>1, <2>2, <2>4
<1>16. answer' \in [Commands -> Commands \cup {"none", "waiting", "rejected"}]
  <2>1. DOMAIN answer' = Commands /\ answer' = [c \in Commands |-> answer'[c]]
    BY <1>11 DEF Settled
  <2>2. \A c \in Commands : answer'[c] \in Commands \cup {"none", "waiting", "rejected"}
    BY <1>2, <1>15 DEF Lists
  <2>3. QED
    BY <2>1, <2>2
<1>17. Lists'
  BY <1>1, <1>2, <1>12, <1>13, <1>14, <1>16 DEF Lists
<1>18. EachOwnReply'
  BY <1>2, <1>15 DEF EachOwnReply
<1>19. Once'
  <2>1. \A i \in 1 .. p - k : k + i \in 1..p
    BY <1>10
  <2>2. \A i, j \in 1 .. p - k : pending'[i] = pending'[j] => i = j
    <3> SUFFICES ASSUME NEW i \in 1 .. p - k, NEW j \in 1 .. p - k, pending'[i] = pending'[j]
                 PROVE  i = j
      OBVIOUS
    <3>1. k + i = k + j
      BY <1>2, <1>3, <1>12, <2>1 DEF Once
    <3>2. QED
      BY <1>10, <3>1
  <2>3. \A i \in 1 .. p - k : answer'[pending'[i]] # "none"
    <3> SUFFICES ASSUME NEW i \in 1 .. p - k PROVE answer'[pending'[i]] # "none"
      OBVIOUS
    <3>1. PICK c \in Commands : c = pending'[i] /\ c = pending[k + i]
      BY <1>2, <1>3, <1>12, <2>1, ElementOfSeq DEF Lists
    <3>2. answer[c] # "none" /\ c # "none"
      BY <1>2, <1>3, <2>1, <3>1 DEF Once
    <3>3. QED
      BY <1>15, <3>1, <3>2
  <2>4. QED
    BY <1>12, <2>2, <2>3 DEF Once
<1>20. InOrder'
  <2>1. PICK m \in Nat : m = 2 * k
    BY <1>10
  <2>2. /\ p \in Nat /\ r \in Nat /\ b \in Nat /\ y \in Nat /\ n \in Nat /\ k \in Nat /\ m \in Nat
        /\ m = 2 * k /\ m <= b + n /\ k <= p - r /\ r <= p /\ b + y = 2 * (p - r)
        /\ 1 <= n /\ n <= y
    BY <1>10, <2>1
  <2>3. \A i \in 1 .. b + y - m : Half(i)' = Half(m + i)
    <3> SUFFICES ASSUME NEW i \in 1 .. b + y - m PROVE Half(i)' = Half(m + i)
      OBVIOUS
    <3>1. CASE i <= b + n - m
      <4>1. i \in 1 .. b + n - m /\ m + i \in 1 .. b + n
        BY <2>2, <3>1
      <4>2. Half(i)' = buffer'[i]
        BY <1>13, <2>1, <3>1 DEF Half
      <4>3. QED
        BY <1>8, <1>13, <2>1, <4>1, <4>2
    <3>2. CASE ~(i <= b + n - m)
      <4>1. /\ i - (b + n - m) \in 1 .. y - n
            /\ ~(m + i <= b) /\ n + (i - (b + n - m)) = (m + i) - b
        BY <2>2, <3>2
      <4>2. Half(i)' = replies'[i - (b + n - m)]
        BY <1>13, <2>1, <3>2 DEF Half
      <4>3. replies'[i - (b + n - m)] = replies[(m + i) - b]
        BY <1>14, <4>1
      <4>4. Half(m + i) = replies[(m + i) - b]
        BY <1>3, <4>1 DEF Half
      <4>5. QED
        BY <4>2, <4>3, <4>4
    <3>3. QED
      BY <3>1, <3>2
  <2>4. /\ Len(requests') = r /\ requests' = requests /\ r <= p - k
        /\ (p - k) - r \in Nat
    BY <1>1, <1>3, <1>10
  <2>5. Halves' = 2 * ((p - k) - r)
    <3>1. Halves' = (b + n - m) + (y - n)
      BY <1>13, <1>14, <2>1 DEF Halves
    <3>2. QED
      BY <2>2, <3>1
  <2>6. \A i \in 1 .. (p - k) - r : Half(2 * i - 1)' = pending'[i] /\ Half(2 * i)' = pending'[i]
    <3> SUFFICES ASSUME NEW i \in 1 .. (p - k) - r
                 PROVE  Half(2 * i - 1)' = pending'[i] /\ Half(2 * i)' = pending'[i]
      OBVIOUS
    <3>1. /\ 2 * i - 1 \in 1 .. b + y - m /\ 2 * i \in 1 .. b + y - m
          /\ m + (2 * i - 1) = 2 * (k + i) - 1 /\ m + 2 * i = 2 * (k + i)
          /\ k + i \in 1 .. p - r /\ i \in 1 .. p - k
      BY <2>2
    <3>2. Half(2 * i - 1)' = Half(2 * (k + i) - 1) /\ Half(2 * i)' = Half(2 * (k + i))
      BY <2>3, <3>1
    <3>3. Half(2 * (k + i) - 1) = pending[k + i] /\ Half(2 * (k + i)) = pending[k + i]
      BY <1>3, <1>5, <3>1 DEF InOrder
    <3>4. QED
      BY <1>12, <3>1, <3>2, <3>3
  <2>7. \A i \in 1..r : requests'[i] = pending'[(p - k) - r + i]
    <3>1. \A i \in 1..r : (p - k) - r + i \in 1 .. p - k /\ k + ((p - k) - r + i) = p - r + i
      BY <2>2
    <3>2. ASSUME NEW i \in 1..r PROVE requests'[i] = pending'[(p - k) - r + i]
      <4>1. pending'[(p - k) - r + i] = pending[p - r + i]
        BY <1>12, <3>1
      <4>2. requests[i] = pending[p - r + i]
        BY <1>3, <1>5 DEF InOrder
      <4>3. QED
        BY <2>4, <4>1, <4>2
    <3>3. QED
      BY <3>2
  <2>8. QED
    BY <1>12, <2>4, <2>5, <2>6, <2>7 DEF InOrder
<1>21. QED
  BY <1>1, <1>5, <1>17, <1>18, <1>19, <1>20 DEF OrderInv

(* Rejections, losses and refusals answer nobody.                          *)
LEMMA LossStep ==
    ASSUME OrderInv, WriteFailed \/ Drop \/ OnError \/ OnClose
    PROVE  OrderInv'
<1>1. Lists /\ Once /\ EachOwnReply
  BY DEF OrderInv
<1>2. PICK p \in Nat, r \in Nat : p = Len(pending) /\ r = Len(requests)
  BY <1>1, Lengths
<1>3. stream' # "up" /\ replies' = << >> /\ requests' = << >> /\ buffer' = buffer
  <2>1. CASE WriteFailed
    BY <2>1 DEF WriteFailed, OrderInv, Lost
  <2>2. CASE Drop
    BY <2>2 DEF Drop
  <2>3. CASE OnError \/ OnClose
    BY <2>3 DEF OnError, OnClose, OrderInv, Lost
  <2>4. QED
    BY <2>1, <2>2, <2>3
<1>4. answer' = answer \/ \E cs : answer' = Rejected(cs)
  BY DEF WriteFailed, Drop, OnError, OnClose, FailAll
<1>5. /\ answer' \in [Commands -> Commands \cup {"none", "waiting", "rejected"}]
      /\ \A c \in Commands : answer'[c] \in {answer[c], "rejected"}
      /\ \A c \in Commands : answer[c] # "none" => answer'[c] # "none"
  <2>1. CASE answer' = answer
    BY <1>1, <2>1 DEF Lists
  <2>2. CASE \E cs : answer' = Rejected(cs)
    BY <1>1, <2>2, RejectedKeeps
  <2>3. QED
    BY <1>4, <2>1, <2>2
<1>6. unwritten' \in Seq(Commands)
  <2>1. CASE WriteFailed
    <3>1. unwritten \in Seq(Commands) /\ unwritten # << >> /\ unwritten' = Tail(unwritten)
      BY <1>1, <2>1 DEF WriteFailed, Lists
    <3>2. QED
      BY <3>1, HeadTailProperties
  <2>2. CASE Drop
    <3>1. PICK n \in 0..r : unwritten' = SubSeq(requests, n + 1, r)
      BY <1>2, <2>2 DEF Drop
    <3>2. requests \in Seq(Commands) /\ n + 1 \in 1 .. r + 1 /\ r \in (n + 1) - 1 .. r
      BY <1>1, <1>2, <3>1 DEF Lists
    <3>3. QED
      BY <1>2, <3>1, <3>2, Part
  <2>3. CASE OnError \/ OnClose
    BY <1>1, <2>3 DEF OnError, OnClose, Lists
  <2>4. QED
    BY <2>1, <2>2, <2>3
<1>7. PICK q \in 0..p : /\ pending' \in Seq(Commands) /\ Len(pending') = q
                        /\ \A i \in 1..q : pending'[i] = pending[i]
  <2>1. CASE pending' = pending
    BY <1>1, <1>2, <2>1 DEF Lists
  <2>2. CASE pending' = << >>
    <3>1. << >> \in Seq(Commands) /\ Len(<< >>) = 0
      BY EmptySeq
    <3>2. QED
      BY <1>2, <2>2, <3>1
  <2>3. CASE pending # << >> /\ pending' = Front(pending)
    <3>1. pending \in Seq(Commands) /\ p \in Nat \ {0}
      BY <1>1, <1>2, <2>3, EmptySeq DEF Lists
    <3>2. pending' = SubSeq(pending, 1, p - 1)
      BY <1>2, <2>3 DEF Front
    <3>3. 1 \in 1 .. p + 1 /\ p - 1 \in 1 - 1 .. p /\ (p - 1) - 1 + 1 = p - 1
      BY <3>1
    <3>4. /\ SubSeq(pending, 1, p - 1) \in Seq(Commands)
          /\ Len(SubSeq(pending, 1, p - 1)) = (p - 1) - 1 + 1
          /\ \A i \in 1 .. (p - 1) - 1 + 1 : SubSeq(pending, 1, p - 1)[i] = pending[1 + i - 1]
      BY <1>2, <3>1, <3>3, Part
    <3>5. p - 1 \in 0..p /\ \A i \in 1 .. p - 1 : 1 + i - 1 = i
      BY <3>1
    <3>6. QED
      BY <3>2, <3>3, <3>4, <3>5
  <2>4. pending' = pending \/ pending' = << >> \/ (pending # << >> /\ pending' = Front(pending))
    BY DEF WriteFailed, Drop, OnError, OnClose, FailAll
  <2>5. QED
    BY <2>1, <2>2, <2>3, <2>4
<1>8. Lists'
  <2>1. << >> \in Seq(Commands)
    BY EmptySeq
  <2>2. QED
    BY <1>1, <1>3, <1>5, <1>6, <1>7, <2>1 DEF Lists
<1>9. EachOwnReply'
  BY <1>1, <1>5 DEF EachOwnReply
<1>10. Once'
  <2>1. \A i \in 1..q : i \in 1..p /\ pending[i] \in Commands
    BY <1>1, <1>2, <1>7, ElementOfSeq DEF Lists
  <2>2. QED
    BY <1>1, <1>2, <1>5, <1>7, <2>1 DEF Once
<1>11. QED
  BY <1>3, <1>8, <1>9, <1>10 DEF OrderInv, Lost

(* A refused call, and close(), touch neither queue.                       *)
LEMMA RefusalStep ==
    ASSUME OrderInv, Close \/ \E c \in Commands : RefuseCommand(c)
    PROVE  OrderInv'
<1>1. UNCHANGED <<stream, pending, requests, unwritten, replies, buffer>>
  BY DEF Close, RefuseCommand
<1>2. /\ answer' \in [Commands -> Commands \cup {"none", "waiting", "rejected"}]
      /\ \A c \in Commands : answer'[c] \in {answer[c], "rejected"}
      /\ \A c \in Commands : answer[c] # "none" => answer'[c] # "none"
  BY DEF Close, RefuseCommand, OrderInv, Lists
<1>3. Lists' /\ EachOwnReply'
  BY <1>1, <1>2 DEF OrderInv, Lists, EachOwnReply
<1>4. Once'
  <2>1. \A i \in 1..Len(pending) : pending[i] \in Commands
    BY ElementOfSeq DEF OrderInv, Lists
  <2>2. QED
    BY <1>1, <1>2, <2>1 DEF OrderInv, Once
<1>5. stream = "up" => InOrder'
  BY <1>1 DEF OrderInv, InOrder, Halves, Half
<1>6. QED
  BY <1>1, <1>3, <1>4, <1>5 DEF OrderInv, Lost

----------------------------------------------------------------------------
(* Nobody gets the answer to somebody else's command (RedisCache.command() *)
(* and its data, error and close handlers): the n-th reply is the n-th     *)
(* call's, wherever chunks end, whatever writes fail, however the          *)
(* connection dies, for any number of calls.                               *)
THEOREM RepliesMatched == Spec => []EachOwnReply
<1>1. OrderInv /\ [Next]_vars => OrderInv'
  <2> SUFFICES ASSUME OrderInv, [Next]_vars PROVE OrderInv'
    OBVIOUS
  <2>1. CASE Call
    BY <2>1, CommandStep, RefusalStep DEF Call
  <2>2. CASE Close
    BY <2>2, RefusalStep
  <2>3. CASE WriteFailed \/ Drop \/ OnError \/ OnClose
    BY <2>3, LossStep
  <2>4. CASE Handle
    BY <2>4, HandleStep
  <2>5. CASE OnData
    BY <2>5, DataStep
  <2>6. CASE UNCHANGED vars
    BY <2>6 DEF vars, OrderInv, Lists, Once, EachOwnReply, InOrder, Halves, Half, Lost
  <2>7. QED
    BY <2>1, <2>2, <2>3, <2>4, <2>5, <2>6 DEF Next
<1>2. OrderInv => EachOwnReply
  BY DEF OrderInv
<1>3. QED
  BY <1>1, <1>2, InitOrder, PTL DEF Spec
=============================================================================
