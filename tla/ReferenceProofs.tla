-------------------------- MODULE ReferenceProofs --------------------------
(***************************************************************************)
(* Machine-checked proofs that what the objects of Monitoring keep is what *)
(* a computation over all of their inputs yields: the walk of KSWIN over   *)
(* two sorted windows against the definition of its statistic, the counts  *)
(* of a metric, the hits of its window and the extrema.                    *)
(***************************************************************************)
EXTENDS MomentProofs

-----------------------------------------------------------------------------
(* Counting: how many values of a window are not above a number.           *)

\* The places of the values that are not above y.
UpTo(w, y) == {i \in DOMAIN w : w[i] <= y}

AtMost(w, y) == Cardinality(UpTo(w, y))

LEMMA PlacesCount ==
    ASSUME NEW n \in Nat, NEW P \in SUBSET (1..n)
    PROVE  /\ IsFiniteSet(P) /\ Cardinality(P) \in Nat /\ Cardinality(P) <= n
           /\ P = 1..n => Cardinality(P) = n
           /\ P = {} => Cardinality(P) = 0
           /\ \A Q \in SUBSET P : Cardinality(Q) <= Cardinality(P)
<1>1. IsFiniteSet(1..n) /\ Cardinality(1..n) = n
  BY FS_Interval
<1>2. IsFiniteSet(P) /\ Cardinality(P) <= n
  BY <1>1, FS_Subset
<1> QED
  BY <1>1, <1>2, FS_Subset, FS_EmptySet, FS_CardinalityType

LEMMA AtMostBounds ==
    ASSUME NEW w \in Seq(Int)
    PROVE  /\ \A y \in Int : AtMost(w, y) \in 0..Len(w)
           /\ \A x, y \in Int : x <= y => AtMost(w, x) <= AtMost(w, y)
           /\ \A x \in Int : AtMost(w, x) > AtMost(w, x - 1) => x \in ToSet(w)
           /\ \A y \in Int : (\A i \in DOMAIN w : w[i] <= y) => AtMost(w, y) = Len(w)
           /\ \A y \in Int : AtMost(w, y) > 0 => \E i \in DOMAIN w : w[i] <= y
<1>1. Len(w) \in Nat /\ DOMAIN w = 1..Len(w) /\ \A i \in DOMAIN w : w[i] \in Int
  OBVIOUS
<1>2. \A y \in Int : UpTo(w, y) \in SUBSET (1..Len(w))
  BY <1>1 DEF UpTo
<1>3. ASSUME NEW y \in Int
      PROVE  /\ AtMost(w, y) \in 0..Len(w)
             /\ (\A i \in DOMAIN w : w[i] <= y) => AtMost(w, y) = Len(w)
             /\ AtMost(w, y) > 0 => \E i \in DOMAIN w : w[i] <= y
  <2>1. (\A i \in DOMAIN w : w[i] <= y) => UpTo(w, y) = 1..Len(w)
    BY <1>1 DEF UpTo
  <2>2. (~ \E i \in DOMAIN w : w[i] <= y) => UpTo(w, y) = {}
    BY DEF UpTo
  <2>3. AtMost(w, y) \in 0..Len(w)
    BY <1>1, <1>2, PlacesCount DEF AtMost
  <2>4. UpTo(w, y) = 1..Len(w) => AtMost(w, y) = Len(w)
    BY <1>1, <1>2, PlacesCount DEF AtMost
  <2>5. UpTo(w, y) = {} => AtMost(w, y) = 0
    BY <1>1, <1>2, PlacesCount DEF AtMost
  <2> QED
    BY <2>1, <2>2, <2>3, <2>4, <2>5
<1>4. ASSUME NEW x \in Int, NEW y \in Int, x <= y
      PROVE  AtMost(w, x) <= AtMost(w, y)
  <2>1. UpTo(w, x) \in SUBSET UpTo(w, y)
    BY <1>1, <1>4 DEF UpTo
  <2> QED
    BY <1>1, <1>2, <2>1, PlacesCount DEF AtMost
<1>5. ASSUME NEW x \in Int, AtMost(w, x) > AtMost(w, x - 1)
      PROVE  x \in ToSet(w)
  <2>1. UpTo(w, x) # UpTo(w, x - 1)
    <3>1. AtMost(w, x) \in Int
      BY <1>1, <1>3
    <3> SUFFICES ASSUME AtMost(w, x) = AtMost(w, x - 1) PROVE FALSE
      BY DEF AtMost
    <3> QED
      BY <1>5, <3>1
  <2>2. PICK i \in DOMAIN w : (w[i] <= x) # (w[i] <= x - 1)
    BY <2>1 DEF UpTo
  <2>3. w[i] = x
    BY <1>1, <2>2
  <2> QED
    BY <2>3 DEF ToSet
<1> QED
  BY <1>3, <1>4, <1>5

\* As many values are below a number as are below the greatest of them.
LEMMA PointBelow ==
    ASSUME NEW P \in SUBSET FiniteNumbers, NEW y \in Int, NEW z \in P, z <= y
    PROVE  \E g \in P :
              /\ g \in Int /\ g <= y
              /\ \A w \in Seq(FiniteNumbers) :
                    ToSet(w) \subseteq P => AtMost(w, g) = AtMost(w, y)
<1> DEFINE Z == {x \in P : x <= y}
<1>1. \A v \in Z : FiniteFloat(v)
  BY DEF FiniteFloat, FiniteNumbers
<1>2. Z # {}
  OBVIOUS
<1>3. PICK g \in Z : \A v \in Z : v <= g
  <2> HIDE DEF Z
  <2> QED
    BY <1>1, <1>2, FiniteExtremes
<1>4. g \in Int /\ g \in P /\ g <= y
  BY <1>1, <1>3, FiniteIsInteger
<1>5. ASSUME NEW w \in Seq(FiniteNumbers), ToSet(w) \subseteq P
      PROVE  AtMost(w, g) = AtMost(w, y)
  <2>1. \A i \in DOMAIN w : w[i] \in P /\ w[i] \in Int
    <3> TAKE i \in DOMAIN w
    <3>1. w[i] \in P
      BY <1>5 DEF ToSet
    <3> QED
      BY <3>1, FiniteIsInteger DEF FiniteFloat, FiniteNumbers
  <2>2. \A i \in DOMAIN w : w[i] <= y <=> w[i] <= g
    BY <1>3, <1>4, <2>1
  <2>3. UpTo(w, g) = UpTo(w, y)
    BY <2>2 DEF UpTo
  <2> QED
    BY <2>3 DEF AtMost
<1> QED
  BY <1>4, <1>5

LEMMA WindowOfIntegers ==
    ASSUME NEW w \in Seq(FiniteNumbers)
    PROVE  /\ w \in Seq(Int) /\ ToSet(w) \in SUBSET FiniteNumbers /\ ToSet(w) \subseteq Int
           /\ Len(w) \in Nat /\ DOMAIN w = 1..Len(w) /\ \A i \in DOMAIN w : w[i] \in ToSet(w)
<1>1. FiniteNumbers \subseteq Int
  BY FiniteIsInteger DEF FiniteFloat, FiniteNumbers
<1>2. /\ Len(w) \in Nat /\ DOMAIN w = 1..Len(w)
      /\ \A i \in DOMAIN w : w[i] \in ToSet(w) /\ w[i] \in FiniteNumbers
  BY DEF ToSet
<1>3. w \in Seq(Int)
  <2>1. w \in [1..Len(w) -> FiniteNumbers]
    BY <1>2
  <2>2. w \in [1..Len(w) -> Int]
    BY <1>1, <2>1
  <2> QED
    BY <1>2, <2>2
<1>4. ToSet(w) \subseteq FiniteNumbers
  BY <1>2 DEF ToSet
<1> QED
  BY <1>1, <1>2, <1>3, <1>4

\* The i-th of the sorted values is at most y just if i values are.
LEMMA SortedRanks ==
    ASSUME NEW w \in Seq(FiniteNumbers)
    PROVE  \A i \in 1..Len(w) :
              /\ Sorted(w)[i] \in ToSet(w) /\ Sorted(w)[i] \in Int
              /\ \A y \in Int : Sorted(w)[i] <= y <=> i <= AtMost(w, y)
<1>1. Len(w) \in Nat /\ DOMAIN w = 1..Len(w) /\ \A i \in DOMAIN w : w[i] \in Int
  BY WindowOfIntegers
<1>2. ToSet(w) \subseteq Int /\ w \in Seq(Int)
  BY WindowOfIntegers
<1>3. \A x \in Int : /\ Count(w, LAMBDA y : y <= x) = AtMost(w, x)
                     /\ Count(w, LAMBDA y : y < x) = AtMost(w, x - 1)
  <2> TAKE x \in Int
  <2>1. Count(w, LAMBDA y : y <= x) = AtMost(w, x)
    BY DEF Count, AtMost, UpTo
  <2>2. {i \in DOMAIN w : w[i] < x} = {i \in DOMAIN w : w[i] <= x - 1}
    BY <1>1
  <2>3. Count(w, LAMBDA y : y < x) = AtMost(w, x - 1)
    BY <2>2 DEF Count, AtMost, UpTo
  <2> QED
    BY <2>1, <2>3
<1> SUFFICES ASSUME NEW i \in 1..Len(w)
             PROVE  /\ Sorted(w)[i] \in ToSet(w) /\ Sorted(w)[i] \in Int
                    /\ \A y \in Int : Sorted(w)[i] <= y <=> i <= AtMost(w, y)
  OBVIOUS
<1> DEFINE Fits(x) == AtMost(w, x - 1) < i /\ i <= AtMost(w, x)
           s == CHOOSE x \in ToSet(w) : Fits(x)
<1>4. Sorted(w)[i] = s
  <2> DEFINE v(j) == CHOOSE x \in ToSet(w) :
                      Count(w, LAMBDA y : y < x) < j /\ j <= Count(w, LAMBDA y : y <= x)
  <2>1. Sorted(w) = [j \in 1..Len(w) |-> v(j)]
    BY DEF Sorted
  <2>2. Sorted(w)[i] = v(i)
    BY <2>1
  <2>3. \A x \in ToSet(w) :
           (Count(w, LAMBDA y : y < x) < i /\ i <= Count(w, LAMBDA y : y <= x)) <=> Fits(x)
    BY <1>2, <1>3
  <2>4. v(i) = s
    BY <2>3, Zenon
  <2> QED
    BY <2>2, <2>4
<1>5. \E x \in ToSet(w) : Fits(x)
  <2> DEFINE W == ToSet(w)
             T == {x \in W : i <= AtMost(w, x)}
  <2>1. W # {} /\ W \in SUBSET FiniteNumbers /\ \A j \in DOMAIN w : w[j] \in W
    BY <1>1, WindowOfIntegers
  <2>2. \A v \in W : FiniteFloat(v) /\ v \in Int
    BY <1>2, <2>1 DEF FiniteFloat, FiniteNumbers
  <2> HIDE DEF W
  <2>3. PICK m \in W : \A v \in W : v <= m
    BY <2>1, <2>2, FiniteExtremes
  <2>4. AtMost(w, m) = Len(w)
    BY <1>2, <2>1, <2>2, <2>3, AtMostBounds
  <2>5. T # {} /\ \A v \in T : FiniteFloat(v)
    BY <1>1, <2>2, <2>3, <2>4
  <2>6. PICK x \in T : \A v \in T : x <= v
    <3> HIDE DEF T
    <3> QED
      BY <2>5, FiniteExtremes
  <2>7. x \in Int /\ x - 1 \in Int
    BY <2>2, <2>6
  <2>8. AtMost(w, x - 1) < i
    <3> DEFINE y == x - 1
    <3>1. y \in Int /\ y < x
      BY <2>7
    <3> HIDE DEF y
    <3> SUFFICES ASSUME ~(AtMost(w, y) < i)
                 PROVE  FALSE
      BY DEF y
    <3>6. AtMost(w, y) \in 0..Len(w)
      BY <1>2, <3>1, AtMostBounds
    <3>2. AtMost(w, y) \in Nat /\ AtMost(w, y) > 0 /\ i <= AtMost(w, y)
      BY <1>1, <3>6
    <3>5. PICK j \in DOMAIN w : w[j] <= y
      BY <1>2, <3>1, <3>2, AtMostBounds
    <3>3. PICK g \in W : g \in Int /\ g <= y /\ AtMost(w, g) = AtMost(w, y)
      <4>1. w[j] \in W /\ ToSet(w) \subseteq W
        BY <2>1 DEF W
      <4> QED
        BY <2>1, <3>1, <3>5, <4>1, PointBelow
    <3>4. g \in T
      BY <3>2, <3>3
    <3> QED
      BY <2>6, <2>7, <3>1, <3>3, <3>4
  <2> QED
    BY <2>6, <2>8 DEF W
<1>6. s \in ToSet(w) /\ Fits(s)
  <2> HIDE DEF Fits
  <2> QED
    BY <1>5, Zenon
<1>7. s \in Int
  BY <1>2, <1>6
<1> HIDE DEF s
<1>8. ASSUME NEW y \in Int
      PROVE  s <= y <=> i <= AtMost(w, y)
  <2>1. AtMost(w, y) \in Int /\ AtMost(w, s) \in Int /\ AtMost(w, s - 1) \in Int
    BY <1>2, <1>7, AtMostBounds
  <2>2. s <= y => AtMost(w, s) <= AtMost(w, y)
    BY <1>2, <1>7, AtMostBounds
  <2>3. y <= s - 1 => AtMost(w, y) <= AtMost(w, s - 1)
    BY <1>2, <1>7, AtMostBounds
  <2> QED
    BY <1>1, <1>6, <1>7, <2>1, <2>2, <2>3
<1> QED
  BY <1>4, <1>6, <1>7, <1>8

-----------------------------------------------------------------------------
(* The walk over two sorted windows. A and B count the values up to a      *)
(* number, s and t are the sorted values.                                  *)

\* The i-th value is at most y just if i values are.
Ranks(A, s, n) ==
    /\ A \in [Int -> 0..n]
    /\ \A i \in 1..n : s[i] \in Int /\ \A y \in Int : s[i] <= y <=> i <= A[y]

Gap(A, B, y) == Magnitude(A[y] - B[y])

\* A walk that has passed p and q values is at the value x: it passes as many of
\* either side while both have it, and then what one of them has more.
WalksAt(A, B, p, q, x) ==
    /\ A[x - 1] <= p /\ p <= A[x]
    /\ B[x - 1] <= q /\ q <= B[x]
    /\ \/ p - A[x - 1] = q - B[x - 1]
       \/ p = A[x] /\ q - B[x - 1] >= p - A[x - 1]
       \/ q = B[x] /\ p - A[x - 1] >= q - B[x - 1]

\* The distance on the way from one value to the next is none that both exceed.
LEMMA WalkIsBounded ==
    ASSUME NEW n \in Nat, NEW A \in [Int -> 0..n], NEW B \in [Int -> 0..n],
           NEW p \in 0..n, NEW q \in 0..n, NEW x \in Int, WalksAt(A, B, p, q, x),
           NEW D \in Nat, \A y \in Int : Gap(A, B, y) <= D
    PROVE  Magnitude(p - q) <= D
<1>1. x - 1 \in Int /\ A[x] \in 0..n /\ B[x] \in 0..n /\ A[x - 1] \in 0..n /\ B[x - 1] \in 0..n
  OBVIOUS
<1> DEFINE a == A[x]  b == B[x]  c == A[x - 1]  d == B[x - 1]
<1>2. Magnitude(a - b) <= D /\ Magnitude(c - d) <= D
  BY <1>1 DEF Gap
<1>3. a \in Int /\ b \in Int /\ c \in Int /\ d \in Int
  BY <1>1
<1>4. /\ c <= p /\ p <= a /\ d <= q /\ q <= b
      /\ \/ p - c = q - d
         \/ p = a /\ q - d >= p - c
         \/ q = b /\ p - c >= q - d
  BY DEF WalksAt
<1> HIDE DEF a, b, c, d
<1>5. a - b <= D /\ b - a <= D /\ c - d <= D /\ d - c <= D
  BY <1>2, <1>3 DEF Magnitude
<1>6. p - q <= D /\ q - p <= D
  BY <1>3, <1>4, <1>5
<1> QED
  BY <1>6 DEF Magnitude

\* Counts grow, and the next value is where they do.
LEMMA RanksGrow ==
    ASSUME NEW n \in Nat, NEW A, NEW s, Ranks(A, s, n)
    PROVE  \A x, y \in Int : x <= y => A[x] <= A[y]
<1> SUFFICES ASSUME NEW x \in Int, NEW y \in Int, x <= y, A[x] > A[y]
             PROVE  FALSE
  BY DEF Ranks
<1>1. A[x] \in 1..n /\ A[y] \in 0..n
  BY DEF Ranks
<1>2. s[A[x]] \in Int /\ s[A[x]] <= x
  BY <1>1 DEF Ranks
<1>3. s[A[x]] <= y
  BY <1>2
<1> QED
  BY <1>1, <1>3 DEF Ranks

\* A walk that is not over is at a value that one side still has.
LEMMA WalkGoesOn ==
    ASSUME NEW n \in Nat, NEW A, NEW B, NEW s, NEW t, Ranks(A, s, n), Ranks(B, t, n),
           NEW p \in 0..(n - 1), NEW q \in 0..(n - 1), NEW z \in Int, WalksAt(A, B, p, q, z)
    PROVE  LET u == s[p + 1]
               v == t[q + 1]
           IN  \E x \in Int :
                  /\ WalksAt(A, B, p, q, x)
                  /\ u \in Int /\ v \in Int /\ x <= u /\ x <= v
                  /\ u = x <=> p < A[x]
                  /\ v = x <=> q < B[x]
                  /\ u = x \/ v = x
<1> DEFINE u == s[p + 1]
           v == t[q + 1]
           Is(x) == /\ WalksAt(A, B, p, q, x)
                    /\ u \in Int /\ v \in Int /\ x <= u /\ x <= v
                    /\ u = x <=> p < A[x]
                    /\ v = x <=> q < B[x]
                    /\ u = x \/ v = x
<1>1. p + 1 \in 1..n /\ q + 1 \in 1..n
  OBVIOUS
<1>2. /\ u \in Int /\ \A y \in Int : u <= y <=> p + 1 <= A[y]
      /\ v \in Int /\ \A y \in Int : v <= y <=> q + 1 <= B[y]
      /\ A \in [Int -> 0..n] /\ B \in [Int -> 0..n]
  BY <1>1 DEF Ranks
<1>3. ASSUME NEW x \in Int
      PROVE  /\ A[x] \in Int /\ A[x - 1] \in Int /\ B[x] \in Int /\ B[x - 1] \in Int
             /\ u <= x <=> p < A[x]
             /\ u <= x - 1 <=> p < A[x - 1]
             /\ v <= x <=> q < B[x]
             /\ v <= x - 1 <=> q < B[x - 1]
  <2>1. x - 1 \in Int
    OBVIOUS
  <2>2. A[x] \in 0..n /\ A[x - 1] \in 0..n /\ B[x] \in 0..n /\ B[x - 1] \in 0..n
    BY <1>2, <2>1
  <2> HIDE DEF u, v
  <2>3. /\ u <= x <=> p + 1 <= A[x]
        /\ u <= x - 1 <=> p + 1 <= A[x - 1]
        /\ v <= x <=> q + 1 <= B[x]
        /\ v <= x - 1 <=> q + 1 <= B[x - 1]
    BY <1>2, <2>1
  <2> QED
    BY <2>2, <2>3
<1> HIDE DEF u, v
<1>4. \E x \in Int : Is(x)
  <2>1. CASE p < A[z] \/ q < B[z]
    <3>1. A[z - 1] <= p /\ B[z - 1] <= q
      BY DEF WalksAt
    <3>2. z <= u /\ z <= v
      BY <1>2, <1>3, <3>1
    <3>3. (u = z <=> p < A[z]) /\ (v = z <=> q < B[z])
      BY <1>2, <1>3, <3>2, SMTT(40)
    <3>4. u = z \/ v = z
      BY <2>1, <3>3
    <3> QED
      BY <1>2, <3>2, <3>3, <3>4
  <2>2. CASE ~(p < A[z] \/ q < B[z])
    <3> DEFINE x == IF u <= v THEN u ELSE v
    <3>1. x \in Int /\ x <= u /\ x <= v /\ (x = u \/ x = v)
      BY <1>2
    <3>2. z < u /\ z < v
      BY <1>2, <1>3, <2>2
    <3>3. z <= x - 1 /\ x - 1 \in Int
      BY <3>1, <3>2, <1>2
    <3> HIDE DEF x
    <3>4. A[z] = p /\ B[z] = q
      <4>1. p <= A[z] /\ q <= B[z] /\ A[z] \in Int /\ B[z] \in Int
        BY <1>3 DEF WalksAt
      <4> QED
        BY <2>2, <4>1
    <3>5. A[z] <= A[x - 1] /\ B[z] <= B[x - 1]
      BY <3>3, RanksGrow
    <3>6. ~(u <= x - 1) /\ ~(v <= x - 1)
      BY <1>2, <3>1
    <3>7. A[x - 1] = p /\ B[x - 1] = q
      <4>1. /\ A[x - 1] \in Int /\ B[x - 1] \in Int
            /\ ~(p < A[x - 1]) /\ ~(q < B[x - 1])
        BY <1>3, <3>1, <3>6
      <4> QED
        BY <3>4, <3>5, <4>1
    <3>8. (u = x <=> p < A[x]) /\ (v = x <=> q < B[x])
      BY <1>2, <1>3, <3>1, SMTT(40)
    <3>9. p <= A[x] /\ q <= B[x]
      <4>1. A[x - 1] <= A[x] /\ B[x - 1] <= B[x]
        BY <3>1, <3>3, RanksGrow
      <4> QED
        BY <3>7, <4>1
    <3>10. WalksAt(A, B, p, q, x)
      BY <3>7, <3>9 DEF WalksAt
    <3> QED
      BY <1>2, <3>1, <3>8, <3>10
  <2> QED
    BY <2>1, <2>2
<1> QED
  BY <1>4 DEF u, v

\* What a walk has when it has passed w.i - 1 and w.j - 1 values: the largest
\* distance up to there, and none that no number has.
WalkSound(A, B, n, w) ==
    /\ w.i \in 1..(n + 1) /\ w.j \in 1..(n + 1) /\ w.most \in Nat
    /\ \E x \in Int : WalksAt(A, B, w.i - 1, w.j - 1, x)
    /\ Magnitude(w.i - w.j) <= w.most
    /\ \A y \in Int : A[y] < w.i /\ B[y] < w.j => Gap(A, B, y) <= w.most
    /\ \A D \in Nat : (\A y \in Int : Gap(A, B, y) <= D) => w.most <= D

LEMMA WalkStepIsSound ==
    ASSUME NEW n \in Nat, NEW A, NEW B, NEW s, NEW t, Ranks(A, s, n), Ranks(B, t, n),
           Len(s) = n, Len(t) = n, NEW w, WalkSound(A, B, n, w), w.i <= n, w.j <= n
    PROVE  /\ WalkSound(A, B, n, KsStep(s, t, w))
           /\ KsStep(s, t, w).i + KsStep(s, t, w).j > w.i + w.j
<1> DEFINE i == IF s[w.i] <= t[w.j] THEN w.i + 1 ELSE w.i
           j == IF t[w.j] <= s[w.i] THEN w.j + 1 ELSE w.j
           most == Higher(w.most, Magnitude(i - j))
           r == KsStep(s, t, w)
           p == w.i - 1
           q == w.j - 1
           u == s[w.i]
           v == t[w.j]
<1>1. r.i = i /\ r.j = j /\ r.most = most
  BY DEF KsStep, WalkSound
<1>2. w.i \in 1..n /\ w.j \in 1..n /\ w.most \in Nat
  BY DEF WalkSound
<1>3. p \in 0..(n - 1) /\ q \in 0..(n - 1) /\ p + 1 = w.i /\ q + 1 = w.j
  BY <1>2
<1>4. PICK x \in Int :
         /\ WalksAt(A, B, p, q, x)
         /\ u \in Int /\ v \in Int /\ x <= u /\ x <= v
         /\ u = x <=> p < A[x]
         /\ v = x <=> q < B[x]
         /\ u = x \/ v = x
  <2>1. PICK z \in Int : WalksAt(A, B, p, q, z)
    BY DEF WalkSound
  <2>2. s[p + 1] = u /\ t[q + 1] = v
    BY <1>3
  <2> HIDE DEF p, q, u, v
  <2> QED
    BY <1>3, <2>1, <2>2, WalkGoesOn
<1>5. /\ A \in [Int -> 0..n] /\ B \in [Int -> 0..n]
      /\ \A y \in Int : u <= y <=> w.i <= A[y]
      /\ \A y \in Int : v <= y <=> w.j <= B[y]
  BY <1>2 DEF Ranks
<1>6. /\ \A y, z \in Int : y <= z => A[y] <= A[z]
      /\ \A y, z \in Int : y <= z => B[y] <= B[z]
  BY RanksGrow
<1>7. /\ A[x] \in Int /\ A[x - 1] \in Int /\ B[x] \in Int /\ B[x - 1] \in Int
      /\ A[x - 1] <= p /\ p <= A[x] /\ B[x - 1] <= q /\ q <= B[x]
      /\ \/ p - A[x - 1] = q - B[x - 1]
         \/ p = A[x] /\ q - B[x - 1] >= p - A[x - 1]
         \/ q = B[x] /\ p - A[x - 1] >= q - B[x - 1]
  <2>1. x - 1 \in Int
    OBVIOUS
  <2> HIDE DEF p, q, u, v
  <2> QED
    BY <1>4, <1>5, <2>1 DEF WalksAt
<1>8. /\ i = (IF u <= v THEN w.i + 1 ELSE w.i)
      /\ j = (IF v <= u THEN w.j + 1 ELSE w.j)
  OBVIOUS
<1>9. i \in 1..(n + 1) /\ j \in 1..(n + 1) /\ i + j > w.i + w.j
  <2>1. u \in Int /\ v \in Int
    BY <1>4
  <2> HIDE DEF u, v, i, j
  <2>2. u <= v \/ v <= u
    BY <2>1
  <2>3. \/ i = w.i + 1 /\ j = w.j + 1
        \/ i = w.i + 1 /\ j = w.j
        \/ i = w.i /\ j = w.j + 1
    BY <1>8, <2>2
  <2> QED
    BY <1>2, <2>3
<1>15. \A y \in Int : A[y] \in Int /\ B[y] \in Int
  <2> TAKE y \in Int
  <2>1. A \in [Int -> 0..n] /\ B \in [Int -> 0..n]
    BY <1>5
  <2>2. A[y] \in 0..n /\ B[y] \in 0..n
    BY <2>1
  <2> QED
    BY <2>2
<1>10. most \in Nat /\ w.most <= most /\ Magnitude(i - j) <= most
       /\ most \in {w.most, Magnitude(i - j)}
  <2> HIDE DEF i, j
  <2>1. Magnitude(i - j) \in Nat
    BY <1>9 DEF Magnitude
  <2> QED
    BY <1>2, <2>1 DEF Higher
<1>11. WalksAt(A, B, i - 1, j - 1, x)
  <2> HIDE DEF u, v, i, j
  <2> DEFINE a == A[x]  b == B[x]  c == A[x - 1]  d == B[x - 1]
  <2>1. /\ a \in Int /\ b \in Int /\ c \in Int /\ d \in Int
        /\ c <= p /\ p <= a /\ d <= q /\ q <= b
        /\ \/ p - c = q - d
           \/ p = a /\ q - d >= p - c
           \/ q = b /\ p - c >= q - d
    BY <1>7
  <2>2. (u = x <=> p < a) /\ (v = x <=> q < b)
    BY <1>4
  <2> SUFFICES /\ c <= i - 1 /\ i - 1 <= a /\ d <= j - 1 /\ j - 1 <= b
               /\ \/ i - 1 - c = j - 1 - d
                  \/ i - 1 = a /\ j - 1 - d >= i - 1 - c
                  \/ j - 1 = b /\ i - 1 - c >= j - 1 - d
    BY DEF WalksAt
  <2> HIDE DEF a, b, c, d, p, q
  <2>3. p \in Int /\ q \in Int /\ w.i = p + 1 /\ w.j = q + 1
    BY <1>3
  <2>4. CASE u = x /\ v = x
    <3>1. i - 1 = p + 1 /\ j - 1 = q + 1 /\ p < a /\ q < b
      BY <1>4, <1>8, <2>2, <2>3, <2>4
    <3> QED
      BY <2>1, <2>3, <3>1
  <2>5. CASE u = x /\ v # x
    <3>1. u <= v /\ ~(v <= u)
      BY <1>4, <2>5
    <3>2. i - 1 = p + 1 /\ j - 1 = q /\ p < a /\ ~(q < b)
      BY <1>8, <2>2, <2>3, <2>5, <3>1
    <3> QED
      BY <2>1, <2>3, <3>2
  <2>6. CASE u # x /\ v = x
    <3>1. v <= u /\ ~(u <= v)
      BY <1>4, <2>6
    <3>2. i - 1 = p /\ j - 1 = q + 1 /\ q < b /\ ~(p < a)
      BY <1>8, <2>2, <2>3, <2>6, <3>1
    <3> QED
      BY <2>1, <2>3, <3>2
  <2> QED
    BY <1>4, <2>4, <2>5, <2>6
<1>12. ASSUME NEW y \in Int, A[y] < i, B[y] < j
       PROVE  Gap(A, B, y) <= most
  <2> HIDE DEF u, v, i, j, most
  <2>1. A[y] \in Int /\ B[y] \in Int
    BY <1>15
  <2>2. CASE A[y] < w.i /\ B[y] < w.j
    <3>1. Gap(A, B, y) <= w.most
      BY <2>2 DEF WalkSound
    <3>2. Gap(A, B, y) \in Int
      BY <2>1 DEF Gap, Magnitude
    <3> QED
      BY <1>2, <1>10, <3>1, <3>2
  <2>3. CASE ~(A[y] < w.i /\ B[y] < w.j)
    <3>1. u <= y \/ v <= y
      <4>1. /\ u <= y <=> w.i <= A[y]
            /\ v <= y <=> w.j <= B[y]
        BY <1>5
      <4>2. w.i <= A[y] \/ w.j <= B[y]
        BY <1>2, <2>1, <2>3
      <4> QED
        BY <4>1, <4>2
    <3>2. x <= y
      BY <1>4, <3>1
    <3>3. p <= A[y] /\ q <= B[y]
      <4>1. A[x] <= A[y] /\ B[x] <= B[y]
        BY <1>6, <3>2
      <4> HIDE DEF p, q
      <4> QED
        BY <1>3, <1>7, <2>1, <4>1, SMTT(40)
    <3>4. A[y] = i - 1 /\ B[y] = j - 1
      <4>1. /\ u <= y <=> w.i <= A[y]
            /\ v <= y <=> w.j <= B[y]
        BY <1>5
      <4>2. CASE u = v
        BY <1>2, <1>4, <1>8, <1>12, <2>1, <3>1, <4>1, <4>2, SMTT(40)
      <4>3. CASE u < v
        <5>1. i = w.i + 1 /\ j = w.j
          BY <1>4, <1>8, <4>3
        <5> QED
          BY <1>2, <1>4, <1>12, <2>1, <3>1, <3>3, <4>1, <4>3, <5>1
      <4>4. CASE v < u
        <5>1. i = w.i /\ j = w.j + 1
          BY <1>4, <1>8, <4>4
        <5> QED
          BY <1>2, <1>4, <1>12, <2>1, <3>1, <3>3, <4>1, <4>4, <5>1
      <4> QED
        BY <1>4, <4>2, <4>3, <4>4
    <3>5. A[y] - B[y] = i - j
      BY <1>9, <3>4
    <3> QED
      BY <1>10, <3>5 DEF Gap
  <2> QED
    BY <2>2, <2>3
<1>13. ASSUME NEW D \in Nat, \A y \in Int : Gap(A, B, y) <= D
       PROVE  most <= D
  <2> HIDE DEF i, j, most
  <2>1. w.most <= D
    BY <1>13 DEF WalkSound
  <2>2. i - 1 \in 0..n /\ j - 1 \in 0..n /\ (i - 1) - (j - 1) = i - j
    BY <1>9
  <2>3. Magnitude((i - 1) - (j - 1)) <= D
    <3> DEFINE k == i - 1  l == j - 1
    <3>1. k \in 0..n /\ l \in 0..n /\ WalksAt(A, B, k, l, x)
      BY <1>11, <2>2
    <3> HIDE DEF k, l
    <3>2. Magnitude(k - l) <= D
      BY <1>5, <1>13, <3>1, WalkIsBounded
    <3> QED
      BY <3>2 DEF k, l
  <2> QED
    BY <1>10, <2>1, <2>2, <2>3
<1> HIDE DEF i, j, most, r, p, q, u, v
<1>14. WalkSound(A, B, n, r)
  BY <1>1, <1>9, <1>10, <1>11, <1>12, <1>13 DEF WalkSound
<1> QED
  BY <1>1, <1>9, <1>14 DEF r

\* The recursion of KsWalk: its last place has every distance behind it.
LEMMA WalkFindsLargest ==
    ASSUME NEW n \in Nat, n > 0, NEW A, NEW B, NEW s, NEW t, Ranks(A, s, n), Ranks(B, t, n),
           Len(s) = n, Len(t) = n, n <= WindowSize
    PROVE  LET most == KsWalk(s, t).most
           IN  /\ most \in Nat
               /\ \A y \in Int : Gap(A, B, y) <= most
               /\ \A D \in Nat : (\A y \in Int : Gap(A, B, y) <= D) => most <= D
<1> DEFINE start == [i |-> 1, j |-> 1, most |-> 0]
           N == Len(s) + Len(t)
<1>1. N \in Nat /\ N = n + n
  OBVIOUS
<1>2. PICK g : Walks(g, s, t) /\ KsWalk(s, t) = g[N]
  BY WalkIsRecursion
<1> HIDE DEF N
<1>3. ASSUME NEW k \in 0..N
      PROVE  g[k] = IF k = 0 THEN start ELSE KsStep(s, t, g[k - 1])
  BY <1>2 DEF Walks, N
<1>4. WalkSound(A, B, n, start)
  <2>1. /\ start.i = 1 /\ start.j = 1 /\ start.most = 0 /\ 1 \in 1..n
    OBVIOUS
  <2> HIDE DEF start
  <2>2. /\ s[1] \in Int /\ \A y \in Int : s[1] <= y <=> 1 <= A[y]
        /\ t[1] \in Int /\ \A y \in Int : t[1] <= y <=> 1 <= B[y]
        /\ A \in [Int -> 0..n] /\ B \in [Int -> 0..n]
    BY <2>1 DEF Ranks
  <2> DEFINE x == IF s[1] <= t[1] THEN s[1] ELSE t[1]
  <2>3. x \in Int /\ x - 1 \in Int /\ ~(s[1] <= x - 1) /\ ~(t[1] <= x - 1)
    <3> DEFINE a == s[1]  b == t[1]
    <3>1. a \in Int /\ b \in Int
      BY <2>2
    <3> HIDE DEF a, b
    <3>2. x = IF a <= b THEN a ELSE b
      BY DEF a, b
    <3> HIDE DEF x
    <3>3. x \in Int /\ x <= a /\ x <= b
      BY <3>1, <3>2
    <3>4. x \in Int /\ x - 1 \in Int /\ ~(a <= x - 1) /\ ~(b <= x - 1)
      BY <3>1, <3>3
    <3> QED
      BY <3>4 DEF a, b
  <2> HIDE DEF x
  <2>4. A[x - 1] \in 0..n /\ B[x - 1] \in 0..n /\ A[x] \in 0..n /\ B[x] \in 0..n
    BY <2>2, <2>3
  <2>5. A[x - 1] = 0 /\ B[x - 1] = 0
    <3>1. ~(1 <= A[x - 1]) /\ ~(1 <= B[x - 1])
      BY <2>2, <2>3
    <3> QED
      BY <2>4, <3>1
  <2>6. WalksAt(A, B, 0, 0, x)
    BY <2>4, <2>5 DEF WalksAt
  <2>7. ASSUME NEW y \in Int, A[y] < 1, B[y] < 1
        PROVE  Gap(A, B, y) <= 0
    <3>1. A[y] \in 0..n /\ B[y] \in 0..n
      BY <2>2
    <3>2. A[y] = 0 /\ B[y] = 0
      BY <2>7, <3>1
    <3> QED
      BY <3>2 DEF Gap, Magnitude
  <2>8. 1 - 1 = 0 /\ Magnitude(1 - 1) = 0 /\ \A D \in Nat : 0 <= D
    BY DEF Magnitude
  <2>9. \E z \in Int : WalksAt(A, B, 1 - 1, 1 - 1, z)
    BY <2>3, <2>6, <2>8
  <2> QED
    BY <2>1, <2>7, <2>8, <2>9 DEF WalkSound
<1> DEFINE Over(w) == w.i > n \/ w.j > n
           T == {k \in Nat : k <= N => /\ WalkSound(A, B, n, g[k])
                                       /\ Over(g[k]) \/ g[k].i + g[k].j >= k + 2}
<1>5. 0 \in T
  <2>1. g[0] = start
    BY <1>1, <1>3
  <2>2. start.i + start.j >= 0 + 2
    OBVIOUS
  <2> QED
    BY <1>4, <2>1, <2>2
<1> HIDE DEF start
<1>6. \A k \in T : k + 1 \in T
  <2> SUFFICES ASSUME NEW k \in Nat, k + 1 <= N, WalkSound(A, B, n, g[k]),
                      Over(g[k]) \/ g[k].i + g[k].j >= k + 2
               PROVE  /\ WalkSound(A, B, n, g[k + 1])
                      /\ Over(g[k + 1]) \/ g[k + 1].i + g[k + 1].j >= (k + 1) + 2
    <3> HIDE DEF Over
    <3>1. \A k \in Nat : k + 1 <= N => k <= N
      BY <1>1
    <3> QED
      BY <3>1
  <2> DEFINE m == k + 1
  <2>1. m \in 0..N /\ m # 0 /\ m - 1 = k
    BY <1>1
  <2> HIDE DEF m
  <2>2. g[m] = KsStep(s, t, g[k])
    BY <1>3, <2>1
  <2>3. g[k].i \in Int /\ g[k].j \in Int
    BY DEF WalkSound
  <2>4. CASE Over(g[k])
    <3>1. g[m] = g[k]
      BY <2>2, <2>4 DEF KsStep
    <3> QED
      BY <2>4, <3>1 DEF m
  <2>5. CASE ~Over(g[k])
    <3>1. g[k].i <= n /\ g[k].j <= n
      BY <2>3, <2>5
    <3>2. WalkSound(A, B, n, g[m]) /\ g[m].i + g[m].j > g[k].i + g[k].j
      BY <2>2, <3>1, WalkStepIsSound
    <3>3. g[m].i \in Int /\ g[m].j \in Int
      BY <3>2, SMTT(40) DEF WalkSound
    <3>4. g[m].i + g[m].j >= (k + 1) + 2
      BY <2>3, <2>5, <3>2, <3>3, SMTT(40)
    <3> QED
      BY <3>2, <3>4 DEF m
  <2> QED
    BY <2>4, <2>5
<1>7. T = Nat
  <2>1. T \in SUBSET Nat
    OBVIOUS
  <2> HIDE DEF T
  <2> QED
    BY <1>5, <1>6, <2>1, Induction
<1> DEFINE w == g[N]
<1>8. WalkSound(A, B, n, w) /\ (Over(w) \/ w.i + w.j >= N + 2)
  BY <1>1, <1>7
<1> HIDE DEF w, T
<1>9. w.i \in 1..(n + 1) /\ w.j \in 1..(n + 1) /\ w.most \in Nat
  BY <1>8 DEF WalkSound
<1>10. w.i = n + 1 \/ w.j = n + 1
  BY <1>1, <1>8, <1>9
<1>11. ASSUME NEW y \in Int
       PROVE  Gap(A, B, y) <= w.most
  <2>1. A \in [Int -> 0..n] /\ B \in [Int -> 0..n]
    BY DEF Ranks
  <2>12. \A z \in Int : A[z] \in 0..n /\ B[z] \in 0..n
    BY <2>1
  <2>2. A[y] \in 0..n /\ B[y] \in 0..n
    BY <2>12
  <2>3. A[y] < w.i /\ B[y] < w.j => Gap(A, B, y) <= w.most
    BY <1>8 DEF WalkSound
  <2>4. Magnitude(w.i - w.j) <= w.most
    BY <1>8 DEF WalkSound
  <2>5. PICK x \in Int : WalksAt(A, B, w.i - 1, w.j - 1, x)
    BY <1>8 DEF WalkSound
  <2>6. /\ A[x - 1] <= w.i - 1 /\ w.i - 1 <= A[x] /\ B[x - 1] <= w.j - 1 /\ w.j - 1 <= B[x]
    BY <2>5 DEF WalksAt
  <2>13. x - 1 \in Int
    OBVIOUS
  <2>7. x - 1 \in Int /\ A[x - 1] \in 0..n /\ A[x] \in 0..n /\ B[x - 1] \in 0..n /\ B[x] \in 0..n
    BY <2>12, <2>13
  <2>8. /\ x <= y => A[x] <= A[y] /\ B[x] <= B[y]
        /\ y <= x - 1 => A[y] <= A[x - 1] /\ B[y] <= B[x - 1]
    BY <2>7, RanksGrow
  <2>9. x <= y \/ y <= x - 1
    OBVIOUS
  <2>10. CASE A[y] < w.i /\ B[y] < w.j
    BY <2>3, <2>10
  <2>11. CASE A[y] >= w.i \/ B[y] >= w.j
    <3>1. x <= y
      BY <1>9, <2>2, <2>6, <2>7, <2>8, <2>9, <2>11, SMTT(40)
    <3>2. w.i - 1 <= A[y] /\ w.j - 1 <= B[y]
      <4>1. A[x] <= A[y] /\ B[x] <= B[y]
        BY <2>8, <3>1
      <4>2. w.i - 1 <= A[x] /\ w.j - 1 <= B[x]
        BY <2>6
      <4> QED
        BY <1>9, <2>2, <2>7, <4>1, <4>2, SMTT(40)
    <3>3. CASE w.i = n + 1
      <4>1. A[y] = n /\ B[y] >= w.j - 1 /\ B[y] <= n
        BY <2>2, <3>2, <3>3
      <4>2. A[y] - B[y] >= 0 /\ A[y] - B[y] <= w.i - w.j
        BY <1>9, <2>2, <3>3, <4>1
      <4> QED
        BY <1>9, <2>2, <2>4, <4>2 DEF Gap, Magnitude
    <3>4. CASE w.j = n + 1
      <4>1. B[y] = n /\ A[y] >= w.i - 1 /\ A[y] <= n
        BY <2>2, <3>2, <3>4
      <4>2. A[y] - B[y] <= 0 /\ B[y] - A[y] <= w.j - w.i
        BY <1>9, <2>2, <3>4, <4>1
      <4> QED
        BY <1>9, <2>2, <2>4, <4>2 DEF Gap, Magnitude
    <3> QED
      BY <1>10, <3>3, <3>4
  <2> QED
    BY <1>9, <2>2, <2>10, <2>11
<1>12. \A D \in Nat : (\A y \in Int : Gap(A, B, y) <= D) => w.most <= D
  BY <1>8 DEF WalkSound
<1>13. KsWalk(s, t).most = w.most
  BY <1>2 DEF w
<1> QED
  BY <1>9, <1>11, <1>12, <1>13

LEMMA WindowRanks ==
    ASSUME NEW w \in Seq(FiniteNumbers), NEW A, A = [y \in Int |-> AtMost(w, y)]
    PROVE  Ranks(A, Sorted(w), Len(w)) /\ \A y \in Int : A[y] = AtMost(w, y)
<1>1. w \in Seq(Int) /\ Len(w) \in Nat
  BY WindowOfIntegers
<1>2. \A y \in Int : A[y] = AtMost(w, y) /\ AtMost(w, y) \in 0..Len(w)
  BY <1>1, AtMostBounds
<1>3. A \in [Int -> 0..Len(w)]
  BY <1>2
<1> QED
  BY <1>2, <1>3, SortedRanks DEF Ranks

\* ks_statistic computes the Kolmogorov-Smirnov statistic by its definition,
\* for every two windows of one length, ties within and between them included.
LEMMA StatisticIsSupremum ==
    ASSUME NEW a \in Seq(FiniteNumbers), NEW b \in Seq(FiniteNumbers),
           Len(a) = Len(b), Len(a) > 0, Len(a) <= WindowSize
    PROVE  KsStatistic(a, b) = SupDistance(a, b)
<1> DEFINE n == Len(a)
           A == [y \in Int |-> AtMost(a, y)]
           B == [y \in Int |-> AtMost(b, y)]
           distance(x) == Magnitude(Count(a, LAMBDA y : y <= x) - Count(b, LAMBDA y : y <= x))
           points == ToSet(a) \cup ToSet(b)
           E == {distance(x) : x \in points}
           most == KsWalk(Sorted(a), Sorted(b)).most
<1>1. /\ n \in Nat /\ n > 0 /\ Len(b) = n /\ a # <<>> /\ b # <<>>
      /\ DOMAIN a = 1..n /\ \A i \in DOMAIN a : a[i] \in ToSet(a)
      /\ ToSet(a) \in SUBSET FiniteNumbers /\ ToSet(b) \in SUBSET FiniteNumbers
      /\ a \in Seq(Int) /\ b \in Seq(Int) /\ ToSet(a) \subseteq Int /\ ToSet(b) \subseteq Int
  BY WindowOfIntegers
<1>16. \A y \in Int : AtMost(a, y) \in Nat /\ AtMost(b, y) \in Nat
  <2> TAKE y \in Int
  <2>1. AtMost(a, y) \in 0..Len(a)
    BY <1>1, AtMostBounds
  <2>2. AtMost(b, y) \in 0..Len(b)
    BY <1>1, AtMostBounds
  <2> QED
    BY <2>1, <2>2
<1>2. KsStatistic(a, b) = most
  BY <1>1 DEF KsStatistic
<1>3. SupDistance(a, b) = Max(E)
  BY DEF SupDistance
<1>4. \A x \in Int : distance(x) = Magnitude(AtMost(a, x) - AtMost(b, x))
  BY DEF Count, AtMost, UpTo
<1>5. /\ Ranks(A, Sorted(a), n) /\ \A y \in Int : A[y] = AtMost(a, y)
      /\ Ranks(B, Sorted(b), n) /\ \A y \in Int : B[y] = AtMost(b, y)
  <2>1. A = [y \in Int |-> AtMost(a, y)] /\ B = [y \in Int |-> AtMost(b, y)]
    OBVIOUS
  <2> HIDE DEF A, B
  <2> QED
    BY <1>1, <2>1, WindowRanks
<1> HIDE DEF A, B, distance
<1>6. \A x \in Int : distance(x) = Gap(A, B, x)
  BY <1>4, <1>5 DEF Gap
<1>7. Len(Sorted(a)) = n /\ Len(Sorted(b)) = n
  BY <1>1, SortedLength
<1>8. /\ most \in Nat
      /\ \A y \in Int : Gap(A, B, y) <= most
      /\ \A D \in Nat : (\A y \in Int : Gap(A, B, y) <= D) => most <= D
  <2> HIDE DEF n
  <2>1. n <= WindowSize
    BY DEF n
  <2> QED
    BY <1>1, <1>5, <1>7, <2>1, WalkFindsLargest
<1>9. points \in SUBSET FiniteNumbers /\ points \subseteq Int /\ a[1] \in points
  BY <1>1
<1> HIDE DEF n, points, most
<1>10. \A x \in Int : distance(x) \in Nat
  <2> TAKE x \in Int
  <2>1. AtMost(a, x) \in Nat /\ AtMost(b, x) \in Nat
    BY <1>16
  <2> QED
    BY <1>4, <2>1 DEF Magnitude
<1>11. PICK x \in points : \A y \in points : distance(y) <= distance(x)
  <2> DEFINE N == {distance(y) : y \in points}
  <2>1. N \in SUBSET (0..most) /\ N # {}
    <3>1. \A y \in points : distance(y) \in 0..most
      <4> TAKE y \in points
      <4>1. distance(y) \in Nat /\ distance(y) <= most
        BY <1>6, <1>8, <1>9, <1>10
      <4> QED
        BY <1>8, <4>1
    <3> QED
      BY <1>9, <3>1
  <2> HIDE DEF N
  <2>2. PICK d \in N : \A e \in N : d >= e
    BY <1>8, <2>1, GreatestOf
  <2>3. PICK x \in points : d = distance(x)
    BY <2>2 DEF N
  <2>4. \A y \in points : distance(y) \in N
    BY DEF N
  <2>5. d \in Int /\ \A y \in points : distance(y) \in Int
    BY <1>9, <1>10, <2>3
  <2> QED
    BY <2>2, <2>3, <2>4, <2>5
<1> DEFINE D == distance(x)
<1>12. D \in Nat /\ x \in Int
  BY <1>9, <1>10
<1>13. ASSUME NEW y \in Int
       PROVE  Gap(A, B, y) <= D
  <2>1. CASE \E z \in points : z <= y
    <3>1. PICK g \in points :
             /\ g \in Int /\ g <= y
             /\ \A w \in Seq(FiniteNumbers) :
                   ToSet(w) \subseteq points => AtMost(w, g) = AtMost(w, y)
      BY <1>9, <2>1, PointBelow
    <3>2. ToSet(a) \subseteq points /\ ToSet(b) \subseteq points
      BY DEF points
    <3>3. AtMost(a, g) = AtMost(a, y) /\ AtMost(b, g) = AtMost(b, y)
      BY <3>1, <3>2
    <3>4. distance(y) = distance(g)
      BY <1>4, <3>1, <3>3
    <3> QED
      BY <1>6, <1>11, <3>1, <3>4
  <2>2. CASE ~ \E z \in points : z <= y
    <3>1. AtMost(a, y) \in Nat /\ AtMost(b, y) \in Nat
      BY <1>16
    <3>2. AtMost(a, y) = 0
      <4>1. \A i \in DOMAIN a : a[i] \in points
        BY <1>1 DEF points
      <4>2. ~ (AtMost(a, y) > 0)
        BY <1>1, <2>2, <4>1, AtMostBounds
      <4> QED
        BY <3>1, <4>2
    <3>3. AtMost(b, y) = 0
      <4>1. \A i \in DOMAIN b : b[i] \in points
        BY WindowOfIntegers DEF points
      <4>2. ~ (AtMost(b, y) > 0)
        BY <1>1, <2>2, <4>1, AtMostBounds
      <4> QED
        BY <3>1, <4>2
    <3>4. distance(y) = 0
      BY <1>4, <3>2, <3>3 DEF Magnitude
    <3> QED
      BY <1>6, <1>12, <3>4
  <2> QED
    BY <2>1, <2>2
<1>14. most = D
  <2>1. most <= D
    BY <1>8, <1>12, <1>13
  <2>2. D <= most
    BY <1>6, <1>8, <1>12
  <2> QED
    BY <1>8, <1>12, <2>1, <2>2
<1>15. Max(E) = D
  <2>1. D \in E /\ \A e \in E : D >= e
    BY <1>9, <1>10, <1>11
  <2>2. \A e \in E : e \in Int
    BY <1>9, <1>10
  <2> HIDE DEF D, E
  <2>3. \A e \in E : (\A f \in E : e >= f) => e = D
    BY <2>1, <2>2
  <2>4. Max(E) \in E /\ \A f \in E : Max(E) >= f
    BY <2>1, Zenon DEF Max
  <2> QED
    BY <2>3, <2>4
<1> QED
  BY <1>2, <1>3, <1>14, <1>15

-----------------------------------------------------------------------------
(* The median.                                                             *)

LEMMA TwoIsExact == OfInt(2) = 2 * Unit /\ 2 * Unit \in Floats /\ IsFinite(2 * Unit)
<1>1. Unit \in Nat /\ Unit > 0 /\ MaxCount \in Nat /\ MaxCount >= 1 /\ Largest \in Nat
      /\ 2 * MaxCount * Unit <= Largest
  BY FormatAssumption
<1>2. 2 * Unit \in Int /\ 2 * Unit <= Largest /\ 2 * Unit >= 0
  <2>1. (MaxCount - 1) * (2 * Unit) >= 0
    BY <1>1
  <2> QED
    BY <1>1, <2>1
<1>3. IsFinite(2 * Unit)
  BY <1>1, <1>2 DEF IsFinite
<1>4. Representable(2 * Unit)
  BY ConstantsAreFloats, FiniteFloats, DoubleIsRepresentable
<1>5. /\ ToFloat(2 * Unit, 1) \in Int
      /\ \A r : Representable(r) /\ IsFinite(r) =>
           /\ 2 * Unit <= r * 1 => ToFloat(2 * Unit, 1) <= r
           /\ 2 * Unit >= r * 1 => ToFloat(2 * Unit, 1) >= r
  BY <1>2, ToFloatBounds
<1> DEFINE x == ToFloat(2 * Unit, 1)
           u == 2 * Unit
<1>6. x \in Int /\ u \in Int /\ x <= u /\ x >= u
  BY <1>2, <1>3, <1>4, <1>5
<1> HIDE DEF x, u
<1>7. x = u
  BY <1>6
<1> QED
  BY <1>3, <1>4, <1>7, RepresentableIsFloat DEF x, u, OfInt

\* Half of a number is between 0 and it.
LEMMA HalfIsBetween ==
    ASSUME NEW a \in Floats, IsFinite(a)
    PROVE  LET h == FDiv(a, 2 * Unit)
           IN  /\ h \in Floats /\ IsFinite(h) /\ h \in Int
               /\ a >= 0 => 0 <= h /\ h <= a
               /\ a <= 0 => a <= h /\ h <= 0
<1> DEFINE h == FDiv(a, 2 * Unit)
           u == 2 * Unit
           p == a * Unit
<1>1. a \in Int /\ Representable(a) /\ Unit \in Nat /\ Unit > 0 /\ u \in Nat /\ u > 0 /\ p \in Int
      /\ Largest \in Nat
  BY FiniteFloats, FormatAssumption
<1>2. IsFinite(u) /\ u # NaN /\ a # NaN /\ u # 0
  BY <1>1, TwoIsExact DEF IsFinite, NaN
<1>3. h = ToFloat(p, u)
  BY <1>1, <1>2 DEF FDiv
<1>4. a * u = 2 * p
  BY <1>1
<1>5. a >= 0 => p >= 0
  BY <1>1
<1>6. a <= 0 => p <= 0
  <2>1. a <= 0 => (0 - a) * Unit >= 0
    BY <1>1
  <2> QED
    BY <1>1, <2>1
<1> HIDE DEF h, u, p
<1>7. /\ h \in Int
      /\ \A r : Representable(r) /\ IsFinite(r) =>
           (p <= r * u => h <= r) /\ (p >= r * u => h >= r)
  BY <1>1, <1>3, ToFloatBounds
<1>8. h \in Floats
  BY <1>1, <1>3, ToFloatIsFloat
<1>9. Representable(0) /\ IsFinite(0) /\ 0 * u = 0
  BY <1>1, ZeroIsRepresentable, ConstantsAreFloats
<1>10. a >= 0 => 0 <= h /\ h <= a
  BY <1>1, <1>4, <1>5, <1>7, <1>9
<1>11. a <= 0 => a <= h /\ h <= 0
  BY <1>1, <1>4, <1>6, <1>7, <1>9
<1>12. IsFinite(h)
  BY <1>1, <1>7, <1>10, <1>11 DEF IsFinite
<1> QED
  BY <1>7, <1>8, <1>10, <1>11, <1>12 DEF h, u

\* finite_midpoint is between the numbers, however it rounds.
LEMMA MidpointIsBetween ==
    ASSUME NEW a \in Floats, NEW b \in Floats, IsFinite(a), IsFinite(b), a <= b
    PROVE  Midpoint(a, b) \in Int /\ a <= Midpoint(a, b) /\ Midpoint(a, b) <= b
<1>1. a \in Int /\ b \in Int /\ Largest \in Nat
  BY FiniteFloats, FormatAssumption
<1>2. CASE (a < 0) = (b < 0)
  <2>1. Midpoint(a, b) = FAdd(a, FDiv(FSub(b, a), OfInt(1 + 1)))
    BY <1>2, TwoIsExact DEF Midpoint
  <2>2. IsFinite(FSub(b, a))
    <3>1. /\ FSub(b, a) \in Int
          /\ \A r \in Floats : IsFinite(r) =>
               (b - a <= r => FSub(b, a) <= r) /\ (b - a >= r => FSub(b, a) >= r)
      BY DifferenceBounds
    <3>2. FNeg(a) \in Floats /\ IsFinite(FNeg(a)) /\ FNeg(a) = -a
      BY NegativeIsFloat
    <3>3. 0 \in Floats /\ IsFinite(0) /\ b - a >= 0
      BY <1>1, ConstantsAreFloats
    <3>4. FSub(b, a) >= 0
      BY <3>1, <3>3
    <3>5. FSub(b, a) <= b \/ FSub(b, a) <= -a
      <4>1. b - a <= b \/ b - a <= -a
        BY <1>1, <1>2
      <4> QED
        BY <3>1, <3>2, <4>1
    <3>6. b <= Largest /\ -a <= Largest
      BY <1>1 DEF IsFinite
    <3> QED
      BY <1>1, <3>1, <3>4, <3>5, <3>6 DEF IsFinite
  <2>3. 1 \in Nat /\ 1 # 0
    OBVIOUS
  <2> DEFINE next == FAdd(a, FDiv(FSub(b, a), OfInt(1 + 1)))
  <2>4. next \in Floats /\ IsFinite(next) /\ a <= next /\ next <= b
    BY <2>2, <2>3, MeanMoves
  <2> QED
    BY <2>1, <2>4, FiniteFloats
<1>3. CASE (a < 0) # (b < 0)
  <2> DEFINE h == FDiv(a, 2 * Unit)
             g == FDiv(b, 2 * Unit)
  <2>1. a <= 0 /\ b >= 0
    BY <1>1, <1>3
  <2>2. h \in Floats /\ IsFinite(h) /\ h \in Int /\ a <= h /\ h <= 0
    BY <2>1, HalfIsBetween
  <2>3. g \in Floats /\ IsFinite(g) /\ g \in Int /\ 0 <= g /\ g <= b
    BY <2>1, HalfIsBetween
  <2>4. Midpoint(a, b) = FAdd(h, g)
    BY <1>3 DEF Midpoint
  <2> HIDE DEF h, g
  <2>5. h + g <= b /\ h + g >= a
    BY <1>1, <2>2, <2>3
  <2> QED
    BY <2>2, <2>3, <2>4, <2>5, SumBounds
<1> QED
  BY <1>2, <1>3

\* The places above a number are those that are not up to it.
LEMMA SidesOf ==
    ASSUME NEW w \in Seq(FiniteNumbers), NEW m \in Int
    PROVE  /\ Count(w, LAMBDA y : y < m) = AtMost(w, m - 1)
           /\ Count(w, LAMBDA y : m < y) = Len(w) - AtMost(w, m)
<1>1. w \in Seq(Int) /\ Len(w) \in Nat /\ DOMAIN w = 1..Len(w) /\ \A i \in DOMAIN w : w[i] \in Int
  BY WindowOfIntegers
<1>2. {i \in DOMAIN w : w[i] < m} = {i \in DOMAIN w : w[i] <= m - 1}
  BY <1>1
<1>3. Count(w, LAMBDA y : y < m) = AtMost(w, m - 1)
  BY <1>2 DEF Count, AtMost, UpTo
<1> DEFINE P == {i \in DOMAIN w : m < w[i]}
           Q == UpTo(w, m)
<1>4. Count(w, LAMBDA y : m < y) = Cardinality(P)
  BY DEF Count
<1>5. P \in SUBSET (1..Len(w)) /\ Q \in SUBSET (1..Len(w)) /\ P \cap Q = {} /\ P \cup Q = 1..Len(w)
  BY <1>1 DEF UpTo
<1> HIDE DEF P, Q
<1>6. /\ IsFiniteSet(P) /\ Cardinality(P) \in Nat /\ IsFiniteSet(Q) /\ Cardinality(Q) \in Nat
      /\ Cardinality(P \cup Q) = Len(w) /\ Cardinality(P \cap Q) = 0
  BY <1>1, <1>5, PlacesCount, FS_EmptySet
<1>7. Cardinality(P \cup Q) = Cardinality(P) + Cardinality(Q) - Cardinality(P \cap Q)
  BY <1>6, FS_Union
<1> QED
  BY <1>1, <1>3, <1>4, <1>6, <1>7 DEF Q, AtMost

LEMMA SortedIsFinite ==
    ASSUME NEW w \in Seq(FiniteNumbers), NEW i \in 1..Len(w)
    PROVE  Sorted(w)[i] \in Floats /\ IsFinite(Sorted(w)[i]) /\ Sorted(w)[i] \in Int
<1> DEFINE x == Sorted(w)[i]
<1>1. x \in ToSet(w)
  BY SortedRanks
<1>2. ToSet(w) \in SUBSET FiniteNumbers
  BY WindowOfIntegers
<1> HIDE DEF x
<1>3. x \in FiniteNumbers
  BY <1>1, <1>2
<1> QED
  BY <1>3, FiniteFloats DEF FiniteNumbers, x

\* At most half of the values of a window lie below its median, and at most half
\* above it, although the middle of two numbers is rounded.
LEMMA MedianIsMedian ==
    ASSUME NEW w \in Seq(FiniteNumbers), w # <<>>
    PROVE  IsMedian(Median(w), w)
<1> DEFINE n == Len(w)
           k == n \div 2
           s == Sorted(w)
           m == Median(w)
<1>1. n \in Nat /\ n > 0 /\ w \in Seq(Int)
  BY WindowOfIntegers
<1>2. Len(s) = n
  BY <1>1, SortedLength
<1>3. m = IF n % 2 = 1 THEN s[k + 1] ELSE Midpoint(s[k], s[k + 1])
  BY <1>2 DEF Median, MedianOfSorted
<1> HIDE DEF s, m, n
<1>4. /\ k \in Nat
      /\ n % 2 = 1 => n = 2 * k + 1 /\ k + 1 \in 1..n
      /\ n % 2 # 1 => n = 2 * k /\ k \in 1..n /\ k + 1 \in 1..n
  BY <1>1
<1> HIDE DEF k
<1>5. \A i \in 1..n : /\ s[i] \in Floats /\ IsFinite(s[i]) /\ s[i] \in Int
                      /\ \A y \in Int : s[i] <= y <=> i <= AtMost(w, y)
  BY SortedIsFinite, SortedRanks DEF s, n
<1>6. \A y \in Int : AtMost(w, y) \in Nat /\ AtMost(w, y) <= n
  BY <1>1, AtMostBounds DEF n
<1>7. ASSUME NEW i \in 1..n, NEW j \in 1..n, m \in Int, s[i] <= m, m <= s[j],
             2 * i >= n, 2 * j <= n + 2
      PROVE  IsMedian(m, w)
  <2>1. i <= AtMost(w, m)
    BY <1>5, <1>7
  <2>2. AtMost(w, m - 1) < j
    <3> DEFINE y == m - 1
    <3>1. y \in Int /\ ~(s[j] <= y)
      BY <1>5, <1>7
    <3> HIDE DEF y
    <3>2. ~(j <= AtMost(w, y)) /\ AtMost(w, y) \in Nat
      BY <1>5, <1>6, <3>1
    <3>3. AtMost(w, y) < j
      BY <1>1, <3>2
    <3> QED
      BY <3>3 DEF y
  <2>3. /\ Count(w, LAMBDA y : y < m) = AtMost(w, m - 1)
        /\ Count(w, LAMBDA y : m < y) = n - AtMost(w, m)
    BY <1>7, SidesOf DEF n
  <2>4. AtMost(w, m) \in Nat /\ AtMost(w, m - 1) \in Nat
    <3>1. m - 1 \in Int
      BY <1>7
    <3> QED
      BY <1>6, <1>7, <3>1
  <2>5. 2 * AtMost(w, m - 1) <= n /\ 2 * (n - AtMost(w, m)) <= n
    BY <1>1, <1>7, <2>1, <2>2, <2>4
  <2> QED
    BY <2>3, <2>5 DEF IsMedian, n
<1>8. CASE n % 2 = 1
  <2>1. m = s[k + 1] /\ k + 1 \in 1..n /\ n = 2 * k + 1 /\ k \in Int
    BY <1>1, <1>3, <1>4, <1>8 DEF k
  <2> DEFINE i == k + 1
  <2>2. i \in 1..n /\ 2 * i >= n /\ 2 * i <= n + 2 /\ m = s[i]
    BY <1>1, <2>1
  <2> HIDE DEF i
  <2>3. m \in Int /\ s[i] <= m /\ m <= s[i]
    BY <1>5, <2>2
  <2>4. IsMedian(m, w)
    BY <1>7, <2>2, <2>3
  <2> QED
    BY <2>4 DEF m
<1>9. CASE n % 2 # 1
  <2>1. m = Midpoint(s[k], s[k + 1]) /\ n = 2 * k /\ k \in 1..n /\ k + 1 \in 1..n
    BY <1>3, <1>4, <1>9
  <2> DEFINE j == k + 1
  <2>2. j \in 1..n /\ 2 * k >= n /\ 2 * j <= n + 2 /\ m = Midpoint(s[k], s[j]) /\ k <= j
    BY <1>1, <2>1
  <2> HIDE DEF j
  <2>3. s[k] <= s[j]
    <3>1. s[j] \in Int /\ j <= AtMost(w, s[j])
      BY <1>5, <2>2
    <3>2. AtMost(w, s[j]) \in Nat
      BY <1>6, <3>1
    <3>3. k <= AtMost(w, s[j])
      BY <2>1, <2>2, <3>1, <3>2
    <3> QED
      BY <1>5, <2>1, <3>1, <3>3
  <2>4. m \in Int /\ s[k] <= m /\ m <= s[j]
    BY <1>5, <2>1, <2>2, <2>3, MidpointIsBetween
  <2>5. IsMedian(m, w)
    BY <1>7, <2>1, <2>2, <2>4
  <2> QED
    BY <2>5 DEF m
<1> QED
  BY <1>8, <1>9

-----------------------------------------------------------------------------
(* How many entries of a log are of a kind.                                *)

Occurs(l, P) == Cardinality({i \in DOMAIN l : l[i] \in P})

LEMMA OccursGrows ==
    ASSUME NEW S, NEW l \in Seq(S), NEW x \in S, NEW P
    PROVE  /\ Occurs(l, P) \in Nat
           /\ Occurs(Append(l, x), P) = IF x \in P THEN Occurs(l, P) + 1 ELSE Occurs(l, P)
<1> DEFINE n == Len(l)
           m == Append(l, x)
           I == {i \in DOMAIN l : l[i] \in P}
           J == {i \in DOMAIN m : m[i] \in P}
<1>1. /\ n \in Nat /\ DOMAIN l = 1..n /\ DOMAIN m = 1..(n + 1) /\ m[n + 1] = x
      /\ \A i \in 1..n : m[i] = l[i]
  OBVIOUS
<1>2. \A i \in 1..(n + 1) : i \in 1..n \/ i = n + 1
  BY <1>1
<1>3. I \in SUBSET (1..n) /\ n + 1 \notin I
  BY <1>1
<1> HIDE DEF n, m
<1>4. J = IF x \in P THEN I \cup {n + 1} ELSE I
  <2>1. \A i \in 1..n : i \in 1..(n + 1)
    BY <1>1
  <2>2. n + 1 \in 1..(n + 1)
    BY <1>1
  <2> QED
    BY <1>1, <1>2, <2>1, <2>2
<1> HIDE DEF I, J
<1>5. IsFiniteSet(I) /\ Cardinality(I) \in Nat
  BY <1>1, <1>3, PlacesCount
<1>6. Cardinality(I \cup {n + 1}) = Cardinality(I) + 1
  BY <1>3, <1>5, FS_AddElement
<1> QED
  BY <1>4, <1>5, <1>6 DEF Occurs, I, J, m

LEMMA NothingOccurs == \A P : Occurs(<<>>, P) = 0
<1> SUFFICES ASSUME NEW P
             PROVE  Occurs(<<>>, P) = 0
  OBVIOUS
<1>1. {i \in DOMAIN <<>> : <<>>[i] \in P} = {}
  OBVIOUS
<1> QED
  BY <1>1, FS_EmptySet DEF Occurs

-----------------------------------------------------------------------------
(* The hits of a window.                                                   *)

\* A tally is the number of hits.
LEMMA TallyIsCount ==
    ASSUME NEW w \in Seq(BOOLEAN), NEW c, Tallies(c, w)
    PROVE  c[Len(w)] = Cardinality({i \in DOMAIN w : w[i]})
<1> DEFINE n == Len(w)
           I(k) == {i \in 1..k : w[i]}
           T == {k \in Nat : k <= n => c[k] = Cardinality(I(k))}
<1>1. /\ n \in Nat /\ DOMAIN w = 1..n /\ c \in [0..n -> Nat] /\ c[0] = 0
      /\ \A i \in 1..n : c[i] = c[i - 1] + Hit(w[i])
  BY DEF Tallies
<1> HIDE DEF n
<1>2. 0 \in T
  <2>1. I(0) = {}
    OBVIOUS
  <2> HIDE DEF I
  <2> QED
    BY <1>1, <2>1, FS_EmptySet
<1>3. \A k \in T : k + 1 \in T
  <2> SUFFICES ASSUME NEW k \in T, k + 1 <= n
               PROVE  c[k + 1] = Cardinality(I(k + 1))
    <3> HIDE DEF I
    <3> QED
      OBVIOUS
  <2>0. k \in Nat /\ c[k] = Cardinality(I(k))
    <3> HIDE DEF I
    <3> QED
      BY <1>1
  <2> DEFINE m == k + 1
  <2>1. m \in 1..n /\ m - 1 = k /\ k \in 0..n /\ m = k + 1 /\ m \notin 1..k
        /\ 1..m = (1..k) \cup {m}
    BY <1>1, <2>0
  <2> HIDE DEF m
  <2>2. c[m] = c[k] + Hit(w[m]) /\ c[k] \in Nat
    BY <1>1, <2>0, <2>1
  <2>3. I(m) = (IF w[m] THEN I(k) \cup {m} ELSE I(k)) /\ m \notin I(k) /\ I(k) \in SUBSET (1..k)
    BY <2>1
  <2> HIDE DEF I
  <2>4. IsFiniteSet(I(k)) /\ Cardinality(I(k)) \in Nat
    BY <2>3, PlacesCount
  <2>5. Cardinality(I(k) \cup {m}) = Cardinality(I(k)) + 1
    BY <2>3, <2>4, FS_AddElement
  <2>6. CASE w[m]
    <3>1. Hit(w[m]) = 1
      BY <2>6 DEF Hit
    <3> QED
      BY <2>0, <2>2, <2>3, <2>5, <2>6, <3>1 DEF m
  <2>7. CASE ~w[m]
    <3>1. Hit(w[m]) = 0
      BY <2>7 DEF Hit
    <3> QED
      BY <2>0, <2>2, <2>3, <2>7, <3>1 DEF m
  <2> QED
    BY <2>6, <2>7
<1>4. T = Nat
  <2>1. T \in SUBSET Nat
    OBVIOUS
  <2> HIDE DEF T
  <2> QED
    BY <1>2, <1>3, <2>1, Induction
<1>5. c[n] = Cardinality(I(n))
  <2> HIDE DEF I
  <2> QED
    BY <1>1, <1>4
<1> QED
  BY <1>1, <1>5 DEF n

\* The sum of a rolling accuracy is the number of hits among the newest pairs.
LEMMA HitsAreCounted ==
    ASSUME NEW S, NEW l \in Seq(S), NEW d, HitsHold(d), d.window = HitsOf(l)
    PROVE  d.sum = Count(l, LAMBDA e : e[1] = e[2])
<1>1. PICK c : Tallies(c, d.window) /\ d.sum = c[Len(d.window)]
  BY DEF HitsHold
<1>2. d.window \in Seq(BOOLEAN)
  BY DEF HitsHold
<1>3. d.sum = Cardinality({i \in DOMAIN d.window : d.window[i]})
  BY <1>1, <1>2, TallyIsCount
<1>4. {i \in DOMAIN d.window : d.window[i]} = {i \in DOMAIN l : l[i][1] = l[i][2]}
  BY DEF HitsOf
<1> QED
  BY <1>3, <1>4 DEF Count

-----------------------------------------------------------------------------
(* The cells of a confusion.                                               *)

OfCell(c) == {e \in BOOLEAN \X BOOLEAN : Cell(e[1], e[2]) = c}

CellsCount(kind, d, l) ==
    /\ ConfusionHolds(kind, d)
    /\ \A c \in Cells[kind] : d.cells[c] = Occurs(l, OfCell(c))

LEMMA NewCellsCount == \A kind \in DOMAIN Cells : CellsCount(kind, NewConfusion(kind), <<>>)
<1> SUFFICES ASSUME NEW kind \in DOMAIN Cells
             PROVE  CellsCount(kind, NewConfusion(kind), <<>>)
  OBVIOUS
<1>1. \A c \in Cells[kind] : NewConfusion(kind).cells[c] = 0
  BY DEF NewConfusion
<1> QED
  BY <1>1, NewConfusionHolds, NothingOccurs DEF CellsCount

LEMMA CellsTake ==
    ASSUME NEW kind \in DOMAIN Cells, NEW d, NEW l \in Seq(BOOLEAN \X BOOLEAN),
           CellsCount(kind, d, l), NEW e \in BOOLEAN \X BOOLEAN
    PROVE  LET r == ConfusionUpdate(d, e[1], e[2])
           IN  IF r.ok THEN CellsCount(kind, r.state, Append(l, e)) ELSE r.state = d
<1> DEFINE cell == Cell(e[1], e[2])
           a == [d EXCEPT !.samples = @ + 1]
           b == [d EXCEPT !.samples = @ + 1, !.cells[cell] = @ + 1]
           r == ConfusionUpdate(d, e[1], e[2])
<1>1. \/ r = [ok |-> FALSE, state |-> d]
      \/ cell \notin DOMAIN d.cells /\ r = [ok |-> TRUE, state |-> a]
      \/ cell \in DOMAIN d.cells /\ r = [ok |-> TRUE, state |-> b]
  BY Zenon DEF ConfusionUpdate, Done, Refused
<1>2. ConfusionHolds(kind, r.state) /\ (~r.ok => r.state = d)
  BY ConfusionTakes DEF CellsCount
<1>3. \A c : e \in OfCell(c) <=> cell = c
  BY DEF OfCell
<1>4. /\ {"samples", "cells"} \subseteq DOMAIN d /\ d.cells \in [Cells[kind] -> Nat]
      /\ \A c \in Cells[kind] : d.cells[c] = Occurs(l, OfCell(c))
  BY DEF CellsCount, ConfusionHolds
<1>5. /\ a.cells = d.cells
      /\ cell \in DOMAIN d.cells => b.cells = [d.cells EXCEPT ![cell] = @ + 1]
  BY <1>4
<1>6. \A P : /\ Occurs(l, P) \in Nat
             /\ Occurs(Append(l, e), P) = IF e \in P THEN Occurs(l, P) + 1 ELSE Occurs(l, P)
  BY OccursGrows
<1> HIDE DEF cell, a, b, r
<1>7. ASSUME r.ok, NEW c \in Cells[kind]
      PROVE  r.state.cells[c] = Occurs(Append(l, e), OfCell(c))
  <2>1. CASE cell \notin DOMAIN d.cells /\ r = [ok |-> TRUE, state |-> a]
    <3>1. r.state.cells[c] = d.cells[c] /\ cell # c
      BY <1>4, <1>5, <2>1
    <3> QED
      BY <1>3, <1>4, <1>6, <3>1
  <2>2. CASE cell \in DOMAIN d.cells /\ r = [ok |-> TRUE, state |-> b]
    <3>1. r.state.cells[c] = IF c = cell THEN d.cells[c] + 1 ELSE d.cells[c]
      BY <1>4, <1>5, <2>2
    <3> QED
      BY <1>3, <1>4, <1>6, <3>1
  <2> QED
    BY <1>1, <1>7, <2>1, <2>2
<1> QED
  BY <1>2, <1>7 DEF CellsCount, r

-----------------------------------------------------------------------------
(* Extrema.                                                                *)

\* The current value is one of W, and none of W is on its other side.
ExtremumHolds(kind, d, W) ==
    /\ W \subseteq FiniteNumbers
    /\ W = {} => d.current = NoValue
    /\ W # {} => /\ d.current \in W
                 /\ kind = "min" => \A v \in W : d.current <= v
                 /\ kind = "max" => \A v \in W : v <= d.current

LEMMA ExtremumTakes ==
    ASSUME NEW d, NEW W, NEW x \in Floats, NEW kind \in {"min", "max"}, ExtremumHolds(kind, d, W)
    PROVE  LET r == IF kind = "min" THEN MinUpdate(d, x) ELSE MaxUpdate(d, x)
           IN  IF r.ok THEN ExtremumHolds(kind, r.state, W \cup {x}) ELSE r.state = d
<1> DEFINE r == IF kind = "min" THEN MinUpdate(d, x) ELSE MaxUpdate(d, x)
           picked == IF kind = "min" THEN Lower(d.current, x) ELSE Higher(d.current, x)
<1>1. \/ ~r.ok /\ r.state = d
      \/ /\ r.ok /\ IsFinite(x)
         /\ r.state.current = IF d.current = NoValue THEN x ELSE picked
  BY DEF MinUpdate, MaxUpdate, ExtremumUpdate, Done, Refused
<1> HIDE DEF r
<1>2. \A v \in FiniteNumbers : v \in Int /\ v # NoValue
  <2> TAKE v \in FiniteNumbers
  <2>1. FiniteFloat(v)
    BY DEF FiniteNumbers, FiniteFloat
  <2> QED
    BY <2>1, FiniteIsInteger, FormatAssumption DEF FiniteFloat, IsFinite, NoValue
<1>3. CASE r.ok
  <2>1. x \in FiniteNumbers /\ x \in Int /\ W \subseteq FiniteNumbers
    BY <1>1, <1>2, <1>3 DEF FiniteNumbers, ExtremumHolds
  <2>2. CASE W = {}
    <3>1. r.state.current = x
      BY <1>1, <1>3, <2>2 DEF ExtremumHolds
    <3> QED
      BY <1>3, <2>1, <2>2, <3>1 DEF ExtremumHolds, r
  <2>3. CASE W # {}
    <3>1. d.current \in W /\ d.current \in Int /\ d.current # NoValue
      BY <1>2, <2>1, <2>3 DEF ExtremumHolds
    <3>2. r.state.current = picked /\ picked \in {d.current, x}
      BY <1>1, <1>3, <3>1 DEF Lower, Higher
    <3> DEFINE y == r.state.current
    <3>3. /\ kind = "min" => y <= d.current /\ y <= x
          /\ kind = "max" => d.current <= y /\ x <= y
      BY <2>1, <3>1, <3>2 DEF Lower, Higher
    <3>4. y \in W \cup {x} /\ y \in Int
      BY <2>1, <3>1, <3>2
    <3> HIDE DEF y
    <3>5. \A v \in W \cup {x} : v \in Int
      BY <1>2, <2>1
    <3>6. /\ kind = "min" => \A v \in W : d.current <= v
          /\ kind = "max" => \A v \in W : v <= d.current
      BY <2>3 DEF ExtremumHolds
    <3>7. /\ kind = "min" => \A v \in W \cup {x} : y <= v
          /\ kind = "max" => \A v \in W \cup {x} : v <= y
      BY <3>1, <3>3, <3>4, <3>5, <3>6
    <3> QED
      BY <1>3, <2>1, <3>4, <3>7 DEF ExtremumHolds, y, r
  <2> QED
    BY <2>2, <2>3
<1>4. CASE ~r.ok
  BY <1>1, <1>4 DEF r
<1> QED
  BY <1>3, <1>4 DEF r

LEMMA LeastTakes ==
    ASSUME NEW d, NEW W, NEW x \in Floats, ExtremumHolds("min", d, W)
    PROVE  LET r == MinUpdate(d, x)
           IN  IF r.ok THEN ExtremumHolds("min", r.state, W \cup {x}) ELSE r.state = d
BY ExtremumTakes, Zenon

LEMMA GreatestTakes ==
    ASSUME NEW d, NEW W, NEW x \in Floats, ExtremumHolds("max", d, W)
    PROVE  LET r == MaxUpdate(d, x)
           IN  IF r.ok THEN ExtremumHolds("max", r.state, W \cup {x}) ELSE r.state = d
BY "max" # "min", ExtremumTakes, Zenon

-----------------------------------------------------------------------------
(* Warm-up and reports.                                                    *)

\* The samples whose error is known.
Known(l) == {k \in DOMAIN l : l[k] # NoValue}

WarmupParts == {"samples", "recent", "baseline"}

WarmupHolds(d, l) ==
    /\ WarmupParts \subseteq DOMAIN d
    /\ d.samples = Len(l)
    /\ Known(l) # {} => \E k \in Known(l) : /\ \A j \in Known(l) : j <= k
                                            /\ d.recent = Magnitude(l[k])

LEMMA FiniteAbsolute ==
    ASSUME NEW x \in Floats, IsFinite(FAbs(x))
    PROVE  /\ FAbs(x) \in Floats /\ FAbs(x) # NoValue /\ FAbs(FAbs(x)) = FAbs(x)
           /\ FAbs(x) \in FiniteNumbers /\ FAbs(x) = Magnitude(x)
<1>1. FAbs(x) \in Floats /\ FAbs(x) >= 0 /\ IsFinite(FAbs(x)) /\ IsFinite(x)
  BY MagnitudeIsFloat
<1>2. x \in Int /\ FAbs(x) \in Int /\ Largest \in Nat
  BY <1>1, FiniteFloats, FormatAssumption
<1>3. x # NaN /\ FAbs(x) # NaN /\ FAbs(x) # NoValue
  BY <1>1, <1>2 DEF IsFinite, NaN, NoValue
<1>4. FAbs(x) = Magnitude(x)
  BY <1>3 DEF FAbs
<1>5. Magnitude(FAbs(x)) = FAbs(x)
  BY <1>1, <1>2 DEF Magnitude
<1> QED
  BY <1>1, <1>3, <1>4, <1>5 DEF FAbs, FiniteNumbers

LEMMA KnownGrows ==
    ASSUME NEW l \in Seq(Floats), NEW x \in Floats
    PROVE  /\ Known(Append(l, x)) = IF x = NoValue THEN Known(l) ELSE Known(l) \cup {Len(l) + 1}
           /\ \A k \in Known(l) : k \in 1..Len(l) /\ Append(l, x)[k] = l[k]
           /\ Append(l, x)[Len(l) + 1] = x /\ Len(Append(l, x)) = Len(l) + 1
<1> DEFINE m == Append(l, x)
<1>1. /\ Len(l) \in Nat /\ DOMAIN l = 1..Len(l) /\ DOMAIN m = 1..(Len(l) + 1)
      /\ \A k \in 1..Len(l) : m[k] = l[k]
      /\ m[Len(l) + 1] = x /\ Len(m) = Len(l) + 1
  OBVIOUS
<1>2. 1..(Len(l) + 1) = (1..Len(l)) \cup {Len(l) + 1}
  BY <1>1
<1> HIDE DEF m
<1>3. Known(m) = IF x = NoValue THEN Known(l) ELSE Known(l) \cup {Len(l) + 1}
  BY <1>1, <1>2 DEF Known
<1> QED
  BY <1>1, <1>3 DEF Known, m

LEMMA WarmupTakes ==
    ASSUME NEW d, NEW l \in Seq(Floats), WarmupHolds(d, l), Len(l) < MaxCount, NEW x \in Floats
    PROVE  LET r == WarmupObserve(d, x)
           IN  IF r.ok THEN WarmupHolds(r.state, Append(l, x)) ELSE r.state = d
<1> DEFINE seen == IF x = NoValue THEN d ELSE [d EXCEPT !.recent = FAbs(x)]
           next == [seen EXCEPT !.samples = @ + 1]
           r == WarmupObserve(d, x)
           m == Append(l, x)
           n == Len(l) + 1
<1>1. /\ WarmupParts \subseteq DOMAIN d /\ d.samples = Len(l) /\ Len(l) \in Nat
      /\ CanCount(d.samples)
  BY DEF WarmupHolds, CanCount
<1>2. \/ r = [ok |-> FALSE, state |-> d]
      \/ r = [ok |-> TRUE, state |-> next] /\ (x = NoValue \/ IsFinite(x))
  BY <1>1, Zenon DEF WarmupObserve, Done, Refused
<1>3. /\ WarmupParts \subseteq DOMAIN next /\ next.samples = n
      /\ next.recent = IF x = NoValue THEN d.recent ELSE FAbs(x)
  BY <1>1 DEF WarmupParts
<1>4. /\ Known(m) = IF x = NoValue THEN Known(l) ELSE Known(l) \cup {n}
      /\ \A k \in Known(l) : k \in 1..Len(l) /\ m[k] = l[k]
      /\ m[n] = x /\ Len(m) = n
  BY KnownGrows
<1> HIDE DEF seen, next, m
<1>5. ASSUME x = NoValue \/ IsFinite(x)
      PROVE  WarmupHolds(next, m)
  <2>1. CASE x = NoValue
    <3>1. Known(m) = Known(l) /\ next.recent = d.recent
      BY <1>3, <1>4, <2>1
    <3>2. Known(l) # {} => \E k \in Known(l) : /\ \A j \in Known(l) : j <= k
                                               /\ d.recent = Magnitude(l[k])
      BY DEF WarmupHolds
    <3>3. Known(m) # {} => \E k \in Known(m) : /\ \A j \in Known(m) : j <= k
                                               /\ next.recent = Magnitude(m[k])
      BY <1>4, <3>1, <3>2
    <3> QED
      BY <1>3, <1>4, <3>3 DEF WarmupHolds
  <2>2. CASE x # NoValue
    <3>1. IsFinite(FAbs(x))
      BY <1>5, <2>2, MagnitudeIsFloat
    <3>2. next.recent = Magnitude(m[n])
      BY <1>3, <1>4, <2>2, <3>1, FiniteAbsolute
    <3>3. n \in Known(m) /\ \A j \in Known(m) : j <= n
      BY <1>1, <1>4, <2>2
    <3> HIDE DEF n
    <3> QED
      BY <1>3, <1>4, <3>2, <3>3 DEF WarmupHolds
  <2> QED
    BY <2>1, <2>2
<1>6. r.ok => WarmupHolds(r.state, m)
  BY <1>2, <1>5
<1> QED
  BY <1>2, <1>6 DEF m

\* A baseline is not what the samples are about.
LEMMA WarmupCompares ==
    ASSUME NEW d, NEW l, WarmupHolds(d, l), NEW b
    PROVE  WarmupHolds(WarmupBaseline(d, b).state, l)
<1> DEFINE e == [d EXCEPT !.baseline = FAbs(b)]
<1>1. WarmupParts \subseteq DOMAIN d
  BY DEF WarmupHolds
<1>2. WarmupParts \subseteq DOMAIN e /\ e.samples = d.samples /\ e.recent = d.recent
  BY <1>1 DEF WarmupParts
<1>3. WarmupBaseline(d, b).state \in {d, e}
  BY DEF WarmupBaseline, Done, Refused
<1> HIDE DEF e
<1>4. WarmupHolds(e, l)
  BY <1>2 DEF WarmupHolds
<1> QED
  BY <1>3, <1>4

LEMMA NewWarmupHolds == WarmupHolds(NewWarmup, <<>>)
<1>1. Known(<<>>) = {} /\ Len(<<>>) = 0
  BY DEF Known
<1> QED
  BY <1>1 DEF WarmupHolds, NewWarmup, WarmupParts

ReporterParts == {"interval", "warmup", "summary"}
SummaryParts == {"total", "errors", "best", "baseline"}

\* The errors of the pairs of a log.
ErrorsIn(l) == {AbsoluteError(e[1], e[2]) : e \in ToSet(l)}

\* The three parts count the same, and the best error is the least.
ReporterHolds(r, l) ==
    /\ ReporterParts \subseteq DOMAIN r
    /\ WarmupParts \subseteq DOMAIN r.warmup
    /\ SummaryParts \subseteq DOMAIN r.summary
    /\ r.interval.count = Len(l) /\ r.warmup.samples = Len(l) /\ r.summary.total = Len(l)
    /\ r.summary.errors = r.interval
    /\ ExtremumHolds("min", [count |-> Len(l), current |-> r.summary.best], ErrorsIn(l))

LEMMA ReporterTakes ==
    ASSUME NEW d, NEW l \in Seq(Floats \X Floats), ReporterHolds(d, l), NEW e \in Floats \X Floats
    PROVE  LET r == ReporterObserve(d, e[2], e[1])
           IN  IF r.ok THEN ReporterHolds(r.state, Append(l, e)) ELSE r.state = d
<1> DEFINE error == AbsoluteError(e[1], e[2])
           observed == EwMeanUpdate(d.interval, error)
           warmed == WarmupObserve(d.warmup, error)
           recorded == SummaryRecord(d.summary, error)
           after == [interval |-> observed.state, warmup |-> warmed.state,
                     summary |-> recorded.state]
           r == ReporterObserve(d, e[2], e[1])
           m == Append(l, e)
           n == Len(l)
<1>1. /\ ReporterParts \subseteq DOMAIN d
      /\ WarmupParts \subseteq DOMAIN d.warmup
      /\ SummaryParts \subseteq DOMAIN d.summary
      /\ d.interval.count = n /\ d.warmup.samples = n /\ d.summary.total = n
      /\ d.summary.errors = d.interval
      /\ ExtremumHolds("min", [count |-> n, current |-> d.summary.best], ErrorsIn(l))
  BY DEF ReporterHolds
<1>2. n \in Nat /\ Len(m) = n + 1
  OBVIOUS
<1>3. ~observed.ok => r = [ok |-> FALSE, state |-> d]
  BY DEF ReporterObserve, IntervalObserve, Refused
<1>4. ASSUME observed.ok
      PROVE  /\ IsFinite(error) /\ CanCount(n)
             /\ observed.state.count = n + 1
  BY <1>1, <1>4 DEF EwMeanUpdate, Done, Refused
<1>5. ASSUME observed.ok
      PROVE  error \in FiniteNumbers /\ error \in Floats /\ error # NoValue /\ FAbs(error) = error
  <2>1. FSub(e[1], e[2]) \in Floats
    BY DifferenceIsFloat
  <2>2. IsFinite(FAbs(FSub(e[1], e[2])))
    BY <1>4, <1>5 DEF AbsoluteError
  <2> QED
    BY <2>1, <2>2, FiniteAbsolute DEF AbsoluteError
<1>6. ASSUME observed.ok
      PROVE  /\ warmed.ok /\ WarmupParts \subseteq DOMAIN warmed.state
             /\ warmed.state.samples = n + 1
  <2> DEFINE seen == [d.warmup EXCEPT !.recent = FAbs(error)]
             next == [seen EXCEPT !.samples = @ + 1]
  <2> HIDE DEF error
  <2>1. warmed = [ok |-> TRUE, state |-> next]
    BY <1>1, <1>4, <1>5, <1>6 DEF WarmupObserve, Done, Refused
  <2>2. next.samples = n + 1 /\ WarmupParts \subseteq DOMAIN next
    BY <1>1 DEF WarmupParts
  <2> HIDE DEF seen, next, warmed
  <2> QED
    BY <2>1, <2>2
<1>7. ASSUME observed.ok
      PROVE  /\ recorded.ok /\ SummaryParts \subseteq DOMAIN recorded.state
             /\ recorded.state.total = n + 1 /\ recorded.state.errors = observed.state
             /\ recorded.state.best = IF d.summary.best = NoValue THEN error
                                      ELSE Lower(d.summary.best, error)
  <2> DEFINE best == IF d.summary.best = NoValue THEN error ELSE Lower(d.summary.best, error)
             taken == [d.summary EXCEPT !.errors = observed.state, !.best = best]
             next == [taken EXCEPT !.total = @ + 1]
  <2>1. FAbs(error) = error /\ EwMeanUpdate(d.summary.errors, FAbs(error)) = observed
    BY <1>1, <1>5, <1>7
  <2>2. IsFinite(error) /\ CanCount(d.summary.total) /\ observed.ok
    BY <1>1, <1>4, <1>7
  <2> HIDE DEF error, observed
  <2>3. recorded = [ok |-> TRUE, state |-> next]
    BY <2>1, <2>2 DEF SummaryRecord, Done, Refused
  <2>4. /\ next.total = n + 1 /\ SummaryParts \subseteq DOMAIN next
        /\ next.errors = observed.state /\ next.best = best
    BY <1>1 DEF SummaryParts
  <2> HIDE DEF taken, next, recorded
  <2> QED
    BY <2>3, <2>4
<1>8. ErrorsIn(m) = ErrorsIn(l) \cup {error}
  <2>1. ToSet(m) = ToSet(l) \cup {e}
    BY AppendedValues
  <2> QED
    BY <2>1 DEF ErrorsIn
<1>9. ASSUME observed.ok
      PROVE  ExtremumHolds("min", [count |-> n + 1, current |-> recorded.state.best],
                           ErrorsIn(l) \cup {error})
  <2> DEFINE x == [count |-> n, current |-> d.summary.best]
             y == [count |-> n + 1, current |-> recorded.state.best]
             W == ErrorsIn(l)
  <2> SUFFICES ExtremumHolds("min", y, W \cup {error})
    OBVIOUS
  <2>1. MinUpdate(x, error) = [ok |-> TRUE, state |-> y]
    BY <1>4, <1>7, <1>9 DEF MinUpdate, ExtremumUpdate, Done, Refused
  <2>2. ExtremumHolds("min", x, W) /\ error \in Floats
    BY <1>1, <1>5, <1>9
  <2> HIDE DEF x, y, W, error
  <2>3. LET u == MinUpdate(x, error)
        IN  IF u.ok THEN ExtremumHolds("min", u.state, W \cup {error}) ELSE u.state = x
    BY <2>2, LeastTakes, Zenon
  <2> QED
    BY <2>1, <2>3
<1>10. ASSUME observed.ok
       PROVE  r = [ok |-> TRUE, state |-> after]
  <2>1. warmed.ok /\ recorded.ok
    BY <1>6, <1>7, <1>10
  <2>2. IntervalObserve(d.interval, e[2], e[1]) = observed
    BY DEF IntervalObserve
  <2> HIDE DEF observed, warmed, recorded
  <2> QED
    BY <1>10, <2>1, <2>2 DEF ReporterObserve, observed, warmed, recorded
<1>11. ASSUME observed.ok
       PROVE  ReporterHolds(after, m)
  <2>1. /\ ReporterParts \subseteq DOMAIN after
        /\ after.interval = observed.state /\ after.warmup = warmed.state
        /\ after.summary = recorded.state
    BY DEF ReporterParts
  <2> HIDE DEF after, observed, warmed, recorded, error, m
  <2> QED
    BY <1>2, <1>4, <1>6, <1>7, <1>8, <1>9, <1>11, <2>1 DEF ReporterHolds
<1> QED
  BY <1>3, <1>10, <1>11

LEMMA ReporterCompares ==
    ASSUME NEW d, NEW l, ReporterHolds(d, l), NEW b
    PROVE  ReporterHolds(ReporterBaseline(d, b).state, l)
<1> DEFINE e == [d EXCEPT !.warmup.baseline = FAbs(b), !.summary.baseline = FAbs(b)]
<1>1. /\ ReporterParts \subseteq DOMAIN d /\ WarmupParts \subseteq DOMAIN d.warmup
      /\ SummaryParts \subseteq DOMAIN d.summary
  BY DEF ReporterHolds
<1>2. /\ ReporterParts \subseteq DOMAIN e /\ WarmupParts \subseteq DOMAIN e.warmup
      /\ SummaryParts \subseteq DOMAIN e.summary
      /\ e.interval = d.interval /\ e.warmup.samples = d.warmup.samples
      /\ e.summary.total = d.summary.total /\ e.summary.errors = d.summary.errors
      /\ e.summary.best = d.summary.best
  BY <1>1 DEF ReporterParts, WarmupParts, SummaryParts
<1>3. ReporterBaseline(d, b).state \in {d, e}
  BY DEF ReporterBaseline, Done, Refused
<1> HIDE DEF e
<1>4. ReporterHolds(e, l)
  BY <1>2 DEF ReporterHolds
<1> QED
  BY <1>3, <1>4

LEMMA NewReporterHolds == ReporterHolds(NewReporter, <<>>)
<1>1. ErrorsIn(<<>>) = {} /\ Len(<<>>) = 0
  BY NothingInLog DEF ErrorsIn
<1>2. ExtremumHolds("min", [count |-> 0, current |-> NoValue], {})
  BY DEF ExtremumHolds
<1> QED
  BY <1>1, <1>2 DEF ReporterHolds, NewReporter, NewWarmup, NewSummary, NewMean,
     ReporterParts, WarmupParts, SummaryParts

-----------------------------------------------------------------------------
(* What the calls keep                                                     *)

\* The part of the invariant that is about counts, extrema and reports.
Counts(kind, d, l) ==
    /\ kind \in {"min", "max"} => ExtremumHolds(kind, d, ToSet(l))
    /\ kind \in DOMAIN Cells => CellsCount(kind, d, l)
    /\ kind = "warmup" /\ Len(l) < MaxCount => WarmupHolds(d, l)
    /\ kind = "reporter" => ReporterHolds(d, l)

CountInv == MomentInv /\ Counts(stream.kind, object, log)

CountedKinds == {"min", "max", "warmup", "reporter"} \cup DOMAIN Cells

LEMMA CountedKindsApart ==
    /\ \A kind \in CountedKinds : kind \notin Weighed /\ kind \notin {"consensus", "selector", "ring"}
    /\ \A kind \in {"min", "max", "warmup"} : kind \notin Pairs /\ kind \in NumberKinds
    /\ "reporter" \in Pairs /\ "reporter" \in LossKinds
    /\ \A kind \in {"min", "max", "warmup", "reporter"} : kind \notin DOMAIN Cells
    /\ \A kind \in DOMAIN Cells : kind \in Pairs /\ kind \in RateKinds
BY CellsOfKinds DEF CountedKinds, Weighed, Pairs, NumberKinds, LossKinds, RateKinds

LEMMA NewCounts == \A kind : Counts(kind, New(kind), <<>>)
<1> SUFFICES ASSUME NEW kind
             PROVE  Counts(kind, New(kind), <<>>)
  OBVIOUS
<1>1. CASE kind \in {"min", "max"}
  <2>1. kind \notin DOMAIN Cells /\ New(kind) = NewExtremum
    BY <1>1, CountedKindsApart DEF New
  <2>2. ExtremumHolds(kind, NewExtremum, {})
    BY DEF ExtremumHolds, NewExtremum
  <2> QED
    BY <1>1, <2>1, <2>2, NothingInLog DEF Counts
<1>2. CASE kind \in DOMAIN Cells
  <2>1. kind \in {"precision", "recall", "f1"}
    BY <1>2, CellsOfKinds
  <2>2. New(kind) = NewConfusion(kind)
    BY <1>2, <2>1, Zenon DEF New
  <2> QED
    BY <1>2, <2>1, <2>2, NewCellsCount DEF Counts
<1>3. CASE kind = "warmup"
  <2>1. kind \notin DOMAIN Cells
    BY <1>3, CountedKindsApart
  <2>2. New(kind) = NewWarmup
    BY <1>3, <2>1 DEF New
  <2> QED
    BY <1>3, <2>1, <2>2, NewWarmupHolds DEF Counts
<1>4. CASE kind = "reporter"
  <2>1. kind \notin DOMAIN Cells
    BY <1>4, CountedKindsApart
  <2>2. New(kind) = NewReporter
    BY <1>4, <2>1 DEF New
  <2> QED
    BY <1>4, <2>1, <2>2, NewReporterHolds DEF Counts
<1>5. CASE kind \notin CountedKinds
  BY <1>5 DEF Counts, CountedKinds
<1> QED
  BY <1>1, <1>2, <1>3, <1>4, <1>5 DEF CountedKinds

LEMMA TakingCounts ==
    ASSUME NEW s \in Streams, NEW d, NEW l \in Seq(s.inputs), Counts(s.kind, d, l),
           NEW x \in s.inputs
    PROVE  LET r == Take(s.kind, d, x)
           IN  Counts(s.kind, r.state, IF r.ok THEN Append(l, x) ELSE l)
<1> DEFINE kind == s.kind
           r == Take(kind, d, x)
           m == Append(l, x)
<1>1. /\ kind \in NumberKinds => s.inputs \subseteq Floats
      /\ kind \in LossKinds => s.inputs \subseteq Floats \X Floats
      /\ kind \in RateKinds => s.inputs \subseteq BOOLEAN \X BOOLEAN
  BY InputsAssumption
<1>2. Counts(kind, d, l)
  OBVIOUS
<1>3. ToSet(m) = ToSet(l) \cup {x} /\ Len(l) \in Nat /\ Len(m) = Len(l) + 1
  BY AppendedValues
<1> SUFFICES Counts(kind, r.state, IF r.ok THEN m ELSE l)
  OBVIOUS
<1> HIDE DEF kind, r
<1>4. CASE kind \in {"min", "max"}
  <2> DEFINE W == ToSet(l)
  <2>1. /\ kind \notin Pairs /\ kind \notin Weighed /\ kind \notin {"consensus", "selector"}
        /\ kind \notin DOMAIN Cells /\ x \in Floats
    BY <1>1, <1>4, CountedKindsApart DEF CountedKinds
  <2>2. ExtremumHolds(kind, d, W)
    BY <1>2, <1>4 DEF Counts
  <2>3. W \cup {x} = ToSet(m)
    BY <1>3
  <2> HIDE DEF W
  <2>4. ASSUME kind = "min"
        PROVE  ExtremumHolds(kind, r.state, ToSet(IF r.ok THEN m ELSE l))
    <3>1. r = MinUpdate(d, x)
      BY <2>1, <2>4 DEF Take, TakeNumber, r
    <3>2. IF r.ok THEN ExtremumHolds("min", r.state, W \cup {x}) ELSE r.state = d
      BY <2>1, <2>2, <2>4, <3>1, LeastTakes, Zenon
    <3> QED
      BY <2>2, <2>3, <2>4, <3>2 DEF W
  <2>5. ASSUME kind = "max"
        PROVE  ExtremumHolds(kind, r.state, ToSet(IF r.ok THEN m ELSE l))
    <3>1. r = MaxUpdate(d, x)
      BY <2>1, <2>5 DEF Take, TakeNumber, r
    <3>2. IF r.ok THEN ExtremumHolds("max", r.state, W \cup {x}) ELSE r.state = d
      BY <2>1, <2>2, <2>5, <3>1, GreatestTakes, Zenon
    <3> QED
      BY <2>2, <2>3, <2>5, <3>2 DEF W
  <2>6. ExtremumHolds(kind, r.state, ToSet(IF r.ok THEN m ELSE l))
    BY <1>4, <2>4, <2>5
  <2> QED
    BY <1>4, <2>1, <2>6 DEF Counts
<1>5. CASE kind \in DOMAIN Cells
  <2>1. /\ kind \in Pairs /\ s.inputs \subseteq BOOLEAN \X BOOLEAN
        /\ kind \notin {"min", "max", "warmup", "reporter"}
        /\ kind \notin Weighed /\ kind # "consensus" /\ kind # "selector"
    BY <1>1, <1>5, CountedKindsApart DEF CountedKinds
  <2>2. kind \in {"precision", "recall", "f1"}
    BY <1>5, CellsOfKinds
  <2>3. r = TakePair(kind, d, x[1], x[2])
    BY <2>1 DEF Take, r
  <2>4. r = ConfusionUpdate(d, x[1], x[2])
    BY <1>5, <2>2, <2>3, Zenon DEF TakePair
  <2>5. l \in Seq(BOOLEAN \X BOOLEAN) /\ x \in BOOLEAN \X BOOLEAN /\ CellsCount(kind, d, l)
    BY <1>2, <1>5, <2>1 DEF Counts
  <2>6. IF r.ok THEN CellsCount(kind, r.state, m) ELSE r.state = d
    BY <1>5, <2>4, <2>5, CellsTake
  <2>7. CellsCount(kind, r.state, IF r.ok THEN m ELSE l)
    BY <2>5, <2>6
  <2> QED
    BY <2>1, <2>7 DEF Counts
<1>6. CASE kind = "warmup"
  <2>1. /\ kind \notin Pairs /\ kind \notin Weighed /\ kind \notin {"consensus", "selector"}
        /\ kind \notin DOMAIN Cells /\ s.inputs \subseteq Floats
    BY <1>1, <1>6, CountedKindsApart DEF CountedKinds
  <2>2. r = WarmupObserve(d, x)
    BY <1>6, <2>1 DEF Take, TakeNumber, r
  <2>3. ASSUME Len(IF r.ok THEN m ELSE l) < MaxCount
        PROVE  WarmupHolds(r.state, IF r.ok THEN m ELSE l)
    <3>1. Len(l) < MaxCount
      BY <1>3, <2>3, FormatAssumption
    <3>2. WarmupHolds(d, l) /\ l \in Seq(Floats) /\ x \in Floats
      BY <1>2, <1>6, <2>1, <3>1 DEF Counts
    <3>3. IF r.ok THEN WarmupHolds(r.state, m) ELSE r.state = d
      BY <2>2, <3>1, <3>2, WarmupTakes
    <3> QED
      BY <3>2, <3>3
  <2> QED
    BY <1>6, <2>1, <2>3 DEF Counts
<1>7. CASE kind = "reporter"
  <2>1. /\ kind \in Pairs /\ kind \notin DOMAIN Cells /\ s.inputs \subseteq Floats \X Floats
        /\ kind \notin Weighed /\ kind # "consensus" /\ kind # "selector"
    BY <1>1, <1>7, CountedKindsApart DEF CountedKinds
  <2>2. r = ReporterObserve(d, x[2], x[1])
    <3>1. r = TakePair(kind, d, x[1], x[2])
      BY <2>1 DEF Take, r
    <3> QED
      BY <1>7, <2>1, <3>1, Zenon DEF TakePair
  <2>3. ReporterHolds(d, l) /\ l \in Seq(Floats \X Floats) /\ x \in Floats \X Floats
    BY <1>2, <1>7, <2>1 DEF Counts
  <2>4. IF r.ok THEN ReporterHolds(r.state, m) ELSE r.state = d
    BY <2>2, <2>3, ReporterTakes
  <2>5. ReporterHolds(r.state, IF r.ok THEN m ELSE l)
    BY <2>3, <2>4
  <2> QED
    BY <1>7, <2>1, <2>5 DEF Counts
<1>8. CASE kind \notin CountedKinds
  BY <1>8 DEF Counts, CountedKinds
<1> QED
  BY <1>4, <1>5, <1>6, <1>7, <1>8 DEF CountedKinds

LEMMA CountInit == MonitoringInit => CountInv
<1> SUFFICES ASSUME MonitoringInit
             PROVE  Counts(stream.kind, object, log)
  BY MomentInit DEF CountInv
<1> QED
  BY NewCounts DEF MonitoringInit

LEMMA CountStep == CountInv /\ [MonitoringNext]_vars => CountInv'
<1> SUFFICES ASSUME CountInv, [MonitoringNext]_vars
             PROVE  Counts(stream.kind, object', log')
  BY MomentStep, StreamStays DEF CountInv
<1>1. /\ stream \in Streams /\ log \in Seq(stream.inputs)
      /\ Counts(stream.kind, object, log)
  BY DEF CountInv, MomentInv
<1>2. CASE Feed
  <2>1. PICK input \in stream.inputs : Took(Take(stream.kind, object, input), input)
    BY <1>2, Zenon DEF Feed
  <2> DEFINE r == Take(stream.kind, object, input)
  <2>2. object' = r.state /\ log' = IF r.ok THEN Append(log, input) ELSE log
    BY <2>1 DEF Took
  <2>3. Counts(stream.kind, r.state, IF r.ok THEN Append(log, input) ELSE log)
    BY <1>1, TakingCounts
  <2> QED
    BY <2>2, <2>3
<1>3. CASE Reset
  <2>1. log' = <<>> /\ object' = IF stream.kind = "ring" THEN RingReset(object) ELSE New(stream.kind)
    BY <1>3 DEF Reset
  <2>2. stream.kind = "ring" => stream.kind \notin CountedKinds
    BY CountedKindsApart
  <2>3. CASE stream.kind = "ring"
    BY <2>2, <2>3 DEF Counts, CountedKinds
  <2>4. CASE stream.kind # "ring"
    BY <2>1, <2>4, NewCounts
  <2> QED
    BY <2>3, <2>4
<1>4. CASE Select
  <2>1. stream.kind \notin CountedKinds
    BY <1>4, CountedKindsApart DEF Select
  <2> QED
    BY <2>1 DEF Counts, CountedKinds
<1>5. CASE Compare
  <2>1. stream.kind \in {"warmup", "reporter"} /\ log' = log
    BY <1>5 DEF Compare
  <2>2. stream.kind \notin DOMAIN Cells /\ stream.kind \notin {"min", "max"}
    BY <2>1, CountedKindsApart
  <2>3. CASE stream.kind = "warmup"
    <3>1. object' = WarmupBaseline(object, Unit).state
      BY <1>5, <2>3 DEF Compare
    <3> QED
      BY <1>1, <2>1, <2>2, <2>3, <3>1, WarmupCompares DEF Counts
  <2>4. CASE stream.kind = "reporter"
    <3>1. object' = ReporterBaseline(object, Unit).state
      BY <1>5, <2>4 DEF Compare
    <3> QED
      BY <1>1, <2>1, <2>2, <2>4, <3>1, ReporterCompares DEF Counts
  <2> QED
    BY <2>1, <2>3, <2>4
<1>6. CASE UNCHANGED vars
  BY <1>1, <1>6 DEF vars
<1> QED
  BY <1>2, <1>3, <1>4, <1>5, <1>6 DEF MonitoringNext

LEMMA CountInvHolds == MonitoringSpec => []CountInv
<1> QED
  BY CountInit, CountStep, PTL DEF MonitoringSpec

-----------------------------------------------------------------------------
(* The references                                                          *)

LEMMA ExtremumIs ==
    ASSUME NEW kind \in {"min", "max"}, NEW d, NEW W, ExtremumHolds(kind, d, W), W # {}
    PROVE  d.current = IF kind = "min" THEN Min(W) ELSE Max(W)
<1>1. \A v \in W : FiniteFloat(v)
  BY DEF ExtremumHolds, FiniteNumbers, FiniteFloat
<1>2. /\ Min(W) \in W /\ \A v \in W : Min(W) <= v
      /\ Max(W) \in W /\ \A v \in W : v <= Max(W)
      /\ \A v \in W : v \in Int
  BY <1>1, FiniteExtremes, FiniteIsInteger
<1>3. /\ d.current \in W
      /\ kind = "min" => \A v \in W : d.current <= v
      /\ kind = "max" => \A v \in W : v <= d.current
  BY DEF ExtremumHolds
<1> QED
  BY <1>2, <1>3

LEMMA LoggedSomething ==
    ASSUME NEW S, NEW l \in Seq(S), l # <<>>
    PROVE  ToSet(l) # {}
<1>1. Len(l) \in Nat /\ DOMAIN l = 1..Len(l) /\ Len(l) # 0
  OBVIOUS
<1>2. 1 \in DOMAIN l
  BY <1>1
<1>3. l[1] \in ToSet(l)
  BY <1>2 DEF ToSet
<1> QED
  BY <1>3

LEMMA ExtremumAgrees ==
    ASSUME CountInv, stream.kind \in {"min", "max"}
    PROVE  Reference
<1> DEFINE kind == stream.kind
<1>1. ExtremumHolds(kind, object, ToSet(log)) /\ kind \in {"min", "max"}
  BY DEF CountInv, Counts
<1> HIDE DEF kind
<1>2. log # <<>> => ToSet(log) # {}
  BY LoggedSomething DEF CountInv, MomentInv
<1>3. log # <<>> => object.current = (IF kind = "min" THEN Min(ToSet(log)) ELSE Max(ToSet(log)))
  BY <1>1, <1>2, ExtremumIs
<1> QED
  BY <1>1, <1>3, CellsOfKinds, Zenon DEF Reference, kind

LEMMA CellsAgree ==
    ASSUME CountInv, stream.kind \in DOMAIN Cells
    PROVE  Reference
<1> DEFINE kind == stream.kind
<1>1. CellsCount(kind, object, log) /\ kind \in {"precision", "recall", "f1"}
      /\ kind \in DOMAIN Cells
  BY CellsOfKinds DEF CountInv, Counts
<1>2. log \in Seq(BOOLEAN \X BOOLEAN)
  <2>1. log \in Seq(stream.inputs) /\ stream \in Streams /\ stream.kind \in RateKinds
    BY CountedKindsApart DEF CountInv, MomentInv
  <2>2. stream.inputs \subseteq BOOLEAN \X BOOLEAN
    BY <2>1, InputsAssumption
  <2> QED
    BY <2>1, <2>2
<1>3. ASSUME NEW cell \in DOMAIN object.cells
      PROVE  object.cells[cell] = Count(log, LAMBDA e : Cell(e[1], e[2]) = cell)
  <2>1. DOMAIN object.cells = Cells[kind]
    BY <1>1 DEF CellsCount, ConfusionHolds
  <2>2. object.cells[cell] = Occurs(log, OfCell(cell))
    BY <1>1, <2>1, Zenon DEF CellsCount
  <2>3. \A i \in DOMAIN log : log[i] \in BOOLEAN \X BOOLEAN
    BY <1>2
  <2>4. {i \in DOMAIN log : log[i] \in OfCell(cell)}
          = {i \in DOMAIN log : Cell(log[i][1], log[i][2]) = cell}
    BY <2>3 DEF OfCell
  <2> QED
    BY <2>2, <2>4 DEF Occurs, Count
<1> HIDE DEF kind
<1>4. /\ kind \notin {"mean", "variance", "min", "max", "median_mad", "rolling", "decayed_mean",
                      "weighted_mean", "mae", "r2", "rolling_mse", "mse", "rolling_mae",
                      "rolling_accuracy", "adwin", "kswin", "selector", "warmup", "reporter"}
  BY <1>1
<1> QED
  BY <1>1, <1>3, <1>4, Zenon DEF Reference, kind

LEMMA WarmupAgrees ==
    ASSUME CountInv, stream.kind = "warmup", Len(log) < MaxCount
    PROVE  Reference
<1>1. WarmupHolds(object, log)
  BY DEF CountInv, Counts
<1>2. Known(log) = KnownErrors
  BY DEF Known, KnownErrors
<1>3. ASSUME KnownErrors # {}
      PROVE  object.recent = Magnitude(log[Max(KnownErrors)])
  <2>1. PICK k \in KnownErrors : (\A j \in KnownErrors : j <= k) /\ object.recent = Magnitude(log[k])
    BY <1>1, <1>2, <1>3, Zenon DEF WarmupHolds
  <2>2. KnownErrors \subseteq Nat
    BY DEF KnownErrors, CountInv, MomentInv
  <2>3. \E x \in KnownErrors : \A y \in KnownErrors : x >= y
    BY <2>1, <2>2
  <2>4. Max(KnownErrors) \in KnownErrors /\ \A y \in KnownErrors : Max(KnownErrors) >= y
    BY <2>3, Zenon DEF Max
  <2>5. Max(KnownErrors) <= k /\ Max(KnownErrors) >= k
    BY <2>1, <2>4, Zenon
  <2>6. Max(KnownErrors) = k
    <3> DEFINE g == Max(KnownErrors)
    <3>1. g \in Nat /\ k \in Nat /\ g <= k /\ g >= k
      BY <2>1, <2>2, <2>4, <2>5
    <3> HIDE DEF g
    <3>2. g = k
      BY <3>1
    <3> QED
      BY <3>2 DEF g
  <2> QED
    BY <2>1, <2>6
<1>4. object.samples = Len(log)
  BY <1>1 DEF WarmupHolds
<1> QED
  BY <1>3, <1>4, CellsOfKinds, Zenon DEF Reference

LEMMA ReporterAgrees ==
    ASSUME CountInv, stream.kind = "reporter"
    PROVE  Reference
<1>1. /\ ReporterHolds(object, log) /\ log \in Seq(stream.inputs)
  BY DEF CountInv, Counts, MomentInv
<1>2. {object.interval.count, object.warmup.samples, object.summary.total} = {Len(log)}
  BY <1>1 DEF ReporterHolds
<1>3. ASSUME log # <<>>
      PROVE  object.summary.best = Min(ToSet(ErrorsOf(log)))
  <2> DEFINE d == [count |-> Len(log), current |-> object.summary.best]
             W == ErrorsIn(log)
  <2>1. ToSet(ErrorsOf(log)) = W
    BY DEF ErrorsOf, ErrorsIn, ToSet
  <2>2. ToSet(log) # {}
    BY <1>1, <1>3, LoggedSomething
  <2>3. W # {}
    BY <2>2 DEF ErrorsIn
  <2>4. ExtremumHolds("min", d, W) /\ d.current = object.summary.best
    BY <1>1 DEF ReporterHolds
  <2> HIDE DEF d, W
  <2>5. d.current = Min(W)
    BY <2>3, <2>4, ExtremumIs, Zenon
  <2> QED
    BY <2>1, <2>4, <2>5
<1>4. ASSUME Confidence(object) = "high"
      PROVE  Len(log) >= StableThreshold /\ object.summary.baseline # NoValue
  <2> DEFINE state == WarmupState(object.warmup)
  <2>1. state \in {"no_data", "warming_up", "degraded", "usable", "stable"}
    BY DEF WarmupState
  <2>2. state = "stable" => object.warmup.samples >= StableThreshold
    BY DEF WarmupState
  <2> HIDE DEF state
  <2>3. state = "stable" /\ BeatsBaseline(object.summary)
    BY <1>4, <2>1 DEF Confidence, state
  <2> QED
    BY <1>1, <2>2, <2>3 DEF ReporterHolds, BeatsBaseline
<1> QED
  BY <1>2, <1>3, <1>4, CellsOfKinds, Zenon DEF Reference

LEMMA MedianAgrees ==
    ASSUME CountInv, WindowInv, stream.kind = "median_mad"
    PROVE  Reference
<1>1. Sound(stream.kind, object, ToSet(log)) /\ log \in Seq(stream.inputs)
  <2>1. stream.kind \in MomentKinds
    BY DEF MomentKinds, NumberMoments
  <2> QED
    BY <2>1 DEF CountInv, MomentInv
<1>2. MedianMadHolds(object)
  BY <1>1 DEF Sound
<1>3. object.window = LastOf(log, Capacity)
  BY DEF WindowInv, Keeps
<1>4. ASSUME log # <<>>
      PROVE  IsMedian(Median(object.window), object.window)
  <2>1. Len(log) \in Nat /\ Len(log) > 0 /\ Capacity \in Nat /\ Capacity > 0
    BY <1>1, <1>4, StatisticsAssumption
  <2>2. Len(object.window) = Lower(Capacity, Len(log))
    BY <1>1, <1>3, <2>1, LastOfFields
  <2>3. Len(object.window) > 0
    BY <2>1, <2>2 DEF Lower
  <2>4. object.window \in Seq(FiniteNumbers) /\ object.window # <<>>
    BY <1>2, <2>3 DEF MedianMadHolds
  <2> QED
    BY <2>4, MedianIsMedian
<1> QED
  BY <1>4, CellsOfKinds, Zenon DEF Reference

LEMMA KswinAgrees ==
    ASSUME CountInv, stream.kind = "kswin"
    PROVE  Reference
<1>1. KswinHolds(object)
  <2>1. stream.kind \in MomentKinds
    BY DEF MomentKinds, NumberMoments
  <2> QED
    BY <2>1 DEF CountInv, MomentInv, Sound
<1>2. ASSUME Len(object.reference) = WindowSize, Len(object.current) = WindowSize
      PROVE  KsStatistic(object.reference, object.current)
               = SupDistance(object.reference, object.current)
  <2>1. WindowSize \in Nat /\ WindowSize > 0
    BY DetectorAssumption
  <2>2. object.reference \in Seq(FiniteNumbers) /\ object.current \in Seq(FiniteNumbers)
    BY <1>1 DEF KswinHolds
  <2> QED
    BY <1>2, <2>1, <2>2, StatisticIsSupremum
<1> QED
  BY <1>2, CellsOfKinds, Zenon DEF Reference

LEMMA HitsAgree ==
    ASSUME CountInv, WindowInv, stream.kind = "rolling_accuracy"
    PROVE  Reference
<1> DEFINE w == LastOf(log, MetricCapacity)
<1>1. HitsHold(object) /\ log \in Seq(stream.inputs)
  <2>1. stream.kind \in MomentKinds
    BY DEF MomentKinds, PairMoments
  <2> QED
    BY <2>1 DEF CountInv, MomentInv, Sound
<1>2. object.window = HitsOf(w)
  BY DEF WindowInv, Keeps
<1>3. w \in Seq(stream.inputs)
  BY <1>1, LastOfFields, MetricsAssumption
<1> HIDE DEF w
<1>4. object.sum = Count(w, LAMBDA e : e[1] = e[2])
  BY <1>1, <1>2, <1>3, HitsAreCounted
<1> QED
  BY <1>4, CellsOfKinds, Zenon DEF Reference, w

LEMMA SelectorAgrees ==
    ASSUME WindowInv, stream.kind = "selector", Len(log) < MaxCount
    PROVE  Reference
<1>1. \A i \in Models : object.comparator.total[i] = Len(RecordedFor(i, log))
  BY DEF WindowInv, Selects, Compares
<1> QED
  BY <1>1, CellsOfKinds, Zenon DEF Reference

\* The kinds whose numbers are counted, compared or taken as they are.
CountedExactly == {"min", "max", "median_mad", "rolling_accuracy", "kswin", "reporter"}
                  \cup DOMAIN Cells

\* What the incremental updates keep is what a computation over all inputs
\* yields: the extrema, the cells of precision, recall and f1 and the hits of a
\* rolling accuracy are those of the log, the median has at most half of its
\* window on either side, the walk of KSWIN over two sorted windows finds the
\* largest distance of their distribution functions, the three parts of a
\* reporter count the same samples and its best error is the least, a tracker of
\* the warm-up knows the newest error there is, and a comparator counts the pairs
\* of each model. The last two take an error before their counter can refuse the
\* sample, so of them the theorem speaks while no counter is at its limit.
THEOREM ReferencesAgree ==
    MonitoringSpec => [](stream.kind \in CountedExactly
                         \/ (stream.kind \in {"selector", "warmup"} /\ Len(log) < MaxCount)
                         => AgreesWithReference)
<1>1. CountInv /\ WindowInv
      => (stream.kind \in CountedExactly
          \/ (stream.kind \in {"selector", "warmup"} /\ Len(log) < MaxCount)
          => AgreesWithReference)
  <2> SUFFICES ASSUME CountInv, WindowInv,
                      \/ stream.kind \in CountedExactly
                      \/ stream.kind \in {"selector", "warmup"} /\ Len(log) < MaxCount
               PROVE  Reference
    BY DEF AgreesWithReference
  <2> QED
    BY ExtremumAgrees, CellsAgree, WarmupAgrees, ReporterAgrees, MedianAgrees, KswinAgrees,
       HitsAgree, SelectorAgrees DEF CountedExactly
<1> QED
  BY <1>1, CountInvHolds, WindowInvHolds, PTL
=============================================================================
