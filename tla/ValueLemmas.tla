----------------------------- MODULE ValueLemmas -----------------------------
(***************************************************************************)
(* What the proofs need to know of sequences and of the numbers of         *)
(* SmallFloat, whatever the elements, the unit, the digits and the largest *)
(* number are: induction over the natural numbers, functions defined by    *)
(* recursion, the newest elements of a log; powers of two, which results   *)
(* are numbers of the format, that rounding never leaves the interval      *)
(* between two numbers, and what this makes of sums, roots, means and      *)
(* variances.                                                              *)
(***************************************************************************)
EXTENDS OnlineStatistics, SequenceTheorems, FiniteSetTheorems, WellFoundedInduction, TLAPS

-----------------------------------------------------------------------------
(* Induction. The library's theorem is about an operator; this one is about*)
(* the set of numbers for which a statement holds.                         *)

LEMMA LessIsWellFounded ==
    \E R : IsWellFoundedOn(R, Nat) /\ \A x, y \in Nat : y < x => <<y, x>> \in R
<1> DEFINE R == OpToRel(<, Nat)
<1>1. IsWellFoundedOn(R, Nat)
  BY NatLessThanWellFounded
<1>2. \A x, y \in Nat : y < x => <<y, x>> \in R
  BY DEF OpToRel
<1> HIDE DEF R
<1> QED
  BY <1>1, <1>2

\* Numbers have a smallest one.
LEMMA SmallestOf ==
    ASSUME NEW T \in SUBSET Nat, T # {}
    PROVE  \E x \in T : \A y \in T : x <= y
<1>1. PICK R : IsWellFoundedOn(R, Nat) /\ \A x, y \in Nat : y < x => <<y, x>> \in R
  BY LessIsWellFounded
<1>2. PICK x \in T : \A y \in T : ~(<<y, x>> \in R)
  BY <1>1, WFMin
<1>3. \A y \in T : ~(y < x)
  BY <1>1, <1>2
<1> QED
  BY <1>3

\* Numbers that have a bound have a largest one.
LEMMA GreatestOf ==
    ASSUME NEW n \in Nat, NEW T \in SUBSET (0..n), T # {}
    PROVE  \E x \in T : \A y \in T : x >= y
<1> DEFINE D == {k \in Nat : n - k \in T}
<1>1. D \in SUBSET Nat /\ D # {}
  <2>1. PICK x \in T : TRUE
    OBVIOUS
  <2>2. x \in 0..n /\ n - x \in Nat /\ n - (n - x) = x
    OBVIOUS
  <2>3. n - x \in D
    BY <2>1, <2>2
  <2> QED
    BY <2>3
<1> HIDE DEF D
<1>2. PICK k \in D : \A j \in D : k <= j
  BY <1>1, SmallestOf
<1>3. k \in Nat /\ n - k \in T
  BY <1>2 DEF D
<1>4. ASSUME NEW y \in T
      PROVE  n - k >= y
  <2>1. y \in 0..n /\ n - y \in Nat /\ n - (n - y) = y
    OBVIOUS
  <2>2. n - y \in D
    BY <2>1 DEF D
  <2>3. k <= n - y
    BY <1>2, <2>2
  <2> QED
    BY <1>3, <2>1, <2>3
<1> QED
  BY <1>3, <1>4

\* A set of numbers with 0 and with the successor of each has all of them.
LEMMA Induction ==
    ASSUME NEW T \in SUBSET Nat, 0 \in T, \A n \in T : n + 1 \in T
    PROVE  T = Nat
<1> SUFFICES ASSUME Nat \ T # {} PROVE FALSE
  OBVIOUS
<1>1. PICK x \in Nat \ T : \A y \in Nat \ T : x <= y
  BY SmallestOf
<1>2. x # 0
  OBVIOUS
<1>3. x - 1 \in Nat /\ x - 1 \in T
  BY <1>1, <1>2
<1> QED
  BY <1>3

\* The same for sequences: the empty one, and what each becomes with one more element.
LEMMA SequenceInduction ==
    ASSUME NEW S, NEW T \in SUBSET Seq(S), <<>> \in T, \A s \in T, e \in S : Append(s, e) \in T
    PROVE  T = Seq(S)
<1> DEFINE N == {n \in Nat : \A s \in Seq(S) : Len(s) = n => s \in T}
<1>1. 0 \in N
  <2>1. \A s \in Seq(S) : Len(s) = 0 => s = <<>>
    OBVIOUS
  <2> QED
    BY <2>1
<1>2. ASSUME NEW n \in N
      PROVE  n + 1 \in N
  <2>1. n \in Nat /\ \A s \in Seq(S) : Len(s) = n => s \in T
    BY <1>2
  <2>2. ASSUME NEW s \in Seq(S), Len(s) = n + 1
        PROVE  s \in T
    <3>1. s # <<>>
      BY <2>1, <2>2
    <3>2. PICK t \in Seq(S), e \in S : s = Append(t, e)
      <4> DEFINE t == [i \in 1..n |-> s[i]]
      <4>1. \A i \in 1..(n + 1) : s[i] \in S
        BY <2>1, <2>2
      <4>2. t \in Seq(S) /\ Len(t) = n
        BY <2>1, <4>1
      <4>3. s[n + 1] \in S
        BY <2>1, <4>1
      <4>4. Append(t, s[n + 1]) \in Seq(S) /\ Len(Append(t, s[n + 1])) = n + 1
            /\ Append(t, s[n + 1])[n + 1] = s[n + 1]
            /\ \A i \in 1..n : Append(t, s[n + 1])[i] = t[i]
        BY <4>2, <4>3, AppendProperties
      <4>5. \A i \in 1..n : t[i] = s[i]
        OBVIOUS
      <4> DEFINE a == Append(t, s[n + 1])
      <4>6. a \in Seq(S) /\ Len(a) = n + 1 /\ a[n + 1] = s[n + 1] /\ \A i \in 1..n : a[i] = s[i]
        BY <4>4, <4>5
      <4> HIDE DEF a, t
      <4>7. ASSUME NEW i \in 1..(n + 1)
            PROVE  a[i] = s[i]
        <5>1. i = n + 1 \/ i \in 1..n
          BY <2>1
        <5> QED
          BY <4>6, <5>1
      <4>8. s = a
        BY <2>1, <2>2, <4>6, <4>7, SeqEqual
      <4> QED
        BY <4>2, <4>3, <4>8 DEF a
    <3>3. Len(t) = n
      BY <2>1, <2>2, <3>2
    <3> QED
      BY <2>1, <3>2, <3>3
  <2> QED
    BY <2>1, <2>2
<1>3. N = Nat
  <2>1. N \in SUBSET Nat
    OBVIOUS
  <2> HIDE DEF N
  <2> QED
    BY <1>1, <1>2, <2>1, Induction
<1>4. ASSUME NEW s \in Seq(S)
      PROVE  s \in T
  <2>1. Len(s) \in N
    BY <1>3
  <2> QED
    BY <2>1
<1> QED
  BY <1>4

-----------------------------------------------------------------------------
(* Recursion.                                                              *)

\* The values of a recursion over 0..n whose step is the function F.
Recursion(f, b, F, n) == f = [i \in 0..n |-> IF i = 0 THEN b ELSE F[f[i - 1], i]]

\* A solution over 0..k is continued by one step of the recursion.
LEMMA RecursionExtends ==
    ASSUME NEW V, NEW b \in V, NEW n \in Nat, NEW F \in [V \X (1..n) -> V],
           NEW k \in Nat, k + 1 <= n, NEW f \in [0..k -> V], Recursion(f, b, F, k)
    PROVE  \E g \in [0..(k + 1) -> V] : Recursion(g, b, F, k + 1)
<1> DEFINE last == F[f[k], k + 1]
<1>1. last \in V
  <2>1. k \in 0..k /\ k + 1 \in 1..n
    OBVIOUS
  <2>2. f[k] \in V
    BY <2>1
  <2>3. <<f[k], k + 1>> \in V \X (1..n)
    BY <2>1, <2>2
  <2> QED
    BY <2>3
<1>2. \A i \in 0..k : f[i] \in V
  OBVIOUS
<1>3. \A i \in 0..k : f[i] = IF i = 0 THEN b ELSE F[f[i - 1], i]
  BY DEF Recursion
<1>4. last = F[f[k], k + 1]
  OBVIOUS
<1> HIDE DEF last
<1> DEFINE g == [i \in 0..(k + 1) |-> IF i <= k THEN f[i] ELSE last]
<1>5. g \in [0..(k + 1) -> V]
  <2>1. \A i \in 0..(k + 1) : (IF i <= k THEN f[i] ELSE last) \in V
    BY <1>1, <1>2
  <2> QED
    BY <2>1
<1>6. \A i \in 0..k : g[i] = f[i]
  OBVIOUS
<1>7. g[k + 1] = last
  OBVIOUS
<1>8. g = [i \in 0..(k + 1) |-> g[i]]
  OBVIOUS
<1> HIDE DEF g
<1>9. ASSUME NEW i \in 0..(k + 1)
      PROVE  g[i] = IF i = 0 THEN b ELSE F[g[i - 1], i]
  <2>1. CASE i = 0
    <3>1. 0 \in 0..k
      OBVIOUS
    <3>2. f[0] = b /\ g[0] = f[0]
      BY <1>3, <1>6, <3>1
    <3> QED
      BY <2>1, <3>2, Zenon
  <2>2. CASE i \in 1..k
    <3>1. i \in 0..k /\ i - 1 \in 0..k /\ i # 0
      BY <2>2
    <3> QED
      BY <1>3, <1>6, <3>1
  <2>3. CASE i = k + 1
    <3>1. i # 0 /\ i - 1 = k /\ k \in 0..k
      BY <2>3
    <3> QED
      BY <1>4, <1>6, <1>7, <2>3, <3>1
  <2>4. i = 0 \/ i \in 1..k \/ i = k + 1
    OBVIOUS
  <2> QED
    BY <2>1, <2>2, <2>3, <2>4, Zenon
<1>10. Recursion(g, b, F, k + 1)
  BY <1>8, <1>9 DEF Recursion
<1> QED
  BY <1>5, <1>10

\* A recursion that stays within a set of values has a solution.
LEMMA RecursionExists ==
    ASSUME NEW V, NEW b \in V, NEW n \in Nat, NEW F \in [V \X (1..n) -> V]
    PROVE  \E f \in [0..n -> V] : Recursion(f, b, F, n)
<1> DEFINE Solved(k) == \E f \in [0..k -> V] : Recursion(f, b, F, k)
<1> DEFINE T == {k \in Nat : k <= n => Solved(k)}
<1>1. Solved(0)
  <2>1. [i \in 0..0 |-> b] \in [0..0 -> V]
    OBVIOUS
  <2>2. Recursion([i \in 0..0 |-> b], b, F, 0)
    BY DEF Recursion
  <2> QED
    BY <2>1, <2>2
<1>2. ASSUME NEW k \in Nat, k + 1 <= n, Solved(k)
      PROVE  Solved(k + 1)
  BY <1>2, RecursionExtends
<1> HIDE DEF Solved
<1>3. 0 \in T
  BY <1>1
<1>4. \A k \in T : k + 1 \in T
  BY <1>2
<1>5. T = Nat
  <2>1. T \in SUBSET Nat
    OBVIOUS
  <2> HIDE DEF T
  <2> QED
    BY <1>3, <1>4, <2>1, Induction
<1>6. Solved(n)
  BY <1>5
<1> QED
  BY <1>6 DEF Solved

\* What no step of a recursion leads out of has all its values.
LEMMA RecursionStays ==
    ASSUME NEW V, NEW n \in Nat, NEW f, f[0] \in V, \A k \in 1..n : f[k - 1] \in V => f[k] \in V
    PROVE  \A k \in 0..n : f[k] \in V
<1> DEFINE T == {k \in Nat : k <= n => f[k] \in V}
<1>1. 0 \in T
  OBVIOUS
<1>2. ASSUME NEW k \in T
      PROVE  k + 1 \in T
  <2> SUFFICES ASSUME k + 1 <= n
               PROVE  f[k + 1] \in V
    OBVIOUS
  <2>1. k \in Nat /\ f[k] \in V /\ k + 1 \in 1..n /\ (k + 1) - 1 = k
    BY <1>2
  <2> QED
    BY <2>1
<1>3. T = Nat
  <2>1. T \in SUBSET Nat
    OBVIOUS
  <2> HIDE DEF T
  <2> QED
    BY <1>1, <1>2, <2>1, Induction
<1> QED
  BY <1>3

\* The recursion that selects the elements of a log that are under names of H.
Picked(f, H, l) ==
    f = [n \in 0..Len(l) |->
            IF n = 0 THEN <<>>
            ELSE IF l[n][1] \in H THEN Append(f[n - 1], l[n])
            ELSE f[n - 1]]

LEMMA PickedExists ==
    ASSUME NEW S, NEW l \in Seq(S), NEW H
    PROVE  \E f \in [0..Len(l) -> Seq(S)] : Picked(f, H, l)
<1> DEFINE V == Seq(S)
<1> DEFINE n == Len(l)
<1> DEFINE Chosen(v, i) == IF l[i][1] \in H THEN Append(v, l[i]) ELSE v
<1> DEFINE F == [p \in V \X (1..n) |-> Chosen(p[1], p[2])]
<1>1. n \in Nat /\ <<>> \in V
  OBVIOUS
<1>2. ASSUME NEW v \in V, NEW i \in 1..n
      PROVE  Chosen(v, i) \in V /\ F[v, i] = Chosen(v, i)
  <2>1. l[i] \in S
    BY <1>1
  <2>2. <<v, i>> \in V \X (1..n) /\ <<v, i>>[1] = v /\ <<v, i>>[2] = i
    OBVIOUS
  <2>3. F[v, i] = Chosen(v, i)
    <3> HIDE DEF V, n, Chosen
    <3> QED
      BY <2>2
  <2>4. Append(v, l[i]) \in V
    BY <2>1
  <2>5. Chosen(v, i) \in V
    <3> HIDE DEF V
    <3> QED
      BY <2>4
  <2> QED
    BY <2>3, <2>5, Zenon
<1>3. F \in [V \X (1..n) -> V]
  <2> HIDE DEF V, n, Chosen
  <2>1. \A p \in V \X (1..n) : Chosen(p[1], p[2]) \in V
    BY <1>2
  <2> QED
    BY <2>1
<1> HIDE DEF F, V
<1>4. PICK f \in [0..n -> V] : Recursion(f, <<>>, F, n)
  BY <1>1, <1>3, RecursionExists
<1>5. ASSUME NEW i \in 0..n
      PROVE  f[i] = IF i = 0 THEN <<>> ELSE Chosen(f[i - 1], i)
  <2>1. CASE i = 0
    BY <1>1, <1>4, <2>1 DEF Recursion
  <2>2. CASE i \in 1..n
    <3>1. f[i - 1] \in V /\ i # 0
      BY <1>1, <1>4, <2>2
    <3>2. f[i] = F[f[i - 1], i]
      BY <1>4, <3>1 DEF Recursion
    <3> QED
      BY <1>2, <2>2, <3>1, <3>2
  <2> QED
    BY <1>1, <2>1, <2>2
<1>6. Picked(f, H, l)
  BY <1>4, <1>5 DEF Picked
<1> QED
  BY <1>4, <1>6 DEF V

\* Recursions over logs that agree have the same values.
LEMMA PickedAgree ==
    ASSUME NEW l, NEW m, Len(l) \in Nat, Len(m) \in Nat, NEW H, NEW f, NEW g,
           Picked(f, H, l), Picked(g, H, m), Len(l) <= Len(m),
           \A i \in 1..Len(l) : m[i] = l[i]
    PROVE  \A k \in 0..Len(l) : f[k] = g[k]
<1> DEFINE T == {k \in Nat : k <= Len(l) => f[k] = g[k]}
<1>1. f[0] = <<>> /\ g[0] = <<>>
  <2>1. 0 \in 0..Len(l) /\ 0 \in 0..Len(m)
    OBVIOUS
  <2> QED
    BY <2>1 DEF Picked
<1>2. ASSUME NEW k \in Nat, k + 1 <= Len(l), f[k] = g[k]
      PROVE  f[k + 1] = g[k + 1]
  <2> DEFINE n == k + 1
  <2>1. n \in 0..Len(l) /\ n \in 0..Len(m) /\ n # 0 /\ n - 1 = k
    BY <1>2
  <2> HIDE DEF n
  <2>2. f[n] = IF l[n][1] \in H THEN Append(f[n - 1], l[n]) ELSE f[n - 1]
    BY <2>1 DEF Picked
  <2>3. g[n] = IF m[n][1] \in H THEN Append(g[n - 1], m[n]) ELSE g[n - 1]
    BY <2>1 DEF Picked
  <2>4. m[n] = l[n]
    BY <2>1
  <2>5. f[n] = g[n]
    BY <1>2, <2>1, <2>2, <2>3, <2>4
  <2> QED
    BY <2>5 DEF n
<1>3. 0 \in T
  BY <1>1
<1>4. \A k \in T : k + 1 \in T
  BY <1>2
<1>5. T \in SUBSET Nat
  OBVIOUS
<1>6. T = Nat
  <2> HIDE DEF T
  <2> QED
    BY <1>3, <1>4, <1>5, Induction
<1> QED
  BY <1>6

-----------------------------------------------------------------------------
(* The newest elements of a log.                                           *)

\* w holds the newest elements of l, in their order.
Recent(w, l) ==
    /\ Len(w) <= Len(l)
    /\ \A i \in 1..Len(w) : w[i] = l[Len(l) - Len(w) + i]

\* What LastOf returns.
LEMMA LastOfFields ==
    ASSUME NEW S, NEW l \in Seq(S), NEW n \in Nat
    PROVE  /\ LastOf(l, n) \in Seq(S)
           /\ Len(LastOf(l, n)) = Lower(n, Len(l))
           /\ Recent(LastOf(l, n), l)
<1> DEFINE m == Higher(1, Len(l) - n + 1)
<1>1. Len(l) \in Nat /\ m \in 1..(Len(l) + 1)
  BY DEF Higher
<1>2. m = (IF n < Len(l) THEN Len(l) - n + 1 ELSE 1)
  BY DEF Higher
<1>3. \A i \in m..Len(l) : l[i] \in S
  BY <1>1
<1> HIDE DEF m
<1>4. /\ SubSeq(l, m, Len(l)) \in Seq(S)
      /\ Len(SubSeq(l, m, Len(l))) = IF m <= Len(l) THEN Len(l) - m + 1 ELSE 0
      /\ \A i \in 1..(Len(l) - m + 1) : SubSeq(l, m, Len(l))[i] = l[m + i - 1]
  <2>1. m \in Int /\ Len(l) \in Int
    BY <1>1
  <2> QED
    BY <1>3, <2>1, SubSeqProperties
<1>5. LastOf(l, n) = SubSeq(l, m, Len(l))
  BY DEF LastOf, m
<1>6. Len(LastOf(l, n)) = Len(l) - m + 1
  BY <1>1, <1>4, <1>5
<1>7. Len(LastOf(l, n)) = Lower(n, Len(l))
  BY <1>1, <1>2, <1>6 DEF Lower
<1>8. Recent(LastOf(l, n), l)
  <2>1. ASSUME NEW i \in 1..(Len(l) - m + 1)
        PROVE  LastOf(l, n)[i] = l[Len(l) - (Len(l) - m + 1) + i]
    <3>1. Len(l) - (Len(l) - m + 1) + i = m + i - 1
      BY <1>1
    <3> QED
      BY <1>4, <1>5, <3>1
  <2> QED
    BY <1>1, <1>6, <2>1 DEF Recent
<1> QED
  BY <1>4, <1>5, <1>7, <1>8

\* The newest elements are known by their number.
LEMMA RecentIsLastOf ==
    ASSUME NEW S, NEW l \in Seq(S), NEW w \in Seq(S), Recent(w, l),
           NEW n \in Nat, Len(w) = Lower(n, Len(l))
    PROVE  w = LastOf(l, n)
<1>1. /\ LastOf(l, n) \in Seq(S)
      /\ Len(LastOf(l, n)) = Lower(n, Len(l))
      /\ Recent(LastOf(l, n), l)
  BY LastOfFields
<1> DEFINE v == LastOf(l, n)
<1> HIDE DEF v
<1>2. v \in Seq(S) /\ Len(v) = Len(w) /\ Recent(v, l)
  BY <1>1 DEF v
<1>3. \A i \in 1..Len(w) : w[i] = v[i]
  BY <1>2 DEF Recent
<1>4. w = v
  BY <1>2, <1>3, SeqEqual
<1> QED
  BY <1>4 DEF v

\* A window of as many elements as it has is the last ones.
LEMMA RecentIsItsLength ==
    ASSUME NEW S, NEW l \in Seq(S), NEW w \in Seq(S), Recent(w, l)
    PROVE  w = LastOf(l, Len(w))
<1>1. Len(w) \in Nat /\ Len(l) \in Nat /\ Len(w) = Lower(Len(w), Len(l))
  BY DEF Recent, Lower
<1> QED
  BY <1>1, RecentIsLastOf

LEMMA NothingIsRecent ==
    ASSUME NEW S, NEW l \in Seq(S)
    PROVE  Recent(<<>>, l)
BY DEF Recent

\* A window and its log take the same element.
LEMMA RecentAppend ==
    ASSUME NEW S, NEW l \in Seq(S), NEW w \in Seq(S), NEW x \in S, Recent(w, l)
    PROVE  Recent(Append(w, x), Append(l, x))
<1>1. /\ Len(w) \in Nat /\ Len(l) \in Nat
      /\ Len(Append(w, x)) = Len(w) + 1 /\ Len(Append(l, x)) = Len(l) + 1
  OBVIOUS
<1>2. ASSUME NEW i \in 1..(Len(w) + 1)
      PROVE  Append(w, x)[i] = Append(l, x)[(Len(l) + 1) - (Len(w) + 1) + i]
  <2>1. CASE i = Len(w) + 1
    BY <1>1, <2>1
  <2>2. CASE i \in 1..Len(w)
    <3>1. w[i] = l[Len(l) - Len(w) + i]
      BY <2>2 DEF Recent
    <3>2. Append(w, x)[i] = w[i]
      BY <2>2
    <3>3. (Len(l) + 1) - (Len(w) + 1) + i = Len(l) - Len(w) + i
      BY <1>1
    <3>4. Len(l) - Len(w) + i \in 1..Len(l)
      BY <1>1, <2>2 DEF Recent
    <3>5. Append(l, x)[Len(l) - Len(w) + i] = l[Len(l) - Len(w) + i]
      BY <3>4
    <3> QED
      BY <3>1, <3>2, <3>3, <3>5
  <2>3. i = Len(w) + 1 \/ i \in 1..Len(w)
    BY <1>1
  <2> QED
    BY <2>1, <2>2, <2>3, Zenon
<1>3. Len(w) <= Len(l)
  BY DEF Recent
<1> DEFINE v == Append(w, x)
<1> DEFINE m == Append(l, x)
<1>4. Len(v) = Len(w) + 1 /\ Len(m) = Len(l) + 1
  BY <1>1
<1>5. \A i \in 1..(Len(w) + 1) : v[i] = m[(Len(l) + 1) - (Len(w) + 1) + i]
  BY <1>2, Zenon
<1> HIDE DEF v, m
<1>6. Recent(v, m)
  BY <1>1, <1>3, <1>4, <1>5 DEF Recent
<1> QED
  BY <1>6 DEF v, m

\* A window may forget its oldest elements.
LEMMA RecentTrim ==
    ASSUME NEW S, NEW l \in Seq(S), NEW w \in Seq(S), Recent(w, l), NEW k \in 0..Len(w)
    PROVE  /\ SubSeq(w, k + 1, Len(w)) \in Seq(S)
           /\ Len(SubSeq(w, k + 1, Len(w))) = Len(w) - k
           /\ Recent(SubSeq(w, k + 1, Len(w)), l)
<1> DEFINE v == SubSeq(w, k + 1, Len(w))
<1>1. Len(w) \in Nat /\ Len(l) \in Nat
  OBVIOUS
<1>2. /\ v \in Seq(S)
      /\ Len(v) = IF k + 1 <= Len(w) THEN Len(w) - (k + 1) + 1 ELSE 0
      /\ \A i \in 1..(Len(w) - (k + 1) + 1) : v[i] = w[(k + 1) + i - 1]
  <2>1. \A i \in (k + 1)..Len(w) : w[i] \in S
    BY <1>1
  <2>2. k + 1 \in Int /\ Len(w) \in Int
    BY <1>1
  <2> QED
    BY <2>1, <2>2, SubSeqProperties
<1> HIDE DEF v
<1>3. Len(v) = Len(w) - k
  BY <1>1, <1>2
<1>4. ASSUME NEW i \in 1..(Len(w) - k)
      PROVE  v[i] = l[Len(l) - (Len(w) - k) + i]
  <2>1. v[i] = w[k + i] /\ k + i \in 1..Len(w)
    BY <1>1, <1>2
  <2>2. w[k + i] = l[Len(l) - Len(w) + (k + i)]
    BY <2>1 DEF Recent
  <2> QED
    BY <1>1, <2>1, <2>2
<1>5. Recent(v, l)
  BY <1>1, <1>3, <1>4 DEF Recent
<1> QED
  BY <1>2, <1>3, <1>5 DEF v

LEMMA RecentTail ==
    ASSUME NEW S, NEW l \in Seq(S), NEW w \in Seq(S), Recent(w, l), w # <<>>
    PROVE  Tail(w) \in Seq(S) /\ Len(Tail(w)) = Len(w) - 1 /\ Recent(Tail(w), l)
<1>1. Len(w) \in Nat /\ 1 \in 0..Len(w)
  OBVIOUS
<1>2. Tail(w) = SubSeq(w, 2, Len(w))
  BY TailIsSubSeq
<1>3. /\ SubSeq(w, 1 + 1, Len(w)) \in Seq(S)
      /\ Len(SubSeq(w, 1 + 1, Len(w))) = Len(w) - 1
      /\ Recent(SubSeq(w, 1 + 1, Len(w)), l)
  BY <1>1, RecentTrim
<1>4. 1 + 1 = 2
  OBVIOUS
<1> QED
  BY <1>2, <1>3, <1>4

-----------------------------------------------------------------------------
(* Powers of two, as the number of subsets: the provers know no more of    *)
(* exponentiation.                                                         *)

LEMMA PowerOfTwo ==
    /\ 2 ^ 0 = 1
    /\ \A n \in Nat : 2 ^ n \in Nat /\ 2 ^ n >= 1 /\ 2 ^ (n + 1) = 2 * 2 ^ n
<1>1. \A n \in Nat : IsFiniteSet(SUBSET (1..n)) /\ Cardinality(SUBSET (1..n)) = 2 ^ n /\ 2 ^ n \in Nat
  <2> TAKE n \in Nat
  <2>1. IsFiniteSet(1..n) /\ Cardinality(1..n) = n
    BY FS_Interval
  <2> QED
    BY <2>1, FS_SUBSET, FS_CardinalityType
<1>2. 2 ^ 0 = 1
  <2>1. 1..0 = {}
    OBVIOUS
  <2>2. SUBSET (1..0) = {{}}
    BY <2>1
  <2> QED
    BY <1>1, <2>2, FS_Singleton
<1>3. ASSUME NEW n \in Nat
      PROVE  2 ^ (n + 1) = 2 * 2 ^ n
  <2> DEFINE A == SUBSET (1..n)
             F == [a \in A |-> a \cup {n + 1}]
             B == {a \cup {n + 1} : a \in A}
  <2>1. F \in Bijection(A, B)
    <3>1. F \in [A -> B]
      OBVIOUS
    <3>2. \A a, b \in A : F[a] = F[b] => a = b
      OBVIOUS
    <3>3. \A y \in B : \E a \in A : F[a] = y
      OBVIOUS
    <3> QED
      BY <3>1, <3>2, <3>3 DEF Bijection, Injection, Surjection, IsInjective
  <2>2. IsFiniteSet(A) /\ Cardinality(A) = 2 ^ n
    BY <1>1
  <2>3. IsFiniteSet(B) /\ Cardinality(B) = 2 ^ n
    <3>1. ExistsBijection(A, B)
      BY <2>1 DEF ExistsBijection
    <3> HIDE DEF A, B
    <3> QED
      BY <2>2, <3>1, FS_Bijection
  <2>4. SUBSET (1..(n + 1)) = A \cup B
    <3>1. ASSUME NEW x \in SUBSET (1..(n + 1))
          PROVE  x \in A \cup B
      <4>1. CASE n + 1 \in x
        <5>1. x \ {n + 1} \in A
          OBVIOUS
        <5>2. x = (x \ {n + 1}) \cup {n + 1}
          BY <4>1
        <5> QED
          BY <5>1, <5>2
      <4>2. CASE n + 1 \notin x
        BY <4>2
      <4> QED
        BY <4>1, <4>2
    <3>2. 1..n \subseteq 1..(n + 1) /\ n + 1 \in 1..(n + 1)
      OBVIOUS
    <3>3. A \subseteq SUBSET (1..(n + 1))
      BY <3>2
    <3>4. \A a \in A : a \cup {n + 1} \in SUBSET (1..(n + 1))
      BY <3>2
    <3>5. B \subseteq SUBSET (1..(n + 1))
      BY <3>4, Zenon
    <3> QED
      BY <3>1, <3>3, <3>5
  <2>5. A \cap B = {}
    OBVIOUS
  <2>6. Cardinality(A \cup B) = Cardinality(A) + Cardinality(B) - Cardinality(A \cap B)
    BY <2>2, <2>3, FS_Union
  <2>7. Cardinality(A \cap B) = 0
    BY <2>5, FS_EmptySet
  <2>8. Cardinality(A \cup B) = 2 ^ (n + 1)
    <3>1. n + 1 \in Nat
      OBVIOUS
    <3>2. Cardinality(SUBSET (1..(n + 1))) = 2 ^ (n + 1)
      BY <1>1, <3>1
    <3> HIDE DEF A, B
    <3> QED
      BY <2>4, <3>2
  <2> HIDE DEF A, B
  <2> QED
    BY <1>1, <2>2, <2>3, <2>6, <2>7, <2>8
<1> DEFINE T == {n \in Nat : 2 ^ n >= 1}
<1>4. 0 \in T
  BY <1>2
<1>5. \A n \in T : n + 1 \in T
  BY <1>1, <1>3
<1>6. T = Nat
  <2>1. T \in SUBSET Nat
    OBVIOUS
  <2> HIDE DEF T
  <2> QED
    BY <1>4, <1>5, <2>1, Induction
<1> QED
  BY <1>1, <1>2, <1>3, <1>6

\* A larger power is a multiple of a smaller one.
LEMMA PowersDivide ==
    ASSUME NEW m \in Nat, NEW n \in Nat, m <= n
    PROVE  \E k \in Nat : k >= 1 /\ 2 ^ n = k * 2 ^ m
<1> DEFINE T == {d \in Nat : \E k \in Nat : k >= 1 /\ 2 ^ (m + d) = k * 2 ^ m}
<1>1. 0 \in T
  <2>1. 2 ^ (m + 0) = 1 * 2 ^ m
    BY PowerOfTwo
  <2> QED
    BY <2>1
<1>2. ASSUME NEW d \in T
      PROVE  d + 1 \in T
  <2>1. PICK k \in Nat : k >= 1 /\ 2 ^ (m + d) = k * 2 ^ m
    OBVIOUS
  <2>2. 2 ^ (m + (d + 1)) = 2 * 2 ^ (m + d)
    <3>1. m + d \in Nat /\ m + (d + 1) = (m + d) + 1
      OBVIOUS
    <3> QED
      BY <3>1, PowerOfTwo
  <2>3. 2 ^ m \in Nat
    BY PowerOfTwo
  <2>4. 2 ^ (m + (d + 1)) = (2 * k) * 2 ^ m
    BY <2>1, <2>2, <2>3
  <2>5. 2 * k \in Nat /\ 2 * k >= 1 /\ d + 1 \in Nat
    BY <2>1
  <2> QED
    BY <2>4, <2>5
<1>3. T = Nat
  <2>1. T \in SUBSET Nat
    OBVIOUS
  <2> HIDE DEF T
  <2> QED
    BY <1>1, <1>2, <2>1, Induction
<1>4. n - m \in Nat
  OBVIOUS
<1>5. m + (n - m) = n
  OBVIOUS
<1>6. \A d \in Nat : \E k \in Nat : k >= 1 /\ 2 ^ (m + d) = k * 2 ^ m
  BY <1>3
<1> HIDE DEF T
<1>7. \E k \in Nat : k >= 1 /\ 2 ^ (m + (n - m)) = k * 2 ^ m
  BY <1>4, <1>6
<1> QED
  BY <1>5, <1>7

LEMMA PowersGrow ==
    ASSUME NEW m \in Nat, NEW n \in Nat, m <= n
    PROVE  2 ^ m <= 2 ^ n
<1>1. PICK k \in Nat : k >= 1 /\ 2 ^ n = k * 2 ^ m
  BY PowersDivide
<1>2. 2 ^ m \in Nat
  BY PowerOfTwo
<1> DEFINE b == 2 ^ m
<1>3. k * b >= b
  <2> HIDE DEF b
  <2>1. b \in Nat
    BY <1>2 DEF b
  <2> QED
    BY <1>1, <2>1
<1> QED
  BY <1>1, <1>3

\* There is a power above every number.
LEMMA PowersExceed == \A n \in Nat : n < 2 ^ n
<1> DEFINE T == {n \in Nat : n < 2 ^ n}
<1>1. 0 \in T
  BY PowerOfTwo
<1>2. \A n \in T : n + 1 \in T
  BY PowerOfTwo
<1>3. T = Nat
  <2>1. T \in SUBSET Nat
    OBVIOUS
  <2> HIDE DEF T
  <2> QED
    BY <1>1, <1>2, <2>1, Induction
<1> QED
  BY <1>3

\* The product of two powers.
LEMMA PowersMultiply == \A m, n \in Nat : 2 ^ (m + n) = 2 ^ m * 2 ^ n
<1> SUFFICES ASSUME NEW m \in Nat
             PROVE  \A n \in Nat : 2 ^ (m + n) = 2 ^ m * 2 ^ n
  OBVIOUS
<1> DEFINE T == {n \in Nat : 2 ^ (m + n) = 2 ^ m * 2 ^ n}
<1>1. 0 \in T
  <2>1. m + 0 = m /\ 2 ^ m \in Nat
    BY PowerOfTwo
  <2>2. 2 ^ (m + 0) = 2 ^ m * 2 ^ 0
    BY <2>1, PowerOfTwo
  <2> QED
    BY <2>2
<1>2. ASSUME NEW n \in T
      PROVE  n + 1 \in T
  <2>1. n \in Nat /\ 2 ^ (m + n) = 2 ^ m * 2 ^ n
    BY <1>2
  <2>2. m + (n + 1) = (m + n) + 1 /\ m + n \in Nat
    BY <2>1
  <2>3. 2 ^ (m + (n + 1)) = 2 * 2 ^ (m + n) /\ 2 ^ (n + 1) = 2 * 2 ^ n
    BY <2>1, <2>2, PowerOfTwo
  <2>4. 2 ^ m \in Nat /\ 2 ^ n \in Nat
    BY <2>1, PowerOfTwo
  <2>5. 2 * (2 ^ m * 2 ^ n) = 2 ^ m * (2 * 2 ^ n)
    BY <2>4
  <2>6. 2 ^ (m + (n + 1)) = 2 ^ m * 2 ^ (n + 1)
    BY <2>1, <2>3, <2>5
  <2>7. n + 1 \in Nat
    BY <2>1
  <2> QED
    BY <2>6, <2>7
<1>3. T = Nat
  <2>1. T \in SUBSET Nat
    OBVIOUS
  <2> HIDE DEF T
  <2> QED
    BY <1>1, <1>2, <2>1, Induction
<1> QED
  BY <1>3

-----------------------------------------------------------------------------
(* The nearest integer and the spacing of the numbers.                     *)

LEMMA NearestInteger ==
    ASSUME NEW p \in Int, NEW q \in Nat, q > 0
    PROVE  /\ RoundedQuotient(p, q) \in Int
           /\ \A k \in Int : /\ p <= k * q => RoundedQuotient(p, q) <= k
                             /\ p >= k * q => RoundedQuotient(p, q) >= k
<1> DEFINE below == p \div q
           rest  == p % q
<1>1. below \in Int /\ rest \in Int /\ p = below * q + rest /\ 0 <= rest /\ rest < q
  OBVIOUS
<1>2. /\ RoundedQuotient(p, q) \in {below, below + 1}
      /\ rest = 0 => RoundedQuotient(p, q) = below
  BY <1>1 DEF RoundedQuotient
<1> HIDE DEF below, rest
<1>3. ASSUME NEW k \in Int, p <= k * q
      PROVE  RoundedQuotient(p, q) <= k
  <2>1. CASE below < k
    BY <1>1, <1>2, <2>1
  <2>2. CASE below >= k
    <3>1. (below - k) * q >= 0
      BY <1>1, <2>2
    <3>2. below * q >= k * q
      BY <1>1, <3>1
    <3>3. rest = 0 /\ below * q = k * q
      BY <1>1, <1>3, <3>2
    <3>4. (below - k) * q = 0
      BY <1>1, <3>3
    <3>5. below = k
      BY <1>1, <3>4
    <3> QED
      BY <1>2, <3>3, <3>5
  <2> QED
    BY <1>1, <2>1, <2>2
<1>4. ASSUME NEW k \in Int, p >= k * q
      PROVE  RoundedQuotient(p, q) >= k
  <2>1. SUFFICES ASSUME below <= k - 1
                 PROVE  FALSE
    BY <1>1, <1>2
  <2>2. (k - 1 - below) * q >= 0
    BY <1>1, <2>1
  <2>3. below * q <= k * q - q
    BY <1>1, <2>2
  <2> QED
    BY <1>1, <1>4, <2>3
<1> QED
  BY <1>1, <1>2, <1>3, <1>4

\* A spacing is the power of two that gives a quotient as many digits as there are.
LEMMA SpacingFits ==
    ASSUME NEW p \in Int, NEW q \in Nat, q > 0
    PROVE  \E f \in Nat :
              /\ Spacing(p, q) = 2 ^ f
              /\ Magnitude(p) < q * 2 ^ (Digits + f)
              /\ f > 0 => Magnitude(p) >= q * 2 ^ (Digits + f - 1)
<1>1. Digits \in Nat /\ Digits > 0
  BY FormatAssumption
<1>2. Magnitude(p) \in Nat
  BY DEF Magnitude
<1> DEFINE m == Magnitude(p)
           Enough(e) == m < q * 2 ^ (Digits + e)
           Needed(e) == e > 0 => m >= q * 2 ^ (Digits + e - 1)
           T == {e \in Exponents(m) : Enough(e)}
<1> HIDE DEF m
<1>3. m \in Nat
  BY <1>2 DEF m
<1>10. Enough(m)
  <2>1. m < 2 ^ m /\ 2 ^ m <= 2 ^ (Digits + m)
    <3>1. Digits + m \in Nat /\ m <= Digits + m
      BY <1>1, <1>3
    <3> QED
      BY <1>3, <3>1, PowersExceed, PowersGrow
  <2>2. 2 ^ (Digits + m) \in Nat /\ 2 ^ m \in Nat
    BY <1>1, <1>3, PowerOfTwo
  <2>3. q * 2 ^ (Digits + m) >= 2 ^ (Digits + m)
    <3> DEFINE b == 2 ^ (Digits + m)
    <3>1. b \in Nat
      BY <2>2
    <3> HIDE DEF b
    <3>2. (q - 1) * b >= 0
      BY <3>1
    <3>3. q * b >= b
      BY <3>1, <3>2
    <3> QED
      BY <3>3 DEF b
  <2>4. q * 2 ^ (Digits + m) \in Nat
    BY <2>2
  <2> QED
    BY <1>3, <2>1, <2>2, <2>3, <2>4
<1>11. m < 2 ^ 30 => Enough(30)
  <2>1. Digits + 30 \in Nat /\ 30 <= Digits + 30
    BY <1>1
  <2>2. 2 ^ 30 <= 2 ^ (Digits + 30)
    BY <2>1, PowersGrow
  <2>3. 2 ^ (Digits + 30) \in Nat /\ 2 ^ 30 \in Nat
    BY <2>1, PowerOfTwo
  <2> DEFINE b == 2 ^ (Digits + 30)
             c == 2 ^ 30
  <2>4. b \in Nat /\ c \in Nat /\ c <= b
    BY <2>2, <2>3
  <2> HIDE DEF b, c
  <2>5. (q - 1) * b >= 0
    BY <2>4
  <2>6. q * b >= b
    BY <2>4, <2>5
  <2>7. m < c => m < q * b
    BY <1>3, <2>4, <2>6
  <2> QED
    BY <2>7 DEF b, c
<1>12. /\ Exponents(m) \subseteq Nat
       /\ \A e \in Exponents(m) : e > 0 => e - 1 \in Exponents(m)
       /\ Exponents(m) = 0..m \/ (Exponents(m) = 0..30 /\ m < 2 ^ 30)
  <2>1. Exponents(m) = 0..m \/ (Exponents(m) = 0..30 /\ m < 2 ^ 30)
    BY DEF Exponents
  <2>2. CASE Exponents(m) = 0..m
    BY <1>3, <2>2
  <2>3. CASE Exponents(m) = 0..30 /\ m < 2 ^ 30
    BY <2>3
  <2> QED
    BY <2>1, <2>2, <2>3
<1>4. \E e \in Exponents(m) : Enough(e)
  <2> HIDE DEF Enough
  <2> QED
    BY <1>3, <1>10, <1>11, <1>12
<1>5. PICK e \in T : \A y \in T : e <= y
  <2>1. T \in SUBSET Nat
    BY <1>12
  <2>2. T # {}
    BY <1>4
  <2> HIDE DEF T
  <2> QED
    BY <2>1, <2>2, SmallestOf
<1>6. Needed(e)
  <2> SUFFICES ASSUME e > 0
               PROVE  m >= q * 2 ^ (Digits + e - 1)
    OBVIOUS
  <2>1. e - 1 \in Exponents(m) /\ Digits + (e - 1) = Digits + e - 1 /\ Digits + e - 1 \in Nat
    BY <1>1, <1>12
  <2>2. ~Enough(e - 1)
    <3> HIDE DEF Enough
    <3> QED
      BY <1>5, <1>12, <2>1
  <2>3. q * 2 ^ (Digits + e - 1) \in Nat
    BY <2>1, PowerOfTwo
  <2> QED
    BY <1>3, <2>1, <2>2, <2>3
<1> DEFINE f == CHOOSE x \in Exponents(m) : Enough(x) /\ Needed(x)
<1>7. f \in Exponents(m) /\ Enough(f) /\ Needed(f)
  <2>1. \E x \in Exponents(m) : Enough(x) /\ Needed(x)
    BY <1>5, <1>6
  <2> HIDE DEF Enough, Needed
  <2> QED
    BY <2>1, Zenon
<1>8. Spacing(p, q) = 2 ^ f
  BY DEF Spacing, m
<1>9. f \in Nat
  BY <1>7, <1>12
<1> HIDE DEF f
<1> QED
  BY <1>7, <1>8, <1>9 DEF m

-----------------------------------------------------------------------------
(* The numbers of the format, but for their largest.                       *)

\* A multiple of a power of two that has no more digits than there are.
Representable(r) ==
    \E k \in Int, e \in Nat : r = k * 2 ^ e /\ -(2 ^ Digits) <= k /\ k <= 2 ^ Digits

LEMMA RepresentableIsInteger == \A r : Representable(r) => r \in Int
BY PowerOfTwo DEF Representable

LEMMA ZeroIsRepresentable == Representable(0)
<1>1. 0 = 0 * 2 ^ 0 /\ 0 \in Int /\ 0 \in Nat
  BY PowerOfTwo
<1>2. 2 ^ Digits \in Nat
  BY PowerOfTwo, FormatAssumption
<1> QED
  BY <1>1, <1>2 DEF Representable

LEMMA NegativeIsRepresentable ==
    ASSUME NEW r, Representable(r)
    PROVE  Representable(-r)
<1>1. PICK k \in Int, e \in Nat : r = k * 2 ^ e /\ -(2 ^ Digits) <= k /\ k <= 2 ^ Digits
  BY DEF Representable
<1>2. 2 ^ Digits \in Nat /\ 2 ^ e \in Nat
  BY PowerOfTwo, FormatAssumption
<1>3. -r = (-k) * 2 ^ e /\ -k \in Int /\ -(2 ^ Digits) <= -k /\ -k <= 2 ^ Digits
  BY <1>1, <1>2
<1> QED
  BY <1>3 DEF Representable

LEMMA DoubleIsRepresentable ==
    ASSUME NEW r, Representable(r)
    PROVE  Representable(2 * r)
<1>1. PICK k \in Int, e \in Nat : r = k * 2 ^ e /\ -(2 ^ Digits) <= k /\ k <= 2 ^ Digits
  BY DEF Representable
<1>2. 2 ^ e \in Nat /\ 2 ^ (e + 1) = 2 * 2 ^ e
  BY PowerOfTwo
<1>3. 2 * r = k * 2 ^ (e + 1) /\ e + 1 \in Nat
  BY <1>1, <1>2
<1> QED
  BY <1>1, <1>3 DEF Representable

\* A number of the format is a multiple of the spacing at a quotient, or so small
\* that a multiple of it lies between the two.
LEMMA SpacingSplits ==
    ASSUME NEW p \in Int, NEW q \in Nat, q > 0, NEW r, Representable(r)
    PROVE  \E s \in Nat, j \in Int, c \in Nat :
              /\ Spacing(p, q) = s /\ s > 0
              /\ \/ r = j * s
                 \/ -(c * s) <= r /\ r <= c * s /\ (c * s) * q <= Magnitude(p)
<1>1. PICK f \in Nat : /\ Spacing(p, q) = 2 ^ f
                       /\ f > 0 => Magnitude(p) >= q * 2 ^ (Digits + f - 1)
  BY SpacingFits
<1>2. PICK k \in Int, e \in Nat : r = k * 2 ^ e /\ -(2 ^ Digits) <= k /\ k <= 2 ^ Digits
  BY DEF Representable
<1>3. Digits \in Nat /\ Digits > 0
  BY FormatAssumption
<1>4. 2 ^ f \in Nat /\ 2 ^ f >= 1 /\ 2 ^ e \in Nat /\ 2 ^ Digits \in Nat
  BY <1>3, PowerOfTwo
<1>5. CASE f <= e
  <2>1. PICK c \in Nat : 2 ^ e = c * 2 ^ f
    BY <1>5, PowersDivide
  <2>2. r = (k * c) * 2 ^ f /\ k * c \in Int
    BY <1>2, <1>4, <2>1
  <2>3. 2 ^ f > 0 /\ 0 \in Nat
    BY <1>4
  <2> WITNESS 2 ^ f \in Nat, k * c \in Int, 0 \in Nat
  <2> QED
    BY <1>1, <2>2, <2>3, Zenon
<1>6. CASE e < f
  <2>1. Digits + f - 1 \in Nat /\ f <= Digits + f - 1 /\ Digits + e \in Nat /\ Digits + e <= Digits + f - 1
    BY <1>3, <1>6
  <2>2. PICK c \in Nat : 2 ^ (Digits + f - 1) = c * 2 ^ f
    BY <2>1, PowersDivide
  <2>3. 2 ^ Digits * 2 ^ e <= 2 ^ (Digits + f - 1)
    <3>1. 2 ^ (Digits + e) = 2 ^ Digits * 2 ^ e
      BY <1>3, PowersMultiply
    <3> QED
      BY <2>1, <3>1, PowersGrow
  <2>4. -(2 ^ Digits * 2 ^ e) <= r /\ r <= 2 ^ Digits * 2 ^ e
    <3> DEFINE d == 2 ^ Digits
               b == 2 ^ e
    <3>1. d \in Nat /\ b \in Nat /\ r = k * b /\ -d <= k /\ k <= d
      BY <1>2, <1>4
    <3> HIDE DEF d, b
    <3>2. (d - k) * b >= 0 /\ (d + k) * b >= 0
      BY <3>1
    <3>3. -(d * b) <= r /\ r <= d * b
      BY <3>1, <3>2
    <3> QED
      BY <3>3 DEF d, b
  <2>5. r \in Int /\ 2 ^ (Digits + f - 1) \in Nat
    BY <1>2, <1>4, <2>1, PowerOfTwo
  <2>6. -(c * 2 ^ f) <= r /\ r <= c * 2 ^ f
    <3>1. 2 ^ Digits * 2 ^ e \in Nat
      BY <1>4
    <3> QED
      BY <2>2, <2>3, <2>4, <2>5, <3>1
  <2>7. (c * 2 ^ f) * q <= Magnitude(p)
    <3>1. Magnitude(p) >= q * 2 ^ (Digits + f - 1)
      BY <1>1, <1>6
    <3>2. q * 2 ^ (Digits + f - 1) = 2 ^ (Digits + f - 1) * q
      BY <2>5
    <3> QED
      BY <2>2, <3>1, <3>2
  <2>8. 2 ^ f > 0 /\ 0 \in Int
    BY <1>4
  <2> WITNESS 2 ^ f \in Nat, 0 \in Int, c \in Nat
  <2> QED
    BY <1>1, <2>6, <2>7, <2>8, Zenon
<1> QED
  BY <1>5, <1>6

\* Rounding never passes a number of the format.
LEMMA RoundingIsMonotone ==
    ASSUME NEW p \in Int, NEW q \in Nat, q > 0, NEW r, Representable(r)
    PROVE  LET x == NearestMultiple(p, q, Spacing(p, q))
           IN  x \in Int /\ (p <= r * q => x <= r) /\ (p >= r * q => x >= r)
<1>1. r \in Int
  BY RepresentableIsInteger
<1>2. PICK s \in Nat, j \in Int, c \in Nat :
         /\ Spacing(p, q) = s /\ s > 0
         /\ \/ r = j * s
            \/ -(c * s) <= r /\ r <= c * s /\ (c * s) * q <= Magnitude(p)
  BY SpacingSplits
<1> DEFINE n == RoundedQuotient(p, q * s)
           x == NearestMultiple(p, q, Spacing(p, q))
<1>3. q * s \in Nat /\ q * s > 0
  BY <1>2
<1>4. x = s * n
  BY <1>2 DEF NearestMultiple
<1>5. n \in Int /\ \A k \in Int : (p <= k * (q * s) => n <= k) /\ (p >= k * (q * s) => n >= k)
  BY <1>3, NearestInteger
<1> HIDE DEF n, x
<1>6. x \in Int
  BY <1>2, <1>4, <1>5
\* A multiple of the spacing is not passed.
<1>7. ASSUME NEW k \in Int
      PROVE  (p <= (k * s) * q => x <= k * s) /\ (p >= (k * s) * q => x >= k * s)
  <2>1. k * (q * s) = (k * s) * q
    BY <1>2
  <2>2. ASSUME n <= k PROVE x <= k * s
    <3>1. (k - n) * s >= 0
      BY <1>2, <1>5, <2>2
    <3> QED
      BY <1>2, <1>4, <1>5, <3>1
  <2>3. ASSUME n >= k PROVE x >= k * s
    <3>1. (n - k) * s >= 0
      BY <1>2, <1>5, <2>3
    <3> QED
      BY <1>2, <1>4, <1>5, <3>1
  <2> QED
    BY <1>5, <2>1, <2>2, <2>3
<1>8. CASE r = j * s
  BY <1>6, <1>7, <1>8 DEF x
<1>9. CASE -(c * s) <= r /\ r <= c * s /\ (c * s) * q <= Magnitude(p)
  <2> DEFINE b == c * s
  <2>1. b \in Nat
    BY <1>2
  <2>2. -b = (-c) * s /\ -c \in Int /\ c \in Int
    BY <1>2
  <2>3. /\ p <= b * q => x <= b
        /\ p >= b * q => x >= b
        /\ p <= (-b) * q => x <= -b
        /\ p >= (-b) * q => x >= -b
    BY <1>7, <2>2
  <2>4. -b <= r /\ r <= b /\ b * q <= Magnitude(p)
    BY <1>9
  <2> HIDE DEF b
  <2>5. (b - r) * q >= 0 /\ (b + r) * q >= 0
    BY <1>1, <2>1, <2>4
  <2>6. r * q <= b * q /\ -(b * q) <= r * q /\ (-b) * q = -(b * q) /\ b * q \in Nat /\ r * q \in Int
    BY <1>1, <2>1, <2>5
  <2>7. CASE p >= 0
    <3>1. p >= b * q
      BY <2>4, <2>7 DEF Magnitude
    <3>2. x >= b
      BY <2>3, <3>1
    <3>3. x >= r
      BY <1>1, <1>6, <2>1, <2>4, <3>2
    <3>4. ASSUME p <= r * q PROVE x <= r
      <4>1. p = b * q /\ r * q = b * q
        BY <2>6, <3>1, <3>4
      <4>2. (b - r) * q = 0
        BY <1>1, <2>1, <2>6, <4>1
      <4>3. r = b
        BY <1>1, <2>1, <4>2
      <4> QED
        BY <2>3, <2>6, <4>1, <4>3
    <3> QED
      BY <1>6, <3>3, <3>4 DEF x
  <2>8. CASE p < 0
    <3>1. p <= (-b) * q
      BY <2>4, <2>6, <2>8 DEF Magnitude
    <3>2. x <= -b
      BY <2>3, <3>1
    <3>3. x <= r
      BY <1>1, <1>6, <2>1, <2>4, <3>2
    <3>4. ASSUME p >= r * q PROVE x >= r
      <4>1. p = -(b * q) /\ r * q = -(b * q)
        BY <2>6, <3>1, <3>4
      <4>2. (b + r) * q = 0
        BY <1>1, <2>1, <2>6, <4>1
      <4>3. r = -b
        BY <1>1, <2>1, <4>2
      <4> QED
        BY <2>3, <2>6, <4>1, <4>3
    <3> QED
      BY <1>6, <3>3, <3>4 DEF x
  <2> QED
    BY <2>7, <2>8
<1> QED
  BY <1>2, <1>8, <1>9

\* What rounding makes is a number of the format, but for its size.
LEMMA RoundedIsRepresentable ==
    ASSUME NEW p \in Int, NEW q \in Nat, q > 0
    PROVE  Representable(NearestMultiple(p, q, Spacing(p, q)))
<1>1. PICK f \in Nat : Spacing(p, q) = 2 ^ f /\ Magnitude(p) < q * 2 ^ (Digits + f)
  BY SpacingFits
<1> DEFINE s == 2 ^ f
           d == 2 ^ Digits
           n == RoundedQuotient(p, q * s)
<1>2. s \in Nat /\ s >= 1 /\ d \in Nat
  BY PowerOfTwo, FormatAssumption
<1>3. 2 ^ (Digits + f) = d * s
  BY PowersMultiply, FormatAssumption
<1>4. NearestMultiple(p, q, Spacing(p, q)) = s * n
  BY <1>1 DEF NearestMultiple
<1> HIDE DEF s, d
<1>5. q * s \in Nat /\ q * s > 0
  BY <1>2
<1>6. n \in Int /\ \A k \in Int : (p <= k * (q * s) => n <= k) /\ (p >= k * (q * s) => n >= k)
  BY <1>5, NearestInteger
<1> HIDE DEF n
<1>7. q * (d * s) = d * (q * s) /\ (-d) * (q * s) = -(d * (q * s)) /\ d * (q * s) \in Nat
  BY <1>2
<1>8. p <= d * (q * s) /\ p >= (-d) * (q * s)
  BY <1>1, <1>3, <1>7 DEF Magnitude
<1>9. -d <= n /\ n <= d
  BY <1>2, <1>6, <1>8
<1>10. s * n = n * s
  BY <1>2, <1>6
<1> QED
  BY <1>4, <1>6, <1>9, <1>10 DEF Representable, s, d

-----------------------------------------------------------------------------
(* The values of f64.                                                      *)

\* A rounded quotient is a value, and on the same side of every number of the
\* format as the quotient: of those that are finite, or of all if it is.
LEMMA ToFloatBounds ==
    ASSUME NEW p \in Int, NEW q \in Nat, q > 0
    PROVE  /\ ToFloat(p, q) \in Int
           /\ IsFinite(ToFloat(p, q)) => Representable(ToFloat(p, q))
           /\ \A r : Representable(r) /\ (IsFinite(r) \/ IsFinite(ToFloat(p, q))) =>
                /\ p <= r * q => ToFloat(p, q) <= r
                /\ p >= r * q => ToFloat(p, q) >= r
<1> DEFINE x == NearestMultiple(p, q, Spacing(p, q))
<1>1. x \in Int /\ \A r : Representable(r) => (p <= r * q => x <= r) /\ (p >= r * q => x >= r)
  <2>1. x \in Int
    BY RoundingIsMonotone, ZeroIsRepresentable
  <2>2. ASSUME NEW r, Representable(r)
        PROVE  (p <= r * q => x <= r) /\ (p >= r * q => x >= r)
    BY <2>2, RoundingIsMonotone
  <2> QED
    BY <2>1, <2>2
<1>2. Representable(x)
  BY RoundedIsRepresentable
<1>3. ToFloat(p, q) = Bounded(x)
  BY DEF ToFloat
<1>4. Largest \in Nat /\ Largest > 0
  BY FormatAssumption
<1> HIDE DEF x
<1>5. Bounded(x) \in Int /\ (IsFinite(Bounded(x)) => Bounded(x) = x)
  BY <1>1, <1>4 DEF Bounded, Inf, NegInf, IsFinite
<1>6. ASSUME NEW r, Representable(r), IsFinite(r)
      PROVE  (x <= r => Bounded(x) <= r) /\ (x >= r => Bounded(x) >= r)
  <2>1. r \in Int
    BY <1>6, RepresentableIsInteger
  <2> QED
    BY <1>1, <1>4, <1>6, <2>1 DEF Bounded, Inf, NegInf, IsFinite
<1> QED
  BY <1>1, <1>2, <1>3, <1>5, <1>6

LEMMA NumbersAreRepresentable ==
    ASSUME NEW x \in Int
    PROVE  IsNumber(x) <=> IsFinite(x) /\ Representable(x)
<1>1. ToFloat(x, 1) \in Int /\ (IsFinite(ToFloat(x, 1)) => Representable(ToFloat(x, 1)))
  BY ToFloatBounds
<1>2. ASSUME Representable(x), IsFinite(x)
      PROVE  ToFloat(x, 1) <= x /\ ToFloat(x, 1) >= x
  <2>1. \A r : Representable(r) /\ IsFinite(r) =>
            (x <= r * 1 => ToFloat(x, 1) <= r) /\ (x >= r * 1 => ToFloat(x, 1) >= r)
    BY ToFloatBounds
  <2>2. x <= x * 1 /\ x >= x * 1
    OBVIOUS
  <2> QED
    BY <1>2, <2>1, <2>2
<1> QED
  BY <1>1, <1>2 DEF IsNumber

\* A finite value is an integer and a number of the format.
LEMMA FiniteFloats ==
    ASSUME NEW x \in Floats
    PROVE  x \in Int /\ (IsFinite(x) => Representable(x))
BY NumbersAreRepresentable DEF Floats

LEMMA RepresentableIsFloat == \A x : Representable(x) => x \in Floats
BY NumbersAreRepresentable, RepresentableIsInteger DEF Floats

LEMMA InfinitiesAreFloats == {Inf, NegInf, NaN, NoValue} \subseteq Floats
BY FormatAssumption DEF Inf, NegInf, NaN, NoValue, IsFinite, Floats

LEMMA ConstantsAreFloats ==
    /\ 0 \in Floats /\ Unit \in Floats /\ Largest \in Floats
    /\ IsFinite(0) /\ IsFinite(Unit) /\ IsFinite(Largest)
<1>1. Unit \in Nat /\ Largest \in Nat
  BY FormatAssumption
<1> QED
  BY <1>1, NumbersAssumption, ZeroIsRepresentable, RepresentableIsFloat, FormatAssumption
     DEF IsNumber, Floats, IsFinite

LEMMA ToFloatIsFloat ==
    ASSUME NEW p \in Int, NEW q \in Nat, q > 0
    PROVE  ToFloat(p, q) \in Floats
<1>1. ToFloat(p, q) \in Int /\ (IsFinite(ToFloat(p, q)) => Representable(ToFloat(p, q)))
  BY ToFloatBounds
<1> QED
  BY <1>1, NumbersAreRepresentable DEF Floats

LEMMA NegativeIsFloat ==
    ASSUME NEW a \in Floats
    PROVE  FNeg(a) \in Floats /\ FNeg(a) \in Int /\ (IsFinite(FNeg(a)) <=> IsFinite(a))
           /\ (IsFinite(a) => FNeg(a) = -a)
<1>1. a \in Int /\ Largest \in Nat /\ (IsFinite(a) => Representable(a))
  BY FiniteFloats, FormatAssumption
<1>2. IsFinite(-a) <=> IsFinite(a)
  BY <1>1 DEF IsFinite
<1>3. CASE IsFinite(a)
  <2>1. a # NaN
    BY <1>1, <1>3 DEF IsFinite, NaN
  <2>2. Representable(-a)
    BY <1>1, <1>3, NegativeIsRepresentable
  <2> QED
    BY <1>1, <1>2, <1>3, <2>1, <2>2, RepresentableIsFloat DEF FNeg
<1>4. CASE ~IsFinite(a)
  BY <1>1, <1>2, <1>4 DEF FNeg, Floats
<1> QED
  BY <1>3, <1>4

LEMMA MagnitudeIsFloat ==
    ASSUME NEW a \in Floats
    PROVE  FAbs(a) \in Floats /\ (IsFinite(FAbs(a)) <=> IsFinite(a)) /\ FAbs(a) >= 0
<1>1. a \in Int /\ Largest \in Nat /\ (IsFinite(a) => Representable(a))
  BY FiniteFloats, FormatAssumption
<1>2. Magnitude(a) \in Int /\ (IsFinite(Magnitude(a)) <=> IsFinite(a)) /\ Magnitude(a) >= 0
  BY <1>1 DEF IsFinite, Magnitude
<1>3. CASE IsFinite(a)
  <2>1. a # NaN
    BY <1>1, <1>3 DEF IsFinite, NaN
  <2>2. Representable(-a)
    BY <1>1, <1>3, NegativeIsRepresentable
  <2>3. Representable(Magnitude(a))
    BY <1>1, <1>3, <2>2 DEF Magnitude
  <2> QED
    BY <1>2, <1>3, <2>1, <2>3, RepresentableIsFloat DEF FAbs
<1>4. CASE ~IsFinite(a)
  BY <1>1, <1>2, <1>4 DEF FAbs, Floats, NaN
<1> QED
  BY <1>3, <1>4

LEMMA SumIsFloat ==
    ASSUME NEW a \in Floats, NEW b \in Floats
    PROVE  FAdd(a, b) \in Floats
<1>1. a \in Int /\ b \in Int /\ a + b \in Int
  BY FiniteFloats
<1>2. ToFloat(a + b, 1) \in Floats
  BY <1>1, ToFloatIsFloat
<1> QED
  BY <1>2, InfinitiesAreFloats DEF FAdd

LEMMA DifferenceIsFloat ==
    ASSUME NEW a \in Floats, NEW b \in Floats
    PROVE  FSub(a, b) \in Floats
BY NegativeIsFloat, SumIsFloat DEF FSub

LEMMA ProductIsFloat ==
    ASSUME NEW a \in Floats, NEW b \in Floats
    PROVE  FMul(a, b) \in Floats
<1>1. a \in Int /\ b \in Int /\ a * b \in Int /\ Unit \in Nat /\ Unit > 0
  BY FiniteFloats, FormatAssumption
<1>2. ToFloat(a * b, Unit) \in Floats
  BY <1>1, ToFloatIsFloat
<1> QED
  BY <1>2, InfinitiesAreFloats DEF FMul, Infinite

\* A quotient of whole numbers, whether they are numbers of the format or not.
LEMMA QuotientOfIntegers ==
    ASSUME NEW a \in Int, NEW b \in Int
    PROVE  FDiv(a, b) \in Floats
<1>1. a * Unit \in Int /\ -a * Unit \in Int
  BY FormatAssumption
<1>2. CASE b > 0
  <2>1. b \in Nat
    BY <1>2
  <2>2. ToFloat(a * Unit, b) \in Floats
    BY <1>1, <1>2, <2>1, ToFloatIsFloat
  <2> QED
    BY <1>2, <2>2, InfinitiesAreFloats, ConstantsAreFloats DEF FDiv, Infinite
<1>3. CASE b < 0
  <2>1. -b \in Nat /\ -b > 0
    BY <1>3
  <2>2. ToFloat(-a * Unit, -b) \in Floats
    BY <1>1, <2>1, ToFloatIsFloat
  <2>3. ~(b > 0)
    BY <1>3
  <2> QED
    BY <2>2, <2>3, InfinitiesAreFloats, ConstantsAreFloats DEF FDiv, Infinite
<1>4. CASE b = 0
  <2>1. IsFinite(b)
    BY <1>4, ConstantsAreFloats
  <2> QED
    BY <1>4, <2>1, InfinitiesAreFloats, ConstantsAreFloats DEF FDiv, Infinite
<1> QED
  BY <1>2, <1>3, <1>4

LEMMA QuotientIsFloat ==
    ASSUME NEW a \in Floats, NEW b \in Floats
    PROVE  FDiv(a, b) \in Floats
BY FiniteFloats, QuotientOfIntegers

-----------------------------------------------------------------------------
(* Signs and bounds of results.                                            *)

\* A sum is on the same side of a number as the sum without rounding.
LEMMA SumBounds ==
    ASSUME NEW a \in Floats, NEW b \in Floats, IsFinite(a), IsFinite(b)
    PROVE  /\ FAdd(a, b) \in Int
           /\ \A r \in Floats : IsFinite(r) =>
                (a + b <= r => FAdd(a, b) <= r) /\ (a + b >= r => FAdd(a, b) >= r)
<1>1. a \in Int /\ b \in Int /\ a + b \in Int
  BY FiniteFloats
<1>2. FAdd(a, b) = ToFloat(a + b, 1)
  BY DEF FAdd
<1>3. \A r : Representable(r) /\ IsFinite(r) =>
        (a + b <= r * 1 => ToFloat(a + b, 1) <= r) /\ (a + b >= r * 1 => ToFloat(a + b, 1) >= r)
  BY <1>1, ToFloatBounds
<1>4. ToFloat(a + b, 1) \in Int
  BY <1>1, ToFloatBounds
<1>5. \A r \in Floats : r \in Int /\ (IsFinite(r) => Representable(r))
  BY FiniteFloats
<1>6. \A r \in Int : r * 1 = r
  OBVIOUS
<1> HIDE DEF Floats
<1> QED
  BY <1>2, <1>3, <1>4, <1>5, <1>6

LEMMA DifferenceBounds ==
    ASSUME NEW a \in Floats, NEW b \in Floats, IsFinite(a), IsFinite(b)
    PROVE  /\ FSub(a, b) \in Int
           /\ \A r \in Floats : IsFinite(r) =>
                (a - b <= r => FSub(a, b) <= r) /\ (a - b >= r => FSub(a, b) >= r)
<1>1. a \in Int /\ b \in Int
  BY FiniteFloats
<1>2. FNeg(b) \in Floats /\ IsFinite(FNeg(b)) /\ FNeg(b) = -b
  BY NegativeIsFloat
<1>3. FSub(a, b) = FAdd(a, -b) /\ a + (-b) = a - b
  BY <1>1, <1>2 DEF FSub
<1>4. /\ FAdd(a, -b) \in Int
      /\ \A r \in Floats : IsFinite(r) =>
            (a + (-b) <= r => FAdd(a, -b) <= r) /\ (a + (-b) >= r => FAdd(a, -b) >= r)
  BY <1>2, SumBounds
<1> QED
  BY <1>3, <1>4

\* The product of numbers of one sign, and a square, are not negative.
LEMMA ProductSign ==
    ASSUME NEW a \in Floats, NEW b \in Floats, IsFinite(a), IsFinite(b), a * b >= 0
    PROVE  FMul(a, b) >= 0
<1>1. a \in Int /\ b \in Int /\ a * b \in Int /\ Unit \in Nat /\ Unit > 0
  BY FiniteFloats, FormatAssumption
<1>2. FMul(a, b) = ToFloat(a * b, Unit)
  BY DEF FMul
<1>3. Representable(0) /\ IsFinite(0) /\ a * b >= 0 * Unit
  BY <1>1, ZeroIsRepresentable, ConstantsAreFloats
<1> QED
  BY <1>1, <1>2, <1>3, ToFloatBounds

LEMMA SquareSign ==
    ASSUME NEW a \in Floats, IsFinite(a)
    PROVE  FMul(a, a) >= 0
<1>1. a \in Int
  BY FiniteFloats
<1>2. a * a >= 0
  BY <1>1
<1> QED
  BY <1>2, ProductSign

\* A sum of numbers that are not negative is not negative.
LEMMA SumSign ==
    ASSUME NEW a \in Floats, NEW b \in Floats, IsFinite(a), IsFinite(b), a >= 0, b >= 0
    PROVE  FAdd(a, b) >= a /\ FAdd(a, b) >= b /\ FAdd(a, b) >= 0
<1>1. a \in Int /\ b \in Int /\ a + b >= a /\ a + b >= b
  BY FiniteFloats
<1>2. FAdd(a, b) \in Int /\ FAdd(a, b) >= a /\ FAdd(a, b) >= b
  BY <1>1, SumBounds
<1> QED
  BY <1>1, <1>2

\* A sample count as a number, and its place among the whole numbers.
LEMMA CountBounds ==
    ASSUME NEW n \in Nat
    PROVE  /\ OfInt(n) \in Floats /\ OfInt(n) \in Int /\ OfInt(n) >= 0
           /\ n >= 1 => OfInt(n) >= Unit
           /\ n >= 2 /\ IsFinite(OfInt(n)) => OfInt(n) >= 2 * Unit
<1>1. Unit \in Nat /\ Unit > 0 /\ n * Unit \in Int /\ n * Unit >= 0
  BY FormatAssumption
<1>2. OfInt(n) = ToFloat(n * Unit, 1)
  BY DEF OfInt
<1>3. OfInt(n) \in Floats /\ OfInt(n) \in Int
  BY <1>1, <1>2, ToFloatIsFloat, FiniteFloats
<1>4. \A r : Representable(r) /\ (IsFinite(r) \/ IsFinite(OfInt(n))) => (n * Unit >= r * 1 => OfInt(n) >= r)
  BY <1>1, <1>2, ToFloatBounds
<1>5. Representable(0) /\ Representable(Unit) /\ Representable(2 * Unit) /\ IsFinite(0) /\ IsFinite(Unit)
  BY ConstantsAreFloats, FiniteFloats, DoubleIsRepresentable, ZeroIsRepresentable
<1>6. OfInt(n) >= 0
  BY <1>1, <1>4, <1>5
<1>7. ASSUME n >= 1 PROVE OfInt(n) >= Unit
  <2>1. (n - 1) * Unit >= 0
    BY <1>1, <1>7
  <2>2. n * Unit >= Unit * 1
    BY <1>1, <2>1
  <2> QED
    BY <1>4, <1>5, <2>2
<1>8. ASSUME n >= 2, IsFinite(OfInt(n)) PROVE OfInt(n) >= 2 * Unit
  <2>1. (n - 2) * Unit >= 0
    BY <1>1, <1>8
  <2>2. n * Unit >= (2 * Unit) * 1
    BY <1>1, <2>1
  <2> QED
    BY <1>4, <1>5, <1>8, <2>2
<1> QED
  BY <1>3, <1>6, <1>7, <1>8

-----------------------------------------------------------------------------
(* The step of a mean.                                                     *)

\* A rounded distance is at most the double of a number that is not beyond the
\* distance itself: the next number below it.
LEMMA DistanceHalves ==
    ASSUME NEW d \in Int, d # 0, IsFinite(ToFloat(d, 1))
    PROVE  \E r : /\ Representable(r) /\ IsFinite(r)
                  /\ 0 <= r /\ r <= Magnitude(d)
                  /\ IF d > 0 THEN r <= ToFloat(d, 1) /\ ToFloat(d, 1) <= 2 * r
                     ELSE -(2 * r) <= ToFloat(d, 1) /\ ToFloat(d, 1) <= -r
<1>1. PICK f \in Nat : /\ Spacing(d, 1) = 2 ^ f
                       /\ Magnitude(d) < 1 * 2 ^ (Digits + f)
                       /\ f > 0 => Magnitude(d) >= 1 * 2 ^ (Digits + f - 1)
  BY SpacingFits
<1> DEFINE s == 2 ^ f
           b == 2 ^ Digits
           n == RoundedQuotient(d, 1 * s)
           m == Magnitude(d)
           k == m \div s
<1>2. Digits \in Nat /\ Digits > 0 /\ Largest \in Nat
  BY FormatAssumption
<1>3. s \in Nat /\ s >= 1 /\ b \in Nat
  BY <1>2, PowerOfTwo
<1>4. 2 ^ (Digits + f) = b * s
  BY <1>2, PowersMultiply
<1>5. m \in Nat /\ m >= 1 /\ (d > 0 => m = d) /\ (~(d > 0) => m = -d)
  BY DEF Magnitude
<1>6. m < b * s
  <2>1. 2 ^ (Digits + f) \in Nat
    BY <1>2, PowerOfTwo
  <2> QED
    BY <1>1, <1>4, <2>1
<1>7. m >= s
  <2>1. CASE f = 0
    BY <1>5, <2>1, PowerOfTwo
  <2>2. CASE f > 0
    <3>1. Digits + f - 1 \in Nat /\ f <= Digits + f - 1
      BY <1>2, <2>2
    <3>2. 2 ^ f <= 2 ^ (Digits + f - 1) /\ 2 ^ (Digits + f - 1) \in Nat
      BY <3>1, PowersGrow, PowerOfTwo
    <3> QED
      BY <1>1, <1>3, <1>5, <2>2, <3>2
  <2> QED
    BY <2>1, <2>2
<1>8. ToFloat(d, 1) = s * n
  <2>1. NearestMultiple(d, 1, Spacing(d, 1)) = s * n
    BY <1>1 DEF NearestMultiple
  <2>2. n \in Int
    BY <1>3, NearestInteger
  <2>3. s * n \in Int
    BY <1>3, <2>2
  <2>4. ToFloat(d, 1) = Bounded(s * n)
    BY <2>1 DEF ToFloat
  <2> HIDE DEF s, n
  <2> QED
    BY <1>2, <2>3, <2>4 DEF Bounded, Inf, NegInf, IsFinite
<1> HIDE DEF s, b, n, m
<1>9. n \in Int /\ \A j \in Int : (d <= j * s => n <= j) /\ (d >= j * s => n >= j)
  <2>1. 1 * s = s
    BY <1>3
  <2> QED
    BY <1>3, <2>1, NearestInteger DEF n
<1>10. k \in Int /\ k * s <= m /\ m < (k + 1) * s /\ k >= 1
  <2>1. k \in Int /\ k * s <= m /\ m < k * s + s
    BY <1>3, <1>5
  <2> HIDE DEF k
  <2>2. (k + 1) * s = k * s + s
    BY <1>3, <2>1
  <2>3. k >= 1
    <3>1. SUFFICES ASSUME k <= 0 PROVE FALSE
      BY <2>1
    <3>2. (0 - k) * s >= 0
      BY <1>3, <2>1, <3>1
    <3> QED
      BY <1>3, <1>5, <1>7, <2>1, <3>2
  <2> QED
    BY <2>1, <2>2, <2>3
<1> HIDE DEF k
<1>11. k <= b
  <2>1. SUFFICES ASSUME k >= b + 1 PROVE FALSE
    BY <1>3, <1>10
  <2>2. (k - b) * s >= 0
    BY <1>3, <1>10, <2>1
  <2> QED
    BY <1>3, <1>5, <1>6, <1>10, <2>2
<1> DEFINE r == k * s
<1>12. r \in Nat /\ r <= m
  BY <1>3, <1>10
<1>13. Representable(r)
  BY <1>3, <1>10, <1>11 DEF Representable, s, b
<1>14. CASE d > 0
  <2>5. d <= (k + 1) * s /\ d >= k * s /\ k + 1 \in Int
    BY <1>3, <1>5, <1>10, <1>14
  <2>1. n >= k /\ n <= k + 1
    BY <1>9, <1>10, <2>5
  <2>2. (n - k) * s >= 0 /\ (2 * k - n) * s >= 0
    BY <1>3, <1>9, <1>10, <2>1
  <2>3. r <= s * n /\ s * n <= 2 * r
    BY <1>3, <1>9, <1>10, <2>2
  <2>4. IsFinite(r)
    BY <1>2, <1>3, <1>8, <1>9, <1>12, <2>3 DEF IsFinite
  <2> QED
    BY <1>8, <1>12, <1>13, <1>14, <2>3, <2>4 DEF m
<1>15. CASE d < 0
  <2>1. d <= (-k) * s /\ d >= (-(k + 1)) * s
    BY <1>3, <1>5, <1>10, <1>15
  <2>2. n <= -k /\ n >= -(k + 1)
    BY <1>9, <1>10, <2>1
  <2>3. (-k - n) * s >= 0 /\ (n + 2 * k) * s >= 0
    BY <1>3, <1>9, <1>10, <2>2
  <2>4. -(2 * r) <= s * n /\ s * n <= -r
    BY <1>3, <1>9, <1>10, <2>3
  <2>5. IsFinite(r)
    BY <1>2, <1>3, <1>8, <1>9, <1>12, <2>4 DEF IsFinite
  <2> QED
    BY <1>8, <1>12, <1>13, <1>15, <2>4, <2>5 DEF m
<1> QED
  BY <1>14, <1>15

\* A mean moves towards a value by a fraction of the distance, and not past it,
\* although the distance, the fraction and the sum are rounded.
LEMMA MeanMoves ==
    ASSUME NEW m \in Floats, NEW x \in Floats, NEW n \in Nat, IsFinite(m), IsFinite(x),
           IsFinite(FSub(x, m)), n = 0 => m = 0
    PROVE  LET next == FAdd(m, FDiv(FSub(x, m), OfInt(n + 1)))
           IN  /\ next \in Floats /\ IsFinite(next)
               /\ n = 0 => next = x
               /\ m <= x => m <= next /\ next <= x
               /\ x <= m => x <= next /\ next <= m
<1> DEFINE d == x - m
           delta == FSub(x, m)
           c == OfInt(n + 1)
           q == FDiv(delta, c)
           next == FAdd(m, q)
<1>1. m \in Int /\ x \in Int /\ d \in Int /\ Unit \in Nat /\ Unit > 0 /\ Largest \in Nat
  BY FiniteFloats, FormatAssumption
<1>2. delta = ToFloat(d, 1)
  <2>1. FNeg(m) \in Floats /\ IsFinite(FNeg(m)) /\ FNeg(m) = -m
    BY NegativeIsFloat
  <2>2. x + (-m) = d
    BY <1>1
  <2> QED
    BY <2>1, <2>2 DEF FSub, FAdd
<1>3. delta \in Floats /\ c \in Floats /\ q \in Floats /\ next \in Floats
  <2>1. n + 1 \in Nat
    OBVIOUS
  <2> QED
    BY <2>1, DifferenceIsFloat, CountBounds, QuotientIsFloat, SumIsFloat
<1>4. delta \in Int /\ c \in Int /\ q \in Int /\ next \in Int
  BY <1>3, FiniteFloats
<1>5. IsFinite(delta)
  OBVIOUS
<1>6. c >= Unit /\ (n # 0 /\ IsFinite(c) => c >= 2 * Unit)
  <2>1. n + 1 \in Nat /\ n + 1 >= 1 /\ (n # 0 => n + 1 >= 2)
    OBVIOUS
  <2> QED
    BY <2>1, CountBounds
<1>7. q = IF IsFinite(c) THEN ToFloat(delta * Unit, c) ELSE 0
  <2>1. c > 0 /\ c # 0
    BY <1>1, <1>4, <1>6
  <2>2. CASE IsFinite(c)
    <3>1. delta # NaN /\ c # NaN
      BY <1>1, <1>4, <1>5, <2>2 DEF IsFinite, NaN
    <3> QED
      BY <1>5, <2>1, <2>2, <3>1 DEF FDiv
  <2>3. CASE ~IsFinite(c)
    <3>1. c \in {Inf, NegInf}
      <4>1. c = ToFloat((n + 1) * Unit, 1)
        BY DEF OfInt
      <4> DEFINE y == NearestMultiple((n + 1) * Unit, 1, Spacing((n + 1) * Unit, 1))
      <4>2. c = Bounded(y)
        BY <4>1 DEF ToFloat
      <4>3. y \in Int
        <5>1. (n + 1) * Unit \in Int /\ 1 \in Nat /\ 1 > 0
          BY <1>1
        <5> QED
          BY <5>1, RoundingIsMonotone, ZeroIsRepresentable
      <4> HIDE DEF y, c
      <4> QED
        BY <1>1, <2>3, <4>2, <4>3 DEF Bounded, IsFinite
    <3>2. delta # NaN /\ c # NaN
      BY <1>1, <1>4, <1>5, <3>1 DEF IsFinite, NaN, Inf, NegInf
    <3> QED
      BY <1>5, <2>1, <2>3, <3>2 DEF FDiv
  <2> QED
    BY <2>2, <2>3
<1>8. /\ next \in Int
      /\ IsFinite(q) => \A r \in Floats : IsFinite(r) =>
            (m + q <= r => next <= r) /\ (m + q >= r => next >= r)
  BY <1>3, <1>4, SumBounds
<1> HIDE DEF next, q, c, delta, d
\* A number that is not beyond the distance bounds the step.
<1>9. ASSUME NEW r, Representable(r), IsFinite(r), 0 <= r, r <= Magnitude(d), d # 0,
             IF d > 0 THEN 0 <= q /\ q <= r ELSE -r <= q /\ q <= 0
      PROVE  IF d > 0 THEN m <= next /\ next <= x ELSE x <= next /\ next <= m
  <2>1. r \in Int
    BY <1>9, RepresentableIsInteger
  <2>2. IsFinite(q)
    BY <1>1, <1>4, <1>9, <2>1 DEF IsFinite
  <2>3. CASE d > 0
    <3>1. m + q <= x /\ m + q >= m
      BY <1>1, <1>4, <1>9, <2>1, <2>3 DEF d, Magnitude
    <3>2. next <= x /\ next >= m
      BY <1>8, <2>2, <3>1
    <3> QED
      BY <1>1, <1>8, <2>3, <3>2
  <2>4. CASE ~(d > 0)
    <3>1. m + q >= x /\ m + q <= m
      BY <1>1, <1>4, <1>9, <2>1, <2>4 DEF d, Magnitude
    <3>2. next >= x /\ next <= m
      BY <1>8, <2>2, <3>1
    <3> QED
      BY <1>1, <1>8, <2>4, <3>2
  <2> QED
    BY <2>3, <2>4
<1>10. ASSUME n # 0, d # 0
       PROVE  IF d > 0 THEN m <= next /\ next <= x ELSE x <= next /\ next <= m
  <2>1. PICK r : /\ Representable(r) /\ IsFinite(r)
                 /\ 0 <= r /\ r <= Magnitude(d)
                 /\ IF d > 0 THEN r <= delta /\ delta <= 2 * r
                    ELSE -(2 * r) <= delta /\ delta <= -r
    BY <1>1, <1>2, <1>5, <1>10, DistanceHalves
  <2>2. r \in Int
    BY <2>1, RepresentableIsInteger
  <2>3. IF d > 0 THEN 0 <= q /\ q <= r ELSE -r <= q /\ q <= 0
    <3>1. CASE ~IsFinite(c)
      BY <1>7, <2>1, <2>2, <3>1
    <3>2. CASE IsFinite(c)
      <4>1. c >= 2 * Unit /\ c \in Nat /\ c > 0 /\ delta * Unit \in Int
        BY <1>1, <1>4, <1>6, <1>10, <3>2
      <4>2. r * c >= r * (2 * Unit)
        <5>1. r * (c - 2 * Unit) >= 0
          BY <1>1, <2>1, <2>2, <4>1
        <5> QED
          BY <1>1, <2>2, <4>1, <5>1
      <4>3. \A y : Representable(y) /\ IsFinite(y) =>
               (delta * Unit <= y * c => q <= y) /\ (delta * Unit >= y * c => q >= y)
        BY <1>7, <3>2, <4>1, ToFloatBounds
      <4>4. Representable(0) /\ IsFinite(0) /\ 0 * c = 0
        BY <4>1, ZeroIsRepresentable, ConstantsAreFloats
      <4>5. CASE d > 0
        <5>1. (2 * r - delta) * Unit >= 0 /\ delta * Unit >= 0
          BY <1>1, <1>4, <2>1, <2>2, <4>5
        <5>2. r * (2 * Unit) >= delta * Unit
          BY <1>1, <1>4, <2>2, <5>1
        <5>3. delta * Unit <= r * c
          BY <1>1, <1>4, <2>2, <4>1, <4>2, <5>2
        <5>4. q <= r /\ q >= 0
          BY <2>1, <4>3, <4>4, <5>1, <5>3
        <5> QED
          BY <1>4, <2>2, <4>5, <5>4
      <4>6. CASE ~(d > 0)
        <5>1. (delta + 2 * r) * Unit >= 0 /\ delta * Unit <= 0
          BY <1>1, <1>4, <2>1, <2>2, <4>6
        <5>2. -(r * (2 * Unit)) <= delta * Unit
          BY <1>1, <1>4, <2>2, <5>1
        <5>3. delta * Unit >= (-r) * c
          <6>1. (-r) * c = -(r * c)
            BY <2>2, <4>1
          <6> QED
            BY <1>1, <1>4, <2>2, <4>1, <4>2, <5>2, <6>1
        <5>4. Representable(-r) /\ IsFinite(-r)
          BY <1>1, <2>1, <2>2, NegativeIsRepresentable DEF IsFinite
        <5>5. q >= -r /\ q <= 0
          BY <4>3, <4>4, <5>1, <5>3, <5>4
        <5> QED
          BY <1>4, <2>2, <4>6, <5>5
      <4> QED
        BY <4>5, <4>6
    <3> QED
      BY <3>1, <3>2
  <2> QED
    BY <1>9, <1>10, <2>1, <2>3
\* The first value, and one that the mean already has.
<1>11. ASSUME n = 0 \/ d = 0
       PROVE  q = d
  <2>1. Representable(d) /\ IsFinite(d)
    <3>1. CASE d = 0
      BY <3>1, ZeroIsRepresentable, ConstantsAreFloats
    <3>2. CASE n = 0
      <4>1. d = x
        BY <1>1, <3>2 DEF d
      <4> QED
        BY <4>1, FiniteFloats
    <3> QED
      BY <1>11, <3>1, <3>2
  <2>2. delta = d
    <3>1. \A r : Representable(r) /\ IsFinite(r) => (d <= r * 1 => delta <= r) /\ (d >= r * 1 => delta >= r)
      BY <1>1, <1>2, ToFloatBounds
    <3>2. d <= d * 1 /\ d >= d * 1
      BY <1>1
    <3>3. delta <= d /\ delta >= d
      BY <2>1, <3>1, <3>2
    <3> QED
      BY <1>1, <1>4, <3>3
  <2>3. CASE d = 0
    <3>1. CASE IsFinite(c)
      <4>1. c \in Nat /\ c > 0 /\ delta * Unit = 0 /\ 0 * c = 0 /\ delta * Unit \in Int
        BY <1>1, <1>4, <1>6, <2>2, <2>3
      <4>2. \A y : Representable(y) /\ IsFinite(y) =>
               (delta * Unit <= y * c => q <= y) /\ (delta * Unit >= y * c => q >= y)
        BY <1>7, <3>1, <4>1, ToFloatBounds
      <4>3. q <= 0 /\ q >= 0
        BY <4>1, <4>2, ZeroIsRepresentable, ConstantsAreFloats
      <4> QED
        BY <1>4, <2>3, <4>3
    <3> QED
      BY <1>7, <2>3, <3>1
  <2>4. CASE n = 0
    <3>1. c = Unit
      <4>1. c = ToFloat(Unit, 1)
        BY <1>1, <2>4 DEF c, OfInt
      <4> QED
        BY <4>1, NumbersAssumption DEF IsNumber
    <3>2. IsFinite(c)
      BY <3>1, ConstantsAreFloats
    <3>3. q = ToFloat(d * Unit, Unit)
      BY <1>7, <2>2, <3>1, <3>2
    <3>4. \A y : Representable(y) /\ IsFinite(y) =>
             (d * Unit <= y * Unit => q <= y) /\ (d * Unit >= y * Unit => q >= y)
      <4>1. d * Unit \in Int
        BY <1>1
      <4> QED
        BY <1>1, <3>3, <4>1, ToFloatBounds
    <3>5. d * Unit <= d * Unit /\ d * Unit >= d * Unit
      BY <1>1
    <3>6. q <= d /\ q >= d
      BY <2>1, <3>4, <3>5
    <3> QED
      BY <1>1, <1>4, <3>6
  <2> QED
    BY <1>11, <2>3, <2>4
<1>12. ASSUME n = 0 \/ d = 0
       PROVE  next = x
  <2>1. q = d /\ m + q = x
    BY <1>1, <1>11, <1>12 DEF d
  <2>2. IsFinite(q)
    <3>1. CASE n = 0
      BY <1>1, <2>1, <3>1
    <3>2. CASE d = 0
      BY <2>1, <3>2, ConstantsAreFloats
    <3> QED
      BY <1>12, <3>1, <3>2
  <2>3. next <= x /\ next >= x
    BY <1>1, <1>8, <2>1, <2>2
  <2> QED
    BY <1>1, <1>8, <2>3
<1>13. /\ m <= x => m <= next /\ next <= x
       /\ x <= m => x <= next /\ next <= m
  <2>1. CASE n = 0 \/ d = 0
    BY <1>1, <1>12, <2>1
  <2>2. CASE n # 0 /\ d # 0
    BY <1>1, <1>10, <2>2 DEF d
  <2> QED
    BY <2>1, <2>2
<1>14. IsFinite(next)
  BY <1>1, <1>8, <1>13 DEF IsFinite
<1> QED
  BY <1>3, <1>12, <1>13, <1>14 DEF next, q, delta, c

-----------------------------------------------------------------------------
(* Shares of counts.                                                       *)

LEMMA NearestIntegerGrows ==
    ASSUME NEW p \in Int, NEW t \in Int, p <= t, NEW q \in Nat, q > 0
    PROVE  RoundedQuotient(p, q) <= RoundedQuotient(t, q)
<1> DEFINE b == p \div q
           u == p % q
           c == t \div q
           v == t % q
<1>1. b \in Int /\ u \in Int /\ p = b * q + u /\ 0 <= u /\ u < q
  OBVIOUS
<1>2. c \in Int /\ v \in Int /\ t = c * q + v /\ 0 <= v /\ v < q
  OBVIOUS
<1>3. RoundedQuotient(p, q) = IF 2 * u > q \/ (2 * u = q /\ b % 2 = 1) THEN b + 1 ELSE b
  BY DEF RoundedQuotient
<1>4. RoundedQuotient(t, q) = IF 2 * v > q \/ (2 * v = q /\ c % 2 = 1) THEN c + 1 ELSE c
  BY DEF RoundedQuotient
<1> HIDE DEF b, u, c, v
<1>5. b <= c
  <2>1. SUFFICES ASSUME c + 1 <= b PROVE FALSE
    BY <1>1, <1>2
  <2>2. (b - c - 1) * q >= 0
    BY <1>1, <1>2, <2>1
  <2>3. b * q >= c * q + q
    BY <1>1, <1>2, <2>2
  <2> QED
    BY <1>1, <1>2, <2>3
<1>6. CASE b = c
  <2>1. u <= v
    BY <1>1, <1>2, <1>6
  <2> QED
    BY <1>1, <1>2, <1>3, <1>4, <1>6, <2>1
<1>7. CASE b < c
  BY <1>1, <1>2, <1>3, <1>4, <1>7
<1> QED
  BY <1>1, <1>2, <1>5, <1>6, <1>7

\* The number of a larger integer is not smaller.
LEMMA RoundingGrows ==
    ASSUME NEW p \in Nat, NEW t \in Nat, p <= t
    PROVE  ToFloat(p, 1) <= ToFloat(t, 1)
<1>0. \A d \in Int : \E f \in Nat : /\ Spacing(d, 1) = 2 ^ f
                                    /\ Magnitude(d) < 1 * 2 ^ (Digits + f)
                                    /\ f > 0 => Magnitude(d) >= 1 * 2 ^ (Digits + f - 1)
  <2> TAKE d \in Int
  <2>1. 1 \in Nat /\ 1 > 0
    OBVIOUS
  <2> QED
    BY <2>1, SpacingFits, Zenon
<1>1. PICK f \in Nat : /\ Spacing(p, 1) = 2 ^ f
                       /\ Magnitude(p) < 1 * 2 ^ (Digits + f)
                       /\ f > 0 => Magnitude(p) >= 1 * 2 ^ (Digits + f - 1)
  BY <1>0
<1>2. PICK g \in Nat : /\ Spacing(t, 1) = 2 ^ g
                       /\ Magnitude(t) < 1 * 2 ^ (Digits + g)
                       /\ g > 0 => Magnitude(t) >= 1 * 2 ^ (Digits + g - 1)
  BY <1>0
<1>3. Magnitude(p) = p /\ Magnitude(t) = t /\ Digits \in Nat /\ Digits > 0 /\ Largest \in Nat
  BY FormatAssumption DEF Magnitude
<1> DEFINE x == NearestMultiple(p, 1, Spacing(p, 1))
           y == NearestMultiple(t, 1, Spacing(t, 1))
<1>4. x \in Int /\ \A r : Representable(r) => (p <= r * 1 => x <= r)
  <2>1. x \in Int
    BY RoundingIsMonotone, ZeroIsRepresentable
  <2>2. ASSUME NEW r, Representable(r) PROVE p <= r * 1 => x <= r
    BY <2>2, RoundingIsMonotone
  <2> QED
    BY <2>1, <2>2
<1>5. y \in Int /\ \A r : Representable(r) => (t >= r * 1 => y >= r)
  <2>1. y \in Int
    BY RoundingIsMonotone, ZeroIsRepresentable
  <2>2. ASSUME NEW r, Representable(r) PROVE t >= r * 1 => y >= r
    BY <2>2, RoundingIsMonotone
  <2> QED
    BY <2>1, <2>2
<1>6. ToFloat(p, 1) = Bounded(x) /\ ToFloat(t, 1) = Bounded(y)
  BY DEF ToFloat
<1>7. x <= y
  <2>1. CASE f = g
    <3>1. 2 ^ f \in Nat /\ 2 ^ f >= 1
      BY PowerOfTwo
    <3> DEFINE s == 2 ^ f
               k == RoundedQuotient(p, 1 * s)
               n == RoundedQuotient(t, 1 * s)
    <3>2. x = s * k /\ y = s * n
      BY <1>1, <1>2, <2>1 DEF NearestMultiple
    <3>3. s \in Nat /\ s > 0 /\ 1 * s = s
      BY <3>1
    <3> HIDE DEF s
    <3>4. k \in Int /\ n \in Int /\ k <= n
      BY <3>3, NearestInteger, NearestIntegerGrows
    <3> HIDE DEF k, n, x, y
    <3>5. (n - k) * s >= 0
      BY <3>3, <3>4
    <3> QED
      BY <3>2, <3>3, <3>4, <3>5
  <2>2. CASE f < g
    <3>1. Digits + g - 1 \in Nat /\ Digits + f \in Nat /\ Digits + f <= Digits + g - 1 /\ g - 1 \in Nat
          /\ Digits + (g - 1) = Digits + g - 1
      BY <1>3, <2>2
    <3>2. 2 ^ (Digits + f) <= 2 ^ (Digits + g - 1)
      BY <3>1, PowersGrow
    <3>3. 2 ^ (Digits + g - 1) \in Nat /\ 2 ^ (Digits + f) \in Nat /\ 2 ^ Digits \in Nat
      BY <1>3, <3>1, PowerOfTwo
    <3>4. 2 ^ (Digits + g - 1) = 2 ^ Digits * 2 ^ (g - 1)
      BY <1>3, <3>1, PowersMultiply
    <3> DEFINE b == 2 ^ (Digits + g - 1)
    <3>5. Representable(b)
      <4>1. 2 ^ Digits \in Int /\ -(2 ^ Digits) <= 2 ^ Digits /\ 2 ^ Digits <= 2 ^ Digits
        BY <3>3
      <4> QED
        BY <3>1, <3>4, <4>1 DEF Representable
    <3>6. b \in Nat /\ p <= b * 1 /\ t >= b * 1
      BY <1>1, <1>2, <1>3, <2>2, <3>2, <3>3
    <3> HIDE DEF b, x, y
    <3>7. x <= b /\ b <= y
      BY <1>4, <1>5, <3>5, <3>6
    <3> QED
      BY <1>4, <1>5, <3>6, <3>7
  <2>3. CASE f > g
    <3>1. Digits + f - 1 \in Nat /\ Digits + g \in Nat /\ Digits + g <= Digits + f - 1
      BY <1>3, <2>3
    <3>2. 2 ^ (Digits + g) <= 2 ^ (Digits + f - 1) /\ 2 ^ (Digits + g) \in Nat /\ 2 ^ (Digits + f - 1) \in Nat
      BY <3>1, PowersGrow, PowerOfTwo
    <3> QED
      BY <1>1, <1>2, <1>3, <2>3, <3>2
  <2> QED
    BY <2>1, <2>2, <2>3
<1> HIDE DEF x, y
<1> QED
  BY <1>3, <1>4, <1>5, <1>6, <1>7 DEF Bounded, Inf, NegInf

\* A part of a count divided by the whole is between 0 and 1.
LEMMA ShareOfCount ==
    ASSUME NEW n \in Nat, NEW k \in Nat, k <= n, n # 0, n <= 2 * MaxCount
    PROVE  0 <= FDiv(OfInt(k), OfInt(n)) /\ FDiv(OfInt(k), OfInt(n)) <= Unit
<1> DEFINE a == OfInt(k)
           b == OfInt(n)
<1>1. Unit \in Nat /\ Unit > 0 /\ Largest \in Nat /\ MaxCount \in Nat /\ 2 * MaxCount * Unit <= Largest
  BY FormatAssumption
<1>2. k * Unit \in Nat /\ n * Unit \in Nat /\ k * Unit <= n * Unit
  <2>1. (n - k) * Unit >= 0
    BY <1>1
  <2> QED
    BY <1>1, <2>1
<1>3. a <= b
  BY <1>2, RoundingGrows DEF OfInt
<1>4. a \in Int /\ a >= 0 /\ b \in Int /\ b >= Unit
  BY CountBounds
<1>5. b <= Largest
  <2>1. n * Unit <= Largest * 1
    <3>1. (2 * MaxCount - n) * Unit >= 0
      BY <1>1
    <3> QED
      BY <1>1, <3>1
  <2>2. Representable(Largest) /\ IsFinite(Largest)
    BY ConstantsAreFloats, FiniteFloats
  <2> QED
    BY <1>2, <2>1, <2>2, ToFloatBounds DEF OfInt
<1> HIDE DEF a, b
<1>6. IsFinite(a) /\ IsFinite(b) /\ a # NaN /\ b # NaN /\ b > 0 /\ b # 0
  BY <1>1, <1>3, <1>4, <1>5 DEF IsFinite, NaN
<1>7. FDiv(a, b) = ToFloat(a * Unit, b)
  BY <1>6 DEF FDiv
<1>8. \A r : Representable(r) /\ IsFinite(r) =>
         (a * Unit <= r * b => FDiv(a, b) <= r) /\ (a * Unit >= r * b => FDiv(a, b) >= r)
  <2>1. a * Unit \in Int /\ b \in Nat
    BY <1>1, <1>4
  <2> QED
    BY <1>6, <1>7, <2>1, ToFloatBounds
<1>9. a * Unit <= Unit * b /\ a * Unit >= 0 * b
  <2>1. (b - a) * Unit >= 0 /\ a * Unit >= 0
    BY <1>1, <1>3, <1>4
  <2> QED
    BY <1>1, <1>4, <2>1
<1>10. Representable(0) /\ Representable(Unit) /\ IsFinite(0) /\ IsFinite(Unit)
  BY ConstantsAreFloats, FiniteFloats
<1> QED
  BY <1>8, <1>9, <1>10 DEF a, b

-----------------------------------------------------------------------------
(* Numbers that statistics keep.                                           *)

\* A finite value of f64.
FiniteFloat(x) == x \in Floats /\ IsFinite(x)

LEMMA FiniteIsInteger == \A x : FiniteFloat(x) => x \in Int
BY FiniteFloats DEF FiniteFloat

LEMMA ZeroIsFinite == FiniteFloat(0) /\ FiniteFloat(Unit)
BY ConstantsAreFloats DEF FiniteFloat

\* A finite sum has finite terms, and a finite square a finite root.
LEMMA FiniteSum ==
    ASSUME NEW a \in Floats, NEW b \in Floats, IsFinite(FAdd(a, b))
    PROVE  IsFinite(a) /\ IsFinite(b)
<1>1. Largest \in Nat /\ a \in Int /\ b \in Int
  BY FormatAssumption, FiniteFloats
<1>2. ~IsFinite(NaN)
  BY <1>1 DEF IsFinite, NaN
<1> QED
  BY <1>2 DEF FAdd

LEMMA FiniteSquare ==
    ASSUME NEW a \in Floats, IsFinite(FMul(a, a))
    PROVE  IsFinite(a)
<1>1. Largest \in Nat /\ a \in Int
  BY FormatAssumption, FiniteFloats
<1>2. ~IsFinite(NaN) /\ ~IsFinite(Inf) /\ ~IsFinite(NegInf)
  BY <1>1 DEF IsFinite, NaN, Inf, NegInf
<1> QED
  BY <1>2 DEF FMul, Infinite

LEMMA ClippingIsFinite ==
    ASSUME NEW a, NEW b, FiniteFloat(a), FiniteFloat(b)
    PROVE  FiniteFloat(Lower(a, b)) /\ FiniteFloat(Higher(a, b))
BY DEF Lower, Higher

\* Some value is at most m, and some value at least.
Spans(m, W) == \E a, b \in W : a <= m /\ m <= b

MeanHolds(d, W) ==
    /\ d.count \in Nat /\ FiniteFloat(d.mean)
    /\ \A v \in W : FiniteFloat(v)
    /\ IF d.count = 0 THEN d.mean = 0 ELSE Spans(d.mean, W)

\* A mean that takes a value lies between the values it took.
LEMMA MeanTakes ==
    ASSUME NEW W, NEW d, MeanHolds(d, W), NEW x, FiniteFloat(x)
    PROVE  \/ ~MeanUpdate(d, x).ok /\ MeanUpdate(d, x).state = d
           \/ /\ MeanUpdate(d, x).ok /\ MeanUpdate(d, x).state.count # 0
              /\ MeanHolds(MeanUpdate(d, x).state, W \cup {x})
<1> DEFINE next == NextMean(d, x)
           s == [count |-> d.count + 1, mean |-> next]
<1>1. CASE ~MeanUpdate(d, x).ok
  BY <1>1 DEF MeanUpdate, Done, Refused
<1>2. CASE MeanUpdate(d, x).ok
  <2>1. IsFinite(FSub(x, d.mean)) /\ MeanUpdate(d, x).state = s
    BY <1>2 DEF MeanUpdate, Done, Refused
  <2>2. /\ d.count \in Nat /\ d.mean \in Floats /\ IsFinite(d.mean) /\ x \in Floats /\ IsFinite(x)
        /\ d.count = 0 => d.mean = 0
    BY DEF MeanHolds, FiniteFloat
  <2>3. /\ next \in Floats /\ IsFinite(next)
        /\ d.count = 0 => next = x
        /\ d.mean <= x => d.mean <= next /\ next <= x
        /\ x <= d.mean => x <= next /\ next <= d.mean
    BY <2>1, <2>2, MeanMoves DEF NextMean
  <2>4. d.mean \in Int /\ x \in Int /\ next \in Int
    BY <2>2, <2>3, FiniteFloats
  <2> HIDE DEF next
  <2>5. Spans(next, W \cup {x})
    <3>1. CASE d.count = 0
      <4>1. next = x
        BY <2>3, <3>1
      <4> QED
        BY <2>4, <4>1 DEF Spans
    <3>2. CASE d.count # 0
      <4>1. PICK a \in W, b \in W : a <= d.mean /\ d.mean <= b
        BY <3>2 DEF MeanHolds, Spans
      <4>2. a \in Int /\ b \in Int
        BY FiniteIsInteger DEF MeanHolds
      <4>3. CASE d.mean <= x
        <5>1. a <= next /\ next <= x
          BY <2>3, <2>4, <4>1, <4>2, <4>3
        <5> QED
          BY <5>1 DEF Spans
      <4>4. CASE x <= d.mean
        <5>1. x <= next /\ next <= b
          BY <2>3, <2>4, <4>1, <4>2, <4>4
        <5> QED
          BY <5>1 DEF Spans
      <4> QED
        BY <2>4, <4>3, <4>4
    <3> QED
      BY <3>1, <3>2
  <2>6. s.count = d.count + 1 /\ s.mean = next /\ d.count + 1 \in Nat /\ d.count + 1 # 0
    BY <2>2
  <2>7. MeanHolds(s, W \cup {x})
    BY <2>3, <2>5, <2>6 DEF MeanHolds, FiniteFloat
  <2> QED
    BY <1>2, <2>1, <2>6, <2>7
<1> QED
  BY <1>1, <1>2

LEMMA NewMeanHolds == MeanHolds(NewMean, {})
BY ZeroIsFinite DEF MeanHolds, NewMean

-----------------------------------------------------------------------------
(* Welford's variance.                                                     *)

VarianceHolds(d) ==
    /\ d.count \in Nat /\ FiniteFloat(d.mean) /\ FiniteFloat(d.m2) /\ d.m2 >= 0
    /\ d.count = 0 => d.mean = 0
    /\ d.count <= 1 => d.m2 = 0

LEMMA NewVarianceHolds == VarianceHolds(NewVariance)
BY ZeroIsFinite DEF VarianceHolds, NewVariance

\* The distances before and after a step have one sign: the sum of squares does
\* not shrink.
LEMMA VarianceTakes ==
    ASSUME NEW d, VarianceHolds(d), NEW x \in Floats
    PROVE  \/ ~VarianceUpdate(d, x).ok /\ VarianceUpdate(d, x).state = d
           \/ /\ VarianceUpdate(d, x).ok /\ IsFinite(x)
              /\ VarianceHolds(VarianceUpdate(d, x).state)
              /\ VarianceUpdate(d, x).state.count = d.count + 1
<1> DEFINE next == NextMean(d, x)
           before == FSub(x, d.mean)
           after == FSub(x, next)
           m2 == FAdd(d.m2, FMul(before, after))
           s == [count |-> d.count + 1, mean |-> next, m2 |-> m2]
<1>1. CASE ~VarianceUpdate(d, x).ok
  BY <1>1 DEF VarianceUpdate, Done, Refused
<1>2. CASE VarianceUpdate(d, x).ok
  <2>1. /\ IsFinite(x) /\ IsFinite(before) /\ IsFinite(after) /\ IsFinite(m2)
        /\ VarianceUpdate(d, x).state = s
    BY <1>2 DEF VarianceUpdate, Done, Refused
  <2>2. /\ d.count \in Nat /\ d.mean \in Floats /\ IsFinite(d.mean)
        /\ d.m2 \in Floats /\ IsFinite(d.m2) /\ d.m2 >= 0
        /\ d.count = 0 => d.mean = 0
        /\ d.count <= 1 => d.m2 = 0
    BY DEF VarianceHolds, FiniteFloat
  <2>3. /\ next \in Floats /\ IsFinite(next)
        /\ d.count = 0 => next = x
        /\ d.mean <= x => d.mean <= next /\ next <= x
        /\ x <= d.mean => x <= next /\ next <= d.mean
    BY <2>1, <2>2, MeanMoves DEF NextMean
  <2>4. before \in Floats /\ after \in Floats
    BY <2>2, <2>3, DifferenceIsFloat
  <2>5. FMul(before, after) \in Floats /\ m2 \in Floats
    BY <2>2, <2>4, ProductIsFloat, SumIsFloat
  <2>6. d.mean \in Int /\ x \in Int /\ next \in Int /\ before \in Int /\ after \in Int
    BY <2>2, <2>3, <2>4, FiniteFloats
  <2>7. /\ x - d.mean >= 0 => before >= 0
        /\ x - d.mean <= 0 => before <= 0
        /\ x - next >= 0 => after >= 0
        /\ x - next <= 0 => after <= 0
    BY <2>1, <2>2, <2>3, ZeroIsFinite, DifferenceBounds DEF FiniteFloat
  <2> HIDE DEF next
  <2>8. before * after >= 0
    <3> HIDE DEF before, after
    <3>1. (before >= 0 /\ after >= 0) \/ (before <= 0 /\ after <= 0)
      BY <2>3, <2>6, <2>7
    <3> QED
      BY <2>6, <3>1
  <2> DEFINE p == FMul(before, after)
  <2> HIDE DEF before, after
  <2>9. p >= 0
    BY <2>1, <2>4, <2>8, ProductSign
  <2>10. IsFinite(p)
    BY <2>1, <2>2, <2>5, FiniteSum
  <2> HIDE DEF p
  <2>11. m2 >= 0
    BY <2>2, <2>5, <2>9, <2>10, SumSign DEF p
  <2>12. d.count = 0 => m2 = 0
    <3> SUFFICES ASSUME d.count = 0 PROVE m2 = 0
      OBVIOUS
    <3>1. x - next = 0 /\ after = 0
      BY <2>3, <2>6, <2>7
    <3>2. before * 0 = 0 /\ Unit \in Nat /\ Unit > 0
      BY <2>6, FormatAssumption
    <3>3. p = ToFloat(0, Unit)
      BY <2>1, <3>1, <3>2 DEF p, FMul
    <3>4. \A r : Representable(r) /\ IsFinite(r) =>
             (0 <= r * Unit => p <= r) /\ (0 >= r * Unit => p >= r)
      BY <3>2, <3>3, ToFloatBounds
    <3>5. p \in Int /\ 0 <= 0 * Unit /\ 0 >= 0 * Unit
      BY <2>5, <3>2, FiniteFloats DEF p
    <3>6. p = 0
      <4>1. p <= 0 /\ p >= 0
        BY <3>4, <3>5, ZeroIsRepresentable, ConstantsAreFloats
      <4> QED
        BY <3>5, <4>1
    <3>7. m2 \in Int /\ m2 <= 0 /\ m2 >= 0
      <4>1. d.m2 = 0 /\ FMul(before, after) = 0 /\ 0 + 0 <= 0 /\ 0 + 0 >= 0
        BY <2>2, <3>6 DEF p
      <4> QED
        BY <4>1, ConstantsAreFloats, SumBounds
    <3> QED
      BY <3>7
  <2> HIDE DEF m2
  <2>13. s.count = d.count + 1 /\ s.mean = next /\ s.m2 = m2
    OBVIOUS
  <2>14. VarianceHolds(s)
    BY <2>1, <2>2, <2>3, <2>5, <2>11, <2>12, <2>13 DEF VarianceHolds, FiniteFloat, m2, p
  <2> QED
    BY <1>2, <2>1, <2>13, <2>14
<1> QED
  BY <1>1, <1>2

-----------------------------------------------------------------------------
(* Square roots and checked sums.                                          *)

\* One more bit of the root of a.
RootStep(a, above, k) ==
    IF (above + 2 ^ (15 - k)) * (above + 2 ^ (15 - k)) <= a * Unit
    THEN above + 2 ^ (15 - k) ELSE above

Rooting(f, a) == f = [k \in 0..15 |-> IF k = 0 THEN 0 ELSE RootStep(a, f[k - 1], k)]

LEMMA RootingExists ==
    ASSUME NEW a \in Int
    PROVE  \E f \in [0..15 -> Nat] : Rooting(f, a)
<1> DEFINE F == [p \in Nat \X (1..15) |-> RootStep(a, p[1], p[2])]
<1>1. \A v \in Nat, k \in 1..15 : RootStep(a, v, k) \in Nat
  <2> SUFFICES ASSUME NEW v \in Nat, NEW k \in 1..15
               PROVE  RootStep(a, v, k) \in Nat
    OBVIOUS
  <2>1. 15 - k \in Nat
    OBVIOUS
  <2>2. 2 ^ (15 - k) \in Nat
    BY <2>1, PowerOfTwo
  <2> QED
    BY <2>2 DEF RootStep
<1>2. F \in [Nat \X (1..15) -> Nat]
  BY <1>1
<1>3. \A v \in Nat, k \in 1..15 : F[v, k] = RootStep(a, v, k)
  OBVIOUS
<1> HIDE DEF F
<1>4. PICK f \in [0..15 -> Nat] : Recursion(f, 0, F, 15)
  BY <1>2, RecursionExists
<1>5. f = [k \in 0..15 |-> IF k = 0 THEN 0 ELSE F[f[k - 1], k]]
  BY <1>4 DEF Recursion
<1>6. \A k \in 0..15 : (IF k = 0 THEN 0 ELSE F[f[k - 1], k]) = IF k = 0 THEN 0 ELSE RootStep(a, f[k - 1], k)
  <2> SUFFICES ASSUME NEW k \in 0..15, k # 0
               PROVE  F[f[k - 1], k] = RootStep(a, f[k - 1], k)
    OBVIOUS
  <2>1. k - 1 \in 0..15 /\ k \in 1..15
    OBVIOUS
  <2> QED
    BY <1>3, <2>1
<1> QED
  BY <1>5, <1>6 DEF Rooting

\* A square root is a whole number whose square is not above what it is of, and
\* at least the smallest number if that is positive.
LEMMA RootHolds ==
    ASSUME NEW a \in Int
    PROVE  /\ FSqrt(a) \in Int
           /\ IsFinite(a) /\ a >= 0 => FSqrt(a) >= 0 /\ FSqrt(a) * FSqrt(a) <= a * Unit
           /\ IsFinite(a) /\ a > 0 => FSqrt(a) >= 1
<1> DEFINE f == CHOOSE g : Rooting(g, a)
<1>1. FSqrt(a) = IF ~IsFinite(a) THEN a ELSE IF a < 0 THEN NaN ELSE f[15]
  BY DEF FSqrt, Rooting, RootStep
<1>2. Rooting(f, a)
  BY RootingExists
<1> HIDE DEF f
<1>3. Unit \in Nat /\ Unit > 0 /\ Largest \in Nat /\ NaN \in Int
  BY FormatAssumption DEF NaN
<1>4. CASE a >= 0 /\ IsFinite(a)
  <2>1. a * Unit \in Nat
    BY <1>3, <1>4
  <2> DEFINE Root(k) == f[k] \in Nat /\ f[k] * f[k] <= a * Unit
  <2> DEFINE T == {k \in Nat : k <= 15 => Root(k)}
  <2>2. f[0] = 0 /\ \A k \in 1..15 : f[k] = RootStep(a, f[k - 1], k)
    BY <1>2 DEF Rooting
  <2>3. 0 \in T
    BY <2>1, <2>2
  <2>4. ASSUME NEW k \in T
        PROVE  k + 1 \in T
    <3> SUFFICES ASSUME k + 1 <= 15
                 PROVE  Root(k + 1)
      OBVIOUS
    <3>1. k \in Nat /\ Root(k) /\ k + 1 \in 1..15 /\ (k + 1) - 1 = k /\ 15 - (k + 1) \in Nat
      BY <2>4
    <3>2. f[k + 1] = RootStep(a, f[k], k + 1)
      BY <2>2, <3>1
    <3>3. 2 ^ (15 - (k + 1)) \in Nat
      BY <3>1, PowerOfTwo
    <3> QED
      BY <3>1, <3>2, <3>3 DEF RootStep
  <2>5. T = Nat
    <3>1. T \in SUBSET Nat
      OBVIOUS
    <3> HIDE DEF T
    <3> QED
      BY <2>3, <2>4, <3>1, Induction
  <2>6. Root(14) /\ Root(15)
    BY <2>5
  <2>7. f[15] = RootStep(a, f[14], 15)
    BY <2>2
  <2>8. 2 ^ (15 - 15) = 1
    BY PowerOfTwo
  <2>9. a > 0 => f[15] >= 1
    <3> SUFFICES ASSUME a > 0
                 PROVE  f[15] >= 1
      OBVIOUS
    <3>1. a * Unit >= 1
      <4>1. (a - 1) * Unit >= 0 /\ a * Unit = (a - 1) * Unit + Unit
        BY <1>3
      <4> QED
        BY <1>3, <2>1, <4>1
    <3>2. CASE f[14] = 0
      <4>1. (0 + 1) * (0 + 1) <= a * Unit
        BY <3>1
      <4> QED
        BY <2>7, <2>8, <3>2, <4>1 DEF RootStep
    <3>3. CASE f[14] # 0
      BY <2>6, <2>7, <2>8, <3>3 DEF RootStep
    <3> QED
      BY <3>2, <3>3
  <2> QED
    BY <1>1, <1>4, <2>6, <2>9
<1>5. CASE ~(a >= 0 /\ IsFinite(a))
  BY <1>1, <1>3, <1>5
<1> QED
  BY <1>4, <1>5

Summing(f, t, n) == f = [k \in 0..n |-> IF k = 0 THEN 0 ELSE CheckedAdd(f[k - 1], t[k])]

\* A checked sum stays in a set of values that no term leads out of.
LEMMA CheckedSumIn ==
    ASSUME NEW n \in Nat, NEW t, DOMAIN t = 1..n, NEW V, 0 \in V,
           \A v \in V, k \in 1..n : CheckedAdd(v, t[k]) \in V
    PROVE  CheckedSum(t) \in V
<1> DEFINE f == CHOOSE g : Summing(g, t, n)
<1>1. Cardinality(DOMAIN t) = n
  BY FS_Interval
<1>2. CheckedSum(t) = f[n]
  BY <1>1 DEF CheckedSum, Summing
<1>3. \E g : Summing(g, t, n)
  <2> DEFINE F == [p \in V \X (1..n) |-> CheckedAdd(p[1], t[p[2]])]
  <2>1. F \in [V \X (1..n) -> V] /\ \A v \in V, k \in 1..n : F[v, k] = CheckedAdd(v, t[k])
    OBVIOUS
  <2> HIDE DEF F
  <2>2. PICK g \in [0..n -> V] : Recursion(g, 0, F, n)
    BY <2>1, RecursionExists
  <2>3. g = [k \in 0..n |-> IF k = 0 THEN 0 ELSE F[g[k - 1], k]]
    BY <2>2 DEF Recursion
  <2>4. \A k \in 0..n : (IF k = 0 THEN 0 ELSE F[g[k - 1], k])
                           = IF k = 0 THEN 0 ELSE CheckedAdd(g[k - 1], t[k])
    <3> SUFFICES ASSUME NEW k \in 0..n, k # 0
                 PROVE  F[g[k - 1], k] = CheckedAdd(g[k - 1], t[k])
      OBVIOUS
    <3>1. k - 1 \in 0..n /\ k \in 1..n
      OBVIOUS
    <3> QED
      BY <2>1, <3>1
  <2> QED
    BY <2>3, <2>4 DEF Summing
<1>4. Summing(f, t, n)
  BY <1>3
<1> HIDE DEF f
<1>5. f[0] = 0 /\ \A k \in 1..n : f[k] = CheckedAdd(f[k - 1], t[k])
  BY <1>4 DEF Summing
<1>6. \A k \in 0..n : f[k] \in V
  BY <1>5, RecursionStays
<1> QED
  BY <1>2, <1>6

LEMMA CheckedSumIsFloat ==
    ASSUME NEW n \in Nat, NEW t, DOMAIN t = 1..n, \A k \in 1..n : t[k] \in Floats
    PROVE  CheckedSum(t) \in Floats
<1>1. 0 \in Floats
  BY ConstantsAreFloats
<1>2. ASSUME NEW v \in Floats, NEW k \in 1..n
      PROVE  CheckedAdd(v, t[k]) \in Floats
  BY SumIsFloat, InfinitiesAreFloats DEF CheckedAdd, OrNaN
<1> HIDE DEF Floats
<1> QED
  BY <1>1, <1>2, CheckedSumIn

LEMMA SumOfZeros ==
    ASSUME NEW n \in Nat, NEW t, DOMAIN t = 1..n, \A k \in 1..n : t[k] = 0
    PROVE  CheckedSum(t) = 0
<1>1. FAdd(0, 0) = 0
  <2>1. 0 \in Floats /\ IsFinite(0)
    BY ConstantsAreFloats
  <2> QED
    BY <2>1, SumBounds
<1>2. \A v \in {0}, k \in 1..n : CheckedAdd(v, t[k]) \in {0}
  BY <1>1, ConstantsAreFloats DEF CheckedAdd, OrNaN
<1>3. CheckedSum(t) \in {0}
  BY <1>2, CheckedSumIn
<1> QED
  BY <1>3
=============================================================================
