----------------------------- MODULE P2Quantile -----------------------------
(***************************************************************************)
(* P2Quantile and P2Quantiles (src/stats/quantile.rs): the P-square        *)
(* estimate of a quantile from five markers. The first five values are     *)
(* kept; after that a value moves the markers, each towards the position   *)
(* it should have. An update works on a clone that an error drops.         *)
(***************************************************************************)
EXTENDS SmallFloat

NewP2 ==
    [samples |-> 0, initial |-> <<>>, heights |-> <<0, 0, 0, 0, 0>>,
     positions |-> <<0, 0, 0, 0, 0>>, desired |-> <<0, 0, 0, 0, 0>>]

\* desired_increments
Increments(q) == <<0, FDiv(q, 2 * Unit), q, FDiv(FAdd(Unit, q), 2 * Unit), Unit>>

InitialDesired(q) ==
    <<Unit, FAdd(Unit, FMul(2 * Unit, q)), FAdd(Unit, FMul(4 * Unit, q)),
      FAdd(3 * Unit, FMul(2 * Unit, q)), 5 * Unit>>

\* The fifth value makes markers of the five.
Bootstrapped(q, s, x) ==
    LET kept == Append(s.initial, x)
        sorted == Sorted(kept)
    IN  IF s.samples + 1 < 5 THEN [s EXCEPT !.samples = @ + 1, !.initial = kept]
        ELSE [samples |-> 5, initial |-> sorted, heights |-> sorted,
              positions |-> <<1, 2, 3, 4, 5>>, desired |-> InitialDesired(q)]

\* The last marker that a value does not move up; the ends follow extremes.
MarkerCell(s, x) ==
    LET reached == {i \in 2..4 : x >= s.heights[i]}
    IN  IF reached = {} THEN 1 ELSE CHOOSE i \in reached : \A j \in reached : j <= i

MarkersCounted(q, s, x) ==
    [s EXCEPT
        !.samples = @ + 1,
        !.heights = [@ EXCEPT ![1] = Lower(@, x), ![5] = Higher(@, x)],
        !.positions = [i \in 1..5 |-> IF i > MarkerCell(s, x) THEN @[i] + 1 ELSE @[i]],
        !.desired = [i \in 1..5 |-> FAdd(@[i], Increments(q)[i])]]

\* parabolic_candidate
Parabolic(s, i, d) ==
    LET n == s.positions
        h == s.heights
        left  == FDiv(FMul(OfInt(n[i] - n[i - 1] + d), FSub(h[i + 1], h[i])), OfInt(n[i + 1] - n[i]))
        right == FDiv(FMul(OfInt(n[i + 1] - n[i] - d), FSub(h[i], h[i - 1])), OfInt(n[i] - n[i - 1]))
    IN  FAdd(h[i], FDiv(FMul(d * Unit, FAdd(left, right)), OfInt(n[i + 1] - n[i - 1])))

\* linear_candidate
Linear(s, i, d) ==
    FAdd(s.heights[i],
         FDiv(FMul(d * Unit, FSub(s.heights[i + d], s.heights[i])),
              OfInt(s.positions[i + d] - s.positions[i])))

\* The parabola is used if it stays between the neighbours.
NextHeight(s, i, d) ==
    LET h == Parabolic(s, i, d)
    IN  IF ~IsFinite(h) \/ (s.heights[i - 1] < h /\ h < s.heights[i + 1]) THEN h
        ELSE Linear(s, i, d)

\* Defect: a marker moves onto the position of the next one.
MovesUpCrowded(s, i) == FSub(s.desired[i], OfInt(s.positions[i])) >= Unit

MovesUp(s, i) ==
    /\ FSub(s.desired[i], OfInt(s.positions[i])) >= Unit
    /\ s.positions[i + 1] - s.positions[i] > 1

MovesDown(s, i) ==
    /\ FSub(s.desired[i], OfInt(s.positions[i])) <= -Unit
    /\ s.positions[i] - s.positions[i - 1] > 1

\* One of the inner markers moves by at most one; an infinite height ends the
\* update.
Moved(r, i) ==
    LET s == r.state
        d == IF MovesUp(s, i) THEN 1 ELSE -1
        h == NextHeight(s, i, d)
    IN  IF ~r.ok \/ ~(MovesUp(s, i) \/ MovesDown(s, i)) THEN r
        ELSE [ok |-> IsFinite(h),
              state |-> [s EXCEPT !.heights[i] = h, !.positions[i] = @ + d]]

\* update_inner
P2Inner(q, s, x) ==
    IF ~IsFinite(x) \/ ~CanCount(s.samples) THEN Refused(s)
    ELSE IF s.samples < 5 THEN Done(Bootstrapped(q, s, x))
    ELSE LET counted == MarkersCounted(q, s, x)
         IN  IF \A i \in 1..5 : IsFinite(counted.desired[i])
             THEN FoldLeft(Moved, Done(counted), <<2, 3, 4>>)
             ELSE Refused(s)

P2Update(q, s, x) == IF P2Inner(q, s, x).ok THEN P2Inner(q, s, x) ELSE Refused(s)

\* exact_linear_quantile, for the values kept until there are five.
ExactQuantile(sorted, q) ==
    LET position == FMul(OfInt(Len(sorted) - 1), q)
        lower    == position \div Unit
        weight   == FSub(position, OfInt(lower))
    IN  IF weight = 0 THEN sorted[lower + 1]
        ELSE FAdd(sorted[lower + 1], FMul(weight, FSub(sorted[lower + 2], sorted[lower + 1])))

P2Value(q, s) ==
    IF s.samples = 0 THEN NoValue
    ELSE IF s.samples < 5 THEN ExactQuantile(Sorted(s.initial), q)
    ELSE s.heights[3]

\* validate_state. The desired positions are compared with what the number of
\* samples says they should be.
Ordered(values) == \A i \in 1..4 : values[i] <= values[i + 1]

DesiredMatchesCount(q, s) ==
    \A i \in 1..5 :
        Close(s.desired[i],
              FAdd(InitialDesired(q)[i], FMul(OfInt(s.samples - 5), Increments(q)[i])))

P2IsValid(q, s) ==
    IF s.samples < 5
    THEN /\ Len(s.initial) = s.samples
         /\ \A i \in DOMAIN s.initial : IsFinite(s.initial[i])
         /\ \A field \in {s.heights, s.positions, s.desired} : field = <<0, 0, 0, 0, 0>>
    ELSE /\ Len(s.initial) = 5 /\ Ordered(s.initial)
         /\ \A i \in 1..5 : IsFinite(s.initial[i]) /\ IsFinite(s.heights[i]) /\ IsFinite(s.desired[i])
         /\ s.positions[1] = 1 /\ s.positions[5] = s.samples
         /\ \A i \in 1..4 : s.positions[i] < s.positions[i + 1]
         /\ Ordered(s.heights) /\ Ordered(s.desired)
         /\ DesiredMatchesCount(q, s)

-----------------------------------------------------------------------------
(* P2Quantiles: one estimator for each of several quantiles, all updated   *)
(* or none.                                                                *)

NewP2s(Q) == [q \in Q |-> NewP2]

P2sUpdate(m, x) ==
    IF \A q \in DOMAIN m : P2Update(q, m[q], x).ok
    THEN Done([q \in DOMAIN m |-> P2Update(q, m[q], x).state])
    ELSE Refused(m)

P2sIsValid(m) ==
    /\ \A q \in DOMAIN m : P2IsValid(q, m[q])
    /\ \A q, r \in DOMAIN m : m[q].samples = m[r].samples
=============================================================================
