-------------------------- MODULE OnlineStatistics --------------------------
(***************************************************************************)
(* The statistics of src/stats over a stream of numbers. Each is a record  *)
(* and a function that takes one value into it; a refused value leaves the *)
(* record as it was.                                                       *)
(***************************************************************************)
EXTENDS SmallFloat

CONSTANTS
    EwAlpha,                 \* ExponentiallyWeightedMean.alpha
    Capacity,                \* of the rolling windows
    MinWindow,               \* min_samples of RollingMedianMad
    ClipLower, ClipUpper     \* ClippedMean

ASSUME StatisticsAssumption ==
    /\ EwAlpha \in Floats /\ 0 < EwAlpha /\ EwAlpha <= Unit
    /\ Capacity \in Nat \ {0} /\ MinWindow \in 1..Capacity
    /\ {ClipLower, ClipUpper} \subseteq Floats
    /\ IsFinite(ClipLower) /\ IsFinite(ClipUpper) /\ ClipLower <= ClipUpper

-----------------------------------------------------------------------------
(* Sums, means and variances                                               *)

NewSum == [count |-> 0, sum |-> 0]

SumUpdate(s, x) ==
    LET sum == FAdd(s.sum, x)
    IN  IF IsFinite(x) /\ IsFinite(sum) /\ CanCount(s.count)
        THEN Done([count |-> s.count + 1, sum |-> sum])
        ELSE Refused(s)

NewMean == [count |-> 0, mean |-> 0]

\* The mean after one more value: mean + (x - mean) / count.
NextMean(s, x) == FAdd(s.mean, FDiv(FSub(x, s.mean), OfInt(s.count + 1)))

MeanUpdate(s, x) ==
    IF /\ IsFinite(x) /\ CanCount(s.count)
       /\ IsFinite(FSub(x, s.mean)) /\ IsFinite(NextMean(s, x))
    THEN Done([count |-> s.count + 1, mean |-> NextMean(s, x)])
    ELSE Refused(s)

MeanIsValid(s) == IsFinite(s.mean)

NewVariance == [count |-> 0, mean |-> 0, m2 |-> 0]

\* Welford's update.
VarianceUpdate(s, x) ==
    LET before == FSub(x, s.mean)
        after  == FSub(x, NextMean(s, x))
        m2     == FAdd(s.m2, FMul(before, after))
    IN  IF /\ IsFinite(x) /\ CanCount(s.count)
           /\ \A y \in {before, NextMean(s, x), after, m2} : IsFinite(y)
        THEN Done([count |-> s.count + 1, mean |-> NextMean(s, x), m2 |-> m2])
        ELSE Refused(s)

\* VarianceKind::denominator, 0 for None.
Denominator(kind, n) == IF kind = "population" THEN n ELSE Higher(n - 1, 0)

VarianceValue(kind, s) ==
    IF Denominator(kind, s.count) = 0 THEN NoValue
    ELSE FDiv(s.m2, OfInt(Denominator(kind, s.count)))

VarianceIsValid(s) == IsFinite(s.mean) /\ IsFinite(s.m2) /\ s.m2 >= 0

NewExtremum == [count |-> 0, current |-> NoValue]

\* Min and Max: Pick is Lower or Higher.
ExtremumUpdate(Pick(_, _), s, x) ==
    IF IsFinite(x) /\ CanCount(s.count)
    THEN Done([count |-> s.count + 1,
               current |-> IF s.current = NoValue THEN x ELSE Pick(s.current, x)])
    ELSE Refused(s)

MinUpdate(s, x) == ExtremumUpdate(Lower, s, x)
MaxUpdate(s, x) == ExtremumUpdate(Higher, s, x)

EwMeanUpdate(s, x) ==
    LET mean == IF s.count = 0 THEN x
                ELSE FAdd(FMul(EwAlpha, x), FMul(FSub(Unit, EwAlpha), s.mean))
    IN  IF IsFinite(x) /\ CanCount(s.count) /\ IsFinite(mean)
        THEN Done([count |-> s.count + 1, mean |-> mean])
        ELSE Refused(s)

-----------------------------------------------------------------------------
(* Rolling windows                                                         *)

\* The oldest value makes room for the newest.
Pushed(window, x, capacity) ==
    Append(IF Len(window) = capacity THEN Tail(window) ELSE window, x)

RollingUpdate(window, x) ==
    IF IsFinite(x) THEN Done(Pushed(window, x, Capacity)) ELSE Refused(window)

\* A window whose sum overflows has no mean.
RollingMeanValue(window) ==
    IF window = <<>> \/ ~IsFinite(FSum(window)) THEN NoValue
    ELSE FDiv(FSum(window), OfInt(Len(window)))

RollingVarianceValue(kind, window) ==
    LET mean == RollingMeanValue(window)
        squares == FSum([i \in DOMAIN window |->
                            FMul(FSub(window[i], mean), FSub(window[i], mean))])
    IN  IF \/ Denominator(kind, Len(window)) = 0
           \/ mean = NoValue \/ ~IsFinite(squares)
        THEN NoValue
        ELSE FDiv(squares, OfInt(Denominator(kind, Len(window))))

NewMedianMad == [window |-> <<>>, samples |-> 0]

MedianMadUpdate(s, x) ==
    IF IsFinite(x) /\ CanCount(s.samples)
    THEN Done([window |-> Pushed(s.window, x, Capacity), samples |-> s.samples + 1])
    ELSE Refused(s)

\* finite_midpoint: half the distance between numbers of one sign, the sum of
\* the halves otherwise, so that nothing overflows.
Midpoint(lower, upper) ==
    IF (lower < 0) = (upper < 0)
    THEN FAdd(lower, FDiv(FSub(upper, lower), 2 * Unit))
    ELSE FAdd(FDiv(lower, 2 * Unit), FDiv(upper, 2 * Unit))

MedianOfSorted(values) ==
    LET mid == Len(values) \div 2
    IN  IF Len(values) % 2 = 1 THEN values[mid + 1] ELSE Midpoint(values[mid], values[mid + 1])

Median(window) == MedianOfSorted(Sorted(window))

\* The median of the distances from the median; it may be infinite.
Mad(window) ==
    MedianOfSorted(Sorted([i \in DOMAIN window |-> FAbs(FSub(window[i], Median(window)))]))

HasSummary(s) == Len(s.window) >= MinWindow /\ IsFinite(Mad(s.window))

MedianMadIsValid(s) ==
    /\ Len(s.window) = Lower(s.samples, Capacity)
    /\ \A i \in DOMAIN s.window : IsFinite(s.window[i])

ClippedMeanUpdate(s, x) ==
    IF IsFinite(x) THEN MeanUpdate(s, Lower(Higher(x, ClipLower), ClipUpper)) ELSE Refused(s)

ClippedMeanIsValid(s) ==
    /\ IsFinite(s.mean)
    /\ s.count = 0 => s.mean = 0
    /\ s.count > 0 => ClipLower <= s.mean /\ s.mean <= ClipUpper
=============================================================================
