------------------------- MODULE WeightedStatistics -------------------------
(***************************************************************************)
(* The weighted statistics of src/weighted.rs: means, variances and mean   *)
(* errors in which a sample counts with its weight. A sample of weight     *)
(* zero is checked and then forgotten.                                     *)
(***************************************************************************)
EXTENDS FeatureVectors, Metrics

CONSTANTS
    EffectiveAlpha(_),   \* 1 - (1 - alpha)^weight
    VarianceTolerance    \* f64::EPSILON

ASSUME WeightedAssumption == VarianceTolerance \in Nat

NewWeighted == [weight |-> 0, mean |-> 0, m2 |-> 0, samples |-> 0]

\* What every update asks of a sample that counts.
Weighs(s, x, w) == IsFinite(FAdd(s.weight, w)) /\ CanCount(s.samples) /\ IsFinite(FSub(x, s.mean))

Counted(s, w) == [s EXCEPT !.weight = FAdd(@, w), !.samples = @ + 1]

\* A refused sample, one without weight, one that Next takes into account.
Weighted(s, x, w, next) ==
    IF ~IsFinite(x) \/ ~WeightIsValid(w) THEN Refused(s)
    ELSE IF w = 0 THEN Done(s)
    ELSE next

\* WeightedMean::update_weighted
WeightedMeanUpdate(s, x, w) ==
    LET mean == FAdd(s.mean, FMul(FSub(x, s.mean), FDiv(w, FAdd(s.weight, w))))
    IN  Weighted(s, x, w,
            IF Weighs(s, x, w) /\ IsFinite(mean)
            THEN Done([Counted(s, w) EXCEPT !.mean = mean]) ELSE Refused(s))

\* WeightedVariance::update_weighted. A variance that rounding has made
\* slightly negative is zero.
WeightedVarianceUpdate(s, x, w) ==
    LET delta  == FSub(x, s.mean)
        weight == FAdd(s.weight, w)
        mean   == FAdd(s.mean, FMul(FDiv(w, weight), delta))
        grown  == FMul(FMul(w, delta), FSub(x, mean))
        m2     == FAdd(s.m2, grown)
    IN  Weighted(s, x, w,
            IF /\ Weighs(s, x, w) /\ \A y \in {mean, grown, m2} : IsFinite(y)
               /\ m2 >= -FMul(VarianceTolerance, Higher(weight, Unit))
            THEN Done([Counted(s, w) EXCEPT !.mean = mean, !.m2 = Higher(m2, 0)])
            ELSE Refused(s))

\* Defect: the mean is put together from two rounded parts.
WeightedEwMeanOfParts(s, x, w) ==
    LET alpha == EffectiveAlpha(w)
        mean  == IF s.weight = 0 THEN x
                 ELSE FAdd(FMul(alpha, x), FMul(FSub(Unit, alpha), s.mean))
    IN  Weighted(s, x, w,
            IF IsFinite(FAdd(s.weight, w)) /\ CanCount(s.samples) /\ IsFinite(mean)
            THEN Done([Counted(s, w) EXCEPT !.mean = mean]) ELSE Refused(s))

\* WeightedExponentiallyWeightedMean::update_weighted
WeightedEwMeanUpdate(s, x, w) ==
    LET mean == IF s.weight = 0 THEN x
                ELSE FAdd(s.mean, FMul(EffectiveAlpha(w), FSub(x, s.mean)))
    IN  Weighted(s, x, w,
            IF IsFinite(FAdd(s.weight, w)) /\ CanCount(s.samples) /\ IsFinite(mean)
            THEN Done([Counted(s, w) EXCEPT !.mean = mean]) ELSE Refused(s))

\* What WeightedMae and WeightedMse have in common.
WeightedErrorUpdate(Loss(_, _), s, truth, prediction, w) ==
    IF IsFinite(truth) /\ IsFinite(prediction) /\ IsFinite(Loss(truth, prediction))
    THEN WeightedMeanUpdate(s, Loss(truth, prediction), w) ELSE Refused(s)

WeightedMaeUpdate(s, truth, prediction, w) == WeightedErrorUpdate(AbsoluteError, s, truth, prediction, w)
WeightedMseUpdate(s, truth, prediction, w) == WeightedErrorUpdate(SquaredErrorOf, s, truth, prediction, w)

WeightedMeanValue(s) == IF s.weight > 0 THEN s.mean ELSE NoValue
WeightedVarianceValue(s) == IF s.weight > 0 THEN FDiv(s.m2, s.weight) ELSE NoValue

\* validate_weighted_moments, and the sign of M2.
WeightedIsValid(s) ==
    /\ IsFinite(s.weight) /\ 0 <= s.weight /\ (s.samples = 0) = (s.weight = 0)
    /\ IsFinite(s.mean) /\ IsFinite(s.m2) /\ s.m2 >= 0
=============================================================================
