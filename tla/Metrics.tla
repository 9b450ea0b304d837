------------------------------- MODULE Metrics -------------------------------
(***************************************************************************)
(* The metrics of src/metrics: counters of hits and errors, sums of losses *)
(* and the same over a rolling window. An update takes one truth and one   *)
(* prediction; a refused update leaves the metric as it was.               *)
(***************************************************************************)
EXTENDS OnlineStatistics

CONSTANTS
    MetricCapacity,             \* of the rolling metrics
    LogLossOf(_, _)             \* BinaryLogLoss::loss of a probability and a truth

\* A capacity is a usize, a sample count a u64.
ASSUME MetricsAssumption == MetricCapacity \in 1..MaxCount

-----------------------------------------------------------------------------
(* Accuracy, Precision, Recall and F1Score                                 *)

\* What one observation counts as.
Cell(truth, prediction) ==
    CASE truth /\ prediction   -> "tp"
      [] ~truth /\ prediction  -> "fp"
      [] truth /\ ~prediction  -> "fn"
      [] ~truth /\ ~prediction -> "tn"

\* The cells a metric has counters for; those of Accuracy share one.
Cells == [precision |-> {"tp", "fp"}, recall |-> {"tp", "fn"}, f1 |-> {"tp", "fp", "fn"}]

NewConfusion(metric) == [samples |-> 0, cells |-> [c \in Cells[metric] |-> 0]]

\* update of Precision, Recall and F1Score.
ConfusionUpdate(s, truth, prediction) ==
    LET cell == Cell(truth, prediction)
    IN  IF ~CanCount(s.samples) THEN Refused(s)
        ELSE IF cell \notin DOMAIN s.cells THEN Done([s EXCEPT !.samples = @ + 1])
        ELSE IF ~CanCount(s.cells[cell]) THEN Refused(s)
        ELSE Done([s EXCEPT !.samples = @ + 1, !.cells[cell] = @ + 1])

\* A counter, and how often the prediction was wrong.
InCell(s, c) == IF c \in DOMAIN s.cells THEN s.cells[c] ELSE 0
Misses(s) == InCell(s, "fp") + InCell(s, "fn")

\* tp / (tp + fp), tp / (tp + fn) and 2 tp / (2 tp + fp + fn).
ConfusionValue(metric, s) ==
    LET hits == IF metric = "f1" THEN 2 * InCell(s, "tp") ELSE InCell(s, "tp")
    IN  IF hits + Misses(s) = 0 THEN NoValue ELSE FDiv(OfInt(hits), OfInt(hits + Misses(s)))

\* The checks of their Deserialize, sums checked for overflow.
ConfusionIsValid(s) ==
    LET counted == InCell(s, "tp") + Misses(s)
    IN  counted <= MaxCount /\ counted <= s.samples

NewAccuracy == [count |-> 0, correct |-> 0]

AccuracyUpdate(s, truth, prediction) ==
    IF ~CanCount(s.count) \/ (truth = prediction /\ ~CanCount(s.correct)) THEN Refused(s)
    ELSE Done([count |-> s.count + 1,
               correct |-> IF truth = prediction THEN s.correct + 1 ELSE s.correct])

AccuracyValue(s) == IF s.count = 0 THEN NoValue ELSE FDiv(OfInt(s.correct), OfInt(s.count))

-----------------------------------------------------------------------------
(* Mae, Mse, Rmse and LogLoss: the mean of a loss                          *)

NewMeanLoss == [count |-> 0, sum |-> 0]

AbsoluteError(truth, prediction) == FAbs(FSub(truth, prediction))
SquaredErrorOf(truth, prediction) ==
    LET error == FSub(truth, prediction) IN FMul(error, error)

MeanLossUpdate(Loss(_, _), s, truth, prediction) ==
    IF IsFinite(truth) /\ IsFinite(prediction) /\ IsFinite(Loss(truth, prediction))
    THEN SumUpdate(s, Loss(truth, prediction))
    ELSE Refused(s)

\* Rmse is an Mse whose value is a root, which is not modelled.
MaeUpdate(s, truth, prediction) == MeanLossUpdate(AbsoluteError, s, truth, prediction)
MseUpdate(s, truth, prediction) == MeanLossUpdate(SquaredErrorOf, s, truth, prediction)

LogLossUpdate(s, truth, probability) ==
    IF IsFinite(probability) /\ 0 <= probability /\ probability <= Unit
    THEN SumUpdate(s, LogLossOf(probability, truth))
    ELSE Refused(s)

MeanLossValue(s) == IF s.count = 0 THEN NoValue ELSE FDiv(s.sum, OfInt(s.count))

-----------------------------------------------------------------------------
(* R2: the sum of squared errors against Welford's variance of the truths  *)

NewR2 == [truths |-> NewVariance, residual |-> 0]

R2Update(s, truth, prediction) ==
    LET squared  == SquaredErrorOf(truth, prediction)
        truths   == VarianceUpdate(s.truths, truth)
        residual == FAdd(s.residual, squared)
    IN  IF IsFinite(prediction) /\ IsFinite(squared) /\ truths.ok /\ IsFinite(residual)
        THEN Done([truths |-> truths.state, residual |-> residual])
        ELSE Refused(s)

R2Value(s) ==
    IF s.truths.count < 2 \/ s.truths.m2 <= 0 THEN NoValue
    ELSE FSub(Unit, FDiv(s.residual, s.truths.m2))

\* The checks of R2's Deserialize.
R2IsValid(s) ==
    /\ IsFinite(s.residual) /\ s.residual >= 0
    /\ VarianceIsValid(s.truths)
    /\ s.truths.count = 0 => s.residual = 0 /\ s.truths.mean = 0
    /\ s.truths.count <= 1 => s.truths.m2 = 0

-----------------------------------------------------------------------------
(* RollingMae, RollingMse and RollingAccuracy: a window and its running sum *)

NewRolling == [window |-> <<>>, sum |-> 0]

\* The sum gives up the oldest error before it takes the newest.
RollingLossUpdate(Loss(_, _), s, truth, prediction) ==
    LET error == Loss(truth, prediction)
        base  == IF Len(s.window) = MetricCapacity THEN FSub(s.sum, Head(s.window)) ELSE s.sum
        sum   == FAdd(base, error)
    IN  IF \A x \in {truth, prediction, error, base, sum} : IsFinite(x)
        THEN Done([window |-> Pushed(s.window, error, MetricCapacity), sum |-> sum])
        ELSE Refused(s)

RollingMaeUpdate(s, truth, prediction) == RollingLossUpdate(AbsoluteError, s, truth, prediction)
RollingMseUpdate(s, truth, prediction) == RollingLossUpdate(SquaredErrorOf, s, truth, prediction)

RollingLossValue(s) == IF s.window = <<>> THEN NoValue ELSE FDiv(s.sum, OfInt(Len(s.window)))

\* RollingAccuracy counts the hits of its window.
RollingAccuracyUpdate(s, truth, prediction) ==
    LET hit(h) == IF h THEN 1 ELSE 0
        left   == IF Len(s.window) = MetricCapacity THEN s.sum - hit(Head(s.window)) ELSE s.sum
    IN  Done([window |-> Pushed(s.window, truth = prediction, MetricCapacity),
              sum |-> left + hit(truth = prediction)])

RollingAccuracyValue(s) ==
    IF s.window = <<>> THEN NoValue ELSE FDiv(OfInt(s.sum), OfInt(Len(s.window)))
=============================================================================
