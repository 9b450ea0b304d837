---------------------------- MODULE Diagnostics -----------------------------
(***************************************************************************)
(* The diagnostics of src/diagnostics: what is known of the errors of one  *)
(* model (warm-up, residual interval, training summary, prediction report) *)
(* and of several (comparator, selector).                                  *)
(***************************************************************************)
EXTENDS Metrics

CONSTANTS
    Models,                                            \* 0..(number of names - 1)
    CoolingPeriod, MinSamplesBeforeSwitch,             \* SelectorConfig
    WarmingThreshold, UsableThreshold, StableThreshold, DegradedRatio,   \* WarmupConfig
    IntervalWidth                                      \* ResidualIntervalConfig.k

ASSUME DiagnosticsAssumption ==
    /\ Models = 0..(Cardinality(Models) - 1) /\ Models # {}
    /\ CoolingPeriod \in Nat /\ MinSamplesBeforeSwitch \in Nat
    /\ WarmingThreshold < UsableThreshold /\ UsableThreshold <= StableThreshold
    /\ Unit < DegradedRatio
    /\ IntervalWidth \in Floats /\ IsFinite(IntervalWidth) /\ 0 < IntervalWidth

NoModel == -1

-----------------------------------------------------------------------------
(* BaselineComparator                                                      *)

NewComparator ==
    [errors |-> [i \in Models |-> NewRolling], total |-> [i \in Models |-> 0],
     best |-> NoModel, switches |-> 0]

\* record: the error is in the window before the counter refuses it.
ComparatorRecord(c, i, truth, prediction) ==
    LET rolled == RollingMaeUpdate(c.errors[i], truth, prediction)
        taken  == [c EXCEPT !.errors[i] = rolled.state]
    IN  IF i \notin Models \/ ~rolled.ok THEN Refused(c)
        ELSE IF ~CanCount(c.total[i]) THEN Refused(taken)
        ELSE Done([taken EXCEPT !.total[i] = @ + 1])

RollingMae(c, i) == RollingLossValue(c.errors[i])

\* The model of least error, the first of equals.
LeastError(c) ==
    LET known == {i \in Models : RollingMae(c, i) # NoValue}
        least == {i \in known : \A j \in known : RollingMae(c, i) <= RollingMae(c, j)}
    IN  IF least = {} THEN NoModel ELSE CHOOSE i \in least : \A j \in least : i <= j

\* update_best answers a model only when the best one has changed.
UpdateBest(c) ==
    LET best == LeastError(c)
    IN  IF best = NoModel THEN [answer |-> NoModel, state |-> [c EXCEPT !.best = NoModel]]
        ELSE IF best = c.best THEN [answer |-> NoModel, state |-> c]
        ELSE [answer |-> best,
              state |-> [c EXCEPT !.best = best, !.switches = Lower(@ + 1, MaxCount)]]

-----------------------------------------------------------------------------
(* OnlineModelSelector                                                     *)

NewSelector == [comparator |-> NewComparator, current |-> NoModel, sinceSwitch |-> 0]

SelectorRecord(s, i, truth, prediction) ==
    LET recorded == ComparatorRecord(s.comparator, i, truth, prediction)
        taken    == [s EXCEPT !.comparator = recorded.state]
    IN  IF ~recorded.ok THEN Refused(taken)
        ELSE IF s.current # i THEN Done(taken)
        ELSE IF ~CanCount(s.sinceSwitch) THEN Refused(taken)
        ELSE Done([taken EXCEPT !.sinceSwitch = @ + 1])

\* A candidate has seen enough; one that replaces another waits for the latter
\* to have cooled down.
MaySwitch(s, candidate) ==
    /\ s.comparator.total[candidate] >= MinSamplesBeforeSwitch
    /\ s.current = NoModel \/ s.sinceSwitch >= CoolingPeriod

\* select. Its answer is the current model of the next state. The comparator
\* has moved on even when the switch is not made.
SelectorSelect(s) ==
    LET updated == UpdateBest(s.comparator)
        moved   == [s EXCEPT !.comparator = updated.state]
    IN  IF updated.answer \in {NoModel, s.current} \/ ~MaySwitch(moved, updated.answer) THEN moved
        ELSE [moved EXCEPT !.current = updated.answer, !.sinceSwitch = 0]

-----------------------------------------------------------------------------
(* WarmupTracker                                                           *)

NewWarmup == [samples |-> 0, recent |-> NoValue, baseline |-> NoValue]

\* observe_sample; NoValue is a sample whose error is not known. The error is
\* kept when the counter refuses the sample.
WarmupObserve(w, error) ==
    LET seen == IF error = NoValue THEN w ELSE [w EXCEPT !.recent = FAbs(error)]
    IN  IF error # NoValue /\ ~IsFinite(error) THEN Refused(w)
        ELSE IF ~CanCount(w.samples) THEN Refused(seen)
        ELSE Done([seen EXCEPT !.samples = @ + 1])

WarmupBaseline(w, baseline) ==
    IF IsFinite(baseline) THEN Done([w EXCEPT !.baseline = FAbs(baseline)]) ELSE Refused(w)

\* state. The threshold of usability is not asked for.
WarmupState(w) ==
    LET known == w.recent # NoValue /\ w.baseline # NoValue
    IN  IF w.samples = 0 THEN "no_data"
        ELSE IF w.samples < WarmingThreshold THEN "warming_up"
        ELSE IF known /\ w.recent > FMul(w.baseline, DegradedRatio) THEN "degraded"
        ELSE IF known /\ w.samples >= StableThreshold /\ w.recent <= w.baseline THEN "stable"
        ELSE "usable"

-----------------------------------------------------------------------------
(* ResidualInterval                                                        *)

IntervalObserve(errors, prediction, truth) == EwMeanUpdate(errors, AbsoluteError(truth, prediction))

\* interval: None before the first error. The bounds may be infinite.
Interval(errors, prediction) ==
    LET margin == FMul(IntervalWidth, errors.mean)
    IN  IF errors.count = 0 THEN [lower |-> NoValue, upper |-> NoValue]
        ELSE [lower |-> FSub(prediction, margin), upper |-> FAdd(prediction, margin)]

-----------------------------------------------------------------------------
(* TrainingSummary and PredictionReporter                                  *)

NewSummary == [total |-> 0, errors |-> NewMean, best |-> NoValue, baseline |-> NoValue]

\* record_error, then record_sample.
SummaryRecord(s, error) ==
    LET updated == EwMeanUpdate(s.errors, FAbs(error))
        taken   == [s EXCEPT !.errors = updated.state,
                             !.best = IF @ = NoValue THEN FAbs(error) ELSE Lower(@, FAbs(error))]
    IN  IF ~IsFinite(error) \/ ~updated.ok THEN Refused(s)
        ELSE IF ~CanCount(s.total) THEN Refused(taken)
        ELSE Done([taken EXCEPT !.total = @ + 1])

\* beats_baseline: None unless both errors are known.
BeatsBaseline(s) == s.errors.count > 0 /\ s.baseline # NoValue /\ s.errors.mean < s.baseline

NewReporter == [interval |-> NewMean, warmup |-> NewWarmup, summary |-> NewSummary]

\* observe: three parts, one after the other. What came before an error stays.
ReporterObserve(r, prediction, truth) ==
    LET error    == AbsoluteError(truth, prediction)
        observed == IntervalObserve(r.interval, prediction, truth)
        warmed   == WarmupObserve(r.warmup, error)
        recorded == SummaryRecord(r.summary, error)
    IN  IF ~observed.ok THEN Refused(r)
        ELSE IF ~warmed.ok THEN Refused([r EXCEPT !.interval = observed.state, !.warmup = warmed.state])
        ELSE [ok |-> recorded.ok,
              state |-> [interval |-> observed.state, warmup |-> warmed.state,
                         summary |-> recorded.state]]

\* set_baseline
ReporterBaseline(r, baseline) ==
    IF IsFinite(baseline)
    THEN Done([r EXCEPT !.warmup.baseline = FAbs(baseline), !.summary.baseline = FAbs(baseline)])
    ELSE Refused(r)

Confidence(r) ==
    CASE WarmupState(r.warmup) = "no_data" -> "none"
      [] WarmupState(r.warmup) \in {"warming_up", "degraded"} -> "low"
      [] WarmupState(r.warmup) = "usable" -> "medium"
      [] WarmupState(r.warmup) = "stable" -> IF BeatsBaseline(r.summary) THEN "high" ELSE "medium"
=============================================================================
