------------------------------ MODULE Monitoring ------------------------------
(***************************************************************************)
(* The statistics, metrics, drift detectors and diagnostics of the library *)
(* as a caller drives them: one object and a stream of inputs, which it    *)
(* takes or refuses, with resets in between. The objects do not share      *)
(* state, so one of them at a time is enough.                              *)
(*                                                                         *)
(* A stream is [kind, inputs, length, exact]: the kind of the object, what *)
(* it may be given, how many inputs it takes at most, and whether the      *)
(* numbers are such that no operation on them rounds.                      *)
(***************************************************************************)
EXTENDS DriftConsensus, DriftResponse, Diagnostics, P2Quantile, WeightedStatistics

CONSTANTS
    Streams,
    Quantiles           \* of P2Quantiles

VARIABLES
    stream,
    object,             \* its state
    log,                \* the inputs it took since it was new or reset
    answer              \* of the last call

vars == <<stream, object, log, answer>>

ASSUME StreamAssumption ==
    \A s \in Streams : s.length \in Nat /\ s.exact \in BOOLEAN

\* The generations a consensus is called with.
Generations ==
    {input[2] : input \in UNION {s.inputs : s \in {t \in Streams : t.kind = "consensus"}}}

\* A consensus is called with votes and a generation, and what stands for
\* having none of them yet is neither an event nor a generation.
ASSUME VotesAssumption ==
    /\ \A s \in Streams : s.kind = "consensus" =>
         \A input \in s.inputs : input[1] \in Seq(DriftVote)
    /\ NoGeneration \notin Generations
    /\ NoEvent \notin EventSummary(Generations)

\* Numbers, truths and predictions are values of f64, whether finite or not;
\* those of a rate are Booleans.
NumberKinds == {"mean", "ew_mean", "clipped_mean", "last_value", "sum", "variance", "min", "max",
                "rolling", "median_mad", "ring", "quantiles", "page_hinkley", "adwin", "kswin",
                "aware", "warmup"}

LossKinds == {"mae", "mse", "r2", "rolling_mae", "rolling_mse", "interval", "reporter",
              "weighted_mean", "weighted_variance", "weighted_ew_mean", "weighted_mae",
              "weighted_mse", "decayed_mean"}

RateKinds == {"accuracy", "precision", "recall", "f1", "rolling_accuracy"}

ASSUME InputsAssumption ==
    \A s \in Streams :
        /\ s.kind \in NumberKinds => s.inputs \subseteq Floats
        /\ s.kind \in LossKinds => s.inputs \subseteq Floats \X Floats
        /\ s.kind \in RateKinds => s.inputs \subseteq BOOLEAN \X BOOLEAN
        /\ s.kind = "weighted_ew_mean" =>
             \A input \in s.inputs : EffectiveAlpha(input[2]) \in Floats

-----------------------------------------------------------------------------
(* The kinds of objects                                                    *)

New(kind) ==
    CASE kind \in {"mean", "ew_mean", "clipped_mean", "interval", "last_value"} ->
            IF kind = "last_value" THEN NewLastValue ELSE NewMean
      [] kind = "sum" -> NewSum
      [] kind = "variance" -> NewVariance
      [] kind \in {"min", "max"} -> NewExtremum
      [] kind = "rolling" -> <<>>
      [] kind = "median_mad" -> NewMedianMad
      [] kind = "ring" -> NewRing
      [] kind = "decayed_mean" -> NewDecayedMean
      [] kind \in {"weighted_mean", "weighted_variance", "weighted_ew_mean", "weighted_mae",
                  "weighted_mse"} -> NewWeighted
      [] kind = "quantiles" -> NewP2s(Quantiles)
      [] kind = "accuracy" -> NewAccuracy
      [] kind \in DOMAIN Cells -> NewConfusion(kind)
      [] kind \in {"mae", "mse", "log_loss"} -> NewMeanLoss
      [] kind = "r2" -> NewR2
      [] kind \in {"rolling_mae", "rolling_mse", "rolling_accuracy"} -> NewRolling
      [] kind = "page_hinkley" -> NewPageHinkley
      [] kind = "adwin" -> NewAdwin
      [] kind = "kswin" -> NewKswin
      [] kind = "aware" -> NewAware
      [] kind = "consensus" -> NewConsensus
      [] kind = "selector" -> NewSelector
      [] kind = "warmup" -> NewWarmup
      [] kind = "reporter" -> NewReporter

\* Objects that take one number.
TakeNumber(kind, s, x) ==
    CASE kind = "mean" -> MeanUpdate(s, x)
      [] kind = "ew_mean" -> EwMeanUpdate(s, x)
      [] kind = "clipped_mean" -> ClippedMeanUpdate(s, x)
      [] kind = "last_value" -> LastValueLearn(s, x)
      [] kind = "sum" -> SumUpdate(s, x)
      [] kind = "variance" -> VarianceUpdate(s, x)
      [] kind = "min" -> MinUpdate(s, x)
      [] kind = "max" -> MaxUpdate(s, x)
      [] kind = "rolling" -> RollingUpdate(s, x)
      [] kind = "median_mad" -> MedianMadUpdate(s, x)
      [] kind = "ring" -> RingPush(s, x)
      [] kind = "quantiles" -> P2sUpdate(s, x)
      [] kind = "page_hinkley" -> PageHinkleyUpdate(s, x)
      [] kind = "adwin" -> AdwinUpdate(s, x)
      [] kind = "kswin" -> KswinUpdate(s, x)
      [] kind = "aware" -> AwareLearn(s, x)
      [] kind = "warmup" -> WarmupObserve(s, x)

\* Objects that take a truth and a prediction.
TakePair(kind, s, truth, prediction) ==
    CASE kind = "accuracy" -> AccuracyUpdate(s, truth, prediction)
      [] kind \in DOMAIN Cells -> ConfusionUpdate(s, truth, prediction)
      [] kind = "mae" -> MaeUpdate(s, truth, prediction)
      [] kind = "mse" -> MseUpdate(s, truth, prediction)
      [] kind = "log_loss" -> LogLossUpdate(s, truth, prediction)
      [] kind = "r2" -> R2Update(s, truth, prediction)
      [] kind = "rolling_mae" -> RollingMaeUpdate(s, truth, prediction)
      [] kind = "rolling_mse" -> RollingMseUpdate(s, truth, prediction)
      [] kind = "rolling_accuracy" -> RollingAccuracyUpdate(s, truth, prediction)
      [] kind = "interval" -> IntervalObserve(s, prediction, truth)
      [] kind = "reporter" -> ReporterObserve(s, prediction, truth)

\* Objects that take a number with its weight or its time.
TakeWeighed(kind, s, x, w) ==
    CASE kind = "weighted_mean" -> WeightedMeanUpdate(s, x, w)
      [] kind = "weighted_variance" -> WeightedVarianceUpdate(s, x, w)
      [] kind = "weighted_ew_mean" -> WeightedEwMeanUpdate(s, x, w)
      [] kind = "weighted_mae" -> WeightedMaeUpdate(s, x, 0, w)
      [] kind = "weighted_mse" -> WeightedMseUpdate(s, x, 0, w)
      [] kind = "decayed_mean" -> DecayedMeanUpdate(s, w, x)

Pairs == {"accuracy", "mae", "mse", "log_loss", "r2", "rolling_mae", "rolling_mse",
          "rolling_accuracy", "interval", "reporter"} \cup DOMAIN Cells

Weighed == {"weighted_mean", "weighted_variance", "weighted_ew_mean", "weighted_mae",
            "weighted_mse", "decayed_mean"}

Take(kind, s, input) ==
    CASE kind \in Pairs -> TakePair(kind, s, input[1], input[2])
      [] kind \in Weighed -> TakeWeighed(kind, s, input[1], input[2])
      [] kind = "consensus" -> ConsensusUpdate(s, input[1], input[2])
      [] kind = "selector" -> SelectorRecord(s, input[1], input[2], input[3])
      [] OTHER -> TakeNumber(kind, s, input)

-----------------------------------------------------------------------------
(* The caller                                                              *)

MonitoringInit ==
    /\ stream \in Streams
    /\ object = New(stream.kind)
    /\ log = <<>>
    /\ answer = <<"new">>

\* A call that was given an input: the answer, and the log of what was taken.
Took(r, input) ==
    /\ object' = r.state
    /\ log' = IF r.ok THEN Append(log, input) ELSE log
    /\ answer' = IF r.ok THEN <<"taken">> ELSE <<"refused">>
    /\ UNCHANGED stream

\* The object takes an input, or refuses it and keeps what it did before it
\* gave up.
Feed ==
    /\ Len(log) < stream.length
    /\ \E input \in stream.inputs : Took(Take(stream.kind, object, input), input)

\* reset: as new, but for the values that a ring keeps out of sight.
Reset ==
    /\ log # <<>>
    /\ object' = IF stream.kind = "ring" THEN RingReset(object) ELSE New(stream.kind)
    /\ log' = <<>>
    /\ answer' = <<"new">>
    /\ UNCHANGED stream

\* select of the model selector.
Select ==
    /\ stream.kind = "selector"
    /\ object' = SelectorSelect(object)
    /\ answer' = <<"selected", object'.current>>
    /\ UNCHANGED <<stream, log>>

\* set_baseline_error and set_baseline.
Compare ==
    /\ stream.kind \in {"warmup", "reporter"} /\ log # <<>>
    /\ object' = (IF stream.kind = "warmup" THEN WarmupBaseline(object, Unit)
                  ELSE ReporterBaseline(object, Unit)).state
    /\ answer' = <<"taken">>
    /\ UNCHANGED <<stream, log>>

MonitoringNext == Feed \/ Reset \/ Select \/ Compare

MonitoringSpec == MonitoringInit /\ [][MonitoringNext]_vars

-----------------------------------------------------------------------------
(* Saved states                                                            *)

\* The validate_state of each kind that has one.
IsAccepted(kind, s) ==
    CASE kind \in {"mean", "ew_mean", "interval"} -> MeanIsValid(s)
      [] kind = "variance" -> VarianceIsValid(s)
      [] kind = "clipped_mean" -> ClippedMeanIsValid(s)
      [] kind = "median_mad" -> MedianMadIsValid(s)
      [] kind = "ring" -> RingIsValid(s)
      [] kind = "quantiles" -> P2sIsValid(s)
      [] kind \in Weighed \ {"decayed_mean"} -> WeightedIsValid(s)
      [] kind \in DOMAIN Cells -> ConfusionIsValid(s)
      [] kind = "r2" -> R2IsValid(s)
      [] kind = "page_hinkley" -> PageHinkleyIsValid(s)
      [] kind = "adwin" -> AdwinIsValid(s)
      [] kind = "aware" -> AdwinIsValid(s.detector)
      [] kind = "kswin" -> KswinIsValid(s)
      [] kind = "consensus" -> ConsensusIsValid(s)
      [] OTHER -> TRUE

\* What calls can lead to, refused ones included, can be saved and restored:
\* the validation of a restore never refuses the library's own states, neither
\* where numbers round nor where counters and values reach their limits. Not so
\* the sums of Page-Hinkley and ADWIN (see PortableStateContinues): theirs are
\* streams that do not round.
SavedStateIsAccepted == IsAccepted(stream.kind, object)

-----------------------------------------------------------------------------
(* Windows                                                                 *)

ErrorsOf(pairs) == [i \in DOMAIN pairs |-> AbsoluteError(pairs[i][1], pairs[i][2])]

HitsOf(pairs) == [i \in DOMAIN pairs |-> pairs[i][1] = pairs[i][2]]

\* The pairs that a selector's caller recorded for a model.
RecordedFor(model, entries) ==
    LET among[n \in 0..Len(entries)] ==
            IF n = 0 THEN <<>>
            ELSE IF entries[n][1] = model
            THEN Append(among[n - 1], <<entries[n][2], entries[n][3]>>)
            ELSE among[n - 1]
    IN  among[Len(entries)]

\* A bounded window holds the most recent values, in the order in which they
\* came, whatever was evicted, rotated, trimmed or reset before: ADWIN what it
\* kept since its last cut, KSWIN two adjacent stretches. The comparator of a
\* selector takes an error that its counter of samples then refuses, so its
\* windows are only spoken of while no counter can be at its limit.
WindowsAreRecent ==
    CASE stream.kind = "rolling" -> object = LastOf(log, Capacity)
      [] stream.kind = "median_mad" -> object.window = LastOf(log, Capacity)
      [] stream.kind = "ring" -> RingValues(object) = LastOf(log, Capacity)
      [] stream.kind = "adwin" -> object.window = LastOf(log, Len(object.window))
      [] stream.kind = "kswin" ->
            LET kept == object.reference \o object.current IN kept = LastOf(log, Len(kept))
      [] stream.kind = "rolling_mae" -> object.window = ErrorsOf(LastOf(log, MetricCapacity))
      [] stream.kind = "rolling_accuracy" -> object.window = HitsOf(LastOf(log, MetricCapacity))
      [] stream.kind = "last_value" ->
            LastValuePrediction(object) = IF log = <<>> THEN InitialPrediction ELSE Last(log)
      [] stream.kind = "selector" ->
            Len(log) < MaxCount =>
                \A i \in Models :
                    object.comparator.errors[i].window =
                        ErrorsOf(LastOf(RecordedFor(i, log), MetricCapacity))
      [] OTHER -> TRUE

-----------------------------------------------------------------------------
(* Values                                                                  *)

SquaresAround(s, Value(_), mean) ==
    SumOver(s, LAMBDA e : (Value(e) - mean) * (Value(e) - mean))

\* The Kolmogorov-Smirnov statistic by its definition: the largest distance of
\* the two distribution functions, in units of 1 / WindowSize.
SupDistance(a, b) ==
    LET distance(x) == Magnitude(Count(a, LAMBDA y : y <= x) - Count(b, LAMBDA y : y <= x))
        points == ToSet(a) \cup ToSet(b)
    IN  Max({distance(x) : x \in points})

\* At most half of the values lie on either side.
IsMedian(m, s) ==
    /\ 2 * Count(s, LAMBDA y : y < m) <= Len(s)
    /\ 2 * Count(s, LAMBDA y : m < y) <= Len(s)

First(e) == e[1]
KnownErrors == {k \in DOMAIN log : log[k] # NoValue}
AbsoluteOf(e) == Magnitude(e[1] - e[2])
SquareOf(e) == (e[1] - e[2]) * (e[1] - e[2])

\* What the incremental updates keep is what a computation over all inputs
\* yields, on streams that do not round.
Reference ==
    CASE stream.kind = "mean" -> object.mean * object.count = SumOver(log, LAMBDA x : x)
      [] stream.kind = "variance" ->
            /\ object.mean * object.count = SumOver(log, LAMBDA x : x)
            /\ object.m2 * Unit = SquaresAround(log, LAMBDA x : x, object.mean)
      [] stream.kind \in {"min", "max"} ->
            log # <<>> => object.current = (IF stream.kind = "min" THEN Min(ToSet(log)) ELSE Max(ToSet(log)))
      [] stream.kind = "median_mad" -> log # <<>> => IsMedian(Median(object.window), object.window)
      [] stream.kind = "rolling" ->
            RollingMeanValue(object) # NoValue =>
                RollingMeanValue(object) * Len(object) = SumOver(object, LAMBDA x : x)
      [] stream.kind = "decayed_mean" ->
            object.sum * Unit =
                SumOver(log, LAMBDA e : e[1] * DecayFactor[(object.last - e[2]) \div Unit])
      [] stream.kind = "weighted_mean" ->
            object.mean * object.weight = SumOver(log, LAMBDA e : e[1] * e[2])
      [] stream.kind \in DOMAIN Cells ->
            \A cell \in DOMAIN object.cells :
                object.cells[cell] = Count(log, LAMBDA e : Cell(e[1], e[2]) = cell)
      [] stream.kind = "mae" -> object.sum = SumOver(log, AbsoluteOf)
      [] stream.kind = "r2" ->
            /\ object.residual * Unit = SumOver(log, SquareOf)
            /\ object.truths.m2 * Unit = SquaresAround(log, First, object.truths.mean)
      [] stream.kind = "rolling_mse" ->
            object.sum * Unit = SumOver(LastOf(log, MetricCapacity), SquareOf)
      [] stream.kind = "mse" -> object.sum * Unit = SumOver(log, SquareOf)
      [] stream.kind = "rolling_mae" -> object.sum = SumOver(LastOf(log, MetricCapacity), AbsoluteOf)
      [] stream.kind = "rolling_accuracy" ->
            object.sum = Count(LastOf(log, MetricCapacity), LAMBDA e : e[1] = e[2])
      [] stream.kind = "adwin" -> object.total = SumOver(object.window, LAMBDA x : x)
      [] stream.kind = "kswin" ->
            Len(object.reference) = WindowSize /\ Len(object.current) = WindowSize
            => KsStatistic(object.reference, object.current)
                 = SupDistance(object.reference, object.current)
      [] stream.kind = "selector" ->
            \A i \in Models : object.comparator.total[i] = Len(RecordedFor(i, log))
      [] stream.kind = "warmup" ->
            /\ object.samples = Len(log)
            /\ KnownErrors # {} => object.recent = Magnitude(log[Max(KnownErrors)])
      [] stream.kind = "reporter" ->
            /\ {object.interval.count, object.warmup.samples, object.summary.total} = {Len(log)}
            /\ log # <<>> => object.summary.best = Min(ToSet(ErrorsOf(log)))
            /\ Confidence(object) = "high" =>
                    Len(log) >= StableThreshold /\ object.summary.baseline # NoValue
      [] OTHER -> TRUE

AgreesWithReference == stream.exact => Reference

Within(values, S) == S # {} => \A v \in values : Min(S) <= v /\ v <= Max(S)

\* The same of a mean that moves by the whole of a rounded distance when a weight
\* outweighs all before: it may overshoot by one spacing of the range, but for
\* one value only it is that value.
AlmostWithin(v, S) ==
    LET slack == IF stream.exact \/ Max(S) = Min(S) THEN 0 ELSE Spacing(Max(S) - Min(S), 1)
    IN  S # {} => Min(S) - slack <= v /\ v <= Max(S) + slack

\* A variance is at most the square of half the range of its values (Popoviciu),
\* but for a unit of rounding per value, and never negative.
IsVariance(v, S) ==
    v # NoValue =>
        /\ 0 <= v
        /\ stream.exact => 4 * (v - Len(log)) * Unit <= (Max(S) - Min(S)) * (Max(S) - Min(S))

\* The values that count with a weight.
WeighedValues == {e[1] : e \in {f \in ToSet(log) : f[2] > 0}}

IsShare(v) == v = NoValue \/ (0 <= v /\ v <= Unit)

\* However the updates round, a mean stays between the least and the greatest
\* value it was computed from (a weighted mean but for a rounding of their
\* distance), and so do the markers of a quantile; a variance is that of values
\* in their range, a rate is in [0, 1] and an interval is around the prediction.
MeansStayInRange ==
    CASE stream.kind = "mean" -> Within({object.mean}, ToSet(log))
      [] stream.kind = "clipped_mean" ->
            Within({object.mean}, {Lower(Higher(x, ClipLower), ClipUpper) : x \in ToSet(log)})
      [] stream.kind = "variance" ->
            /\ Within({object.mean}, ToSet(log))
            /\ IsVariance(VarianceValue("population", object), ToSet(log))
      [] stream.kind = "rolling" ->
            IsVariance(RollingVarianceValue("population", object), ToSet(object))
      [] stream.kind = "median_mad" ->
            HasSummary(object) /\ stream.exact =>
                2 * Mad(object.window) <= Max(ToSet(object.window)) - Min(ToSet(object.window))
      [] stream.kind \in {"weighted_mean", "weighted_ew_mean"} ->
            AlmostWithin(WeightedMeanValue(object), WeighedValues)
      [] stream.kind = "weighted_variance" ->
            /\ AlmostWithin(WeightedMeanValue(object), WeighedValues)
            /\ IsVariance(WeightedVarianceValue(object), WeighedValues)
      [] stream.kind = "decayed_mean" ->
            Within({DecayedMeanValue(object)}, {e[1] : e \in ToSet(log)})
      [] stream.kind = "quantiles" ->
            \A q \in Quantiles :
                /\ Within({P2Value(q, object[q])}, ToSet(log))
                /\ object[q].samples >= 5 => Within(ToSet(object[q].heights), ToSet(log))
      [] stream.kind \in DOMAIN Cells -> IsShare(ConfusionValue(stream.kind, object))
      [] stream.kind = "mae" ->
            stream.exact /\ log # <<>> => Within({MeanLossValue(object)}, ToSet(ErrorsOf(log)))
      [] stream.kind = "accuracy" -> IsShare(AccuracyValue(object))
      [] stream.kind = "rolling_accuracy" -> IsShare(RollingAccuracyValue(object))
      [] stream.kind = "r2" -> R2Value(object) = NoValue \/ R2Value(object) <= Unit
      [] stream.kind = "interval" ->
            LET i == Interval(object, Unit)
            IN  object.count > 0 => i.lower <= Unit /\ Unit <= i.upper
      [] OTHER -> TRUE

-----------------------------------------------------------------------------
(* The consensus                                                           *)

\* Whether the n windows up to the k-th of the log voted for a level, in one
\* generation and after its warm-up, in which the code counts incomplete windows
\* as well (see WarmupIsComplete).
Generation(i) == log[i][2]

StartOf(k) ==
    CHOOSE i \in 1..k :
        /\ \A j \in i..k : Generation(j) = Generation(k)
        /\ i > 1 => Generation(i - 1) # Generation(k)

VotedFor(level, n, k) ==
    /\ k - n + 1 >= StartOf(k) + Warming
    /\ \A i \in (k - n + 1)..k : ~Incomplete(log[i][1]) /\ Candidate(log[i][1]) = level

\* A level was confirmed by as many windows in a row as it takes, in the present
\* generation, and not cleared since; and drift that lasts as long is raised.
LevelFollowsVotes ==
    stream.kind = "consensus" /\ log # <<>> =>
        LET now == Len(log)
        IN  /\ object.level # "none" =>
                 \E k \in StartOf(now)..now :
                    /\ k >= Confirmation /\ VotedFor(object.level, Confirmation, k)
                    /\ \A j \in (k + Clearing)..now : ~VotedFor("none", Clearing, j)
            /\ now >= Confirmation /\ VotedFor("drift", Confirmation, now) => object.level = "drift"

\* Drift that lasts is recorded in time: an event of this generation with that
\* peak is never older than the cooldown and one more confirmation.
DriftIsRecorded ==
    stream.kind = "consensus" /\ object.driftStreak > Cooldown + Confirmation =>
        /\ object.event # NoEvent /\ object.event.peak = "drift"
        /\ object.event.generation = object.generation
        /\ object.windows - object.event.last <= Cooldown + Confirmation

\* Between two records in one run of windows of a generation lie more windows
\* than the cooldown: only a change of the generation cuts it short.
EventsAreSpaced ==
    [][stream.kind = "consensus" /\ log' # <<>> /\ object.event # NoEvent
       /\ object'.event # object.event /\ object'.generation = object.generation
       /\ object.event.last > object.windows - object.generationWindows
       => object'.windows - object.event.last > Cooldown]_vars

-----------------------------------------------------------------------------
(* The drift-aware model                                                   *)

\* What the model knows is what it was taught since the last reset the event log
\* tells of, also when a call was refused halfway.
ModelLearnsSinceReset ==
    stream.kind = "aware" =>
        LET resets == {i \in DOMAIN object.events : object.events[i].action = "reset_model"}
        IN  resets # {} =>
                object.model.count = object.samples - object.events[Max(resets)].sample

-----------------------------------------------------------------------------
(* What the documentation says of the selector                             *)

\* "Returns the index of the selected model, or `None` if no model has enough
\* samples yet." (src/diagnostics/model_selector.rs): select does not answer None
\* once every model has enough of them.
NoneMeansTooFewSamples ==
    answer = <<"selected", NoModel>> =>
        \E i \in Models : object.comparator.total[i] < MinSamplesBeforeSwitch

-----------------------------------------------------------------------------
(* What the documentation says of the consensus                            *)

\* warming_windows: "Initial complete windows reported as warming."
\* (src/drift/consensus.rs): a level takes so many complete windows of its
\* generation and then the ones that confirm it. The code counts incomplete
\* windows of the generation as well, so a consensus whose detectors have no data
\* yet has warmed up before the first vote.
WarmupIsComplete ==
    stream.kind = "consensus" /\ object.level # "none" =>
        Warming + Confirmation <=
            Cardinality({i \in StartOf(Len(log))..Len(log) : ~Incomplete(log[i][1])})

-----------------------------------------------------------------------------
(* What a test says of portable states                                     *)

\* `portable_state_restore_preserves_future_results` (src/drift/adwin.rs): what
\* export_state_v1 returns is valid and restored. The total of an ADWIN is kept
\* by adding and taking away, so after a drop of large values it is off by what
\* they rounded away, more than validate_state tolerates of the small ones left.
PortableStateContinues == stream.kind = "adwin" => AdwinIsValid(object)
=============================================================================
