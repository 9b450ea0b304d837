---------------------------- MODULE Preprocessing ----------------------------
(***************************************************************************)
(* The transformers and encoders of src/preprocessing. A transformer reads *)
(* its state in transform and changes it in update; NaN stands for a       *)
(* missing value. The imputers take the features one after the other and   *)
(* keep what they took when a later one is refused.                        *)
(***************************************************************************)
EXTENDS FeatureVectors

CONSTANTS
    ScaleEpsilon, WithMean, WithStd,   \* StandardScalerConfig
    TargetMin, TargetMax,              \* MinMaxScaler
    MachineEpsilon,                    \* f64::EPSILON
    ClipMin, ClipMax,                  \* Clipper
    FillValue                          \* ConstantImputerConfig

ASSUME PreprocessingAssumption ==
    /\ IsFinite(ScaleEpsilon) /\ 0 <= ScaleEpsilon /\ {WithMean, WithStd} \subseteq BOOLEAN
    /\ IsFinite(TargetMin) /\ IsFinite(TargetMax) /\ TargetMin < TargetMax
    /\ IsFinite(ClipMin) /\ IsFinite(ClipMax) /\ ClipMin <= ClipMax
    /\ IsFinite(FillValue) /\ IsFinite(MachineEpsilon) /\ 0 < MachineEpsilon
    /\ {TargetMin, TargetMax, ClipMin, ClipMax, FillValue, MachineEpsilon} \subseteq Floats

\* What transform answers: a vector, or the error of the first refused value.
Transformed(values) == [ok |-> TRUE, values |-> values]
NotTransformed == [ok |-> FALSE, values |-> <<>>]

-----------------------------------------------------------------------------
(* StandardScaler: Welford's mean and M2 per feature                       *)

NewScaler == [counts |-> PerFeature(0), means |-> PerFeature(0), m2s |-> PerFeature(0)]

\* StandardScaler::validate. The counts of the features stay together.
ScalerIsValid(s) ==
    /\ AllFinite(s.means) /\ AllFinite(s.m2s)
    /\ \A i \in Features : s.m2s[i] >= 0 /\ s.counts[i] = s.counts[1]
    /\ s.counts[1] = 0 => \A i \in Features : s.means[i] = 0 /\ s.m2s[i] = 0
    /\ s.counts[1] = 1 => \A i \in Features : s.m2s[i] = 0

\* update computes the next state of every feature before it assigns any.
ScalerUpdate(s, x) ==
    LET delta(i) == FSub(x[i], s.means[i])
        mean(i)  == FAdd(s.means[i], FDiv(delta(i), OfInt(s.counts[i] + 1)))
        after(i) == FSub(x[i], mean(i))
        m2(i)    == FAdd(s.m2s[i], FMul(delta(i), after(i)))
    IN  IF /\ ScalerIsValid(s) /\ FeaturesAreValid(x)
           /\ \A i \in Features : /\ CanCount(s.counts[i])
                                  /\ \A y \in {delta(i), mean(i), after(i), m2(i)} : IsFinite(y)
        THEN Done([counts |-> [i \in Features |-> s.counts[i] + 1],
                   means |-> [i \in Features |-> mean(i)], m2s |-> [i \in Features |-> m2(i)]])
        ELSE Refused(s)

\* A feature that hardly varies is not scaled.
Scale(s, i) ==
    LET variance == FDiv(s.m2s[i], OfInt(s.counts[i]))
    IN  IF ~WithStd \/ s.counts[i] = 0 \/ FLess(variance, ScaleEpsilon) THEN Unit
        ELSE FSqrt(variance)

\* transform_into
ScalerTransform(s, x) ==
    LET scaled(i) == FDiv(FSub(x[i], IF WithMean THEN s.means[i] ELSE 0), Scale(s, i))
        values    == [i \in Features |-> scaled(i)]
    IN  IF FeaturesAreValid(x) /\ AllFinite(values) THEN Transformed(values) ELSE NotTransformed

-----------------------------------------------------------------------------
(* MinMaxScaler and Clipper                                                *)

NewMinMax == [mins |-> PerFeature(NoValue), maxs |-> PerFeature(NoValue)]

Extreme(Pick(_, _), old, x) == IF old = NoValue THEN x ELSE Pick(old, x)

\* Defect: the maximum is the latest value.
MinMaxUpdateLatest(s, x) ==
    IF FeaturesAreValid(x)
    THEN Done([mins |-> [i \in Features |-> Extreme(Lower, s.mins[i], x[i])], maxs |-> x])
    ELSE Refused(s)

MinMaxUpdate(s, x) ==
    IF FeaturesAreValid(x)
    THEN Done([mins |-> [i \in Features |-> Extreme(Lower, s.mins[i], x[i])],
               maxs |-> [i \in Features |-> Extreme(Higher, s.maxs[i], x[i])]])
    ELSE Refused(s)

\* transform does not check what it computes: it may be infinite or NaN.
MinMaxTransform(s, x) ==
    LET range == FSub(TargetMax, TargetMin)
        span(i) == FSub(s.maxs[i], s.mins[i])
        scaled(i) ==
            IF s.mins[i] = NoValue THEN x[i]
            ELSE IF FLess(FAbs(span(i)), MachineEpsilon)
            THEN FAdd(TargetMin, FDiv(range, 2 * Unit))
            ELSE FAdd(TargetMin, FMul(FDiv(FSub(x[i], s.mins[i]), span(i)), range))
    IN  IF FeaturesAreValid(x) THEN Transformed([i \in Features |-> scaled(i)]) ELSE NotTransformed

\* samples_seen counts features, not samples.
MinMaxSamples(s) == Cardinality({i \in Features : s.mins[i] # NoValue})

ClipperTransform(x) ==
    IF FeaturesAreValid(x)
    THEN Transformed([i \in Features |-> Lower(Higher(x[i], ClipMin), ClipMax)])
    ELSE NotTransformed

-----------------------------------------------------------------------------
(* Imputers: MeanImputer, ConstantImputer, ForwardFill, MissingIndicator    *)

\* A value is there, missing or not a feature at all.
IsUsable(v) == v = NaN \/ IsFinite(v)

\* Fill(i) for what is missing.
Imputed(x, Fill(_)) ==
    IF Len(x) = FeatureCount /\ \A i \in Features : IsUsable(x[i])
    THEN Transformed([i \in Features |-> IF x[i] = NaN THEN Fill(i) ELSE x[i]])
    ELSE NotTransformed

\* update of the imputers: Take(s, i, v) is what a present value does to the
\* state, and what came before a refused value is not undone.
ImputerUpdate(s, x, Take(_, _, _)) ==
    LET step(r, i) ==
            IF ~r.ok \/ x[i] = NaN THEN r
            ELSE IF ~IsFinite(x[i]) THEN Refused(r.state)
            ELSE Take(r.state, i, x[i])
        after[i \in 0..FeatureCount] == IF i = 0 THEN Done(s) ELSE step(after[i - 1], i)
        taken == after[FeatureCount]
    IN  IF Len(x) # FeatureCount THEN Refused(s)
        ELSE IF ~taken.ok \/ ~CanCount(taken.state.samples) THEN Refused(taken.state)
        ELSE Done([taken.state EXCEPT !.samples = @ + 1])

NewMeanImputer == [counts |-> PerFeature(0), means |-> PerFeature(0), samples |-> 0]

\* update_mean counts the value before it knows whether the mean is finite.
TakeIntoMean(s, i, v) ==
    LET counted == [s EXCEPT !.counts[i] = @ + 1]
        delta   == FSub(v, s.means[i])
        mean    == FAdd(s.means[i], FDiv(delta, OfInt(s.counts[i] + 1)))
    IN  IF ~CanCount(s.counts[i]) THEN Refused(s)
        ELSE IF IsFinite(delta) /\ IsFinite(mean) THEN Done([counted EXCEPT !.means[i] = mean])
        ELSE Refused(counted)

MeanImputerUpdate(s, x) == ImputerUpdate(s, x, TakeIntoMean)
MeanImputerTransform(s, x) == Imputed(x, LAMBDA i : IF s.counts[i] = 0 THEN 0 ELSE s.means[i])
MeanImputerIsValid(s) == AllFinite(s.means)

NewForwardFill == [last |-> PerFeature(NoValue), samples |-> 0]

ForwardFillUpdate(s, x) == ImputerUpdate(s, x, LAMBDA r, i, v : Done([r EXCEPT !.last[i] = v]))
ForwardFillTransform(s, x) == Imputed(x, LAMBDA i : IF s.last[i] = NoValue THEN 0 ELSE s.last[i])
ForwardFillIsValid(s) == \A i \in Features : s.last[i] = NoValue \/ IsFinite(s.last[i])

\* ConstantImputer and MissingIndicator only count.
NewCounting == [samples |-> 0]

CountingUpdate(s, x) == ImputerUpdate(s, x, LAMBDA r, i, v : Done(r))
ConstantTransform(x) == Imputed(x, LAMBDA i : FillValue)

\* Every value is followed by its indicator; the missing one stays missing.
IndicatorTransform(x) ==
    LET value(j) == x[(j + 1) \div 2]
    IN  IF Len(x) = FeatureCount /\ \A i \in Features : IsUsable(x[i])
        THEN Transformed([j \in 1..(2 * FeatureCount) |->
                IF j % 2 = 1 THEN value(j) ELSE IF value(j) = NaN THEN Unit ELSE 0])
        ELSE NotTransformed

-----------------------------------------------------------------------------
(* Encoders: OneHotEncoder, OrdinalEncoder, FrequencyEncoder               *)

NewEncoder == [categories |-> <<>>, samples |-> 0]

\* Defect: a new category goes to the end.
FittedLast(categories, c) == IF Contains(categories, c) THEN categories ELSE Append(categories, c)

\* fit_one: a binary search for the place that keeps the categories sorted.
Fitted(categories, c) ==
    IF Contains(categories, c) THEN categories
    ELSE InsertAt(categories, Cardinality({i \in DOMAIN categories : categories[i] < c}) + 1, c)

\* One value after the other.
AllFitted(categories, values) ==
    LET fitted[n \in 0..Len(values)] ==
            IF n = 0 THEN categories ELSE Fitted(fitted[n - 1], values[n])
    IN  fitted[Len(values)]

\* update_strs of OrdinalEncoder.
OrdinalUpdate(s, values) ==
    LET fitted == [s EXCEPT !.categories = AllFitted(@, values)]
    IN  IF values = <<>> THEN Refused(s)
        ELSE IF ~CanCount(s.samples) THEN Refused(fitted)
        ELSE Done([fitted EXCEPT !.samples = @ + 1])

\* update_strs of OneHotEncoder counts without a check and wraps around.
OneHotUpdate(s, values) ==
    IF values = <<>> THEN Refused(s)
    ELSE Done([categories |-> AllFitted(s.categories, values),
               samples |-> (s.samples + 1) % (MaxCount + 1)])

\* category_index, from 0.
CategoryIndex(s, c) == (CHOOSE i \in DOMAIN s.categories : s.categories[i] = c) - 1

\* An encoder that knows no category answers nothing; an unknown category is an
\* error.
Encoded(s, values, answer) ==
    IF values = <<>> \/ (s.categories # <<>> /\ ~(ToSet(values) \subseteq ToSet(s.categories)))
    THEN NotTransformed
    ELSE Transformed(IF s.categories = <<>> THEN <<>> ELSE answer)

OrdinalTransform(s, values) ==
    Encoded(s, values, [i \in DOMAIN values |-> OfInt(CategoryIndex(s, values[i]))])

OneHotTransform(s, values) ==
    LET n == Len(s.categories)
    IN  Encoded(s, values, [j \in 1..(Len(values) * n) |->
            IF CategoryIndex(s, values[(j - 1) \div n + 1]) = (j - 1) % n THEN Unit ELSE 0])

\* validate_state: strictly ascending.
EncoderIsValid(s) == \A i \in 1..(Len(s.categories) - 1) : s.categories[i] < s.categories[i + 1]

NewFrequency == [counts |-> [c \in {} |-> 0], total |-> 0, samples |-> 0]

\* A category that is new has the count 0; a count at its limit is an error.
Raised(r, c) ==
    LET counts == [d \in DOMAIN r.state \cup {c} |-> IF d \in DOMAIN r.state THEN r.state[d] ELSE 0]
    IN  IF ~r.ok THEN r
        ELSE IF CanCount(counts[c]) THEN Done([counts EXCEPT ![c] = @ + 1])
        ELSE Refused(counts)

\* update_strs: the counts are raised one by one, then the total.
FrequencyUpdate(s, values) ==
    LET raised  == FoldLeft(Raised, Done(s.counts), values)
        counted == [s EXCEPT !.counts = raised.state]
        total   == s.total + Len(values)
    IN  IF values = <<>> THEN Refused(s)
        ELSE IF ~raised.ok \/ total > MaxCount THEN Refused(counted)
        ELSE IF ~CanCount(s.samples) THEN Refused([counted EXCEPT !.total = total])
        ELSE Done([counted EXCEPT !.total = total, !.samples = @ + 1])

FrequencyTransform(s, values) ==
    LET count(c) == IF c \in DOMAIN s.counts THEN s.counts[c] ELSE 0
    IN  IF values = <<>> THEN NotTransformed
        ELSE Transformed([i \in DOMAIN values |->
                IF s.total = 0 THEN 0 ELSE FDiv(OfInt(count(values[i])), OfInt(s.total))])

FrequencyIsValid(s) ==
    /\ \A c \in DOMAIN s.counts : s.counts[c] > 0
    /\ s.total = MapThenSumSet(LAMBDA c : s.counts[c], DOMAIN s.counts)
    /\ s.samples <= s.total
=============================================================================
