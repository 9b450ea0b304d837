------------------------------- MODULE Learning -------------------------------
(***************************************************************************)
(* The models, transformers, pipelines and bandits of the library, the     *)
(* decision replay and the C interface, as a caller drives them: one object*)
(* and a stream of inputs, which it takes or refuses. A stream is [kind,   *)
(* inputs, length, exact], as in Monitoring.                               *)
(*                                                                         *)
(* The kinds that end in _pair and _evaluation are two objects that are    *)
(* given the same: LinUcb with LinUcbFast, a pipeline with a metric.       *)
(***************************************************************************)
EXTENDS ForeignHandles, NaiveBayes, SparseModels, DecisionReplay, Metrics

CONSTANTS
    Streams,
    Handles,        \* of the C interface; a stream of kind "handles" has their types
    Probes          \* feature vectors a model is asked about

VARIABLES stream, object, log, answer

vars == <<stream, object, log, answer>>

ASSUME LearningAssumption ==
    /\ \A s \in Streams : s.length \in Nat /\ s.exact \in BOOLEAN
    /\ \A s \in Streams : s.kind = "handles" => s.types \in [Handles -> HandleTypes]
    /\ \A s \in Streams : s.kind = "replay" => s.inputs \subseteq Seq(ReplayRecord)

Vectors == Seq(Floats)

\* What is given to the objects of a kind has the type of its parameters.
ASSUME SamplesAssumption ==
    \A s \in Streams : \A input \in s.inputs :
        /\ s.kind \in {"scaler", "min_max", "mean_imputer", "forward_fill", "counting"} =>
             input \in Vectors
        /\ s.kind \in {"one_hot", "ordinal", "frequency"} => input \in Seq(Int)
        /\ s.kind \in {"gaussian", "bernoulli", "multinomial"} => input \in Vectors \X BOOLEAN
        /\ s.kind \in {"logistic", "classification"} => input \in Vectors \X BOOLEAN \X Floats
        /\ s.kind \in {"linear_sgd", "linear_adagrad", "plain", "plain_imputed", "transactional",
                      "weighted", "evaluation"} => input \in Vectors \X Floats \X Floats
        /\ s.kind \in {"ftrl", "ftrl_classifier", "ftrl_hashed"} => input[1] \in Seq(Int \X Floats)
        /\ s.kind \in {"greedy", "ucb", "thompson"} => input \in Int \X Floats
        /\ s.kind \in {"linucb", "linucb_pair"} => input \in Int \X Vectors \X Floats
        /\ s.kind = "handles" => input[1] \in {NullPointer} \cup Vectors /\ input[2] \in Floats

-----------------------------------------------------------------------------
(* Models: <<features, target, weight>> or <<features, class>>              *)

Models == {"linear_sgd", "linear_adagrad", "logistic", "gaussian", "bernoulli", "multinomial",
           "ftrl", "ftrl_classifier", "ftrl_hashed"}

NewModel(kind) ==
    CASE kind \in {"linear_sgd", "logistic"} -> NewLinear("sgd")
      [] kind = "linear_adagrad" -> NewLinear("adagrad")
      [] kind = "gaussian" -> NewGaussian
      [] kind = "bernoulli" -> NewBernoulli
      [] kind = "multinomial" -> NewMultinomial
      [] kind \in {"ftrl", "ftrl_classifier", "ftrl_hashed"} -> NewFtrl

\* A sparse model takes the vector a caller makes of pairs, with or without the
\* hasher; Teach(x) is its learn.
SparseInput(kind, r) == IF kind = "ftrl_hashed" /\ r.ok THEN Hashed(r.state) ELSE r

Taught(m, x, Teach(_)) == IF x.ok THEN Teach(x.state) ELSE Refused(m)

LearnSparse(kind, m, pairs, Teach(_)) == Taught(m, SparseInput(kind, FromUnsorted(pairs)), Teach)

LearnModel(kind, m, input) ==
    CASE kind = "linear_sgd" -> LinearLearn("squared", m, input[1], input[2], input[3])
      [] kind = "linear_adagrad" -> LinearLearn("huber", m, input[1], input[2], input[3])
      [] kind = "logistic" -> LogisticLearn(m, input[1], input[2], input[3])
      [] kind = "gaussian" -> GaussianLearn(m, input[1], input[2])
      [] kind = "bernoulli" -> BernoulliLearn(m, input[1], input[2])
      [] kind = "multinomial" -> MultinomialLearn(m, input[1], input[2])
      [] kind = "ftrl_classifier" ->
            LearnSparse(kind, m, input[1], LAMBDA x : FtrlClassifierLearn(m, x, input[2]))
      [] kind \in {"ftrl", "ftrl_hashed"} ->
            LearnSparse(kind, m, input[1], LAMBDA x : FtrlLearn(m, x, input[2]))

ModelIsAccepted(kind, m) ==
    CASE kind \in {"linear_sgd", "linear_adagrad", "logistic"} -> LinearIsValid(m)
      [] kind = "gaussian" -> GaussianIsValid(m)
      [] kind = "bernoulli" -> BernoulliIsValid(m)
      [] kind = "multinomial" -> MultinomialIsValid(m)
      [] kind \in {"ftrl", "ftrl_classifier", "ftrl_hashed"} -> FtrlIsValid(m)

-----------------------------------------------------------------------------
(* Transformers and encoders                                               *)

Transformers == {"scaler", "min_max", "mean_imputer", "forward_fill", "counting", "one_hot",
                 "ordinal", "frequency"}

NewTransformerOf(kind) ==
    CASE kind = "scaler" -> NewScaler
      [] kind = "min_max" -> NewMinMax
      [] kind = "mean_imputer" -> NewMeanImputer
      [] kind = "forward_fill" -> NewForwardFill
      [] kind = "counting" -> NewCounting
      [] kind \in {"one_hot", "ordinal"} -> NewEncoder
      [] kind = "frequency" -> NewFrequency

FitTransformer(kind, s, input) ==
    CASE kind = "scaler" -> ScalerUpdate(s, input)
      [] kind = "min_max" -> MinMaxUpdate(s, input)
      [] kind = "mean_imputer" -> MeanImputerUpdate(s, input)
      [] kind = "forward_fill" -> ForwardFillUpdate(s, input)
      [] kind = "counting" -> CountingUpdate(s, input)
      [] kind = "one_hot" -> OneHotUpdate(s, input)
      [] kind = "ordinal" -> OrdinalUpdate(s, input)
      [] kind = "frequency" -> FrequencyUpdate(s, input)

TransformerIsAccepted(kind, s) ==
    CASE kind = "scaler" -> ScalerIsValid(s)
      [] kind = "mean_imputer" -> MeanImputerIsValid(s)
      [] kind = "forward_fill" -> ForwardFillIsValid(s)
      [] kind \in {"one_hot", "ordinal"} -> EncoderIsValid(s)
      [] kind = "frequency" -> FrequencyIsValid(s)
      [] OTHER -> TRUE

-----------------------------------------------------------------------------
(* Pipelines: <<features, target, weight>>                                  *)

Pipes == {"plain", "plain_imputed", "transactional", "weighted", "classification", "evaluation"}

NewPipe(kind) ==
    CASE kind = "evaluation" -> NewEvaluation("scaler")
      [] kind = "plain_imputed" -> NewPipeline("regression", "imputer")
      [] kind = "classification" -> NewPipeline("classification", "scaler")
      [] OTHER -> NewPipeline("regression", "scaler")

\* evaluate_regression of one sample, with the mean absolute error as the metric.
EvaluateRegression(e, x, target) == EvaluateSample(e, x, target, MaeUpdate)

LearnPipe(kind, p, input) ==
    CASE kind \in {"plain", "plain_imputed"} -> PipelineLearn(p, input[1], input[2])
      [] kind \in {"transactional", "classification"} ->
            PipelineLearnTransactional(p, input[1], input[2])
      [] kind = "weighted" -> PipelineLearnWeighted(p, input[1], input[2], input[3])
      [] kind = "evaluation" -> EvaluateRegression(p, input[1], input[2])

-----------------------------------------------------------------------------
(* Bandits: <<arm, reward>> or <<arm, context, reward>>                     *)

Players == {"greedy", "ucb", "thompson", "linucb", "linucb_pair"}

NewBandit(kind) ==
    CASE kind = "greedy" -> NewGreedy
      [] kind = "ucb" -> NewArms
      [] kind = "thompson" -> NewThompson
      [] kind = "linucb" -> NewLinUcb
      [] kind = "linucb_pair" -> [exact |-> NewLinUcb, fast |-> FastFrom(NewLinUcb)]

UpdateBandit(kind, b, input) ==
    CASE kind = "greedy" -> GreedyUpdate(b, input[1], input[2])
      [] kind = "ucb" -> UcbUpdate(b, input[1], input[2])
      [] kind = "thompson" -> ThompsonUpdate(b, input[1], input[2])
      [] kind = "linucb" -> LinUpdate(b, input[1], input[2], input[3])
      [] kind = "linucb_pair" ->
            LET exact == LinUpdate(b.exact, input[1], input[2], input[3])
                fast  == FastUpdate(b.fast, input[1], input[2], input[3])
            IN  [ok |-> exact.ok /\ fast.ok, state |-> [exact |-> exact.state, fast |-> fast.state]]

BanditIsAccepted(kind, b) ==
    CASE kind = "greedy" -> GreedyIsValid(b)
      [] kind = "ucb" -> UcbIsValid(b)
      [] kind = "thompson" -> ThompsonIsValid(b)
      [] kind = "linucb" -> LinUcbIsValid(b)
      [] kind = "linucb_pair" -> LinUcbIsValid(b.exact) /\ FastIsValid(b.fast)

\* What the callers of Ucb1 and EpsilonGreedy do: they play the arm they were told.
Selected(kind, b) ==
    CASE kind = "ucb" -> UcbSelect(b)
      [] kind = "greedy" -> GreedySelect(b)
      [] OTHER -> Arms

-----------------------------------------------------------------------------
(* The caller                                                              *)

New(kind) ==
    CASE kind \in Models -> NewModel(kind)
      [] kind \in Transformers -> NewTransformerOf(kind)
      [] kind \in Pipes -> NewPipe(kind)
      [] kind \in Players -> NewBandit(kind)
      [] kind = "replay" -> NewReplay
      [] kind = "handles" -> [h \in Handles |-> NullHandle]

LearningInit ==
    /\ stream \in Streams
    /\ object = New(stream.kind)
    /\ log = <<>>
    /\ answer = "new"

\* A call that was given an input: the answer, and the log of what was taken.
Took(r, input) ==
    /\ object' = r.state
    /\ log' = IF r.ok THEN Append(log, input) ELSE log
    /\ answer' = IF r.ok THEN "taken" ELSE "refused"
    /\ UNCHANGED stream

MayFeed(kinds) == stream.kind \in kinds /\ Len(log) < stream.length

Learn ==
    /\ MayFeed(Models)
    /\ \E input \in stream.inputs : Took(LearnModel(stream.kind, object, input), input)

Fit ==
    /\ MayFeed(Transformers)
    /\ \E input \in stream.inputs : Took(FitTransformer(stream.kind, object, input), input)

\* An evaluation ends with the first sample that is refused.
LearnThrough ==
    /\ MayFeed(Pipes)
    /\ stream.kind = "evaluation" => answer # "refused"
    /\ \E input \in stream.inputs : Took(LearnPipe(stream.kind, object, input), input)

Play ==
    /\ MayFeed(Players)
    /\ \E input \in stream.inputs :
          /\ input[1] \in Selected(stream.kind, object)
          /\ Took(UpdateBandit(stream.kind, object, input), input)

ReplayChunk ==
    /\ MayFeed({"replay"})
    /\ \E input \in stream.inputs : Took(Replay(object, input), input)

-----------------------------------------------------------------------------
(* The C interface: <<features, target>>; every call names its handle. What *)
(* the library answered is logged under the handle and the answer.          *)

\* What a call on a handle does to the table, and what is logged of it.
Called(h, a, entries) ==
    /\ object' = [object EXCEPT ![h] = a.object]
    /\ log' = log \o entries
    /\ answer' = a.code
    /\ UNCHANGED stream

\* What is logged of a call: nothing if the library was not asked.
LibraryAnswers == {"ok", "refused"}

Logged(h, code, input) == IF code \in LibraryAnswers THEN <<<<<<h, code>>, input>>>> ELSE <<>>

CreateHandle ==
    /\ MayFeed({"handles"})
    /\ \E h \in Handles :
          /\ object[h] = NullHandle
          /\ object' = [object EXCEPT ![h] = Handle(NewObject(stream.types[h]))]
    /\ answer' = "ok"
    /\ UNCHANGED <<stream, log>>

LearnOnHandle ==
    /\ MayFeed({"handles"})
    /\ \E h \in Handles, input \in stream.inputs :
          LET a == Borrowed(object[h], LearnCall(stream.types[h], object[h][1], input[1], input[2]))
          IN  Called(h, a, Logged(h, a.code, input))

\* The accessors, with and without a place for what they write.
Calls(type) ==
    LET calls(names, vectors, capacities) ==
            [name : names, x : vectors, hasOut : BOOLEAN, capacity : capacities]
        none == {NullPointer}
    IN  calls({"predict"}, Probes \cup {NullPointer}, none)
        \cup calls({"samples_seen"}, none, none)
        \cup (IF type \notin {"linear", "logistic"} THEN {}
              ELSE calls({"weights"}, none, {0, FeatureCount, NullPointer})
                   \cup calls({"intercept"}, none, none))

ReadHandle ==
    /\ stream.kind = "handles"
    /\ \E h \in Handles : \E call \in Calls(stream.types[h]) :
          Called(h, Borrowed(object[h], ReadCall(stream.types[h], object[h][1], call)), <<>>)

\* The entries of a log that are under a name of H, in their order.
EntriesOf(H, entries) ==
    LET of[n \in 0..Len(entries)] ==
            IF n = 0 THEN <<>>
            ELSE IF entries[n][1] \in H THEN Append(of[n - 1], entries[n])
            ELSE of[n - 1]
    IN  of[Len(entries)]

\* The same entries under another name.
Renamed(entries, name) == [i \in DOMAIN entries |-> <<name, entries[i][2]>>]

\* What a copy of h was taught, and what it was refused.
Inherited(h, copy) ==
    LET under(code) == Renamed(EntriesOf({<<h, code>>}, log), <<copy, code>>)
    IN  under("ok") \o under("refused")

\* from_json answers NULL for a text that it refuses.
Copied(type, a) ==
    LET copy == FromJson(type, a.object)
    IN  IF a.code # "ok" THEN Failed(a.code, NullHandle)
        ELSE IF copy = NullHandle THEN Failed("refused", NullHandle)
        ELSE [a EXCEPT !.object = copy]

\* to_json into a buffer, then from_json of it: a second object of that state.
CopyHandle ==
    /\ MayFeed({"handles"})
    /\ \E h, copy \in Handles, capacity \in {0, 1, 2} :
          /\ stream.types[copy] = stream.types[h] /\ object[copy] = NullHandle /\ object[h] # NullHandle
          /\ LET a == Copied(stream.types[h], CopyString(object[h][1], 1, capacity))
             IN  Called(copy, a, IF a.code = "ok" THEN Inherited(h, copy) ELSE <<>>)

\* destroy ends a handle, and what was logged of it.
DestroyHandle ==
    /\ stream.kind = "handles"
    /\ \E h \in Handles :
          /\ object[h] # NullHandle
          /\ object' = [object EXCEPT ![h] = NullHandle]
          /\ log' = EntriesOf((Handles \ {h}) \X LibraryAnswers, log)
    /\ answer' = "ok"
    /\ UNCHANGED stream

LearningNext ==
    \/ Learn \/ Fit \/ LearnThrough \/ Play \/ ReplayChunk
    \/ CreateHandle \/ LearnOnHandle \/ ReadHandle \/ CopyHandle \/ DestroyHandle

LearningSpec == LearningInit /\ [][LearningNext]_vars

-----------------------------------------------------------------------------
(* Saved states                                                            *)

\* What calls can lead to, refused ones included, can be saved and restored:
\* the validation of a restore never refuses the library's own states. (A
\* replay validates itself before it keeps a chunk.)
SavedModelIsAccepted ==
    CASE stream.kind \in Models -> ModelIsAccepted(stream.kind, object)
      [] stream.kind \in Transformers -> TransformerIsAccepted(stream.kind, object)
      [] stream.kind \in Pipes \ {"evaluation"} -> PipelineIsValid(object)
      [] stream.kind \in Players -> BanditIsAccepted(stream.kind, object)
      [] stream.kind = "handles" ->
            \A h \in Handles : object[h] # NullHandle => ObjectIsValid(stream.types[h], object[h][1])
      [] OTHER -> TRUE

-----------------------------------------------------------------------------
(* What the incremental updates keep, against a computation over the log   *)

Square(a) == a * a

\* The sums of a Welford variance of the values, without rounding.
IsVarianceOf(count, mean, m2, values) ==
    /\ count = Len(values)
    /\ mean * count = SumOver(values, LAMBDA v : v)
    /\ m2 * Unit = SumOver(values, LAMBDA v : Square(v - mean))

Column(i, entries) == [k \in DOMAIN entries |-> entries[k][1][i]]

Present(values) == SelectSeq(values, LAMBDA v : v # NaN)

Of(Test(_)) == SelectSeq(log, Test)

\* The samples of a class.
OfClass(class, entries) == {k \in DOMAIN entries : entries[k][2] = class}

\* What each kind keeps of one class.
MatchesClass(class) ==
    LET entries == Of(LAMBDA e : e[2] = class)
        stats   == object.classes[class]
        sum(i)  == SumOver(Column(i, entries), LAMBDA v : v)
    IN  /\ stats.count = Cardinality(OfClass(class, log))
        /\ CASE stream.kind = "gaussian" ->
                    \A i \in Features :
                        LET s == stats.features[i]
                        IN  IsVarianceOf(s.count, s.mean, s.m2, Column(i, entries))
             [] stream.kind = "bernoulli" ->
                    \A i \in Features :
                        stats.on[i] = Cardinality({k \in OfClass(class, log) : IsOn(log[k][1][i])})
             [] stream.kind = "multinomial" ->
                    /\ \A i \in Features : stats.sums[i] = sum(i)
                    /\ stats.total = MapThenSumSet(sum, Features)

\* The features that a sparse model knows: those of each sample, if there is
\* room for all that are new.
IdsOf(kind, pairs) ==
    IF kind = "ftrl_hashed" THEN 0..(Dimension - 1) ELSE {p[1] : p \in ToSet(pairs)}

Joined(known, ids) == IF Cardinality(known \cup ids) <= MaxFeatures THEN known \cup ids ELSE known

KnownAfter(kind, entries) ==
    LET known[n \in 0..Len(entries)] ==
            IF n = 0 THEN {} ELSE Joined(known[n - 1], IdsOf(kind, entries[n][1]))
    IN  known[Len(entries)]

\* Where a feature was not missing, and what it was.
PresentAt(i, entries) == {k \in DOMAIN entries : entries[k][i] # NaN}
SeenIn(i, entries) == {entries[k][i] : k \in PresentAt(i, entries)}

LastSeen(i, entries, default) ==
    IF PresentAt(i, entries) = {} THEN default ELSE entries[Max(PresentAt(i, entries))][i]

FeatureValues(i) == Present([k \in DOMAIN log |-> log[k][i]])

MatchesFeature(i) ==
    LET values == FeatureValues(i)
    IN  CASE stream.kind = "scaler" ->
                IsVarianceOf(object.counts[i], object.means[i], object.m2s[i], values)
          [] stream.kind = "min_max" ->
                log # <<>> => /\ object.mins[i] = Min(SeenIn(i, log))
                              /\ object.maxs[i] = Max(SeenIn(i, log))
          [] stream.kind = "mean_imputer" ->
                /\ object.counts[i] = Len(values)
                /\ object.means[i] * object.counts[i] = SumOver(values, LAMBDA v : v)
          [] stream.kind = "forward_fill" ->
                object.last[i] = LastSeen(i, log, NoValue)
          [] OTHER -> TRUE

\* All the categories of the log, with how often they came.
Categories == UNION {ToSet(log[k]) : k \in DOMAIN log}

Occurrences(c) == SumOver(log, LAMBDA values : Count(values, LAMBDA v : v = c))

MatchesArm(arm) ==
    LET entries   == Of(LAMBDA e : e[1] = arm)
        n         == Len(entries)
        total     == SumOver(entries, LAMBDA e : e[2])
        played(b) == b.pulls[arm] = n /\ b.rewards[arm] = total
        outer(i, j) == SumOver(entries, LAMBDA e : e[2][i] * e[2][j])
        toward(i)   == SumOver(entries, LAMBDA e : e[3] * e[2][i])
    IN  CASE stream.kind = "ucb" -> played(object)
          [] stream.kind = "greedy" -> played(object.arms)
          [] stream.kind = "thompson" ->
                /\ played(object.arms)
                /\ object.alphas[arm] = AlphaPrior + total
                /\ object.betas[arm] = BetaPrior + n * Unit - total
          [] stream.kind = "linucb" ->
                /\ \A i, j \in Dims : object.matrices[arm][i][j] * Unit =
                        Identity[i][j] * Unit + outer(i, j)
                /\ \A i \in Dims : object.vectors[arm][i] * Unit = toward(i)
          [] OTHER -> TRUE

\* The reward of a replay is that of its completed decisions, and 95 of 100
\* latencies are not above the 95th percentile that it reports.
MatchesReplay ==
    LET done == {object.completed[d] : d \in CompletedIds(object)}
        p95  == LatencySummary(object.latencies).p95
    IN  /\ object.reward = MapThenSumSet(LAMBDA c : c.reward, done)
        /\ object.latencies # <<>> =>
              100 * Count(object.latencies, LAMBDA l : l <= p95) >= 95 * Len(object.latencies)

\* What the incremental updates keep is what a computation over all samples
\* yields, on streams that do not round.
AgreesWithSamples ==
    stream.exact =>
        /\ stream.kind \in {"gaussian", "bernoulli", "multinomial"} => \A c \in BOOLEAN : MatchesClass(c)
        /\ stream.kind \in {"ftrl", "ftrl_classifier", "ftrl_hashed"} =>
              DOMAIN object.params = KnownAfter(stream.kind, log)
        /\ stream.kind \in {"scaler", "min_max", "mean_imputer", "forward_fill"} =>
              \A i \in Features : MatchesFeature(i)
        /\ stream.kind \in {"one_hot", "ordinal"} =>
              ToSet(object.categories) = Categories /\ EncoderIsValid(object)
        /\ stream.kind = "frequency" =>
              DOMAIN object.counts = Categories /\ \A c \in Categories : object.counts[c] = Occurrences(c)
        /\ stream.kind \in Players => \A arm \in Arms : MatchesArm(arm)
        /\ stream.kind = "replay" => MatchesReplay

-----------------------------------------------------------------------------
(* Answers                                                                 *)

Prediction(x) ==
    CASE stream.kind = "gaussian" -> GaussianPredict(object, x)
      [] stream.kind = "bernoulli" -> BernoulliPredict(object, x)
      [] stream.kind = "multinomial" -> MultinomialPredict(object, x)

\* The log-likelihoods of the features in a class.
Likelihoods(x, class) ==
    CASE stream.kind = "gaussian" -> GaussianTerms(object, x, class)
      [] stream.kind = "bernoulli" -> BernoulliTerms(object, x, class)
      [] stream.kind = "multinomial" -> MultinomialTerms(object, x, class)

\* What speaks for a class: how often it was seen and what its features say,
\* minus infinity for a class that was never seen.
Evidence(x, class) ==
    LET seen == Count(log, LAMBDA sample : sample[2] = class)
    IN  FAdd(Ln(FDiv(OfInt(seen), OfInt(Len(log)))), FoldLeft(FAdd, 0, Likelihoods(x, class)))

\* The probes, and features as large as they can be.
Questions == Probes \cup {PerFeature(Largest), [PerFeature(0) EXCEPT ![1] = Largest]}

\* A naive Bayes model leans to the class the evidence is for, is undecided before
\* the first sample, and sure where only one class is possible: one that was seen
\* and whose likelihood did not vanish. It refuses to answer exactly if no class
\* is possible or a likelihood is infinite, as three tests of
\* src/models/naive_bayes.rs demand of very large features
\* (gaussian_predict_proba_rejects_extreme_features_causing_nan_log_odds).
PosteriorsFollowEvidence ==
    stream.kind \in {"gaussian", "bernoulli", "multinomial"} =>
        \A x \in Questions :
            LET for(class) == Evidence(x, class)
                possible   == {class \in BOOLEAN : for(class) # NegInf}
                leaning    == {p \in 0..Unit : /\ 2 * p > Unit => for(TRUE) > for(FALSE)
                                               /\ 2 * p < Unit => for(TRUE) < for(FALSE)}
            IN  Prediction(x) \in
                    IF log = <<>> THEN {Unit \div 2}
                    ELSE IF possible = {} \/ \E class \in possible : for(class) \in {NaN, Inf} THEN {NaN}
                    ELSE CASE possible = {TRUE} -> {Unit}
                           [] possible = {FALSE} -> {0}
                           [] possible = BOOLEAN -> leaning

\* A clipper to the same bounds changes nothing after the scaler.
ScaledIntoTarget ==
    /\ MinMaxSamples(object) = FeatureCount
    /\ \A k \in DOMAIN log :
          LET scaled == MinMaxTransform(object, log[k])
          IN  /\ \A i \in Features : TargetMin <= scaled.values[i] /\ scaled.values[i] <= TargetMax
              /\ ClipMin = TargetMin /\ ClipMax = TargetMax => ClipperTransform(scaled.values) = scaled

DeviationsAreBounded ==
    \A k \in DOMAIN log, i \in Features :
        10 * Square(ScalerTransform(object, log[k]).values[i]) <= 12 * (Len(log) - 1) * Unit * Unit

FilledAmongSeen ==
    \A i \in Features :
        LET filled == MeanImputerTransform(object, PerFeature(NaN)).values[i]
            seen   == SeenIn(i, log)
        IN  IF seen = {} THEN filled = 0 ELSE Min(seen) <= filled /\ filled <= Max(seen)

FilledWithLast ==
    \A i \in Features :
        ForwardFillTransform(object, PerFeature(NaN)).values[i] = LastSeen(i, log, 0)

FilledWhereMarked ==
    \A k \in DOMAIN log, i \in Features :
        LET filled == ConstantTransform(log[k]).values[i]
            marked == IndicatorTransform(log[k]).values[2 * i]
        IN  filled = IF marked = Unit THEN FillValue ELSE log[k][i]

OneForEachValue ==
    \A k \in DOMAIN log : FSum(OneHotTransform(object, log[k]).values) = Len(log[k]) * Unit

CodesFollowOrder ==
    \A k \in DOMAIN log : \A i, j \in DOMAIN log[k] :
        LET code == OrdinalTransform(object, log[k]).values
        IN  (code[i] < code[j]) = (log[k][i] < log[k][j])

SharesAddUp ==
    LET shares == FrequencyTransform(object, SetToSortSeq(Categories, LAMBDA a, b : a < b)).values
    IN  Magnitude(FSum(shares) - Unit) <= Len(shares)

\* What a transformer makes of the values it has seen: the scalers keep them
\* within the target, or within the root of n - 1 deviations; an imputer fills in
\* between the least and the greatest value; a one-hot code has one 1 per value,
\* an ordinal code follows the order of the categories, and all frequencies
\* together are 1. (A deviation is off by less than a tenth, a frequency by one
\* unit of rounding.)
SeenValuesStayInRange ==
    stream.exact /\ log # <<>> =>
        /\ stream.kind = "min_max" => ScaledIntoTarget
        /\ stream.kind = "scaler" => DeviationsAreBounded
        /\ stream.kind = "mean_imputer" => FilledAmongSeen
        /\ stream.kind = "forward_fill" => FilledWithLast
        /\ stream.kind = "counting" => FilledWhereMarked
        /\ stream.kind = "one_hot" => OneForEachValue
        /\ stream.kind = "ordinal" => CodesFollowOrder
        /\ stream.kind = "frequency" => SharesAddUp

-----------------------------------------------------------------------------
(* Objects made of several                                                 *)

\* The stages of a pipeline have learned from the same samples: all of them if
\* learning is transactional, and never more the model than the transformer.
StagesAgree ==
    LET weighty == Cardinality({k \in DOMAIN log : log[k][3] # 0})
    IN  CASE stream.kind \in {"transactional", "classification"} ->
                /\ object.model.samples = Len(log)
                /\ object.transformer.counts = PerFeature(Len(log))
          [] stream.kind = "weighted" ->
                /\ object.model.samples = weighty
                /\ object.transformer.counts = PerFeature(weighty)
          [] stream.kind = "plain" ->
                /\ object.model.samples = Len(log)
                /\ object.transformer.counts[1] >= Len(log)
          [] stream.kind = "plain_imputed" ->
                object.model.samples = Len(log) /\ object.transformer.samples >= Len(log)
          [] stream.kind = "evaluation" ->
                LET p == object.pipeline
                IN  /\ p.model.samples = Len(log)
                    /\ Len(log) <= object.errors.count
                    /\ object.errors.count <= Len(log) + (IF answer = "refused" THEN 1 ELSE 0)
                    /\ p.transformer.counts[1] <= object.errors.count
          [] OTHER -> TRUE

\* Ucb1 pulls every arm once before it pulls one again.
ExplorationIsComplete ==
    stream.kind = "ucb" /\ (\E a \in Arms : object.pulls[a] > 1) => \A a \in Arms : object.pulls[a] > 0

\* What select finds best by its own scores is almost the best by the exact ones.
AlmostBest(exact, fast) ==
    \A a \in SelectAmong(fast) : \A c \in Arms : 10 * (exact[c] - exact[a]) <= Unit

\* The inverses that LinUcbFast keeps are those of the matrices of LinUcb but for
\* a tenth, and the arms it chooses are as good.
FastFollowsExact ==
    stream.kind = "linucb_pair" /\ stream.exact =>
        \A a \in Arms :
            LET A == object.exact.matrices[a]
                B == object.fast.matrices[a]
                entry(i, j) == MapThenSumSet(LAMBDA k : A[i][k] * B[k][j], Dims)
            IN  /\ object.fast.vectors[a] = object.exact.vectors[a]
                /\ \A i, j \in Dims : 10 * Magnitude(entry(i, j) - Unit * Identity[i][j]) <= Unit * Unit
                /\ \A x \in Probes : AlmostBest(LinScores(object.exact, x), FastScores(object.fast, x))

\* The records of a log of chunks.
RecordsIn(chunks) ==
    LET of[n \in 0..Len(chunks)] == IF n = 0 THEN 0 ELSE of[n - 1] + Len(chunks[n])
    IN  of[Len(chunks)]

\* What a replay reports adds up with what its ledger holds, whatever chunks were
\* refused, rejected, duplicated or expired before.
ReplayAddsUp ==
    stream.kind = "replay" =>
        LET done == {object.completed[d] : d \in CompletedIds(object)}
        IN  /\ \A a \in Arms :
                    object.pulls[a] = Cardinality({c \in done : c.decision.action = a})
            /\ Len(object.latencies) = Cardinality(done)
            /\ \A c \in done : c.observed - c.decision.created \in 0..MaxDelay
            /\ object.missing <= Cardinality(done) + Cardinality(PendingIds(object)) + object.expired
            /\ object.model.samples <= Cardinality(done)
            /\ object.processed = RecordsIn(log)
            /\ CompletedIds(object) \cap PendingIds(object) = {}

-----------------------------------------------------------------------------
(* The C interface                                                         *)

PipelineTypes == {"regression_pipeline", "classification_pipeline"}

\* What rill_ml_..._samples_seen writes for the object behind a handle.
SamplesSeen(h) ==
    ReadCall(stream.types[h], object[h][1],
             [name |-> "samples_seen", x |-> NullPointer, hasOut |-> TRUE, capacity |-> NullPointer]).written

\* A handle reports the calls that named it and were answered with OK, those of
\* the object it was copied from included, and no other: a refused call leaves no
\* trace. Only behind the handle of a pipeline does a refused call count, if the
\* scaler took what the model then refused; the model of the pipeline has learned
\* from the calls that were answered with OK alone.
HandlesCountTheirOwnCalls ==
    stream.kind = "handles" =>
        \A h \in Handles :
            LET calls(code) == Len(EntriesOf({<<h, code>>}, log))
                taken   == calls("ok")
                refused == calls("refused")
            IN  IF object[h] = NullHandle THEN taken = 0 /\ refused = 0
                ELSE IF stream.types[h] \notin PipelineTypes THEN SamplesSeen(h) = taken
                ELSE /\ object[h][1].model.samples = taken
                     /\ taken <= SamplesSeen(h) /\ SamplesSeen(h) <= taken + refused
=============================================================================
