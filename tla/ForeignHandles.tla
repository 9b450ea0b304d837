--------------------------- MODULE ForeignHandles ---------------------------
(***************************************************************************)
(* The C interface (crates/rill-ml-ffi): objects behind opaque handles.    *)
(* Every call borrows its handle, checks its pointers, and then calls the  *)
(* library; it answers a code and writes its result only on success. A     *)
(* handle that was destroyed must not be used again, so a caller here uses *)
(* live handles and NULL.                                                  *)
(***************************************************************************)
EXTENDS Pipelines, OnlineStatistics

CONSTANT
    NullPointer     \* NULL for an argument

\* A handle is NULL or the address of an object (into_handle).
NullHandle == <<>>
Handle(object) == <<object>>

\* What a call answers, leaves behind and writes.
Answer(code, object, written) == [code |-> code, object |-> object, written |-> written]
Failed(code, object) == Answer(code, object, NullPointer)

\* Defect: an error of the library is not passed on.
FromLibraryUnchecked(r) == Answer("ok", r.state, NullPointer)

\* map_rill_error. A refusal of the library is an invalid argument or an
\* invalid state; which of the two is its text.
FromLibrary(r) == IF r.ok THEN Answer("ok", r.state, NullPointer) ELSE Failed("refused", r.state)

\* A value goes to `out`, if there is one.
Stored(object, hasOut, value) ==
    IF hasOut THEN Answer("ok", object, value) ELSE Failed("invalid_argument", object)

\* The same with a result that may be an error.
Written(object, hasOut, value) ==
    IF hasOut /\ value = NaN THEN Failed("refused", object) ELSE Stored(object, hasOut, value)

\* read_features, then the call.
WithFeatures(object, x, answer) ==
    IF x = NullPointer THEN Failed("invalid_argument", object) ELSE answer

\* parse_binary_target
BinaryTarget(target) == target \in {0, 1}

\* copy_weights: without a buffer the length is written.
CopyWeights(object, weights, hasOut, capacity) ==
    IF capacity = NullPointer THEN Failed("invalid_argument", object)
    ELSE IF ~hasOut THEN Answer("ok", object, Len(weights))
    ELSE IF capacity < Len(weights) THEN Failed("buffer_too_small", object)
    ELSE Answer("ok", object, weights)

\* copy_string_into: the text and its NUL have to fit.
CopyString(object, length, capacity) ==
    IF capacity \in {NullPointer, 0} THEN Failed("invalid_argument", object)
    ELSE IF length >= capacity THEN Failed("buffer_too_small", object)
    ELSE Answer("ok", object, object)

-----------------------------------------------------------------------------
(* The six types. Accessors: [name, x, hasOut, capacity].                   *)

\* rill_ml_mean_value and rill_ml_mean_count; the value before the first is 0.
MeanRead(m, call) ==
    Stored(m, call.hasOut, IF call.name = "samples_seen" THEN m.count ELSE m.mean)

\* What the two linear models have in common.
ModelRead(m, call, prediction) ==
    CASE call.name = "predict" -> WithFeatures(m, call.x, Written(m, call.hasOut, prediction))
      [] call.name = "weights" -> CopyWeights(m, m.weights, call.hasOut, call.capacity)
      [] call.name = "intercept" -> Stored(m, call.hasOut, m.intercept)
      [] call.name = "samples_seen" -> Stored(m, call.hasOut, m.samples)

LinearRegressionRead(m, call) == ModelRead(m, call, LinearPredict(m, call.x))

LinearRegressionLearn(m, x, target) ==
    WithFeatures(m, x, FromLibrary(LinearLearn("squared", m, x, target, Unit)))

\* predict_proba; predict compares it with one half.
LogisticRegressionRead(m, call) ==
    LET value == LinearPredict(m, call.x)
    IN  ModelRead(m, call, IF value = NaN THEN NaN ELSE Sigmoid(value))

LogisticRegressionLearn(m, x, target) ==
    WithFeatures(m, x,
        IF BinaryTarget(target) THEN FromLibrary(LogisticLearn(m, x, target = 1, Unit))
        ELSE Failed("invalid_argument", m))

\* rill_ml_standard_scaler_transform writes as many values as there are features.
ScalerRead(s, call) ==
    LET output == ScalerTransform(s, call.x)
    IN  IF call.name = "samples_seen" THEN Stored(s, call.hasOut, s.counts[1])
        ELSE WithFeatures(s, call.x,
                IF ~call.hasOut THEN Failed("invalid_argument", s)
                ELSE IF output.ok THEN Answer("ok", s, output.values) ELSE Failed("refused", s))

ScalerLearn(s, x) == WithFeatures(s, x, FromLibrary(ScalerUpdate(s, x)))

\* A pipeline's samples_seen is that of its transformer.
PipelineRead(p, call) ==
    IF call.name = "samples_seen" THEN Stored(p, call.hasOut, p.transformer.counts[1])
    ELSE WithFeatures(p, call.x, Written(p, call.hasOut, PipelinePredict(p, call.x)))

\* learn, not learn_transactional: a refused sample may have moved the scaler.
RegressionPipelineLearn(p, x, target) ==
    WithFeatures(p, x, FromLibrary(PipelineLearn(p, x, target)))

ClassificationPipelineLearn(p, x, target) ==
    WithFeatures(p, x,
        IF BinaryTarget(target) THEN FromLibrary(PipelineLearn(p, x, target = 1))
        ELSE Failed("invalid_argument", p))

-----------------------------------------------------------------------------
(* The calls by the type of the handle                                     *)

HandleTypes ==
    {"mean", "linear", "logistic", "scaler", "regression_pipeline", "classification_pipeline"}

\* The constructors; a type whose constructor fails has no handle.
NewObject(type) ==
    CASE type = "mean" -> NewMean
      [] type \in {"linear", "logistic"} -> NewLinear("sgd")
      [] type = "scaler" -> NewScaler
      [] type = "regression_pipeline" -> NewPipeline("regression", "scaler")
      [] type = "classification_pipeline" -> NewPipeline("classification", "scaler")

LearnCall(type, object, x, target) ==
    CASE type = "mean" -> FromLibrary(MeanUpdate(object, target))
      [] type = "linear" -> LinearRegressionLearn(object, x, target)
      [] type = "logistic" -> LogisticRegressionLearn(object, x, target)
      [] type = "scaler" -> ScalerLearn(object, x)
      [] type = "regression_pipeline" -> RegressionPipelineLearn(object, x, target)
      [] type = "classification_pipeline" -> ClassificationPipelineLearn(object, x, target)

ReadCall(type, object, call) ==
    CASE type = "mean" -> MeanRead(object, call)
      [] type = "linear" -> LinearRegressionRead(object, call)
      [] type = "logistic" -> LogisticRegressionRead(object, call)
      [] type = "scaler" -> ScalerRead(object, call)
      [] type \in {"regression_pipeline", "classification_pipeline"} -> PipelineRead(object, call)

\* The validation of from_json.
ObjectIsValid(type, object) ==
    CASE type = "mean" -> MeanIsValid(object)
      [] type \in {"linear", "logistic"} -> LinearIsValid(object)
      [] type = "scaler" -> ScalerIsValid(object)
      [] type \in {"regression_pipeline", "classification_pipeline"} -> PipelineIsValid(object)

\* from_json of what to_json wrote: another object of the same state, or NULL.
FromJson(type, object) == IF ObjectIsValid(type, object) THEN Handle(object) ELSE NullHandle

\* borrow: a NULL handle is answered before anything else.
Borrowed(handle, answer) ==
    IF handle = NullHandle THEN Failed("invalid_handle", NullHandle)
    ELSE [answer EXCEPT !.object = Handle(@)]
=============================================================================
