----------------------------- MODULE Pipelines ------------------------------
(***************************************************************************)
(* RegressionPipeline and ClassificationPipeline (src/pipeline.rs): a      *)
(* transformer in front of a model, and the progressive evaluation of      *)
(* src/evaluate. The transformers here keep the number of features: the    *)
(* scaler, whose update is all or nothing, and the mean imputer, whose     *)
(* update is not.                                                          *)
(***************************************************************************)
EXTENDS LinearModels, Preprocessing

NewTransformer(kind) == IF kind = "scaler" THEN NewScaler ELSE NewMeanImputer

TransformerUpdate(kind, t, x) ==
    IF kind = "scaler" THEN ScalerUpdate(t, x) ELSE MeanImputerUpdate(t, x)

TransformerTransform(kind, t, x) ==
    IF kind = "scaler" THEN ScalerTransform(t, x) ELSE MeanImputerTransform(t, x)

TransformerIsValid(kind, t) ==
    IF kind = "scaler" THEN ScalerIsValid(t) ELSE MeanImputerIsValid(t)

\* task is "regression" or "classification"; a target of the latter is Boolean.
NewPipeline(task, kind) ==
    [task |-> task, kind |-> kind, transformer |-> NewTransformer(kind),
     model |-> NewLinear("sgd")]

ModelLearn(p, x, target, weight) ==
    IF p.task = "regression" THEN LinearLearn("squared", p.model, x, target, weight)
    ELSE LogisticLearn(p.model, x, target, weight)

TargetIsValid(p, target) == p.task = "classification" \/ IsFinite(target)

\* A result of the transformer, and one of the model, put into the pipeline.
WithTransformer(p, r) == [ok |-> r.ok, state |-> [p EXCEPT !.transformer = r.state]]
WithModel(p, r) == [ok |-> r.ok, state |-> [p EXCEPT !.model = r.state]]

\* The model learns what the transformer, which learned before, makes of x.
TeachModel(p, output, target, weight) ==
    IF output.ok THEN WithModel(p, ModelLearn(p, output.values, target, weight)) ELSE Refused(p)

ThenModel(r, x, target, weight) ==
    IF r.ok
    THEN TeachModel(r.state, TransformerTransform(r.state.kind, r.state.transformer, x), target, weight)
    ELSE r

Stages(p, x, target, weight) ==
    ThenModel(WithTransformer(p, TransformerUpdate(p.kind, p.transformer, x)), x, target, weight)

\* learn: the transformer keeps what it learned when transform or the model
\* refuses the sample.
PipelineLearn(p, x, target) ==
    IF TargetIsValid(p, target) THEN Stages(p, x, target, Unit) ELSE Refused(p)

\* Defect: an error keeps what was learned before it.
TransactionalInPlace(p, r) == r

\* On clones, which an error drops.
Transactional(p, r) == IF r.ok THEN r ELSE Refused(p)

\* learn_transactional. The model checks the target, after the others.
PipelineLearnTransactional(p, x, target) == Transactional(p, PipelineLearn(p, x, target))

\* learn_weighted: a sample without weight is only transformed.
PipelineLearnWeighted(p, x, target, weight) ==
    IF ~WeightIsValid(weight) \/ ~TargetIsValid(p, target) THEN Refused(p)
    ELSE IF weight = 0
    THEN IF TransformerTransform(p.kind, p.transformer, x).ok THEN Done(p) ELSE Refused(p)
    ELSE Transactional(p, Stages(p, x, target, weight))

\* predict and predict_proba: nothing changes. NaN is an error.
PipelinePredict(p, x) ==
    LET output == TransformerTransform(p.kind, p.transformer, x)
        value  == LinearPredict(p.model, output.values)
    IN  IF ~output.ok \/ value = NaN THEN NaN
        ELSE IF p.task = "regression" THEN value ELSE Sigmoid(value)

PipelineIsValid(p) == TransformerIsValid(p.kind, p.transformer) /\ LinearIsValid(p.model)

-----------------------------------------------------------------------------
(* evaluate_regression_with_steps: predict, score, then learn.             *)

NewEvaluation(kind) == [pipeline |-> NewPipeline("regression", kind), errors |-> [count |-> 0, sum |-> 0]]

\* The error is scored before the pipeline learns, and kept when it does not.
Scored(e, scored, x, target) ==
    LET keep(learned) == [ok |-> learned.ok, state |-> [pipeline |-> learned.state, errors |-> scored.state]]
    IN  IF scored.ok THEN keep(PipelineLearn(e.pipeline, x, target)) ELSE Refused(e)

\* One sample; Score(s, truth, prediction) is the metric's update. An error ends
\* the evaluation, but not before what was done for the sample.
EvaluateSample(e, x, target, Score(_, _, _)) ==
    LET prediction == PipelinePredict(e.pipeline, x)
    IN  IF IsFinite(target) /\ IsFinite(prediction)
        THEN Scored(e, Score(e.errors, target, prediction), x, target)
        ELSE Refused(e)
=============================================================================
