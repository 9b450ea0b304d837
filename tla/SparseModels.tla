---------------------------- MODULE SparseModels ----------------------------
(***************************************************************************)
(* Sparse features, the feature hasher and the FTRL models                 *)
(* (src/sparse, src/feature_hasher.rs, src/models/ftrl.rs). A sparse       *)
(* vector is a function from its feature ids to their values.              *)
(***************************************************************************)
EXTENDS SmallFloat, Functions

CONSTANTS
    FtrlAlpha, FtrlBeta, FtrlL1, FtrlL2,   \* FtrlConfig
    MaxFeatures,                           \* max_features
    NewFeaturePolicy,                      \* "reject" or "ignore"
    Logistic(_),                           \* sigmoid
    Dimension,                             \* of the feature hasher
    Bucket(_), Sign(_)                     \* hash_bucket and hash_sign of an id

ASSUME FtrlAssumption ==
    /\ IsFinite(FtrlAlpha) /\ 0 < FtrlAlpha
    /\ \A p \in {FtrlBeta, FtrlL1, FtrlL2} : IsFinite(p) /\ 0 <= p
    /\ MaxFeatures \in Nat \ {0} /\ NewFeaturePolicy \in {"reject", "ignore"}
    /\ Dimension \in Nat \ {0} /\ Logistic(NaN) = NaN

-----------------------------------------------------------------------------
(* SparseFeatures and FeatureHasher                                        *)

\* The values that come with an id, added up in the order they are given.
Merged(pairs) ==
    [id \in {pairs[i][1] : i \in DOMAIN pairs} |->
        FSum([j \in 1..Len(SelectSeq(pairs, LAMBDA p : p[1] = id)) |->
                SelectSeq(pairs, LAMBDA p : p[1] = id)[j][2]])]

SparseIsValid(x) == \A id \in DOMAIN x : IsFinite(x[id])

\* from_unsorted: an overflow, or a value that was not finite, is an error.
FromUnsorted(pairs) ==
    IF SparseIsValid(Merged(pairs)) THEN Done(Merged(pairs)) ELSE Refused(<<>>)

\* FeatureHasher::transform adds the values of the ids, in ascending order,
\* that share a bucket.
Hashed(x) ==
    LET ids(b) == SetToSortSeq({id \in DOMAIN x : Bucket(id) = b}, LAMBDA i, j : i < j)
        sum(b) == FSum([i \in DOMAIN ids(b) |-> FMul(Sign(ids(b)[i]), x[ids(b)[i]])])
        output == [b \in 0..(Dimension - 1) |-> sum(b)]
    IN  IF SparseIsValid(x) /\ SparseIsValid(output) THEN Done(output) ELSE Refused(<<>>)

-----------------------------------------------------------------------------
(* FtrlParam                                                               *)

NewParam == [z |-> 0, n |-> 0]

FtrlDenominator(p) == FAdd(FtrlL2, FDiv(FAdd(FtrlBeta, FSqrt(p.n)), FtrlAlpha))

\* weight: nothing within the L1 threshold.
FtrlWeight(p) ==
    IF FAtMost(FAbs(p.z), FtrlL1) THEN 0
    ELSE FDiv(FNeg(FSub(p.z, IF p.z < 0 THEN -FtrlL1 ELSE FtrlL1)), FtrlDenominator(p))

\* intercept_weight: there is no threshold.
InterceptWeight(p) == IF p.n = 0 THEN 0 ELSE FDiv(FNeg(p.z), FtrlDenominator(p))

FtrlSigma(p, n) == FDiv(FSub(FSqrt(n), FSqrt(p.n)), FtrlAlpha)

\* The parameter with a new n. NaN passes on whatever is not finite on the way.
FtrlMoved(p, n, gradient, weight) ==
    [z |-> FAdd(p.z, OrNaN(FSub(gradient, OrNaN(FMul(OrNaN(FtrlSigma(p, n)), weight))))), n |-> n]

FtrlKept(p, next) == IF IsFinite(next.z) /\ IsFinite(next.n) THEN Done(next) ELSE Refused(p)

\* Defect: a gradient whose square is lost moves z and leaves n.
FtrlNextUnderflow(p, gradient, weight) ==
    FtrlKept(p, FtrlMoved(p, FAdd(p.n, FMul(gradient, gradient)), gradient, weight))

\* next_updated. A gradient whose square is lost to underflow is an error: it
\* would move z and leave n.
FtrlNext(p, gradient, weight) ==
    LET square == FMul(gradient, gradient)
    IN  IF gradient # 0 /\ square = 0 THEN Refused(p)
        ELSE FtrlKept(p, FtrlMoved(p, FAdd(p.n, square), gradient, weight))

ParamIsValid(p) == IsFinite(p.z) /\ IsFinite(p.n) /\ p.n >= 0 /\ (p.n = 0 => p.z = 0)

-----------------------------------------------------------------------------
(* FtrlRegressor and FtrlClassifier                                        *)

NewFtrl == [params |-> [id \in {} |-> NewParam], intercept |-> NewParam, samples |-> 0]

ParamOf(m, id) == IF id \in DOMAIN m.params THEN m.params[id] ELSE NewParam

\* predict_inner: features the model does not know add nothing. NaN is an error.
FtrlPredict(m, x) ==
    LET known == SetToSortSeq(DOMAIN x \cap DOMAIN m.params, LAMBDA i, j : i < j)
        dot   == CheckedSum([i \in DOMAIN known |-> FMul(FtrlWeight(m.params[known[i]]), x[known[i]])])
    IN  IF DOMAIN x = {} THEN NaN
        ELSE OrNaN(FAdd(dot, OrNaN(InterceptWeight(m.intercept))))

NewIds(m, x) == DOMAIN x \ DOMAIN m.params

\* New features are accepted all or none.
Overfull(m, x) == Cardinality(DOMAIN m.params) + Cardinality(NewIds(m, x)) > MaxFeatures

Learnable(m, x) == IF Overfull(m, x) THEN DOMAIN x \ NewIds(m, x) ELSE DOMAIN x

\* What becomes of the parameters of x that can learn.
FtrlTaught(m, x, gradient) ==
    [id \in Learnable(m, x) |->
        FtrlNext(ParamOf(m, id), OrNaN(FMul(gradient, x[id])), FtrlWeight(ParamOf(m, id)))]

\* Every parameter is computed, and its next weight found finite, before the first
\* is assigned.
FtrlAssigned(m, taught, intercept) ==
    IF /\ intercept.ok /\ IsFinite(InterceptWeight(intercept.state))
       /\ \A id \in DOMAIN taught : taught[id].ok /\ IsFinite(FtrlWeight(taught[id].state))
    THEN Done([params |-> [id \in DOMAIN m.params \cup DOMAIN taught |->
                              IF id \in DOMAIN taught THEN taught[id].state ELSE m.params[id]],
               intercept |-> intercept.state, samples |-> m.samples + 1])
    ELSE Refused(m)

\* What follows the gradient in learn; a prediction that is an error makes it NaN.
FtrlStep(m, x, gradient) ==
    IF (Overfull(m, x) /\ NewFeaturePolicy = "reject") \/ ~IsFinite(gradient) THEN Refused(m)
    ELSE FtrlAssigned(m, FtrlTaught(m, x, gradient),
                      FtrlNext(m.intercept, gradient, InterceptWeight(m.intercept)))

FtrlLearn(m, x, target) ==
    IF IsFinite(target) /\ CanCount(m.samples)
    THEN FtrlStep(m, x, FSub(FtrlPredict(m, x), target)) ELSE Refused(m)

FtrlClassifierLearn(m, x, target) ==
    IF CanCount(m.samples)
    THEN FtrlStep(m, x, FSub(Logistic(FtrlPredict(m, x)), IF target THEN Unit ELSE 0))
    ELSE Refused(m)

\* weight_checked and intercept_weight_checked
HasWeight(p, weight) == IsFinite(FtrlDenominator(p)) /\ FtrlDenominator(p) # 0 /\ IsFinite(weight)

\* validate_invariants: every parameter has a weight that can be computed.
FtrlIsValid(m) ==
    /\ Cardinality(DOMAIN m.params) <= MaxFeatures
    /\ \A id \in DOMAIN m.params :
          LET p == m.params[id]
          IN  ParamIsValid(p) /\ (FAbs(p.z) <= FtrlL1 \/ HasWeight(p, FtrlWeight(p)))
    /\ ParamIsValid(m.intercept)
    /\ m.intercept.n = 0 \/ HasWeight(m.intercept, InterceptWeight(m.intercept))
=============================================================================
