---------------------------- MODULE LinearModels ----------------------------
(***************************************************************************)
(* Losses, optimisers and the models linear in their features: src/loss,   *)
(* src/optim, src/models/{linear,logistic}_regression.rs. A step computes  *)
(* every new parameter before it assigns the first, so that an overflow in *)
(* any of them leaves model and optimiser as they were.                    *)
(***************************************************************************)
EXTENDS FeatureVectors

CONSTANTS
    Rate, Ridge, Epsilon,       \* learning_rate, l2 and AdaGrad's epsilon
    HuberDelta,                 \* HuberLoss
    Sigmoid(_)                  \* the logistic function

ASSUME LinearAssumption ==
    /\ {Rate, Ridge, Epsilon, HuberDelta} \subseteq Floats
    /\ IsFinite(Rate) /\ 0 < Rate /\ IsFinite(Ridge) /\ 0 <= Ridge
    /\ IsFinite(Epsilon) /\ 0 < Epsilon /\ IsFinite(HuberDelta) /\ 0 < HuberDelta
    /\ Sigmoid(NaN) = NaN /\ \A x \in (-Largest)..Largest : Sigmoid(x) \in Floats

-----------------------------------------------------------------------------
(* Losses                                                                  *)

\* RegressionLoss::gradient
Gradient(loss, prediction, target) ==
    LET residual == FSub(prediction, target)
    IN  IF loss = "squared" \/ FAtMost(FAbs(residual), HuberDelta) \/ residual = NaN THEN residual
        ELSE IF residual < 0 THEN -HuberDelta ELSE HuberDelta

\* BinaryLogLoss::gradient_wrt_logit
LogitGradient(probability, target) == FSub(probability, IF target THEN Unit ELSE 0)

-----------------------------------------------------------------------------
(* Optimisers                                                              *)

NewOptimizer(kind) ==
    [kind |-> kind, samples |-> 0,
     squares |-> [i \in Features |-> 0], interceptSquares |-> 0]

\* AdaGrad's sums of squares after one more gradient.
Accumulated(o, gradients, gradient) ==
    [o EXCEPT !.squares = [i \in Features |-> FAdd(@[i], FMul(gradients[i], gradients[i]))],
              !.interceptSquares = FAdd(@, FMul(gradient, gradient))]

\* The learning rate, which AdaGrad divides and Sgd keeps.
Step(o, squares) ==
    IF o.kind = "sgd" THEN Rate ELSE FDiv(Rate, FSqrt(FAdd(squares, Epsilon)))

\* The parameters after a step. The intercept is not regularised.
Moved(o, p, gradients, gradient) ==
    [weights |-> [i \in Features |->
        FSub(p.weights[i],
             FMul(Step(o, o.squares[i]), FAdd(gradients[i], FMul(Ridge, p.weights[i]))))],
     intercept |-> FSub(p.intercept, FMul(Step(o, o.interceptSquares), gradient))]

AreFinite(p) == AllFinite(p.weights) /\ IsFinite(p.intercept)

\* What Optimizer::step does with parameters p and sums next of o.
StepTaken(o, next, p) ==
    IF /\ CanCount(o.samples) /\ AreFinite(p)
       /\ o.kind = "adagrad" => AllFinite(next.squares) /\ IsFinite(next.interceptSquares)
    THEN [ok |-> TRUE, parameters |-> p,
          optimizer |-> [(IF o.kind = "sgd" THEN o ELSE next) EXCEPT !.samples = @ + 1]]
    ELSE [ok |-> FALSE]

\* Optimizer::step on the parameters p = [weights, intercept].
OptimizerStep(o, p, gradients, gradient) ==
    LET next == Accumulated(o, gradients, gradient)
    IN  IF AllFinite(gradients) /\ IsFinite(gradient)
        THEN StepTaken(o, next, Moved(next, p, gradients, gradient))
        ELSE [ok |-> FALSE]

\* validate_state of Sgd and AdaGrad.
OptimizerIsValid(o) ==
    /\ AllFinite(o.squares) /\ IsFinite(o.interceptSquares)
    /\ \A i \in Features : o.squares[i] >= 0
    /\ o.interceptSquares >= 0

-----------------------------------------------------------------------------
(* LinearRegression and LogisticRegression                                 *)

NewLinear(kind) ==
    [weights |-> [i \in Features |-> 0], intercept |-> 0, samples |-> 0,
     optimizer |-> NewOptimizer(kind)]

\* weights * features + intercept, NaN if a term or a sum is not finite.
Dot(p, x) == OrNaN(FAdd(CheckedSum([i \in Features |-> FMul(p.weights[i], x[i])]), p.intercept))

\* The model after the step of its optimiser.
Adopted(m, stepped) ==
    IF stepped.ok
    THEN Done([m EXCEPT !.weights = stepped.parameters.weights,
                        !.intercept = stepped.parameters.intercept,
                        !.optimizer = stepped.optimizer, !.samples = @ + 1])
    ELSE Refused(m)

\* What follows the gradient in learn and learn_weighted. A gradient that is not
\* finite is refused, and so is one that comes of a prediction that is not.
Descend(m, x, gradient) ==
    Adopted(m, OptimizerStep(m.optimizer, [weights |-> m.weights, intercept |-> m.intercept],
                             [i \in Features |-> FMul(gradient, x[i])], gradient))

\* LinearRegression::learn_weighted; learn is the case of weight 1.0. A sample
\* without weight is not counted.
LinearLearn(loss, m, x, target, weight) ==
    IF ~WeightIsValid(weight) \/ ~FeaturesAreValid(x) \/ ~IsFinite(target) THEN Refused(m)
    ELSE IF weight = 0 THEN Done(m)
    ELSE IF ~CanCount(m.samples) THEN Refused(m)
    ELSE Descend(m, x, FMul(Gradient(loss, Dot(m, x), target), weight))

LinearPredict(m, x) == IF FeaturesAreValid(x) THEN Dot(m, x) ELSE NaN

\* LogisticRegression::learn_weighted
LogisticLearn(m, x, target, weight) ==
    IF ~WeightIsValid(weight) \/ ~FeaturesAreValid(x) THEN Refused(m)
    ELSE IF weight = 0 THEN Done(m)
    ELSE IF ~CanCount(m.samples) THEN Refused(m)
    ELSE Descend(m, x, FMul(LogitGradient(Sigmoid(Dot(m, x)), target), weight))

\* validate_state of both.
LinearIsValid(m) == AreFinite(m) /\ OptimizerIsValid(m.optimizer)
=============================================================================
