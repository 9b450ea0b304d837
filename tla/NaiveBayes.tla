----------------------------- MODULE NaiveBayes -----------------------------
(***************************************************************************)
(* The naive Bayes classifiers of src/models/naive_bayes.rs. Each keeps    *)
(* the same statistics for the class FALSE and the class TRUE; learning    *)
(* computes the next statistics of one class before it assigns any.        *)
(***************************************************************************)
EXTENDS LinearModels, OnlineStatistics

CONSTANTS
    Smoothing,        \* alpha
    TotalTolerance,   \* 1 / TotalTolerance is the relative error of MULTINOMIAL_TOTAL_RTOL
    HalfLnTwoPi,      \* 0.5 * ln(2 pi)
    Ln(_)             \* the natural logarithm: -infinity at zero

ASSUME NaiveBayesAssumption ==
    /\ IsFinite(Smoothing) /\ 0 < Smoothing
    /\ TotalTolerance \in Nat \ {0}

\* Defect: the logarithm of zero is an error.
IsLogFinite(x) == IsFinite(x)

\* ensure_log_domain: a logarithm may be -infinity, but not +infinity.
IsLog(x) == x # NaN /\ x # Inf

\* validate_non_negative
CountsAreValid(x) == FeaturesAreValid(x) /\ \A i \in Features : x[i] >= 0

PerClass(stats) == [class \in BOOLEAN |-> stats]

ClassTotal(m) == m.classes[FALSE].count + m.classes[TRUE].count

\* What learn does once the statistics of the class are computed.
Learned(m, class, stats) ==
    IF CanCount(m.classes[class].count) /\ CanCount(m.samples)
    THEN Done([m EXCEPT !.classes[class] = [stats EXCEPT !.count = @ + 1], !.samples = @ + 1])
    ELSE Refused(m)

ClassesMatchSamples(m) == ClassTotal(m) <= MaxCount /\ ClassTotal(m) = m.samples

-----------------------------------------------------------------------------
(* predict_proba: the posterior from the logarithms of prior and likelihood *)

LogPrior(m, class) == Ln(FDiv(OfInt(m.classes[class].count), OfInt(ClassTotal(m))))

\* checked_log_add over the features, NaN for an error.
LogSum(first, terms) ==
    LET step(sum, term) ==
            IF sum # NaN /\ IsLog(term) /\ IsLog(FAdd(sum, term)) THEN FAdd(sum, term) ELSE NaN
    IN  FoldLeft(step, first, terms)

\* Terms(class) are the log-likelihoods of the features. A class may be minus
\* infinitely likely; if both are, as for features so large that every
\* likelihood overflows, there is no answer.
Posterior(m, Terms(_)) ==
    LET posterior(class) == LogSum(LogPrior(m, class), <<LogSum(0, Terms(class))>>)
        odds == FSub(posterior(TRUE), posterior(FALSE))
    IN  IF m.samples = 0 THEN Unit \div 2
        ELSE IF odds = NaN THEN NaN ELSE Sigmoid(odds)

-----------------------------------------------------------------------------
(* GaussianNaiveBayes: a Welford variance per class and feature            *)

NewGaussian ==
    [classes |-> PerClass([count |-> 0, features |-> [i \in Features |-> NewVariance]]),
     samples |-> 0]

GaussianLearn(m, x, class) ==
    LET next == [i \in Features |-> VarianceUpdate(m.classes[class].features[i], x[i])]
    IN  IF FeaturesAreValid(x) /\ \A i \in Features : next[i].ok
        THEN Learned(m, class, [m.classes[class] EXCEPT
                                    !.features = [i \in Features |-> next[i].state]])
        ELSE Refused(m)

\* gaussian_log_pdf; a class that has not seen two samples says nothing.
GaussianLogPdf(x, s) ==
    LET variance == IF s.count < 2 THEN 0 ELSE FDiv(s.m2, OfInt(s.count))
        z        == FDiv(FSub(x, s.mean), FSqrt(variance))
    IN  IF variance <= 0 THEN 0
        ELSE FSub(FSub(FMul(-Unit \div 2, FMul(z, z)), Ln(FSqrt(variance))), HalfLnTwoPi)

GaussianTerms(m, x, class) ==
    [i \in Features |-> GaussianLogPdf(x[i], m.classes[class].features[i])]

GaussianPredict(m, x) ==
    IF FeaturesAreValid(x) THEN Posterior(m, LAMBDA class : GaussianTerms(m, x, class)) ELSE NaN

\* validate_invariants of the model and of its class statistics.
GaussianIsValid(m) ==
    /\ ClassesMatchSamples(m)
    /\ \A class \in BOOLEAN, i \in Features :
          LET s == m.classes[class].features[i]
              n == m.classes[class].count
          IN  /\ s.count = n /\ VarianceIsValid(s)
              /\ n = 0 => s.mean = 0
              /\ n <= 1 => s.m2 = 0

-----------------------------------------------------------------------------
(* BernoulliNaiveBayes: how often a feature was on                         *)

NewBernoulli ==
    [classes |-> PerClass([count |-> 0, on |-> [i \in Features |-> 0]]), samples |-> 0]

IsOn(x) == 2 * x > Unit

BernoulliLearn(m, x, class) ==
    LET stats == m.classes[class]
        next  == [i \in Features |-> IF IsOn(x[i]) THEN stats.on[i] + 1 ELSE stats.on[i]]
    IN  IF CountsAreValid(x) /\ \A i \in Features : next[i] <= MaxCount
        THEN Learned(m, class, [stats EXCEPT !.on = next])
        ELSE Refused(m)

\* A feature is taken as it is, not as on or off.
LogBernoulli(x, p) == FAdd(FMul(x, Ln(p)), FMul(FSub(Unit, x), Ln(FSub(Unit, p))))

BernoulliTerms(m, x, class) ==
    LET p(i) == FDiv(FAdd(OfInt(m.classes[class].on[i]), Smoothing),
                     FAdd(OfInt(m.classes[class].count), FMul(2 * Unit, Smoothing)))
    IN  [i \in Features |-> LogBernoulli(x[i], p(i))]

BernoulliPredict(m, x) ==
    IF CountsAreValid(x) THEN Posterior(m, LAMBDA class : BernoulliTerms(m, x, class)) ELSE NaN

BernoulliIsValid(m) ==
    /\ ClassesMatchSamples(m)
    /\ \A class \in BOOLEAN, i \in Features : m.classes[class].on[i] <= m.classes[class].count

-----------------------------------------------------------------------------
(* MultinomialNaiveBayes: sums of the features and a cached total of them  *)

NewMultinomial ==
    [classes |-> PerClass([count |-> 0, sums |-> [i \in Features |-> 0], total |-> 0]),
     samples |-> 0]

MultinomialLearn(m, x, class) ==
    LET stats == m.classes[class]
        sums  == [i \in Features |-> FAdd(stats.sums[i], x[i])]
        total == FoldLeft(FAdd, stats.total, x)
    IN  IF CountsAreValid(x) /\ AllFinite(sums) /\ IsFinite(total)
        THEN Learned(m, class, [stats EXCEPT !.sums = sums, !.total = total])
        ELSE Refused(m)

MultinomialTerms(m, x, class) ==
    LET p(i) == FDiv(FAdd(m.classes[class].sums[i], Smoothing),
                     FAdd(m.classes[class].total, FMul(Smoothing, OfInt(FeatureCount))))
    IN  [i \in Features |-> FMul(x[i], Ln(p(i)))]

MultinomialPredict(m, x) ==
    IF CountsAreValid(x) THEN Posterior(m, LAMBDA class : MultinomialTerms(m, x, class)) ELSE NaN

\* approx_equal_non_negative
ApproximatelyEqual(a, b) ==
    /\ IsFinite(a) /\ IsFinite(b)
    /\ Magnitude(a - b) * TotalTolerance <= Higher(Magnitude(a), Magnitude(b))

MultinomialIsValid(m) ==
    /\ ClassesMatchSamples(m)
    /\ \A class \in BOOLEAN :
          LET stats == m.classes[class]
          IN  /\ AllFinite(stats.sums) /\ IsFinite(stats.total)
              /\ stats.total >= 0 /\ \A i \in Features : stats.sums[i] >= 0
              /\ ApproximatelyEqual(FSum(stats.sums), stats.total)
=============================================================================
