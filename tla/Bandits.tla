------------------------------- MODULE Bandits -------------------------------
(***************************************************************************)
(* The bandits of src/bandit: EpsilonGreedy, Ucb1, ThompsonSampling, LinUcb *)
(* and LinUcbFast. select reads the state, update changes it; the caller   *)
(* connects them. What a random number generator decides is a set here:    *)
(* the arms that select may return.                                        *)
(***************************************************************************)
EXTENDS SmallFloat

CONSTANTS
    Arms,                                \* 0..(arm_count - 1)
    Epsilon0, EpsilonDecay, MinEpsilon,  \* EpsilonGreedyConfig
    Exploration,                         \* exploration_constant of Ucb1
    AlphaPrior, BetaPrior,               \* ThompsonConfig
    LinAlpha, ContextSize,               \* alpha and feature_count of LinUcb
    PosteriorTolerance,                  \* 1 / PosteriorTolerance is 1e-9
    LnOfCount(_)                         \* ln of a number of samples

ASSUME BanditAssumption ==
    /\ IsFiniteSet(Arms) /\ Arms = 0..(Cardinality(Arms) - 1) /\ Arms # {}
    /\ 0 <= MinEpsilon /\ MinEpsilon <= Epsilon0 /\ Epsilon0 <= Unit
    /\ 0 < EpsilonDecay /\ EpsilonDecay <= Unit
    /\ {MinEpsilon, Epsilon0, EpsilonDecay} \subseteq Floats
    /\ \A p \in {Exploration, AlphaPrior, BetaPrior, LinAlpha} : IsFinite(p) /\ 0 < p
    /\ ContextSize \in Nat \ {0} /\ PosteriorTolerance \in Nat \ {0}

\* validate_reward_01
RewardIsUnit(r) == IsFinite(r) /\ 0 <= r /\ r <= Unit

Pulls(b) ==
    LET sum[n \in 0..Cardinality(Arms)] == IF n = 0 THEN 0 ELSE sum[n - 1] + b.pulls[n - 1]
    IN  sum[Cardinality(Arms)]

\* validate_sample_count, the sum checked for overflow.
PullsMatchSamples(b) == Pulls(b) <= MaxCount /\ Pulls(b) = b.samples

\* The pulls and rewards that EpsilonGreedy, Ucb1 and ThompsonSampling keep.
NewArms == [pulls |-> [a \in Arms |-> 0], rewards |-> [a \in Arms |-> 0], samples |-> 0]

Rewarded(b, arm, reward) ==
    [b EXCEPT !.pulls[arm] = @ + 1, !.rewards[arm] = FAdd(@, reward), !.samples = @ + 1]

CanReward(b, arm, reward) ==
    /\ arm \in Arms
    /\ CanCount(b.pulls[arm]) /\ CanCount(b.samples)
    /\ IsFinite(FAdd(b.rewards[arm], reward))

\* The arm whose value is largest, the first of equals; 0 if all are -infinity.
FirstBest(Value(_)) ==
    LET usable == {p \in {<<Value(a), a>> : a \in Arms} : p[1] \notin {NegInf, NaN}}
    IN  IF usable = {} THEN 0
        ELSE (CHOOSE p \in usable :
                \A q \in usable : q[1] < p[1] \/ (q[1] = p[1] /\ p[2] <= q[2]))[2]

ArmMean(b, arm) == FDiv(b.rewards[arm], OfInt(b.pulls[arm]))

-----------------------------------------------------------------------------
(* EpsilonGreedy                                                           *)

NewGreedy == [arms |-> NewArms, epsilon |-> Epsilon0]

BestArm(g) == FirstBest(LAMBDA a : IF g.arms.pulls[a] > 0 THEN ArmMean(g.arms, a) ELSE NegInf)

\* r < epsilon explores, for an r in [0, 1).
GreedySelect(g) ==
    IF \A a \in Arms : g.arms.pulls[a] = 0 THEN Arms
    ELSE (IF g.epsilon > 0 THEN Arms ELSE {}) \cup (IF g.epsilon < Unit THEN {BestArm(g)} ELSE {})

Decayed(epsilon) ==
    IF EpsilonDecay < Unit THEN Higher(FMul(epsilon, EpsilonDecay), MinEpsilon) ELSE epsilon

GreedyUpdate(g, arm, reward) ==
    IF IsFinite(reward) /\ CanReward(g.arms, arm, reward)
    THEN Done([arms |-> Rewarded(g.arms, arm, reward), epsilon |-> Decayed(g.epsilon)])
    ELSE Refused(g)

GreedyIsValid(g) ==
    /\ \A a \in Arms : IsFinite(g.arms.rewards[a])
    /\ PullsMatchSamples(g.arms)
    /\ MinEpsilon <= g.epsilon /\ g.epsilon <= Epsilon0

-----------------------------------------------------------------------------
(* Ucb1                                                                    *)

\* ucb_value of an arm that has been pulled.
UcbValue(b, arm) ==
    LET bonus == FSqrt(FDiv(FMul(2 * Unit, LnOfCount(b.samples)), OfInt(b.pulls[arm])))
    IN  FAdd(ArmMean(b, arm), FMul(Exploration, bonus))

\* Defect: an arm that was never pulled is worth nothing.
UcbSelectKnown(b) == {FirstBest(LAMBDA a : IF b.pulls[a] = 0 THEN 0 ELSE UcbValue(b, a))}

\* An arm that was never pulled comes first.
UcbSelect(b) ==
    LET unexplored == {a \in Arms : b.pulls[a] = 0}
    IN  IF unexplored # {} THEN unexplored ELSE {FirstBest(LAMBDA a : UcbValue(b, a))}

UcbUpdate(b, arm, reward) ==
    IF RewardIsUnit(reward) /\ CanReward(b, arm, reward)
    THEN Done(Rewarded(b, arm, reward)) ELSE Refused(b)

UcbIsValid(b) ==
    /\ PullsMatchSamples(b)
    /\ \A a \in Arms : 0 <= b.rewards[a] /\ b.rewards[a] <= OfInt(b.pulls[a])

-----------------------------------------------------------------------------
(* ThompsonSampling: the parameters of a beta distribution per arm; any arm *)
(* may be drawn.                                                           *)

NewThompson ==
    [arms |-> NewArms, alphas |-> [a \in Arms |-> AlphaPrior], betas |-> [a \in Arms |-> BetaPrior]]

ThompsonUpdate(t, arm, reward) ==
    LET success == FAdd(t.alphas[arm], reward)
        failure == FAdd(t.betas[arm], FSub(Unit, reward))
    IN  IF /\ RewardIsUnit(reward) /\ CanReward(t.arms, arm, reward)
           /\ IsFinite(success) /\ IsFinite(failure)
        THEN Done([arms |-> Rewarded(t.arms, arm, reward),
                   alphas |-> [t.alphas EXCEPT ![arm] = success],
                   betas |-> [t.betas EXCEPT ![arm] = failure]])
        ELSE Refused(t)

\* The posterior is compared with what pulls and rewards say it should be.
NearPosterior(value, expected) ==
    Magnitude(value - expected) * PosteriorTolerance <= Higher(Unit, Magnitude(expected))

ThompsonIsValid(t) ==
    /\ PullsMatchSamples(t.arms)
    /\ \A a \in Arms :
          LET pulls == OfInt(t.arms.pulls[a])
              total == t.arms.rewards[a]
          IN  /\ 0 <= total /\ total <= pulls
              /\ IsFinite(t.alphas[a]) /\ IsFinite(t.betas[a])
              /\ NearPosterior(t.alphas[a], FAdd(AlphaPrior, total))
              /\ NearPosterior(t.betas[a], FSub(FAdd(BetaPrior, pulls), total))

-----------------------------------------------------------------------------
(* Vectors and matrices. NaN in a result stands for an error.              *)

Dims == 1..ContextSize

Identity == [i \in Dims |-> [j \in Dims |-> IF i = j THEN Unit ELSE 0]]

IsVector(v) == \A i \in Dims : IsFinite(v[i])

CheckedDot(v, w) == CheckedSum([i \in Dims |-> FMul(v[i], w[i])])

Product(M, v) == [i \in Dims |-> CheckedDot(M[i], v)]

\* cholesky_factor: the lower factor, NaN on the diagonal where there is none.
Cholesky(M) ==
    LET L[p \in Dims \X Dims] ==
            LET i == p[1]
                j == p[2]
                residual == FSub(M[i][j], CheckedSum([k \in 1..(j - 1) |-> FMul(L[<<i, k>>], L[<<j, k>>])]))
            IN  IF j > i THEN 0
                ELSE IF i # j THEN OrNaN(FDiv(residual, L[<<j, j>>]))
                ELSE IF IsFinite(residual) /\ residual > 0 THEN FSqrt(residual) ELSE NaN
    IN  [i \in Dims |-> [j \in Dims |-> L[<<i, j>>]]]

HasFactor(M) ==
    LET L == Cholesky(M) IN \A i \in Dims : \A j \in 1..i : L[i][j] # NaN

\* cholesky_solve: forward, then backward substitution.
Solved(L, rhs) ==
    LET y[i \in Dims] ==
            OrNaN(FDiv(FSub(rhs[i], CheckedSum([k \in 1..(i - 1) |-> FMul(L[i][k], y[k])])), L[i][i]))
        x[i \in Dims] ==
            LET later == [k \in 1..(ContextSize - i) |-> FMul(L[i + k][i], x[i + k])]
            IN  OrNaN(FDiv(FSub(y[i], CheckedSum(later)), L[i][i]))
    IN  [i \in Dims |-> x[i]]

-----------------------------------------------------------------------------
(* LinUcb: per arm a matrix A and a vector b; A theta = b                  *)

ContextIsValid(x) == Len(x) = ContextSize /\ IsVector(x)

NewLinUcb ==
    [matrices |-> [a \in Arms |-> Identity], vectors |-> [a \in Arms |-> [i \in Dims |-> 0]],
     samples |-> 0]

\* The reward an arm promises plus the bonus for what is not known of it.
Score(exploitation, variance) ==
    LET bonus == FMul(LinAlpha, FSqrt(Higher(variance, 0)))
    IN  IF NaN \in {exploitation, variance} \/ ~IsFinite(bonus) THEN NaN
        ELSE OrNaN(FAdd(exploitation, bonus))

LinScore(u, arm, x) ==
    LET L == Cholesky(u.matrices[arm])
    IN  IF ~HasFactor(u.matrices[arm]) THEN NaN
        ELSE Score(CheckedDot(Solved(L, u.vectors[arm]), x), CheckedDot(x, Solved(L, x)))

\* select: any of the best arms; select_deterministic: the first of them.
SelectAmong(scores) == {a \in Arms : \A c \in Arms : ~FLess(scores[a], scores[c])}
SelectFirst(scores) == FirstBest(LAMBDA a : scores[a])

LinScores(u, x) == [a \in Arms |-> LinScore(u, a, x)]

NextVector(v, x, reward) == [i \in Dims |-> FAdd(v[i], FMul(reward, x[i]))]

\* update: an A that would have no factor any more is refused.
LinUpdate(u, arm, x, reward) ==
    LET A == [i \in Dims |-> [j \in Dims |-> FAdd(u.matrices[arm][i][j], FMul(x[i], x[j]))]]
        b == NextVector(u.vectors[arm], x, reward)
    IN  IF /\ arm \in Arms /\ ContextIsValid(x) /\ IsFinite(reward) /\ CanCount(u.samples)
           /\ \A i \in Dims : IsVector(A[i])
           /\ IsVector(b) /\ HasFactor(A)
        THEN Done([matrices |-> [u.matrices EXCEPT ![arm] = A],
                   vectors |-> [u.vectors EXCEPT ![arm] = b], samples |-> u.samples + 1])
        ELSE Refused(u)

MatrixIsValid(M, Symmetric(_, _)) ==
    /\ \A i \in Dims : IsVector(M[i])
    /\ \A i, j \in Dims : j < i => Symmetric(M[i][j], M[j][i])
    /\ HasFactor(M)

LinUcbIsValid(u) ==
    \A a \in Arms : IsVector(u.vectors[a]) /\ MatrixIsValid(u.matrices[a], LAMBDA l, r : l = r)

-----------------------------------------------------------------------------
(* LinUcbFast: the inverse of A, updated by Sherman and Morrison's formula *)

\* inverse_from_cholesky: column by column, then made symmetric.
InverseOf(M) ==
    LET column == [c \in Dims |-> Solved(Cholesky(M), Identity[c])]
        mean(i, j) == FDiv(FAdd(column[j][i], column[i][j]), 2 * Unit)
    IN  [i \in Dims |-> [j \in Dims |-> IF i = j THEN column[i][i] ELSE mean(i, j)]]

\* from_linucb; u has been validated.
FastFrom(u) == [u EXCEPT !.matrices = [a \in Arms |-> InverseOf(@[a])]]

FastScore(u, arm, x) ==
    Score(CheckedDot(Product(u.matrices[arm], u.vectors[arm]), x),
          CheckedDot(x, Product(u.matrices[arm], x)))

FastScores(u, x) == [a \in Arms |-> FastScore(u, a, x)]

\* Defect: the correction is not divided.
NextInverseUnscaled(M, projected, denominator) ==
    [i \in Dims |-> [j \in Dims |-> FSub(M[i][j], FMul(projected[i], projected[j]))]]

\* The upper triangle of the next inverse, mirrored.
NextInverse(M, projected, denominator) ==
    LET entry(i, j) == FSub(M[i][j], FDiv(FMul(projected[i], projected[j]), denominator))
    IN  [i \in Dims |-> [j \in Dims |-> IF j < i THEN entry(j, i) ELSE entry(i, j)]]

\* update refuses a next inverse without a positive diagonal; it does not ask
\* for a factor. The tolerances of 1e-12 are below the smallest number here.
FastUpdate(u, arm, x, reward) ==
    LET M == u.matrices[arm]
        projected   == Product(M, x)
        variance    == CheckedDot(x, projected)
        denominator == FAdd(Unit, variance)
        next        == NextInverse(M, projected, denominator)
        b           == NextVector(u.vectors[arm], x, reward)
    IN  IF /\ arm \in Arms /\ ContextIsValid(x) /\ IsFinite(reward) /\ CanCount(u.samples)
           /\ IsVector(projected) /\ IsFinite(variance) /\ variance >= 0
           /\ IsFinite(denominator) /\ denominator > 0
           /\ \A i \in Dims : IsVector(next[i]) /\ next[i][i] > 0
           /\ IsVector(b)
        THEN Done([matrices |-> [u.matrices EXCEPT ![arm] = next],
                   vectors |-> [u.vectors EXCEPT ![arm] = b], samples |-> u.samples + 1])
        ELSE Refused(u)

FastIsValid(u) ==
    \A a \in Arms : IsVector(u.vectors[a]) /\ MatrixIsValid(u.matrices[a], LAMBDA l, r : l = r)
=============================================================================
