---------------------------- MODULE MomentProofs ----------------------------
(***************************************************************************)
(* Machine-checked proofs about the numbers that the statistics, metrics   *)
(* and detectors of Monitoring keep, for every floating-point format and   *)
(* every stream: the means stay in the range of what they took however     *)
(* their updates round, the rates are shares, and what is saved is accepted*)
(* again. MomentInv says what each kind of object keeps of its inputs.     *)
(***************************************************************************)
EXTENDS MonitoringProofs

-----------------------------------------------------------------------------
(* Exponentially weighted means, and those of errors.                      *)

EwHolds(d) == d.count \in Nat /\ FiniteFloat(d.mean)

LEMMA EwTakes ==
    ASSUME NEW d, EwHolds(d), NEW x \in Floats
    PROVE  LET r == EwMeanUpdate(d, x)
           IN  /\ EwHolds(r.state)
               /\ ~r.ok => r.state = d
               /\ x >= 0 /\ d.mean >= 0 => r.state.mean >= 0
<1> DEFINE b == FSub(Unit, EwAlpha)
           p == FMul(EwAlpha, x)
           q == FMul(b, d.mean)
           mean == IF d.count = 0 THEN x ELSE FAdd(p, q)
           s == [count |-> d.count + 1, mean |-> mean]
<1>1. /\ Unit \in Floats /\ EwAlpha \in Floats /\ d.mean \in Floats /\ IsFinite(d.mean)
      /\ Unit \in Int /\ EwAlpha \in Int /\ d.mean \in Int /\ 0 < EwAlpha /\ EwAlpha <= Unit
      /\ d.count \in Nat
  BY StatisticsAssumption, ConstantsAreFloats, FiniteFloats DEF EwHolds, FiniteFloat
<1>2. b \in Floats /\ p \in Floats /\ q \in Floats /\ mean \in Floats
  BY <1>1, DifferenceIsFloat, ProductIsFloat, SumIsFloat
<1>3. IsFinite(EwAlpha) /\ Largest \in Nat
  BY <1>1, ConstantsAreFloats, FormatAssumption DEF IsFinite
<1>4. IsFinite(b) /\ b >= 0 /\ b \in Int
  <2>1. b \in Int /\ b <= Unit /\ b >= 0
    <3>1. Unit - EwAlpha <= Unit /\ Unit - EwAlpha >= 0
      BY <1>1
    <3> QED
      BY <1>1, <1>3, <3>1, DifferenceBounds, ConstantsAreFloats
  <2> QED
    BY <1>1, <1>3, <2>1, ConstantsAreFloats DEF IsFinite
<1>5. EwMeanUpdate(d, x) = (IF IsFinite(x) /\ CanCount(d.count) /\ IsFinite(mean)
                            THEN Done(s) ELSE Refused(d))
  BY DEF EwMeanUpdate
<1>6. ASSUME IsFinite(x), IsFinite(mean), x >= 0, d.mean >= 0
      PROVE  mean >= 0
  <2>1. CASE d.count = 0
    BY <1>6, <2>1
  <2>2. CASE d.count # 0
    <3>1. mean = FAdd(p, q)
      BY <2>2
    <3>2. IsFinite(p) /\ IsFinite(q)
      BY <1>2, <1>6, <3>1, FiniteSum
    <3>3. p >= 0
      <4>1. x \in Int
        BY FiniteFloats
      <4>2. EwAlpha * x >= 0
        BY <1>1, <1>6, <4>1
      <4> QED
        BY <1>1, <1>3, <1>6, <4>2, ProductSign
    <3>4. q >= 0
      <4> HIDE DEF b
      <4>1. b * d.mean >= 0
        BY <1>1, <1>4, <1>6
      <4> QED
        BY <1>1, <1>2, <1>4, <1>6, <4>1, ProductSign
    <3> QED
      BY <1>2, <3>1, <3>2, <3>3, <3>4, SumSign
  <2> QED
    BY <2>1, <2>2
<1> HIDE DEF mean
<1>7. CASE IsFinite(x) /\ CanCount(d.count) /\ IsFinite(mean)
  <2>1. EwMeanUpdate(d, x) = [ok |-> TRUE, state |-> s]
    BY <1>5, <1>7 DEF Done
  <2>2. s.count = d.count + 1 /\ s.mean = mean
    OBVIOUS
  <2> HIDE DEF s
  <2>3. EwHolds(s) /\ (x >= 0 /\ d.mean >= 0 => s.mean >= 0)
    BY <1>1, <1>2, <1>6, <1>7, <2>2 DEF EwHolds, FiniteFloat
  <2> QED
    BY <2>1, <2>3
<1>8. CASE ~(IsFinite(x) /\ CanCount(d.count) /\ IsFinite(mean))
  <2>1. EwMeanUpdate(d, x) = [ok |-> FALSE, state |-> d]
    BY <1>5, <1>8 DEF Refused
  <2> QED
    BY <2>1
<1> QED
  BY <1>7, <1>8

\* What is taken from one leaves at most one, and what is added at least one.
LEMMA AroundUnit ==
    ASSUME NEW m \in Floats, m >= 0, m # NaN
    PROVE  FSub(Unit, m) <= Unit /\ Unit <= FAdd(Unit, m)
<1>1. /\ Largest \in Nat /\ m \in Int /\ Unit \in Int /\ IsFinite(Unit) /\ Unit \in Floats
      /\ 0 <= Unit /\ Unit <= Largest
  BY FormatAssumption, FiniteFloats, ConstantsAreFloats DEF IsFinite
<1>2. CASE IsFinite(m)
  <2>1. Unit - m <= Unit /\ Unit + m >= Unit
    BY <1>1
  <2> QED
    BY <1>1, <1>2, <2>1, SumBounds, DifferenceBounds
<1>3. CASE ~IsFinite(m)
  <2>1. m > Largest
    BY <1>1, <1>3 DEF IsFinite
  <2>2. Unit # NaN /\ -m # NaN /\ ~IsFinite(-m) /\ FNeg(m) = -m
    BY <1>1, <2>1 DEF NaN, IsFinite, FNeg
  <2>3. Unit # FNeg(m) /\ Unit # FNeg(-m)
    BY <1>1, <2>1 DEF NaN, FNeg
  <2>4. FAdd(Unit, m) = m /\ FAdd(Unit, -m) = -m
    BY <1>1, <1>3, <2>2, <2>3 DEF FAdd
  <2> QED
    BY <1>1, <2>1, <2>2, <2>4 DEF FSub
<1> QED
  BY <1>2, <1>3

\* No product of finite numbers and no quotient by one but zero is NaN.
LEMMA ToFloatIsNumber ==
    ASSUME NEW p \in Int, NEW q \in Nat, q > 0
    PROVE  ToFloat(p, q) # NaN
<1> DEFINE n == NearestMultiple(p, q, Spacing(p, q))
<1>1. n \in Int /\ Largest \in Nat
  BY RoundingIsMonotone, ZeroIsRepresentable, FormatAssumption
<1> HIDE DEF n
<1>2. Bounded(n) # NaN
  BY <1>1 DEF Bounded, Inf, NegInf, NaN
<1> QED
  BY <1>2 DEF ToFloat, n

\* The bounds of an interval lie around the prediction.
LEMMA IntervalIsAround ==
    ASSUME NEW d, EwHolds(d), d.mean >= 0, d.count > 0
    PROVE  Interval(d, Unit).lower <= Unit /\ Unit <= Interval(d, Unit).upper
<1> DEFINE margin == FMul(IntervalWidth, d.mean)
<1>1. /\ IntervalWidth \in Floats /\ IsFinite(IntervalWidth) /\ IntervalWidth > 0
      /\ IntervalWidth \in Int /\ d.mean \in Floats /\ IsFinite(d.mean) /\ d.mean \in Int
      /\ d.count # 0
  BY DiagnosticsAssumption, FiniteFloats DEF EwHolds, FiniteFloat
<1>2. IntervalWidth * d.mean >= 0 /\ IntervalWidth * d.mean \in Int
  BY <1>1
<1>3. margin \in Floats /\ margin >= 0
  BY <1>1, <1>2, ProductSign, ProductIsFloat
<1>4. margin # NaN
  <2>1. margin = ToFloat(IntervalWidth * d.mean, Unit)
    BY <1>1 DEF FMul
  <2> QED
    BY <1>2, <2>1, ToFloatIsNumber, FormatAssumption
<1>5. Interval(d, Unit).lower = FSub(Unit, margin) /\ Interval(d, Unit).upper = FAdd(Unit, margin)
  BY <1>1 DEF Interval
<1> QED
  BY <1>3, <1>4, <1>5, AroundUnit

LEMMA ErrorsAreFloats ==
    ASSUME NEW t \in Floats, NEW p \in Floats
    PROVE  /\ AbsoluteError(t, p) \in Floats /\ AbsoluteError(t, p) >= 0
           /\ SquaredErrorOf(t, p) \in Floats
           /\ IsFinite(SquaredErrorOf(t, p)) => SquaredErrorOf(t, p) >= 0
<1> DEFINE e == FSub(t, p)
<1>1. e \in Floats
  BY DifferenceIsFloat
<1> HIDE DEF e
<1>2. FAbs(e) \in Floats /\ FAbs(e) >= 0 /\ FMul(e, e) \in Floats
      /\ (IsFinite(FMul(e, e)) => FMul(e, e) >= 0)
  BY <1>1, MagnitudeIsFloat, ProductIsFloat, FiniteSquare, SquareSign
<1> QED
  BY <1>2 DEF e, AbsoluteError, SquaredErrorOf

-----------------------------------------------------------------------------
(* R2: squared errors and the variance of the truths.                      *)

R2Holds(d) ==
    /\ VarianceHolds(d.truths)
    /\ FiniteFloat(d.residual) /\ d.residual >= 0
    /\ d.truths.count = 0 => d.residual = 0

LEMMA NewR2Holds == R2Holds(NewR2)
BY NewVarianceHolds, ZeroIsFinite DEF R2Holds, NewR2, NewVariance

LEMMA R2Takes ==
    ASSUME NEW d, R2Holds(d), NEW t \in Floats, NEW p \in Floats
    PROVE  LET r == R2Update(d, t, p)
           IN  R2Holds(r.state) /\ (~r.ok => r.state = d)
<1> DEFINE squared == SquaredErrorOf(t, p)
           truths == VarianceUpdate(d.truths, t)
           residual == FAdd(d.residual, squared)
           s == [truths |-> truths.state, residual |-> residual]
<1>1. R2Update(d, t, p) =
        IF IsFinite(p) /\ IsFinite(squared) /\ truths.ok /\ IsFinite(residual)
        THEN Done(s) ELSE Refused(d)
  BY DEF R2Update
<1>2. squared \in Floats /\ (IsFinite(squared) => squared >= 0)
  BY ErrorsAreFloats
<1>3. /\ VarianceHolds(d.truths) /\ d.truths.count \in Nat
      /\ d.residual \in Floats /\ IsFinite(d.residual) /\ d.residual >= 0
  BY DEF R2Holds, FiniteFloat, VarianceHolds
<1>4. truths.ok => VarianceHolds(truths.state) /\ truths.state.count = d.truths.count + 1
  BY <1>3, VarianceTakes
<1> HIDE DEF squared, truths
<1>5. residual \in Floats
  BY <1>2, <1>3, SumIsFloat
<1>6. CASE IsFinite(p) /\ IsFinite(squared) /\ truths.ok /\ IsFinite(residual)
  <2>1. residual >= 0
    BY <1>2, <1>3, <1>6, SumSign
  <2> HIDE DEF residual
  <2>2. s.truths = truths.state /\ s.residual = residual
    OBVIOUS
  <2> HIDE DEF s
  <2>3. R2Holds(s)
    BY <1>3, <1>4, <1>5, <1>6, <2>1, <2>2 DEF R2Holds, FiniteFloat
  <2>4. R2Update(d, t, p) = [ok |-> TRUE, state |-> s]
    BY <1>1, <1>6 DEF Done
  <2> QED
    BY <2>3, <2>4
<1>7. CASE ~(IsFinite(p) /\ IsFinite(squared) /\ truths.ok /\ IsFinite(residual))
  <2> R2Update(d, t, p) = [ok |-> FALSE, state |-> d]
    BY <1>1, <1>7 DEF Refused
  <2> QED
    OBVIOUS
<1> QED
  BY <1>6, <1>7

\* No coefficient exceeds one.
LEMMA R2IsAtMostOne ==
    ASSUME NEW d, R2Holds(d)
    PROVE  R2Value(d) = NoValue \/ R2Value(d) <= Unit
<1> SUFFICES ASSUME ~(d.truths.count < 2 \/ d.truths.m2 <= 0)
             PROVE  R2Value(d) <= Unit
  BY DEF R2Value
<1> DEFINE m2 == d.truths.m2
           q == FDiv(d.residual, m2)
<1>1. /\ m2 \in Floats /\ IsFinite(m2) /\ m2 \in Int /\ Unit \in Nat /\ Unit > 0
      /\ d.residual \in Floats /\ IsFinite(d.residual) /\ d.residual >= 0 /\ d.residual \in Int
      /\ Largest \in Nat
  BY FiniteFloats, FormatAssumption DEF R2Holds, VarianceHolds, FiniteFloat
<1>2. m2 \in Nat /\ m2 > 0
  BY <1>1
<1> HIDE DEF m2
<1>3. q \in Floats
  BY <1>1, QuotientIsFloat
<1>4. q = ToFloat(d.residual * Unit, m2) /\ d.residual * Unit \in Int /\ d.residual * Unit >= 0
  <2>1. d.residual # NaN /\ m2 # NaN
    BY <1>1 DEF IsFinite, NaN
  <2>2. d.residual * Unit \in Int /\ d.residual * Unit >= 0
    BY <1>1
  <2> QED
    BY <1>1, <1>2, <2>1, <2>2 DEF FDiv
<1>5. q >= 0
  <2> DEFINE z == d.residual * Unit
  <2>1. z \in Int /\ z >= 0 * m2
    BY <1>1, <1>2, <1>4
  <2> HIDE DEF z
  <2>2. ToFloat(z, m2) >= 0
    BY <1>2, <2>1, ToFloatBounds, ZeroIsRepresentable, ConstantsAreFloats
  <2> QED
    BY <1>4, <2>2 DEF z
<1>6. q # NaN
  BY <1>2, <1>4, ToFloatIsNumber
<1>7. R2Value(d) = FSub(Unit, q)
  BY DEF R2Value, m2
<1> HIDE DEF q
<1> QED
  BY <1>3, <1>5, <1>6, <1>7, AroundUnit

\* A clipped value lies between the bounds.
Clipped(x) == Lower(Higher(x, ClipLower), ClipUpper)

LEMMA ClippedIsBetween ==
    ASSUME NEW x, FiniteFloat(x)
    PROVE  FiniteFloat(Clipped(x)) /\ ClipLower <= Clipped(x) /\ Clipped(x) <= ClipUpper
<1>1. /\ FiniteFloat(ClipLower) /\ FiniteFloat(ClipUpper) /\ ClipLower <= ClipUpper
      /\ ClipLower \in Int /\ ClipUpper \in Int /\ x \in Int
  BY StatisticsAssumption, FiniteIsInteger DEF FiniteFloat
<1>2. FiniteFloat(Higher(x, ClipLower))
  BY <1>1, ClippingIsFinite
<1> QED
  BY <1>1, <1>2, ClippingIsFinite DEF Clipped, Lower, Higher

-----------------------------------------------------------------------------
(* Weighted statistics: weights are not negative, and none is known before *)
(* the first sample that has one.                                          *)

WeightHolds(d) ==
    /\ {"weight", "mean", "m2", "samples"} \subseteq DOMAIN d
    /\ FiniteFloat(d.weight) /\ d.weight >= 0 /\ d.samples \in Nat
    /\ d.samples = 0 <=> d.weight = 0
    /\ FiniteFloat(d.mean) /\ FiniteFloat(d.m2) /\ d.m2 >= 0

LEMMA NewWeightHolds == WeightHolds(NewWeighted)
<1>1. /\ NewWeighted.weight = 0 /\ NewWeighted.mean = 0 /\ NewWeighted.m2 = 0
      /\ NewWeighted.samples = 0 /\ {"weight", "mean", "m2", "samples"} \subseteq DOMAIN NewWeighted
  BY DEF NewWeighted
<1> QED
  BY <1>1, ZeroIsFinite DEF WeightHolds

\* A sample that counts adds its weight.
LEMMA WeightGrows ==
    ASSUME NEW d, WeightHolds(d), NEW w \in Floats, WeightIsValid(w), w # 0,
           IsFinite(FAdd(d.weight, w)), NEW mean, FiniteFloat(mean)
    PROVE  /\ WeightHolds([Counted(d, w) EXCEPT !.mean = mean])
           /\ \A m2 : FiniteFloat(m2) /\ m2 >= 0 =>
                WeightHolds([Counted(d, w) EXCEPT !.mean = mean, !.m2 = m2])
<1> DEFINE weight == FAdd(d.weight, w)
           c == Counted(d, w)
           s == [c EXCEPT !.mean = mean]
<1>1. /\ d.weight \in Floats /\ IsFinite(d.weight) /\ d.weight >= 0 /\ d.samples \in Nat
      /\ d.weight \in Int /\ w \in Int /\ IsFinite(w) /\ w >= 0
      /\ FiniteFloat(d.m2) /\ d.m2 >= 0
  BY FiniteFloats DEF WeightHolds, FiniteFloat, WeightIsValid
<1>2. FiniteFloat(weight) /\ weight >= 0 /\ weight # 0
  <2>1. weight \in Floats /\ weight >= w /\ weight \in Int
    BY <1>1, SumIsFloat, SumSign, FiniteFloats
  <2> HIDE DEF weight
  <2> QED
    BY <1>1, <2>1 DEF FiniteFloat, weight
<1> HIDE DEF weight
<1>3. /\ {"weight", "mean", "m2", "samples"} \subseteq DOMAIN c
      /\ c.weight = weight /\ c.samples = d.samples + 1 /\ c.m2 = d.m2
  BY DEF Counted, WeightHolds, weight
<1> HIDE DEF c
<1>4. /\ {"weight", "mean", "m2", "samples"} \subseteq DOMAIN s
      /\ s.weight = weight /\ s.samples = d.samples + 1 /\ s.m2 = d.m2 /\ s.mean = mean
  BY <1>3
<1> HIDE DEF s
<1>5. d.samples + 1 \in Nat /\ d.samples + 1 # 0
  BY <1>1
<1>6. WeightHolds(s)
  BY <1>1, <1>2, <1>4, <1>5 DEF WeightHolds
<1>7. ASSUME NEW m2, FiniteFloat(m2), m2 >= 0
      PROVE  WeightHolds([c EXCEPT !.mean = mean, !.m2 = m2])
  <2> DEFINE t == [s EXCEPT !.m2 = m2]
  <2>1. /\ {"weight", "mean", "m2", "samples"} \subseteq DOMAIN t
        /\ t.weight = weight /\ t.samples = d.samples + 1 /\ t.m2 = m2 /\ t.mean = mean
    BY <1>4
  <2>2. [c EXCEPT !.mean = mean, !.m2 = m2] = t
    BY DEF s
  <2> HIDE DEF t
  <2>3. WeightHolds(t)
    BY <1>2, <1>5, <1>7, <2>1 DEF WeightHolds
  <2> QED
    BY <2>2, <2>3
<1> QED
  BY <1>6, <1>7 DEF s, c

LEMMA WeightedMeanTakes ==
    ASSUME NEW d, WeightHolds(d), NEW x \in Floats, NEW w \in Floats
    PROVE  LET r == WeightedMeanUpdate(d, x, w)
           IN  WeightHolds(r.state) /\ (~r.ok => r.state = d)
<1> DEFINE mean == FAdd(d.mean, FMul(FSub(x, d.mean), FDiv(w, FAdd(d.weight, w))))
           s == [Counted(d, w) EXCEPT !.mean = mean]
           r == WeightedMeanUpdate(d, x, w)
<1>1. mean \in Floats
  BY SumIsFloat, ProductIsFloat, DifferenceIsFloat, QuotientIsFloat DEF WeightHolds, FiniteFloat
<1>2. \/ r = [ok |-> FALSE, state |-> d] \/ r = [ok |-> TRUE, state |-> d]
      \/ /\ WeightIsValid(w) /\ w # 0 /\ IsFinite(FAdd(d.weight, w)) /\ IsFinite(mean)
         /\ r = [ok |-> TRUE, state |-> s]
  BY Zenon DEF WeightedMeanUpdate, Weighted, Weighs, Done, Refused
<1> HIDE DEF mean, r
<1>3. ASSUME WeightIsValid(w), w # 0, IsFinite(FAdd(d.weight, w)), IsFinite(mean)
      PROVE  WeightHolds(s)
  <2>1. FiniteFloat(mean)
    BY <1>1, <1>3 DEF FiniteFloat
  <2> QED
    BY <1>3, <2>1, WeightGrows
<1> HIDE DEF s
<1> QED
  BY <1>2, <1>3 DEF r

LEMMA WeightedVarianceTakes ==
    ASSUME NEW d, WeightHolds(d), NEW x \in Floats, NEW w \in Floats
    PROVE  LET r == WeightedVarianceUpdate(d, x, w)
           IN  WeightHolds(r.state) /\ (~r.ok => r.state = d)
<1> DEFINE delta == FSub(x, d.mean)
           mean == FAdd(d.mean, FMul(FDiv(w, FAdd(d.weight, w)), delta))
           m2 == FAdd(d.m2, FMul(FMul(w, delta), FSub(x, mean)))
           s == [Counted(d, w) EXCEPT !.mean = mean, !.m2 = Higher(m2, 0)]
           r == WeightedVarianceUpdate(d, x, w)
<1>1. delta \in Floats /\ mean \in Floats /\ m2 \in Floats
  <2>1. delta \in Floats
    BY DifferenceIsFloat DEF WeightHolds, FiniteFloat
  <2> HIDE DEF delta
  <2>2. mean \in Floats
    BY <2>1, SumIsFloat, ProductIsFloat, QuotientIsFloat DEF WeightHolds, FiniteFloat
  <2> HIDE DEF mean
  <2>3. m2 \in Floats
    BY <2>1, <2>2, SumIsFloat, ProductIsFloat, DifferenceIsFloat DEF WeightHolds, FiniteFloat
  <2> QED
    BY <2>1, <2>2, <2>3
<1>2. \/ r = [ok |-> FALSE, state |-> d] \/ r = [ok |-> TRUE, state |-> d]
      \/ /\ WeightIsValid(w) /\ w # 0 /\ IsFinite(FAdd(d.weight, w))
         /\ IsFinite(mean) /\ IsFinite(m2)
         /\ r = [ok |-> TRUE, state |-> s]
  BY Zenon DEF WeightedVarianceUpdate, Weighted, Weighs, Done, Refused
<1> HIDE DEF delta, mean, m2, r
<1>3. ASSUME WeightIsValid(w), w # 0, IsFinite(FAdd(d.weight, w)), IsFinite(mean), IsFinite(m2)
      PROVE  WeightHolds(s)
  <2> DEFINE h == Higher(m2, 0)
  <2>1. m2 \in Int /\ FiniteFloat(m2) /\ FiniteFloat(mean)
    BY <1>1, <1>3, FiniteFloats DEF FiniteFloat
  <2>2. FiniteFloat(h) /\ h >= 0
    BY <2>1, ZeroIsFinite DEF Higher
  <2> HIDE DEF h
  <2>3. WeightHolds([Counted(d, w) EXCEPT !.mean = mean, !.m2 = h])
    BY <1>3, <2>1, <2>2, WeightGrows
  <2> QED
    BY <2>3 DEF h
<1> HIDE DEF s
<1> QED
  BY <1>2, <1>3 DEF r

LEMMA WeightedEwMeanTakes ==
    ASSUME NEW d, WeightHolds(d), NEW x \in Floats, NEW w \in Floats, EffectiveAlpha(w) \in Floats
    PROVE  LET r == WeightedEwMeanUpdate(d, x, w)
           IN  WeightHolds(r.state) /\ (~r.ok => r.state = d)
<1> DEFINE mean == IF d.weight = 0 THEN x
                   ELSE FAdd(d.mean, FMul(EffectiveAlpha(w), FSub(x, d.mean)))
           s == [Counted(d, w) EXCEPT !.mean = mean]
           r == WeightedEwMeanUpdate(d, x, w)
<1>1. mean \in Floats
  BY SumIsFloat, ProductIsFloat, DifferenceIsFloat DEF WeightHolds, FiniteFloat
<1>2. \/ r = [ok |-> FALSE, state |-> d] \/ r = [ok |-> TRUE, state |-> d]
      \/ /\ WeightIsValid(w) /\ w # 0 /\ IsFinite(FAdd(d.weight, w)) /\ IsFinite(mean)
         /\ r = [ok |-> TRUE, state |-> s]
  BY Zenon DEF WeightedEwMeanUpdate, Weighted, Done, Refused
<1> HIDE DEF mean, r
<1>3. ASSUME WeightIsValid(w), w # 0, IsFinite(FAdd(d.weight, w)), IsFinite(mean)
      PROVE  WeightHolds(s)
  <2>1. FiniteFloat(mean)
    BY <1>1, <1>3 DEF FiniteFloat
  <2> QED
    BY <1>3, <2>1, WeightGrows
<1> HIDE DEF s
<1> QED
  BY <1>2, <1>3 DEF r

LEMMA WeightedErrorTakes ==
    ASSUME NEW d, WeightHolds(d), NEW x \in Floats, NEW w \in Floats
    PROVE  /\ LET r == WeightedMaeUpdate(d, x, 0, w)
              IN  WeightHolds(r.state) /\ (~r.ok => r.state = d)
           /\ LET r == WeightedMseUpdate(d, x, 0, w)
              IN  WeightHolds(r.state) /\ (~r.ok => r.state = d)
<1>1. AbsoluteError(x, 0) \in Floats /\ SquaredErrorOf(x, 0) \in Floats
  BY ErrorsAreFloats, ConstantsAreFloats
<1>2. ASSUME NEW e \in Floats
      PROVE  LET r == WeightedMeanUpdate(d, e, w)
             IN  WeightHolds(r.state) /\ (~r.ok => r.state = d)
  BY WeightedMeanTakes
<1>3. \/ WeightedMaeUpdate(d, x, 0, w) = WeightedMeanUpdate(d, AbsoluteError(x, 0), w)
      \/ WeightedMaeUpdate(d, x, 0, w) = Refused(d)
  BY Zenon DEF WeightedMaeUpdate, WeightedErrorUpdate
<1>4. \/ WeightedMseUpdate(d, x, 0, w) = WeightedMeanUpdate(d, SquaredErrorOf(x, 0), w)
      \/ WeightedMseUpdate(d, x, 0, w) = Refused(d)
  BY Zenon DEF WeightedMseUpdate, WeightedErrorUpdate
<1>5. WeightHolds(Refused(d).state) /\ Refused(d).state = d
  BY DEF Refused
<1> QED
  BY <1>1, <1>2, <1>3, <1>4, <1>5

-----------------------------------------------------------------------------
(* Windows of finite values.                                               *)

FiniteNumbers == {x \in Floats : IsFinite(x)}

MedianMadHolds(d) ==
    /\ d.samples \in Nat /\ d.window \in Seq(FiniteNumbers)
    /\ Len(d.window) = Lower(d.samples, Capacity)

LEMMA NewMedianMadHolds == MedianMadHolds(NewMedianMad)
<1>1. Capacity \in Nat /\ <<>> \in Seq(FiniteNumbers) /\ Len(<<>>) = 0
  BY StatisticsAssumption
<1> QED
  BY <1>1 DEF MedianMadHolds, NewMedianMad, Lower

LEMMA MedianMadTakes ==
    ASSUME NEW d, MedianMadHolds(d), NEW x \in Floats
    PROVE  LET r == MedianMadUpdate(d, x)
           IN  MedianMadHolds(r.state) /\ (~r.ok => r.state = d)
<1> DEFINE w == Pushed(d.window, x, Capacity)
           s == [window |-> w, samples |-> d.samples + 1]
           r == MedianMadUpdate(d, x)
<1>1. \/ r = [ok |-> FALSE, state |-> d]
      \/ IsFinite(x) /\ r = [ok |-> TRUE, state |-> s]
  BY Zenon DEF MedianMadUpdate, Done, Refused
<1>2. ASSUME IsFinite(x)
      PROVE  MedianMadHolds(s)
  <2>1. /\ x \in FiniteNumbers /\ d.window \in Seq(FiniteNumbers) /\ d.samples \in Nat
        /\ Len(d.window) = Lower(d.samples, Capacity) /\ Capacity \in Nat \ {0}
    BY <1>2, StatisticsAssumption DEF MedianMadHolds, FiniteNumbers
  <2>2. w \in Seq(FiniteNumbers)
        /\ Len(w) = IF Len(d.window) = Capacity THEN Len(d.window) ELSE Len(d.window) + 1
    <3>1. CASE Len(d.window) = Capacity
      <4>1. d.window # <<>>
        BY <2>1, <3>1
      <4>2. Tail(d.window) \in Seq(FiniteNumbers) /\ Len(Tail(d.window)) = Len(d.window) - 1
        BY <2>1, <4>1
      <4>3. w = Append(Tail(d.window), x)
        BY <3>1 DEF Pushed
      <4> QED
        BY <2>1, <3>1, <4>2, <4>3
    <3>2. CASE Len(d.window) # Capacity
      <4>1. w = Append(d.window, x)
        BY <3>2 DEF Pushed
      <4> QED
        BY <2>1, <3>2, <4>1
    <3> QED
      BY <3>1, <3>2
  <2> HIDE DEF w
  <2>3. s.window = w /\ s.samples = d.samples + 1
    OBVIOUS
  <2> HIDE DEF s
  <2>4. Len(w) = Lower(d.samples + 1, Capacity)
    BY <2>1, <2>2 DEF Lower
  <2> QED
    BY <2>1, <2>2, <2>3, <2>4 DEF MedianMadHolds
<1> HIDE DEF r, s
<1> QED
  BY <1>1, <1>2 DEF r

\* A ring whose places hold finite values as far as it is filled.
RingHolds(b) ==
    /\ DOMAIN b.buffer = 0..(Capacity - 1)
    /\ b.head \in 0..(Capacity - 1) /\ b.len \in 0..Capacity
    /\ {"buffer", "head", "len"} \subseteq DOMAIN b
    /\ b.len < Capacity => b.head = b.len
    /\ \A i \in 0..(b.len - 1) : IsFinite(b.buffer[i])

LEMMA NewRingHolds == RingHolds(NewRing)
<1>1. Capacity \in Nat \ {0}
  BY StatisticsAssumption
<1>2. /\ DOMAIN NewRing.buffer = 0..(Capacity - 1) /\ NewRing.head = 0 /\ NewRing.len = 0
      /\ {"buffer", "head", "len"} \subseteq DOMAIN NewRing
  BY DEF NewRing
<1> QED
  BY <1>1, <1>2 DEF RingHolds

LEMMA ResetRingHolds ==
    ASSUME NEW b, RingHolds(b)
    PROVE  RingHolds(RingReset(b))
<1>1. Capacity \in Nat \ {0}
  BY StatisticsAssumption
<1>2. /\ RingReset(b).buffer = b.buffer /\ RingReset(b).head = 0 /\ RingReset(b).len = 0
      /\ {"buffer", "head", "len"} \subseteq DOMAIN RingReset(b)
  BY DEF RingReset, RingHolds
<1> QED
  BY <1>1, <1>2 DEF RingHolds

LEMMA RingTakes ==
    ASSUME NEW b, RingHolds(b), NEW x \in Floats
    PROVE  LET r == RingPush(b, x)
           IN  RingHolds(r.state) /\ (~r.ok => r.state = b)
<1> DEFINE s == [buffer |-> [b.buffer EXCEPT ![b.head] = x],
                 head |-> (b.head + 1) % Capacity,
                 len |-> Lower(b.len + 1, Capacity)]
           r == RingPush(b, x)
<1>1. \/ r = [ok |-> FALSE, state |-> b]
      \/ IsFinite(x) /\ r = [ok |-> TRUE, state |-> s]
  BY Zenon DEF RingPush, Done, Refused
<1>2. ASSUME IsFinite(x)
      PROVE  RingHolds(s)
  <2>1. /\ Capacity \in Nat \ {0} /\ b.head \in 0..(Capacity - 1) /\ b.len \in 0..Capacity
        /\ DOMAIN b.buffer = 0..(Capacity - 1) /\ (b.len < Capacity => b.head = b.len)
        /\ \A i \in 0..(b.len - 1) : IsFinite(b.buffer[i])
    BY StatisticsAssumption DEF RingHolds
  <2>2. /\ s.buffer = [b.buffer EXCEPT ![b.head] = x] /\ s.head = (b.head + 1) % Capacity
        /\ s.len = Lower(b.len + 1, Capacity) /\ {"buffer", "head", "len"} \subseteq DOMAIN s
    OBVIOUS
  <2> HIDE DEF s
  <2>3. DOMAIN s.buffer = 0..(Capacity - 1)
        /\ \A i \in 0..(Capacity - 1) : s.buffer[i] = IF i = b.head THEN x ELSE b.buffer[i]
    BY <2>1, <2>2
  <2>4. s.len = (IF b.len < Capacity THEN b.len + 1 ELSE Capacity) /\ s.len \in 0..Capacity
    BY <2>1, <2>2 DEF Lower
  <2>5. s.head = (IF b.head + 1 < Capacity THEN b.head + 1 ELSE 0) /\ s.head \in 0..(Capacity - 1)
    <3>1. b.head + 1 \in 0..(2 * Capacity - 1)
      BY <2>1
    <3> DEFINE h == b.head + 1
    <3>2. h \in Nat /\ h <= Capacity
      BY <2>1
    <3> HIDE DEF h
    <3>3. h % Capacity = (IF h < Capacity THEN h ELSE 0) /\ h % Capacity \in 0..(Capacity - 1)
      <4>1. h \in 0..(2 * Capacity - 1)
        BY <3>1 DEF h
      <4>2. h % Capacity = IF h < Capacity THEN h ELSE h - Capacity
        BY <2>1, <4>1, WrapsAtCapacity
      <4> QED
        BY <2>1, <3>2, <4>2
    <3> QED
      BY <2>2, <3>3 DEF h
  <2>6. s.len < Capacity => s.head = s.len
    BY <2>1, <2>4, <2>5
  <2>7. ASSUME NEW i \in 0..(s.len - 1)
        PROVE  IsFinite(s.buffer[i])
    <3>1. i \in 0..(Capacity - 1)
      BY <2>1, <2>4
    <3>2. CASE i = b.head
      BY <1>2, <2>3, <3>1, <3>2
    <3>3. CASE i # b.head
      <4>1. i \in 0..(b.len - 1)
        BY <2>1, <2>4, <3>3
      <4> QED
        BY <2>1, <2>3, <3>1, <3>3, <4>1
    <3> QED
      BY <3>2, <3>3
  <2> QED
    BY <2>2, <2>3, <2>4, <2>5, <2>6, <2>7 DEF RingHolds
<1> HIDE DEF r, s
<1> QED
  BY <1>1, <1>2 DEF r

-----------------------------------------------------------------------------
(* Counters of hits and misses.                                            *)

AccuracyHolds(d) ==
    d.count \in Nat /\ d.correct \in Nat /\ d.correct <= d.count /\ d.count <= MaxCount

LEMMA NewAccuracyHolds == AccuracyHolds(NewAccuracy)
BY FormatAssumption DEF AccuracyHolds, NewAccuracy

LEMMA AccuracyTakes ==
    ASSUME NEW d, AccuracyHolds(d), NEW t, NEW p
    PROVE  LET r == AccuracyUpdate(d, t, p)
           IN  AccuracyHolds(r.state) /\ (~r.ok => r.state = d)
<1> DEFINE s == [count |-> d.count + 1, correct |-> IF t = p THEN d.correct + 1 ELSE d.correct]
           r == AccuracyUpdate(d, t, p)
<1>1. \/ r = [ok |-> FALSE, state |-> d]
      \/ d.count < MaxCount /\ r = [ok |-> TRUE, state |-> s]
  BY Zenon DEF AccuracyUpdate, CanCount, Done, Refused
<1>2. d.count < MaxCount => AccuracyHolds(s)
  BY FormatAssumption DEF AccuracyHolds
<1> HIDE DEF r, s
<1> QED
  BY <1>1, <1>2 DEF r

LEMMA AccuracyIsShare ==
    ASSUME NEW d, AccuracyHolds(d)
    PROVE  IsShare(AccuracyValue(d))
<1>1. d.count \in Nat /\ d.correct \in Nat /\ d.correct <= d.count /\ d.count <= 2 * MaxCount
  BY FormatAssumption DEF AccuracyHolds
<1> QED
  BY <1>1, ShareOfCount DEF AccuracyValue, IsShare

\* The counters of a confusion add up to its samples at most.
ConfusionHolds(kind, d) ==
    /\ {"samples", "cells"} \subseteq DOMAIN d
    /\ d.samples \in Nat /\ d.samples <= MaxCount
    /\ d.cells \in [Cells[kind] -> Nat]
    /\ InCell(d, "tp") + Misses(d) <= d.samples

LEMMA CellsOfKinds ==
    /\ Cells["precision"] = {"tp", "fp"} /\ Cells["recall"] = {"tp", "fn"}
    /\ Cells["f1"] = {"tp", "fp", "fn"} /\ DOMAIN Cells = {"precision", "recall", "f1"}
BY DEF Cells

LEMMA InCellIsCount ==
    ASSUME NEW kind \in DOMAIN Cells, NEW d, d.cells \in [Cells[kind] -> Nat], NEW c
    PROVE  InCell(d, c) \in Nat
BY DEF InCell

LEMMA NewConfusionHolds == \A kind \in DOMAIN Cells : ConfusionHolds(kind, NewConfusion(kind))
<1> SUFFICES ASSUME NEW kind \in DOMAIN Cells
             PROVE  ConfusionHolds(kind, NewConfusion(kind))
  OBVIOUS
<1> DEFINE d == NewConfusion(kind)
<1>1. /\ d.samples = 0 /\ d.cells = [c \in Cells[kind] |-> 0]
      /\ {"samples", "cells"} \subseteq DOMAIN d
  BY DEF NewConfusion
<1> HIDE DEF d
<1>2. \A c : InCell(d, c) = 0
  BY <1>1 DEF InCell
<1>3. d.cells \in [Cells[kind] -> Nat]
  BY <1>1
<1> QED
  BY <1>1, <1>2, <1>3, FormatAssumption DEF ConfusionHolds, Misses, d

LEMMA ConfusionTakes ==
    ASSUME NEW kind \in DOMAIN Cells, NEW d, ConfusionHolds(kind, d), NEW t, NEW p
    PROVE  LET r == ConfusionUpdate(d, t, p)
           IN  ConfusionHolds(kind, r.state) /\ (~r.ok => r.state = d)
<1> DEFINE cell == Cell(t, p)
           a == [d EXCEPT !.samples = @ + 1]
           b == [d EXCEPT !.samples = @ + 1, !.cells[cell] = @ + 1]
           r == ConfusionUpdate(d, t, p)
<1>1. \/ r = [ok |-> FALSE, state |-> d]
      \/ CanCount(d.samples) /\ cell \notin DOMAIN d.cells /\ r = [ok |-> TRUE, state |-> a]
      \/ CanCount(d.samples) /\ cell \in DOMAIN d.cells /\ r = [ok |-> TRUE, state |-> b]
  BY Zenon DEF ConfusionUpdate, Done, Refused
<1> HIDE DEF cell, r
<1>2. /\ {"samples", "cells"} \subseteq DOMAIN d
      /\ d.samples \in Nat /\ d.samples <= MaxCount /\ d.cells \in [Cells[kind] -> Nat]
      /\ InCell(d, "tp") + Misses(d) <= d.samples /\ MaxCount \in Nat
  BY FormatAssumption DEF ConfusionHolds
<1>3. \A c : InCell(d, c) \in Nat
  BY <1>2, InCellIsCount
<1>4. CanCount(d.samples) => d.samples + 1 <= MaxCount
  BY <1>2 DEF CanCount
<1>5. CanCount(d.samples) => ConfusionHolds(kind, a)
  <2>1. /\ {"samples", "cells"} \subseteq DOMAIN a /\ a.samples = d.samples + 1 /\ a.cells = d.cells
    BY <1>2
  <2> HIDE DEF a
  <2>2. InCell(a, "tp") = InCell(d, "tp") /\ Misses(a) = Misses(d)
    BY <2>1 DEF InCell, Misses
  <2>3. InCell(d, "tp") + Misses(d) <= d.samples + 1
    BY <1>2, <1>3 DEF Misses
  <2> QED
    BY <1>2, <1>4, <2>1, <2>2, <2>3 DEF ConfusionHolds
<1>6. CanCount(d.samples) /\ cell \in DOMAIN d.cells => ConfusionHolds(kind, b)
  <2> SUFFICES ASSUME CanCount(d.samples), cell \in DOMAIN d.cells
               PROVE  ConfusionHolds(kind, b)
    OBVIOUS
  <2>1. /\ {"samples", "cells"} \subseteq DOMAIN a /\ a.samples = d.samples + 1 /\ a.cells = d.cells
    BY <1>2
  <2>2. b = [a EXCEPT !.cells = [d.cells EXCEPT ![cell] = @ + 1]]
    BY <1>2
  <2> HIDE DEF a, b
  <2>3. /\ {"samples", "cells"} \subseteq DOMAIN b /\ b.samples = d.samples + 1
        /\ b.cells = [d.cells EXCEPT ![cell] = @ + 1]
    BY <2>1, <2>2
  <2>4. b.cells \in [Cells[kind] -> Nat] /\ DOMAIN b.cells = DOMAIN d.cells
    BY <1>2, <2>3
  <2>5. \A c : InCell(b, c) = IF c = cell THEN InCell(d, c) + 1 ELSE InCell(d, c)
    BY <1>2, <2>3 DEF InCell
  <2>6. InCell(b, "tp") + Misses(b) <= InCell(d, "tp") + Misses(d) + 1
    BY <1>3, <2>5 DEF Misses
  <2>7. InCell(b, "tp") + Misses(b) <= d.samples + 1
    <3>1. InCell(b, "tp") \in Nat /\ Misses(b) \in Nat /\ InCell(d, "tp") \in Nat /\ Misses(d) \in Nat
      BY <1>3, <2>4, InCellIsCount DEF Misses
    <3> QED
      BY <1>2, <2>6, <3>1
  <2> QED
    BY <1>2, <1>4, <2>3, <2>4, <2>7 DEF ConfusionHolds
<1> HIDE DEF a, b
<1> QED
  BY <1>1, <1>5, <1>6 DEF r

LEMMA ConfusionIsShare ==
    ASSUME NEW kind \in DOMAIN Cells, NEW d, ConfusionHolds(kind, d)
    PROVE  IsShare(ConfusionValue(kind, d)) /\ ConfusionIsValid(d)
<1> DEFINE hits == IF kind = "f1" THEN 2 * InCell(d, "tp") ELSE InCell(d, "tp")
           missed == Misses(d)
<1>1. /\ d.samples \in Nat /\ d.samples <= MaxCount /\ MaxCount \in Nat
      /\ InCell(d, "tp") \in Nat /\ missed \in Nat /\ InCell(d, "tp") + missed <= d.samples
  BY InCellIsCount, FormatAssumption DEF ConfusionHolds, Misses
<1>2. hits \in Nat /\ hits + missed \in Nat /\ hits <= hits + missed
      /\ hits + missed <= 2 * MaxCount
  <2> HIDE DEF missed
  <2> QED
    BY <1>1
<1>3. ConfusionValue(kind, d) =
        IF hits + missed = 0 THEN NoValue ELSE FDiv(OfInt(hits), OfInt(hits + missed))
  BY DEF ConfusionValue
<1>4. ConfusionIsValid(d)
  BY <1>1 DEF ConfusionIsValid
<1> HIDE DEF hits, missed
<1>5. IsShare(ConfusionValue(kind, d))
  BY <1>2, <1>3, ShareOfCount DEF IsShare
<1> QED
  BY <1>4, <1>5

-----------------------------------------------------------------------------
(* KSWIN: a statistic of two windows and its p-value.                      *)

LEMMA SortedLength ==
    ASSUME NEW S, NEW s \in Seq(S)
    PROVE  Len(Sorted(s)) = Len(s)
<1> DEFINE v(i) == CHOOSE x \in ToSet(s) :
                      Count(s, LAMBDA y : y < x) < i /\ i <= Count(s, LAMBDA y : y <= x)
<1>1. Sorted(s) = [i \in 1..Len(s) |-> v(i)]
  BY DEF Sorted
<1> HIDE DEF v
<1>2. Len(s) \in Nat
  OBVIOUS
<1>3. [i \in 1..Len(s) |-> v(i)] \in Seq({v(i) : i \in 1..Len(s)})
  BY <1>2
<1>4. DOMAIN [i \in 1..Len(s) |-> v(i)] = 1..Len(s)
  OBVIOUS
<1> DEFINE f == [i \in 1..Len(s) |-> v(i)]
<1> HIDE DEF f
<1>5. Len(f) \in Nat /\ DOMAIN f = 1..Len(f)
  BY <1>3 DEF f
<1>6. 1..Len(f) = 1..Len(s)
  BY <1>4, <1>5 DEF f
<1> QED
  BY <1>1, <1>2, <1>5, <1>6 DEF f

\* The places that a walk over two windows can be at.
WalkStates == [i : 1..(WindowSize + 1), j : 1..(WindowSize + 1), most : 0..WindowSize]

LEMMA WalkStays ==
    ASSUME NEW a, NEW b, Len(a) \in Nat, Len(b) \in Nat,
           Len(a) <= WindowSize, Len(b) <= WindowSize, NEW w \in WalkStates
    PROVE  KsStep(a, b, w) \in WalkStates
<1> DEFINE i == IF a[w.i] <= b[w.j] THEN w.i + 1 ELSE w.i
           j == IF b[w.j] <= a[w.i] THEN w.j + 1 ELSE w.j
           s == [i |-> i, j |-> j, most |-> Higher(w.most, Magnitude(i - j))]
<1>1. /\ WindowSize \in Nat \ {0} /\ w.i \in 1..(WindowSize + 1) /\ w.j \in 1..(WindowSize + 1)
      /\ w.most \in 0..WindowSize
  BY DetectorAssumption DEF WalkStates
<1>2. CASE w.i > Len(a) \/ w.j > Len(b)
  BY <1>2 DEF KsStep
<1>3. CASE ~(w.i > Len(a) \/ w.j > Len(b))
  <2>1. KsStep(a, b, w) = s
    BY <1>3 DEF KsStep
  <2>2. i \in 1..(WindowSize + 1) /\ j \in 1..(WindowSize + 1)
    BY <1>1, <1>3
  <2> HIDE DEF i, j
  <2>3. Magnitude(i - j) \in 0..WindowSize
    BY <1>1, <2>2 DEF Magnitude
  <2>4. Higher(w.most, Magnitude(i - j)) \in 0..WindowSize
    BY <1>1, <2>3 DEF Higher
  <2> QED
    BY <2>1, <2>2, <2>4 DEF WalkStates
<1> QED
  BY <1>2, <1>3

\* The recursion of the walk.
Walks(f, a, b) ==
    f = [n \in 0..(Len(a) + Len(b)) |->
            IF n = 0 THEN [i |-> 1, j |-> 1, most |-> 0] ELSE KsStep(a, b, f[n - 1])]

LEMMA WalkIsRecursion ==
    ASSUME NEW a, NEW b, Len(a) \in Nat, Len(b) \in Nat,
           Len(a) <= WindowSize, Len(b) <= WindowSize
    PROVE  \E g : Walks(g, a, b) /\ KsWalk(a, b) = g[Len(a) + Len(b)]
<1> DEFINE n == Len(a) + Len(b)
           start == [i |-> 1, j |-> 1, most |-> 0]
           F == [p \in WalkStates \X (1..n) |-> KsStep(a, b, p[1])]
<1>1. n \in Nat /\ start \in WalkStates /\ WindowSize \in Nat
  BY DetectorAssumption DEF WalkStates
<1>2. F \in [WalkStates \X (1..n) -> WalkStates]
  <2>1. \A p \in WalkStates \X (1..n) : KsStep(a, b, p[1]) \in WalkStates
    <3> TAKE p \in WalkStates \X (1..n)
    <3>1. p[1] \in WalkStates
      OBVIOUS
    <3> QED
      BY <3>1, WalkStays
  <2> HIDE DEF n
  <2> QED
    BY <2>1
<1>3. ASSUME NEW v \in WalkStates, NEW i \in 1..n
      PROVE  F[v, i] = KsStep(a, b, v)
  <2>1. <<v, i>> \in WalkStates \X (1..n) /\ <<v, i>>[1] = v
    OBVIOUS
  <2> HIDE DEF n
  <2> QED
    BY <2>1
<1> HIDE DEF F, start
<1>4. PICK f \in [0..n -> WalkStates] : Recursion(f, start, F, n)
  <2> HIDE DEF n
  <2> QED
    BY <1>1, <1>2, RecursionExists
<1>5. ASSUME NEW i \in 0..n
      PROVE  f[i] = IF i = 0 THEN start ELSE KsStep(a, b, f[i - 1])
  <2> HIDE DEF n
  <2>0. n \in Nat
    BY <1>1
  <2>1. CASE i = 0
    BY <2>0, <1>4, <2>1 DEF Recursion
  <2>2. CASE i \in 1..n
    <3>0. i - 1 \in 0..n /\ i # 0
      BY <2>0, <2>2
    <3>1. f[i - 1] \in WalkStates /\ i # 0
      BY <1>4, <3>0
    <3>2. f[i] = F[f[i - 1], i]
      BY <1>4, <3>1 DEF Recursion
    <3> QED
      BY <1>3, <2>2, <3>1, <3>2
  <2> QED
    BY <2>0, <2>1, <2>2
<1>6. Walks(f, a, b)
  BY <1>4, <1>5 DEF Walks, start
<1> DEFINE g == CHOOSE h : Walks(h, a, b)
<1>7. Walks(g, a, b)
  BY <1>6
<1>8. KsWalk(a, b) = g[n]
  BY DEF KsWalk, Walks
<1> HIDE DEF g
<1> QED
  BY <1>7, <1>8

LEMMA WalkEnds ==
    ASSUME NEW a, NEW b, Len(a) \in Nat, Len(b) \in Nat,
           Len(a) <= WindowSize, Len(b) <= WindowSize
    PROVE  KsWalk(a, b) \in WalkStates
<1> DEFINE n == Len(a) + Len(b)
           start == [i |-> 1, j |-> 1, most |-> 0]
<1>1. n \in Nat /\ start \in WalkStates
  BY DetectorAssumption DEF WalkStates
<1>7. PICK g : Walks(g, a, b) /\ KsWalk(a, b) = g[n]
  BY WalkIsRecursion
<1>8. KsWalk(a, b) = g[n]
  BY <1>7
<1> HIDE DEF start
<1> DEFINE T == {k \in Nat : k <= n => g[k] \in WalkStates}
<1>9. ASSUME NEW k \in 0..n
      PROVE  g[k] = IF k = 0 THEN start ELSE KsStep(a, b, g[k - 1])
  BY <1>7 DEF Walks, start
<1>10. 0 \in T
  <2>1. 0 \in 0..n
    BY <1>1
  <2>2. g[0] = start
    BY <1>9, <2>1
  <2> QED
    BY <1>1, <2>2
<1>11. \A k \in T : k + 1 \in T
  <2> SUFFICES ASSUME NEW k \in Nat, k + 1 <= n, g[k] \in WalkStates
               PROVE  g[k + 1] \in WalkStates
    BY <1>1
  <2> DEFINE m == k + 1
  <2>1. m \in 0..n /\ m # 0 /\ m - 1 = k
    BY <1>1
  <2> HIDE DEF m, n
  <2>2. g[m] = KsStep(a, b, g[k])
    BY <1>9, <2>1
  <2>3. g[m] \in WalkStates
    BY <2>2, WalkStays
  <2> QED
    BY <2>3 DEF m
<1>12. T = Nat
  <2>1. T \in SUBSET Nat
    OBVIOUS
  <2> HIDE DEF T
  <2> QED
    BY <1>10, <1>11, <2>1, Induction
<1>13. g[n] \in WalkStates
  BY <1>1, <1>12
<1> QED
  BY <1>8, <1>13

LEMMA StatisticIsBounded ==
    ASSUME NEW S, NEW a \in Seq(S), NEW b \in Seq(S),
           Len(a) <= WindowSize, Len(b) <= WindowSize
    PROVE  KsStatistic(a, b) \in 0..WindowSize
<1>1. WindowSize \in Nat /\ Len(a) \in Nat /\ Len(b) \in Nat
  BY DetectorAssumption
<1>2. Len(Sorted(a)) = Len(a) /\ Len(Sorted(b)) = Len(b)
  BY SortedLength
<1>3. KsWalk(Sorted(a), Sorted(b)) \in WalkStates
  BY <1>1, <1>2, WalkEnds
<1>4. KsWalk(Sorted(a), Sorted(b)).most \in 0..WindowSize
  BY <1>3 DEF WalkStates
<1> QED
  BY <1>1, <1>4 DEF KsStatistic

\* No p-value is above that of equal windows.
LEMMA PValuesAreShares ==
    \A k \in 0..WindowSize : PValue[k] \in Int /\ 0 <= PValue[k] /\ PValue[k] <= Unit
<1>1. /\ WindowSize \in Nat \ {0} /\ PValue \in [0..WindowSize -> Floats] /\ PValue[0] = Unit
      /\ \A k \in 1..WindowSize : 0 <= PValue[k] /\ PValue[k] <= PValue[k - 1]
      /\ Unit \in Nat
  BY DetectorAssumption, FormatAssumption
<1>2. \A k \in 0..WindowSize : PValue[k] \in Int
  <2> TAKE k \in 0..WindowSize
  <2>1. PValue[k] \in Floats
    BY <1>1
  <2> QED
    BY <2>1, FiniteFloats
<1> DEFINE T == {k \in Nat : k <= WindowSize => 0 <= PValue[k] /\ PValue[k] <= Unit}
<1>3. 0 \in T
  BY <1>1
<1>4. \A k \in T : k + 1 \in T
  <2> SUFFICES ASSUME NEW k \in Nat, k + 1 <= WindowSize, PValue[k] <= Unit
               PROVE  0 <= PValue[k + 1] /\ PValue[k + 1] <= Unit
    BY <1>1
  <2> DEFINE m == k + 1
  <2>1. m \in 1..WindowSize /\ m \in 0..WindowSize /\ k \in 0..WindowSize /\ m - 1 = k
    BY <1>1
  <2> HIDE DEF m
  <2>2. 0 <= PValue[m] /\ PValue[m] <= PValue[k] /\ PValue[m] \in Int /\ PValue[k] \in Int
    BY <1>1, <1>2, <2>1
  <2>3. 0 <= PValue[m] /\ PValue[m] <= Unit
    BY <1>1, <2>2
  <2> QED
    BY <2>3 DEF m
<1>5. T = Nat
  <2>1. T \in SUBSET Nat
    OBVIOUS
  <2> HIDE DEF T
  <2> QED
    BY <1>3, <1>4, <2>1, Induction
<1>6. ASSUME NEW k \in 0..WindowSize
      PROVE  0 <= PValue[k] /\ PValue[k] <= Unit
  <2>1. k \in T /\ k <= WindowSize
    BY <1>1, <1>5
  <2> QED
    BY <2>1
<1> QED
  BY <1>2, <1>6

KswinHolds(d) ==
    /\ KswinParts \subseteq DOMAIN d
    /\ d.reference \in Seq(FiniteNumbers) /\ Len(d.reference) <= WindowSize
    /\ d.current \in Seq(FiniteNumbers) /\ Len(d.current) <= WindowSize
    /\ d.samples \in Nat /\ d.samples >= Len(d.reference) + Len(d.current)
    /\ d.lastCheck \in Nat /\ d.lastCheck <= d.samples
    /\ 0 <= d.pvalue /\ d.pvalue <= Unit /\ 0 <= d.statistic /\ d.statistic <= WindowSize
    /\ d.level # "warning"
    /\ d.level = "drift" => d.current = <<>> /\ Len(d.reference) = WindowSize

\* One more value, in a window of its own and in one that goes on.
LEMMA SamplesCover ==
    ASSUME NEW n \in Nat, NEW a \in Nat, NEW b \in Nat, n >= a + b, NEW c \in Nat, c <= n
    PROVE  /\ n + 1 \in Nat /\ n + 1 >= a + b /\ n >= b + 0 /\ c <= n + 1
           /\ n + 1 >= a + (b + 1)
OBVIOUS

LEMMA NewKswinHolds == KswinHolds(NewKswin)
<1>1. /\ <<>> \in Seq(FiniteNumbers) /\ Len(<<>>) = 0 /\ WindowSize \in Nat
      /\ Unit \in Nat
  BY DetectorAssumption, FormatAssumption
<1>2. /\ KswinParts \subseteq DOMAIN NewKswin /\ NewKswin.reference = <<>>
      /\ NewKswin.current = <<>> /\ NewKswin.samples = 0 /\ NewKswin.lastCheck = 0
      /\ NewKswin.pvalue = Unit /\ NewKswin.statistic = 0 /\ NewKswin.level = "none"
  BY DEF NewKswin, KswinParts
<1> QED
  BY <1>1, <1>2 DEF KswinHolds

LEMMA KswinIsAccepted ==
    ASSUME NEW d, KswinHolds(d)
    PROVE  KswinIsValid(d)
<1>1. \A w \in {d.reference, d.current} : \A i \in DOMAIN w : IsFinite(w[i])
  <2>1. ASSUME NEW w \in Seq(FiniteNumbers), NEW i \in DOMAIN w
        PROVE  IsFinite(w[i])
    BY DEF FiniteNumbers
  <2> QED
    BY <2>1 DEF KswinHolds
<1> QED
  BY <1>1 DEF KswinHolds, KswinIsValid

\* The windows rotate: what was current is the reference.
LEMMA RotatedHolds ==
    ASSUME NEW d, KswinHolds(d)
    PROVE  LET r == Rotated(d)
           IN  /\ KswinParts \subseteq DOMAIN r
               /\ r.reference = d.current /\ r.current = <<>>
               /\ r.samples = d.samples /\ r.lastCheck = d.lastCheck
               /\ r.pvalue = d.pvalue /\ r.statistic = d.statistic /\ r.level = d.level
<1>1. KswinParts \subseteq DOMAIN d
  BY DEF KswinHolds
<1> QED
  BY <1>1 DEF Rotated, KswinParts

LEMMA CheckedHolds ==
    ASSUME NEW d, KswinHolds(d), d.level = "none", Len(d.current) = WindowSize
    PROVE  KswinHolds(Checked(d))
<1> DEFINE s == KsStatistic(d.reference, d.current)
           p == PValue[s]
           seen == [d EXCEPT !.statistic = s, !.pvalue = p, !.lastCheck = d.samples]
           r == [Rotated(seen) EXCEPT !.level = "drift"]
<1>1. /\ WindowSize \in Nat \ {0} /\ d.current \in Seq(FiniteNumbers)
      /\ d.reference \in Seq(FiniteNumbers) /\ Len(d.reference) <= WindowSize
      /\ d.samples \in Nat /\ d.samples >= Len(d.reference) + Len(d.current)
      /\ KswinParts \subseteq DOMAIN d
  BY DetectorAssumption DEF KswinHolds
<1>2. s \in 0..WindowSize
  BY <1>1, StatisticIsBounded
<1> HIDE DEF s
<1>3. 0 <= p /\ p <= Unit
  BY <1>2, PValuesAreShares
<1> HIDE DEF p
<1>4. /\ KswinParts \subseteq DOMAIN seen /\ seen.reference = d.reference
      /\ seen.current = d.current /\ seen.samples = d.samples /\ seen.lastCheck = d.samples
      /\ seen.pvalue = p /\ seen.statistic = s /\ seen.level = "none"
  BY <1>1 DEF KswinParts
<1> HIDE DEF seen
<1>5. KswinHolds(seen)
  <2>1. /\ d.samples <= d.samples /\ 0 <= s /\ s <= WindowSize /\ Len(d.current) <= WindowSize
        /\ "none" # "warning" /\ "none" # "drift"
    BY <1>1, <1>2
  <2> QED
    BY <1>1, <1>3, <1>4, <2>1, Zenon DEF KswinHolds
<1>6. /\ KswinParts \subseteq DOMAIN r /\ r.reference = d.current
      /\ r.current = <<>> /\ r.samples = d.samples /\ r.lastCheck = d.samples
      /\ r.pvalue = p /\ r.statistic = s /\ r.level = "drift"
  <2> DEFINE q == Rotated(seen)
  <2>1. /\ KswinParts \subseteq DOMAIN q /\ q.reference = d.current
        /\ q.current = <<>> /\ q.samples = d.samples /\ q.lastCheck = d.samples
        /\ q.pvalue = p /\ q.statistic = s
    BY <1>4, <1>5, RotatedHolds
  <2> HIDE DEF q
  <2>2. r = [q EXCEPT !.level = "drift"]
    BY DEF q
  <2> HIDE DEF r
  <2> QED
    BY <2>1, <2>2 DEF KswinParts
<1> HIDE DEF r
<1>7. KswinHolds(r)
  <2>1. <<>> \in Seq(FiniteNumbers) /\ Len(<<>>) = 0 /\ Len(d.reference) \in Nat
    BY <1>1
  <2>2. d.samples >= WindowSize + 0 /\ WindowSize <= WindowSize /\ 0 <= WindowSize
    BY <1>1, <2>1
  <2> QED
    BY <1>1, <1>2, <1>3, <1>6, <2>1, <2>2 DEF KswinHolds
<1>8. Checked(d) = IF p < Significance THEN r ELSE seen
  BY DEF Checked, s, p, seen, r
<1> QED
  BY <1>5, <1>7, <1>8

LEMMA KswinGoesOn ==
    ASSUME NEW d, KswinHolds(d), NEW x \in Floats
    PROVE  LET r == KswinUpdate(d, x)
           IN  KswinHolds(r.state) /\ (~r.ok => r.state = d)
<1> DEFINE r == KswinUpdate(d, x)
           counted == [d EXCEPT !.samples = @ + 1, !.level = "none"]
           room == IF Len(counted.current) >= WindowSize THEN Rotated(counted) ELSE counted
           pushed == [room EXCEPT !.current = Append(@, x)]
<1>1. \/ r = [ok |-> FALSE, state |-> d]
      \/ IsFinite(x) /\ r = [ok |-> TRUE, state |-> pushed]
      \/ /\ IsFinite(x) /\ Len(pushed.current) >= WindowSize
         /\ r = [ok |-> TRUE, state |-> Checked(pushed)]
  BY Zenon DEF KswinUpdate, Done, Refused
<1>2. /\ WindowSize \in Nat \ {0} /\ KswinParts \subseteq DOMAIN d
      /\ d.reference \in Seq(FiniteNumbers) /\ Len(d.reference) <= WindowSize
      /\ d.current \in Seq(FiniteNumbers) /\ Len(d.current) <= WindowSize
      /\ d.samples \in Nat /\ d.samples >= Len(d.reference) + Len(d.current)
      /\ d.lastCheck \in Nat /\ d.lastCheck <= d.samples
      /\ 0 <= d.pvalue /\ d.pvalue <= Unit /\ 0 <= d.statistic /\ d.statistic <= WindowSize
      /\ Len(d.reference) \in Nat /\ Len(d.current) \in Nat
  <2>1. WindowSize \in Nat \ {0}
    BY DetectorAssumption
  <2>2. /\ KswinParts \subseteq DOMAIN d
        /\ d.reference \in Seq(FiniteNumbers) /\ Len(d.reference) <= WindowSize
        /\ d.current \in Seq(FiniteNumbers) /\ Len(d.current) <= WindowSize
        /\ d.samples \in Nat /\ d.samples >= Len(d.reference) + Len(d.current)
        /\ d.lastCheck \in Nat /\ d.lastCheck <= d.samples
        /\ 0 <= d.pvalue /\ d.pvalue <= Unit /\ 0 <= d.statistic /\ d.statistic <= WindowSize
    BY Zenon DEF KswinHolds
  <2>3. Len(d.reference) \in Nat /\ Len(d.current) \in Nat
    BY <2>2
  <2> QED
    BY <2>1, <2>2, <2>3, Zenon
<1>3. /\ KswinParts \subseteq DOMAIN counted /\ counted.reference = d.reference
      /\ counted.current = d.current /\ counted.samples = d.samples + 1
      /\ counted.lastCheck = d.lastCheck /\ counted.pvalue = d.pvalue
      /\ counted.statistic = d.statistic /\ counted.level = "none"
  BY <1>2 DEF KswinParts
<1> HIDE DEF counted
<1>4. KswinHolds(counted)
  <2>1. /\ d.samples + 1 \in Nat /\ d.samples + 1 >= Len(d.reference) + Len(d.current)
        /\ d.lastCheck <= d.samples + 1
    BY <1>2, SamplesCover
  <2>2. "none" # "warning" /\ "none" # "drift"
    OBVIOUS
  <2> QED
    BY <1>2, <1>3, <2>1, <2>2, Zenon DEF KswinHolds
<1>5. /\ KswinParts \subseteq DOMAIN room /\ room.samples = d.samples + 1
      /\ room.lastCheck = d.lastCheck /\ room.pvalue = d.pvalue
      /\ room.statistic = d.statistic /\ room.level = "none"
      /\ room.reference \in Seq(FiniteNumbers) /\ Len(room.reference) <= WindowSize
      /\ room.current \in Seq(FiniteNumbers) /\ Len(room.current) < WindowSize
      /\ d.samples >= Len(room.reference) + Len(room.current)
  <2>1. CASE Len(d.current) >= WindowSize
    <3>1. room = Rotated(counted)
      BY <1>3, <2>1
    <3> HIDE DEF room
    <3>2. /\ KswinParts \subseteq DOMAIN room /\ room.samples = d.samples + 1
          /\ room.lastCheck = d.lastCheck /\ room.pvalue = d.pvalue
          /\ room.statistic = d.statistic /\ room.level = "none"
          /\ room.reference = d.current /\ room.current = <<>>
      BY <1>3, <1>4, <3>1, RotatedHolds
    <3>3. <<>> \in Seq(FiniteNumbers) /\ Len(<<>>) = 0
      OBVIOUS
    <3>4. d.samples >= Len(d.current) + 0
      BY <1>2, SamplesCover
    <3>5. 0 < WindowSize
      BY DetectorAssumption
    <3> QED
      BY <1>2, <3>2, <3>3, <3>4, <3>5, Zenon
  <2>2. CASE ~(Len(d.current) >= WindowSize)
    <3>1. room = counted
      BY <1>3, <2>2
    <3> HIDE DEF room
    <3>2. Len(d.current) < WindowSize
      <4> DEFINE n == Len(d.current)
      <4>1. n \in Nat /\ ~(n >= WindowSize) /\ WindowSize \in Nat
        BY <1>2, <2>2
      <4> HIDE DEF n
      <4>2. n < WindowSize
        BY <4>1
      <4> QED
        BY <4>2 DEF n
    <3> QED
      BY <1>2, <1>3, <3>1, <3>2, Zenon
  <2> QED
    BY <2>1, <2>2
<1> HIDE DEF room
<1>6. ASSUME IsFinite(x)
      PROVE  KswinHolds(pushed) /\ pushed.level = "none" /\ Len(pushed.current) <= WindowSize
  <2>1. /\ KswinParts \subseteq DOMAIN pushed /\ pushed.samples = d.samples + 1
        /\ pushed.lastCheck = d.lastCheck /\ pushed.pvalue = d.pvalue
        /\ pushed.statistic = d.statistic /\ pushed.level = "none"
        /\ pushed.reference = room.reference /\ pushed.current = Append(room.current, x)
    BY <1>5 DEF KswinParts
  <2> HIDE DEF pushed
  <2>2. x \in FiniteNumbers
    BY <1>6 DEF FiniteNumbers
  <2>3. pushed.current \in Seq(FiniteNumbers) /\ Len(pushed.current) = Len(room.current) + 1
        /\ Len(room.current) \in Nat /\ Len(room.reference) \in Nat
    BY <1>5, <2>1, <2>2
  <2>4. Len(pushed.current) <= WindowSize
    BY <1>2, <1>5, <2>3
  <2>5. /\ d.samples + 1 \in Nat /\ d.lastCheck <= d.samples + 1
        /\ d.samples + 1 >= Len(room.reference) + (Len(room.current) + 1)
    BY <1>2, <1>5, <2>3, SamplesCover
  <2>6. /\ pushed.samples \in Nat /\ pushed.lastCheck <= pushed.samples
        /\ pushed.samples >= Len(pushed.reference) + Len(pushed.current)
    BY <2>1, <2>3, <2>5, Zenon
  <2>7. "none" # "warning" /\ "none" # "drift"
    OBVIOUS
  <2> QED
    BY <1>2, <1>5, <2>1, <2>3, <2>4, <2>6, <2>7, Zenon DEF KswinHolds
<1> HIDE DEF pushed
<1>7. ASSUME IsFinite(x), Len(pushed.current) >= WindowSize
      PROVE  KswinHolds(Checked(pushed))
  <2>1. pushed.current \in Seq(FiniteNumbers)
    BY <1>6, <1>7 DEF KswinHolds
  <2>2. Len(pushed.current) = WindowSize
    BY <1>2, <1>6, <1>7, <2>1
  <2> QED
    BY <1>6, <1>7, <2>2, CheckedHolds
<1> HIDE DEF r
<1>8. (r.state = d /\ ~r.ok) \/ (r.ok /\ KswinHolds(r.state))
  BY <1>1, <1>6, <1>7
<1> QED
  BY <1>8 DEF r

-----------------------------------------------------------------------------
(* RollingAccuracy: its sum is the number of hits in the window.           *)

Hit(h) == IF h THEN 1 ELSE 0

\* c counts the hits of the first elements of w.
Tallies(c, w) ==
    /\ c \in [0..Len(w) -> Nat] /\ c[0] = 0
    /\ \A i \in 1..Len(w) : c[i] = c[i - 1] + Hit(w[i])

\* So many hits are among more elements.
LEMMA TallyIsBounded ==
    ASSUME NEW w \in Seq(BOOLEAN), NEW c, Tallies(c, w)
    PROVE  \A i \in 0..Len(w) : c[i] \in Nat /\ c[i] <= i
<1> DEFINE T == {k \in Nat : k <= Len(w) => c[k] <= k}
<1>1. Len(w) \in Nat /\ c \in [0..Len(w) -> Nat] /\ c[0] = 0
      /\ \A i \in 1..Len(w) : c[i] = c[i - 1] + Hit(w[i])
  BY DEF Tallies
<1>2. 0 \in T
  BY <1>1
<1>3. \A k \in T : k + 1 \in T
  <2> SUFFICES ASSUME NEW k \in Nat, k + 1 <= Len(w), c[k] <= k
               PROVE  c[k + 1] <= k + 1
    BY <1>1
  <2> DEFINE m == k + 1
  <2>1. m \in 1..Len(w) /\ m - 1 = k /\ k \in 0..Len(w)
    BY <1>1
  <2>2. m = k + 1
    OBVIOUS
  <2> HIDE DEF m
  <2>3. c[m] = c[k] + Hit(w[m]) /\ c[k] \in Nat
    BY <1>1, <2>1
  <2>4. Hit(w[m]) \in {0, 1}
    BY DEF Hit
  <2>5. c[m] <= m
    BY <2>2, <2>3, <2>4
  <2> QED
    BY <2>2, <2>5
<1>4. T = Nat
  <2>1. T \in SUBSET Nat
    OBVIOUS
  <2> HIDE DEF T
  <2> QED
    BY <1>2, <1>3, <2>1, Induction
<1>5. ASSUME NEW i \in 0..Len(w)
      PROVE  c[i] \in Nat /\ c[i] <= i
  <2>1. i \in T /\ i <= Len(w)
    BY <1>1, <1>4
  <2> QED
    BY <1>1, <2>1
<1> QED
  BY <1>5

HitsHold(d) ==
    /\ d.window \in Seq(BOOLEAN) /\ Len(d.window) <= MetricCapacity
    /\ \E c : Tallies(c, d.window) /\ d.sum = c[Len(d.window)]

LEMMA NewHitsHold == HitsHold(NewRolling)
<1>1. <<>> \in Seq(BOOLEAN) /\ Len(<<>>) = 0 /\ MetricCapacity \in Nat
  BY MetricsAssumption
<1> DEFINE c == [i \in 0..0 |-> 0]
<1>2. c \in [0..0 -> Nat] /\ c[0] = 0
  OBVIOUS
<1> HIDE DEF c
<1>3. Tallies(c, <<>>) /\ 0 = c[0]
  BY <1>1, <1>2 DEF Tallies
<1>4. NewRolling.window = <<>> /\ NewRolling.sum = 0
  BY DEF NewRolling
<1> QED
  BY <1>1, <1>3, <1>4 DEF HitsHold

\* The tally goes on with a new element, and starts later without the oldest.
LEMMA TallyGoesOn ==
    ASSUME NEW w \in Seq(BOOLEAN), NEW c, Tallies(c, w), NEW h \in BOOLEAN
    PROVE  \E e : Tallies(e, Append(w, h)) /\ e[Len(w) + 1] = c[Len(w)] + Hit(h)
<1> DEFINE n == Len(w)
           v == Append(w, h)
           e == [i \in 0..(n + 1) |-> IF i <= n THEN c[i] ELSE c[n] + Hit(h)]
<1>1. n \in Nat /\ c \in [0..n -> Nat] /\ c[0] = 0
      /\ \A i \in 1..n : c[i] = c[i - 1] + Hit(w[i])
  BY DEF Tallies
<1>2. v \in Seq(BOOLEAN) /\ Len(v) = n + 1 /\ v[n + 1] = h /\ \A i \in 1..n : v[i] = w[i]
  OBVIOUS
<1>3. Hit(h) \in Nat
  BY DEF Hit
<1> HIDE DEF n, v
<1>4. /\ \A i \in 0..n : e[i] = c[i]
      /\ e[n + 1] = c[n] + Hit(h)
  BY <1>1
<1>5. e \in [0..(n + 1) -> Nat]
  <2>1. \A i \in 0..(n + 1) : (IF i <= n THEN c[i] ELSE c[n] + Hit(h)) \in Nat
    <3>1. c[n] \in Nat /\ \A i \in 0..n : c[i] \in Nat
      BY <1>1
    <3>2. c[n] + Hit(h) \in Nat
      BY <1>3, <3>1
    <3> QED
      BY <1>1, <3>1, <3>2
  <2> QED
    BY <2>1
<1> HIDE DEF e
<1>6. ASSUME NEW i \in 1..(n + 1)
      PROVE  e[i] = e[i - 1] + Hit(v[i])
  <2>1. CASE i \in 1..n
    <3>1. i \in 0..n /\ i - 1 \in 0..n
      BY <1>1, <2>1
    <3> QED
      BY <1>1, <1>2, <1>4, <2>1, <3>1
  <2>2. CASE i = n + 1
    <3>1. n \in 0..n /\ i - 1 = n
      BY <1>1, <2>2
    <3> QED
      BY <1>2, <1>4, <2>2, <3>1
  <2> QED
    BY <1>1, <2>1, <2>2
<1>7. e[0] = 0
  BY <1>1, <1>4
<1>8. Tallies(e, v)
  BY <1>2, <1>5, <1>6, <1>7 DEF Tallies
<1> QED
  BY <1>4, <1>8 DEF n, v

LEMMA TallyStartsLater ==
    ASSUME NEW w \in Seq(BOOLEAN), w # <<>>, NEW c, Tallies(c, w)
    PROVE  \E e : Tallies(e, Tail(w)) /\ e[Len(w) - 1] = c[Len(w)] - Hit(Head(w))
<1> DEFINE n == Len(w)
           v == Tail(w)
           e == [i \in 0..(n - 1) |-> c[i + 1] - c[1]]
<1>1. n \in Nat /\ n >= 1 /\ c \in [0..n -> Nat] /\ c[0] = 0
      /\ \A i \in 1..n : c[i] = c[i - 1] + Hit(w[i])
  BY DEF Tallies
<1>2. v \in Seq(BOOLEAN) /\ Len(v) = n - 1 /\ (\A i \in 1..(n - 1) : v[i] = w[i + 1]) /\ Head(w) = w[1]
  OBVIOUS
<1> HIDE DEF n, v
<1>3. c[1] = Hit(w[1])
  <2>1. 1 \in 1..n /\ c[1] = c[1 - 1] + Hit(w[1])
    BY <1>1
  <2>2. Hit(w[1]) \in Nat
    BY DEF Hit
  <2> QED
    BY <1>1, <2>1, <2>2
<1> DEFINE T == {k \in Nat : k + 1 <= n => c[1] <= c[k + 1]}
<1>4. T = Nat
  <2>1. 0 \in T
    BY <1>1
  <2>2. \A k \in T : k + 1 \in T
    <3> SUFFICES ASSUME NEW k \in Nat, k + 1 + 1 <= n, c[1] <= c[k + 1]
                 PROVE  c[1] <= c[k + 1 + 1]
      BY <1>1
    <3> DEFINE m == k + 1
               l == m + 1
    <3>1. l \in 1..n /\ l - 1 = m /\ m \in 0..n /\ l = k + 1 + 1 /\ m = k + 1 /\ 1 \in 0..n
      BY <1>1
    <3> HIDE DEF m, l
    <3>2. c[l] = c[m] + Hit(w[l]) /\ c[m] \in Nat /\ c[1] \in Nat
      BY <1>1, <3>1
    <3>3. Hit(w[l]) \in Nat
      BY DEF Hit
    <3>4. c[1] <= c[l]
      BY <3>1, <3>2, <3>3
    <3> QED
      BY <3>1, <3>4
  <2>3. T \in SUBSET Nat
    OBVIOUS
  <2> HIDE DEF T
  <2> QED
    BY <2>1, <2>2, <2>3, Induction
<1>5. ASSUME NEW i \in 0..(n - 1)
      PROVE  c[i + 1] - c[1] \in Nat
  <2>0. i \in Nat /\ i + 1 <= n /\ i + 1 \in 0..n /\ 1 \in 0..n
    BY <1>1
  <2>a. i \in T
    <3> HIDE DEF T
    <3> QED
      BY <1>4, <2>0
  <2>1. i \in T /\ i + 1 <= n /\ i + 1 \in 0..n /\ 1 \in 0..n
    BY <2>0, <2>a
  <2>2. c[1] <= c[i + 1] /\ c[1] \in Nat /\ c[i + 1] \in Nat
    BY <1>1, <2>1
  <2> QED
    BY <2>2
<1> HIDE DEF T
<1>6. e \in [0..(n - 1) -> Nat] /\ \A i \in 0..(n - 1) : e[i] = c[i + 1] - c[1]
  BY <1>5
<1> HIDE DEF e
<1>7. e[0] = 0
  <2>1. 0 \in 0..(n - 1) /\ 1 \in 0..n
    BY <1>1
  <2>2. c[1] \in Nat /\ e[0] = c[0 + 1] - c[1]
    BY <1>1, <1>6, <2>1
  <2> QED
    BY <2>2
<1>8. ASSUME NEW i \in 1..(n - 1)
      PROVE  e[i] = e[i - 1] + Hit(v[i])
  <2> DEFINE j == i + 1
  <2>1. j \in 1..n /\ j \in 0..n /\ j - 1 = i /\ i \in 0..n /\ i \in 0..(n - 1)
        /\ i - 1 \in 0..(n - 1) /\ (i - 1) + 1 = i /\ 1 \in 0..n /\ j = i + 1
    BY <1>1
  <2> HIDE DEF j
  <2>2. c[j] = c[i] + Hit(w[j]) /\ c[i] \in Nat /\ c[1] \in Nat
    BY <1>1, <2>1
  <2>3. e[i] = c[j] - c[1] /\ e[i - 1] = c[i] - c[1] /\ v[i] = w[j]
    <3>1. e[i - 1] = c[(i - 1) + 1] - c[1] /\ e[i] = c[i + 1] - c[1]
      BY <1>6, <2>1
    <3> QED
      BY <1>2, <2>1, <3>1
  <2>4. Hit(w[j]) \in Nat
    BY DEF Hit
  <2> QED
    BY <2>2, <2>3, <2>4
<1>9. Tallies(e, v)
  BY <1>2, <1>6, <1>7, <1>8 DEF Tallies
<1>10. e[n - 1] = c[n] - Hit(Head(w))
  <2>1. n - 1 \in 0..(n - 1) /\ (n - 1) + 1 = n
    BY <1>1
  <2>2. e[n - 1] = c[(n - 1) + 1] - c[1]
    BY <1>6, <2>1
  <2> QED
    BY <1>2, <1>3, <2>1, <2>2
<1> QED
  BY <1>9, <1>10 DEF n, v

LEMMA HitsTake ==
    ASSUME NEW d, HitsHold(d), NEW t, NEW p
    PROVE  LET r == RollingAccuracyUpdate(d, t, p)
           IN  r.ok /\ HitsHold(r.state)
<1> DEFINE w == d.window
           h == (t = p)
           full == Len(w) = MetricCapacity
           left == IF full THEN d.sum - Hit(Head(w)) ELSE d.sum
           kept == IF full THEN Tail(w) ELSE w
           s == [window |-> Append(kept, h), sum |-> left + Hit(h)]
<1>1. MetricCapacity \in Nat \ {0} /\ w \in Seq(BOOLEAN) /\ Len(w) \in Nat /\ Len(w) <= MetricCapacity
  BY MetricsAssumption DEF HitsHold
<1>2. PICK c : Tallies(c, w) /\ d.sum = c[Len(w)]
  BY DEF HitsHold
<1>3. h \in BOOLEAN
  OBVIOUS
<1>4. RollingAccuracyUpdate(d, t, p) = [ok |-> TRUE, state |-> s]
  BY DEF RollingAccuracyUpdate, Pushed, Hit, Done
<1> HIDE DEF w, h
<1>5. /\ kept \in Seq(BOOLEAN) /\ Len(kept) < MetricCapacity
      /\ \E e : Tallies(e, kept) /\ left = e[Len(kept)]
  <2>1. CASE full
    <3>1. w # <<>>
      BY <1>1, <2>1
    <3>2. Tail(w) \in Seq(BOOLEAN) /\ Len(Tail(w)) = Len(w) - 1
      BY <1>1, <3>1
    <3>3. PICK e : Tallies(e, Tail(w)) /\ e[Len(w) - 1] = c[Len(w)] - Hit(Head(w))
      BY <1>1, <1>2, <3>1, TallyStartsLater
    <3>4. left = e[Len(Tail(w))] /\ kept = Tail(w)
      BY <1>2, <2>1, <3>2, <3>3
    <3>5. Len(Tail(w)) < MetricCapacity
      BY <1>1, <2>1, <3>2
    <3> QED
      BY <3>2, <3>3, <3>4, <3>5
  <2>2. CASE ~full
    <3>1. left = c[Len(w)] /\ kept = w
      BY <1>2, <2>2
    <3>2. Len(w) < MetricCapacity
      BY <1>1, <2>2
    <3> QED
      BY <1>1, <1>2, <3>1, <3>2
  <2> QED
    BY <2>1, <2>2
<1> HIDE DEF kept, left, full
<1>6. PICK e : Tallies(e, kept) /\ left = e[Len(kept)]
  BY <1>5
<1>7. PICK g : Tallies(g, Append(kept, h)) /\ g[Len(kept) + 1] = e[Len(kept)] + Hit(h)
  BY <1>3, <1>5, <1>6, TallyGoesOn
<1>8. Append(kept, h) \in Seq(BOOLEAN) /\ Len(Append(kept, h)) = Len(kept) + 1 /\ Len(kept) \in Nat
  BY <1>3, <1>5
<1>9. Len(kept) + 1 <= MetricCapacity
  BY <1>1, <1>5, <1>8
<1>10. s.window = Append(kept, h) /\ s.sum = left + Hit(h)
  OBVIOUS
<1> HIDE DEF s
<1>11. HitsHold(s)
  <2>1. s.sum = g[Len(s.window)] /\ Tallies(g, s.window)
    BY <1>6, <1>7, <1>8, <1>10
  <2>2. s.window \in Seq(BOOLEAN) /\ Len(s.window) <= MetricCapacity
    BY <1>8, <1>9, <1>10
  <2> QED
    BY <2>1, <2>2 DEF HitsHold
<1> QED
  BY <1>4, <1>11

LEMMA HitsAreShare ==
    ASSUME NEW d, HitsHold(d)
    PROVE  IsShare(RollingAccuracyValue(d))
<1>1. PICK c : Tallies(c, d.window) /\ d.sum = c[Len(d.window)]
  BY DEF HitsHold
<1> DEFINE n == Len(d.window)
<1>2. /\ n \in Nat /\ n <= MetricCapacity /\ MetricCapacity \in Nat /\ n \in 0..n
      /\ MaxCount \in Nat /\ MetricCapacity <= MaxCount
  BY MetricsAssumption, FormatAssumption DEF HitsHold
<1>3. d.sum \in Nat /\ d.sum <= n
  BY <1>1, <1>2, TallyIsBounded DEF HitsHold
<1>4. d.window # <<>> => n # 0
  BY DEF HitsHold
<1> HIDE DEF n
<1>5. n <= 2 * MaxCount
  BY <1>2
<1>6. n # 0 => 0 <= FDiv(OfInt(d.sum), OfInt(n)) /\ FDiv(OfInt(d.sum), OfInt(n)) <= Unit
  BY <1>2, <1>3, <1>5, ShareOfCount
<1> QED
  BY <1>4, <1>6 DEF RollingAccuracyValue, IsShare, n

-----------------------------------------------------------------------------
(* All kinds of objects with a saved state of such numbers.                *)

NumberMoments == {"mean", "clipped_mean", "ew_mean", "variance", "median_mad", "ring", "kswin"}
PairMoments == {"r2", "interval", "accuracy", "rolling_accuracy"} \cup DOMAIN Cells
WeighedMoments ==
    {"weighted_mean", "weighted_variance", "weighted_ew_mean", "weighted_mae", "weighted_mse"}

MomentKinds == NumberMoments \cup PairMoments \cup WeighedMoments

\* A mean of the values of W, which is one as soon as there are values.
Averages(d, W) == MeanHolds(d, W) /\ (W # {} => d.count # 0)

\* What an object of a kind keeps of a set W of inputs.
Sound(kind, d, W) ==
    /\ kind = "mean" => Averages(d, W)
    /\ kind = "clipped_mean" => Averages(d, {Clipped(x) : x \in W})
    /\ kind = "variance" => VarianceHolds(d) /\ Averages(d, W)
    /\ kind = "ew_mean" => EwHolds(d)
    /\ kind = "interval" => EwHolds(d) /\ d.mean >= 0
    /\ kind = "median_mad" => MedianMadHolds(d)
    /\ kind = "ring" => RingHolds(d)
    /\ kind = "kswin" => KswinHolds(d)
    /\ kind = "r2" => R2Holds(d)
    /\ kind = "accuracy" => AccuracyHolds(d)
    /\ kind = "rolling_accuracy" => HitsHold(d)
    /\ kind \in DOMAIN Cells => ConfusionHolds(kind, d)
    /\ kind \in WeighedMoments => WeightHolds(d)

\* An object that takes an input, and one that refuses it.
SoundTaking(r, kind, d, W, x) ==
    Sound(kind, r.state, IF r.ok THEN W \cup {x} ELSE W)

LEMMA MomentKindsApart ==
    /\ DOMAIN Cells = {"precision", "recall", "f1"}
    /\ NumberMoments \cap (Pairs \cup Weighed) = {} /\ PairMoments \subseteq Pairs \ Weighed
    /\ WeighedMoments \subseteq Weighed /\ WeighedMoments \cap Pairs = {}
    /\ NumberMoments \subseteq NumberKinds /\ {"r2", "interval"} \subseteq LossKinds
    /\ WeighedMoments \subseteq LossKinds
    /\ "consensus" \notin MomentKinds /\ "selector" \notin MomentKinds
    /\ {"warmup", "reporter"} \cap MomentKinds = {}
BY CellsOfKinds
   DEF NumberMoments, PairMoments, WeighedMoments, MomentKinds, Pairs, Weighed, NumberKinds, LossKinds

LEMMA AveragesTaking ==
    ASSUME NEW W, NEW d, Averages(d, W), NEW x, FiniteFloat(x)
    PROVE  LET r == MeanUpdate(d, x)
           IN  IF r.ok THEN Averages(r.state, W \cup {x}) ELSE r.state = d
<1> DEFINE r == MeanUpdate(d, x)
<1>1. MeanHolds(d, W)
  BY DEF Averages
<1>2. \/ ~r.ok /\ r.state = d
      \/ r.ok /\ r.state.count # 0 /\ MeanHolds(r.state, W \cup {x})
  BY <1>1, MeanTakes
<1> HIDE DEF r
<1>3. IF r.ok THEN Averages(r.state, W \cup {x}) ELSE r.state = d
  BY <1>2 DEF Averages
<1> QED
  BY <1>3 DEF r

LEMMA NumbersStaySound ==
    ASSUME NEW kind \in NumberMoments, NEW d, NEW W, Sound(kind, d, W), NEW x \in Floats
    PROVE  SoundTaking(TakeNumber(kind, d, x), kind, d, W, x)
<1> USE DEF NumberMoments
<1>0. kind \notin DOMAIN Cells /\ kind \notin WeighedMoments
  BY CellsOfKinds DEF WeighedMoments
<1>1. CASE kind = "mean"
  <2> DEFINE r == MeanUpdate(d, x)
  <2>1. TakeNumber(kind, d, x) = r /\ Averages(d, W)
    BY <1>1 DEF TakeNumber, Sound
  <2>2. IF r.ok THEN Averages(r.state, W \cup {x}) ELSE r.state = d
    <3>1. IsFinite(x) => FiniteFloat(x)
      BY DEF FiniteFloat
    <3>2. ~IsFinite(x) => ~r.ok /\ r.state = d
      BY DEF MeanUpdate, Refused
    <3>3. CASE IsFinite(x)
      BY <2>1, <3>1, <3>3, AveragesTaking
    <3> HIDE DEF r
    <3> QED
      BY <3>2, <3>3
  <2> HIDE DEF r
  <2> QED
    BY <1>0, <1>1, <2>1, <2>2 DEF SoundTaking, Sound
<1>2. CASE kind = "clipped_mean"
  <2> DEFINE r == ClippedMeanUpdate(d, x)
             V == {Clipped(y) : y \in W}
  <2>1. TakeNumber(kind, d, x) = r /\ Averages(d, V)
    BY <1>2 DEF TakeNumber, Sound
  <2>2. IF r.ok THEN Averages(r.state, V \cup {Clipped(x)}) ELSE r.state = d
    <3>1. CASE IsFinite(x)
      <4>1. FiniteFloat(Clipped(x))
        BY <3>1, ClippedIsBetween DEF FiniteFloat
      <4>2. r = MeanUpdate(d, Clipped(x))
        BY <3>1 DEF ClippedMeanUpdate, Clipped
      <4> HIDE DEF r, V
      <4> QED
        BY <2>1, <4>1, <4>2, AveragesTaking
    <3>2. CASE ~IsFinite(x)
      BY <3>2 DEF ClippedMeanUpdate, Refused
    <3> QED
      BY <3>1, <3>2
  <2>3. {Clipped(y) : y \in W \cup {x}} = V \cup {Clipped(x)}
    OBVIOUS
  <2> HIDE DEF r
  <2>4. r.ok => Averages(r.state, {Clipped(y) : y \in W \cup {x}})
    <3> HIDE DEF V
    <3> QED
      BY <2>2, <2>3
  <2>5. ~r.ok => r.state = d
    BY <2>2
  <2>6. CASE r.ok
    <3>1. Sound(kind, r.state, W \cup {x})
      BY <1>0, <1>2, <2>4, <2>6 DEF Sound
    <3> QED
      BY <2>1, <2>6, <3>1 DEF SoundTaking
  <2>7. CASE ~r.ok
    BY <2>1, <2>5, <2>7 DEF SoundTaking
  <2> QED
    BY <2>6, <2>7
<1>3. CASE kind = "variance"
  <2> DEFINE r == VarianceUpdate(d, x)
             q == MeanUpdate(d, x)
  <2>1. TakeNumber(kind, d, x) = r /\ VarianceHolds(d) /\ Averages(d, W)
    BY <1>3 DEF TakeNumber, Sound
  <2>2. \/ ~r.ok /\ r.state = d
        \/ r.ok /\ IsFinite(x) /\ VarianceHolds(r.state) /\ r.state.count = d.count + 1
    BY <2>1, VarianceTakes
  <2>3. r.ok => q.ok /\ q.state.count = r.state.count /\ q.state.mean = r.state.mean
    BY DEF VarianceUpdate, MeanUpdate, Done, Refused
  <2>4. IsFinite(x) => IF q.ok THEN Averages(q.state, W \cup {x}) ELSE q.state = d
    BY <2>1, AveragesTaking DEF FiniteFloat
  <2> HIDE DEF r, q
  <2>5. r.ok => Averages(r.state, W \cup {x})
    BY <2>2, <2>3, <2>4 DEF Averages, MeanHolds
  <2> QED
    BY <1>0, <1>3, <2>1, <2>2, <2>5 DEF SoundTaking, Sound
<1>4. CASE kind = "ew_mean"
  <2> DEFINE r == EwMeanUpdate(d, x)
  <2>1. TakeNumber(kind, d, x) = r /\ EwHolds(d)
    BY <1>4 DEF TakeNumber, Sound
  <2>2. EwHolds(r.state)
    BY <2>1, EwTakes
  <2> HIDE DEF r
  <2> QED
    BY <1>0, <1>4, <2>1, <2>2 DEF SoundTaking, Sound
<1>5. CASE kind = "median_mad"
  <2> DEFINE r == MedianMadUpdate(d, x)
  <2>1. TakeNumber(kind, d, x) = r /\ MedianMadHolds(d)
    BY <1>5 DEF TakeNumber, Sound
  <2>2. MedianMadHolds(r.state)
    BY <2>1, MedianMadTakes
  <2> HIDE DEF r
  <2> QED
    BY <1>0, <1>5, <2>1, <2>2 DEF SoundTaking, Sound
<1>6. CASE kind = "ring"
  <2> DEFINE r == RingPush(d, x)
  <2>1. TakeNumber(kind, d, x) = r /\ RingHolds(d)
    BY <1>6 DEF TakeNumber, Sound
  <2>2. RingHolds(r.state)
    BY <2>1, RingTakes
  <2> HIDE DEF r
  <2> QED
    BY <1>0, <1>6, <2>1, <2>2 DEF SoundTaking, Sound
<1>7. CASE kind = "kswin"
  <2> DEFINE r == KswinUpdate(d, x)
  <2>1. TakeNumber(kind, d, x) = r /\ KswinHolds(d)
    BY <1>7 DEF TakeNumber, Sound
  <2>2. KswinHolds(r.state)
    BY <2>1, KswinGoesOn
  <2> HIDE DEF r
  <2> QED
    BY <1>0, <1>7, <2>1, <2>2 DEF SoundTaking, Sound
<1> QED
  BY <1>1, <1>2, <1>3, <1>4, <1>5, <1>6, <1>7

LEMMA PairsStaySound ==
    ASSUME NEW kind \in PairMoments, NEW d, NEW W, Sound(kind, d, W), NEW x,
           kind \in {"r2", "interval"} => x \in Floats \X Floats
    PROVE  SoundTaking(TakePair(kind, d, x[1], x[2]), kind, d, W, x)
<1>0. kind \notin WeighedMoments
  BY CellsOfKinds DEF PairMoments, WeighedMoments
<1>1. CASE kind = "r2"
  <2> DEFINE r == R2Update(d, x[1], x[2])
  <2>1. kind \notin DOMAIN Cells /\ x[1] \in Floats /\ x[2] \in Floats
    BY <1>1, CellsOfKinds
  <2>2. TakePair(kind, d, x[1], x[2]) = r /\ R2Holds(d)
    BY <1>1, <2>1 DEF TakePair, Sound
  <2>3. R2Holds(r.state)
    BY <2>1, <2>2, R2Takes
  <2> HIDE DEF r
  <2> QED
    BY <1>0, <1>1, <2>1, <2>2, <2>3 DEF SoundTaking, Sound
<1>2. CASE kind = "interval"
  <2> DEFINE e == AbsoluteError(x[1], x[2])
             r == EwMeanUpdate(d, e)
  <2>1. kind \notin DOMAIN Cells /\ x[1] \in Floats /\ x[2] \in Floats
    BY <1>2, CellsOfKinds
  <2>2. TakePair(kind, d, x[1], x[2]) = r /\ EwHolds(d) /\ d.mean >= 0
    BY <1>2, <2>1 DEF TakePair, IntervalObserve, Sound
  <2>3. e \in Floats /\ e >= 0
    BY <2>1, ErrorsAreFloats
  <2> HIDE DEF e
  <2>4. EwHolds(r.state) /\ r.state.mean >= 0
    BY <2>2, <2>3, EwTakes
  <2> HIDE DEF r
  <2> QED
    BY <1>0, <1>2, <2>1, <2>2, <2>4 DEF SoundTaking, Sound
<1>3. CASE kind = "accuracy"
  <2> DEFINE r == AccuracyUpdate(d, x[1], x[2])
  <2>1. kind \notin DOMAIN Cells
    BY <1>3, CellsOfKinds
  <2>2. TakePair(kind, d, x[1], x[2]) = r /\ AccuracyHolds(d)
    BY <1>3, <2>1 DEF TakePair, Sound
  <2>3. AccuracyHolds(r.state)
    BY <2>2, AccuracyTakes
  <2> HIDE DEF r
  <2> QED
    BY <1>0, <1>3, <2>1, <2>2, <2>3 DEF SoundTaking, Sound
<1>4. CASE kind = "rolling_accuracy"
  <2> DEFINE r == RollingAccuracyUpdate(d, x[1], x[2])
  <2>1. kind \notin DOMAIN Cells
    BY <1>4, CellsOfKinds
  <2>2. TakePair(kind, d, x[1], x[2]) = r /\ HitsHold(d)
    BY <1>4, <2>1 DEF TakePair, Sound
  <2>3. HitsHold(r.state)
    BY <2>2, HitsTake
  <2> HIDE DEF r
  <2> QED
    BY <1>0, <1>4, <2>1, <2>2, <2>3 DEF SoundTaking, Sound
<1>5. CASE kind \in DOMAIN Cells
  <2> DEFINE r == ConfusionUpdate(d, x[1], x[2])
  <2>1. kind \notin {"mean", "clipped_mean", "variance", "ew_mean", "interval", "median_mad", "ring",
                     "kswin", "r2", "accuracy", "rolling_accuracy"}
    BY <1>5, CellsOfKinds
  <2>2. TakePair(kind, d, x[1], x[2]) = r
    BY <1>5, CellsOfKinds DEF TakePair
  <2>3. ConfusionHolds(kind, d)
    BY <1>5 DEF Sound
  <2>4. ConfusionHolds(kind, r.state)
    BY <1>5, <2>3, ConfusionTakes
  <2> HIDE DEF r
  <2> QED
    BY <1>0, <1>5, <2>1, <2>2, <2>4 DEF SoundTaking, Sound
<1> QED
  BY <1>1, <1>2, <1>3, <1>4, <1>5 DEF PairMoments

LEMMA WeighedStaySound ==
    ASSUME NEW kind \in WeighedMoments, NEW d, NEW W, Sound(kind, d, W),
           NEW x \in Floats \X Floats,
           kind = "weighted_ew_mean" => EffectiveAlpha(x[2]) \in Floats
    PROVE  SoundTaking(TakeWeighed(kind, d, x[1], x[2]), kind, d, W, x)
<1> DEFINE r == TakeWeighed(kind, d, x[1], x[2])
<1>1. x[1] \in Floats /\ x[2] \in Floats /\ WeightHolds(d)
  BY DEF Sound
<1>2. kind \notin DOMAIN Cells
      /\ kind \notin {"mean", "clipped_mean", "variance", "ew_mean", "interval", "median_mad", "ring",
                      "kswin", "r2", "accuracy", "rolling_accuracy"}
  BY CellsOfKinds DEF WeighedMoments
<1>3. WeightHolds(r.state)
  <2>1. CASE kind = "weighted_mean"
    <3>1. r = WeightedMeanUpdate(d, x[1], x[2])
      BY <2>1 DEF TakeWeighed
    <3> HIDE DEF r
    <3> QED
      BY <1>1, <3>1, WeightedMeanTakes
  <2>2. CASE kind = "weighted_variance"
    <3>1. r = WeightedVarianceUpdate(d, x[1], x[2])
      BY <2>2 DEF TakeWeighed
    <3> HIDE DEF r
    <3> QED
      BY <1>1, <3>1, WeightedVarianceTakes
  <2>3. CASE kind = "weighted_ew_mean"
    <3>1. r = WeightedEwMeanUpdate(d, x[1], x[2])
      BY <2>3 DEF TakeWeighed
    <3> HIDE DEF r
    <3> QED
      BY <1>1, <2>3, <3>1, WeightedEwMeanTakes
  <2>4. CASE kind = "weighted_mae"
    <3>1. r = WeightedMaeUpdate(d, x[1], 0, x[2])
      BY <2>4 DEF TakeWeighed
    <3> HIDE DEF r
    <3> QED
      BY <1>1, <3>1, WeightedErrorTakes
  <2>5. CASE kind = "weighted_mse"
    <3>1. r = WeightedMseUpdate(d, x[1], 0, x[2])
      BY <2>5 DEF TakeWeighed
    <3> HIDE DEF r
    <3> QED
      BY <1>1, <3>1, WeightedErrorTakes
  <2> QED
    BY <2>1, <2>2, <2>3, <2>4, <2>5 DEF WeighedMoments
<1> HIDE DEF r
<1>4. \A V : Sound(kind, r.state, V)
  BY <1>2, <1>3 DEF Sound
<1> QED
  BY <1>4 DEF SoundTaking, r

\* A new object, and one that was reset.
LEMMA NewMomentIsSound ==
    ASSUME NEW kind \in MomentKinds
    PROVE  Sound(kind, New(kind), {})
<1>0. Averages(NewMean, {})
  BY NewMeanHolds DEF Averages
<1>1. CASE kind \in {"mean", "clipped_mean", "ew_mean", "interval"}
  <2>1. New(kind) = NewMean /\ kind \notin DOMAIN Cells /\ kind \notin WeighedMoments
    BY <1>1, CellsOfKinds DEF New, WeighedMoments
  <2>2. EwHolds(NewMean) /\ NewMean.mean >= 0
    BY ZeroIsFinite DEF EwHolds, NewMean
  <2>3. {Clipped(x) : x \in {}} = {}
    OBVIOUS
  <2> QED
    BY <1>0, <1>1, <2>1, <2>2, <2>3 DEF Sound
<1>2. CASE kind = "variance"
  <2>1. New(kind) = NewVariance /\ kind \notin DOMAIN Cells /\ kind \notin WeighedMoments
    BY <1>2, CellsOfKinds DEF New, WeighedMoments
  <2>2. Averages(NewVariance, {})
    BY ZeroIsFinite DEF Averages, MeanHolds, NewVariance
  <2> QED
    BY <1>2, <2>1, <2>2, NewVarianceHolds DEF Sound
<1>3. CASE kind = "median_mad"
  <2>1. New(kind) = NewMedianMad /\ kind \notin DOMAIN Cells /\ kind \notin WeighedMoments
    BY <1>3, CellsOfKinds DEF New, WeighedMoments
  <2> QED
    BY <1>3, <2>1, NewMedianMadHolds DEF Sound
<1>4. CASE kind = "ring"
  <2>1. New(kind) = NewRing /\ kind \notin DOMAIN Cells /\ kind \notin WeighedMoments
    BY <1>4, CellsOfKinds DEF New, WeighedMoments
  <2> QED
    BY <1>4, <2>1, NewRingHolds DEF Sound
<1>5. CASE kind = "kswin"
  <2>1. New(kind) = NewKswin /\ kind \notin DOMAIN Cells /\ kind \notin WeighedMoments
    BY <1>5, CellsOfKinds DEF New, WeighedMoments
  <2> QED
    BY <1>5, <2>1, NewKswinHolds DEF Sound
<1>6. CASE kind = "r2"
  <2>1. New(kind) = NewR2 /\ kind \notin DOMAIN Cells /\ kind \notin WeighedMoments
    BY <1>6, CellsOfKinds DEF New, WeighedMoments
  <2> QED
    BY <1>6, <2>1, NewR2Holds DEF Sound
<1>7. CASE kind = "accuracy"
  <2>1. New(kind) = NewAccuracy /\ kind \notin DOMAIN Cells /\ kind \notin WeighedMoments
    BY <1>7, CellsOfKinds DEF New, WeighedMoments
  <2> QED
    BY <1>7, <2>1, NewAccuracyHolds DEF Sound
<1>8. CASE kind = "rolling_accuracy"
  <2>1. New(kind) = NewRolling /\ kind \notin DOMAIN Cells /\ kind \notin WeighedMoments
    BY <1>8, CellsOfKinds DEF New, WeighedMoments
  <2> QED
    BY <1>8, <2>1, NewHitsHold DEF Sound
<1>9. CASE kind \in DOMAIN Cells
  <2>1. New(kind) = NewConfusion(kind) /\ kind \notin WeighedMoments
        /\ kind \notin {"mean", "clipped_mean", "variance", "ew_mean", "interval", "median_mad",
                        "ring", "kswin", "r2", "accuracy", "rolling_accuracy"}
    BY <1>9, CellsOfKinds DEF New, WeighedMoments
  <2>2. ConfusionHolds(kind, NewConfusion(kind))
    BY <1>9, NewConfusionHolds
  <2> QED
    BY <2>1, <2>2 DEF Sound
<1>10. CASE kind \in WeighedMoments
  <2>1. New(kind) = NewWeighted /\ kind \notin DOMAIN Cells
        /\ kind \notin {"mean", "clipped_mean", "variance", "ew_mean", "interval", "median_mad",
                        "ring", "kswin", "r2", "accuracy", "rolling_accuracy"}
    BY <1>10, CellsOfKinds DEF New, WeighedMoments
  <2> QED
    BY <2>1, NewWeightHolds DEF Sound
<1>11. \/ kind \in {"mean", "clipped_mean", "ew_mean", "interval"}
       \/ kind \in {"variance", "median_mad", "ring", "kswin", "r2", "accuracy", "rolling_accuracy"}
       \/ kind \in DOMAIN Cells \/ kind \in WeighedMoments
  BY DEF MomentKinds, NumberMoments, PairMoments
<1> QED
  BY <1>1, <1>2, <1>3, <1>4, <1>5, <1>6, <1>7, <1>8, <1>9, <1>10, <1>11

MomentInv ==
    /\ stream \in Streams /\ log \in Seq(stream.inputs)
    /\ stream.kind \in MomentKinds => Sound(stream.kind, object, ToSet(log))

LEMMA NothingInLog == \A S : <<>> \in Seq(S) /\ ToSet(<<>>) = {}
BY DEF ToSet

LEMMA MomentInit == MonitoringInit => MomentInv
<1> SUFFICES ASSUME MonitoringInit
             PROVE  MomentInv
  OBVIOUS
<1>1. stream \in Streams /\ log = <<>> /\ object = New(stream.kind)
  BY DEF MonitoringInit
<1>2. log \in Seq(stream.inputs) /\ ToSet(log) = {}
  BY <1>1, NothingInLog
<1> DEFINE kind == stream.kind
<1> HIDE DEF kind
<1>3. kind \in MomentKinds => Sound(kind, New(kind), {})
  BY NewMomentIsSound
<1> QED
  BY <1>1, <1>2, <1>3 DEF MomentInv, kind

LEMMA TakingIsSound ==
    ASSUME NEW s \in Streams, s.kind \in MomentKinds, NEW d, NEW W, Sound(s.kind, d, W),
           NEW x \in s.inputs
    PROVE  SoundTaking(Take(s.kind, d, x), s.kind, d, W, x)
<1> DEFINE kind == s.kind
<1>1. /\ kind \in NumberKinds => x \in Floats
      /\ kind \in LossKinds => x \in Floats \X Floats
      /\ kind = "weighted_ew_mean" => EffectiveAlpha(x[2]) \in Floats
  BY InputsAssumption
<1>2. kind \in MomentKinds /\ Sound(kind, d, W)
  OBVIOUS
<1> SUFFICES SoundTaking(Take(kind, d, x), kind, d, W, x)
  OBVIOUS
<1> HIDE DEF kind
<1>3. CASE kind \in NumberMoments
  <2>1. kind \notin Pairs /\ kind \notin Weighed /\ kind # "consensus" /\ kind # "selector"
        /\ x \in Floats
    BY <1>1, <1>3, MomentKindsApart DEF MomentKinds
  <2>2. Take(kind, d, x) = TakeNumber(kind, d, x)
    BY <2>1 DEF Take
  <2> QED
    BY <1>2, <1>3, <2>1, <2>2, NumbersStaySound
<1>4. CASE kind \in PairMoments
  <2>1. kind \in Pairs /\ (kind \in {"r2", "interval"} => x \in Floats \X Floats)
    BY <1>1, <1>4, MomentKindsApart
  <2>2. kind \notin Weighed /\ kind # "consensus" /\ kind # "selector"
    BY <1>4, MomentKindsApart DEF MomentKinds
  <2>3. Take(kind, d, x) = TakePair(kind, d, x[1], x[2])
    BY <2>1, <2>2 DEF Take
  <2> QED
    BY <1>2, <1>4, <2>1, <2>3, PairsStaySound
<1>5. CASE kind \in WeighedMoments
  <2>1. kind \notin Pairs /\ kind \in Weighed /\ x \in Floats \X Floats
    BY <1>1, <1>5, MomentKindsApart
  <2>2. kind # "consensus" /\ kind # "selector"
    BY <1>5, MomentKindsApart DEF MomentKinds
  <2>3. Take(kind, d, x) = TakeWeighed(kind, d, x[1], x[2])
    BY <2>1, <2>2 DEF Take
  <2> QED
    BY <1>1, <1>2, <1>5, <2>1, <2>3, WeighedStaySound
<1> QED
  BY <1>2, <1>3, <1>4, <1>5 DEF MomentKinds

LEMMA AppendedValues ==
    ASSUME NEW S, NEW l \in Seq(S), NEW x
    PROVE  ToSet(Append(l, x)) = ToSet(l) \cup {x}
<1>1. Len(l) \in Nat
  OBVIOUS
<1>2. /\ DOMAIN Append(l, x) = 1..(Len(l) + 1) /\ DOMAIN l = 1..Len(l)
      /\ Append(l, x)[Len(l) + 1] = x
      /\ \A i \in 1..Len(l) : Append(l, x)[i] = l[i]
  BY <1>1
<1> DEFINE m == Append(l, x)
<1> HIDE DEF m
<1>3. ToSet(m) = {m[i] : i \in 1..(Len(l) + 1)} /\ ToSet(l) = {l[i] : i \in 1..Len(l)}
  BY <1>2 DEF ToSet, m
<1>4. {m[i] : i \in 1..(Len(l) + 1)} = {l[i] : i \in 1..Len(l)} \cup {x}
  <2>1. ASSUME NEW i \in 1..(Len(l) + 1)
        PROVE  m[i] \in {l[j] : j \in 1..Len(l)} \cup {x}
    <3>1. i \in 1..Len(l) \/ i = Len(l) + 1
      BY <1>1
    <3> QED
      BY <1>2, <3>1 DEF m
  <2>2. ASSUME NEW i \in 1..Len(l)
        PROVE  l[i] \in {m[j] : j \in 1..(Len(l) + 1)}
    <3>1. i \in 1..(Len(l) + 1) /\ m[i] = l[i]
      BY <1>1, <1>2 DEF m
    <3> QED
      BY <3>1
  <2>3. x \in {m[j] : j \in 1..(Len(l) + 1)}
    <3>1. Len(l) + 1 \in 1..(Len(l) + 1) /\ m[Len(l) + 1] = x
      BY <1>1, <1>2 DEF m
    <3> QED
      BY <3>1
  <2> QED
    BY <2>1, <2>2, <2>3
<1> QED
  BY <1>3, <1>4 DEF m

LEMMA LogGrows ==
    ASSUME MomentInv, [MonitoringNext]_vars
    PROVE  log' \in Seq(stream.inputs)
<1>1. log \in Seq(stream.inputs)
  BY DEF MomentInv
<1>2. CASE Feed
  <2>1. PICK input \in stream.inputs : Took(Take(stream.kind, object, input), input)
    BY <1>2, Zenon DEF Feed
  <2>2. log' = Append(log, input) \/ log' = log
    BY <2>1 DEF Took
  <2> QED
    BY <1>1, <2>2
<1>3. CASE Reset
  BY <1>3, NothingInLog DEF Reset
<1>4. CASE Select \/ Compare \/ UNCHANGED vars
  BY <1>1, <1>4 DEF Select, Compare, vars
<1> QED
  BY <1>2, <1>3, <1>4 DEF MonitoringNext

LEMMA MomentStep == MomentInv /\ [MonitoringNext]_vars => MomentInv'
<1> SUFFICES ASSUME MomentInv, [MonitoringNext]_vars
             PROVE  MomentInv'
  OBVIOUS
<1>1. stream' = stream /\ stream \in Streams /\ log' \in Seq(stream.inputs) /\ log \in Seq(stream.inputs)
  BY StreamStays, LogGrows DEF MomentInv
<1>2. SUFFICES ASSUME stream.kind \in MomentKinds
               PROVE  Sound(stream.kind, object', ToSet(log'))
  BY <1>1 DEF MomentInv
<1>3. Sound(stream.kind, object, ToSet(log))
  BY <1>2 DEF MomentInv
<1>4. CASE UNCHANGED <<object, log>>
  BY <1>3, <1>4
<1>5. CASE /\ log' = <<>>
           /\ object' = IF stream.kind = "ring" THEN RingReset(object) ELSE New(stream.kind)
  <2>1. ToSet(log') = {}
    BY <1>5, NothingInLog
  <2>2. CASE stream.kind = "ring"
    <3>1. RingHolds(object)
      BY <1>3, <2>2 DEF Sound
    <3>2. RingHolds(object')
      BY <1>5, <2>2, <3>1, ResetRingHolds
    <3> DEFINE kind == stream.kind
    <3>3. kind = "ring" /\ kind \notin DOMAIN Cells /\ kind \notin WeighedMoments
      BY <2>2, CellsOfKinds DEF WeighedMoments
    <3> HIDE DEF kind
    <3>4. Sound(kind, object', ToSet(log'))
      BY <3>2, <3>3 DEF Sound
    <3> QED
      BY <3>4 DEF kind
  <2>3. CASE stream.kind # "ring"
    <3> DEFINE kind == stream.kind
    <3>1. object' = New(kind) /\ kind \in MomentKinds
      BY <1>2, <1>5, <2>3
    <3> HIDE DEF kind
    <3>2. Sound(kind, object', {})
      BY <3>1, NewMomentIsSound
    <3> QED
      BY <2>1, <3>2 DEF kind
  <2> QED
    BY <2>2, <2>3
<1>6. CASE \E input \in stream.inputs : Took(Take(stream.kind, object, input), input)
  <2>1. PICK input \in stream.inputs : Took(Take(stream.kind, object, input), input)
    BY <1>6
  <2> DEFINE r == Take(stream.kind, object, input)
  <2>2. object' = r.state /\ log' = IF r.ok THEN Append(log, input) ELSE log
    BY <2>1 DEF Took
  <2>3. SoundTaking(r, stream.kind, object, ToSet(log), input)
    BY <1>1, <1>2, <1>3, TakingIsSound
  <2> HIDE DEF r
  <2>4. ToSet(Append(log, input)) = ToSet(log) \cup {input}
    BY <1>1, AppendedValues
  <2>5. CASE r.ok
    <3>1. ToSet(log') = ToSet(log) \cup {input}
      BY <2>2, <2>4, <2>5
    <3> QED
      BY <2>2, <2>3, <2>5, <3>1 DEF SoundTaking
  <2>6. CASE ~r.ok
    BY <2>2, <2>3, <2>6 DEF SoundTaking
  <2> QED
    BY <2>5, <2>6
<1>7. stream.kind \notin {"warmup", "reporter"} /\ stream.kind # "selector"
  BY <1>2, MomentKindsApart
<1> QED
  BY <1>4, <1>5, <1>6, <1>7, CallSteps

LEMMA MomentInvHolds == MonitoringSpec => []MomentInv
<1> QED
  BY MomentInit, MomentStep, PTL DEF MonitoringSpec

-----------------------------------------------------------------------------
(* What is saved                                                           *)

LEMMA ClipsBetween == \A x \in Int : ClipLower <= Clipped(x) /\ Clipped(x) <= ClipUpper
<1>1. FiniteFloat(ClipLower) /\ FiniteFloat(ClipUpper) /\ ClipLower <= ClipUpper
  BY StatisticsAssumption DEF FiniteFloat
<1>2. ClipLower \in Int /\ ClipUpper \in Int
  BY <1>1, FiniteIsInteger
<1> QED
  BY <1>1, <1>2 DEF Clipped, Lower, Higher

LEMMA ClippedMeanIsAccepted ==
    ASSUME NEW d, NEW W \in SUBSET Int, Averages(d, {Clipped(x) : x \in W})
    PROVE  ClippedMeanIsValid(d)
<1> DEFINE C == {Clipped(x) : x \in W}
<1>1. /\ d.count \in Nat /\ FiniteFloat(d.mean) /\ \A v \in C : FiniteFloat(v)
      /\ d.count = 0 => d.mean = 0
      /\ d.count # 0 => Spans(d.mean, C)
  BY DEF Averages, MeanHolds
<1>2. \A v \in C : ClipLower <= v /\ v <= ClipUpper /\ v \in Int
  BY <1>1, ClipsBetween, FiniteIsInteger
<1>3. ClipLower \in Int /\ ClipUpper \in Int /\ d.mean \in Int
  BY <1>1, StatisticsAssumption, FiniteIsInteger DEF FiniteFloat
<1> HIDE DEF C
<1>4. d.count > 0 => ClipLower <= d.mean /\ d.mean <= ClipUpper
  BY <1>1, <1>2, <1>3 DEF Spans
<1> QED
  BY <1>1, <1>4 DEF ClippedMeanIsValid, FiniteFloat

LEMMA SoundIsAccepted ==
    ASSUME NEW kind \in MomentKinds, NEW d, NEW W, Sound(kind, d, W),
           kind = "clipped_mean" => W \in SUBSET Int
    PROVE  IsAccepted(kind, d)
<1>1. CASE kind \in DOMAIN Cells
  <2>1. ConfusionIsValid(d)
    BY <1>1, ConfusionIsShare DEF Sound
  <2>2. kind \in {"precision", "recall", "f1"}
    BY <1>1, CellsOfKinds
  <2> QED
    BY <1>1, <2>1, <2>2 DEF IsAccepted, Weighed
<1>2. CASE kind \in WeighedMoments
  <2>1. WeightHolds(d)
    BY <1>2 DEF Sound
  <2>2. WeightedIsValid(d)
    BY <2>1 DEF WeightHolds, WeightedIsValid, FiniteFloat
  <2>3. kind \notin DOMAIN Cells /\ kind \in Weighed \ {"decayed_mean"}
    BY <1>2, CellsOfKinds DEF WeighedMoments, Weighed
  <2> QED
    BY <1>2, <2>2, <2>3 DEF IsAccepted, Weighed
<1>3. CASE kind \in NumberMoments \cup {"r2", "interval", "accuracy", "rolling_accuracy"}
  <2>1. kind \notin DOMAIN Cells /\ kind \notin Weighed
    BY <1>3, CellsOfKinds DEF NumberMoments, Weighed
  <2>2. kind \in {"mean", "ew_mean", "interval"} => MeanIsValid(d)
    BY DEF Sound, Averages, MeanHolds, EwHolds, MeanIsValid, FiniteFloat
  <2>3. kind = "variance" => VarianceIsValid(d)
    BY DEF Sound, VarianceHolds, VarianceIsValid, FiniteFloat
  <2>4. kind = "clipped_mean" => ClippedMeanIsValid(d)
    BY ClippedMeanIsAccepted DEF Sound
  <2>5. kind = "median_mad" => MedianMadIsValid(d)
    <3> SUFFICES ASSUME MedianMadHolds(d)
                 PROVE  MedianMadIsValid(d)
      BY DEF Sound
    <3>1. d.window \in Seq(FiniteNumbers) /\ Len(d.window) = Lower(d.samples, Capacity)
      BY DEF MedianMadHolds
    <3>2. \A i \in DOMAIN d.window : d.window[i] \in FiniteNumbers
      BY <3>1
    <3> QED
      BY <3>1, <3>2 DEF MedianMadIsValid, FiniteNumbers
  <2>6. kind = "ring" => RingIsValid(d)
    <3> SUFFICES ASSUME RingHolds(d)
                 PROVE  RingIsValid(d)
      BY DEF Sound
    <3>1. Capacity \in Nat \ {0}
      BY StatisticsAssumption
    <3> QED
      BY <3>1 DEF RingHolds, RingIsValid
  <2>7. kind = "kswin" => KswinIsValid(d)
    BY KswinIsAccepted DEF Sound
  <2>8. kind = "r2" => R2IsValid(d)
    BY DEF Sound, R2Holds, R2IsValid, VarianceHolds, VarianceIsValid, FiniteFloat
  <2> QED
    BY <1>3, <2>1, <2>2, <2>3, <2>4, <2>5, <2>6, <2>7, <2>8, Zenon DEF IsAccepted, NumberMoments
<1> QED
  BY <1>1, <1>2, <1>3 DEF MomentKinds, PairMoments

LEMMA LoggedValues ==
    ASSUME MomentInv, stream.kind \in NumberKinds
    PROVE  ToSet(log) \in SUBSET Floats
<1>1. log \in Seq(stream.inputs) /\ stream.inputs \subseteq Floats
  BY InputsAssumption DEF MomentInv
<1>2. \A i \in DOMAIN log : log[i] \in Floats
  BY <1>1
<1> QED
  BY <1>2 DEF ToSet

\* What calls can lead to, refused ones included, passes the validation of a
\* restore (validate_state), in every floating-point format, for every object but
\* the quantiles and the detectors that keep sums: the mean of a clipped mean
\* stays between its bounds however its updates round, a window is as long as its
\* counter says, cells do not outnumber samples.
THEOREM SavedStatesAreAccepted ==
    MonitoringSpec => [](stream.kind \notin {"quantiles", "page_hinkley", "adwin", "aware"}
                         => SavedStateIsAccepted)
<1> DEFINE Others == stream.kind \notin {"quantiles", "page_hinkley", "adwin", "aware", "consensus"}
                     => SavedStateIsAccepted
<1>1. MomentInv => Others
  <2> SUFFICES ASSUME MomentInv,
                      stream.kind \notin {"quantiles", "page_hinkley", "adwin", "aware", "consensus"}
               PROVE  SavedStateIsAccepted
    OBVIOUS
  <2> DEFINE kind == stream.kind
  <2>0. /\ kind \notin {"quantiles", "page_hinkley", "adwin", "aware", "consensus"}
        /\ kind \in MomentKinds => Sound(kind, object, ToSet(log))
    BY DEF MomentInv
  <2>1. kind = "clipped_mean" => ToSet(log) \in SUBSET Int
    BY LoggedValues, FiniteFloats DEF NumberKinds
  <2> SUFFICES IsAccepted(kind, object)
    BY DEF SavedStateIsAccepted
  <2> HIDE DEF kind
  <2>2. CASE kind \in MomentKinds
    BY <2>0, <2>1, <2>2, SoundIsAccepted
  <2>3. CASE kind \notin MomentKinds
    <3>1. /\ kind \notin {"mean", "ew_mean", "interval", "variance", "clipped_mean", "median_mad",
                          "ring", "r2", "kswin"}
          /\ kind \notin DOMAIN Cells
      BY <2>3 DEF MomentKinds, NumberMoments, PairMoments
    <3>2. kind \notin Weighed \ {"decayed_mean"}
      BY <2>3 DEF MomentKinds, WeighedMoments, Weighed
    <3> QED
      BY <2>0, <3>1, <3>2, Zenon DEF IsAccepted
  <2> QED
    BY <2>2, <2>3
<1>2. MonitoringSpec => []Others
  BY <1>1, MomentInvHolds, PTL
<1>3. /\ Others
      /\ stream.kind = "consensus" => SavedStateIsAccepted
      => (stream.kind \notin {"quantiles", "page_hinkley", "adwin", "aware"}
          => SavedStateIsAccepted)
  OBVIOUS
<1> QED
  BY <1>2, <1>3, SavedConsensusIsAccepted, PTL

-----------------------------------------------------------------------------
(* Ranges                                                                  *)

\* A set of finite values that has some has a least and a greatest one.
LEMMA FiniteExtremes ==
    ASSUME NEW W, W # {}, \A v \in W : FiniteFloat(v)
    PROVE  /\ Min(W) \in W /\ \A v \in W : Min(W) <= v
           /\ Max(W) \in W /\ \A v \in W : v <= Max(W)
<1>1. Largest \in Nat /\ \A v \in W : v \in Int /\ -Largest <= v /\ v <= Largest
  BY FormatAssumption, FiniteIsInteger DEF FiniteFloat, IsFinite
<1> DEFINE L == {v + Largest : v \in W}
           G == {Largest - v : v \in W}
<1>2. L \in SUBSET Nat /\ L # {} /\ G \in SUBSET Nat /\ G # {}
  BY <1>1
<1>3. PICK l \in L : \A y \in L : l <= y
  BY <1>2, SmallestOf
<1>4. PICK g \in G : \A y \in G : g <= y
  BY <1>2, SmallestOf
<1>5. PICK a \in W : l = a + Largest
  BY <1>3
<1>6. PICK b \in W : g = Largest - b
  BY <1>4
<1>7. ASSUME NEW v \in W
      PROVE  a <= v /\ b >= v
  <2>1. v + Largest \in L /\ Largest - v \in G
    OBVIOUS
  <2>2. l <= v + Largest /\ g <= Largest - v
    BY <1>3, <1>4, <2>1
  <2> QED
    BY <1>1, <1>5, <1>6, <2>2
<1>8. /\ \E x \in W : \A y \in W : x =< y
      /\ \E x \in W : \A y \in W : x >= y
  BY <1>7
<1>9. Min(W) \in W /\ \A v \in W : Min(W) =< v
  BY <1>8, Zenon DEF Min
<1>10. Max(W) \in W /\ \A v \in W : Max(W) >= v
  BY <1>8, Zenon DEF Max
<1> QED
  BY <1>1, <1>9, <1>10

LEMMA AveragesAreWithin ==
    ASSUME NEW d, NEW W, Averages(d, W)
    PROVE  Within({d.mean}, W)
<1> SUFFICES ASSUME W # {}
             PROVE  Min(W) <= d.mean /\ d.mean <= Max(W)
  BY DEF Within
<1>1. /\ FiniteFloat(d.mean) /\ \A v \in W : FiniteFloat(v)
      /\ Spans(d.mean, W)
  BY DEF Averages, MeanHolds
<1>2. /\ Min(W) \in W /\ \A v \in W : Min(W) <= v
      /\ Max(W) \in W /\ \A v \in W : v <= Max(W)
  BY <1>1, FiniteExtremes
<1>3. d.mean \in Int /\ \A v \in W : v \in Int
  BY <1>1, FiniteIsInteger
<1> QED
  BY <1>1, <1>2, <1>3 DEF Spans

\* A quotient of no negative number by a positive one is not negative.
LEMMA QuotientIsPositive ==
    ASSUME NEW a \in Int, IsFinite(a), a >= 0, NEW b \in Int, b > 0
    PROVE  0 <= FDiv(a, b)
<1>1. Unit \in Nat /\ Largest \in Nat
  BY FormatAssumption
<1>2. a * Unit \in Int /\ a * Unit >= 0
  BY <1>1
<1>3. a * Unit >= 0 * b /\ b \in Nat
  BY <1>2
<1>4. 0 <= ToFloat(a * Unit, b)
  BY <1>2, <1>3, ToFloatBounds, ZeroIsRepresentable, ConstantsAreFloats
<1> QED
  BY <1>1, <1>4 DEF FDiv, NaN, IsFinite

LEMMA VarianceIsPositive ==
    ASSUME NEW d, VarianceHolds(d)
    PROVE  VarianceValue("population", d) = NoValue \/ 0 <= VarianceValue("population", d)
<1>1. d.count \in Nat /\ IsFinite(d.m2) /\ d.m2 >= 0 /\ d.m2 \in Int
  BY FiniteIsInteger DEF VarianceHolds, FiniteFloat
<1> SUFFICES ASSUME d.count # 0
             PROVE  0 <= FDiv(d.m2, OfInt(d.count))
  BY DEF VarianceValue, Denominator
<1>2. OfInt(d.count) \in Int /\ OfInt(d.count) >= Unit /\ Unit \in Nat /\ Unit > 0
  BY <1>1, CountBounds, FormatAssumption
<1> QED
  BY <1>1, <1>2, QuotientIsPositive

\* The kinds whose values are in range whatever their stream.
RangedKinds == {"mean", "clipped_mean", "accuracy", "rolling_accuracy", "r2", "interval"}
                \cup DOMAIN Cells

\* However the updates round, the mean of an object that averages stays between
\* the least and the greatest value it took (a clipped one between the least and
\* the greatest clipped value), accuracies, precision, recall and f1 are in
\* [0, 1], R2 is at most 1, a prediction interval is around its prediction, and
\* the variance of numbers that round is not negative, in every format.
THEOREM RangesHold ==
    MonitoringSpec => [](stream.kind \in RangedKinds \/ (stream.kind = "variance" /\ ~stream.exact)
                         => MeansStayInRange)
<1>1. MomentInv => (stream.kind \in RangedKinds \/ (stream.kind = "variance" /\ ~stream.exact)
                    => MeansStayInRange)
  <2> SUFFICES ASSUME MomentInv,
                      stream.kind \in RangedKinds \/ (stream.kind = "variance" /\ ~stream.exact)
               PROVE  MeansStayInRange
    OBVIOUS
  <2>1. stream.kind \in MomentKinds
    BY DEF RangedKinds, MomentKinds, NumberMoments, PairMoments
  <2>2. Sound(stream.kind, object, ToSet(log))
    BY <2>1 DEF MomentInv
  <2>3. CASE stream.kind = "mean"
    <3>1. Within({object.mean}, ToSet(log))
      BY <2>2, <2>3, AveragesAreWithin DEF Sound
    <3> QED
      BY <2>3, <3>1, CellsOfKinds, Zenon DEF MeansStayInRange
  <2>4. CASE stream.kind = "clipped_mean"
    <3>1. Averages(object, {Clipped(x) : x \in ToSet(log)})
      BY <2>2, <2>4 DEF Sound
    <3>2. Within({object.mean}, {Clipped(x) : x \in ToSet(log)})
      BY <3>1, AveragesAreWithin
    <3> QED
      BY <2>4, <3>2, CellsOfKinds, Zenon DEF MeansStayInRange, Clipped
  <2>5. CASE stream.kind = "variance" /\ ~stream.exact
    <3>1. VarianceHolds(object) /\ Averages(object, ToSet(log))
      BY <2>2, <2>5 DEF Sound
    <3>2. Within({object.mean}, ToSet(log))
      BY <3>1, AveragesAreWithin
    <3>3. IsVariance(VarianceValue("population", object), ToSet(log))
      BY <2>5, <3>1, VarianceIsPositive DEF IsVariance
    <3> QED
      BY <2>5, <3>2, <3>3, CellsOfKinds, Zenon DEF MeansStayInRange
  <2>6. CASE stream.kind = "accuracy"
    <3>1. IsShare(AccuracyValue(object))
      BY <2>2, <2>6, AccuracyIsShare DEF Sound
    <3> QED
      BY <2>6, <3>1, CellsOfKinds, Zenon DEF MeansStayInRange
  <2>7. CASE stream.kind = "rolling_accuracy"
    <3>1. IsShare(RollingAccuracyValue(object))
      BY <2>2, <2>7, HitsAreShare DEF Sound
    <3> QED
      BY <2>7, <3>1, CellsOfKinds, Zenon DEF MeansStayInRange
  <2>8. CASE stream.kind = "r2"
    <3>1. R2Value(object) = NoValue \/ R2Value(object) <= Unit
      BY <2>2, <2>8, R2IsAtMostOne DEF Sound
    <3> QED
      BY <2>8, <3>1, CellsOfKinds, Zenon DEF MeansStayInRange
  <2>9. CASE stream.kind = "interval"
    <3>1. EwHolds(object) /\ object.mean >= 0
      BY <2>2, <2>9 DEF Sound
    <3> DEFINE i == Interval(object, Unit)
    <3>2. object.count > 0 => i.lower <= Unit /\ Unit <= i.upper
      BY <3>1, IntervalIsAround
    <3> QED
      BY <2>9, <3>2, CellsOfKinds, Zenon DEF MeansStayInRange
  <2>10. CASE stream.kind \in DOMAIN Cells
    <3> DEFINE kind == stream.kind
    <3>1. kind \in DOMAIN Cells /\ ConfusionHolds(kind, object)
      BY <2>2, <2>10 DEF Sound
    <3> HIDE DEF kind
    <3>2. IsShare(ConfusionValue(kind, object))
      BY <3>1, ConfusionIsShare
    <3>3. kind \in {"precision", "recall", "f1"}
      BY <3>1, CellsOfKinds
    <3> QED
      BY <2>10, <3>2, <3>3 DEF MeansStayInRange, kind
  <2> QED
    BY <2>3, <2>4, <2>5, <2>6, <2>7, <2>8, <2>9, <2>10 DEF RangedKinds
<1> QED
  BY <1>1, MomentInvHolds, PTL
=============================================================================
