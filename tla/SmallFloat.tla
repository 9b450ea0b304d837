----------------------------- MODULE SmallFloat -----------------------------
(***************************************************************************)
(* The arithmetic of f64 in a floating-point format small enough to reach  *)
(* its edges. A number is an integer multiple of the smallest positive     *)
(* one; 1.0 is Unit of them. A result is rounded to Digits significant     *)
(* bits, half to even, and one beyond Largest is infinite. Signed zeros    *)
(* are not distinguished.                                                  *)
(*                                                                         *)
(* Numbers of at most 2^Digits smallest multiples are exact, so a run can  *)
(* tell what the code computes (exact inputs) from what rounding and       *)
(* overflow make of it.                                                    *)
(***************************************************************************)
EXTENDS Integers, Sequences, SequencesExt

CONSTANTS
    Unit,       \* 1.0
    Digits,     \* bits of the significand
    Largest,    \* f64::MAX
    Tolerance,  \* 1 / Tolerance is the relative error a validation accepts (1e-10)
    MaxCount    \* u64::MAX, the largest sample count

ASSUME FormatAssumption ==
    /\ Unit \in Nat \ {0} /\ Digits \in Nat \ {0} /\ MaxCount \in Nat \ {0}
    /\ Tolerance \in Nat \ {0}
    /\ Largest \in Nat \ {0}
    /\ 2 * MaxCount * Unit <= Largest    \* no count is too large for f64

Inf == Largest + 1
NegInf == -(Largest + 1)
NaN == Largest + 2

IsFinite(x) == x \in (-Largest)..Largest

Magnitude(x) == IF x < 0 THEN -x ELSE x

\* The smaller and the larger of two numbers.
Lower(a, b) == IF a < b THEN a ELSE b
Higher(a, b) == IF a < b THEN b ELSE a

\* p / q for q > 0, to the nearest integer, a half to the even one.
RoundedQuotient(p, q) ==
    LET below == p \div q
        rest  == p % q
    IN  IF 2 * rest > q \/ (2 * rest = q /\ below % 2 = 1) THEN below + 1 ELSE below

\* The powers of two that the spacing of a number m may be: 31 of them are enough
\* unless the number is huge.
Exponents(m) == IF m < 2 ^ 30 THEN 0..30 ELSE 0..m

\* The distance between neighbouring numbers of the magnitude of p / q.
Spacing(p, q) ==
    2 ^ (CHOOSE e \in Exponents(Magnitude(p)) :
            /\ Magnitude(p) < q * 2 ^ (Digits + e)
            /\ e > 0 => Magnitude(p) >= q * 2 ^ (Digits + e - 1))

\* A number too large for the format is infinite.
Bounded(x) == IF x > Largest THEN Inf ELSE IF x < -Largest THEN NegInf ELSE x

\* The multiple of a spacing nearest to p / q.
NearestMultiple(p, q, step) == step * RoundedQuotient(p, q * step)

\* The number nearest to p / q.
ToFloat(p, q) == Bounded(NearestMultiple(p, q, Spacing(p, q)))

\* The values of f64: the numbers of the format, and what is not a number or
\* not finite.
IsNumber(x) == IsFinite(x) /\ ToFloat(x, 1) = x

Floats == {x \in Int : IsFinite(x) => IsNumber(x)}

ASSUME NumbersAssumption == IsNumber(Unit) /\ IsNumber(Largest)

\* An integer of the program (`as f64`).
OfInt(n) == ToFloat(n * Unit, 1)

FNeg(a) == IF a = NaN THEN NaN ELSE -a
FAbs(a) == IF a = NaN THEN NaN ELSE Magnitude(a)

FAdd(a, b) ==
    IF IsFinite(a) /\ IsFinite(b) THEN ToFloat(a + b, 1)
    ELSE IF a = NaN \/ b = NaN \/ a = FNeg(b) THEN NaN
    ELSE IF IsFinite(a) THEN b ELSE a

FSub(a, b) == FAdd(a, FNeg(b))

\* An infinite product or quotient, of the sign of the operands.
Infinite(a, b) == IF (a < 0) = (b < 0) THEN Inf ELSE NegInf

FMul(a, b) ==
    IF IsFinite(a) /\ IsFinite(b) THEN ToFloat(a * b, Unit)
    ELSE IF a = NaN \/ b = NaN \/ a = 0 \/ b = 0 THEN NaN
    ELSE Infinite(a, b)

FDiv(a, b) ==
    IF a = NaN \/ b = NaN \/ (a = 0 /\ b = 0) \/ ~(IsFinite(a) \/ IsFinite(b)) THEN NaN
    ELSE IF ~IsFinite(b) THEN 0
    ELSE IF b = 0 \/ ~IsFinite(a) THEN Infinite(a, b)
    ELSE IF b > 0 THEN ToFloat(a * Unit, b) ELSE ToFloat(-a * Unit, -b)

\* The square root of a number that is not negative, rounded down: one bit after
\* the other.
FSqrt(a) ==
    LET root[k \in 0..15] ==
            LET above == root[k - 1]
                next  == above + 2 ^ (15 - k)
            IN  IF k = 0 THEN 0 ELSE IF next * next <= a * Unit THEN next ELSE above
    IN  IF ~IsFinite(a) THEN a ELSE IF a < 0 THEN NaN ELSE root[15]

\* Comparisons with NaN are false.
FLess(a, b) == a # NaN /\ b # NaN /\ a < b
FAtMost(a, b) == a # NaN /\ b # NaN /\ a <= b

\* (a - b).abs() <= 1e-10 * max(|a|, |b|, 1.0)
Close(a, b) ==
    Magnitude(a - b) * Tolerance <= Higher(Unit, Higher(Magnitude(a), Magnitude(b)))

\* None of an Option<f64>.
NoValue == Largest + 3

\* Sums of integers, without rounding, and how many elements pass a test.
SumOver(s, Term(_)) == FoldLeft(LAMBDA sum, e : sum + Term(e), 0, s)
Count(s, Test(_)) == Cardinality({i \in DOMAIN s : Test(s[i])})

\* The values in ascending order: the i-th has less than i below it, and i that
\* are not above.
Sorted(values) ==
    [i \in 1..Len(values) |->
        CHOOSE x \in ToSet(values) :
            Count(values, LAMBDA y : y < x) < i /\ i <= Count(values, LAMBDA y : y <= x)]

\* A result that is not finite is an error, which NaN stands for.
OrNaN(x) == IF IsFinite(x) THEN x ELSE NaN

\* A sum that must stay finite at every step.
CheckedAdd(sum, term) == IF IsFinite(sum) THEN OrNaN(FAdd(sum, term)) ELSE NaN
CheckedSum(terms) ==
    LET last == Cardinality(DOMAIN terms)
        sum[n \in 0..last] == IF n = 0 THEN 0 ELSE CheckedAdd(sum[n - 1], terms[n])
    IN  sum[last]

\* iter().sum()
FSum(s) == FoldLeft(FAdd, 0, s)

-----------------------------------------------------------------------------
(* What a call returns and leaves behind. A call that is refused need not  *)
(* leave the state as it was: that depends on where the code gives up.     *)

Done(s) == [ok |-> TRUE, state |-> s]
Refused(s) == [ok |-> FALSE, state |-> s]

\* checked_increment
CanCount(n) == n < MaxCount

\* The last n elements of a sequence, all of them if there are fewer.
LastOf(s, n) == SubSeq(s, Higher(1, Len(s) - n + 1), Len(s))
=============================================================================
