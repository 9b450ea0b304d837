--------------------------- MODULE DriftDetectors ---------------------------
(***************************************************************************)
(* The drift detectors of src/drift: Page-Hinkley, ADWIN and KSWIN, with   *)
(* the portable states they export and restore. Each is a function from    *)
(* its state and a value to its next state.                                *)
(*                                                                         *)
(* The Hoeffding bound of ADWIN and the p-value of KSWIN are logarithms    *)
(* and series; the constants LogTerm and PValue stand for them. The code   *)
(* needs of them what the assumption says: stricter levels have larger     *)
(* bounds, larger differences smaller p-values.                            *)
(***************************************************************************)
EXTENDS SmallFloat

CONSTANTS
    MinSamples,                  \* min_samples of Page-Hinkley and ADWIN
    DriftThreshold, WarningThreshold, Alpha, Delta,   \* PageHinkleyConfig
    MaxWindow,                   \* AdwinConfig.max_window
    LogTerm,                     \* ADWIN: ln(4 / delta') for a warning and a drift
    WindowSize, CheckInterval,   \* KswinConfig
    PValue, Significance         \* KSWIN: p-value of a statistic, alpha

ASSUME DetectorAssumption ==
    /\ {MinSamples, MaxWindow, WindowSize, CheckInterval} \subseteq Nat \ {0}
    /\ 0 <= WarningThreshold /\ WarningThreshold <= DriftThreshold /\ 0 < DriftThreshold
    /\ 0 < Alpha /\ Alpha <= Unit /\ 0 <= Delta
    /\ 0 < LogTerm.warning /\ LogTerm.warning <= LogTerm.drift
    /\ PValue \in [0..WindowSize -> Floats] /\ PValue[0] = Unit
    /\ \A d \in 1..WindowSize : 0 <= PValue[d] /\ PValue[d] <= PValue[d - 1]
    /\ 0 < Significance /\ Significance < Unit

-----------------------------------------------------------------------------
(* Page-Hinkley                                                            *)

NewPageHinkley == [mean |-> 0, samples |-> 0, sum |-> 0, min |-> 0, level |-> "none"]

\* ph_statistic
PHStatistic(d) == FSub(d.sum, d.min)

PHLevel(d) ==
    IF d.samples < MinSamples THEN "none"
    ELSE IF FLess(DriftThreshold, PHStatistic(d)) THEN "drift"
    ELSE IF FLess(WarningThreshold, PHStatistic(d)) THEN "warning"
    ELSE "none"

\* The accumulators are not checked: they may become infinite.
PageHinkleyUpdate(d, x) ==
    LET n    == d.samples + 1
        mean == FAdd(d.mean, FDiv(FSub(x, d.mean), OfInt(n)))
        sum  == FAdd(FMul(Alpha, d.sum), FSub(FSub(x, mean), Delta))
        next == [d EXCEPT !.samples = n, !.mean = mean, !.sum = sum,
                          !.min = IF FLess(sum, @) THEN sum ELSE @]
    IN  IF IsFinite(x) /\ CanCount(d.samples)
        THEN Done([next EXCEPT !.level = PHLevel(next)])
        ELSE Refused(d)

\* PageHinkleyPortableStateV1::validate_state
PageHinkleyIsValid(d) ==
    /\ IsFinite(d.mean) /\ IsFinite(d.sum) /\ IsFinite(d.min)
    /\ d.min <= d.sum
    /\ d.samples = 0 => d.mean = 0 /\ d.sum = 0 /\ d.min = 0 /\ d.level = "none"
    /\ d.samples < MinSamples => d.level = "none"

-----------------------------------------------------------------------------
(* ADWIN                                                                   *)

NewAdwin == [window |-> <<>>, total |-> 0, samples |-> 0, level |-> "none"]

\* The difference of the means on both sides of a split. The sums are prefix
\* sums computed anew, not the running total.
SplitDifference(window, k) ==
    LET before == FSum(SubSeq(window, 1, k))
        after  == FSub(FSum(window), before)
    IN  FAbs(FSub(FDiv(before, OfInt(k)), FDiv(after, OfInt(Len(window) - k))))

\* difference > sqrt(LogTerm / (2 m)), with m = n0 n1 / (n0 + n1). An infinite
\* difference exceeds every bound, one that is no number exceeds none.
Exceeds(difference, n0, n1, logTerm) ==
    /\ difference # NaN
    /\ \/ difference = Inf
       \/ difference * difference * 2 * n0 * n1 > logTerm * Unit * (n0 + n1)

SplitsAt(window, level) ==
    {k \in 1..(Len(window) - 1) :
        Exceeds(SplitDifference(window, k), k, Len(window) - k, LogTerm[level])}

Oldest(S) == CHOOSE k \in S : \A j \in S : k <= j

\* trim_front: the total is corrected value by value.
Without(total, values) == FoldLeft(FSub, total, values)

TrimFront(d, count) ==
    [d EXCEPT !.window = SubSeq(@, count + 1, Len(@)),
              !.total = Without(@, SubSeq(d.window, 1, count))]

\* check_splits and what update does about its answer: a drift drops the part
\* before the oldest split, a warning drops nothing.
Judged(d) ==
    IF d.samples < MinSamples \/ Len(d.window) < 2 THEN [d EXCEPT !.level = "none"]
    ELSE IF SplitsAt(d.window, "drift") # {}
    THEN [TrimFront(d, Oldest(SplitsAt(d.window, "drift"))) EXCEPT !.level = "drift"]
    ELSE [d EXCEPT !.level = IF SplitsAt(d.window, "warning") # {} THEN "warning" ELSE "none"]

AdwinUpdate(d, x) ==
    LET full   == Len(d.window) = MaxWindow
        added  == FAdd(d.total, x)
        total  == IF full THEN FAdd(added, FNeg(Head(d.window))) ELSE added
        window == Append(IF full THEN Tail(d.window) ELSE d.window, x)
    IN  IF IsFinite(x) /\ CanCount(d.samples) /\ IsFinite(added) /\ IsFinite(total)
        THEN Done(Judged([d EXCEPT !.samples = @ + 1, !.total = total, !.window = window]))
        ELSE Refused(d)

\* AdwinPortableStateV1::validate_state
AdwinIsValid(d) ==
    /\ Len(d.window) <= MaxWindow /\ d.samples >= Len(d.window)
    /\ IsFinite(d.total)
    /\ \A i \in DOMAIN d.window : IsFinite(d.window[i])
    /\ \A i \in DOMAIN d.window : IsFinite(FSum(SubSeq(d.window, 1, i)))
    /\ Close(FSum(d.window), d.total)
    /\ d.samples < MinSamples => d.level = "none"

-----------------------------------------------------------------------------
(* KSWIN                                                                   *)

NewKswin ==
    [reference |-> <<>>, current |-> <<>>, samples |-> 0, lastCheck |-> 0,
     pvalue |-> Unit, statistic |-> 0, level |-> "none"]

\* Defect: a tie advances only one side.
KsWalkOneSided(a, b) ==
    LET step(w, n) ==
            IF w.i > Len(a) \/ w.j > Len(b) THEN w
            ELSE LET i == IF a[w.i] <= b[w.j] THEN w.i + 1 ELSE w.i
                     j == IF b[w.j] < a[w.i] THEN w.j + 1 ELSE w.j
                 IN  [i |-> i, j |-> j, most |-> Higher(w.most, Magnitude(i - j))]
    IN  FoldLeft(step, [i |-> 1, j |-> 1, most |-> 0], [n \in 1..(Len(a) + Len(b)) |-> n])

\* ks_statistic: a walk over both sorted windows that advances on both sides
\* at a tie, and keeps the largest distance (in units of 1 / WindowSize).
KsStep(a, b, w) ==
    LET i == IF a[w.i] <= b[w.j] THEN w.i + 1 ELSE w.i
        j == IF b[w.j] <= a[w.i] THEN w.j + 1 ELSE w.j
    IN  IF w.i > Len(a) \/ w.j > Len(b) THEN w
        ELSE [i |-> i, j |-> j, most |-> Higher(w.most, Magnitude(i - j))]

KsWalk(a, b) ==
    LET walk[n \in 0..(Len(a) + Len(b))] ==
            IF n = 0 THEN [i |-> 1, j |-> 1, most |-> 0] ELSE KsStep(a, b, walk[n - 1])
    IN  walk[Len(a) + Len(b)]

KsStatistic(a, b) ==
    IF a = <<>> \/ b = <<>> THEN 0 ELSE KsWalk(Sorted(a), Sorted(b)).most

\* The current window becomes the reference, a fresh one begins.
Rotated(d) == [d EXCEPT !.reference = d.current, !.current = <<>>]

Checked(d) ==
    LET s == KsStatistic(d.reference, d.current)
        p == PValue[s]
        seen == [d EXCEPT !.statistic = s, !.pvalue = p, !.lastCheck = d.samples]
    IN  IF p < Significance THEN [Rotated(seen) EXCEPT !.level = "drift"] ELSE seen

KswinUpdate(d, x) ==
    LET counted == [d EXCEPT !.samples = @ + 1, !.level = "none"]
        room    == IF Len(counted.current) >= WindowSize THEN Rotated(counted) ELSE counted
        pushed  == [room EXCEPT !.current = Append(@, x)]
        due     == /\ Len(pushed.reference) >= WindowSize
                   /\ Len(pushed.current) >= WindowSize
                   /\ pushed.samples - pushed.lastCheck >= CheckInterval
    IN  IF IsFinite(x) /\ CanCount(d.samples)
        THEN Done(IF due THEN Checked(pushed) ELSE pushed)
        ELSE Refused(d)

\* KswinPortableStateV1::validate_state
KswinIsValid(d) ==
    /\ Len(d.reference) <= WindowSize /\ Len(d.current) <= WindowSize
    /\ d.samples >= Len(d.reference) + Len(d.current) /\ d.lastCheck <= d.samples
    /\ \A w \in {d.reference, d.current} : \A i \in DOMAIN w : IsFinite(w[i])
    /\ 0 <= d.pvalue /\ d.pvalue <= Unit /\ 0 <= d.statistic /\ d.statistic <= WindowSize
    /\ d.level # "warning"
    /\ d.level = "drift" => d.current = <<>> /\ Len(d.reference) = WindowSize
=============================================================================
