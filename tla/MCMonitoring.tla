---------------------------- MODULE MCMonitoring ----------------------------
(***************************************************************************)
(* The streams and the tables with which TLC runs Monitoring. 1.0 is 12,   *)
(* which the counts up to 4 divide: small whole inputs do not round.       *)
(***************************************************************************)
EXTENDS Monitoring

MCDecayFactor == [t \in 0..2 |-> 12 \div 2 ^ t]
MCLogTerm == [warning |-> 12, drift |-> 30]
MCPValue == [d \in 0..3 |-> <<12, 8, 4, 0>>[d + 1]]
MCModels == {0, 1}
MCQuantiles == {6, 11}
MCClipLower == -20

\* 1 - (1 - 1/2)^weight for the weights of the streams.
MCEffectiveAlpha(w) ==
    IF w >= 60 THEN 12 ELSE IF w >= 24 THEN 9 ELSE IF w >= 12 THEN 6 ELSE 3

\* A loss that grows as the probability of the truth shrinks, in [0, 36].
MCLogLossOf(probability, truth) == 3 * (IF truth THEN Unit - probability ELSE probability)

Whole == {-24, 0, 12, 24}
Edge == {Largest, -Largest, 7, 5, 600, Inf, NaN}

Vote(detector, level) == [detector |-> detector, level |-> level, available |-> TRUE]
Silent(detector) == [detector |-> detector, level |-> "none", available |-> FALSE]

DriftVotes == <<Vote(1, "drift"), Vote(2, "drift"), Vote(3, "none")>>
OtherDriftVotes == <<Vote(3, "drift"), Vote(2, "drift"), Silent(1)>>
WarningVotes == <<Vote(1, "drift"), Vote(2, "none")>>
StableVotes == <<Vote(1, "none"), Vote(2, "none")>>
NoVotes == <<Silent(1), Silent(2)>>
TwoVotes == <<Vote(1, "drift"), Vote(1, "none")>>

Stream(kind, inputs, length, exact) ==
    [kind |-> kind, inputs |-> inputs, length |-> length, exact |-> exact]

NumberStreams ==
    {Stream(k, Whole, 4, TRUE) : k \in {"mean", "variance", "sum", "min", "max", "rolling",
                                        "median_mad", "ring"}}
    \cup {Stream(k, Edge, 4, FALSE) : k \in {"mean", "variance", "sum", "clipped_mean", "ew_mean",
                                             "median_mad", "last_value"}}
    \cup {Stream("clipped_mean", {-40, 7, 40}, 5, FALSE),
          Stream("warmup", {0, 12, -24, NoValue, Inf}, 4, TRUE),
          Stream("quantiles", {0, 12, 24, 60}, 6, TRUE),
          Stream("quantiles", {7, 600, Largest}, 8, FALSE)}

PairStreams ==
    {Stream(k, BOOLEAN \X BOOLEAN, 5, TRUE) :
        k \in {"accuracy", "precision", "recall", "f1", "rolling_accuracy"}}
    \cup {Stream(k, {-12, 12, 24} \X {0, 12}, 4, TRUE) : k \in {"mae", "mse", "r2", "rolling_mae", "rolling_mse"}}
    \cup {Stream(k, {Largest, 7, 100} \X {-Largest, 5, NaN}, 4, FALSE) :
            k \in {"mae", "mse", "r2", "rolling_mse", "interval", "reporter"}}
    \cup {Stream("log_loss", BOOLEAN \X {0, 4, 12, 13}, 4, TRUE),
          Stream("reporter", {0, 12} \X {0, 24}, 4, TRUE)}

WeighedStreams ==
    {Stream(k, {-12, 12, 24} \X {0, 12}, 4, TRUE) :
        k \in {"weighted_mean", "weighted_variance", "weighted_mae"}}
    \cup {Stream(k, {7, 600, -Largest, Largest} \X {-12, 0, 5, 12, 700}, 3, FALSE) :
        k \in {"weighted_mean", "weighted_variance", "weighted_ew_mean", "weighted_mae", "weighted_mse"}}
    \cup {Stream(k, {7, -600, 41} \X {5, 700}, 4, FALSE) : k \in {"weighted_mean", "weighted_variance"}}
    \cup {Stream("weighted_ew_mean", {7, -600} \X {5, 60}, 4, FALSE)}
    \cup {Stream(k, {7, 41, -5} \X {5, 12, 23}, 4, FALSE) : k \in {"weighted_mean", "weighted_variance"}}
    \cup {Stream("decayed_mean", {12, -24} \X {0, 12, 24}, 4, TRUE)}

DetectorStreams ==
    {Stream("page_hinkley", {0, 12, 36}, 6, TRUE),
     Stream("adwin", {0, 12, 24}, 7, TRUE),
     Stream("aware", {0, 24, Largest}, 6, FALSE),
     Stream("kswin", {0, 12, 24}, 8, TRUE),
     Stream("consensus", {DriftVotes, WarningVotes, StableVotes} \X {"A"}, 8, TRUE),
     Stream("consensus", {DriftVotes, OtherDriftVotes, StableVotes, NoVotes, TwoVotes} \X {"A", "B"},
            5, TRUE),
     Stream("consensus", {DriftVotes, StableVotes} \X {"A", "B"}, 7, TRUE)}

\* Detectors that have data from the second window on.
WarmingStreams == {Stream("consensus", {DriftVotes, NoVotes} \X {"A"}, 3, TRUE)}

SelectorStreams == {Stream("selector", {0, 1} \X {0, 12, 24} \X {12}, 4, TRUE)}

\* One input, up to the limit of the counters.
LongStreams ==
    {Stream(k, {12}, 9, FALSE) : k \in {"mean", "sum", "median_mad", "adwin", "aware", "warmup"}}
    \cup {Stream(k, {<<TRUE, TRUE>>}, 9, FALSE) : k \in {"accuracy", "precision", "f1"}}
    \cup {Stream("reporter", {<<12, 0>>}, 9, FALSE), Stream("selector", {<<0, 12, 0>>}, 9, FALSE),
          Stream("weighted_mean", {<<12, 12>>}, 9, FALSE)}

MCStreams == LongStreams \cup NumberStreams \cup PairStreams \cup WeighedStreams \cup DetectorStreams \cup SelectorStreams

\* Values that are large and small, with Tolerance = 100 (one rounding in the
\* last of 8 digits is tolerated).
CancellingStreams == {Stream("adwin", {5, 7, 600}, 5, FALSE)}
=============================================================================
