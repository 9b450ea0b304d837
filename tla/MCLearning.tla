----------------------------- MODULE MCLearning -----------------------------
(***************************************************************************)
(* The streams and the tables with which TLC runs Learning. 1.0 is 60,     *)
(* which the counts up to 6 divide: small whole inputs do not round.       *)
(***************************************************************************)
EXTENDS Learning

CONSTANTS h1, h2, h3

MCHandles == {h1, h2, h3}
MCArms == 0..2
MCDecisionIds == {"d1", "d2", "d3"}

\* Monotone, 1/2 at 0 and flat beyond 2.
MCSigmoid(x) == IF x = NaN THEN NaN ELSE IF x >= 120 THEN 60 ELSE IF x <= -120 THEN 0 ELSE 30 + x \div 4

\* Monotone, 0 at 1.
MCLn(x) ==
    IF x = 0 THEN NegInf ELSE IF x < 0 \/ x = NaN THEN NaN
    ELSE IF x < 60 THEN x - 60 ELSE IF x = Inf THEN Inf ELSE ((x - 60) * 60) \div x

MCLnOfCount(n) == <<0, 42, 66, 83, 97, 108, 117, 125>>[n]

\* A loss that grows as the probability of the truth shrinks.
MCLogLossOf(probability, truth) == 3 * (IF truth THEN Unit - probability ELSE probability)

\* Three ids in two buckets, one of them with the other sign.
MCBucket(id) == id % 2
MCSign(id) == IF id = 3 THEN -Unit ELSE Unit

MCProbes == {<<60, 0>>, <<0, 120>>, <<120, 60>>}

Stream(kind, inputs, length, exact) ==
    [kind |-> kind, inputs |-> inputs, length |-> length, exact |-> exact]

Whole == {<<60, 0>>, <<0, 120>>, <<120, 60>>}
Gaps == {<<60, NaN>>, <<NaN, 120>>, <<NaN, NaN>>, <<0, 0>>}
Edge == {<<Largest, -Largest>>, <<-Largest, Largest>>, <<7, Inf>>, <<NaN, 41>>, <<41, 7>>}

ModelStreams ==
    {Stream(k, Whole \X {60, -60} \X {0, 60}, 3, FALSE) : k \in {"linear_sgd", "linear_adagrad"}}
    \cup {Stream("logistic", Whole \X BOOLEAN \X {0, 60}, 3, FALSE)}
    \cup {Stream(k, Edge \X {41, Largest, NaN} \X {60, -60, Largest}, 2, FALSE) :
            k \in {"linear_sgd", "linear_adagrad"}}
    \cup {Stream(k, Whole \X BOOLEAN, 4, TRUE) : k \in {"gaussian", "bernoulli", "multinomial"}}
    \cup {Stream(k, (Edge \cup {<<Largest, 0>>, <<0, 7>>}) \X BOOLEAN, 3, FALSE) :
            k \in {"gaussian", "bernoulli", "multinomial"}}

Pairs1 == <<<<1, 60>>>>
Pairs21 == <<<<2, 60>>, <<1, 60>>>>
Pairs33 == <<<<3, 120>>, <<3, -60>>>>
Pairs145 == <<<<1, 60>>, <<4, 60>>, <<5, 60>>>>
PairsEdge == {<<>>, <<<<1, Largest>>, <<1, Largest>>>>, <<<<2, Largest>>>>, <<<<1, 1>>>>, <<<<3, NaN>>>>}

SparseStreams ==
    {Stream(k, {Pairs1, Pairs21, Pairs33, Pairs145} \X {60, -120}, 3, TRUE) : k \in {"ftrl", "ftrl_hashed"}}
    \cup {Stream(k, (PairsEdge \cup {Pairs21}) \X {60, Largest, NaN}, 2, FALSE) : k \in {"ftrl", "ftrl_hashed"}}
    \cup {Stream("ftrl_classifier", ({Pairs1, Pairs21, Pairs33, Pairs145}) \X BOOLEAN, 3, TRUE)}

TransformerStreams ==
    {Stream(k, Whole, 4, TRUE) : k \in {"scaler", "min_max"}}
    \cup {Stream(k, Whole \cup Gaps, 3, TRUE) : k \in {"mean_imputer", "forward_fill", "counting"}}
    \cup {Stream(k, Edge \cup {<<60>>}, 3, FALSE) : k \in {"scaler", "min_max", "mean_imputer", "forward_fill"}}
    \cup {Stream(k, {<<2>>, <<1, 3>>, <<3, 2>>, <<>>, <<0, 0>>}, 4, TRUE) :
            k \in {"one_hot", "ordinal", "frequency"}}

PipeInputs == Whole \X {60, -60} \X {60}
PipeEdge ==
    {<<60, 0>>, <<41, 7>>, <<Largest, -Largest>>, <<NaN, 41>>} \X {41, NaN} \X {60}
    \cup {<<60, 0>>} \X {Largest, -Largest} \X {60}

PipelineStreams ==
    {Stream(k, PipeInputs, 3, FALSE) : k \in {"plain", "transactional", "evaluation"}}
    \cup {Stream(k, PipeEdge, 2, FALSE) : k \in {"plain", "plain_imputed", "transactional", "evaluation"}}
    \cup {Stream("weighted", (Edge \cup {<<60, 0>>}) \X {41, Largest} \X {0, 60, -1}, 2, FALSE),
          Stream("classification", (Whole \cup Edge) \X BOOLEAN \X {60}, 2, FALSE)}

BanditStreams ==
    {Stream(k, MCArms \X {0, 30, 60}, 4, TRUE) : k \in {"greedy", "ucb", "thompson"}}
    \cup {Stream(k, {0, 1, 3} \X {-6, 7, 61, NaN, Largest}, 3, FALSE) : k \in {"greedy", "ucb", "thompson"}}
    \cup {Stream(k, {0, 1} \X {<<60, 0>>, <<60, 60>>} \X {0, 60}, 3, TRUE) : k \in {"linucb", "linucb_pair"}}
    \cup {Stream("linucb", {0} \X {<<Largest, 0>>, <<480, 480>>, <<NaN, 0>>} \X {60, Inf, Largest}, 3, FALSE)}

\* Recorded decisions: in time, without an outcome, late, of another generation,
\* after a drift, of another schema, contradictory.
Record(time, id, arm, outcome, reward, generation) ==
    [timestamp |-> time, id |-> id, context |-> <<60, 0>>, arm |-> arm, outcome |-> outcome,
     reward |-> reward, generation |-> generation, sameSchema |-> TRUE, baseline |-> 30,
     optimal |-> 60, drift |-> FALSE]

First == Record(0, "d1", 0, 1, 60, 1)
Second == Record(1, "d2", 1, 2, 30, 1)
Open == Record(1, "d2", 0, NoTime, NoValue, 1)
Clash == Record(2, "d2", 0, 3, 30, 1)
Late == Record(3, "d3", 0, 6, 60, 1)
Next2 == Record(4, "d3", 0, 5, 60, 2)
Huge == Record(4, "d3", 1, 5, Largest, 1)
Drifted == [Record(3, "d1", 0, 4, 0, 1) EXCEPT !.drift = TRUE, !.optimal = NoValue]
Backwards == Record(3, "d3", 0, 2, 60, 1)

ReplayStreams ==
    {Stream("replay",
        {<<First>>, <<First, Second>>, <<Open>>, <<Clash>>, <<Late>>, <<Next2>>, <<Huge>>, <<Drifted>>,
         <<Backwards>>, <<Second, First>>, <<Open, Clash>>,
         <<[First EXCEPT !.sameSchema = FALSE]>>, <<First, First>>},
        3, TRUE)}

\* Two handles of a type and one of another.
HandleStreams ==
    {[kind |-> "handles", inputs |-> {<<<<60, 120>>, 1>>, <<<<60, 120>>, Largest>>, <<NullPointer, 0>>,
                                      <<<<60, 120>>, -Largest>>},
      length |-> 2, exact |-> FALSE,
      types |-> [h \in Handles |-> IF h = h3 THEN "regression_pipeline" ELSE type]] : type \in HandleTypes}

\* One input, up to the limit of the counters.
LongStreams ==
    {Stream("linear_sgd", {<<<<60, 0>>, 60, 60>>}, 9, FALSE), Stream("gaussian", {<<<<60, 0>>, TRUE>>}, 9, FALSE),
     Stream("bernoulli", {<<<<60, 0>>, TRUE>>}, 9, FALSE), Stream("scaler", {<<60, 0>>}, 9, FALSE),
     Stream("mean_imputer", {<<60, NaN>>}, 9, FALSE), Stream("plain", {<<<<60, 0>>, 60, 60>>}, 9, FALSE),
     Stream("ordinal", {<<1>>}, 9, FALSE), Stream("one_hot", {<<1>>}, 9, FALSE),
     Stream("ucb", MCArms \X {60}, 6, FALSE), Stream("thompson", {<<0, 60>>}, 9, FALSE),
     Stream("ftrl", {<<Pairs1, 60>>}, 9, FALSE), Stream("linucb", {<<0, <<60, 0>>, 60>>}, 9, FALSE)}

MCStreams ==
    ModelStreams \cup SparseStreams \cup TransformerStreams \cup PipelineStreams \cup BanditStreams
    \cup ReplayStreams \cup HandleStreams \cup LongStreams
=============================================================================
