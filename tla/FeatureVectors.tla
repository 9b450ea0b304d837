--------------------------- MODULE FeatureVectors ---------------------------
(***************************************************************************)
(* The vectors of features that models and transformers take: sequences of *)
(* FeatureCount numbers, and the checks of src/error.rs on them.           *)
(***************************************************************************)
EXTENDS SmallFloat

CONSTANT FeatureCount   \* feature_count

ASSUME FeatureAssumption == FeatureCount \in Nat \ {0}

Features == 1..FeatureCount

AllFinite(v) == \A i \in DOMAIN v : IsFinite(v[i])

\* validate_features
FeaturesAreValid(x) == Len(x) = FeatureCount /\ AllFinite(x)

\* validate_weight
WeightIsValid(w) == IsFinite(w) /\ 0 <= w

\* The same value for every feature.
PerFeature(value) == [i \in Features |-> value]
=============================================================================
