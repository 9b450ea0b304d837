--------------------------- MODULE DecisionLedger ---------------------------
(***************************************************************************)
(* DecisionLedger<C, A> of the RillML library: a bounded, caller-clocked   *)
(* ledger of pending decisions and completed tombstones.  The caller       *)
(* supplies every timestamp, so time is an input and may go backwards.     *)
(***************************************************************************)
EXTENDS Integers, FiniteSets

CONSTANTS
    Ids, Contexts, Actions,
    Oversized,              \* contexts and actions over their byte limits
    ModelGenerations,
    MaxTime,                \* largest timestamp of a run, u64::MAX in the code
    MaxPending, MaxCompleted,
    None                    \* no entry under an id

VARIABLES pending, completed, result

ledgerVars == <<pending, completed, result>>

Times == 0 .. MaxTime

Decision == [id: Ids, context: Contexts, action: Actions, created: Times,
             expires: Times, modelGen: ModelGenerations]

Outcome == [id: Ids, action: Actions, finite: BOOLEAN, observed: Times,
            modelGen: ModelGenerations]

Completed == [decision: Decision, observed: Times, finite: BOOLEAN]

Errors == {"invalidTimeRange", "valueTooLarge", "decisionConflict",
           "pendingCapacityExceeded", "nonFiniteReward", "duplicateFeedback",
           "unknownDecision", "feedbackBeforeDecision", "feedbackExpired",
           "generationMismatch", "actionMismatch", "completedCapacityExceeded"}

Results == Errors \cup {"none", "registered", "pendingReplay", "completedReplay",
                        "applied", "cleared"}

\* DecisionLedgerConfig::new refuses a zero capacity.
ASSUME CapacityAssumption ==
    /\ MaxPending \in Nat \ {0} /\ MaxCompleted \in Nat \ {0}
    /\ MaxTime \in Nat
    /\ IsFiniteSet(Ids)
    /\ None \notin Decision \cup Completed

-----------------------------------------------------------------------------

\* The ids under which a map of the ledger holds an entry.
Stored(m) == {d \in Ids : m[d] # None}

LedgerInit ==
    /\ pending = [d \in Ids |-> None]
    /\ completed = [d \in Ids |-> None]
    /\ result = "none"

\* The error of the first failing check of register, or "none".
RegisterError(x) ==
    IF x.expires < x.created THEN "invalidTimeRange"
    ELSE IF x.context \in Oversized \/ x.action \in Oversized THEN "valueTooLarge"
    ELSE IF x.id \in Stored(pending)
    THEN IF pending[x.id] = x THEN "none" ELSE "decisionConflict"
    ELSE IF x.id \in Stored(completed)
    THEN IF completed[x.id].decision = x THEN "none" ELSE "decisionConflict"
    ELSE IF Cardinality(Stored(pending)) >= MaxPending THEN "pendingCapacityExceeded"
    ELSE "none"

RegisterRefused(x) ==
    /\ RegisterError(x) # "none"
    /\ result' = RegisterError(x)
    /\ UNCHANGED <<pending, completed>>

\* An exact replay of recorded facts is answered, not recorded again.
RegisterReplay(x) ==
    /\ RegisterError(x) = "none"
    /\ x.id \in Stored(pending) \cup Stored(completed)
    /\ result' = IF x.id \in Stored(pending) THEN "pendingReplay" ELSE "completedReplay"
    /\ UNCHANGED <<pending, completed>>

\* Defect: an exact replay of a completed decision makes it pending again.
RegisterNewReopens(x) ==
    /\ RegisterError(x) = "none"
    /\ x.id \notin Stored(pending)
    /\ pending' = [pending EXCEPT ![x.id] = x]
    /\ result' = "registered"
    /\ UNCHANGED completed

RegisterNew(x) ==
    /\ RegisterError(x) = "none"
    /\ x.id \notin Stored(pending) \cup Stored(completed)
    /\ pending' = [pending EXCEPT ![x.id] = x]
    /\ result' = "registered"
    /\ UNCHANGED completed

\* Defect: feedback is accepted after its window has closed.
FeedbackErrorNoExpiry(o) ==
    IF ~o.finite THEN "nonFiniteReward"
    ELSE IF o.action \in Oversized THEN "valueTooLarge"
    ELSE IF o.id \in Stored(completed) THEN "duplicateFeedback"
    ELSE IF o.id \notin Stored(pending) THEN "unknownDecision"
    ELSE IF o.observed < pending[o.id].created THEN "feedbackBeforeDecision"
    ELSE IF o.modelGen # pending[o.id].modelGen THEN "generationMismatch"
    ELSE IF o.action # pending[o.id].action THEN "actionMismatch"
    ELSE IF Cardinality(Stored(completed)) >= MaxCompleted THEN "completedCapacityExceeded"
    ELSE "none"

\* The error of the first failing check of apply_feedback, or "none".
FeedbackError(o) ==
    IF ~o.finite THEN "nonFiniteReward"
    ELSE IF o.action \in Oversized THEN "valueTooLarge"
    ELSE IF o.id \in Stored(completed) THEN "duplicateFeedback"
    ELSE IF o.id \notin Stored(pending) THEN "unknownDecision"
    ELSE IF o.observed < pending[o.id].created THEN "feedbackBeforeDecision"
    ELSE IF o.observed > pending[o.id].expires THEN "feedbackExpired"
    ELSE IF o.modelGen # pending[o.id].modelGen THEN "generationMismatch"
    ELSE IF o.action # pending[o.id].action THEN "actionMismatch"
    ELSE IF Cardinality(Stored(completed)) >= MaxCompleted THEN "completedCapacityExceeded"
    ELSE "none"

\* Defect: the decision is taken out before the room for its tombstone is known.
FeedbackRefusedLate(o) ==
    /\ FeedbackError(o) # "none"
    /\ result' = FeedbackError(o)
    /\ pending' = IF FeedbackError(o) = "completedCapacityExceeded"
                  THEN [pending EXCEPT ![o.id] = None] ELSE pending
    /\ UNCHANGED completed

FeedbackRefused(o) ==
    /\ FeedbackError(o) # "none"
    /\ result' = FeedbackError(o)
    /\ UNCHANGED <<pending, completed>>

\* Defect: the decision is removed before its tombstone is built.
FeedbackAppliedLate(o) ==
    /\ FeedbackError(o) = "none"
    /\ pending' = [pending EXCEPT ![o.id] = None]
    /\ completed' = [completed EXCEPT ![o.id] =
                       [decision |-> pending'[o.id], observed |-> o.observed, finite |-> o.finite]]
    /\ result' = "applied"

\* Defect: completion stamps the decision with the time of its outcome.
FeedbackAppliedRestamped(o) ==
    /\ FeedbackError(o) = "none"
    /\ completed' = [completed EXCEPT ![o.id] =
                       [decision |-> [pending[o.id] EXCEPT !.created = o.observed],
                        observed |-> o.observed, finite |-> o.finite]]
    /\ pending' = [pending EXCEPT ![o.id] = None]
    /\ result' = "applied"

FeedbackApplied(o) ==
    /\ FeedbackError(o) = "none"
    /\ completed' = [completed EXCEPT ![o.id] =
                       [decision |-> pending[o.id], observed |-> o.observed, finite |-> o.finite]]
    /\ pending' = [pending EXCEPT ![o.id] = None]
    /\ result' = "applied"

ClearExpired(now) ==
    /\ pending' = [d \in Ids |-> IF d \in Stored(pending) /\ pending[d].expires < now
                                 THEN None ELSE pending[d]]
    /\ result' = "cleared"
    /\ UNCHANGED completed

ClearCompletedBefore(before) ==
    /\ completed' = [d \in Ids |-> IF d \in Stored(completed) /\ completed[d].observed < before
                                   THEN None ELSE completed[d]]
    /\ result' = "cleared"
    /\ UNCHANGED pending

Register(x) == RegisterRefused(x) \/ RegisterReplay(x) \/ RegisterNew(x)

ApplyFeedback(o) == FeedbackRefused(o) \/ FeedbackApplied(o)

LedgerNext ==
    \/ \E x \in Decision : Register(x)
    \/ \E o \in Outcome : ApplyFeedback(o)
    \/ \E t \in Times : ClearExpired(t) \/ ClearCompletedBefore(t)

LedgerSpec == LedgerInit /\ [][LedgerNext]_ledgerVars

-----------------------------------------------------------------------------

\* Entries are decisions and tombstones, and the last result is a known one.
LedgerTypeOK ==
    /\ pending \in [Ids -> Decision \cup {None}]
    /\ completed \in [Ids -> Completed \cup {None}]
    /\ result \in Results

\* validate_structure, the check a persisted ledger has to pass, accepts every
\* ledger that calls can lead to: within its capacities, filed under the right
\* ids, never pending and completed at once, every window and value legal.
StructureIsValid ==
    /\ Cardinality(Stored(pending)) <= MaxPending
    /\ Cardinality(Stored(completed)) <= MaxCompleted
    /\ \A d \in Stored(pending) :
         /\ pending[d].id = d /\ pending[d].created <= pending[d].expires
         /\ d \notin Stored(completed)
         /\ {pending[d].context, pending[d].action} \cap Oversized = {}
    /\ \A d \in Stored(completed) :
         /\ completed[d].decision.id = d
         /\ completed[d].decision.created <= completed[d].observed
         /\ completed[d].observed <= completed[d].decision.expires
         /\ completed[d].finite
         /\ {completed[d].decision.context, completed[d].decision.action} \cap Oversized = {}

\* The immutable facts of a decision never change while the ledger knows it,
\* through its completion too, and no two calls disagree about them.
Facts(d) == IF pending[d] # None THEN pending[d]
            ELSE IF completed[d] # None THEN completed[d].decision ELSE None

FactsAreImmutable ==
    [][\A d \in Ids : Facts(d) # None /\ Facts(d)' # None => Facts(d)' = Facts(d)]_ledgerVars

\* No decision is lost: only a cleanup makes the ledger forget one, and feedback
\* that is refused, when the tombstones are full too, leaves its decision pending
\* for the next attempt.
NoDecisionIsLost ==
    [][/\ result' # "cleared" => \A d \in Ids : Facts(d) # None => Facts(d)' # None
       /\ result' \in Errors => UNCHANGED <<pending, completed>>]_ledgerVars

-----------------------------------------------------------------------------

\* The abstraction: what the ledger knows of a decision.
Status ==
    [d \in Ids |-> IF pending[d] # None THEN "pending"
                   ELSE IF completed[d] # None THEN "completed" ELSE "unknown"]

Abstract == INSTANCE DelayedFeedback WITH status <- Status

\* The ledger opens a decision once and applies its outcome at most once until
\* clear_expired or clear_completed_before makes it unknown again.
ImplementsDelayedFeedback == Abstract!Spec
=============================================================================
