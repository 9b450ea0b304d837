--------------------------- MODULE DriftResponse ----------------------------
(***************************************************************************)
(* What src/drift does about drift: the model wrapper that feeds its       *)
(* errors to a detector, the strategy that picks an action, and the helpers*)
(* of decay.rs. The wrapper is generic; here it wraps a MeanRegressor      *)
(* (src/models/baseline.rs) and an ADWIN.                                  *)
(***************************************************************************)
EXTENDS DriftDetectors, OnlineStatistics

CONSTANTS
    InitialPrediction,            \* BaselineConfig
    MaxEvents,                    \* DriftAwareModel.max_events
    WarningAction, DriftAction,   \* StaticStrategy
    DecayFactor                   \* TimeDecayedMean: exp(-decay * dt), by dt

ASSUME ResponseAssumption ==
    /\ IsFinite(InitialPrediction)
    /\ MaxEvents \in Nat \ {0}
    /\ DecayFactor[0] = Unit
    /\ \A t \in DOMAIN DecayFactor : 0 <= DecayFactor[t] /\ DecayFactor[t] <= Unit

\* StaticStrategy::decide
Decide(level) ==
    CASE level = "none"    -> "notify_only"
      [] level = "warning" -> WarningAction
      [] level = "drift"   -> DriftAction

-----------------------------------------------------------------------------
(* The baseline models                                                     *)

\* MeanRegressor::predict, and that of the exponentially weighted one.
MeanPrediction(m) == IF m.count = 0 THEN InitialPrediction ELSE m.mean

NewLastValue == [count |-> 0, last |-> NoValue]

LastValuePrediction(m) == IF m.last = NoValue THEN InitialPrediction ELSE m.last

LastValueLearn(m, target) ==
    IF IsFinite(target) /\ CanCount(m.count)
    THEN Done([count |-> m.count + 1, last |-> target])
    ELSE Refused(m)

-----------------------------------------------------------------------------
(* DriftAwareModel                                                         *)

NewAware ==
    [model |-> NewMean, detector |-> NewAdwin, events |-> <<>>, samples |-> 0,
     lastAction |-> "none"]

\* The event log keeps the newest events.
Logged(a, level) ==
    [a EXCEPT !.events =
        LastOf(Append(@, [sample |-> a.samples, level |-> level, action |-> Decide(level)]),
               MaxEvents)]

\* learn, up to the call of the model: the detector has taken the error, the
\* event is logged and the model may have been reset.
Responded(a, detector) ==
    LET logged == IF detector.level # "none" THEN Logged(a, detector.level) ELSE a
    IN  [logged EXCEPT
            !.detector = detector, !.lastAction = Decide(detector.level),
            !.model = IF Decide(detector.level) = "reset_model" THEN NewMean ELSE @]

\* Defect: the model learns before it is reset.
AwareLearnFirst(a, target) ==
    LET error    == FAbs(FSub(target, MeanPrediction(a.model)))
        detected == AdwinUpdate(a.detector, error)
        learned  == MeanUpdate(a.model, target)
        next     == Responded([a EXCEPT !.model = learned.state], detected.state)
    IN  IF ~detected.ok \/ ~learned.ok \/ ~CanCount(a.samples) THEN Refused(a)
        ELSE Done([next EXCEPT !.samples = @ + 1])

\* learn. What came before an error stays done: nothing is rolled back.
AwareLearn(a, target) ==
    LET error     == FAbs(FSub(target, MeanPrediction(a.model)))
        detected  == AdwinUpdate(a.detector, error)
        responded == Responded(a, detected.state)
        learned   == MeanUpdate(responded.model, target)
    IN  IF ~detected.ok THEN Refused(a)
        ELSE IF ~learned.ok THEN Refused(responded)
        ELSE IF ~CanCount(a.samples) THEN Refused([responded EXCEPT !.model = learned.state])
        ELSE Done([responded EXCEPT !.model = learned.state, !.samples = @ + 1])

-----------------------------------------------------------------------------
(* decay.rs                                                                *)

NewDecayedMean == [sum |-> 0, weight |-> 0, last |-> NoValue]

\* TimeDecayedMean::update. Time may stand still but not run backwards.
DecayedMeanUpdate(s, time, x) ==
    LET factor == DecayFactor[(time - s.last) \div Unit]
        sum    == FAdd(FMul(factor, s.sum), x)
        weight == FAdd(FMul(factor, s.weight), Unit)
    IN  IF ~IsFinite(time) \/ ~IsFinite(x) THEN Refused(s)
        ELSE IF s.last = NoValue THEN Done([sum |-> x, weight |-> Unit, last |-> time])
        ELSE IF time < s.last \/ ~IsFinite(sum) THEN Refused(s)
        ELSE IF ~IsFinite(weight) THEN Refused([s EXCEPT !.sum = sum])
        ELSE Done([sum |-> sum, weight |-> weight, last |-> time])

DecayedMeanValue(s) == IF s.weight > 0 THEN FDiv(s.sum, s.weight) ELSE NoValue

\* FixedWindowBuffer: a ring of Capacity places, head the next to be written.
NewRing == [buffer |-> [i \in 0..(Capacity - 1) |-> 0], head |-> 0, len |-> 0]

RingPush(b, x) ==
    IF IsFinite(x)
    THEN Done([buffer |-> [b.buffer EXCEPT ![b.head] = x],
               head |-> (b.head + 1) % Capacity,
               len |-> Lower(b.len + 1, Capacity)])
    ELSE Refused(b)

\* Defect: the next value is not written to the first place.
RingResetInPlace(b) == [b EXCEPT !.len = 0]

\* reset keeps the values in their places.
RingReset(b) == [b EXCEPT !.head = 0, !.len = 0]

\* iter: oldest first.
RingValues(b) ==
    LET start == IF b.len = Capacity THEN b.head ELSE 0
    IN  [i \in 1..b.len |-> b.buffer[(start + i - 1) % Capacity]]

\* validate_persisted_state
RingIsValid(b) ==
    /\ b.len <= Capacity /\ b.head < Capacity
    /\ b.len < Capacity => b.head = b.len
    /\ \A i \in 0..(b.len - 1) : IsFinite(b.buffer[i])
=============================================================================
