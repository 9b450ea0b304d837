--------------------------- MODULE DecisionReplay ---------------------------
(***************************************************************************)
(* DecisionReplayHarness (src/replay.rs): recorded decisions and their     *)
(* outcomes, replayed in the order of time through a decision ledger and a *)
(* LinUcb. A chunk of records is taken whole or not at all.                *)
(*                                                                         *)
(* A record is [timestamp, id, context, arm, outcome, reward, generation,  *)
(* sameSchema, baseline, optimal, drift]; outcome is a time or NoTime.     *)
(***************************************************************************)
EXTENDS Bandits

CONSTANTS
    DecisionIds, NoDecision,
    MaxRecords,                 \* max_records, also the capacities of the ledger
    MaxDelay,                   \* max_feedback_delay
    MaxTimestamp,               \* u64::MAX
    FirstGeneration             \* model_generation

NoTime == -1

\* DecisionReplayRecord, as far as the types of its fields say.
ReplayRecord ==
    [timestamp: 0..MaxTimestamp, id: DecisionIds, context: Seq(Int), arm: Nat,
     outcome: {NoTime} \cup 0..MaxTimestamp, reward: Int, generation: Nat,
     sameSchema: BOOLEAN, baseline: Int, optimal: Int, drift: BOOLEAN]

\* DecisionRecord and CompletedDecision, as the harness stores them.
ReplayDecisionRecord ==
    [id: DecisionIds, context: Seq(Int), action: Arms, created: Nat, expires: Nat, modelGen: Nat]

ReplayTombstone ==
    [decision: ReplayDecisionRecord, observed: Nat, finite: {TRUE}, reward: Int]

ASSUME ReplayAssumption ==
    /\ MaxRecords \in Nat \ {0} /\ MaxDelay \in Nat /\ MaxTimestamp \in Nat
    /\ FirstGeneration \in Nat
    /\ IsFiniteSet(DecisionIds)
    /\ NoDecision \notin ReplayDecisionRecord \cup ReplayTombstone

\* The ledger, for what it answers; its generations are those of the records.
Ledger(pending, completed) ==
    INSTANCE DecisionLedger WITH
        Ids <- DecisionIds, Contexts <- {}, Actions <- Arms, Oversized <- {},
        ModelGenerations <- Nat, MaxTime <- MaxTimestamp, MaxPending <- MaxRecords,
        MaxCompleted <- MaxRecords, None <- NoDecision, result <- "none"

PendingIds(h) == {d \in DecisionIds : h.pending[d] # NoDecision}
CompletedIds(h) == {d \in DecisionIds : h.completed[d] # NoDecision}

NewReplay ==
    [model |-> NewLinUcb, generation |-> FirstGeneration,
     pending |-> [d \in DecisionIds |-> NoDecision],
     completed |-> [d \in DecisionIds |-> NoDecision],
     reward |-> 0, regret |-> 0, baseline |-> 0, pulls |-> [a \in Arms |-> 0],
     latencies |-> <<>>, expired |-> 0, duplicates |-> 0, rejected |-> 0,
     transitions |-> 0, drifts |-> 0, missing |-> 0, processed |-> 0]

Rejected(h) == Done([h EXCEPT !.rejected = @ + 1])

-----------------------------------------------------------------------------
(* A decision                                                              *)

\* A later generation and a drift both reset the model; the ledger keeps the
\* decisions of the generations before.
BroughtForward(h, r) ==
    LET later == IF r.generation > h.generation
                 THEN [h EXCEPT !.model = NewLinUcb, !.generation = r.generation,
                                !.transitions = @ + 1]
                 ELSE h
    IN  IF r.drift THEN [later EXCEPT !.model = NewLinUcb, !.drifts = @ + 1] ELSE later

DecisionOf(r) ==
    [id |-> r.id, context |-> r.context, action |-> r.arm, created |-> r.timestamp,
     expires |-> r.timestamp + MaxDelay, modelGen |-> r.generation]

\* An exact replay is not registered again, so it misses no outcome.
Registered(h, r) ==
    IF r.id \in PendingIds(h) \cup CompletedIds(h) THEN h
    ELSE [h EXCEPT !.pending[r.id] = DecisionOf(r),
                   !.missing = IF r.outcome = NoTime THEN @ + 1 ELSE @]

\* replay_decision: a recorded arm that the model would not select is rejected,
\* a conflict in the ledger ends the chunk.
ReplayDecision(h, r) ==
    LET next   == BroughtForward(h, r)
        scores == LinScores(next.model, r.context)
        error  == Ledger(next.pending, next.completed)!RegisterError(DecisionOf(r))
    IN  IF ~r.sameSchema \/ r.generation < h.generation THEN Rejected(h)
        ELSE IF \E a \in Arms : scores[a] = NaN THEN Refused(h)
        ELSE IF SelectFirst(scores) # r.arm THEN Rejected(next)
        ELSE IF r.timestamp + MaxDelay > MaxTimestamp \/ error # "none" THEN Refused(h)
        ELSE Done(Registered(next, r))

-----------------------------------------------------------------------------
(* An outcome                                                              *)

\* clear_expired, with what it adds to the report.
Expired(h, now) ==
    LET over == {d \in PendingIds(h) : h.pending[d].expires < now}
    IN  [h EXCEPT !.pending = [d \in DecisionIds |-> IF d \in over THEN NoDecision ELSE @[d]],
                  !.expired = @ + Cardinality(over)]

\* max(optimal - reward, 0), 0 if the optimum is not known.
Regret(r) == IF r.optimal = NoValue THEN 0 ELSE Higher(FSub(r.optimal, r.reward), 0)

Baseline(r) == IF r.baseline = NoValue THEN 0 ELSE r.baseline

\* The totals are computed before the ledger and the model take the outcome
\* (apply_contextual_outcome, both or neither), and stored after.
Completed(h, r) ==
    LET decision == h.pending[r.id]
        learned  == LinUpdate(h.model, r.arm, decision.context, r.reward)
        error    == Ledger(h.pending, h.completed)!FeedbackError(
                        [id |-> r.id, action |-> r.arm, finite |-> TRUE, observed |-> r.outcome,
                         modelGen |-> r.generation])
        totals   == [h EXCEPT !.reward = FAdd(@, r.reward), !.baseline = FAdd(@, Baseline(r)),
                              !.regret = FAdd(@, Regret(r)), !.pulls[r.arm] = @ + 1]
    IN  IF /\ IsFinite(totals.reward) /\ IsFinite(totals.baseline) /\ IsFinite(totals.regret)
           /\ Len(h.latencies) < MaxRecords /\ error = "none" /\ learned.ok
        THEN Done([totals EXCEPT
                !.model = learned.state,
                !.pending[r.id] = NoDecision,
                !.completed[r.id] = [decision |-> decision, observed |-> r.outcome,
                                     finite |-> TRUE, reward |-> r.reward],
                !.latencies = Append(@, r.outcome - r.timestamp)])
        ELSE Refused(h)

\* The outcome does not belong to the decision that is pending under its id.
Disagrees(r, decision) ==
    r.outcome < decision.created \/ r.generation # decision.modelGen \/ r.arm # decision.action

\* replay_outcome
ReplayOutcome(h, r) ==
    IF r.generation # h.generation THEN Rejected(h)
    ELSE IF r.id \in CompletedIds(h) THEN Done([h EXCEPT !.duplicates = @ + 1])
    ELSE IF r.id \notin PendingIds(h) THEN Rejected(h)
    ELSE IF r.outcome > h.pending[r.id].expires THEN Done(Expired(h, r.outcome))
    ELSE IF Disagrees(r, h.pending[r.id]) THEN Rejected(h)
    ELSE Completed(h, r)

-----------------------------------------------------------------------------
(* A chunk                                                                 *)

\* validate_record
RecordIsValid(r) ==
    /\ ContextIsValid(r.context) /\ r.arm \in Arms
    /\ (r.outcome = NoTime) = (r.reward = NoValue)
    /\ r.outcome # NoTime => r.timestamp <= r.outcome
    /\ \A value \in {r.reward, r.baseline, r.optimal} : value = NoValue \/ IsFinite(value)

\* The events of a chunk by time, decisions before outcomes, then by position.
Events(records) ==
    LET decisions == {<<records[i].timestamp, 0, i>> : i \in DOMAIN records}
        outcomes  == {<<records[i].outcome, 1, i>> :
                        i \in {j \in DOMAIN records : records[j].outcome # NoTime}}
        before(e, f) ==
            \/ e[1] < f[1]
            \/ e[1] = f[1] /\ (e[2] < f[2] \/ (e[2] = f[2] /\ e[3] < f[3]))
        all == decisions \cup outcomes
        rank(e) == Cardinality({f \in all : before(f, e)})
    IN  [n \in 1..Cardinality(all) |-> CHOOSE e \in all : rank(e) = n - 1]

\* One event of a record: 0 its decision, 1 its outcome.
ReplayEvent(h, r, event) == IF event = 0 THEN ReplayDecision(h, r) ELSE ReplayOutcome(h, r)

\* replay_in_place: the first error ends it.
Replayed(h, records) ==
    LET events == Events(records)
        after[n \in 0..Len(events)] ==
            IF n = 0 THEN Done(h)
            ELSE IF ~after[n - 1].ok THEN after[n - 1]
            ELSE ReplayEvent(after[n - 1].state, records[events[n][3]], events[n][2])
    IN  after[Len(events)]

TotalPulls(h) == MapThenSumSet(LAMBDA a : h.pulls[a], Arms)

\* validate_state
ReplayIsValid(h) ==
    /\ h.generation >= FirstGeneration /\ h.processed <= MaxRecords
    /\ Len(h.latencies) <= MaxRecords
    /\ IsFinite(h.reward) /\ IsFinite(h.regret) /\ IsFinite(h.baseline)
    /\ IsFinite(FSub(h.reward, h.baseline))
    /\ TotalPulls(h) >= h.model.samples /\ TotalPulls(h) = Cardinality(CompletedIds(h))
    /\ LinUcbIsValid(h.model)
    /\ Ledger(h.pending, h.completed)!StructureIsValid

\* Defect: the chunk is replayed in place, and an error leaves half of it.
KeptInPlace(h, next) == IF ReplayIsValid(next.state) THEN next ELSE Refused(next.state)

\* replay works on a clone, which it also validates before it keeps it.
Kept(h, next) == IF next.ok /\ ReplayIsValid(next.state) THEN next ELSE Refused(h)

Replay(h, records) ==
    IF h.processed + Len(records) <= MaxRecords /\ \A i \in DOMAIN records : RecordIsValid(records[i])
    THEN Kept(h, Replayed([h EXCEPT !.processed = @ + Len(records)], records))
    ELSE Refused(h)

\* latency_summary
LatencySummary(latencies) ==
    LET sorted == SortSeq(latencies, LAMBDA a, b : a < b)
        n      == Len(sorted)
    IN  [count |-> n, min |-> sorted[1], max |-> sorted[n],
         p95 |-> sorted[((n - 1) * 95 + 99) \div 100 + 1]]
=============================================================================
