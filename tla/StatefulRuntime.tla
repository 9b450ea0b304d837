-------------------------- MODULE StatefulRuntime --------------------------
(***************************************************************************)
(* The Preview v3 engine, StatefulRuntimeEngineV3 of rill-runtime: handler *)
(* state kept in namespaces (client name, partition key), each with its    *)
(* active, previous-good and candidate snapshot and its ledger of delayed  *)
(* decisions.                                                              *)
(*                                                                         *)
(* One mutex guards all of it and is held from the admission checks of a   *)
(* request to its commit, the call of the handler included, so a request   *)
(* is one step.  A handler state is abstracted to its size, to whether it  *)
(* is a valid state, and to the decisions whose feedback it has learned; a *)
(* decision is named by its id and the generation its ledger entry has.    *)
(***************************************************************************)
EXTENDS Integers, FiniteSets, FiniteSetsExt

CONSTANTS
    Scopes,             \* namespaces, as numbers in the order of their keys
    Ids,                \* request ids; the id of a decide names its decision
    Actions,            \* actions a handler can select
    NoAction,           \* the handler's output names no action
    ModelGenerations,   \* model generations the process may be started with
    MaxGeneration,      \* the largest generation, u64::MAX in the code
    MaxRestarts,        \* where restart_count saturates, u64::MAX in the code
    InitialGeneration, InitialBytes,    \* generation and size of the initial state
    MaxPartitions, MaxModelBytes, MaxTotalBytes, MaxSnapshotBytes,
    MaxPending, MaxCompleted,              \* the resource profile
    HandlerErrors,      \* messages of the errors a handler can return
    NoError,            \* last_error is None
    None,               \* no such namespace, ledger entry or snapshot
    Requests,           \* requests clients may send
    HandlerResults,     \* what a handler may return
    HostSnapshots,      \* partition snapshots the host may pass in
    RuntimeSnapshots    \* runtime snapshots the host may restore

VARIABLES
    partitions,         \* RuntimeStateV3.partitions
    restartCount,       \* RuntimeStateV3.restart_count
    lastError,          \* RuntimeStateV3.last_error
    poisoned,           \* a handler panicked while the mutex was held
    modelGeneration,    \* config.model_generation
    reply               \* the last response

vars == <<partitions, restartCount, lastError, poisoned, modelGeneration, reply>>

-----------------------------------------------------------------------------
(* The data of the engine.                                                 *)

Generations == 0 .. MaxGeneration

Decisions == Ids \X Generations

Snapshot == [gen: Generations, bytes: Nat, intact: BOOLEAN, learned: SUBSET Decisions]

\* An entry keeps the features its action had in the context of the decide;
\* rounded says that one of them does not read back from JSON as it was written.
Entry == [modelGen: ModelGenerations, gen: Generations, action: Actions \cup {NoAction},
          rounded: BOOLEAN]

Ledger == [Ids -> Entry \cup {None}]

Partition == [snapshot: Snapshot, previousGood: Snapshot \cup {None},
              candidate: Snapshot \cup {None}, pending: Ledger, completed: Ledger]

PartitionMap == [Scopes -> Partition \cup {None}]

Methods == {"handshake", "health", "decide", "observe", "feedback",
            "inspect", "snapshot", "reset"}

\* What the checks made before the engine takes its lock find wrong.
EnvelopeDefects == {"invalidEnvelope", "expiredRequest", "unsupportedCapability",
                    "schemaHashMismatch"}

\* rounded: the actions of the context that have such features.
Request == [method: Methods, scope: Scopes, id: Ids, gen: Generations,
            modelGen: ModelGenerations, decision: Ids, action: Actions,
            expected: Generations, rounded: SUBSET Actions,
            defect: EnvelopeDefects \cup {"none"}]

HandlerResult == [bytes: Nat, intact: BOOLEAN, action: Actions \cup {NoAction},
                  output: {"valid", "invalidOutput", "outputTooLarge"}]

\* The messages of the engine's own errors: a message, not the code, decides
\* which Preview error a client sees.
EngineErrors == EnvelopeDefects \cup
    {"modelGenerationMismatch", "lockPoisoned", "partitionCapacity", "namespaceMissing",
     "stateGenerationMismatch", "decisionUsed", "pendingCapacity", "feedbackApplied",
     "decisionUnknown", "feedbackStale", "actionMismatch", "completedCapacity",
     "resetGenerationMismatch", "generationOverflow", "resetLimits", "eventTooLarge",
     "invalidOutput", "outputTooLarge", "invalidNextState", "modelStateLimit",
     "snapshotLimit", "hostCallRejected"}

Errors == EngineErrors \cup HandlerErrors

Answers == {"started", "handshake", "health", "result", "inspection", "snapshot",
            "reset", "hostCallDone"}

Reply == [kind: Errors \cup Answers, gen: Generations,
          health: {"unreported", "healthy", "failed_closed"}]

ASSUME ConstantsAssumption ==
    /\ Scopes \subseteq Nat
    /\ IsFiniteSet(Scopes) /\ IsFiniteSet(Ids)
    /\ NoAction \notin Actions
    /\ None \notin Snapshot \cup Entry \cup Partition
    /\ NoError \notin HandlerErrors
    /\ (EngineErrors \cup HandlerErrors) \cap Answers = {}
    /\ MaxGeneration \in Nat /\ MaxRestarts \in Nat
    /\ InitialGeneration \in Generations

\* ResourceProfileV1::validate and the checks of StatefulRuntimeEngineV3::new.
ASSUME ProfileAssumption ==
    /\ {MaxPartitions, MaxModelBytes, MaxTotalBytes, MaxSnapshotBytes,
        MaxPending, MaxCompleted} \subseteq Nat \ {0}
    /\ MaxCompleted >= MaxPending
    /\ InitialBytes \in Nat
    /\ InitialBytes <= MaxModelBytes /\ InitialBytes <= MaxTotalBytes

ASSUME InputsAssumption ==
    /\ Requests \subseteq Request
    /\ HandlerResults \subseteq HandlerResult
    /\ HostSnapshots \subseteq Snapshot
    /\ RuntimeSnapshots \subseteq [partitions: PartitionMap, valid: BOOLEAN]

-----------------------------------------------------------------------------
(* Operators on partitions.                                                *)

\* The keys a map has: a namespace or a decision that is absent maps to None.
Held(f) == {x \in DOMAIN f : f[x] # None}

EmptyLedger == [d \in Ids |-> None]

InitialSnapshot(g) == [gen |-> g, bytes |-> InitialBytes, intact |-> TRUE, learned |-> {}]

InitialPartition ==
    [snapshot |-> InitialSnapshot(InitialGeneration), previousGood |-> None,
     candidate |-> None, pending |-> EmptyLedger, completed |-> EmptyLedger]

Snapshots(p) == {p.snapshot, p.previousGood, p.candidate} \ {None}

BytesOf(s) == IF s = None THEN 0 ELSE s.bytes

StateBytes(m) ==
    MapThenSumSet(LAMBDA k : BytesOf(m[k].snapshot) + BytesOf(m[k].previousGood)
                             + BytesOf(m[k].candidate), Held(m))

\* A runtime snapshot whose checksum and structure validate was exported by an
\* engine.  The structural checks themselves establish neither of these: they
\* compare no ledgers and accept a namespace nothing ever happened in.
ASSUME ExportsAssumption ==
    \A export \in RuntimeSnapshots : export.valid =>
      \A k \in Held(export.partitions) :
        LET p == export.partitions[k]
        IN  /\ Held(p.pending) \cap Held(p.completed) = {}
            /\ p.previousGood # None \/ p.candidate # None

\* A state contains no decision of a generation after its own.
LearnedIsPast(s) == \A d \in s.learned : d[2] <= s.gen

\* The host stages and restores states under the generation they were made at.
ASSUME HostAssumption == \A s \in HostSnapshots : LearnedIsPast(s)

\* The length of the serialised snapshot, abstracted to one unit per ledger
\* entry on top of the state bytes.
SnapshotBytes(m) ==
    StateBytes(m) + MapThenSumSet(LAMBDA k : Cardinality(Held(m[k].pending))
                                           + Cardinality(Held(m[k].completed)), Held(m))

PartitionWithinLimits(p) ==
    /\ \A s \in Snapshots(p) : s.bytes <= MaxModelBytes
    /\ Cardinality(Held(p.pending)) <= MaxPending
    /\ Cardinality(Held(p.completed)) <= MaxCompleted

\* validate_runtime_snapshot_size, run on the map an operation is about to
\* install, before it installs it.
WithinLimits(m) ==
    /\ Cardinality(Held(m)) <= MaxPartitions
    /\ StateBytes(m) <= MaxTotalBytes
    /\ \A k \in Held(m) : PartitionWithinLimits(m[k])
    /\ SnapshotBytes(m) <= MaxSnapshotBytes

\* current_generation: that of the first namespace, whichever was asked for.
FirstGeneration(m) ==
    IF Held(m) = {} THEN 0
    ELSE LET first == CHOOSE k \in Held(m) : \A l \in Held(m) : k <= l
         IN  m[first].snapshot.gen

CurrentGeneration == IF poisoned THEN 0 ELSE FirstGeneration(partitions)

-----------------------------------------------------------------------------
(* Admission.  Every operator below returns the error of the first check   *)
(* that fails, in the order of the code, or "none".                        *)

EnvelopeRefusal(r) ==
    IF r.method \in {"handshake", "health"} /\ r.defect \in {"unsupportedCapability", "schemaHashMismatch"}
    THEN "none"
    ELSE IF r.defect # "none" THEN r.defect
    ELSE IF r.method \notin {"handshake", "health"} /\ r.modelGen # modelGeneration
    THEN "modelGenerationMismatch"
    ELSE "none"

\* Defect: any method opens a namespace.
NamespaceRefusalAnyMethod(r) ==
    IF r.scope \in Held(partitions) THEN "none"
    ELSE IF Cardinality(Held(partitions)) >= MaxPartitions THEN "partitionCapacity"
    ELSE IF r.gen # InitialGeneration THEN "namespaceMissing"
    ELSE "none"

NamespaceRefusal(r) ==
    IF r.scope \in Held(partitions) THEN "none"
    ELSE IF Cardinality(Held(partitions)) >= MaxPartitions THEN "partitionCapacity"
    ELSE IF r.method \notin {"decide", "observe"} \/ r.gen # InitialGeneration
    THEN "namespaceMissing"
    ELSE "none"

\* Defect: a decide checks its id against the pending decisions only.
DecideRefusalPendingOnly(r, p) ==
    IF r.id \in Held(p.pending) THEN "decisionUsed"
    ELSE IF \/ Cardinality(Held(p.pending)) >= MaxPending
            \/ Cardinality(Held(p.completed)) >= MaxCompleted
    THEN "pendingCapacity"
    ELSE "none"

DecideRefusal(r, p) ==
    IF r.id \in Held(p.pending) \cup Held(p.completed) THEN "decisionUsed"
    ELSE IF \/ Cardinality(Held(p.pending)) >= MaxPending
            \/ Cardinality(Held(p.completed)) >= MaxCompleted
    THEN "pendingCapacity"
    ELSE "none"

FeedbackRefusal(r, p) ==
    IF r.decision \in Held(p.completed) THEN "feedbackApplied"
    ELSE IF r.decision \notin Held(p.pending) THEN "decisionUnknown"
    ELSE IF p.pending[r.decision].modelGen # r.modelGen THEN "feedbackStale"
    ELSE IF p.pending[r.decision].action # r.action THEN "actionMismatch"
    ELSE IF Cardinality(Held(p.completed)) >= MaxCompleted THEN "completedCapacity"
    ELSE "none"

\* A namespace is created by the first decide or observe that reaches it; the
\* map with it in place is what the rest of the request works on.
Opened(r) ==
    IF r.scope \in Held(partitions) THEN partitions
    ELSE [partitions EXCEPT ![r.scope] = InitialPartition]

Target(r) == Opened(r)[r.scope]

\* Defect: a namespace stays although the request that created it failed.
AbandonedKept(r) == Opened(r)

\* What a request leaves behind when it fails after the handler was reached: a
\* namespace it created is removed again.
Abandoned(r) ==
    IF r.scope \in Held(partitions) THEN Opened(r) ELSE [Opened(r) EXCEPT ![r.scope] = None]

\* Defect: a reset replaces the state and keeps the ledger.
ResetPartitionKeepsLedger(p) ==
    [p EXCEPT !.snapshot = InitialSnapshot(p.snapshot.gen + 1)]

ResetPartition(p) ==
    [p EXCEPT !.snapshot = InitialSnapshot(p.snapshot.gen + 1),
              !.pending = EmptyLedger, !.completed = EmptyLedger]

\* Defect: a reset does not check the generation for overflow.
ResetRefusalNoOverflow(r, p) ==
    IF r.expected # p.snapshot.gen THEN "resetGenerationMismatch"
    ELSE IF ~WithinLimits([partitions EXCEPT ![r.scope] = ResetPartition(p)]) THEN "resetLimits"
    ELSE "none"

ResetRefusal(r, p) ==
    IF r.expected # p.snapshot.gen THEN "resetGenerationMismatch"
    ELSE IF p.snapshot.gen = MaxGeneration THEN "generationOverflow"
    ELSE IF ~WithinLimits([partitions EXCEPT ![r.scope] = ResetPartition(p)]) THEN "resetLimits"
    ELSE "none"

RequestRefusal(r, p) ==
    IF r.gen # p.snapshot.gen THEN "stateGenerationMismatch"
    ELSE CASE r.method = "decide"   -> DecideRefusal(r, p)
           [] r.method = "feedback" -> FeedbackRefusal(r, p)
           [] r.method = "reset"    -> ResetRefusal(r, p)
           [] OTHER                 -> "none"

Responds(k, g) == reply' = [kind |-> k, gen |-> g, health |-> "unreported"]

Keeps(m) ==
    /\ partitions' = m
    /\ UNCHANGED <<restartCount, lastError, poisoned, modelGeneration>>

\* The request passed the checks made before the lock, which it now holds.
Entered(r) ==
    /\ ~poisoned
    /\ r.method \notin {"handshake", "health"}
    /\ EnvelopeRefusal(r) = "none"

\* ... and every check made before its method takes effect.
Admitted(r) ==
    /\ Entered(r)
    /\ NamespaceRefusal(r) = "none"
    /\ RequestRefusal(r, Target(r)) = "none"

-----------------------------------------------------------------------------
(* Requests.                                                               *)

Init ==
    /\ partitions = [k \in Scopes |-> None]
    /\ restartCount = 0
    /\ lastError = NoError
    /\ poisoned = FALSE
    /\ modelGeneration \in ModelGenerations
    /\ reply = [kind |-> "started", gen |-> 0, health |-> "unreported"]

RefuseEnvelope(r) ==
    /\ EnvelopeRefusal(r) # "none"
    /\ Keeps(partitions)
    /\ Responds(EnvelopeRefusal(r), CurrentGeneration)

AnswerHandshake(r) ==
    /\ r.method = "handshake"
    /\ EnvelopeRefusal(r) = "none"
    /\ Keeps(partitions)
    /\ Responds("handshake", CurrentGeneration)

\* is_healthy: an error a handler once returned is reported until a restart.
AnswerHealth(r) ==
    /\ r.method = "health"
    /\ EnvelopeRefusal(r) = "none"
    /\ Keeps(partitions)
    /\ reply' = [kind |-> "health", gen |-> CurrentGeneration,
                 health |-> IF ~poisoned /\ lastError = NoError
                            THEN "healthy" ELSE "failed_closed"]

RefusePoisoned(r) ==
    /\ poisoned
    /\ r.method \notin {"handshake", "health"}
    /\ EnvelopeRefusal(r) = "none"
    /\ Keeps(partitions)
    /\ Responds("lockPoisoned", 0)

RefuseNamespace(r) ==
    /\ Entered(r)
    /\ NamespaceRefusal(r) # "none"
    /\ Keeps(partitions)
    /\ Responds(NamespaceRefusal(r), FirstGeneration(partitions))

\* These early returns leave a namespace the request has just created in
\* place; FailedRequestChangesNothing says that none of them is ever reached
\* with one.
RefuseRequest(r) ==
    /\ Entered(r)
    /\ NamespaceRefusal(r) = "none"
    /\ RequestRefusal(r, Target(r)) # "none"
    /\ Keeps(Opened(r))
    /\ Responds(RequestRefusal(r, Target(r)), Target(r).snapshot.gen)

AnswerSnapshot(r) ==
    /\ r.method = "snapshot"
    /\ Admitted(r)
    /\ Keeps(Opened(r))
    /\ Responds("snapshot", Target(r).snapshot.gen)

Reset(r) ==
    /\ r.method = "reset"
    /\ Admitted(r)
    /\ Keeps([partitions EXCEPT ![r.scope] = ResetPartition(Target(r))])
    /\ Responds("reset", Target(r).snapshot.gen + 1)

\* The methods that reach the handler.
CallsHandler(r) ==
    /\ r.method \in {"decide", "observe", "feedback", "inspect"}
    /\ Admitted(r)

\* The event, with the features recorded at decision time for a feedback, may
\* be too large for the handler interface.
RefuseEvent(r) ==
    /\ CallsHandler(r)
    /\ Keeps(Abandoned(r))
    /\ Responds("eventTooLarge", Target(r).snapshot.gen)

HandlerFails(r, error) ==
    /\ CallsHandler(r)
    /\ partitions' = Abandoned(r)
    /\ lastError' = error
    /\ UNCHANGED <<restartCount, poisoned, modelGeneration>>
    /\ Responds(error, Target(r).snapshot.gen)

\* A panic inside the handler poisons the mutex, with the namespace the
\* request created still in the map.  No response is sent.
HandlerPanics(r) ==
    /\ CallsHandler(r)
    /\ partitions' = Opened(r)
    /\ poisoned' = TRUE
    /\ UNCHANGED <<restartCount, lastError, modelGeneration, reply>>

Learned(r, p) ==
    IF r.method = "feedback"
    THEN p.snapshot.learned \cup {<<r.decision, p.pending[r.decision].gen>>}
    ELSE p.snapshot.learned

\* What a decide records; selected_action_features reads the features of the
\* action the handler selected.
NewEntry(r, p, out) ==
    [modelGen |-> modelGeneration, gen |-> p.snapshot.gen + 1, action |-> out.action,
     rounded |-> out.action \in r.rounded]

\* Defect: feedback leaves its decision pending.
NextPendingKept(r, p, out) ==
    IF r.method = "decide" THEN [p.pending EXCEPT ![r.id] = NewEntry(r, p, out)]
    ELSE p.pending

NextPending(r, p, out) ==
    CASE r.method = "decide" -> [p.pending EXCEPT ![r.id] = NewEntry(r, p, out)]
      [] r.method = "feedback" -> [p.pending EXCEPT ![r.decision] = None]
      [] OTHER -> p.pending

\* Defect: only the latest completed decision is remembered.
NextCompletedLatest(r, p) ==
    IF r.method = "feedback"
    THEN [EmptyLedger EXCEPT ![r.decision] = [p.pending[r.decision] EXCEPT !.action = r.action]]
    ELSE p.completed

NextCompleted(r, p) ==
    IF r.method = "feedback"
    THEN [p.completed EXCEPT ![r.decision] = [p.pending[r.decision] EXCEPT !.action = r.action]]
    ELSE p.completed

Advanced(r, p, out) ==
    [p EXCEPT !.snapshot = [gen |-> p.snapshot.gen + 1, bytes |-> out.bytes,
                            intact |-> out.intact, learned |-> Learned(r, p)],
              !.previousGood = p.snapshot,
              !.pending = NextPending(r, p, out),
              !.completed = NextCompleted(r, p)]

\* Defect: a result is checked against the limits of its own namespace only.
ResultRefusalOwnNamespace(r, p, out) ==
    IF out.output # "valid" THEN out.output
    ELSE IF ~out.intact THEN "invalidNextState"
    ELSE IF out.bytes > MaxModelBytes THEN "modelStateLimit"
    ELSE IF p.snapshot.gen = MaxGeneration THEN "generationOverflow"
    ELSE IF ~PartitionWithinLimits(Advanced(r, p, out)) THEN "snapshotLimit"
    ELSE "none"

\* Defect: the size of a result is not checked at all.
ResultRefusalUnsized(r, p, out) ==
    IF out.output # "valid" THEN out.output
    ELSE IF ~out.intact THEN "invalidNextState"
    ELSE IF p.snapshot.gen = MaxGeneration THEN "generationOverflow"
    ELSE "none"

ResultRefusal(r, p, out) ==
    IF out.output # "valid" THEN out.output
    ELSE IF ~out.intact THEN "invalidNextState"
    ELSE IF out.bytes > MaxModelBytes THEN "modelStateLimit"
    ELSE IF p.snapshot.gen = MaxGeneration THEN "generationOverflow"
    ELSE IF ~WithinLimits([Opened(r) EXCEPT ![r.scope] = Advanced(r, p, out)]) THEN "snapshotLimit"
    ELSE "none"

\* A result the engine itself refuses does not set last_error.
RefuseResult(r, out) ==
    /\ CallsHandler(r)
    /\ ResultRefusal(r, Target(r), out) # "none"
    /\ Keeps(Abandoned(r))
    /\ Responds(ResultRefusal(r, Target(r), out), Target(r).snapshot.gen)

Commit(r, out) ==
    /\ CallsHandler(r)
    /\ ResultRefusal(r, Target(r), out) = "none"
    /\ Keeps([Opened(r) EXCEPT ![r.scope] = Advanced(r, Target(r), out)])
    /\ IF r.method = "inspect"
       THEN reply' = [kind |-> "inspection", gen |-> Target(r).snapshot.gen + 1,
                      health |-> "healthy"]      \* inspection_summary
       ELSE Responds("result", Target(r).snapshot.gen + 1)

Handle(r) ==
    \/ RefuseEnvelope(r) \/ AnswerHandshake(r) \/ AnswerHealth(r)
    \/ RefusePoisoned(r) \/ RefuseNamespace(r) \/ RefuseRequest(r)
    \/ AnswerSnapshot(r) \/ Reset(r) \/ RefuseEvent(r) \/ HandlerPanics(r)
    \/ \E error \in HandlerErrors : HandlerFails(r, error)
    \/ \E out \in HandlerResults : RefuseResult(r, out) \/ Commit(r, out)

-----------------------------------------------------------------------------
(* The host's own calls: candidates, rollback and restoring.  Each builds  *)
(* the new map aside, checks it against the profile and then installs it.  *)

HostCallRejected ==
    /\ Keeps(partitions)
    /\ Responds("hostCallRejected", 0)

Installs(m) ==
    /\ ~poisoned
    /\ WithinLimits(m)
    /\ partitions' = m
    /\ UNCHANGED <<lastError, poisoned, modelGeneration>>

Fits(k, s) ==
    /\ s.intact /\ s.bytes <= MaxModelBytes
    /\ k \in Held(partitions) \/ Cardinality(Held(partitions)) < MaxPartitions

PartitionAt(k) == IF k \in Held(partitions) THEN partitions[k] ELSE InitialPartition

StageCandidate(k, s) ==
    /\ Fits(k, s)
    /\ Installs([partitions EXCEPT ![k] = [PartitionAt(k) EXCEPT !.candidate = s]])
    /\ UNCHANGED restartCount
    /\ Responds("hostCallDone", 0)

\* The generation becomes the candidate's own.
PromoteCandidate(k) ==
    /\ k \in Held(partitions) /\ partitions[k].candidate # None
    /\ Installs([partitions EXCEPT ![k] =
                   [@ EXCEPT !.snapshot = partitions[k].candidate,
                             !.previousGood = partitions[k].snapshot,
                             !.candidate = None,
                             !.pending = EmptyLedger, !.completed = EmptyLedger]])
    /\ UNCHANGED restartCount
    /\ Responds("hostCallDone", partitions[k].candidate.gen)

RollbackPreviousGood(k) ==
    /\ k \in Held(partitions) /\ partitions[k].previousGood # None
    /\ Installs([partitions EXCEPT ![k] =
                   [@ EXCEPT !.snapshot = partitions[k].previousGood,
                             !.previousGood = partitions[k].snapshot,
                             !.candidate = None,
                             !.pending = EmptyLedger, !.completed = EmptyLedger]])
    /\ UNCHANGED restartCount
    /\ Responds("hostCallDone", partitions[k].previousGood.gen)

CountsRestart ==
    restartCount' = IF restartCount < MaxRestarts THEN restartCount + 1 ELSE restartCount

\* The ledger and the candidate of the replaced state are kept.
RestorePartition(k, s) ==
    /\ Fits(k, s)
    /\ Installs([partitions EXCEPT ![k] =
                   [PartitionAt(k) EXCEPT !.previousGood = PartitionAt(k).snapshot,
                                          !.snapshot = s]])
    /\ CountsRestart
    /\ Responds("hostCallDone", 0)

\* A snapshot of an older schema is migrated by a hook of the host and then
\* restored under its own generation.
RestoreWithMigration(k, s, migrated) ==
    /\ ~s.intact
    /\ RestorePartition(k, [migrated EXCEPT !.gen = s.gen])

\* Defect: a ledger exactly at its limit is refused on restore.
RestorableBelowLimit(snapshot) ==
    /\ snapshot.valid
    /\ Held(snapshot.partitions) # {}
    /\ \A k \in Held(snapshot.partitions) :
         Cardinality(Held(snapshot.partitions[k].pending)) < MaxPending
    /\ WithinLimits(snapshot.partitions)

\* StatefulRuntimeSnapshotV3::validate and validate_runtime_snapshot_size.
Restorable(snapshot) ==
    /\ snapshot.valid
    /\ Held(snapshot.partitions) # {}
    /\ \A k \in Held(snapshot.partitions) :
         \A s \in Snapshots(snapshot.partitions[k]) : s.intact
    /\ WithinLimits(snapshot.partitions)

RestoreRuntime(snapshot) ==
    /\ Restorable(snapshot)
    /\ Installs(snapshot.partitions)
    /\ CountsRestart
    /\ Responds("hostCallDone", 0)

-----------------------------------------------------------------------------

Lifecycle ==
    \E k \in Scopes :
      \/ PromoteCandidate(k)
      \/ RollbackPreviousGood(k)
      \/ \E s \in HostSnapshots : StageCandidate(k, s)

Restore ==
    \/ \E snapshot \in RuntimeSnapshots : RestoreRuntime(snapshot)
    \/ \E k \in Scopes, s \in HostSnapshots :
         \/ RestorePartition(k, s)
         \/ \E migrated \in HostSnapshots : RestoreWithMigration(k, s, migrated)

Serve == (\E r \in Requests : Handle(r)) \/ Lifecycle \/ HostCallRejected

Next == Serve \/ Restore

Spec == Init /\ [][Next]_vars

\* An engine whose host never restores: it serves, stages, promotes and rolls back.
ServingSpec == Init /\ [][Serve]_vars

-----------------------------------------------------------------------------
(* Properties.                                                             *)

\* The variables stay in the ranges the code's types give them.
TypeOK ==
    /\ partitions \in PartitionMap
    /\ restartCount \in 0 .. MaxRestarts
    /\ lastError \in HandlerErrors \cup {NoError}
    /\ poisoned \in BOOLEAN
    /\ modelGeneration \in ModelGenerations
    /\ reply \in Reply

LedgerIds(p) == Held(p.pending) \cup Held(p.completed)

\* Whatever sequence of requests, promotions, rollbacks and restores an engine
\* has been through, what it holds fits the resource profile and every state it
\* holds passed validate_state_bytes: each operation checks the whole map it is
\* about to install, for its own namespace and for all the others.
HeldStateIsBounded ==
    ~poisoned =>
      /\ WithinLimits(partitions)
      /\ \A k \in Held(partitions) : \A s \in Snapshots(partitions[k]) : s.intact

\* A decision is never pending and completed at once: the checks of decide and
\* feedback and the move between the two maps keep them apart, which
\* StatefulRuntimeSnapshotV3::validate does not check on restore.
LedgersDisjoint ==
    \A k \in Held(partitions) :
      Held(partitions[k].pending) \cap Held(partitions[k].completed) = {}

\* A namespace exists only because some operation on it succeeded: a first
\* request that fails leaves no namespace behind to use up max_partitions.
NoPhantomPartition ==
    ~poisoned =>
      \A k \in Held(partitions) :
        partitions[k].previousGood # None \/ partitions[k].candidate # None

\* "The request remains side-effect free": a request answered with an error
\* leaves every namespace as it was, also when it had created one.
FailedRequestChangesNothing ==
    [][reply'.kind \in Errors /\ poisoned' = poisoned => partitions' = partitions]_vars

\* The ledger never forgets one decision alone: an id disappears only when both
\* ledgers of its namespace are cleared, no namespace disappears, and a
\* completed decision does not become pending again.
NoSilentEviction ==
    [][\A k \in Held(partitions) :
         /\ k \in Held(partitions')
         /\ Held(partitions[k].completed) \cap Held(partitions'[k].pending) = {}
         /\ LedgerIds(partitions[k]) \subseteq LedgerIds(partitions'[k])
              \/ LedgerIds(partitions'[k]) = {}]_vars

\* The ledger of a namespace is about its active state: a pending decision has
\* not been learned by it and a completed one has, so feedback is learned
\* exactly once however requests, promotions and rollbacks interleave.
LedgerMatchesState ==
    \A k \in Held(partitions) :
      LET p == partitions[k]
      IN  /\ \A d \in Held(p.pending) :
               /\ p.pending[d].gen <= p.snapshot.gen
               /\ <<d, p.pending[d].gen>> \notin p.snapshot.learned
          /\ \A d \in Held(p.completed) :
               <<d, p.completed[d].gen>> \in p.snapshot.learned

-----------------------------------------------------------------------------

\* The abstraction: what the engine knows of each decision of each namespace.
LedgerStatus ==
    [x \in Scopes \X Ids |->
       LET p == partitions[x[1]]
       IN  IF p = None THEN "unknown"
           ELSE IF p.pending[x[2]] # None THEN "pending"
           ELSE IF p.completed[x[2]] # None THEN "completed"
           ELSE "unknown"]

Feedback == INSTANCE DelayedFeedback WITH Ids <- Scopes \X Ids, status <- LedgerStatus

\* The engine keeps the promise of a delayed-feedback ledger in every namespace,
\* failed first requests, resets, promotions and rollbacks included.
ImplementsDelayedFeedback == Feedback!Spec
=============================================================================
