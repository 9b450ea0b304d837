# A TLA+ model of RillML

This directory specifies what keeps state in RillML and can go wrong over time.
There are two halves. The *runtime*: the Preview v3 engine, the process that
serves it from a state file, and the ledger of delayed decisions. The
*library*: statistics, metrics, drift detection, diagnostics, models,
transformers, pipelines, bandits, the decision replay and the C interface, each
as its caller drives it. TLC checks small instances of the specifications; the
TLA+ proof system proves the theorems of the seven `*Proofs` modules for every
value of the constants. Line numbers refer to the source tree under `src/`.

## 1. Inventory

| Component | State it keeps | Operations | Hard behaviour | Correct when |
| --- | --- | --- | --- | --- |
| **StatefulRuntimeEngineV3** (`crates/rill-runtime/src/stateful.rs`) | per namespace (client name, partition key): active, previous-good and candidate snapshot, pending and completed decisions; restart counter, last error; all under one mutex | the request methods handshake, health, observe, decide, feedback, inspect, snapshot, reset; the host calls stage, promote, rollback, restore, migrate | a request can fail at some twenty places, several after it created its namespace; limits hold over all namespaces together; repeated and late feedback; states that come back | failed requests change nothing, limits hold, each outcome is learned once, the ledger is about the active state |
| **Protocol v3** (`crates/rill-runtime-protocol/src/v3.rs`) | none | validation of envelopes, deadlines, resource profile | order of the checks | the first failing check decides the answer |
| **preview-serve** (`crates/rill-runtime/src/bin/rill-runtime.rs`) | the state file, the request it serves | recover, handle, persist, respond | the process may stop between any two steps; the client repeats requests | an acknowledged outcome is durable, the next start accepts the file |
| **StateFileLock** (same file) | the lock file | acquire, release at exit | two processes on one state path | at most one process writes the file |
| **DecisionLedger** (`src/decision/mod.rs`) | pending decisions, completed tombstones | register, apply_feedback, clear_expired, clear_completed_before | replays, conflicts, clocks that go backwards, two capacities, cleanup | facts never change, an outcome is applied once, a persisted ledger is always valid |
| **DecisionReplayHarness** (`src/replay.rs`) | ledger, LinUCB, generation, totals | replay of a chunk | transactional chunks, ordering within and between chunks, drift and generation resets, expiry | a failed chunk changes nothing, the totals agree with the ledger |
| **DriftConsensus** (`src/drift/consensus.rs`) | level, streaks, cooldown, last event | update, reset | hysteresis, cooldown and merging of events, generation changes | a level follows confirmed votes, lasting drift is recorded, events keep their distance |
| **Detectors, DriftAwareModel** (`src/drift/`) | windows and running sums, a bounded list of events | update, learn, reset, portable states | windows that are cut and rotated, error order in `learn` | windows hold the newest values, sums agree with them, the model knows what came since its reset |
| **Selector, comparator, warm-up, reports** (`src/diagnostics/`) | windows of errors, current best, cooling counter | record, select, observe, reset | cooling period and minimum samples, a change that is reported once | the windows are of the right model, None means too few samples |
| **Statistics and metrics** (`src/stats/`, `src/metrics/`, `src/weighted.rs`) | counts, means, sums, markers, windows | update, value, reset | rounding, overflow, counters at their limit, failure in the middle of an update | agreement with the definition, means within their values, a saved state loads |
| **Models, optimisers, sparse features** (`src/models/`, `src/optim/`, `src/sparse/`) | weights, class counts, per-feature parameters | learn, predict, reset | underflow, ln 0, capacity, refused samples | agreement with the samples, a saved model loads and predicts |
| **Transformers, pipelines, evaluation** (`src/preprocessing/`, `src/pipeline.rs`, `src/evaluate/`) | means, bounds, categories; two stages | update, transform, learn | missing values, stages of which only the first has learned | stages agree, seen values stay in range |
| **Bandits** (`src/bandit/`) | pulls and rewards, matrices or inverses | select, update, reset | numerical drift of an inverse, unexplored arms | every arm is tried first, the fast variant chooses as the exact one |
| **C interface** (`crates/rill-ml-ffi/src/lib.rs`) | objects behind handles | new, learn, read, copy, destroy | NULL handles and pointers, refused calls | a handle counts its own successful calls |
| **RuntimeEngine v1/v2** (`crates/rill-runtime/src/server.rs`) | none between requests | handle | sanitising of errors | – |
| **Wasmtime adapter** (`crates/rill-runtime/src/handler/wasm.rs`) | store, fuel, epoch ticker thread | load, invoke, drop | wall-clock timeout by a second thread | no call runs forever, the thread ends |
| **Packages, archives, trust stores** | none | load and verify | – | – |
| **Persistence envelope, other bindings** (Python, WebAssembly, Arrow, Polars, Tokio) | none of their own | encode, decode, forward to the library | – | – |

How they interact: a client writes one request per line to *preview-serve*,
which calls the *engine*; the engine calls its *handler* while it holds the
mutex; *preview-serve* then asks the engine for a snapshot, writes it to the
*state file* and answers. A host that embeds the engine calls it from several
threads and also stages, promotes, rolls back and restores states. The *replay
harness* drives *DecisionLedger* and LinUCB inside one process. The library has
no threads of its own: a caller owns an object, gives it one input after the
other and may save and load it between any two. Objects contain each other
(*DriftAwareModel* a detector and a model, the *selector* a comparator, the
*reporter* an interval, a summary and a warm-up, a *pipeline* a transformer and
a model), and an error of the inner one is an early return of the outer one.

`PROJECT.json` lists the hazards of the code line by line, with the property
that covers each or the reason why none does yet.

## 2. Modules

| Module | What it is |
| --- | --- |
| `DelayedFeedback` | what every ledger of delayed decisions promises: unknown, then pending, then completed, each once, until forgotten |
| `StatefulRuntime` | the engine: every request method and every host call |
| `PreviewServe` | the process around the engine: file, stops, restarts, client; EXTENDS `StatefulRuntime` |
| `DecisionLedger` | the library's ledger |
| `StatefulRuntimeProofs`, `PreviewServeProofs`, `DecisionLedgerProofs` | theorems of the runtime and the ledger |
| `MonitoringProofs` | theorems of `Monitoring`: the consensus, bounded windows, the drift-aware model |
| `MomentProofs` | theorems of `Monitoring` about the numbers its objects keep: saved states, means and variances that round |
| `ReferenceProofs` | theorems of `Monitoring`: the objects that agree with a definition over all their inputs |
| `LearningProofs` | theorems of `Learning`: the stages of pipelines, UCB1, the handles of the C interface, the replay, saved models |
| `ValueLemmas` | what these proofs share: ends of sequences, insertion and deletion, induction over numbers and sequences, powers of two and rounding |
| `MCStatefulRuntime`, `MCPreviewServe` | requests, handler results and host snapshots of the TLC runs |
| `MCRuntimeClaims` | statements of the documentation that the engine does not keep |
| `SmallFloat`, `FeatureVectors` | the arithmetic of `f64`, the answers of a fallible call; checks of feature vectors and weights |
| `OnlineStatistics`, `P2Quantile`, `WeightedStatistics`, `Metrics` | `src/stats`, `src/weighted.rs`, `src/metrics` |
| `DriftDetectors`, `DriftConsensus`, `DriftResponse` | `src/drift`: Page-Hinkley, ADWIN and KSWIN; the consensus; DriftAwareModel, the decayed mean and the ring buffer |
| `Diagnostics` | `src/diagnostics` |
| `LinearModels`, `NaiveBayes`, `SparseModels` | `src/models`, `src/optim`, `src/loss`, `src/sparse`, `src/feature_hasher.rs` |
| `Preprocessing`, `Pipelines` | `src/preprocessing`; `src/pipeline.rs` and `src/evaluate` |
| `Bandits` | `src/bandit` |
| `DecisionReplay` | `src/replay.rs` over `Bandits` and an instance of `DecisionLedger` |
| `ForeignHandles` | `crates/rill-ml-ffi` |
| `Monitoring`, `Learning` | the callers: one object and a stream of inputs; the properties of the library |
| `MCMonitoring`, `MCLearning` | the streams of the TLC runs |

### StatefulRuntime

A request runs under the engine's mutex from its admission to its commit, the
handler's call included, so a request is one step. What varies is where it
ends, and each ending is an action: `RefuseEnvelope` (the checks before the
lock), `RefusePoisoned`, `RefuseNamespace`, `RefuseRequest` (the early returns
under the lock), `RefuseEvent`, `HandlerFails`, `HandlerPanics`, `RefuseResult`
and the successful `AnswerHandshake`, `AnswerHealth`, `AnswerSnapshot`, `Reset`
and `Commit`. The operators `EnvelopeRefusal`, `NamespaceRefusal`,
`RequestRefusal` and `ResultRefusal` name the first check that fails, in the
order of the code. The host calls are `StageCandidate`, `PromoteCandidate`,
`RollbackPreviousGood`, `RestorePartition`, `RestoreWithMigration` and
`RestoreRuntime`; each installs a map it has checked first.

`partitions` maps a namespace to its record, or to `None`. A state of the
handler is abstracted to `bytes` (its size), `intact` (whether
`StatefulStateSnapshotV2::validate` accepts it) and `learned`, the decisions
whose feedback it has absorbed. `learned` is what makes "learned exactly once"
a statement about states: the code has no such field, the numbers in the state
stand for it. A decision is named by its id and by the generation its ledger
entry records, so that the same id used again after a reset is another
decision. Timestamps, features, rewards and outputs do not steer the engine and
are left out, but for one bit: an entry says whether a feature of its action is
read back from JSON as it was written (`rounded`), which decides about the state
file. The deadline, which does steer it, is a defect a request may have. The
length of a serialised snapshot is one unit per ledger entry plus the state
bytes: the limits on it are reached, its exact value is not claimed.

### PreviewServe

`pc` is the position in the loop of `preview_serve`: `idle`, `handled` (the
engine has answered), `persisted` (the file is written). `Persist` is one step
because `write_atomic_snapshot` writes and syncs a file of another name and
renames it; a stop before the rename leaves the old file. `Stop` stands for
every way the process ends, at every step, also for a panic of the handler, an
oversized line and a failed write. A new process may be started for another
model generation. `ReadBack` is what it reads: the snapshot of the file, whose
checksum over the JSON of what was read is right only if every feature in its
ledgers survived (`FeaturesSurvive`). `serde_json` prints a float with the fewest
digits that a correctly rounded reading gives back, and without its feature
`float_roundtrip` (`Cargo.toml:54`) its own reading may be one bit off: the
feature 7.997222516370969e-10 of a request is read and printed as
7.997222516370968e-10, which is read and printed as 7.997222516370967e-10. The
built-in handler's state consists of bytes, so the features are the only floats
of the file. The client is external: it may send anything, repeat
anything and see no answer; `acked` is what it has been told.

### DecisionLedger

One action per outcome of a call. The context and action of a decision are
model values, some of them over their byte limits; times are inputs and may go
backwards; a reward is finite or not.

### The library

Every method that changes an object is an operator from the state before and the
input to `[ok, state]`: `Done(s)` or `Refused(s)`, where a refusal carries the
state the code leaves behind. Most methods compute first and assign last and so
refuse with the old state; those that do not (`MeanImputer::update`,
`ForwardFill::update`, `FrequencyEncoder::update_strs`, `DriftAwareModel::learn`,
`RegressionPipeline::learn`) are modelled with what they have done by then.
Operators whose name ends in `IsValid` are the `validate_state` methods, which
a saved state has to pass when it is loaded.

`Monitoring` and `Learning` put one object (of a *kind*) under a caller who
gives it inputs from a small set in every order, valid and not, resets it, and
asks it. `log` is what the object took; it is history that the properties
compare the object with. A pair of objects that get the same inputs
(`linucb_pair`, `evaluation`) and the table of C handles are kinds of their own.
A handle is `<<>>` (NULL) or `<<object>>`, and the log of a table of handles
holds each call that reached the library under its handle and its answer (`ok` or
`refused`); a text that `from_json` refuses answers NULL. What a pipeline reports
as `samples_seen` is the count of its transformer (`src/pipeline.rs:87-89`), which
a refused `learn` may have raised.
The actions are external: the library does not prescribe its callers.

`SmallFloat` replaces `f64` by a format of eight or ten significant bits whose
largest number is small. It rounds half to even, overflows to infinity,
underflows to zero and has NaN, so that the guards of the code (`ensure_finite`,
`checked_finite_add`, the underflow check of FTRL) are reached. Integers are
multiples of the smallest positive number and 1.0 is `Unit`, chosen so that
small whole inputs divide evenly: on *exact* streams nothing rounds and what
the code accumulates must equal the reference definition, on the others the
properties must hold in spite of rounding. `MaxCount` stands for `u64::MAX`.
Functions without a rational value (`ln`, `exp`, the logistic function, powers
of the decay, the critical values of ADWIN and KSWIN) are monotone tables given
by the run; nothing is claimed about their digits. A random draw is the set of
arms it may return.

## 3. Runs

| Run | Question | Bounds and why they suffice |
| --- | --- | --- |
| `namespaces` | do failures leave nothing behind, and do limits hold across namespaces and for states from outside? | the complete `Next`; three namespaces for two places; two full states and their previous-good states exceed `MaxTotalBytes`, which no single namespace does; a result one byte too large; exported, foreign, oversized and invalid snapshots; two model generations; generations 0..2 so that the overflow check is reached |
| `ledger` | does the ledger stay in step with the state? | two decisions of one namespace, room for both; four generations are enough to decide, feed back, promote an exported candidate, roll back and go on |
| `serve` | is what was acknowledged durable, and does the process come back? | two stops: one to lose work, one to lose it again after recovery; two decisions with room for one of each kind, so that both limits are reached; decides with and without a feature that JSON rounds |
| `decision_ledger` | the library's ledger under every sequence of calls | two ids for one place of either kind, so that an outcome meets full tombstones, three times (before, at and after a boundary), a value over its limit, two actions and two model generations to mismatch |
| `monitoring` | do statistics, metrics, detectors, consensus and diagnostics keep what their inputs say, through refusals, overflow, resets and full counters? | every sequence of up to 9 inputs (3 to 8 for most kinds) from 1 to 20 values: windows of 2 to 4 are filled, evicted and cut; the five markers of a quantile move up to three times after their bootstrap; the consensus confirms, cools down, merges and changes its generation |
| `learning` | do models, transformers, pipelines, bandits, the replay and the handles agree with the samples they took? | every sequence of 2 to 9 inputs over two features, three arms, three decisions in chunks with room for four records, three handles of two types; inputs with missing, infinite and largest values; capacities and counters are reached |

All six runs explore their whole state space. `namespaces` does so up to the last
response (`VIEW StateWithoutReply`): no guard reads it, so states that differ in it
alone have the same future, its type is checked in `serve`, too, and
`FailedRequestChangesNothing` is about steps, of which TLC checks every one it
generates, to states it has seen before, too. `MaxGeneration` stands for
`u64::MAX`, `MaxRestarts` for the value at which `restart_count` saturates,
`MaxTime` and `MaxTimestamp` for the largest timestamp, `MaxStops` bounds the stops of a behaviour
(not the number of starts). Deadlock checking is off: the engine, the process
and the ledger wait for their callers, an engine whose generations are used
up may refuse everything, and the stream of a library object ends.

What they show: failed requests, also first ones, change nothing
(`FailedRequestChangesNothing`, `NoPhantomPartition`), no sequence of calls
exceeds the resource profile (`HeldStateIsBounded`), an id is pending or
completed but not both and is never silently forgotten (`LedgersDisjoint`,
`NoSilentEviction`), the ledger says exactly what the active state has learned
(`LedgerMatchesState`), and both ledgers implement `DelayedFeedback`
(`ImplementsDelayedFeedback`). For the process: an answer implies the file has
it (`AcknowledgedIsDurable`), the file is consistent (`FileLedgerMatchesState`)
and the next start refuses it for one reason only, a feature that JSON does not
give back (`RefusedOnlyForFeatures`), requests end and the process serves again
unless it has left such a file (`RequestsSettle`, `AlwaysServesAgain`;
`claim_restart` below shows that it may). For the library's ledger:
`validate_structure` accepts what calls produce (`StructureIsValid`), facts never
change (`FactsAreImmutable`) and only a cleanup forgets a decision
(`NoDecisionIsLost`; the abstract ledger alone would allow that at any time).

For the library: whatever calls were refused in between, a saved object is
accepted when it is loaded (`SavedStateIsAccepted`, `SavedModelIsAccepted`),
bounded windows hold the newest values (`WindowsAreRecent`; the comparator of a
selector keeps an error that its sample counter then refuses at its limit, so
its windows are spoken of below that), what is accumulated
agrees with a definition over the inputs taken (`AgreesWithReference`,
`AgreesWithSamples`) and rounding never moves a mean out of its values, a
weighted mean by at most one rounding of their distance
(`MeansStayInRange`). The consensus raises what was confirmed and lasting drift
is recorded with events apart, as long as the generation stays the same: a
change of it clears the cooldown (`LevelFollowsVotes`, `DriftIsRecorded`,
`EventsAreSpaced`); a drift-aware model knows all samples since its reset
(`ModelLearnsSinceReset`). A naive Bayes model leans to the class for
which there is more evidence and is sure where only one class is possible, ln 0 or
not; it refuses to answer if no class is possible or a likelihood is infinite, as
for very large features (`PosteriorsFollowEvidence`, asked also with the largest
number as one or all features); scalers, imputers and encoders keep
seen values in range and order (`SeenValuesStayInRange`); stages learn from the
same samples where the method promises it, and elsewhere never the model more
than the transformer (`StagesAgree`); UCB1 tries every arm first
(`ExplorationIsComplete`); LinUcbFast follows LinUcb within a tenth and chooses
arms that are as good (`FastFollowsExact`). What a replay counts adds up with
its ledger and its model after any chunks (`ReplayAddsUp`), its rewards and the
percentiles of its latencies with the decisions they are of
(`AgreesWithSamples`), and a handle reports its own successful calls and no others;
a pipeline's may add refused ones that its scaler took, its model has learned from
the successful ones alone (`HandlesCountTheirOwnCalls`).

`SavedStateIsAccepted` is stated of Page-Hinkley and ADWIN for streams that do
not round: the accumulators of the first may grow to infinity, and the running
total of the second keeps what rounding added to it (`claim_adwin` below).

Two things are not stated because the code does not keep them: that an
exponentially weighted mean of the plain kind stays within its values (it is
the sum of two rounded parts; the weighted kind moves by a rounded difference and
overshoots by at most one rounding), and that the latencies of a replay are those of its completed decisions
(the outcome of a record whose decision was rejected completes another record's
decision of the same id and is measured from the rejected record's timestamp).

### Where the documentation and the code differ

Six runs check a sentence of the documentation and find a behaviour of the
code against it:

* `claim_health`: "A failed-closed runtime never reports `Healthy`"; an
  inspection always does.
* `claim_restart`: the state file "is preserved across restart"; a feature that
  JSON does not give back as it was written makes the file fail its checksum
  (`crates/rill-runtime/src/stateful.rs:333`), and no later process starts on it.
* `claim_warmup`: `warming_windows` are "Initial complete windows"; incomplete
  windows count as well (`src/drift/consensus.rs:285`, `306`), so a consensus whose
  detectors have no data yet has warmed up before its first complete window.
  `LevelFollowsVotes` describes the warm-up as the code has it.
* `claim_adwin`: ADWIN's exported state can always be imported again; the running
  total loses dropped values by subtraction (`src/drift/adwin.rs:337`), so what a
  large value rounded away stays in it, and `validate_state` then finds the total
  too far from the sum of the window and refuses the detector's own state.
* `claim_rollback`: rolling back restores the previous-good state after a
  failed activation; after one more request it restores the activated state.
* `claim_selector`: `OnlineModelSelector::select` answers `None` if no model has
  enough samples yet; asked too early once, it answers `None` also when all
  models have enough, because the comparator reports a change of the best model
  only once.

Two more differences have no run because they are visible in a single step.
`docs/STATE_LIFECYCLE_V3.md:4-5` says that a successful handler call is the only
point at which the generation advances, while a reset
(`crates/rill-runtime/src/stateful.rs:1220`) and a promotion change it, too.
`docs/RESOURCE_PROFILE_V1.md:26` says that exceeding `max_partitions` is answered
with `capacityExceeded`, while a Preview client sees `internal`: "partition
capacity is exhausted" (`crates/rill-runtime/src/stateful.rs:1080`) is none of the
messages that `preview_error_code` (line 1893) knows.

### Fairness

Only `PreviewServe` has liveness properties; an object of the library does
nothing unless it is called, so there is nothing to be fair to. `PreviewServe`
assumes weak fairness of
`Work`: a supervisor starts the process again, and a process that runs takes
the next step of its loop. The loop is sequential and waits for nothing but
its input, the handler and the disk; a handler that never returns is excluded
by the fuel and epoch limits of the sandbox, a write that fails is a `Stop`.
Nothing is assumed of the client, and stops are not fair either. That there are
finitely many (`MaxStops`) is what "serves again" needs: a process killed
forever never does.

## 4. Theorems

Each is proved for every value of the constants: all sets of namespaces, ids,
requests, handler results, detectors, streams, inputs and handles, all profiles,
capacities and bounds, and behaviours of any length. Each theorem about an
invariant of a run has an inductive invariant of its own, named below; the
lemmas show that it holds initially, that every action keeps it, and that it
implies the property.

| Module | Theorems |
| --- | --- |
| `StatefulRuntimeProofs` | of the whole engine (`Spec`): `TypeCorrect`, `FailureChangesNothing`, `LedgersStayDisjoint`, `NoPhantoms`, `BoundsHold`; of the engine without restores (`ServingSpec`): `NothingIsEvicted`, `EngineImplementsDelayedFeedback`, `LedgersMatch` |
| `DecisionLedgerProofs` | `LedgerTypeCorrect`, `StructureAlwaysValid`, `FactsNeverChange`, `DecisionsStayKnown`, `LedgerImplementsDelayedFeedback` |
| `PreviewServeProofs` | `ProcessTypes`, `AnswersAreDurable`, `FileMatches`, `FileRefusedOnlyForFeatures` |
| `MonitoringProofs` | `SavedConsensusIsAccepted`, `LevelsFollowVotes`, `LastingDriftIsRecorded`, `RecordsAreSpaced`, `WindowsHoldTheNewest`, `AwareModelLearnsSinceReset` |
| `MomentProofs` | `SavedStatesAreAccepted`, `RangesHold` (both for the kinds they name) |
| `ReferenceProofs` | `ReferencesAgree` (for the kinds it names) |
| `LearningProofs` | `PipelineStagesAgree`, `ArmsAreExplored`, `HandlesAreApart`, `ReplaysAddUp`; for the kinds they name `SavedModelsAreAccepted`, `SamplesAgree`, `RangesAreKept` |

**The engine and the ledger.** A lemma per action says what it
does to `partitions` ("keeps it", "installs a map within limits", "advances one
partition"), and each invariant is then shown for those few forms, not for the
actions one by one. `FailureChangesNothing` rests on the fact that a request
that creates a namespace passes every early return between the creation and the
handler's call: an empty partition of the initial generation refuses neither a
decide nor an observe. `LedgersMatch` needs more than `LedgerMatchesState`,
which is not inductive: that a *state* contains only decisions of its past
(`StatesArePast`), which makes the generation of a new decision fresh, and that
this also holds for previous-good and candidate states, which a promotion or a
rollback makes active. `StructureAlwaysValid` needs that windows and values are
legal from registration on.

**The process.** `ServeInv` joins the engine's invariants (`EngineInv`), the same
of what it left in the file (`FileInv`) and three facts about the loop. `Between`
says by the position in the loop how file and engine differ: they are equal
except while a request that changed something waits for its `Persist`.
`Remembered` says that what was acknowledged is in the file and, while a request
is being handled, in the engine too, together with what the answer is about to
acknowledge. `GivenUp` says that a client that waits for a reset claims nothing
in that namespace any more; without it the reset would break
`AcknowledgedIsDurable`. A step of the engine is a step of `ServingNext`, so its
lemmas are cited and not repeated.

**The consensus.** The properties speak of the last windows of a log, the
consensus keeps four counters. `ConsensusInv` relates them: `CountersHold` bounds
the counters by each other (this alone gives `SavedConsensusIsAccepted`); `Spaced`
says that the cooldown makes up for what an event lacks in age, and `Timed` that
a streak of drift windows is recorded at multiples of the confirmation length
unless the rest of the cooldown delays it, which together bound the age of an
event; `Tracks` finds the first window of the present generation in the log, and
`Follows` says that the streaks are the longest ends of the log with such votes
and that the level was confirmed with some window since which nothing has
cleared it. `LevelFollowsVotes` has the existence of that window as its
conclusion and is not inductive without the length of the clearing streak since.

**Windows.** `WindowInv` gives for each kind of window what it keeps of the log
(`Keeps`, for a selector `Selects`): the last `Capacity` values in a list, the
same rotated in a ring buffer, a shorter end in ADWIN, two adjacent ends in
KSWIN. Every operation is shown to turn an end of the log into an end of the
longer log. `AwareInv` says that the samples of the model are the samples since
the newest reset in the bounded list of events, and that the model's counter is
never ahead of the detector's, so that the detector refuses first when counters
reach their limit.

**Saved states and ranges.** `MomentInv` says by the kind what an object of
numbers always satisfies (`Sound`), for any format that rounds, overflows and
underflows as `SmallFloat` does. Three facts carry it. Rounding is monotone and
leaves the numbers of the format alone (`RoundingIsMonotone`), so a result between
two of them is rounded to one between them (`ToFloatBounds`); with it `MeanMoves`
shows that a mean that moves by the rounded share of a rounded distance stays
between its old value and the input, and `VarianceTakes` that the distances before
and after a step of Welford's algorithm have one sign, so the sum of squares never
falls below zero. The spacing of the numbers is a power of two, about which
`ValueLemmas` has what is needed. The rest counts: the windows of KSWIN are as long
as its counter says, a rolling accuracy has as many hits as its window has (the
hits are a number that may round: they are whole, and a window is never longer
than the format counts exactly), the cells of a confusion never outnumber the
samples, because a full cell refuses the sample before it is counted.

**Definitions.** `CountInv` relates extrema, confusion cells, warm-up and reporter
to the log, and `ReferencesAgree` follows from it, from `WindowInv` (medians, KSWIN,
the selector) and from the hits of `MomentInv`. Two parts are about algorithms, not about steps: the walk of KSWIN
through two sorted windows visits every value at which a distribution function
rises, with the number of values up to it on either side as its position
(`Ranks`, `WalksAt`), so the largest distance it meets is the largest there is; and
the middle of a sorted window has at most half of it on either side. The
three parts of a reporter refuse a sample together, since their counters are
equal. Warm-up and selector store an error before their counter can refuse it,
so the theorem speaks of them while fewer than `MaxCount` inputs were taken.

**The replay.** `ReplayHolds` counts everything a harness reports against the
completed and the pending decisions of its ledger: pulls per arm and latencies
against the completed ones, missing outcomes against completed, pending and expired
ones, and it says that what is filed under an id is that decision. A chunk is
played by a recursive function over its events, decisions and outcomes in the
order of `Events`: that there is an event of every rank, and that it is one of a
record of the chunk, is a lemma of its own (`EventsAreOfRecords`), and either kind
of event keeps `ReplayHolds` wherever it returns, between bringing the generation
forward, expiring, registering and completing (`ReplayDecisionHolds`,
`ReplayOutcomeHolds`). `ReplayInv` adds that `processed` counts the records of the
chunks in the log. A chunk that fails is not kept, so nothing has to be shown of a
half-played one.

**Pipelines, UCB1 and handles.** `StagesInv` says by the kind of learning how far
the stages may be apart (`AllOrNothing`, `ScalerAhead`, `ImputerAhead`,
`Evaluation`): all of them need that a model whose `learn` fails is unchanged and
that a scaler counts every feature of every sample, which the proof derives from
each model's update. `UcbInv` adds to `ExplorationIsComplete` that pulls are
counts, and rests on what `select` returns as long as an arm is unexplored.
`HandlesInv` says what is behind each handle (`ObjectHolds`) given the numbers of
calls that name it and were answered with OK or refused: an object that is not a
pipeline is left alone by a refused call, a pipeline's scaler has counted every call
its model took and at most those it refused. Copies inherit the calls of their
original under their own name, and the lemmas about `EntriesOf` and `Renamed` count
them.

**Saved models.** `SavedInv` holds what a kind of object keeps between two calls,
refused ones included: the weights and accumulators of a linear model are finite,
the counts of a naive Bayes class add up to the samples, a scaler's sum of squares is
not negative, categories ascend, the parts of a pipeline fit its task, pulls and
rewards belong together, every matrix of LinUcb has a Cholesky factor, every
parameter of FTRL a weight. The proof goes through the update of each kind,
with the lemmas on rounding, since what has to be
shown is that a number that was checked before it is stored is the number that
`validate_state` will look at. `SavedModelsAreAccepted` names what it leaves out
(`CanBeSaved`): the kinds of `ToleratedKinds`; a UCB1 whose samples `f64` does not count
exactly; and FTRL with hyperparameters at which the denominator of a weight can
overflow, because `learn` checks the weight it computes and `validate_state` also the
denominator. The constants of the run satisfy that premise (the largest denominator is
19.5, the largest number 68.2).

**Samples.** `SeenInv` says by the kind what an object keeps of the accepted samples
in the log (`SamplesKept`): the extremes of each feature are among its values and
bound them all, the last value is that of the last sample that had one, the
categories ascend and are those of all samples, a class counts its samples and those
in which a feature was on, FTRL knows the features of each sample that there was room
for, a mean lies between two values it took. `SamplesAgree` compares this with the
definitions over the log. `RangesAreKept` needs more of the arithmetic: that the
distance to the minimum grows with the value even when it is rounded
(`DistanceGrows`), that the share of a distance is rounded to at most one
(`ShareIsBelowOne`) and a part of the target's range to at most that range
(`PartIsBelowWhole`).
The premises are about calls that leave a part of a refused sample behind, which
the log does not have: `CanAgree` and `RangeFits` assume of the imputers that no
value is infinite, of `MeanImputer` also that none is larger than half the largest
number, and that no counter reaches its limit (`StreamFits`; the imputers have
learned from the features before the one that is refused). `RangeFits` assumes of `MinMaxScaler`
that the width of its target range is not rounded and the distance of no two of its
values infinite, and of
`OrdinalEncoder` that its codes are not rounded. The exact streams of the run satisfy all of it.

**Induction.** The model uses recursive functions in the definitions that these
proofs reason about. That such a function exists, and what it returns for a
longer argument, is proved by induction over the set of the numbers (or
sequences) for which the claim holds: `Induction` and `SequenceInduction` in
`ValueLemmas` follow from the least element of a set of numbers
(`SmallestOf`).

Assumptions: `ConstantsAssumption`, `ProfileAssumption`
(`ResourceProfileV1::validate` and the checks of
`StatefulRuntimeEngineV3::new`), `InputsAssumption` (types of inputs).
`ExportsAssumption` says that a runtime snapshot with a valid checksum was
exported by an engine; `StatefulRuntimeSnapshotV3::validate` itself would accept
a snapshot in which a decision is in both ledgers, and the theorems that need
the assumption are `LedgersStayDisjoint` and `NoPhantoms`. `HostAssumption` says
that states are staged and restored under the generation they were made at;
`LedgersMatch` uses it. `ServeAssumption` says that the acknowledgement
`feedbackApplied` is not the text of a handler's error and that the markers for
"no file" and "no request" are neither; `VotesAssumption`, `InputsAssumption` of
`Monitoring`, `LearningAssumption` and `SamplesAssumption` give the inputs of the
streams their types: `f64` is any number of the format, an infinity or NaN.
`FormatAssumption` describes the format (its digits and largest number, which no
count exceeds) and `NumbersAssumption` says that 1.0 and the largest number are
numbers of it. The assumptions of the library's modules say what
the constructors check (capacities and confirmation lengths are positive, a window
fits its counter, bounds are ordered, learning rates and epsilons are positive
numbers, there are finitely many arms) and what the tables are (`PValue` falls with
the distance, `Sigmoid` of a number is one).

Only model-checked:

* liveness (`AlwaysServesAgain`, `RequestsSettle`), which the prover cannot treat;
* `AgreesWithReference` for the accumulated sums (means, variances, weighted, decayed
  and rolling sums, losses, R2, the total of ADWIN), and `AgreesWithSamples` for the
  other kinds (Gaussian and multinomial models, StandardScaler and the mean of
  MeanImputer, frequencies, bandits, the totals of a replay): these compare with folds
  that take an operator as a parameter, about which the provers have no induction,
  and the sums agree only where nothing rounds;
* `MeansStayInRange` for rolling, weighted and decayed means, quantiles and the
  median deviation, and for the variance of streams that do not round (Popoviciu's
  inequality);
* `SavedStateIsAccepted` for the quantiles (the order of five markers), Page-Hinkley,
  ADWIN and the drift-aware model that contains one of them;
* `SavedModelIsAccepted` for the multinomial naive Bayes and the Thompson bandit (their
  validation allows a tolerance, which rounding over many samples can exceed), for the
  frequency encoder (an update that is refused at the largest total keeps the counts it
  has raised) and for LinUcbFast (an inverse that is updated in place need not keep
  the factor that is asked for);
* `SeenValuesStayInRange` for StandardScaler (a deviation is off by less than a tenth in
  the format of the run only), the one-hot encoder and frequencies (a fold over the code);
* `FastFollowsExact`, `PosteriorsFollowEvidence`, which bound what rounding does to an
  inverse matrix or a product of probabilities in the format of the run.

`LedgerMatchesState`, `NoSilentEviction` and the
refinement are neither checked nor proved for hosts that restore: restoring one
partition keeps the ledger of the state it replaces, and restoring the runtime
replaces all of it.

## 5. Not modelled, and what is left

Not modelled:

* RuntimeEngine v1 and v2 (stateless), packages, archives and trust stores
  (one-shot parsing and cryptography), the encoding of snapshots and messages,
  the Python, WebAssembly, Arrow, Polars and Tokio bindings (forwarding).
* The lock on the state path and the epoch ticker of the Wasmtime adapter: both
  are a second process or thread around code that is modelled, and the handler
  that never returns is excluded by assumption.
* The two reads of `last_error` in a Preview health answer are one step; a
  threaded composition of the engine would separate them.
* LearningRateScheduler (a constant per level), `model_health.rs` and the texts
  of diagnostics (formatting of given values), `bandit/stats.rs`, the
  distributions of random draws, the FTRL policy that refuses new features.

Left to prove, in this order:

1. the order of the five markers of a quantile;
2. `AgreesWithReference` for sums of inputs that do not round, once the folds of the
   reference definitions are recursive functions.
