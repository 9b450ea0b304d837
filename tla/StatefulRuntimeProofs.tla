----------------------- MODULE StatefulRuntimeProofs -----------------------
(***************************************************************************)
(* Machine-checked proofs about StatefulRuntime, for every value of its    *)
(* constants.                                                              *)
(***************************************************************************)
EXTENDS StatefulRuntime, FiniteSetTheorems, WellFoundedInduction, TLAPS

-----------------------------------------------------------------------------
(* Types of the operators on partitions.                                   *)

\* The partition a new namespace starts with is a partition.
LEMMA InitialPartitionType ==
    /\ \A g \in Generations : InitialSnapshot(g) \in Snapshot
    /\ InitialPartition \in Partition
    /\ EmptyLedger \in Ledger
<1>1. \A g \in Generations : InitialSnapshot(g) \in Snapshot
  BY ProfileAssumption DEF InitialSnapshot, Snapshot
<1>2. EmptyLedger \in Ledger
  BY DEF EmptyLedger, Ledger
<1>3. InitialGeneration \in Generations
  BY ConstantsAssumption
<1> QED
  BY <1>1, <1>2, <1>3 DEF InitialPartition, Partition

\* The map a request works on, and the partition it addresses.
LEMMA OpenedType ==
    ASSUME TypeOK, NEW r \in Request
    PROVE  /\ Opened(r) \in PartitionMap
           /\ Target(r) \in Partition
           /\ r.scope \in Scopes
<1>1. r.scope \in Scopes
  BY DEF Request
<1>2. partitions \in [Scopes -> Partition \cup {None}]
  BY DEF TypeOK, PartitionMap
<1>3. CASE r.scope \in Held(partitions)
  BY <1>1, <1>2, <1>3 DEF Opened, Target, Held, PartitionMap
<1>4. CASE r.scope \notin Held(partitions)
  BY <1>1, <1>2, <1>4, InitialPartitionType DEF Opened, Target, Held, PartitionMap
<1> QED
  BY <1>1, <1>3, <1>4

\* A request that fails once the handler is reached leaves the map as it was:
\* the namespace it created is gone again.
LEMMA AbandonedIsUnchanged ==
    ASSUME TypeOK, NEW r \in Request
    PROVE  Abandoned(r) = partitions
<1>1. r.scope \in Scopes
  BY DEF Request
<1>2. partitions \in [Scopes -> Partition \cup {None}]
  BY DEF TypeOK, PartitionMap
<1>3. CASE r.scope \in Held(partitions)
  BY <1>3 DEF Abandoned, Opened
<1>4. CASE r.scope \notin Held(partitions)
  <2>1. partitions[r.scope] = None
    BY <1>1, <1>2, <1>4 DEF Held
  <2>2. Abandoned(r) = [[partitions EXCEPT ![r.scope] = InitialPartition] EXCEPT ![r.scope] = None]
    BY <1>4 DEF Abandoned, Opened
  <2> QED
    BY <1>1, <1>2, <2>1, <2>2
<1> QED
  BY <1>3, <1>4

\* No early return that would leave a namespace behind is reached by a request
\* that created one: an empty ledger refuses nothing, because no limit is zero.
LEMMA FreshNamespaceIsNotRefused ==
    ASSUME TypeOK, NEW r \in Request,
           NamespaceRefusal(r) = "none", r.scope \notin Held(partitions)
    PROVE  RequestRefusal(r, Target(r)) = "none" /\ r.method \in {"decide", "observe"}
<1>1. r.method \in {"decide", "observe"} /\ r.gen = InitialGeneration
  BY DEF NamespaceRefusal
<1>2. Target(r) = InitialPartition
  BY DEF Target, Opened, TypeOK, PartitionMap, Request
<1>3. /\ InitialPartition.snapshot.gen = InitialGeneration
      /\ InitialPartition.pending = EmptyLedger
      /\ InitialPartition.completed = EmptyLedger
  BY DEF InitialPartition, InitialSnapshot
<1>4. Held(EmptyLedger) = {}
  BY DEF Held, EmptyLedger
<1>5. Cardinality({}) = 0
  BY FS_EmptySet
<1>6. ~(0 >= MaxPending) /\ ~(0 >= MaxCompleted)
  BY ProfileAssumption
<1>7. CASE r.method = "decide"
  <2>1. DecideRefusal(r, InitialPartition) = "none"
    <3>1. Held(InitialPartition.pending) = {} /\ Held(InitialPartition.completed) = {}
      BY <1>3, <1>4
    <3> QED
      BY <3>1, <1>5, <1>6 DEF DecideRefusal
  <2>2. RequestRefusal(r, InitialPartition) = DecideRefusal(r, InitialPartition)
    BY <1>1, <1>3, <1>7 DEF RequestRefusal
  <2> QED
    BY <1>2, <1>7, <2>1, <2>2
<1>8. CASE r.method = "observe"
  BY <1>1, <1>2, <1>3, <1>8 DEF RequestRefusal
<1> QED
  BY <1>1, <1>7, <1>8

\* The generation of the first namespace is a generation.
LEMMA CurrentGenerationType ==
    ASSUME TypeOK
    PROVE  CurrentGeneration \in Generations /\ FirstGeneration(partitions) \in Generations
<1>0. 0 \in Generations
  BY ConstantsAssumption DEF Generations
<1>1. CASE Held(partitions) = {}
  BY <1>0, <1>1 DEF FirstGeneration, CurrentGeneration
<1>2. CASE Held(partitions) # {}
  <2>1. Held(partitions) \subseteq Scopes
    BY DEF Held, TypeOK, PartitionMap
  <2>2. \E x \in Held(partitions) : \A y \in Held(partitions) : ~(<<y, x>> \in OpToRel(<, Nat))
    BY <1>2, <2>1, ConstantsAssumption, NatLessThanWellFounded, WFMin
  <2>3. \E x \in Held(partitions) : \A y \in Held(partitions) : x <= y
    <3>1. \A x, y \in Nat : ~(<<y, x>> \in OpToRel(<, Nat)) => x <= y
      BY DEF OpToRel
    <3>2. Held(partitions) \subseteq Nat
      BY <2>1, ConstantsAssumption
    <3> QED
      BY <2>2, <3>1, <3>2, Zenon
  <2> DEFINE first == CHOOSE k \in Held(partitions) : \A l \in Held(partitions) : k <= l
  <2>4. first \in Held(partitions)
    BY <2>3
  <2>5. partitions[first] \in Partition
    BY <2>4 DEF Held, TypeOK, PartitionMap
  <2>6. partitions[first].snapshot.gen \in Generations
    BY <2>5 DEF Partition, Snapshot
  <2>7. FirstGeneration(partitions) = partitions[first].snapshot.gen
    BY <1>2 DEF FirstGeneration
  <2> QED
    BY <1>0, <2>6, <2>7 DEF CurrentGeneration
<1> QED
  BY <1>1, <1>2

\* A feedback that reaches the handler addresses a pending decision, which has
\* not been completed and whose recorded action it repeats.
LEMMA FeedbackIsPending ==
    ASSUME NEW r \in Request, CallsHandler(r), r.method = "feedback"
    PROVE  /\ r.decision \in Held(Target(r).pending)
           /\ r.decision \notin Held(Target(r).completed)
           /\ ~(Cardinality(Held(Target(r).completed)) >= MaxCompleted)
<1>1. RequestRefusal(r, Target(r)) = "none"
  BY DEF CallsHandler, Admitted
<1>2. r.gen = Target(r).snapshot.gen
  BY <1>1 DEF RequestRefusal
<1>3. RequestRefusal(r, Target(r)) = FeedbackRefusal(r, Target(r))
  BY <1>2 DEF RequestRefusal
<1> QED
  BY <1>1, <1>3 DEF FeedbackRefusal

\* A decide that reaches the handler uses an id its namespace does not know,
\* and finds room in both ledgers.
LEMMA DecideIsNew ==
    ASSUME NEW r \in Request, CallsHandler(r), r.method = "decide"
    PROVE  /\ r.id \notin Held(Target(r).pending)
           /\ r.id \notin Held(Target(r).completed)
           /\ ~(Cardinality(Held(Target(r).pending)) >= MaxPending)
<1>1. RequestRefusal(r, Target(r)) = "none"
  BY DEF CallsHandler, Admitted
<1>2. r.gen = Target(r).snapshot.gen
  BY <1>1 DEF RequestRefusal
<1>3. RequestRefusal(r, Target(r)) = DecideRefusal(r, Target(r))
  BY <1>2 DEF RequestRefusal
<1> QED
  BY <1>1, <1>3 DEF DecideRefusal

\* What a decide records is an entry, whatever its features.
LEMMA NewEntryType ==
    ASSUME NEW r, NEW p, NEW out, p.snapshot.gen + 1 \in Generations,
           modelGeneration \in ModelGenerations, out.action \in Actions \cup {NoAction}
    PROVE  NewEntry(r, p, out) \in Entry
<1> DEFINE rounded == out.action \in r.rounded
<1>1. rounded \in BOOLEAN
  OBVIOUS
<1>2. NewEntry(r, p, out) = [modelGen |-> modelGeneration, gen |-> p.snapshot.gen + 1,
                             action |-> out.action, rounded |-> rounded]
  BY DEF NewEntry
<1>3. [modelGen |-> modelGeneration, gen |-> p.snapshot.gen + 1,
       action |-> out.action, rounded |-> rounded] \in Entry
  <2> HIDE DEF rounded
  <2> QED
    BY <1>1 DEF Entry
<1> QED
  BY <1>2, <1>3

\* The partition a handler call commits is a partition.
LEMMA AdvancedType ==
    ASSUME TypeOK, NEW r \in Request, NEW out \in HandlerResult, CallsHandler(r),
           Target(r).snapshot.gen # MaxGeneration
    PROVE  /\ Advanced(r, Target(r), out) \in Partition
           /\ Target(r).snapshot.gen + 1 \in Generations
<1> DEFINE p == Target(r)
<1>1. p \in Partition
  BY OpenedType
<1>2. p.snapshot \in Snapshot /\ p.snapshot.gen \in Generations
      /\ p.pending \in Ledger /\ p.completed \in Ledger
  BY <1>1 DEF Partition, Snapshot
<1>3. p.snapshot.gen + 1 \in Generations
  BY <1>2, ConstantsAssumption DEF Generations
<1>4. r.method = "feedback" => p.pending[r.decision] \in Entry
  BY <1>2, FeedbackIsPending DEF Held, Ledger, Request
<1>5. r.method = "feedback" => p.pending[r.decision].gen \in Generations
  BY <1>4 DEF Entry
<1>6. Learned(r, p) \subseteq Decisions
  BY <1>2, <1>5 DEF Learned, Snapshot, Decisions, Request
<1>7. NextPending(r, p, out) \in Ledger
  <2>1. r.id \in Ids /\ out.action \in Actions \cup {NoAction} /\ r.decision \in Ids
    BY DEF Request, HandlerResult
  <2>2. modelGeneration \in ModelGenerations
    BY DEF TypeOK
  <2>3. NewEntry(r, p, out) \in Entry
    BY <1>3, <2>1, <2>2, NewEntryType
  <2>4. CASE r.method = "decide"
    <3>1. NextPending(r, p, out) = [p.pending EXCEPT ![r.id] = NewEntry(r, p, out)]
      BY <2>4 DEF NextPending
    <3> HIDE DEF p
    <3> QED
      BY <1>2, <2>1, <2>3, <3>1 DEF Ledger
  <2>5. CASE r.method = "feedback"
    <3>1. NextPending(r, p, out) = [p.pending EXCEPT ![r.decision] = None]
      BY <2>5 DEF NextPending
    <3> HIDE DEF p
    <3> QED
      BY <1>2, <2>1, <3>1 DEF Ledger
  <2>6. CASE r.method \notin {"decide", "feedback"}
    BY <1>2, <2>6 DEF NextPending
  <2> QED
    BY <2>4, <2>5, <2>6
<1>8. NextCompleted(r, p) \in Ledger
  <2>1. CASE r.method = "feedback"
    <3>1. r.action \in Actions /\ r.decision \in Ids
      BY DEF Request
    <3>2. [p.pending[r.decision] EXCEPT !.action = r.action] \in Entry
      BY <1>4, <2>1, <3>1 DEF Entry
    <3>3. NextCompleted(r, p) =
            [p.completed EXCEPT ![r.decision] = [p.pending[r.decision] EXCEPT !.action = r.action]]
      BY <2>1 DEF NextCompleted
    <3> HIDE DEF p
    <3> QED
      BY <1>2, <3>1, <3>2, <3>3 DEF Ledger
  <2>2. CASE r.method # "feedback"
    BY <1>2, <2>2 DEF NextCompleted
  <2> QED
    BY <2>1, <2>2
<1>9. [gen |-> p.snapshot.gen + 1, bytes |-> out.bytes,
       intact |-> out.intact, learned |-> Learned(r, p)] \in Snapshot
  BY <1>3, <1>6 DEF Snapshot, HandlerResult
<1> HIDE DEF p
<1>10. Advanced(r, p, out) \in Partition
  BY <1>1, <1>2, <1>7, <1>8, <1>9 DEF Advanced, Partition
<1> QED
  BY <1>3, <1>10 DEF p

\* Every refusal is one of the engine's errors.
LEMMA RefusalTypes ==
    ASSUME NEW r \in Request, NEW p, NEW out \in HandlerResult
    PROVE  /\ EnvelopeRefusal(r) \in EngineErrors \cup {"none"}
           /\ NamespaceRefusal(r) \in EngineErrors \cup {"none"}
           /\ RequestRefusal(r, p) \in EngineErrors \cup {"none"}
           /\ ResultRefusal(r, p, out) \in EngineErrors \cup {"none"}
<1>1. EnvelopeRefusal(r) \in EngineErrors \cup {"none"}
  BY DEF EnvelopeRefusal, EngineErrors, Request
<1>2. NamespaceRefusal(r) \in EngineErrors \cup {"none"}
  BY DEF NamespaceRefusal, EngineErrors
<1>3. DecideRefusal(r, p) \in EngineErrors \cup {"none"}
  BY DEF DecideRefusal, EngineErrors
<1>4. FeedbackRefusal(r, p) \in EngineErrors \cup {"none"}
  BY DEF FeedbackRefusal, EngineErrors
<1>5. ResetRefusal(r, p) \in EngineErrors \cup {"none"}
  BY DEF ResetRefusal, EngineErrors
<1>6. RequestRefusal(r, p) \in EngineErrors \cup {"none"}
  <2>1. "stateGenerationMismatch" \in EngineErrors
    BY DEF EngineErrors
  <2>2. RequestRefusal(r, p) \in {"stateGenerationMismatch", DecideRefusal(r, p),
                                  FeedbackRefusal(r, p), ResetRefusal(r, p), "none"}
    BY DEF RequestRefusal
  <2> QED
    BY <1>3, <1>4, <1>5, <2>1, <2>2
<1>7. ResultRefusal(r, p, out) \in EngineErrors \cup {"none"}
  BY DEF ResultRefusal, EngineErrors, HandlerResult
<1> QED
  BY <1>1, <1>2, <1>6, <1>7

\* An operation that answers with a snapshot or a reset addresses a namespace
\* that exists, and so does every early return of a refused request.
LEMMA NothingOpened ==
    ASSUME TypeOK, NEW r \in Request, NamespaceRefusal(r) = "none",
           RequestRefusal(r, Target(r)) # "none" \/ r.method \notin {"decide", "observe"}
    PROVE  /\ r.scope \in Held(partitions)
           /\ Opened(r) = partitions
           /\ Target(r) = partitions[r.scope]
<1>1. r.scope \in Held(partitions)
  BY FreshNamespaceIsNotRefused
<1> QED
  BY <1>1 DEF Opened, Target

\* What an admitted reset has checked.
LEMMA ResetIsChecked ==
    ASSUME TypeOK, NEW r \in Request, r.method = "reset", Admitted(r)
    PROVE  /\ r.scope \in Held(partitions)
           /\ Target(r) = partitions[r.scope]
           /\ Target(r).snapshot.gen # MaxGeneration
           /\ WithinLimits([partitions EXCEPT ![r.scope] = ResetPartition(Target(r))])
<1>1. NamespaceRefusal(r) = "none" /\ RequestRefusal(r, Target(r)) = "none"
  BY DEF Admitted
<1>2. r.gen = Target(r).snapshot.gen
  BY <1>1 DEF RequestRefusal
<1>3. RequestRefusal(r, Target(r)) = ResetRefusal(r, Target(r))
  BY <1>2 DEF RequestRefusal
<1>4. ResetRefusal(r, Target(r)) = "none"
  BY <1>1, <1>3
<1>5. /\ Target(r).snapshot.gen # MaxGeneration
      /\ WithinLimits([partitions EXCEPT ![r.scope] = ResetPartition(Target(r))])
  BY <1>4 DEF ResetRefusal
<1>6. r.scope \in Held(partitions) /\ Target(r) = partitions[r.scope]
  BY <1>1, NothingOpened
<1> QED
  BY <1>5, <1>6

\* What a committed result has passed.
LEMMA ResultIsChecked ==
    ASSUME NEW r, NEW p, NEW out \in HandlerResult, ResultRefusal(r, p, out) = "none"
    PROVE  /\ out.intact
           /\ ~(out.bytes > MaxModelBytes)
           /\ p.snapshot.gen # MaxGeneration
           /\ WithinLimits([Opened(r) EXCEPT ![r.scope] = Advanced(r, p, out)])
<1>1. out.output # "none"
  BY DEF HandlerResult
<1> QED
  BY <1>1 DEF ResultRefusal

\* A reset starts a new generation of its partition.
LEMMA ResetType ==
    ASSUME NEW p \in Partition, p.snapshot.gen # MaxGeneration
    PROVE  ResetPartition(p) \in Partition /\ p.snapshot.gen + 1 \in Generations
<1>1. p.snapshot.gen \in Generations
  BY DEF Partition, Snapshot
<1>2. p.snapshot.gen + 1 \in Generations
  BY <1>1, ConstantsAssumption DEF Generations
<1>3. InitialSnapshot(p.snapshot.gen + 1) \in Snapshot
  BY <1>2, InitialPartitionType
<1> QED
  BY <1>2, <1>3, InitialPartitionType DEF ResetPartition, Partition

\* The partition a host call starts from.
LEMMA PartitionAtType ==
    ASSUME TypeOK, NEW k \in Scopes
    PROVE  PartitionAt(k) \in Partition
BY InitialPartitionType DEF PartitionAt, Held, TypeOK, PartitionMap

-----------------------------------------------------------------------------
(* Type correctness.                                                       *)

\* What a request answers with is a reply.
LEMMA ReplyType ==
    ASSUME NEW kind \in Errors \cup Answers, NEW g \in Generations, Responds(kind, g)
    PROVE  reply' \in Reply
BY DEF Responds, Reply

\* Requests keep the types.
LEMMA HandleKeepsTypes ==
    ASSUME TypeOK, NEW r \in Requests, Handle(r)
    PROVE  TypeOK'
<1> DEFINE p == Target(r)
<1>0. r \in Request
  BY InputsAssumption
<1>1. /\ Opened(r) \in PartitionMap /\ p \in Partition /\ r.scope \in Scopes
      /\ Abandoned(r) = partitions
  BY <1>0, OpenedType, AbandonedIsUnchanged
<1>2. p.snapshot.gen \in Generations
  BY <1>1 DEF Partition, Snapshot
<1>3. CurrentGeneration \in Generations /\ FirstGeneration(partitions) \in Generations
      /\ 0 \in Generations
  BY CurrentGenerationType, ConstantsAssumption DEF Generations
<1>4. /\ EngineErrors \subseteq Errors \cup Answers
      /\ HandlerErrors \subseteq Errors \cup Answers
      /\ Answers \subseteq Errors \cup Answers
  BY DEF Errors
<1>5. /\ \A m \in PartitionMap : Keeps(m) /\ reply' \in Reply => TypeOK'
      /\ partitions \in PartitionMap
  BY DEF Keeps, TypeOK
<1> HIDE DEF p
<1>6. CASE RefuseEnvelope(r)
  <2>1. EnvelopeRefusal(r) \in EngineErrors
    BY <1>0, <1>6, RefusalTypes, InputsAssumption DEF RefuseEnvelope, EnvelopeRefusal, Request, EngineErrors
  <2> QED
    BY <1>3, <1>4, <1>5, <1>6, <2>1, ReplyType DEF RefuseEnvelope
<1>7. CASE AnswerHandshake(r)
  <2>1. "handshake" \in Answers
    BY DEF Answers
  <2> QED
    BY <1>3, <1>4, <1>5, <1>7, <2>1, ReplyType DEF AnswerHandshake
<1>8. CASE AnswerHealth(r)
  <2>1. reply' \in Reply
    BY <1>3, <1>8 DEF AnswerHealth, Reply, Answers
  <2> QED
    BY <1>5, <1>8, <2>1 DEF AnswerHealth
<1>9. CASE RefusePoisoned(r)
  <2>1. "lockPoisoned" \in EngineErrors
    BY DEF EngineErrors
  <2> QED
    BY <1>3, <1>4, <1>5, <1>9, <2>1, ReplyType DEF RefusePoisoned
<1>10. CASE RefuseNamespace(r)
  <2>1. NamespaceRefusal(r) \in EngineErrors
    BY <1>10 DEF RefuseNamespace, NamespaceRefusal, EngineErrors
  <2> QED
    BY <1>3, <1>4, <1>5, <1>10, <2>1, ReplyType DEF RefuseNamespace
<1>11. CASE RefuseRequest(r)
  <2>1. RequestRefusal(r, p) \in EngineErrors \cup {"none"}
    <3>1. \A out \in HandlerResult : RequestRefusal(r, p) \in EngineErrors \cup {"none"}
      BY <1>0, RefusalTypes
    <3>2. [bytes |-> 0, intact |-> TRUE, action |-> NoAction, output |-> "valid"] \in HandlerResult
      BY DEF HandlerResult
    <3> QED
      BY <3>1, <3>2
  <2>2. RequestRefusal(r, p) \in EngineErrors
    BY <1>11, <2>1 DEF RefuseRequest, p
  <2> QED
    BY <1>1, <1>2, <1>4, <1>5, <1>11, <2>2, ReplyType DEF RefuseRequest, p
<1>12. CASE AnswerSnapshot(r)
  <2>1. "snapshot" \in Answers
    BY DEF Answers
  <2> QED
    BY <1>1, <1>2, <1>4, <1>5, <1>12, <2>1, ReplyType DEF AnswerSnapshot, p
<1>13. CASE Reset(r)
  <2>1. p.snapshot.gen # MaxGeneration
    BY <1>0, <1>13, ResetIsChecked DEF Reset, p
  <2>2. ResetPartition(p) \in Partition /\ p.snapshot.gen + 1 \in Generations
    BY <1>1, <2>1, ResetType
  <2>3. [partitions EXCEPT ![r.scope] = ResetPartition(p)] \in PartitionMap
    BY <1>1, <2>2 DEF TypeOK, PartitionMap
  <2>4. "reset" \in Answers
    BY DEF Answers
  <2> QED
    BY <1>4, <1>5, <1>13, <2>2, <2>3, <2>4, ReplyType DEF Reset, p
<1>14. CASE RefuseEvent(r)
  <2>1. "eventTooLarge" \in EngineErrors
    BY DEF EngineErrors
  <2> QED
    BY <1>1, <1>2, <1>4, <1>5, <1>14, <2>1, ReplyType DEF RefuseEvent, p
<1>15. CASE HandlerPanics(r)
  BY <1>1, <1>15 DEF HandlerPanics, TypeOK
<1>16. ASSUME NEW error \in HandlerErrors, HandlerFails(r, error)
       PROVE  TypeOK'
  <2>1. reply' \in Reply
    BY <1>2, <1>4, <1>16, ReplyType DEF HandlerFails, p
  <2> QED
    BY <1>1, <1>16, <2>1 DEF HandlerFails, TypeOK
<1>17. ASSUME NEW out \in HandlerResults, RefuseResult(r, out)
       PROVE  TypeOK'
  <2>1. out \in HandlerResult
    BY InputsAssumption
  <2>2. ResultRefusal(r, p, out) \in EngineErrors
    BY <1>0, <1>17, <2>1, RefusalTypes DEF RefuseResult, p
  <2> QED
    BY <1>1, <1>2, <1>4, <1>5, <1>17, <2>2, ReplyType DEF RefuseResult, p
<1>18. ASSUME NEW out \in HandlerResults, Commit(r, out)
       PROVE  TypeOK'
  <2>1. out \in HandlerResult
    BY InputsAssumption
  <2>2. p.snapshot.gen # MaxGeneration
    BY <1>18, <2>1, ResultIsChecked DEF Commit, p
  <2>3. Advanced(r, p, out) \in Partition /\ p.snapshot.gen + 1 \in Generations
    BY <1>0, <1>18, <2>1, <2>2, AdvancedType DEF Commit, p
  <2>4. [Opened(r) EXCEPT ![r.scope] = Advanced(r, p, out)] \in PartitionMap
    BY <1>1, <2>3 DEF PartitionMap
  <2>5. reply' \in Reply
    <3>1. CASE r.method = "inspect"
      BY <1>18, <2>3, <3>1 DEF Commit, Reply, Answers, p
    <3>2. CASE r.method # "inspect"
      <4>1. "result" \in Answers
        BY DEF Answers
      <4> QED
        BY <1>4, <1>18, <2>3, <3>2, <4>1, ReplyType DEF Commit, p
    <3> QED
      BY <3>1, <3>2
  <2> QED
    BY <1>5, <1>18, <2>4, <2>5 DEF Commit, p
<1> QED
  BY <1>6, <1>7, <1>8, <1>9, <1>10, <1>11, <1>12, <1>13, <1>14, <1>15, <1>16, <1>17, <1>18
     DEF Handle

\* The host's calls keep the types.
LEMMA HostCallsKeepTypes ==
    ASSUME TypeOK, Lifecycle \/ Restore \/ HostCallRejected
    PROVE  TypeOK'
<1>1. "hostCallDone" \in Errors \cup Answers /\ "hostCallRejected" \in Errors \cup Answers
  BY DEF Errors, EngineErrors, Answers
<1>2. 0 \in Generations
  BY ConstantsAssumption DEF Generations
<1>3. CountsRestart => restartCount' \in 0 .. MaxRestarts
  BY ConstantsAssumption DEF CountsRestart, TypeOK
<1>4. ASSUME NEW m \in PartitionMap, Installs(m), reply' \in Reply,
             restartCount' \in 0 .. MaxRestarts
      PROVE  TypeOK'
  BY <1>4 DEF Installs, TypeOK
<1>5. ASSUME NEW k \in Scopes, k \in Held(partitions)
      PROVE  /\ partitions[k] \in Partition
             /\ partitions[k].snapshot \in Snapshot
             /\ partitions[k].candidate # None =>
                  partitions[k].candidate \in Snapshot /\ partitions[k].candidate.gen \in Generations
             /\ partitions[k].previousGood # None =>
                  partitions[k].previousGood \in Snapshot
                  /\ partitions[k].previousGood.gen \in Generations
  <2>1. partitions[k] \in Partition
    BY <1>5 DEF Held, TypeOK, PartitionMap
  <2> QED
    BY <2>1 DEF Partition, Snapshot
<1>6. ASSUME NEW k \in Scopes, NEW p \in Partition
      PROVE  [partitions EXCEPT ![k] = p] \in PartitionMap
  BY DEF TypeOK, PartitionMap
<1>7. EmptyLedger \in Ledger
  BY InitialPartitionType
<1>8. CASE HostCallRejected
  BY <1>1, <1>2, <1>8, ReplyType DEF HostCallRejected, Keeps, TypeOK
<1>9. ASSUME NEW k \in Scopes, PromoteCandidate(k)
      PROVE  TypeOK'
  <2>1. k \in Held(partitions) /\ partitions[k].candidate # None
    BY <1>9 DEF PromoteCandidate
  <2> DEFINE q == [partitions[k] EXCEPT !.snapshot = partitions[k].candidate,
                     !.previousGood = partitions[k].snapshot, !.candidate = None,
                     !.pending = EmptyLedger, !.completed = EmptyLedger]
  <2>2. q \in Partition
    BY <1>5, <1>7, <2>1 DEF Partition
  <2>3. Installs([partitions EXCEPT ![k] = q])
    BY <1>9 DEF PromoteCandidate
  <2>4. reply' \in Reply /\ restartCount' \in 0 .. MaxRestarts
    BY <1>1, <1>5, <1>9, <2>1, ReplyType DEF PromoteCandidate, TypeOK
  <2> HIDE DEF q
  <2> QED
    BY <1>4, <1>6, <2>2, <2>3, <2>4
<1>10. ASSUME NEW k \in Scopes, RollbackPreviousGood(k)
       PROVE  TypeOK'
  <2>1. k \in Held(partitions) /\ partitions[k].previousGood # None
    BY <1>10 DEF RollbackPreviousGood
  <2> DEFINE q == [partitions[k] EXCEPT !.snapshot = partitions[k].previousGood,
                     !.previousGood = partitions[k].snapshot, !.candidate = None,
                     !.pending = EmptyLedger, !.completed = EmptyLedger]
  <2>2. q \in Partition
    BY <1>5, <1>7, <2>1 DEF Partition
  <2>3. Installs([partitions EXCEPT ![k] = q])
    BY <1>10 DEF RollbackPreviousGood
  <2>4. reply' \in Reply /\ restartCount' \in 0 .. MaxRestarts
    BY <1>1, <1>5, <1>10, <2>1, ReplyType DEF RollbackPreviousGood, TypeOK
  <2> HIDE DEF q
  <2> QED
    BY <1>4, <1>6, <2>2, <2>3, <2>4
<1>11. ASSUME NEW k \in Scopes, NEW s \in HostSnapshots, StageCandidate(k, s)
       PROVE  TypeOK'
  <2>1. [PartitionAt(k) EXCEPT !.candidate = s] \in Partition
    BY PartitionAtType, InputsAssumption DEF Partition
  <2>2. reply' \in Reply /\ restartCount' \in 0 .. MaxRestarts
    BY <1>1, <1>2, <1>11, ReplyType DEF StageCandidate, TypeOK
  <2> QED
    BY <1>4, <1>6, <1>11, <2>1, <2>2 DEF StageCandidate
<1>12. ASSUME NEW k \in Scopes, NEW s \in Snapshot, RestorePartition(k, s)
       PROVE  TypeOK'
  <2> DEFINE q == [PartitionAt(k) EXCEPT !.previousGood = PartitionAt(k).snapshot,
                                         !.snapshot = s]
  <2>1. q \in Partition
    BY PartitionAtType DEF Partition
  <2>2. reply' \in Reply /\ restartCount' \in 0 .. MaxRestarts
    BY <1>1, <1>2, <1>3, <1>12, ReplyType DEF RestorePartition
  <2>3. Installs([partitions EXCEPT ![k] = q])
    BY <1>12 DEF RestorePartition
  <2> HIDE DEF q
  <2> QED
    BY <1>4, <1>6, <2>1, <2>2, <2>3
<1>13. ASSUME NEW k \in Scopes, NEW s \in HostSnapshots, NEW migrated \in HostSnapshots,
              RestoreWithMigration(k, s, migrated)
       PROVE  TypeOK'
  <2>1. [migrated EXCEPT !.gen = s.gen] \in Snapshot
    BY InputsAssumption DEF Snapshot
  <2> QED
    BY <1>12, <1>13, <2>1 DEF RestoreWithMigration
<1>14. ASSUME NEW snapshot \in RuntimeSnapshots, RestoreRuntime(snapshot)
       PROVE  TypeOK'
  <2>1. snapshot.partitions \in PartitionMap
    BY InputsAssumption
  <2>2. reply' \in Reply /\ restartCount' \in 0 .. MaxRestarts
    BY <1>1, <1>2, <1>3, <1>14, ReplyType DEF RestoreRuntime
  <2> QED
    BY <1>4, <1>14, <2>1, <2>2 DEF RestoreRuntime
<1> QED
  BY <1>8, <1>9, <1>10, <1>11, <1>12, <1>13, <1>14, InputsAssumption DEF Lifecycle, Restore

\* An engine starts well typed.
LEMMA InitTypes == Init => TypeOK
<1> SUFFICES ASSUME Init PROVE TypeOK
  OBVIOUS
<1>1. partitions \in PartitionMap
  BY DEF Init, PartitionMap
<1>2. reply \in Reply
  BY ConstantsAssumption DEF Init, Reply, Generations, Answers
<1>3. poisoned \in BOOLEAN
  BY Zenon DEF Init
<1>4. restartCount \in 0 .. MaxRestarts
  BY ConstantsAssumption DEF Init
<1>5. lastError \in HandlerErrors \cup {NoError} /\ modelGeneration \in ModelGenerations
  BY DEF Init
<1> QED
  BY <1>1, <1>2, <1>3, <1>4, <1>5 DEF TypeOK

\* A step that changes none of the engine's variables keeps the types.
LEMMA StutterKeepsTypes ==
    ASSUME TypeOK, UNCHANGED vars
    PROVE  TypeOK'
BY DEF vars, TypeOK

\* Every step of an engine, a host's restores included, keeps the types.
LEMMA NextKeepsTypes == TypeOK /\ [Next]_vars => TypeOK'
BY HandleKeepsTypes, HostCallsKeepTypes, StutterKeepsTypes DEF Next, Serve

\* The variables of the engine stay in the ranges of the code's types, whatever
\* the profile, the clients, the handler and the host do.
THEOREM TypeCorrect == Spec => []TypeOK
<1> QED
  BY InitTypes, NextKeepsTypes, PTL DEF Spec

\* An engine whose host never restores is an engine.
LEMMA ServingIsSpec == ServingSpec => Spec
<1>1. [Serve]_vars => [Next]_vars
  BY DEF Next
<1> QED
  BY <1>1, PTL DEF ServingSpec, Spec

-----------------------------------------------------------------------------
(* What a request can do to the namespaces.                                *)

\* A request leaves every namespace as it was, unless its handler panics, it
\* is a reset, or it commits a result.
LEMMA HandleCases ==
    ASSUME TypeOK, NEW r \in Requests, Handle(r)
    PROVE  \/ partitions' = partitions /\ UNCHANGED <<poisoned, modelGeneration>>
           \/ HandlerPanics(r)
           \/ Reset(r)
           \/ \E out \in HandlerResults : Commit(r, out)
<1>0. r \in Request /\ Abandoned(r) = partitions
  BY AbandonedIsUnchanged, InputsAssumption
<1>1. CASE \/ RefuseEnvelope(r) \/ AnswerHandshake(r) \/ AnswerHealth(r)
           \/ RefusePoisoned(r) \/ RefuseNamespace(r)
  BY <1>1 DEF RefuseEnvelope, AnswerHandshake, AnswerHealth, RefusePoisoned, RefuseNamespace, Keeps
<1>2. CASE RefuseRequest(r)
  <2>1. Opened(r) = partitions
    BY <1>0, <1>2, NothingOpened DEF RefuseRequest
  <2> QED
    BY <1>2, <2>1 DEF RefuseRequest, Keeps
<1>3. CASE AnswerSnapshot(r)
  <2>1. Opened(r) = partitions
    BY <1>0, <1>3, NothingOpened DEF AnswerSnapshot, Admitted
  <2> QED
    BY <1>3, <2>1 DEF AnswerSnapshot, Keeps
<1>4. CASE \/ RefuseEvent(r)
           \/ \E error \in HandlerErrors : HandlerFails(r, error)
           \/ \E out \in HandlerResults : RefuseResult(r, out)
  BY <1>0, <1>4 DEF RefuseEvent, HandlerFails, RefuseResult, Keeps
<1> QED
  BY <1>1, <1>2, <1>3, <1>4 DEF Handle

\* A host call that has an effect never answers with an error.
LEMMA HostCallReplies == Lifecycle \/ Restore => reply'.kind = "hostCallDone"
<1>1. \A g : Responds("hostCallDone", g) => reply'.kind = "hostCallDone"
  BY DEF Responds
<1>2. ASSUME NEW k, PromoteCandidate(k) PROVE reply'.kind = "hostCallDone"
  BY <1>1, <1>2 DEF PromoteCandidate
<1>3. ASSUME NEW k, RollbackPreviousGood(k) PROVE reply'.kind = "hostCallDone"
  BY <1>1, <1>3 DEF RollbackPreviousGood
<1>4. ASSUME NEW k, NEW s, StageCandidate(k, s) PROVE reply'.kind = "hostCallDone"
  BY <1>1, <1>4 DEF StageCandidate
<1>5. ASSUME NEW k, NEW s, RestorePartition(k, s) PROVE reply'.kind = "hostCallDone"
  BY <1>1, <1>5 DEF RestorePartition
<1>6. ASSUME NEW k, NEW s, NEW m, RestoreWithMigration(k, s, m)
      PROVE  reply'.kind = "hostCallDone"
  BY <1>5, <1>6 DEF RestoreWithMigration
<1>7. ASSUME NEW export, RestoreRuntime(export) PROVE reply'.kind = "hostCallDone"
  BY <1>1, <1>7 DEF RestoreRuntime
<1> QED
  BY <1>2, <1>3, <1>4, <1>5, <1>6, <1>7 DEF Lifecycle, Restore

\* "The request remains side-effect free": however a request fails, with the
\* namespace it created or without, every namespace is left as it was.
THEOREM FailureChangesNothing == Spec => FailedRequestChangesNothing
<1>1. ASSUME TypeOK, [Next]_vars, reply'.kind \in Errors, poisoned' = poisoned
      PROVE  partitions' = partitions
  <2>1. Answers \cap Errors = {}
    BY ConstantsAssumption DEF Errors
  <2>2. /\ "reset" \in Answers /\ "result" \in Answers /\ "inspection" \in Answers
        /\ "hostCallDone" \in Answers
    BY DEF Answers
  <2>3. ASSUME NEW r \in Requests, Handle(r)
        PROVE  partitions' = partitions
    <3>1. ~HandlerPanics(r)
      BY <1>1 DEF HandlerPanics, CallsHandler, Admitted, Entered
    <3>2. ~Reset(r)
      BY <1>1, <2>1, <2>2 DEF Reset, Responds
    <3>3. \A out \in HandlerResults : ~Commit(r, out)
      BY <1>1, <2>1, <2>2 DEF Commit, Responds
    <3> QED
      BY <1>1, <2>3, <3>1, <3>2, <3>3, HandleCases
  <2>4. ~Lifecycle /\ ~Restore
    BY <1>1, <2>1, <2>2, HostCallReplies
  <2>5. HostCallRejected => partitions' = partitions
    BY DEF HostCallRejected, Keeps
  <2>6. UNCHANGED vars => partitions' = partitions
    BY DEF vars
  <2> QED
    BY <1>1, <2>3, <2>4, <2>5, <2>6 DEF Next, Serve
<1>2. TypeOK /\ [Next]_vars =>
        [reply'.kind \in Errors /\ poisoned' = poisoned => partitions' = partitions]_vars
  BY <1>1
<1> QED
  BY <1>2, TypeCorrect, PTL DEF Spec, FailedRequestChangesNothing

-----------------------------------------------------------------------------
(* Ledgers.                                                                *)

\* Adding an entry to a ledger, or changing one.
LEMMA HeldWith ==
    ASSUME NEW f \in Ledger, NEW x \in Ids, NEW v, v # None
    PROVE  Held([f EXCEPT ![x] = v]) = Held(f) \cup {x}
BY DEF Held, Ledger

\* Removing an entry from a ledger.
LEMMA HeldWithout ==
    ASSUME NEW f \in Ledger, NEW x \in Ids
    PROVE  Held([f EXCEPT ![x] = None]) = Held(f) \ {x}
BY DEF Held, Ledger

\* A decision that is pending or completed has an entry, and None is not one.
LEMMA EntryIsHeld == None \notin Entry /\ None \notin Snapshot /\ None \notin Partition
BY ConstantsAssumption

\* What a committed result does to the ledgers of its namespace: a decide adds
\* its own id to the pending ones, a feedback moves one id, and nothing else
\* changes them.
LEMMA AdvancedLedgers ==
    ASSUME TypeOK, NEW r \in Request, NEW out \in HandlerResult, CallsHandler(r),
           Target(r).snapshot.gen # MaxGeneration
    PROVE  LET p == Target(r)
               q == Advanced(r, p, out)
           IN  /\ Held(q.pending) = IF r.method = "decide" THEN Held(p.pending) \cup {r.id}
                                    ELSE IF r.method = "feedback" THEN Held(p.pending) \ {r.decision}
                                    ELSE Held(p.pending)
               /\ Held(q.completed) = IF r.method = "feedback"
                                      THEN Held(p.completed) \cup {r.decision}
                                      ELSE Held(p.completed)
<1> DEFINE p == Target(r)
<1> DEFINE q == Advanced(r, p, out)
<1>1. p \in Partition
  BY OpenedType
<1>2. p.pending \in Ledger /\ p.completed \in Ledger
  BY <1>1 DEF Partition
<1>3. q.pending = NextPending(r, p, out) /\ q.completed = NextCompleted(r, p)
  <2> HIDE DEF p
  <2> QED
    BY <1>1 DEF Advanced, Partition
<1>4. r.id \in Ids /\ r.decision \in Ids
  BY DEF Request
<1>5. CASE r.method = "decide"
  <2> DEFINE e == NewEntry(r, p, out)
  <2>1. e # None
    <3>1. p.snapshot.gen + 1 \in Generations
      BY <1>1, ConstantsAssumption DEF Partition, Snapshot, Generations
    <3>2. e \in Entry
      BY <3>1, NewEntryType DEF TypeOK, HandlerResult
    <3> QED
      BY <3>2, EntryIsHeld
  <2>2. q.pending = [p.pending EXCEPT ![r.id] = e]
    BY <1>3, <1>5 DEF NextPending
  <2>3. q.completed = p.completed
    BY <1>3, <1>5 DEF NextCompleted
  <2> HIDE DEF p, q, e
  <2>4. Held([p.pending EXCEPT ![r.id] = e]) = Held(p.pending) \cup {r.id}
    BY <1>2, <1>4, <2>1, HeldWith, Zenon
  <2>5. Held(q.pending) = Held(p.pending) \cup {r.id}
    BY <2>2, <2>4, Zenon
  <2> QED
    BY <1>5, <2>3, <2>5 DEF p, q
<1>6. CASE r.method = "feedback"
  <2> DEFINE e == [p.pending[r.decision] EXCEPT !.action = r.action]
  <2>1. e # None
    <3>1. p.pending[r.decision] \in Entry
      BY <1>2, <1>4, <1>6, FeedbackIsPending DEF Held, Ledger
    <3>2. e \in Entry
      <4> HIDE DEF p
      <4> QED
        BY <3>1 DEF Entry, Request
    <3> QED
      BY <3>2, EntryIsHeld
  <2>2. q.pending = [p.pending EXCEPT ![r.decision] = None]
    BY <1>3, <1>6 DEF NextPending
  <2>3. q.completed = [p.completed EXCEPT ![r.decision] = e]
    BY <1>3, <1>6 DEF NextCompleted
  <2> HIDE DEF p, q, e
  <2>4. Held(q.pending) = Held(p.pending) \ {r.decision}
    BY <1>2, <1>4, <2>2, HeldWithout
  <2>5. Held(q.completed) = Held(p.completed) \cup {r.decision}
    BY <1>2, <1>4, <2>1, <2>3, HeldWith
  <2> QED
    BY <1>6, <2>4, <2>5 DEF p, q
<1>7. CASE r.method \notin {"decide", "feedback"}
  <2>1. q.pending = p.pending /\ q.completed = p.completed
    BY <1>3, <1>7 DEF NextPending, NextCompleted
  <2> QED
    BY <1>7, <2>1
<1> QED
  BY <1>5, <1>6, <1>7

-----------------------------------------------------------------------------
(* What a step makes of one partition.                                     *)

\* Replacing one partition leaves the others alone.
LEMMA Replaced ==
    ASSUME NEW m \in PartitionMap, NEW l \in Scopes, NEW q,
           NEW k \in Held([m EXCEPT ![l] = q])
    PROVE  \/ k = l /\ [m EXCEPT ![l] = q][k] = q
           \/ k # l /\ k \in Held(m) /\ [m EXCEPT ![l] = q][k] = m[k]
BY DEF Held, PartitionMap

\* The namespaces of the map a request works on: those the engine held, and the
\* one it may have created.
LEMMA OpenedPartitions ==
    ASSUME TypeOK, NEW r \in Request, NEW k \in Held(Opened(r))
    PROVE  \/ k \in Held(partitions) /\ Opened(r)[k] = partitions[k]
           \/ k \notin Held(partitions) /\ Opened(r)[k] = InitialPartition
<1>1. partitions \in PartitionMap /\ r.scope \in Scopes
  BY DEF TypeOK, Request
<1>2. CASE r.scope \in Held(partitions)
  BY <1>2 DEF Opened
<1>3. CASE r.scope \notin Held(partitions)
  <2>1. Opened(r) = [partitions EXCEPT ![r.scope] = InitialPartition]
    BY <1>3 DEF Opened
  <2>2. k \in Held([partitions EXCEPT ![r.scope] = InitialPartition])
    BY <2>1
  <2>3. \/ k = r.scope /\ [partitions EXCEPT ![r.scope] = InitialPartition][k] = InitialPartition
        \/ /\ k \in Held(partitions)
           /\ [partitions EXCEPT ![r.scope] = InitialPartition][k] = partitions[k]
    BY <1>1, <2>2, Replaced
  <2> QED
    BY <1>3, <2>1, <2>3
<1> QED
  BY <1>2, <1>3

\* The same for the partition a request addresses or a host call starts from.
LEMMA TargetPartition ==
    ASSUME TypeOK, NEW r \in Request
    PROVE  \/ r.scope \in Held(partitions) /\ Target(r) = partitions[r.scope]
           \/ r.scope \notin Held(partitions) /\ Target(r) = InitialPartition
BY DEF Target, Opened, TypeOK, PartitionMap, Request, Held

\* The fields a commit gives a partition.
LEMMA AdvancedFields ==
    ASSUME TypeOK, NEW r \in Request, NEW out
    PROVE  LET p == Target(r)
               q == Advanced(r, p, out)
           IN  /\ q.snapshot = [gen |-> p.snapshot.gen + 1, bytes |-> out.bytes,
                                intact |-> out.intact, learned |-> Learned(r, p)]
               /\ q.previousGood = p.snapshot
               /\ q.candidate = p.candidate
<1>1. Target(r) \in Partition
  BY OpenedType
<1> QED
  BY <1>1 DEF Advanced, Partition

\* The fields of a partition that was reset.
LEMMA ResetFields ==
    ASSUME NEW p \in Partition
    PROVE  LET q == ResetPartition(p)
           IN  /\ q.snapshot = InitialSnapshot(p.snapshot.gen + 1)
               /\ q.previousGood = p.previousGood /\ q.candidate = p.candidate
               /\ q.pending = EmptyLedger /\ q.completed = EmptyLedger
BY DEF ResetPartition, Partition

\* A step that has an effect on the namespaces replaces one partition, or all of
\* them by those of an exported snapshot.  For each kind of step: which
\* partition it replaces and by what.
PromotedPartition(p) ==
    [p EXCEPT !.snapshot = p.candidate, !.previousGood = p.snapshot, !.candidate = None,
              !.pending = EmptyLedger, !.completed = EmptyLedger]

RolledBackPartition(p) ==
    [p EXCEPT !.snapshot = p.previousGood, !.previousGood = p.snapshot, !.candidate = None,
              !.pending = EmptyLedger, !.completed = EmptyLedger]

StagedPartition(p, s) == [p EXCEPT !.candidate = s]

RestoredPartition(p, s) == [p EXCEPT !.previousGood = p.snapshot, !.snapshot = s]

\* Every step of an engine is one of these; "Installs" carries the checks of a
\* host call.
Stages(k, s) ==
    Fits(k, s) /\ Installs([partitions EXCEPT ![k] = StagedPartition(PartitionAt(k), s)])

Promotes(k) ==
    /\ k \in Held(partitions) /\ partitions[k].candidate # None
    /\ Installs([partitions EXCEPT ![k] = PromotedPartition(partitions[k])])

RollsBack(k) ==
    /\ k \in Held(partitions) /\ partitions[k].previousGood # None
    /\ Installs([partitions EXCEPT ![k] = RolledBackPartition(partitions[k])])

Restores(k, s) ==
    Fits(k, s) /\ Installs([partitions EXCEPT ![k] = RestoredPartition(PartitionAt(k), s)])

\* What a host call that restores nothing does to the namespaces.
LEMMA LifecycleCases ==
    ASSUME TypeOK, Lifecycle
    PROVE  \E k \in Scopes :
             \/ Promotes(k) \/ RollsBack(k)
             \/ \E s \in HostSnapshots : Stages(k, s)
<1>1. ASSUME NEW k \in Scopes, PromoteCandidate(k) PROVE Promotes(k)
  BY <1>1 DEF PromoteCandidate, Promotes, PromotedPartition
<1>2. ASSUME NEW k \in Scopes, RollbackPreviousGood(k) PROVE RollsBack(k)
  BY <1>2 DEF RollbackPreviousGood, RollsBack, RolledBackPartition
<1>3. ASSUME NEW k \in Scopes, NEW s \in HostSnapshots, StageCandidate(k, s) PROVE Stages(k, s)
  BY <1>3 DEF StageCandidate, Stages, StagedPartition
<1> QED
  BY <1>1, <1>2, <1>3 DEF Lifecycle

\* What a restore does to the namespaces.
LEMMA RestoreCases ==
    ASSUME TypeOK, Restore
    PROVE  \/ \E k \in Scopes, s \in Snapshot : Restores(k, s)
           \/ \E export \in RuntimeSnapshots : Restorable(export) /\ Installs(export.partitions)
<1>1. ASSUME NEW k \in Scopes, NEW s \in Snapshot, RestorePartition(k, s) PROVE Restores(k, s)
  BY <1>1 DEF RestorePartition, Restores, RestoredPartition
<1>2. \A s \in HostSnapshots, migrated \in HostSnapshots :
        s \in Snapshot /\ [migrated EXCEPT !.gen = s.gen] \in Snapshot
  BY InputsAssumption DEF Snapshot
<1> QED
  BY <1>1, <1>2 DEF Restore, RestoreRuntime, RestoreWithMigration

\* The fields of the partitions that host calls install.
LEMMA HostFields ==
    ASSUME NEW p \in Partition, NEW s
    PROVE  /\ LET q == PromotedPartition(p)
              IN  /\ q.snapshot = p.candidate /\ q.previousGood = p.snapshot /\ q.candidate = None
                  /\ q.pending = EmptyLedger /\ q.completed = EmptyLedger
           /\ LET q == RolledBackPartition(p)
              IN  /\ q.snapshot = p.previousGood /\ q.previousGood = p.snapshot
                  /\ q.candidate = None
                  /\ q.pending = EmptyLedger /\ q.completed = EmptyLedger
           /\ LET q == StagedPartition(p, s)
              IN  /\ q.snapshot = p.snapshot /\ q.previousGood = p.previousGood
                  /\ q.candidate = s
                  /\ q.pending = p.pending /\ q.completed = p.completed
           /\ LET q == RestoredPartition(p, s)
              IN  /\ q.snapshot = s /\ q.previousGood = p.snapshot
                  /\ q.candidate = p.candidate
                  /\ q.pending = p.pending /\ q.completed = p.completed
BY DEF Partition, PromotedPartition, RolledBackPartition, StagedPartition, RestoredPartition

\* An engine that has been poisoned stays poisoned.
LEMMA PoisonedForever ==
    ASSUME poisoned, [Next]_vars
    PROVE  poisoned'
<1>1. ASSUME NEW r \in Requests, Handle(r) PROVE poisoned'
  BY <1>1 DEF Handle, RefuseEnvelope, AnswerHandshake, AnswerHealth, RefusePoisoned,
       RefuseNamespace, RefuseRequest, AnswerSnapshot, Reset, RefuseEvent, HandlerPanics,
       HandlerFails, RefuseResult, Commit, Keeps
<1>2. Lifecycle => FALSE
  BY DEF Lifecycle, PromoteCandidate, RollbackPreviousGood, StageCandidate, Installs
<1>3. Restore => FALSE
  BY DEF Restore, RestoreRuntime, RestorePartition, RestoreWithMigration, Installs
<1>4. HostCallRejected \/ UNCHANGED vars => poisoned'
  BY DEF HostCallRejected, Keeps, vars
<1> QED
  BY <1>1, <1>2, <1>3, <1>4 DEF Next, Serve

-----------------------------------------------------------------------------
(* No decision is pending and completed at once.                           *)

Apart(p) == Held(p.pending) \cap Held(p.completed) = {}

\* The empty ledger holds nothing.
LEMMA EmptyLedgerHoldsNothing == Held(EmptyLedger) = {} /\ Apart(InitialPartition)
<1>1. Held(EmptyLedger) = {}
  BY DEF Held, EmptyLedger
<1>2. InitialPartition.pending = EmptyLedger /\ InitialPartition.completed = EmptyLedger
  BY DEF InitialPartition
<1>3. Held(InitialPartition.pending) = {}
  BY <1>1, <1>2
<1> QED
  BY <1>1, <1>3 DEF Apart

\* Each step keeps the ledgers of every namespace apart.
LEMMA NextKeepsApart == TypeOK /\ LedgersDisjoint /\ [Next]_vars => LedgersDisjoint'
<1> SUFFICES ASSUME TypeOK, LedgersDisjoint, [Next]_vars
             PROVE  LedgersDisjoint'
  OBVIOUS
<1>1. \A k \in Held(partitions) : Apart(partitions[k])
  BY DEF LedgersDisjoint, Apart
<1>2. SUFFICES \A k \in Held(partitions') : Apart(partitions'[k])
  BY DEF LedgersDisjoint, Apart
<1>3. partitions \in PartitionMap
  BY DEF TypeOK
<1>4. ASSUME NEW m \in PartitionMap, \A k \in Held(m) : Apart(m[k]),
             NEW l \in Scopes, NEW q, Apart(q), partitions' = [m EXCEPT ![l] = q]
      PROVE  \A k \in Held(partitions') : Apart(partitions'[k])
  <2> TAKE k \in Held(partitions')
  <2>1. \/ [m EXCEPT ![l] = q][k] = q
        \/ k \in Held(m) /\ [m EXCEPT ![l] = q][k] = m[k]
    BY <1>4, Replaced
  <2> QED
    BY <1>4, <2>1
<1>5. \A k \in Scopes : Apart(PartitionAt(k)) /\ PartitionAt(k) \in Partition
  BY <1>1, PartitionAtType, EmptyLedgerHoldsNothing DEF PartitionAt
<1>6. \A q : q.pending = EmptyLedger /\ q.completed = EmptyLedger => Apart(q)
  BY EmptyLedgerHoldsNothing DEF Apart
<1>7. ASSUME NEW r \in Requests, Handle(r)
      PROVE  \A k \in Held(partitions') : Apart(partitions'[k])
  <2>0. r \in Request /\ r.scope \in Scopes
    BY InputsAssumption DEF Request
  <2>1. /\ Opened(r) \in PartitionMap /\ Target(r) \in Partition
        /\ \A k \in Held(Opened(r)) : Apart(Opened(r)[k])
        /\ Apart(Target(r))
    BY <1>1, <2>0, OpenedType, OpenedPartitions, TargetPartition, EmptyLedgerHoldsNothing
  <2>2. CASE partitions' = partitions
    BY <1>1, <2>2
  <2>3. CASE HandlerPanics(r)
    BY <2>1, <2>3 DEF HandlerPanics
  <2>4. CASE Reset(r)
    <3>1. Apart(ResetPartition(Target(r)))
      BY <1>6, <2>1, ResetFields
    <3> QED
      BY <1>1, <1>3, <1>4, <2>0, <2>4, <3>1 DEF Reset, Keeps
  <2>5. ASSUME NEW out \in HandlerResults, Commit(r, out)
        PROVE  \A k \in Held(partitions') : Apart(partitions'[k])
    <3>1. out \in HandlerResult /\ CallsHandler(r) /\ ResultRefusal(r, Target(r), out) = "none"
      BY <2>5, InputsAssumption DEF Commit
    <3>2. Target(r).snapshot.gen # MaxGeneration
      BY <3>1, ResultIsChecked
    <3>3. Apart(Advanced(r, Target(r), out))
      BY <2>0, <2>1, <3>1, <3>2, AdvancedLedgers, DecideIsNew DEF Apart
    <3> QED
      BY <1>4, <2>0, <2>1, <2>5, <3>3 DEF Commit, Keeps
  <2> QED
    BY <1>7, <2>2, <2>3, <2>4, <2>5, HandleCases
<1>8. CASE Lifecycle
  <2>1. PICK k \in Scopes : \/ Promotes(k) \/ RollsBack(k)
                            \/ \E s \in HostSnapshots : Stages(k, s)
    BY <1>8, LifecycleCases
  <2>2. CASE Promotes(k)
    <3>1. partitions[k] \in Partition
      BY <2>2 DEF Promotes, Held, TypeOK, PartitionMap
    <3>2. Apart(PromotedPartition(partitions[k]))
      BY <1>6, <3>1, HostFields
    <3> QED
      BY <1>1, <1>3, <1>4, <2>2, <3>2 DEF Promotes, Installs
  <2>3. CASE RollsBack(k)
    <3>1. partitions[k] \in Partition
      BY <2>3 DEF RollsBack, Held, TypeOK, PartitionMap
    <3>2. Apart(RolledBackPartition(partitions[k]))
      BY <1>6, <3>1, HostFields
    <3> QED
      BY <1>1, <1>3, <1>4, <2>3, <3>2 DEF RollsBack, Installs
  <2>4. ASSUME NEW s \in HostSnapshots, Stages(k, s)
        PROVE  \A l \in Held(partitions') : Apart(partitions'[l])
    <3>1. Apart(StagedPartition(PartitionAt(k), s))
      BY <1>5, HostFields DEF Apart
    <3> QED
      BY <1>1, <1>3, <1>4, <2>4, <3>1 DEF Stages, Installs
  <2> QED
    BY <2>1, <2>2, <2>3, <2>4
<1>9. CASE Restore
  <2>1. ASSUME NEW k \in Scopes, NEW s \in Snapshot, Restores(k, s)
        PROVE  \A l \in Held(partitions') : Apart(partitions'[l])
    <3>1. Apart(RestoredPartition(PartitionAt(k), s))
      BY <1>5, HostFields DEF Apart
    <3> QED
      BY <1>1, <1>3, <1>4, <2>1, <3>1 DEF Restores, Installs
  <2>2. ASSUME NEW export \in RuntimeSnapshots, Restorable(export), Installs(export.partitions)
        PROVE  \A l \in Held(partitions') : Apart(partitions'[l])
    BY <2>2, ExportsAssumption DEF Restorable, Installs, Apart
  <2> QED
    BY <1>9, <2>1, <2>2, RestoreCases
<1>10. CASE HostCallRejected \/ UNCHANGED vars
  BY <1>1, <1>10 DEF HostCallRejected, Keeps, vars
<1> QED
  BY <1>7, <1>8, <1>9, <1>10 DEF Next, Serve

\* No sequence of requests, host calls and restores makes a decision pending and
\* completed at once, however many decisions and namespaces there are.
THEOREM LedgersStayDisjoint == Spec => []LedgersDisjoint
<1>1. Init => LedgersDisjoint
  BY DEF Init, LedgersDisjoint, Held
<1> QED
  BY <1>1, NextKeepsApart, TypeCorrect, PTL DEF Spec

-----------------------------------------------------------------------------
(* Every namespace is there for a reason, and fits the profile.            *)

HasHistory(p) == p.previousGood # None \/ p.candidate # None

\* Each step of an engine that is not poisoned leaves only namespaces some
\* operation succeeded in.
LEMMA NextKeepsHistory == TypeOK /\ NoPhantomPartition /\ [Next]_vars => NoPhantomPartition'
<1> SUFFICES ASSUME TypeOK, NoPhantomPartition, [Next]_vars, ~poisoned'
             PROVE  \A k \in Held(partitions') : HasHistory(partitions'[k])
  BY DEF NoPhantomPartition, HasHistory
<1>1. ~poisoned
  BY PoisonedForever
<1>2. \A k \in Held(partitions) : HasHistory(partitions[k])
  BY <1>1 DEF NoPhantomPartition, HasHistory
<1>3. partitions \in PartitionMap
  BY DEF TypeOK
<1>4. ASSUME NEW l \in Scopes, NEW q, HasHistory(q), partitions' = [partitions EXCEPT ![l] = q]
      PROVE  \A k \in Held(partitions') : HasHistory(partitions'[k])
  <2> TAKE k \in Held(partitions')
  <2>1. \/ [partitions EXCEPT ![l] = q][k] = q
        \/ k \in Held(partitions) /\ [partitions EXCEPT ![l] = q][k] = partitions[k]
    BY <1>3, <1>4, Replaced
  <2> QED
    BY <1>2, <1>4, <2>1
<1>5. ASSUME NEW p \in Partition
      PROVE  p.snapshot \in Snapshot /\ p.snapshot # None
  <2>1. p.snapshot \in Snapshot
    BY <1>5 DEF Partition
  <2> QED
    BY <2>1, EntryIsHeld
<1>6. ASSUME NEW r \in Requests, Handle(r)
      PROVE  \A k \in Held(partitions') : HasHistory(partitions'[k])
  <2>0. r \in Request /\ r.scope \in Scopes
    BY InputsAssumption DEF Request
  <2>1. Target(r) \in Partition
    BY <2>0, OpenedType
  <2>2. CASE partitions' = partitions
    BY <1>2, <2>2
  <2>3. ~HandlerPanics(r)
    BY DEF HandlerPanics
  <2>4. CASE Reset(r)
    <3>1. r.scope \in Held(partitions) /\ Target(r) = partitions[r.scope]
      BY <2>0, <2>4, ResetIsChecked DEF Reset
    <3>2. HasHistory(ResetPartition(Target(r)))
      BY <1>2, <2>1, <3>1, ResetFields DEF HasHistory
    <3> QED
      BY <1>4, <2>0, <2>4, <3>2 DEF Reset, Keeps
  <2>5. ASSUME NEW out \in HandlerResults, Commit(r, out)
        PROVE  \A k \in Held(partitions') : HasHistory(partitions'[k])
    <3> DEFINE q == Advanced(r, Target(r), out)
    <3>1. HasHistory(q)
      BY <1>5, <2>0, <2>1, AdvancedFields DEF HasHistory
    <3>2. partitions' = [Opened(r) EXCEPT ![r.scope] = q]
      BY <2>5 DEF Commit, Keeps
    <3>3. partitions' = [partitions EXCEPT ![r.scope] = q]
      <4> HIDE DEF q
      <4>1. [[partitions EXCEPT ![r.scope] = InitialPartition] EXCEPT ![r.scope] = q]
              = [partitions EXCEPT ![r.scope] = q]
        BY <1>3, <2>0 DEF PartitionMap
      <4> QED
        BY <3>2, <4>1 DEF Opened
    <3> HIDE DEF q
    <3> QED
      BY <1>4, <2>0, <3>1, <3>3
  <2> QED
    BY <1>6, <2>2, <2>3, <2>4, <2>5, HandleCases
<1>7. CASE Lifecycle
  <2>1. PICK k \in Scopes : \/ Promotes(k) \/ RollsBack(k)
                            \/ \E s \in HostSnapshots : Stages(k, s)
    BY <1>7, LifecycleCases
  <2>2. k \in Held(partitions) => partitions[k] \in Partition
    BY DEF Held, TypeOK, PartitionMap
  <2>3. CASE Promotes(k)
    <3>1. HasHistory(PromotedPartition(partitions[k]))
      BY <1>5, <2>2, <2>3, HostFields DEF HasHistory, Promotes
    <3> QED
      BY <1>4, <2>3, <3>1 DEF Promotes, Installs
  <2>4. CASE RollsBack(k)
    <3>1. HasHistory(RolledBackPartition(partitions[k]))
      BY <1>5, <2>2, <2>4, HostFields DEF HasHistory, RollsBack
    <3> QED
      BY <1>4, <2>4, <3>1 DEF RollsBack, Installs
  <2>5. ASSUME NEW s \in HostSnapshots, Stages(k, s)
        PROVE  \A l \in Held(partitions') : HasHistory(partitions'[l])
    <3>1. s # None
      BY InputsAssumption, EntryIsHeld
    <3>2. HasHistory(StagedPartition(PartitionAt(k), s))
      BY <3>1, PartitionAtType, HostFields DEF HasHistory
    <3> QED
      BY <1>4, <2>5, <3>2 DEF Stages, Installs
  <2> QED
    BY <2>1, <2>3, <2>4, <2>5
<1>8. CASE Restore
  <2>1. ASSUME NEW k \in Scopes, NEW s \in Snapshot, Restores(k, s)
        PROVE  \A l \in Held(partitions') : HasHistory(partitions'[l])
    <3>1. HasHistory(RestoredPartition(PartitionAt(k), s))
      BY <1>5, PartitionAtType, HostFields DEF HasHistory
    <3> QED
      BY <1>4, <2>1, <3>1 DEF Restores, Installs
  <2>2. ASSUME NEW export \in RuntimeSnapshots, Restorable(export), Installs(export.partitions)
        PROVE  \A l \in Held(partitions') : HasHistory(partitions'[l])
    BY <2>2, ExportsAssumption DEF Restorable, Installs, HasHistory
  <2> QED
    BY <1>8, <2>1, <2>2, RestoreCases
<1>9. CASE HostCallRejected \/ UNCHANGED vars
  BY <1>2, <1>9 DEF HostCallRejected, Keeps, vars
<1> QED
  BY <1>6, <1>7, <1>8, <1>9 DEF Next, Serve

\* A failed first request never leaves a namespace behind that counts against
\* max_partitions, whatever the profile and however requests and host calls mix.
THEOREM NoPhantoms == Spec => []NoPhantomPartition
<1>1. Init => NoPhantomPartition
  BY DEF Init, NoPhantomPartition, Held
<1> QED
  BY <1>1, NextKeepsHistory, TypeCorrect, PTL DEF Spec

\* An engine that holds no namespace holds no bytes.
LEMMA NothingWeighsNothing ==
    ASSUME NEW m, Held(m) = {}
    PROVE  StateBytes(m) = 0 /\ SnapshotBytes(m) = 0
<1> DEFINE Weight(k) == BytesOf(m[k].snapshot) + BytesOf(m[k].previousGood)
                        + BytesOf(m[k].candidate)
<1> DEFINE Count(k) == Cardinality(Held(m[k].pending)) + Cardinality(Held(m[k].completed))
<1>1. MapThenSumSet(Weight, {}) = 0
  <2> HIDE DEF Weight
  <2> DEFINE body(f) == [s \in SUBSET {} |->
                 IF s = {} THEN 0
                 ELSE Weight(CHOOSE x \in s : TRUE) + f[s \ {CHOOSE x \in s : TRUE}]]
  <2>1. \E f : f = body(f)
    <3>1. [s \in SUBSET {} |-> 0] = body([s \in SUBSET {} |-> 0])
      OBVIOUS
    <3> QED
      BY <3>1
  <2>2. \A f : f = body(f) => f[{}] = 0
    OBVIOUS
  <2>3. (CHOOSE f : f = body(f))[{}] = 0
    BY <2>1, <2>2
  <2> QED
    BY <2>3 DEF MapThenSumSet, MapThenFoldSet
<1>2. MapThenSumSet(Count, {}) = 0
  <2> HIDE DEF Count
  <2> DEFINE body(f) == [s \in SUBSET {} |->
                 IF s = {} THEN 0
                 ELSE Count(CHOOSE x \in s : TRUE) + f[s \ {CHOOSE x \in s : TRUE}]]
  <2>1. \E f : f = body(f)
    <3>1. [s \in SUBSET {} |-> 0] = body([s \in SUBSET {} |-> 0])
      OBVIOUS
    <3> QED
      BY <3>1
  <2>2. \A f : f = body(f) => f[{}] = 0
    OBVIOUS
  <2>3. (CHOOSE f : f = body(f))[{}] = 0
    BY <2>1, <2>2
  <2> QED
    BY <2>3 DEF MapThenSumSet, MapThenFoldSet
<1>3. StateBytes(m) = 0
  BY <1>1 DEF StateBytes
<1>4. SnapshotBytes(m) = StateBytes(m) + MapThenSumSet(Count, {})
  BY Zenon DEF SnapshotBytes
<1> HIDE DEF Count
<1> QED
  BY <1>2, <1>3, <1>4

\* Every state a partition holds is one that passed validate_state_bytes.
AllIntact(p) == \A s \in Snapshots(p) : s.intact

\* The states of the partitions an operation builds are intact.
LEMMA IntactPartitions ==
    /\ AllIntact(InitialPartition)
    /\ \A p \in Partition :
         AllIntact(p) <=> /\ p.snapshot.intact
                          /\ p.previousGood # None => p.previousGood.intact
                          /\ p.candidate # None => p.candidate.intact
<1>1. ASSUME NEW p \in Partition
      PROVE  AllIntact(p) <=> /\ p.snapshot.intact
                              /\ p.previousGood # None => p.previousGood.intact
                              /\ p.candidate # None => p.candidate.intact
  <2>1. p.snapshot # None
    <3>1. p.snapshot \in Snapshot
      BY DEF Partition
    <3> QED
      BY <3>1, EntryIsHeld
  <2> QED
    BY <2>1 DEF AllIntact, Snapshots
<1>2. InitialPartition \in Partition
  BY InitialPartitionType
<1>3. /\ InitialPartition.snapshot.intact
      /\ InitialPartition.previousGood = None /\ InitialPartition.candidate = None
  BY DEF InitialPartition, InitialSnapshot
<1> QED
  BY <1>1, <1>2, <1>3

\* Every operation checks the map it installs, so each step keeps the bounds.
LEMMA NextKeepsBounds == TypeOK /\ HeldStateIsBounded /\ [Next]_vars => HeldStateIsBounded'
<1>0. (/\ WithinLimits(partitions')
       /\ \A k \in Held(partitions') : AllIntact(partitions'[k])) => HeldStateIsBounded'
  BY DEF HeldStateIsBounded, AllIntact
<1> SUFFICES ASSUME TypeOK, HeldStateIsBounded, [Next]_vars, ~poisoned'
             PROVE  /\ WithinLimits(partitions')
                    /\ \A k \in Held(partitions') : AllIntact(partitions'[k])
  BY <1>0 DEF HeldStateIsBounded
<1>1. ~poisoned
  BY PoisonedForever
<1>2. WithinLimits(partitions) /\ \A k \in Held(partitions) : AllIntact(partitions[k])
  BY <1>1 DEF HeldStateIsBounded, AllIntact
<1>3. partitions \in PartitionMap
  BY DEF TypeOK
<1>4. ASSUME NEW m \in PartitionMap, \A k \in Held(m) : AllIntact(m[k]),
             NEW l \in Scopes, NEW q, AllIntact(q), partitions' = [m EXCEPT ![l] = q]
      PROVE  \A k \in Held(partitions') : AllIntact(partitions'[k])
  <2> TAKE k \in Held(partitions')
  <2>1. \/ [m EXCEPT ![l] = q][k] = q
        \/ k \in Held(m) /\ [m EXCEPT ![l] = q][k] = m[k]
    BY <1>4, Replaced
  <2> QED
    BY <1>4, <2>1
<1>5. \A k \in Scopes : AllIntact(PartitionAt(k)) /\ PartitionAt(k) \in Partition
  BY <1>2, PartitionAtType, IntactPartitions DEF PartitionAt
<1>6. ASSUME NEW r \in Requests, Handle(r)
      PROVE  /\ WithinLimits(partitions')
             /\ \A k \in Held(partitions') : AllIntact(partitions'[k])
  <2>0. r \in Request /\ r.scope \in Scopes
    BY InputsAssumption DEF Request
  <2>1. /\ Opened(r) \in PartitionMap /\ Target(r) \in Partition
        /\ \A k \in Held(Opened(r)) : AllIntact(Opened(r)[k])
        /\ AllIntact(Target(r))
    BY <1>2, <2>0, OpenedType, OpenedPartitions, TargetPartition, IntactPartitions
  <2>2. CASE partitions' = partitions
    BY <1>2, <2>2
  <2>3. ~HandlerPanics(r)
    BY DEF HandlerPanics
  <2>4. CASE Reset(r)
    <3> DEFINE q == ResetPartition(Target(r))
    <3>1. /\ WithinLimits([partitions EXCEPT ![r.scope] = q])
          /\ Target(r).snapshot.gen # MaxGeneration
      BY <2>0, <2>4, ResetIsChecked DEF Reset
    <3>2. q \in Partition
      BY <2>1, <3>1, ResetType
    <3>3. AllIntact(q)
      <4>1. \A g : InitialSnapshot(g).intact
        BY DEF InitialSnapshot
      <4>2. /\ q.snapshot = InitialSnapshot(Target(r).snapshot.gen + 1)
            /\ q.previousGood = Target(r).previousGood /\ q.candidate = Target(r).candidate
        BY <2>1, ResetFields
      <4> HIDE DEF q
      <4> QED
        BY <2>1, <3>2, <4>1, <4>2, IntactPartitions
    <3>4. partitions' = [partitions EXCEPT ![r.scope] = q]
      BY <2>4 DEF Reset, Keeps
    <3> HIDE DEF q
    <3>5. WithinLimits(partitions')
      BY <3>1, <3>4
    <3> QED
      BY <1>2, <1>3, <1>4, <2>0, <3>3, <3>4, <3>5
  <2>5. ASSUME NEW out \in HandlerResults, Commit(r, out)
        PROVE  /\ WithinLimits(partitions')
               /\ \A k \in Held(partitions') : AllIntact(partitions'[k])
    <3> DEFINE q == Advanced(r, Target(r), out)
    <3>1. out \in HandlerResult /\ CallsHandler(r) /\ ResultRefusal(r, Target(r), out) = "none"
      BY <2>5, InputsAssumption DEF Commit
    <3>2. /\ Target(r).snapshot.gen # MaxGeneration /\ out.intact
          /\ WithinLimits([Opened(r) EXCEPT ![r.scope] = q])
      BY <3>1, ResultIsChecked
    <3>3. q \in Partition
      BY <2>0, <3>1, <3>2, AdvancedType
    <3>4. q.snapshot.intact /\ q.previousGood = Target(r).snapshot
          /\ q.candidate = Target(r).candidate
      <4>1. /\ q.snapshot = [gen |-> Target(r).snapshot.gen + 1, bytes |-> out.bytes,
                             intact |-> out.intact, learned |-> Learned(r, Target(r))]
            /\ q.previousGood = Target(r).snapshot /\ q.candidate = Target(r).candidate
        BY <2>0, AdvancedFields
      <4> HIDE DEF q
      <4> QED
        BY <3>2, <4>1
    <3>5. AllIntact(q)
      <4> HIDE DEF q
      <4> QED
        BY <2>1, <3>3, <3>4, IntactPartitions
    <3>6. partitions' = [Opened(r) EXCEPT ![r.scope] = q]
      BY <2>5 DEF Commit, Keeps
    <3> HIDE DEF q
    <3>7. WithinLimits(partitions')
      BY <3>2, <3>6
    <3> QED
      BY <1>4, <2>0, <2>1, <3>5, <3>6, <3>7
  <2> QED
    BY <1>6, <2>2, <2>3, <2>4, <2>5, HandleCases
<1>7. \A m : Installs(m) => partitions' = m /\ WithinLimits(partitions')
  BY DEF Installs
<1>8. CASE Lifecycle
  <2>1. PICK k \in Scopes : \/ Promotes(k) \/ RollsBack(k)
                            \/ \E s \in HostSnapshots : Stages(k, s)
    BY <1>8, LifecycleCases
  <2>2. k \in Held(partitions) => partitions[k] \in Partition /\ AllIntact(partitions[k])
    BY <1>2 DEF Held, TypeOK, PartitionMap
  <2>3. CASE Promotes(k)
    <3>1. AllIntact(PromotedPartition(partitions[k]))
      BY <2>2, <2>3, HostFields DEF AllIntact, Snapshots, Promotes
    <3> QED
      BY <1>2, <1>3, <1>4, <1>7, <2>3, <3>1 DEF Promotes
  <2>4. CASE RollsBack(k)
    <3>1. AllIntact(RolledBackPartition(partitions[k]))
      BY <2>2, <2>4, HostFields DEF AllIntact, Snapshots, RollsBack
    <3> QED
      BY <1>2, <1>3, <1>4, <1>7, <2>4, <3>1 DEF RollsBack
  <2>5. ASSUME NEW s \in HostSnapshots, Stages(k, s)
        PROVE  /\ WithinLimits(partitions')
               /\ \A l \in Held(partitions') : AllIntact(partitions'[l])
    <3>1. s.intact
      BY <2>5 DEF Stages, Fits
    <3>2. AllIntact(StagedPartition(PartitionAt(k), s))
      BY <1>5, <3>1, HostFields DEF AllIntact, Snapshots
    <3> QED
      BY <1>2, <1>3, <1>4, <1>7, <2>5, <3>2 DEF Stages
  <2> QED
    BY <2>1, <2>3, <2>4, <2>5
<1>9. CASE Restore
  <2>1. ASSUME NEW k \in Scopes, NEW s \in Snapshot, Restores(k, s)
        PROVE  /\ WithinLimits(partitions')
               /\ \A l \in Held(partitions') : AllIntact(partitions'[l])
    <3>1. s.intact
      BY <2>1 DEF Restores, Fits
    <3>2. AllIntact(RestoredPartition(PartitionAt(k), s))
      BY <1>5, <3>1, HostFields DEF AllIntact, Snapshots
    <3> QED
      BY <1>2, <1>3, <1>4, <1>7, <2>1, <3>2 DEF Restores
  <2>2. ASSUME NEW export \in RuntimeSnapshots, Restorable(export), Installs(export.partitions)
        PROVE  /\ WithinLimits(partitions')
               /\ \A l \in Held(partitions') : AllIntact(partitions'[l])
    BY <1>7, <2>2 DEF Restorable, AllIntact
  <2> QED
    BY <1>9, <2>1, <2>2, RestoreCases
<1>10. CASE HostCallRejected \/ UNCHANGED vars
  BY <1>2, <1>10 DEF HostCallRejected, Keeps, vars
<1> QED
  BY <1>6, <1>8, <1>9, <1>10 DEF Next, Serve

\* No namespaces fit every profile.
LEMMA NothingFits ==
    ASSUME NEW m, Held(m) = {}
    PROVE  WithinLimits(m)
<1>1. StateBytes(m) = 0 /\ SnapshotBytes(m) = 0
  BY NothingWeighsNothing
<1>2. Cardinality(Held(m)) = 0
  BY FS_EmptySet
<1>3. MaxPartitions \in Nat /\ MaxTotalBytes \in Nat /\ MaxSnapshotBytes \in Nat
  BY ProfileAssumption
<1> QED
  BY <1>1, <1>2, <1>3 DEF WithinLimits

\* For every resource profile: unless a handler panicked, what an engine holds
\* fits the profile as a whole and every state it holds is valid.
THEOREM BoundsHold == Spec => []HeldStateIsBounded
<1>1. Init => HeldStateIsBounded
  <2> SUFFICES ASSUME Init PROVE HeldStateIsBounded
    OBVIOUS
  <2>1. Held(partitions) = {}
    BY DEF Init, Held
  <2>2. WithinLimits(partitions)
    BY <2>1, NothingFits
  <2> QED
    BY <2>1, <2>2 DEF HeldStateIsBounded
<1> QED
  BY <1>1, NextKeepsBounds, TypeCorrect, PTL DEF Spec

-----------------------------------------------------------------------------
(* What a step of a serving engine does to the ledgers.                    *)

PendingAt(m, k) == IF m[k] = None THEN {} ELSE Held(m[k].pending)

CompletedAt(m, k) == IF m[k] = None THEN {} ELSE Held(m[k].completed)

KeepsLedger(k) ==
    /\ PendingAt(partitions', k) = PendingAt(partitions, k)
    /\ CompletedAt(partitions', k) = CompletedAt(partitions, k)

ClearsLedger(k) == PendingAt(partitions', k) = {} /\ CompletedAt(partitions', k) = {}

OpensDecision(k, d) ==
    /\ d \notin PendingAt(partitions, k) \cup CompletedAt(partitions, k)
    /\ PendingAt(partitions', k) = PendingAt(partitions, k) \cup {d}
    /\ CompletedAt(partitions', k) = CompletedAt(partitions, k)

CompletesDecision(k, d) ==
    /\ d \in PendingAt(partitions, k)
    /\ PendingAt(partitions', k) = PendingAt(partitions, k) \ {d}
    /\ CompletedAt(partitions', k) = CompletedAt(partitions, k) \cup {d}

\* The step concerns the namespace l only, and does one thing to its ledgers.
LedgerStep(l) ==
    /\ \A k \in Scopes : k # l => partitions'[k] = partitions[k]
    /\ partitions'[l] # None
    /\ \/ KeepsLedger(l) \/ ClearsLedger(l)
       \/ \E d \in Ids : OpensDecision(l, d) \/ CompletesDecision(l, d)

\* A step of an engine that restores nothing keeps, clears, opens one decision
\* in or completes one decision in the ledgers of one namespace.
LEMMA ServeLedgerStep ==
    ASSUME TypeOK, [Serve]_vars
    PROVE  partitions' = partitions \/ \E l \in Scopes : LedgerStep(l)
<1>1. partitions \in PartitionMap
  BY DEF TypeOK
<1>2. ASSUME NEW l \in Scopes, NEW q, q # None, partitions' = [partitions EXCEPT ![l] = q],
             NEW p, p = IF partitions[l] = None THEN InitialPartition ELSE partitions[l],
             \/ Held(q.pending) = Held(p.pending) /\ Held(q.completed) = Held(p.completed)
             \/ Held(q.pending) = {} /\ Held(q.completed) = {}
             \/ \E d \in Ids : /\ d \notin Held(p.pending) \cup Held(p.completed)
                               /\ Held(q.pending) = Held(p.pending) \cup {d}
                               /\ Held(q.completed) = Held(p.completed)
             \/ \E d \in Ids : /\ d \in Held(p.pending)
                               /\ Held(q.pending) = Held(p.pending) \ {d}
                               /\ Held(q.completed) = Held(p.completed) \cup {d}
      PROVE  LedgerStep(l)
  <2>1. /\ partitions'[l] = q
        /\ \A k \in Scopes : k # l => partitions'[k] = partitions[k]
    BY <1>1, <1>2 DEF PartitionMap
  <2>2. /\ PendingAt(partitions', l) = Held(q.pending)
        /\ CompletedAt(partitions', l) = Held(q.completed)
    BY <1>2, <2>1 DEF PendingAt, CompletedAt
  <2>3. /\ Held(p.pending) = PendingAt(partitions, l)
        /\ Held(p.completed) = CompletedAt(partitions, l)
    <3>1. CASE partitions[l] = None
      <4>1. p.pending = EmptyLedger /\ p.completed = EmptyLedger
        BY <1>2, <3>1 DEF InitialPartition
      <4>2. Held(p.pending) = {} /\ Held(p.completed) = {}
        BY <4>1, EmptyLedgerHoldsNothing
      <4> QED
        BY <3>1, <4>2 DEF PendingAt, CompletedAt
    <3>2. CASE partitions[l] # None
      BY <1>2, <3>2 DEF PendingAt, CompletedAt
    <3> QED
      BY <3>1, <3>2
  <2>4. \/ KeepsLedger(l) \/ ClearsLedger(l)
        \/ \E d \in Ids : OpensDecision(l, d) \/ CompletesDecision(l, d)
    BY <1>2, <2>2, <2>3 DEF KeepsLedger, ClearsLedger, OpensDecision, CompletesDecision
  <2> QED
    BY <1>2, <2>1, <2>4 DEF LedgerStep
<1>3. ASSUME NEW l \in Scopes, l \in Held(partitions)
      PROVE  partitions[l] \in Partition /\ partitions[l] # None
  BY <1>3 DEF Held, TypeOK, PartitionMap
<1>4. InitialPartition \in Partition /\ InitialPartition # None
  BY InitialPartitionType, EntryIsHeld
<1>5. ASSUME NEW r \in Requests, Handle(r)
      PROVE  partitions' = partitions \/ LedgerStep(r.scope)
  <2>0. r \in Request /\ r.scope \in Scopes
    BY InputsAssumption DEF Request
  <2>1. /\ Target(r) \in Partition
        /\ Target(r) = IF partitions[r.scope] = None THEN InitialPartition ELSE partitions[r.scope]
    BY <1>1, <2>0, OpenedType, TargetPartition DEF Held, PartitionMap
  <2>2. CASE HandlerPanics(r)
    <3>1. CASE r.scope \in Held(partitions)
      BY <2>2, <3>1 DEF HandlerPanics, Opened
    <3>2. CASE r.scope \notin Held(partitions)
      <4>1. partitions' = [partitions EXCEPT ![r.scope] = InitialPartition]
        BY <2>2, <3>2 DEF HandlerPanics, Opened
      <4>2. partitions[r.scope] = None
        BY <1>1, <2>0, <3>2 DEF Held, PartitionMap
      <4> QED
        BY <1>2, <1>4, <2>0, <4>1, <4>2
    <3> QED
      BY <3>1, <3>2
  <2>3. CASE Reset(r)
    <3> DEFINE q == ResetPartition(Target(r))
    <3>1. q \in Partition /\ q # None
      BY <2>0, <2>1, <2>3, ResetIsChecked, ResetType, EntryIsHeld DEF Reset
    <3>2. partitions' = [partitions EXCEPT ![r.scope] = q]
      BY <2>3 DEF Reset, Keeps
    <3>3. q.pending = EmptyLedger /\ q.completed = EmptyLedger
      BY <2>1, ResetFields
    <3> HIDE DEF q
    <3>4. Held(q.pending) = {} /\ Held(q.completed) = {}
      BY <3>3, EmptyLedgerHoldsNothing
    <3> QED
      BY <1>2, <2>0, <2>1, <3>1, <3>2, <3>4
  <2>4. ASSUME NEW out \in HandlerResults, Commit(r, out)
        PROVE  LedgerStep(r.scope)
    <3> DEFINE p == Target(r)
    <3> DEFINE q == Advanced(r, p, out)
    <3>1. out \in HandlerResult /\ CallsHandler(r) /\ ResultRefusal(r, p, out) = "none"
      BY <2>4, InputsAssumption DEF Commit
    <3>2. p.snapshot.gen # MaxGeneration
      BY <3>1, ResultIsChecked
    <3>3. q \in Partition /\ q # None
      BY <2>0, <3>1, <3>2, AdvancedType, EntryIsHeld
    <3>4. partitions' = [partitions EXCEPT ![r.scope] = q]
      <4>1. partitions' = [Opened(r) EXCEPT ![r.scope] = q]
        BY <2>4 DEF Commit, Keeps
      <4> HIDE DEF p, q
      <4>2. [[partitions EXCEPT ![r.scope] = InitialPartition] EXCEPT ![r.scope] = q]
              = [partitions EXCEPT ![r.scope] = q]
        BY <1>1, <2>0 DEF PartitionMap
      <4> QED
        BY <4>1, <4>2 DEF Opened
    <3>5. /\ Held(q.pending) = IF r.method = "decide" THEN Held(p.pending) \cup {r.id}
                               ELSE IF r.method = "feedback" THEN Held(p.pending) \ {r.decision}
                               ELSE Held(p.pending)
          /\ Held(q.completed) = IF r.method = "feedback" THEN Held(p.completed) \cup {r.decision}
                                 ELSE Held(p.completed)
      BY <2>0, <3>1, <3>2, AdvancedLedgers
    <3>6. r.method = "decide" => r.id \notin Held(p.pending) \cup Held(p.completed)
      BY <2>0, <3>1, DecideIsNew
    <3>7. r.method = "feedback" => r.decision \in Held(p.pending)
      BY <2>0, <3>1, FeedbackIsPending
    <3>8. r.id \in Ids /\ r.decision \in Ids
      BY <2>0 DEF Request
    <3> HIDE DEF p, q
    <3>9. \/ Held(q.pending) = Held(p.pending) /\ Held(q.completed) = Held(p.completed)
          \/ \E d \in Ids : /\ d \notin Held(p.pending) \cup Held(p.completed)
                            /\ Held(q.pending) = Held(p.pending) \cup {d}
                            /\ Held(q.completed) = Held(p.completed)
          \/ \E d \in Ids : /\ d \in Held(p.pending)
                            /\ Held(q.pending) = Held(p.pending) \ {d}
                            /\ Held(q.completed) = Held(p.completed) \cup {d}
      BY <3>5, <3>6, <3>7, <3>8
    <3>10. p = IF partitions[r.scope] = None THEN InitialPartition ELSE partitions[r.scope]
      BY <2>1 DEF p
    <3> QED
      BY <1>2, <2>0, <3>3, <3>4, <3>9, <3>10
  <2> QED
    BY <1>5, <2>2, <2>3, <2>4, HandleCases
<1>6. CASE Lifecycle
  <2>1. PICK k \in Scopes : \/ Promotes(k) \/ RollsBack(k)
                            \/ \E s \in HostSnapshots : Stages(k, s)
    BY <1>6, LifecycleCases
  <2>2. CASE Promotes(k)
    <3> DEFINE q == PromotedPartition(partitions[k])
    <3>1. q.pending = EmptyLedger /\ q.completed = EmptyLedger /\ q # None
      <4>1. q \in Partition
        BY <1>3, <2>2, InitialPartitionType DEF PromotedPartition, Partition, Promotes
      <4> QED
        BY <1>3, <2>2, <4>1, HostFields, EntryIsHeld DEF Promotes
    <3>2. partitions' = [partitions EXCEPT ![k] = q]
      BY <2>2 DEF Promotes, Installs
    <3> HIDE DEF q
    <3>3. Held(q.pending) = {} /\ Held(q.completed) = {}
      BY <3>1, EmptyLedgerHoldsNothing
    <3> QED
      BY <1>2, <3>1, <3>2, <3>3
  <2>3. CASE RollsBack(k)
    <3> DEFINE q == RolledBackPartition(partitions[k])
    <3>1. q.pending = EmptyLedger /\ q.completed = EmptyLedger /\ q # None
      <4>1. q \in Partition
        BY <1>3, <2>3, InitialPartitionType DEF RolledBackPartition, Partition, RollsBack
      <4> QED
        BY <1>3, <2>3, <4>1, HostFields, EntryIsHeld DEF RollsBack
    <3>2. partitions' = [partitions EXCEPT ![k] = q]
      BY <2>3 DEF RollsBack, Installs
    <3> HIDE DEF q
    <3>3. Held(q.pending) = {} /\ Held(q.completed) = {}
      BY <3>1, EmptyLedgerHoldsNothing
    <3> QED
      BY <1>2, <3>1, <3>2, <3>3
  <2>4. ASSUME NEW s \in HostSnapshots, Stages(k, s)
        PROVE  LedgerStep(k)
    <3> DEFINE p == PartitionAt(k)
    <3> DEFINE q == StagedPartition(p, s)
    <3>1. p = IF partitions[k] = None THEN InitialPartition ELSE partitions[k]
      BY <1>1 DEF PartitionAt, Held, PartitionMap
    <3>2. p \in Partition
      BY PartitionAtType
    <3>3. q.pending = p.pending /\ q.completed = p.completed
      BY <3>2, HostFields
    <3>4. q # None
      <4>1. q \in Partition
        BY <3>2, InputsAssumption DEF StagedPartition, Partition
      <4> QED
        BY <4>1, EntryIsHeld
    <3>5. partitions' = [partitions EXCEPT ![k] = q]
      BY <2>4 DEF Stages, Installs
    <3> HIDE DEF p, q
    <3>6. Held(q.pending) = Held(p.pending) /\ Held(q.completed) = Held(p.completed)
      BY <3>3
    <3> QED
      BY <1>2, <3>1, <3>4, <3>5, <3>6
  <2> QED
    BY <2>1, <2>2, <2>3, <2>4
<1>7. HostCallRejected \/ UNCHANGED vars => partitions' = partitions
  BY DEF HostCallRejected, Keeps, vars
<1>8. \A r \in Requests : r.scope \in Scopes
  BY InputsAssumption DEF Request
<1> QED
  BY <1>5, <1>6, <1>7, <1>8 DEF Serve

\* A serving engine keeps the invariants proved of every engine.
LEMMA ServingInvariants == ServingSpec => []TypeOK /\ []LedgersDisjoint
BY ServingIsSpec, TypeCorrect, LedgersStayDisjoint, PTL

\* The ledgers of a partition, through PendingAt and CompletedAt.
LEMMA LedgersAt ==
    ASSUME NEW m, NEW k \in Held(m)
    PROVE  PendingAt(m, k) = Held(m[k].pending) /\ CompletedAt(m, k) = Held(m[k].completed)
BY DEF PendingAt, CompletedAt, Held

\* No serving engine forgets a single decision, drops a namespace or reopens a
\* completed decision, whatever the capacities: capacity errors refuse work, and
\* only a reset, a promotion or a rollback clears a ledger, as a whole.
THEOREM NothingIsEvicted == ServingSpec => NoSilentEviction
<1>1. ASSUME TypeOK, LedgersDisjoint, [Serve]_vars, NEW k \in Held(partitions)
      PROVE  /\ k \in Held(partitions')
             /\ Held(partitions[k].completed) \cap Held(partitions'[k].pending) = {}
             /\ \/ LedgerIds(partitions[k]) \subseteq LedgerIds(partitions'[k])
                \/ LedgerIds(partitions'[k]) = {}
  <2>1. Held(partitions[k].pending) \cap Held(partitions[k].completed) = {}
    BY <1>1 DEF LedgersDisjoint
  <2>2. k \in Scopes /\ partitions[k] # None
    BY <1>1 DEF Held, TypeOK, PartitionMap
  <2>3. CASE partitions'[k] = partitions[k] /\ k \in Held(partitions')
    BY <2>1, <2>3 DEF LedgerIds
  <2>4. ASSUME NEW l \in Scopes, LedgerStep(l)
        PROVE  k \in Held(partitions') /\ (partitions'[k] = partitions[k] \/ k = l)
    <3>1. partitions'[k] = partitions[k] \/ k = l
      BY <2>2, <2>4 DEF LedgerStep
    <3>2. partitions'[k] # None
      BY <2>2, <2>4, <3>1 DEF LedgerStep
    <3>3. TypeOK'
      BY <1>1, NextKeepsTypes DEF Next
    <3>4. k \in DOMAIN partitions'
      BY <2>2, <3>3 DEF TypeOK, PartitionMap
    <3> QED
      BY <3>1, <3>2, <3>4 DEF Held
  <2>5. ASSUME LedgerStep(k), k \in Held(partitions')
        PROVE  /\ Held(partitions[k].completed) \cap Held(partitions'[k].pending) = {}
               /\ \/ LedgerIds(partitions[k]) \subseteq LedgerIds(partitions'[k])
                  \/ LedgerIds(partitions'[k]) = {}
    <3>1. /\ PendingAt(partitions, k) = Held(partitions[k].pending)
          /\ CompletedAt(partitions, k) = Held(partitions[k].completed)
          /\ PendingAt(partitions', k) = Held(partitions'[k].pending)
          /\ CompletedAt(partitions', k) = Held(partitions'[k].completed)
      BY <1>1, <2>5, LedgersAt
    <3>2. CASE KeepsLedger(k)
      BY <2>1, <3>1, <3>2 DEF KeepsLedger, LedgerIds
    <3>3. CASE ClearsLedger(k)
      BY <3>1, <3>3 DEF ClearsLedger, LedgerIds
    <3>4. ASSUME NEW d \in Ids, OpensDecision(k, d)
          PROVE  /\ Held(partitions[k].completed) \cap Held(partitions'[k].pending) = {}
                 /\ LedgerIds(partitions[k]) \subseteq LedgerIds(partitions'[k])
      BY <2>1, <3>1, <3>4 DEF OpensDecision, LedgerIds
    <3>5. ASSUME NEW d \in Ids, CompletesDecision(k, d)
          PROVE  /\ Held(partitions[k].completed) \cap Held(partitions'[k].pending) = {}
                 /\ LedgerIds(partitions[k]) \subseteq LedgerIds(partitions'[k])
      BY <2>1, <3>1, <3>5 DEF CompletesDecision, LedgerIds
    <3> QED
      BY <2>5, <3>2, <3>3, <3>4, <3>5 DEF LedgerStep
  <2>6. CASE partitions' = partitions
    BY <1>1, <2>3, <2>6
  <2>7. ASSUME NEW l \in Scopes, LedgerStep(l)
        PROVE  /\ k \in Held(partitions')
               /\ Held(partitions[k].completed) \cap Held(partitions'[k].pending) = {}
               /\ \/ LedgerIds(partitions[k]) \subseteq LedgerIds(partitions'[k])
                  \/ LedgerIds(partitions'[k]) = {}
    BY <2>3, <2>4, <2>5, <2>7
  <2> QED
    BY <1>1, <2>6, <2>7, ServeLedgerStep
<1>2. TypeOK /\ LedgersDisjoint /\ [Serve]_vars =>
        [\A k \in Held(partitions) :
           /\ k \in Held(partitions')
           /\ Held(partitions[k].completed) \cap Held(partitions'[k].pending) = {}
           /\ LedgerIds(partitions[k]) \subseteq LedgerIds(partitions'[k])
                \/ LedgerIds(partitions'[k]) = {}]_vars
  BY <1>1
<1> QED
  BY <1>2, ServingInvariants, PTL DEF ServingSpec, NoSilentEviction

\* What the abstraction sees of a decision.
StatusAt(m, k, d) ==
    IF d \in PendingAt(m, k) THEN "pending"
    ELSE IF d \in CompletedAt(m, k) THEN "completed" ELSE "unknown"

LEMMA StatusIs ==
    /\ TypeOK => LedgerStatus = [x \in Scopes \X Ids |-> StatusAt(partitions, x[1], x[2])]
    /\ TypeOK' => LedgerStatus' = [x \in Scopes \X Ids |-> StatusAt(partitions', x[1], x[2])]
<1>1. ASSUME NEW m \in PartitionMap, NEW k \in Scopes, NEW d \in Ids
      PROVE  StatusAt(m, k, d) = IF m[k] = None THEN "unknown"
                                 ELSE IF m[k].pending[d] # None THEN "pending"
                                 ELSE IF m[k].completed[d] # None THEN "completed"
                                 ELSE "unknown"
  <2>1. CASE m[k] = None
    BY <2>1 DEF StatusAt, PendingAt, CompletedAt
  <2>2. CASE m[k] # None
    <3>1. m[k] \in Partition
      BY <2>2 DEF PartitionMap
    <3>2. m[k].pending \in Ledger /\ m[k].completed \in Ledger
      BY <3>1 DEF Partition
    <3>3. /\ d \in Held(m[k].pending) <=> m[k].pending[d] # None
          /\ d \in Held(m[k].completed) <=> m[k].completed[d] # None
      BY <3>2 DEF Held, Ledger
    <3> QED
      BY <2>2, <3>3 DEF StatusAt, PendingAt, CompletedAt
  <2> QED
    BY <2>1, <2>2
<1>2. \A x \in Scopes \X Ids : x[1] \in Scopes /\ x[2] \in Ids
  OBVIOUS
<1>3. ASSUME TypeOK
      PROVE  LedgerStatus = [x \in Scopes \X Ids |-> StatusAt(partitions, x[1], x[2])]
  BY <1>1, <1>2, <1>3 DEF LedgerStatus, TypeOK
<1>4. ASSUME TypeOK'
      PROVE  LedgerStatus' = [x \in Scopes \X Ids |-> StatusAt(partitions', x[1], x[2])]
  BY <1>1, <1>2, <1>4 DEF LedgerStatus, TypeOK
<1> QED
  BY <1>3, <1>4

\* Every step of a serving engine is a step of the abstract ledger or leaves it
\* alone.
LEMMA ServeRefines ==
    ASSUME TypeOK, LedgersDisjoint, [Serve]_vars
    PROVE  [Feedback!Next]_LedgerStatus
<1>1. TypeOK'
  BY NextKeepsTypes DEF Next
<1>2. /\ LedgerStatus = [x \in Scopes \X Ids |-> StatusAt(partitions, x[1], x[2])]
      /\ LedgerStatus' = [x \in Scopes \X Ids |-> StatusAt(partitions', x[1], x[2])]
  BY <1>1, StatusIs
<1>3. CASE partitions' = partitions
  BY <1>2, <1>3
<1>4. ASSUME NEW l \in Scopes, LedgerStep(l)
      PROVE  [Feedback!Next]_LedgerStatus
  <2>1. \A k \in Scopes, d \in Ids :
          k # l => StatusAt(partitions', k, d) = StatusAt(partitions, k, d)
    BY <1>4 DEF LedgerStep, StatusAt, PendingAt, CompletedAt
  <2>2. CASE KeepsLedger(l)
    <3>1. \A k \in Scopes, d \in Ids : StatusAt(partitions', k, d) = StatusAt(partitions, k, d)
      BY <2>1, <2>2 DEF KeepsLedger, StatusAt
    <3> QED
      BY <1>2, <3>1
  <2>3. CASE ClearsLedger(l)
    <3> DEFINE S == {l} \X Ids
    <3>1. \A d \in Ids : StatusAt(partitions', l, d) = "unknown"
      BY <2>3 DEF ClearsLedger, StatusAt
    <3>2. S \in SUBSET (Scopes \X Ids)
      OBVIOUS
    <3>3. LedgerStatus' = [x \in Scopes \X Ids |->
                             IF x \in S THEN "unknown" ELSE LedgerStatus[x]]
      BY <1>2, <2>1, <3>1
    <3>4. Feedback!Forget(S)
      BY <3>3 DEF Feedback!Forget
    <3> QED
      BY <3>2, <3>4 DEF Feedback!Next
  <2>4. ASSUME NEW d \in Ids, OpensDecision(l, d)
        PROVE  Feedback!Open(<<l, d>>)
    <3>1. StatusAt(partitions, l, d) = "unknown" /\ StatusAt(partitions', l, d) = "pending"
      BY <2>4 DEF OpensDecision, StatusAt
    <3>2. \A e \in Ids : e # d => StatusAt(partitions', l, e) = StatusAt(partitions, l, e)
      BY <2>4 DEF OpensDecision, StatusAt
    <3>3. LedgerStatus' = [LedgerStatus EXCEPT ![<<l, d>>] = "pending"]
      <4>1. \A x \in Scopes \X Ids :
              StatusAt(partitions', x[1], x[2]) =
                IF x = <<l, d>> THEN "pending" ELSE StatusAt(partitions, x[1], x[2])
        <5> TAKE x \in Scopes \X Ids
        <5>1. x[1] \in Scopes /\ x[2] \in Ids /\ x = <<x[1], x[2]>>
          OBVIOUS
        <5>2. CASE x[1] # l
          BY <2>1, <5>1, <5>2
        <5>3. CASE x[1] = l /\ x[2] # d
          BY <3>2, <5>1, <5>3
        <5>4. CASE x[1] = l /\ x[2] = d
          BY <3>1, <5>1, <5>4
        <5> QED
          BY <5>2, <5>3, <5>4
      <4> QED
        BY <1>2, <4>1
    <3>4. LedgerStatus[<<l, d>>] = "unknown"
      BY <1>2, <3>1
    <3> QED
      BY <3>3, <3>4 DEF Feedback!Open
  <2>5. ASSUME NEW d \in Ids, CompletesDecision(l, d)
        PROVE  Feedback!Apply(<<l, d>>)
    <3>1. StatusAt(partitions, l, d) = "pending" /\ StatusAt(partitions', l, d) = "completed"
      BY <2>5 DEF CompletesDecision, StatusAt
    <3>2. \A e \in Ids : e # d => StatusAt(partitions', l, e) = StatusAt(partitions, l, e)
      BY <2>5 DEF CompletesDecision, StatusAt
    <3>3. LedgerStatus' = [LedgerStatus EXCEPT ![<<l, d>>] = "completed"]
      <4>1. \A x \in Scopes \X Ids :
              StatusAt(partitions', x[1], x[2]) =
                IF x = <<l, d>> THEN "completed" ELSE StatusAt(partitions, x[1], x[2])
        <5> TAKE x \in Scopes \X Ids
        <5>1. x[1] \in Scopes /\ x[2] \in Ids /\ x = <<x[1], x[2]>>
          OBVIOUS
        <5>2. CASE x[1] # l
          BY <2>1, <5>1, <5>2
        <5>3. CASE x[1] = l /\ x[2] # d
          BY <3>2, <5>1, <5>3
        <5>4. CASE x[1] = l /\ x[2] = d
          BY <3>1, <5>1, <5>4
        <5> QED
          BY <5>2, <5>3, <5>4
      <4> QED
        BY <1>2, <4>1
    <3>4. LedgerStatus[<<l, d>>] = "pending"
      BY <1>2, <3>1
    <3> QED
      BY <3>3, <3>4 DEF Feedback!Apply
  <2> QED
    BY <1>4, <2>2, <2>3, <2>4, <2>5 DEF LedgerStep, Feedback!Next
<1> QED
  BY <1>3, <1>4, ServeLedgerStep

\* The engine implements the abstract ledger in every namespace: a decision is
\* opened once and its outcome applied at most once, until its ledger is cleared.
THEOREM EngineImplementsDelayedFeedback == ServingSpec => ImplementsDelayedFeedback
<1>1. Init => Feedback!Init
  <2> SUFFICES ASSUME Init PROVE Feedback!Init
    OBVIOUS
  <2>1. LedgerStatus = [x \in Scopes \X Ids |-> "unknown"]
    BY DEF Init, LedgerStatus
  <2> QED
    BY <2>1 DEF Feedback!Init
<1>2. TypeOK /\ LedgersDisjoint /\ [Serve]_vars => [Feedback!Next]_LedgerStatus
  BY ServeRefines
<1> QED
  BY <1>1, <1>2, ServingInvariants, PTL DEF ServingSpec, ImplementsDelayedFeedback, Feedback!Spec

-----------------------------------------------------------------------------
(* The ledger of a namespace is about its active state.                    *)

\* The inductive strengthening: no state a partition holds, active or kept
\* aside, has learned from a decision made after it.
StatesArePast(p) == \A s \in Snapshots(p) : LearnedIsPast(s)

PendingIsAhead(p) ==
    \A d \in Held(p.pending) :
      p.pending[d].gen <= p.snapshot.gen /\ <<d, p.pending[d].gen>> \notin p.snapshot.learned

CompletedIsLearned(p) ==
    \A d \in Held(p.completed) : <<d, p.completed[d].gen>> \in p.snapshot.learned

Matched(p) == StatesArePast(p) /\ PendingIsAhead(p) /\ CompletedIsLearned(p)

MatchedInv == \A k \in Held(partitions) : Matched(partitions[k])

\* An empty ledger is about any state.
LEMMA EmptyIsMatched ==
    /\ \A q : q.pending = EmptyLedger /\ q.completed = EmptyLedger
              => PendingIsAhead(q) /\ CompletedIsLearned(q)
    /\ \A g : LearnedIsPast(InitialSnapshot(g))
    /\ Matched(InitialPartition)
<1>1. ASSUME NEW q, q.pending = EmptyLedger, q.completed = EmptyLedger
      PROVE  PendingIsAhead(q) /\ CompletedIsLearned(q)
  <2>1. Held(q.pending) = {} /\ Held(q.completed) = {}
    BY <1>1, EmptyLedgerHoldsNothing
  <2> QED
    BY <2>1 DEF PendingIsAhead, CompletedIsLearned
<1>2. \A g : LearnedIsPast(InitialSnapshot(g))
  BY DEF LearnedIsPast, InitialSnapshot
<1>3. /\ InitialPartition.snapshot = InitialSnapshot(InitialGeneration)
      /\ InitialPartition.previousGood = None /\ InitialPartition.candidate = None
      /\ InitialPartition.pending = EmptyLedger /\ InitialPartition.completed = EmptyLedger
  BY DEF InitialPartition
<1>4. StatesArePast(InitialPartition)
  BY <1>2, <1>3 DEF StatesArePast, Snapshots
<1> QED
  BY <1>1, <1>2, <1>3, <1>4 DEF Matched

\* A committed result keeps a ledger about its state: the state learns exactly
\* the decision whose entry moves, and a new decision is of a later generation
\* than anything learned.
LEMMA AdvancedIsMatched ==
    ASSUME TypeOK, NEW r \in Request, NEW out \in HandlerResult, CallsHandler(r),
           Target(r).snapshot.gen # MaxGeneration, Matched(Target(r))
    PROVE  Matched(Advanced(r, Target(r), out))
<1> DEFINE p == Target(r)
<1> DEFINE q == Advanced(r, p, out)
<1>1. p \in Partition /\ q \in Partition
  BY OpenedType, AdvancedType
<1>2. /\ p.snapshot \in Snapshot /\ p.snapshot.gen \in Nat
      /\ p.pending \in Ledger /\ p.completed \in Ledger
      /\ p.snapshot # None
  <2>1. p.snapshot \in Snapshot /\ p.pending \in Ledger /\ p.completed \in Ledger
    BY <1>1 DEF Partition
  <2>2. p.snapshot.gen \in Nat
    BY <2>1 DEF Snapshot, Generations
  <2> QED
    BY <2>1, <2>2, EntryIsHeld
<1>3. /\ q.snapshot.gen = p.snapshot.gen + 1
      /\ q.snapshot.learned = Learned(r, p)
      /\ q.previousGood = p.snapshot /\ q.candidate = p.candidate
  <2>1. /\ q.snapshot = [gen |-> p.snapshot.gen + 1, bytes |-> out.bytes,
                         intact |-> out.intact, learned |-> Learned(r, p)]
        /\ q.previousGood = p.snapshot /\ q.candidate = p.candidate
    BY AdvancedFields
  <2> HIDE DEF p, q
  <2> QED
    BY <2>1
<1>4. q.pending = NextPending(r, p, out) /\ q.completed = NextCompleted(r, p)
  <2> HIDE DEF p
  <2> QED
    BY <1>1 DEF Advanced, Partition
<1>5. r.id \in Ids /\ r.decision \in Ids
  BY DEF Request
<1>6. LearnedIsPast(p.snapshot)
  BY <1>2 DEF Matched, StatesArePast, Snapshots
<1>7. \A d \in p.snapshot.learned : d[2] \in Nat /\ d[2] <= p.snapshot.gen
  BY <1>2, <1>6 DEF LearnedIsPast, Snapshot, Decisions, Generations
<1>8. \A d \in Held(p.pending) : /\ p.pending[d].gen \in Nat
                                 /\ p.pending[d].gen <= p.snapshot.gen
                                 /\ <<d, p.pending[d].gen>> \notin p.snapshot.learned
  <2>1. \A d \in Held(p.pending) : p.pending[d] \in Entry
    BY <1>2 DEF Held, Ledger
  <2>2. \A e \in Entry : e.gen \in Nat
    BY DEF Entry, Generations
  <2> QED
    BY <2>1, <2>2 DEF Matched, PendingIsAhead
<1>9. \A d \in Held(p.completed) : <<d, p.completed[d].gen>> \in p.snapshot.learned
  BY DEF Matched, CompletedIsLearned
<1>10. r.method = "feedback" => r.decision \in Held(p.pending)
  BY FeedbackIsPending
<1>11. StatesArePast(q)
  <2>1. LearnedIsPast(q.snapshot)
    <3>1. \A d \in Learned(r, p) : d[2] \in Nat /\ d[2] <= p.snapshot.gen
      <4> HIDE DEF p
      <4> QED
        BY <1>7, <1>8, <1>10 DEF Learned
    <3> HIDE DEF p, q
    <3> QED
      BY <1>2, <1>3, <3>1 DEF LearnedIsPast
  <2>2. p.candidate # None => LearnedIsPast(p.candidate)
    BY DEF Matched, StatesArePast, Snapshots
  <2> HIDE DEF p, q
  <2> QED
    BY <1>3, <1>6, <2>1, <2>2 DEF StatesArePast, Snapshots
<1>12. PendingIsAhead(q) /\ CompletedIsLearned(q)
  <2>1. CASE r.method = "decide"
    <3>1. q.pending = [p.pending EXCEPT ![r.id] = NewEntry(r, p, out)]
      BY <1>4, <2>1 DEF NextPending
    <3>2. q.completed = p.completed /\ q.snapshot.learned = p.snapshot.learned
      BY <1>3, <1>4, <2>1 DEF NextCompleted, Learned
    <3>3. q.pending[r.id].gen = p.snapshot.gen + 1
          /\ \A d \in Ids : d # r.id => q.pending[d] = p.pending[d]
      <4>1. NewEntry(r, p, out).gen = p.snapshot.gen + 1
        BY DEF NewEntry
      <4> HIDE DEF p, q
      <4> QED
        BY <1>2, <1>5, <3>1, <4>1 DEF Ledger
    <3>4. Held(q.pending) \subseteq Held(p.pending) \cup {r.id} /\ Held(p.pending) \subseteq Ids
      <4>1. Held(q.pending) \subseteq Ids /\ Held(p.pending) \subseteq Ids
        BY <1>1, <1>2 DEF Held, Ledger, Partition
      <4>2. \A d \in Held(q.pending) : d # r.id => p.pending[d] # None
        BY <3>3, <4>1 DEF Held
      <4> QED
        BY <1>2, <4>1, <4>2 DEF Held, Ledger
    <3>5. <<r.id, p.snapshot.gen + 1>> \notin p.snapshot.learned
      BY <1>2, <1>7
    <3> HIDE DEF p, q
    <3>6. PendingIsAhead(q)
      <4> SUFFICES ASSUME NEW d \in Held(q.pending)
                   PROVE  /\ q.pending[d].gen <= q.snapshot.gen
                          /\ <<d, q.pending[d].gen>> \notin q.snapshot.learned
        BY DEF PendingIsAhead
      <4>1. CASE d = r.id
        BY <1>2, <1>3, <3>2, <3>3, <3>5, <4>1
      <4>2. CASE d # r.id
        <5>1. d \in Held(p.pending) /\ d \in Ids /\ q.pending[d] = p.pending[d]
          BY <3>3, <3>4, <4>2
        <5> QED
          BY <1>2, <1>3, <1>8, <3>2, <5>1
      <4> QED
        BY <4>1, <4>2
    <3> QED
      BY <1>9, <3>2, <3>6 DEF CompletedIsLearned
  <2>2. CASE r.method = "feedback"
    <3>1. q.pending = [p.pending EXCEPT ![r.decision] = None]
      BY <1>4, <2>2 DEF NextPending
    <3>2. q.completed = [p.completed EXCEPT ![r.decision] =
                           [p.pending[r.decision] EXCEPT !.action = r.action]]
      BY <1>4, <2>2 DEF NextCompleted
    <3>3. q.snapshot.learned = p.snapshot.learned \cup {<<r.decision, p.pending[r.decision].gen>>}
      BY <1>3, <2>2 DEF Learned
    <3>4. p.pending[r.decision] \in Entry
      BY <1>2, <1>10, <2>2 DEF Held, Ledger
    <3> HIDE DEF p, q
    <3>5. /\ q.pending[r.decision] = None
          /\ \A d \in Ids : d # r.decision => q.pending[d] = p.pending[d]
      BY <1>2, <1>5, <3>1 DEF Ledger
    <3>6. /\ q.completed[r.decision] = [p.pending[r.decision] EXCEPT !.action = r.action]
          /\ \A d \in Ids : d # r.decision => q.completed[d] = p.completed[d]
      BY <1>2, <1>5, <3>2 DEF Ledger
    <3>7. q.completed[r.decision].gen = p.pending[r.decision].gen
      BY <3>4, <3>6 DEF Entry
    <3>8. q.pending \in Ledger /\ q.completed \in Ledger
      BY <1>1 DEF Partition
    <3>9. \A d \in Held(q.pending) : d \in Ids /\ d # r.decision /\ d \in Held(p.pending)
      BY <1>2, <3>5, <3>8 DEF Held, Ledger
    <3>10. \A d \in Held(q.completed) : d \in Ids /\ (d # r.decision => d \in Held(p.completed))
      BY <1>2, <3>6, <3>8 DEF Held, Ledger
    <3>11. PendingIsAhead(q)
      <4> SUFFICES ASSUME NEW d \in Held(q.pending)
                   PROVE  /\ q.pending[d].gen <= q.snapshot.gen
                          /\ <<d, q.pending[d].gen>> \notin q.snapshot.learned
        BY DEF PendingIsAhead
      <4>1. d \in Held(p.pending) /\ d # r.decision /\ q.pending[d] = p.pending[d]
        BY <3>5, <3>9
      <4> QED
        BY <1>2, <1>3, <1>8, <3>3, <4>1
    <3>12. CompletedIsLearned(q)
      <4> SUFFICES ASSUME NEW d \in Held(q.completed)
                   PROVE  <<d, q.completed[d].gen>> \in q.snapshot.learned
        BY DEF CompletedIsLearned
      <4>1. CASE d = r.decision
        BY <3>3, <3>7, <4>1
      <4>2. CASE d # r.decision
        BY <1>9, <3>3, <3>6, <3>10, <4>2
      <4> QED
        BY <4>1, <4>2
    <3> QED
      BY <3>11, <3>12
  <2>3. CASE r.method \notin {"decide", "feedback"}
    <3>1. q.pending = p.pending /\ q.completed = p.completed
          /\ q.snapshot.learned = p.snapshot.learned
      BY <1>3, <1>4, <2>3 DEF NextPending, NextCompleted, Learned
    <3> HIDE DEF p, q
    <3>2. PendingIsAhead(q)
      BY <1>2, <1>3, <1>8, <3>1 DEF PendingIsAhead
    <3> QED
      BY <1>9, <3>1, <3>2 DEF CompletedIsLearned
  <2> QED
    BY <2>1, <2>2, <2>3
<1> QED
  BY <1>11, <1>12 DEF Matched

\* Each step of a serving engine keeps every ledger about its state.
LEMMA ServeKeepsMatch == TypeOK /\ MatchedInv /\ [Serve]_vars => MatchedInv'
<1> SUFFICES ASSUME TypeOK, MatchedInv, [Serve]_vars
             PROVE  \A k \in Held(partitions') : Matched(partitions'[k])
  BY DEF MatchedInv
<1>1. \A k \in Held(partitions) : Matched(partitions[k])
  BY DEF MatchedInv
<1>2. partitions \in PartitionMap
  BY DEF TypeOK
<1>3. ASSUME NEW m \in PartitionMap, \A k \in Held(m) : Matched(m[k]),
             NEW l \in Scopes, NEW q, Matched(q), partitions' = [m EXCEPT ![l] = q]
      PROVE  \A k \in Held(partitions') : Matched(partitions'[k])
  <2> TAKE k \in Held(partitions')
  <2>1. \/ [m EXCEPT ![l] = q][k] = q
        \/ k \in Held(m) /\ [m EXCEPT ![l] = q][k] = m[k]
    BY <1>3, Replaced
  <2> QED
    BY <1>3, <2>1
<1>4. ASSUME NEW r \in Requests, Handle(r)
      PROVE  \A k \in Held(partitions') : Matched(partitions'[k])
  <2>0. r \in Request /\ r.scope \in Scopes
    BY InputsAssumption DEF Request
  <2>1. /\ Opened(r) \in PartitionMap /\ Target(r) \in Partition
        /\ \A k \in Held(Opened(r)) : Matched(Opened(r)[k])
        /\ Matched(Target(r))
    BY <1>1, <2>0, OpenedType, OpenedPartitions, TargetPartition, EmptyIsMatched
  <2>2. CASE partitions' = partitions
    BY <1>1, <2>2
  <2>3. CASE HandlerPanics(r)
    BY <2>1, <2>3 DEF HandlerPanics
  <2>4. CASE Reset(r)
    <3> DEFINE p == Target(r)
    <3> DEFINE q == ResetPartition(p)
    <3>1. /\ q.snapshot = InitialSnapshot(p.snapshot.gen + 1)
          /\ q.previousGood = p.previousGood /\ q.candidate = p.candidate
          /\ q.pending = EmptyLedger /\ q.completed = EmptyLedger
      BY <2>1, ResetFields
    <3>2. partitions' = [partitions EXCEPT ![r.scope] = q]
      BY <2>4 DEF Reset, Keeps
    <3> HIDE DEF p, q
    <3>3. StatesArePast(q)
      <4>1. LearnedIsPast(q.snapshot)
        BY <3>1, EmptyIsMatched
      <4> QED
        BY <2>1, <3>1, <4>1 DEF Matched, StatesArePast, Snapshots, p
    <3>4. Matched(q)
      BY <3>1, <3>3, EmptyIsMatched DEF Matched
    <3> QED
      BY <1>1, <1>2, <1>3, <2>0, <3>2, <3>4
  <2>5. ASSUME NEW out \in HandlerResults, Commit(r, out)
        PROVE  \A k \in Held(partitions') : Matched(partitions'[k])
    <3>1. out \in HandlerResult /\ CallsHandler(r) /\ ResultRefusal(r, Target(r), out) = "none"
      BY <2>5, InputsAssumption DEF Commit
    <3>2. Matched(Advanced(r, Target(r), out))
      BY <2>0, <2>1, <3>1, ResultIsChecked, AdvancedIsMatched
    <3> QED
      BY <1>3, <2>0, <2>1, <2>5, <3>2 DEF Commit, Keeps
  <2> QED
    BY <1>4, <2>2, <2>3, <2>4, <2>5, HandleCases
<1>5. CASE Lifecycle
  <2>1. PICK k \in Scopes : \/ Promotes(k) \/ RollsBack(k)
                            \/ \E s \in HostSnapshots : Stages(k, s)
    BY <1>5, LifecycleCases
  <2>2. k \in Held(partitions) =>
          /\ partitions[k] \in Partition /\ Matched(partitions[k])
          /\ partitions[k].snapshot # None
    <3>1. k \in Held(partitions) => partitions[k] \in Partition
      BY DEF Held, TypeOK, PartitionMap
    <3>2. \A p \in Partition : p.snapshot \in Snapshot
      BY DEF Partition
    <3> QED
      BY <1>1, <3>1, <3>2, EntryIsHeld
  <2>3. CASE Promotes(k)
    <3> DEFINE p == partitions[k]
    <3> DEFINE q == PromotedPartition(p)
    <3>1. /\ q.snapshot = p.candidate /\ q.previousGood = p.snapshot /\ q.candidate = None
          /\ q.pending = EmptyLedger /\ q.completed = EmptyLedger
      BY <2>2, <2>3, HostFields DEF Promotes
    <3>2. partitions' = [partitions EXCEPT ![k] = q] /\ p.candidate # None /\ Matched(p)
      BY <2>2, <2>3 DEF Promotes, Installs
    <3> HIDE DEF p, q
    <3>3. StatesArePast(q)
      BY <3>1, <3>2 DEF Matched, StatesArePast, Snapshots
    <3>4. Matched(q)
      BY <3>1, <3>3, EmptyIsMatched DEF Matched
    <3> QED
      BY <1>1, <1>2, <1>3, <3>2, <3>4
  <2>4. CASE RollsBack(k)
    <3> DEFINE p == partitions[k]
    <3> DEFINE q == RolledBackPartition(p)
    <3>1. /\ q.snapshot = p.previousGood /\ q.previousGood = p.snapshot /\ q.candidate = None
          /\ q.pending = EmptyLedger /\ q.completed = EmptyLedger
      BY <2>2, <2>4, HostFields DEF RollsBack
    <3>2. partitions' = [partitions EXCEPT ![k] = q] /\ p.previousGood # None /\ Matched(p)
      BY <2>2, <2>4 DEF RollsBack, Installs
    <3> HIDE DEF p, q
    <3>3. StatesArePast(q)
      BY <3>1, <3>2 DEF Matched, StatesArePast, Snapshots
    <3>4. Matched(q)
      BY <3>1, <3>3, EmptyIsMatched DEF Matched
    <3> QED
      BY <1>1, <1>2, <1>3, <3>2, <3>4
  <2>5. ASSUME NEW s \in HostSnapshots, Stages(k, s)
        PROVE  \A l \in Held(partitions') : Matched(partitions'[l])
    <3> DEFINE p == PartitionAt(k)
    <3> DEFINE q == StagedPartition(p, s)
    <3>1. Matched(p) /\ p \in Partition
      BY <1>1, PartitionAtType, EmptyIsMatched DEF PartitionAt
    <3>2. /\ q.snapshot = p.snapshot /\ q.previousGood = p.previousGood /\ q.candidate = s
          /\ q.pending = p.pending /\ q.completed = p.completed
      BY <3>1, HostFields
    <3>3. partitions' = [partitions EXCEPT ![k] = q]
      BY <2>5 DEF Stages, Installs
    <3> HIDE DEF p, q
    <3>4. StatesArePast(q)
      BY <3>1, <3>2, HostAssumption DEF Matched, StatesArePast, Snapshots
    <3>5. PendingIsAhead(q) /\ CompletedIsLearned(q)
      BY <3>1, <3>2 DEF Matched, PendingIsAhead, CompletedIsLearned
    <3> QED
      BY <1>1, <1>2, <1>3, <3>3, <3>4, <3>5 DEF Matched
  <2> QED
    BY <2>1, <2>3, <2>4, <2>5
<1>6. CASE HostCallRejected \/ UNCHANGED vars
  BY <1>1, <1>6 DEF HostCallRejected, Keeps, vars
<1> QED
  BY <1>4, <1>5, <1>6 DEF Serve

\* Feedback is learned exactly once: through every interleaving of requests,
\* resets, promotions and rollbacks, what a namespace has pending its state has
\* not learned, and what it has completed its state has.
THEOREM LedgersMatch == ServingSpec => []LedgerMatchesState
<1>1. Init => MatchedInv
  BY DEF Init, MatchedInv, Held
<1>2. MatchedInv => LedgerMatchesState
  BY DEF MatchedInv, Matched, PendingIsAhead, CompletedIsLearned, LedgerMatchesState
<1> QED
  BY <1>1, <1>2, ServeKeepsMatch, ServingInvariants, PTL DEF ServingSpec
=============================================================================
