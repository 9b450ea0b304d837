------------------------- MODULE PreviewServeProofs -------------------------
(***************************************************************************)
(* Machine-checked proofs about PreviewServe, for every value of its       *)
(* constants: what a client was told survives every stop of the process.   *)
(***************************************************************************)
EXTENDS PreviewServe, StatefulRuntimeProofs

-----------------------------------------------------------------------------
(* The inductive invariant.                                                *)

\* A decision or feedback a client knows of is in the ledgers of a map.
InMap(m, a) ==
    /\ m[a[2]] # None
    /\ a[3] \in IF a[1] = "feedback" THEN Held(m[a[2]].completed) ELSE LedgerIds(m[a[2]])

\* The file holds what the engine holds; no file stands for no namespaces.
Saved == file = partitions \/ (file = NoFile /\ Held(partitions) = {})

\* What the process can be in the middle of, by its place in the loop.
Between ==
    /\ pc \in {"handled", "persisted"} => inflight \in Requests
    /\ pc = "idle" \/ (pc = "handled" /\ ~changed) => Saved
    /\ pc = "handled" /\ changed => Held(partitions) # {}
    /\ pc = "persisted" => file = partitions

\* What was acknowledged is in the file; while a request is being handled it is
\* in the engine as well, with what the answer is about to acknowledge.
Remembered ==
    /\ \A a \in acked : file # NoFile /\ InMap(file, a)
    /\ pc = "handled" => \A a \in acked : InMap(partitions, a)
    /\ pc \in {"handled", "persisted"} =>
         \A a \in Accepted(inflight, reply) : InMap(partitions, a)

\* A client that waits for a reset has given up its claims on the namespace.
GivenUp ==
    inflight # NoRequest /\ inflight.method = "reset" => \A a \in acked : a[2] # inflight.scope

\* The invariants of the engine, and the same of what it left in the file, which
\* would be restored if every feature in it read back as it was written.
EngineInv == ~poisoned /\ HeldStateIsBounded /\ MatchedInv

FileInv ==
    file # NoFile =>
      /\ Restorable([partitions |-> file, valid |-> TRUE])
      /\ \A k \in Held(file) : Matched(file[k])

ServeInv == ServeTypeOK /\ EngineInv /\ FileInv /\ Between /\ Remembered /\ GivenUp
-----------------------------------------------------------------------------
(* What a request does to the entries of the ledgers.                      *)

\* The messages of an acknowledgement are not those of any other answer.
LEMMA AnswersAreDistinct ==
    /\ EngineErrors \cap Answers = {} /\ HandlerErrors \cap Answers = {}
    /\ "feedbackApplied" \notin Answers \cup HandlerErrors \cup EnvelopeDefects
    /\ "result" \in Answers
BY ConstantsAssumption, ServeAssumption DEF EngineErrors, EnvelopeDefects, Answers

\* A request that is handled keeps every entry of every ledger, unless it is the
\* reset of that namespace.
LEMMA HandleKeepsEntries ==
    ASSUME TypeOK, ~poisoned', NEW r \in Requests, Handle(r),
           NEW a \in {"decide", "feedback"} \X Scopes \X Ids, InMap(partitions, a),
           r.method = "reset" => a[2] # r.scope
    PROVE  InMap(partitions', a)
<1>1. r \in Request /\ r.scope \in Scopes /\ a[2] \in Scopes /\ a[1] \in {"decide", "feedback"}
  BY InputsAssumption DEF Request
<1>2. partitions \in PartitionMap /\ a[2] \in Held(partitions)
  BY <1>1 DEF TypeOK, PartitionMap, Held, InMap
<1>3. CASE partitions' = partitions
  BY <1>3
<1>4. CASE HandlerPanics(r)
  BY <1>4 DEF HandlerPanics
<1>5. CASE Reset(r)
  <2>1. partitions'[a[2]] = partitions[a[2]]
    BY <1>1, <1>2, <1>5 DEF Reset, Keeps, PartitionMap
  <2> QED
    BY <2>1 DEF InMap
<1>6. ASSUME NEW out \in HandlerResults, Commit(r, out)
      PROVE  InMap(partitions', a)
  <2> DEFINE q == Advanced(r, Target(r), out)
  <2>1. /\ out \in HandlerResult /\ CallsHandler(r)
        /\ ResultRefusal(r, Target(r), out) = "none"
        /\ partitions' = [Opened(r) EXCEPT ![r.scope] = q]
    BY <1>6, InputsAssumption DEF Commit, Keeps
  <2>2. Opened(r) \in PartitionMap /\ a[2] \in Held(Opened(r)) /\ Opened(r)[a[2]] = partitions[a[2]]
    <3>1. Opened(r) \in PartitionMap
      BY <1>1, OpenedType
    <3>2. Opened(r)[a[2]] = partitions[a[2]]
      BY <1>1, <1>2 DEF Opened, PartitionMap, Held
    <3> QED
      BY <1>2, <3>1, <3>2 DEF Held, PartitionMap
  <2>3. CASE a[2] # r.scope
    <3>1. partitions'[a[2]] = partitions[a[2]]
      BY <1>1, <2>1, <2>2, <2>3 DEF PartitionMap
    <3> QED
      BY <3>1 DEF InMap
  <2>4. CASE a[2] = r.scope
    <3>1. partitions'[a[2]] = q
      BY <1>1, <2>1, <2>2, <2>4 DEF PartitionMap
    <3>2. Target(r) = partitions[a[2]]
      BY <2>2, <2>4 DEF Target
    <3>3. q \in Partition /\ q # None
      BY <1>1, <2>1, ResultIsChecked, AdvancedType, EntryIsHeld
    <3>4. /\ Held(Target(r).completed) \subseteq Held(q.completed)
          /\ LedgerIds(Target(r)) \subseteq LedgerIds(q)
      <4>1. Target(r).snapshot.gen # MaxGeneration
        BY <2>1, ResultIsChecked
      <4>2. /\ Held(q.pending) = IF r.method = "decide" THEN Held(Target(r).pending) \cup {r.id}
                                 ELSE IF r.method = "feedback" THEN Held(Target(r).pending) \ {r.decision}
                                 ELSE Held(Target(r).pending)
            /\ Held(q.completed) = IF r.method = "feedback" THEN Held(Target(r).completed) \cup {r.decision}
                                   ELSE Held(Target(r).completed)
        BY <1>1, <2>1, <4>1, AdvancedLedgers
      <4> HIDE DEF q
      <4> QED
        BY <4>2 DEF LedgerIds
    <3> QED
      BY <3>1, <3>2, <3>3, <3>4 DEF InMap
  <2> QED
    BY <2>3, <2>4
<1> QED
  BY <1>3, <1>4, <1>5, <1>6, HandleCases

\* What an answer acknowledges is in the ledgers by then: the decision that was
\* just made, and the feedback that was just learned or had been before.
LEMMA HandleAnswers ==
    ASSUME TypeOK, ~poisoned', NEW r \in Requests, Handle(r), NEW a \in Accepted(r, reply')
    PROVE  InMap(partitions', a) /\ a \in {"decide", "feedback"} \X Scopes \X Ids
<1>1. r \in Request /\ r.scope \in Scopes /\ r.id \in Ids /\ r.decision \in Ids
  BY InputsAssumption DEF Request
<1>2. \/ /\ r.method = "feedback" /\ reply'.kind \in {"result", "feedbackApplied"}
         /\ a = <<"feedback", r.scope, r.decision>>
      \/ /\ r.method = "decide" /\ reply'.kind = "result"
         /\ a = <<"decide", r.scope, r.id>>
  BY DEF Accepted
<1>3. a \in {"decide", "feedback"} \X Scopes \X Ids /\ a[2] = r.scope
  BY <1>1, <1>2
<1>4. ASSUME NEW out \in HandlerResults, Commit(r, out)
      PROVE  InMap(partitions', a)
  <2> DEFINE q == Advanced(r, Target(r), out)
  <2>1. /\ out \in HandlerResult /\ CallsHandler(r)
        /\ ResultRefusal(r, Target(r), out) = "none"
        /\ partitions' = [Opened(r) EXCEPT ![r.scope] = q]
    BY <1>4, InputsAssumption DEF Commit, Keeps
  <2>2. partitions'[r.scope] = q
    BY <1>1, <2>1, OpenedType DEF PartitionMap
  <2>3. q \in Partition /\ q # None
    BY <1>1, <2>1, ResultIsChecked, AdvancedType, EntryIsHeld
  <2>4. /\ r.method = "decide" => r.id \in Held(q.pending)
        /\ r.method = "feedback" => r.decision \in Held(q.completed)
    BY <1>1, <2>1, ResultIsChecked, AdvancedLedgers
  <2> QED
    BY <1>2, <1>3, <2>2, <2>3, <2>4 DEF InMap, LedgerIds
<1>5. CASE RefuseRequest(r)
  <2>1. /\ NamespaceRefusal(r) = "none" /\ RequestRefusal(r, Target(r)) # "none"
        /\ reply'.kind = RequestRefusal(r, Target(r)) /\ partitions' = Opened(r)
    BY <1>5 DEF RefuseRequest, Responds, Keeps
  <2>2. reply'.kind # "result"
    <3>1. [bytes |-> 0, intact |-> TRUE, action |-> NoAction, output |-> "valid"] \in HandlerResult
      BY DEF HandlerResult
    <3>2. reply'.kind \in EngineErrors
      BY <1>1, <2>1, <3>1, RefusalTypes
    <3> QED
      BY <3>2, AnswersAreDistinct
  <2>3. r.method = "feedback" /\ reply'.kind = "feedbackApplied"
    BY <1>2, <2>2
  <2>4. r.decision \in Held(Target(r).completed)
    BY <2>1, <2>3 DEF RequestRefusal, FeedbackRefusal
  <2>5. /\ r.scope \in Held(partitions) /\ partitions' = partitions
        /\ Target(r) = partitions[r.scope]
    BY <1>1, <2>1, NothingOpened
  <2> QED
    BY <1>2, <1>3, <2>3, <2>4, <2>5 DEF InMap, Held
<1>6. CASE /\ ~RefuseRequest(r)
           /\ \A out \in HandlerResults : ~Commit(r, out)
  <2>1. ~HandlerPanics(r)
    BY DEF HandlerPanics
  <2>2. ~RefuseEnvelope(r) /\ ~RefuseNamespace(r) /\ ~RefusePoisoned(r)
    <3>1. EnvelopeRefusal(r) \in EnvelopeDefects \cup {"modelGenerationMismatch", "none"}
      BY <1>1 DEF EnvelopeRefusal, Request
    <3>2. {"result", "feedbackApplied"} \cap EnvelopeDefects = {}
      BY DEF EnvelopeDefects
    <3>3. NamespaceRefusal(r) \in {"partitionCapacity", "namespaceMissing", "none"}
      BY DEF NamespaceRefusal
    <3> QED
      BY <1>2, <3>1, <3>2, <3>3 DEF RefuseEnvelope, RefuseNamespace, RefusePoisoned, Responds
  <2>3. ~AnswerHandshake(r) /\ ~AnswerHealth(r) /\ ~AnswerSnapshot(r) /\ ~Reset(r) /\ ~RefuseEvent(r)
    BY <1>2 DEF AnswerHandshake, AnswerHealth, AnswerSnapshot, Reset, RefuseEvent, Responds
  <2>4. \A error \in HandlerErrors : ~HandlerFails(r, error)
    BY <1>2, AnswersAreDistinct DEF HandlerFails, Responds
  <2>5. ASSUME NEW out \in HandlerResults, RefuseResult(r, out)
        PROVE  FALSE
    <3>1. out.output \in {"valid", "invalidOutput", "outputTooLarge"}
      BY InputsAssumption DEF HandlerResult
    <3>2. ResultRefusal(r, Target(r), out) \notin {"result", "feedbackApplied"}
      BY <3>1 DEF ResultRefusal
    <3> QED
      BY <1>2, <2>5, <3>2 DEF RefuseResult, Responds
  <2> QED
    BY <1>6, <2>1, <2>2, <2>3, <2>4, <2>5 DEF Handle
<1> QED
  BY <1>3, <1>4, <1>5, <1>6
\* An answer acknowledges decisions and feedback of the namespace it is about.
LEMMA AcceptedType ==
    ASSUME NEW r \in Requests, NEW answer
    PROVE  Accepted(r, answer) \subseteq {"decide", "feedback"} \X Scopes \X Ids
<1>1. r.scope \in Scopes /\ r.id \in Ids /\ r.decision \in Ids
  BY InputsAssumption DEF Request
<1> QED
  BY <1>1 DEF Accepted

\* A request that changes the namespaces leaves at least one.
LEMMA HandleLeavesNamespaces ==
    ASSUME TypeOK, ~poisoned', NEW r \in Requests, Handle(r), partitions' # partitions
    PROVE  Held(partitions') # {}
<1>1. r \in Request /\ r.scope \in Scopes
  BY InputsAssumption DEF Request
<1>2. CASE Reset(r)
  <2>1. /\ Target(r) = partitions[r.scope] /\ Target(r).snapshot.gen # MaxGeneration
        /\ Target(r) \in Partition /\ partitions \in PartitionMap
    BY <1>1, <1>2, ResetIsChecked, OpenedType DEF Reset, TypeOK
  <2>2. ResetPartition(Target(r)) \in Partition
    BY <2>1, ResetType
  <2>3. partitions'[r.scope] # None /\ r.scope \in DOMAIN partitions'
    BY <1>1, <1>2, <2>1, <2>2, EntryIsHeld DEF Reset, Keeps, PartitionMap
  <2> QED
    BY <2>3 DEF Held
<1>3. ASSUME NEW out \in HandlerResults, Commit(r, out)
      PROVE  Held(partitions') # {}
  <2>1. /\ out \in HandlerResult /\ CallsHandler(r)
        /\ ResultRefusal(r, Target(r), out) = "none"
        /\ partitions' = [Opened(r) EXCEPT ![r.scope] = Advanced(r, Target(r), out)]
    BY <1>3, InputsAssumption DEF Commit, Keeps
  <2>2. Advanced(r, Target(r), out) # None
    BY <1>1, <2>1, ResultIsChecked, AdvancedType, EntryIsHeld
  <2>3. partitions'[r.scope] # None /\ r.scope \in DOMAIN partitions'
    BY <1>1, <2>1, <2>2, OpenedType DEF PartitionMap
  <2> QED
    BY <2>3 DEF Held
<1> QED
  BY <1>2, <1>3, HandleCases DEF HandlerPanics

-----------------------------------------------------------------------------
(* The invariant is inductive.                                             *)

\* A new engine is sound, and holds nothing.
LEMMA FreshEngineIsSound ==
    ASSUME FreshEngine, modelGeneration' \in ModelGenerations
    PROVE  TypeOK' /\ EngineInv' /\ Held(partitions') = {}
<1>1. Held(partitions') = {}
  BY DEF FreshEngine, Held
<1>2. partitions' \in PartitionMap /\ ~poisoned' /\ lastError' = NoError
  BY DEF FreshEngine, PartitionMap
<1>3. restartCount' \in 0 .. MaxRestarts /\ reply' \in Reply
  BY ConstantsAssumption DEF FreshEngine, Reply, Generations, Answers
<1>4. TypeOK'
  <2>1. poisoned' \in BOOLEAN
    BY Zenon DEF FreshEngine
  <2> QED
    BY <1>2, <1>3, <2>1 DEF TypeOK
<1>5. WithinLimits(partitions')
  BY <1>1, NothingFits
<1>6. EngineInv'
  BY <1>1, <1>2, <1>5 DEF EngineInv, HeldStateIsBounded, MatchedInv
<1> QED
  BY <1>1, <1>4, <1>6

\* So is an engine that took its namespaces from the file.
LEMMA RestoredEngineIsSound ==
    ASSUME ServeInv, StartFromFile
    PROVE  TypeOK' /\ EngineInv'
<1>1. /\ partitions' = file /\ file \in PartitionMap
      /\ ~poisoned' /\ lastError' = NoError /\ modelGeneration' \in ModelGenerations
  BY DEF StartFromFile, ServeInv, ServeTypeOK
<1>2. restartCount' \in 0 .. MaxRestarts /\ reply' \in Reply
  BY ConstantsAssumption DEF StartFromFile, Reply, Generations, Answers
<1>3. TypeOK'
  <2>1. poisoned' \in BOOLEAN
    BY Zenon DEF StartFromFile
  <2> QED
    BY <1>1, <1>2, <2>1 DEF TypeOK
<1>4. /\ WithinLimits(file)
      /\ \A k \in Held(file) : \A s \in Snapshots(file[k]) : s.intact
      /\ \A k \in Held(file) : Matched(file[k])
  BY DEF StartFromFile, ReadBack, Restorable, ServeInv, FileInv
<1> QED
  BY <1>1, <1>3, <1>4 DEF EngineInv, HeldStateIsBounded, MatchedInv

\* A request that is handled to its end leaves a sound engine.
LEMMA HandledEngineIsSound ==
    ASSUME TypeOK, EngineInv, NEW r \in Requests, Handle(r), ~poisoned'
    PROVE  TypeOK' /\ EngineInv'
<1>1. [Next]_vars /\ [Serve]_vars
  BY DEF Next, Serve
<1> QED
  BY <1>1, HandleKeepsTypes, NextKeepsBounds, ServeKeepsMatch DEF EngineInv

\* The steps beside the engine leave it sound.
LEMMA UntouchedEngineIsSound ==
    ASSUME TypeOK, EngineInv, UNCHANGED vars
    PROVE  TypeOK' /\ EngineInv'
<1>1. TypeOK'
  BY StutterKeepsTypes
<1>2. EngineInv'
  BY DEF EngineInv, HeldStateIsBounded, MatchedInv, vars
<1> QED
  BY <1>1, <1>2

LEMMA ServeInitInv == ServeInit => ServeInv
<1> SUFFICES ASSUME ServeInit
             PROVE  ServeInv
  OBVIOUS
<1>1. Held(partitions) = {} /\ ~poisoned
  BY DEF ServeInit, Init, Held
<1>2. EngineInv
  BY <1>1, NothingFits DEF EngineInv, HeldStateIsBounded, MatchedInv
<1>3. ServeTypeOK
  <2>1. changed \in BOOLEAN
    BY Zenon DEF ServeInit
  <2> QED
    BY <2>1, InitTypes, ServeAssumption DEF ServeInit, ServeTypeOK
<1>4. FileInv /\ Between /\ Remembered /\ GivenUp
  BY DEF ServeInit, FileInv, Between, Remembered, GivenUp
<1> QED
  BY <1>2, <1>3, <1>4 DEF ServeInv

\* Every step of the process, and of its client, keeps the invariant.
LEMMA ServeStep == ServeInv /\ [ServeNext]_serveVars => ServeInv'
<1> SUFFICES ASSUME ServeInv, [ServeNext]_serveVars
             PROVE  ServeInv'
  OBVIOUS
<1> USE DEF ServeInv
<1>0. TypeOK /\ partitions \in PartitionMap /\ modelGeneration \in ModelGenerations
  BY DEF ServeTypeOK, TypeOK
<1>1. CASE StartEmpty
  <2>1. TypeOK' /\ EngineInv' /\ Held(partitions') = {}
    BY <1>1, FreshEngineIsSound DEF StartEmpty
  <2>2. ServeTypeOK'
    BY <1>1, <2>1 DEF ServeTypeOK, StartEmpty
  <2>3. FileInv'
    BY <1>1 DEF FileInv, StartEmpty
  <2>4. Between'
    BY <1>1, <2>1 DEF Between, Saved, StartEmpty
  <2>5. Remembered' /\ GivenUp'
    BY <1>1 DEF Remembered, GivenUp, StartEmpty, InMap
  <2> QED
    BY <2>1, <2>2, <2>3, <2>4, <2>5
<1>2. CASE StartFromFile
  <2>1. TypeOK' /\ EngineInv' /\ partitions' = file
    BY <1>2, RestoredEngineIsSound DEF StartFromFile
  <2>2. ServeTypeOK'
    BY <1>2, <2>1 DEF ServeTypeOK, StartFromFile
  <2>3. FileInv'
    BY <1>2 DEF FileInv, StartFromFile
  <2>4. Between'
    BY <1>2, <2>1 DEF Between, Saved, StartFromFile
  <2>5. Remembered' /\ GivenUp'
    BY <1>2 DEF Remembered, GivenUp, StartFromFile, InMap
  <2> QED
    BY <2>1, <2>2, <2>3, <2>4, <2>5
<1>3. CASE HandleLine
  <2>1. /\ inflight \in Requests /\ Handle(inflight) /\ ~poisoned' /\ pc = "idle" /\ pc' = "handled"
        /\ UNCHANGED <<file, inflight, stops, acked>>
        /\ changed' = (partitions' # partitions)
    BY <1>3 DEF HandleLine, ServeTypeOK
  <2>2. TypeOK' /\ EngineInv'
    BY <1>0, <2>1, HandledEngineIsSound
  <2>3. ServeTypeOK'
    <3>1. changed' \in BOOLEAN
      BY <2>1, Zenon
    <3> QED
      BY <2>1, <2>2, <3>1 DEF ServeTypeOK
  <2>4. FileInv'
    BY <2>1 DEF FileInv
  <2>5. Between'
    <3>1. Saved
      BY <2>1 DEF Between
    <3>2. changed' <=> partitions' # partitions
      BY <2>1
    <3>3. changed' => Held(partitions') # {}
      BY <1>0, <2>1, <3>2, HandleLeavesNamespaces
    <3>4. ~changed' => Saved'
      BY <2>1, <3>1, <3>2 DEF Saved
    <3> QED
      BY <2>1, <3>3, <3>4 DEF Between
  <2>6. Remembered'
    <3>1. ASSUME NEW a \in acked
          PROVE  InMap(partitions', a)
      <4>1. file # NoFile /\ InMap(file, a) /\ file = partitions
        BY <2>1, <3>1 DEF Remembered, Between, Saved
      <4>2. a \in {"decide", "feedback"} \X Scopes \X Ids
        BY <3>1 DEF ServeTypeOK
      <4>3. inflight.method = "reset" => a[2] # inflight.scope
        BY <2>1, <3>1, ServeAssumption DEF GivenUp
      <4> QED
        BY <1>0, <2>1, <4>1, <4>2, <4>3, HandleKeepsEntries
    <3>2. \A a \in Accepted(inflight, reply') : InMap(partitions', a)
      BY <1>0, <2>1, HandleAnswers
    <3>3. Accepted(inflight, reply)' = Accepted(inflight, reply')
      BY <2>1 DEF Accepted
    <3>4. \A a \in acked : file # NoFile /\ InMap(file, a)
      BY DEF Remembered
    <3> QED
      BY <2>1, <3>1, <3>2, <3>3, <3>4 DEF Remembered, InMap
  <2>7. GivenUp'
    BY <2>1 DEF GivenUp
  <2> QED
    BY <2>2, <2>3, <2>4, <2>5, <2>6, <2>7
<1>4. CASE Persist
  <2>1. UNCHANGED vars /\ file' = partitions /\ inflight \in Requests /\ Held(partitions) # {}
    BY <1>4 DEF Persist, Between
  <2>2. TypeOK' /\ EngineInv'
    BY <1>0, <2>1, UntouchedEngineIsSound
  <2>3. ServeTypeOK'
    BY <1>0, <1>4, <2>2 DEF ServeTypeOK, Persist
  <2>4. FileInv'
    BY <2>1 DEF FileInv, EngineInv, HeldStateIsBounded, MatchedInv, Restorable
  <2>5. Between'
    BY <1>4, <2>1 DEF Between, Saved, Persist, vars
  <2>6. Remembered'
    BY <1>0, <1>4, <2>1, ServeAssumption DEF Remembered, Persist, vars, InMap, Accepted
  <2>7. GivenUp'
    BY <1>4 DEF GivenUp, Persist
  <2> QED
    BY <2>2, <2>3, <2>4, <2>5, <2>6, <2>7
<1>5. CASE Respond
  <2>1. /\ UNCHANGED vars /\ inflight \in Requests /\ pc \in {"handled", "persisted"} /\ Saved
        /\ pc' = "idle" /\ inflight' = NoRequest
        /\ acked' = acked \cup Accepted(inflight, reply)
        /\ UNCHANGED <<file, changed, stops>>
    BY <1>5 DEF Respond, Between, Saved
  <2>2. TypeOK' /\ EngineInv'
    BY <1>0, <2>1, UntouchedEngineIsSound
  <2>3. Accepted(inflight, reply) \subseteq {"decide", "feedback"} \X Scopes \X Ids
    BY <2>1, AcceptedType
  <2>4. ServeTypeOK'
    BY <2>1, <2>2, <2>3 DEF ServeTypeOK
  <2>5. FileInv' /\ GivenUp'
    BY <2>1 DEF FileInv, GivenUp
  <2>6. Between'
    BY <2>1 DEF Between, Saved, vars
  <2>7. Remembered'
    <3>1. ASSUME NEW a \in acked'
          PROVE  file # NoFile /\ InMap(file, a)
      <4>1. CASE a \in acked
        BY <4>1 DEF Remembered
      <4>2. CASE a \in Accepted(inflight, reply)
        <5>1. InMap(partitions, a) /\ a[2] \in Scopes
          BY <2>1, <2>3, <4>2 DEF Remembered
        <5>2. a[2] \in Held(partitions)
          BY <1>0, <5>1 DEF InMap, Held, PartitionMap
        <5> QED
          BY <1>0, <2>1, <5>1, <5>2, ServeAssumption DEF Saved
      <4> QED
        BY <2>1, <3>1, <4>1, <4>2
    <3> QED
      BY <2>1, <3>1 DEF Remembered, InMap
  <2> QED
    BY <2>2, <2>4, <2>5, <2>6, <2>7
<1>6. CASE Stop
  <2>1. TypeOK' /\ EngineInv'
    BY <1>0, <1>6, FreshEngineIsSound DEF Stop
  <2>2. ServeTypeOK'
    <3>1. changed' \in BOOLEAN
      BY <1>6, Zenon DEF Stop
    <3>2. stops' \in 0 .. MaxStops
      BY <1>6, ServeAssumption DEF Stop, ServeTypeOK
    <3> QED
      BY <1>6, <2>1, <3>1, <3>2 DEF ServeTypeOK, Stop
  <2>3. FileInv' /\ Between' /\ Remembered' /\ GivenUp'
    BY <1>6 DEF FileInv, Between, Remembered, GivenUp, Stop, InMap
  <2> QED
    BY <2>1, <2>2, <2>3
<1>7. ASSUME NEW r \in Requests, ClientSends(r)
      PROVE  ServeInv'
  <2>1. /\ UNCHANGED vars /\ pc = "idle" /\ inflight' = r
        /\ acked' = IF r.method = "reset" THEN {a \in acked : a[2] # r.scope} ELSE acked
        /\ UNCHANGED <<file, pc, changed, stops>>
    BY <1>7 DEF ClientSends
  <2>2. TypeOK' /\ EngineInv'
    BY <1>0, <2>1, UntouchedEngineIsSound
  <2>3. acked' \subseteq acked
    BY <2>1
  <2>4. ServeTypeOK'
    BY <2>1, <2>2, <2>3 DEF ServeTypeOK
  <2>5. FileInv'
    BY <2>1 DEF FileInv
  <2>6. Between'
    BY <2>1 DEF Between, Saved, vars
  <2>7. Remembered'
    BY <2>1, <2>3 DEF Remembered, InMap
  <2>8. GivenUp'
    BY <2>1 DEF GivenUp
  <2> QED
    BY <2>2, <2>4, <2>5, <2>6, <2>7, <2>8
<1>8. CASE UNCHANGED serveVars
  <2>1. UNCHANGED vars /\ UNCHANGED <<file, pc, inflight, changed, stops, acked>>
    BY <1>8 DEF serveVars, processVars
  <2>2. TypeOK' /\ EngineInv'
    BY <1>0, <2>1, UntouchedEngineIsSound
  <2>3. ServeTypeOK'
    BY <2>1, <2>2 DEF ServeTypeOK
  <2>4. FileInv' /\ Between' /\ GivenUp'
    BY <2>1 DEF FileInv, Between, Saved, GivenUp, vars
  <2>5. Remembered'
    BY <2>1 DEF Remembered, InMap, Accepted, vars
  <2> QED
    BY <2>2, <2>3, <2>4, <2>5
<1> QED
  BY <1>1, <1>2, <1>3, <1>4, <1>5, <1>6, <1>7, <1>8 DEF ServeNext, Work

LEMMA ServeInvHolds == ServeSpec => []ServeInv
BY ServeInitInv, ServeStep, PTL DEF ServeSpec

-----------------------------------------------------------------------------

\* The process variables keep their types: a file holds a map of partitions,
\* and what is acknowledged names namespaces and decisions that exist.
THEOREM ProcessTypes == ServeSpec => []ServeTypeOK
<1>1. ServeInv => ServeTypeOK
  BY DEF ServeInv
<1> QED
  BY <1>1, ServeInvHolds, PTL

\* Whatever is lost when the process is stopped, at whatever step, it is never a
\* decision or a feedback that a client was told was accepted.
THEOREM AnswersAreDurable == ServeSpec => []AcknowledgedIsDurable
<1>1. ServeInv => AcknowledgedIsDurable
  BY DEF ServeInv, Remembered, InMap, AcknowledgedIsDurable
<1> QED
  BY <1>1, ServeInvHolds, PTL

\* Feedback is learned exactly once across stops and restarts: a ledger in the
\* file is about the state that lies beside it.
THEOREM FileMatches == ServeSpec => []FileLedgerMatchesState
<1>1. ServeInv => FileLedgerMatchesState
  BY DEF ServeInv, FileInv, Matched, PendingIsAhead, CompletedIsLearned, FileLedgerMatchesState
<1> QED
  BY <1>1, ServeInvHolds, PTL

\* The process refuses its own file for no reason but a feature that JSON did
\* not give back: limits, states and ledgers of what it writes always pass.
THEOREM FileRefusedOnlyForFeatures == ServeSpec => []RefusedOnlyForFeatures
<1>1. ServeInv => RefusedOnlyForFeatures
  <2> SUFFICES ASSUME ServeInv, file # NoFile
               PROVE  Restorable(ReadBack(file)) <=> FeaturesSurvive(file)
    BY DEF RefusedOnlyForFeatures
  <2>1. Restorable([partitions |-> file, valid |-> TRUE])
    BY DEF ServeInv, FileInv
  <2>2. Restorable(ReadBack(file)) => FeaturesSurvive(file)
    BY DEF Restorable, ReadBack
  <2>3. ASSUME FeaturesSurvive(file)
        PROVE  Restorable(ReadBack(file))
    BY <2>1, <2>3 DEF Restorable, ReadBack
  <2> QED
    BY <2>2, <2>3
<1> QED
  BY <1>1, ServeInvHolds, PTL
=============================================================================
