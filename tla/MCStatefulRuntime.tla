------------------------- MODULE MCStatefulRuntime -------------------------
(***************************************************************************)
(* Small instances of StatefulRuntime for TLC.                             *)
(***************************************************************************)
EXTENDS StatefulRuntime

\* Every id a request carries in a run; the smallest stands for the ids of
\* requests whose id does not matter.
AnyId == CHOOSE d \in Ids : TRUE
AnyAction == CHOOSE a \in Actions : TRUE
AnyModel == CHOOSE g \in ModelGenerations : TRUE

BaseRequest(m, k, g) ==
    [method |-> m, scope |-> k, id |-> AnyId, gen |-> g, modelGen |-> AnyModel,
     decision |-> AnyId, action |-> AnyAction, expected |-> g, rounded |-> {},
     defect |-> "none"]

MCRequests ==
    UNION {
      {[BaseRequest("decide", k, g) EXCEPT !.id = d] : d \in Ids}
        \cup {[BaseRequest("feedback", k, g) EXCEPT !.decision = d, !.action = a] :
                d \in Ids, a \in Actions}
        \cup {[BaseRequest("reset", k, g) EXCEPT !.expected = e] : e \in {0, g}}
        \cup {BaseRequest(m, k, g) : m \in {"observe", "inspect", "snapshot"}}
      : k \in Scopes, g \in Generations }
    \cup {[BaseRequest(m, k, 0) EXCEPT !.defect = e] :
            m \in {"handshake", "health", "decide"}, k \in Scopes,
            e \in {"none", "expiredRequest", "unsupportedCapability"}}
    \cup {[BaseRequest("feedback", k, 0) EXCEPT !.modelGen = g] :
            k \in Scopes, g \in ModelGenerations}

Valid(b, a) == [bytes |-> b, intact |-> TRUE, action |-> a, output |-> "valid"]

\* Results larger than the initial state, up to one byte too many, and the ones
\* the engine refuses.
SizedResults ==
    {Valid(b, AnyAction) : b \in {MaxModelBytes, MaxModelBytes + 1}}
    \cup {[Valid(1, NoAction) EXCEPT !.intact = FALSE],
          [Valid(1, NoAction) EXCEPT !.output = "outputTooLarge"]}

\* Results of one size: what matters is whether they select an action.
PlainResults == {Valid(1, AnyAction), Valid(1, NoAction), Valid(MaxModelBytes + 1, AnyAction)}

\* What a host may stage or restore: a state exported earlier by the engine, a
\* state trained elsewhere, one that does not validate and one that is too big.
ExportedSnapshot == [gen |-> 2, bytes |-> 1, intact |-> TRUE, learned |-> {<<AnyId, 1>>}]

MCHostSnapshots ==
    {ExportedSnapshot,
     [ExportedSnapshot EXCEPT !.learned = {}, !.gen = 1, !.bytes = 2],
     [ExportedSnapshot EXCEPT !.intact = FALSE],
     [ExportedSnapshot EXCEPT !.bytes = MaxModelBytes + 1]}

\* A runtime snapshot as the engine itself would have returned it.
ExportedPartition ==
    [snapshot |-> ExportedSnapshot,
     previousGood |-> [ExportedSnapshot EXCEPT !.learned = {}, !.gen = 1],
     candidate |-> None,
     pending |-> EmptyLedger,
     completed |-> [EmptyLedger EXCEPT ![AnyId] =
                     [modelGen |-> AnyModel, gen |-> 1, action |-> AnyAction,
                      rounded |-> FALSE]]]

MCRuntimeSnapshots ==
    {[partitions |-> [k \in Scopes |-> IF k = 1 THEN ExportedPartition ELSE None], valid |-> v] :
       v \in BOOLEAN}

\* No guard reads the last response, and of the properties only those about a
\* step: states that differ in it alone need not be told apart.
StateWithoutReply == <<partitions, restartCount, lastError, poisoned, modelGeneration>>

NoHostSnapshots == {}
NoRuntimeSnapshots == {}
=============================================================================
