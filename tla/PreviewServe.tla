---------------------------- MODULE PreviewServe ----------------------------
(***************************************************************************)
(* The preview-serve process of rill-runtime: one StatefulRuntimeEngineV3  *)
(* behind a line protocol on stdin and stdout, and a state file that lets  *)
(* a later process continue.  For each line the process handles the        *)
(* request, writes the runtime snapshot to the file if its checksum        *)
(* changed, and only then answers.  It may stop between any two of these   *)
(* steps, and what is not in the file is then lost.                        *)
(***************************************************************************)
EXTENDS StatefulRuntime

CONSTANTS
    NoFile,         \* the state file does not exist
    NoRequest,      \* no request is being served
    MaxStops        \* how often the process stops in a behaviour

VARIABLES
    file,           \* the partitions of the snapshot in the state file
    pc,             \* where the process is in its loop
    inflight,       \* the request the client waits for
    changed,        \* the checksums before and after the request differ
    stops,          \* how often the process has stopped
    acked           \* decisions and feedback the client knows were accepted

processVars == <<file, pc, inflight, changed, stops, acked>>
serveVars == <<vars, processVars>>

\* The process runs its built-in handler (PreviewBuiltinHandler).  None of its
\* errors has the message of the ledger's own duplicate feedback, as that of a
\* handler linked into another host might.
ASSUME ServeAssumption ==
    /\ NoFile \notin PartitionMap
    /\ NoRequest \notin Requests
    /\ MaxStops \in Nat
    /\ "feedbackApplied" \notin HandlerErrors

-----------------------------------------------------------------------------

\* The state of an engine that has just been built.
FreshEngine ==
    /\ partitions' = [k \in Scopes |-> None]
    /\ restartCount' = 0
    /\ lastError' = NoError
    /\ poisoned' = FALSE
    /\ reply' = [kind |-> "started", gen |-> 0, health |-> "unreported"]

ServeInit ==
    /\ Init
    /\ file = NoFile
    /\ pc = "down"
    /\ inflight = NoRequest
    /\ changed = FALSE
    /\ stops = 0
    /\ acked = {}

\* A new process, possibly for another model generation, starts empty when
\* there is no file.
StartEmpty ==
    /\ pc = "down" /\ file = NoFile
    /\ FreshEngine
    /\ modelGeneration' \in ModelGenerations
    /\ pc' = "idle"
    /\ UNCHANGED <<file, inflight, changed, stops, acked>>

\* The ledgers keep the features of selected actions as f64.
FeaturesSurvive(m) ==
    \A k \in Held(m), d \in Ids :
      \A e \in {m[k].pending[d], m[k].completed[d]} \ {None} : ~e.rounded

\* What the next process reads.  serde_json prints a float so that a correctly
\* rounded reading gives it back, and reads with an error of its last bit; what
\* was read is printed again to compare checksums, so one feature that did not
\* survive makes the whole snapshot invalid.
ReadBack(m) == [partitions |-> m, valid |-> FeaturesSurvive(m)]

\* With a file it starts only if restore_runtime accepts all of it; otherwise
\* the process exits, and so does every later one.
StartFromFile ==
    /\ pc = "down" /\ file # NoFile
    /\ Restorable(ReadBack(file))
    /\ partitions' = file
    /\ restartCount' = IF MaxRestarts = 0 THEN 0 ELSE 1
    /\ lastError' = NoError
    /\ poisoned' = FALSE
    /\ reply' = [kind |-> "started", gen |-> 0, health |-> "unreported"]
    /\ modelGeneration' \in ModelGenerations
    /\ pc' = "idle"
    /\ UNCHANGED <<file, inflight, changed, stops, acked>>

\* The client is free to send anything, in particular to repeat a request
\* whose answer it never got.  Asking for a reset it gives up its claims.
ClientSends(r) ==
    /\ pc = "idle" /\ inflight = NoRequest
    /\ inflight' = r
    /\ acked' = IF r.method = "reset" THEN {a \in acked : a[2] # r.scope} ELSE acked
    /\ UNCHANGED <<vars, file, pc, changed, stops>>

HandleLine ==
    /\ pc = "idle" /\ inflight # NoRequest
    /\ Handle(inflight)
    /\ ~poisoned'
    /\ changed' = (partitions' # partitions)
    /\ pc' = "handled"
    /\ UNCHANGED <<file, inflight, stops, acked>>

\* Defect: the file keeps the ledgers of the previous write.
PersistStaleLedger ==
    /\ pc = "handled" /\ changed
    /\ file' = [k \in Scopes |->
                  IF file = NoFile \/ partitions[k] = None THEN partitions[k]
                  ELSE IF file[k] = None THEN partitions[k]
                  ELSE [partitions[k] EXCEPT !.pending = file[k].pending,
                                             !.completed = file[k].completed]]
    /\ pc' = "persisted"
    /\ UNCHANGED <<vars, inflight, changed, stops, acked>>

\* Defect: only a file that exists can be replaced.
PersistExistingOnly ==
    /\ pc = "handled" /\ changed /\ file # NoFile
    /\ file' = partitions
    /\ pc' = "persisted"
    /\ UNCHANGED <<vars, inflight, changed, stops, acked>>

\* write_atomic_snapshot: the snapshot is written aside, synced and renamed
\* over the file, so the file changes in one step.
Persist ==
    /\ pc = "handled" /\ changed
    /\ file' = partitions
    /\ pc' = "persisted"
    /\ UNCHANGED <<vars, inflight, changed, stops, acked>>

Accepted(r, answer) ==
    CASE r.method = "feedback" /\ answer.kind \in {"result", "feedbackApplied"} ->
           {<<"feedback", r.scope, r.decision>>}
      [] r.method = "decide" /\ answer.kind = "result" -> {<<"decide", r.scope, r.id>>}
      [] OTHER -> {}

\* Defect: the answer is sent before the file is written.
RespondEarly ==
    /\ pc \in {"handled", "persisted"}
    /\ pc' = "idle"
    /\ inflight' = NoRequest
    /\ acked' = acked \cup Accepted(inflight, reply)
    /\ UNCHANGED <<vars, file, changed, stops>>

Respond ==
    /\ pc = "persisted" \/ (pc = "handled" /\ ~changed)
    /\ pc' = "idle"
    /\ inflight' = NoRequest
    /\ acked' = acked \cup Accepted(inflight, reply)
    /\ UNCHANGED <<vars, file, changed, stops>>

\* The process ends: killed, by a panic of the handler, by a line that is too
\* long, by a failed write or sync, or at the end of its input.
Stop ==
    /\ pc # "down" /\ stops < MaxStops
    /\ stops' = stops + 1
    /\ FreshEngine
    /\ pc' = "down"
    /\ inflight' = NoRequest
    /\ changed' = FALSE
    /\ UNCHANGED <<modelGeneration, file, acked>>

Work == StartEmpty \/ StartFromFile \/ HandleLine \/ Persist \/ Respond

ServeNext == Work \/ Stop \/ \E r \in Requests : ClientSends(r)

\* A supervisor restarts the process, and the process keeps working.
ServeSpec == ServeInit /\ [][ServeNext]_serveVars /\ WF_serveVars(Work)

-----------------------------------------------------------------------------

\* The process variables stay in their ranges.
ServeTypeOK ==
    /\ TypeOK
    /\ file \in PartitionMap \cup {NoFile}
    /\ pc \in {"down", "idle", "handled", "persisted"}
    /\ inflight \in Requests \cup {NoRequest}
    /\ changed \in BOOLEAN
    /\ stops \in 0 .. MaxStops
    /\ acked \subseteq {"decide", "feedback"} \X Scopes \X Ids

\* What a client was told was accepted is in the file, so no later stop of the
\* process loses it: the snapshot is written before the answer is sent, and a
\* duplicate is only reported for feedback that an earlier write made durable.
AcknowledgedIsDurable ==
    \A a \in acked :
      /\ file # NoFile
      /\ file[a[2]] # None
      /\ a[3] \in IF a[1] = "feedback" THEN Held(file[a[2]].completed)
                  ELSE LedgerIds(file[a[2]])

\* Feedback is learned exactly once across stops and restarts: state and ledger
\* are written together, so in the file, too, a pending decision has not been
\* learned and a completed one has.
FileLedgerMatchesState ==
    file # NoFile =>
      \A k \in Held(file) :
        /\ \A d \in Held(file[k].pending) :
             <<d, file[k].pending[d].gen>> \notin file[k].snapshot.learned
        /\ \A d \in Held(file[k].completed) :
             <<d, file[k].completed[d].gen>> \in file[k].snapshot.learned

\* The process refuses a file it wrote itself for one reason only: a feature in
\* a ledger that JSON did not give back.  No limit, no state and no empty map
\* ever keeps it from starting on what it wrote, however often it stopped.
RefusedOnlyForFeatures ==
    file # NoFile => (Restorable(ReadBack(file)) <=> FeaturesSurvive(file))

\* However the process stopped, it comes back to serving requests, unless the
\* file holds a feature that JSON does not give back: then it stays down.
AlwaysServesAgain ==
    []<>(pc = "idle" \/ (pc = "down" /\ file # NoFile /\ ~FeaturesSurvive(file)))

\* A client that waits gets an answer, or sees the process stop.
RequestsSettle == (inflight # NoRequest) ~> (inflight = NoRequest)
=============================================================================
