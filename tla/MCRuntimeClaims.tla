-------------------------- MODULE MCRuntimeClaims --------------------------
(***************************************************************************)
(* Statements the documentation makes about the engine that the code does  *)
(* not keep.  Each is checked by a run that finds a counterexample.        *)
(***************************************************************************)
EXTENDS MCStatefulRuntime

VARIABLE
    replaced        \* the state each activated candidate replaced

claimVars == <<vars, replaced>>

\* Remembers what a promotion replaced until it is rolled back.
Remembers ==
    replaced' =
      [k \in Scopes |->
         IF PromoteCandidate(k) THEN partitions[k].snapshot
         ELSE IF RollbackPreviousGood(k) THEN None
         ELSE replaced[k]]

ClaimInit == Init /\ replaced = [k \in Scopes |-> None]

ClaimSpec == ClaimInit /\ [][Serve /\ Remembers]_claimVars

\* stateful.rs: "A failed-closed runtime never reports `Healthy`."  The summary
\* of an inspection says healthy whatever last_error is.
FailedClosedNeverHealthy == reply.health = "healthy" => lastError = NoError

\* stateful.rs: rolling back restores "the most recent previous-good state after
\* a failed activation".  One request served after the activation, an inspect
\* for instance, makes the activated state itself the previous-good one.
RollbackUndoesActivation ==
    [][\A k \in Scopes :
         replaced[k] # None /\ replaced'[k] = None
         => partitions'[k].snapshot = replaced[k]]_claimVars
=============================================================================
