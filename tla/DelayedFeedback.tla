-------------------------- MODULE DelayedFeedback --------------------------
(***************************************************************************)
(* What every ledger of delayed decisions in RillML promises: a decision   *)
(* is opened once, its outcome is applied at most once after that, and it  *)
(* returns to the unknown only when it is explicitly forgotten.  Both the  *)
(* library's DecisionLedger and the ledgers of the v3 engine implement it. *)
(***************************************************************************)
CONSTANT Ids

VARIABLE status

Init == status = [d \in Ids |-> "unknown"]

Open(d) ==
    /\ status[d] = "unknown"
    /\ status' = [status EXCEPT ![d] = "pending"]

Apply(d) ==
    /\ status[d] = "pending"
    /\ status' = [status EXCEPT ![d] = "completed"]

Forget(S) ==
    status' = [d \in Ids |-> IF d \in S THEN "unknown" ELSE status[d]]

Next ==
    \/ \E d \in Ids : Open(d) \/ Apply(d)
    \/ \E S \in SUBSET Ids : Forget(S)

Spec == Init /\ [][Next]_status
=============================================================================
