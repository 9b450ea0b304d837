------------------------ MODULE DecisionLedgerProofs ------------------------
(***************************************************************************)
(* Machine-checked proofs about DecisionLedger, for every set of ids and   *)
(* every capacity.                                                         *)
(***************************************************************************)
EXTENDS DecisionLedger, FiniteSetTheorems, TLAPS

Pending == [Ids -> Decision \cup {None}]

Tombstones == [Ids -> Completed \cup {None}]

-----------------------------------------------------------------------------
(* Maps with one entry more or fewer.                                      *)

\* None is neither a decision nor a tombstone.
LEMMA NoneIsNoEntry == None \notin Decision /\ None \notin Completed
BY CapacityAssumption

\* The ids a map holds are finitely many, and one more entry adds at most one.
LEMMA StoredIsFinite ==
    ASSUME NEW m
    PROVE  IsFiniteSet(Stored(m)) /\ Cardinality(Stored(m)) \in Nat
<1>1. Stored(m) \subseteq Ids
  BY DEF Stored
<1> QED
  BY <1>1, CapacityAssumption, FS_Subset, FS_CardinalityType

\* Adding an entry under an unused id.
LEMMA StoredWith ==
    ASSUME NEW T, NEW m \in [Ids -> T], NEW d \in Ids, NEW v, v # None, d \notin Stored(m)
    PROVE  /\ Stored([m EXCEPT ![d] = v]) = Stored(m) \cup {d}
           /\ Cardinality(Stored([m EXCEPT ![d] = v])) = Cardinality(Stored(m)) + 1
<1>1. Stored([m EXCEPT ![d] = v]) = Stored(m) \cup {d}
  BY DEF Stored
<1>2. Cardinality(Stored(m) \cup {d}) = Cardinality(Stored(m)) + 1
  BY StoredIsFinite, FS_AddElement
<1> QED
  BY <1>1, <1>2

\* A map that holds fewer ids holds no more of them.
LEMMA StoredLess ==
    ASSUME NEW m, NEW n, Stored(n) \subseteq Stored(m)
    PROVE  Cardinality(Stored(n)) <= Cardinality(Stored(m))
BY StoredIsFinite, FS_Subset

-----------------------------------------------------------------------------
(* What an accepted call has checked.                                      *)

\* A decision that is registered has a legal window, values within their
\* limits, and room.
LEMMA RegisterIsChecked ==
    ASSUME NEW x \in Decision, RegisterError(x) = "none"
    PROVE  /\ x.created <= x.expires
           /\ {x.context, x.action} \cap Oversized = {}
           /\ x.id \notin Stored(pending) \cup Stored(completed)
                => ~(Cardinality(Stored(pending)) >= MaxPending)
           /\ x.id \in Stored(pending) => pending[x.id] = x
           /\ x.id \in Stored(completed) \ Stored(pending) => completed[x.id].decision = x
<1>1. x.created \in Int /\ x.expires \in Int
  BY CapacityAssumption DEF Decision, Times
<1> QED
  BY <1>1 DEF RegisterError

\* Feedback that is applied addresses a pending decision within its window.
LEMMA FeedbackIsChecked ==
    ASSUME NEW o \in Outcome, FeedbackError(o) = "none"
    PROVE  /\ o.finite
           /\ o.id \in Stored(pending) /\ o.id \notin Stored(completed)
           /\ ~(o.observed < pending[o.id].created)
           /\ ~(o.observed > pending[o.id].expires)
           /\ ~(Cardinality(Stored(completed)) >= MaxCompleted)
BY DEF FeedbackError

\* The errors are results.
LEMMA ErrorTypes ==
    /\ \A x : RegisterError(x) \in Results
    /\ \A o : FeedbackError(o) \in Results
BY DEF RegisterError, FeedbackError, Results, Errors

-----------------------------------------------------------------------------
(* Type correctness.                                                       *)

\* Every call keeps the types.
LEMMA NextKeepsTypes == LedgerTypeOK /\ [LedgerNext]_ledgerVars => LedgerTypeOK'
<1> SUFFICES ASSUME LedgerTypeOK, [LedgerNext]_ledgerVars
             PROVE  LedgerTypeOK'
  OBVIOUS
<1>1. pending \in Pending /\ completed \in Tombstones /\ result \in Results
  BY DEF LedgerTypeOK, Pending, Tombstones
<1>2. SUFFICES pending' \in Pending /\ completed' \in Tombstones /\ result' \in Results
  BY DEF LedgerTypeOK, Pending, Tombstones
<1>3. ASSUME NEW x \in Decision, Register(x)
      PROVE  pending' \in Pending /\ completed' \in Tombstones /\ result' \in Results
  <2>1. CASE RegisterRefused(x)
    BY <1>1, <2>1, ErrorTypes DEF RegisterRefused
  <2>2. CASE RegisterReplay(x)
    BY <1>1, <2>2 DEF RegisterReplay, Results
  <2>3. CASE RegisterNew(x)
    BY <1>1, <2>3 DEF RegisterNew, Results, Pending
  <2> QED
    BY <1>3, <2>1, <2>2, <2>3 DEF Register
<1>4. ASSUME NEW o \in Outcome, ApplyFeedback(o)
      PROVE  pending' \in Pending /\ completed' \in Tombstones /\ result' \in Results
  <2>1. CASE FeedbackRefused(o)
    BY <1>1, <2>1, ErrorTypes DEF FeedbackRefused
  <2>2. CASE FeedbackApplied(o)
    <3>1. o.id \in Stored(pending) /\ o.id \in Ids
      BY <2>2, FeedbackIsChecked DEF FeedbackApplied, Outcome
    <3>2. pending[o.id] \in Decision
      BY <1>1, <3>1 DEF Stored, Pending
    <3>3. [decision |-> pending[o.id], observed |-> o.observed, finite |-> o.finite] \in Completed
      BY <3>2 DEF Completed, Outcome
    <3> QED
      BY <1>1, <2>2, <3>1, <3>3 DEF FeedbackApplied, Results, Pending, Tombstones
  <2> QED
    BY <1>4, <2>1, <2>2 DEF ApplyFeedback
<1>5. ASSUME NEW t \in Times, ClearExpired(t) \/ ClearCompletedBefore(t)
      PROVE  pending' \in Pending /\ completed' \in Tombstones /\ result' \in Results
  BY <1>1, <1>5 DEF ClearExpired, ClearCompletedBefore, Results, Pending, Tombstones
<1>6. CASE UNCHANGED ledgerVars
  BY <1>1, <1>6 DEF ledgerVars
<1> QED
  BY <1>3, <1>4, <1>5, <1>6 DEF LedgerNext

\* Entries are decisions and tombstones whatever is called in whatever order.
THEOREM LedgerTypeCorrect == LedgerSpec => []LedgerTypeOK
<1>1. LedgerInit => LedgerTypeOK
  BY DEF LedgerInit, LedgerTypeOK, Results
<1> QED
  BY <1>1, NextKeepsTypes, PTL DEF LedgerSpec

-----------------------------------------------------------------------------
(* The structural check.                                                   *)

\* The conjuncts of StructureIsValid, one map at a time.
Legal(x, d) ==
    /\ x.id = d /\ x.created <= x.expires
    /\ {x.context, x.action} \cap Oversized = {}

LegalTombstone(c, d) ==
    /\ c.decision.id = d
    /\ c.decision.created <= c.observed /\ c.observed <= c.decision.expires
    /\ c.finite
    /\ {c.decision.context, c.decision.action} \cap Oversized = {}

LedgersLegal ==
    /\ Cardinality(Stored(pending)) <= MaxPending
    /\ Cardinality(Stored(completed)) <= MaxCompleted
    /\ Stored(pending) \cap Stored(completed) = {}
    /\ \A d \in Stored(pending) : Legal(pending[d], d)
    /\ \A d \in Stored(completed) : LegalTombstone(completed[d], d)

\* Every call keeps the structure valid.
LEMMA NextKeepsStructure ==
    LedgerTypeOK /\ LedgersLegal /\ [LedgerNext]_ledgerVars => LedgersLegal'
<1> SUFFICES ASSUME LedgerTypeOK, LedgersLegal, [LedgerNext]_ledgerVars
             PROVE  LedgersLegal'
  OBVIOUS
<1>1. pending \in Pending /\ completed \in Tombstones
  BY DEF LedgerTypeOK, Pending, Tombstones
<1>2. /\ Cardinality(Stored(pending)) \in Nat /\ Cardinality(Stored(completed)) \in Nat
      /\ MaxPending \in Nat /\ MaxCompleted \in Nat
  BY StoredIsFinite, CapacityAssumption
<1>3. UNCHANGED <<pending, completed>> => LedgersLegal'
  BY DEF LedgersLegal, Stored, Legal, LegalTombstone
<1>4. ASSUME NEW x \in Decision, RegisterNew(x)
      PROVE  LedgersLegal'
  <2>1. /\ RegisterError(x) = "none" /\ x.id \notin Stored(pending) \cup Stored(completed)
        /\ pending' = [pending EXCEPT ![x.id] = x] /\ completed' = completed
    BY <1>4 DEF RegisterNew
  <2>2. x.id \in Ids /\ x # None
    BY NoneIsNoEntry DEF Decision
  <2>3. /\ Stored(pending') = Stored(pending) \cup {x.id}
        /\ Cardinality(Stored(pending')) = Cardinality(Stored(pending)) + 1
    BY <1>1, <2>1, <2>2, StoredWith DEF Pending
  <2>4. Cardinality(Stored(pending')) <= MaxPending
    BY <1>2, <2>1, <2>3, RegisterIsChecked
  <2>5. Legal(x, x.id)
    BY <2>1, RegisterIsChecked DEF Legal
  <2>6. pending'[x.id] = x /\ \A d \in Ids : d # x.id => pending'[d] = pending[d]
    BY <1>1, <2>1, <2>2 DEF Pending
  <2>7. \A d \in Stored(pending') : Legal(pending'[d], d)
    <3> TAKE d \in Stored(pending')
    <3>1. CASE d = x.id
      BY <2>5, <2>6, <3>1
    <3>2. CASE d # x.id
      <4>1. d \in Stored(pending) /\ d \in Ids
        BY <2>3, <3>2 DEF Stored
      <4> QED
        BY <2>6, <3>2, <4>1 DEF LedgersLegal
    <3> QED
      BY <3>1, <3>2
  <2> QED
    BY <2>1, <2>3, <2>4, <2>7 DEF LedgersLegal
<1>5. ASSUME NEW o \in Outcome, FeedbackApplied(o)
      PROVE  LedgersLegal'
  <2> DEFINE c == [decision |-> pending[o.id], observed |-> o.observed, finite |-> o.finite]
  <2>1. /\ FeedbackError(o) = "none"
        /\ completed' = [completed EXCEPT ![o.id] = c]
        /\ pending' = [pending EXCEPT ![o.id] = None]
    BY <1>5 DEF FeedbackApplied
  <2>2. /\ o.id \in Ids /\ o.id \in Stored(pending) /\ o.id \notin Stored(completed)
        /\ ~(o.observed < pending[o.id].created) /\ ~(o.observed > pending[o.id].expires)
        /\ o.finite /\ ~(Cardinality(Stored(completed)) >= MaxCompleted)
    BY <2>1, FeedbackIsChecked DEF Outcome
  <2>3. pending[o.id] \in Decision
    BY <1>1, <2>2 DEF Stored, Pending
  <2>4. c # None
    <3>1. c \in Completed
      BY <2>3 DEF Completed, Outcome
    <3> QED
      BY <3>1, NoneIsNoEntry
  <2>5. LegalTombstone(c, o.id)
    <3>1. Legal(pending[o.id], o.id)
      BY <2>2 DEF LedgersLegal
    <3>2. /\ pending[o.id].created \in Int /\ pending[o.id].expires \in Int
          /\ o.observed \in Int
      BY <2>3, CapacityAssumption DEF Decision, Outcome, Times
    <3>3. /\ c.decision = pending[o.id] /\ c.observed = o.observed /\ c.finite = o.finite
      OBVIOUS
    <3> QED
      BY <2>2, <3>1, <3>2, <3>3 DEF Legal, LegalTombstone
  <2> HIDE DEF c
  <2>6. /\ Stored(completed') = Stored(completed) \cup {o.id}
        /\ Cardinality(Stored(completed')) = Cardinality(Stored(completed)) + 1
    BY <1>1, <2>1, <2>2, <2>4, StoredWith DEF Tombstones
  <2>7. Stored(pending') = Stored(pending) \ {o.id}
    BY <1>1, <2>1, <2>2 DEF Stored, Pending
  <2>8. Cardinality(Stored(pending')) <= MaxPending
    <3>1. Cardinality(Stored(pending')) <= Cardinality(Stored(pending))
      BY <2>7, StoredLess
    <3>2. Cardinality(Stored(pending')) \in Nat
      BY StoredIsFinite
    <3> QED
      BY <1>2, <3>1, <3>2 DEF LedgersLegal
  <2>9. Cardinality(Stored(completed')) <= MaxCompleted
    BY <1>2, <2>2, <2>6
  <2>10. \A d \in Stored(pending') : Legal(pending'[d], d)
    <3>1. \A d \in Ids : d # o.id => pending'[d] = pending[d]
      BY <1>1, <2>1, <2>2 DEF Pending
    <3> QED
      BY <2>7, <3>1 DEF LedgersLegal, Stored
  <2>11. \A d \in Stored(completed') : LegalTombstone(completed'[d], d)
    <3>1. completed'[o.id] = c /\ \A d \in Ids : d # o.id => completed'[d] = completed[d]
      BY <1>1, <2>1, <2>2 DEF Tombstones
    <3> TAKE d \in Stored(completed')
    <3>2. CASE d = o.id
      BY <2>5, <3>1, <3>2
    <3>3. CASE d # o.id
      <4>1. d \in Stored(completed) /\ d \in Ids
        BY <2>6, <3>3 DEF Stored
      <4> QED
        BY <3>1, <3>3, <4>1 DEF LedgersLegal
    <3> QED
      BY <3>2, <3>3
  <2> QED
    BY <2>6, <2>7, <2>8, <2>9, <2>10, <2>11 DEF LedgersLegal
<1>6. ASSUME NEW t \in Times, ClearExpired(t)
      PROVE  LedgersLegal'
  <2>1. /\ \A d \in Ids : pending'[d] = pending[d] \/ pending'[d] = None
        /\ completed' = completed
    BY <1>6 DEF ClearExpired
  <2>2. \A d \in Stored(pending') : d \in Stored(pending) /\ pending'[d] = pending[d]
    BY <2>1 DEF Stored
  <2>3. Cardinality(Stored(pending')) <= MaxPending
    <3>1. Cardinality(Stored(pending')) <= Cardinality(Stored(pending))
      BY <2>2, StoredLess
    <3>2. Cardinality(Stored(pending')) \in Nat
      BY StoredIsFinite
    <3> QED
      BY <1>2, <3>1, <3>2 DEF LedgersLegal
  <2> QED
    BY <2>1, <2>2, <2>3 DEF LedgersLegal
<1>7. ASSUME NEW t \in Times, ClearCompletedBefore(t)
      PROVE  LedgersLegal'
  <2>1. /\ \A d \in Ids : completed'[d] = completed[d] \/ completed'[d] = None
        /\ pending' = pending
    BY <1>7 DEF ClearCompletedBefore
  <2>2. \A d \in Stored(completed') : d \in Stored(completed) /\ completed'[d] = completed[d]
    BY <2>1 DEF Stored
  <2>3. Cardinality(Stored(completed')) <= MaxCompleted
    <3>1. Cardinality(Stored(completed')) <= Cardinality(Stored(completed))
      BY <2>2, StoredLess
    <3>2. Cardinality(Stored(completed')) \in Nat
      BY StoredIsFinite
    <3> QED
      BY <1>2, <3>1, <3>2 DEF LedgersLegal
  <2> QED
    BY <2>1, <2>2, <2>3 DEF LedgersLegal
<1>8. \A x : RegisterRefused(x) \/ RegisterReplay(x) => UNCHANGED <<pending, completed>>
  BY DEF RegisterRefused, RegisterReplay
<1>9. \A o : FeedbackRefused(o) => UNCHANGED <<pending, completed>>
  BY DEF FeedbackRefused
<1>10. UNCHANGED ledgerVars => UNCHANGED <<pending, completed>>
  BY DEF ledgerVars
<1> QED
  BY <1>3, <1>4, <1>5, <1>6, <1>7, <1>8, <1>9, <1>10 DEF LedgerNext, Register, ApplyFeedback

\* LedgersLegal is the structural check.
LEMMA LegalIsStructure == LedgersLegal => StructureIsValid
BY DEF LedgersLegal, StructureIsValid, Legal, LegalTombstone

\* The strengthening is invariant.
LEMMA LedgersStayLegal == LedgerSpec => []LedgersLegal
<1>1. LedgerInit => LedgersLegal
  <2> SUFFICES ASSUME LedgerInit PROVE LedgersLegal
    OBVIOUS
  <2>1. Stored(pending) = {} /\ Stored(completed) = {}
    BY DEF LedgerInit, Stored
  <2>2. Cardinality({}) = 0 /\ MaxPending \in Nat /\ MaxCompleted \in Nat
    BY FS_EmptySet, CapacityAssumption
  <2> QED
    BY <2>1, <2>2 DEF LedgersLegal
<1> QED
  BY <1>1, NextKeepsStructure, LedgerTypeCorrect, PTL DEF LedgerSpec

\* validate_structure accepts every ledger that calls can lead to, whatever the
\* capacities and whatever clock the caller supplies: what is persisted can be
\* loaded again.
THEOREM StructureAlwaysValid == LedgerSpec => []StructureIsValid
BY LedgersStayLegal, LegalIsStructure, PTL

-----------------------------------------------------------------------------
(* Immutable facts.                                                        *)

\* What one call does to the entries: it opens or completes the decision it
\* names, or forgets some entries of one map.
Opens(d) ==
    /\ pending[d] = None /\ completed[d] = None
    /\ \E x \in Decision : pending' = [pending EXCEPT ![d] = x]
    /\ completed' = completed

Completes(d) ==
    /\ pending[d] \in Decision /\ completed[d] = None
    /\ pending' = [pending EXCEPT ![d] = None]
    /\ \E c \in Completed : c.decision = pending[d] /\ completed' = [completed EXCEPT ![d] = c]

Forgets ==
    \/ completed' = completed /\ \A d \in Ids : pending'[d] \in {pending[d], None}
    \/ pending' = pending /\ \A d \in Ids : completed'[d] \in {completed[d], None}

\* Every call is one of these.
LEMMA CallCases ==
    ASSUME LedgerTypeOK, [LedgerNext]_ledgerVars
    PROVE  \/ UNCHANGED <<pending, completed>>
           \/ \E d \in Ids : Opens(d) \/ Completes(d)
           \/ Forgets
<1>1. ASSUME NEW x \in Decision, Register(x)
      PROVE  UNCHANGED <<pending, completed>> \/ Opens(x.id)
  <2>1. CASE RegisterNew(x)
    BY <2>1 DEF RegisterNew, Opens, Stored, Decision
  <2>2. CASE RegisterRefused(x) \/ RegisterReplay(x)
    BY <2>2 DEF RegisterRefused, RegisterReplay
  <2> QED
    BY <1>1, <2>1, <2>2 DEF Register
<1>2. ASSUME NEW o \in Outcome, ApplyFeedback(o)
      PROVE  UNCHANGED <<pending, completed>> \/ Completes(o.id)
  <2>1. CASE FeedbackRefused(o)
    BY <2>1 DEF FeedbackRefused
  <2>2. CASE FeedbackApplied(o)
    <3>1. o.id \in Ids /\ pending[o.id] # None /\ completed[o.id] = None
      BY <2>2, FeedbackIsChecked DEF FeedbackApplied, Stored, Outcome
    <3>2. pending[o.id] \in Decision
      BY <3>1 DEF LedgerTypeOK
    <3> DEFINE c == [decision |-> pending[o.id], observed |-> o.observed, finite |-> o.finite]
    <3>3. c \in Completed /\ c.decision = pending[o.id]
      BY <3>2 DEF Completed, Outcome
    <3>4. completed' = [completed EXCEPT ![o.id] = c] /\ pending' = [pending EXCEPT ![o.id] = None]
      BY <2>2 DEF FeedbackApplied
    <3> HIDE DEF c
    <3> QED
      BY <3>1, <3>2, <3>3, <3>4 DEF Completes
  <2> QED
    BY <1>2, <2>1, <2>2 DEF ApplyFeedback
<1>3. ASSUME NEW t \in Times, ClearExpired(t) \/ ClearCompletedBefore(t)
      PROVE  Forgets
  BY <1>3 DEF ClearExpired, ClearCompletedBefore, Forgets
<1>4. UNCHANGED ledgerVars => UNCHANGED <<pending, completed>>
  BY DEF ledgerVars
<1>5. (\A x \in Decision : x.id \in Ids) /\ (\A o \in Outcome : o.id \in Ids)
  BY DEF Decision, Outcome
<1> QED
  BY <1>1, <1>2, <1>3, <1>4, <1>5 DEF LedgerNext

\* The facts of a decision stay what they were first recorded as for as long as
\* the ledger knows the decision, through its completion, too.
THEOREM FactsNeverChange == LedgerSpec => FactsAreImmutable
<1>1. ASSUME LedgerTypeOK, LedgersLegal, [LedgerNext]_ledgerVars, NEW d \in Ids,
             Facts(d) # None, Facts(d)' # None
      PROVE  Facts(d)' = Facts(d)
  <2>1. pending \in Pending /\ completed \in Tombstones
    BY <1>1 DEF LedgerTypeOK, Pending, Tombstones
  <2>2. pending[d] = None \/ completed[d] = None
    BY <1>1 DEF LedgersLegal, Stored
  <2>3. CASE UNCHANGED <<pending, completed>>
    BY <2>3 DEF Facts
  <2>4. ASSUME NEW e \in Ids, Opens(e)
        PROVE  Facts(d)' = Facts(d)
    <3>1. e # d
      BY <1>1, <2>4 DEF Opens, Facts
    <3>2. pending'[d] = pending[d] /\ completed'[d] = completed[d]
      BY <2>1, <2>4, <3>1 DEF Opens, Pending
    <3> QED
      BY <3>2 DEF Facts
  <2>5. ASSUME NEW e \in Ids, Completes(e)
        PROVE  Facts(d)' = Facts(d)
    <3>1. CASE e # d
      <4>1. pending'[d] = pending[d] /\ completed'[d] = completed[d]
        BY <2>1, <2>5, <3>1 DEF Completes, Pending, Tombstones
      <4> QED
        BY <4>1 DEF Facts
    <3>2. CASE e = d
      <4>1. PICK c \in Completed : c.decision = pending[d] /\ completed' = [completed EXCEPT ![d] = c]
        BY <2>5, <3>2 DEF Completes
      <4>2. pending'[d] = None /\ completed'[d] = c /\ pending[d] # None /\ c # None
        BY <2>1, <2>5, <3>2, <4>1, NoneIsNoEntry DEF Completes, Pending, Tombstones
      <4> QED
        BY <4>1, <4>2 DEF Facts
    <3> QED
      BY <3>1, <3>2
  <2>6. CASE Forgets
    BY <1>1, <2>2, <2>6 DEF Forgets, Facts
  <2> QED
    BY <1>1, <2>3, <2>4, <2>5, <2>6, CallCases
<1>2. LedgerTypeOK /\ LedgersLegal /\ [LedgerNext]_ledgerVars =>
        [\A d \in Ids : Facts(d) # None /\ Facts(d)' # None => Facts(d)' = Facts(d)]_ledgerVars
  BY <1>1
<1> QED
  BY <1>2, LedgersStayLegal, LedgerTypeCorrect, PTL DEF LedgerSpec, FactsAreImmutable

-----------------------------------------------------------------------------
(* Lost decisions.                                                         *)

\* A call that is not a cleanup forgets no decision, and one that is refused, with
\* whichever error, leaves both maps as they were.
THEOREM DecisionsStayKnown == LedgerSpec => NoDecisionIsLost
<1> DEFINE Kept  == \A d \in Ids : Facts(d) # None => Facts(d)' # None
           Alone == UNCHANGED <<pending, completed>>
<1>1. ASSUME LedgerTypeOK, LedgerNext
      PROVE  (result' # "cleared" => Kept) /\ (result' \in Errors => Alone)
  <2>1. pending \in Pending /\ completed \in Tombstones
    BY <1>1 DEF LedgerTypeOK, Pending, Tombstones
  <2>2. Alone => Kept
    BY DEF Facts
  <2>3. ASSUME NEW x \in Decision, Register(x)
        PROVE  Kept /\ (result' \in Errors => Alone)
    <3>1. CASE RegisterRefused(x) \/ RegisterReplay(x)
      BY <2>2, <3>1 DEF RegisterRefused, RegisterReplay
    <3>2. CASE RegisterNew(x)
      <4>1. pending' = [pending EXCEPT ![x.id] = x] /\ completed' = completed
        BY <3>2 DEF RegisterNew
      <4>2. x # None
        BY NoneIsNoEntry
      <4>3. ASSUME NEW d \in Ids, Facts(d) # None
            PROVE  Facts(d)' # None
        <5>1. pending'[d] \in {pending[d], x} /\ completed'[d] = completed[d]
          BY <2>1, <4>1 DEF Pending
        <5>2. CASE pending[d] # None
          BY <4>2, <5>1, <5>2 DEF Facts
        <5>3. CASE pending[d] = None
          BY <4>2, <4>3, <5>1, <5>3 DEF Facts
        <5> QED
          BY <5>2, <5>3
      <4>4. result' \notin Errors
        BY <3>2 DEF RegisterNew, Errors
      <4> QED
        BY <4>3, <4>4
    <3> QED
      BY <2>3, <3>1, <3>2 DEF Register
  <2>4. ASSUME NEW o \in Outcome, ApplyFeedback(o)
        PROVE  Kept /\ (result' \in Errors => Alone)
    <3>1. CASE FeedbackRefused(o)
      BY <2>2, <3>1 DEF FeedbackRefused
    <3>2. CASE FeedbackApplied(o)
      <4>1. o.id \in Ids /\ pending[o.id] \in Decision
        BY <2>1, <3>2, FeedbackIsChecked DEF FeedbackApplied, Stored, Outcome, Pending
      <4> DEFINE c == [decision |-> pending[o.id], observed |-> o.observed, finite |-> o.finite]
      <4>2. pending' = [pending EXCEPT ![o.id] = None] /\ completed' = [completed EXCEPT ![o.id] = c]
        BY <3>2 DEF FeedbackApplied
      <4>3. c \in Completed /\ c.decision # None
        BY <4>1, NoneIsNoEntry DEF Completed, Outcome
      <4> HIDE DEF c
      <4>4. ASSUME NEW d \in Ids, Facts(d) # None
            PROVE  Facts(d)' # None
        <5>1. CASE d = o.id
          <6>1. pending'[d] = None /\ completed'[d] = c /\ c # None
            BY <2>1, <4>2, <4>3, <5>1, NoneIsNoEntry DEF Pending, Tombstones
          <6> QED
            BY <4>3, <6>1 DEF Facts
        <5>2. CASE d # o.id
          <6>1. pending'[d] = pending[d] /\ completed'[d] = completed[d]
            BY <2>1, <4>2, <5>2 DEF Pending, Tombstones
          <6> QED
            BY <4>4, <6>1 DEF Facts
        <5> QED
          BY <5>1, <5>2
      <4>5. result' \notin Errors
        BY <3>2 DEF FeedbackApplied, Errors
      <4> QED
        BY <4>4, <4>5
    <3> QED
      BY <2>4, <3>1, <3>2 DEF ApplyFeedback
  <2>5. ASSUME NEW t \in Times, ClearExpired(t) \/ ClearCompletedBefore(t)
        PROVE  result' = "cleared" /\ result' \notin Errors
    BY <2>5 DEF ClearExpired, ClearCompletedBefore, Errors
  <2> QED
    BY <1>1, <2>3, <2>4, <2>5 DEF LedgerNext
<1>2. LedgerTypeOK /\ [LedgerNext]_ledgerVars =>
        [(result' # "cleared" => Kept) /\ (result' \in Errors => Alone)]_ledgerVars
  BY <1>1
<1> QED
  BY <1>2, LedgerTypeCorrect, PTL DEF LedgerSpec, NoDecisionIsLost

-----------------------------------------------------------------------------
(* The abstract ledger.                                                    *)

\* Every call is a step of the abstract ledger or leaves it alone.
LEMMA NextRefines ==
    ASSUME LedgerTypeOK, LedgersLegal, [LedgerNext]_ledgerVars
    PROVE  [Abstract!Next]_Status
<1>1. pending \in Pending /\ completed \in Tombstones
  BY DEF LedgerTypeOK, Pending, Tombstones
<1>2. \A d \in Ids : pending[d] = None \/ completed[d] = None
  BY DEF LedgersLegal, Stored
<1>3. CASE UNCHANGED <<pending, completed>>
  BY <1>3 DEF Status
<1>4. ASSUME NEW d \in Ids, Opens(d)
      PROVE  Abstract!Open(d)
  <2>1. PICK x \in Decision : pending' = [pending EXCEPT ![d] = x]
    BY <1>4 DEF Opens
  <2>2. /\ pending'[d] = x /\ x # None
        /\ \A e \in Ids : e # d => pending'[e] = pending[e]
        /\ completed' = completed
    BY <1>1, <1>4, <2>1, NoneIsNoEntry DEF Opens, Pending
  <2>3. Status[d] = "unknown"
    BY <1>4 DEF Opens, Status
  <2>4. Status' = [Status EXCEPT ![d] = "pending"]
    BY <2>2 DEF Status
  <2> QED
    BY <2>3, <2>4 DEF Abstract!Open
<1>5. ASSUME NEW d \in Ids, Completes(d)
      PROVE  Abstract!Apply(d)
  <2>1. PICK c \in Completed : completed' = [completed EXCEPT ![d] = c]
    BY <1>5 DEF Completes
  <2>2. /\ pending'[d] = None /\ completed'[d] = c /\ c # None /\ pending[d] # None
        /\ \A e \in Ids : e # d => pending'[e] = pending[e] /\ completed'[e] = completed[e]
    BY <1>1, <1>5, <2>1, NoneIsNoEntry DEF Completes, Pending, Tombstones
  <2>3. Status[d] = "pending"
    BY <2>2 DEF Status
  <2>4. Status' = [Status EXCEPT ![d] = "completed"]
    BY <2>2 DEF Status
  <2> QED
    BY <2>3, <2>4 DEF Abstract!Apply
<1>6. CASE Forgets
  <2> DEFINE S == {d \in Ids : pending'[d] = None /\ completed'[d] = None}
  <2>1. \A d \in Ids : d \notin S => pending'[d] = pending[d] /\ completed'[d] = completed[d]
    BY <1>2, <1>6 DEF Forgets
  <2>2. Status' = [d \in Ids |-> IF d \in S THEN "unknown" ELSE Status[d]]
    BY <2>1 DEF Status
  <2>3. Abstract!Forget(S)
    BY <2>2 DEF Abstract!Forget
  <2> QED
    BY <2>3 DEF Abstract!Next
<1> QED
  BY <1>3, <1>4, <1>5, <1>6, CallCases DEF Abstract!Next

\* The ledger implements the abstract one: a decision is opened once and its
\* outcome applied at most once, until a cleanup forgets it.
THEOREM LedgerImplementsDelayedFeedback == LedgerSpec => ImplementsDelayedFeedback
<1>1. LedgerInit => Abstract!Init
  BY DEF LedgerInit, Abstract!Init, Status
<1>2. LedgerTypeOK /\ LedgersLegal /\ [LedgerNext]_ledgerVars => [Abstract!Next]_Status
  BY NextRefines
<1> QED
  BY <1>1, <1>2, LedgersStayLegal, LedgerTypeCorrect, PTL
     DEF LedgerSpec, ImplementsDelayedFeedback, Abstract!Spec
=============================================================================
