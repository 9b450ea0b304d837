--------------------------- MODULE MonitoringProofs --------------------------
(***************************************************************************)
(* Machine-checked proofs about Monitoring, for every configuration, every *)
(* stream and any number of calls. The drift consensus: its levels follow  *)
(* the votes, lasting drift is recorded in time, events keep their distance*)
(* and a saved consensus is accepted again. The bounded windows: they hold *)
(* the newest values the object took, in order, whatever was evicted,      *)
(* rotated, trimmed, refused or reset before; and the model of a           *)
(* DriftAwareModel knows what came since its last reset.                   *)
(***************************************************************************)
EXTENDS Monitoring, ValueLemmas

-----------------------------------------------------------------------------
(* Sets of detectors.                                                      *)

\* Of any finite set of detectors, at most n come first.
LEMMA FirstDetectorsBound ==
    ASSUME NEW D \in SUBSET Nat, IsFiniteSet(D), NEW n \in Nat
    PROVE  /\ FirstDetectors(D, n) \subseteq D
           /\ IsFiniteSet(FirstDetectors(D, n))
           /\ Cardinality(FirstDetectors(D, n)) <= n
<1> DEFINE F == FirstDetectors(D, n)
<1> DEFINE before(x) == {y \in D : y < x}
<1> DEFINE rank == [d \in F |-> Cardinality(before(d))]
<1>1. F \subseteq D
  BY DEF FirstDetectors
<1>2. IsFiniteSet(F)
  BY <1>1, FS_Subset
<1>3. \A d \in D : IsFiniteSet(before(d)) /\ Cardinality(before(d)) \in Nat
  BY FS_Subset, FS_CardinalityType
<1>4. \A d \in F : Cardinality(before(d)) < n
  BY DEF FirstDetectors
<1>5. ASSUME NEW d \in F, NEW e \in F, d < e
      PROVE  Cardinality(before(d)) # Cardinality(before(e))
  <2>0. d \in Nat /\ e \in Nat /\ d \in D
    BY <1>1
  <2>1. before(d) \subseteq before(e) /\ d \in before(e) /\ d \notin before(d)
    <3> HIDE DEF F
    <3>1. \A x \in D : x < d => x < e
      BY <1>5, <2>0
    <3>2. ~(d < d)
      BY <2>0
    <3> QED
      BY <1>5, <2>0, <3>1, <3>2, Zenon
  <2>2. IsFiniteSet(before(e)) /\ before(d) \in SUBSET before(e) /\ before(d) # before(e)
    BY <1>1, <1>3, <2>1
  <2> HIDE DEF before
  <2> QED
    BY <2>2, FS_Subset
<1>6. rank \in Injection(F, 0 .. n - 1)
  <2> HIDE DEF F, before
  <2>0. rank \in [F -> 0 .. n - 1]
    BY <1>1, <1>3, <1>4
  <2>1. ASSUME NEW d \in F, NEW e \in F, rank[d] = rank[e]
        PROVE  d = e
    <3>1. d \in Nat /\ e \in Nat
      BY <1>1
    <3>2. d = e \/ d < e \/ e < d
      BY <3>1
    <3> QED
      BY <1>5, <2>1, <3>2
  <2> QED
    BY <2>0, <2>1, Zenon DEF Injection, IsInjective
<1>7. IsFiniteSet(0 .. n - 1) /\ Cardinality(0 .. n - 1) = n
  BY FS_Interval
<1>8. Cardinality(F) <= Cardinality(0 .. n - 1)
  BY <1>6, <1>7, FS_Injection
<1> QED
  BY <1>1, <1>2, <1>7, <1>8

\* The detectors that voted are a finite set of detectors.
LEMMA VotersAreFinite ==
    ASSUME NEW votes \in Seq(DriftVote), NEW levels
    PROVE  Voting(votes, levels) \in SUBSET Nat /\ IsFiniteSet(Voting(votes, levels))
<1> DEFINE I == {j \in DOMAIN votes : votes[j].available /\ votes[j].level \in levels}
<1> DEFINE T == {votes[i].detector : i \in I}
<1> DEFINE f == [i \in I |-> votes[i].detector]
<1>1. Len(votes) \in Nat /\ DOMAIN votes = 1 .. Len(votes)
  OBVIOUS
<1>2. IsFiniteSet(I)
  <2>1. IsFiniteSet(1 .. Len(votes)) /\ I \in SUBSET (1 .. Len(votes))
    BY <1>1, FS_Interval
  <2> QED
    BY <2>1, FS_Subset
<1>3. T \subseteq Nat
  <2>1. \A i \in DOMAIN votes : votes[i] \in DriftVote
    BY <1>1
  <2> QED
    BY <2>1 DEF DriftVote
<1>4. f \in Surjection(I, T)
  BY Zenon DEF Surjection
<1>5. IsFiniteSet(T)
  BY <1>2, <1>4, FS_Surjection
<1> QED
  BY <1>3, <1>5 DEF Voting

-----------------------------------------------------------------------------
(* Remainders.                                                             *)

\* A remainder is found by any quotient that leaves less than the divisor.
LEMMA RemainderIs ==
    ASSUME NEW a \in Nat, NEW b \in Nat \ {0}, NEW q \in Nat, NEW r \in 0 .. b - 1,
           a = b * q + r
    PROVE  a % b = r
<1> DEFINE p == a \div b
<1> DEFINE s == a % b
<1>1. p \in Int /\ s \in 0 .. b - 1 /\ a = b * p + s
  OBVIOUS
<1> HIDE DEF p, s
<1>2. CASE p < q
  <2>1. b * q >= b * (p + 1)
    BY <1>1, <1>2
  <2>2. b * (p + 1) = b * p + b
    BY <1>1
  <2> QED
    BY <1>1, <2>1, <2>2
<1>3. CASE q < p
  <2>1. b * p >= b * (q + 1)
    BY <1>1, <1>3
  <2>2. b * (q + 1) = b * q + b
    BY <1>1
  <2> QED
    BY <1>1, <2>1, <2>2
<1>4. CASE p = q
  BY <1>1, <1>4 DEF s
<1> QED
  BY <1>1, <1>2, <1>3, <1>4

\* Counting on, a remainder grows by one or begins anew.
LEMMA NextRemainder ==
    ASSUME NEW a \in Nat, NEW b \in Nat \ {0}
    PROVE  /\ a % b \in 0 .. b - 1
           /\ (a + 1) % b = IF a % b = b - 1 THEN 0 ELSE (a % b) + 1
<1> DEFINE p == a \div b
<1> DEFINE s == a % b
<1>1. p \in Nat /\ s \in 0 .. b - 1 /\ a = b * p + s
  OBVIOUS
<1> HIDE DEF p, s
<1>2. CASE s = b - 1
  <2>1. a + 1 = b * (p + 1) + 0
    BY <1>1, <1>2
  <2>2. (a + 1) % b = 0
    BY <1>1, <2>1, RemainderIs
  <2> QED
    BY <1>1, <1>2, <2>2 DEF s
<1>3. CASE s # b - 1
  <2>1. s + 1 \in 0 .. b - 1 /\ a + 1 = b * p + (s + 1)
    BY <1>1, <1>3
  <2>2. (a + 1) % b = s + 1
    BY <1>1, <2>1, RemainderIs
  <2> QED
    BY <1>1, <1>3, <2>2 DEF s
<1> QED
  BY <1>2, <1>3

-----------------------------------------------------------------------------
(* What one window does, field by field.                                   *)

Event == EventSummary(Generations)

ConsensusState ==
    [windows: Nat, generationWindows: Nat, generation: Generations \cup {NoGeneration},
     level: Levels, warningStreak: Nat, driftStreak: Nat, clearStreak: Nat, cooldown: Nat,
     nextEvent: Nat, event: Event \cup {NoEvent}]

LEMMA ConsensusConstants ==
    /\ MinWarning \in Nat \ {0} /\ MinDrift \in Nat \ {0} /\ MaxDetectors \in Nat \ {0}
    /\ Confirmation \in Nat \ {0} /\ Clearing \in Nat \ {0} /\ MaxWindows \in Nat \ {0}
    /\ Cooldown \in Nat /\ MergeHorizon \in Nat /\ Warming \in Nat
BY ConsensusAssumption

\* A window counts, and begins anew what belonged to another generation.
LEMMA EnteredFields ==
    ASSUME NEW c \in ConsensusState, NEW g \in Generations
    PROVE  LET s == Entered(c, g)
           IN  /\ s \in ConsensusState /\ Begun(c, g).cooldown \in Nat
               /\ s.windows = c.windows + 1 /\ s.generation = g
               /\ s.event = c.event /\ s.nextEvent = c.nextEvent
               /\ s.cooldown = IF Begun(c, g).cooldown > 0 THEN Begun(c, g).cooldown - 1 ELSE 0
               /\ GenerationChanges(c, g) =>
                    /\ s.generationWindows = 1 /\ s.level = "none"
                    /\ s.warningStreak = 0 /\ s.driftStreak = 0 /\ s.clearStreak = 0
                    /\ Begun(c, g).cooldown = 0
               /\ ~GenerationChanges(c, g) =>
                    /\ s.generationWindows = c.generationWindows + 1 /\ s.level = c.level
                    /\ s.warningStreak = c.warningStreak /\ s.driftStreak = c.driftStreak
                    /\ s.clearStreak = c.clearStreak
                    /\ Begun(c, g).cooldown = c.cooldown
<1> DEFINE b == Begun(c, g)
<1>1. /\ b \in ConsensusState /\ b.windows = c.windows
      /\ b.event = c.event /\ b.nextEvent = c.nextEvent
      /\ GenerationChanges(c, g) =>
            /\ b.generationWindows = 0 /\ b.level = "none"
            /\ b.warningStreak = 0 /\ b.driftStreak = 0 /\ b.clearStreak = 0 /\ b.cooldown = 0
      /\ ~GenerationChanges(c, g) => b = c
  <2>1. CASE GenerationChanges(c, g)
    BY <2>1 DEF Begun, NewGeneration, ConsensusState, Levels
  <2>2. CASE ~GenerationChanges(c, g)
    BY <2>2 DEF Begun
  <2> QED
    BY <2>1, <2>2
<1> DEFINE k == IF b.cooldown > 0 THEN b.cooldown - 1 ELSE 0
<1>2. Entered(c, g) = [b EXCEPT
        !.generation = g, !.windows = b.windows + 1, !.generationWindows = b.generationWindows + 1,
        !.cooldown = k]
  BY DEF Entered
<1> HIDE DEF b
<1>4. /\ b.cooldown \in Nat /\ k \in Nat
      /\ b.windows + 1 \in Nat /\ b.generationWindows + 1 \in Nat
  BY <1>1 DEF ConsensusState
<1> HIDE DEF k
<1>3. /\ Entered(c, g) \in ConsensusState /\ b.cooldown \in Nat
      /\ Entered(c, g).windows = b.windows + 1 /\ Entered(c, g).generation = g
      /\ Entered(c, g).event = b.event /\ Entered(c, g).nextEvent = b.nextEvent
      /\ Entered(c, g).cooldown = k
      /\ Entered(c, g).generationWindows = b.generationWindows + 1
      /\ Entered(c, g).level = b.level
      /\ Entered(c, g).warningStreak = b.warningStreak
      /\ Entered(c, g).driftStreak = b.driftStreak
      /\ Entered(c, g).clearStreak = b.clearStreak
  BY <1>1, <1>2, <1>4 DEF ConsensusState
<1> QED
  BY <1>1, <1>3, <1>4 DEF b, k

\* What a record leaves: an event of this generation that ends with this window,
\* and a new cooldown.
IsRecorded(c, d, level) ==
    /\ d.event \in Event /\ d.cooldown = Cooldown /\ d.nextEvent \in {c.nextEvent, c.nextEvent + 1}
    /\ d.event.last = c.windows /\ d.event.generation = c.generation
    /\ d.event.peak # "none" /\ (level = "drift" => d.event.peak = "drift")

\* The fields that only the counting of a window changes.
SameWindow(c, d) ==
    /\ d.windows = c.windows /\ d.generationWindows = c.generationWindows
    /\ d.generation = c.generation

SameRecord(c, d) == d.cooldown = c.cooldown /\ d.nextEvent = c.nextEvent /\ d.event = c.event

SameStreaks(c, d) ==
    /\ d.warningStreak = c.warningStreak /\ d.driftStreak = c.driftStreak
    /\ d.clearStreak = c.clearStreak

LEMMA RecordedFields ==
    ASSUME NEW c \in ConsensusState, c.generation \in Generations, NEW level \in {"warning", "drift"},
           NEW D \in SUBSET Nat, IsFiniteSet(D)
    PROVE  LET d == Recorded(c, level, D)
           IN  /\ d \in ConsensusState /\ IsRecorded(c, d, level)
               /\ SameWindow(c, d) /\ SameStreaks(c, d) /\ d.level = c.level
<1> DEFINE e == Recorded(c, level, D).event
<1>1. /\ Recorded(c, level, D).cooldown = Cooldown
      /\ Recorded(c, level, D).nextEvent \in {c.nextEvent, c.nextEvent + 1}
      /\ SameWindow(c, Recorded(c, level, D)) /\ SameStreaks(c, Recorded(c, level, D))
      /\ Recorded(c, level, D).level = c.level
      /\ e \in Event => Recorded(c, level, D) \in ConsensusState
  <2> DEFINE m == MergedEvent(c, level, D)
  <2> DEFINE n == NewEvent(c, level, D)
  <2>1. Recorded(c, level, D) = IF CanMerge(c) THEN [c EXCEPT !.event = m, !.cooldown = Cooldown]
                                ELSE [c EXCEPT !.event = n, !.cooldown = Cooldown,
                                               !.nextEvent = c.nextEvent + 1]
    BY DEF Recorded, ConsensusState
  <2> HIDE DEF m, n
  <2>2. CASE CanMerge(c)
    BY <2>1, <2>2, ConsensusConstants DEF ConsensusState, SameWindow, SameStreaks
  <2>3. CASE ~CanMerge(c)
    <3>1. c.nextEvent + 1 \in Nat
      BY DEF ConsensusState
    <3>2. Recorded(c, level, D) = [c EXCEPT !.event = n, !.cooldown = Cooldown,
                                            !.nextEvent = c.nextEvent + 1]
      BY <2>1, <2>3
    <3> QED
      BY <3>1, <3>2, ConsensusConstants DEF ConsensusState, SameWindow, SameStreaks
  <2> QED
    BY <2>2, <2>3
<1>2. /\ e \in Event /\ e.last = c.windows /\ e.generation = c.generation
      /\ e.peak # "none" /\ (level = "drift" => e.peak = "drift")
  <2>1. CASE CanMerge(c)
    <3> DEFINE old == c.event
    <3> DEFINE found == FirstDetectors(old.detectors \cup D, MaxDetectors)
    <3> DEFINE peak == IF Rank[level] > Rank[old.peak] THEN level ELSE old.peak
    <3>1. old \in Event /\ old.generation = c.generation
      BY <2>1 DEF CanMerge, ConsensusState
    <3>2. e = [old EXCEPT !.last = c.windows, !.occurrences = old.occurrences + 1,
                          !.peak = peak, !.detectors = found]
      BY <2>1 DEF Recorded, ConsensusState, MergedEvent
    <3>3. found \in SUBSET Nat
      <4>1. found \subseteq old.detectors \cup D
        BY DEF FirstDetectors
      <4> QED
        BY <3>1, <4>1 DEF Event, EventSummary
    <3>4. peak \in Levels \ {"none"} /\ (level = "drift" => peak = "drift")
      <4>1. old.peak \in Levels
        BY <3>1 DEF Event, EventSummary
      <4> QED
        BY <4>1 DEF Levels, Rank
    <3> HIDE DEF old, found, peak
    <3>5. old.occurrences + 1 \in Nat /\ c.windows \in Nat
      BY <3>1 DEF Event, EventSummary, ConsensusState
    <3>6. e \in Event /\ e.last = c.windows /\ e.generation = c.generation /\ e.peak = peak
      BY <3>1, <3>2, <3>3, <3>4, <3>5 DEF Event, EventSummary
    <3> QED
      BY <3>4, <3>6
  <2>2. CASE ~CanMerge(c)
    <3>1. e = NewEvent(c, level, D)
      BY <2>2 DEF Recorded, ConsensusState
    <3>2. FirstDetectors(D, MaxDetectors) \in SUBSET Nat
      BY FirstDetectorsBound, ConsensusConstants
    <3>3. c.nextEvent \in Nat /\ c.windows \in Nat /\ level \in Levels /\ level # "none"
      BY DEF ConsensusState, Levels
    <3>4. /\ e.id = c.nextEvent /\ e.first = c.windows /\ e.last = c.windows /\ e.peak = level
          /\ e.generation = c.generation
          /\ NewEvent(c, level, D) \in Event
      BY <3>1, <3>2, <3>3 DEF NewEvent, Event, EventSummary
    <3> QED
      BY <3>1, <3>3, <3>4
  <2> QED
    BY <2>1, <2>2
<1> QED
  BY <1>1, <1>2 DEF IsRecorded

\* The part of validate_state that is about the event.
EventIsSound(c) ==
    /\ 0 < c.nextEvent
    /\ c.event # NoEvent => EventIsConsistent(c) /\ IsFiniteSet(c.event.detectors)

\* A record is consistent with the consensus that made it.
LEMMA RecordIsSound ==
    ASSUME NEW c \in ConsensusState, c.generation \in Generations, NEW level \in {"warning", "drift"},
           NEW D \in SUBSET Nat, IsFiniteSet(D), 0 < c.windows, EventIsSound(c)
    PROVE  EventIsSound(Recorded(c, level, D))
<1> USE DEF EventIsSound
<1> DEFINE d == Recorded(c, level, D)
<1>1. d \in ConsensusState /\ d.windows = c.windows
  BY RecordedFields DEF SameWindow
<1>2. CASE CanMerge(c)
  <2> DEFINE old == c.event
  <2> DEFINE found == FirstDetectors(old.detectors \cup D, MaxDetectors)
  <2>1. old \in Event /\ EventIsConsistent(c) /\ IsFiniteSet(old.detectors)
    BY <1>2 DEF CanMerge, ConsensusState
  <2>2. /\ d.event.id = old.id /\ d.event.first = old.first /\ d.event.last = c.windows
        /\ d.event.occurrences = old.occurrences + 1 /\ d.event.detectors = found
        /\ d.nextEvent = c.nextEvent
    BY <1>2, <2>1 DEF Recorded, MergedEvent, ConsensusState, Event, EventSummary
  <2>3. IsFiniteSet(old.detectors \cup D) /\ old.detectors \cup D \in SUBSET Nat
    BY <2>1, FS_Union DEF Event, EventSummary
  <2>4. IsFiniteSet(found) /\ Cardinality(found) <= MaxDetectors
    BY <2>3, FirstDetectorsBound, ConsensusConstants
  <2>5. d.event.peak # "none"
    BY RecordedFields DEF IsRecorded
  <2>6. /\ old.id \in Nat /\ old.first \in Nat /\ old.last \in Nat /\ old.occurrences \in Nat
        /\ c.windows \in Nat /\ c.nextEvent \in Nat
    BY <2>1 DEF Event, EventSummary, ConsensusState
  <2>7. /\ d.event.id < d.nextEvent /\ 0 < d.nextEvent
        /\ 0 < d.event.first /\ d.event.first <= d.event.last /\ d.event.last <= d.windows
        /\ d.event.occurrences > 0
    <3> HIDE DEF d
    <3> QED
      BY <1>1, <2>1, <2>2, <2>6 DEF EventIsConsistent
  <2>8. Cardinality(d.event.detectors) <= MaxDetectors /\ IsFiniteSet(d.event.detectors)
    BY <2>2, <2>4
  <2> QED
    BY <2>5, <2>7, <2>8, Zenon DEF EventIsConsistent
<1>3. CASE ~CanMerge(c)
  <2> DEFINE found == FirstDetectors(D, MaxDetectors)
  <2>1. /\ d.event = NewEvent(c, level, D) /\ d.nextEvent = c.nextEvent + 1
    BY <1>3 DEF Recorded, ConsensusState
  <2>2. /\ d.event.id = c.nextEvent /\ d.event.first = c.windows /\ d.event.last = c.windows
        /\ d.event.occurrences = 1 /\ d.event.detectors = found /\ d.event.peak = level
    BY <2>1 DEF NewEvent
  <2>3. IsFiniteSet(found) /\ Cardinality(found) <= MaxDetectors
    BY FirstDetectorsBound, ConsensusConstants
  <2>4. c.windows \in Nat /\ c.nextEvent \in Nat /\ level # "none"
    BY DEF ConsensusState
  <2>5. /\ d.event.id < d.nextEvent /\ 0 < d.nextEvent
        /\ 0 < d.event.first /\ d.event.first <= d.event.last /\ d.event.last <= d.windows
        /\ d.event.occurrences > 0 /\ d.event.peak # "none"
    <3> HIDE DEF d
    <3> QED
      BY <1>1, <2>1, <2>2, <2>4
  <2>6. Cardinality(d.event.detectors) <= MaxDetectors /\ IsFiniteSet(d.event.detectors)
    BY <2>2, <2>3
  <2> QED
    BY <2>5, <2>6, Zenon DEF EventIsConsistent
<1> QED
  BY <1>2, <1>3

\* A level that is confirmed is recorded, unless an event is too recent.
LEMMA ConfirmedFields ==
    ASSUME NEW c \in ConsensusState, c.generation \in Generations, NEW level \in {"warning", "drift"},
           NEW votes \in Seq(DriftVote), NEW allowed
    PROVE  LET d == Confirmed(c, level, votes, allowed)
           IN  /\ d \in ConsensusState /\ SameWindow(c, d) /\ SameStreaks(c, d) /\ d.level = level
               /\ IF allowed THEN IsRecorded(c, d, level) ELSE SameRecord(c, d)
               /\ 0 < c.windows /\ EventIsSound(c) => EventIsSound(d)
<1> DEFINE raised == [c EXCEPT !.level = level]
<1> DEFINE D == Triggered(votes)
<1>1. /\ raised \in ConsensusState /\ SameWindow(c, raised) /\ SameStreaks(c, raised)
      /\ raised.level = level /\ SameRecord(c, raised)
  BY DEF ConsensusState, Levels, SameWindow, SameStreaks, SameRecord
<1>2. Confirmed(c, level, votes, allowed) = IF allowed THEN Recorded(raised, level, D) ELSE raised
  BY DEF Confirmed
<1>3. D \in SUBSET Nat /\ IsFiniteSet(D)
  BY VotersAreFinite DEF Triggered
<1>4. EventIsSound(c) => EventIsSound(raised)
  BY <1>1 DEF EventIsSound, EventIsConsistent, SameWindow, SameRecord
<1> HIDE DEF raised, D
<1>5. CASE allowed
  <2> DEFINE d == Recorded(raised, level, D)
  <2>1. raised.generation \in Generations /\ raised.windows = c.windows
    BY <1>1 DEF SameWindow
  <2>2. /\ d \in ConsensusState /\ IsRecorded(raised, d, level) /\ SameWindow(raised, d)
        /\ SameStreaks(raised, d) /\ d.level = raised.level
    BY <1>1, <1>3, <2>1, RecordedFields
  <2>3. 0 < c.windows /\ EventIsSound(c) => EventIsSound(d)
    BY <1>1, <1>3, <1>4, <2>1, RecordIsSound
  <2> HIDE DEF d
  <2>4. /\ IsRecorded(c, d, level) /\ SameWindow(c, d) /\ SameStreaks(c, d) /\ d.level = level
    BY <1>1, <2>2 DEF IsRecorded, SameWindow, SameStreaks, SameRecord
  <2> QED
    BY <1>2, <1>5, <2>2, <2>3, <2>4 DEF d
<1>6. CASE ~allowed
  BY <1>1, <1>2, <1>4, <1>6
<1> QED
  BY <1>5, <1>6

Records(c, d, level, confirmed, allowed) ==
    IF confirmed /\ allowed THEN IsRecorded(c, d, level) ELSE SameRecord(c, d)

DriftIsConfirmed(c, d) ==
    /\ d.driftStreak >= Confirmation
    /\ c.level # "drift" \/ d.driftStreak % Confirmation = 0

WarningIsConfirmed(c, d) == c.level = "none" /\ d.warningStreak >= Confirmation

DriftOutcome(c, d, allowed) ==
    /\ d.clearStreak = 0 /\ d.warningStreak = 0 /\ d.driftStreak = c.driftStreak + 1
    /\ d.level = IF DriftIsConfirmed(c, d) THEN "drift" ELSE c.level
    /\ Records(c, d, "drift", DriftIsConfirmed(c, d), allowed)

WarningOutcome(c, d, allowed) ==
    /\ d.clearStreak = 0 /\ d.driftStreak = 0 /\ d.warningStreak = c.warningStreak + 1
    /\ d.level = IF WarningIsConfirmed(c, d) THEN "warning" ELSE c.level
    /\ Records(c, d, "warning", WarningIsConfirmed(c, d), allowed)

StableOutcome(c, d) ==
    /\ d.warningStreak = 0 /\ d.driftStreak = 0
    /\ SameRecord(c, d)
    /\ IF c.level # "none" /\ c.clearStreak + 1 >= Clearing
       THEN d.level = "none" /\ d.clearStreak = 0
       ELSE d.level = c.level /\ d.clearStreak = c.clearStreak + 1

SkippedOutcome(c, d) ==
    /\ d.warningStreak = 0 /\ d.driftStreak = 0 /\ d.clearStreak = c.clearStreak
    /\ d.level = c.level /\ SameRecord(c, d)

\* What every outcome of a window has in common.
IsOutcome(c, d) ==
    /\ d \in ConsensusState /\ SameWindow(c, d)
    /\ 0 < c.windows /\ EventIsSound(c) => EventIsSound(d)

LEMMA DriftWindowFields ==
    ASSUME NEW c \in ConsensusState, c.generation \in Generations, NEW votes \in Seq(DriftVote),
           NEW allowed
    PROVE  LET d == DriftWindow(c, votes, allowed)
           IN  IsOutcome(c, d) /\ DriftOutcome(c, d, allowed)
<1> DEFINE s == [c EXCEPT !.clearStreak = 0, !.warningStreak = 0, !.driftStreak = c.driftStreak + 1]
<1> DEFINE d == DriftWindow(c, votes, allowed)
<1> SUFFICES IsOutcome(c, d) /\ DriftOutcome(c, d, allowed)
  OBVIOUS
<1>1. /\ s \in ConsensusState /\ SameWindow(c, s) /\ SameRecord(c, s) /\ s.level = c.level
      /\ s.clearStreak = 0 /\ s.warningStreak = 0 /\ s.driftStreak = c.driftStreak + 1
  <2>1. c.driftStreak + 1 \in Nat
    BY DEF ConsensusState
  <2> QED
    BY <2>1 DEF ConsensusState, SameWindow, SameRecord
<1>2. EventIsSound(c) => EventIsSound(s)
  BY <1>1 DEF SameWindow, SameRecord, EventIsSound, EventIsConsistent
<1> DEFINE due == /\ s.driftStreak >= Confirmation
                  /\ s.level # "drift" \/ s.driftStreak % Confirmation = 0
<1>3. d = IF due THEN Confirmed(s, "drift", votes, allowed) ELSE s
  BY DEF DriftWindow
<1> HIDE DEF s, d
<1>4. s.generation \in Generations /\ s.windows = c.windows
  BY <1>1 DEF SameWindow
<1>5. CASE due
  <2> DEFINE e == Confirmed(s, "drift", votes, allowed)
  <2>1. /\ e \in ConsensusState /\ SameWindow(s, e) /\ SameStreaks(s, e) /\ e.level = "drift"
        /\ IF allowed THEN IsRecorded(s, e, "drift") ELSE SameRecord(s, e)
        /\ 0 < s.windows /\ EventIsSound(s) => EventIsSound(e)
    BY <1>1, <1>4, ConfirmedFields
  <2>2. e = d
    BY <1>3, <1>5
  <2> HIDE DEF e
  <2>3. IsOutcome(c, d)
    BY <1>1, <1>2, <1>4, <2>1, <2>2 DEF IsOutcome, SameWindow
  <2>4. IF allowed THEN IsRecorded(c, d, "drift") ELSE SameRecord(c, d)
    BY <1>1, <2>1, <2>2 DEF IsRecorded, SameWindow, SameRecord
  <2>5. /\ d.warningStreak = s.warningStreak /\ d.driftStreak = s.driftStreak
        /\ d.clearStreak = s.clearStreak /\ d.level = "drift"
    BY <2>1, <2>2 DEF SameStreaks
  <2>6. DriftIsConfirmed(c, d)
    BY <1>1, <1>5, <2>5 DEF DriftIsConfirmed
  <2>7. Records(c, d, "drift", DriftIsConfirmed(c, d), allowed)
    BY <2>4, <2>6 DEF Records
  <2> QED
    BY <1>1, <2>3, <2>5, <2>6, <2>7 DEF DriftOutcome
<1>6. CASE ~due
  <2>1. d = s
    BY <1>3, <1>6
  <2>2. IsOutcome(c, d)
    BY <1>1, <1>2, <2>1 DEF IsOutcome
  <2>3. ~DriftIsConfirmed(c, d)
    BY <1>1, <1>6, <2>1 DEF DriftIsConfirmed
  <2>4. Records(c, d, "drift", DriftIsConfirmed(c, d), allowed)
    BY <1>1, <2>1, <2>3 DEF Records
  <2> QED
    BY <1>1, <2>1, <2>2, <2>3, <2>4 DEF DriftOutcome
<1> HIDE DEF due
<1> QED
  BY <1>5, <1>6

LEMMA WarningWindowFields ==
    ASSUME NEW c \in ConsensusState, c.generation \in Generations, NEW votes \in Seq(DriftVote),
           NEW allowed
    PROVE  LET d == WarningWindow(c, votes, allowed)
           IN  IsOutcome(c, d) /\ WarningOutcome(c, d, allowed)
<1> DEFINE s == [c EXCEPT !.clearStreak = 0, !.driftStreak = 0, !.warningStreak = c.warningStreak + 1]
<1> DEFINE d == WarningWindow(c, votes, allowed)
<1> SUFFICES IsOutcome(c, d) /\ WarningOutcome(c, d, allowed)
  OBVIOUS
<1>1. /\ s \in ConsensusState /\ SameWindow(c, s) /\ SameRecord(c, s) /\ s.level = c.level
      /\ s.clearStreak = 0 /\ s.driftStreak = 0 /\ s.warningStreak = c.warningStreak + 1
  <2>1. c.warningStreak + 1 \in Nat
    BY DEF ConsensusState
  <2> QED
    BY <2>1 DEF ConsensusState, SameWindow, SameRecord
<1>2. EventIsSound(c) => EventIsSound(s)
  BY <1>1 DEF SameWindow, SameRecord, EventIsSound, EventIsConsistent
<1> DEFINE due == s.level = "none" /\ s.warningStreak >= Confirmation
<1>3. d = IF due THEN Confirmed(s, "warning", votes, allowed) ELSE s
  BY DEF WarningWindow
<1> HIDE DEF s, d
<1>4. s.generation \in Generations /\ s.windows = c.windows
  BY <1>1 DEF SameWindow
<1>5. CASE due
  <2> DEFINE e == Confirmed(s, "warning", votes, allowed)
  <2>1. /\ e \in ConsensusState /\ SameWindow(s, e) /\ SameStreaks(s, e) /\ e.level = "warning"
        /\ IF allowed THEN IsRecorded(s, e, "warning") ELSE SameRecord(s, e)
        /\ 0 < s.windows /\ EventIsSound(s) => EventIsSound(e)
    BY <1>1, <1>4, ConfirmedFields
  <2>2. e = d
    BY <1>3, <1>5
  <2> HIDE DEF e
  <2>3. IsOutcome(c, d)
    BY <1>1, <1>2, <1>4, <2>1, <2>2 DEF IsOutcome, SameWindow
  <2>4. IF allowed THEN IsRecorded(c, d, "warning") ELSE SameRecord(c, d)
    BY <1>1, <2>1, <2>2 DEF IsRecorded, SameWindow, SameRecord
  <2>5. /\ d.warningStreak = s.warningStreak /\ d.driftStreak = s.driftStreak
        /\ d.clearStreak = s.clearStreak /\ d.level = "warning"
    BY <2>1, <2>2 DEF SameStreaks
  <2>6. WarningIsConfirmed(c, d)
    BY <1>1, <1>5, <2>5 DEF WarningIsConfirmed
  <2>7. Records(c, d, "warning", WarningIsConfirmed(c, d), allowed)
    BY <2>4, <2>6 DEF Records
  <2> QED
    BY <1>1, <2>3, <2>5, <2>6, <2>7 DEF WarningOutcome
<1>6. CASE ~due
  <2>1. d = s
    BY <1>3, <1>6
  <2>2. IsOutcome(c, d)
    BY <1>1, <1>2, <2>1 DEF IsOutcome
  <2>3. ~WarningIsConfirmed(c, d)
    BY <1>1, <1>6, <2>1 DEF WarningIsConfirmed
  <2>4. Records(c, d, "warning", WarningIsConfirmed(c, d), allowed)
    BY <1>1, <2>1, <2>3 DEF Records
  <2> QED
    BY <1>1, <2>1, <2>2, <2>3, <2>4 DEF WarningOutcome
<1> HIDE DEF due
<1> QED
  BY <1>5, <1>6

LEMMA StableWindowFields ==
    ASSUME NEW c \in ConsensusState
    PROVE  IsOutcome(c, StableWindow(c)) /\ StableOutcome(c, StableWindow(c))
<1> DEFINE s == [c EXCEPT !.warningStreak = 0, !.driftStreak = 0, !.clearStreak = c.clearStreak + 1]
<1>1. /\ s \in ConsensusState /\ SameWindow(c, s) /\ SameRecord(c, s) /\ s.level = c.level
      /\ s.warningStreak = 0 /\ s.driftStreak = 0 /\ s.clearStreak = c.clearStreak + 1
  <2>1. c.clearStreak + 1 \in Nat
    BY DEF ConsensusState
  <2> QED
    BY <2>1 DEF ConsensusState, SameWindow, SameRecord
<1>2. StableWindow(c) = IF s.level # "none" /\ s.clearStreak >= Clearing
                        THEN [s EXCEPT !.level = "none", !.clearStreak = 0] ELSE s
  BY DEF StableWindow
<1> HIDE DEF s
<1>3. /\ StableWindow(c) \in ConsensusState /\ SameWindow(c, StableWindow(c))
      /\ StableOutcome(c, StableWindow(c))
  <2>1. CASE s.level # "none" /\ s.clearStreak >= Clearing
    <3>1. StableWindow(c) = [s EXCEPT !.level = "none", !.clearStreak = 0]
      BY <1>2, <2>1
    <3>2. "none" \in Levels
      BY DEF Levels
    <3> QED
      BY <1>1, <2>1, <3>1, <3>2 DEF ConsensusState, SameWindow, SameRecord, StableOutcome
  <2>2. CASE ~(s.level # "none" /\ s.clearStreak >= Clearing)
    BY <1>1, <1>2, <2>2 DEF StableOutcome
  <2> QED
    BY <2>1, <2>2
<1>4. EventIsSound(c) => EventIsSound(StableWindow(c))
  BY <1>3 DEF StableOutcome, SameWindow, SameRecord, EventIsSound, EventIsConsistent
<1> QED
  BY <1>3, <1>4 DEF IsOutcome

LEMMA SkippedWindowFields ==
    ASSUME NEW c \in ConsensusState
    PROVE  IsOutcome(c, SkippedWindow(c)) /\ SkippedOutcome(c, SkippedWindow(c))
<1>1. /\ SkippedWindow(c) \in ConsensusState /\ SameWindow(c, SkippedWindow(c))
      /\ SkippedOutcome(c, SkippedWindow(c))
  BY DEF SkippedWindow, ConsensusState, SameWindow, SameRecord, SkippedOutcome
<1>2. EventIsSound(c) => EventIsSound(SkippedWindow(c))
  BY <1>1 DEF SkippedOutcome, SameWindow, SameRecord, EventIsSound, EventIsConsistent
<1> QED
  BY <1>1, <1>2 DEF IsOutcome

\* What happens to one window: it is skipped, or it votes for a level.
Outcomes(c, d, votes, allowed) ==
    \/ /\ c.generationWindows <= Warming \/ Incomplete(votes)
       /\ SkippedOutcome(c, d)
    \/ /\ ~(c.generationWindows <= Warming) /\ ~Incomplete(votes)
       /\ \/ Candidate(votes) = "drift" /\ DriftOutcome(c, d, allowed)
          \/ Candidate(votes) = "warning" /\ WarningOutcome(c, d, allowed)
          \/ Candidate(votes) = "none" /\ StableOutcome(c, d)

LEMMA WindowFields ==
    ASSUME NEW c \in ConsensusState, NEW g \in Generations, NEW votes \in Seq(DriftVote)
    PROVE  LET s == Entered(c, g)
               d == WindowApplied(c, votes, g)
           IN  IsOutcome(s, d) /\ Outcomes(s, d, votes, Begun(c, g).cooldown = 0)
<1> DEFINE s == Entered(c, g)
<1> DEFINE d == WindowApplied(c, votes, g)
<1> DEFINE allowed == Begun(c, g).cooldown = 0
<1> SUFFICES IsOutcome(s, d) /\ Outcomes(s, d, votes, allowed)
  OBVIOUS
<1>1. s \in ConsensusState /\ s.generation \in Generations
  BY EnteredFields
<1>2. Candidate(votes) \in {"drift", "warning", "none"}
  BY DEF Candidate
<1>3. d = IF s.generationWindows <= Warming \/ Incomplete(votes) THEN SkippedWindow(s)
          ELSE CASE Candidate(votes) = "drift"   -> DriftWindow(s, votes, allowed)
                 [] Candidate(votes) = "warning" -> WarningWindow(s, votes, allowed)
                 [] Candidate(votes) = "none"    -> StableWindow(s)
  BY Zenon DEF WindowApplied
<1> HIDE DEF s, d, allowed
<1>4. CASE s.generationWindows <= Warming \/ Incomplete(votes)
  BY <1>1, <1>3, <1>4, SkippedWindowFields DEF Outcomes
<1>5. CASE ~(s.generationWindows <= Warming) /\ ~Incomplete(votes)
  <2>1. CASE Candidate(votes) = "drift"
    <3>1. d = DriftWindow(s, votes, allowed)
      BY <1>3, <1>5, <2>1
    <3> QED
      BY <1>1, <1>5, <2>1, <3>1, DriftWindowFields DEF Outcomes
  <2>2. CASE Candidate(votes) = "warning"
    <3>1. d = WarningWindow(s, votes, allowed)
      BY <1>3, <1>5, <2>2
    <3> QED
      BY <1>1, <1>5, <2>2, <3>1, WarningWindowFields DEF Outcomes
  <2>3. CASE Candidate(votes) = "none"
    <3>1. d = StableWindow(s)
      BY <1>3, <1>5, <2>3
    <3> QED
      BY <1>1, <1>5, <2>3, <3>1, StableWindowFields DEF Outcomes
  <2> QED
    BY <1>2, <2>1, <2>2, <2>3
<1> QED
  BY <1>4, <1>5

-----------------------------------------------------------------------------
(* What a consensus keeps from window to window.                           *)

\* Its counters bound each other, and its event is one of its own.
CountersHold(c) ==
    /\ c.generationWindows <= c.windows
    /\ c.warningStreak <= c.generationWindows
    /\ c.driftStreak <= c.generationWindows
    /\ c.clearStreak <= c.generationWindows
    /\ c.cooldown <= Cooldown
    /\ c.generation = NoGeneration => c.generationWindows = 0
    /\ EventIsSound(c)

\* The cooldown makes up for what an event of this run of windows lacks in age.
Spaced(c) ==
    c.event # NoEvent /\ c.event.last > c.windows - c.generationWindows =>
        c.windows - c.event.last + c.cooldown >= Cooldown

\* Drift was recorded in the present streak of drift windows.
InStreak(c) ==
    /\ c.event # NoEvent /\ c.event.peak = "drift" /\ c.event.generation = c.generation
    /\ c.windows - c.event.last < c.driftStreak

\* How many windows of the streak have passed without a record.
Unrecorded(c) == IF InStreak(c) THEN c.windows - c.event.last ELSE c.driftStreak

\* A streak is confirmed every Confirmation windows, and what it may wait for
\* is the rest of the cooldown.
Timed(c) ==
    /\ Unrecorded(c) - (c.driftStreak % Confirmation) <= Cooldown
    /\ c.cooldown <= Cooldown - Unrecorded(c) \/ c.cooldown = 0
    /\ c.driftStreak >= Confirmation => c.level = "drift"

LEMMA NewIsSound ==
    /\ NewConsensus \in ConsensusState
    /\ CountersHold(NewConsensus) /\ Spaced(NewConsensus) /\ Timed(NewConsensus)
<1>1. NewConsensus \in ConsensusState
  BY DEF NewConsensus, ConsensusState, Levels
<1>2. CountersHold(NewConsensus) /\ Spaced(NewConsensus)
  BY ConsensusConstants DEF NewConsensus, CountersHold, Spaced, EventIsSound
<1>3. ~InStreak(NewConsensus)
  BY DEF NewConsensus, InStreak
<1>4. 0 % Confirmation = 0
  BY ConsensusConstants, NextRemainder
<1>5. Timed(NewConsensus)
  BY <1>3, <1>4, ConsensusConstants DEF NewConsensus, Timed, Unrecorded
<1> QED
  BY <1>1, <1>2, <1>5

LEMMA WindowKeepsCounts ==
    ASSUME NEW c \in ConsensusState, CountersHold(c), NEW g \in Generations, NEW votes \in Seq(DriftVote)
    PROVE  CountersHold(WindowApplied(c, votes, g))
<1> DEFINE s == Entered(c, g)
<1> DEFINE d == WindowApplied(c, votes, g)
<1> DEFINE allowed == Begun(c, g).cooldown = 0
<1> SUFFICES CountersHold(d)
  OBVIOUS
<1>1. /\ s \in ConsensusState /\ s.windows = c.windows + 1
      /\ s.generationWindows <= s.windows
      /\ s.warningStreak < s.generationWindows /\ s.driftStreak < s.generationWindows
      /\ s.clearStreak < s.generationWindows /\ s.cooldown <= Cooldown
      /\ s.generation = g
      /\ EventIsSound(s) /\ 0 < s.windows
  <2> DEFINE b == Begun(c, g)
  <2>1. /\ s \in ConsensusState /\ b.cooldown \in Nat /\ s.windows = c.windows + 1
        /\ s.generation = g /\ s.event = c.event /\ s.nextEvent = c.nextEvent
        /\ s.cooldown = IF b.cooldown > 0 THEN b.cooldown - 1 ELSE 0
        /\ GenerationChanges(c, g) =>
             /\ s.generationWindows = 1
             /\ s.warningStreak = 0 /\ s.driftStreak = 0 /\ s.clearStreak = 0
             /\ b.cooldown = 0
        /\ ~GenerationChanges(c, g) =>
             /\ s.generationWindows = c.generationWindows + 1
             /\ s.warningStreak = c.warningStreak /\ s.driftStreak = c.driftStreak
             /\ s.clearStreak = c.clearStreak /\ b.cooldown = c.cooldown
    BY EnteredFields
  <2> HIDE DEF s, b
  <2>2. /\ c.windows \in Nat /\ c.generationWindows \in Nat /\ c.warningStreak \in Nat
        /\ c.driftStreak \in Nat /\ c.clearStreak \in Nat /\ c.cooldown \in Nat
    BY DEF ConsensusState
  <2>3. /\ s.generationWindows <= s.windows
        /\ s.warningStreak < s.generationWindows /\ s.driftStreak < s.generationWindows
        /\ s.clearStreak < s.generationWindows /\ s.cooldown <= Cooldown
    <3>1. CASE GenerationChanges(c, g)
      BY <2>1, <2>2, <3>1, ConsensusConstants
    <3>2. CASE ~GenerationChanges(c, g)
      BY <2>1, <2>2, <3>2, ConsensusConstants, SMTT(40) DEF CountersHold
    <3> QED
      BY <3>1, <3>2
  <2>4. EventIsSound(s)
    <3>1. EventIsSound(c)
      BY DEF CountersHold
    <3>2. c.event # NoEvent => c.event.last \in Nat
      BY DEF ConsensusState, Event, EventSummary
    <3> QED
      BY <2>1, <2>2, <3>1, <3>2 DEF EventIsSound, EventIsConsistent
  <2> QED
    BY <2>1, <2>2, <2>3, <2>4
<1>2. IsOutcome(s, d) /\ Outcomes(s, d, votes, allowed)
  BY WindowFields
<1>3. Cooldown \in Nat /\ NoGeneration \notin Generations
  BY ConsensusConstants, VotesAssumption
<1> HIDE DEF s, d, allowed
<1>4. d \in ConsensusState /\ SameWindow(s, d) /\ EventIsSound(d)
  BY <1>1, <1>2 DEF IsOutcome
<1>5. d.cooldown = s.cooldown \/ d.cooldown = Cooldown
  BY <1>2 DEF Outcomes, DriftOutcome, WarningOutcome, StableOutcome, SkippedOutcome, Records,
              IsRecorded, SameRecord
<1>6. /\ d.warningStreak \in {0, s.warningStreak + 1}
      /\ d.driftStreak \in {0, s.driftStreak + 1}
      /\ d.clearStreak \in {0, s.clearStreak, s.clearStreak + 1}
  BY <1>2 DEF Outcomes, DriftOutcome, WarningOutcome, StableOutcome, SkippedOutcome
<1>7. /\ s.warningStreak \in Nat /\ s.driftStreak \in Nat /\ s.clearStreak \in Nat
      /\ s.generationWindows \in Nat /\ s.windows \in Nat /\ s.cooldown \in Nat
  BY <1>1 DEF ConsensusState
<1>8. /\ d.generationWindows = s.generationWindows /\ d.windows = s.windows /\ d.generation = g
      /\ EventIsSound(d)
  BY <1>1, <1>4 DEF SameWindow
<1> QED
  BY <1>1, <1>3, <1>5, <1>6, <1>7, <1>8 DEF CountersHold

\* An event changes only where none is cooling down, and then ends with this window.
LEMMA WindowKeepsSpacing ==
    ASSUME NEW c \in ConsensusState, CountersHold(c), Spaced(c), NEW g \in Generations,
           NEW votes \in Seq(DriftVote)
    PROVE  LET d == WindowApplied(c, votes, g)
           IN  /\ Spaced(d)
               /\ d.windows = c.windows + 1 /\ d.generation = g
               /\ d.event # c.event => Begun(c, g).cooldown = 0
<1> DEFINE s == Entered(c, g)
<1> DEFINE d == WindowApplied(c, votes, g)
<1> DEFINE b == Begun(c, g)
<1> SUFFICES /\ Spaced(d) /\ d.windows = c.windows + 1 /\ d.generation = g
             /\ d.event # c.event => b.cooldown = 0
  OBVIOUS
<1>1. IsOutcome(s, d) /\ Outcomes(s, d, votes, b.cooldown = 0)
  BY WindowFields
<1>2. /\ s.windows = c.windows + 1 /\ s.generation = g /\ s.event = c.event
      /\ b.cooldown \in Nat /\ s.cooldown = IF b.cooldown > 0 THEN b.cooldown - 1 ELSE 0
      /\ GenerationChanges(c, g) => s.generationWindows = 1
      /\ ~GenerationChanges(c, g) =>
            s.generationWindows = c.generationWindows + 1 /\ b.cooldown = c.cooldown
  BY EnteredFields
<1> HIDE DEF s, d, b
<1>3. /\ c.windows \in Nat /\ c.generationWindows \in Nat /\ c.cooldown \in Nat
      /\ Cooldown \in Nat
      /\ c.event # NoEvent => c.event.last \in Nat /\ c.event.last <= c.windows
  BY ConsensusConstants
     DEF ConsensusState, Event, EventSummary, CountersHold, EventIsSound, EventIsConsistent
<1>4. /\ d.windows = s.windows /\ d.generationWindows = s.generationWindows
      /\ d.generation = s.generation
  BY <1>1 DEF IsOutcome, SameWindow
<1>5. \/ SameRecord(s, d)
      \/ b.cooldown = 0 /\ d.cooldown = Cooldown /\ d.event.last = s.windows
  BY <1>1, Zenon
     DEF Outcomes, DriftOutcome, WarningOutcome, StableOutcome, SkippedOutcome, Records, IsRecorded
<1>6. Spaced(d)
  <2>1. CASE SameRecord(s, d)
    <3>1. d.event = c.event /\ d.cooldown = s.cooldown
      BY <1>2, <2>1 DEF SameRecord
    <3> SUFFICES ASSUME d.event # NoEvent, d.event.last > d.windows - d.generationWindows
                 PROVE  d.windows - d.event.last + d.cooldown >= Cooldown
      BY DEF Spaced
    <3>2. ~GenerationChanges(c, g)
      BY <1>2, <1>3, <1>4, <3>1
    <3>3. c.windows - c.event.last + c.cooldown >= Cooldown
      BY <1>2, <1>3, <1>4, <3>1, <3>2 DEF Spaced
    <3> QED
      BY <1>2, <1>3, <1>4, <3>1, <3>2, <3>3, SMTT(40)
  <2>2. CASE d.cooldown = Cooldown /\ d.event.last = s.windows
    BY <1>2, <1>3, <1>4, <2>2 DEF Spaced
  <2> QED
    BY <1>5, <2>1, <2>2
<1>7. d.event # c.event => b.cooldown = 0
  BY <1>2, <1>5 DEF SameRecord
<1> QED
  BY <1>2, <1>4, <1>6, <1>7

\* What a streak may still wait for shrinks with every window.
LEMMA WindowKeepsTiming ==
    ASSUME NEW c \in ConsensusState, CountersHold(c), Timed(c), NEW g \in Generations,
           NEW votes \in Seq(DriftVote)
    PROVE  Timed(WindowApplied(c, votes, g))
<1> DEFINE s == Entered(c, g)
<1> DEFINE d == WindowApplied(c, votes, g)
<1> DEFINE b == Begun(c, g)
<1> SUFFICES Timed(d)
  OBVIOUS
<1>1. IsOutcome(s, d) /\ Outcomes(s, d, votes, b.cooldown = 0)
  BY WindowFields
<1>2. /\ s.windows = c.windows + 1 /\ s.generation = g /\ s.event = c.event
      /\ b.cooldown \in Nat /\ s.cooldown = IF b.cooldown > 0 THEN b.cooldown - 1 ELSE 0
      /\ GenerationChanges(c, g) => s.driftStreak = 0 /\ b.cooldown = 0
      /\ ~GenerationChanges(c, g) =>
            s.driftStreak = c.driftStreak /\ s.level = c.level /\ b.cooldown = c.cooldown
  BY EnteredFields
<1>3. CountersHold(d)
  BY WindowKeepsCounts
<1> HIDE DEF s, d, b
<1>4. /\ c.windows \in Nat /\ c.driftStreak \in Nat /\ c.cooldown \in Nat
      /\ c.cooldown <= Cooldown
      /\ Cooldown \in Nat /\ Confirmation \in Nat \ {0}
      /\ c.event # NoEvent => c.event.last \in Nat /\ c.event.last <= c.windows
      /\ c.driftStreak > 0 => c.generation # NoGeneration
  BY ConsensusConstants
     DEF ConsensusState, Event, EventSummary, CountersHold, EventIsSound, EventIsConsistent
<1>5. d.windows = c.windows + 1 /\ d.generation = g /\ d \in ConsensusState
  BY <1>1, <1>2 DEF IsOutcome, SameWindow
<1>6. 0 % Confirmation = 0
  BY <1>4, NextRemainder
<1>7. CASE d.driftStreak = 0
  <2>1. /\ d.event # NoEvent => d.event.last \in Nat /\ d.event.last <= d.windows
        /\ d.windows \in Nat /\ d.cooldown \in Nat /\ d.cooldown <= Cooldown
    BY <1>3, <1>5
       DEF ConsensusState, Event, EventSummary, CountersHold, EventIsSound, EventIsConsistent
  <2>2. ~InStreak(d)
    BY <1>7, <2>1 DEF InStreak
  <2>3. Unrecorded(d) = 0
    BY <1>7, <2>2 DEF Unrecorded
  <2> QED
    BY <1>4, <1>6, <1>7, <2>1, <2>3 DEF Timed
<1>8. CASE DriftOutcome(s, d, b.cooldown = 0)
  <2> DEFINE n == s.driftStreak
  <2> DEFINE u == IF n = 0 THEN 0 ELSE Unrecorded(c)
  <2>1. /\ n \in Nat /\ u \in Nat
        /\ u - (n % Confirmation) <= Cooldown
        /\ b.cooldown <= Cooldown - u \/ b.cooldown = 0
        /\ n >= Confirmation => s.level = "drift"
        /\ n > 0 => c.driftStreak = n /\ c.generation = g
    <3>1. CASE n = 0
      <4>1. b.cooldown <= Cooldown
        BY <1>2, <1>4
      <4> QED
        BY <1>4, <1>6, <3>1, <4>1
    <3>2. CASE n # 0
      <4>1. ~GenerationChanges(c, g) /\ n = c.driftStreak /\ n > 0
        BY <1>2, <1>4, <3>2
      <4>2. c.generation = g
        BY <1>4, <4>1 DEF GenerationChanges
      <4>3. Unrecorded(c) \in Nat
        BY <1>4 DEF Unrecorded, InStreak
      <4>4. u = Unrecorded(c)
        BY <3>2
      <4> HIDE DEF u, n
      <4> QED
        BY <1>2, <1>4, <4>1, <4>2, <4>3, <4>4 DEF Timed
    <3> QED
      BY <3>1, <3>2
  <2>2. d.driftStreak = n + 1
    BY <1>8 DEF DriftOutcome
  <2>3. DriftIsConfirmed(s, d) <=> (n + 1) % Confirmation = 0
    <3>1. /\ n % Confirmation \in 0 .. Confirmation - 1
          /\ (n + 1) % Confirmation = IF n % Confirmation = Confirmation - 1 THEN 0
                                      ELSE (n % Confirmation) + 1
      BY <1>4, <2>1, NextRemainder
    <3> HIDE DEF n
    <3>2. ASSUME n < Confirmation
          PROVE  n % Confirmation = n
      <4>1. n \in 0 .. Confirmation - 1 /\ n = Confirmation * 0 + n /\ 0 \in Nat
        BY <1>4, <2>1, <3>2
      <4> QED
        BY <1>4, <4>1, RemainderIs
    <3>3. n + 1 < Confirmation => (n + 1) % Confirmation # 0
      BY <1>4, <2>1, <3>1, <3>2
    <3>4. s.level # "drift" /\ n + 1 >= Confirmation => (n + 1) % Confirmation = 0
      BY <1>4, <2>1, <3>1, <3>2
    <3> QED
      BY <1>4, <2>1, <2>2, <3>3, <3>4 DEF DriftIsConfirmed
  <2>4. d.driftStreak >= Confirmation => d.level = "drift"
    BY <1>4, <1>8, <2>1, <2>2 DEF DriftOutcome, DriftIsConfirmed
  <2>5. CASE DriftIsConfirmed(s, d) /\ b.cooldown = 0
    <3>1. IsRecorded(s, d, "drift")
      BY <1>8, <2>5 DEF DriftOutcome, Records
    <3>2. /\ d.event # NoEvent /\ d.event.peak = "drift" /\ d.event.generation = d.generation
          /\ d.event.last = d.windows /\ d.cooldown = Cooldown
      BY <1>2, <1>5, <3>1, VotesAssumption DEF IsRecorded, Event
    <3>3. Unrecorded(d) = 0
      BY <1>4, <1>5, <2>1, <2>2, <3>2 DEF Unrecorded, InStreak
    <3>4. d.driftStreak % Confirmation = 0
      BY <2>2, <2>3, <2>5
    <3> QED
      BY <1>4, <2>4, <3>2, <3>3, <3>4 DEF Timed
  <2>6. CASE ~(DriftIsConfirmed(s, d) /\ b.cooldown = 0)
    <3>1. d.event = c.event /\ d.cooldown = s.cooldown
      BY <1>2, <1>8, <2>6 DEF DriftOutcome, Records, SameRecord
    <3>2. Unrecorded(d) = u + 1
      <4>1. CASE n = 0
        <5>1. ~InStreak(d)
          BY <1>4, <1>5, <2>2, <3>1, <4>1 DEF InStreak
        <5> QED
          BY <2>2, <4>1, <5>1 DEF Unrecorded
      <4>2. CASE n # 0
        <5>1. c.driftStreak = n /\ c.generation = g
          BY <2>1, <4>2
        <5>2. InStreak(d) <=> InStreak(c)
          BY <1>4, <1>5, <2>1, <2>2, <3>1, <5>1 DEF InStreak
        <5>3. InStreak(c) => c.event # NoEvent
          BY DEF InStreak
        <5>4. u = Unrecorded(c)
          BY <4>2
        <5> HIDE DEF u, n
        <5>5. CASE InStreak(c)
          <6>1. u = c.windows - c.event.last /\ Unrecorded(d) = d.windows - c.event.last
            BY <3>1, <5>2, <5>4, <5>5 DEF Unrecorded
          <6>2. c.event.last \in Nat /\ c.windows \in Nat
            BY <1>4, <5>3, <5>5
          <6> QED
            BY <1>5, <6>1, <6>2
        <5>6. CASE ~InStreak(c)
          BY <2>2, <5>1, <5>2, <5>4, <5>6 DEF Unrecorded
        <5> QED
          BY <5>5, <5>6
      <4> QED
        BY <4>1, <4>2
    <3>3. /\ n % Confirmation \in 0 .. Confirmation - 1
          /\ (n + 1) % Confirmation = IF n % Confirmation = Confirmation - 1 THEN 0
                                      ELSE (n % Confirmation) + 1
      BY <1>4, <2>1, NextRemainder
    <3> HIDE DEF n, u
    <3>4. d.cooldown <= Cooldown - (u + 1) \/ d.cooldown = 0
      BY <1>2, <1>4, <2>1, <3>1
    <3>5. (u + 1) - ((n + 1) % Confirmation) <= Cooldown
      <4>1. CASE DriftIsConfirmed(s, d)
        <5>1. b.cooldown # 0
          BY <2>6, <4>1
        <5> QED
          BY <1>2, <1>4, <2>1, <2>3, <4>1, <5>1
      <4>2. CASE ~DriftIsConfirmed(s, d)
        BY <1>4, <2>1, <2>3, <3>3, <4>2
      <4> QED
        BY <4>1, <4>2
    <3> QED
      BY <2>2, <2>4, <3>2, <3>4, <3>5 DEF Timed
  <2> QED
    BY <2>5, <2>6
<1> QED
  BY <1>1, <1>7, <1>8 DEF Outcomes, WarningOutcome, StableOutcome, SkippedOutcome

-----------------------------------------------------------------------------
(* The votes that a consensus has seen.                                    *)

\* A window that counts, and votes for the level.
VotesFor(input, level) == ~Incomplete(input[1]) /\ Candidate(input[1]) = level

\* VotedFor, of a log whose present generation began with its window f.
Voted(l, f, level, n, k) ==
    /\ k - n + 1 >= f + Warming
    /\ \A i \in (k - n + 1)..k : VotesFor(l[i], level)

\* The first window of the present generation.
FirstWindow(l, c) == Len(l) - c.generationWindows + 1

\* A log and the generation that a consensus counts in it.
Tracks(l, c) ==
    /\ c.windows = Len(l)
    /\ c.generationWindows <= Len(l)
    /\ Len(l) > 0 => c.generationWindows > 0
    /\ \A i \in FirstWindow(l, c)..Len(l) : l[i][2] = c.generation
    /\ c.generationWindows < Len(l) => l[FirstWindow(l, c) - 1][2] # c.generation

\* A level was confirmed with the k-th window, and what has counted towards
\* clearing it since is a streak that is too short.
Raised(l, c, f, k) ==
    /\ k \in f..Len(l) /\ Voted(l, f, c.level, Confirmation, k)
    /\ \A j \in (k + Clearing)..Len(l) : ~Voted(l, f, "none", Clearing, j)
    /\ c.clearStreak < Clearing
    /\ \A m \in 1..(Len(l) - k) : Voted(l, f, "none", m, Len(l)) => m <= c.clearStreak

\* The streaks of a consensus are those of its log.
Follows(l, c, f) ==
    /\ c.driftStreak > 0 => Voted(l, f, "drift", c.driftStreak, Len(l))
    /\ c.warningStreak > 0 => Voted(l, f, "warning", c.warningStreak, Len(l))
    /\ \A m \in 1..Len(l) : Voted(l, f, "drift", m, Len(l)) => m <= c.driftStreak
    /\ c.level # "none" => \E k \in Nat : Raised(l, c, f, k)

\* A new window does not change what earlier ones voted for.
LEMMA VotesStay ==
    ASSUME NEW X, NEW l \in Seq(X), NEW input \in X, NEW f \in Nat \ {0}, NEW level,
           NEW n \in Nat, NEW k \in Nat, k <= Len(l)
    PROVE  Voted(Append(l, input), f, level, n, k) <=> Voted(l, f, level, n, k)
<1>1. k - n + 1 >= f + Warming => \A i \in (k - n + 1)..k : Append(l, input)[i] = l[i]
  <2> SUFFICES ASSUME k - n + 1 >= f + Warming, NEW i \in (k - n + 1)..k
               PROVE  Append(l, input)[i] = l[i]
    OBVIOUS
  <2>1. i \in 1..Len(l)
    BY ConsensusConstants
  <2> QED
    BY <2>1
<1> QED
  BY <1>1, Zenon DEF Voted

\* A streak with the new window is one without it that it extends.
LEMMA VotesExtend ==
    ASSUME NEW X, NEW l \in Seq(X), NEW input \in X, NEW f \in Nat \ {0}, NEW level, NEW n \in Nat
    PROVE  Voted(Append(l, input), f, level, n + 1, Len(l) + 1)
             <=> VotesFor(input, level) /\ Voted(l, f, level, n, Len(l))
<1> DEFINE a == Append(l, input)
<1>1. Len(l) \in Nat /\ a[Len(l) + 1] = input
  OBVIOUS
<1>2. Voted(a, f, level, n, Len(l)) <=> Voted(l, f, level, n, Len(l))
  BY <1>1, VotesStay
<1> HIDE DEF a
<1> DEFINE first == Len(l) - n + 1
<1>3. first \in Int /\ first <= Len(l) + 1 /\ (Len(l) + 1) - (n + 1) + 1 = first
  BY <1>1
<1> HIDE DEF first
<1>4. \A i : i \in first..(Len(l) + 1) <=> i \in first..Len(l) \/ i = Len(l) + 1
  BY <1>1, <1>3
<1>5. Voted(a, f, level, n + 1, Len(l) + 1)
        <=> /\ first >= f + Warming
            /\ \A i \in first..Len(l) : VotesFor(a[i], level)
            /\ VotesFor(a[Len(l) + 1], level)
  BY <1>3, <1>4, Zenon DEF Voted
<1>6. Voted(a, f, level, n, Len(l))
        <=> first >= f + Warming /\ \A i \in first..Len(l) : VotesFor(a[i], level)
  BY Zenon DEF Voted, first
<1> QED
  BY <1>1, <1>2, <1>5, <1>6, Zenon DEF a

\* The last windows of a streak are one.
LEMMA ShorterStreak ==
    ASSUME NEW l, NEW f \in Nat, NEW level, NEW n \in Nat, NEW m \in 0..n, NEW k \in Nat,
           Voted(l, f, level, n, k)
    PROVE  Voted(l, f, level, m, k)
<1>1. k - n + 1 >= f + Warming /\ \A i \in (k - n + 1)..k : VotesFor(l[i], level)
  BY DEF Voted
<1>2. k - m + 1 >= f + Warming
  BY <1>1, ConsensusConstants
<1>3. \A i : i \in (k - m + 1)..k => i \in (k - n + 1)..k
  OBVIOUS
<1> QED
  BY <1>1, <1>2, <1>3, Zenon DEF Voted

\* A window that counts and votes for a level makes its streak one longer.
LEMMA StreakGrows ==
    ASSUME NEW X, NEW l \in Seq(X), NEW input \in X, NEW f \in Nat \ {0}, NEW level, NEW x \in Nat,
           x > 0 => Voted(l, f, level, x, Len(l)),
           VotesFor(input, level), Len(l) + 1 >= f + Warming
    PROVE  Voted(Append(l, input), f, level, x + 1, Len(l) + 1)
<1>1. Voted(l, f, level, x, Len(l))
  <2>1. CASE x = 0
    <3>1. Len(l) - x + 1 >= f + Warming /\ (Len(l) - x + 1)..Len(l) = {}
      BY <2>1
    <3> QED
      BY <3>1 DEF Voted
  <2> QED
    BY <2>1
<1> QED
  BY <1>1, VotesExtend

\* No streak is longer than the longest one before this window, and this window.
LEMMA LongestStreak ==
    ASSUME NEW X, NEW l \in Seq(X), NEW input \in X, NEW f \in Nat \ {0}, NEW level, NEW x \in Nat,
           NEW bound \in Nat,
           \A m \in 1..bound : Voted(l, f, level, m, Len(l)) => m <= x
    PROVE  \A m \in 1..(bound + 1) : Voted(Append(l, input), f, level, m, Len(l) + 1) =>
             m <= x + 1 /\ VotesFor(input, level) /\ Len(l) + 1 >= f + Warming
<1> SUFFICES ASSUME NEW m \in 1..(bound + 1), Voted(Append(l, input), f, level, m, Len(l) + 1)
             PROVE  m <= x + 1 /\ VotesFor(input, level) /\ Len(l) + 1 >= f + Warming
  OBVIOUS
<1> DEFINE n == m - 1
<1>1. n \in 0..bound /\ m = n + 1 /\ Len(l) \in Nat
  OBVIOUS
<1> HIDE DEF n
<1>2. VotesFor(input, level) /\ Voted(l, f, level, n, Len(l))
  BY <1>1, VotesExtend
<1>3. Len(l) - n + 1 >= f + Warming
  BY <1>2 DEF Voted
<1>4. n = 0 \/ n <= x
  BY <1>1, <1>2
<1> QED
  BY <1>1, <1>2, <1>3, <1>4, ConsensusConstants

\* A level stays raised while no streak clears it.
LEMMA StaysRaised ==
    ASSUME NEW X, NEW l \in Seq(X), NEW input \in X, NEW f \in Nat \ {0}, NEW k \in Nat,
           NEW s \in ConsensusState, NEW d \in ConsensusState,
           Raised(l, s, f, k), d.level = s.level, d.clearStreak < Clearing,
           \A m \in 1..(Len(l) + 1 - k) :
              Voted(Append(l, input), f, "none", m, Len(l) + 1) => m <= d.clearStreak
    PROVE  Raised(Append(l, input), d, f, k)
<1> DEFINE a == Append(l, input)
<1>1. Len(a) = Len(l) + 1 /\ Len(l) \in Nat /\ k \in f..Len(l) /\ Clearing \in Nat \ {0}
      /\ Confirmation \in Nat
  BY ConsensusConstants DEF Raised
<1>2. Voted(a, f, d.level, Confirmation, k)
  BY <1>1, VotesStay DEF Raised
<1>3. ASSUME NEW j \in (k + Clearing)..(Len(l) + 1)
      PROVE  ~Voted(a, f, "none", Clearing, j)
  <2>1. CASE j <= Len(l)
    <3>1. j \in (k + Clearing)..Len(l) /\ j \in Nat
      BY <1>1, <2>1
    <3>2. ~Voted(l, f, "none", Clearing, j)
      BY <3>1 DEF Raised
    <3> QED
      BY <1>1, <2>1, <3>1, <3>2, VotesStay
  <2>2. CASE j = Len(l) + 1
    <3>1. Clearing \in 1..(Len(l) + 1 - k) /\ ~(Clearing <= d.clearStreak)
      BY <1>1, <2>2, SMTT(40) DEF ConsensusState
    <3> QED
      BY <2>2, <3>1
  <2> QED
    BY <1>1, <2>1, <2>2
<1>4. k \in f..Len(a)
  BY <1>1
<1> HIDE DEF a
<1> QED
  BY <1>1, <1>2, <1>3, <1>4 DEF Raised, a

\* A level is raised with the window that completes a streak.
LEMMA IsRaised ==
    ASSUME NEW X, NEW l \in Seq(X), NEW f \in Nat \ {0}, f <= Len(l), NEW d \in ConsensusState,
           Voted(l, f, d.level, Confirmation, Len(l)), d.clearStreak = 0
    PROVE  Raised(l, d, f, Len(l))
<1>1. Clearing \in Nat \ {0} /\ Len(l) \in Nat
  BY ConsensusConstants
<1>2. (Len(l) + Clearing)..Len(l) = {} /\ 1..(Len(l) - Len(l)) = {} /\ Len(l) \in f..Len(l)
  BY <1>1
<1> QED
  BY <1>1, <1>2 DEF Raised

\* Whatever a window does, the streaks and the level follow its votes.
LEMMA OutcomeFollows ==
    ASSUME NEW X, NEW l \in Seq(X), NEW input \in X, NEW f \in 1..(Len(l) + 1),
           NEW s \in ConsensusState, NEW d \in ConsensusState, NEW allowed,
           Outcomes(s, d, input[1], allowed), Follows(l, s, f),
           s.generationWindows = Len(l) + 2 - f,
           s.driftStreak >= Confirmation => s.level = "drift",
           s.level # "none" => s.clearStreak < Clearing
    PROVE  Follows(Append(l, input), d, f)
<1> DEFINE a == Append(l, input)
<1> DEFINE counts == Len(l) + 1 >= f + Warming
<1> SUFFICES Follows(a, d, f)
  OBVIOUS
<1>1. /\ Len(a) = Len(l) + 1 /\ Len(l) \in Nat /\ f \in Nat \ {0}
      /\ Clearing \in Nat \ {0} /\ Confirmation \in Nat \ {0} /\ Warming \in Nat
      /\ s.driftStreak \in Nat /\ s.warningStreak \in Nat /\ s.clearStreak \in Nat
      /\ d.clearStreak \in Nat
  BY ConsensusConstants, SMTT(40) DEF ConsensusState
<1>2. counts <=> ~(s.generationWindows <= Warming)
  BY <1>1
<1>3. \A level : VotesFor(input, level) <=> ~Incomplete(input[1]) /\ Candidate(input[1]) = level
  BY DEF VotesFor
<1> HIDE DEF a, counts
<1>4. /\ \A m \in 1..Len(a) : Voted(a, f, "drift", m, Len(a)) =>
            m <= s.driftStreak + 1 /\ VotesFor(input, "drift") /\ counts
  <2>1. \A m \in 1..Len(l) : Voted(l, f, "drift", m, Len(l)) => m <= s.driftStreak
    BY DEF Follows
  <2> QED
    BY <1>1, <2>1, LongestStreak DEF a, counts
<1>5. ASSUME NEW k \in Nat, Raised(l, s, f, k)
      PROVE  \A m \in 1..(Len(a) - k) : Voted(a, f, "none", m, Len(a)) =>
                m <= s.clearStreak + 1 /\ VotesFor(input, "none") /\ counts
  <2>1. /\ Len(l) - k \in Nat
        /\ \A m \in 1..(Len(l) - k) : Voted(l, f, "none", m, Len(l)) => m <= s.clearStreak
    BY <1>1, <1>5 DEF Raised
  <2> DEFINE bound == Len(l) - k
  <2>2. bound + 1 = Len(a) - k
    BY <1>1
  <2> HIDE DEF bound
  <2>3. /\ bound \in Nat
        /\ \A m \in 1..bound : Voted(l, f, "none", m, Len(l)) => m <= s.clearStreak
    BY <2>1 DEF bound
  <2>4. \A m \in 1..(bound + 1) : Voted(a, f, "none", m, Len(l) + 1) =>
            m <= s.clearStreak + 1 /\ VotesFor(input, "none") /\ counts
    BY <1>1, <2>3, LongestStreak DEF a, counts
  <2> QED
    BY <1>1, <2>2, <2>4
<1>6. ASSUME s.level # "none", d.level = s.level, d.clearStreak < Clearing,
             d.clearStreak = s.clearStreak + 1 \/ ~(VotesFor(input, "none") /\ counts)
      PROVE  \E k \in Nat : Raised(a, d, f, k)
  <2>1. PICK k \in Nat : Raised(l, s, f, k)
    BY <1>6 DEF Follows
  <2>2. \A m \in 1..(Len(a) - k) : Voted(a, f, "none", m, Len(a)) => m <= d.clearStreak
    BY <1>1, <1>5, <1>6, <2>1
  <2>3. Raised(a, d, f, k)
    BY <1>1, <1>6, <2>1, <2>2, StaysRaised DEF a
  <2> QED
    BY <2>3
<1>7. ASSUME NEW level, d.level = level, d.clearStreak = 0, NEW n \in Nat, n >= Confirmation,
             Voted(a, f, level, n, Len(a))
      PROVE  \E k \in Nat : Raised(a, d, f, k)
  <2>1. Voted(a, f, level, Confirmation, Len(a))
    BY <1>1, <1>7, ShorterStreak
  <2>2. a \in Seq(X) /\ f <= Len(a)
    BY <1>1 DEF a
  <2>3. Raised(a, d, f, Len(a))
    BY <1>1, <1>7, <2>1, <2>2, IsRaised
  <2> QED
    BY <1>1, <2>3
<1>8. CASE counts /\ VotesFor(input, "drift") /\ DriftOutcome(s, d, allowed)
  <2>1. Voted(a, f, "drift", d.driftStreak, Len(a))
    BY <1>1, <1>8, StreakGrows DEF Follows, DriftOutcome, a, counts
  <2>2. d.level # "none" => \E k \in Nat : Raised(a, d, f, k)
    <3>1. CASE DriftIsConfirmed(s, d)
      BY <1>1, <1>7, <1>8, <2>1, <3>1 DEF DriftOutcome, DriftIsConfirmed
    <3>2. CASE ~DriftIsConfirmed(s, d)
      <4>1. ~VotesFor(input, "none")
        BY <1>3, <1>8
      <4> QED
        BY <1>1, <1>6, <1>8, <3>2, <4>1 DEF DriftOutcome
    <3> QED
      BY <3>1, <3>2
  <2>3. \A m \in 1..Len(a) : Voted(a, f, "drift", m, Len(a)) => m <= d.driftStreak
    BY <1>4, <1>8 DEF DriftOutcome
  <2>4. ~(d.warningStreak > 0)
    BY <1>8 DEF DriftOutcome
  <2> QED
    BY <2>1, <2>2, <2>3, <2>4, Zenon DEF Follows
<1>9. CASE counts /\ VotesFor(input, "warning") /\ WarningOutcome(s, d, allowed)
  <2>1. Voted(a, f, "warning", d.warningStreak, Len(a))
    BY <1>1, <1>9, StreakGrows DEF Follows, WarningOutcome, a, counts
  <2>2. d.level # "none" => \E k \in Nat : Raised(a, d, f, k)
    <3>1. CASE WarningIsConfirmed(s, d)
      BY <1>1, <1>7, <1>9, <2>1, <3>1 DEF WarningOutcome, WarningIsConfirmed
    <3>2. CASE ~WarningIsConfirmed(s, d)
      <4>1. ~VotesFor(input, "none")
        BY <1>3, <1>9
      <4> QED
        BY <1>1, <1>6, <1>9, <3>2, <4>1 DEF WarningOutcome
    <3> QED
      BY <3>1, <3>2
  <2>3. ~VotesFor(input, "drift")
    BY <1>3, <1>9
  <2>4. \A m \in 1..Len(a) : ~Voted(a, f, "drift", m, Len(a))
    BY <1>4, <2>3
  <2>5. ~(d.driftStreak > 0)
    BY <1>9 DEF WarningOutcome
  <2> QED
    BY <2>1, <2>2, <2>4, <2>5, Zenon DEF Follows
<1>10. CASE counts /\ VotesFor(input, "none") /\ StableOutcome(s, d)
  <2>1. d.level # "none" => \E k \in Nat : Raised(a, d, f, k)
    BY <1>1, <1>6, <1>10 DEF StableOutcome
  <2>2. ~VotesFor(input, "drift")
    BY <1>3, <1>10
  <2>3. \A m \in 1..Len(a) : ~Voted(a, f, "drift", m, Len(a))
    BY <1>4, <2>2
  <2>4. ~(d.driftStreak > 0) /\ ~(d.warningStreak > 0)
    BY <1>10 DEF StableOutcome
  <2> QED
    BY <2>1, <2>2, <2>3, <2>4, Zenon DEF Follows
<1>11. CASE (~counts \/ Incomplete(input[1])) /\ SkippedOutcome(s, d)
  <2>1. \A level : ~(counts /\ VotesFor(input, level))
    BY <1>3, <1>11
  <2>2. d.level # "none" => \E k \in Nat : Raised(a, d, f, k)
    BY <1>6, <1>11, <2>1 DEF SkippedOutcome
  <2>3. \A m \in 1..Len(a) : ~Voted(a, f, "drift", m, Len(a))
    BY <1>4, <2>1
  <2>4. ~(d.driftStreak > 0) /\ ~(d.warningStreak > 0)
    BY <1>11 DEF SkippedOutcome
  <2> QED
    BY <2>2, <2>3, <2>4, Zenon DEF Follows
<1> QED
  BY <1>2, <1>3, <1>8, <1>9, <1>10, <1>11, Zenon DEF Outcomes

\* A window is counted in its generation, and the votes are followed there.
LEMMA WindowKeepsVotes ==
    ASSUME NEW X, NEW l \in Seq(X), NEW input \in X, input[1] \in Seq(DriftVote),
           input[2] \in Generations, NEW c \in ConsensusState,
           CountersHold(c), Timed(c), Tracks(l, c), Follows(l, c, FirstWindow(l, c))
    PROVE  LET a == Append(l, input)
               d == WindowApplied(c, input[1], input[2])
           IN  Tracks(a, d) /\ Follows(a, d, FirstWindow(a, d))
<1> DEFINE g == input[2]
<1> DEFINE s == Entered(c, g)
<1> DEFINE d == WindowApplied(c, input[1], g)
<1> DEFINE a == Append(l, input)
<1> DEFINE b == Begun(c, g)
<1> SUFFICES Tracks(a, d) /\ Follows(a, d, FirstWindow(a, d))
  OBVIOUS
<1>1. IsOutcome(s, d) /\ Outcomes(s, d, input[1], b.cooldown = 0)
  BY WindowFields
<1>2. /\ s \in ConsensusState /\ s.windows = c.windows + 1 /\ s.generation = g
      /\ GenerationChanges(c, g) =>
           /\ s.generationWindows = 1 /\ s.level = "none"
           /\ s.warningStreak = 0 /\ s.driftStreak = 0 /\ s.clearStreak = 0
      /\ ~GenerationChanges(c, g) =>
           /\ s.generationWindows = c.generationWindows + 1 /\ s.level = c.level
           /\ s.warningStreak = c.warningStreak /\ s.driftStreak = c.driftStreak
           /\ s.clearStreak = c.clearStreak
  BY EnteredFields
<1>3. /\ Len(l) \in Nat /\ Len(a) = Len(l) + 1 /\ a[Len(l) + 1] = input
      /\ \A i \in 1..Len(l) : a[i] = l[i]
  OBVIOUS
<1>4. /\ c.windows = Len(l) /\ c.generationWindows \in 0..Len(l)
      /\ Len(l) > 0 => c.generationWindows > 0
      /\ c.generation = NoGeneration => c.generationWindows = 0
  BY DEF Tracks, CountersHold, ConsensusState
<1>5. /\ Confirmation \in Nat \ {0} /\ Warming \in Nat
  BY ConsensusConstants
<1> DEFINE f == Len(l) + 2 - s.generationWindows
<1> HIDE DEF s, d, b
<1>6. /\ d \in ConsensusState /\ d.windows = s.windows /\ d.generation = g
      /\ d.generationWindows = s.generationWindows
  BY <1>1, <1>2 DEF IsOutcome, SameWindow
<1>7. FirstWindow(a, d) = f
  <2>1. s.generationWindows \in Nat /\ d.generationWindows = s.generationWindows
    BY <1>2, <1>6 DEF ConsensusState
  <2>2. FirstWindow(a, d) = (Len(l) + 1) - s.generationWindows + 1
    BY <1>3, <2>1 DEF FirstWindow
  <2> QED
    BY <1>3, <2>1, <2>2
<1> HIDE DEF g, a
<1>8. Tracks(a, d) /\ f \in 1..(Len(l) + 1)
  <2>1. CASE GenerationChanges(c, g)
    <3>1. f = Len(l) + 1 /\ s.generationWindows = 1
      BY <1>2, <1>3, <2>1
    <3>2. \A i \in f..Len(a) : a[i][2] = g
      BY <1>3, <3>1 DEF g
    <3>3. Len(l) > 0 => a[f - 1][2] # g
      <4> SUFFICES ASSUME Len(l) > 0
                   PROVE  a[f - 1][2] # g
        OBVIOUS
      <4>1. a[f - 1] = l[Len(l)]
        BY <1>3, <3>1
      <4>2. Len(l) \in FirstWindow(l, c)..Len(l)
        BY <1>3, <1>4 DEF FirstWindow
      <4>3. l[Len(l)][2] = c.generation
        BY <4>2 DEF Tracks
      <4> QED
        BY <2>1, <4>1, <4>3 DEF GenerationChanges
    <3> QED
      BY <1>2, <1>3, <1>4, <1>6, <1>7, <3>1, <3>2, <3>3 DEF Tracks
  <2>2. CASE ~GenerationChanges(c, g)
    <3>1. f = FirstWindow(l, c) /\ s.generationWindows = c.generationWindows + 1
      BY <1>2, <1>3, <1>4, <2>2 DEF FirstWindow
    <3>2. f \in 1..(Len(l) + 1)
      BY <1>3, <1>4, <3>1 DEF FirstWindow
    <3>3. Len(l) > 0 => c.generation = g
      BY <1>4, <2>2 DEF GenerationChanges
    <3>4. \A i \in f..Len(a) : a[i][2] = g
      <4> SUFFICES ASSUME NEW i \in f..Len(a)
                   PROVE  a[i][2] = g
        OBVIOUS
      <4>1. CASE i = Len(a)
        BY <1>3, <4>1 DEF g
      <4>2. CASE i # Len(a)
        <5>1. i \in f..Len(l) /\ i \in 1..Len(l) /\ Len(l) > 0
          BY <1>3, <3>2, <4>2
        <5>2. l[i][2] = c.generation
          BY <3>1, <5>1 DEF Tracks
        <5> QED
          BY <1>3, <3>3, <5>1, <5>2
      <4> QED
        BY <4>1, <4>2
    <3>5. d.generationWindows < Len(a) => a[f - 1][2] # g
      <4> SUFFICES ASSUME d.generationWindows < Len(a)
                   PROVE  a[f - 1][2] # g
        OBVIOUS
      <4>1. c.generationWindows < Len(l)
        BY <1>3, <1>4, <1>6, <3>1
      <4>2. f - 1 \in 1..Len(l) /\ Len(l) > 0
        BY <1>3, <1>4, <3>1, <4>1 DEF FirstWindow
      <4>3. l[f - 1][2] # c.generation
        BY <3>1, <4>1 DEF Tracks
      <4> QED
        BY <1>3, <3>3, <4>2, <4>3
    <3> QED
      BY <1>2, <1>3, <1>4, <1>6, <1>7, <3>1, <3>2, <3>4, <3>5 DEF Tracks
  <2> QED
    BY <2>1, <2>2
<1>9. Follows(l, s, f)
  <2>1. CASE GenerationChanges(c, g)
    <3>1. f = Len(l) + 1
      BY <1>2, <1>3, <2>1
    <3>2. \A m \in 1..Len(l) : ~Voted(l, f, "drift", m, Len(l))
      BY <1>3, <1>5, <3>1 DEF Voted
    <3> QED
      BY <1>2, <2>1, <3>2 DEF Follows
  <2>2. CASE ~GenerationChanges(c, g)
    <3>1. f = FirstWindow(l, c)
      BY <1>2, <1>3, <1>4, <2>2 DEF FirstWindow
    <3> HIDE DEF f
    <3>2. Follows(l, c, f)
      BY <3>1
    <3>3. \A k \in Nat : Raised(l, c, f, k) <=> Raised(l, s, f, k)
      BY <1>2, <2>2, Zenon DEF Raised
    <3> QED
      BY <1>2, <2>2, <3>2, <3>3, Zenon DEF Follows
  <2> QED
    BY <2>1, <2>2
<1>10. s.driftStreak >= Confirmation => s.level = "drift"
  BY <1>2, <1>5 DEF Timed
<1>11. s.level # "none" => s.clearStreak < Clearing
  BY <1>9 DEF Follows, Raised
<1>12. s.generationWindows = Len(l) + 2 - f
  BY <1>2, <1>3, SMTT(40) DEF ConsensusState
<1> HIDE DEF f
<1>13. Follows(a, d, f)
  BY <1>1, <1>2, <1>6, <1>8, <1>9, <1>10, <1>11, <1>12, OutcomeFollows DEF a
<1> QED
  BY <1>7, <1>8, <1>13

-----------------------------------------------------------------------------
(* The consensus as its caller drives it.                                  *)

\* What holds of a consensus and the inputs that it took: the inductive
\* invariant behind every theorem below.
ConsensusInv ==
    /\ stream \in Streams
    /\ stream.kind = "consensus" =>
         /\ object \in ConsensusState
         /\ CountersHold(object) /\ Spaced(object) /\ Timed(object)
         /\ log \in Seq(stream.inputs)
         /\ Tracks(log, object) /\ Follows(log, object, FirstWindow(log, object))

\* The steps of a caller of a consensus.
LEMMA ConsensusSteps ==
    ASSUME [MonitoringNext]_vars, stream.kind = "consensus"
    PROVE  \/ UNCHANGED <<object, log>>
           \/ object' = NewConsensus /\ log' = <<>>
           \/ \E input \in stream.inputs :
                 /\ object' = WindowApplied(object, input[1], input[2])
                 /\ log' = Append(log, input)
<1>1. "consensus" \notin Pairs /\ "consensus" \notin Weighed /\ "consensus" \notin DOMAIN Cells
  BY DEF Pairs, Weighed, Cells
<1>2. ASSUME NEW input \in stream.inputs, Took(Take(stream.kind, object, input), input)
      PROVE  \/ UNCHANGED <<object, log>>
             \/ /\ object' = WindowApplied(object, input[1], input[2])
                /\ log' = Append(log, input)
  <2>1. Take(stream.kind, object, input) = ConsensusUpdate(object, input[1], input[2])
    BY <1>1 DEF Take
  <2> DEFINE r == ConsensusUpdate(object, input[1], input[2])
  <2>2. r = [ok |-> TRUE, state |-> WindowApplied(object, input[1], input[2])]
          \/ r = [ok |-> FALSE, state |-> object]
    BY Zenon DEF ConsensusUpdate
  <2> HIDE DEF r
  <2>3. object' = r.state /\ log' = IF r.ok THEN Append(log, input) ELSE log
    BY <1>2, <2>1 DEF Took, r
  <2> QED
    BY <2>2, <2>3
<1>3. CASE Feed
  BY <1>2, <1>3 DEF Feed
<1>4. CASE Reset
  <2>1. New("consensus") = NewConsensus
    BY <1>1 DEF New
  <2> QED
    BY <1>4, <2>1 DEF Reset
<1>5. CASE Select
  BY <1>5 DEF Select
<1>6. CASE Compare
  BY <1>6 DEF Compare
<1>7. CASE UNCHANGED vars
  BY <1>7 DEF vars
<1> QED
  BY <1>3, <1>4, <1>5, <1>6, <1>7 DEF MonitoringNext

LEMMA StreamStays ==
    [MonitoringNext]_vars => stream' = stream
BY DEF MonitoringNext, Feed, Took, Reset, Select, Compare, vars

\* The inputs of a consensus.
LEMMA InputsOfConsensus ==
    ASSUME stream \in Streams, stream.kind = "consensus", NEW input \in stream.inputs
    PROVE  input[1] \in Seq(DriftVote) /\ input[2] \in Generations
BY VotesAssumption DEF Generations

LEMMA NewFollowsNothing ==
    /\ Tracks(<<>>, NewConsensus)
    /\ Follows(<<>>, NewConsensus, FirstWindow(<<>>, NewConsensus))
<1>1. Len(<<>>) = 0
  OBVIOUS
<1>2. FirstWindow(<<>>, NewConsensus) = 1
  BY DEF FirstWindow, NewConsensus
<1>3. Tracks(<<>>, NewConsensus)
  BY <1>2 DEF Tracks, NewConsensus
<1>4. Follows(<<>>, NewConsensus, 1)
  BY DEF Follows, NewConsensus
<1> QED
  BY <1>2, <1>3, <1>4

LEMMA ConsensusInit == MonitoringInit => ConsensusInv
<1> SUFFICES ASSUME MonitoringInit
             PROVE  ConsensusInv
  OBVIOUS
<1>1. stream \in Streams /\ log = <<>> /\ object = New(stream.kind)
  BY DEF MonitoringInit
<1>2. ASSUME stream.kind = "consensus"
      PROVE  object = NewConsensus
  <2>1. "consensus" \notin DOMAIN Cells
    BY DEF Cells
  <2> QED
    BY <1>1, <1>2, <2>1 DEF New
<1>3. log \in Seq(stream.inputs)
  BY <1>1
<1> QED
  BY <1>1, <1>2, <1>3, NewIsSound, NewFollowsNothing DEF ConsensusInv

LEMMA ConsensusStep == ConsensusInv /\ [MonitoringNext]_vars => ConsensusInv'
<1> SUFFICES ASSUME ConsensusInv, [MonitoringNext]_vars
             PROVE  ConsensusInv'
  OBVIOUS
<1>1. stream' = stream /\ stream \in Streams
  BY StreamStays DEF ConsensusInv
<1>2. CASE stream.kind # "consensus"
  BY <1>1, <1>2 DEF ConsensusInv
<1>3. CASE stream.kind = "consensus"
  <2>1. CASE UNCHANGED <<object, log>>
    BY <1>1, <2>1 DEF ConsensusInv, FirstWindow
  <2>2. CASE object' = NewConsensus /\ log' = <<>>
    <3>1. log' \in Seq(stream.inputs)
      BY <2>2
    <3>2. Tracks(log', object') /\ Follows(log', object', FirstWindow(log', object'))
      BY <2>2, NewFollowsNothing
    <3> QED
      BY <1>1, <2>2, <3>1, <3>2, NewIsSound DEF ConsensusInv
  <2>3. CASE \E input \in stream.inputs :
                /\ object' = WindowApplied(object, input[1], input[2])
                /\ log' = Append(log, input)
    <3>1. PICK input \in stream.inputs :
                /\ object' = WindowApplied(object, input[1], input[2])
                /\ log' = Append(log, input)
      BY <2>3
    <3>2. input[1] \in Seq(DriftVote) /\ input[2] \in Generations
      BY <1>1, <1>3, InputsOfConsensus
    <3>3. /\ object \in ConsensusState
          /\ CountersHold(object) /\ Spaced(object) /\ Timed(object)
          /\ log \in Seq(stream.inputs)
          /\ Tracks(log, object) /\ Follows(log, object, FirstWindow(log, object))
      BY <1>3 DEF ConsensusInv
    <3>4. object' \in ConsensusState
      BY <3>1, <3>2, <3>3, WindowFields DEF IsOutcome
    <3>5. CountersHold(object') /\ Spaced(object') /\ Timed(object')
      BY <3>1, <3>2, <3>3, WindowKeepsCounts, WindowKeepsSpacing, WindowKeepsTiming
    <3>6. Tracks(log', object') /\ Follows(log', object', FirstWindow(log', object'))
      BY <3>1, <3>2, <3>3, WindowKeepsVotes
    <3>7. log' \in Seq(stream.inputs)
      BY <3>1, <3>3
    <3> QED
      BY <1>1, <3>4, <3>5, <3>6, <3>7 DEF ConsensusInv
  <2> QED
    BY <1>3, <2>1, <2>2, <2>3, ConsensusSteps
<1> QED
  BY <1>2, <1>3

LEMMA ConsensusInvHolds == MonitoringSpec => []ConsensusInv
<1> QED
  BY ConsensusInit, ConsensusStep, PTL DEF MonitoringSpec

-----------------------------------------------------------------------------
(* Theorems                                                                *)

\* SavedStateIsAccepted, of a consensus: whatever windows it was given,
\* validate_state never refuses what it saved.
THEOREM SavedConsensusIsAccepted ==
    MonitoringSpec => [](stream.kind = "consensus" => SavedStateIsAccepted)
<1>1. ConsensusInv => (stream.kind = "consensus" => SavedStateIsAccepted)
  <2> SUFFICES ASSUME ConsensusInv, stream.kind = "consensus"
               PROVE  SavedStateIsAccepted
    OBVIOUS
  <2>1. object \in ConsensusState /\ CountersHold(object)
    BY DEF ConsensusInv
  <2>2. ConsensusIsValid(object)
    BY <2>1 DEF ConsensusIsValid, CountersHold, EventIsSound, ConsensusState
  <2>3. "consensus" \notin Weighed /\ "consensus" \notin DOMAIN Cells
    BY DEF Weighed, Cells
  <2> QED
    BY <2>2, <2>3 DEF SavedStateIsAccepted, IsAccepted
<1> QED
  BY <1>1, ConsensusInvHolds, PTL

\* DriftIsRecorded: while drift lasts, an event of it is never older than the
\* cooldown and one more confirmation.
THEOREM LastingDriftIsRecorded == MonitoringSpec => []DriftIsRecorded
<1>1. ConsensusInv => DriftIsRecorded
  <2> SUFFICES ASSUME ConsensusInv, stream.kind = "consensus",
                      object.driftStreak > Cooldown + Confirmation
               PROVE  /\ object.event # NoEvent /\ object.event.peak = "drift"
                      /\ object.event.generation = object.generation
                      /\ object.windows - object.event.last <= Cooldown + Confirmation
    BY DEF DriftIsRecorded
  <2>1. object \in ConsensusState /\ Timed(object)
    BY DEF ConsensusInv
  <2>2. /\ object.driftStreak \in Nat /\ object.windows \in Nat
        /\ Cooldown \in Nat /\ Confirmation \in Nat \ {0}
        /\ object.event # NoEvent => object.event.last \in Nat
    BY <2>1, ConsensusConstants DEF ConsensusState, Event, EventSummary
  <2>3. object.driftStreak % Confirmation \in 0 .. Confirmation - 1
    BY <2>2, NextRemainder
  <2> DEFINE r == object.driftStreak % Confirmation
  <2>4. Unrecorded(object) - r <= Cooldown
    BY <2>1 DEF Timed
  <2> HIDE DEF r
  <2>5. InStreak(object)
    BY <2>2, <2>3, <2>4 DEF Unrecorded, r
  <2> QED
    BY <2>2, <2>3, <2>4, <2>5 DEF Unrecorded, InStreak, r
<1> QED
  BY <1>1, ConsensusInvHolds, PTL

\* EventsAreSpaced: a step that records an event does so more than a cooldown
\* after the last one of the same run of windows.
THEOREM RecordsAreSpaced == MonitoringSpec => EventsAreSpaced
<1>1. ConsensusInv /\ [MonitoringNext]_vars =>
        [stream.kind = "consensus" /\ log' # <<>> /\ object.event # NoEvent
         /\ object'.event # object.event /\ object'.generation = object.generation
         /\ object.event.last > object.windows - object.generationWindows
         => object'.windows - object.event.last > Cooldown]_vars
  <2> SUFFICES ASSUME ConsensusInv, [MonitoringNext]_vars, stream.kind = "consensus",
                      log' # <<>>, object.event # NoEvent, object'.event # object.event,
                      object'.generation = object.generation,
                      object.event.last > object.windows - object.generationWindows
               PROVE  object'.windows - object.event.last > Cooldown
    OBVIOUS
  <2>1. PICK input \in stream.inputs : object' = WindowApplied(object, input[1], input[2])
    BY ConsensusSteps
  <2>2. input[1] \in Seq(DriftVote) /\ input[2] \in Generations
    BY InputsOfConsensus DEF ConsensusInv
  <2>3. object \in ConsensusState /\ CountersHold(object) /\ Spaced(object)
    BY DEF ConsensusInv
  <2> DEFINE g == input[2]
  <2>4. /\ object'.windows = object.windows + 1 /\ object'.generation = g
        /\ Begun(object, g).cooldown = 0
    BY <2>1, <2>2, <2>3, WindowKeepsSpacing
  <2>5. ~GenerationChanges(object, g)
    BY <2>4 DEF GenerationChanges
  <2>6. object.cooldown = 0
    BY <2>4, <2>5 DEF Begun
  <2>7. object.windows - object.event.last + object.cooldown >= Cooldown
    BY <2>3 DEF Spaced
  <2>8. object.windows \in Nat /\ object.event.last \in Nat /\ Cooldown \in Nat
    BY <2>3, ConsensusConstants DEF ConsensusState, Event, EventSummary
  <2> QED
    BY <2>4, <2>6, <2>7, <2>8
<1> QED
  BY <1>1, ConsensusInvHolds, PTL DEF MonitoringSpec, EventsAreSpaced

\* The generation of a window began where the consensus began to count it.
LEMMA StartIsFirstWindow ==
    ASSUME NEW X, log \in Seq(X), object \in ConsensusState, Tracks(log, object),
           NEW k \in FirstWindow(log, object)..Len(log)
    PROVE  StartOf(k) = FirstWindow(log, object)
<1> DEFINE f == FirstWindow(log, object)
<1> DEFINE IsStart(i) == /\ \A j \in i..k : Generation(j) = Generation(k)
                         /\ i > 1 => Generation(i - 1) # Generation(k)
<1>1. Len(log) \in Nat /\ object.generationWindows \in 0..Len(log)
  BY DEF Tracks, ConsensusState
<1>2. f \in Nat \ {0} /\ k \in Nat /\ f <= k /\ k <= Len(log)
  BY <1>1 DEF FirstWindow
<1>3. \A j \in f..k : Generation(j) = object.generation
  <2>1. \A j \in f..k : j \in f..Len(log)
    BY <1>2
  <2> QED
    BY <2>1 DEF Generation, Tracks
<1>4. f > 1 => Generation(f - 1) # object.generation
  <2>1. f > 1 => object.generationWindows < Len(log)
    BY <1>1 DEF FirstWindow
  <2> QED
    BY <2>1 DEF Generation, Tracks
<1> HIDE DEF f
<1>5. k \in f..k /\ f \in 1..k
  BY <1>2
<1>6. IsStart(f)
  BY <1>3, <1>4, <1>5
<1>7. ASSUME NEW i \in 1..k, IsStart(i)
      PROVE  i = f
  <2>1. CASE i < f
    <3>1. f - 1 \in i..k /\ f > 1
      BY <1>2, <2>1
    <3> QED
      BY <1>3, <1>4, <1>5, <1>7, <3>1
  <2>2. CASE f < i
    <3>1. i - 1 \in f..k /\ i > 1
      BY <1>2, <2>2
    <3> QED
      BY <1>3, <1>5, <1>7, <3>1
  <2> QED
    BY <1>2, <2>1, <2>2
<1>8. StartOf(k) = CHOOSE i \in 1..k : IsStart(i)
  BY DEF StartOf
<1> HIDE DEF IsStart
<1> QED
  BY <1>5, <1>6, <1>7, <1>8 DEF f

\* LevelFollowsVotes: a level was confirmed by as many windows in a row as it
\* takes and not cleared since, and drift that lasts as long is raised.
THEOREM LevelsFollowVotes == MonitoringSpec => []LevelFollowsVotes
<1>1. ConsensusInv => LevelFollowsVotes
  <2> SUFFICES ASSUME ConsensusInv, stream.kind = "consensus", log # <<>>
               PROVE  LET now == Len(log)
                      IN  /\ object.level # "none" =>
                               \E k \in StartOf(now)..now :
                                  /\ k >= Confirmation
                                  /\ VotedFor(object.level, Confirmation, k)
                                  /\ \A j \in (k + Clearing)..now : ~VotedFor("none", Clearing, j)
                          /\ now >= Confirmation /\ VotedFor("drift", Confirmation, now) =>
                               object.level = "drift"
    BY DEF LevelFollowsVotes
  <2> DEFINE now == Len(log)
  <2> DEFINE f == FirstWindow(log, object)
  <2>1. /\ object \in ConsensusState /\ Timed(object) /\ log \in Seq(stream.inputs)
        /\ Tracks(log, object) /\ Follows(log, object, f)
    BY DEF ConsensusInv
  <2>2. now \in Nat \ {0} /\ object.generationWindows \in 1..now
    BY <2>1 DEF Tracks, ConsensusState
  <2>3. f \in Nat \ {0} /\ f <= now
    BY <2>2 DEF FirstWindow
  <2>4. \A k \in f..now : StartOf(k) = f
    BY <2>1, StartIsFirstWindow
  <2>5. /\ Confirmation \in Nat \ {0} /\ Clearing \in Nat \ {0} /\ Warming \in Nat
        /\ object.driftStreak \in Nat
    BY <2>1, ConsensusConstants DEF ConsensusState
  <2> HIDE DEF f, now
  <2>6. ASSUME NEW level, NEW n, NEW k \in f..now
        PROVE  VotedFor(level, n, k) <=> Voted(log, f, level, n, k)
    BY <2>4, Zenon DEF VotedFor, Voted, VotesFor
  <2>7. now \in f..now
    BY <2>2, <2>3
  <2>8. object.level # "none" =>
          \E k \in StartOf(now)..now :
             /\ k >= Confirmation /\ VotedFor(object.level, Confirmation, k)
             /\ \A j \in (k + Clearing)..now : ~VotedFor("none", Clearing, j)
    <3> SUFFICES ASSUME object.level # "none"
                 PROVE  \E k \in f..now :
                           /\ k >= Confirmation /\ VotedFor(object.level, Confirmation, k)
                           /\ \A j \in (k + Clearing)..now : ~VotedFor("none", Clearing, j)
      BY <2>4, <2>7
    <3>1. PICK k \in Nat : Raised(log, object, f, k)
      BY <2>1 DEF Follows
    <3>2. k \in f..now /\ Voted(log, f, object.level, Confirmation, k)
      BY <3>1 DEF Raised, now
    <3>3. \A j \in (k + Clearing)..now : ~Voted(log, f, "none", Clearing, j)
      BY <3>1 DEF Raised, now
    <3>4. k - Confirmation + 1 >= f + Warming
      BY <3>2 DEF Voted
    <3>5. k >= Confirmation
      BY <2>3, <2>5, <3>4
    <3>6. \A j \in (k + Clearing)..now : j \in f..now
      BY <2>3, <2>5, <3>2
    <3>7. \A j \in (k + Clearing)..now : ~VotedFor("none", Clearing, j)
      BY <2>6, <3>3, <3>6
    <3> QED
      BY <2>6, <3>2, <3>5, <3>7
  <2>9. now >= Confirmation /\ VotedFor("drift", Confirmation, now) => object.level = "drift"
    <3> SUFFICES ASSUME now >= Confirmation, VotedFor("drift", Confirmation, now)
                 PROVE  object.level = "drift"
      OBVIOUS
    <3>1. Confirmation \in 1..now /\ Voted(log, f, "drift", Confirmation, now)
      BY <2>2, <2>5, <2>6, <2>7
    <3>2. Confirmation <= object.driftStreak
      BY <2>1, <3>1 DEF Follows, now
    <3> QED
      BY <2>1, <2>5, <3>2 DEF Timed
  <2> QED
    BY <2>8, <2>9 DEF now
<1> QED
  BY <1>1, ConsensusInvHolds, PTL

-----------------------------------------------------------------------------
(* Windows that drop their oldest value when they are full.                *)

LEMMA PushedIsLastOf ==
    ASSUME NEW S, NEW l \in Seq(S), NEW x \in S, NEW cap \in Nat \ {0}
    PROVE  Pushed(LastOf(l, cap), x, cap) = LastOf(Append(l, x), cap)
<1> DEFINE w == LastOf(l, cap)
<1>1. w \in Seq(S) /\ Len(w) = Lower(cap, Len(l)) /\ Recent(w, l)
  BY LastOfFields
<1> DEFINE room == IF Len(w) = cap THEN Tail(w) ELSE w
<1>2. Pushed(w, x, cap) = Append(room, x)
  BY DEF Pushed
<1>3. Len(l) \in Nat /\ Append(l, x) \in Seq(S) /\ Len(Append(l, x)) = Len(l) + 1
  OBVIOUS
<1> HIDE DEF w
<1>4. room \in Seq(S) /\ Recent(room, l) /\ Len(room) = IF Len(w) = cap THEN cap - 1 ELSE Len(w)
  <2>1. CASE Len(w) = cap
    <3>1. w # <<>>
      BY <1>1, <2>1
    <3>2. Tail(w) \in Seq(S) /\ Len(Tail(w)) = cap - 1 /\ Recent(Tail(w), l)
      BY <1>1, <2>1, <3>1, RecentTail
    <3> QED
      BY <2>1, <3>2
  <2>2. CASE Len(w) # cap
    BY <1>1, <2>2
  <2> QED
    BY <2>1, <2>2
<1> HIDE DEF room
<1>5. Append(room, x) \in Seq(S) /\ Len(Append(room, x)) = Len(room) + 1
  BY <1>4
<1>6. Recent(Append(room, x), Append(l, x))
  BY <1>4, RecentAppend
<1>7. Len(room) + 1 = Lower(cap, Len(l) + 1)
  BY <1>1, <1>3, <1>4 DEF Lower
<1>8. Append(room, x) = LastOf(Append(l, x), cap)
  <2> DEFINE v == Append(room, x)
  <2> DEFINE m == Append(l, x)
  <2>1. v \in Seq(S) /\ m \in Seq(S) /\ Recent(v, m) /\ Len(v) = Lower(cap, Len(m))
    BY <1>3, <1>5, <1>6, <1>7
  <2> HIDE DEF v, m
  <2>2. v = LastOf(m, cap)
    BY <2>1, RecentIsLastOf
  <2> QED
    BY <2>2 DEF v, m
<1> QED
  BY <1>2, <1>8 DEF w

\* What a window of results holds of a window of inputs.
Image(F, w) == [i \in DOMAIN w |-> F[w[i]]]

LEMMA ImageType ==
    ASSUME NEW S, NEW T, NEW F, \A y \in S : F[y] \in T, NEW w \in Seq(S)
    PROVE  Image(F, w) \in Seq(T) /\ Len(Image(F, w)) = Len(w)
<1>1. Len(w) \in Nat /\ DOMAIN w = 1..Len(w) /\ \A i \in 1..Len(w) : w[i] \in S
  OBVIOUS
<1>2. Image(F, w) = [i \in 1..Len(w) |-> F[w[i]]]
  BY <1>1 DEF Image
<1>3. \A i \in 1..Len(w) : F[w[i]] \in T
  BY <1>1
<1>4. Image(F, w) \in [1..Len(w) -> T]
  BY <1>2, <1>3
<1> QED
  BY <1>1, <1>4

LEMMA ImageFields ==
    ASSUME NEW S, NEW F, NEW w \in Seq(S)
    PROVE  /\ Len(Image(F, w)) = Len(w)
           /\ \A i \in 1..Len(w) : Image(F, w)[i] = F[w[i]]
<1> DEFINE T == {F[y] : y \in S}
<1>1. Image(F, w) \in Seq(T) /\ Len(Image(F, w)) = Len(w)
  <2>1. \A y \in S : F[y] \in T
    OBVIOUS
  <2> HIDE DEF T
  <2>2. Image(F, w) \in Seq(T)
    BY <2>1, ImageType
  <2>3. Len(w) \in Nat /\ Image(F, w) = [i \in 1..Len(w) |-> F[w[i]]]
    BY DEF Image
  <2> QED
    BY <2>2, <2>3
<1>2. DOMAIN w = 1..Len(w)
  OBVIOUS
<1> QED
  BY <1>1, <1>2 DEF Image

\* Pushing and taking the image commute.
LEMMA ImagePushed ==
    ASSUME NEW S, NEW F, NEW w \in Seq(S), NEW x \in S, NEW cap \in Nat \ {0}
    PROVE  Pushed(Image(F, w), F[x], cap) = Image(F, Pushed(w, x, cap))
<1> DEFINE T == {F[y] : y \in S}
<1>0. ASSUME NEW v \in Seq(S)
      PROVE  /\ Image(F, v) \in Seq(T)
             /\ Len(Image(F, v)) = Len(v)
             /\ \A i \in 1..Len(v) : Image(F, v)[i] = F[v[i]]
  <2>1. \A y \in S : F[y] \in T
    OBVIOUS
  <2> HIDE DEF T
  <2>2. Image(F, v) \in Seq(T)
    BY <2>1, ImageType
  <2> QED
    BY <2>2, ImageFields
<1>5. F[x] \in T
  OBVIOUS
<1> HIDE DEF T
<1>1. Image(F, w) \in Seq(T) /\ Len(Image(F, w)) = Len(w) /\ Len(w) \in Nat
      /\ \A i \in 1..Len(w) : Image(F, w)[i] = F[w[i]]
  BY <1>0
<1> DEFINE room == IF Len(w) = cap THEN Tail(w) ELSE w
<1> DEFINE there == IF Len(w) = cap THEN Tail(Image(F, w)) ELSE Image(F, w)
<1>2. Pushed(w, x, cap) = Append(room, x)
  BY DEF Pushed
<1>3. Pushed(Image(F, w), F[x], cap) = Append(there, F[x])
  BY <1>1 DEF Pushed
<1>4. /\ room \in Seq(S) /\ there \in Seq(T) /\ Len(there) = Len(room)
      /\ \A i \in 1..Len(room) : there[i] = F[room[i]]
  <2>1. CASE Len(w) = cap
    <3>1. w # <<>> /\ Image(F, w) # <<>>
      BY <1>1, <2>1
    <3>2. Tail(w) \in Seq(S) /\ Len(Tail(w)) = Len(w) - 1
          /\ \A i \in 1..Len(Tail(w)) : Tail(w)[i] = w[i + 1]
      BY <3>1, HeadTailProperties
    <3>3. Tail(Image(F, w)) \in Seq(T) /\ Len(Tail(Image(F, w))) = Len(w) - 1
          /\ \A i \in 1..Len(Tail(Image(F, w))) : Tail(Image(F, w))[i] = Image(F, w)[i + 1]
      BY <1>1, <3>1, HeadTailProperties
    <3>4. \A i \in 1..(Len(w) - 1) : Tail(Image(F, w))[i] = F[Tail(w)[i]]
      BY <1>1, <3>2, <3>3
    <3> QED
      BY <2>1, <3>2, <3>3, <3>4
  <2>2. CASE Len(w) # cap
    BY <1>1, <2>2
  <2> QED
    BY <2>1, <2>2
<1> HIDE DEF room, there
<1> DEFINE a == Append(there, F[x])
<1> DEFINE r == Append(room, x)
<1>6. r \in Seq(S) /\ Len(r) = Len(room) + 1 /\ r[Len(room) + 1] = x
      /\ \A i \in 1..Len(room) : r[i] = room[i]
  BY <1>4, AppendProperties
<1>7. a \in Seq(T) /\ Len(a) = Len(room) + 1 /\ a[Len(room) + 1] = F[x]
      /\ \A i \in 1..Len(room) : a[i] = there[i]
  BY <1>4, <1>5, AppendProperties
<1>8. Len(room) \in Nat
  BY <1>4
<1> HIDE DEF a, r
<1>9. Image(F, r) \in Seq(T) /\ Len(Image(F, r)) = Len(r)
      /\ \A i \in 1..Len(r) : Image(F, r)[i] = F[r[i]]
  BY <1>0, <1>6
<1>10. ASSUME NEW i \in 1..(Len(room) + 1)
       PROVE  a[i] = Image(F, r)[i]
  <2>1. CASE i = Len(room) + 1
    BY <1>6, <1>7, <1>9, <2>1
  <2>2. CASE i \in 1..Len(room)
    BY <1>4, <1>6, <1>7, <1>9, <2>2, SMTT(40)
  <2> QED
    BY <1>8, <2>1, <2>2
<1>11. a = Image(F, r)
  BY <1>6, <1>7, <1>9, <1>10, SeqEqual
<1> QED
  BY <1>2, <1>3, <1>11 DEF a, r

-----------------------------------------------------------------------------
(* The ring buffer.                                                        *)

LEMMA Wraps ==
    ASSUME NEW c \in Nat \ {0}, NEW a \in 0..(2 * c - 1)
    PROVE  a % c = IF a < c THEN a ELSE a - c
<1>1. CASE a < c
  <2>1. a = c * 0 + a /\ a \in 0..(c - 1)
    BY <1>1
  <2>2. a % c = a
    BY <2>1, RemainderIs
  <2> QED
    BY <1>1, <2>2
<1>2. CASE ~(a < c)
  <2>1. a = c * 1 + (a - c) /\ a - c \in 0..(c - 1)
    BY <1>2
  <2>2. a % c = a - c
    BY <2>1, RemainderIs
  <2> QED
    BY <1>2, <2>2
<1> QED
  BY <1>1, <1>2

LEMMA WrapsAtCapacity ==
    \A a \in 0..(2 * Capacity - 1) : a % Capacity = IF a < Capacity THEN a ELSE a - Capacity
BY StatisticsAssumption, Wraps

\* The place of the i-th oldest value.
Place(b, i) ==
    IF b.len < Capacity THEN i - 1
    ELSE IF b.head + i - 1 < Capacity THEN b.head + i - 1 ELSE b.head + i - 1 - Capacity

\* A ring whose places hold the newest values of l.
Rings(b, l) ==
    /\ {"buffer", "head", "len"} \subseteq DOMAIN b
    /\ DOMAIN b.buffer = 0..(Capacity - 1)
    /\ b.head \in 0..(Capacity - 1)
    /\ b.len = Lower(Capacity, Len(l))
    /\ b.len < Capacity => b.head = b.len
    /\ \A i \in 1..b.len : b.buffer[Place(b, i)] = l[Len(l) - b.len + i]

LEMMA NewRings == Rings(NewRing, <<>>)
<1>1. Capacity \in Nat \ {0} /\ Len(<<>>) = 0
  BY StatisticsAssumption
<1>2. DOMAIN NewRing.buffer = 0..(Capacity - 1) /\ NewRing.head = 0 /\ NewRing.len = 0
  BY DEF NewRing
<1>3. {"buffer", "head", "len"} \subseteq DOMAIN NewRing
  BY DEF NewRing
<1>4. Lower(Capacity, 0) = 0
  BY <1>1 DEF Lower
<1> QED
  BY <1>1, <1>2, <1>3, <1>4 DEF Rings

\* A reset keeps the values in their places and holds none of them.
LEMMA ResetRings ==
    ASSUME NEW S, NEW l \in Seq(S), NEW b, Rings(b, l)
    PROVE  Rings(RingReset(b), <<>>)
<1>1. Capacity \in Nat \ {0} /\ Len(<<>>) = 0
  BY StatisticsAssumption
<1>2. RingReset(b).buffer = b.buffer /\ RingReset(b).head = 0 /\ RingReset(b).len = 0
  BY DEF RingReset, Rings
<1>3. {"buffer", "head", "len"} \subseteq DOMAIN RingReset(b)
  BY DEF RingReset, Rings
<1>4. Lower(Capacity, 0) = 0
  BY <1>1 DEF Lower
<1> QED
  BY <1>1, <1>2, <1>3, <1>4 DEF Rings

\* The newest value takes the place of the oldest one.
LEMMA PushRings ==
    ASSUME NEW S, NEW l \in Seq(S), NEW x \in S, NEW b, Rings(b, l), RingPush(b, x).ok
    PROVE  Rings(RingPush(b, x).state, Append(l, x))
<1> DEFINE next == RingPush(b, x).state
<1> DEFINE m == Append(l, x)
<1>1. Capacity \in Nat \ {0} /\ Len(l) \in Nat /\ Len(m) = Len(l) + 1 /\ m[Len(l) + 1] = x
      /\ \A i \in 1..Len(l) : m[i] = l[i]
  BY StatisticsAssumption
<1>2. /\ DOMAIN b.buffer = 0..(Capacity - 1)
      /\ b.head \in 0..(Capacity - 1)
      /\ b.len = Lower(Capacity, Len(l))
      /\ b.len < Capacity => b.head = b.len
      /\ \A i \in 1..b.len : b.buffer[Place(b, i)] = l[Len(l) - b.len + i]
  BY DEF Rings
<1>3. IsFinite(x)
  BY DEF RingPush, Done, Refused
<1>4. /\ next.buffer = [b.buffer EXCEPT ![b.head] = x]
      /\ next.head = (b.head + 1) % Capacity
      /\ next.len = Lower(b.len + 1, Capacity)
      /\ {"buffer", "head", "len"} \subseteq DOMAIN next
  BY <1>3 DEF RingPush, Done
<1>5. next.head = IF b.head + 1 < Capacity THEN b.head + 1 ELSE 0
  <2> DEFINE a == b.head + 1
  <2>1. a \in 0..(2 * Capacity - 1) /\ next.head = a % Capacity
    BY <1>1, <1>2, <1>4
  <2>2. a - Capacity = 0 \/ a < Capacity
    BY <1>1, <1>2
  <2> HIDE DEF a, next
  <2>3. a % Capacity = IF a < Capacity THEN a ELSE a - Capacity
    BY <2>1, WrapsAtCapacity
  <2>4. next.head = IF a < Capacity THEN a ELSE 0
    BY <2>1, <2>2, <2>3
  <2> QED
    BY <2>4 DEF a
<1> HIDE DEF next, m
<1>6. /\ b.len \in 0..Capacity
      /\ next.len = IF b.len < Capacity THEN b.len + 1 ELSE Capacity
      /\ next.len = Lower(Capacity, Len(m))
      /\ next.len < Capacity => next.head = next.len
      /\ b.len <= Len(l)
  <2>1. b.len = IF Capacity < Len(l) THEN Capacity ELSE Len(l)
    BY <1>2 DEF Lower
  <2>2. b.len \in 0..Capacity /\ b.len <= Len(l)
    BY <1>1, <2>1
  <2>3. next.len = IF b.len < Capacity THEN b.len + 1 ELSE Capacity
    BY <1>1, <1>4, <2>2 DEF Lower
  <2>4. next.len = Lower(Capacity, Len(l) + 1)
    BY <1>1, <2>1, <2>2, <2>3 DEF Lower
  <2>5. next.len < Capacity => next.head = next.len
    BY <1>1, <1>2, <1>5, <2>2, <2>3
  <2> QED
    BY <1>1, <2>2, <2>3, <2>4, <2>5
<1>7. /\ DOMAIN next.buffer = 0..(Capacity - 1) /\ next.head \in 0..(Capacity - 1)
      /\ next.buffer[b.head] = x
      /\ \A p \in 0..(Capacity - 1) : p # b.head => next.buffer[p] = b.buffer[p]
  BY <1>1, <1>2, <1>4, <1>5
<1>8. ASSUME NEW i \in 1..next.len
      PROVE  next.buffer[Place(next, i)] = m[Len(m) - next.len + i]
  <2>1. CASE i = next.len
    <3>1. Place(next, i) = b.head
      BY <1>1, <1>2, <1>5, <1>6, <2>1, SMTT(40) DEF Place
    <3>2. Len(m) - next.len + i = Len(l) + 1
      BY <1>1, <1>6, <2>1
    <3> QED
      BY <1>1, <1>7, <3>1, <3>2
  <2>2. CASE i < next.len /\ b.len < Capacity
    <3>1. i \in 1..b.len /\ Place(b, i) = i - 1 /\ Place(next, i) = i - 1
      BY <1>1, <1>2, <1>5, <1>6, <2>2 DEF Place
    <3>2. i - 1 # b.head /\ i - 1 \in 0..(Capacity - 1)
      BY <1>1, <1>2, <1>6, <2>2
    <3>3. next.buffer[Place(next, i)] = l[Len(l) - b.len + i]
      BY <1>2, <1>7, <3>1, <3>2
    <3>4. next.len = b.len + 1 /\ b.len \in Nat /\ b.len <= Len(l)
      BY <1>1, <1>6, <2>2
    <3>5. Len(m) - next.len + i = Len(l) - b.len + i
      <4>1. Len(l) \in Nat /\ Len(m) = Len(l) + 1 /\ i \in Int
        BY <1>1, <3>1
      <4> QED
        BY <3>4, <4>1
    <3>6. Len(l) - b.len + i \in 1..Len(l)
      BY <1>1, <3>1, <3>4
    <3> QED
      BY <1>1, <3>3, <3>5, <3>6
  <2>3. CASE i < next.len /\ b.len = Capacity
    <3>0. next.len = Capacity /\ i \in 1..(Capacity - 1)
      BY <1>1, <1>6, <2>3
    <3>1. i + 1 \in 1..b.len /\ Place(next, i) = Place(b, i + 1)
      <4>1. i + 1 \in 1..b.len
        BY <1>1, <2>3, <3>0
      <4>2. b.head \in 0..(Capacity - 1) /\ i \in 1..(Capacity - 1) /\ b.len = Capacity
            /\ next.len = Capacity /\ Capacity \in Nat
        BY <1>1, <1>2, <2>3, <3>0
      <4>3. CASE b.head + 1 < Capacity /\ b.head + i < Capacity
        <5>1. next.head = b.head + 1
          BY <1>5, <4>3
        <5>2. Place(next, i) = b.head + i
          BY <4>2, <4>3, <5>1 DEF Place
        <5>3. Place(b, i + 1) = b.head + i
          BY <4>2, <4>3 DEF Place
        <5> QED
          BY <4>1, <5>2, <5>3
      <4>4. CASE b.head + 1 < Capacity /\ ~(b.head + i < Capacity)
        <5>1. next.head = b.head + 1
          BY <1>5, <4>4
        <5>2. Place(next, i) = b.head + i - Capacity
          BY <4>2, <4>4, <5>1 DEF Place
        <5>3. Place(b, i + 1) = b.head + i - Capacity
          BY <4>2, <4>4 DEF Place
        <5> QED
          BY <4>1, <5>2, <5>3
      <4>5. CASE ~(b.head + 1 < Capacity)
        <5>1. next.head = 0 /\ b.head = Capacity - 1
          BY <1>5, <4>2, <4>5
        <5>2. Place(next, i) = i - 1
          BY <4>2, <5>1 DEF Place
        <5>3. Place(b, i + 1) = i - 1
          BY <4>2, <5>1 DEF Place
        <5> QED
          BY <4>1, <5>2, <5>3
      <4> QED
        BY <4>2, <4>3, <4>4, <4>5
    <3>2. Place(b, i + 1) # b.head /\ Place(b, i + 1) \in 0..(Capacity - 1)
      BY <1>1, <1>2, <1>6, <2>3 DEF Place
    <3>3. next.buffer[Place(next, i)] = l[Len(l) - b.len + (i + 1)]
      BY <1>2, <1>7, <3>1, <3>2
    <3>4. Len(m) - next.len + i = Len(l) - b.len + (i + 1)
          /\ Len(l) - b.len + (i + 1) \in 1..Len(l)
      <4>1. Len(l) \in Nat /\ Len(m) = Len(l) + 1 /\ Capacity \in Nat /\ b.len <= Len(l)
        BY <1>1, <1>6
      <4>2. b.len = Capacity /\ next.len = Capacity /\ i \in 1..(Capacity - 1)
        BY <2>3, <3>0
      <4> QED
        BY <4>1, <4>2
    <3> DEFINE k == Len(l) - b.len + (i + 1)
    <3>5. next.buffer[Place(next, i)] = l[k] /\ Len(m) - next.len + i = k /\ k \in 1..Len(l)
      BY <3>3, <3>4
    <3> HIDE DEF k
    <3>6. m[k] = l[k]
      BY <1>1, <3>5
    <3> QED
      BY <3>5, <3>6
  <2> QED
    BY <1>1, <1>6, <2>1, <2>2, <2>3
<1>9. Rings(next, m)
  BY <1>4, <1>6, <1>7, <1>8 DEF Rings
<1> QED
  BY <1>9 DEF next, m

\* iter reads the places from the oldest to the newest.
LEMMA RingIsRecent ==
    ASSUME NEW S, NEW l \in Seq(S), NEW b, Rings(b, l)
    PROVE  RingValues(b) = LastOf(l, Capacity)
<1> DEFINE v == RingValues(b)
<1>1. Capacity \in Nat \ {0} /\ Len(l) \in Nat
  BY StatisticsAssumption
<1>2. /\ b.head \in 0..(Capacity - 1)
      /\ b.len = Lower(Capacity, Len(l))
      /\ b.len < Capacity => b.head = b.len
      /\ \A i \in 1..b.len : b.buffer[Place(b, i)] = l[Len(l) - b.len + i]
  BY DEF Rings
<1>3. b.len \in 0..Capacity /\ b.len <= Len(l)
  BY <1>1, <1>2 DEF Lower
<1> DEFINE start == IF b.len = Capacity THEN b.head ELSE 0
<1>4. v = [i \in 1..b.len |-> b.buffer[(start + i - 1) % Capacity]]
  BY DEF RingValues
<1>5. ASSUME NEW i \in 1..b.len
      PROVE  (start + i - 1) % Capacity = Place(b, i)
  <2> DEFINE a == start + i - 1
  <2>1. a \in 0..(2 * Capacity - 1)
    BY <1>1, <1>2, <1>3
  <2>2. Place(b, i) = IF a < Capacity THEN a ELSE a - Capacity
    BY <1>1, <1>2, <1>3 DEF Place
  <2> HIDE DEF a
  <2>3. a % Capacity = Place(b, i)
    BY <2>1, <2>2, WrapsAtCapacity
  <2> QED
    BY <2>3 DEF a
<1> HIDE DEF start
<1>6. v = [i \in 1..b.len |-> l[Len(l) - b.len + i]]
  BY <1>2, <1>4, <1>5
<1> HIDE DEF v
<1>7. \A i \in 1..b.len : l[Len(l) - b.len + i] \in S
  BY <1>1, <1>3
<1>8. v \in [1..b.len -> S]
  BY <1>6, <1>7
<1>9. v \in Seq(S) /\ Len(v) = b.len
  BY <1>3, <1>8
<1>10. \A i \in 1..Len(v) : v[i] = l[Len(l) - Len(v) + i]
  BY <1>6, <1>9
<1>11. Recent(v, l) /\ Len(v) = Lower(Capacity, Len(l))
  BY <1>2, <1>3, <1>9, <1>10 DEF Recent
<1> QED
  BY <1>1, <1>9, <1>11, RecentIsLastOf DEF v

-----------------------------------------------------------------------------
(* What a selector's caller recorded for a model.                          *)

\* The recursion by which RecordedFor selects the pairs of a model.
Among(f, model, l) ==
    f = [n \in 0..Len(l) |->
            IF n = 0 THEN <<>>
            ELSE IF l[n][1] = model THEN Append(f[n - 1], <<l[n][2], l[n][3]>>)
            ELSE f[n - 1]]

\* The pairs that entries of S record.
PairsOf(S) == {<<e[2], e[3]>> : e \in S}

LEMMA AmongExists ==
    ASSUME NEW S, NEW l \in Seq(S), NEW model
    PROVE  \E f \in [0..Len(l) -> Seq(PairsOf(S))] : Among(f, model, l)
<1> DEFINE V == Seq(PairsOf(S))
<1> DEFINE n == Len(l)
<1> DEFINE Step(v, i) == IF l[i][1] = model THEN Append(v, <<l[i][2], l[i][3]>>) ELSE v
<1> DEFINE F == [p \in V \X (1..n) |-> Step(p[1], p[2])]
<1>1. n \in Nat /\ <<>> \in V
  OBVIOUS
<1>2. ASSUME NEW v \in V, NEW i \in 1..n
      PROVE  Step(v, i) \in V /\ F[v, i] = Step(v, i)
  <2>1. l[i] \in S
    BY <1>1
  <2>2. <<l[i][2], l[i][3]>> \in PairsOf(S)
    BY <2>1 DEF PairsOf
  <2>3. <<v, i>> \in V \X (1..n) /\ <<v, i>>[1] = v /\ <<v, i>>[2] = i
    OBVIOUS
  <2>4. F[v, i] = Step(v, i)
    <3> HIDE DEF V, n, Step
    <3> QED
      BY <2>3
  <2>5. Append(v, <<l[i][2], l[i][3]>>) \in V
    BY <2>2
  <2>6. Step(v, i) \in V
    <3> HIDE DEF V
    <3> QED
      BY <2>5
  <2> QED
    BY <2>4, <2>6, Zenon
<1>3. F \in [V \X (1..n) -> V]
  <2> HIDE DEF V, n, Step
  <2>1. \A p \in V \X (1..n) : Step(p[1], p[2]) \in V
    BY <1>2
  <2> QED
    BY <2>1
<1> HIDE DEF F, V
<1>4. PICK f \in [0..n -> V] : Recursion(f, <<>>, F, n)
  BY <1>1, <1>3, RecursionExists
<1>5. ASSUME NEW i \in 0..n
      PROVE  f[i] = IF i = 0 THEN <<>> ELSE Step(f[i - 1], i)
  <2>1. CASE i = 0
    BY <1>1, <1>4, <2>1 DEF Recursion
  <2>2. CASE i \in 1..n
    <3>1. f[i - 1] \in V /\ i # 0
      BY <1>1, <1>4, <2>2
    <3>2. f[i] = F[f[i - 1], i]
      BY <1>4, <3>1 DEF Recursion
    <3> QED
      BY <1>2, <2>2, <3>1, <3>2
  <2> QED
    BY <1>1, <2>1, <2>2
<1>6. Among(f, model, l)
  BY <1>4, <1>5 DEF Among
<1> QED
  BY <1>4, <1>6 DEF V

\* Recursions over logs that agree have the same values.
LEMMA AmongAgree ==
    ASSUME NEW l, NEW m, Len(l) \in Nat, Len(m) \in Nat, NEW model, NEW f, NEW g,
           Among(f, model, l), Among(g, model, m), Len(l) <= Len(m),
           \A i \in 1..Len(l) : m[i] = l[i]
    PROVE  \A k \in 0..Len(l) : f[k] = g[k]
<1> DEFINE T == {k \in Nat : k <= Len(l) => f[k] = g[k]}
<1>1. Len(l) \in Nat /\ Len(m) \in Nat
  OBVIOUS
<1>2. f[0] = <<>> /\ g[0] = <<>>
  <2>1. 0 \in 0..Len(l) /\ 0 \in 0..Len(m)
    BY <1>1
  <2> QED
    BY <2>1 DEF Among
<1>3. ASSUME NEW k \in Nat, k + 1 <= Len(l), f[k] = g[k]
      PROVE  f[k + 1] = g[k + 1]
  <2>1. k + 1 \in 0..Len(l) /\ k + 1 \in 0..Len(m) /\ k + 1 # 0 /\ (k + 1) - 1 = k
    BY <1>1, <1>3
  <2> DEFINE n == k + 1
  <2>a. n \in 0..Len(l) /\ n \in 0..Len(m) /\ n # 0 /\ n - 1 = k
    BY <2>1
  <2> HIDE DEF n
  <2>b. f[n] = IF l[n][1] = model THEN Append(f[n - 1], <<l[n][2], l[n][3]>>) ELSE f[n - 1]
    BY <2>a DEF Among
  <2>c. g[n] = IF m[n][1] = model THEN Append(g[n - 1], <<m[n][2], m[n][3]>>) ELSE g[n - 1]
    BY <2>a DEF Among
  <2>2. f[n] = IF l[n][1] = model THEN Append(f[k], <<l[n][2], l[n][3]>>) ELSE f[k]
    BY <2>a, <2>b
  <2>3. g[n] = IF m[n][1] = model THEN Append(g[k], <<m[n][2], m[n][3]>>) ELSE g[k]
    BY <2>a, <2>c
  <2>4. m[n] = l[n]
    BY <1>1, <1>3, <2>a
  <2>5. f[n] = g[n]
    BY <1>3, <2>2, <2>3, <2>4
  <2> QED
    BY <2>5 DEF n
<1>4. 0 \in T
  BY <1>2
<1>5. \A k \in T : k + 1 \in T
  BY <1>1, <1>3
<1>6. T \in SUBSET Nat
  OBVIOUS
<1>7. T = Nat
  <2> HIDE DEF T
  <2> QED
    BY <1>4, <1>5, <1>6, Induction
<1> QED
  BY <1>1, <1>7

\* The pairs recorded for a model are the last value of its recursion.
LEMMA RecordedIs ==
    ASSUME NEW S, NEW l \in Seq(S), NEW model, NEW g, Among(g, model, l)
    PROVE  RecordedFor(model, l) = g[Len(l)]
<1> DEFINE f == CHOOSE h : Among(h, model, l)
<1>1. RecordedFor(model, l) = f[Len(l)]
  BY DEF RecordedFor, Among
<1>2. Among(f, model, l)
  OBVIOUS
<1> HIDE DEF f
<1>3. Len(l) \in 0..Len(l) /\ Len(l) <= Len(l)
  OBVIOUS
<1>4. f[Len(l)] = g[Len(l)]
  BY <1>2, <1>3, AmongAgree
<1> QED
  BY <1>1, <1>4

LEMMA RecordedType ==
    ASSUME NEW S, NEW l \in Seq(S), NEW model
    PROVE  RecordedFor(model, l) \in Seq(PairsOf(S))
<1>1. PICK f \in [0..Len(l) -> Seq(PairsOf(S))] : Among(f, model, l)
  BY AmongExists
<1>2. Len(l) \in 0..Len(l)
  OBVIOUS
<1>3. RecordedFor(model, l) = f[Len(l)]
  BY <1>1, RecordedIs
<1> QED
  BY <1>1, <1>2, <1>3

\* A new entry is recorded for its model and for no other.
LEMMA RecordedAppend ==
    ASSUME NEW S, NEW l \in Seq(S), NEW e \in S, NEW model
    PROVE  RecordedFor(model, Append(l, e)) =
              IF e[1] = model THEN Append(RecordedFor(model, l), <<e[2], e[3]>>)
              ELSE RecordedFor(model, l)
<1> DEFINE m == Append(l, e)
<1>1. /\ m \in Seq(S) /\ Len(l) \in Nat /\ Len(m) = Len(l) + 1 /\ m[Len(l) + 1] = e
      /\ \A i \in 1..Len(l) : m[i] = l[i]
  OBVIOUS
<1> HIDE DEF m
<1>2. PICK f \in [0..Len(l) -> Seq(PairsOf(S))] : Among(f, model, l)
  BY AmongExists
<1>3. PICK g \in [0..Len(m) -> Seq(PairsOf(S))] : Among(g, model, m)
  BY <1>1, AmongExists
<1>4. RecordedFor(model, l) = f[Len(l)] /\ RecordedFor(model, m) = g[Len(m)]
  BY <1>1, <1>2, <1>3, RecordedIs
<1>5. f[Len(l)] = g[Len(l)]
  <2>1. Len(l) <= Len(m) /\ Len(l) \in 0..Len(l)
    BY <1>1
  <2>2. Among(f, model, l) /\ Among(g, model, m)
    BY <1>2, <1>3
  <2>3. \A i \in 1..Len(l) : m[i] = l[i]
    BY <1>1
  <2>4. Len(l) \in Nat /\ Len(m) \in Nat
    BY <1>1
  <2>5. \A k \in 0..Len(l) : f[k] = g[k]
    BY <2>1, <2>2, <2>3, <2>4, AmongAgree
  <2> QED
    BY <2>1, <2>5
<1>6. g[Len(l) + 1] = IF m[Len(l) + 1][1] = model
                      THEN Append(g[Len(l)], <<m[Len(l) + 1][2], m[Len(l) + 1][3]>>)
                      ELSE g[Len(l)]
  <2>1. Len(l) + 1 \in 0..Len(m) /\ Len(l) + 1 # 0 /\ (Len(l) + 1) - 1 = Len(l)
    BY <1>1
  <2> QED
    BY <1>3, <2>1 DEF Among
<1>7. RecordedFor(model, m) = IF e[1] = model THEN Append(f[Len(l)], <<e[2], e[3]>>) ELSE f[Len(l)]
  BY <1>1, <1>4, <1>5, <1>6
<1> QED
  BY <1>4, <1>7 DEF m

-----------------------------------------------------------------------------
(* ADWIN.                                                                  *)

AdwinParts == {"window", "total", "samples", "level"}

\* A detector that judges its window may cut it, to a shorter stretch of the
\* newest values.
LEMMA JudgedIsRecent ==
    ASSUME NEW S, NEW l \in Seq(S), NEW d, AdwinParts \subseteq DOMAIN d,
           d.window \in Seq(S), Recent(d.window, l)
    PROVE  /\ AdwinParts \subseteq DOMAIN Judged(d)
           /\ Judged(d).window \in Seq(S) /\ Recent(Judged(d).window, l)
           /\ Judged(d).samples = d.samples
           /\ Judged(d).level \in {"none", "warning", "drift"}
<1> DEFINE splits == SplitsAt(d.window, "drift")
<1> DEFINE k == Oldest(splits)
<1>1. CASE d.samples < MinSamples \/ Len(d.window) < 2
  <2>1. Judged(d) = [d EXCEPT !.level = "none"]
    BY <1>1 DEF Judged
  <2> QED
    BY <2>1 DEF AdwinParts
<1>2. CASE ~(d.samples < MinSamples \/ Len(d.window) < 2) /\ splits # {}
  <2>1. splits \subseteq 1..(Len(d.window) - 1) /\ Len(d.window) \in Nat
    BY DEF SplitsAt
  <2>2. k \in splits
    <3> HIDE DEF splits
    <3>1. splits \in SUBSET Nat
      BY <2>1
    <3>2. \E x \in splits : \A y \in splits : x <= y
      BY <1>2, <3>1, SmallestOf
    <3> QED
      BY <3>2 DEF Oldest
  <2> HIDE DEF splits, k
  <2>3. k \in 0..Len(d.window)
    BY <2>1, <2>2
  <2> DEFINE w == SubSeq(d.window, k + 1, Len(d.window))
  <2>4. w \in Seq(S) /\ Recent(w, l)
    BY <2>3, RecentTrim
  <2> DEFINE cut == TrimFront(d, k)
  <2>5. Judged(d) = [cut EXCEPT !.level = "drift"]
    BY <1>2 DEF Judged, splits, k
  <2>6. cut.window = w /\ cut.samples = d.samples /\ AdwinParts \subseteq DOMAIN cut
    BY DEF TrimFront, AdwinParts
  <2> HIDE DEF cut, w
  <2> QED
    BY <2>4, <2>5, <2>6 DEF AdwinParts
<1>3. CASE ~(d.samples < MinSamples \/ Len(d.window) < 2) /\ splits = {}
  <2> DEFINE level == IF SplitsAt(d.window, "warning") # {} THEN "warning" ELSE "none"
  <2>1. Judged(d) = [d EXCEPT !.level = level]
    BY <1>3 DEF Judged
  <2>2. level \in {"none", "warning", "drift"}
    OBVIOUS
  <2> HIDE DEF level
  <2> QED
    BY <2>1, <2>2 DEF AdwinParts
<1> QED
  BY <1>1, <1>2, <1>3

\* An update is refused with the old state, or takes the newest value.
LEMMA AdwinTakes ==
    ASSUME NEW S, NEW l \in Seq(S), NEW d, AdwinParts \subseteq DOMAIN d,
           d.window \in Seq(S), Recent(d.window, l), NEW x \in S
    PROVE  LET r == AdwinUpdate(d, x)
           IN  \/ ~r.ok /\ r.state = d
               \/ /\ r.ok /\ CanCount(d.samples)
                  /\ AdwinParts \subseteq DOMAIN r.state
                  /\ r.state.window \in Seq(S) /\ Recent(r.state.window, Append(l, x))
                  /\ r.state.samples = d.samples + 1
                  /\ r.state.level \in {"none", "warning", "drift"}
<1> DEFINE r == AdwinUpdate(d, x)
<1> SUFFICES \/ ~r.ok /\ r.state = d
             \/ /\ r.ok /\ CanCount(d.samples)
                /\ AdwinParts \subseteq DOMAIN r.state
                /\ r.state.window \in Seq(S) /\ Recent(r.state.window, Append(l, x))
                /\ r.state.samples = d.samples + 1
                /\ r.state.level \in {"none", "warning", "drift"}
  OBVIOUS
<1> DEFINE full == Len(d.window) = MaxWindow
<1> DEFINE added == FAdd(d.total, x)
<1> DEFINE total == IF full THEN FAdd(added, FNeg(Head(d.window))) ELSE added
<1> DEFINE room == IF full THEN Tail(d.window) ELSE d.window
<1> DEFINE window == Append(room, x)
<1> DEFINE next == [d EXCEPT !.samples = @ + 1, !.total = total, !.window = window]
<1>1. \/ r = [ok |-> FALSE, state |-> d]
      \/ r = [ok |-> TRUE, state |-> Judged(next)] /\ CanCount(d.samples)
  BY Zenon DEF AdwinUpdate, Done, Refused
<1>2. room \in Seq(S) /\ Recent(room, l)
  <2>1. CASE full
    <3>1. d.window # <<>>
      BY <2>1, DetectorAssumption
    <3> QED
      BY <2>1, <3>1, RecentTail
  <2>2. CASE ~full
    BY <2>2
  <2> QED
    BY <2>1, <2>2
<1> HIDE DEF room
<1>3. window \in Seq(S) /\ Recent(window, Append(l, x))
  BY <1>2, RecentAppend
<1>4. Append(l, x) \in Seq(S)
  OBVIOUS
<1> HIDE DEF total, window
<1>5. /\ AdwinParts \subseteq DOMAIN next
      /\ next.window = window /\ next.samples = d.samples + 1
  BY DEF AdwinParts
<1> HIDE DEF next, r
<1>6. /\ AdwinParts \subseteq DOMAIN Judged(next)
      /\ Judged(next).window \in Seq(S) /\ Recent(Judged(next).window, Append(l, x))
      /\ Judged(next).samples = d.samples + 1
      /\ Judged(next).level \in {"none", "warning", "drift"}
  BY <1>3, <1>4, <1>5, JudgedIsRecent
<1> QED
  BY <1>1, <1>6

-----------------------------------------------------------------------------
(* KSWIN.                                                                  *)

KswinParts == {"reference", "current", "samples", "lastCheck", "pvalue", "statistic", "level"}

\* Two adjacent windows of a detector that are the newest values of l.
Adjoins(d, S, l) ==
    /\ KswinParts \subseteq DOMAIN d
    /\ d.reference \in Seq(S) /\ d.current \in Seq(S)
    /\ Recent(d.reference \o d.current, l)

LEMMA RecentOfConcat ==
    ASSUME NEW S, NEW l \in Seq(S), NEW a \in Seq(S), NEW b \in Seq(S), Recent(a \o b, l)
    PROVE  Recent(b, l)
<1>1. /\ Len(a) \in Nat /\ Len(b) \in Nat /\ Len(l) \in Nat
      /\ Len(a \o b) = Len(a) + Len(b)
      /\ \A i \in 1..(Len(a) + Len(b)) : (a \o b)[i] = IF i <= Len(a) THEN a[i] ELSE b[i - Len(a)]
  BY ConcatProperties
<1>2. ASSUME NEW i \in 1..Len(b)
      PROVE  b[i] = l[Len(l) - Len(b) + i]
  <2> DEFINE j == Len(a) + i
  <2>1. j \in 1..(Len(a) + Len(b)) /\ ~(j <= Len(a)) /\ j - Len(a) = i
    BY <1>1
  <2>2. Len(l) - (Len(a) + Len(b)) + j = Len(l) - Len(b) + i
    BY <1>1
  <2> HIDE DEF j
  <2>3. (a \o b)[j] = b[i]
    BY <1>1, <2>1
  <2>4. (a \o b)[j] = l[Len(l) - (Len(a) + Len(b)) + j]
    BY <1>1, <2>1 DEF Recent
  <2> QED
    BY <2>2, <2>3, <2>4
<1>3. Len(b) <= Len(l)
  BY <1>1 DEF Recent
<1> QED
  BY <1>2, <1>3 DEF Recent

LEMMA RotatedAdjoins ==
    ASSUME NEW S, NEW l \in Seq(S), NEW d, Adjoins(d, S, l)
    PROVE  Adjoins(Rotated(d), S, l)
<1>1. KswinParts \subseteq DOMAIN Rotated(d)
  BY DEF Rotated, Adjoins
<1>2. Rotated(d).reference = d.current /\ Rotated(d).current = <<>>
  BY DEF Rotated, Adjoins, KswinParts
<1>3. d.reference \in Seq(S) /\ d.current \in Seq(S) /\ Recent(d.reference \o d.current, l)
  BY DEF Adjoins
<1>4. Recent(d.current, l)
  BY <1>3, RecentOfConcat
<1>5. d.current \o <<>> = d.current
  BY <1>3, ConcatEmptySeq
<1> QED
  BY <1>1, <1>2, <1>3, <1>4, <1>5 DEF Adjoins

LEMMA CheckedAdjoins ==
    ASSUME NEW S, NEW l \in Seq(S), NEW d, Adjoins(d, S, l)
    PROVE  Adjoins(Checked(d), S, l)
<1> DEFINE s == KsStatistic(d.reference, d.current)
<1> DEFINE p == PValue[s]
<1> DEFINE seen == [d EXCEPT !.statistic = s, !.pvalue = p, !.lastCheck = d.samples]
<1>1. Checked(d) = IF p < Significance THEN [Rotated(seen) EXCEPT !.level = "drift"] ELSE seen
  BY DEF Checked
<1> HIDE DEF s, p
<1>2. Adjoins(seen, S, l)
  BY DEF Adjoins, KswinParts
<1> HIDE DEF seen
<1>3. Adjoins(Rotated(seen), S, l)
  BY <1>2, RotatedAdjoins
<1> DEFINE r == Rotated(seen)
<1> HIDE DEF r
<1>4. Adjoins([r EXCEPT !.level = "drift"], S, l)
  BY <1>3 DEF Adjoins, KswinParts, r
<1>5. CASE p < Significance
  BY <1>1, <1>4, <1>5 DEF r
<1>6. CASE ~(p < Significance)
  BY <1>1, <1>2, <1>6
<1> QED
  BY <1>5, <1>6

\* An update is refused with the old state, or takes the newest value.
LEMMA KswinTakes ==
    ASSUME NEW S, NEW l \in Seq(S), NEW d, Adjoins(d, S, l), NEW x \in S
    PROVE  LET r == KswinUpdate(d, x)
           IN  \/ ~r.ok /\ r.state = d
               \/ r.ok /\ Adjoins(r.state, S, Append(l, x))
<1> DEFINE r == KswinUpdate(d, x)
<1> SUFFICES \/ ~r.ok /\ r.state = d
             \/ r.ok /\ Adjoins(r.state, S, Append(l, x))
  OBVIOUS
<1> DEFINE counted == [d EXCEPT !.samples = @ + 1, !.level = "none"]
<1> DEFINE room == IF Len(counted.current) >= WindowSize THEN Rotated(counted) ELSE counted
<1> DEFINE pushed == [room EXCEPT !.current = Append(@, x)]
<1>1. \/ r = [ok |-> FALSE, state |-> d]
      \/ r = [ok |-> TRUE, state |-> pushed]
      \/ r = [ok |-> TRUE, state |-> Checked(pushed)]
  BY Zenon DEF KswinUpdate, Done, Refused
<1>2. Adjoins(counted, S, l)
  BY DEF Adjoins, KswinParts
<1> HIDE DEF counted
<1>3. Adjoins(room, S, l)
  <2>1. Adjoins(Rotated(counted), S, l)
    BY <1>2, RotatedAdjoins
  <2> QED
    BY <1>2, <2>1
<1> HIDE DEF room
<1>4. Adjoins(pushed, S, Append(l, x))
  <2>1. /\ KswinParts \subseteq DOMAIN room
        /\ room.reference \in Seq(S) /\ room.current \in Seq(S)
        /\ Recent(room.reference \o room.current, l)
    BY <1>3 DEF Adjoins
  <2>2. /\ pushed.reference = room.reference /\ pushed.current = Append(room.current, x)
        /\ KswinParts \subseteq DOMAIN pushed
    BY <2>1 DEF KswinParts
  <2> DEFINE a == room.reference
  <2> DEFINE c == room.current
  <2>3. a \in Seq(S) /\ c \in Seq(S) /\ Recent(a \o c, l) /\ a \o c \in Seq(S)
    BY <2>1
  <2> HIDE DEF a, c
  <2>4. Append(c, x) \in Seq(S) /\ a \o Append(c, x) = Append(a \o c, x)
    <3>1. Append(c, x) = c \o <<x>> /\ Append(a \o c, x) = (a \o c) \o <<x>> /\ <<x>> \in Seq(S)
      BY <2>3, AppendIsConcat
    <3>2. (a \o c) \o <<x>> = a \o (c \o <<x>>)
      BY <2>3, <3>1, ConcatAssociative
    <3>3. Append(c, x) \in Seq(S)
      BY <2>3
    <3> QED
      BY <3>1, <3>2, <3>3
  <2>5. Recent(Append(a \o c, x), Append(l, x))
    BY <2>3, RecentAppend
  <2>6. Recent(a \o Append(c, x), Append(l, x))
    BY <2>4, <2>5
  <2> HIDE DEF pushed
  <2>7. pushed.reference = a /\ pushed.current = Append(c, x)
    BY <2>2 DEF a, c
  <2> QED
    BY <2>2, <2>3, <2>4, <2>6, <2>7 DEF Adjoins
<1> HIDE DEF pushed, r
<1>5. Adjoins(Checked(pushed), S, Append(l, x))
  <2>1. Append(l, x) \in Seq(S)
    OBVIOUS
  <2> QED
    BY <1>4, <2>1, CheckedAdjoins
<1> QED
  BY <1>1, <1>4, <1>5

-----------------------------------------------------------------------------
(* Each kind of object that has a window, with what it keeps.              *)

LEMMA LastOfNothing ==
    ASSUME NEW n \in Nat
    PROVE  LastOf(<<>>, n) = <<>>
<1>1. <<>> \in Seq({}) /\ Len(<<>>) = 0
  OBVIOUS
<1>2. LastOf(<<>>, n) \in Seq({}) /\ Len(LastOf(<<>>, n)) = Lower(n, 0)
  BY <1>1, LastOfFields
<1>3. Lower(n, 0) = 0
  BY DEF Lower
<1> QED
  BY <1>2, <1>3

\* The absolute errors of pairs, and whether they are hits, as images.
ErrorIn(S) == [p \in S |-> AbsoluteError(p[1], p[2])]

HitIn(S) == [p \in S |-> p[1] = p[2]]

LEMMA ErrorsAreImage ==
    ASSUME NEW S, NEW w \in Seq(S)
    PROVE  ErrorsOf(w) = Image(ErrorIn(S), w)
<1>1. \A i \in DOMAIN w : w[i] \in S
  OBVIOUS
<1>2. \A i \in DOMAIN w : ErrorIn(S)[w[i]] = AbsoluteError(w[i][1], w[i][2])
  BY <1>1 DEF ErrorIn
<1> QED
  BY <1>2 DEF ErrorsOf, Image

LEMMA HitsAreImage ==
    ASSUME NEW S, NEW w \in Seq(S)
    PROVE  HitsOf(w) = Image(HitIn(S), w)
<1>1. \A i \in DOMAIN w : w[i] \in S
  OBVIOUS
<1>2. \A i \in DOMAIN w : HitIn(S)[w[i]] = (w[i][1] = w[i][2])
  BY <1>1 DEF HitIn
<1> QED
  BY <1>2 DEF HitsOf, Image

\* A window of the errors, or of the hits, of the newest pairs takes one more.
LEMMA ErrorsPushed ==
    ASSUME NEW S, NEW l \in Seq(S), NEW p \in S
    PROVE  Pushed(ErrorsOf(LastOf(l, MetricCapacity)), AbsoluteError(p[1], p[2]), MetricCapacity)
             = ErrorsOf(LastOf(Append(l, p), MetricCapacity))
<1> DEFINE F == ErrorIn(S)
<1> DEFINE w == LastOf(l, MetricCapacity)
<1> DEFINE v == LastOf(Append(l, p), MetricCapacity)
<1>1. MetricCapacity \in Nat \ {0} /\ Append(l, p) \in Seq(S)
  BY MetricsAssumption
<1>2. w \in Seq(S) /\ v \in Seq(S)
  BY <1>1, LastOfFields
<1>3. v = Pushed(w, p, MetricCapacity)
  BY <1>1, PushedIsLastOf
<1>4. F[p] = AbsoluteError(p[1], p[2])
  BY DEF ErrorIn
<1> HIDE DEF w, v, F
<1>5. ErrorsOf(w) = Image(F, w) /\ ErrorsOf(v) = Image(F, v)
  BY <1>2, ErrorsAreImage DEF F
<1>6. Pushed(Image(F, w), F[p], MetricCapacity) = Image(F, Pushed(w, p, MetricCapacity))
  BY <1>1, <1>2, ImagePushed
<1> QED
  BY <1>3, <1>4, <1>5, <1>6 DEF w, v

LEMMA HitsPushed ==
    ASSUME NEW S, NEW l \in Seq(S), NEW p \in S
    PROVE  Pushed(HitsOf(LastOf(l, MetricCapacity)), p[1] = p[2], MetricCapacity)
             = HitsOf(LastOf(Append(l, p), MetricCapacity))
<1> DEFINE F == HitIn(S)
<1> DEFINE w == LastOf(l, MetricCapacity)
<1> DEFINE v == LastOf(Append(l, p), MetricCapacity)
<1>1. MetricCapacity \in Nat \ {0} /\ Append(l, p) \in Seq(S)
  BY MetricsAssumption
<1>2. w \in Seq(S) /\ v \in Seq(S)
  BY <1>1, LastOfFields
<1>3. v = Pushed(w, p, MetricCapacity)
  BY <1>1, PushedIsLastOf
<1>4. F[p] = (p[1] = p[2])
  BY DEF HitIn
<1> HIDE DEF w, v, F
<1>5. HitsOf(w) = Image(F, w) /\ HitsOf(v) = Image(F, v)
  BY <1>2, HitsAreImage DEF F
<1>6. Pushed(Image(F, w), F[p], MetricCapacity) = Image(F, Pushed(w, p, MetricCapacity))
  BY <1>1, <1>2, ImagePushed
<1> QED
  BY <1>3, <1>4, <1>5, <1>6 DEF w, v

\* What an object of a kind keeps of a log l of inputs in S.
Keeps(kind, d, S, l) ==
    /\ kind = "rolling" => d = LastOf(l, Capacity)
    /\ kind = "median_mad" => d.window = LastOf(l, Capacity)
    /\ kind = "ring" => Rings(d, l)
    /\ kind = "adwin" =>
         AdwinParts \subseteq DOMAIN d /\ d.window \in Seq(S) /\ Recent(d.window, l)
    /\ kind = "kswin" => Adjoins(d, S, l)
    /\ kind = "rolling_mae" => d.window = ErrorsOf(LastOf(l, MetricCapacity))
    /\ kind = "rolling_accuracy" => d.window = HitsOf(LastOf(l, MetricCapacity))
    /\ kind = "last_value" =>
         d.last = (IF l = <<>> THEN NoValue ELSE Last(l)) /\ (l # <<>> => IsFinite(Last(l)))

\* The kinds of Keeps that take numbers, and those that take pairs.
Windowed == {"rolling", "median_mad", "ring", "adwin", "kswin", "last_value"}
PairWindowed == {"rolling_mae", "rolling_accuracy"}

\* An object that takes an input keeps it, one that refuses it stays as it was.
KeepsTaking(r, kind, d, S, l, x) ==
    \/ ~r.ok /\ r.state = d
    \/ r.ok /\ Keeps(kind, r.state, S, Append(l, x))

LEMMA NumbersAreKept ==
    ASSUME NEW S, NEW l \in Seq(S), NEW x \in S, NEW kind \in Windowed, NEW d,
           Keeps(kind, d, S, l)
    PROVE  KeepsTaking(TakeNumber(kind, d, x), kind, d, S, l, x)
<1> USE StatisticsAssumption
<1>1. CASE kind = "rolling"
  <2>1. TakeNumber(kind, d, x) = RollingUpdate(d, x) /\ d = LastOf(l, Capacity)
    BY <1>1 DEF TakeNumber, Keeps
  <2>2. Pushed(LastOf(l, Capacity), x, Capacity) = LastOf(Append(l, x), Capacity)
    BY PushedIsLastOf
  <2>3. Keeps(kind, Pushed(d, x, Capacity), S, Append(l, x))
    BY <1>1, <2>1, <2>2 DEF Keeps
  <2> QED
    BY <2>1, <2>3 DEF KeepsTaking, RollingUpdate, Done, Refused
<1>2. CASE kind = "median_mad"
  <2>1. TakeNumber(kind, d, x) = MedianMadUpdate(d, x) /\ d.window = LastOf(l, Capacity)
    BY <1>2 DEF TakeNumber, Keeps
  <2>2. Pushed(d.window, x, Capacity) = LastOf(Append(l, x), Capacity)
    BY <2>1, PushedIsLastOf
  <2> DEFINE next == [window |-> Pushed(d.window, x, Capacity), samples |-> d.samples + 1]
  <2>3. Keeps(kind, next, S, Append(l, x))
    BY <1>2, <2>2 DEF Keeps
  <2>4. MedianMadUpdate(d, x) = [ok |-> TRUE, state |-> next]
        \/ MedianMadUpdate(d, x) = [ok |-> FALSE, state |-> d]
    BY Zenon DEF MedianMadUpdate, Done, Refused
  <2> QED
    BY <2>1, <2>3, <2>4 DEF KeepsTaking
<1>3. CASE kind = "ring"
  <2>1. TakeNumber(kind, d, x) = RingPush(d, x) /\ Rings(d, l)
    BY <1>3 DEF TakeNumber, Keeps
  <2>2. RingPush(d, x).ok => Rings(RingPush(d, x).state, Append(l, x))
    BY <2>1, PushRings
  <2>3. ~RingPush(d, x).ok => RingPush(d, x).state = d
    BY DEF RingPush, Done, Refused
  <2> QED
    BY <1>3, <2>1, <2>2, <2>3 DEF KeepsTaking, Keeps
<1>4. CASE kind = "adwin"
  <2> DEFINE r == AdwinUpdate(d, x)
  <2>1. TakeNumber(kind, d, x) = r
        /\ AdwinParts \subseteq DOMAIN d /\ d.window \in Seq(S) /\ Recent(d.window, l)
    BY <1>4 DEF TakeNumber, Keeps
  <2>2. \/ ~r.ok /\ r.state = d
        \/ /\ r.ok /\ AdwinParts \subseteq DOMAIN r.state
           /\ r.state.window \in Seq(S) /\ Recent(r.state.window, Append(l, x))
    BY <2>1, AdwinTakes
  <2> HIDE DEF r
  <2> QED
    BY <1>4, <2>1, <2>2 DEF KeepsTaking, Keeps
<1>5. CASE kind = "kswin"
  <2> DEFINE r == KswinUpdate(d, x)
  <2>1. TakeNumber(kind, d, x) = r /\ Adjoins(d, S, l)
    BY <1>5 DEF TakeNumber, Keeps
  <2>2. \/ ~r.ok /\ r.state = d
        \/ r.ok /\ Adjoins(r.state, S, Append(l, x))
    BY <2>1, KswinTakes
  <2> HIDE DEF r
  <2> QED
    BY <1>5, <2>1, <2>2 DEF KeepsTaking, Keeps
<1>6. CASE kind = "last_value"
  <2> DEFINE next == [count |-> d.count + 1, last |-> x]
  <2>1. TakeNumber(kind, d, x) = LastValueLearn(d, x)
    BY <1>6 DEF TakeNumber
  <2>2. \/ IsFinite(x) /\ LastValueLearn(d, x) = [ok |-> TRUE, state |-> next]
        \/ LastValueLearn(d, x) = [ok |-> FALSE, state |-> d]
    BY Zenon DEF LastValueLearn, Done, Refused
  <2>3. Append(l, x) # <<>> /\ Last(Append(l, x)) = x
    BY DEF Last
  <2>4. IsFinite(x) => Keeps(kind, next, S, Append(l, x))
    BY <1>6, <2>3 DEF Keeps
  <2> QED
    BY <2>1, <2>2, <2>4 DEF KeepsTaking
<1> QED
  BY <1>1, <1>2, <1>3, <1>4, <1>5, <1>6 DEF Windowed

LEMMA PairsAreKept ==
    ASSUME NEW S, NEW l \in Seq(S), NEW p \in S, NEW kind \in PairWindowed, NEW d,
           Keeps(kind, d, S, l)
    PROVE  KeepsTaking(TakePair(kind, d, p[1], p[2]), kind, d, S, l, p)
<1>0. kind \notin DOMAIN Cells
  BY DEF PairWindowed, Cells
<1>1. CASE kind = "rolling_mae"
  <2> DEFINE r == RollingMaeUpdate(d, p[1], p[2])
  <2> DEFINE w == Pushed(d.window, AbsoluteError(p[1], p[2]), MetricCapacity)
  <2>1. TakePair(kind, d, p[1], p[2]) = r /\ d.window = ErrorsOf(LastOf(l, MetricCapacity))
    BY <1>0, <1>1 DEF TakePair, Keeps
  <2>2. w = ErrorsOf(LastOf(Append(l, p), MetricCapacity))
    BY <2>1, ErrorsPushed
  <2>3. r = [ok |-> FALSE, state |-> d] \/ (r.ok /\ r.state.window = w)
    BY DEF RollingMaeUpdate, RollingLossUpdate, Done, Refused
  <2> HIDE DEF r, w
  <2> QED
    BY <1>1, <2>1, <2>2, <2>3 DEF KeepsTaking, Keeps
<1>2. CASE kind = "rolling_accuracy"
  <2> DEFINE r == RollingAccuracyUpdate(d, p[1], p[2])
  <2> DEFINE w == Pushed(d.window, p[1] = p[2], MetricCapacity)
  <2>1. TakePair(kind, d, p[1], p[2]) = r /\ d.window = HitsOf(LastOf(l, MetricCapacity))
    BY <1>0, <1>2 DEF TakePair, Keeps
  <2>2. w = HitsOf(LastOf(Append(l, p), MetricCapacity))
    BY <2>1, HitsPushed
  <2>3. r.ok /\ r.state.window = w
    BY DEF RollingAccuracyUpdate, Done
  <2> HIDE DEF r, w
  <2> QED
    BY <1>2, <2>1, <2>2, <2>3 DEF KeepsTaking, Keeps
<1> QED
  BY <1>1, <1>2 DEF PairWindowed

-----------------------------------------------------------------------------
(* The selector: a window of errors for each model.                        *)

SelectorParts == {"comparator", "current", "sinceSwitch"}
ComparatorParts == {"errors", "total", "best", "switches"}

\* What a comparator keeps of a log: the newest errors of each model. No counter
\* is ahead of the log, so none is at its limit before the log is.
Compares(c, l) ==
    /\ ComparatorParts \subseteq DOMAIN c
    /\ DOMAIN c.errors = Models /\ DOMAIN c.total = Models
    /\ \A i \in Models :
         /\ c.errors[i].window = ErrorsOf(LastOf(RecordedFor(i, l), MetricCapacity))
         /\ c.total[i] = Len(RecordedFor(i, l))
         /\ c.total[i] \in Nat /\ c.total[i] <= Len(l)

Selects(d, l) ==
    /\ SelectorParts \subseteq DOMAIN d
    /\ Compares(d.comparator, l)
    /\ d.sinceSwitch \in Nat /\ d.sinceSwitch <= Len(l)

LEMMA NothingRecorded ==
    ASSUME NEW model
    PROVE  RecordedFor(model, <<>>) = <<>>
<1>1. <<>> \in Seq({}) /\ Len(<<>>) = 0
  OBVIOUS
<1>2. PICK f \in [0..Len(<<>>) -> Seq(PairsOf({}))] : Among(f, model, <<>>)
  BY <1>1, AmongExists
<1>3. RecordedFor(model, <<>>) = f[0]
  BY <1>1, <1>2, RecordedIs
<1>4. 0 \in 0..Len(<<>>)
  BY <1>1
<1>5. f[0] = <<>>
  BY <1>2, <1>4 DEF Among
<1> QED
  BY <1>3, <1>5

LEMMA NewSelects == Selects(NewSelector, <<>>)
<1>1. Len(<<>>) = 0 /\ MetricCapacity \in Nat
  BY MetricsAssumption
<1>2. LastOf(<<>>, MetricCapacity) = <<>>
  BY <1>1, LastOfNothing
<1>3. ErrorsOf(<<>>) = <<>>
  BY DEF ErrorsOf
<1>4. \A i \in Models : NewComparator.errors[i].window = <<>> /\ NewComparator.total[i] = 0
  BY DEF NewComparator, NewRolling
<1>5. ComparatorParts \subseteq DOMAIN NewComparator
      /\ DOMAIN NewComparator.errors = Models /\ DOMAIN NewComparator.total = Models
  BY DEF NewComparator, ComparatorParts
<1>6. Compares(NewComparator, <<>>)
  BY <1>1, <1>2, <1>3, <1>4, <1>5, NothingRecorded DEF Compares
<1>7. /\ NewSelector.comparator = NewComparator /\ NewSelector.sinceSwitch = 0
      /\ SelectorParts \subseteq DOMAIN NewSelector
  BY DEF NewSelector, SelectorParts
<1> QED
  BY <1>1, <1>6, <1>7 DEF Selects

\* A comparator below its limits refuses an error with its old state, or takes it
\* for its model.
LEMMA ComparatorTakes ==
    ASSUME NEW S, NEW l \in Seq(S), NEW e \in S, NEW c, Compares(c, l), Len(l) < MaxCount
    PROVE  LET r == ComparatorRecord(c, e[1], e[2], e[3])
           IN  \/ ~r.ok /\ r.state = c
               \/ r.ok /\ Compares(r.state, Append(l, e))
<1> DEFINE i == e[1]
<1> DEFINE rolled == RollingMaeUpdate(c.errors[i], e[2], e[3])
<1> DEFINE taken == [c EXCEPT !.errors[i] = rolled.state]
<1> DEFINE next == [taken EXCEPT !.total[i] = @ + 1]
<1> DEFINE r == ComparatorRecord(c, e[1], e[2], e[3])
<1> DEFINE m == Append(l, e)
<1>1. /\ Len(l) \in Nat /\ MaxCount \in Nat /\ Len(m) = Len(l) + 1 /\ m \in Seq(S)
  BY FormatAssumption
<1>2. /\ ComparatorParts \subseteq DOMAIN c
      /\ DOMAIN c.errors = Models /\ DOMAIN c.total = Models
      /\ \A j \in Models :
           /\ c.errors[j].window = ErrorsOf(LastOf(RecordedFor(j, l), MetricCapacity))
           /\ c.total[j] = Len(RecordedFor(j, l))
           /\ c.total[j] \in Nat /\ c.total[j] <= Len(l)
  BY DEF Compares
<1>3. CASE i \notin Models \/ ~rolled.ok
  BY <1>3 DEF ComparatorRecord, Refused
<1>4. CASE i \in Models /\ rolled.ok
  <2>1. CanCount(c.total[i])
    BY <1>1, <1>2, <1>4 DEF CanCount
  <2>2. r.ok /\ r.state = next
    <3>1. taken.total = c.total
      BY <1>2 DEF ComparatorParts
    <3>2. r = [ok |-> TRUE, state |-> next]
      <4>1. ~(i \notin Models \/ ~rolled.ok) /\ CanCount(c.total[i])
        BY <1>4, <2>1
      <4> QED
        BY <4>1, Zenon DEF ComparatorRecord, Done
    <3> HIDE DEF r, next
    <3> QED
      BY <3>2
  <2>a. /\ ComparatorParts \subseteq DOMAIN taken /\ DOMAIN taken.errors = Models
        /\ taken.total = c.total /\ taken.errors[i] = rolled.state
        /\ \A j \in Models : j # i => taken.errors[j] = c.errors[j]
    <3> HIDE DEF rolled, i
    <3> QED
      BY <1>2, <1>4 DEF ComparatorParts
  <2> HIDE DEF taken
  <2>3. /\ ComparatorParts \subseteq DOMAIN next
        /\ DOMAIN next.errors = Models /\ DOMAIN next.total = Models
        /\ next.errors[i] = rolled.state /\ next.total[i] = c.total[i] + 1
        /\ \A j \in Models : j # i => next.errors[j] = c.errors[j] /\ next.total[j] = c.total[j]
    <3> HIDE DEF rolled, i
    <3> QED
      BY <1>2, <1>4, <2>a DEF ComparatorParts
  <2> DEFINE p == <<e[2], e[3]>>
  <2> DEFINE w == RecordedFor(i, l)
  <2>4. rolled.state.window = Pushed(c.errors[i].window, AbsoluteError(p[1], p[2]), MetricCapacity)
    BY <1>4 DEF RollingMaeUpdate, RollingLossUpdate, Done, Refused
  <2>5. w \in Seq(PairsOf(S)) /\ p \in PairsOf(S)
    <3>1. p \in PairsOf(S)
      BY DEF PairsOf
    <3>2. w \in Seq(PairsOf(S))
      BY RecordedType
    <3> QED
      BY <3>1, <3>2
  <2>6. RecordedFor(i, m) = Append(w, p)
    BY RecordedAppend
  <2>7. \A j \in Models : j # i => RecordedFor(j, m) = RecordedFor(j, l)
    BY RecordedAppend
  <2> HIDE DEF r, next, rolled, m, p, w, i
  <2>8. rolled.state.window = ErrorsOf(LastOf(RecordedFor(i, m), MetricCapacity))
    <3>1. c.errors[i].window = ErrorsOf(LastOf(w, MetricCapacity))
      BY <1>2, <1>4 DEF w
    <3>2. Pushed(ErrorsOf(LastOf(w, MetricCapacity)), AbsoluteError(p[1], p[2]), MetricCapacity)
            = ErrorsOf(LastOf(Append(w, p), MetricCapacity))
      BY <2>5, ErrorsPushed
    <3> QED
      BY <2>4, <2>6, <3>1, <3>2
  <2>11. Len(RecordedFor(i, m)) = Len(RecordedFor(i, l)) + 1
    BY <2>5, <2>6 DEF w
  <2>9. ASSUME NEW j \in Models
        PROVE  /\ next.errors[j].window = ErrorsOf(LastOf(RecordedFor(j, m), MetricCapacity))
               /\ next.total[j] = Len(RecordedFor(j, m))
               /\ next.total[j] \in Nat /\ next.total[j] <= Len(m)
    <3>1. CASE j = i
      BY <1>1, <1>2, <1>4, <2>3, <2>8, <2>11, <3>1
    <3>2. CASE j # i
      BY <1>1, <1>2, <2>3, <2>7, <3>2
    <3> QED
      BY <3>1, <3>2
  <2>10. Compares(next, m)
    BY <2>3, <2>9 DEF Compares
  <2> QED
    BY <2>2, <2>10 DEF r, m
<1> QED
  BY <1>3, <1>4

\* A record below the limits is refused with the old state, or taken.
LEMMA SelectorTakes ==
    ASSUME NEW S, NEW l \in Seq(S), NEW e \in S, NEW d, Selects(d, l), Len(l) < MaxCount
    PROVE  LET r == SelectorRecord(d, e[1], e[2], e[3])
           IN  \/ ~r.ok /\ Selects(r.state, l)
               \/ r.ok /\ Selects(r.state, Append(l, e))
<1> DEFINE recorded == ComparatorRecord(d.comparator, e[1], e[2], e[3])
<1> DEFINE taken == [d EXCEPT !.comparator = recorded.state]
<1> DEFINE counted == [taken EXCEPT !.sinceSwitch = @ + 1]
<1> DEFINE r == SelectorRecord(d, e[1], e[2], e[3])
<1> DEFINE m == Append(l, e)
<1>1. /\ Len(l) \in Nat /\ MaxCount \in Nat /\ Len(m) = Len(l) + 1
  BY FormatAssumption
<1>2. /\ SelectorParts \subseteq DOMAIN d /\ Compares(d.comparator, l)
      /\ d.sinceSwitch \in Nat /\ d.sinceSwitch <= Len(l)
  BY DEF Selects
<1>3. CanCount(d.sinceSwitch)
  BY <1>1, <1>2 DEF CanCount
<1>4. \/ ~recorded.ok /\ recorded.state = d.comparator
      \/ recorded.ok /\ Compares(recorded.state, m)
  BY <1>2, ComparatorTakes
<1> HIDE DEF recorded, m
<1>5. /\ SelectorParts \subseteq DOMAIN taken /\ taken.comparator = recorded.state
      /\ taken.sinceSwitch = d.sinceSwitch
  BY <1>2 DEF SelectorParts
<1>6. /\ SelectorParts \subseteq DOMAIN counted /\ counted.comparator = recorded.state
      /\ counted.sinceSwitch = d.sinceSwitch + 1
  BY <1>2, <1>5 DEF SelectorParts
<1>7. \/ ~recorded.ok /\ r = [ok |-> FALSE, state |-> taken]
      \/ recorded.ok /\ r = [ok |-> TRUE, state |-> taken]
      \/ recorded.ok /\ r = [ok |-> TRUE, state |-> counted]
  <2>1. CanCount(taken.sinceSwitch)
    BY <1>3, <1>5
  <2>2. r = IF ~recorded.ok THEN [ok |-> FALSE, state |-> taken]
            ELSE IF d.current # e[1] THEN [ok |-> TRUE, state |-> taken]
            ELSE IF ~CanCount(d.sinceSwitch) THEN [ok |-> FALSE, state |-> taken]
            ELSE [ok |-> TRUE, state |-> counted]
    BY Zenon DEF SelectorRecord, Done, Refused, recorded
  <2> HIDE DEF r, taken, counted
  <2> QED
    BY <1>3, <2>2
<1> HIDE DEF r, taken, counted
<1>8. CASE ~recorded.ok /\ r = [ok |-> FALSE, state |-> taken]
  BY <1>2, <1>4, <1>5, <1>8 DEF Selects, r, m
<1>9. CASE recorded.ok /\ r = [ok |-> TRUE, state |-> taken]
  <2>1. Selects(taken, m)
    BY <1>1, <1>2, <1>4, <1>5, <1>9 DEF Selects
  <2> QED
    BY <1>9, <2>1 DEF r, m
<1>10. CASE recorded.ok /\ r = [ok |-> TRUE, state |-> counted]
  <2>1. Selects(counted, m)
    BY <1>1, <1>2, <1>4, <1>6, <1>10 DEF Selects
  <2> QED
    BY <1>10, <2>1 DEF r, m
<1> QED
  BY <1>7, <1>8, <1>9, <1>10

\* A selection moves no window.
LEMMA SelectionMovesNothing ==
    ASSUME NEW l, Len(l) \in Nat, NEW d, Selects(d, l)
    PROVE  Selects(SelectorSelect(d), l)
<1> DEFINE c == d.comparator
<1> DEFINE u == UpdateBest(c).state
<1> DEFINE moved == [d EXCEPT !.comparator = u]
<1>1. /\ SelectorParts \subseteq DOMAIN d /\ Compares(c, l)
      /\ d.sinceSwitch \in Nat /\ d.sinceSwitch <= Len(l)
  BY DEF Selects
<1>2. \/ u = [c EXCEPT !.best = NoModel]
      \/ u = c
      \/ u = [c EXCEPT !.best = LeastError(c), !.switches = Lower(@ + 1, MaxCount)]
  BY DEF UpdateBest
<1> HIDE DEF c, u
<1>3. Compares(u, l)
  <2>1. /\ ComparatorParts \subseteq DOMAIN u /\ u.errors = c.errors /\ u.total = c.total
    BY <1>1, <1>2 DEF Compares, ComparatorParts
  <2> QED
    BY <1>1, <2>1 DEF Compares
<1>4. /\ SelectorParts \subseteq DOMAIN moved /\ moved.comparator = u
      /\ moved.sinceSwitch = d.sinceSwitch
  BY <1>1 DEF SelectorParts
<1> DEFINE switched == [moved EXCEPT !.current = UpdateBest(c).answer, !.sinceSwitch = 0]
<1>5. SelectorSelect(d) = moved \/ SelectorSelect(d) = switched
  BY Zenon DEF SelectorSelect, c, u
<1>6. /\ SelectorParts \subseteq DOMAIN switched /\ switched.comparator = u
      /\ switched.sinceSwitch = 0
  BY <1>4 DEF SelectorParts
<1> HIDE DEF moved, switched
<1>7. Selects(moved, l) /\ Selects(switched, l)
  BY <1>1, <1>3, <1>4, <1>6 DEF Selects
<1> QED
  BY <1>5, <1>7

-----------------------------------------------------------------------------
(* The invariant                                                           *)

WindowInv ==
    /\ stream \in Streams /\ log \in Seq(stream.inputs)
    /\ Keeps(stream.kind, object, stream.inputs, log)
    /\ stream.kind = "selector" /\ Len(log) < MaxCount => Selects(object, log)

WindowKinds == Windowed \cup PairWindowed \cup {"selector"}

LEMMA NotCells == WindowKinds \cap DOMAIN Cells = {}
BY DEF WindowKinds, Windowed, PairWindowed, Cells

LEMMA NewKeeps ==
    ASSUME NEW kind, NEW S
    PROVE  /\ Keeps(kind, New(kind), S, <<>>)
           /\ kind = "selector" => Selects(New(kind), <<>>)
<1>1. /\ LastOf(<<>>, Capacity) = <<>> /\ LastOf(<<>>, MetricCapacity) = <<>>
      /\ ErrorsOf(<<>>) = <<>> /\ HitsOf(<<>>) = <<>>
      /\ <<>> \in Seq(S) /\ Len(<<>>) = 0 /\ <<>> \o <<>> = <<>>
  BY LastOfNothing, StatisticsAssumption, MetricsAssumption DEF ErrorsOf, HitsOf
<1>2. Recent(<<>>, <<>>)
  <2>1. <<>> \in Seq(S)
    OBVIOUS
  <2> QED
    BY <2>1, NothingIsRecent
<1>3. kind \in WindowKinds => kind \notin DOMAIN Cells
  BY NotCells
<1>4. CASE kind = "rolling"
  <2>1. New(kind) = <<>>
    BY <1>3, <1>4 DEF New, WindowKinds, Windowed
  <2> QED
    BY <1>1, <1>4, <2>1 DEF Keeps
<1>5. CASE kind = "median_mad"
  <2>1. New(kind) = NewMedianMad
    BY <1>3, <1>5 DEF New, WindowKinds, Windowed
  <2> QED
    BY <1>1, <1>5, <2>1 DEF Keeps, NewMedianMad
<1>6. CASE kind = "ring"
  <2>1. New(kind) = NewRing
    BY <1>3, <1>6 DEF New, WindowKinds, Windowed
  <2> QED
    BY <1>6, <2>1, NewRings DEF Keeps
<1>7. CASE kind = "adwin"
  <2>1. New(kind) = NewAdwin
    BY <1>3, <1>7 DEF New, WindowKinds, Windowed
  <2>2. AdwinParts \subseteq DOMAIN NewAdwin /\ NewAdwin.window = <<>>
    BY DEF NewAdwin, AdwinParts
  <2> QED
    BY <1>1, <1>2, <1>7, <2>1, <2>2 DEF Keeps
<1>8. CASE kind = "kswin"
  <2>1. New(kind) = NewKswin
    BY <1>3, <1>8 DEF New, WindowKinds, Windowed
  <2>2. KswinParts \subseteq DOMAIN NewKswin /\ NewKswin.reference = <<>> /\ NewKswin.current = <<>>
    BY DEF NewKswin, KswinParts
  <2> QED
    BY <1>1, <1>2, <1>8, <2>1, <2>2 DEF Keeps, Adjoins
<1>9. CASE kind \in PairWindowed
  <2>1. New(kind) = NewRolling
    BY <1>3, <1>9 DEF New, WindowKinds, PairWindowed
  <2> QED
    BY <1>1, <1>9, <2>1 DEF Keeps, NewRolling, PairWindowed
<1>10. CASE kind = "last_value"
  <2>1. New(kind) = NewLastValue
    BY <1>3, <1>10 DEF New, WindowKinds, Windowed
  <2> QED
    BY <1>10, <2>1 DEF Keeps, NewLastValue
<1>11. CASE kind = "selector"
  <2>1. New(kind) = NewSelector
    BY <1>3, <1>11 DEF New, WindowKinds
  <2> QED
    BY <1>11, <2>1, NewSelects DEF Keeps
<1>12. CASE kind \notin WindowKinds
  BY <1>12 DEF Keeps, WindowKinds, Windowed, PairWindowed
<1> QED
  BY <1>4, <1>5, <1>6, <1>7, <1>8, <1>9, <1>10, <1>11, <1>12
     DEF WindowKinds, Windowed, PairWindowed

\* What a step does to an object that is not compared with a baseline.
LEMMA CallSteps ==
    ASSUME [MonitoringNext]_vars, stream.kind \notin {"warmup", "reporter"}
    PROVE  \/ UNCHANGED <<object, log>>
           \/ /\ log' = <<>>
              /\ object' = IF stream.kind = "ring" THEN RingReset(object) ELSE New(stream.kind)
           \/ \E input \in stream.inputs : Took(Take(stream.kind, object, input), input)
           \/ stream.kind = "selector" /\ object' = SelectorSelect(object) /\ log' = log
<1>1. CASE Feed
  BY <1>1, Zenon DEF Feed
<1>2. CASE Reset
  BY <1>2, Zenon DEF Reset
<1>3. CASE Select
  BY <1>3, Zenon DEF Select
<1>4. CASE Compare
  BY <1>4, Zenon DEF Compare
<1>5. CASE UNCHANGED vars
  BY <1>5 DEF vars
<1> QED
  BY <1>1, <1>2, <1>3, <1>4, <1>5 DEF MonitoringNext

LEMMA WindowInit == MonitoringInit => WindowInv
<1> SUFFICES ASSUME MonitoringInit
             PROVE  WindowInv
  OBVIOUS
<1>1. stream \in Streams /\ log = <<>> /\ object = New(stream.kind)
  BY DEF MonitoringInit
<1>2. log \in Seq(stream.inputs)
  BY <1>1
<1> QED
  BY <1>1, <1>2, NewKeeps DEF WindowInv

\* An object that takes an input, of any kind that has windows.
LEMMA TakingKeeps ==
    ASSUME WindowInv, stream.kind \in WindowKinds, NEW input \in stream.inputs,
           Took(Take(stream.kind, object, input), input)
    PROVE  WindowInv'
<1> DEFINE kind == stream.kind
<1> DEFINE S == stream.inputs
<1> DEFINE r == Take(kind, object, input)
<1>1. /\ stream' = stream /\ object' = r.state
      /\ log' = IF r.ok THEN Append(log, input) ELSE log
  BY DEF Took
<1>2. /\ kind \in WindowKinds /\ input \in S /\ log \in Seq(S) /\ stream \in Streams
      /\ Keeps(kind, object, S, log)
      /\ kind = "selector" /\ Len(log) < MaxCount => Selects(object, log)
  BY DEF WindowInv
<1>3. log' \in Seq(S) /\ Append(log, input) \in Seq(S) /\ Len(Append(log, input)) = Len(log) + 1
  <2> HIDE DEF S, r
  <2>1. Append(log, input) \in Seq(S) /\ Len(Append(log, input)) = Len(log) + 1
    BY <1>2
  <2> QED
    BY <1>1, <1>2, <2>1
<1>4. stream'.kind = kind /\ stream'.inputs = S
  BY <1>1
<1>5. CASE kind \in Windowed \cup PairWindowed
  <2>1. KeepsTaking(r, kind, object, S, log, input)
    <3>1. CASE kind \in Windowed
      <4>1. kind \notin Pairs /\ kind \notin Weighed /\ kind # "consensus" /\ kind # "selector"
        BY <3>1 DEF Windowed, Pairs, Weighed, Cells
      <4>2. r = TakeNumber(kind, object, input)
        BY <4>1 DEF Take
      <4> HIDE DEF kind, S, r
      <4>3. KeepsTaking(TakeNumber(kind, object, input), kind, object, S, log, input)
        BY <1>2, <3>1, NumbersAreKept
      <4> QED
        BY <4>2, <4>3
    <3>2. CASE kind \in PairWindowed
      <4>1. kind \in Pairs /\ kind \notin Weighed /\ kind # "consensus" /\ kind # "selector"
        BY <3>2 DEF PairWindowed, Pairs, Weighed, Cells
      <4>2. r = TakePair(kind, object, input[1], input[2])
        BY <4>1 DEF Take
      <4> HIDE DEF kind, S, r
      <4>3. KeepsTaking(TakePair(kind, object, input[1], input[2]), kind, object, S, log, input)
        BY <1>2, <3>2, PairsAreKept
      <4> QED
        BY <4>2, <4>3
    <3> QED
      BY <1>5, <3>1, <3>2
  <2>2. kind # "selector"
    BY <1>5 DEF Windowed, PairWindowed
  <2> HIDE DEF kind, S, r
  <2>3. Keeps(kind, object', S, log')
    BY <1>1, <1>2, <2>1 DEF KeepsTaking
  <2> QED
    BY <1>1, <1>2, <1>3, <1>4, <2>2, <2>3 DEF WindowInv
<1>6. CASE kind = "selector"
  <2>1. Keeps(kind, object', S, log')
    BY <1>6 DEF Keeps
  <2>2. r = SelectorRecord(object, input[1], input[2], input[3])
    BY <1>6 DEF Take, Pairs, Weighed, Cells
  <2> HIDE DEF r
  <2>3. ASSUME Len(log') < MaxCount
        PROVE  Selects(object', log')
    <3>1. Len(log) < MaxCount
      BY <1>1, <1>2, <1>3, <2>3, FormatAssumption
    <3>2. Selects(object, log)
      BY <1>2, <1>6, <3>1
    <3> HIDE DEF S
    <3>3. \/ ~r.ok /\ Selects(r.state, log)
          \/ r.ok /\ Selects(r.state, Append(log, input))
      BY <1>2, <2>2, <3>1, <3>2, SelectorTakes
    <3> QED
      BY <1>1, <3>3
  <2> HIDE DEF kind, S
  <2> QED
    BY <1>1, <1>2, <1>3, <1>4, <2>1, <2>3 DEF WindowInv
<1> QED
  BY <1>2, <1>5, <1>6 DEF WindowKinds

LEMMA WindowStep == WindowInv /\ [MonitoringNext]_vars => WindowInv'
<1> SUFFICES ASSUME WindowInv, [MonitoringNext]_vars
             PROVE  WindowInv'
  OBVIOUS
<1>1. /\ stream' = stream /\ stream \in Streams /\ log \in Seq(stream.inputs)
      /\ Keeps(stream.kind, object, stream.inputs, log)
      /\ stream.kind = "selector" /\ Len(log) < MaxCount => Selects(object, log)
  BY StreamStays DEF WindowInv
<1>2. log' \in Seq(stream.inputs)
  <2>1. CASE Feed
    <3>1. PICK input \in stream.inputs : Took(Take(stream.kind, object, input), input)
      BY <2>1, Zenon DEF Feed
    <3>2. log' = Append(log, input) \/ log' = log
      BY <3>1 DEF Took
    <3> QED
      BY <1>1, <3>2
  <2>2. CASE Reset
    BY <2>2 DEF Reset
  <2>3. CASE Select \/ Compare \/ UNCHANGED vars
    BY <1>1, <2>3 DEF Select, Compare, vars
  <2> QED
    BY <2>1, <2>2, <2>3 DEF MonitoringNext
<1>3. CASE stream.kind \notin WindowKinds
  <2>1. Keeps(stream.kind, object', stream.inputs, log') /\ stream.kind # "selector"
    BY <1>3 DEF Keeps, WindowKinds, Windowed, PairWindowed
  <2> QED
    BY <1>1, <1>2, <2>1 DEF WindowInv
<1>4. CASE stream.kind \in WindowKinds
  <2>1. CASE UNCHANGED <<object, log>>
    BY <1>1, <2>1 DEF WindowInv
  <2>2. CASE /\ log' = <<>>
             /\ object' = IF stream.kind = "ring" THEN RingReset(object) ELSE New(stream.kind)
    <3>1. CASE stream.kind = "ring"
      <4>1. Rings(object, log)
        BY <1>1, <3>1 DEF Keeps
      <4>2. Rings(object', log')
        BY <1>1, <2>2, <3>1, <4>1, ResetRings
      <4>3. Keeps(stream.kind, object', stream.inputs, log')
        BY <3>1, <4>2 DEF Keeps
      <4> QED
        BY <1>1, <1>2, <3>1, <4>3 DEF WindowInv
    <3>2. CASE stream.kind # "ring"
      <4>1. object' = New(stream.kind) /\ log' = <<>>
        BY <2>2, <3>2
      <4>2. /\ Keeps(stream.kind, object', stream.inputs, log')
            /\ stream.kind = "selector" => Selects(object', log')
        BY <4>1, NewKeeps
      <4> QED
        BY <1>1, <1>2, <4>2 DEF WindowInv
    <3> QED
      BY <3>1, <3>2
  <2>3. CASE \E input \in stream.inputs : Took(Take(stream.kind, object, input), input)
    <3>1. PICK input \in stream.inputs : Took(Take(stream.kind, object, input), input)
      BY <2>3
    <3> QED
      BY <1>4, <3>1, TakingKeeps
  <2>4. CASE stream.kind = "selector" /\ object' = SelectorSelect(object) /\ log' = log
    <3>1. Keeps(stream.kind, object', stream.inputs, log')
      BY <2>4 DEF Keeps
    <3>2. Len(log) \in Nat
      BY <1>1
    <3>3. Len(log') < MaxCount => Selects(object', log')
      BY <1>1, <2>4, <3>2, SelectionMovesNothing
    <3> QED
      BY <1>1, <1>2, <3>1, <3>3 DEF WindowInv
  <2>5. stream.kind \notin {"warmup", "reporter"}
    BY <1>4 DEF WindowKinds, Windowed, PairWindowed
  <2> QED
    BY <2>1, <2>2, <2>3, <2>4, <2>5, CallSteps
<1> QED
  BY <1>3, <1>4

LEMMA WindowInvHolds == MonitoringSpec => []WindowInv
<1> QED
  BY WindowInit, WindowStep, PTL DEF MonitoringSpec

\* WindowsAreRecent: a bounded window holds the newest values, in their order,
\* whatever was evicted, rotated, cut, refused or reset before.
THEOREM WindowsHoldTheNewest == MonitoringSpec => []WindowsAreRecent
<1>1. WindowInv => WindowsAreRecent
  <2> SUFFICES ASSUME WindowInv
               PROVE  WindowsAreRecent
    OBVIOUS
  <2> DEFINE S == stream.inputs
  <2>1. /\ log \in Seq(S) /\ Keeps(stream.kind, object, S, log)
        /\ stream.kind = "selector" /\ Len(log) < MaxCount => Selects(object, log)
    BY DEF WindowInv
  <2> HIDE DEF S
  <2>2. CASE stream.kind = "ring"
    <3>1. Rings(object, log)
      BY <2>1, <2>2 DEF Keeps
    <3>2. RingValues(object) = LastOf(log, Capacity)
      BY <2>1, <3>1, RingIsRecent
    <3> QED
      BY <2>2, <3>2 DEF WindowsAreRecent
  <2>3. CASE stream.kind = "adwin"
    <3>1. object.window \in Seq(S) /\ Recent(object.window, log)
      BY <2>1, <2>3 DEF Keeps
    <3>2. object.window = LastOf(log, Len(object.window))
      BY <2>1, <3>1, RecentIsItsLength
    <3> QED
      BY <2>3, <3>2 DEF WindowsAreRecent
  <2>4. CASE stream.kind = "kswin"
    <3> DEFINE kept == object.reference \o object.current
    <3>1. kept \in Seq(S) /\ Recent(kept, log)
      BY <2>1, <2>4 DEF Keeps, Adjoins
    <3> HIDE DEF kept
    <3>2. kept = LastOf(log, Len(kept))
      BY <2>1, <3>1, RecentIsItsLength
    <3> QED
      BY <2>4, <3>2 DEF WindowsAreRecent, kept
  <2>5. CASE stream.kind = "last_value"
    <3>1. /\ object.last = (IF log = <<>> THEN NoValue ELSE Last(log))
          /\ log # <<>> => IsFinite(Last(log))
      BY <2>1, <2>5 DEF Keeps
    <3>2. ~IsFinite(NoValue)
      BY FormatAssumption DEF IsFinite, NoValue
    <3>3. log # <<>> => Last(log) # NoValue
      BY <3>1, <3>2
    <3>4. LastValuePrediction(object) = IF log = <<>> THEN InitialPrediction ELSE Last(log)
      BY <3>1, <3>3 DEF LastValuePrediction
    <3> QED
      BY <2>5, <3>4 DEF WindowsAreRecent
  <2>6. CASE stream.kind = "selector"
    <3>1. Len(log) < MaxCount =>
            \A i \in Models : object.comparator.errors[i].window =
                              ErrorsOf(LastOf(RecordedFor(i, log), MetricCapacity))
      BY <2>1, <2>6 DEF Selects, Compares
    <3> QED
      BY <2>6, <3>1 DEF WindowsAreRecent
  <2>7. CASE stream.kind \in {"rolling", "median_mad", "rolling_mae", "rolling_accuracy"}
    BY <2>1, <2>7 DEF Keeps, WindowsAreRecent
  <2>8. CASE stream.kind \notin WindowKinds
    BY <2>8 DEF WindowsAreRecent, WindowKinds, Windowed, PairWindowed
  <2> QED
    BY <2>2, <2>3, <2>4, <2>5, <2>6, <2>7, <2>8 DEF WindowKinds, Windowed, PairWindowed
<1> QED
  BY <1>1, WindowInvHolds, PTL

-----------------------------------------------------------------------------
(* The drift-aware model                                                   *)

\* Whatever an ADWIN finds in its window, an update counts one sample or is
\* refused with the old state.
LEMMA JudgedCounts ==
    ASSUME NEW d, AdwinParts \subseteq DOMAIN d
    PROVE  /\ AdwinParts \subseteq DOMAIN Judged(d)
           /\ Judged(d).samples = d.samples
           /\ Judged(d).level \in {"none", "warning", "drift"}
<1> DEFINE k == Oldest(SplitsAt(d.window, "drift"))
<1> DEFINE cut == TrimFront(d, k)
<1> DEFINE level == IF SplitsAt(d.window, "warning") # {} THEN "warning" ELSE "none"
<1>1. \/ Judged(d) = [d EXCEPT !.level = "none"]
      \/ Judged(d) = [cut EXCEPT !.level = "drift"]
      \/ Judged(d) = [d EXCEPT !.level = level]
  BY Zenon DEF Judged
<1>2. AdwinParts \subseteq DOMAIN cut /\ cut.samples = d.samples
  BY DEF TrimFront, AdwinParts
<1>3. level \in {"none", "warning", "drift"}
  OBVIOUS
<1> HIDE DEF cut, level
<1> QED
  BY <1>1, <1>2, <1>3 DEF AdwinParts

LEMMA AdwinCounts ==
    ASSUME NEW d, AdwinParts \subseteq DOMAIN d, NEW x
    PROVE  LET r == AdwinUpdate(d, x)
           IN  \/ ~r.ok /\ r.state = d
               \/ /\ r.ok /\ CanCount(d.samples)
                  /\ AdwinParts \subseteq DOMAIN r.state
                  /\ r.state.samples = d.samples + 1
                  /\ r.state.level \in {"none", "warning", "drift"}
<1> DEFINE r == AdwinUpdate(d, x)
<1> DEFINE full == Len(d.window) = MaxWindow
<1> DEFINE added == FAdd(d.total, x)
<1> DEFINE total == IF full THEN FAdd(added, FNeg(Head(d.window))) ELSE added
<1> DEFINE window == Append(IF full THEN Tail(d.window) ELSE d.window, x)
<1> DEFINE next == [d EXCEPT !.samples = @ + 1, !.total = total, !.window = window]
<1>1. \/ r = [ok |-> FALSE, state |-> d]
      \/ r = [ok |-> TRUE, state |-> Judged(next)] /\ CanCount(d.samples)
  BY Zenon DEF AdwinUpdate, Done, Refused
<1> HIDE DEF total, window
<1>2. AdwinParts \subseteq DOMAIN next /\ next.samples = d.samples + 1
  BY DEF AdwinParts
<1> HIDE DEF next, r
<1>3. /\ AdwinParts \subseteq DOMAIN Judged(next)
      /\ Judged(next).samples = d.samples + 1
      /\ Judged(next).level \in {"none", "warning", "drift"}
  BY <1>2, JudgedCounts
<1> QED
  BY <1>1, <1>3 DEF r

\* The events of the log, and the newest reset that one of them tells of.
AwareEvent ==
    [sample: Nat, level: {"warning", "drift"},
     action: {"notify_only", WarningAction, DriftAction}]

IsNewestReset(events, i) ==
    /\ events[i].action = "reset_model"
    /\ \A j \in (i + 1)..Len(events) : events[j].action # "reset_model"

\* A model that has learned n of s samples knows those since the newest reset.
Knows(n, s, events) ==
    \A i \in 1..Len(events) : IsNewestReset(events, i) => n = s - events[i].sample

\* An event is logged, and the oldest ones may be forgotten.
LEMMA LoggedKnows ==
    ASSUME NEW E, NEW events \in Seq(E), NEW e \in E, NEW v \in Seq(E), v # <<>>,
           Recent(v, Append(events, e)), NEW n, NEW s,
           e.action = "reset_model" => n = s - e.sample,
           e.action # "reset_model" => Knows(n, s, events)
    PROVE  Knows(n, s, v)
<1> DEFINE all == Append(events, e)
<1> DEFINE k == Len(all) - Len(v)
<1>1. /\ Len(events) \in Nat /\ Len(v) \in Nat \ {0} /\ Len(all) = Len(events) + 1
      /\ all[Len(events) + 1] = e /\ \A j \in 1..Len(events) : all[j] = events[j]
  OBVIOUS
<1>2. Len(v) <= Len(all) /\ \A i \in 1..Len(v) : v[i] = all[k + i]
  BY DEF Recent
<1> HIDE DEF all
<1>3. k \in Nat /\ k + Len(v) = Len(events) + 1
  BY <1>1, <1>2
<1> HIDE DEF k
<1> SUFFICES ASSUME NEW i \in 1..Len(v), IsNewestReset(v, i)
             PROVE  n = s - v[i].sample
  BY DEF Knows
<1>4. v[Len(v)] = e
  BY <1>1, <1>2, <1>3
<1>5. CASE i = Len(v)
  BY <1>4, <1>5 DEF IsNewestReset
<1>6. CASE i # Len(v)
  <2>1. Len(v) \in (i + 1)..Len(v) /\ k + i \in 1..Len(events)
    BY <1>1, <1>3, <1>6
  <2>2. e.action # "reset_model"
    BY <1>4, <2>1 DEF IsNewestReset
  <2>3. v[i] = events[k + i]
    BY <1>1, <1>2, <2>1
  <2>4. ASSUME NEW j \in (k + i + 1)..Len(events)
        PROVE  events[j].action # "reset_model"
    <3>1. j - k \in (i + 1)..Len(v) /\ j - k \in 1..Len(v) /\ k + (j - k) = j /\ j \in 1..Len(events)
      BY <1>1, <1>3
    <3>2. v[j - k] = events[j]
      BY <1>1, <1>2, <3>1
    <3> QED
      BY <3>1, <3>2 DEF IsNewestReset
  <2>5. IsNewestReset(events, k + i)
    BY <2>3, <2>4 DEF IsNewestReset
  <2> QED
    BY <2>1, <2>2, <2>3, <2>5 DEF Knows
<1> QED
  BY <1>5, <1>6

AwareParts == {"model", "detector", "events", "samples", "lastAction"}

\* The detector counts every sample that the model does, and those that the model
\* refused: the counter of the samples is never the first at its limit.
AwareHolds(a) ==
    /\ AwareParts \subseteq DOMAIN a
    /\ AdwinParts \subseteq DOMAIN a.detector
    /\ a.samples \in Nat /\ a.detector.samples \in Nat /\ a.samples <= a.detector.samples
    /\ a.model.count \in Nat
    /\ a.events \in Seq(AwareEvent)
    /\ Knows(a.model.count, a.samples, a.events)

\* What learn has done before the model learns.
LEMMA RespondedFields ==
    ASSUME NEW a, AwareHolds(a), NEW d, d.level \in {"none", "warning", "drift"}
    PROVE  LET b == Responded(a, d)
           IN  /\ AwareParts \subseteq DOMAIN b
               /\ b.detector = d /\ b.samples = a.samples
               /\ b.model.count \in Nat
               /\ b.events \in Seq(AwareEvent)
               /\ Knows(b.model.count, a.samples, b.events)
<1> DEFINE action == Decide(d.level)
<1> DEFINE e == [sample |-> a.samples, level |-> d.level, action |-> action]
<1> DEFINE v == LastOf(Append(a.events, e), MaxEvents)
<1> DEFINE logged == IF d.level # "none" THEN [a EXCEPT !.events = v] ELSE a
<1> DEFINE model == IF action = "reset_model" THEN NewMean ELSE logged.model
<1> DEFINE b == Responded(a, d)
<1>1. b = [logged EXCEPT !.detector = d, !.lastAction = action, !.model = model]
  BY Zenon DEF Responded, Logged
<1>2. /\ AwareParts \subseteq DOMAIN a /\ a.samples \in Nat /\ a.model.count \in Nat
      /\ a.events \in Seq(AwareEvent) /\ Knows(a.model.count, a.samples, a.events)
  BY DEF AwareHolds
<1>3. /\ AwareParts \subseteq DOMAIN logged /\ logged.model = a.model
      /\ logged.samples = a.samples
      /\ logged.events = IF d.level # "none" THEN v ELSE a.events
  <2> HIDE DEF v
  <2> QED
    BY <1>2 DEF AwareParts
<1>4. d.level = "none" => action = "notify_only"
  BY DEF Decide
<1>5. d.level # "none" => e \in AwareEvent
  <2>1. d.level = "warning" => action = WarningAction
    BY DEF Decide
  <2>2. d.level = "drift" => action = DriftAction
    BY DEF Decide
  <2> HIDE DEF action
  <2> QED
    BY <1>2, <2>1, <2>2 DEF AwareEvent
<1>6. model.count = IF action = "reset_model" THEN 0 ELSE a.model.count
  BY <1>3 DEF NewMean
<1>7. e.sample = a.samples /\ e.action = action
  OBVIOUS
<1> HIDE DEF logged, model, b, e, action
<1>8. /\ AwareParts \subseteq DOMAIN b /\ b.detector = d /\ b.samples = a.samples
      /\ b.model = model /\ b.events = logged.events
  BY <1>1, <1>3 DEF AwareParts
<1>9. CASE d.level = "none"
  BY <1>2, <1>3, <1>4, <1>6, <1>8, <1>9 DEF b
<1>10. CASE d.level # "none"
  <2>1. e \in AwareEvent /\ MaxEvents \in Nat \ {0}
    BY <1>5, <1>10, ResponseAssumption
  <2>2. /\ Append(a.events, e) \in Seq(AwareEvent)
        /\ Len(Append(a.events, e)) = Len(a.events) + 1 /\ Len(a.events) \in Nat
    BY <1>2, <2>1
  <2>3. /\ v \in Seq(AwareEvent) /\ Recent(v, Append(a.events, e))
        /\ Len(v) = Lower(MaxEvents, Len(a.events) + 1)
    BY <2>1, <2>2, LastOfFields
  <2>4. Len(v) > 0
    BY <2>1, <2>2, <2>3 DEF Lower
  <2> HIDE DEF v
  <2>5. v # <<>>
    BY <2>4
  <2>6. Knows(model.count, a.samples, v)
    <3>1. e.action = "reset_model" => model.count = a.samples - e.sample
      BY <1>2, <1>6, <1>7
    <3>2. e.action # "reset_model" => Knows(model.count, a.samples, a.events)
      BY <1>2, <1>6, <1>7
    <3> DEFINE n == model.count
    <3> DEFINE s == a.samples
    <3> DEFINE events == a.events
    <3>3. events \in Seq(AwareEvent) /\ Recent(v, Append(events, e))
          /\ (e.action = "reset_model" => n = s - e.sample)
          /\ (e.action # "reset_model" => Knows(n, s, events))
      BY <1>2, <2>3, <3>1, <3>2
    <3> HIDE DEF n, s, events
    <3>4. Knows(n, s, v)
      BY <2>1, <2>3, <2>5, <3>3, LoggedKnows
    <3> QED
      BY <3>4 DEF n, s
  <2> QED
    BY <1>2, <1>3, <1>6, <1>8, <1>10, <2>3, <2>6 DEF b
<1> QED
  BY <1>9, <1>10

LEMMA NewAwareHolds == AwareHolds(NewAware)
<1>1. /\ NewAware.model.count = 0 /\ NewAware.samples = 0 /\ NewAware.detector.samples = 0
      /\ NewAware.events = <<>>
      /\ AwareParts \subseteq DOMAIN NewAware /\ AdwinParts \subseteq DOMAIN NewAware.detector
  BY DEF NewAware, NewMean, NewAdwin, AwareParts, AdwinParts
<1>2. <<>> \in Seq(AwareEvent) /\ Knows(0, 0, <<>>)
  BY DEF Knows
<1> QED
  BY <1>1, <1>2 DEF AwareHolds

\* learn keeps what holds, wherever it gives up.
LEMMA LearnHolds ==
    ASSUME NEW a, AwareHolds(a), NEW x
    PROVE  AwareHolds(AwareLearn(a, x).state)
<1> DEFINE error == FAbs(FSub(x, MeanPrediction(a.model)))
<1> DEFINE detected == AdwinUpdate(a.detector, error)
<1> DEFINE b == Responded(a, detected.state)
<1> DEFINE learned == MeanUpdate(b.model, x)
<1> DEFINE half == [b EXCEPT !.model = learned.state]
<1> DEFINE next == [b EXCEPT !.model = learned.state, !.samples = @ + 1]
<1> DEFINE r == AwareLearn(a, x)
<1>1. \/ ~detected.ok /\ r = [ok |-> FALSE, state |-> a]
      \/ detected.ok /\ ~learned.ok /\ r = [ok |-> FALSE, state |-> b]
      \/ detected.ok /\ learned.ok /\ ~CanCount(a.samples) /\ r = [ok |-> FALSE, state |-> half]
      \/ detected.ok /\ learned.ok /\ CanCount(a.samples) /\ r = [ok |-> TRUE, state |-> next]
  BY Zenon DEF AwareLearn, Done, Refused
<1>2. /\ AdwinParts \subseteq DOMAIN a.detector
      /\ a.samples \in Nat /\ a.detector.samples \in Nat /\ a.samples <= a.detector.samples
      /\ MaxCount \in Nat
  BY FormatAssumption DEF AwareHolds
<1>3. \/ ~detected.ok
      \/ /\ detected.ok /\ CanCount(a.detector.samples)
         /\ AdwinParts \subseteq DOMAIN detected.state
         /\ detected.state.samples = a.detector.samples + 1
         /\ detected.state.level \in {"none", "warning", "drift"}
  <2> HIDE DEF error
  <2> QED
    BY <1>2, AdwinCounts
<1> HIDE DEF error, detected
<1>4. CASE ~detected.ok
  BY <1>1, <1>4
<1>5. CASE detected.ok
  <2>1. /\ CanCount(a.detector.samples)
        /\ AdwinParts \subseteq DOMAIN detected.state
        /\ detected.state.samples = a.detector.samples + 1
        /\ detected.state.level \in {"none", "warning", "drift"}
    BY <1>3, <1>5
  <2> DEFINE d == detected.state
  <2>2. /\ AwareParts \subseteq DOMAIN b
        /\ b.detector = d /\ b.samples = a.samples
        /\ b.model.count \in Nat
        /\ b.events \in Seq(AwareEvent)
        /\ Knows(b.model.count, a.samples, b.events)
    <3>1. d.level \in {"none", "warning", "drift"} /\ b = Responded(a, d)
      BY <2>1
    <3> HIDE DEF d, b
    <3>2. LET c == Responded(a, d)
          IN  /\ AwareParts \subseteq DOMAIN c
              /\ c.detector = d /\ c.samples = a.samples
              /\ c.model.count \in Nat
              /\ c.events \in Seq(AwareEvent)
              /\ Knows(c.model.count, a.samples, c.events)
      BY <3>1, RespondedFields
    <3> QED
      BY <3>1, <3>2
  <2>3. CanCount(a.samples)
    BY <1>2, <2>1 DEF CanCount
  <2> HIDE DEF b, d
  <2>4. ~learned.ok \/ learned.state.count = b.model.count + 1
    BY DEF MeanUpdate, Done, Refused
  <2> HIDE DEF learned
  <2>5. AwareHolds(b)
    BY <1>2, <2>1, <2>2 DEF AwareHolds, d
  <2>6. ASSUME learned.ok
        PROVE  AwareHolds(next)
    <3>1. /\ AwareParts \subseteq DOMAIN next
          /\ next.detector = b.detector /\ next.samples = a.samples + 1
          /\ next.model = learned.state /\ next.events = b.events
      BY <2>2 DEF AwareParts
    <3>2. next.model.count = b.model.count + 1 /\ next.model.count \in Nat
      BY <2>2, <2>4, <2>6, <3>1
    <3>3. Knows(b.model.count + 1, a.samples + 1, b.events)
      <4> DEFINE n == b.model.count
      <4> DEFINE s == a.samples
      <4> DEFINE events == b.events
      <4>1. n \in Nat /\ s \in Nat /\ events \in Seq(AwareEvent) /\ Knows(n, s, events)
        BY <1>2, <2>2
      <4> HIDE DEF n, s, events
      <4> DEFINE m == n + 1
      <4> DEFINE t == s + 1
      <4>2. ASSUME NEW i \in 1..Len(events), IsNewestReset(events, i)
            PROVE  m = t - events[i].sample
        <5>1. events[i].sample \in Nat
          <6>1. events[i] \in AwareEvent
            BY <4>1, <4>2
          <6> QED
            BY <6>1 DEF AwareEvent
        <5>2. n = s - events[i].sample
          BY <4>1, <4>2 DEF Knows
        <5> QED
          BY <4>1, <5>1, <5>2
      <4>3. \A i \in 1..Len(events) : IsNewestReset(events, i) => m = t - events[i].sample
        <5> HIDE DEF m, t
        <5> QED
          BY <4>2
      <4> HIDE DEF m, t
      <4>4. Knows(m, t, events)
        BY <4>3 DEF Knows
      <4> QED
        BY <4>4 DEF m, t, n, s, events
    <3> HIDE DEF next
    <3> QED
      BY <1>2, <2>1, <2>2, <3>1, <3>2, <3>3 DEF AwareHolds, d
  <2> HIDE DEF r, half, next
  <2>7. \/ r = [ok |-> FALSE, state |-> b]
        \/ learned.ok /\ r = [ok |-> TRUE, state |-> next]
    BY <1>1, <1>5, <2>3
  <2>8. AwareHolds(r.state)
    BY <2>5, <2>6, <2>7
  <2> QED
    BY <2>8 DEF r
<1> QED
  BY <1>4, <1>5

AwareInv == stream.kind = "aware" => AwareHolds(object)

LEMMA NewOfAware == New("aware") = NewAware
<1>1. "aware" \notin DOMAIN Cells
  BY DEF Cells
<1> QED
  BY <1>1 DEF New

LEMMA AwareInit == MonitoringInit => AwareInv
BY NewOfAware, NewAwareHolds DEF MonitoringInit, AwareInv

LEMMA AwareStep == AwareInv /\ [MonitoringNext]_vars => AwareInv'
<1> SUFFICES ASSUME AwareInv, [MonitoringNext]_vars, stream'.kind = "aware"
             PROVE  AwareHolds(object')
  BY DEF AwareInv
<1>1. stream.kind = "aware" /\ AwareHolds(object)
  BY StreamStays DEF AwareInv
<1>2. CASE UNCHANGED <<object, log>>
  BY <1>1, <1>2
<1>3. CASE object' = IF stream.kind = "ring" THEN RingReset(object) ELSE New(stream.kind)
  BY <1>1, <1>3, NewOfAware, NewAwareHolds
<1>4. CASE \E input \in stream.inputs : Took(Take(stream.kind, object, input), input)
  <2>1. PICK input \in stream.inputs : Took(Take(stream.kind, object, input), input)
    BY <1>4
  <2>2. Take("aware", object, input) = TakeNumber("aware", object, input)
    BY DEF Take, Pairs, Weighed, Cells
  <2>3. TakeNumber("aware", object, input) = AwareLearn(object, input)
    BY DEF TakeNumber
  <2>4. object' = AwareLearn(object, input).state
    BY <1>1, <2>1, <2>2, <2>3 DEF Took
  <2> QED
    BY <1>1, <2>4, LearnHolds
<1>5. stream.kind \notin {"warmup", "reporter"} /\ stream.kind # "selector"
  BY <1>1
<1> QED
  BY <1>2, <1>3, <1>4, <1>5, CallSteps

LEMMA AwareInvHolds == MonitoringSpec => []AwareInv
<1> QED
  BY AwareInit, AwareStep, PTL DEF MonitoringSpec

\* ModelLearnsSinceReset: the model has learned what came since the newest reset
\* that the event log tells of, whichever calls were refused halfway and
\* whichever events were forgotten.
THEOREM AwareModelLearnsSinceReset == MonitoringSpec => []ModelLearnsSinceReset
<1>1. AwareInv => ModelLearnsSinceReset
  <2> DEFINE resets == {i \in DOMAIN object.events : object.events[i].action = "reset_model"}
  <2> SUFFICES ASSUME AwareInv, stream.kind = "aware", resets # {}
               PROVE  object.model.count = object.samples - object.events[Max(resets)].sample
    BY DEF ModelLearnsSinceReset
  <2>1. /\ object.events \in Seq(AwareEvent)
        /\ Knows(object.model.count, object.samples, object.events)
    BY DEF AwareInv, AwareHolds
  <2>2. Len(object.events) \in Nat /\ DOMAIN object.events = 1..Len(object.events)
    BY <2>1
  <2> DEFINE top == Max(resets)
  <2>3. top \in resets /\ \A y \in resets : top >= y
    <3>1. resets \in SUBSET (0..Len(object.events))
      BY <2>2
    <3> HIDE DEF resets
    <3>2. \E x \in resets : \A y \in resets : x >= y
      BY <2>2, <3>1, GreatestOf
    <3> QED
      BY <3>2 DEF Max
  <2> HIDE DEF top
  <2>4. IsNewestReset(object.events, top)
    <3>1. ASSUME NEW j \in (top + 1)..Len(object.events)
          PROVE  object.events[j].action # "reset_model"
      <4>1. j \in 1..Len(object.events) /\ ~(top >= j)
        BY <2>2, <2>3
      <4> QED
        BY <2>2, <2>3, <4>1
    <3> QED
      BY <2>3, <3>1 DEF IsNewestReset
  <2>5. top \in 1..Len(object.events)
    BY <2>2, <2>3
  <2> QED
    BY <2>1, <2>4, <2>5 DEF Knows, top
<1> QED
  BY <1>1, AwareInvHolds, PTL
=============================================================================
