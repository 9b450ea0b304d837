--------------------------- MODULE DriftConsensus ---------------------------
(***************************************************************************)
(* DriftConsensus (src/drift/consensus.rs): the levels of several          *)
(* detectors, window by window, combined into one level that changes only  *)
(* after confirmation, and into events that are merged and spaced out.     *)
(*                                                                         *)
(* `update` works on a clone that it drops on an error, so an update is a  *)
(* function of the state: what it returns is the new state or a refusal.   *)
(* Detectors are numbers, in the order in which the code sorts their names.*)
(***************************************************************************)
EXTENDS Integers, Sequences, FiniteSets, FiniteSetsExt

CONSTANTS
    MaxWindows,     \* u64::MAX, for the counters of windows and events
    MinWarning,     \* minimum_warning_votes
    MinDrift,       \* minimum_drift_votes
    Confirmation,   \* confirmation_windows
    Clearing,       \* clear_windows
    Cooldown,       \* cooldown_windows
    MergeHorizon,   \* event_merge_horizon
    Warming,        \* warming_windows
    MaxDetectors,   \* max_detectors
    NoGeneration,   \* no window seen yet
    NoEvent         \* no event recorded yet

ASSUME ConsensusAssumption ==
    /\ {MinWarning, MinDrift, MaxDetectors, Confirmation, Clearing, MaxWindows}
         \subseteq Nat \ {0}
    /\ MinWarning <= MinDrift /\ MinDrift <= MaxDetectors
    /\ {Cooldown, MergeHorizon, Warming} \subseteq Nat

Levels == {"none", "warning", "drift"}

\* level_rank
Rank == [none |-> 0, warning |-> 1, drift |-> 2]

NewConsensus ==
    [windows |-> 0, generationWindows |-> 0, generation |-> NoGeneration, level |-> "none",
     warningStreak |-> 0, driftStreak |-> 0, clearStreak |-> 0, cooldown |-> 0,
     nextEvent |-> 1, event |-> NoEvent]

-----------------------------------------------------------------------------
(* Votes and events.                                                       *)

DriftVote == [detector: Nat, level: Levels, available: BOOLEAN]

\* DriftEventSummary, of one of the generations G.
EventSummary(G) ==
    [id: Nat, first: Nat, last: Nat, peak: Levels, detectors: SUBSET Nat, occurrences: Nat,
     generation: G]

VoteIsValid(vote) == vote.available \/ vote.level = "none"

VotesAreValid(votes) ==
    /\ Len(votes) <= MaxDetectors
    /\ \A i \in DOMAIN votes : VoteIsValid(votes[i])
    /\ \A i, j \in DOMAIN votes : votes[i].detector = votes[j].detector => i = j

Voting(votes, levels) ==
    {votes[i].detector : i \in {j \in DOMAIN votes : votes[j].available /\ votes[j].level \in levels}}

Available(votes) == Voting(votes, Levels)
Triggered(votes) == Voting(votes, {"warning", "drift"})
Drifting(votes) == Voting(votes, {"drift"})

\* Whether too few detectors have data for the window to count.
Incomplete(votes) == Cardinality(Available(votes)) < MinWarning

\* The level a complete window votes for.
Candidate(votes) ==
    IF Cardinality(Drifting(votes)) >= MinDrift THEN "drift"
    ELSE IF Cardinality(Triggered(votes)) >= MinWarning THEN "warning"
    ELSE "none"

-----------------------------------------------------------------------------
(* One window.                                                             *)

GenerationChanges(c, generation) ==
    c.generation # NoGeneration /\ c.generation # generation

\* The state of a generation that has just begun.
NewGeneration(c) ==
    [c EXCEPT !.generationWindows = 0, !.level = "none", !.warningStreak = 0,
              !.driftStreak = 0, !.clearStreak = 0, !.cooldown = 0]

\* The first part of update_inner: count the window, reset what another
\* generation left behind. The cooldown is read before it is counted down.
Begun(c, generation) == IF GenerationChanges(c, generation) THEN NewGeneration(c) ELSE c

Entered(c, generation) ==
    [Begun(c, generation) EXCEPT
        !.generation = generation, !.windows = @ + 1, !.generationWindows = @ + 1,
        !.cooldown = IF @ > 0 THEN @ - 1 ELSE 0]

\* The n detectors whose names come first.
FirstDetectors(D, n) == {d \in D : Cardinality({e \in D : e < d}) < n}

CanMerge(c) ==
    /\ c.event # NoEvent
    /\ c.event.generation = c.generation
    /\ c.windows - c.event.last <= MergeHorizon

MergedEvent(c, level, detectors) ==
    [c.event EXCEPT
        !.last = c.windows, !.occurrences = @ + 1,
        !.peak = IF Rank[level] > Rank[@] THEN level ELSE @,
        !.detectors = FirstDetectors(@ \cup detectors, MaxDetectors)]

NewEvent(c, level, detectors) ==
    [id |-> c.nextEvent, first |-> c.windows, last |-> c.windows, peak |-> level,
     detectors |-> FirstDetectors(detectors, MaxDetectors), occurrences |-> 1,
     generation |-> c.generation]

\* record_event: extend the last event or begin one.
Recorded(c, level, detectors) ==
    IF CanMerge(c)
    THEN [c EXCEPT !.event = MergedEvent(c, level, detectors), !.cooldown = Cooldown]
    ELSE [c EXCEPT !.event = NewEvent(c, level, detectors), !.cooldown = Cooldown,
                   !.nextEvent = @ + 1]

\* A level has been confirmed; an event is recorded unless one is too recent.
Confirmed(c, level, votes, eventAllowed) ==
    LET raised == [c EXCEPT !.level = level]
    IN  IF eventAllowed THEN Recorded(raised, level, Triggered(votes)) ELSE raised

\* Defect: drift is recorded when it is confirmed, or never.
DriftWindowOnce(c, votes, eventAllowed) ==
    LET s == [c EXCEPT !.clearStreak = 0, !.warningStreak = 0, !.driftStreak = @ + 1]
    IN  IF s.driftStreak >= Confirmation /\ s.level # "drift"
        THEN Confirmed(s, "drift", votes, eventAllowed)
        ELSE s

DriftWindow(c, votes, eventAllowed) ==
    LET s == [c EXCEPT !.clearStreak = 0, !.warningStreak = 0, !.driftStreak = @ + 1]
    IN  IF /\ s.driftStreak >= Confirmation
           /\ s.level # "drift" \/ s.driftStreak % Confirmation = 0
        THEN Confirmed(s, "drift", votes, eventAllowed)
        ELSE s

\* Defect: a warning does not end a streak of drift.
WarningWindowKeepsDrift(c, votes, eventAllowed) ==
    LET s == [c EXCEPT !.clearStreak = 0, !.warningStreak = @ + 1]
    IN  IF s.level = "none" /\ s.warningStreak >= Confirmation
        THEN Confirmed(s, "warning", votes, eventAllowed)
        ELSE s

WarningWindow(c, votes, eventAllowed) ==
    LET s == [c EXCEPT !.clearStreak = 0, !.driftStreak = 0, !.warningStreak = @ + 1]
    IN  IF s.level = "none" /\ s.warningStreak >= Confirmation
        THEN Confirmed(s, "warning", votes, eventAllowed)
        ELSE s

StableWindow(c) ==
    LET s == [c EXCEPT !.warningStreak = 0, !.driftStreak = 0, !.clearStreak = @ + 1]
    IN  IF s.level # "none" /\ s.clearStreak >= Clearing
        THEN [s EXCEPT !.level = "none", !.clearStreak = 0]
        ELSE s

\* A window that is warming or incomplete ends every streak but the clear one.
SkippedWindow(c) == [c EXCEPT !.warningStreak = 0, !.driftStreak = 0]

\* Defect: the cooldown is read after it was counted down.
WindowAppliedEarly(c, votes, generation) ==
    LET s            == Entered(c, generation)
        eventAllowed == s.cooldown = 0
    IN  IF s.generationWindows <= Warming \/ Incomplete(votes) THEN SkippedWindow(s)
        ELSE CASE Candidate(votes) = "drift"   -> DriftWindow(s, votes, eventAllowed)
               [] Candidate(votes) = "warning" -> WarningWindow(s, votes, eventAllowed)
               [] Candidate(votes) = "none"    -> StableWindow(s)

WindowApplied(c, votes, generation) ==
    LET s            == Entered(c, generation)
        eventAllowed == Begun(c, generation).cooldown = 0
    IN  IF s.generationWindows <= Warming \/ Incomplete(votes) THEN SkippedWindow(s)
        ELSE CASE Candidate(votes) = "drift"   -> DriftWindow(s, votes, eventAllowed)
               [] Candidate(votes) = "warning" -> WarningWindow(s, votes, eventAllowed)
               [] Candidate(votes) = "none"    -> StableWindow(s)

\* An update is refused for its votes and when a counter is used up.
ConsensusUpdate(c, votes, generation) ==
    LET next == WindowApplied(c, votes, generation)
    IN  IF VotesAreValid(votes) /\ c.windows < MaxWindows /\ next.nextEvent <= MaxWindows
        THEN [ok |-> TRUE, state |-> next]
        ELSE [ok |-> FALSE, state |-> c]

-----------------------------------------------------------------------------
(* validate_state: what a restore demands of a persisted consensus.        *)

EventIsConsistent(c) ==
    /\ c.event.id < c.nextEvent
    /\ 0 < c.event.first /\ c.event.first <= c.event.last /\ c.event.last <= c.windows
    /\ c.event.occurrences > 0 /\ c.event.peak # "none"
    /\ Cardinality(c.event.detectors) <= MaxDetectors

ConsensusIsValid(c) ==
    /\ c.generationWindows <= c.windows
    /\ \A streak \in {c.warningStreak, c.driftStreak, c.clearStreak} : streak <= c.generationWindows
    /\ c.cooldown <= Cooldown /\ c.nextEvent # 0
    /\ c.generation = NoGeneration => c.generationWindows = 0
    /\ c.event # NoEvent => EventIsConsistent(c)
=============================================================================
