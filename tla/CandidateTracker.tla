-------------------------- MODULE CandidateTracker --------------------------
(***************************************************************************)
(* The candidateTracker of chromewindowtracking/service.go: which of the   *)
(* windows that were not there before the launch is the one to place.  A   *)
(* window stands for its key (handle, process ID, process start time), a   *)
(* snapshot is a set of windows.  observe is one call of one goroutine,    *)
(* hence one step.                                                         *)
(***************************************************************************)
EXTENDS Integers, FiniteSetsExt

CONSTANT Windows

VARIABLES
    baseline,          \* windows of the snapshot taken before the launch
    firstSeen,         \* firstSeenGeneration; its domain is observed
    candidates,        \* current: the new windows of the last snapshot
    generation,        \* snapshots observed so far
    lastDisappeared,   \* lastDisappearedGeneration
    replaced,          \* replacementObserved
    concurrent         \* concurrentCandidatesObserved

trackerVars == <<baseline, firstSeen, candidates, generation,
                 lastDisappeared, replaced, concurrent>>

observed == DOMAIN firstSeen

TrackerTypeOK ==
    /\ baseline \subseteq Windows
    /\ candidates \subseteq Windows
    /\ generation \in Nat
    /\ lastDisappeared \in Nat
    /\ replaced \in BOOLEAN
    /\ concurrent \in BOOLEAN
    /\ observed \subseteq Windows
    /\ \A w \in observed : firstSeen[w] \in Nat

NewTracker(before) ==
    /\ baseline' = before
    /\ firstSeen' = [w \in {} |-> 0]
    /\ candidates' = {}
    /\ generation' = 0
    /\ lastDisappeared' = 0
    /\ replaced' = FALSE
    /\ concurrent' = FALSE

(* Mutant: what disappears now is compared with nothing that went before.  *)
LatestOfThese(gone) ==
    IF gone = {} THEN lastDisappeared ELSE Max({firstSeen[w] : w \in gone})

(***************************************************************************)
(* lastDisappearedGeneration only grows: it is the largest first-seen      *)
(* number of any candidate that has gone.                                  *)
(***************************************************************************)
LatestOf(gone) == Max({firstSeen[w] : w \in gone} \cup {lastDisappeared})

(* A candidate that came after every candidate that has gone.              *)
IsReplacement(seen, last) == last > 0 /\ seen > last

New(snapshot) == snapshot \ baseline

Observe(snapshot) ==
    /\ generation' = generation + 1
    /\ candidates' = New(snapshot)
    /\ firstSeen' = [w \in observed \cup New(snapshot) |->
                        IF w \in observed THEN firstSeen[w] ELSE generation + 1]
    /\ concurrent' = (concurrent \/ Cardinality(New(snapshot)) > 1)
    /\ lastDisappeared' = LatestOf(candidates \ New(snapshot))
    /\ replaced' = (replaced \/ \E w \in New(snapshot) :
                        IsReplacement(firstSeen'[w], lastDisappeared'))
    /\ UNCHANGED baseline

(* Mutant: the choice does not wait for the other candidates to go.        *)
IsChoiceAmongMany(w) == replaced /\ w \in candidates

(* What observe returns: the one candidate left after a replacement.       *)
IsChoice(w) == replaced /\ candidates = {w}

(* timeoutResult: why no choice was made in time.                          *)
TimeoutOutcome ==
    CASE candidates = {} /\ observed # {} -> "candidate_lost"
      [] candidates # {} /\ concurrent -> "ambiguous"
      [] OTHER -> "timed_out"

-----------------------------------------------------------------------------
(***************************************************************************)
(* The bookkeeping is about candidates only, never about a window of the   *)
(* baseline: lastDisappeared is the first-seen number of one, and a        *)
(* replacement has a larger one (service.go:133-174).                      *)
(***************************************************************************)
TrackerInvariant ==
    /\ TrackerTypeOK
    /\ observed \cap baseline = {}
    /\ candidates \subseteq observed
    /\ \A w \in observed : firstSeen[w] \in 1 .. generation
    /\ lastDisappeared > 0 => \E w \in observed : firstSeen[w] = lastDisappeared
    /\ replaced => \E v, w \in observed : firstSeen[v] < firstSeen[w]
=============================================================================
