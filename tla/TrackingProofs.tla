--------------------------- MODULE TrackingProofs ---------------------------
(***************************************************************************)
(* Theorems about WindowTracking for every set of windows and any number   *)
(* of snapshots, and about the tracker alone, whatever snapshots it is     *)
(* given (TrackerHistory).                                                 *)
(***************************************************************************)
EXTENDS WindowTracking, TrackerHistory, FiniteSetTheorems, TLAPS

(***************************************************************************)
(* The sets of first-seen numbers have largest elements.  It is an         *)
(* invariant like the others: each snapshot adds one number.               *)
(***************************************************************************)
MaximaExist ==
    \A S \in SUBSET (0 .. generation) :
        S # {} => \E n \in S : \A m \in S : n >= m

(* A session has a result only once Wait has been entered or refused.      *)
ResultsAreEarned ==
    /\ session \notin {"close", "idle"} => tracked = NoResult
    /\ ~used /\ ~closed => tracked = NoResult
    /\ ~used => generation = 0
    /\ session \in Waiting => used /\ ~closed
    /\ session \in {"none", "baseline", "hook", "refused"} =>
           ~used /\ ~closed /\ observation = "none"
    /\ session = "idle" => observation # "none"

(* Next tells truly how the context has ended, and what is acted upon was  *)
(* all seen before that.                                                   *)
EventsAgree ==
    /\ event.type = "cancelled" => ctx = "canceled"
    /\ event.type = "timed_out" => ctx = "deadline"
    /\ event.late => ctx # "live"
    /\ session = "act" => ~event.late

(***************************************************************************)
(* A window that has been open all along is in the baseline, or its turn   *)
(* is still to come.  While snapshots are made, the event is one.          *)
(***************************************************************************)
OldWindowsAreKnown ==
    /\ session = "baseline" => stayed \subseteq unseen \cup event.snapshot
    /\ session \notin {"none", "baseline", "refused"} => stayed \subseteq baseline
    /\ session \in {"baseline", "scan"} => event.type = "snapshot"

TrackingInvariant ==
    /\ TypeOK
    /\ TrackerInvariant
    /\ MaximaExist
    /\ ResultsAreEarned
    /\ EventsAgree
    /\ ResultAgreesWithContext
    /\ WaitReleasesObservation
    /\ ChosenWindowReplacedAnother
    /\ OldWindowsAreKnown

-----------------------------------------------------------------------------
(***************************************************************************)
(* The tracker.                                                            *)
(***************************************************************************)

(* LatestOf is the number of a window that has gone, and bounded by the    *)
(* snapshots taken.                                                        *)
LEMMA LatestIsKnown ==
    ASSUME TrackerInvariant, MaximaExist, NEW gone \in SUBSET observed
    PROVE  /\ LatestOf(gone) \in 0 .. generation
           /\ LatestOf(gone) > 0 =>
                  \E w \in observed : firstSeen[w] = LatestOf(gone)
<1> DEFINE numbers == {firstSeen[w] : w \in gone} \cup {lastDisappeared}
<1> USE DEF TrackerInvariant, TrackerTypeOK, observed
<1>1. \A w \in gone : firstSeen[w] \in 0 .. generation
  OBVIOUS
<1>2. lastDisappeared \in 0 .. generation
  OBVIOUS
<1>3. numbers \in SUBSET (0 .. generation) /\ numbers # {}
  BY <1>1, <1>2
<1>4. \E n \in numbers : \A m \in numbers : n >= m
  BY <1>3 DEF MaximaExist
<1>5. Max(numbers) \in numbers
  BY <1>4 DEF Max
<1>6. LatestOf(gone) = Max(numbers)
  BY DEF LatestOf
<1>7. QED
  BY <1>3, <1>5, <1>6

LEMMA ObserveKeepsInvariant ==
    ASSUME TrackerInvariant, MaximaExist,
           NEW snapshot \in SUBSET Windows, Observe(snapshot)
    PROVE  TrackerInvariant' /\ MaximaExist'
<1> DEFINE new == New(snapshot)
<1>1. new \subseteq Windows /\ new \cap baseline = {} /\ baseline' = baseline
  BY DEF New, Observe
<1>2. generation \in Nat /\ generation' = generation + 1
  BY DEF Observe, TrackerInvariant, TrackerTypeOK
<1>3. observed' = observed \cup new
  BY DEF Observe, observed
<1>4. \A w \in observed' : firstSeen'[w] = IF w \in observed THEN firstSeen[w]
                                                             ELSE generation + 1
  BY <1>3 DEF Observe, observed
<1>5. candidates' = new
  BY DEF Observe
<1>6. /\ lastDisappeared' \in 0 .. generation
      /\ lastDisappeared' > 0 => \E w \in observed : firstSeen[w] = lastDisappeared'
  <2>1. candidates \ new \in SUBSET observed
    BY DEF TrackerInvariant
  <2>2. lastDisappeared' = LatestOf(candidates \ new)
    BY DEF Observe
  <2>3. QED
    BY <2>1, <2>2, LatestIsKnown
<1>7. \A w \in observed : firstSeen[w] \in 1 .. generation
  BY DEF TrackerInvariant
<1>8. \A w \in observed' : firstSeen'[w] \in 1 .. generation'
  BY <1>2, <1>4, <1>7
<1>9. lastDisappeared' > 0 => \E w \in observed' : firstSeen'[w] = lastDisappeared'
  BY <1>3, <1>4, <1>6
<1>10. replaced' => \E v, w \in observed' : firstSeen'[v] < firstSeen'[w]
  <2>1. CASE replaced
    BY <2>1, <1>3, <1>4 DEF TrackerInvariant
  <2>2. ASSUME NEW w \in new, IsReplacement(firstSeen'[w], lastDisappeared')
        PROVE  \E v \in observed' : firstSeen'[v] < firstSeen'[w]
    BY <2>2, <1>6, <1>8, <1>9 DEF IsReplacement
  <2>3. QED
    BY <2>1, <2>2, <1>3 DEF Observe
<1>11. TrackerTypeOK'
  <2>1. replaced' \in BOOLEAN /\ concurrent' \in BOOLEAN
    BY DEF Observe, TrackerInvariant, TrackerTypeOK
  <2>2. baseline' \subseteq Windows /\ observed' \subseteq Windows
    BY <1>1, <1>3 DEF TrackerInvariant, TrackerTypeOK
  <2>3. QED
    BY <2>1, <2>2, <1>1, <1>2, <1>5, <1>6, <1>8 DEF TrackerTypeOK
<1>12. TrackerInvariant'
  BY <1>1, <1>3, <1>5, <1>8, <1>9, <1>10, <1>11 DEF TrackerInvariant
<1>13. MaximaExist'
  <2> SUFFICES ASSUME NEW S \in SUBSET (0 .. generation + 1), S # {}
               PROVE  \E n \in S : \A m \in S : n >= m
    BY <1>2 DEF MaximaExist
  <2>1. CASE generation + 1 \in S
    BY <2>1, <1>2
  <2>2. CASE generation + 1 \notin S
    <3>1. S \in SUBSET (0 .. generation)
      BY <2>2, <1>2
    <3>2. QED
      BY <3>1 DEF MaximaExist
  <2>3. QED
    BY <2>1, <2>2
<1>14. QED
  BY <1>12, <1>13

(* A new tracker has seen nothing.                                         *)
LEMMA MaximaBelowOne ==
    ASSUME NEW S \in SUBSET (0 .. 0), S # {}
    PROVE  \E n \in S : \A m \in S : n >= m
<1>1. \A m \in S : m = 0
  OBVIOUS
<1>2. PICK n \in S : TRUE
  OBVIOUS
<1>3. \A m \in S : n >= m
  BY <1>1
<1>4. QED
  BY <1>3

LEMMA InitialTracker ==
    ASSUME Init
    PROVE  TrackerInvariant /\ MaximaExist
<1>1. observed = {}
  BY DEF Init, observed
<1>2. TrackerTypeOK
  BY <1>1 DEF Init, TrackerTypeOK
<1>3. TrackerInvariant
  BY <1>1, <1>2 DEF Init, TrackerInvariant
<1>4. MaximaExist
  BY MaximaBelowOne DEF Init, MaximaExist
<1>5. QED
  BY <1>3, <1>4

LEMMA NewTrackerInvariant ==
    ASSUME NEW before \in SUBSET Windows, NewTracker(before)
    PROVE  TrackerInvariant' /\ MaximaExist'
<1>1. observed' = {}
  BY DEF NewTracker, observed
<1>2. TrackerTypeOK'
  BY <1>1 DEF NewTracker, TrackerTypeOK
<1>3. TrackerInvariant'
  BY <1>1, <1>2 DEF NewTracker, TrackerInvariant
<1>4. MaximaExist'
  BY MaximaBelowOne DEF NewTracker, MaximaExist
<1>5. QED
  BY <1>3, <1>4

-----------------------------------------------------------------------------
(***************************************************************************)
(* The session, one lemma per part of the invariant.                       *)
(***************************************************************************)

(* The steps that leave the tracker alone.                                 *)
Steady == UNCHANGED trackerVars

(* A failure to close, and a refused Wait, choose nothing.                 *)
LEMMA FailedChoosesNothing ==
    /\ Failed.outcome = "failed" /\ NoResult.outcome = "none"
    /\ \A outcome : ResultOf(outcome).outcome = outcome
BY DEF Failed, ResultOf, NoResult

LEMMA TrackerStep ==
    ASSUME TrackingInvariant, Next
    PROVE  \/ Steady /\ (tracked' = tracked \/ tracked'.outcome # "completed")
           \/ TakeBaseline
           \/ HandleSnapshot
<1>1. CASE World \/ Wait \/ Close \/ Look("loop", "next") \/ Look("handle", "act")
           \/ NextNotification \/ NextTick \/ NextFailure \/ NextContext
  BY <1>1 DEF World, WindowsChange, DispatchWinEvent, HookFails, ContextEnds,
              Wait, Close, Look, NextNotification, NextTick, NextFailure,
              NextContext, StartScan, Deliver, Steady, sessionVars
<1>2. CASE StartBaseline \/ InspectWindow("baseline") \/ StartHook \/ BeginFails
  BY <1>2 DEF StartBaseline, InspectWindow, StartHook, BeginFails, Steady
<1>7. CASE InspectWindow("scan") \/ ScanEnds \/ ScanFails
  BY <1>7 DEF InspectWindow, ScanEnds, ScanFails, Steady
<1>3. CASE WaitRefused \/ CloseAfterWait
  BY <1>3, FailedChoosesNothing DEF WaitRefused, CloseAfterWait, Steady
<1>4. CASE HandleContext("loop") \/ HandleContext("handle")
  BY <1>4, FailedChoosesNothing DEF HandleContext, Settle, ContextOutcome, Steady
<1>5. CASE HandleOther
  BY <1>5, FailedChoosesNothing
     DEF HandleOther, Settle, EventOutcome, TimeoutOutcome, Steady
<1>6. QED
  BY <1>1, <1>2, <1>3, <1>4, <1>5, <1>7 DEF Next, Begin, SessionStep

LEMMA TrackerPart ==
    ASSUME TrackingInvariant, [Next]_trackingVars
    PROVE  TrackerInvariant' /\ MaximaExist'
<1>1. CASE Steady
  BY <1>1 DEF Steady, trackerVars, TrackingInvariant, TrackerInvariant,
              TrackerTypeOK, MaximaExist, observed
<1>2. CASE TakeBaseline
  <2>1. event.snapshot \in SUBSET Windows
    BY <1>2 DEF TakeBaseline, TrackingInvariant, TypeOK, NoEvent, EventOf, Events
  <2>2. QED
    BY <1>2, <2>1, NewTrackerInvariant DEF TakeBaseline
<1>3. CASE HandleSnapshot
  <2>1. event.snapshot \in SUBSET Windows
    BY <1>3 DEF HandleSnapshot, Handle, TrackingInvariant, TypeOK, NoEvent,
                EventOf, Events
  <2>2. QED
    BY <1>3, <2>1, ObserveKeepsInvariant DEF HandleSnapshot, TrackingInvariant
<1>4. CASE UNCHANGED trackingVars
  BY <1>1, <1>4 DEF trackingVars, Steady
<1>5. QED
  BY <1>1, <1>2, <1>3, <1>4, TrackerStep

LEMMA ResultTypes ==
    /\ \A outcome \in TrackingOutcomes : ResultOf(outcome) \in Results
    /\ \A w \in Windows : [outcome |-> "completed", window |-> w] \in Results
    /\ Failed \in Results
    /\ ContextOutcome(ctx) \in TrackingOutcomes
    /\ EventOutcome \in TrackingOutcomes
BY DEF Results, ResultOf, TrackingOutcomes, NoWindow, Failed, ContextOutcome,
       EventOutcome, TimeoutOutcome

LEMMA EventsAreTyped ==
    /\ EventOf("snapshot") \in Events
    /\ FailedEvent \in Events
    /\ EventOf(ContextOutcome(ctx)) \in Events
BY DEF FailedEvent, EventOf, Events, EventTypes, ContextOutcome

(* What one look at a window adds to the event.                            *)
LEMMA LookedAt ==
    ASSUME TrackingInvariant,
           InspectWindow("baseline") \/ InspectWindow("scan")
    PROVE  /\ event' \in Events /\ event'.type = "snapshot"
           /\ event'.late => event.late \/ ctx # "live"
           /\ \E w \in unseen : /\ unseen' = unseen \ {w}
                                /\ event'.snapshot = event.snapshot \cup (live \cap {w})
<1>1. PICK w \in unseen :
          /\ unseen' = unseen \ {w}
          /\ event' = After(live \cap {w})
  BY DEF InspectWindow
<1>2. event.type = "snapshot" /\ event \in Events
  <2>1. session \in {"baseline", "scan"}
    BY DEF InspectWindow
  <2>2. event.type = "snapshot"
    BY <2>1 DEF TrackingInvariant, OldWindowsAreKnown
  <2>3. NoEvent.type = "none"
    BY DEF NoEvent, EventOf
  <2>4. QED
    BY <2>2, <2>3 DEF TrackingInvariant, TypeOK
<1>3. /\ event'.type = "snapshot"
      /\ event'.snapshot = event.snapshot \cup (live \cap {w})
      /\ event'.late = (event.late \/ ctx # "live")
  BY <1>1, <1>2 DEF Events, After
<1>4. event' \in Events
  <2>1. live \subseteq Windows /\ event.snapshot \subseteq Windows
    BY <1>2 DEF TrackingInvariant, TypeOK, Events
  <2>2. (event.late \/ ctx # "live") \in BOOLEAN
    BY <1>2 DEF Events
  <2>3. QED
    BY <1>1, <1>2, <2>1, <2>2 DEF Events, After
<1>5. QED
  BY <1>1, <1>3, <1>4

LEMMA TypePart ==
    ASSUME TrackingInvariant, [Next]_trackingVars, TrackerInvariant'
    PROVE  TypeOK'
<1> USE DEF TrackingInvariant, TypeOK
<1>1. TrackerTypeOK'
  BY DEF TrackerInvariant
<1>2. CASE World
  <2>1. CASE WindowsChange
    <3>1. live' \subseteq Windows /\ stayed' \subseteq live'
      BY <2>1 DEF WindowsChange
    <3>2. QED
      BY <1>1, <2>1, <3>1 DEF WindowsChange, hookVars, sessionVars
  <2>2. CASE DispatchWinEvent \/ HookFails
    BY <1>1, <2>2 DEF DispatchWinEvent, HookFails, worldVars, sessionVars
  <2>3. CASE ContextEnds
    BY <1>1, <2>3 DEF ContextEnds, hookVars, sessionVars, Contexts
  <2>4. QED
    BY <1>2, <2>1, <2>2, <2>3 DEF World
<1>3. CASE StartBaseline \/ TakeBaseline \/ StartHook \/ BeginFails
  BY <1>1, <1>3, EventsAreTyped
     DEF StartBaseline, Enumerate, TakeBaseline, StartHook, BeginFails, hookVars,
         worldVars
<1>12. CASE InspectWindow("baseline") \/ InspectWindow("scan")
  <2>1. event' \in Events /\ unseen' \subseteq Windows
    BY <1>12, LookedAt
  <2>2. QED
    BY <1>1, <1>12, <2>1 DEF InspectWindow, hookVars, worldVars
<1>13. CASE ScanEnds \/ ScanFails
  BY <1>1, <1>13, EventsAreTyped DEF ScanEnds, ScanFails, hookVars, worldVars
<1>10. CASE Wait \/ Close \/ Look("loop", "next") \/ Look("handle", "act")
  BY <1>1, <1>10 DEF Wait, Close, CloseObservation, Look, hookVars, worldVars
<1>4. CASE WaitRefused
  BY <1>1, <1>4, ResultTypes DEF WaitRefused, hookVars, worldVars
<1>5. CASE NextNotification \/ NextTick
  BY <1>1, <1>5, EventsAreTyped DEF NextNotification, NextTick, StartScan,
                                    Enumerate, worldVars
<1>14. CASE NextFailure \/ NextContext
  BY <1>1, <1>14, EventsAreTyped DEF NextFailure, NextContext, Deliver, worldVars
<1>6. CASE HandleContext("loop") \/ HandleContext("handle") \/ HandleOther
  BY <1>1, <1>6, ResultTypes DEF HandleContext, HandleOther, Handle, Settle,
                                 hookVars, worldVars
<1>7. CASE HandleSnapshot
  BY <1>1, <1>7, ResultTypes DEF HandleSnapshot, Handle, Choose, Settle,
                                 hookVars, worldVars
<1>8. CASE CloseAfterWait
  BY <1>1, <1>8, ResultTypes DEF CloseAfterWait, CloseObservation, worldVars
<1>9. CASE UNCHANGED trackingVars
  BY <1>1, <1>9 DEF trackingVars, worldVars, hookVars, sessionVars
<1>11. QED
  BY <1>2, <1>3, <1>4, <1>5, <1>6, <1>7, <1>8, <1>9, <1>10, <1>12, <1>13, <1>14
     DEF Next, Begin, SessionStep

LEMMA EarnedPart ==
    ASSUME TrackingInvariant, [Next]_trackingVars
    PROVE  ResultsAreEarned' /\ WaitReleasesObservation'
<1> USE DEF TrackingInvariant, TypeOK, ResultsAreEarned, WaitReleasesObservation,
            Waiting, worldVars, trackerVars
<1>1. CASE World
  BY <1>1 DEF World, WindowsChange, DispatchWinEvent, HookFails, ContextEnds,
              hookVars, sessionVars
<1>2. CASE Begin
  <2>1. CASE StartBaseline \/ InspectWindow("baseline")
    BY <2>1 DEF StartBaseline, InspectWindow, hookVars
  <2>2. CASE TakeBaseline
    BY <2>2 DEF TakeBaseline, NewTracker, hookVars
  <2>3. CASE StartHook \/ BeginFails
    BY <2>3 DEF StartHook, BeginFails, hookVars
  <2>4. QED
    BY <1>2, <2>1, <2>2, <2>3 DEF Begin
<1>3. CASE Wait \/ WaitRefused \/ Close \/ Look("loop", "next") \/ Look("handle", "act")
  <2>1. CASE Wait
    BY <2>1 DEF Wait, hookVars
  <2>2. CASE WaitRefused
    BY <2>2 DEF WaitRefused, hookVars
  <2>3. CASE Close
    BY <2>3 DEF Close, CloseObservation
  <2>4. CASE Look("loop", "next") \/ Look("handle", "act")
    BY <2>4 DEF Look, hookVars
  <2>5. QED
    BY <1>3, <2>1, <2>2, <2>3, <2>4
<1>4. CASE NextNotification \/ NextTick \/ NextFailure \/ NextContext
  BY <1>4 DEF NextNotification, NextTick, NextFailure, NextContext, StartScan,
              Deliver
<1>9. CASE InspectWindow("scan") \/ ScanEnds \/ ScanFails
  BY <1>9 DEF InspectWindow, ScanEnds, ScanFails, hookVars
<1>5. CASE HandleContext("loop") \/ HandleContext("handle") \/ HandleOther \/ HandleSnapshot
  <2>1. CASE HandleContext("loop") \/ HandleContext("handle")
    BY <2>1 DEF HandleContext, Handle, Settle, hookVars
  <2>2. CASE HandleOther
    BY <2>2 DEF HandleOther, Handle, Settle, hookVars
  <2>3. CASE HandleSnapshot
    BY <2>3 DEF HandleSnapshot, Handle, Choose, Settle, hookVars
  <2>4. QED
    BY <1>5, <2>1, <2>2, <2>3
<1>6. CASE CloseAfterWait
  BY <1>6 DEF CloseAfterWait, CloseObservation
<1>7. CASE UNCHANGED trackingVars
  BY <1>7 DEF trackingVars, hookVars, sessionVars
<1>8. QED
  BY <1>1, <1>2, <1>3, <1>4, <1>5, <1>6, <1>7, <1>9 DEF Next, SessionStep

LEMMA ContextPart ==
    ASSUME TrackingInvariant, [Next]_trackingVars
    PROVE  ResultAgreesWithContext'
<1> USE FailedChoosesNothing
    DEF TrackingInvariant, TypeOK, ResultAgreesWithContext, Contexts, worldVars
<1>1. CASE World
  BY <1>1 DEF World, WindowsChange, DispatchWinEvent, HookFails, ContextEnds,
              sessionVars
<1>2. CASE Begin \/ Wait \/ WaitRefused \/ Close
           \/ Look("loop", "next") \/ Look("handle", "act")
  BY <1>2 DEF Begin, StartBaseline, Enumerate, InspectWindow, TakeBaseline,
              StartHook, BeginFails, Wait, WaitRefused, Close, Look
<1>3. CASE NextNotification \/ NextTick \/ NextFailure \/ NextContext
  BY <1>3 DEF NextNotification, NextTick, NextFailure, NextContext, StartScan,
              Deliver
<1>10. CASE InspectWindow("scan") \/ ScanEnds \/ ScanFails
  BY <1>10 DEF InspectWindow, ScanEnds, ScanFails
<1>4. CASE HandleContext("loop") \/ HandleContext("handle")
  BY <1>4 DEF HandleContext, Handle, Settle, ContextOutcome
<1>5. CASE HandleOther
  BY <1>5 DEF HandleOther, Handle, Settle, EventOutcome, TimeoutOutcome,
              EventsAgree
<1>6. CASE HandleSnapshot
  BY <1>6 DEF HandleSnapshot, Handle, Choose, Settle
<1>7. CASE CloseAfterWait
  BY <1>7 DEF CloseAfterWait
<1>8. CASE UNCHANGED trackingVars
  BY <1>8 DEF trackingVars, sessionVars
<1>9. QED
  BY <1>1, <1>2, <1>3, <1>4, <1>5, <1>6, <1>7, <1>8, <1>10
     DEF Next, SessionStep

LEMMA EventPart ==
    ASSUME TrackingInvariant, [Next]_trackingVars
    PROVE  EventsAgree'
<1> USE DEF TrackingInvariant, TypeOK, EventsAgree, Contexts, worldVars
<1>1. CASE World
  BY <1>1 DEF World, WindowsChange, DispatchWinEvent, HookFails, ContextEnds,
              sessionVars
<1>2. CASE StartBaseline \/ TakeBaseline \/ StartHook \/ BeginFails
           \/ Wait \/ WaitRefused \/ Close
  BY <1>2 DEF StartBaseline, Enumerate, TakeBaseline, StartHook, BeginFails,
              NoEvent, EventOf, Wait, WaitRefused, Close
<1>3. CASE NextNotification \/ NextTick \/ NextFailure
  BY <1>3 DEF NextNotification, NextTick, NextFailure, StartScan, Enumerate,
              Deliver, FailedEvent, EventOf
<1>9. CASE InspectWindow("baseline") \/ InspectWindow("scan")
  BY <1>9, LookedAt DEF InspectWindow
<1>10. CASE ScanEnds \/ ScanFails
  BY <1>10 DEF ScanEnds, ScanFails, FailedEvent, EventOf
<1>11. CASE Look("loop", "next") \/ Look("handle", "act")
  BY <1>11 DEF Look
<1>4. CASE NextContext
  BY <1>4 DEF NextContext, Deliver, ContextOutcome, EventOf
<1>5. CASE HandleContext("loop") \/ HandleContext("handle") \/ HandleOther
           \/ HandleSnapshot
  BY <1>5 DEF HandleContext, HandleOther, HandleSnapshot, Handle, NoEvent, EventOf
<1>6. CASE CloseAfterWait
  BY <1>6 DEF CloseAfterWait
<1>7. CASE UNCHANGED trackingVars
  BY <1>7 DEF trackingVars, sessionVars
<1>8. QED
  BY <1>1, <1>2, <1>3, <1>4, <1>5, <1>6, <1>7, <1>9, <1>10, <1>11
     DEF Next, Begin, SessionStep

LEMMA KnownPart ==
    ASSUME TrackingInvariant, [Next]_trackingVars
    PROVE  OldWindowsAreKnown'
<1> USE DEF TrackingInvariant, TypeOK, OldWindowsAreKnown, worldVars
<1>1. CASE World
  BY <1>1 DEF World, WindowsChange, DispatchWinEvent, HookFails, ContextEnds,
              sessionVars, trackerVars
<1>2. CASE StartBaseline
  BY <1>2 DEF StartBaseline, Enumerate, EventOf
<1>3. CASE InspectWindow("baseline") \/ InspectWindow("scan")
  BY <1>3, LookedAt DEF InspectWindow, trackerVars
<1>4. CASE TakeBaseline
  BY <1>4 DEF TakeBaseline, NewTracker
<1>5. CASE StartHook \/ BeginFails
  BY <1>5 DEF StartHook, BeginFails, trackerVars
<1>6. CASE Wait \/ WaitRefused \/ Close \/ Look("loop", "next") \/ Look("handle", "act")
  BY <1>6 DEF Wait, WaitRefused, Close, Look, trackerVars
<1>7. CASE NextNotification \/ NextTick \/ NextFailure \/ NextContext
  BY <1>7 DEF NextNotification, NextTick, NextFailure, NextContext, StartScan,
              Enumerate, Deliver, EventOf, trackerVars
<1>8. CASE ScanEnds \/ ScanFails
  BY <1>8 DEF ScanEnds, ScanFails, trackerVars
<1>9. CASE HandleContext("loop") \/ HandleContext("handle") \/ HandleOther
  BY <1>9 DEF HandleContext, HandleOther, Handle, Settle, trackerVars
<1>10. CASE HandleSnapshot
  BY <1>10 DEF HandleSnapshot, Handle, Choose, Settle, Observe
<1>11. CASE CloseAfterWait
  BY <1>11 DEF CloseAfterWait, trackerVars
<1>12. CASE UNCHANGED trackingVars
  BY <1>12 DEF trackingVars, sessionVars, trackerVars
<1>13. QED
  BY <1>1, <1>2, <1>3, <1>4, <1>5, <1>6, <1>7, <1>8, <1>9, <1>10, <1>11, <1>12
     DEF Next, Begin, SessionStep

(***************************************************************************)
(* What observe's bookkeeping is for: a lone new window is never chosen,   *)
(* nor is one of several.                                                  *)
(***************************************************************************)
ChoiceReplacedAnother ==
    \A w \in Windows : IsChoice(w) =>
        /\ w \notin baseline
        /\ \E gone \in observed \ candidates : gone \notin baseline

(***************************************************************************)
(* The choice.  A replacement was seen, so at least two windows were; the  *)
(* one chosen is alone in the last snapshot, so another one is gone.       *)
(***************************************************************************)
LEMMA ChoiceIsSound == TrackerInvariant => ChoiceReplacedAnother
<1> SUFFICES ASSUME TrackerInvariant, NEW w \in Windows, IsChoice(w)
             PROVE  /\ w \notin baseline
                    /\ \E gone \in observed \ candidates : gone \notin baseline
  BY DEF ChoiceReplacedAnother
<1>1. candidates = {w} /\ w \in observed /\ w \notin baseline
  BY DEF IsChoice, TrackerInvariant
<1>2. PICK u, v \in observed : firstSeen[u] < firstSeen[v]
  BY DEF IsChoice, TrackerInvariant
<1>3. u # v
  BY <1>2 DEF TrackerInvariant
<1>4. QED
  BY <1>1, <1>3 DEF TrackerInvariant

LEMMA ChoicePart ==
    ASSUME TrackingInvariant, [Next]_trackingVars, TrackerInvariant'
    PROVE  ChosenWindowReplacedAnother'
<1> USE FailedChoosesNothing DEF TrackingInvariant
<1>1. CASE HandleSnapshot
  <2>1. tracked.outcome # "completed"
    BY <1>1 DEF HandleSnapshot, Handle, ResultsAreEarned, Waiting
  <2>2. ChoiceReplacedAnother'
    BY ChoiceIsSound, PTL
  <2>3. ASSUME NEW w \in Windows, IsChoice(w)',
               tracked' = [outcome |-> "completed", window |-> w]
        PROVE  ChosenWindowReplacedAnother'
    BY <2>2, <2>3 DEF ChosenWindowReplacedAnother, ChoiceReplacedAnother, IsChoice
  <2>4. CASE UNCHANGED tracked
    BY <2>1, <2>4 DEF ChosenWindowReplacedAnother
  <2>5. QED
    BY <1>1, <2>3, <2>4 DEF HandleSnapshot, Choose, Settle
<1>2. CASE TakeBaseline
  BY <1>2 DEF TakeBaseline, ResultsAreEarned, ChosenWindowReplacedAnother
<1>3. CASE Steady /\ (tracked' = tracked \/ tracked'.outcome # "completed")
  BY <1>3 DEF Steady, trackerVars, ChosenWindowReplacedAnother, observed
<1>4. CASE UNCHANGED trackingVars
  BY <1>3, <1>4 DEF trackingVars, sessionVars, Steady
<1>5. QED
  BY <1>1, <1>2, <1>3, <1>4, TrackerStep

-----------------------------------------------------------------------------
LEMMA InvariantInit == Init => TrackingInvariant
<1> SUFFICES ASSUME Init PROVE TrackingInvariant
  OBVIOUS
<1>1. TrackerInvariant /\ MaximaExist
  BY InitialTracker
<1>2. TypeOK
  BY <1>1 DEF Init, TypeOK, TrackerInvariant, Contexts
<1>3. ResultsAreEarned /\ EventsAgree /\ OldWindowsAreKnown
  BY DEF Init, ResultsAreEarned, EventsAgree, OldWindowsAreKnown, NoEvent, EventOf,
         Waiting
<1>4. ResultAgreesWithContext /\ WaitReleasesObservation
      /\ ChosenWindowReplacedAnother
  BY FailedChoosesNothing DEF Init, ResultAgreesWithContext,
     WaitReleasesObservation, Waiting, ChosenWindowReplacedAnother
<1>5. QED
  BY <1>1, <1>2, <1>3, <1>4 DEF TrackingInvariant

LEMMA InvariantStep ==
    TrackingInvariant /\ [Next]_trackingVars => TrackingInvariant'
<1> SUFFICES ASSUME TrackingInvariant, [Next]_trackingVars
             PROVE  TrackingInvariant'
  OBVIOUS
<1>1. TrackerInvariant' /\ MaximaExist'
  BY TrackerPart
<1>2. TypeOK' /\ ChosenWindowReplacedAnother'
  BY <1>1, TypePart, ChoicePart
<1>3. ResultsAreEarned' /\ WaitReleasesObservation'
  BY EarnedPart
<1>4. EventsAgree' /\ ResultAgreesWithContext' /\ OldWindowsAreKnown'
  BY EventPart, ContextPart, KnownPart
<1>5. QED
  BY <1>1, <1>2, <1>3, <1>4 DEF TrackingInvariant

LEMMA TrackingIsInvariant == Spec => []TrackingInvariant
BY InvariantInit, InvariantStep, PTL DEF Spec

(***************************************************************************)
(* A window is chosen only if it was not there before the launch, is alone *)
(* in the last snapshot, and has outlived another new window, whatever     *)
(* Chrome's windows do (service.go:133-174).                               *)
(***************************************************************************)
THEOREM ChoiceSound == Spec => []ChosenWindowReplacedAnother
<1>1. TrackingInvariant => ChosenWindowReplacedAnother
  BY DEF TrackingInvariant
<1>2. QED
  BY <1>1, TrackingIsInvariant, PTL

(***************************************************************************)
(* A window that has been open all along is not the one chosen, however    *)
(* many windows there are and whatever they do while they are being looked *)
(* at (snapshot.go:37-74, service.go:133-174).                             *)
(***************************************************************************)
THEOREM OldWindowsAreSafe == Spec => []OldWindowIsNotChosen
<1>1. TrackingInvariant => OldWindowIsNotChosen
  <2> SUFFICES ASSUME TrackingInvariant, tracked.outcome = "completed"
               PROVE  tracked.window \notin stayed
    BY DEF OldWindowIsNotChosen
  <2>1. tracked.window \notin baseline
    BY DEF TrackingInvariant, ChosenWindowReplacedAnother
  <2>2. session \notin {"none", "baseline", "refused"}
    BY FailedChoosesNothing DEF TrackingInvariant, ResultsAreEarned
  <2>3. QED
    BY <2>1, <2>2 DEF TrackingInvariant, OldWindowsAreKnown
<1>2. QED
  BY <1>1, TrackingIsInvariant, PTL

(***************************************************************************)
(* Wait never lies about the context (service.go:60-98), which is what the *)
(* workflow's contract with the launch service rests on.                   *)
(***************************************************************************)
THEOREM ResultTruthful == Spec => []ResultAgreesWithContext
<1>1. TrackingInvariant => ResultAgreesWithContext
  BY DEF TrackingInvariant
<1>2. QED
  BY <1>1, TrackingIsInvariant, PTL

(***************************************************************************)
(* Wait uses an open observation and leaves a closed one on every path,    *)
(* and fails if the hook may have been left installed (service.go:36-58).  *)
(***************************************************************************)
THEOREM ObservationReleased == Spec => []WaitReleasesObservation
<1>1. TrackingInvariant => WaitReleasesObservation
  BY DEF TrackingInvariant
<1>2. QED
  BY <1>1, TrackingIsInvariant, PTL

(***************************************************************************)
(* No look at a window that came after the end of the context decides the  *)
(* choice, although the context may end at any moment: during a snapshot,  *)
(* before the event is looked at or after that (service.go:65-77).         *)
(***************************************************************************)
THEOREM NoLateLookDecides == Spec => LateLooksDecideNothing
<1>1. TrackingInvariant /\ [Next]_trackingVars =>
         [tracked.outcome # "completed" /\ tracked'.outcome = "completed" =>
              ~event.late]_trackingVars
  <2> SUFFICES ASSUME TrackingInvariant, Next,
                      tracked.outcome # "completed",
                      tracked'.outcome = "completed"
               PROVE  ~event.late
    OBVIOUS
  <2>1. CASE TakeBaseline
    BY <2>1 DEF TakeBaseline
  <2>2. CASE HandleSnapshot
    BY <2>2 DEF HandleSnapshot, Handle, TrackingInvariant, EventsAgree
  <2>3. QED
    BY <2>1, <2>2, TrackerStep
<1>2. QED
  BY <1>1, TrackingIsInvariant, PTL DEF Spec, LateLooksDecideNothing

-----------------------------------------------------------------------------
(***************************************************************************)
(* The tracker alone.  Every field of it says something of the whole       *)
(* history of snapshots (service.go:133-174): the first-seen numbers are   *)
(* the earliest times of the history, lastDisappeared is the largest of    *)
(* those of the windows gone by now, and the two flags remember what some  *)
(* snapshot showed.                                                        *)
(***************************************************************************)
Now == Len(history)

FirstsAgree ==
    \A w \in observed :
        firstSeen[w] \in SeenAt(w) /\ \A t \in SeenAt(w) : firstSeen[w] <= t

LatestAgrees ==
    /\ \A w \in GoneBy(Now) : firstSeen[w] <= lastDisappeared
    /\ lastDisappeared > 0 => \E w \in GoneBy(Now) : firstSeen[w] = lastDisappeared

Crowded == \E t \in Times : Cardinality(history[t]) > 1

HistoryInvariant ==
    /\ TrackerInvariant /\ MaximaExist
    /\ history \in Seq(SUBSET Windows)
    /\ generation = Now
    /\ observed = Ever
    /\ candidates = IF Now = 0 THEN {} ELSE history[Now]
    /\ FirstsAgree /\ LatestAgrees
    /\ concurrent <=> Crowded
    /\ replaced <=> ReplacementIn

LEMMA HistoryStart == HistoryInit => HistoryInvariant
<1> SUFFICES ASSUME HistoryInit PROVE HistoryInvariant
  OBVIOUS
<1>1. observed = {} /\ generation = 0 /\ history = <<>>
  BY DEF HistoryInit, observed
<1>2. Now = 0 /\ Times = {} /\ history \in Seq(SUBSET Windows)
  BY <1>1 DEF Now, Times
<1>3. TrackerInvariant /\ MaximaExist
  <2>0. observed = {}
    BY <1>1
  <2>1. TrackerTypeOK
    BY <2>0 DEF HistoryInit, TrackerTypeOK
  <2>2. TrackerInvariant
    BY <1>1, <2>1 DEF HistoryInit, TrackerInvariant
  <2>3. MaximaExist
    BY MaximaBelowOne DEF HistoryInit, MaximaExist
  <2>4. QED
    BY <2>2, <2>3
<1>4. Ever = {} /\ GoneBy(Now) = {}
  BY <1>2 DEF Ever, SeenAt, GoneBy
<1>5. FirstsAgree /\ LatestAgrees
  BY <1>1, <1>4 DEF HistoryInit, FirstsAgree, LatestAgrees
<1>6. ~Crowded /\ ~ReplacementIn
  BY <1>2 DEF Crowded, ReplacementIn
<1>7. QED
  BY <1>1, <1>2, <1>3, <1>4, <1>5, <1>6 DEF HistoryInit, HistoryInvariant

(* The smallest element of a set of numbers is the one CHOOSE returns.     *)
LEMMA SmallestIsChosen ==
    ASSUME NEW S \in SUBSET Nat, NEW n \in S, \A u \in S : n <= u
    PROVE  (CHOOSE t \in S : \A u \in S : t <= u) = n
<1> DEFINE c == CHOOSE t \in S : \A u \in S : t <= u
<1>1. c \in S /\ \A u \in S : c <= u
  OBVIOUS
<1>2. c <= n /\ n <= c /\ c \in Nat /\ n \in Nat
  BY <1>1
<1> HIDE DEF c
<1>3. c = n
  BY <1>2
<1>4. QED
  BY <1>3 DEF c

(* LatestOf is the largest of the numbers that have gone.                  *)
LEMMA LatestIsLargest ==
    ASSUME TrackerInvariant, MaximaExist, NEW gone \in SUBSET observed
    PROVE  /\ LatestOf(gone) >= lastDisappeared
           /\ \A w \in gone : LatestOf(gone) >= firstSeen[w]
           /\ \/ LatestOf(gone) = lastDisappeared
              \/ \E w \in gone : LatestOf(gone) = firstSeen[w]
<1> DEFINE numbers == {firstSeen[w] : w \in gone} \cup {lastDisappeared}
<1> USE DEF TrackerInvariant, TrackerTypeOK
<1>1. numbers \in SUBSET (0 .. generation) /\ numbers # {}
  OBVIOUS
<1>2. \E n \in numbers : \A m \in numbers : n >= m
  BY <1>1 DEF MaximaExist
<1>3. Max(numbers) \in numbers /\ \A m \in numbers : Max(numbers) >= m
  BY <1>2 DEF Max
<1>4. LatestOf(gone) = Max(numbers)
  BY DEF LatestOf
<1>5. QED
  BY <1>3, <1>4

LEMMA HistoryGrows ==
    ASSUME HistoryInvariant, NEW snapshot \in SUBSET Windows,
           Observe(snapshot), history' = Append(history, snapshot \ baseline),
           NEW n, n = Len(history)
    PROVE  HistoryInvariant'
<1> DEFINE new == New(snapshot)
           gone == candidates \ new
<1>0. TrackerInvariant /\ MaximaExist /\ TrackerInvariant' /\ MaximaExist'
  BY ObserveKeepsInvariant DEF HistoryInvariant
<1>1. /\ n \in Nat /\ Len(history') = n + 1 /\ history' \in Seq(SUBSET Windows)
      /\ \A t \in Times : history'[t] = history[t]
      /\ history'[n + 1] = new /\ new \subseteq Windows
      /\ \A t \in Times : history[t] \subseteq Windows
  <2>1. history \in Seq(SUBSET Windows) /\ new \in SUBSET Windows /\ new = snapshot \ baseline
    BY DEF HistoryInvariant, New
  <2>2. QED
    BY <2>1 DEF Times
<1>2. /\ Times \in SUBSET Nat /\ n + 1 \notin Times /\ Times' = Times \cup {n + 1}
      /\ \A t \in Times : 1 <= t /\ t <= n
  BY <1>1 DEF Times
<1>3. \A w : /\ SeenAt(w) \subseteq Times
             /\ SeenAt(w)' = SeenAt(w) \cup {t \in {n + 1} : w \in new}
  BY <1>1, <1>2 DEF SeenAt
<1>4. Ever' = Ever \cup new
  BY <1>1, <1>3 DEF Ever
<1>5. /\ observed = Ever /\ generation = n /\ generation' = n + 1
      /\ observed' = observed \cup new /\ candidates' = new
      /\ \A w \in observed' :
             firstSeen'[w] = IF w \in observed THEN firstSeen[w] ELSE n + 1
      /\ lastDisappeared' = LatestOf(gone)
      /\ concurrent' <=> concurrent \/ Cardinality(new) > 1
      /\ replaced' <=> replaced \/ \E w \in new : IsReplacement(firstSeen'[w], lastDisappeared')
  BY DEF HistoryInvariant, Now, Observe, observed, TrackerInvariant, TrackerTypeOK
<1>6. /\ \A w \in observed : firstSeen[w] \in 1 .. n
      /\ \A w \in observed' : firstSeen'[w] \in 1 .. n + 1
      /\ lastDisappeared \in Nat /\ lastDisappeared' \in Nat
  BY <1>0, <1>5 DEF TrackerInvariant, TrackerTypeOK
<1> HIDE DEF new, gone
<1>7. FirstsAgree'
  <2> SUFFICES ASSUME NEW w \in observed'
               PROVE  firstSeen'[w] \in SeenAt(w)'
                      /\ \A t \in SeenAt(w)' : firstSeen'[w] <= t
    BY DEF FirstsAgree
  <2>1. CASE w \in observed
    BY <1>1, <1>2, <1>3, <1>5, <1>6, <2>1 DEF HistoryInvariant, FirstsAgree
  <2>2. CASE w \notin observed
    <3>1. w \in new /\ SeenAt(w) = {} /\ firstSeen'[w] = n + 1
      BY <1>1, <1>4, <1>5, <2>2 DEF Ever
    <3>2. QED
      BY <1>1, <1>3, <3>1
  <2>3. QED
    BY <2>1, <2>2
<1>8. /\ \A w \in Ever : FirstTime(w) = firstSeen[w]
      /\ \A w \in Ever' : FirstTime(w)' = firstSeen'[w]
  <2>1. ASSUME NEW w PROVE SeenAt(w) \in SUBSET Nat /\ SeenAt(w)' \in SUBSET Nat
    <3>1. n + 1 \in Nat
      BY <1>1
    <3>2. SeenAt(w) \in SUBSET Nat
      BY <1>2, <1>3
    <3>3. SeenAt(w)' = SeenAt(w) \cup {t \in {n + 1} : w \in new}
      BY <1>3
    <3>4. QED
      BY <3>1, <3>2, <3>3
  <2>2. ASSUME NEW w \in Ever PROVE FirstTime(w) = firstSeen[w]
    BY <1>5, <2>1, SmallestIsChosen DEF HistoryInvariant, FirstsAgree, FirstTime
  <2>3. ASSUME NEW w \in Ever' PROVE FirstTime(w)' = firstSeen'[w]
    <3>1. firstSeen'[w] \in SeenAt(w)' /\ \A t \in SeenAt(w)' : firstSeen'[w] <= t
      BY <1>4, <1>5, <1>7 DEF FirstsAgree
    <3>2. QED
      BY <2>1, <3>1, SmallestIsChosen DEF FirstTime
  <2>4. QED
    BY <2>2, <2>3
<1>9. \A t \in Times : GoneBy(t)' = GoneBy(t)
  <2> SUFFICES ASSUME NEW t \in Times PROVE GoneBy(t)' = GoneBy(t)
    OBVIOUS
  <2>1. \A u \in 2 .. t : u \in Times /\ u - 1 \in Times
    BY <1>1, <1>2 DEF Times
  <2>2. \A u \in 2 .. t : history'[u] = history[u] /\ history'[u - 1] = history[u - 1]
    BY <1>1, <2>1
  <2>3. \A u \in 2 .. t : \A w \in history[u - 1] : w \in Ever
    BY <1>1, <2>1 DEF Ever, SeenAt
  <2>4. QED
    BY <1>4, <2>2, <2>3 DEF GoneBy
<1>10. GoneBy(Now)' = GoneBy(Now) \cup gone
  <2>1. Now = n /\ Now' = n + 1
    BY <1>1 DEF Now
  <2>2. CASE n = 0
    <3>1. gone = {}
      BY <2>1, <2>2 DEF gone, HistoryInvariant
    <3>2. GoneBy(Now) = {} /\ GoneBy(Now)' = {}
      BY <2>1, <2>2 DEF GoneBy
    <3>3. QED
      BY <3>1, <3>2
  <2>3. CASE n # 0
    <3>1. n \in Times /\ candidates = history[n] /\ history'[n] = history[n]
      BY <1>1, <2>1, <2>3 DEF HistoryInvariant, Times
    <3>2. \A u : u \in 2 .. Now' <=> u \in 2 .. n \/ u = n + 1
      BY <1>1, <2>1, <2>3
    <3>3. GoneBy(n)' = GoneBy(n)
      BY <1>9, <3>1
    <3>4. \A w \in candidates : w \in Ever
      BY <1>1, <3>1 DEF Ever, SeenAt
    <3>5. GoneBy(Now)' = {w \in Ever' : \E u \in 2 .. (n + 1) : w \in history'[u - 1] \ history'[u]}
      BY <2>1 DEF GoneBy
    <3>6. GoneBy(n)' = {w \in Ever' : \E u \in 2 .. n : w \in history'[u - 1] \ history'[u]}
      BY DEF GoneBy
    <3>7. \A w : w \in gone <=> w \in Ever' /\ w \in history'[(n + 1) - 1] \ history'[n + 1]
      <4>1. (n + 1) - 1 = n
        BY <1>1
      <4>2. \A w : w \in gone <=> w \in candidates /\ w \notin new
        BY DEF gone
      <4>3. history'[(n + 1) - 1] = candidates /\ history'[n + 1] = new
        BY <1>1, <3>1, <4>1
      <4>4. QED
        BY <1>4, <3>4, <4>2, <4>3
    <3>8. ASSUME NEW w PROVE w \in GoneBy(Now)' <=> w \in GoneBy(n)' \/ w \in gone
      <4> DEFINE Left(u) == w \in history'[u - 1] \ history'[u]
      <4>1. w \in GoneBy(Now)' <=> w \in Ever' /\ \E u \in 2 .. (n + 1) : Left(u)
        BY <3>5
      <4>2. w \in GoneBy(n)' <=> w \in Ever' /\ \E u \in 2 .. n : Left(u)
        BY <3>6
      <4>3. w \in gone <=> w \in Ever' /\ Left(n + 1)
        BY <3>7
      <4>4. \A u : u \in 2 .. (n + 1) <=> u \in 2 .. n \/ u = n + 1
        BY <2>1, <3>2
      <4> HIDE DEF Left
      <4>5. QED
        BY <4>1, <4>2, <4>3, <4>4
    <3>9. QED
      BY <2>1, <3>3, <3>8
  <2>4. QED
    BY <2>2, <2>3
<1>11. GoneBy(Now) \subseteq Ever /\ gone \subseteq observed /\ GoneBy(Now)' \subseteq Ever'
  BY <1>0 DEF GoneBy, gone, TrackerInvariant
<1>12. LatestAgrees'
  <2>1. /\ LatestOf(gone) >= lastDisappeared
        /\ \A w \in gone : LatestOf(gone) >= firstSeen[w]
        /\ \/ LatestOf(gone) = lastDisappeared
           \/ \E w \in gone : LatestOf(gone) = firstSeen[w]
    BY <1>0, <1>11, LatestIsLargest
  <2>2. \A w \in GoneBy(Now)' : w \in observed /\ firstSeen'[w] = firstSeen[w]
    BY <1>5, <1>10, <1>11
  <2>3. \A w \in GoneBy(Now)' : firstSeen'[w] <= lastDisappeared'
    <3>1. \A w \in GoneBy(Now) : firstSeen[w] <= lastDisappeared
      BY DEF HistoryInvariant, LatestAgrees
    <3>2. QED
      BY <1>5, <1>6, <1>10, <1>11, <2>1, <2>2, <3>1
  <2>4. lastDisappeared' > 0 => \E w \in GoneBy(Now)' : firstSeen'[w] = lastDisappeared'
    <3>1. lastDisappeared > 0 => \E w \in GoneBy(Now) : firstSeen[w] = lastDisappeared
      BY DEF HistoryInvariant, LatestAgrees
    <3>2. QED
      BY <1>5, <1>10, <2>1, <2>2, <3>1
  <2>5. QED
    BY <2>3, <2>4 DEF LatestAgrees
<1>13. concurrent' <=> Crowded'
  BY <1>1, <1>2, <1>5 DEF HistoryInvariant, Crowded
<1>14. replaced' <=> ReplacementIn'
  <2>1. \A t \in Times : \A w \in history[t] : w \in Ever
    BY <1>1 DEF Ever, SeenAt
  <2>2. \A w \in Ever : FirstTime(w)' = FirstTime(w)
    BY <1>4, <1>5, <1>8
  <2>3. ReplacementIn <=>
            \E t \in Times : \E w \in history'[t] :
                GoneBy(t)' # {} /\ \A v \in GoneBy(t)' : FirstTime(v)' < FirstTime(w)'
    <3>1. \A t \in Times : GoneBy(t) \subseteq Ever
      BY DEF GoneBy
    <3>2. QED
      BY <1>1, <1>9, <2>1, <2>2, <3>1 DEF ReplacementIn
  <2>4. ASSUME NEW w \in new
        PROVE  IsReplacement(firstSeen'[w], lastDisappeared') <=>
                   GoneBy(Now)' # {} /\ \A v \in GoneBy(Now)' : FirstTime(v)' < FirstTime(w)'
    <3>1. /\ \A v \in GoneBy(Now)' : firstSeen'[v] <= lastDisappeared'
          /\ lastDisappeared' > 0 => \E v \in GoneBy(Now)' : firstSeen'[v] = lastDisappeared'
      BY <1>12 DEF LatestAgrees
    <3>2. /\ FirstTime(w)' = firstSeen'[w] /\ firstSeen'[w] \in Nat
          /\ \A v \in GoneBy(Now)' : /\ FirstTime(v)' = firstSeen'[v]
                                     /\ firstSeen'[v] \in 1 .. n + 1
      BY <1>4, <1>5, <1>6, <1>8, <1>11
    <3>3. QED
      BY <1>1, <1>6, <3>1, <3>2 DEF IsReplacement
  <2>5. Now' = n + 1
    BY <1>1 DEF Now
  <2>6. ReplacementIn' <=>
            \/ ReplacementIn
            \/ \E w \in new :
                   GoneBy(Now)' # {} /\ \A v \in GoneBy(Now)' : FirstTime(v)' < FirstTime(w)'
    <3>1. GoneBy(n + 1)' = GoneBy(Now)'
      BY <2>5 DEF GoneBy
    <3>2. QED
      BY <1>1, <1>2, <2>3, <3>1 DEF ReplacementIn
  <2>7. QED
    BY <1>5, <2>4, <2>6 DEF HistoryInvariant
<1>15. generation' = Now' /\ observed' = Ever'
       /\ candidates' = IF Now' = 0 THEN {} ELSE history'[Now']
  BY <1>1, <1>4, <1>5 DEF Now
<1>16. QED
  BY <1>0, <1>1, <1>7, <1>12, <1>13, <1>14, <1>15 DEF HistoryInvariant

LEMMA HistoryStep ==
    HistoryInvariant /\ [HistoryNext]_historyVars => HistoryInvariant'
<1> SUFFICES ASSUME HistoryInvariant, [HistoryNext]_historyVars PROVE HistoryInvariant'
  OBVIOUS
<1>1. CASE HistoryNext
  BY <1>1, HistoryGrows DEF HistoryNext
<1>2. CASE UNCHANGED historyVars
  <2>1. /\ UNCHANGED <<baseline, firstSeen, candidates, generation, lastDisappeared,
                      replaced, concurrent, history>>
        /\ observed' = observed /\ Now' = Now /\ Times' = Times /\ Crowded' = Crowded
        /\ Ever' = Ever /\ ReplacementIn' = ReplacementIn
    BY <1>2 DEF historyVars, trackerVars, observed, Now, Times, Crowded, Ever, SeenAt,
       GoneBy, FirstTime, ReplacementIn
  <2>2. TrackerInvariant' /\ MaximaExist'
    BY <2>1 DEF HistoryInvariant, TrackerInvariant, TrackerTypeOK, MaximaExist
  <2>3. FirstsAgree' /\ LatestAgrees'
    BY <2>1 DEF HistoryInvariant, FirstsAgree, LatestAgrees, SeenAt, GoneBy
  <2>4. QED
    BY <2>1, <2>2, <2>3 DEF HistoryInvariant
<1>3. QED
  BY <1>1, <1>2

LEMMA HistoryAnswers == HistoryInvariant => TrackerAgreesWithHistory
<1> SUFFICES ASSUME HistoryInvariant PROVE TrackerAgreesWithHistory
  OBVIOUS
<1> DEFINE left == IF history = <<>> THEN {} ELSE history[Len(history)]
<1>1. left = candidates
  BY DEF HistoryInvariant, Now
<1>2. \A w \in Windows : IsChoice(w) <=> left = {w} /\ ReplacementIn
  BY <1>1 DEF HistoryInvariant, IsChoice
<1>3. Ever = {} => ~Crowded
  <2> SUFFICES ASSUME Ever = {}, NEW t \in Times PROVE ~(Cardinality(history[t]) > 1)
    BY DEF Crowded
  <2>1. history[t] \subseteq Windows
    BY DEF HistoryInvariant, Times
  <2>2. history[t] = {}
    BY <2>1 DEF Ever, SeenAt
  <2>3. QED
    BY <2>2, FS_EmptySet
<1>4. TimeoutOutcome = IF left = {} /\ Ever # {} THEN "candidate_lost"
                       ELSE IF Crowded THEN "ambiguous" ELSE "timed_out"
  <2>1. /\ observed = Ever /\ (concurrent <=> Crowded)
        /\ candidates \subseteq observed
    BY DEF HistoryInvariant, TrackerInvariant
  <2>2. QED
    BY <1>1, <1>3, <2>1 DEF TimeoutOutcome
<1>5. QED
  BY <1>2, <1>4 DEF TrackerAgreesWithHistory, Crowded

(***************************************************************************)
(* For every set of windows and every sequence of snapshots, however long, *)
(* the incremental bookkeeping of observe answers what the whole history   *)
(* would (service.go:133-174).                                             *)
(***************************************************************************)
THEOREM TrackerRemembersAll == HistorySpec => []TrackerAgreesWithHistory
<1>1. HistoryInvariant /\ [HistoryNext]_historyVars => HistoryInvariant'
  BY HistoryStep
<1>2. QED
  BY <1>1, HistoryStart, HistoryAnswers, PTL DEF HistorySpec
=============================================================================
