--------------------------- MODULE WindowTracking ---------------------------
(***************************************************************************)
(* A tracking Session over the product's Observation: the baseline, the    *)
(* change hook and the poller on one side, the loop of Session.Wait on the *)
(* other, Chrome's windows coming and going in between.                    *)
(*                                                                         *)
(* The session belongs to one goroutine.  Its steps end where it blocks    *)
(* (the select of Observation.Next), where the operating system answers    *)
(* (a window of a snapshot, the end of a hook), and before every look at   *)
(* the context.  A snapshot takes its time: the windows are listed first   *)
(* and then looked at one by one, and come and go meanwhile.               *)
(* The session may be used and closed repeatedly and in any order.         *)
(***************************************************************************)
EXTENDS CandidateTracker

CONSTANT MaxSnapshots  \* bound on the snapshots of one observation

ASSUME MaxSnapshotsAssumption == MaxSnapshots \in Nat

VARIABLES
    live,         \* Chrome's visible top-level windows
    stayed,       \* auxiliary: those that have been there all along
    ctx,          \* ctx.Err(): "live", "canceled" or "deadline"
    observation,  \* "none", "open", "closed", or "left": its hook may be left
    notified,     \* the hook's one-slot notification channel is full
    hookFailed,   \* the hook's one-slot failure channel is full
    session,      \* where the goroutine is in the session's methods
    unseen,       \* the windows listed that snapshot has not looked at yet
    event,        \* the event Next has returned, or is making
    used, closed, \* the flags of Session
    closeErr,     \* closeErr # nil
    tracked       \* the Result to return, NoResult while there is none

worldVars    == <<live, stayed, ctx>>
sessionVars  == <<session, unseen, event, used, closed, closeErr, tracked>>
hookVars     == <<observation, notified, hookFailed>>
trackingVars == <<trackerVars, worldVars, hookVars, sessionVars>>

NoWindow == "no window"
NoResult == [outcome |-> "none", window |-> NoWindow]

(* Auxiliary: an event is late if a window of its snapshot was looked at   *)
(* after the context had ended.                                            *)
EventOf(type) == [type |-> type, snapshot |-> {}, late |-> FALSE]
NoEvent == EventOf("none")

ResultOf(outcome) == [outcome |-> outcome, window |-> NoWindow]
Failed == ResultOf("failed")

Contexts == {"live", "canceled", "deadline"}
TrackingOutcomes == {"completed", "cancelled", "timed_out", "failed",
                     "ambiguous", "candidate_lost"}
EventTypes == {"snapshot", "cancelled", "timed_out", "failed"}
Results == [outcome : TrackingOutcomes, window : Windows \cup {NoWindow}]
Events  == [type : EventTypes, snapshot : SUBSET Windows, late : BOOLEAN]

TypeOK ==
    /\ TrackerTypeOK
    /\ live \subseteq Windows /\ stayed \subseteq live
    /\ ctx \in Contexts
    /\ observation \in {"none", "open", "closed", "left"}
    /\ notified \in BOOLEAN /\ hookFailed \in BOOLEAN
    /\ session \in {"none", "baseline", "hook", "refused", "idle", "loop", "next",
                   "scan", "handle", "act", "close"}
    /\ unseen \subseteq Windows
    /\ event \in Events \cup {NoEvent}
    /\ used \in BOOLEAN /\ closed \in BOOLEAN /\ closeErr \in BOOLEAN
    /\ tracked \in Results \cup {NoResult}

Init ==
    /\ baseline = {} /\ firstSeen = [w \in {} |-> 0] /\ candidates = {}
    /\ generation = 0 /\ lastDisappeared = 0
    /\ replaced = FALSE /\ concurrent = FALSE
    /\ live \in SUBSET Windows /\ stayed = live
    /\ ctx = "live"
    /\ observation = "none" /\ notified = FALSE /\ hookFailed = FALSE
    /\ session = "none" /\ unseen = {} /\ event = NoEvent
    /\ used = FALSE /\ closed = FALSE /\ closeErr = FALSE
    /\ tracked = NoResult

-----------------------------------------------------------------------------
(***************************************************************************)
(* The world: windows appear and disappear, the hook's thread turns some   *)
(* of that into a notification (hiding a window makes none, and events are *)
(* coalesced in the one slot), its message loop may fail, and the context  *)
(* ends.                                                                   *)
(***************************************************************************)
WindowsChange ==
    /\ \E w \in Windows : live' = IF w \in live THEN live \ {w} ELSE live \cup {w}
    /\ stayed' = stayed \cap live'
    /\ UNCHANGED <<trackerVars, ctx, hookVars, sessionVars>>

DispatchWinEvent ==
    /\ observation = "open"
    /\ notified' = TRUE
    /\ UNCHANGED <<trackerVars, worldVars, observation, hookFailed, sessionVars>>

HookFails ==
    /\ observation = "open"
    /\ hookFailed' = TRUE
    /\ UNCHANGED <<trackerVars, worldVars, observation, notified, sessionVars>>

ContextEnds ==
    /\ ctx = "live"
    /\ ctx' \in {"canceled", "deadline"}
    /\ UNCHANGED <<trackerVars, live, stayed, hookVars, sessionVars>>

World == WindowsChange \/ DispatchWinEvent \/ HookFails \/ ContextEnds

-----------------------------------------------------------------------------
(***************************************************************************)
(* A snapshot: EnumWindows lists all top-level windows, the hidden ones    *)
(* too, and then each has its turn.  One that is gone or hidden by then is *)
(* skipped; inspecting and revalidating it are one look, which stands for  *)
(* the one that decided.                                                   *)
(***************************************************************************)
Enumerate ==
    /\ unseen' \in {listed \in SUBSET Windows : live \subseteq listed}
    /\ event' = EventOf("snapshot")

(* The event of the snapshot under way after a look that has found a       *)
(* window, or none.                                                        *)
After(found) ==
    [event EXCEPT !.snapshot = @ \cup found, !.late = @ \/ ctx # "live"]

(* Mutant: a window whose process cannot be asked is skipped.              *)
InspectWindowLeniently(place) ==
    /\ session = place
    /\ \E w \in unseen :
           /\ unseen' = unseen \ {w}
           /\ event' \in {After({}), After(live \cap {w})}
    /\ UNCHANGED <<trackerVars, worldVars, hookVars, session, used, closed,
                   closeErr, tracked>>

InspectWindow(place) ==
    /\ session = place
    /\ \E w \in unseen :
           /\ unseen' = unseen \ {w}
           /\ event' = After(live \cap {w})
    /\ UNCHANGED <<trackerVars, worldVars, hookVars, session, used, closed,
                   closeErr, tracked>>

(***************************************************************************)
(* Begin: the baseline is taken before the hook and the poller start, so   *)
(* whatever appears in between is a candidate.  Any of it may fail, and    *)
(* then there is no session.                                               *)
(***************************************************************************)
StartBaseline ==
    /\ session = "none"
    /\ Enumerate
    /\ session' = "baseline"
    /\ UNCHANGED <<trackerVars, worldVars, hookVars, used, closed, closeErr,
                   tracked>>

TakeBaseline ==
    /\ session = "baseline"
    /\ unseen = {}
    /\ NewTracker(event.snapshot)
    /\ event' = NoEvent
    /\ session' = "hook"
    /\ UNCHANGED <<worldVars, hookVars, unseen, used, closed, closeErr, tracked>>

StartHook ==
    /\ session = "hook"
    /\ session' = "idle"
    /\ observation' = "open"
    /\ UNCHANGED <<trackerVars, worldVars, notified, hookFailed, unseen, event,
                   used, closed, closeErr, tracked>>

BeginFails ==
    /\ session \in {"none", "baseline", "hook"}
    /\ session' = "refused"
    /\ unseen' = {} /\ event' = NoEvent
    /\ UNCHANGED <<trackerVars, worldVars, hookVars, used, closed, closeErr,
                   tracked>>

-----------------------------------------------------------------------------
(* Wait.                                                                   *)
Wait ==
    /\ session = "idle"
    /\ ~used /\ ~closed
    /\ used' = TRUE
    /\ session' = "loop"
    /\ UNCHANGED <<trackerVars, worldVars, hookVars, unseen, event, closed,
                   closeErr, tracked>>

WaitRefused ==
    /\ session = "idle"
    /\ used \/ closed
    /\ tracked' = Failed
    /\ UNCHANGED <<trackerVars, worldVars, hookVars, session, unseen, event,
                   used, closed, closeErr>>

(***************************************************************************)
(* The loop looks at the context before it calls Next and again before it  *)
(* acts upon what Next has returned; the context may end after each look.  *)
(***************************************************************************)
(* Mutant: the context is not looked at.                                   *)
LookAway(from, to) ==
    /\ session = from
    /\ session' = to
    /\ UNCHANGED <<trackerVars, worldVars, hookVars, unseen, event, used, closed,
                   closeErr, tracked>>

Look(from, to) ==
    /\ session = from
    /\ ctx = "live"
    /\ session' = to
    /\ UNCHANGED <<trackerVars, worldVars, hookVars, unseen, event, used, closed,
                   closeErr, tracked>>

(***************************************************************************)
(* Next: any ready case of the select may be taken.  A tick is always to   *)
(* come; a notification or a tick makes it take a snapshot, which may fail *)
(* at any of its windows.                                                  *)
(***************************************************************************)
StartScan ==
    /\ generation < MaxSnapshots
    /\ session = "next"
    /\ session' = "scan"
    /\ Enumerate
    /\ UNCHANGED <<trackerVars, worldVars, observation, used, closed, closeErr,
                   tracked>>

NextNotification ==
    /\ notified
    /\ notified' = FALSE
    /\ StartScan
    /\ UNCHANGED hookFailed

(* Mutant: no poller.                                                      *)
NextTickNever == FALSE

NextTick ==
    /\ StartScan
    /\ UNCHANGED <<notified, hookFailed>>

FailedEvent == EventOf("failed")

ScanEnds ==
    /\ session = "scan"
    /\ unseen = {}
    /\ session' = "handle"
    /\ UNCHANGED <<trackerVars, worldVars, hookVars, unseen, event, used, closed,
                   closeErr, tracked>>

ScanFails ==
    /\ session = "scan"
    /\ session' = "handle"
    /\ unseen' = {} /\ event' = FailedEvent
    /\ UNCHANGED <<trackerVars, worldVars, hookVars, used, closed, closeErr,
                   tracked>>

Deliver(what) ==
    /\ session = "next"
    /\ session' = "handle"
    /\ event' = what
    /\ UNCHANGED <<trackerVars, worldVars, observation, unseen, used, closed,
                   closeErr, tracked>>

NextFailure ==
    /\ hookFailed
    /\ hookFailed' = FALSE
    /\ Deliver(FailedEvent)
    /\ UNCHANGED notified

(* Mutant: the context's own error is taken for an outcome.                *)
ContextOutcomeRaw(err) == err

ContextOutcome(err) == IF err = "deadline" THEN "timed_out" ELSE "cancelled"

NextContext ==
    /\ ctx # "live"
    /\ Deliver(EventOf(ContextOutcome(ctx)))
    /\ UNCHANGED <<notified, hookFailed>>

(***************************************************************************)
(* What the loop makes of an ended context, and of an event.               *)
(***************************************************************************)
Handle(from) ==
    /\ session = from
    /\ event' = NoEvent
    /\ UNCHANGED <<worldVars, hookVars, unseen, used, closed, closeErr>>

Settle(result) ==
    /\ tracked' = result
    /\ session' = "close"

(* Mutant: an ended context only starts the loop again.                    *)
HandleContextIgnored(from) ==
    /\ Handle(from)
    /\ ctx # "live"
    /\ session' = "loop"
    /\ UNCHANGED <<trackerVars, tracked>>

HandleContext(from) ==
    /\ Handle(from)
    /\ ctx # "live"
    /\ Settle(ResultOf(ContextOutcome(ctx)))
    /\ UNCHANGED trackerVars

Choose ==
    \/ \E w \in Windows : /\ IsChoice(w)'
                          /\ Settle([outcome |-> "completed", window |-> w])
    \/ /\ ~ \E w \in Windows : IsChoice(w)'
       /\ session' = "loop"
       /\ UNCHANGED tracked

HandleSnapshot ==
    /\ Handle("act")
    /\ event.type = "snapshot"
    /\ Observe(event.snapshot)
    /\ Choose

EventOutcome ==
    CASE event.type = "cancelled" -> "cancelled"
      [] event.type = "timed_out" -> TimeoutOutcome
      [] OTHER                    -> "failed"

(* Mutant: a failure ends Wait without closing the observation.            *)
HandleOtherUnclosed ==
    /\ Handle("act")
    /\ event.type # "snapshot"
    /\ tracked' = ResultOf(EventOutcome)
    /\ session' = "idle"
    /\ UNCHANGED trackerVars

HandleOther ==
    /\ Handle("act")
    /\ event.type # "snapshot"
    /\ Settle(ResultOf(EventOutcome))
    /\ UNCHANGED trackerVars

-----------------------------------------------------------------------------
(***************************************************************************)
(* Close stops the poller and the hook once.  An error of it says that the *)
(* hook may be left installed, or that it had failed before it was taken   *)
(* down.  At the end of Wait it turns whatever was found into a failure.   *)
(***************************************************************************)
CloseObservation ==
    /\ closed' = TRUE
    /\ closeErr' \in BOOLEAN
    /\ observation' \in IF closeErr' THEN {"closed", "left"} ELSE {"closed"}

CloseAfterWait ==
    /\ session = "close"
    /\ CloseObservation
    /\ session' = "idle"
    /\ tracked' = IF closeErr' THEN Failed ELSE tracked
    /\ UNCHANGED <<trackerVars, worldVars, notified, hookFailed, unseen, event,
                   used>>

Close ==
    /\ session = "idle"
    /\ ~closed
    /\ CloseObservation
    /\ UNCHANGED <<trackerVars, worldVars, notified, hookFailed, session,
                   unseen, event, used, tracked>>

-----------------------------------------------------------------------------
Begin ==
    \/ StartBaseline \/ InspectWindow("baseline") \/ TakeBaseline
    \/ StartHook \/ BeginFails

SessionStep ==
    \/ Look("loop", "next") \/ HandleContext("loop")
    \/ NextNotification \/ NextTick \/ NextFailure \/ NextContext
    \/ InspectWindow("scan") \/ ScanEnds \/ ScanFails
    \/ Look("handle", "act") \/ HandleContext("handle")
    \/ HandleSnapshot \/ HandleOther
    \/ CloseAfterWait

Next == World \/ Begin \/ Wait \/ WaitRefused \/ Close \/ SessionStep

Spec == Init /\ [][Next]_trackingVars

(* The session's goroutine runs on, and the ticker ticks.                  *)
FairSpec == Spec /\ WF_trackingVars(SessionStep)

-----------------------------------------------------------------------------
(***************************************************************************)
(* A window is chosen only if it was not there before the launch, is the   *)
(* only new one in the last snapshot, and another new one had been seen    *)
(* and is gone (service.go:133-174).                                       *)
(***************************************************************************)
ChosenWindowReplacedAnother ==
    tracked.outcome = "completed" =>
        /\ tracked.window \in Windows \ baseline
        /\ candidates = {tracked.window}
        /\ \E gone \in observed \ candidates : gone \notin baseline

(***************************************************************************)
(* A window that has been open since before the session began is never     *)
(* taken for the launched one, however the other windows come and go while *)
(* the baseline and the snapshots look at them one by one                  *)
(* (snapshot.go:37-74, service.go:133-174).                                *)
(***************************************************************************)
OldWindowIsNotChosen ==
    tracked.outcome = "completed" => tracked.window \notin stayed

(***************************************************************************)
(* The result tells how the context ended, and only then: the workflow and *)
(* the service behind it take "cancelled" and "timed_out" at their word    *)
(* (service.go:60-98).                                                     *)
(***************************************************************************)
ResultAgreesWithContext ==
    /\ tracked.outcome = "cancelled" => ctx = "canceled"
    /\ tracked.outcome = "timed_out" => ctx = "deadline"

(***************************************************************************)
(* The observation is open while Wait uses it.  Once Wait has returned it  *)
(* is closed, whatever Wait returned, and if its hook may have been left   *)
(* installed Wait says that it failed (service.go:36-58, 110-117,          *)
(* hook_windows.go:79-85, 124).                                            *)
(***************************************************************************)
Waiting == {"loop", "next", "scan", "handle", "act", "close"}

WaitReleasesObservation ==
    /\ session \in Waiting => observation = "open"
    /\ session = "idle" => (closed <=> observation \in {"closed", "left"})
    /\ session = "idle" /\ used =>
           closed /\ (observation = "left" => tracked = Failed)

(***************************************************************************)
(* A window is chosen only from a snapshot whose every look came before    *)
(* the end of the context: one that the context overtook shows windows of  *)
(* a launch that has been given up.  The context may still end between the *)
(* last look at it and the choice (service.go:65-77, snapshot.go:45-63).   *)
(***************************************************************************)
LateLooksDecideNothing ==
    [][tracked.outcome # "completed" /\ tracked'.outcome = "completed" =>
           ~event.late]_trackingVars

(***************************************************************************)
(* An ended context ends Wait (service.go:60-87, observer.go:69-83).       *)
(***************************************************************************)
WaitEnds == (session \in {"loop", "next"} /\ ctx # "live") ~> session = "idle"

(***************************************************************************)
(* Polling makes up for lost notifications: once some new window has been  *)
(* seen and another, never seen before, has taken its place for good, Wait *)
(* chooses it or fails, though no WinEvent may ever arrive; one snapshot   *)
(* is enough (observer.go:69-83).                                          *)
(***************************************************************************)
ReplacedBy(w) ==
    /\ observed # {}
    /\ w \notin observed
    /\ live \ baseline = {w}

PollingFindsTheReplacement ==
    \A w \in Windows :
        (session = "next" /\ generation < MaxSnapshots /\ ReplacedBy(w)) ~>
            \/ tracked \in {[outcome |-> "completed", window |-> w], Failed}
            \/ ctx # "live"
            \/ live \ baseline # {w}

(***************************************************************************)
(* "A cancellation and an unexpected loss of the candidate can be told     *)
(* apart as results of the product implementation", by the tracking result *)
(* and the error code of a loss                                            *)
(* (docs/adr/0002-track-chrome-window-lifecycle.md, lines 75 and 85-86):   *)
(* a session whose candidates have all gone does not report a plain        *)
(* timeout.                                                                *)
(***************************************************************************)
LossIsReported ==
    tracked.outcome = "timed_out" => ~(candidates = {} /\ observed # {})
=============================================================================
