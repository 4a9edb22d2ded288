--------------------------- MODULE LaunchWorkflow ---------------------------
(***************************************************************************)
(* Workflow.Run of one operation, over a tracking session and the windows  *)
(* of Chrome.  A stage ends where the code looks at the context or calls   *)
(* out: the context may end between a look and the call that follows it.   *)
(*                                                                         *)
(* Preparing, detecting, launching and placing are calls of other services *)
(* that return, or fail with one of the codes the workflow gives them.     *)
(***************************************************************************)
EXTENDS OperationModel

CONSTANTS Windows, MaxSnapshots

ASSUME WorkflowAssumption == MaxSnapshots \in Nat

VARIABLES
    baseline, firstSeen, candidates, generation, lastDisappeared,
    replaced, concurrent, live, stayed, ctx, observation, notified,
    hookFailed, session, unseen, event, used, closed, closeErr, tracked

Tracking == INSTANCE WindowTracking

VARIABLES
    stage,     \* the next thing Run does
    launched,  \* a Chrome process has been started
    moved,     \* the windows that calls of Move have hit
    answer,    \* {} or {the WorkflowResult of Run}
    late       \* auxiliary: calls begun after the context had ended

trackingVars == <<baseline, firstSeen, candidates, generation,
                  lastDisappeared, replaced, concurrent, live, stayed, ctx,
                  observation, notified, hookFailed, session, unseen, event,
                  used, closed, closeErr, tracked>>
workflowVars == <<launched, moved>>
vars == <<trackingVars, stage, launched, moved, answer, late>>

Stages == {"enter", "prepare", "prepared", "detect", "detected", "begin",
           "begun", "launch", "track", "tracked", "place",
           "initial_measurement", "move_to_target", "moving",
           "wait_for_stability", "final_placement", "resizing",
           "final_measurement", "placed", "done"}

(* Where Run is inside Place, and has its result.                          *)
Placing == {"initial_measurement", "move_to_target", "moving",
            "wait_for_stability", "final_placement", "resizing",
            "final_measurement", "placed"}

(* A window other than the tracked one that has its handle.                *)
Stranger == "another window"

ASSUME StrangerAssumption == Stranger \notin Windows

TypeOK ==
    /\ Tracking!TypeOK
    /\ stage \in Stages
    /\ launched \in BOOLEAN
    /\ moved \subseteq Windows \cup {Stranger}
    /\ answer \in {{}} \cup {{result} : result \in WorkflowResultType}
    /\ late \in Nat

Init ==
    /\ Tracking!Init
    /\ stage = "enter"
    /\ launched = FALSE
    /\ moved = {}
    /\ answer = {}
    /\ late = 0

-----------------------------------------------------------------------------
WorkflowResult(outcome, code) == [outcome |-> outcome, code |-> code]
FailedWorkflow(code) == WorkflowResult("failed", code)

(* workflowContextResult of a context that has ended.                      *)
ContextResult == WorkflowResult(ContextTerminalState(ctx), "none")

Enter(from, to) == stage = from /\ stage' = to

Return(from, result) == Enter(from, "done") /\ answer' = {result}

(* A call of another service that does some of the work (closing the       *)
(* session does not): counted when the context had already ended.          *)
Call == late' = IF ctx = "live" THEN late ELSE late + 1

(***************************************************************************)
(* Looking at the context between two calls.                               *)
(***************************************************************************)
(* Mutant: the context is not looked at.                                   *)
ProceedRegardless(from, to) ==
    /\ Enter(from, to)
    /\ UNCHANGED <<trackingVars, workflowVars, answer, late>>

Proceed(from, to) ==
    /\ Enter(from, to)
    /\ ctx = "live"
    /\ UNCHANGED <<trackingVars, workflowVars, answer, late>>

Stop(from) ==
    /\ ctx # "live"
    /\ Return(from, ContextResult)
    /\ UNCHANGED <<trackingVars, workflowVars, late>>

(***************************************************************************)
(* Stopping with an open session closes it; if that fails, a result that   *)
(* names no failure becomes one.                                           *)
(***************************************************************************)
(* Mutant: the close error only changes the outcome.                       *)
CloseSessionResultUnnamed(result, err) ==
    IF err THEN WorkflowResult("failed", result.code) ELSE result

CloseSessionResult(result, err) ==
    IF err /\ result.code = "none"
    THEN FailedWorkflow("window_observation_failed") ELSE result

StopAndClose ==
    /\ ctx # "live"
    /\ Tracking!Close
    /\ Return("begun", CloseSessionResult(ContextResult, closeErr'))
    /\ UNCHANGED <<workflowVars, late>>

-----------------------------------------------------------------------------
Prepare ==
    /\ Enter("prepare", "prepared")
    /\ Call
    /\ UNCHANGED <<trackingVars, workflowVars, answer>>

PrepareFails ==
    /\ Return("prepare", FailedWorkflow("work_area_unavailable"))
    /\ Call
    /\ UNCHANGED <<trackingVars, workflowVars>>

PrepareRejects ==
    /\ Return("prepare", WorkflowResult("invalid", "invalid_request"))
    /\ Call
    /\ UNCHANGED <<trackingVars, workflowVars>>

Detect ==
    /\ Enter("detect", "detected")
    /\ Call
    /\ UNCHANGED <<trackingVars, workflowVars, answer>>

DetectFails ==
    /\ \E code \in {"chrome_not_found", "unsupported_platform", "unexpected_failure"} :
           Return("detect", FailedWorkflow(code))
    /\ Call
    /\ UNCHANGED <<trackingVars, workflowVars>>

BeginTracking ==
    /\ stage = "begin"
    /\ \/ Tracking!StartBaseline /\ UNCHANGED stage /\ Call
       \/ /\ Tracking!InspectWindow("baseline") \/ Tracking!TakeBaseline
          /\ UNCHANGED <<stage, late>>
       \/ Tracking!StartHook /\ stage' = "begun" /\ UNCHANGED late
    /\ UNCHANGED <<workflowVars, answer>>

BeginFails ==
    /\ Tracking!BeginFails
    /\ Return("begin", FailedWorkflow("window_observation_failed"))
    /\ IF session = "none" THEN Call ELSE UNCHANGED late
    /\ UNCHANGED workflowVars

Launch ==
    /\ Enter("launch", "track")
    /\ launched' = TRUE
    /\ Call
    /\ UNCHANGED <<trackingVars, moved, answer>>

(* The process may be running although its start is reported as a failure. *)
(* Mutant: the session is left open.                                       *)
LaunchFailsUnclosed ==
    /\ Return("launch", FailedWorkflow("launch_failed"))
    /\ launched' \in BOOLEAN
    /\ Call
    /\ UNCHANGED <<trackingVars, moved>>

LaunchFails ==
    /\ Tracking!Close
    /\ \E code \in {"launch_failed", "unsupported_platform"} :
           Return("launch", CloseSessionResult(FailedWorkflow(code), closeErr'))
    /\ launched' \in BOOLEAN
    /\ Call
    /\ UNCHANGED moved

-----------------------------------------------------------------------------
(* Wait is called without a look at the context; it looks itself.          *)
Track ==
    /\ Enter("track", "tracked")
    /\ Tracking!Wait
    /\ Call
    /\ UNCHANGED <<workflowVars, answer>>

SessionStep ==
    /\ Tracking!SessionStep
    /\ UNCHANGED <<stage, workflowVars, answer, late>>

HasReturned == stage = "tracked" /\ session = "idle"

(* trackingWorkflowResult of a session that chose no window.               *)
TrackingResult ==
    CASE tracked.outcome \in {"cancelled", "timed_out"} ->
             WorkflowResult(tracked.outcome, "none")
      [] tracked.outcome = "ambiguous"      -> FailedWorkflow("ambiguous_windows")
      [] tracked.outcome = "candidate_lost" -> FailedWorkflow("window_candidate_lost")
      [] OTHER -> FailedWorkflow("window_observation_failed")

TrackReturns ==
    /\ HasReturned
    /\ tracked.outcome # "completed"
    /\ Return("tracked", TrackingResult)
    /\ UNCHANGED <<trackingVars, workflowVars, late>>

TrackFinds ==
    /\ HasReturned
    /\ tracked.outcome = "completed"
    /\ Proceed("tracked", "place") \/ Stop("tracked")

-----------------------------------------------------------------------------
(***************************************************************************)
(* Place: two moves.  Before each of them the identity of the window is    *)
(* confirmed and the context looked at; by the time of the move the window *)
(* may have gone and its handle be that of another.  After each of them    *)
(* the window is measured, its identity confirmed again, until it settles. *)
(* WindowPlacement has the details, such as the samples.                   *)
(***************************************************************************)
Place ==
    /\ Enter("place", "initial_measurement")
    /\ Call
    /\ UNCHANGED <<trackingVars, workflowVars, answer>>

MeasureInitially ==
    /\ Enter("initial_measurement", "move_to_target")
    /\ tracked.window \in live
    /\ UNCHANGED <<trackingVars, workflowVars, answer, late>>

Confirm(from, to) ==
    /\ Enter(from, to)
    /\ tracked.window \in live
    /\ ctx = "live"
    /\ UNCHANGED <<trackingVars, workflowVars, answer, late>>

(* A window that is only hidden is still moved.                            *)
Move(from, to) ==
    /\ Enter(from, to)
    /\ \E hit \in {tracked.window} \cup (IF tracked.window \in live THEN {} ELSE {Stranger}) :
           moved' = moved \cup {hit}
    /\ UNCHANGED <<trackingVars, launched, answer, late>>

(* Mutant: the samples are taken without a check of the identity.          *)
AwaitStabilityBlindly(from, to) ==
    /\ Enter(from, to)
    /\ ctx = "live"
    /\ UNCHANGED <<trackingVars, workflowVars, answer, late>>

AwaitStability(from, to) ==
    /\ Enter(from, to)
    /\ tracked.window \in live
    /\ ctx = "live"
    /\ UNCHANGED <<trackingVars, workflowVars, answer, late>>

PlaceSucceeds ==
    /\ Return("placed", WorkflowResult("completed", "none"))
    /\ UNCHANGED <<trackingVars, workflowVars, late>>

(* Any call of Place may fail, and the final bounds be refused or missed;  *)
(* an ended context takes the blame.                                       *)
PlaceFails ==
    /\ stage \in Placing
    /\ Return(stage, IF ctx # "live" THEN ContextResult
                                     ELSE FailedWorkflow("placement_failed"))
    /\ UNCHANGED <<trackingVars, workflowVars, late>>

PlaceStep ==
    \/ Place \/ MeasureInitially
    \/ Confirm("move_to_target", "moving")
    \/ Move("moving", "wait_for_stability")
    \/ AwaitStability("wait_for_stability", "final_placement")
    \/ Confirm("final_placement", "resizing")
    \/ Move("resizing", "final_measurement")
    \/ AwaitStability("final_measurement", "placed")
    \/ PlaceSucceeds \/ PlaceFails

-----------------------------------------------------------------------------
(* A handle that has gone to another window does not come back.            *)
World ==
    /\ Tracking!World
    /\ Stranger \in moved => tracked.window \notin live'
    /\ UNCHANGED <<stage, workflowVars, answer, late>>

Run ==
    \/ Proceed("enter", "prepare") \/ Stop("enter")
    \/ Prepare \/ PrepareFails \/ PrepareRejects
    \/ Proceed("prepared", "detect") \/ Stop("prepared")
    \/ Detect \/ DetectFails
    \/ Proceed("detected", "begin") \/ Stop("detected")
    \/ BeginTracking \/ BeginFails
    \/ Proceed("begun", "launch") \/ StopAndClose
    \/ Launch \/ LaunchFails
    \/ Track \/ SessionStep \/ TrackReturns \/ TrackFinds
    \/ PlaceStep

Next == World \/ Run

Spec == Init /\ [][Next]_vars

(* The goroutine runs on and the calls it makes return.                    *)
FairSpec == Spec /\ WF_vars(Run)

-----------------------------------------------------------------------------
(***************************************************************************)
(* The workflow does what the service relies on (workflow.go:73-211): one  *)
(* truthful answer, given once the context has ended.                      *)
(***************************************************************************)
Contract == INSTANCE WorkflowContract

KeepsTheContract == Contract!Spec

(***************************************************************************)
(* A call begun after the end of the context is the one whose look at it   *)
(* had come just before.  Only LaunchDetected is followed by another, Wait *)
(* without a look, and that one takes no snapshot any more; and no window  *)
(* is moved in consequence of a late call (workflow.go:77-137,             *)
(* service.go:60-64, placement.go:76-87).                                  *)
(***************************************************************************)
LateCallsMoveNothing ==
    /\ late <= 2
    /\ late = 2 => launched /\ generation = 0
    /\ late > 0 => moved = {}

(***************************************************************************)
(* Run has closed the session it opened, on every way out, and does not    *)
(* keep silent about a hook that may be left installed: its answer is then *)
(* a failure with a code (workflow.go:112-121, 165-174, service.go:45-53). *)
(***************************************************************************)
RunReleasesObservation ==
    answer # {} =>
        /\ observation # "open"
        /\ observation = "left" =>
              \A result \in answer : result.outcome = "failed" /\ result.code # "none"

(***************************************************************************)
(* A move is that of a window chosen after Chrome was launched.  When the  *)
(* handle has gone to another window after the last check, that one is     *)
(* moved instead: no other move follows, and Run does not complete         *)
(* (workflow.go:121-151, placement.go:79-131, 156-175).                    *)
(***************************************************************************)
StrayMoveEndsPlacing ==
    /\ moved # {} => launched /\ tracked.outcome = "completed"
    /\ Stranger \in moved => stage \notin {"moving", "resizing"}
    /\ \A result \in answer : result.outcome = "completed" => moved = {tracked.window}

(***************************************************************************)
(* "Confirm the uniqueness of the candidate and [its identity] before each *)
(* operation, and do not correct the window when uniqueness or identity    *)
(* cannot be confirmed"                                                    *)
(* (docs/adr/0001-control-chrome-window-on-windows.md).                    *)
(***************************************************************************)
MovedWindowIsTheOnlyCandidate ==
    [][stage' # stage /\ stage' \in {"moving", "resizing"} =>
           live \ baseline = {tracked.window}]_vars
=============================================================================
