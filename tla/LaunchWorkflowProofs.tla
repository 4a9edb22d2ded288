------------------------ MODULE LaunchWorkflowProofs ------------------------
(***************************************************************************)
(* Theorems about LaunchWorkflow for any set of windows and any number of  *)
(* snapshots.  The facts about its session are those of TrackingProofs:    *)
(* every step of the workflow is a step of the session, or leaves it       *)
(* alone.  TrackerHistory, which TrackingProofs is about as well, has no   *)
(* part here.                                                              *)
(***************************************************************************)
EXTENDS LaunchWorkflow, TLAPS

Facts == INSTANCE TrackingProofs WITH MaxHistory <- 0, history <- <<>>

(***************************************************************************)
(* The session that Run uses and the one the facts are about are instances *)
(* of the same module, action by action.                                   *)
(***************************************************************************)
LEMMA SameStep == Tracking!Next => Facts!Next
<1>1. Tracking!World => Facts!World
  BY DEF Tracking!World, Facts!World, Tracking!WindowsChange,
     Facts!WindowsChange, Tracking!DispatchWinEvent, Facts!DispatchWinEvent,
     Tracking!HookFails, Facts!HookFails, Tracking!ContextEnds,
     Facts!ContextEnds, Tracking!trackerVars, Facts!trackerVars,
     Tracking!worldVars, Facts!worldVars, Tracking!hookVars, Facts!hookVars,
     Tracking!sessionVars, Facts!sessionVars
<1>2. Tracking!StartBaseline => Facts!StartBaseline
  BY DEF Tracking!StartBaseline, Facts!StartBaseline, Tracking!Enumerate,
     Facts!Enumerate, Tracking!EventOf, Facts!EventOf, Tracking!trackerVars,
     Facts!trackerVars, Tracking!worldVars, Facts!worldVars,
     Tracking!hookVars, Facts!hookVars, Tracking!sessionVars,
     Facts!sessionVars
<1>3. Tracking!InspectWindow("baseline") => Facts!InspectWindow("baseline")
  BY DEF Tracking!InspectWindow, Facts!InspectWindow, Tracking!After,
     Facts!After, Tracking!trackerVars, Facts!trackerVars, Tracking!worldVars, Facts!worldVars,
     Tracking!hookVars, Facts!hookVars, Tracking!sessionVars,
     Facts!sessionVars
<1>4. Tracking!TakeBaseline => Facts!TakeBaseline
  BY DEF Tracking!TakeBaseline, Facts!TakeBaseline, Tracking!NewTracker,
     Facts!NewTracker, Tracking!NoEvent, Facts!NoEvent, Tracking!EventOf,
     Facts!EventOf, Tracking!trackerVars, Facts!trackerVars, Tracking!worldVars, Facts!worldVars,
     Tracking!hookVars, Facts!hookVars, Tracking!sessionVars,
     Facts!sessionVars
<1>5. Tracking!StartHook => Facts!StartHook
  BY DEF Tracking!StartHook, Facts!StartHook, Tracking!trackerVars,
     Facts!trackerVars, Tracking!worldVars, Facts!worldVars,
     Tracking!hookVars, Facts!hookVars, Tracking!sessionVars,
     Facts!sessionVars
<1>6. Tracking!BeginFails => Facts!BeginFails
  BY DEF Tracking!BeginFails, Facts!BeginFails, Tracking!NoEvent,
     Facts!NoEvent, Tracking!EventOf, Facts!EventOf, Tracking!trackerVars,
     Facts!trackerVars, Tracking!worldVars, Facts!worldVars,
     Tracking!hookVars, Facts!hookVars, Tracking!sessionVars,
     Facts!sessionVars
<1>7. Tracking!Wait => Facts!Wait
  BY DEF Tracking!Wait, Facts!Wait, Tracking!trackerVars, Facts!trackerVars,
     Tracking!worldVars, Facts!worldVars, Tracking!hookVars, Facts!hookVars,
     Tracking!sessionVars, Facts!sessionVars
<1>8. Tracking!WaitRefused => Facts!WaitRefused
  BY DEF Tracking!WaitRefused, Facts!WaitRefused, Tracking!Failed,
     Facts!Failed, Tracking!ResultOf, Facts!ResultOf, Tracking!NoWindow,
     Facts!NoWindow, Tracking!trackerVars, Facts!trackerVars,
     Tracking!worldVars, Facts!worldVars, Tracking!hookVars, Facts!hookVars,
     Tracking!sessionVars, Facts!sessionVars
<1>9. Tracking!Close => Facts!Close
  BY DEF Tracking!Close, Facts!Close, Tracking!CloseObservation,
     Facts!CloseObservation, Tracking!trackerVars, Facts!trackerVars,
     Tracking!worldVars, Facts!worldVars, Tracking!hookVars, Facts!hookVars,
     Tracking!sessionVars, Facts!sessionVars
<1>10. Tracking!NextNotification => Facts!NextNotification
  BY DEF Tracking!NextNotification, Facts!NextNotification,
     Tracking!StartScan, Facts!StartScan, Tracking!Enumerate, Facts!Enumerate,
     Tracking!EventOf, Facts!EventOf,
     Tracking!trackerVars, Facts!trackerVars, Tracking!worldVars,
     Facts!worldVars, Tracking!hookVars, Facts!hookVars, Tracking!sessionVars,
     Facts!sessionVars
<1>11. Tracking!NextTick => Facts!NextTick
  BY DEF Tracking!NextTick, Facts!NextTick, Tracking!StartScan,
     Facts!StartScan, Tracking!Enumerate, Facts!Enumerate,
     Tracking!EventOf, Facts!EventOf, Tracking!trackerVars, Facts!trackerVars, Tracking!worldVars,
     Facts!worldVars, Tracking!hookVars, Facts!hookVars, Tracking!sessionVars,
     Facts!sessionVars
<1>12. Tracking!NextFailure => Facts!NextFailure
  BY DEF Tracking!NextFailure, Facts!NextFailure, Tracking!Deliver,
     Facts!Deliver, Tracking!FailedEvent, Facts!FailedEvent,
     Tracking!EventOf, Facts!EventOf,
     Tracking!trackerVars, Facts!trackerVars, Tracking!worldVars,
     Facts!worldVars, Tracking!hookVars, Facts!hookVars, Tracking!sessionVars,
     Facts!sessionVars
<1>13. Tracking!NextContext => Facts!NextContext
  BY DEF Tracking!NextContext, Facts!NextContext, Tracking!Deliver,
     Facts!Deliver, Tracking!ContextOutcome, Facts!ContextOutcome,
     Tracking!EventOf, Facts!EventOf,
     Tracking!trackerVars, Facts!trackerVars, Tracking!worldVars,
     Facts!worldVars, Tracking!hookVars, Facts!hookVars, Tracking!sessionVars,
     Facts!sessionVars
<1>14. Tracking!InspectWindow("scan") => Facts!InspectWindow("scan")
  BY DEF Tracking!InspectWindow, Facts!InspectWindow, Tracking!After,
     Facts!After, Tracking!trackerVars, Facts!trackerVars, Tracking!worldVars, Facts!worldVars,
     Tracking!hookVars, Facts!hookVars, Tracking!sessionVars,
     Facts!sessionVars
<1>15. Tracking!ScanEnds => Facts!ScanEnds
  BY DEF Tracking!ScanEnds, Facts!ScanEnds, Tracking!trackerVars,
     Facts!trackerVars, Tracking!worldVars, Facts!worldVars,
     Tracking!hookVars, Facts!hookVars, Tracking!sessionVars,
     Facts!sessionVars
<1>16. Tracking!ScanFails => Facts!ScanFails
  BY DEF Tracking!ScanFails, Facts!ScanFails, Tracking!FailedEvent,
     Facts!FailedEvent, Tracking!EventOf, Facts!EventOf,
     Tracking!trackerVars, Facts!trackerVars,
     Tracking!worldVars, Facts!worldVars, Tracking!hookVars, Facts!hookVars,
     Tracking!sessionVars, Facts!sessionVars
<1>17. /\ Tracking!HandleContext("loop") => Facts!HandleContext("loop")
       /\ Tracking!HandleContext("handle") => Facts!HandleContext("handle")
  BY DEF Tracking!HandleContext, Facts!HandleContext, Tracking!Handle,
     Facts!Handle, Tracking!Settle, Facts!Settle, Tracking!NoEvent,
     Facts!NoEvent, Tracking!EventOf, Facts!EventOf, Tracking!ResultOf, Facts!ResultOf, Tracking!NoWindow,
     Facts!NoWindow, Tracking!ContextOutcome, Facts!ContextOutcome,
     Tracking!worldVars, Facts!worldVars, Tracking!hookVars, Facts!hookVars,
     Tracking!trackerVars, Facts!trackerVars
<1>18. Tracking!HandleOther => Facts!HandleOther
  BY DEF Tracking!HandleOther, Facts!HandleOther, Tracking!Handle,
     Facts!Handle, Tracking!Settle, Facts!Settle, Tracking!NoEvent,
     Facts!NoEvent, Tracking!EventOf, Facts!EventOf, Tracking!ResultOf,
     Facts!ResultOf, Tracking!NoWindow, Facts!NoWindow, Tracking!EventOutcome, Facts!EventOutcome,
     Tracking!TimeoutOutcome, Facts!TimeoutOutcome, Tracking!observed,
     Facts!observed, Tracking!worldVars, Facts!worldVars, Tracking!hookVars,
     Facts!hookVars, Tracking!trackerVars, Facts!trackerVars
<1>19. Tracking!HandleSnapshot => Facts!HandleSnapshot
  <2>1. \A S : Tracking!Cardinality(S) = Facts!Cardinality(S)
    BY DEF Tracking!Cardinality, Facts!Cardinality
  <2>2. Tracking!Observe(event.snapshot) => Facts!Observe(event.snapshot)
    BY <2>1 DEF Tracking!Observe, Facts!Observe, Tracking!New, Facts!New,
      Tracking!IsReplacement, Facts!IsReplacement, Tracking!LatestOf, Facts!LatestOf,
      Tracking!Max, Facts!Max, Tracking!observed, Facts!observed
  <2>3. Tracking!Choose => Facts!Choose
    BY DEF Tracking!Choose, Facts!Choose, Tracking!Settle, Facts!Settle,
      Tracking!IsChoice, Facts!IsChoice
  <2>4. Tracking!Handle("act") => Facts!Handle("act")
    BY DEF Tracking!Handle, Facts!Handle, Tracking!worldVars, Facts!worldVars,
      Tracking!hookVars, Facts!hookVars, Tracking!NoEvent, Facts!NoEvent,
      Tracking!EventOf, Facts!EventOf
  <2>5. QED
    BY <2>2, <2>3, <2>4 DEF Tracking!HandleSnapshot, Facts!HandleSnapshot
<1>20. Tracking!CloseAfterWait => Facts!CloseAfterWait
  BY DEF Tracking!CloseAfterWait, Facts!CloseAfterWait,
     Tracking!CloseObservation, Facts!CloseObservation, Tracking!Failed,
     Facts!Failed, Tracking!ResultOf, Facts!ResultOf, Tracking!NoWindow,
     Facts!NoWindow, Tracking!trackerVars, Facts!trackerVars,
     Tracking!worldVars, Facts!worldVars, Tracking!hookVars, Facts!hookVars,
     Tracking!sessionVars, Facts!sessionVars
<1>24. /\ Tracking!Look("loop", "next") => Facts!Look("loop", "next")
       /\ Tracking!Look("handle", "act") => Facts!Look("handle", "act")
  BY DEF Tracking!Look, Facts!Look, Tracking!trackerVars, Facts!trackerVars,
     Tracking!worldVars, Facts!worldVars, Tracking!hookVars, Facts!hookVars
<1>21. Tracking!Begin => Facts!Begin
  BY <1>2, <1>3, <1>4, <1>5, <1>6 DEF Tracking!Begin, Facts!Begin
<1>22. Tracking!SessionStep => Facts!SessionStep
  BY <1>10, <1>11, <1>12, <1>13, <1>14, <1>15, <1>16, <1>17, <1>18, <1>19, <1>20,
     <1>24 DEF Tracking!SessionStep, Facts!SessionStep
<1>23. QED
  BY <1>1, <1>7, <1>8, <1>9, <1>21, <1>22 DEF Tracking!Next, Facts!Next

LEMMA SameStart == Tracking!Init => Facts!Init
BY DEF Tracking!Init, Facts!Init, Tracking!NoEvent, Facts!NoEvent,
       Tracking!EventOf, Facts!EventOf, Tracking!NoResult, Facts!NoResult, Tracking!NoWindow, Facts!NoWindow

(* Every step of the workflow is a step of its session or leaves it alone. *)
LEMMA SessionMoves == [Next]_vars => [Facts!Next]_(Facts!trackingVars)
<1> SUFFICES ASSUME [Next]_vars
             PROVE  Tracking!Next \/ UNCHANGED trackingVars
  BY SameStep DEF trackingVars, Facts!trackingVars, Facts!trackerVars,
     Facts!worldVars, Facts!hookVars, Facts!sessionVars
<1> USE DEF Tracking!Next, Tracking!Begin
<1>1. CASE World \/ SessionStep
  BY <1>1 DEF World, SessionStep
<1>2. CASE BeginTracking \/ BeginFails
  BY <1>2 DEF BeginTracking, BeginFails
<1>3. CASE StopAndClose \/ LaunchFails \/ Track
  BY <1>3 DEF StopAndClose, LaunchFails, Track
<1>4. CASE Prepare \/ PrepareFails \/ PrepareRejects \/ Detect \/ DetectFails
           \/ Launch
  BY <1>4 DEF Prepare, PrepareFails, PrepareRejects, Detect, DetectFails, Launch
<1>5. CASE TrackReturns \/ TrackFinds \/ PlaceStep
  BY <1>5 DEF TrackReturns, TrackFinds, Proceed, Stop, PlaceStep, Place,
     MeasureInitially, Confirm, Move, AwaitStability, PlaceSucceeds, PlaceFails
<1>6. ASSUME NEW from, NEW to, Proceed(from, to) \/ Stop(from)
      PROVE  UNCHANGED trackingVars
  BY <1>6 DEF Proceed, Stop
<1>7. CASE UNCHANGED vars
  BY <1>7 DEF vars
<1>8. QED
  BY <1>1, <1>2, <1>3, <1>4, <1>5, <1>6, <1>7 DEF Next, Run

LEMMA SessionInvariant == Spec => []Facts!TrackingInvariant
<1>1. Init => Facts!TrackingInvariant
  BY WorkflowAssumption, SameStart, Facts!InvariantInit DEF Init
<1>2. Facts!TrackingInvariant /\ [Next]_vars => Facts!TrackingInvariant'
  BY WorkflowAssumption, SessionMoves, Facts!InvariantStep
<1>3. QED
  BY <1>1, <1>2, PTL DEF Spec

-----------------------------------------------------------------------------
(***************************************************************************)
(* The stage of Run tells where its session is.                            *)
(***************************************************************************)
Beginning == {"none", "baseline", "hook"}
Waiting   == {"loop", "next", "scan", "handle", "act", "close"}

StageMatchesSession ==
    /\ stage \in {"enter", "prepare", "prepared", "detect", "detected"} =>
           session = "none"
    /\ stage = "begin" => session \in Beginning
    /\ stage \in {"begun", "launch", "track"} =>
           session = "idle" /\ ~used /\ ~closed
    /\ stage = "tracked" => session \in Waiting \cup {"idle"} /\ used
    /\ stage \in {"place"} \cup Placing =>
           session = "idle" /\ used /\ tracked.outcome = "completed"
    /\ stage = "done" => \/ session \in {"none", "refused"}
                         \/ session = "idle" /\ (closed \/ used)
    /\ stage = "done" <=> answer # {}

(***************************************************************************)
(* A late call is the last one but for Wait after LaunchDetected: the      *)
(* context is not live any more, so that no look lets Run go on.  A Wait   *)
(* that is the second late call settles at its first look.                 *)
(***************************************************************************)
SettledAtOnce ==
    /\ launched /\ generation = 0 /\ tracked.outcome # "completed"
    /\ stage \in {"tracked", "done"}
    /\ session \in {"loop", "close", "idle"}

LateCallIsTheLast ==
    /\ late \in 0 .. 2
    /\ ctx = "live" => late = 0
    /\ stage \in {"enter", "prepare", "detect", "launch", "place"} => late = 0
    /\ stage = "begin" /\ session = "none" => late = 0
    /\ stage \in Placing \ {"initial_measurement", "move_to_target"} => late = 0
    /\ late > 0 => moved = {}
    /\ late = 2 => SettledAtOnce

(***************************************************************************)
(* A stray move is found out by the next look at the identity, because a   *)
(* handle does not come back.                                              *)
(***************************************************************************)
OnlyPlacingMoves ==
    /\ stage \in {"track", "tracked", "place"} \cup Placing => launched
    /\ moved # {} => /\ stage \in Placing \cup {"done"}
                     /\ stage \notin {"initial_measurement", "move_to_target", "moving"}
                     /\ launched
                     /\ tracked.outcome = "completed"
                     /\ moved \subseteq {tracked.window, Stranger}
                     /\ session = "idle" /\ used
    /\ Stranger \in moved =>
           /\ stage \in {"wait_for_stability", "final_measurement", "done"}
           /\ tracked.window \notin live
    /\ stage \in {"wait_for_stability", "final_measurement"} => moved # {}
    /\ stage \in {"final_placement", "resizing", "placed"} => moved = {tracked.window}
    /\ \A result \in answer : result.outcome = "completed" => moved = {tracked.window}

(* A hook that may be left installed makes the answer a failure.           *)
LossOfHookIsTold ==
    observation = "left" =>
        \A result \in answer : result.outcome = "failed" /\ result.code # "none"

RunTypeOK ==
    /\ stage \in Stages
    /\ launched \in BOOLEAN
    /\ moved \subseteq Windows \cup {Stranger}
    /\ answer \in {{}} \cup {{result} : result \in WorkflowResultType}

RunInvariant ==
    /\ RunTypeOK
    /\ StageMatchesSession
    /\ LateCallIsTheLast
    /\ OnlyPlacingMoves
    /\ LossOfHookIsTold

(* What the session's invariant says of the variables that Run looks at.   *)
SessionIsSound ==
    /\ session \in Beginning \cup Waiting \cup {"refused", "idle"}
    /\ session \in Beginning \cup {"refused"} =>
           observation = "none" /\ ~used /\ ~closed
    /\ session = "idle" => (closed <=> observation \in {"closed", "left"})
    /\ session = "idle" /\ used =>
           closed /\ (observation = "left" => tracked.outcome = "failed")
    /\ session = "idle" => observation # "none"
    /\ session \in Waiting => observation = "open"
    /\ ~used => generation = 0
    /\ ~used /\ ~closed => tracked.outcome # "completed"
    /\ used \in BOOLEAN /\ closed \in BOOLEAN /\ ctx \in {"live", "canceled", "deadline"}
    /\ tracked.outcome = "cancelled" => ctx = "canceled"
    /\ tracked.outcome = "timed_out" => ctx = "deadline"
    /\ tracked.outcome = "completed" =>
           tracked.window \in Windows /\ tracked.window \notin baseline

LEMMA SessionFacts == Facts!TrackingInvariant => SessionIsSound
<1> SUFFICES ASSUME Facts!TrackingInvariant PROVE SessionIsSound
  OBVIOUS
<1>1. /\ tracked = Facts!Failed => tracked.outcome = "failed"
      /\ tracked = Facts!NoResult => tracked.outcome # "completed"
  BY DEF Facts!Failed, Facts!ResultOf, Facts!NoResult
<1>2. /\ session \in Beginning \cup Waiting \cup {"refused", "idle"}
      /\ used \in BOOLEAN /\ closed \in BOOLEAN /\ ctx \in {"live", "canceled", "deadline"}
  BY DEF Facts!TrackingInvariant, Facts!TypeOK, Facts!Contexts, Beginning, Waiting
<1>3. /\ session \in Beginning \cup {"refused"} =>
             observation = "none" /\ ~used /\ ~closed
      /\ session = "idle" => observation # "none"
      /\ ~used => generation = 0
      /\ ~used /\ ~closed => tracked.outcome # "completed"
  BY <1>1 DEF Facts!TrackingInvariant, Facts!ResultsAreEarned, Beginning
<1>4. /\ session = "idle" => (closed <=> observation \in {"closed", "left"})
      /\ session = "idle" /\ used =>
             closed /\ (observation = "left" => tracked.outcome = "failed")
      /\ session \in Waiting => observation = "open"
  BY <1>1 DEF Facts!TrackingInvariant, Facts!WaitReleasesObservation, Waiting,
     Facts!Waiting
<1>5. /\ tracked.outcome = "cancelled" => ctx = "canceled"
      /\ tracked.outcome = "timed_out" => ctx = "deadline"
      /\ tracked.outcome = "completed" =>
             tracked.window \in Windows /\ tracked.window \notin baseline
  BY DEF Facts!TrackingInvariant, Facts!ResultAgreesWithContext,
     Facts!ChosenWindowReplacedAnother
<1>6. QED
  BY <1>2, <1>3, <1>4, <1>5 DEF SessionIsSound

(* What the steps of the session do to the variables that Run looks at.    *)
LEMMA WorldMoves ==
    World => /\ UNCHANGED <<session, used, closed, tracked, generation,
                            observation, stage, launched, moved, answer, late>>
             /\ Stranger \in moved => tracked.window \notin live'
             /\ ctx' # ctx => ctx = "live"
BY DEF World, workflowVars, Tracking!World, Tracking!WindowsChange,
       Tracking!DispatchWinEvent, Tracking!HookFails, Tracking!ContextEnds,
       Tracking!sessionVars, Tracking!hookVars, Tracking!worldVars,
       Tracking!trackerVars

LEMMA WaitMoves ==
    Tracking!SessionStep =>
        /\ session \in Waiting /\ session' \in Waiting \cup {"idle"}
        /\ session \in {"loop", "close"} /\ ctx # "live" =>
               /\ session' \in {"close", "idle"}
               /\ UNCHANGED generation
               /\ tracked'.outcome = "completed" => tracked.outcome = "completed"
        /\ UNCHANGED <<used, live, ctx>>
<1> USE DEF Waiting, Tracking!worldVars
<1>1. Tracking!NextNotification \/ Tracking!NextTick =>
          session = "next" /\ session' = "scan" /\ UNCHANGED <<used, live, ctx>>
  BY DEF Tracking!NextNotification, Tracking!NextTick, Tracking!StartScan
<1>2. Tracking!NextFailure \/ Tracking!NextContext =>
          session = "next" /\ session' = "handle" /\ UNCHANGED <<used, live, ctx>>
  BY DEF Tracking!NextFailure, Tracking!NextContext, Tracking!Deliver
<1>3. Tracking!InspectWindow("scan") =>
          session = "scan" /\ session' = "scan" /\ UNCHANGED <<used, live, ctx>>
  BY DEF Tracking!InspectWindow
<1>4. Tracking!ScanEnds \/ Tracking!ScanFails =>
          session = "scan" /\ session' = "handle" /\ UNCHANGED <<used, live, ctx>>
  BY DEF Tracking!ScanEnds, Tracking!ScanFails
<1>5. Tracking!Look("loop", "next") \/ Tracking!Look("handle", "act") =>
          /\ session \in {"loop", "handle"} /\ session' \in {"next", "act"}
          /\ ctx = "live" /\ UNCHANGED <<used, live, ctx>>
  BY DEF Tracking!Look
<1>6. Tracking!HandleContext("loop") \/ Tracking!HandleContext("handle") =>
          /\ session \in {"loop", "handle"} /\ session' = "close"
          /\ UNCHANGED generation
          /\ tracked'.outcome # "completed"
          /\ UNCHANGED <<used, live, ctx>>
  BY DEF Tracking!HandleContext, Tracking!Handle, Tracking!Settle,
     Tracking!ResultOf, Tracking!ContextOutcome, Tracking!trackerVars
<1>7. Tracking!HandleSnapshot \/ Tracking!HandleOther =>
          /\ session = "act" /\ session' \in {"loop", "close"}
          /\ UNCHANGED <<used, live, ctx>>
  BY DEF Tracking!HandleSnapshot, Tracking!HandleOther, Tracking!Handle,
     Tracking!Choose, Tracking!Settle
<1>8. Tracking!CloseAfterWait =>
          /\ session = "close" /\ session' = "idle"
          /\ UNCHANGED generation
          /\ tracked'.outcome = "completed" => tracked.outcome = "completed"
          /\ UNCHANGED <<used, live, ctx>>
  BY DEF Tracking!CloseAfterWait, Tracking!Failed, Tracking!ResultOf,
     Tracking!trackerVars
<1>9. QED
  BY <1>1, <1>2, <1>3, <1>4, <1>5, <1>6, <1>7, <1>8 DEF Tracking!SessionStep

LEMMA BeginMoves ==
    BeginTracking =>
        /\ session \in Beginning
        /\ session = "none" => session' = "baseline" /\ UNCHANGED stage /\ Call
        /\ session # "none" => UNCHANGED late
        /\ \/ stage' = "begin" /\ session' \in Beginning \ {"none"}
           \/ stage' = "begun" /\ session' = "idle"
        /\ stage = "begin"
        /\ UNCHANGED <<used, closed, tracked, live, ctx, launched, moved, answer>>
BY DEF BeginTracking, Beginning, workflowVars, Tracking!StartBaseline,
       Tracking!InspectWindow, Tracking!TakeBaseline, Tracking!StartHook,
       Tracking!worldVars

LEMMA CloseMoves ==
    Tracking!Close =>
        /\ session = "idle" /\ closed'
        /\ observation' = "left" => closeErr'
        /\ UNCHANGED <<session, used, tracked, live, ctx>>
BY DEF Tracking!Close, Tracking!CloseObservation, Tracking!worldVars

-----------------------------------------------------------------------------
(* The answers Run gives.                                                  *)
Answers ==
    {ContextResult, TrackingResult, WorkflowResult("completed", "none"),
     WorkflowResult("invalid", "invalid_request")}
    \cup {FailedWorkflow(code) : code \in ErrorCodes \ {"none"}}

LEMMA AnswersAreSound ==
    ASSUME SessionIsSound
    PROVE  \A result \in Answers :
               /\ result \in WorkflowResultType
               /\ ctx # "live" \/ result # ContextResult => Contract!Promised(result, ctx)
               /\ result.outcome = "completed" =>
                      result = WorkflowResult("completed", "none")
<1> USE DEF WorkflowResult, FailedWorkflow, WorkflowResultType, Outcomes, ErrorCodes,
    Contract!Promised, Contract!AgreesWithContext
<1>1. ContextResult \in WorkflowResultType
  BY DEF ContextResult, ContextTerminalState
<1>2. ctx # "live" => Contract!Promised(ContextResult, ctx)
  BY DEF ContextResult, ContextTerminalState, SessionIsSound
<1>3. ContextResult.outcome # "completed"
  BY DEF ContextResult, ContextTerminalState
<1>4. TrackingResult \in WorkflowResultType /\ TrackingResult.outcome # "completed"
  BY DEF TrackingResult
<1>5. Contract!Promised(TrackingResult, ctx)
  BY DEF TrackingResult, SessionIsSound
<1>6. \A code \in ErrorCodes \ {"none"} :
          /\ FailedWorkflow(code) \in WorkflowResultType
          /\ FailedWorkflow(code).outcome # "completed"
          /\ Contract!Promised(FailedWorkflow(code), ctx)
  OBVIOUS
<1>7. \A result \in {WorkflowResult("completed", "none"),
                     WorkflowResult("invalid", "invalid_request")} :
          /\ result \in WorkflowResultType
          /\ Contract!Promised(result, ctx)
          /\ result.outcome = "completed" => result = WorkflowResult("completed", "none")
  OBVIOUS
<1>8. QED
  BY <1>1, <1>2, <1>3, <1>4, <1>5, <1>6, <1>7 DEF Answers

(* An answer is one of these; it is given once, and "completed" only of a  *)
(* window that has been placed.                                            *)
Answered ==
    /\ stage # "done" /\ stage' = "done"
    /\ \E result \in Answers :
           /\ result.outcome = "completed" => stage = "placed"
           /\ result = ContextResult => ctx # "live"
           /\ answer' = {result}

Silent == UNCHANGED answer /\ (stage' = "done" <=> stage = "done")

LEMMA RunAnswers ==
    ASSUME Run, SessionIsSound
    PROVE  (Silent \/ Answered) /\ UNCHANGED ctx
<1> USE DEF Silent, Return, Enter, trackingVars
<1>1. ASSUME NEW result \in Answers, NEW from, from # "done", Return(from, result),
             result.outcome = "completed" => stage = "placed",
             result = ContextResult => ctx # "live"
      PROVE  Answered
  BY <1>1 DEF Answered
<1>2. \A code \in ErrorCodes \ {"none"} :
          /\ FailedWorkflow(code) \in Answers
          /\ FailedWorkflow(code).outcome = "failed"
          /\ FailedWorkflow(code).code = code
  BY DEF Answers, FailedWorkflow, WorkflowResult
<1>3. /\ ContextResult \in Answers /\ ContextResult.outcome \in {"cancelled", "timed_out"}
      /\ ContextResult.code = "none"
  BY DEF Answers, ContextResult, ContextTerminalState, WorkflowResult
<1>4. ASSUME NEW from, NEW to, from # "done", to # "done", Proceed(from, to)
      PROVE  Silent /\ UNCHANGED ctx
  BY <1>4 DEF Proceed
<1>5. ASSUME NEW from, from # "done", Stop(from)
      PROVE  Answered /\ UNCHANGED ctx
  BY <1>1, <1>3, <1>5 DEF Stop
<1>6. CASE Prepare \/ Detect \/ Launch
  BY <1>6 DEF Prepare, Detect, Launch
<1>20. CASE \/ Place \/ MeasureInitially
            \/ Confirm("move_to_target", "moving")
            \/ Move("moving", "wait_for_stability")
            \/ AwaitStability("wait_for_stability", "final_placement")
            \/ Confirm("final_placement", "resizing")
            \/ Move("resizing", "final_measurement")
            \/ AwaitStability("final_measurement", "placed")
  BY <1>20 DEF Place, MeasureInitially, Confirm, Move, AwaitStability
<1>7. CASE BeginTracking
  BY <1>7, BeginMoves
<1>8. CASE Track \/ SessionStep
  BY <1>8, WaitMoves DEF Track, SessionStep, Tracking!Wait, Tracking!worldVars
<1>9. CASE PrepareFails
  BY <1>9, <1>1, <1>2, <1>3 DEF PrepareFails, ErrorCodes
<1>10. CASE PrepareRejects
  <2>1. /\ WorkflowResult("invalid", "invalid_request") \in Answers
        /\ WorkflowResult("invalid", "invalid_request").outcome = "invalid"
    BY DEF Answers, WorkflowResult
  <2>2. QED
    BY <1>10, <1>1, <1>3, <2>1 DEF PrepareRejects
<1>11. CASE DetectFails
  BY <1>11, <1>1, <1>2, <1>3 DEF DetectFails, ErrorCodes
<1>12. CASE BeginFails
  BY <1>12, <1>1, <1>2, <1>3 DEF BeginFails, ErrorCodes, Tracking!BeginFails,
     Tracking!worldVars
<1>13. CASE StopAndClose
  <2>1. CloseSessionResult(ContextResult, closeErr') \in
            {ContextResult, FailedWorkflow("window_observation_failed")}
    BY DEF CloseSessionResult
  <2>2. QED
    BY <1>13, <1>1, <1>2, <1>3, <2>1, CloseMoves DEF StopAndClose, ErrorCodes
<1>14. CASE LaunchFails
  <2>1. \A code \in {"launch_failed", "unsupported_platform"} :
            CloseSessionResult(FailedWorkflow(code), closeErr') = FailedWorkflow(code)
    BY <1>2 DEF CloseSessionResult, ErrorCodes
  <2>2. QED
    BY <1>14, <1>1, <1>2, <1>3, <2>1, CloseMoves DEF LaunchFails, ErrorCodes
<1>15. CASE TrackReturns
  <2>1. /\ TrackingResult \in Answers /\ TrackingResult.outcome # "completed"
        /\ TrackingResult = ContextResult => ctx # "live"
    BY DEF Answers, TrackingResult, ContextResult, ContextTerminalState,
       WorkflowResult, FailedWorkflow, SessionIsSound
  <2>2. QED
    BY <1>15, <1>1, <2>1 DEF TrackReturns
<1>16. CASE TrackFinds
  BY <1>16, <1>4, <1>5 DEF TrackFinds
<1>17. CASE PlaceSucceeds
  <2>1. /\ WorkflowResult("completed", "none") \in Answers
        /\ WorkflowResult("completed", "none").outcome = "completed"
    BY DEF Answers, WorkflowResult
  <2>2. QED
    BY <1>17, <1>1, <1>3, <2>1 DEF PlaceSucceeds
<1>18. CASE PlaceFails
  <2> stage # "done"
    BY <1>18 DEF PlaceFails, Placing
  <2>1. CASE ctx # "live"
    BY <1>18, <1>1, <1>3, <2>1 DEF PlaceFails
  <2>2. CASE ctx = "live"
    BY <1>18, <1>1, <1>2, <1>3, <2>2 DEF PlaceFails, ErrorCodes
  <2>3. QED
    BY <2>1, <2>2
<1>19. QED
  BY <1>4, <1>5, <1>6, <1>7, <1>8, <1>9, <1>10, <1>11, <1>12, <1>13, <1>14, <1>15,
     <1>16, <1>17, <1>18, <1>20 DEF Run, PlaceStep

LEMMA TypePart ==
    ASSUME RunInvariant, SessionIsSound, [Next]_vars PROVE RunTypeOK'
<1> USE DEF RunInvariant, RunTypeOK, Stages, workflowVars
<1>1. CASE World
  BY <1>1, WorldMoves
<1>2. CASE UNCHANGED vars
  BY <1>2 DEF vars
<1>3. CASE Run
  <2>1. answer' \in {{}} \cup {{result} : result \in WorkflowResultType}
    BY <1>3, RunAnswers, AnswersAreSound DEF Silent, Answered
  <2>2. /\ stage' \in Stages /\ launched' \in BOOLEAN
        /\ moved' \subseteq Windows \cup {Stranger}
    <3> USE DEF Enter, Return
    <3>1. CASE \E from, to \in Stages : Proceed(from, to) \/ Stop(from)
      BY <3>1 DEF Proceed, Stop
    <3>2. CASE \/ Prepare \/ PrepareFails \/ PrepareRejects \/ Detect \/ DetectFails
               \/ BeginFails \/ StopAndClose \/ Launch \/ LaunchFails \/ Track
               \/ SessionStep \/ TrackReturns \/ PlaceSucceeds \/ PlaceFails
      BY <3>2 DEF Prepare, PrepareFails, PrepareRejects, Detect, DetectFails,
         BeginFails, StopAndClose, Launch, LaunchFails, Track, SessionStep,
         TrackReturns, PlaceSucceeds, PlaceFails
    <3>3. CASE BeginTracking
      BY <3>3, BeginMoves
    <3>4. CASE Move("moving", "wait_for_stability") \/ Move("resizing", "final_measurement")
      BY <3>4 DEF Move, StageMatchesSession, Placing, SessionIsSound
    <3>7. CASE \/ Place \/ MeasureInitially
               \/ Confirm("move_to_target", "moving")
               \/ AwaitStability("wait_for_stability", "final_placement")
               \/ Confirm("final_placement", "resizing")
               \/ AwaitStability("final_measurement", "placed")
      BY <3>7 DEF Place, MeasureInitially, Confirm, AwaitStability
    <3>5. CASE TrackFinds
      BY <3>5, <3>1 DEF TrackFinds
    <3>6. QED
      BY <1>3, <3>1, <3>2, <3>3, <3>4, <3>5, <3>7 DEF Run, PlaceStep
  <2>3. QED
    BY <2>1, <2>2
<1>4. QED
  BY <1>1, <1>2, <1>3 DEF Next

LEMMA StagePart ==
    ASSUME RunInvariant, SessionIsSound, SessionIsSound', [Next]_vars
    PROVE  StageMatchesSession'
<1> USE DEF RunInvariant, RunTypeOK, StageMatchesSession, Beginning, Waiting,
    Placing, Enter, Return, trackingVars
<1>1. CASE World
  BY <1>1, WorldMoves
<1>2. CASE UNCHANGED vars
  BY <1>2 DEF vars
<1>3. CASE Run
  <2>1. (Silent \/ Answered) /\ UNCHANGED ctx
    BY <1>3, RunAnswers
  <2>2. (stage = "done" <=> answer # {})'
    BY <2>1 DEF Silent, Answered
  <2>3. CASE \/ Proceed("enter", "prepare") \/ Stop("enter")
             \/ Proceed("prepared", "detect") \/ Stop("prepared")
             \/ Proceed("detected", "begin") \/ Stop("detected")
             \/ Proceed("begun", "launch")
    BY <2>2, <2>3 DEF Proceed, Stop
  <2>4. CASE \/ Prepare \/ PrepareFails \/ PrepareRejects
             \/ Detect \/ DetectFails \/ Launch
    BY <2>2, <2>4 DEF Prepare, PrepareFails, PrepareRejects, Detect, DetectFails,
       Launch
  <2>5. CASE BeginTracking
    BY <2>2, <2>5, BeginMoves DEF SessionIsSound
  <2>6. CASE BeginFails
    BY <2>2, <2>6 DEF BeginFails, Tracking!BeginFails
  <2>7. CASE StopAndClose \/ LaunchFails
    BY <2>2, <2>7, CloseMoves DEF StopAndClose, LaunchFails
  <2>8. CASE Track
    BY <2>2, <2>8 DEF Track, Tracking!Wait
  <2>9. CASE SessionStep
    BY <2>2, <2>9, WaitMoves DEF SessionStep, SessionIsSound
  <2>10. CASE TrackReturns \/ TrackFinds
    BY <2>2, <2>10 DEF TrackReturns, TrackFinds, HasReturned, Proceed, Stop
  <2>11. CASE PlaceStep
    BY <2>2, <2>11 DEF PlaceStep, Place, MeasureInitially, Confirm, Move,
       AwaitStability, PlaceSucceeds, PlaceFails
  <2>12. QED
    BY <1>3, <2>3, <2>4, <2>5, <2>6, <2>7, <2>8, <2>9, <2>10, <2>11 DEF Run
<1>4. QED
  BY <1>1, <1>2, <1>3 DEF Next

LEMMA LatePart ==
    ASSUME RunInvariant, SessionIsSound, [Next]_vars
    PROVE  LateCallIsTheLast'
<1> USE DEF RunInvariant, RunTypeOK, StageMatchesSession, LateCallIsTheLast,
    Beginning, Waiting, Placing, Enter, Return, Call
<1>1. CASE World
  BY <1>1, WorldMoves DEF SettledAtOnce
<1>2. CASE UNCHANGED vars
  BY <1>2 DEF vars, trackingVars, SettledAtOnce
<1>3. CASE Run
  <2>1. UNCHANGED ctx
    BY <1>3, RunAnswers
  <2>0. /\ stage \notin {"tracked", "done"} => late \in {0, 1}
        /\ stage \notin Placing \cup {"done"} => moved = {}
    BY DEF OnlyPlacingMoves, SettledAtOnce
  <2>2. CASE \/ Proceed("enter", "prepare") \/ Stop("enter")
             \/ Proceed("prepared", "detect") \/ Stop("prepared")
             \/ Proceed("detected", "begin") \/ Stop("detected")
             \/ Proceed("begun", "launch")
    BY <2>0, <2>1, <2>2 DEF Proceed, Stop, workflowVars
  <2>3. CASE \/ Prepare \/ PrepareFails \/ PrepareRejects
             \/ Detect \/ DetectFails \/ Launch
    BY <2>0, <2>1, <2>3 DEF Prepare, PrepareFails, PrepareRejects, Detect,
       DetectFails, Launch, workflowVars
  <2>4. CASE BeginTracking
    BY <2>0, <2>1, <2>4, BeginMoves
  <2>5. CASE BeginFails \/ StopAndClose
    BY <2>0, <2>1, <2>5 DEF BeginFails, StopAndClose, workflowVars
  <2>6. CASE LaunchFails
    BY <2>0, <2>1, <2>6 DEF LaunchFails
  <2>7. CASE Track
    <3>1. /\ late' \in 0 .. 2 /\ stage' = "tracked" /\ moved' = {}
          /\ ctx' = "live" => late' = 0
      BY <2>0, <2>1, <2>7 DEF Track, workflowVars
    <3>2. SettledAtOnce'
      BY <2>7 DEF Track, OnlyPlacingMoves, SessionIsSound, Tracking!Wait,
         Tracking!trackerVars, workflowVars, SettledAtOnce
    <3>3. QED
      BY <3>1, <3>2
  <2>8. CASE SessionStep
    BY <2>1, <2>8, WaitMoves DEF SessionStep, workflowVars, SettledAtOnce
  <2>9. CASE TrackReturns \/ TrackFinds
    BY <2>1, <2>9 DEF TrackReturns, TrackFinds, HasReturned, Proceed, Stop,
       workflowVars, trackingVars, SettledAtOnce
  <2>10. CASE PlaceStep
    BY <2>0, <2>1, <2>10 DEF PlaceStep, Place, MeasureInitially, Confirm, Move,
       AwaitStability, PlaceSucceeds, PlaceFails, workflowVars
  <2>12. QED
    BY <1>3, <2>2, <2>3, <2>4, <2>5, <2>6, <2>7, <2>8, <2>9, <2>10 DEF Run
<1>4. QED
  BY <1>1, <1>2, <1>3 DEF Next

LEMMA MovePart ==
    ASSUME RunInvariant, SessionIsSound, [Next]_vars
    PROVE  OnlyPlacingMoves'
<1> USE DEF RunInvariant, RunTypeOK, StageMatchesSession, OnlyPlacingMoves,
    Beginning, Waiting, Placing, Enter, Return, trackingVars, workflowVars
<1>1. CASE World
  BY <1>1, WorldMoves
<1>2. CASE UNCHANGED vars
  BY <1>2 DEF vars
<1>3. CASE Run
  <2>1. (Silent \/ Answered) /\ UNCHANGED ctx
    BY <1>3, RunAnswers
  <2>2. UNCHANGED <<moved, tracked>> =>
            \A result \in answer' : result.outcome = "completed" => moved' = {tracked.window}'
    BY <2>1 DEF Silent, Answered
  <2>3. CASE \/ Proceed("enter", "prepare") \/ Stop("enter")
             \/ Proceed("prepared", "detect") \/ Stop("prepared")
             \/ Proceed("detected", "begin") \/ Stop("detected")
             \/ Proceed("begun", "launch")
    BY <2>2, <2>3 DEF Proceed, Stop
  <2>4. CASE \/ Prepare \/ PrepareFails \/ PrepareRejects
             \/ Detect \/ DetectFails \/ Launch
    BY <2>2, <2>4 DEF Prepare, PrepareFails, PrepareRejects, Detect, DetectFails,
       Launch
  <2>5. CASE BeginTracking
    BY <2>2, <2>5, BeginMoves
  <2>6. CASE BeginFails
    BY <2>2, <2>6 DEF BeginFails, Tracking!BeginFails
  <2>7. CASE StopAndClose \/ LaunchFails
    BY <2>2, <2>7, CloseMoves DEF StopAndClose, LaunchFails
  <2>8. CASE Track
    BY <2>2, <2>8 DEF Track, Tracking!Wait
  <2>9. CASE SessionStep
    BY <2>9, WaitMoves DEF SessionStep
  <2>10. CASE TrackReturns \/ TrackFinds
    BY <2>2, <2>10 DEF TrackReturns, TrackFinds, Proceed, Stop
  <2>11. CASE Move("moving", "wait_for_stability") \/ Move("resizing", "final_measurement")
    <3>1. /\ tracked.outcome = "completed" /\ session = "idle" /\ used /\ launched
          /\ moved \subseteq {tracked.window} /\ answer = {}
      BY <2>11 DEF Move
    <3>2. tracked.window # Stranger
      BY <3>1, StrangerAssumption DEF SessionIsSound
    <3>3. /\ stage' \in {"wait_for_stability", "final_measurement"}
          /\ moved' # {} /\ moved' \subseteq {tracked.window, Stranger}
          /\ Stranger \in moved' => tracked.window \notin live
          /\ UNCHANGED <<tracked, live, session, used, launched, answer>>
      BY <2>11, <3>1, <3>2 DEF Move
    <3>4. QED
      BY <3>1, <3>3
  <2>12. CASE \/ Place \/ MeasureInitially
              \/ Confirm("move_to_target", "moving")
              \/ Confirm("final_placement", "resizing")
    BY <2>2, <2>12 DEF Place, MeasureInitially, Confirm
  <2>13. CASE \/ AwaitStability("wait_for_stability", "final_placement")
              \/ AwaitStability("final_measurement", "placed")
    <3>1. moved = {tracked.window}
      BY <2>13 DEF AwaitStability
    <3>2. QED
      BY <2>2, <2>13, <3>1 DEF AwaitStability
  <2>14. CASE PlaceSucceeds \/ PlaceFails
    BY <2>2, <2>14 DEF PlaceSucceeds, PlaceFails
  <2>15. QED
    BY <1>3, <2>3, <2>4, <2>5, <2>6, <2>7, <2>8, <2>9, <2>10, <2>11, <2>12, <2>13,
       <2>14 DEF Run, PlaceStep
<1>4. QED
  BY <1>1, <1>2, <1>3 DEF Next

(* What is closed when Run answers was closed by it or at the end of Wait. *)
LEMMA HookPart ==
    ASSUME RunInvariant, SessionIsSound, SessionIsSound', StageMatchesSession',
           [Next]_vars
    PROVE  LossOfHookIsTold'
<1> USE DEF RunInvariant, RunTypeOK, StageMatchesSession, LossOfHookIsTold,
    Beginning, Waiting, Placing, Enter, Return, trackingVars
<1>1. CASE World
  BY <1>1, WorldMoves
<1>2. CASE UNCHANGED vars
  BY <1>2 DEF vars
<1>3. CASE Run
  <2>1. CASE answer' = {}
    BY <2>1
  <2>2. CASE StopAndClose
    <3>1. observation' = "left" => closeErr'
      BY <2>2, CloseMoves DEF StopAndClose
    <3>2. closeErr' => CloseSessionResult(ContextResult, closeErr') =
                           FailedWorkflow("window_observation_failed")
      BY DEF CloseSessionResult, ContextResult, WorkflowResult
    <3>3. answer' = {CloseSessionResult(ContextResult, closeErr')}
      BY <2>2 DEF StopAndClose
    <3>4. /\ FailedWorkflow("window_observation_failed").outcome = "failed"
          /\ FailedWorkflow("window_observation_failed").code = "window_observation_failed"
      BY DEF FailedWorkflow, WorkflowResult
    <3>5. QED
      BY <3>1, <3>2, <3>3, <3>4
  <2>3. CASE LaunchFails
    <3>1. PICK code \in {"launch_failed", "unsupported_platform"} :
              answer' = {CloseSessionResult(FailedWorkflow(code), closeErr')}
      BY <2>3 DEF LaunchFails
    <3>2. QED
      BY <3>1 DEF CloseSessionResult, FailedWorkflow, WorkflowResult
  <2>4. CASE TrackReturns
    <3>1. observation = "left" => tracked.outcome = "failed"
      BY <2>4 DEF TrackReturns, HasReturned, SessionIsSound
    <3>2. tracked.outcome = "failed" =>
              TrackingResult = FailedWorkflow("window_observation_failed")
      BY DEF TrackingResult
    <3>3. answer' = {TrackingResult} /\ UNCHANGED observation
      BY <2>4 DEF TrackReturns
    <3>4. QED
      BY <3>1, <3>2, <3>3 DEF FailedWorkflow, WorkflowResult
  <2>5. CASE TrackFinds \/ PlaceSucceeds \/ PlaceFails
    <3>1. session = "idle" /\ used /\ tracked.outcome = "completed"
      BY <2>5 DEF TrackFinds, HasReturned, PlaceSucceeds, PlaceFails
    <3>2. observation # "left" /\ UNCHANGED observation
      BY <2>5, <3>1 DEF SessionIsSound, TrackFinds, Proceed, Stop, PlaceSucceeds,
         PlaceFails
    <3>3. QED
      BY <3>2
  <2>6. CASE \/ PrepareFails \/ PrepareRejects \/ DetectFails
             \/ Stop("enter") \/ Stop("prepared") \/ Stop("detected")
    <3>1. session = "none" /\ UNCHANGED observation
      BY <2>6 DEF PrepareFails, PrepareRejects, DetectFails, Stop
    <3>2. QED
      BY <3>1 DEF SessionIsSound
  <2>7. CASE BeginFails
    BY <2>7 DEF BeginFails, Tracking!BeginFails, Tracking!hookVars, SessionIsSound
  <2>8. CASE \/ Prepare \/ Detect \/ Launch \/ BeginTracking \/ Track \/ SessionStep
             \/ Proceed("enter", "prepare") \/ Proceed("prepared", "detect")
             \/ Proceed("detected", "begin") \/ Proceed("begun", "launch")
             \/ Place \/ MeasureInitially
             \/ Confirm("move_to_target", "moving")
             \/ Move("moving", "wait_for_stability")
             \/ AwaitStability("wait_for_stability", "final_placement")
             \/ Confirm("final_placement", "resizing")
             \/ Move("resizing", "final_measurement")
             \/ AwaitStability("final_measurement", "placed")
    <3>1. stage # "done" /\ UNCHANGED answer
      BY <2>8, WaitMoves DEF Prepare, Detect, Launch, BeginTracking, Track, SessionStep,
         Proceed, Place, MeasureInitially, Confirm, Move, AwaitStability
    <3>2. QED
      BY <2>1, <3>1
  <2>9. QED
    BY <1>3, <2>2, <2>3, <2>4, <2>5, <2>6, <2>7, <2>8 DEF Run, PlaceStep
<1>4. QED
  BY <1>1, <1>2, <1>3 DEF Next

-----------------------------------------------------------------------------
LEMMA RunIsInvariant == Spec => [](Facts!TrackingInvariant /\ RunInvariant)
<1>1. Init => RunInvariant
  <2> SUFFICES ASSUME Init PROVE RunInvariant
    OBVIOUS
  <2>1. /\ stage = "enter" /\ launched = FALSE /\ moved = {} /\ answer = {}
        /\ late = 0 /\ session = "none"
    BY DEF Init, Tracking!Init
  <2>2. RunTypeOK
    BY <2>1 DEF RunTypeOK, Stages
  <2>3. StageMatchesSession
    BY <2>1 DEF StageMatchesSession, Placing
  <2>4. LateCallIsTheLast /\ OnlyPlacingMoves /\ LossOfHookIsTold
    BY <2>1 DEF LateCallIsTheLast, OnlyPlacingMoves, LossOfHookIsTold, Placing
  <2>5. QED
    BY <2>2, <2>3, <2>4 DEF RunInvariant
<1>2. /\ Facts!TrackingInvariant /\ Facts!TrackingInvariant'
      /\ RunInvariant /\ [Next]_vars
      => RunInvariant'
  <2> SUFFICES ASSUME Facts!TrackingInvariant, Facts!TrackingInvariant',
                      RunInvariant, [Next]_vars
               PROVE  RunInvariant'
    OBVIOUS
  <2>1. SessionIsSound /\ SessionIsSound'
    BY SessionFacts, PTL
  <2>2. QED
    BY <2>1, TypePart, StagePart, LatePart, MovePart, HookPart DEF RunInvariant
<1>3. QED
  BY <1>1, <1>2, SessionInvariant, PTL DEF Spec

(***************************************************************************)
(* Every variable of the workflow and of its session keeps its type        *)
(* (workflow.go:73-211, chromewindowtracking/service.go:16-48).            *)
(***************************************************************************)
THEOREM WorkflowTypes == Spec => []TypeOK
<1>1. Facts!TrackingInvariant => Tracking!TypeOK
  <2>1. Facts!TrackerTypeOK => Tracking!TrackerTypeOK
    BY DEF Facts!TrackerTypeOK, Tracking!TrackerTypeOK, Facts!observed, Tracking!observed
  <2>2. /\ Facts!Contexts = Tracking!Contexts
        /\ Facts!Events \cup {Facts!NoEvent} = Tracking!Events \cup {Tracking!NoEvent}
        /\ Facts!Results \cup {Facts!NoResult} = Tracking!Results \cup {Tracking!NoResult}
    BY DEF Facts!Contexts, Tracking!Contexts, Facts!Events, Tracking!Events,
       Facts!Results, Tracking!Results, Facts!EventTypes, Tracking!EventTypes,
       Facts!NoEvent, Tracking!NoEvent, Facts!EventOf, Tracking!EventOf, Facts!NoResult, Tracking!NoResult,
       Facts!NoWindow, Tracking!NoWindow, Facts!TrackingOutcomes,
       Tracking!TrackingOutcomes
  <2>3. QED
    BY <2>1, <2>2 DEF Facts!TrackingInvariant, Facts!TypeOK, Tracking!TypeOK
<1>2. RunInvariant => late \in Nat
  BY DEF RunInvariant, LateCallIsTheLast
<1>3. Facts!TrackingInvariant /\ RunInvariant => TypeOK
  BY <1>1, <1>2 DEF RunInvariant, RunTypeOK, TypeOK
<1>4. QED
  BY <1>3, RunIsInvariant, PTL

(***************************************************************************)
(* Whatever windows and snapshots the session sees, at most two calls are  *)
(* begun after the end of the context, the second one a Wait that looks at *)
(* the context and at no window, and no window is moved in consequence     *)
(* (workflow.go:77-137).                                                   *)
(***************************************************************************)
THEOREM LateCallsAreHarmless == Spec => []LateCallsMoveNothing
<1>1. RunInvariant => LateCallsMoveNothing
  BY DEF RunInvariant, LateCallIsTheLast, SettledAtOnce, LateCallsMoveNothing
<1>2. QED
  BY <1>1, RunIsInvariant, PTL

(***************************************************************************)
(* Run has closed the observation whenever it answers, on every way out,   *)
(* and answers with a failure if its hook may be left installed            *)
(* (workflow.go:112-121, 165-174).                                         *)
(***************************************************************************)
THEOREM ObservationIsReleased == Spec => []RunReleasesObservation
<1>1. Facts!TrackingInvariant /\ RunInvariant => RunReleasesObservation
  BY SessionFacts DEF RunInvariant, StageMatchesSession, LossOfHookIsTold,
     SessionIsSound, Beginning, RunReleasesObservation
<1>2. QED
  BY <1>1, RunIsInvariant, PTL

(***************************************************************************)
(* Every move follows a choice made after the launch; a move that hits     *)
(* another window, because the chosen one went and its handle was given    *)
(* away after the last check, is the last one and never a success          *)
(* (workflow.go:121-151, placement.go:79-131).                             *)
(***************************************************************************)
THEOREM StrayMovesAreFoundOut == Spec => []StrayMoveEndsPlacing
<1>1. RunInvariant => StrayMoveEndsPlacing
  BY DEF RunInvariant, OnlyPlacingMoves, StrayMoveEndsPlacing
<1>2. QED
  BY <1>1, RunIsInvariant, PTL

(***************************************************************************)
(* WorkflowContract without its fairness, spelled out over the actions.    *)
(***************************************************************************)
AnswersAsPromised ==
    /\ Contract!Init
    /\ [][Contract!ContextEnds \/ Contract!Answer]_(Contract!contractVars)

(***************************************************************************)
(* The safety part of KeepsTheContract: Run, over any windows, is a        *)
(* workflow as the launch service is modelled with; it answers once, names *)
(* a failure exactly when there is one and tells the truth about the       *)
(* context (workflow.go:73-211).                                           *)
(***************************************************************************)
THEOREM ContractIsKept == Spec => AnswersAsPromised
<1>1. Init => Contract!Init
  BY DEF Init, Tracking!Init, Contract!Init
<1>2. /\ Facts!TrackingInvariant /\ RunInvariant /\ [Next]_vars
      => [Contract!ContextEnds \/ Contract!Answer]_(Contract!contractVars)
  <2> SUFFICES ASSUME Facts!TrackingInvariant, RunInvariant, [Next]_vars
               PROVE  \/ Contract!ContextEnds \/ Contract!Answer
                      \/ UNCHANGED <<ctx, answer>>
    BY DEF Contract!contractVars
  <2>1. SessionIsSound
    BY SessionFacts
  <2>2. CASE World
    BY <2>2 DEF World, Contract!ContextEnds, Tracking!World,
       Tracking!WindowsChange, Tracking!DispatchWinEvent, Tracking!HookFails,
       Tracking!ContextEnds, Tracking!worldVars
  <2>3. CASE Run
    BY <2>1, <2>3, RunAnswers, AnswersAreSound
       DEF Silent, Answered, RunInvariant, StageMatchesSession, Contract!Answer,
           Contract!WorkflowResultType, Contract!Outcomes, Contract!ErrorCodes,
           WorkflowResultType, Outcomes, ErrorCodes
  <2>4. CASE UNCHANGED vars
    BY <2>4 DEF vars, trackingVars
  <2>5. QED
    BY <2>2, <2>3, <2>4 DEF Next
<1>3. QED
  BY <1>1, <1>2, RunIsInvariant, PTL DEF Spec, AnswersAsPromised
=============================================================================
