--------------------------- MODULE WindowPlacement ---------------------------
(***************************************************************************)
(* The two-step placement of a Chrome window: measure it, move it to the   *)
(* target monitor without resizing it, wait until its measurements settle, *)
(* compute the final bounds from what was measured there, apply them, and  *)
(* wait again.  The window belongs to another process: it may change or go *)
(* between any two calls, and the caller may give up at any time.          *)
(*                                                                         *)
(* One measurement is one step, although it is made of four Win32 calls.   *)
(***************************************************************************)
EXTENDS Integers

CONSTANTS
    Bounds,          \* rectangles
    Settings,        \* a monitor with its areas and its DPI
    TargetSettings,  \* those of the monitor that TargetMonitor finds
    NoBounds,        \* no rectangle
    InitialTarget,   \* request.InitialTarget
    FinalBounds,     \* what resolveFinalBounds makes of a setting, or NoBounds
    RequiredSamples, \* requiredStableSamples
    MaxSamples       \* stabilityTimeout / stabilityInterval

ASSUME PlacementAssumption ==
    /\ NoBounds \notin Bounds
    /\ TargetSettings \subseteq Settings
    /\ InitialTarget \in Bounds
    /\ FinalBounds \in [Settings -> Bounds \cup {NoBounds}]
    /\ RequiredSamples \in Nat /\ RequiredSamples > 1
    /\ MaxSamples \in Nat

VARIABLES
    window,    \* what the window would measure now
    alive,     \* the handle still names the tracked window
    ended,     \* the context has ended
    pc,        \* the next call of Place
    result,    \* placement.Result
    settled,   \* stable: what the first wait returned
    previous,  \* the last sample of a wait
    stable,    \* stableSamples
    taken,     \* sample
    samples,   \* history: the latest samples of the current wait
    attempts,  \* history: calls of Move
    late,      \* history: calls of Move and Measure after the context ended
    strays     \* history: such calls after the window had gone

request  == <<result, settled>>
wait     == <<previous, stable, taken, samples>>
history  == <<attempts, late, strays>>
outside  == <<window, alive, ended>>
vars     == <<outside, pc, request, wait, history>>

Measurements == [bounds : Bounds, setting : Settings]
Nothing      == [bounds |-> NoBounds, setting |-> NoBounds]

OnTarget(m) == m.setting \in TargetSettings

Stages == {"validation", "initial_measurement", "move_to_target",
           "wait_for_stability", "final_placement", "final_measurement",
           "completed"}
Moving  == {"move_to_target", "final_placement"}
Waiting == {"wait_for_stability", "final_measurement"}

Steps == {"validate", "begin", "locate", "ask", "resolve", "identify",
          "askAgain", "move", "measure", "sleep", "verdict", "done"}

ResultType == [stage : Stages, requested : Bounds, actual : Bounds \cup {NoBounds},
               partial : BOOLEAN, matched : BOOLEAN]

SampleType == [seen : Measurements \cup {Nothing}, own : BOOLEAN]

NoSamples == [i \in 1 .. RequiredSamples |-> [seen |-> Nothing, own |-> TRUE]]

Init ==
    /\ window \in Measurements
    /\ alive \in BOOLEAN
    /\ ended \in BOOLEAN
    /\ pc = "validate"
    /\ result = [stage |-> "validation", requested |-> InitialTarget,
                 actual |-> NoBounds, partial |-> FALSE, matched |-> FALSE]
    /\ settled = Nothing
    /\ previous = Nothing
    /\ stable = 0
    /\ taken = 0
    /\ samples = NoSamples
    /\ attempts = 0
    /\ late = 0
    /\ strays = 0

-----------------------------------------------------------------------------
(* Goes on with the given step of the given stage.                         *)
Enter(stage, step) == result' = [result EXCEPT !.stage = stage] /\ pc' = step

(* Ends the call with an error; the result keeps what it says.             *)
Fail == pc' = "done" /\ UNCHANGED <<request, wait, history, outside>>

(* Mutant: the end of the context is never noticed.                        *)
StoppedNever == FALSE

Stopped == ended

(* A call of Move or Measure begins.                                       *)
Touch ==
    /\ late' = IF ended THEN late + 1 ELSE late
    /\ strays' = IF alive THEN strays ELSE strays + 1

-----------------------------------------------------------------------------
(* Service.Place refuses the request, or hands it to the provider, which   *)
(* enters the DPI-aware context.                                           *)
Validate ==
    /\ pc = "validate"
    /\ \/ Fail
       \/ Enter("initial_measurement", "begin")
          /\ UNCHANGED <<settled, wait, history, outside>>

Begin ==
    /\ pc = "begin"
    /\ \/ Fail
       \/ /\ alive
          /\ pc' = "identify"
          /\ UNCHANGED <<request, wait, history, outside>>

Locate ==
    /\ pc = "locate"
    /\ \/ Fail
       \/ Enter("move_to_target", "ask")
          /\ UNCHANGED <<settled, wait, history, outside>>

(* The context is looked at before every stage and every sample, and once  *)
(* more after the identity has been checked for a move.                    *)
Ask ==
    /\ pc = "ask"
    /\ IF Stopped \/ (result.stage \in Waiting /\ taken >= MaxSamples)
       THEN Fail
       ELSE /\ pc' = IF result.stage = "final_placement" THEN "resolve" ELSE "identify"
            /\ UNCHANGED <<request, wait, history, outside>>

AskAgain ==
    /\ pc = "askAgain"
    /\ IF Stopped
       THEN Fail
       ELSE pc' = "move" /\ UNCHANGED <<request, wait, history, outside>>

(* The validator compares process and start time with those of the handle; *)
(* it may itself fail.                                                     *)
Identify ==
    /\ pc = "identify"
    /\ \/ Fail
       \/ /\ alive
          /\ pc' = IF result.stage \in Moving THEN "askAgain" ELSE "measure"
          /\ UNCHANGED <<request, wait, history, outside>>

Resolve ==
    /\ pc = "resolve"
    /\ \/ Fail
       \/ /\ FinalBounds[settled.setting] # NoBounds
          /\ result' = [result EXCEPT !.requested = FinalBounds[settled.setting]]
          /\ pc' = "identify"
          /\ UNCHANGED <<settled, wait, history, outside>>

-----------------------------------------------------------------------------
(* Where a window may be after SetWindowPos: the first move keeps its size *)
(* but Chrome adapts it to the DPI of the target; the second one sets it.  *)
Moved ==
    IF result.stage = "move_to_target"
    THEN {m \in Measurements : OnTarget(m)}
    ELSE {[window EXCEPT !.bounds = result.requested]}

(* Mutant: the change is reported only when Move succeeds.                 *)
ReportedBeforeLate == FALSE

ReportedBefore == result.stage = "move_to_target"

StageAfterMove == IF result.stage = "move_to_target" THEN "wait_for_stability"
                                                     ELSE "final_measurement"

(* One call of Move.  The result says "partially changed" before the call; *)
(* a call that succeeds starts a wait from nothing.                        *)
Move ==
    /\ pc = "move"
    /\ attempts' = attempts + 1
    /\ Touch
    /\ \/ /\ pc' = "done"
          /\ result' = [result EXCEPT !.partial = ReportedBefore \/ @]
          /\ UNCHANGED <<settled, wait, outside>>
       \/ /\ pc' = "ask"
          /\ result' = [result EXCEPT !.partial = TRUE, !.stage = StageAfterMove]
          /\ window' \in IF alive THEN Moved ELSE {window}
          /\ previous' = Nothing
          /\ stable' = 0
          /\ taken' = 0
          /\ samples' = NoSamples
          /\ UNCHANGED <<settled, alive, ended>>

-----------------------------------------------------------------------------
(* Mutant: a sample on the target counts whatever it measures.             *)
CountOnTarget(m) == IF OnTarget(m) THEN stable + 1 ELSE 0

(* stableSamples after the sample m.                                       *)
Count(m) == CASE OnTarget(m) /\ m = previous -> stable + 1
              [] OnTarget(m) /\ m # previous -> 1
              [] ~OnTarget(m)                -> 0

(* Mutant: the loop forgets to count its samples.                          *)
SameSample(n) == n

NextSample(n) == n + 1

Shifted(m) == [i \in 1 .. RequiredSamples |->
                  IF i = RequiredSamples THEN [seen |-> m, own |-> alive]
                                         ELSE samples[i + 1]]

(* A sample m of a wait: enough equal samples on the target end the wait.  *)
Sample(m) ==
    /\ samples' = Shifted(m)
    /\ stable' = Count(m)
    /\ taken' = NextSample(taken)
    /\ previous' = m
    /\ IF Count(m) < RequiredSamples
       THEN /\ pc' = "sleep"
            /\ result' = [result EXCEPT !.actual = m.bounds]
            /\ UNCHANGED settled
       ELSE IF result.stage = "wait_for_stability"
       THEN /\ pc' = "ask"
            /\ result' = [result EXCEPT !.actual = m.bounds, !.stage = "final_placement"]
            /\ settled' = m
       ELSE /\ pc' = "verdict"
            /\ result' = [result EXCEPT !.actual = m.bounds]
            /\ UNCHANGED settled

(* One call of Measure after a successful check of the identity.  A handle *)
(* whose window has gone since is invalid or names a window of anybody.    *)
Measure ==
    /\ pc = "measure"
    /\ Touch
    /\ UNCHANGED <<attempts, outside>>
    /\ \/ pc' = "done" /\ UNCHANGED <<request, wait>>
       \/ \E m \in IF alive THEN {window} ELSE Measurements :
             IF result.stage \in Waiting
             THEN Sample(m)
             ELSE /\ pc' = "locate"
                  /\ result' = [result EXCEPT !.actual = m.bounds]
                  /\ UNCHANGED <<settled, wait>>

(* The pause between two samples ends with its timer or with the context;  *)
(* when both are ready either may be taken.                                *)
Sleep ==
    /\ pc = "sleep"
    /\ \/ ended /\ Fail
       \/ pc' = "ask" /\ UNCHANGED <<request, wait, history, outside>>

(* Mutant: whatever was measured last is a success.                        *)
MatchedAlways == TRUE

Matched == result.actual = result.requested

(* The provider returns without an error unless it cannot restore the DPI  *)
(* context; then the service compares what was measured with what was      *)
(* asked for.                                                              *)
Verdict ==
    /\ pc = "verdict"
    /\ \/ Fail
       \/ /\ Matched
          /\ result' = [result EXCEPT !.stage = "completed", !.matched = TRUE,
                                      !.partial = FALSE]
          /\ pc' = "done"
          /\ UNCHANGED <<settled, wait, history, outside>>

-----------------------------------------------------------------------------
(* The world: Chrome, the user or the system change the window or its      *)
(* monitor, close it, or the caller gives up.                              *)
Working == pc # "done" /\ UNCHANGED <<pc, request, wait, history>>

WindowChanges == Working /\ alive /\ window' \in Measurements /\ UNCHANGED <<alive, ended>>
WindowGoes    == Working /\ alive /\ alive' = FALSE /\ UNCHANGED <<window, ended>>
ContextEnds   == Working /\ ~ended /\ ended' = TRUE /\ UNCHANGED <<window, alive>>

Place == \/ Validate \/ Begin \/ Locate \/ Ask \/ AskAgain \/ Identify
         \/ Resolve \/ Move \/ Measure \/ Sleep \/ Verdict

Next == Place \/ WindowChanges \/ WindowGoes \/ ContextEnds

Spec == Init /\ [][Next]_vars

(* Every call of the operating system returns and a timer fires.           *)
FairSpec == Spec /\ WF_vars(Place)

-----------------------------------------------------------------------------
TypeOK ==
    /\ window \in Measurements
    /\ alive \in BOOLEAN
    /\ ended \in BOOLEAN
    /\ pc \in Steps
    /\ result \in ResultType
    /\ settled \in Measurements \cup {Nothing}
    /\ previous \in Measurements \cup {Nothing}
    /\ stable \in 0 .. RequiredSamples
    /\ taken \in Nat
    /\ samples \in [1 .. RequiredSamples -> SampleType]
    /\ attempts \in Nat
    /\ late \in Nat
    /\ strays \in Nat

Completed == pc = "done" /\ result.stage = "completed"

(* A caller can tell from the result what has happened to the window: a    *)
(* failure says "partially changed" exactly if Move has been called, its   *)
(* stage says how often, and the bounds of the last measurement are known  *)
(* whenever the window was touched (ADR 0001: no rollback, the result says *)
(* whether, where and with which last rectangle a placement stopped).      *)
ChangeIsReported ==
    pc = "done" /\ ~Completed =>
        /\ ~result.matched
        /\ result.partial <=> attempts > 0
        /\ attempts > 0 => result.actual # NoBounds
        /\ attempts = 0 => result.stage \in {"validation", "initial_measurement",
                                             "move_to_target"}
        /\ attempts = 1 => result.stage \in {"move_to_target", "wait_for_stability",
                                             "final_placement"}
        /\ attempts > 1 => result.stage \in {"final_placement", "final_measurement"}
        /\ samples[RequiredSamples].seen # Nothing
               => result.actual = samples[RequiredSamples].seen.bounds

(* A placement that succeeds has moved the tracked window twice and has    *)
(* then measured the requested bounds on the target monitor as often in a  *)
(* row as required; all of these samples but the last, after which nobody  *)
(* looks at the identity again, are certainly of the tracked window.       *)
SuccessMeansPlaced ==
    Completed =>
        /\ attempts = 2 /\ result.matched /\ ~result.partial
        /\ \A i \in 1 .. RequiredSamples :
              /\ samples[i].seen = previous
              /\ i < RequiredSamples => samples[i].own
        /\ OnTarget(previous)
        /\ previous.bounds = result.requested
        /\ result.requested = FinalBounds[settled.setting]

(* The window is resized only after its measurements have settled on the   *)
(* target monitor, and to valid bounds that follow from the settled        *)
(* measurement (ADR 0004: final bounds that are refused are not applied).  *)
ResizedOnlyWhenSettled ==
    [][attempts = 1 /\ attempts' = 2 =>
          /\ OnTarget(settled)
          /\ \A i \in 1 .. RequiredSamples : samples[i].seen = settled
          /\ result.requested = FinalBounds[settled.setting]]_vars

(* Of the calls that Place makes for the window, Measure and Move, at most *)
(* one begins after the end of the context, and at most one after the      *)
(* window has gone: the one whose checks had been passed by then, or the   *)
(* first measurement, which no look at the context precedes                *)
(* (placement.go:64; ADR 0001: no measurement and no move follow).  The    *)
(* DPI-aware context, the checks of the identity and TargetMonitor         *)
(* (placement.go:51-70) go ahead in an ended context, and are not counted. *)
AtMostOneLateStep == late <= 1 /\ strays <= 1

(* Every placement ends, however restless the window is.                   *)
PlaceEnds == <>(pc = "done")
=============================================================================
