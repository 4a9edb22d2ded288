------------------------ MODULE WindowPlacementProofs ------------------------
(***************************************************************************)
(* Proofs about WindowPlacement.  The invariant says, for every stage of   *)
(* the call, which step it is at, how often Move has been called, what the *)
(* latest samples have in common, and which checks have been passed.       *)
(***************************************************************************)
EXTENDS WindowPlacement, TLAPS

(* Which steps a stage has, and how often Move has been called in it.      *)
PhaseInv ==
    /\ result.stage = "validation" => pc \in {"validate", "done"} /\ attempts = 0
    /\ result.stage = "initial_measurement" =>
           pc \in {"begin", "identify", "measure", "locate", "done"} /\ attempts = 0
    /\ result.stage = "move_to_target" =>
           /\ pc \in {"ask", "identify", "askAgain", "move", "done"}
           /\ attempts = 0 \/ (pc = "done" /\ attempts = 1)
    /\ result.stage = "wait_for_stability" =>
           pc \in {"ask", "identify", "measure", "sleep", "done"} /\ attempts = 1
    /\ result.stage = "final_placement" =>
           /\ pc \in {"ask", "resolve", "identify", "askAgain", "move", "done"}
           /\ attempts = 1 \/ (pc = "done" /\ attempts = 2)
    /\ result.stage = "final_measurement" =>
           pc \in {"ask", "identify", "measure", "sleep", "verdict", "done"}
           /\ attempts = 2
    /\ result.stage = "completed" => pc = "done" /\ attempts = 2

(* What the result says of the window.                                     *)
ReportInv ==
    /\ result.stage = "completed" => result.matched /\ ~result.partial
    /\ result.stage # "completed" => ~result.matched /\ (result.partial <=> attempts > 0)
    /\ result.stage \notin {"validation", "initial_measurement"} => result.actual # NoBounds
    /\ pc = "locate" => result.actual # NoBounds
    /\ attempts = 0 => samples[RequiredSamples].seen = Nothing
    /\ samples[RequiredSamples].seen # Nothing
           => result.actual = samples[RequiredSamples].seen.bounds

(* What the latest samples have in common.                                 *)
SamplesInv ==
    /\ stable > 0 => OnTarget(previous) /\ previous \in Measurements
    /\ \A i \in 1 .. RequiredSamples :
           i > RequiredSamples - stable => samples[i].seen = previous
    /\ result.stage \in {"validation", "initial_measurement", "move_to_target"}
           => stable = 0
    /\ result.stage \in Waiting /\ pc \notin {"done", "verdict"}
           => stable < RequiredSamples
    /\ result.stage = "final_placement" => stable = RequiredSamples /\ settled = previous
    /\ pc = "verdict" \/ result.stage = "completed" =>
           stable = RequiredSamples /\ result.actual = previous.bounds

(* What has been asked for.                                                *)
RequestInv ==
    /\ result.stage = "final_placement" /\ pc \in {"identify", "askAgain", "move"}
           => result.requested = FinalBounds[settled.setting]
    /\ result.stage \in {"final_measurement", "completed"}
           => result.requested = FinalBounds[settled.setting]
    /\ result.stage = "completed" => result.actual = result.requested

(* Whose window the samples are of.                                        *)
OwnInv ==
    /\ alive \/ pc = "measure" => \A i \in 1 .. RequiredSamples : samples[i].own
    /\ \A i \in 1 .. RequiredSamples : i < RequiredSamples => samples[i].own

(* A late call is followed by a look at the context, a stray one by a look *)
(* at the identity, before the next call.                                  *)
LateInv ==
    /\ late = 0 \/ (late = 1 /\ ended
                      /\ pc \in {"locate", "ask", "sleep", "verdict", "done"})
    /\ strays = 0 \/ (strays = 1 /\ ~alive
                        /\ pc \notin {"validate", "begin", "askAgain", "move", "measure"})

Inv == TypeOK /\ PhaseInv /\ ReportInv /\ SamplesInv /\ RequestInv /\ OwnInv /\ LateInv

-----------------------------------------------------------------------------
(* What the steps do, opened once for all parts of the invariant.          *)

(* A change of the result that keeps the verdict on the change.            *)
SameReport(old, new) ==
    new \in ResultType /\ new.partial = old.partial /\ new.matched = old.matched

(* What a sample m of a wait leaves behind.                                *)
SampleTaken(m) ==
    /\ samples' \in [1 .. RequiredSamples -> SampleType]
    /\ samples'[RequiredSamples] = [seen |-> m, own |-> alive]
    /\ \A i \in 1 .. RequiredSamples :
           i < RequiredSamples => samples'[i] = samples[i + 1]
    /\ previous' = m
    /\ stable' = Count(m) /\ stable' \in 0 .. RequiredSamples
    /\ taken' = taken + 1
    /\ result' \in ResultType
    /\ result'.actual = m.bounds /\ result'.actual # NoBounds
    /\ result'.requested = result.requested
    /\ result'.partial = result.partial /\ result'.matched = result.matched
    /\ \/ /\ stable' < RequiredSamples /\ pc' = "sleep"
          /\ result'.stage = result.stage /\ settled' = settled
       \/ /\ stable' = RequiredSamples /\ pc' = "ask"
          /\ result.stage = "wait_for_stability"
          /\ result'.stage = "final_placement" /\ settled' = m
       \/ /\ stable' = RequiredSamples /\ pc' = "verdict"
          /\ result.stage # "wait_for_stability"
          /\ result'.stage = result.stage /\ settled' = settled

(* A sample below the required count has this effect.                      *)
LEMMA SampleEffect ==
    ASSUME TypeOK, NEW m \in Measurements, Sample(m), stable < RequiredSamples
    PROVE  SampleTaken(m)
<1>1. RequiredSamples \in Nat /\ RequiredSamples > 1 /\ NoBounds \notin Bounds
  BY PlacementAssumption
<1>2. [seen |-> m, own |-> alive] \in SampleType
  BY DEF TypeOK, SampleType
<1>3. /\ samples' = Shifted(m) /\ samples' \in [1 .. RequiredSamples -> SampleType]
      /\ samples'[RequiredSamples] = [seen |-> m, own |-> alive]
      /\ \A i \in 1 .. RequiredSamples :
             i < RequiredSamples => samples'[i] = samples[i + 1]
  BY <1>1, <1>2 DEF Sample, Shifted, TypeOK
<1>4. Count(m) \in 0 .. RequiredSamples
  BY <1>1 DEF Count, TypeOK
<1>5. /\ previous' = m /\ stable' = Count(m) /\ taken' = taken + 1
  BY DEF Sample, NextSample
<1>6. /\ m.bounds \in Bounds /\ m.bounds # NoBounds
  BY <1>1 DEF Measurements
<1>7. result \in ResultType /\ "final_placement" \in Stages
  BY DEF TypeOK, Stages
<1>8. /\ result' \in ResultType
      /\ result'.actual = m.bounds
      /\ result'.requested = result.requested
      /\ result'.partial = result.partial /\ result'.matched = result.matched
      /\ \/ /\ Count(m) < RequiredSamples /\ pc' = "sleep"
            /\ result'.stage = result.stage /\ settled' = settled
         \/ /\ ~(Count(m) < RequiredSamples) /\ pc' = "ask"
            /\ result.stage = "wait_for_stability"
            /\ result'.stage = "final_placement" /\ settled' = m
         \/ /\ ~(Count(m) < RequiredSamples) /\ pc' = "verdict"
            /\ result.stage # "wait_for_stability"
            /\ result'.stage = result.stage /\ settled' = settled
  BY <1>6, <1>7 DEF Sample, ResultType
<1>9. Count(m) < RequiredSamples \/ Count(m) = RequiredSamples
  BY <1>1, <1>4
<1> QED
  BY <1>3, <1>4, <1>5, <1>6, <1>8, <1>9 DEF SampleTaken

(* Measure fails, takes a sample, or is the initial measurement.           *)
Touched ==
    /\ late' = IF ended THEN late + 1 ELSE late
    /\ strays' = IF alive THEN strays ELSE strays + 1

MeasureFailed ==
    /\ pc = "measure" /\ pc' = "done"
    /\ UNCHANGED <<result, settled, previous, stable, taken, samples,
                   attempts, window, alive, ended>>
    /\ Touched

Sampled ==
    /\ pc = "measure" /\ result.stage \in Waiting
    /\ UNCHANGED <<attempts, window, alive, ended>>
    /\ Touched
    /\ \E m \in Measurements : SampleTaken(m)

InitiallyMeasured ==
    /\ pc = "measure" /\ pc' = "locate" /\ result.stage \notin Waiting
    /\ UNCHANGED <<settled, previous, stable, taken, samples,
                   attempts, window, alive, ended>>
    /\ Touched
    /\ SameReport(result, result') /\ result'.stage = result.stage
    /\ result'.requested = result.requested
    /\ result'.actual # NoBounds

(* Measure has these three outcomes.                                       *)
LEMMA MeasureCases ==
    ASSUME Inv, Measure
    PROVE  MeasureFailed \/ Sampled \/ InitiallyMeasured
<1>1. window \in Measurements /\ result \in ResultType
  BY DEF Inv, TypeOK
<1>2. ASSUME NEW m \in Measurements, result' = [result EXCEPT !.actual = m.bounds]
      PROVE  /\ SameReport(result, result') /\ result'.stage = result.stage
             /\ result'.requested = result.requested
             /\ result'.actual # NoBounds
  <2>1. m.bounds \in Bounds /\ m.bounds # NoBounds
    BY PlacementAssumption DEF Measurements
  <2> QED
    BY <1>1, <1>2, <2>1 DEF ResultType, SameReport
<1>3. pc = "measure" /\ UNCHANGED <<attempts, window, alive, ended>> /\ Touched
  BY DEF Measure, Touch, outside, Touched
<1>4. CASE pc' = "done" /\ UNCHANGED <<request, wait>>
  BY <1>3, <1>4 DEF MeasureFailed, request, wait
<1>5. CASE \E m \in IF alive THEN {window} ELSE Measurements :
             IF result.stage \in Waiting
             THEN Sample(m)
             ELSE /\ pc' = "locate"
                  /\ result' = [result EXCEPT !.actual = m.bounds]
                  /\ UNCHANGED <<settled, wait>>
  <2>1. PICK m \in Measurements :
             IF result.stage \in Waiting
             THEN Sample(m)
             ELSE /\ pc' = "locate"
                  /\ result' = [result EXCEPT !.actual = m.bounds]
                  /\ UNCHANGED <<settled, wait>>
    BY <1>1, <1>5
  <2>2. CASE result.stage \in Waiting
    <3>1. stable < RequiredSamples
      BY <1>3, <2>2 DEF Inv, SamplesInv
    <3> QED
      BY <1>3, <2>1, <2>2, <3>1, SampleEffect DEF Sampled, Inv
  <2>3. CASE result.stage \notin Waiting
    BY <1>2, <1>3, <2>1, <2>3 DEF InitiallyMeasured, wait
  <2> QED
    BY <2>2, <2>3
<1> QED
  BY <1>4, <1>5 DEF Measure

(* Move fails, or starts a wait.                                           *)
Moves ==
    /\ pc = "move" /\ attempts' = attempts + 1
    /\ UNCHANGED <<settled, alive, ended>>
    /\ Touched
    /\ result' \in ResultType
    /\ result'.actual = result.actual /\ result'.requested = result.requested
    /\ result'.matched = result.matched
    /\ \/ /\ pc' = "done" /\ result'.stage = result.stage
          /\ result'.partial = (result.stage = "move_to_target" \/ result.partial)
          /\ UNCHANGED <<previous, stable, taken, samples, window>>
       \/ /\ pc' = "ask" /\ result'.stage = StageAfterMove
          /\ result'.partial = TRUE
          /\ previous' = Nothing /\ stable' = 0 /\ taken' = 0
          /\ samples' = NoSamples
          /\ window' \in Measurements

(* Move has these outcomes.                                                *)
LEMMA MoveCases == ASSUME Inv, Move PROVE Moves
<1>1. result \in ResultType /\ window \in Measurements
  BY DEF Inv, TypeOK
<1>2. StageAfterMove \in Stages /\ ReportedBefore \in BOOLEAN
  BY DEF StageAfterMove, Stages, ReportedBefore
<1>3. (window' \in IF alive THEN Moved ELSE {window}) => window' \in Measurements
  <2>1. Moved \subseteq Measurements
    BY <1>1 DEF Moved, Measurements, ResultType
  <2> QED
    BY <1>1, <2>1
<1>4. CASE pc' = "done" /\ result' = [result EXCEPT !.partial = ReportedBefore \/ @]
             /\ UNCHANGED <<settled, wait, outside>>
  <2>1. /\ result' \in ResultType
        /\ result'.stage = result.stage
        /\ result'.actual = result.actual /\ result'.requested = result.requested
        /\ result'.matched = result.matched
        /\ result'.partial = (ReportedBefore \/ result.partial)
    BY <1>1, <1>2, <1>4 DEF ResultType
  <2> QED
    BY <1>4, <2>1 DEF Move, Touch, outside, wait, ReportedBefore, Touched, Moves
<1>5. CASE /\ pc' = "ask"
           /\ result' = [result EXCEPT !.partial = TRUE, !.stage = StageAfterMove]
           /\ window' \in (IF alive THEN Moved ELSE {window})
           /\ previous' = Nothing /\ stable' = 0 /\ taken' = 0 /\ samples' = NoSamples
           /\ UNCHANGED <<settled, alive, ended>>
  <2>1. /\ result' \in ResultType
        /\ result'.stage = StageAfterMove
        /\ result'.actual = result.actual /\ result'.requested = result.requested
        /\ result'.matched = result.matched
        /\ result'.partial = TRUE
    BY <1>1, <1>2, <1>5 DEF ResultType
  <2> QED
    BY <1>3, <1>5, <2>1 DEF Move, Touch, Touched, Moves
<1> QED
  BY <1>4, <1>5 DEF Move

(* A check that lets the call go on.                                       *)
Passes ==
    /\ UNCHANGED <<window, alive, ended>>
    /\ \/ pc = "begin" /\ alive /\ pc' = "identify"
       \/ pc = "ask" /\ ~ended /\ result.stage = "final_placement" /\ pc' = "resolve"
       \/ pc = "ask" /\ ~ended /\ result.stage # "final_placement" /\ pc' = "identify"
       \/ pc = "askAgain" /\ ~ended /\ pc' = "move"
       \/ pc = "identify" /\ alive /\ result.stage \in Moving /\ pc' = "askAgain"
       \/ pc = "identify" /\ alive /\ result.stage \notin Moving /\ pc' = "measure"
       \/ pc = "sleep" /\ pc' = "ask"

(* The world changes; what has gone or ended stays so.                     *)
Happens ==
    /\ pc' = pc
    /\ window' \in Measurements /\ alive' \in BOOLEAN /\ ended' \in BOOLEAN
    /\ alive' => alive
    /\ ended => ended'

Quiet ==
    /\ UNCHANGED <<result, settled, previous, stable, taken, samples,
                   attempts, late, strays>>
    /\ \/ pc' = "done" /\ UNCHANGED <<window, alive, ended>>
       \/ Passes
       \/ Happens

(* Validate, Locate, Resolve and Verdict, when they go on.                 *)
Decides ==
    /\ UNCHANGED <<settled, previous, stable, taken, samples,
                   attempts, late, strays, window, alive, ended>>
    /\ result' \in ResultType
    /\ result'.actual = result.actual
    /\ \/ /\ pc = "validate" /\ pc' = "begin"
          /\ result'.stage = "initial_measurement"
          /\ SameReport(result, result') /\ result'.requested = result.requested
       \/ /\ pc = "locate" /\ pc' = "ask"
          /\ result'.stage = "move_to_target"
          /\ SameReport(result, result') /\ result'.requested = result.requested
       \/ /\ pc = "resolve" /\ pc' = "identify"
          /\ result'.stage = result.stage
          /\ SameReport(result, result')
          /\ result'.requested = FinalBounds[settled.setting]
       \/ /\ pc = "verdict" /\ pc' = "done"
          /\ result.actual = result.requested
          /\ result'.stage = "completed" /\ result'.matched /\ ~result'.partial
          /\ result'.requested = result.requested

(* Every step is quiet, decides, measures or moves.                        *)
LEMMA StepCases ==
    ASSUME Inv, [Next]_vars
    PROVE  Quiet \/ Decides \/ MeasureFailed \/ Sampled \/ InitiallyMeasured \/ Moves
<1> USE DEF request, wait, history, outside
<1>0. result \in ResultType /\ window \in Measurements
      /\ alive \in BOOLEAN /\ ended \in BOOLEAN
  BY DEF Inv, TypeOK
<1>1. CASE UNCHANGED vars
  BY <1>0, <1>1 DEF vars, Quiet, Happens
<1>2. Fail => Quiet
  BY DEF Fail, Quiet
<1>3. CASE Validate
  <2>1. Enter("initial_measurement", "begin") =>
            /\ SameReport(result, result') /\ result'.stage = "initial_measurement"
            /\ result'.actual = result.actual /\ result'.requested = result.requested
    BY <1>0 DEF Enter, ResultType, Stages, SameReport
  <2> QED
    BY <1>2, <1>3, <2>1 DEF Validate, Enter, Decides, SameReport
<1>4. CASE Locate
  <2>1. Enter("move_to_target", "ask") =>
            /\ SameReport(result, result') /\ result'.stage = "move_to_target"
            /\ result'.actual = result.actual /\ result'.requested = result.requested
    BY <1>0 DEF Enter, ResultType, Stages, SameReport
  <2> QED
    BY <1>2, <1>4, <2>1 DEF Locate, Enter, Decides, SameReport
<1>5. CASE Begin
  BY <1>2, <1>5 DEF Begin, Quiet, Passes
<1>6. CASE Ask
  BY <1>2, <1>6 DEF Ask, Stopped, Quiet, Passes
<1>7. CASE AskAgain
  BY <1>2, <1>7 DEF AskAgain, Stopped, Quiet, Passes
<1>8. CASE Identify
  BY <1>2, <1>8 DEF Identify, Quiet, Passes
<1>9. CASE Sleep
  BY <1>2, <1>9 DEF Sleep, Quiet, Passes
<1>10. CASE Resolve
  <2>1. ASSUME FinalBounds[settled.setting] # NoBounds,
               result' = [result EXCEPT !.requested = FinalBounds[settled.setting]]
        PROVE  /\ SameReport(result, result') /\ result'.stage = result.stage
               /\ result'.actual = result.actual
               /\ result'.requested = FinalBounds[settled.setting]
    <3>1. result.stage = "final_placement"
      BY <1>0, <1>10 DEF Resolve, Inv, PhaseInv, ResultType, Stages
    <3>2. settled \in Measurements
      BY <3>1, PlacementAssumption DEF Inv, SamplesInv
    <3>3. settled.setting \in Settings
      BY <3>2 DEF Measurements
    <3> QED
      BY <1>0, <2>1, <3>3, PlacementAssumption DEF ResultType, SameReport
  <2> QED
    BY <1>2, <1>10, <2>1 DEF Resolve, Decides, SameReport
<1>11. CASE Verdict
  <2>1. ASSUME result' = [result EXCEPT !.stage = "completed", !.matched = TRUE,
                                        !.partial = FALSE]
        PROVE  /\ result' \in ResultType /\ result'.stage = "completed"
               /\ result'.matched /\ ~result'.partial
               /\ result'.actual = result.actual /\ result'.requested = result.requested
    BY <1>0, <2>1 DEF ResultType, Stages
  <2> QED
    BY <1>2, <1>11, <2>1 DEF Verdict, Matched, Decides
<1>12. CASE WindowChanges \/ WindowGoes \/ ContextEnds
  BY <1>0, <1>12 DEF WindowChanges, WindowGoes, ContextEnds, Working, Quiet, Happens
<1> QED
  BY <1>1, <1>3, <1>4, <1>5, <1>6, <1>7, <1>8, <1>9, <1>10, <1>11, <1>12,
     MeasureCases, MoveCases DEF Next, Place

-----------------------------------------------------------------------------
(* Every part of the invariant is kept by every step.                      *)

(* The types are kept.                                                     *)
LEMMA TypeOKStep == ASSUME Inv, [Next]_vars PROVE TypeOK'
<1> USE PlacementAssumption DEF Inv
<1>0. /\ result.stage \in Stages /\ attempts \in Nat /\ stable \in 0 .. RequiredSamples
      /\ late \in Nat /\ strays \in Nat
  BY DEF TypeOK, ResultType
<1>1. CASE Quiet
  BY <1>0, <1>1 DEF Quiet, Passes, Happens, TypeOK, Steps
<1>2. CASE Decides
  BY <1>0, <1>2 DEF Decides, SameReport, Stages, TypeOK, Steps
<1>3. CASE MeasureFailed
  BY <1>0, <1>3 DEF MeasureFailed, Touched, TypeOK, Steps
<1>4. CASE Sampled
  BY <1>0, <1>4 DEF Sampled, SampleTaken, Touched, TypeOK, Steps
<1>5. CASE InitiallyMeasured
  BY <1>0, <1>5 DEF InitiallyMeasured, SameReport, Touched, Stages, TypeOK, Steps
<1>6. CASE Moves
  <2>1. NoSamples \in [1 .. RequiredSamples -> SampleType]
    BY DEF NoSamples, SampleType
  <2> QED
    BY <1>0, <1>6, <2>1 DEF Moves, Touched, TypeOK, Steps
<1> QED
  BY <1>1, <1>2, <1>3, <1>4, <1>5, <1>6, StepCases

(* Every step leads to a step of its stage, or of the next one.            *)
LEMMA PhaseInvStep == ASSUME Inv, [Next]_vars PROVE PhaseInv'
<1> USE PlacementAssumption DEF Inv
<1>0. /\ result.stage \in Stages /\ attempts \in Nat /\ stable \in 0 .. RequiredSamples
      /\ late \in Nat /\ strays \in Nat
  BY DEF TypeOK, ResultType
<1>1. CASE Quiet
  BY <1>0, <1>1 DEF Quiet, Passes, Happens, PhaseInv, Waiting, Moving
<1>2. CASE Decides
  BY <1>0, <1>2 DEF Decides, SameReport, Stages, PhaseInv, Waiting, Moving
<1>3. CASE MeasureFailed
  BY <1>0, <1>3 DEF MeasureFailed, Touched, PhaseInv, Waiting, Moving
<1>4. CASE Sampled
  BY <1>0, <1>4 DEF Sampled, SampleTaken, Touched, PhaseInv, Waiting, Moving
<1>5. CASE InitiallyMeasured
  BY <1>0, <1>5 DEF
     InitiallyMeasured, SameReport, Touched, Stages, PhaseInv, Waiting, Moving
<1>6. CASE Moves
  BY <1>0, <1>6 DEF
     Moves, NoSamples, StageAfterMove, Touched, Stages, PhaseInv, Waiting, Moving
<1> QED
  BY <1>1, <1>2, <1>3, <1>4, <1>5, <1>6, StepCases

(* The result keeps up with what has been done and measured.               *)
LEMMA ReportInvStep == ASSUME Inv, [Next]_vars PROVE ReportInv'
<1> USE PlacementAssumption DEF Inv
<1>0. /\ result.stage \in Stages /\ attempts \in Nat /\ stable \in 0 .. RequiredSamples
      /\ late \in Nat /\ strays \in Nat
  BY DEF TypeOK, ResultType
<1>1. CASE Quiet
  BY <1>0, <1>1 DEF Quiet, Passes, Happens, ReportInv, PhaseInv, Waiting, Moving
<1>2. CASE Decides
  BY <1>0, <1>2 DEF Decides, SameReport, Stages, ReportInv, PhaseInv, Waiting, Moving
<1>3. CASE MeasureFailed
  BY <1>0, <1>3 DEF MeasureFailed, Touched, ReportInv, PhaseInv, Waiting, Moving
<1>4. CASE Sampled
  BY <1>0, <1>4 DEF Sampled, SampleTaken, Touched, ReportInv, PhaseInv, Waiting, Moving
<1>5. CASE InitiallyMeasured
  BY <1>0, <1>5 DEF
     InitiallyMeasured, SameReport, Touched, Stages, ReportInv, PhaseInv, Waiting,
     Moving
<1>6. CASE Moves
  <2>1. NoSamples[RequiredSamples].seen = Nothing
    BY DEF NoSamples
  <2>2. result'.stage # "completed" /\ result'.actual # NoBounds /\ ~result'.matched
    BY <1>0, <1>6 DEF Moves, StageAfterMove, Stages, ReportInv, PhaseInv
  <2>3. /\ result.stage = "move_to_target" \/ result.stage = "final_placement"
        /\ result.stage = "move_to_target" => attempts = 0
        /\ result.stage = "final_placement" => attempts = 1 /\ result.partial
    BY <1>0, <1>6 DEF Moves, Stages, ReportInv, PhaseInv
  <2>4. attempts' > 0 /\ attempts' # 0
    BY <1>0, <1>6 DEF Moves
  <2>5. result'.partial
    BY <1>6, <2>3, Zenon DEF Moves
  <2>6. result'.stage \notin {"validation", "initial_measurement"} /\ pc' # "locate"
    BY <1>6, <2>3 DEF Moves, StageAfterMove
  <2>7. samples'[RequiredSamples].seen # Nothing
            => result'.actual = samples'[RequiredSamples].seen.bounds
    BY <1>6, <2>1 DEF Moves, ReportInv
  <2> QED
    BY <2>2, <2>4, <2>5, <2>6, <2>7 DEF ReportInv
<1> QED
  BY <1>1, <1>2, <1>3, <1>4, <1>5, <1>6, StepCases

(* A sample among the k latest of r has a successor among them or is last. *)
LEMMA LatterSamples ==
    ASSUME NEW r \in Nat, NEW k \in Nat, NEW i \in Nat, i >= 1, i < r, i > r - k
    PROVE  k > 1 /\ i + 1 \in 1 .. r
  OBVIOUS

(* The count of equal samples is that of the latest samples.               *)
LEMMA SamplesInvStep == ASSUME Inv, [Next]_vars PROVE SamplesInv'
<1> USE PlacementAssumption DEF Inv
<1>0. /\ result.stage \in Stages /\ attempts \in Nat /\ stable \in 0 .. RequiredSamples
      /\ late \in Nat /\ strays \in Nat
  BY DEF TypeOK, ResultType
<1>1. CASE Quiet
  BY <1>0, <1>1 DEF Quiet, Passes, Happens, SamplesInv, PhaseInv, Waiting, Moving
<1>2. CASE Decides
  BY <1>0, <1>2 DEF Decides, SameReport, Stages, SamplesInv, PhaseInv, Waiting, Moving
<1>3. CASE MeasureFailed
  BY <1>0, <1>3 DEF MeasureFailed, Touched, SamplesInv, PhaseInv, Waiting, Moving
<1>4. CASE Sampled
  <2>1. PICK m \in Measurements : SampleTaken(m)
    BY <1>4 DEF Sampled
  <2>2. /\ stable' > 0 => OnTarget(m)
        /\ stable' > 1 => m = previous /\ stable' = stable + 1
        /\ stable' \in 0 .. RequiredSamples
    BY <1>0, <2>1 DEF SampleTaken, Count
  <2>3. ASSUME NEW i \in 1 .. RequiredSamples, i > RequiredSamples - stable'
        PROVE  samples'[i].seen = m
    <3>1. CASE i = RequiredSamples
      BY <3>1, <2>1 DEF SampleTaken
    <3>2. CASE i < RequiredSamples
      <4>1. stable' > 1 /\ i + 1 \in 1 .. RequiredSamples
            /\ i + 1 > RequiredSamples - stable
        <5>1. /\ RequiredSamples \in Nat /\ stable \in Nat /\ stable' \in Nat
              /\ i \in Nat /\ i >= 1
          BY <1>0, <2>2
        <5>2. stable' > 1 /\ i + 1 \in 1 .. RequiredSamples
          BY <2>3, <3>2, <5>1, LatterSamples
        <5>3. stable' = stable + 1
          BY <2>2, <5>2
        <5> QED
          BY <2>3, <5>1, <5>2, <5>3
      <4>2. samples'[i] = samples[i + 1] /\ samples[i + 1].seen = previous
        BY <2>1, <3>2, <4>1 DEF SampleTaken, SamplesInv
      <4> QED
        BY <2>2, <4>1, <4>2
    <3> QED
      BY <3>1, <3>2
  <2>4. /\ stable' > 0 => OnTarget(previous') /\ previous' \in Measurements
        /\ \A i \in 1 .. RequiredSamples :
               i > RequiredSamples - stable' => samples'[i].seen = previous'
    BY <2>1, <2>2, <2>3 DEF SampleTaken
  <2>5. /\ result'.stage \in {"wait_for_stability", "final_placement", "final_measurement"}
        /\ result'.stage \in Waiting /\ pc' \notin {"done", "verdict"}
               => stable' < RequiredSamples
        /\ result'.stage = "final_placement"
               => stable' = RequiredSamples /\ settled' = previous'
        /\ pc' = "verdict" => stable' = RequiredSamples /\ result'.actual = previous'.bounds
    BY <1>4, <2>1 DEF Sampled, SampleTaken, Waiting
  <2> QED
    BY <2>4, <2>5 DEF SamplesInv
<1>5. CASE InitiallyMeasured
  BY <1>0, <1>5 DEF
     InitiallyMeasured, SameReport, Touched, Stages, SamplesInv, PhaseInv,
     Waiting, Moving
<1>6. CASE Moves
  BY <1>0, <1>6 DEF
     Moves, NoSamples, StageAfterMove, Touched, Stages, SamplesInv, PhaseInv,
     Waiting, Moving
<1> QED
  BY <1>1, <1>2, <1>3, <1>4, <1>5, <1>6, StepCases

(* What is requested follows from the settled measurement.                 *)
LEMMA RequestInvStep == ASSUME Inv, [Next]_vars PROVE RequestInv'
<1> USE PlacementAssumption DEF Inv
<1>0. /\ result.stage \in Stages /\ attempts \in Nat /\ stable \in 0 .. RequiredSamples
      /\ late \in Nat /\ strays \in Nat
  BY DEF TypeOK, ResultType
<1>1. CASE Quiet
  BY <1>0, <1>1 DEF
     Quiet, Passes, Happens, RequestInv, PhaseInv, SamplesInv, Waiting, Moving
<1>2. CASE Decides
  BY <1>0, <1>2 DEF
     Decides, SameReport, Stages, RequestInv, PhaseInv, SamplesInv, Waiting,
     Moving
<1>3. CASE MeasureFailed
  BY <1>0, <1>3 DEF
     MeasureFailed, Touched, RequestInv, PhaseInv, SamplesInv, Waiting, Moving
<1>4. CASE Sampled
  BY <1>0, <1>4 DEF
     Sampled, SampleTaken, Touched, RequestInv, PhaseInv, SamplesInv, Waiting,
     Moving
<1>5. CASE InitiallyMeasured
  BY <1>0, <1>5 DEF
     InitiallyMeasured, SameReport, Touched, Stages, RequestInv, PhaseInv,
     SamplesInv, Waiting, Moving
<1>6. CASE Moves
  BY <1>0, <1>6 DEF
     Moves, NoSamples, StageAfterMove, Touched, Stages, RequestInv, PhaseInv,
     SamplesInv, Waiting, Moving
<1> QED
  BY <1>1, <1>2, <1>3, <1>4, <1>5, <1>6, StepCases

(* Samples are taken of the tracked window until it has gone.              *)
LEMMA OwnInvStep == ASSUME Inv, [Next]_vars PROVE OwnInv'
<1> USE PlacementAssumption DEF Inv
<1>0. /\ result.stage \in Stages /\ attempts \in Nat /\ stable \in 0 .. RequiredSamples
      /\ late \in Nat /\ strays \in Nat
  BY DEF TypeOK, ResultType
<1>1. CASE Quiet
  BY <1>0, <1>1 DEF Quiet, Passes, Happens, OwnInv
<1>2. CASE Decides
  BY <1>0, <1>2 DEF Decides, SameReport, Stages, OwnInv
<1>3. CASE MeasureFailed
  BY <1>0, <1>3 DEF MeasureFailed, Touched, OwnInv
<1>4. CASE Sampled
  BY <1>0, <1>4 DEF Sampled, SampleTaken, Touched, OwnInv
<1>5. CASE InitiallyMeasured
  BY <1>0, <1>5 DEF InitiallyMeasured, SameReport, Touched, Stages, OwnInv
<1>6. CASE Moves
  BY <1>0, <1>6 DEF Moves, NoSamples, StageAfterMove, Touched, Stages, OwnInv
<1> QED
  BY <1>1, <1>2, <1>3, <1>4, <1>5, <1>6, StepCases

(* No second call follows the end of the context or of the window.         *)
LEMMA LateInvStep == ASSUME Inv, [Next]_vars PROVE LateInv'
<1> USE PlacementAssumption DEF Inv
<1>0. /\ result.stage \in Stages /\ attempts \in Nat /\ stable \in 0 .. RequiredSamples
      /\ late \in Nat /\ strays \in Nat
  BY DEF TypeOK, ResultType
<1>1. CASE Quiet
  BY <1>0, <1>1 DEF Quiet, Passes, Happens, LateInv
<1>2. CASE Decides
  BY <1>0, <1>2 DEF Decides, SameReport, Stages, LateInv
<1>3. CASE MeasureFailed
  BY <1>0, <1>3 DEF MeasureFailed, Touched, LateInv
<1>4. CASE Sampled
  BY <1>0, <1>4 DEF Sampled, SampleTaken, Touched, LateInv
<1>5. CASE InitiallyMeasured
  BY <1>0, <1>5 DEF InitiallyMeasured, SameReport, Touched, Stages, LateInv
<1>6. CASE Moves
  BY <1>0, <1>6 DEF Moves, NoSamples, StageAfterMove, Touched, Stages, LateInv
<1> QED
  BY <1>1, <1>2, <1>3, <1>4, <1>5, <1>6, StepCases

-----------------------------------------------------------------------------
(* What holds initially holds always.                                      *)
LEMMA InitInv == Init => Inv
<1> SUFFICES ASSUME Init PROVE Inv
  OBVIOUS
<1> USE PlacementAssumption DEF Init, NoSamples, Nothing
<1>1. TypeOK
  BY DEF TypeOK, Steps, Stages, ResultType, SampleType
<1>2. PhaseInv /\ ReportInv /\ SamplesInv /\ RequestInv
  BY DEF PhaseInv, ReportInv, SamplesInv, RequestInv, Waiting
<1>3. OwnInv /\ LateInv
  BY DEF OwnInv, LateInv
<1> QED
  BY <1>1, <1>2, <1>3 DEF Inv

(* The invariant holds always.                                             *)
LEMMA Invariance == Spec => []Inv
<1>1. Inv /\ [Next]_vars => Inv'
  BY TypeOKStep, PhaseInvStep, ReportInvStep, SamplesInvStep, RequestInvStep,
     OwnInvStep, LateInvStep DEF Inv
<1> QED
  BY InitInv, <1>1, PTL DEF Spec

(* Every variable keeps its type: what is requested is always a valid      *)
(* rectangle, also after the resolver has refused one.                     *)
THEOREM PlacementTypes == Spec => []TypeOK
<1>1. Inv => TypeOK
  BY DEF Inv
<1> QED
  BY Invariance, <1>1, PTL

(* A failed placement tells its caller what has happened to the window.    *)
THEOREM PlacementReportsChange == Spec => []ChangeIsReported
<1>1. ASSUME Inv PROVE ChangeIsReported
  <2>1. result.stage \in Stages /\ attempts \in Nat
    BY <1>1 DEF Inv, TypeOK, ResultType
  <2>2. PhaseInv /\ ReportInv
    BY <1>1 DEF Inv
  <2> QED
    BY <2>1, <2>2 DEF ChangeIsReported, Completed, PhaseInv, ReportInv, Stages
<1> QED
  BY Invariance, <1>1, PTL

(* A successful placement has put the tracked window where it was asked to *)
(* be.                                                                     *)
THEOREM PlacementSucceedsInPlace == Spec => []SuccessMeansPlaced
<1>1. ASSUME Inv PROVE SuccessMeansPlaced
  <2> SUFFICES ASSUME Completed PROVE SuccessMeansPlaced
    BY DEF SuccessMeansPlaced
  <2>1. attempts = 2 /\ result.matched /\ ~result.partial
    BY <1>1 DEF Inv, PhaseInv, ReportInv, Completed
  <2>2. stable = RequiredSamples /\ result.actual = previous.bounds
    BY <1>1 DEF Inv, SamplesInv, Completed
  <2>3. /\ OnTarget(previous)
        /\ \A i \in 1 .. RequiredSamples : samples[i].seen = previous
    BY <1>1, <2>2, PlacementAssumption DEF Inv, SamplesInv
  <2>4. result.requested = FinalBounds[settled.setting] /\ result.actual = result.requested
    BY <1>1 DEF Inv, RequestInv, Completed
  <2>5. \A i \in 1 .. RequiredSamples : i < RequiredSamples => samples[i].own
    BY <1>1 DEF Inv, OwnInv
  <2> QED
    BY <2>1, <2>2, <2>3, <2>4, <2>5 DEF SuccessMeansPlaced
<1> QED
  BY Invariance, <1>1, PTL

(* At most one Move or Measure begins after the end of the context, and at *)
(* most one after the window has gone, for any number of samples: each is  *)
(* followed by the look at the context, or at the identity, that stops     *)
(* Place before the next one (LateInv).                                    *)
THEOREM PlacementStopsPromptly == Spec => []AtMostOneLateStep
<1>1. Inv => AtMostOneLateStep
  BY DEF Inv, LateInv, AtMostOneLateStep
<1> QED
  BY Invariance, <1>1, PTL

(* The window is resized only after it has settled on the target monitor.  *)
THEOREM PlacementResizesSettled == Spec => ResizedOnlyWhenSettled
<1>1. ASSUME Inv, [Next]_vars, attempts = 1, attempts' = 2
      PROVE  /\ OnTarget(settled)
             /\ \A i \in 1 .. RequiredSamples : samples[i].seen = settled
             /\ result.requested = FinalBounds[settled.setting]
  <2>1. Moves
    BY <1>1, StepCases DEF Quiet, Decides, MeasureFailed, Sampled, InitiallyMeasured
  <2>2. result.stage = "final_placement" /\ pc = "move"
    BY <1>1, <2>1 DEF Moves, Inv, PhaseInv, TypeOK, ResultType, Stages
  <2>3. stable = RequiredSamples /\ settled = previous
    BY <1>1, <2>2 DEF Inv, SamplesInv
  <2>4. OnTarget(settled) /\ \A i \in 1 .. RequiredSamples : samples[i].seen = settled
    BY <1>1, <2>3, PlacementAssumption DEF Inv, SamplesInv
  <2>5. result.requested = FinalBounds[settled.setting]
    BY <1>1, <2>2 DEF Inv, RequestInv
  <2> QED
    BY <2>4, <2>5
<1> QED
  BY Invariance, <1>1, PTL DEF Spec, ResizedOnlyWhenSettled
=============================================================================
