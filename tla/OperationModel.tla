--------------------------- MODULE OperationModel ---------------------------
(***************************************************************************)
(* The vocabulary of a Chrome launch operation: its states, the snapshots  *)
(* handed to callers and listeners, the results of a workflow, and the     *)
(* transition table of chromelaunchoperation/model.go.                     *)
(*                                                                         *)
(* The error code of a failure matters only as "none", "unexpected", or    *)
(* one of the codes named by the failing stage.                            *)
(***************************************************************************)
EXTENDS Integers

ActiveStates   == {"starting", "running", "cancelling"}
TerminalStates == {"completed", "cancelled", "timed_out", "failed"}
States         == ActiveStates \cup TerminalStates

IsTerminal(state) == state \in TerminalStates

CanTransition(from, to) ==
    \/ from = "starting"   /\ to \in {"running", "failed"}
    \/ from = "running"    /\ to \in {"completed", "timed_out", "failed"}
    \/ from = "cancelling" /\ to = "cancelled"

ErrorCodes == {"none", "invalid_request", "work_area_unavailable",
               "chrome_not_found", "unsupported_platform", "launch_failed",
               "window_observation_failed", "ambiguous_windows",
               "window_candidate_lost", "placement_failed",
               "unexpected_failure"}

Outcomes == {"completed", "cancelled", "timed_out", "failed", "invalid"}

WorkflowResultType == [outcome : Outcomes, code : ErrorCodes]

(***************************************************************************)
(* "operation-<n>" is the number n. NoSnapshot is the registry before its  *)
(* first operation.                                                        *)
(***************************************************************************)
NoSnapshot == [id |-> 0, state |-> "none", code |-> "none"]

SnapshotOf(id, state, code) == [id |-> id, state |-> state, code |-> code]

Snapshots == [id : Nat \ {0}, state : States, code : ErrorCodes]

(***************************************************************************)
(* How a WorkflowResult becomes a terminal state: an empty code of a       *)
(* failure is replaced, the code of any other outcome is dropped.          *)
(***************************************************************************)
TerminalState(result) ==
    IF result.outcome \in {"failed", "invalid"} THEN "failed"
                                                ELSE result.outcome

TerminalCode(result) ==
    IF result.outcome \notin {"failed", "invalid"} THEN "none"
    ELSE IF result.code = "none" THEN "unexpected_failure" ELSE result.code

(***************************************************************************)
(* A workflow reports "cancelled" or "timed_out" only of a context that    *)
(* has ended in that way.                                                  *)
(***************************************************************************)
AgreesWithContext(result, err) ==
    /\ result.outcome = "cancelled" => err = "canceled"
    /\ result.outcome = "timed_out" => err = "deadline"

(***************************************************************************)
(* What the run goroutine's select makes of a context that has ended.      *)
(***************************************************************************)
ContextTerminalState(err) ==
    IF err = "deadline" THEN "timed_out" ELSE "cancelled"
=============================================================================
