------------------------------ MODULE MCFunctions ------------------------------
(* The two components that only compute, in one instance for TLC: either one  *)
(* call of Prepare, beside a tracker that is not used, or a tracker fed with  *)
(* any history, beside a call of Prepare that has not begun.                  *)
EXTENDS MCLaunchConditions, TrackerHistory

NotCalled ==
    /\ input = [f \in Fields |-> Text("blank")]
    /\ workArea.dpi = 72
    /\ outcome = Undecided

NotFed == history = <<>> /\ baseline = {}

FunctionsInit == Init /\ HistoryInit /\ (NotCalled \/ NotFed)

FunctionsNext ==
    \/ NotFed /\ Next /\ UNCHANGED historyVars
    \/ NotCalled /\ HistoryNext /\ UNCHANGED vars

FunctionsSpec == FunctionsInit /\ [][FunctionsNext]_<<vars, historyVars>>
=============================================================================
