---------------------------- MODULE LaunchEvents ----------------------------
(***************************************************************************)
(* What the listener of launch-operation events may rely on, whatever the  *)
(* goroutines behind them do: the events form one forward-only story.  An  *)
(* event may be missing, but none is repeated, none of an older operation  *)
(* follows one of a newer operation, nothing of an operation follows its   *)
(* end, and after "cancelling" only "cancelled" is ever told.              *)
(***************************************************************************)
EXTENDS OperationModel

VARIABLE last  \* the latest event delivered, NoSnapshot before the first

LevelOf(state) ==
    CASE state = "starting"   -> 1
      [] state = "running"    -> 2
      [] state = "cancelling" -> 3
      [] IsTerminal(state)    -> 4
      [] OTHER                -> 0

Follows(earlier, later) ==
    \/ later.id > earlier.id
    \/ /\ later.id = earlier.id
       /\ LevelOf(later.state) > LevelOf(earlier.state)
       /\ earlier.state = "cancelling" => later.state = "cancelled"

Init == last = NoSnapshot

Next ==
    /\ last' \in Snapshots
    /\ Follows(last, last')

Spec == Init /\ [][Next]_last
=============================================================================
