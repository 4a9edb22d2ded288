-------------------------- MODULE MCWindowPlacement --------------------------
(* The instance of WindowPlacement that TLC checks: two rectangles, one     *)
(* setting elsewhere and two of the target monitor, of which one has no     *)
(* valid final bounds; three equal samples out of at most five.             *)
EXTENDS WindowPlacement

CONSTANTS small, large, elsewhere, target, shrunk

MCBounds         == {small, large}
MCSettings       == {elsewhere, target, shrunk}
MCTargetSettings == {target, shrunk}
MCFinalBounds    == [s \in MCSettings |-> CASE s = elsewhere -> small
                                            [] s = target    -> large
                                            [] s = shrunk    -> NoBounds]
=============================================================================
