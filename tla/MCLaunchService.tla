-------------------------- MODULE MCLaunchService ---------------------------
(* The instance of LaunchService that TLC checks.                          *)
EXTENDS LaunchService

MCResults == {[outcome |-> "completed", code |-> "none"],
              [outcome |-> "cancelled", code |-> "none"],
              [outcome |-> "timed_out", code |-> "none"]}

(* Which answer it is makes no difference to whether things go on.         *)
MCOneResult == {[outcome |-> "cancelled", code |-> "none"]}
=============================================================================
