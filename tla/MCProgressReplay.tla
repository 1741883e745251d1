-------------------------- MODULE MCProgressReplay --------------------------
(* A small instance of ProgressReplay for TLC.                             *)
EXTENDS ProgressReplay

CONSTANTS x1, x2, weak, strong

TwoExperiments == {x1, x2}
TwoResponses   == {weak, strong}
MatchedChecks  == [r \in TwoResponses |-> IF r = strong THEN {1, 2} ELSE {1}]

=============================================================================
