------------------------- MODULE MCNavCommandServer -------------------------
(* Instances of NavCommandServer for TLC.                                  *)
EXTENDS NavCommandServer, TLC

GoalSymmetry == Permutations(Goals)
=============================================================================
