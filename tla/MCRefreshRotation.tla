------------------------- MODULE MCRefreshRotation -------------------------
(* Three tokens over four days: the third replaces one whose first exchange   *)
(* was lost, and every period of the code runs out once.                      *)
EXTENDS RefreshRotation, TLC

HandlerSymmetry == Permutations(Handlers)
=============================================================================
