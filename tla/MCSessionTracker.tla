--------------------------- MODULE MCSessionTracker ---------------------------
(* Instances of SessionTracker for TLC.                                      *)
EXTENDS SessionTracker, TLC

CallSymmetry == Permutations(Call)
=============================================================================
