--------------------------- MODULE MC_KillSwitch ---------------------------
(* KillSwitch with interchangeable markets. *)
EXTENDS KillSwitch, TLC

Symmetry == Permutations(Markets)
=============================================================================
