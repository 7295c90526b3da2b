-------------------------- MODULE MC_SnapshotStream -------------------------
(* Two keys, one row content, three versions per server run.               *)
EXTENDS SnapshotStream, TLC

KeySymmetry == Permutations(Keys)
=============================================================================
