---------------------------- MODULE MC_Portfolio ----------------------------
(* Portfolio with interchangeable wallets. *)
EXTENDS Portfolio, TLC

Symmetry == Permutations(Wallet)
=============================================================================
