--------------------------- MODULE MC_StrategyOps ---------------------------
EXTENDS StrategyOps, TLC

Symmetry == Permutations(Sid) \cup Permutations(Inst)
=============================================================================
