----------------------------- MODULE MCDynScope -----------------------------
EXTENDS DynScope, TLC

MCSymmetry == Permutations(Symbols)
=============================================================================
