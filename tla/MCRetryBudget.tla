--------------------------- MODULE MCRetryBudget ---------------------------
EXTENDS RetryBudget, TLC

Symmetry == Permutations(Callers) \cup Permutations(Decayers)
============================================================================
