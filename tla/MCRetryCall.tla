---------------------------- MODULE MCRetryCall ----------------------------
EXTENDS RetryCall, TLC

Symmetry == Permutations(Requests)
============================================================================
