------------------------------ MODULE MCHedge ------------------------------
EXTENDS Hedge, TLC

Symmetry == Permutations(Requests) \cup Permutations(States)
============================================================================
