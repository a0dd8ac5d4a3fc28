-------------------------- MODULE MCCircuitBreaker --------------------------
EXTENDS CircuitBreaker, TLC

\* Goroutines are interchangeable, and so are the cells of the heap.
Symmetry == Permutations(Procs) \cup Permutations(Windows)
=============================================================================
