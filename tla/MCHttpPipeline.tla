--------------------------- MODULE MCHttpPipeline ---------------------------
EXTENDS HttpPipeline, TLC

Symmetry == Permutations(Requests)
=============================================================================
