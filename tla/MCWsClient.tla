----------------------------- MODULE MCWsClient -----------------------------
EXTENDS WsClient, TLC

Symmetry == Permutations(Requests)
=============================================================================
