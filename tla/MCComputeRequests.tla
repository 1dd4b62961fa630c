-------------------------- MODULE MCComputeRequests --------------------------
EXTENDS ComputeRequests, TLC

Interchangeable == Permutations(Handlers) \cup Permutations(Changes)
=============================================================================
