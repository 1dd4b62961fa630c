-------------------------- MODULE MCRegistrations --------------------------
EXTENDS Registrations, TLC

Interchangeable ==
    Permutations(Rows) \cup Permutations(Tokens) \cup Permutations(Handlers)
=============================================================================
