--------------------------- MODULE MCAccountTokens ---------------------------
EXTENDS AccountTokens, TLC

Interchangeable ==
    Permutations(Addresses) \cup Permutations(Sessions)
    \cup Permutations(Links) \cup Permutations(Clients)
=============================================================================
