---------------------------- MODULE MCAdminRoster ----------------------------
EXTENDS AdminRoster, TLC

Interchangeable == Permutations(InitialAdmins) \cup Permutations(Handlers)
=============================================================================
