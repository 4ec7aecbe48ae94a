------------------------------- MODULE MC_Users -------------------------------
EXTENDS Users, TLC

Interchangeable == Permutations(Ids) \cup Permutations(Patches)
=============================================================================
