------------------------------ MODULE MC_SignIn ------------------------------
EXTENDS SignIn, TLC

Interchangeable == Permutations(Requests) \cup Permutations(Challenges)
=============================================================================
