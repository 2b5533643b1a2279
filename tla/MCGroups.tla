------------------------------- MODULE MCGroups -------------------------------
\* Groups for TLC: users, requests and codes are interchangeable.
EXTENDS Groups, TLC

Symm == Permutations(Users) \cup Permutations(Tx) \cup Permutations(Codes)
=============================================================================
