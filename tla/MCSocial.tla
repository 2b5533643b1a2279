------------------------------- MODULE MCSocial -------------------------------
EXTENDS Social, TLC
Symm == Permutations(Users) \cup Permutations(Tx)
=============================================================================
