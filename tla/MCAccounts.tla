------------------------------ MODULE MCAccounts ------------------------------
\* Accounts for TLC: requests, devices, clients and names are interchangeable.
EXTENDS Accounts, TLC

Symm ==
    Permutations(Tx) \cup Permutations(Devices) \cup Permutations(Clients) \cup Permutations(Names)
=============================================================================
