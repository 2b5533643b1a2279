------------------------------ MODULE MCPhone -------------------------------
\* Phone for TLC: the screens that run useSync are interchangeable, and so
\* are the button presses.
EXTENDS Phone, TLC

Symm == Permutations(Flushers) \cup Permutations(Taps)
=============================================================================
