---------------------------- MODULE MCGroupFeed -----------------------------
\* Small instances of GroupFeed.
EXTENDS GroupFeed, TLC

Symmetry == Permutations(Sockets) \cup Permutations(Pollers)
=============================================================================
