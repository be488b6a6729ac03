------------------------- MODULE MCGroupPublication -------------------------
\* Small instances of GroupPublication.
EXTENDS GroupPublication, TLC

Symmetry == Permutations(Attempts) \cup Permutations(Devices)
              \cup Permutations(Requests) \cup Permutations(Payloads)
=============================================================================
