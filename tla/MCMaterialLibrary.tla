-------------------------- MODULE MCMaterialLibrary --------------------------
\* Small instances of MaterialLibrary.
EXTENDS MaterialLibrary, TLC

Symmetry == Permutations(Materials) \cup Permutations(Sessions) \cup Permutations(Hashes)
=============================================================================
