--------------------------- MODULE MCRealtimeHub ----------------------------
(***************************************************************************)
(* Instances of RealtimeHub for TLC.                                       *)
(***************************************************************************)
EXTENDS RealtimeHub, TLC

\* Processes, connections and publishing handlers are interchangeable.
Symmetry == Permutations(Hubs) \cup Permutations(Conns) \cup Permutations(Pubs)
=============================================================================
