---------------------------- MODULE MCSnapshotCache ----------------------------
(* Callers, builds and values are interchangeable; no liveness is checked. *)
EXTENDS SnapshotCache, TLC

Symmetry == Permutations(Readers) \cup Permutations(Builds) \cup Permutations(Values)
=============================================================================
