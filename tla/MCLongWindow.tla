----------------------------- MODULE MCLongWindow -----------------------------
(* Interchangeable requests of one key on any processes. *)
EXTENDS LongWindow, TLC

Symmetry == Permutations(Requests)
=============================================================================
