------------------------------- MODULE MCRestore -------------------------------
(* A client that calls again and again, two overlapping restores, a small cache. *)
EXTENDS Restore
=============================================================================
