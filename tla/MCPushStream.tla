------------------------------ MODULE MCPushStream ------------------------------
(* An owner, a process with another console's view of it, and one console. *)
EXTENDS PushStream
=============================================================================
