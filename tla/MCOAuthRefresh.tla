---------------------------- MODULE MCOAuthRefresh ----------------------------
(* Interchangeable processes refreshing one credential, and interchangeable *)
(* browser flows reconnecting it.                                           *)
EXTENDS OAuthRefresh, TLC

Symmetry == Permutations(Procs) \union Permutations(Flows)
=============================================================================
