---------------------------- MODULE MCUsageLedger ----------------------------
(* Two processes serve a request each; only r1 carries an API key.         *)
EXTENDS UsageLedger, TLC

CONSTANTS r1, r2, n1, n2

MCNodeOf == r1 :> n1 @@ r2 :> n2
=============================================================================
