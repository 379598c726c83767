------------------------------ MODULE MCDispatch ------------------------------
(* Two requests of two models that share a pair, which is recovering. *)
EXTENDS Dispatch

CONSTANTS a, b, r1

OpenRow == [state |-> "open", failures |-> Threshold, openedAt |-> 0, limitedUntil |-> Never]
Rows == {[p \in Pairs |-> IF p = a THEN OpenRow ELSE Blank]}
Models == [r \in Requests |-> IF r = r1 THEN {a, b} ELSE {a}]
=============================================================================
