----------------------------- MODULE MCAdmission -----------------------------
(* A key with model overrides.  The burst instance overrides m1 only, keeps *)
(* requests short and has a count_tokens call (r3) for m2, which is judged  *)
(* by the key alone; the renewal instance has two dispatched requests that  *)
(* may outlive GaugeTtl and MaxRenewed, and an override of m2 without a     *)
(* concurrency ceiling, so its slots are anonymous.                         *)
EXTENDS Admission, TLC

CONSTANTS r1, r2, r3, p1, p2, key, m1, m2

MCProcOf == r1 :> p1 @@ r2 :> p2 @@ r3 :> p1

BurstModelOf == r1 :> m1 @@ r2 :> m1 @@ r3 :> m2
BurstReqLimit == key :> 1 @@ m1 :> 0
BurstConcLimit == key :> 2 @@ m1 :> 1
BurstLongLimit == key :> {"requests"} @@ m1 :> {}

RenewProcOf == r1 :> p1 @@ r2 :> p2
RenewModelOf == r1 :> m1 @@ r2 :> m2
RenewReqLimit == key :> 0 @@ m1 :> 0 @@ m2 :> 0
RenewConcLimit == key :> 1 @@ m1 :> 1 @@ m2 :> 0
RenewLongLimit == key :> {} @@ m1 :> {} @@ m2 :> {"tokens"}
=============================================================================
