-------------------------- MODULE UsageLedgerProofs --------------------------
(***************************************************************************)
(* Proofs about UsageLedger, for any fleet, retention and number of        *)
(* faults.  The inductive invariant adds to the three properties what      *)
(* keeps them: a request that has not begun has no row (Unbegun), a row    *)
(* that may still be completed was not billed (Unbilled), a running        *)
(* request's process is heard from or was silent (HeardFrom), and what a   *)
(* sweep selected it selected for a reason (ListedForCause).               *)
(***************************************************************************)
EXTENDS UsageLedger, TLAPS

Protected(r) == ~(NodeOf[r] \in silent \/ r \in ownSwept)

Unbegun == \A r \in Requests :
    req[r] = "idle" => row[r] = "absent" /\ \A n \in Nodes : r \notin list[n]

(* r may still be completed: it runs, has yet to, is pending or is listed. *)
Open(r) == req[r] # "over" \/ row[r] = "pending" \/ \E n \in Nodes : r \in list[n]

Unbilled == \A r \in Requests :
    Open(r) /\ ~Completed(r) => daily[r] = 0 \/ r \in cut

HeardFrom ==
    /\ \A n \in Nodes : Alive(n) => n \in fresh \/ n \in silent
    /\ \A r \in Requests : req[r] = "running" => Alive(NodeOf[r])
    /\ \A n \in Nodes : job[n] # "none" => Alive(n)

ListedForCause == \A n \in Nodes : \A r \in list[n] : req[r] = "running" => ~Protected(r)

LedgerInv ==
    /\ TypeOK
    /\ Unbegun
    /\ RollupAgrees
    /\ Unbilled
    /\ BilledOnce
    /\ HeardFrom
    /\ ListedForCause
    /\ HeartbeatProtects

(* A later instant is in the same hour or in a later one. *)
LEMMA HourMonotone ==
    ASSUME NEW a \in Int, NEW b \in Int, a <= b
    PROVE  hourOf(a) <= hourOf(b) /\ hourOf(a) \in Int
BY TimesTyped DEF hourOf

(* The initial state: an empty log and no process started. *)
LEMMA LedgerInit == Init => LedgerInv
<1> SUFFICES ASSUME Init PROVE LedgerInv
  OBVIOUS
<1>1. TypeOK
  BY DEF Init, TypeOK
<1>2. Unbegun /\ RollupAgrees /\ Unbilled /\ BilledOnce
  BY DEF Init, Unbegun, RollupAgrees, Unbilled, BilledOnce, Completed
<1>3. HeardFrom /\ ListedForCause /\ HeartbeatProtects
  BY DEF Init, HeardFrom, ListedForCause, HeartbeatProtects, Alive
<1> QED
  BY <1>1, <1>2, <1>3 DEF LedgerInv

(* Every action is typed. *)
LEMMA LedgerTypedStep ==
    ASSUME TypeOK, [Next]_vars
    PROVE  TypeOK'
<1> USE DEF TypeOK, Fault
<1>1. ASSUME NEW r \in Requests, Begin(r) PROVE TypeOK'
  BY <1>1 DEF Begin, fleetVars, jobVars
<1>2. ASSUME NEW r \in Requests, Append(r) PROVE TypeOK'
  BY <1>2 DEF Append, Complete, fleetVars, jobVars
<1>3. ASSUME NEW r \in Requests, AppendFails(r) PROVE TypeOK'
  BY <1>3 DEF AppendFails, fleetVars, jobVars, storeVars
<1>4. ASSUME NEW n \in Nodes, Boot(n) PROVE TypeOK'
  BY <1>4 DEF Boot, reqVars, storeVars
<1>5. ASSUME NEW n \in Nodes, Heartbeat(n) PROVE TypeOK'
  BY <1>5 DEF Heartbeat, jobVars, reqVars, storeVars
<1>6. ASSUME NEW n \in Nodes, HeartbeatLapses(n) PROVE TypeOK'
  BY <1>6 DEF HeartbeatLapses, jobVars, reqVars, storeVars
<1>7. ASSUME NEW n \in Nodes, Crash(n) PROVE TypeOK'
  BY <1>7 DEF Crash, storeVars
<1>8. ASSUME NEW n \in Nodes, Hourly(n) PROVE TypeOK'
  BY <1>8 DEF Hourly, fleetVars, reqVars, storeVars
<1>9. ASSUME NEW n \in Nodes, Select(n) PROVE TypeOK'
  BY <1>9 DEF Select, Stale, fleetVars, reqVars, storeVars
<1>10. ASSUME NEW n \in Nodes, Retire(n) PROVE TypeOK'
  BY <1>10 DEF Retire, Complete, fleetVars, reqVars
<1>11. ASSUME NEW n \in Nodes, SweepEnds(n) PROVE TypeOK'
  BY <1>11 DEF SweepEnds, reqVars, storeVars
<1>12. ASSUME NEW n \in Nodes, SweepFails(n) PROVE TypeOK'
  BY <1>12 DEF SweepFails, fleetVars, reqVars, storeVars
<1>13. ASSUME NEW n \in Nodes, Prune(n) PROVE TypeOK'
  <2>1. hourly' \in [Requests -> Nat]
    BY <1>13 DEF Prune, Prunes
  <2> QED
    BY <1>13, <2>1 DEF Prune, fleetVars, reqVars
<1>14. ASSUME NEW n \in Nodes, PruneDaily(n) PROVE TypeOK'
  BY <1>14 DEF PruneDaily, fleetVars, reqVars
<1>15. ASSUME NEW n \in Nodes, PruneFails(n) PROVE TypeOK'
  BY <1>15 DEF PruneFails, fleetVars, reqVars, storeVars
<1>16. CASE LeaseLapses
  BY <1>16 DEF LeaseLapses, fleetVars, reqVars, storeVars
<1>17. CASE Tick
  BY <1>17 DEF Tick, fleetVars, jobVars, reqVars, storeVars
<1>18. CASE UNCHANGED vars
  BY <1>18 DEF vars, fleetVars, jobVars, reqVars, storeVars
<1> QED
  BY <1>1, <1>2, <1>3, <1>4, <1>5, <1>6, <1>7, <1>8, <1>9, <1>10, <1>11, <1>12, <1>13,
     <1>14, <1>15, <1>16, <1>17, <1>18 DEF Next

(* The conjuncts besides the type, which LedgerTypedStep keeps *)
Kept ==
    /\ Unbegun /\ RollupAgrees /\ Unbilled /\ BilledOnce
    /\ HeardFrom /\ ListedForCause /\ HeartbeatProtects

(* Completing a row that may still be completed keeps the rollup exact and *)
(* bills at most once.                                                     *)
LEMMA CompleteBillsOnce ==
    ASSUME LedgerInv, NEW r \in Requests, NEW how \in {"done", "interrupted"},
           Complete(r, how), Open(r), cut' = cut
    PROVE  /\ RollupAgrees' /\ BilledOnce'
           /\ Completed(r)'
           /\ \A q \in Requests \ {r} : row'[q] = row[q] /\ daily'[q] = daily[q]
           /\ row'[r] = how \/ row'[r] = row[r]
<1> USE DEF LedgerInv, TypeOK, Completed
<1>1. CASE Claim(r)
  <2>1. /\ row' = [row EXCEPT ![r] = how]
        /\ daily' = [daily EXCEPT ![r] = @ + 1]
        /\ hourly' = [hourly EXCEPT ![r] = IF r \in Keyed THEN @ + 1 ELSE @]
    BY <1>1 DEF Complete
  <2>2. daily[r] = 0 \/ r \in cut
    BY <1>1 DEF Claim, Unbilled
  <2>3. RollupAgrees'
    BY <1>1, <2>1 DEF RollupAgrees, Claim
  <2>4. BilledOnce'
    BY <2>1, <2>2 DEF BilledOnce
  <2> QED
    BY <2>1, <2>3, <2>4
<1>2. CASE ~Claim(r)
  BY <1>2 DEF Complete, Claim, RollupAgrees, BilledOnce
<1> QED
  BY <1>1, <1>2

(* Every step keeps the invariant. *)
LEMMA LedgerStep ==
    ASSUME LedgerInv, TypeOK', [Next]_vars
    PROVE  Kept'
<1> USE DEF LedgerInv, TypeOK, Kept, Protected, Open, Completed, Alive
<1>1. ASSUME NEW r \in Requests, Begin(r) PROVE Kept'
  <2>1. /\ req[r] = "idle" /\ node[NodeOf[r]] = "up" /\ req' = [req EXCEPT ![r] = "running"]
        /\ row'[r] \in {"pending", "absent"}
        /\ \A q \in Requests \ {r} : row'[q] = row[q]
        /\ UNCHANGED <<node, fresh, silent, job, list, ownSwept, hourly, daily, cut>>
    BY <1>1 DEF Begin, fleetVars, jobVars
  <2>2. row[r] = "absent" /\ \A n \in Nodes : r \notin list[n]
    BY <2>1 DEF Unbegun
  <2>3. Unbegun' /\ RollupAgrees' /\ Unbilled' /\ BilledOnce'
    BY <2>1, <2>2 DEF Unbegun, RollupAgrees, Unbilled, BilledOnce
  <2>4. HeardFrom' /\ ListedForCause' /\ HeartbeatProtects'
    BY <2>1, <2>2, MapsTyped DEF HeardFrom, ListedForCause, HeartbeatProtects
  <2> QED
    BY <2>3, <2>4
<1>2. ASSUME NEW r \in Requests, Append(r) PROVE Kept'
  <2>1. /\ req[r] = "running" /\ req' = [req EXCEPT ![r] = "over"]
        /\ UNCHANGED <<node, fresh, silent, job, list, ownSwept, cut>>
    BY <1>2 DEF Append, fleetVars, jobVars
  <2>2. /\ RollupAgrees' /\ BilledOnce' /\ Completed(r)'
        /\ \A q \in Requests \ {r} : row'[q] = row[q] /\ daily'[q] = daily[q]
    BY <1>2, <2>1, CompleteBillsOnce DEF Append
  <2>3. Unbegun' /\ Unbilled'
    BY <2>1, <2>2 DEF Unbegun, Unbilled
  <2>4. HeardFrom' /\ ListedForCause' /\ HeartbeatProtects'
    BY <2>1, <2>2 DEF HeardFrom, ListedForCause, HeartbeatProtects
  <2> QED
    BY <2>2, <2>3, <2>4
<1>3. ASSUME NEW r \in Requests, AppendFails(r) PROVE Kept'
  <2>1. /\ req[r] = "running" /\ req' = [req EXCEPT ![r] = "over"]
        /\ UNCHANGED <<node, fresh, silent, job, list, ownSwept, row, hourly, daily, cut>>
    BY <1>3 DEF AppendFails, fleetVars, jobVars, storeVars
  <2>2. Unbegun' /\ RollupAgrees' /\ Unbilled' /\ BilledOnce'
    BY <2>1 DEF Unbegun, RollupAgrees, Unbilled, BilledOnce
  <2>3. HeardFrom' /\ ListedForCause' /\ HeartbeatProtects'
    BY <2>1 DEF HeardFrom, ListedForCause, HeartbeatProtects
  <2> QED
    BY <2>2, <2>3
<1>4. ASSUME NEW n \in Nodes,
             Boot(n) \/ Heartbeat(n) \/ HeartbeatLapses(n) \/ SweepEnds(n)
      PROVE  Kept'
  <2>1. UNCHANGED <<list, ownSwept, req, row, hourly, daily, cut>>
    BY <1>4 DEF Boot, Heartbeat, HeartbeatLapses, SweepEnds, jobVars, reqVars, storeVars
  <2>2. Unbegun' /\ RollupAgrees' /\ Unbilled' /\ BilledOnce'
    BY <2>1 DEF Unbegun, RollupAgrees, Unbilled, BilledOnce
  <2>3. silent \subseteq silent'
    BY <1>4 DEF Boot, Heartbeat, HeartbeatLapses, SweepEnds
  <2>4. ListedForCause' /\ HeartbeatProtects'
    BY <2>1, <2>3 DEF ListedForCause, HeartbeatProtects
  <2>5. ASSUME Boot(n) PROVE HeardFrom'
    BY <2>1, <2>5, MapsTyped DEF Boot, HeardFrom
  <2>6. ASSUME Heartbeat(n) PROVE HeardFrom'
    BY <2>1, <2>6, MapsTyped DEF Heartbeat, HeardFrom, jobVars
  <2>7. ASSUME HeartbeatLapses(n) PROVE HeardFrom'
    BY <2>1, <2>7, MapsTyped DEF HeartbeatLapses, HeardFrom, jobVars
  <2>8. ASSUME SweepEnds(n) PROVE HeardFrom'
    BY <2>1, <2>8, MapsTyped DEF SweepEnds, HeardFrom
  <2> QED
    BY <1>4, <2>2, <2>4, <2>5, <2>6, <2>7, <2>8
<1>5. ASSUME NEW n \in Nodes, Crash(n) PROVE Kept'
  <2>1. /\ node' = [node EXCEPT ![n] = "dead"]
        /\ job' = [job EXCEPT ![n] = "none"]
        /\ list' = [list EXCEPT ![n] = {}]
        /\ req' = [r \in Requests |->
                     IF NodeOf[r] = n /\ req[r] = "running" THEN "over" ELSE req[r]]
        /\ UNCHANGED <<fresh, silent, ownSwept, row, hourly, daily, cut>>
    BY <1>5 DEF Crash, storeVars
  <2>2. Unbegun' /\ RollupAgrees' /\ Unbilled' /\ BilledOnce'
    BY <2>1 DEF Unbegun, RollupAgrees, Unbilled, BilledOnce
  <2>3. HeardFrom' /\ ListedForCause' /\ HeartbeatProtects'
    BY <2>1, MapsTyped DEF HeardFrom, ListedForCause, HeartbeatProtects
  <2> QED
    BY <2>2, <2>3
<1>6. ASSUME NEW n \in Nodes, Select(n) PROVE Kept'
  <2>1. /\ job[n] = "select"
        /\ list' = [list EXCEPT ![n] = Stale(n)]
        /\ ownSwept' = ownSwept \union {r \in Stale(n) : NodeOf[r] = n}
        /\ job' = [job EXCEPT ![n] = "retire"]
        /\ UNCHANGED <<node, fresh, silent, req, row, hourly, daily, cut>>
    BY <1>6 DEF Select, fleetVars, reqVars, storeVars
  <2>2. \A r \in Stale(n) : row[r] = "pending" /\ (NodeOf[r] = n \/ NodeOf[r] \notin fresh)
    BY DEF Stale
  <2>3. Unbegun' /\ RollupAgrees' /\ Unbilled' /\ BilledOnce'
    BY <2>1, <2>2 DEF Unbegun, RollupAgrees, Unbilled, BilledOnce
  <2>4. HeardFrom' /\ HeartbeatProtects'
    BY <2>1, <2>2 DEF HeardFrom, HeartbeatProtects
  <2>5. \A r \in Stale(n) : req[r] = "running" => NodeOf[r] \in silent \/ NodeOf[r] = n
    BY <2>2, MapsTyped DEF HeardFrom, Stale
  <2>6. ListedForCause'
    BY <2>1, <2>5 DEF ListedForCause
  <2> QED
    BY <2>3, <2>4, <2>6
<1>7. ASSUME NEW n \in Nodes, Retire(n) PROVE Kept'
  <2>1. PICK r \in list[n] :
          /\ Complete(r, "interrupted")
          /\ list' = [list EXCEPT ![n] = @ \ {r}]
    BY <1>7 DEF Retire
  <2>2. UNCHANGED <<node, fresh, silent, job, ownSwept, req, cut>>
    BY <1>7 DEF Retire, fleetVars, reqVars
  <2>3. /\ r \in Requests /\ req[r] # "idle"
        /\ req[r] = "running" => ~Protected(r)
    BY <2>1 DEF Unbegun, ListedForCause
  <2>4. /\ RollupAgrees' /\ BilledOnce' /\ Completed(r)'
        /\ \A q \in Requests \ {r} : row'[q] = row[q] /\ daily'[q] = daily[q]
    BY <2>1, <2>2, <2>3, CompleteBillsOnce
  <2>5. Unbegun' /\ Unbilled'
    BY <2>1, <2>2, <2>3, <2>4 DEF Unbegun, Unbilled
  <2>6. HeardFrom' /\ ListedForCause' /\ HeartbeatProtects'
    BY <2>1, <2>2, <2>3, <2>4 DEF HeardFrom, ListedForCause, HeartbeatProtects
  <2> QED
    BY <2>4, <2>5, <2>6
<1>8. ASSUME NEW n \in Nodes, Hourly(n) \/ SweepFails(n) \/ PruneFails(n) PROVE Kept'
  <2>1. /\ \A m \in Nodes : list'[m] \subseteq list[m]
        /\ \A m \in Nodes : job'[m] # "none" => job[m] # "none" \/ node[m] = "up"
        /\ UNCHANGED <<node, fresh, silent, ownSwept, req, row, hourly, daily, cut>>
    BY <1>8 DEF Hourly, SweepFails, PruneFails, fleetVars, reqVars, storeVars
  <2>2. Unbegun' /\ RollupAgrees' /\ Unbilled' /\ BilledOnce'
    BY <2>1 DEF Unbegun, RollupAgrees, Unbilled, BilledOnce
  <2>3. HeardFrom' /\ ListedForCause' /\ HeartbeatProtects'
    BY <2>1 DEF HeardFrom, ListedForCause, HeartbeatProtects
  <2> QED
    BY <2>2, <2>3
<1>9. ASSUME NEW n \in Nodes, Prune(n) PROVE Kept'
  <2> DEFINE olderThan == now - Retention
             Old == {r \in Requests : row[r] # "absent" /\ at[r] < olderThan}
  <2>1. /\ row' = [r \in Requests |-> IF r \in Old THEN "absent" ELSE row[r]]
        /\ Prunes(olderThan)
        /\ cut' = cut \union {r \in Old : req[r] = "running" \/ \E m \in Nodes : r \in list[m]}
        /\ job[n] = "prune" /\ job' = [job EXCEPT ![n] = "pruneDaily"]
        /\ UNCHANGED <<node, fresh, silent, list, ownSwept, req, daily>>
    BY <1>9 DEF Prune, fleetVars, reqVars
  <2>2. olderThan \in Int
    BY TimesTyped
  <2> HIDE DEF olderThan
  <2>3. ASSUME NEW r \in Requests PROVE hourly'[r] = IF Completed(r)' /\ r \in Keyed THEN 1 ELSE 0
    <3>1. /\ at[r] \in Int /\ hourOf(at[r]) \in Int /\ hourOf(olderThan) \in Int
          /\ at[r] < olderThan => hourOf(at[r]) <= hourOf(olderThan)
          /\ at[r] >= olderThan => hourOf(at[r]) >= hourOf(olderThan)
      BY <2>2, HourMonotone
    <3>2. CASE at[r] < olderThan
      BY <2>1, <2>2, <3>1, <3>2 DEF Prunes, RollupAgrees
    <3>3. CASE at[r] >= olderThan
      <4>1. row'[r] = row[r]
        BY <2>1, <2>2, <3>1, <3>3
      <4>2. CASE hourOf(at[r]) > hourOf(olderThan)
        BY <2>1, <3>1, <4>1, <4>2 DEF Prunes, RollupAgrees
      <4>3. CASE hourOf(at[r]) = hourOf(olderThan)
        BY <2>1, <3>1, <3>3, <4>1, <4>3 DEF Prunes, RollupAgrees
      <4> QED
        BY <3>1, <3>3, <4>2, <4>3
    <3> QED
      BY <2>2, <3>1, <3>2, <3>3
  <2>4. Unbegun' /\ RollupAgrees' /\ BilledOnce'
    BY <2>1, <2>3 DEF Unbegun, RollupAgrees, BilledOnce
  <2>5. Unbilled'
    BY <2>1 DEF Unbilled, Unbegun, BilledOnce
  <2>6. HeardFrom' /\ ListedForCause' /\ HeartbeatProtects'
    BY <2>1 DEF HeardFrom, ListedForCause, HeartbeatProtects
  <2> QED
    BY <2>4, <2>5, <2>6
<1>10. ASSUME NEW n \in Nodes, PruneDaily(n) PROVE Kept'
  <2>1. /\ \A r \in Requests : daily'[r] = 0 \/ daily'[r] = daily[r]
        /\ job' = [job EXCEPT ![n] = "none"]
        /\ UNCHANGED <<node, fresh, silent, list, ownSwept, req, row, hourly, cut>>
    BY <1>10 DEF PruneDaily, fleetVars, reqVars
  <2>2. Unbegun' /\ RollupAgrees' /\ Unbilled' /\ BilledOnce'
    BY <2>1 DEF Unbegun, RollupAgrees, Unbilled, BilledOnce
  <2>3. HeardFrom' /\ ListedForCause' /\ HeartbeatProtects'
    BY <2>1 DEF HeardFrom, ListedForCause, HeartbeatProtects
  <2> QED
    BY <2>2, <2>3
<1>11. CASE LeaseLapses \/ Tick \/ UNCHANGED vars
  <2>1. UNCHANGED <<node, fresh, silent, job, list, ownSwept, req, row, hourly, daily, cut>>
    BY <1>11 DEF LeaseLapses, Tick, vars, fleetVars, jobVars, reqVars, storeVars
  <2>2. Unbegun' /\ RollupAgrees' /\ Unbilled' /\ BilledOnce'
    BY <2>1 DEF Unbegun, RollupAgrees, Unbilled, BilledOnce
  <2>3. HeardFrom' /\ ListedForCause' /\ HeartbeatProtects'
    BY <2>1 DEF HeardFrom, ListedForCause, HeartbeatProtects
  <2> QED
    BY <2>2, <2>3
<1> QED
  BY <1>1, <1>2, <1>3, <1>4, <1>5, <1>6, <1>7, <1>8, <1>9, <1>10, <1>11 DEF Next

(* The invariant holds of every fleet. *)
THEOREM LedgerInvariant == Spec => []LedgerInv
<1>1. LedgerInv /\ [Next]_vars => LedgerInv'
  BY LedgerTypedStep, LedgerStep DEF LedgerInv, Kept
<1> QED
  BY LedgerInit, <1>1, PTL DEF Spec

(* Every variable keeps its shape: no counter of a rollup goes below zero. *)
THEOREM UsageLedgerTyped == Spec => []TypeOK
BY LedgerInvariant, PTL DEF LedgerInv

(* usage_rollup always agrees with the log it summarises, whatever sweeps, *)
(* completions, prunes and crashes there are (complete, pruneLogs).        *)
THEOREM RollupAgreesHolds == Spec => []RollupAgrees
BY LedgerInvariant, PTL DEF LedgerInv

(* No request is billed twice in usage_daily, but for a row retention took *)
(* away under a completion still to come (complete is a claim).            *)
THEOREM BilledOnceHolds == Spec => []BilledOnce
BY LedgerInvariant, PTL DEF LedgerInv

(* A heartbeat protects a process's running requests from every other      *)
(* process's sweep (boot order, sweepPending).                             *)
THEOREM HeartbeatProtectsHolds == Spec => []HeartbeatProtects
BY LedgerInvariant, PTL DEF LedgerInv
=============================================================================
