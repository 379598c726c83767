----------------------------- MODULE UsageLedger -----------------------------
(***************************************************************************)
(* The request log and its two rollups, shared by every process of a fleet *)
(* (packages/store/src/{sqlite,postgres}/{usage,rollup,maintenance}.ts,    *)
(* apps/gateway/src/{maintenance,lease,logging,index}.ts).                 *)
(*                                                                         *)
(* A request writes a pending row, and completing it writes the row and    *)
(* both rollups in one transaction.  The rows of a process nobody has      *)
(* heard from are retired as interrupted, at boot and by the hourly        *)
(* maintenance of the process that holds the lease, which then prunes.     *)
(* Several nodes sweep at once and a row's owner may finish meanwhile.     *)
(*                                                                         *)
(* A node is one process with its own random nodeId, so a restart is       *)
(* another node.  Counters are sums over requests, so each is kept as what *)
(* every request adds to it; token figures are left out.  `route` rewrites *)
(* descriptive columns of a pending row and is left out with them.         *)
(***************************************************************************)
EXTENDS Integers, FiniteSets

CONSTANTS
    Requests,
    Nodes,
    NoNode,          \* nobody holds the lease
    NodeOf,          \* [Requests -> Nodes]
    Keyed,           \* the requests that carry an API key
    Hour,            \* ticks in an hour of usage_rollup
    Day,             \* ticks in a day of usage_daily
    Retention,       \* logRetentionDays, in ticks
    DailyRetention,  \* ROLLUP_RETENTION_DAYS, in ticks
    MaxFaults,       \* bound: crashes, silences, failed writes
    MaxTime          \* bound: ticks

ASSUME RequestsFinite == IsFiniteSet(Requests)
ASSUME NobodyIsNoNode == NoNode \notin Nodes
ASSUME MapsTyped == NodeOf \in [Requests -> Nodes] /\ Keyed \subseteq Requests
ASSUME TimesTyped ==
    /\ Hour \in Nat \ {0} /\ Day \in Nat \ {0}
    /\ Retention \in Nat /\ DailyRetention \in Nat
    /\ MaxFaults \in Nat /\ MaxTime \in Nat

VARIABLES
    now,
    node,      \* where each process is: new, boot, up, dead
    fresh,     \* nodes heard from within NODE_GRACE_MS
    lease,     \* holder of the lease "maintenance"
    job,       \* the maintenance step each process is at
    list,      \* rows a sweep selected and has still to retire
    req,       \* the request itself: idle, running, over
    at,        \* its start
    row,       \* request_logs: absent, pending, done, interrupted
    hourly,    \* what each request adds to usage_rollup
    daily,     \* what each request adds to usage_daily
    silent,    \* history: nodes whose heartbeat lapsed while they ran
    ownSwept,  \* history: rows their own process selected while it served
    cut,       \* history: rows pruned before their last completion came in
    faults     \* history: faults so far

fleetVars == <<node, fresh, silent>>
jobVars   == <<job, list, lease, ownSwept>>
reqVars   == <<req, at>>
storeVars == <<row, hourly, daily, cut>>
vars == <<now, fleetVars, jobVars, reqVars, storeVars, faults>>

Fault == faults < MaxFaults /\ faults' = faults + 1

hourOf(t) == t \div Hour
startOfDay(t) == (t \div Day) * Day

Completed(r) == row[r] \in {"done", "interrupted"}

-----------------------------------------------------------------------------
(* Completing a row *)

(* Mutated form of Claim: an upsert that does not ask for state = 'pending'. *)
ClaimAlways(r) == TRUE

(* The claim: the row is still pending, or there is none and it is inserted. *)
Claim(r) == ~Completed(r)

(* One transaction: the row, usage_daily, and usage_rollup when keyed. *)
Complete(r, how) ==
    IF Claim(r)
    THEN /\ row' = [row EXCEPT ![r] = how]
         /\ daily' = [daily EXCEPT ![r] = @ + 1]
         /\ hourly' = [hourly EXCEPT ![r] = IF r \in Keyed THEN @ + 1 ELSE @]
    ELSE UNCHANGED <<row, daily, hourly>>

(* beginLog.  A request that fails before dispatch, or whose insert fails, *)
(* has no row until it is completed.                                       *)
Begin(r) ==
    /\ req[r] = "idle"
    /\ node[NodeOf[r]] = "up"
    /\ req' = [req EXCEPT ![r] = "running"]
    /\ at' = [at EXCEPT ![r] = now]
    /\ \E began \in BOOLEAN : row' = [row EXCEPT ![r] = IF began THEN "pending" ELSE "absent"]
    /\ UNCHANGED <<now, fleetVars, jobVars, hourly, daily, cut, faults>>

(* finishLog's append, once per request id *)
Append(r) ==
    /\ req[r] = "running"
    /\ Complete(r, "done")
    /\ req' = [req EXCEPT ![r] = "over"]
    /\ UNCHANGED <<now, fleetVars, jobVars, at, cut, faults>>

AppendFails(r) ==
    /\ req[r] = "running"
    /\ Fault
    /\ req' = [req EXCEPT ![r] = "over"]
    /\ UNCHANGED <<now, fleetVars, jobVars, at, storeVars>>

-----------------------------------------------------------------------------
(* Nodes and their heartbeats *)

(* Mutated form of Boot: the boot sweep runs and requests are served before *)
(* the first heartbeat is written.                                          *)
BootUnheard(n) ==
    /\ node[n] = "new"
    /\ node' = [node EXCEPT ![n] = "boot"]
    /\ job' = [job EXCEPT ![n] = "select"]
    /\ UNCHANGED <<now, fresh, silent, list, lease, ownSwept, reqVars, storeVars, faults>>

(* The heartbeat first, then the boot sweep, then requests. *)
Boot(n) ==
    /\ node[n] = "new"
    /\ node' = [node EXCEPT ![n] = "boot"]
    /\ fresh' = fresh \union {n}
    /\ job' = [job EXCEPT ![n] = "select"]
    /\ UNCHANGED <<now, silent, list, lease, ownSwept, reqVars, storeVars, faults>>

Alive(n) == node[n] \in {"boot", "up"}

Heartbeat(n) ==
    /\ node[n] = "up"
    /\ fresh' = fresh \union {n}
    /\ UNCHANGED <<now, node, silent, jobVars, reqVars, storeVars, faults>>

(* NODE_GRACE_MS without a heartbeat: the node died, or six beats in a row *)
(* did not reach the store.                                                *)
HeartbeatLapses(n) ==
    /\ n \in fresh
    /\ \/ ~Alive(n) /\ UNCHANGED <<silent, faults>>
       \/ Alive(n) /\ Fault /\ silent' = silent \union {n}
    /\ fresh' = fresh \ {n}
    /\ UNCHANGED <<now, node, jobVars, reqVars, storeVars>>

Crash(n) ==
    /\ Alive(n)
    /\ Fault
    /\ node' = [node EXCEPT ![n] = "dead"]
    /\ job' = [job EXCEPT ![n] = "none"]
    /\ list' = [list EXCEPT ![n] = {}]
    /\ req' = [r \in Requests |-> IF NodeOf[r] = n /\ req[r] = "running" THEN "over" ELSE req[r]]
    /\ UNCHANGED <<now, fresh, silent, lease, ownSwept, at, storeVars>>

-----------------------------------------------------------------------------
(* Maintenance *)

(* The hourly tick runs under the lease, which its holder takes again. *)
Hourly(n) ==
    /\ node[n] = "up"
    /\ job[n] = "none"
    /\ lease \in {NoNode, n}
    /\ lease' = n
    /\ job' = [job EXCEPT ![n] = "select"]
    /\ UNCHANGED <<now, fleetVars, list, ownSwept, reqVars, storeVars, faults>>

(* Mutated form of LeaseLapses: a lease has no TTL, and only its holder    *)
(* could give it up.                                                       *)
LeaseLapsesNever ==
    /\ lease # NoNode
    /\ node[lease] = "up"
    /\ Fault
    /\ lease' = NoNode
    /\ UNCHANGED <<now, fleetVars, job, list, ownSwept, reqVars, storeVars>>

(* The TTL is two intervals: it runs out when the holder died, or when it  *)
(* missed two ticks.                                                       *)
LeaseLapses ==
    /\ lease # NoNode
    /\ \/ node[lease] = "dead" /\ UNCHANGED faults
       \/ node[lease] = "up" /\ Fault
    /\ lease' = NoNode
    /\ UNCHANGED <<now, fleetVars, job, list, ownSwept, reqVars, storeVars>>

(* sweepPending's SELECT: own rows, and rows of nodes with no live heartbeat *)
Stale(n) == {r \in Requests : row[r] = "pending" /\ (NodeOf[r] = n \/ NodeOf[r] \notin fresh)}

Select(n) ==
    /\ job[n] = "select"
    /\ list' = [list EXCEPT ![n] = Stale(n)]
    /\ ownSwept' = ownSwept \union {r \in Stale(n) : NodeOf[r] = n}
    /\ job' = [job EXCEPT ![n] = "retire"]
    /\ UNCHANGED <<now, fleetVars, lease, reqVars, storeVars, faults>>

(* Each selected row is completed as 499 interrupted, through the claim. *)
Retire(n) ==
    /\ job[n] = "retire"
    /\ \E r \in list[n] :
        /\ Complete(r, "interrupted")
        /\ list' = [list EXCEPT ![n] = @ \ {r}]
    /\ UNCHANGED <<now, fleetVars, job, lease, ownSwept, reqVars, cut, faults>>

(* A boot sweep is followed by serving, an hourly one by the prune. *)
SweepEnds(n) ==
    /\ job[n] = "retire"
    /\ list[n] = {}
    /\ node' = [node EXCEPT ![n] = "up"]
    /\ job' = [job EXCEPT ![n] = IF node[n] = "boot" THEN "none" ELSE "prune"]
    /\ UNCHANGED <<now, fresh, silent, list, lease, ownSwept, reqVars, storeVars, faults>>

(* A failed sweep is logged and the prune runs; one at boot ends the       *)
(* process, which is Crash.                                                *)
SweepFails(n) ==
    /\ node[n] = "up"
    /\ job[n] \in {"select", "retire"}
    /\ Fault
    /\ list' = [list EXCEPT ![n] = {}]
    /\ job' = [job EXCEPT ![n] = "prune"]
    /\ UNCHANGED <<now, fleetVars, lease, ownSwept, reqVars, storeVars>>

(* Mutated form of Prunes: the boundary hour is recomputed but not deleted. *)
PrunesBelow(olderThan) ==
    hourly' = [r \in Requests |->
        LET kept == IF row[r] # "absent" /\ at[r] < olderThan THEN "absent" ELSE row[r]
            keep == IF hourOf(at[r]) < hourOf(olderThan) THEN 0 ELSE hourly[r]
        IN  IF hourOf(at[r]) = hourOf(olderThan) /\ r \in Keyed
                /\ kept \in {"done", "interrupted"}
            THEN keep + 1 ELSE keep]

(* Mutated form of Prunes: the buckets are adjusted by the rows that go. *)
PrunesSubtract(olderThan) ==
    hourly' = [r \in Requests |->
        IF row[r] # "absent" /\ at[r] < olderThan THEN hourly[r] - 1 ELSE hourly[r]]

(* The rollup half of pruneLogs: buckets up to the boundary hour go, and   *)
(* that hour is recomputed from the completed rows that survive.           *)
Prunes(olderThan) ==
    hourly' = [r \in Requests |->
        IF hourOf(at[r]) > hourOf(olderThan) THEN hourly[r]
        ELSE IF /\ hourOf(at[r]) = hourOf(olderThan)
                /\ at[r] >= olderThan
                /\ Completed(r) /\ r \in Keyed
             THEN 1 ELSE 0]

(* usage.prune, one transaction *)
Prune(n) ==
    LET olderThan == now - Retention
        Old == {r \in Requests : row[r] # "absent" /\ at[r] < olderThan}
    IN
    /\ job[n] = "prune"
    /\ row' = [r \in Requests |-> IF r \in Old THEN "absent" ELSE row[r]]
    /\ Prunes(olderThan)
    /\ cut' = cut \union {r \in Old : req[r] = "running" \/ \E m \in Nodes : r \in list[m]}
    /\ job' = [job EXCEPT ![n] = "pruneDaily"]
    /\ UNCHANGED <<now, fleetVars, list, lease, ownSwept, reqVars, daily, faults>>

PruneDaily(n) ==
    /\ job[n] = "pruneDaily"
    /\ daily' = [r \in Requests |->
                   IF startOfDay(at[r]) < now - DailyRetention THEN 0 ELSE daily[r]]
    /\ job' = [job EXCEPT ![n] = "none"]
    /\ UNCHANGED <<now, fleetVars, list, lease, ownSwept, reqVars, row, hourly, cut, faults>>

(* Either delete fails: what follows it is skipped until the next tick. *)
PruneFails(n) ==
    /\ job[n] \in {"prune", "pruneDaily"}
    /\ Fault
    /\ job' = [job EXCEPT ![n] = "none"]
    /\ UNCHANGED <<now, fleetVars, list, lease, ownSwept, reqVars, storeVars>>

Tick ==
    /\ now < MaxTime
    /\ now' = now + 1
    /\ UNCHANGED <<fleetVars, jobVars, reqVars, storeVars, faults>>

-----------------------------------------------------------------------------
Init ==
    /\ now = 0
    /\ node = [n \in Nodes |-> "new"]
    /\ fresh = {}
    /\ lease = NoNode
    /\ job = [n \in Nodes |-> "none"]
    /\ list = [n \in Nodes |-> {}]
    /\ req = [r \in Requests |-> "idle"]
    /\ at = [r \in Requests |-> 0]
    /\ row = [r \in Requests |-> "absent"]
    /\ hourly = [r \in Requests |-> 0]
    /\ daily = [r \in Requests |-> 0]
    /\ silent = {}
    /\ ownSwept = {}
    /\ cut = {}
    /\ faults = 0

Next ==
    \/ \E r \in Requests : Begin(r) \/ Append(r) \/ AppendFails(r)
    \/ \E n \in Nodes :
        \/ Boot(n) \/ Heartbeat(n) \/ HeartbeatLapses(n) \/ Crash(n)
        \/ Hourly(n) \/ Select(n) \/ Retire(n) \/ SweepEnds(n) \/ SweepFails(n)
        \/ Prune(n) \/ PruneDaily(n) \/ PruneFails(n)
    \/ LeaseLapses \/ Tick

Spec == Init /\ [][Next]_vars

(* Timers fire and statements return: a process that is up takes its       *)
(* hourly tick and finishes it, a dead one's heartbeat and lease run out,  *)
(* and processes are started.  Requests need not finish.                   *)
Fairness ==
    /\ \A n \in Nodes :
        /\ WF_vars(Boot(n))
        /\ WF_vars(Hourly(n))
        /\ WF_vars(Select(n) \/ Retire(n) \/ SweepEnds(n) \/ Prune(n) \/ PruneDaily(n))
        /\ WF_vars(~Alive(n) /\ HeartbeatLapses(n))
    /\ WF_vars(lease # NoNode /\ node[lease] = "dead" /\ LeaseLapses)

FairSpec == Spec /\ Fairness

-----------------------------------------------------------------------------
(* Every variable has the shape the code gives it. *)
TypeOK ==
    /\ now \in Nat
    /\ node \in [Nodes -> {"new", "boot", "up", "dead"}]
    /\ fresh \subseteq Nodes
    /\ lease \in Nodes \union {NoNode}
    /\ job \in [Nodes -> {"none", "select", "retire", "prune", "pruneDaily"}]
    /\ list \in [Nodes -> SUBSET Requests]
    /\ req \in [Requests -> {"idle", "running", "over"}]
    /\ at \in [Requests -> Nat]
    /\ row \in [Requests -> {"absent", "pending", "done", "interrupted"}]
    /\ hourly \in [Requests -> Nat]
    /\ daily \in [Requests -> Nat]
    /\ silent \subseteq Nodes
    /\ ownSwept \subseteq Requests
    /\ cut \subseteq Requests
    /\ faults \in Nat

(* auditRollup finds nothing: usage_rollup counts exactly the completed    *)
(* keyed rows, whatever sweeps, late completions and prunes interleave     *)
(* (complete, pruneLogs).                                                  *)
RollupAgrees ==
    \A r \in Requests : hourly[r] = IF Completed(r) /\ r \in Keyed THEN 1 ELSE 0

(* "A double count is the error this store must not make": usage_daily     *)
(* counts a request once, though its owner and several sweeps complete it, *)
(* unless retention removed the row before the last of them came in.       *)
BilledOnce == \A r \in Requests : daily[r] <= 1 \/ r \in cut

(* A process that keeps its heartbeat never loses a running request's row  *)
(* to another process's sweep, from its first request on (heartbeat before *)
(* serving, sweepPending's live set).                                      *)
HeartbeatProtects ==
    \A r \in Requests :
        row[r] = "interrupted" /\ req[r] = "running" =>
            NodeOf[r] \in silent \/ r \in ownSwept

(* The contract of sweepPending: it "completes every pending row whose     *)
(* owner is gone".  A row is retired under a running request only if its   *)
(* process stopped being heard from.                                       *)
InterruptedMeansGone ==
    \A r \in Requests :
        row[r] = "interrupted" /\ req[r] = "running" => NodeOf[r] \in silent

(* A crash leaves no row pending forever, also when the process that died  *)
(* held the maintenance lease: some process retires it (underLease,        *)
(* sweepPending, heartbeat).                                               *)
DeadRowsRetired ==
    \A r \in Requests : row[r] = "pending" /\ node[NodeOf[r]] = "dead" ~> row[r] # "pending"
=============================================================================
