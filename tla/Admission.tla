------------------------------ MODULE Admission ------------------------------
(***************************************************************************)
(* Admission of API-key requests by ApiKeyRateLimiter                      *)
(* (apps/gateway/src/auth/rateLimit.ts) over the `window` and `gauge`      *)
(* primitives of a shared coordinator (packages/coord/src/index.ts,        *)
(* apps/gateway/src/coord/redis.ts).                                       *)
(*                                                                         *)
(* One API key.  A request is judged against the key-wide subject and,     *)
(* where its model has an override, against that model's subject too.  It  *)
(* claims its place (a stamp in the 1m ring and a slot in the gauge) in    *)
(* every subject before anything is judged, every coordinator command is   *)
(* a step of its own, and requests of all processes interleave between     *)
(* commands.  The long windows are module LongWindow; here their verdict   *)
(* is arbitrary.                                                           *)
(***************************************************************************)
EXTENDS Integers, FiniteSets

CONSTANTS
    Requests,       \* one element per admission; also the name of its slots
    Processes,      \* gateway processes sharing the coordinator
    ProcOf,         \* [Requests -> Processes]
    KeySubject,     \* the key-wide subject, whose id is the key's id
    Overrides,      \* models the key overrides; the subject is the model
    ModelOf,        \* [Requests -> models], not all of them overridden
    CountTokens,    \* the requests that are `count_tokens` (consume)
    ReqLimit,       \* [Subjects -> Nat], requests at 1m; 0 is "not set"
    ConcLimit,      \* [Subjects -> Nat], concurrency; 0 is "not set"
    LongLimit,      \* [Subjects -> SUBSET dimensions limited at 5h or 1w]
    Window,         \* WINDOW_MS["1m"]
    GaugeTtl,       \* GAUGE_TTL_MS
    RenewInterval,  \* RENEW_INTERVAL_MS
    MaxRenewed,     \* MAX_RENEWED_MS
    ClaimMax,       \* ticks from the start of admit to the end of its judging
    MaxMissed,      \* consecutive renewals of one slot the coordinator loses
    MaxFaults,      \* bound: crashes, failed and lost commands in a behaviour
    MaxTime         \* bound: ticks of the clock

Subjects == {KeySubject} \union Overrides

ASSUME RequestsFinite == IsFiniteSet(Requests)
ASSUME MapsTyped ==
    /\ ProcOf \in [Requests -> Processes]
    /\ CountTokens \subseteq Requests
    /\ ReqLimit \in [Subjects -> Nat]
    /\ ConcLimit \in [Subjects -> Nat]
    /\ LongLimit \in [Subjects -> SUBSET {"requests", "tokens", "spend"}]
ASSUME TimesTyped ==
    /\ Window \in Nat \ {0}
    /\ GaugeTtl \in Nat \ {0}
    /\ RenewInterval \in Nat \ {0}
    /\ MaxRenewed \in Nat \ {0}
    /\ ClaimMax \in Nat
    /\ MaxMissed \in Nat
    /\ MaxFaults \in Nat
    /\ MaxTime \in Nat
(* GAUGE_TTL_MS is three RENEW_INTERVAL_MS, which covers one lost renewal  *)
(* and a judging that takes less than the third interval; the day of       *)
(* MAX_RENEWED_MS is far longer than any judging.                          *)
ASSUME RenewalMargin ==
    /\ ClaimMax + (MaxMissed + 1) * RenewInterval < GaugeTtl
    /\ ClaimMax < MaxRenewed

VARIABLES
    now,        \* the clock the processes and the coordinator share
    pc,         \* where each request is
    at,         \* the local `now` of admit / consume
    claimed,    \* the subjects whose claim was pushed and not rolled back
    ring,       \* coordinator: ring[s][r] is the stamp of r, 0 for none
    slot,       \* coordinator: slot[s][r] is the expiry of r's slot, 0 none
    before,     \* Claim.before per subject: what its counters held
    due,        \* when the renewal timer of r fires next, 0 for no timer
    renewing,   \* slots the renewal in progress has still to move
    missed,     \* history: consecutive lost renewals of a slot
    orphaned,   \* history: when r died or lost a rollback or release, or 0
    faults      \* history: faults so far

coordVars == <<ring, slot>>
claimVars == <<at, claimed, before>>
timerVars == <<due, renewing, missed>>
histVars  == <<orphaned, faults>>
vars == <<now, pc, coordVars, claimVars, timerVars, histVars>>

-----------------------------------------------------------------------------
(* Limits *)

anyRequestLimit(s) == ReqLimit[s] # 0 \/ "requests" \in LongLimit[s]
anyLimit(s) == ConcLimit[s] # 0 \/ ReqLimit[s] # 0 \/ LongLimit[s] # {}

(* An override always limits something; a key-wide scope that limits       *)
(* nothing is left out, and consume drops scopes without `requests`.       *)
subjectsOf(r) ==
    {s \in Subjects :
        /\ s = KeySubject \/ s = ModelOf[r]
        /\ anyLimit(s)
        /\ r \in CountTokens => anyRequestLimit(s)}

(* Subjects are visited key-wide first. *)
First(S) == IF KeySubject \in S THEN KeySubject ELSE CHOOSE s \in S : TRUE

(* The locals of an admission that has none *)
NoClaims == [s \in Subjects |-> [requests |-> 0, concurrency |-> 0]]

(* The slot is named iff the subject has a concurrency ceiling. *)
Named(s) == ConcLimit[s] # 0

-----------------------------------------------------------------------------
(* The coordinator *)

(* Every gauge command first drops the slots with expiry <= now (liveSlots, *)
(* ZREMRANGEBYSCORE), so the clock reaching an expiry is what ends a slot.  *)
Lapse(t) == slot' = [s \in Subjects |-> [r \in Requests |->
                        IF slot[s][r] > t THEN slot[s][r] ELSE 0]]

Live(s, r) == slot[s][r] # 0

Others(s, r) == {q \in Requests \ {r} : Live(s, q)}

(* gauge.acquire: a named slot is moved, an anonymous one is added; each   *)
(* admission acquires once, so both come to the same.                      *)
GaugeAcquire(s, r) ==
    /\ before' = [before EXCEPT ![r][s].concurrency = Cardinality(Others(s, r))]
    /\ slot' = [slot EXCEPT ![s][r] = now + GaugeTtl]

(* Mutated form of GaugeRenew: the command leaves the expiry where it was. *)
GaugeRenewForgotten(s, r) == UNCHANGED slot

(* gauge.renew: never resurrects a slot that lapsed or was released. *)
GaugeRenew(s, r) ==
    slot' = [slot EXCEPT ![s][r] = IF Live(s, r) THEN now + GaugeTtl ELSE 0]

(* The slots a release may drop: the caller's when it is named, otherwise  *)
(* a live one nearest its own expiry, whoever's it is.                     *)
Dropped(s, r) ==
    IF Named(s) \/ \A q \in Requests : ~Live(s, q)
    THEN {r}
    ELSE {q \in Requests : /\ Live(s, q)
                           /\ \A p \in Requests : Live(s, p) => slot[s][q] <= slot[s][p]}

(* gauge.release *)
GaugeRelease(s, r) == \E q \in Dropped(s, r) : slot' = [slot EXCEPT ![s][q] = 0]

(* Mutated form of InRing: the window is one instant short. *)
InRingShort(s, t) == {q \in Requests : ring[s][q] # 0 /\ ring[s][q] > t - Window + 1}

(* The stamps of the window that ends at t *)
InRing(s, t) == {q \in Requests : ring[s][q] # 0 /\ ring[s][q] > t - Window}

(* Mutated form of WindowClaim: the claim takes itself off a count it is not in. *)
WindowClaimLessOwn(s, r) ==
    /\ before' = [before EXCEPT ![r][s].requests = Cardinality(InRing(s, at[r]) \ {r}) - 1]
    /\ ring' = [ring EXCEPT ![s][r] = at[r]]

(* window.claim: prune by the caller's clock reading, count, record. *)
WindowClaim(s, r) ==
    /\ before' = [before EXCEPT ![r][s].requests = Cardinality(InRing(s, at[r]) \ {r})]
    /\ ring' = [ring EXCEPT ![s] =
                  [q \in Requests |-> IF q = r THEN at[r]
                                      ELSE IF q \in InRing(s, at[r]) THEN ring[s][q] ELSE 0]]

(* window.rollback: one stamp of that instant goes; stamps of one instant  *)
(* are interchangeable, so it is the caller's own.                         *)
WindowRollback(s, r) == ring' = [ring EXCEPT ![s][r] = 0]

-----------------------------------------------------------------------------
(* admit and consume *)

(* A request arrives.  With nothing limited it is served and holds nothing. *)
Begin(r) ==
    /\ pc[r] = "idle"
    /\ at' = [at EXCEPT ![r] = now]
    /\ pc' = [pc EXCEPT ![r] = IF subjectsOf(r) = {} THEN "done" ELSE "window"]
    /\ UNCHANGED <<now, coordVars, claimed, before, timerVars, histVars>>

ClaimWindow(r) ==
    /\ pc[r] = "window"
    /\ WindowClaim(First(subjectsOf(r) \ claimed[r]), r)
    /\ pc' = [pc EXCEPT ![r] = "gauge"]
    /\ UNCHANGED <<now, slot, at, claimed, timerVars, histVars>>

AfterClaim(r, s) == IF claimed[r] \union {s} = subjectsOf(r) THEN "judge" ELSE "window"

(* consume reads the gauge and raises nothing. *)
ClaimGauge(r) ==
    LET s == First(subjectsOf(r) \ claimed[r]) IN
    /\ pc[r] = "gauge"
    /\ \/ r \notin CountTokens /\ GaugeAcquire(s, r)
       \/ r \in CountTokens /\ UNCHANGED <<slot, before>>
    /\ claimed' = [claimed EXCEPT ![r] = @ \union {s}]
    /\ pc' = [pc EXCEPT ![r] = AfterClaim(r, s)]
    /\ UNCHANGED <<now, ring, at, timerVars, histVars>>

Fault == faults < MaxFaults /\ faults' = faults + 1

(* Mutated form of AfterRollback: only the first claim is given back. *)
AfterRollbackOne(C) == "refused"

AfterRollback(C) == IF C = {} THEN "refused" ELSE "rollback"

(* The gauge command throws: its stamp goes back here, the earlier claims  *)
(* in the `finally`.                                                       *)
ClaimFails(r) ==
    /\ pc[r] = "gauge"
    /\ Fault
    /\ WindowRollback(First(subjectsOf(r) \ claimed[r]), r)
    /\ before' = [before EXCEPT ![r] = NoClaims]
    /\ pc' = [pc EXCEPT ![r] = AfterRollback(claimed[r])]
    /\ UNCHANGED <<now, slot, at, claimed, timerVars, orphaned>>

(* evaluate: `used` is what the limit held before this request. *)
WithinRing(s, r) == ReqLimit[s] # 0 => before[r][s].requests < ReqLimit[s]

(* Mutated form of WithinGauge: the slot on the ceiling is let through. *)
WithinGaugeInclusive(s, r) ==
    ConcLimit[s] # 0 /\ r \notin CountTokens => before[r][s].concurrency <= ConcLimit[s]

WithinGauge(s, r) ==
    ConcLimit[s] # 0 /\ r \notin CountTokens => before[r][s].concurrency < ConcLimit[s]

Within(r) == \A s \in subjectsOf(r) : WithinRing(s, r) /\ WithinGauge(s, r)

(* Whether a long window may refuse r: consume is judged on `requests`. *)
LongJudged(r) ==
    \E s \in subjectsOf(r) :
        LongLimit[s] \intersect (IF r \in CountTokens THEN {"requests"}
                                 ELSE {"requests", "tokens", "spend"}) # {}

NamedSlots(r) == {s \in subjectsOf(r) : Named(s)}

(* judge allowed it: a dispatched request is held, with a renewal timer    *)
(* when it has a named slot; a count_tokens request is over.               *)
Admit(r) ==
    /\ pc[r] = "judge"
    /\ Within(r)
    /\ pc' = [pc EXCEPT ![r] = IF r \in CountTokens THEN "done" ELSE "held"]
    /\ claimed' = [claimed EXCEPT ![r] = IF r \in CountTokens THEN {} ELSE @]
    /\ before' = [before EXCEPT ![r] = NoClaims]
    /\ due' = [due EXCEPT ![r] = IF r \in CountTokens \/ NamedSlots(r) = {}
                                 THEN 0 ELSE now + RenewInterval]
    /\ UNCHANGED <<now, coordVars, at, renewing, missed, histVars>>

(* judge refused it (or failed while reading): nothing is kept. *)
Refuse(r) ==
    /\ pc[r] = "judge"
    /\ ~Within(r) \/ LongJudged(r)
    /\ pc' = [pc EXCEPT ![r] = "rollback"]
    /\ before' = [before EXCEPT ![r] = NoClaims]
    /\ UNCHANGED <<now, coordVars, at, claimed, timerVars, histVars>>

(* rollback, one claim at a time: the stamp, then the slot.  Either        *)
(* command may be lost to the memory fallback, which leaves the shared     *)
(* stamp or slot behind.                                                   *)
RollbackWindow(r) ==
    /\ pc[r] = "rollback"
    /\ \/ WindowRollback(First(claimed[r]), r) /\ UNCHANGED histVars
       \/ /\ Fault
          /\ orphaned' = [orphaned EXCEPT ![r] = now]
          /\ UNCHANGED ring
    /\ pc' = [pc EXCEPT ![r] = "rollbackGauge"]
    /\ UNCHANGED <<now, slot, claimVars, timerVars>>

RollbackGauge(r) ==
    LET s == First(claimed[r]) IN
    /\ pc[r] = "rollbackGauge"
    /\ \/ r \in CountTokens /\ UNCHANGED <<slot, histVars>>
       \/ r \notin CountTokens /\ GaugeRelease(s, r) /\ UNCHANGED histVars
       \/ /\ r \notin CountTokens
          /\ Fault
          /\ orphaned' = [orphaned EXCEPT ![r] = now]
          /\ UNCHANGED slot
    /\ claimed' = [claimed EXCEPT ![r] = @ \ {s}]
    /\ pc' = [pc EXCEPT ![r] = AfterRollback(claimed[r] \ {s})]
    /\ UNCHANGED <<now, ring, at, before, timerVars>>

-----------------------------------------------------------------------------
(* The life of an admission *)

(* Mutated form of TimerFires: renewal has no cap. *)
TimerFiresForever(r) ==
    /\ pc[r] = "held"
    /\ due[r] # 0 /\ now >= due[r]
    /\ due' = [due EXCEPT ![r] = @ + RenewInterval]
    /\ renewing' = [renewing EXCEPT ![r] = NamedSlots(r)]
    /\ UNCHANGED <<now, pc, coordVars, claimVars, missed, histVars>>

(* The interval fires: past renewUntil it clears itself, otherwise it      *)
(* starts renewing every named slot.                                       *)
TimerFires(r) ==
    /\ pc[r] = "held"
    /\ due[r] # 0 /\ now >= due[r]
    /\ IF now >= at[r] + MaxRenewed
       THEN due' = [due EXCEPT ![r] = 0] /\ UNCHANGED renewing
       ELSE /\ due' = [due EXCEPT ![r] = @ + RenewInterval]
            /\ renewing' = [renewing EXCEPT ![r] = NamedSlots(r)]
    /\ UNCHANGED <<now, pc, coordVars, claimVars, missed, histVars>>

(* One command of a renewal.  `released` is read only before the first, so *)
(* a release can come between two of them.                                 *)
RenewSlot(r) ==
    LET s == First(renewing[r]) IN
    /\ renewing[r] # {}
    /\ renewing' = [renewing EXCEPT ![r] = @ \ {s}]
    /\ \/ GaugeRenew(s, r) /\ missed' = [missed EXCEPT ![s][r] = 0]
       \/ /\ missed[s][r] < MaxMissed
          /\ missed' = [missed EXCEPT ![s][r] = @ + 1]
          /\ UNCHANGED slot
    /\ UNCHANGED <<now, pc, ring, claimVars, due, histVars>>

(* release(), at the true end of the request: the timer goes, and one      *)
(* command per claim is issued without being awaited.                      *)
Release(r) ==
    /\ pc[r] = "held"
    /\ pc' = [pc EXCEPT ![r] = "releasing"]
    /\ due' = [due EXCEPT ![r] = 0]
    /\ UNCHANGED <<now, coordVars, claimVars, renewing, missed, histVars>>

(* One of those commands arrives.  During a fault it goes to the memory    *)
(* fallback and leaves the shared slot behind.                             *)
ReleaseSlot(r) ==
    LET s == First(claimed[r]) IN
    /\ pc[r] = "releasing"
    /\ \/ GaugeRelease(s, r) /\ UNCHANGED histVars
       \/ /\ Fault
          /\ orphaned' = [orphaned EXCEPT ![r] = now]
          /\ UNCHANGED slot
    /\ claimed' = [claimed EXCEPT ![r] = @ \ {s}]
    /\ pc' = [pc EXCEPT ![r] = IF claimed[r] = {s} THEN "done" ELSE @]
    /\ UNCHANGED <<now, ring, at, before, timerVars>>

Settled == {"idle", "done", "refused", "crashed"}

(* A process dies with its requests; what they put in the coordinator stays. *)
Crash(p) ==
    LET Hit == {r \in Requests : ProcOf[r] = p /\ pc[r] \notin Settled} IN
    /\ Hit # {}
    /\ Fault
    /\ pc' = [r \in Requests |-> IF r \in Hit THEN "crashed" ELSE pc[r]]
    /\ claimed' = [r \in Requests |-> IF r \in Hit THEN {} ELSE claimed[r]]
    /\ before' = [r \in Requests |-> IF r \in Hit THEN NoClaims ELSE before[r]]
    /\ due' = [r \in Requests |-> IF r \in Hit THEN 0 ELSE due[r]]
    /\ renewing' = [r \in Requests |-> IF ProcOf[r] = p THEN {} ELSE renewing[r]]
    /\ orphaned' = [r \in Requests |-> IF r \in Hit THEN now ELSE orphaned[r]]
    /\ UNCHANGED <<now, coordVars, at, missed>>

(* Time passes, but not past a timer that is due or through a renewal, and *)
(* a judging takes at most ClaimMax (coordinator commands are bounded by   *)
(* COMMAND_TIMEOUT_MS, far below a tick).                                  *)
Tick ==
    /\ now < MaxTime
    /\ \A r \in Requests :
        /\ renewing[r] = {}
        /\ due[r] # 0 => now < due[r]
        /\ pc[r] \in {"window", "gauge", "judge"} => now < at[r] + ClaimMax
    /\ now' = now + 1
    /\ Lapse(now + 1)
    /\ UNCHANGED <<pc, ring, claimVars, timerVars, histVars>>

-----------------------------------------------------------------------------
Init ==
    /\ now = 1
    /\ pc = [r \in Requests |-> "idle"]
    /\ at = [r \in Requests |-> 0]
    /\ claimed = [r \in Requests |-> {}]
    /\ ring = [s \in Subjects |-> [r \in Requests |-> 0]]
    /\ slot = [s \in Subjects |-> [r \in Requests |-> 0]]
    /\ before = [r \in Requests |-> NoClaims]
    /\ due = [r \in Requests |-> 0]
    /\ renewing = [r \in Requests |-> {}]
    /\ missed = [s \in Subjects |-> [r \in Requests |-> 0]]
    /\ orphaned = [r \in Requests |-> 0]
    /\ faults = 0

Next ==
    \/ Tick
    \/ \E p \in Processes : Crash(p)
    \/ \E r \in Requests :
        \/ Begin(r) \/ ClaimWindow(r) \/ ClaimGauge(r) \/ ClaimFails(r)
        \/ Admit(r) \/ Refuse(r) \/ RollbackWindow(r) \/ RollbackGauge(r)
        \/ TimerFires(r) \/ RenewSlot(r) \/ Release(r) \/ ReleaseSlot(r)

Spec == Init /\ [][Next]_vars

-----------------------------------------------------------------------------
(* Properties *)

Phases == Settled \union {"window", "gauge", "judge", "held", "releasing", "rollback",
                             "rollbackGauge"}

(* Every variable has the shape the code gives it. *)
TypeOK ==
    /\ now \in Nat \ {0}
    /\ pc \in [Requests -> Phases]
    /\ at \in [Requests -> Nat]
    /\ claimed \in [Requests -> SUBSET Subjects]
    /\ ring \in [Subjects -> [Requests -> Nat]]
    /\ slot \in [Subjects -> [Requests -> Nat]]
    /\ before \in [Requests -> [Subjects -> [requests : Nat, concurrency : Nat]]]
    /\ due \in [Requests -> Nat]
    /\ renewing \in [Requests -> SUBSET Subjects]
    /\ missed \in [Subjects -> [Requests -> Nat]]
    /\ orphaned \in [Requests -> Nat]
    /\ faults \in Nat

(* Requests of s running now and younger than the renewal cap *)
Running(s) == {r \in Requests : /\ pc[r] = "held"
                                /\ s \in subjectsOf(r)
                                /\ now < at[r] + MaxRenewed}

(* The concurrency ceiling is enforced exactly, for bursts and for requests *)
(* longer than the slot's TTL, across processes, crashes, lost commands and *)
(* one lost renewal: never more than ConcLimit requests of a subject run at *)
(* once, up to the age where renewal stops (admit, claim, renew, release).  *)
ConcurrencyCeiling ==
    \A s \in Subjects : ConcLimit[s] # 0 => Cardinality(Running(s)) <= ConcLimit[s]

(* The latest clock reading a claim can have that arrives before one which *)
(* read t: a claim arrives ClaimMax after its reading at the latest.       *)
LatestReading(t) == IF now < t + ClaimMax THEN now ELSE t + ClaimMax

(* Requests of s admitted with a stamp in the minute ending at t, without  *)
(* the stamps a claim of a later reading may have pruned meanwhile         *)
AdmittedInWindow(s, t) ==
    {r \in Requests : /\ pc[r] \in {"held", "releasing", "done"}
                      /\ s \in subjectsOf(r)
                      /\ LatestReading(t) - Window < at[r] /\ at[r] <= t}

(* The `requests` ceiling at 1m, however the claims and rollbacks of       *)
(* concurrent requests interleave.  The minute ending now never holds more *)
(* admissions than the ceiling.  Of a minute that has passed only its last *)
(* Window - ClaimMax are sure: a claim prunes by its own clock reading, so *)
(* one that read the clock early and arrives after a later one no longer   *)
(* finds the oldest stamps of its minute (claim, window.claim).            *)
RequestCeiling ==
    \A s \in Subjects, t \in 1 .. now :
        ReqLimit[s] # 0 => Cardinality(AdmittedInWindow(s, t)) <= ReqLimit[s]

(* A request that is over holds no named slot, and one that was refused no *)
(* stamp either, in either subject, unless its process died or a command   *)
(* giving them back was lost: a refusal by the model override gives the    *)
(* key-wide claim back too, and a renewal racing the release does not      *)
(* bring a slot back.                                                      *)
SettledHoldsNothing ==
    \A s \in Subjects, r \in Requests :
        pc[r] \in Settled /\ orphaned[r] = 0 =>
            /\ Named(s) => ~Live(s, r)
            /\ pc[r] = "refused" => ring[s][r] = 0

(* A slot nobody will release heals by itself: GAUGE_TTL_MS after a crash  *)
(* or a lost release, and MAX_RENEWED_MS + GAUGE_TTL_MS after admission    *)
(* for a response nobody reads, whose timer keeps renewing.                *)
LeakHeals ==
    \A s \in Subjects, r \in Requests :
        Live(s, r) =>
            /\ orphaned[r] # 0 => now < orphaned[r] + GaugeTtl
            /\ pc[r] = "held" => now < at[r] + MaxRenewed + GaugeTtl
=============================================================================
