------------------------------- MODULE Dispatch -------------------------------
(***************************************************************************)
(* Dispatch of requests over a pool of (credential, model) pairs           *)
(* (apps/gateway/src/dispatch/index.ts): rank on a snapshot, claim a load  *)
(* slot, claim the one probe of a recovering pair, attempt, commit at the  *)
(* first byte, fail over before it, and write what was learnt to the       *)
(* health row.  A step ends where the code awaits, so requests interleave  *)
(* between a snapshot and the writes that were decided on it.              *)
(*                                                                         *)
(* The upstream is arbitrary: it throws, streams, fails in the stream,     *)
(* stops short or hangs.  What scoring makes of the admitted pairs is an   *)
(* arbitrary order.                                                        *)
(***************************************************************************)
EXTENDS Breaker, Sequences, FiniteSets, FiniteSetsExt, SequencesExt

CONSTANTS
    Requests,
    Pairs,          \* (credential, model) pairs
    Targets,        \* the pairs of the model each request names
    Refreshable,    \* pairs whose credential is OAuth with a refresh token
    NoCode,         \* no error yet
    UpstreamCodes,  \* errors an upstream answers with
    MaxAttempts,    \* settings.maxAttempts
    Deadline,       \* settings.requestDeadlineMs, 0 for none
    ProbeTtl,       \* PROBE_TTL_MS
    InitialRows,    \* health rows the database may hold at the start
    MaxTime,        \* bound on the clock
    MaxFaults       \* bound on failed writes, lost releases, clients that leave or stall

ASSUME DispatchConstants ==
    /\ Targets \in [Requests -> SUBSET Pairs]
    /\ Refreshable \subseteq Pairs
    /\ UpstreamCodes \subseteq Codes
    /\ NoCode \notin Codes
    /\ MaxAttempts \in Nat \ {0} /\ Deadline \in Nat /\ ProbeTtl \in Nat \ {0}
    /\ MaxTime \in Nat /\ MaxFaults \in Nat
    /\ InitialRows \subseteq [Pairs -> HealthRow]

(* A gateway has finitely many credentials, and requests in flight. *)
ASSUME FiniteAssumption == IsFiniteSet(Requests) /\ IsFiniteSet(Pairs)

VARIABLES
    now,      \* the clock
    health,   \* the credential_health rows; a missing row is Blank
    gauge,    \* slots `probe:<pair>`: who acquired it and when it ends
    load,     \* loadRegistry: requests in flight per pair
    q,        \* the state of each dispatch
    faults,
    healed,   \* history: the last word on a pair was a success
    late,     \* history: releases by requests whose own slot had run out
    lost      \* history: probe releases that did not reach the gauge

vars == <<now, health, gauge, load, q, faults, healed, late, lost>>
histVars == <<faults, healed, late, lost>>

(* What `dispatch` and `run` keep in their closures.  A candidate is a     *)
(* pair with what the snapshot said of it: `probe`, and `dirty`, that a    *)
(* success would change its row.  `eager` and `own` say which release      *)
(* closures have not run; `from` lists the attempts the client has seen    *)
(* events of, and `client` says whether it takes what it is offered.       *)
Idle == [pc |-> "idle", snap |-> <<>>, startedAt |-> 0, order |-> <<>>, idx |-> 1,
         attempts |-> 0, eager |-> FALSE, own |-> FALSE, claim |-> Never, won |-> FALSE,
         probing |-> FALSE, committed |-> FALSE, closed |-> FALSE, retried |-> FALSE,
         err |-> NoCode, after |-> "next", aborted |-> FALSE,
         from |-> {}, ends |-> 0, errors |-> 0, status |-> "none", unsaved |-> FALSE,
         client |-> "reading"]

At(r, l) == q[r].pc = l

More(r) == q[r].idx <= Len(q[r].order)
Candidate(r) == q[r].order[q[r].idx]
Pair(r) == Candidate(r).pair

(* r tries, or is about to try, pair p. *)
On(r, p) == More(r) /\ Pair(r) = p

Due(r) == Deadline # 0 /\ now >= q[r].startedAt + Deadline

Fault == faults < MaxFaults /\ faults' = faults + 1
NoFault == UNCHANGED faults

(* A write to p's row.  Every health write is one transaction over the row *)
(* on disk; the caller's own snapshot is not looked at.                    *)
Write(p, row) == health' = [health EXCEPT ![p] = row]

(* The release closure of the rank-time claim: frees one slot, once. *)
Freed(r) == IF q[r].eager THEN [load EXCEPT ![q[r].order[1].pair] = @ - 1] ELSE load

LiveSlots(p) == {s \in gauge[p] : s.until > now}

(* gauge.release without a holder: the live slot nearest its expiry goes. *)
WithoutOldest(p) ==
    IF LiveSlots(p) = {} THEN {}
    ELSE LET oldest == CHOOSE s \in LiveSlots(p) : \A t \in LiveSlots(p) : s.until <= t.until
         IN  LiveSlots(p) \ {oldest}

(* The request is over; what the client saw and the log says is kept. *)
Over(st) == [Idle EXCEPT !.pc = "done", !.from = st.from, !.ends = st.ends,
                         !.errors = st.errors, !.status = st.status, !.unsaved = st.unsaved,
                         !.client = st.client]

(* The answer of a request none of whose candidates answered: its only      *)
(* event, after which nothing is left to do.                                *)
Exhausted(st) ==
    LET code == CASE st.err = NoCode -> "NO_CANDIDATES"
                  [] st.err # NoCode /\ (st.err = "TIMEOUT" \/ st.err \notin Retryable) -> st.err
                  [] OTHER -> "ALL_CANDIDATES_FAILED"
    IN  Over([st EXCEPT !.status = code, !.errors = @ + 1])

-----------------------------------------------------------------------------
(* dispatch reads the clock and the routing snapshot, and resolves the     *)
(* model; a name that does not resolve is answered at once.                *)
Begin(r) ==
    /\ At(r, "idle")
    /\ now + Deadline <= MaxTime
    /\ \/ q' = [q EXCEPT ![r].pc = "rank", ![r].startedAt = now, ![r].snap = health]
       \/ q' = [q EXCEPT ![r] = Exhausted(@)]
    /\ UNCHANGED <<now, health, gauge, load, histVars>>

(* eligible(): the pairs of the request's model that the snapshot's health *)
(* rows leave, and what ranking notes of each.                             *)
Eligible(r) == {p \in Targets[r] : Admits(q[r].snap[p], q[r].startedAt)}

AsCandidate(r, p) == [pair |-> p, probe |-> IsProbe(q[r].snap[p]),
                      dirty |-> SuccessWouldChange(q[r].snap[p])]

(* After the one await on the load registry: rank what eligible() admits,  *)
(* in an order the strategy decides, and claim the head in the same turn.  *)
(* Which pairs the other filters (capability, enabled, expiry, quota)      *)
(* leave is arbitrary.  A client already gone frees the claim again.       *)
Rank(r) ==
    /\ At(r, "rank")
    /\ \/ q' = [q EXCEPT ![r] = Exhausted(@)] /\ UNCHANGED load
       \/ \E S \in (SUBSET Eligible(r)) \ {{}} : \E pairs \in SetToSeqs(S) :
            /\ q' = [q EXCEPT ![r].pc = "next", ![r].snap = <<>>,
                              ![r].order = [i \in DOMAIN pairs |-> AsCandidate(r, pairs[i])],
                              ![r].eager = ~q[r].aborted]
            /\ load' = IF q[r].aborted THEN load ELSE [load EXCEPT ![pairs[1]] = @ + 1]
    /\ UNCHANGED <<now, health, gauge, histVars>>

(* The consumer walks away from a generator that never started: the        *)
(* wrapper's return frees the claim.                                       *)
CloseUnstarted(r) ==
    /\ At(r, "next") /\ q[r].idx = 1
    /\ Fault
    /\ q' = [q EXCEPT ![r] = Over(@)]
    /\ load' = Freed(r)
    /\ UNCHANGED <<now, health, gauge, healed, late, lost>>

(* Mutated form of Abort: the closure does not remember that it ran. *)
AbortTwice(r) ==
    /\ q[r].pc \notin {"idle", "done"} /\ ~q[r].aborted
    /\ Fault
    /\ q' = [q EXCEPT ![r].aborted = TRUE]
    /\ load' = Freed(r)
    /\ UNCHANGED <<now, health, gauge, healed, late, lost>>

(* The client hangs up.  The listener frees the rank-time claim whoever    *)
(* holds it by now.                                                        *)
Abort(r) ==
    /\ q[r].pc \notin {"idle", "done"} /\ ~q[r].aborted
    /\ Fault
    /\ q' = [q EXCEPT ![r].aborted = TRUE, ![r].eager = FALSE]
    /\ load' = Freed(r)
    /\ UNCHANGED <<now, health, gauge, healed, late, lost>>

(* Mutated form of NextCandidate: a probe is counted before it is won, too. *)
NextCountsProbe(r) ==
    /\ At(r, "next")
    /\ LET goesOn == More(r) /\ q[r].attempts < MaxAttempts IN
       \/ /\ ~goesOn
          /\ q' = [q EXCEPT ![r] = Exhausted(@)]
          /\ load' = Freed(r)
       \/ /\ goesOn /\ q[r].aborted
          /\ q' = [q EXCEPT ![r] = Over(@)]
          /\ load' = Freed(r)
       \/ /\ goesOn /\ ~q[r].aborted /\ Due(r)
          /\ q' = [q EXCEPT ![r] = Exhausted([@ EXCEPT !.err = "TIMEOUT"])]
          /\ load' = Freed(r)
       \/ /\ goesOn /\ ~q[r].aborted /\ ~Due(r)
          /\ q' = [q EXCEPT ![r].pc = IF Candidate(r).probe THEN "probe" ELSE "send",
                            ![r].attempts = @ + 1,
                            ![r].own = q[r].idx > 1]
          /\ load' = IF q[r].idx > 1 THEN [load EXCEPT ![Pair(r)] = @ + 1] ELSE load
    /\ UNCHANGED <<now, health, gauge, histVars>>

(* The head of the candidate loop.  The first attempt adopts the claim     *)
(* made at rank time, later ones claim their own.  A loop that is over     *)
(* frees what it never adopted.                                            *)
NextCandidate(r) ==
    /\ At(r, "next")
    /\ LET goesOn == More(r) /\ q[r].attempts < MaxAttempts IN
       \/ /\ ~goesOn
          /\ q' = [q EXCEPT ![r] = Exhausted(@)]
          /\ load' = Freed(r)
       \/ /\ goesOn /\ q[r].aborted
          /\ q' = [q EXCEPT ![r] = Over(@)]
          /\ load' = Freed(r)
       \/ /\ goesOn /\ ~q[r].aborted /\ Due(r)
          /\ q' = [q EXCEPT ![r] = Exhausted([@ EXCEPT !.err = "TIMEOUT"])]
          /\ load' = Freed(r)
       \/ /\ goesOn /\ ~q[r].aborted /\ ~Due(r)
          /\ q' = [q EXCEPT ![r].pc = IF Candidate(r).probe THEN "probe" ELSE "send",
                            ![r].attempts = IF Candidate(r).probe THEN @ ELSE @ + 1,
                            ![r].own = q[r].idx > 1]
          /\ load' = IF q[r].idx > 1 THEN [load EXCEPT ![Pair(r)] = @ + 1] ELSE load
    /\ UNCHANGED <<now, health, gauge, histVars>>

(* Mutated form of AcquireProbe: the count is taken to include its own slot. *)
AcquireProbeLoose(r) ==
    /\ At(r, "probe")
    /\ LET p == Pair(r)
           won == Cardinality(LiveSlots(p)) <= 1 IN
       /\ gauge' = [gauge EXCEPT ![p] = LiveSlots(p) \cup {[by |-> r, until |-> now + ProbeTtl]}]
       /\ q' = [q EXCEPT ![r].claim = now + ProbeTtl, ![r].won = won,
                         ![r].pc = IF won THEN "mark" ELSE "finally"]
    /\ UNCHANGED <<now, health, load, histVars>>

(* One probe per pair: the gauge answers the count before this slot, and   *)
(* a pair somebody is testing is skipped without counting as an attempt.   *)
AcquireProbe(r) ==
    /\ At(r, "probe")
    /\ LET p == Pair(r)
           won == LiveSlots(p) = {} IN
       /\ gauge' = [gauge EXCEPT ![p] = LiveSlots(p) \cup {[by |-> r, until |-> now + ProbeTtl]}]
       /\ q' = [q EXCEPT ![r].claim = now + ProbeTtl, ![r].won = won,
                         ![r].pc = IF won THEN "mark" ELSE "finally"]
    /\ UNCHANGED <<now, health, load, histVars>>

(* Mutated form of MarkHalfOpen: the row is not looked at again. *)
MarkBlind(r) ==
    /\ At(r, "mark")
    /\ LET p == Pair(r)
           still == TRUE IN
       \/ /\ Write(p, IF still THEN [health[p] EXCEPT !.state = "halfOpen"] ELSE health[p])
          /\ q' = [q EXCEPT ![r].pc = "send", ![r].attempts = @ + 1, ![r].probing = still]
          /\ NoFault
       \/ /\ Fault
          /\ q' = [q EXCEPT ![r].pc = "finally", ![r].after = "over"]
          /\ UNCHANGED health
    /\ UNCHANGED <<now, gauge, load, healed, late, lost>>

(* The probe marks the row halfOpen, unless it closed since the snapshot.  *)
MarkHalfOpen(r) ==
    /\ At(r, "mark")
    /\ LET p == Pair(r)
           still == health[p].state # "closed" IN
       \/ /\ Write(p, IF still THEN [health[p] EXCEPT !.state = "halfOpen"] ELSE health[p])
          /\ q' = [q EXCEPT ![r].pc = "send", ![r].attempts = @ + 1, ![r].probing = still]
          /\ NoFault
       \/ /\ Fault
          /\ q' = [q EXCEPT ![r].pc = "finally", ![r].after = "over"]
          /\ UNCHANGED health
    /\ UNCHANGED <<now, gauge, load, healed, late, lost>>

-----------------------------------------------------------------------------
(* The catch of an attempt: a client that is gone ends the request, and    *)
(* one AUTH failure of a refreshable credential is answered by a refresh.  *)
Caught(r, c) ==
    LET st == q[r] IN
    CASE st.aborted -> [st EXCEPT !.pc = "finally", !.after = "over"]
      [] /\ ~st.aborted
         /\ c = "AUTH" /\ ~st.committed /\ ~st.retried /\ Pair(r) \in Refreshable
         -> [st EXCEPT !.pc = "refresh", !.retried = TRUE]
      [] OTHER -> [st EXCEPT !.pc = "fail", !.err = c]

(* What a store error is classified as: the deadline's timer may have fired. *)
Thrown(r) == {"INTERNAL"} \cup (IF Due(r) THEN {"TIMEOUT"} ELSE {})

(* Before the first call of an attempt: onRoute throws or the provider has  *)
(* no adapter, outside the catch.                                           *)
RouteFails(r) ==
    /\ At(r, "send") /\ ~q[r].committed /\ ~q[r].retried
    /\ Fault
    /\ q' = [q EXCEPT ![r].pc = "finally", ![r].after = "over"]
    /\ UNCHANGED <<now, health, gauge, load, healed, late, lost>>

(* The attempt, or the stream it opened, fails; a stream that stops        *)
(* without a terminal event is an UPSTREAM failure.                        *)
Fails(r) ==
    /\ At(r, "send")
    /\ \E c \in UpstreamCodes \cup {"UPSTREAM"} : q' = [q EXCEPT ![r] = Caught(r, c)]
    /\ UNCHANGED <<now, health, gauge, load, histVars>>

Refreshed(r) ==
    /\ At(r, "refresh")
    /\ \/ q' = [q EXCEPT ![r].pc = "send"]
       \/ \E c \in UpstreamCodes : q' = [q EXCEPT ![r].pc = "fail", ![r].err = c]
    /\ UNCHANGED <<now, health, gauge, load, histVars>>

(* Mutated form of Cancelled: the deadline does not reach the wait. *)
CancelledByClient(r) ==
    /\ q[r].pc \in {"send", "refresh"}
    /\ q[r].aborted
    /\ q' = [q EXCEPT ![r] = Caught(r, "TIMEOUT")]
    /\ UNCHANGED <<now, health, gauge, load, histVars>>

(* The wait ends because the client went or the deadline passed. *)
Cancelled(r) ==
    /\ q[r].pc \in {"send", "refresh"}
    /\ q[r].aborted \/ Due(r)
    /\ q' = [q EXCEPT ![r] = Caught(r, "TIMEOUT")]
    /\ UNCHANGED <<now, health, gauge, load, histVars>>

(* The first blockDelta commits: the client is about to see bytes, and a   *)
(* probe closes the breaker here.                                          *)
Commit(r) ==
    /\ At(r, "send") /\ ~q[r].committed
    /\ q' = [q EXCEPT ![r].committed = TRUE, ![r].from = @ \cup {q[r].idx},
                      ![r].pc = IF q[r].probing THEN "close" ELSE "send"]
    /\ UNCHANGED <<now, health, gauge, load, histVars>>

CloseAtCommit(r) ==
    /\ At(r, "close")
    /\ \/ /\ Write(Pair(r), RecordSuccess(health[Pair(r)]))
          /\ q' = [q EXCEPT ![r].pc = "send", ![r].probing = FALSE, ![r].closed = TRUE]
          /\ healed' = [healed EXCEPT ![Pair(r)] = TRUE]
          /\ NoFault
       \/ /\ Fault
          /\ \E c \in Thrown(r) : q' = [q EXCEPT ![r] = Caught(r, c)]
          /\ UNCHANGED <<health, healed>>
    /\ UNCHANGED <<now, gauge, load, late, lost>>

(* The `end` event: what was buffered and the event go to the client. *)
End(r) ==
    /\ At(r, "send")
    /\ q' = [q EXCEPT ![r].pc = "ended", ![r].from = @ \cup {q[r].idx}, ![r].ends = @ + 1]
    /\ UNCHANGED <<now, health, gauge, load, histVars>>

(* Mutated form of ErrorEvent: the event is yielded before the log is set. *)
ErrorEventUnlogged(r) ==
    /\ At(r, "send")
    /\ \E c \in UpstreamCodes :
        q' = IF ~q[r].committed /\ c \in Retryable
             THEN [q EXCEPT ![r] = Caught(r, c)]
             ELSE [q EXCEPT ![r].pc = "record", ![r].err = c, ![r].committed = TRUE,
                            ![r].errors = @ + 1,
                            ![r].from = @ \cup {q[r].idx}]
    /\ UNCHANGED <<now, health, gauge, load, histVars>>

(* An error frame: thrown like any failure while failover is possible,     *)
(* otherwise the answer.                                                   *)
ErrorEvent(r) ==
    /\ At(r, "send")
    /\ \E c \in UpstreamCodes :
        q' = IF ~q[r].committed /\ c \in Retryable
             THEN [q EXCEPT ![r] = Caught(r, c)]
             ELSE [q EXCEPT ![r].pc = "record", ![r].err = c, ![r].committed = TRUE,
                            ![r].status = c, ![r].errors = @ + 1,
                            ![r].from = @ \cup {q[r].idx}]
    /\ UNCHANGED <<now, health, gauge, load, histVars>>

-----------------------------------------------------------------------------
Blame(p, c) ==
    /\ Write(p, RecordFailure(health[p], c, now))
    /\ healed' = [healed EXCEPT ![p] = @ /\ c \notin Hard]

(* Bookkeeping of an error the client has been given: a write that fails   *)
(* is logged and changes nothing else.                                     *)
RecordError(r) ==
    /\ At(r, "record")
    /\ \/ Blame(Pair(r), q[r].err) /\ NoFault
       \/ Fault /\ UNCHANGED <<health, healed>>
    /\ q' = [q EXCEPT ![r].pc = "finally", ![r].after = "over"]
    /\ UNCHANGED <<now, gauge, load, late, lost>>

(* After `end`: a success is written when the snapshot the request was     *)
(* ranked on had something for it to change.                               *)
Succeed(r) ==
    /\ At(r, "ended")
    /\ LET p == Pair(r)
           writes == Candidate(r).dirty /\ ~q[r].closed IN
       \/ /\ health' = IF writes THEN [health EXCEPT ![p] = RecordSuccess(@)] ELSE health
          /\ healed' = IF writes THEN [healed EXCEPT ![p] = TRUE] ELSE healed
          /\ q' = [q EXCEPT ![r].pc = "finally", ![r].after = "over", ![r].status = "200"]
          /\ NoFault
       \/ /\ writes /\ Fault
          /\ \E c \in Thrown(r) :
                q' = [q EXCEPT ![r] = [Caught(r, c) EXCEPT !.unsaved = TRUE]]
          /\ UNCHANGED <<health, healed>>
    /\ UNCHANGED <<now, gauge, load, late, lost>>

(* Mutated form of RecordFailed: fails over whether or not bytes went out. *)
RecordFailedRetries(r) ==
    /\ At(r, "fail")
    /\ \/ /\ Blame(Pair(r), q[r].err)
          /\ q' = IF q[r].committed /\ q[r].err \notin Retryable
                  THEN [q EXCEPT ![r].pc = "told", ![r].status = q[r].err, ![r].errors = @ + 1]
                  ELSE [q EXCEPT ![r].pc = "finally",
                                 ![r].after = IF q[r].err \in Retryable THEN "next" ELSE "final"]
          /\ NoFault
       \/ /\ Fault
          /\ q' = [q EXCEPT ![r].pc = "finally", ![r].after = "over"]
          /\ UNCHANGED <<health, healed>>
    /\ UNCHANGED <<now, gauge, load, late, lost>>

(* The failure is written to the row.  Before the commit it is retried on  *)
(* the next candidate or ends the loop, after it the client is told.       *)
RecordFailed(r) ==
    /\ At(r, "fail")
    /\ \/ /\ Blame(Pair(r), q[r].err)
          /\ q' = IF q[r].committed
                  THEN [q EXCEPT ![r].pc = "told", ![r].status = q[r].err, ![r].errors = @ + 1]
                  ELSE [q EXCEPT ![r].pc = "finally",
                                 ![r].after = IF q[r].err \in Retryable THEN "next" ELSE "final"]
          /\ NoFault
       \/ /\ Fault
          /\ q' = [q EXCEPT ![r].pc = "finally", ![r].after = "over"]
          /\ UNCHANGED <<health, healed>>
    /\ UNCHANGED <<now, gauge, load, late, lost>>

(* That error is the last event; the generator unwinds when it is taken. *)
Unwind(r) ==
    /\ At(r, "told")
    /\ q' = [q EXCEPT ![r].pc = "finally", ![r].after = "over"]
    /\ UNCHANGED <<now, health, gauge, load, histVars>>

(* The generator is suspended where it yielded an event, or may be: only   *)
(* its consumer takes it on, by taking the event or by closing.            *)
AtYield(r) ==
    \/ At(r, "send") /\ q[r].committed
    \/ q[r].pc \in {"close", "ended", "record", "told"}

(* The consumer closes the stream at an event it was given. *)
Abandon(r) ==
    /\ AtYield(r)
    /\ IF q[r].client = "stalled" THEN NoFault ELSE Fault
    /\ q' = [q EXCEPT ![r].pc = "finally", ![r].after = "over", ![r].client = "left"]
    /\ UNCHANGED <<now, health, gauge, load, healed, late, lost>>

(* A client that stops reading leaves the generator suspended, past any    *)
(* deadline, until it reads on or closes.                                  *)
Stall(r) ==
    /\ AtYield(r) /\ q[r].client = "reading"
    /\ Fault
    /\ q' = [q EXCEPT ![r].client = "stalled"]
    /\ UNCHANGED <<now, health, gauge, load, healed, late, lost>>

ReadOn(r) ==
    /\ q[r].client = "stalled"
    /\ q' = [q EXCEPT ![r].client = "reading"]
    /\ UNCHANGED <<now, health, gauge, load, histVars>>

(* Mutated form of Finally: a request that was refused the probe, though it *)
(* holds a slot, does not release it.                                      *)
FinallyUnclaimed(r) ==
    /\ At(r, "finally")
    /\ LET p == Pair(r)
           claimed == q[r].won IN
       /\ load' = IF q[r].own THEN [load EXCEPT ![p] = @ - 1] ELSE Freed(r)
       /\ \/ /\ gauge' = IF claimed THEN [gauge EXCEPT ![p] = WithoutOldest(p)] ELSE gauge
             /\ late' = IF claimed /\ q[r].claim <= now THEN [late EXCEPT ![p] = @ + 1] ELSE late
             /\ NoFault /\ UNCHANGED lost
          \/ /\ claimed /\ Fault
             /\ lost' = [lost EXCEPT ![p] = @ + 1]
             /\ UNCHANGED <<gauge, late>>
    /\ q' = CASE q[r].after = "over" -> [q EXCEPT ![r] = Over(@)]
              [] q[r].after = "final" -> [q EXCEPT ![r] = Exhausted(@)]
              [] q[r].after = "next" ->
                    [q EXCEPT ![r].pc = "next", ![r].idx = @ + 1, ![r].own = FALSE,
                        ![r].eager = FALSE, ![r].claim = Never, ![r].won = FALSE,
                        ![r].probing = FALSE, ![r].committed = FALSE, ![r].closed = FALSE,
                        ![r].retried = FALSE]
    /\ UNCHANGED <<now, health, healed>>

(* The finally of an attempt frees its load slot and its probe slot; the   *)
(* probe's is anonymous, so the one that goes is the oldest.  A release    *)
(* the coordinator fails to hear leaves the slot to its TTL.  The code     *)
(* does not await that release: the loop may go on to another pair before  *)
(* the gauge has heard it, which no property tells apart from a later      *)
(* `finally`.                                                              *)
Finally(r) ==
    /\ At(r, "finally")
    /\ LET p == Pair(r)
           claimed == q[r].claim # Never IN
       /\ load' = IF q[r].own THEN [load EXCEPT ![p] = @ - 1] ELSE Freed(r)
       /\ \/ /\ gauge' = IF claimed THEN [gauge EXCEPT ![p] = WithoutOldest(p)] ELSE gauge
             /\ late' = IF claimed /\ q[r].claim <= now THEN [late EXCEPT ![p] = @ + 1] ELSE late
             /\ NoFault /\ UNCHANGED lost
          \/ /\ claimed /\ Fault
             /\ lost' = [lost EXCEPT ![p] = @ + 1]
             /\ UNCHANGED <<gauge, late>>
    /\ q' = CASE q[r].after = "over" -> [q EXCEPT ![r] = Over(@)]
              [] q[r].after = "final" -> [q EXCEPT ![r] = Exhausted(@)]
              [] q[r].after = "next" ->
                    [q EXCEPT ![r].pc = "next", ![r].idx = @ + 1, ![r].own = FALSE,
                        ![r].eager = FALSE, ![r].claim = Never, ![r].won = FALSE,
                        ![r].probing = FALSE, ![r].committed = FALSE, ![r].closed = FALSE,
                        ![r].retried = FALSE]
    /\ UNCHANGED <<now, health, healed>>

-----------------------------------------------------------------------------
Tick ==
    /\ now < MaxTime
    /\ now' = now + 1
    /\ UNCHANGED <<health, gauge, load, q, histVars>>

Init ==
    /\ now = 0
    /\ health \in InitialRows
    /\ gauge = [p \in Pairs |-> {}]
    /\ load = [p \in Pairs |-> 0]
    /\ q = [r \in Requests |-> Idle]
    /\ faults = 0
    /\ healed = [p \in Pairs |-> FALSE]
    /\ late = [p \in Pairs |-> 0]
    /\ lost = [p \in Pairs |-> 0]

(* What a request does by itself once its awaits come back and its client  *)
(* has taken what it was given.                                            *)
Proceed(r) ==
    /\ q[r].client # "stalled"
    /\ \/ Rank(r) \/ NextCandidate(r) \/ AcquireProbe(r) \/ MarkHalfOpen(r)
       \/ Cancelled(r) \/ CloseAtCommit(r) \/ RecordError(r) \/ Succeed(r)
       \/ RecordFailed(r) \/ Unwind(r) \/ Finally(r)

Upstream(r) ==
    /\ q[r].client # "stalled"
    /\ \/ RouteFails(r) \/ Commit(r) \/ End(r) \/ ErrorEvent(r) \/ Fails(r)
       \/ Refreshed(r)

Client(r) ==
    Begin(r) \/ CloseUnstarted(r) \/ Abort(r) \/ Abandon(r) \/ Stall(r) \/ ReadOn(r)

Next ==
    \/ \E r \in Requests : Proceed(r) \/ Upstream(r) \/ Client(r)
    \/ Tick

Spec == Init /\ [][Next]_vars

(* Time passes, and store and coordinator calls return: the gateway does    *)
(* not stop while it can go on.  Nothing is assumed of the upstream, nor of *)
(* a client that has stalled.                                               *)
FairSpec == Spec /\ WF_vars(Tick \/ \E r \in Requests : Proceed(r))

-----------------------------------------------------------------------------
(* Properties *)

Attempting == {"probe", "mark", "send", "close", "ended", "record", "refresh",
               "fail", "told", "finally"}

(* The variables have their types. *)
TypeOK ==
    /\ now \in 0..MaxTime
    /\ health \in [Pairs -> HealthRow]
    /\ \A p \in Pairs : \A s \in gauge[p] : s.by \in Requests /\ s.until \in Nat
    /\ load \in [Pairs -> Nat]
    /\ \A r \in Requests :
        /\ q[r].pc \in Attempting \cup {"idle", "rank", "next", "done"}
        /\ q[r].err \in Codes \cup {NoCode}
        /\ q[r].attempts \in 0..MaxAttempts
        /\ \A i \in DOMAIN q[r].order : q[r].order[i].pair \in Pairs
    /\ faults \in 0..MaxFaults

(* A request counts for the pair it is claimed for, from rank time, when   *)
(* its generator has not started, to the end of the attempt.  A client     *)
(* that hangs up takes the rank-time claim with it.                        *)
Occupies(r, p) ==
    /\ On(r, p)
    /\ \/ q[r].idx = 1 /\ ~q[r].aborted
       \/ q[r].idx > 1 /\ q[r].pc \in Attempting

(* The load registry counts exactly the requests in flight on a pair:      *)
(* claims pass from ranking to the first attempt, and the three places     *)
(* that free them (attempt, generator, abort listener) free each one once. *)
LoadIsInFlight ==
    \A p \in Pairs : load[p] = Cardinality({r \in Requests : Occupies(r, p)})

(* A recovering pair is tested by one request at a time, while the slots   *)
(* live.  A request that outlives PROBE_TTL_MS loses its own slot and its  *)
(* release, which names no holder, frees somebody else's: each such        *)
(* release lets in at most one more.                                       *)
ProbesBounded ==
    \A p \in Pairs :
        Cardinality({r \in Requests : q[r].won /\ On(r, p) /\ q[r].claim > now})
            <= 1 + late[p]

(* The gauge holds no slot for a request that is over, unless its release  *)
(* was lost: when nobody is testing a pair the next request may.           *)
ProbeSlotsAccounted ==
    \A p \in Pairs :
        Cardinality(LiveSlots(p))
            <= Cardinality({r \in Requests : q[r].claim # Never /\ On(r, p)}) + lost[p]

(* Once a success was recorded, a pair stays closed until a hard failure:  *)
(* requests ranked while it was open or halfOpen do not put it back into   *)
(* probe territory.                                                        *)
HealedStaysClosed ==
    \A p \in Pairs : healed[p] => health[p].state = "closed"

(* The client sees events of one attempt only, and one terminal event; a   *)
(* second one follows `end` only when writing the success failed.          *)
OneAnswer ==
    \A r \in Requests :
        /\ Cardinality(q[r].from) <= 1
        /\ q[r].ends + q[r].errors <= IF q[r].unsaved THEN 2 ELSE 1

(* With a deadline configured, every request that was begun comes to its    *)
(* end whatever its upstreams do, unless its client stops reading: the      *)
(* deadline ends an attempt, a refresh and a stream that hang, and the loop *)
(* goes no further than the candidates and MaxAttempts.  (There are         *)
(* finitely many and each is begun once: all are over, in the end.)         *)
RequestsEnd ==
    Deadline # 0 =>
        <>[](\A r \in Requests :
                At(r, "idle") \/ At(r, "done") \/ q[r].client = "stalled")

(* The log says 200 of no request but one that was answered to its end,    *)
(* and of each such one, unless the consumer closed at that very event     *)
(* (the status is set after it is taken) or the success could not be       *)
(* written.  A request whose client was told of an error is logged with it. *)
LogTellsTheAnswer ==
    \A r \in Requests :
        q[r].pc = "done" =>
            /\ q[r].status = "200" => q[r].ends = 1 /\ q[r].errors = 0
            /\ q[r].ends > 0 => \/ q[r].status = "200"
                               \/ q[r].client = "left" \/ q[r].unsaved
            /\ q[r].errors > 0 => q[r].status \notin {"none", "200"}
=============================================================================
