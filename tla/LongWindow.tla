------------------------------ MODULE LongWindow ------------------------------
(***************************************************************************)
(* One subject's long window (5h or 1w): the time buckets of Coord.buckets *)
(* that every process debits into, seeded from the store the first time    *)
(* the window is asked about (rateLimit.ts longCounts, seed, debit;        *)
(* logging.ts finishLog; coord BUCKETS_ADD / BUCKETS_SEED / BUCKETS_SUM).  *)
(*                                                                         *)
(* The picture is abstracted to how often each request is counted in it:   *)
(* tokens, dollars and requests are debited together.  The trailing edge   *)
(* of the window, which only makes counts high, is left out; a picture     *)
(* that expires or is flushed is Evict.  Requests belong to any number of  *)
(* processes; the coordinator is reachable throughout.                     *)
(***************************************************************************)
EXTENDS Integers, FiniteSets

CONSTANTS
    Requests,   \* requests of one key, each admitted and finished once
    NoRequest,  \* nobody holds the seed lock
    MaxFaults   \* bound: evictions, failed appends and lock faults

ASSUME RequestsFinite == IsFiniteSet(Requests)
ASSUME NobodyIsNoRequest == NoRequest \notin Requests
ASSUME FaultsTyped == MaxFaults \in Nat

VARIABLES
    pc,      \* where each request is
    rows,    \* the store: requests whose completed row is committed
    seeded,  \* the coordinator: whether the picture exists
    count,   \* the coordinator: how often the picture counts each request
    lock,    \* holder of the mutex `seed:<key>`
    snap,    \* rows a seeding request read, not yet installed
    raced,   \* history: debited between the read and the install of a seed
    faults   \* history: faults so far

vars == <<pc, rows, seeded, count, lock, snap, raced, faults>>

Nothing == [r \in Requests |-> 0]
Of(R) == [r \in Requests |-> IF r \in R THEN 1 ELSE 0]

Fault == faults < MaxFaults /\ faults' = faults + 1

Goto(r, l) == pc' = [pc EXCEPT ![r] = l]

-----------------------------------------------------------------------------
(* longCounts: the window is summed, or seeded where there is no picture *)
Ask(r) ==
    /\ pc[r] = "idle"
    /\ Goto(r, IF seeded THEN "run" ELSE "lock")
    /\ UNCHANGED <<rows, seeded, count, lock, snap, raced, faults>>

TakeLock(r) ==
    /\ pc[r] = "lock"
    /\ lock = NoRequest
    /\ lock' = r
    /\ Goto(r, "recheck")
    /\ UNCHANGED <<rows, seeded, count, snap, raced, faults>>

(* LockUnavailable, after waiting SEED_LOCK_MS or at once when the          *)
(* coordinator cannot answer: seed anyway.                                  *)
NoLock(r) ==
    /\ pc[r] = "lock"
    /\ Fault
    /\ Goto(r, "recheck")
    /\ UNCHANGED <<rows, seeded, count, lock, snap, raced>>

(* The lock's TTL runs out under its holder. *)
LockLapses ==
    /\ lock # NoRequest
    /\ Fault
    /\ lock' = NoRequest
    /\ UNCHANGED <<pc, rows, seeded, count, snap, raced>>

(* MUTEX_RELEASE drops the lock only for the holder that took it. *)
Unlock(r) == lock' = IF lock = r THEN NoRequest ELSE lock

(* install: somebody may have seeded it meanwhile *)
Recheck(r) ==
    /\ pc[r] = "recheck"
    /\ \/ seeded /\ Unlock(r) /\ Goto(r, "run")
       \/ ~seeded /\ Goto(r, "read") /\ UNCHANGED lock
    /\ UNCHANGED <<rows, seeded, count, snap, raced, faults>>

(* sumBuckets reads the completed rows. *)
ReadRows(r) ==
    /\ pc[r] = "read"
    /\ snap' = [snap EXCEPT ![r] = rows]
    /\ Goto(r, "install")
    /\ UNCHANGED <<rows, seeded, count, lock, raced, faults>>

(* The store read fails: longCounts answers null and the request is served. *)
ReadFails(r) ==
    /\ pc[r] = "read"
    /\ Fault
    /\ Unlock(r)
    /\ Goto(r, "run")
    /\ UNCHANGED <<rows, seeded, count, snap, raced>>

(* Mutated form of SeedPicture: rows are added to what is there. *)
SeedPictureAdds(R) == seeded' = TRUE /\ count' = [r \in Requests |-> count[r] + Of(R)[r]]

(* buckets.seed replaces whatever was there. *)
SeedPicture(R) == seeded' = TRUE /\ count' = Of(R)

Install(r) ==
    /\ pc[r] = "install"
    /\ SeedPicture(snap[r])
    /\ snap' = [snap EXCEPT ![r] = {}]
    /\ Unlock(r)
    /\ Goto(r, "run")
    /\ UNCHANGED <<rows, raced, faults>>

-----------------------------------------------------------------------------
(* finishLog: the row first, then the debit, row or no row *)

(* Mutated form of Append: the row is committed only after the debit. *)
AppendLast(r) ==
    \/ pc[r] = "run" /\ Goto(r, "debit") /\ UNCHANGED <<rows, seeded, count, lock, snap, raced, faults>>
    \/ /\ pc[r] = "done" /\ r \notin rows
       /\ rows' = rows \union {r}
       /\ UNCHANGED <<pc, seeded, count, lock, snap, raced, faults>>

Append(r) ==
    /\ pc[r] = "run"
    /\ rows' = rows \union {r}
    /\ Goto(r, "debit")
    /\ UNCHANGED <<seeded, count, lock, snap, raced, faults>>

AppendFails(r) ==
    /\ pc[r] = "run"
    /\ Fault
    /\ Goto(r, "debit")
    /\ UNCHANGED <<rows, seeded, count, lock, snap, raced>>

(* Mutated form of AddCounts: the debit is taken off the picture. *)
AddCountsNegated(r) == count' = IF seeded THEN [count EXCEPT ![r] = @ - 1] ELSE count

(* buckets.add is ignored while nothing is seeded. *)
AddCounts(r) == count' = IF seeded THEN [count EXCEPT ![r] = @ + 1] ELSE count

Debit(r) ==
    /\ pc[r] = "debit"
    /\ AddCounts(r)
    /\ raced' = IF \E q \in Requests : pc[q] = "install" /\ r \notin snap[q]
                THEN raced \union {r} ELSE raced
    /\ Goto(r, "done")
    /\ UNCHANGED <<rows, seeded, lock, snap, faults>>

(* The picture expires (two windows idle) or the coordinator restarts. *)
Evict ==
    /\ seeded
    /\ Fault
    /\ seeded' = FALSE
    /\ count' = Nothing
    /\ UNCHANGED <<pc, rows, lock, snap, raced>>

-----------------------------------------------------------------------------
Init ==
    /\ pc = [r \in Requests |-> "idle"]
    /\ rows = {}
    /\ seeded = FALSE
    /\ count = Nothing
    /\ lock = NoRequest
    /\ snap = [r \in Requests |-> {}]
    /\ raced = {}
    /\ faults = 0

Next ==
    \/ \E r \in Requests :
        \/ Ask(r) \/ TakeLock(r) \/ NoLock(r) \/ Recheck(r) \/ ReadRows(r)
        \/ ReadFails(r) \/ Install(r) \/ Append(r) \/ AppendFails(r) \/ Debit(r)
    \/ LockLapses \/ Evict

Spec == Init /\ [][Next]_vars

-----------------------------------------------------------------------------
Phases == {"idle", "lock", "recheck", "read", "install", "run", "debit", "done"}

(* Every variable has the shape the code gives it. *)
TypeOK ==
    /\ pc \in [Requests -> Phases]
    /\ rows \in SUBSET Requests
    /\ seeded \in BOOLEAN
    /\ count \in [Requests -> Nat]
    /\ lock \in Requests \union {NoRequest}
    /\ snap \in [Requests -> SUBSET Requests]
    /\ raced \in SUBSET Requests
    /\ faults \in Nat

Finished(r) == r \in rows /\ pc[r] = "done"

(* "Counts may run high, never low": a picture in use counts every request *)
(* that finished, its row committed and its debit sent.  This is the claim *)
(* of ARCHITECTURE.md; the seed of another process breaks it.              *)
CountsNeverLow == seeded => \A r \in Requests : Finished(r) => count[r] >= 1

(* What the code does guarantee: a finished request is missing from the    *)
(* picture only if its debit arrived between some seed's read of the rows  *)
(* and its install.  Row first, debit second, and the seed's replacement   *)
(* of the picture cover every other order (debit, seed, finishLog).        *)
LowOnlyByRace ==
    seeded => \A r \in Requests : Finished(r) => count[r] >= 1 \/ r \in raced

(* Counts run high by at most one debit: a row the seed read whose debit   *)
(* landed after the install.                                               *)
CountedAtMostTwice ==
    \A r \in Requests : count[r] <= (IF pc[r] = "done" THEN 2 ELSE 1)
=============================================================================
