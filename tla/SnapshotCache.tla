----------------------------- MODULE SnapshotCache -----------------------------
(***************************************************************************)
(* The routing snapshot cache of a gateway (dispatch/snapshotCache.ts) over *)
(* a SQLite store.  Three things tell it that what it holds is old: its     *)
(* own store's announcements (`apply`), the connection's `data_version`,    *)
(* which moves when ANOTHER process commits, and `invalidate`, called when  *)
(* the database file itself was replaced.  Builds read the store in several *)
(* queries, so each of these can happen under a build.                      *)
(*                                                                         *)
(* The contents of the database are two parts: what a change of which makes *)
(* the snapshot stale (`cfg`: credentials, models, settings) and the rows   *)
(* that are patched into it (`hp`: health and quota).                       *)
(***************************************************************************)
EXTENDS Integers, FiniteSets

CONSTANTS
    Readers,        \* callers of get
    Builds,         \* names for the builds in flight
    Values,         \* what either part of the database may hold
    FreshVersions,  \* where the counter of a newly opened handle may start
    MaxGeneration,  \* bound: announced changes
    MaxVersion,     \* bound: commits of other processes
    None,
    Refused         \* a call that was rejected

ASSUME CacheAssumption ==
    /\ FreshVersions \subseteq Nat
    /\ MaxGeneration \in Nat /\ MaxVersion \in Nat
    /\ None \notin Builds \cup Values /\ Refused \notin Values
    /\ Refused # None

Contents == [cfg : Values, hp : Values]

ASSUME AnswersAssumption == None \notin Contents /\ Refused \notin Contents

VARIABLES
    db,           \* the contents of the live database file
    open,         \* the store has an open handle
    dataVersion,  \* PRAGMA data_version of that handle
    settled,      \* every replacement of the file has been invalidated
    snapshot, stale, version, generation,
    inFlight,     \* the build new callers join, or None
    builds,       \* the builds whose promise has not settled
    waiting,      \* per caller, the build it awaits
    returned,     \* per caller, what the last step returned to it
    valid,        \* history: what was live, or being handed out, since the call
    loose         \* history: callers whose call overlaps a replacement

storeVars == <<db, open, dataVersion, settled>>
cacheVars == <<snapshot, stale, version, generation>>
buildVars == <<inFlight, builds>>
callVars == <<waiting, valid, loose>>
vars == <<storeVars, cacheVars, buildVars, callVars, returned>>

BuildStates ==
    [gen : Nat, ver : Nat, cfg : Values \cup {None}, hp : Values \cup {None},
     out : Contents \cup {None, Refused}, next : Builds \cup {None}]

TypeOK ==
    /\ db \in Contents
    /\ open \in BOOLEAN /\ settled \in BOOLEAN /\ stale \in BOOLEAN
    /\ dataVersion \in Nat /\ version \in Nat /\ generation \in Nat
    /\ snapshot \in Contents \cup {None}
    /\ inFlight \in Builds \cup {None}
    /\ builds \in [Builds -> BuildStates \cup {None}]
    /\ waiting \in [Readers -> Builds \cup {None}]
    /\ returned \in [Readers -> Contents \cup {None, Refused}]
    /\ valid \in [Readers -> SUBSET Contents]
    /\ loose \subseteq Readers

(* The test of get's first lines: what is held can be returned. *)
Fresh == snapshot # None /\ ~stale /\ version = dataVersion

(* The answers that have been decided and not yet handed out. *)
Shared == {builds[b].out : b \in {c \in Builds : builds[c] # None}} \ {None, Refused}

Nothing == [r \in Readers |-> None]

Asking == {r \in Readers : waiting[r] # None}

(* What a call under way may return when the database comes to hold v. *)
Seen(v) == [r \in Readers |-> IF r \in Asking \ loose THEN valid[r] \cup {v} ELSE {}]

(* A build starts: generation and version are noted before any row is read. *)
Started == [gen |-> generation, ver |-> dataVersion, cfg |-> None, hp |-> None,
            out |-> None, next |-> None]

(* A build with an answer, and one that waits for another build's: what it  *)
(* noted and read no longer matters.                                        *)
Answered(a) == [gen |-> 0, ver |-> 0, cfg |-> None, hp |-> None, out |-> a, next |-> None]

Chained(c) == [gen |-> 0, ver |-> 0, cfg |-> None, hp |-> None, out |-> None, next |-> c]

-----------------------------------------------------------------------------
(* get, when the handle is closed: version() throws. *)
GetClosed(r) ==
    /\ waiting[r] = None
    /\ ~open
    /\ returned' = [Nothing EXCEPT ![r] = Refused]
    /\ UNCHANGED <<storeVars, cacheVars, buildVars, waiting, valid, loose>>

(* get, when what is held will do. *)
Hit(r) ==
    /\ waiting[r] = None
    /\ open /\ Fresh
    /\ returned' = [Nothing EXCEPT ![r] = snapshot]
    /\ UNCHANGED <<storeVars, cacheVars, buildVars, waiting, valid, loose>>

Await(r, b) ==
    /\ waiting' = [waiting EXCEPT ![r] = b]
    /\ returned' = Nothing
    /\ valid' = [valid EXCEPT ![r] = IF settled THEN {db} \cup Shared ELSE {}]
    /\ loose' = IF settled THEN loose \ {r} ELSE loose \cup {r}

(* get, when a build is under way: every later caller shares it. *)
Join(r) ==
    /\ waiting[r] = None
    /\ open /\ ~Fresh
    /\ inFlight # None
    /\ Await(r, inFlight)
    /\ stale' = (stale \/ version # dataVersion)
    /\ UNCHANGED <<storeVars, snapshot, version, generation, buildVars>>

(* get, when there is none. *)
Build(r) ==
    /\ waiting[r] = None
    /\ open /\ ~Fresh
    /\ inFlight = None
    /\ \E b \in Builds :
        /\ builds[b] = None
        /\ builds' = [builds EXCEPT ![b] = Started]
        /\ inFlight' = b
        /\ Await(r, b)
    /\ stale' = (stale \/ version # dataVersion)
    /\ UNCHANGED <<storeVars, snapshot, version, generation>>

(* buildSnapshot: the queries of the Promise.all, each at a moment of its   *)
(* own; one that is rejected rejects the whole.                             *)
Reading(b) == builds[b] # None /\ builds[b].out = None /\ builds[b].next = None

ReadConfig(b) ==
    /\ Reading(b) /\ open /\ builds[b].cfg = None
    /\ builds' = [builds EXCEPT ![b].cfg = db.cfg]
    /\ returned' = Nothing
    /\ UNCHANGED <<storeVars, cacheVars, inFlight, callVars>>

ReadHealth(b) ==
    /\ Reading(b) /\ open /\ builds[b].hp = None
    /\ builds' = [builds EXCEPT ![b].hp = db.hp]
    /\ returned' = Nothing
    /\ UNCHANGED <<storeVars, cacheVars, inFlight, callVars>>

ReadFails(b) ==
    /\ Reading(b) /\ (builds[b].cfg = None \/ builds[b].hp = None)
    /\ builds' = [builds EXCEPT ![b] = Answered(Refused)]
    /\ returned' = Nothing
    /\ UNCHANGED <<storeVars, cacheVars, inFlight, callVars>>

ReadAny(b) == Reading(b)

AllRead(b) == Reading(b) /\ builds[b].cfg # None /\ builds[b].hp # None

UnmovedVersion(b) == dataVersion = builds[b].ver

Unmoved(b) == generation = builds[b].gen /\ dataVersion = builds[b].ver

(* The .then callback: nothing moved under the build, so it is installed. *)
Install(b) ==
    /\ AllRead(b) /\ open
    /\ Unmoved(b)
    /\ LET next == [cfg |-> builds[b].cfg, hp |-> builds[b].hp] IN
        /\ snapshot' = next
        /\ builds' = [builds EXCEPT ![b] = Answered(next)]
    /\ version' = dataVersion
    /\ stale' = FALSE
    /\ returned' = Nothing
    /\ UNCHANGED <<storeVars, generation, inFlight, callVars>>

(* The same callback when something did: it calls get again, which finds a *)
(* snapshot installed meanwhile, or starts another build and waits for it. *)
AgainHit(b) ==
    /\ AllRead(b) /\ open
    /\ ~Unmoved(b)
    /\ Fresh
    /\ inFlight' = None
    /\ builds' = [builds EXCEPT ![b] = Answered(snapshot)]
    /\ returned' = Nothing
    /\ UNCHANGED <<storeVars, cacheVars, callVars>>

AgainBuild(b) ==
    /\ AllRead(b) /\ open
    /\ ~Unmoved(b)
    /\ ~Fresh
    /\ \E c \in Builds :
        /\ builds[c] = None
        /\ builds' = [builds EXCEPT ![b] = Chained(c), ![c] = Started]
        /\ inFlight' = c
    /\ stale' = (stale \/ version # dataVersion)
    /\ returned' = Nothing
    /\ UNCHANGED <<storeVars, snapshot, version, generation, callVars>>

(* And when version() throws in it. *)
VersionThrows(b) ==
    /\ AllRead(b) /\ ~open
    /\ builds' = [builds EXCEPT ![b] = Answered(Refused)]
    /\ returned' = Nothing
    /\ UNCHANGED <<storeVars, cacheVars, inFlight, callVars>>

(* The .finally: inFlight goes, WHOEVER's it is by now; the callers of b    *)
(* and the builds that were waiting for b have their answer.                *)
Finally(b) ==
    /\ builds[b] # None /\ builds[b].out # None
    /\ inFlight' = None
    /\ builds' = [c \in Builds |->
          IF c = b THEN None
          ELSE IF builds[c] # None /\ builds[c].next = b
               THEN Answered(builds[b].out)
               ELSE builds[c]]
    /\ returned' = [r \in Readers |-> IF waiting[r] = b THEN builds[b].out ELSE None]
    /\ waiting' = [r \in Readers |-> IF waiting[r] = b THEN None ELSE waiting[r]]
    /\ valid' = [r \in Readers |-> IF waiting[r] = b THEN {} ELSE valid[r]]
    /\ loose' = {r \in loose : waiting[r] # b}
    /\ UNCHANGED <<storeVars, cacheVars>>

-----------------------------------------------------------------------------
(* This process saves health or quota rows; they are patched into what is  *)
(* held.  The connection's own commits leave its data_version alone.       *)
SaveHealth(v) ==
    /\ open /\ v # db.hp
    /\ generation < MaxGeneration
    /\ db' = [db EXCEPT !.hp = v]
    /\ valid' = Seen(db')
    /\ generation' = generation + 1
    /\ snapshot' = IF snapshot = None \/ stale THEN snapshot
                   ELSE [snapshot EXCEPT !.hp = v]
    /\ returned' = Nothing
    /\ UNCHANGED <<open, dataVersion, settled, stale, version, buildVars,
                   waiting, loose>>

(* This process changes a credential, a model or a setting. *)
SaveConfig(v) ==
    /\ open /\ v # db.cfg
    /\ generation < MaxGeneration
    /\ db' = [db EXCEPT !.cfg = v]
    /\ valid' = Seen(db')
    /\ generation' = generation + 1
    /\ stale' = (stale \/ snapshot # None)
    /\ returned' = Nothing
    /\ UNCHANGED <<open, dataVersion, settled, snapshot, version, buildVars,
                   waiting, loose>>

(* Another process, the CLI, commits a change of the configuration to the  *)
(* same file: only the counter says so.                                    *)
ExternalCommit(v) ==
    /\ open /\ v # db.cfg
    /\ dataVersion < MaxVersion
    /\ db' = [db EXCEPT !.cfg = v]
    /\ valid' = Seen(db')
    /\ dataVersion' = dataVersion + 1
    /\ returned' = Nothing
    /\ UNCHANGED <<open, settled, cacheVars, buildVars, waiting, loose>>

(* A swap of the file: close, unlink, rename, reopen.  The new handle's     *)
(* counter starts anywhere; the reopen may fail.                            *)
ReplaceFile(c, opened, v) ==
    /\ db' = c
    /\ open' = opened
    /\ dataVersion' = v
    /\ settled' = FALSE
    /\ loose' = Asking
    /\ valid' = [r \in Readers |-> {}]
    /\ returned' = Nothing
    /\ UNCHANGED <<cacheVars, buildVars, waiting>>

Invalidated ==
    /\ snapshot' = None
    /\ stale' = TRUE
    /\ version' = dataVersion
    /\ settled' = TRUE
    /\ returned' = Nothing
    /\ UNCHANGED <<db, open, dataVersion, buildVars, callVars>>

InvalidateQuietly ==
    /\ open
    /\ Invalidated
    /\ UNCHANGED generation

(* invalidate: the generation is what discards a build of the old file. *)
Invalidate ==
    /\ open
    /\ Invalidated
    /\ generation' = generation + 1

-----------------------------------------------------------------------------
Init ==
    /\ db \in Contents
    /\ open = TRUE
    /\ dataVersion \in FreshVersions
    /\ settled = TRUE
    /\ snapshot = None /\ stale = TRUE
    /\ version = dataVersion
    /\ generation = 0
    /\ inFlight = None
    /\ builds = [b \in Builds |-> None]
    /\ waiting = [r \in Readers |-> None]
    /\ returned = Nothing
    /\ valid = [r \in Readers |-> {}]
    /\ loose = {}

Get(r) == GetClosed(r) \/ Hit(r) \/ Join(r) \/ Build(r)

Advance(b) ==
    \/ ReadConfig(b) \/ ReadHealth(b) \/ ReadFails(b)
    \/ Install(b) \/ AgainHit(b) \/ AgainBuild(b) \/ VersionThrows(b)
    \/ Finally(b)

Writes == \E v \in Values : SaveHealth(v) \/ SaveConfig(v) \/ ExternalCommit(v)

(* A swap, as the cache meets it: a replacement, announced by invalidate    *)
(* if it succeeded.                                                         *)
Replacement ==
    /\ open /\ settled
    /\ generation < MaxGeneration
    /\ \E c \in Contents, opened \in BOOLEAN, v \in FreshVersions : ReplaceFile(c, opened, v)

Announcement == ~settled /\ Invalidate

Next ==
    \/ \E r \in Readers : Get(r)
    \/ \E b \in Builds : Advance(b)
    \/ Writes
    \/ Replacement
    \/ Announcement

Spec == Init /\ [][Next]_vars

-----------------------------------------------------------------------------
(* What get would return without looking further IS the database: under    *)
(* every interleaving of builds, patches, commits of other processes and   *)
(* replacements of the file, once a replacement has been invalidated.      *)
FreshIsCurrent == settled /\ open /\ Fresh => snapshot = db

(* The cache as a register: get reads the database. *)
Register == INSTANCE RoutingRegister WITH
    live <- db, asking <- Asking, shared <- Shared, answer <- returned, Silence <- None

(* Every behaviour of the cache is one of the register: an answer was live  *)
(* at a moment of the call, or was being handed out when the call was made; *)
(* only calls that overlap a replacement of the file are excused.           *)
ReadsAreLive == Register!Spec
=============================================================================
