-------------------------- MODULE SnapshotCacheProofs --------------------------
(***************************************************************************)
(* Proofs about SnapshotCache, for any number of callers, builds, changes   *)
(* and replacements: what is held and fresh is the database, and the cache  *)
(* implements the register of RoutingRegister.                              *)
(*                                                                         *)
(* FreshIsCurrent is not inductive: what a build will install was read      *)
(* earlier.  BuildsCurrent says of every build that would still be          *)
(* installed what FreshIsCurrent says of the snapshot, and Monotone that    *)
(* generation and version never come back to a value a build has noted.     *)
(***************************************************************************)
EXTENDS SnapshotCache, TLAPS

(* A replacement of the file, announced or not, and whenever it comes. *)
Swapped == \E c \in Contents, opened \in BOOLEAN, v \in FreshVersions : ReplaceFile(c, opened, v)

(* The steps of Next without the guards on when the file is replaced and    *)
(* when invalidate is called: what follows holds whoever decides that.      *)
CacheNext ==
    \/ \E r \in Readers : Get(r)
    \/ \E b \in Builds : Advance(b)
    \/ Writes
    \/ Swapped
    \/ Invalidate

LEMMA NextIsCacheNext == [Next]_vars => [CacheNext]_vars
BY DEF Next, CacheNext, Replacement, Announcement, Swapped

(* No build noted a generation still to come; and, since the file was last  *)
(* replaced, neither the snapshot nor a build of this generation has a      *)
(* version still to come.                                                   *)
Monotone ==
    /\ \A b \in Builds : Reading(b) => builds[b].gen <= generation
    /\ settled => version <= dataVersion
    /\ settled => \A b \in Builds :
          Reading(b) /\ builds[b].gen = generation => builds[b].ver <= dataVersion

(* What a build has read is what the database holds, if it would be installed. *)
BuildsCurrent ==
    settled => \A b \in Builds :
        Reading(b) /\ Unmoved(b) =>
            builds[b].cfg \in {None, db.cfg} /\ builds[b].hp \in {None, db.hp}

SnapshotCurrent == settled /\ Fresh => snapshot = db

CacheInv == TypeOK /\ Monotone /\ BuildsCurrent /\ SnapshotCurrent

(* What the calls under way may return: those that do not overlap a         *)
(* replacement may be given whatever is live or being handed out.           *)
CallsInv ==
    /\ \A r \in Readers \ Asking : valid[r] = {} /\ r \notin loose
    /\ ~settled => Asking \subseteq loose
    /\ \A r \in Asking \ loose : Shared \subseteq valid[r]
    /\ settled => \A r \in Asking \ loose : db \in valid[r]

-----------------------------------------------------------------------------
(* Types *)

(* A build that has begun is a record, whatever it is doing. *)
LEMMA BuildIsRecord ==
    ASSUME TypeOK, NEW b \in Builds, builds[b] # None
    PROVE  builds[b] \in BuildStates
BY DEF TypeOK

(* The answers being handed out are contents of the database. *)
LEMMA SharedIsContents ==
    ASSUME TypeOK
    PROVE  Shared \subseteq Contents
BY BuildIsRecord DEF Shared, BuildStates

LEMMA StatesOfBuilds ==
    ASSUME TypeOK
    PROVE  /\ Started \in BuildStates
           /\ \A a \in Contents \cup {None, Refused} : Answered(a) \in BuildStates
           /\ \A c \in Builds : Chained(c) \in BuildStates
BY DEF TypeOK, BuildStates, Started, Answered, Chained

LEMMA NothingTyped == Nothing \in [Readers -> Contents \cup {None, Refused}]
BY DEF Nothing

(* A call that begins to wait leaves the calls typed. *)
LEMMA AwaitTyped ==
    ASSUME TypeOK, NEW r \in Readers, NEW b \in Builds, Await(r, b)
    PROVE  /\ waiting' \in [Readers -> Builds \cup {None}]
           /\ returned' \in [Readers -> Contents \cup {None, Refused}]
           /\ valid' \in [Readers -> SUBSET Contents]
           /\ loose' \subseteq Readers
<1>1. {db} \cup Shared \subseteq Contents
  BY SharedIsContents DEF TypeOK
<1>2. valid' \in [Readers -> SUBSET Contents]
  BY <1>1 DEF Await, TypeOK
<1> QED
  BY <1>2, NothingTyped DEF Await, TypeOK

LEMMA SeenTyped ==
    ASSUME TypeOK, NEW v \in Contents
    PROVE  Seen(v) \in [Readers -> SUBSET Contents]
BY DEF TypeOK, Seen, Asking

(* Init is typed. *)
LEMMA InitTyped == Init => TypeOK
BY CacheAssumption, NothingTyped DEF Init, TypeOK

(* Every step of the cache, the store and the restore keeps the types. *)
LEMMA NextTyped == TypeOK /\ [CacheNext]_vars => TypeOK'
<1> SUFFICES ASSUME TypeOK, [CacheNext]_vars PROVE TypeOK'
  OBVIOUS
<1> USE DEF storeVars, cacheVars, buildVars, callVars
<1>1. ASSUME NEW r \in Readers, GetClosed(r) PROVE TypeOK'
  BY <1>1, NothingTyped DEF GetClosed, TypeOK
<1>2. ASSUME NEW r \in Readers, Hit(r) PROVE TypeOK'
  BY <1>2, NothingTyped DEF Hit, Fresh, TypeOK
<1>3. ASSUME NEW r \in Readers, Join(r) PROVE TypeOK'
  <2>1. inFlight \in Builds
    BY <1>3 DEF Join, TypeOK
  <2>2. Await(r, inFlight)
    BY <1>3 DEF Join
  <2> QED
    BY <1>3, <2>1, <2>2, AwaitTyped DEF Join, TypeOK
<1>4. ASSUME NEW r \in Readers, Build(r) PROVE TypeOK'
  <2>1. PICK b \in Builds : /\ builds' = [builds EXCEPT ![b] = Started]
                            /\ inFlight' = b
                            /\ Await(r, b)
    BY <1>4 DEF Build
  <2>2. builds' \in [Builds -> BuildStates \cup {None}]
    BY <2>1, StatesOfBuilds DEF TypeOK
  <2> QED
    BY <1>4, <2>1, <2>2, AwaitTyped DEF Build, TypeOK
<1>5. ASSUME NEW b \in Builds, ReadConfig(b) PROVE TypeOK'
  <2>1. [builds[b] EXCEPT !.cfg = db.cfg] \in BuildStates
    BY <1>5, BuildIsRecord DEF ReadConfig, Reading, BuildStates, TypeOK, Contents
  <2>2. builds' = [builds EXCEPT ![b] = [builds[b] EXCEPT !.cfg = db.cfg]]
    BY <1>5 DEF ReadConfig
  <2>3. builds' \in [Builds -> BuildStates \cup {None}]
    BY <2>1, <2>2 DEF TypeOK
  <2> QED
    BY <1>5, <2>3, NothingTyped DEF ReadConfig, TypeOK
<1>6. ASSUME NEW b \in Builds, ReadHealth(b) PROVE TypeOK'
  <2>1. [builds[b] EXCEPT !.hp = db.hp] \in BuildStates
    BY <1>6, BuildIsRecord DEF ReadHealth, Reading, BuildStates, TypeOK, Contents
  <2>2. builds' = [builds EXCEPT ![b] = [builds[b] EXCEPT !.hp = db.hp]]
    BY <1>6 DEF ReadHealth
  <2>3. builds' \in [Builds -> BuildStates \cup {None}]
    BY <2>1, <2>2 DEF TypeOK
  <2> QED
    BY <1>6, <2>3, NothingTyped DEF ReadHealth, TypeOK
<1>7. ASSUME NEW b \in Builds, ReadFails(b) PROVE TypeOK'
  BY <1>7, StatesOfBuilds, NothingTyped DEF ReadFails, TypeOK
<1>8. ASSUME NEW b \in Builds, Install(b) PROVE TypeOK'
  <2>1. [cfg |-> builds[b].cfg, hp |-> builds[b].hp] \in Contents
    BY <1>8, BuildIsRecord DEF Install, AllRead, Reading, BuildStates, Contents
  <2>2. builds' \in [Builds -> BuildStates \cup {None}]
    BY <1>8, <2>1, StatesOfBuilds DEF Install, TypeOK
  <2> QED
    BY <1>8, <2>1, <2>2, NothingTyped DEF Install, TypeOK
<1>9. ASSUME NEW b \in Builds, AgainHit(b) PROVE TypeOK'
  BY <1>9, StatesOfBuilds, NothingTyped DEF AgainHit, TypeOK
<1>10. ASSUME NEW b \in Builds, AgainBuild(b) PROVE TypeOK'
  <2>1. PICK c \in Builds : /\ builds' = [builds EXCEPT ![b] = Chained(c), ![c] = Started]
                            /\ inFlight' = c
    BY <1>10 DEF AgainBuild
  <2>2. builds' \in [Builds -> BuildStates \cup {None}]
    BY <2>1, StatesOfBuilds DEF TypeOK
  <2> QED
    BY <1>10, <2>1, <2>2, NothingTyped DEF AgainBuild, TypeOK
<1>11. ASSUME NEW b \in Builds, VersionThrows(b) PROVE TypeOK'
  BY <1>11, StatesOfBuilds, NothingTyped DEF VersionThrows, TypeOK
<1>12. ASSUME NEW b \in Builds, Finally(b) PROVE TypeOK'
  <2>1. builds[b].out \in Contents \cup {None, Refused}
    BY <1>12, BuildIsRecord DEF Finally, BuildStates
  <2>2. builds' \in [Builds -> BuildStates \cup {None}]
    BY <1>12, <2>1, StatesOfBuilds DEF Finally, TypeOK
  <2>3. /\ returned' \in [Readers -> Contents \cup {None, Refused}]
        /\ waiting' \in [Readers -> Builds \cup {None}]
        /\ valid' \in [Readers -> SUBSET Contents]
        /\ loose' \subseteq Readers
    BY <1>12, <2>1 DEF Finally, TypeOK
  <2> QED
    BY <1>12, <2>2, <2>3 DEF Finally, TypeOK
<1>13. ASSUME NEW v \in Values, SaveHealth(v) PROVE TypeOK'
  <2>1. db' \in Contents
    BY <1>13 DEF SaveHealth, TypeOK, Contents
  <2>2. snapshot' \in Contents \cup {None}
    BY <1>13 DEF SaveHealth, TypeOK, Contents
  <2>3. valid' \in [Readers -> SUBSET Contents]
    BY <1>13, <2>1, SeenTyped DEF SaveHealth
  <2> QED
    BY <1>13, <2>1, <2>2, <2>3, NothingTyped DEF SaveHealth, TypeOK
<1>14. ASSUME NEW v \in Values, SaveConfig(v) PROVE TypeOK'
  <2>1. db' \in Contents
    BY <1>14 DEF SaveConfig, TypeOK, Contents
  <2>2. valid' \in [Readers -> SUBSET Contents]
    BY <1>14, <2>1, SeenTyped DEF SaveConfig
  <2> QED
    BY <1>14, <2>1, <2>2, NothingTyped DEF SaveConfig, TypeOK
<1>15. ASSUME NEW v \in Values, ExternalCommit(v) PROVE TypeOK'
  <2>1. db' \in Contents
    BY <1>15 DEF ExternalCommit, TypeOK, Contents
  <2>2. valid' \in [Readers -> SUBSET Contents]
    BY <1>15, <2>1, SeenTyped DEF ExternalCommit
  <2> QED
    BY <1>15, <2>1, <2>2, NothingTyped DEF ExternalCommit, TypeOK
<1>16. CASE Swapped
  <2>1. PICK c \in Contents, opened \in BOOLEAN, v \in FreshVersions :
            ReplaceFile(c, opened, v)
    BY <1>16 DEF Swapped
  <2>2. v \in Nat
    BY CacheAssumption
  <2>3. Asking \subseteq Readers
    BY DEF Asking
  <2> QED
    BY <2>1, <2>2, <2>3, NothingTyped DEF ReplaceFile, TypeOK
<1>17. CASE Invalidate
  BY <1>17, NothingTyped DEF Invalidate, Invalidated, TypeOK
<1>18. CASE UNCHANGED vars
  BY <1>18 DEF vars, TypeOK
<1> QED
  BY <1>1, <1>2, <1>3, <1>4, <1>5, <1>6, <1>7, <1>8, <1>9, <1>10, <1>11, <1>12, <1>13,
     <1>14, <1>15, <1>16, <1>17, <1>18 DEF CacheNext, Get, Advance, Writes

-----------------------------------------------------------------------------
(* What is held and fresh is the database *)

(* A step that changes neither the store nor the generation, and in which   *)
(* every build goes on, reads what the database holds, begins or is over.   *)
LEMMA BuildsGoOn ==
    ASSUME TypeOK, TypeOK', Monotone, BuildsCurrent,
           UNCHANGED <<db, dataVersion, settled, generation>>,
           version' \in {version, dataVersion},
           \A b \in Builds : Reading(b)' =>
              \/ builds'[b] = Started
              \/ /\ Reading(b)
                 /\ builds'[b].gen = builds[b].gen /\ builds'[b].ver = builds[b].ver
                 /\ builds'[b].cfg \in {builds[b].cfg, db.cfg}
                 /\ builds'[b].hp \in {builds[b].hp, db.hp}
    PROVE  Monotone' /\ BuildsCurrent'
<1>1. ASSUME NEW b \in Builds, Reading(b)', builds'[b] = Started
      PROVE  /\ builds'[b].gen = generation /\ builds'[b].ver = dataVersion
             /\ builds'[b].cfg = None /\ builds'[b].hp = None
  BY <1>1 DEF Started
<1>2. Monotone'
  BY <1>1 DEF Monotone, TypeOK
<1>3. BuildsCurrent'
  BY <1>1 DEF BuildsCurrent, Unmoved
<1> QED
  BY <1>2, <1>3

(* A build that begins reads; one with an answer, or chained, does not. *)
LEMMA Answering ==
    /\ \A a \in Contents \cup {Refused} : Answered(a).out # None
    /\ \A c \in Builds : Chained(c).next # None
BY CacheAssumption, AnswersAssumption DEF Answered, Chained

(* A build is installed only with what the database holds. *)
LEMMA InstallsCurrent ==
    ASSUME CacheInv, NEW b \in Builds, Install(b), settled
    PROVE  [cfg |-> builds[b].cfg, hp |-> builds[b].hp] = db
<1>1. builds[b].cfg = db.cfg /\ builds[b].hp = db.hp
  BY DEF CacheInv, BuildsCurrent, Install, AllRead
<1>2. db \in [cfg : Values, hp : Values]
  BY DEF CacheInv, TypeOK, Contents
<1> QED
  BY <1>1, <1>2

(* Init satisfies the invariant: nothing is held and nothing is being built. *)
LEMMA InitCurrent == Init => CacheInv
<1> SUFFICES ASSUME Init PROVE CacheInv
  OBVIOUS
<1>1. TypeOK
  BY InitTyped
<1>2. \A b \in Builds : ~Reading(b)
  BY DEF Init, Reading
<1>3. Monotone /\ BuildsCurrent /\ SnapshotCurrent
  BY <1>1, <1>2 DEF Init, Monotone, BuildsCurrent, SnapshotCurrent, Fresh, TypeOK
<1> QED
  BY <1>1, <1>3 DEF CacheInv

(* Every step keeps the invariant. *)
LEMMA NextCurrent == CacheInv /\ [CacheNext]_vars => CacheInv'
<1> SUFFICES ASSUME CacheInv, [CacheNext]_vars PROVE CacheInv'
  OBVIOUS
<1>t. TypeOK /\ TypeOK'
  BY NextTyped DEF CacheInv
<1>m. Monotone /\ BuildsCurrent /\ SnapshotCurrent
  BY DEF CacheInv
<1> SUFFICES Monotone' /\ BuildsCurrent' /\ SnapshotCurrent'
  BY <1>t DEF CacheInv
<1> USE DEF storeVars, cacheVars, buildVars, callVars
<1>1. ASSUME UNCHANGED <<storeVars, cacheVars, buildVars>>
      PROVE  Monotone' /\ BuildsCurrent' /\ SnapshotCurrent'
  BY <1>1, <1>m DEF Monotone, BuildsCurrent, SnapshotCurrent, Reading, Unmoved, Fresh
<1>2. ASSUME NEW r \in Readers, Get(r) PROVE Monotone' /\ BuildsCurrent' /\ SnapshotCurrent'
  <2>1. CASE GetClosed(r) \/ Hit(r)
    BY <2>1, <1>1 DEF GetClosed, Hit
  <2>2. CASE Join(r)
    <3>1. Monotone' /\ BuildsCurrent'
      BY <2>2, <1>m DEF Join, Monotone, BuildsCurrent, Reading, Unmoved
    <3>2. SnapshotCurrent'
      BY <2>2, <1>m DEF Join, SnapshotCurrent, Fresh
    <3> QED
      BY <3>1, <3>2
  <2>3. CASE Build(r)
    <3>1. PICK b \in Builds : builds' = [builds EXCEPT ![b] = Started]
      BY <2>3 DEF Build
    <3>2. \A c \in Builds : builds'[c] = IF c = b THEN Started ELSE builds[c]
      BY <3>1, <1>t DEF TypeOK
    <3>3. Monotone' /\ BuildsCurrent'
      BY <2>3, <3>2, <1>t, <1>m, BuildsGoOn DEF Build, Reading
    <3>4. SnapshotCurrent'
      BY <2>3, <1>m DEF Build, SnapshotCurrent, Fresh
    <3> QED
      BY <3>3, <3>4
  <2> QED
    BY <1>2, <2>1, <2>2, <2>3 DEF Get
<1>3. ASSUME NEW b \in Builds, ReadConfig(b) PROVE Monotone' /\ BuildsCurrent' /\ SnapshotCurrent'
  <2>1. builds' = [builds EXCEPT ![b] = [builds[b] EXCEPT !.cfg = db.cfg]]
    BY <1>3 DEF ReadConfig
  <2>2. builds[b] \in BuildStates /\ Reading(b)
    BY <1>3, <1>t, BuildIsRecord DEF ReadConfig, Reading
  <2>3. \A c \in Builds \ {b} : builds'[c] = builds[c]
    BY <2>1, <1>t DEF TypeOK
  <2>4. /\ builds'[b].gen = builds[b].gen /\ builds'[b].ver = builds[b].ver
        /\ builds'[b].cfg = db.cfg /\ builds'[b].hp = builds[b].hp
    BY <2>1, <2>2, <1>t DEF TypeOK, BuildStates
  <2>5. Monotone' /\ BuildsCurrent'
    BY <1>3, <2>2, <2>3, <2>4, <1>t, <1>m, BuildsGoOn DEF ReadConfig, Reading
  <2>6. SnapshotCurrent'
    BY <1>3, <1>m DEF ReadConfig, SnapshotCurrent, Fresh
  <2> QED
    BY <2>5, <2>6
<1>4. ASSUME NEW b \in Builds, ReadHealth(b) PROVE Monotone' /\ BuildsCurrent' /\ SnapshotCurrent'
  <2>1. builds' = [builds EXCEPT ![b] = [builds[b] EXCEPT !.hp = db.hp]]
    BY <1>4 DEF ReadHealth
  <2>2. builds[b] \in BuildStates /\ Reading(b)
    BY <1>4, <1>t, BuildIsRecord DEF ReadHealth, Reading
  <2>3. \A c \in Builds \ {b} : builds'[c] = builds[c]
    BY <2>1, <1>t DEF TypeOK
  <2>4. /\ builds'[b].gen = builds[b].gen /\ builds'[b].ver = builds[b].ver
        /\ builds'[b].cfg = builds[b].cfg /\ builds'[b].hp = db.hp
    BY <2>1, <2>2, <1>t DEF TypeOK, BuildStates
  <2>5. Monotone' /\ BuildsCurrent'
    BY <1>4, <2>2, <2>3, <2>4, <1>t, <1>m, BuildsGoOn DEF ReadHealth, Reading
  <2>6. SnapshotCurrent'
    BY <1>4, <1>m DEF ReadHealth, SnapshotCurrent, Fresh
  <2> QED
    BY <2>5, <2>6
<1>5. ASSUME NEW b \in Builds, ReadFails(b) \/ VersionThrows(b)
      PROVE  Monotone' /\ BuildsCurrent' /\ SnapshotCurrent'
  <2>1. builds' = [builds EXCEPT ![b] = Answered(Refused)]
    BY <1>5 DEF ReadFails, VersionThrows
  <2>2. \A c \in Builds : builds'[c] = IF c = b THEN Answered(Refused) ELSE builds[c]
    BY <2>1, <1>t DEF TypeOK
  <2>3. Monotone' /\ BuildsCurrent'
    BY <1>5, <2>2, <1>t, <1>m, BuildsGoOn, Answering DEF ReadFails, VersionThrows, Reading
  <2>4. SnapshotCurrent'
    BY <1>5, <1>m DEF ReadFails, VersionThrows, SnapshotCurrent, Fresh
  <2> QED
    BY <2>3, <2>4
<1>6. ASSUME NEW b \in Builds, Install(b) PROVE Monotone' /\ BuildsCurrent' /\ SnapshotCurrent'
  <2> DEFINE next == [cfg |-> builds[b].cfg, hp |-> builds[b].hp]
  <2>1. next \in Contents
    BY <1>6, <1>t, BuildIsRecord DEF Install, AllRead, Reading, BuildStates, Contents
  <2>2. \A c \in Builds : builds'[c] = IF c = b THEN Answered(next) ELSE builds[c]
    BY <1>6, <1>t DEF Install, TypeOK
  <2>3. Monotone' /\ BuildsCurrent'
    <3> HIDE DEF next
    <3> QED
      BY <1>6, <2>1, <2>2, <1>t, <1>m, BuildsGoOn, Answering DEF Install, Reading
  <2>4. SnapshotCurrent'
    BY <1>6, InstallsCurrent DEF Install, SnapshotCurrent
  <2> QED
    BY <2>3, <2>4
<1>7. ASSUME NEW b \in Builds, AgainHit(b) PROVE Monotone' /\ BuildsCurrent' /\ SnapshotCurrent'
  <2>1. \A c \in Builds : builds'[c] = IF c = b THEN Answered(snapshot) ELSE builds[c]
    BY <1>7, <1>t DEF AgainHit, TypeOK
  <2>2. snapshot \in Contents
    BY <1>7, <1>t DEF AgainHit, Fresh, TypeOK
  <2>3. Monotone' /\ BuildsCurrent'
    BY <1>7, <2>1, <2>2, <1>t, <1>m, BuildsGoOn, Answering DEF AgainHit, Reading
  <2>4. SnapshotCurrent'
    BY <1>7, <1>m DEF AgainHit, SnapshotCurrent, Fresh
  <2> QED
    BY <2>3, <2>4
<1>8. ASSUME NEW b \in Builds, AgainBuild(b) PROVE Monotone' /\ BuildsCurrent' /\ SnapshotCurrent'
  <2>1. PICK c \in Builds : builds' = [builds EXCEPT ![b] = Chained(c), ![c] = Started]
    BY <1>8 DEF AgainBuild
  <2>2. \A d \in Builds : builds'[d] = IF d = c THEN Started
                                       ELSE IF d = b THEN Chained(c) ELSE builds[d]
    BY <2>1, <1>t DEF TypeOK
  <2>3. Monotone' /\ BuildsCurrent'
    BY <1>8, <2>2, <1>t, <1>m, BuildsGoOn, Answering DEF AgainBuild, Reading
  <2>4. SnapshotCurrent'
    BY <1>8, <1>m DEF AgainBuild, SnapshotCurrent, Fresh
  <2> QED
    BY <2>3, <2>4
<1>9. ASSUME NEW b \in Builds, Finally(b) PROVE Monotone' /\ BuildsCurrent' /\ SnapshotCurrent'
  <2>1. builds[b].out \in Contents \cup {Refused}
    BY <1>9, <1>t, BuildIsRecord DEF Finally, BuildStates
  <2>2. \A c \in Builds : builds'[c] \in {None, Answered(builds[b].out), builds[c]}
    BY <1>9 DEF Finally
  <2>3. Monotone' /\ BuildsCurrent'
    BY <1>9, <2>1, <2>2, <1>t, <1>m, BuildsGoOn, Answering DEF Finally, Reading
  <2>4. SnapshotCurrent'
    BY <1>9, <1>m DEF Finally, SnapshotCurrent, Fresh
  <2> QED
    BY <2>3, <2>4
<1>10. ASSUME NEW v \in Values, SaveHealth(v) PROVE Monotone' /\ BuildsCurrent' /\ SnapshotCurrent'
  <2>1. /\ generation' = generation + 1 /\ builds' = builds
        /\ dataVersion' = dataVersion /\ version' = version
    BY <1>10 DEF SaveHealth
  <2>2. Monotone' /\ BuildsCurrent'
    <3>1. \A b \in Builds : Reading(b)' => builds'[b].gen # generation'
      BY <2>1, <1>t, <1>m, BuildIsRecord DEF Reading, Monotone, TypeOK, BuildStates
    <3>2. \A b \in Builds : Reading(b)' => builds'[b].gen <= generation'
      BY <2>1, <1>t, <1>m, BuildIsRecord DEF Reading, Monotone, TypeOK, BuildStates
    <3> QED
      BY <1>10, <2>1, <3>1, <3>2, <1>m DEF SaveHealth, Monotone, BuildsCurrent, Unmoved
  <2>3. SnapshotCurrent'
    BY <1>10, <1>t, <1>m DEF SaveHealth, SnapshotCurrent, Fresh, TypeOK, Contents
  <2> QED
    BY <2>2, <2>3
<1>11. ASSUME NEW v \in Values, SaveConfig(v) PROVE Monotone' /\ BuildsCurrent' /\ SnapshotCurrent'
  <2>1. /\ generation' = generation + 1 /\ builds' = builds
        /\ dataVersion' = dataVersion /\ version' = version
    BY <1>11 DEF SaveConfig
  <2>2. Monotone' /\ BuildsCurrent'
    <3>1. \A b \in Builds : Reading(b)' => builds'[b].gen # generation'
      BY <2>1, <1>t, <1>m, BuildIsRecord DEF Reading, Monotone, TypeOK, BuildStates
    <3>2. \A b \in Builds : Reading(b)' => builds'[b].gen <= generation'
      BY <2>1, <1>t, <1>m, BuildIsRecord DEF Reading, Monotone, TypeOK, BuildStates
    <3> QED
      BY <1>11, <2>1, <3>1, <3>2, <1>m DEF SaveConfig, Monotone, BuildsCurrent, Unmoved
  <2>3. SnapshotCurrent'
    BY <1>11, <1>t, <1>m DEF SaveConfig, SnapshotCurrent, Fresh, TypeOK
  <2> QED
    BY <2>2, <2>3
<1>12. ASSUME NEW v \in Values, ExternalCommit(v) PROVE Monotone' /\ BuildsCurrent' /\ SnapshotCurrent'
  <2>1. /\ dataVersion' = dataVersion + 1 /\ UNCHANGED <<generation, settled, cacheVars, buildVars>>
    BY <1>12 DEF ExternalCommit
  <2>2. \A b \in Builds : Reading(b)' => Reading(b) /\ builds[b].ver \in Nat
    BY <2>1, <1>t, BuildIsRecord DEF Reading, BuildStates
  <2>3. Monotone'
    BY <2>1, <2>2, <1>t, <1>m DEF Monotone, TypeOK
  <2>4. BuildsCurrent'
    BY <2>1, <2>2, <1>t, <1>m DEF Monotone, BuildsCurrent, Unmoved, TypeOK
  <2>5. SnapshotCurrent'
    BY <2>1, <1>t, <1>m DEF Monotone, SnapshotCurrent, Fresh, TypeOK
  <2> QED
    BY <2>3, <2>4, <2>5
<1>13. CASE Swapped
  <2>1. ~settled' /\ UNCHANGED <<cacheVars, buildVars>>
    BY <1>13 DEF Swapped, ReplaceFile
  <2> QED
    BY <2>1, <1>m DEF Monotone, BuildsCurrent, SnapshotCurrent, Reading
<1>14. CASE Invalidate
  <2>1. /\ generation' = generation + 1 /\ builds' = builds
        /\ dataVersion' = dataVersion /\ version' = dataVersion /\ snapshot' = None
    BY <1>14 DEF Invalidate, Invalidated
  <2>2. \A b \in Builds : Reading(b)' =>
            builds'[b].gen # generation' /\ builds'[b].gen <= generation'
    BY <2>1, <1>t, <1>m, BuildIsRecord DEF Reading, Monotone, TypeOK, BuildStates
  <2> QED
    BY <2>1, <2>2, <1>t DEF Monotone, BuildsCurrent, SnapshotCurrent, Unmoved, Fresh, TypeOK
<1>15. CASE UNCHANGED vars
  BY <1>1, <1>15 DEF vars
<1> QED
  BY <1>2, <1>3, <1>4, <1>5, <1>6, <1>7, <1>8, <1>9, <1>10, <1>11, <1>12, <1>13, <1>14, <1>15
     DEF CacheNext, Advance, Writes

(* The variables keep their types. *)
THEOREM SnapshotCacheTyped == Spec => []TypeOK
<1>1. Init => TypeOK
  BY InitTyped
<1>2. TypeOK /\ [Next]_vars => TypeOK'
  BY NextTyped, NextIsCacheNext
<1> QED
  BY <1>1, <1>2, PTL DEF Spec

(* What get returns without looking further is the database, under every    *)
(* interleaving of builds, announcements, commits of other processes and    *)
(* replacements that were invalidated: for any number of callers, builds    *)
(* and changes.                                                             *)
THEOREM FreshIsCurrentHolds == Spec => []FreshIsCurrent
<1>1. Init => CacheInv
  BY InitCurrent
<1>2. CacheInv /\ [Next]_vars => CacheInv'
  BY NextCurrent, NextIsCacheNext
<1>3. CacheInv => FreshIsCurrent
  BY DEF CacheInv, SnapshotCurrent, FreshIsCurrent
<1> QED
  BY <1>1, <1>2, <1>3, PTL DEF Spec

-----------------------------------------------------------------------------
(* The cache implements the register *)

(* Every step of the register keeps CallsInv. *)
LEMMA NextCalls ==
    ASSUME TypeOK, TypeOK', CallsInv, [Register!Next]_(Register!regVars)
    PROVE  CallsInv'
<1> USE DEF CallsInv
<1>a. Asking \subseteq Readers /\ valid \in [Readers -> SUBSET Contents]
  BY DEF Asking, TypeOK
<1>1. ASSUME NEW r \in Readers, Register!Ask(r) PROVE CallsInv'
  BY <1>1, <1>a DEF Register!Ask
<1>2. ASSUME NEW r \in Readers, Register!Read(r) PROVE CallsInv'
  BY <1>2, <1>a DEF Register!Read
<1>3. ASSUME NEW R \in SUBSET Readers, Register!Answer(R) PROVE CallsInv'
  BY <1>3, <1>a DEF Register!Answer
<1>4. ASSUME NEW v \in Contents, Register!Change(v) PROVE CallsInv'
  BY <1>4, <1>a DEF Register!Change
<1>5. ASSUME NEW v \in Contents, Register!Unsettle(v) PROVE CallsInv'
  BY <1>5, <1>a DEF Register!Unsettle
<1>6. CASE Register!Share
  BY <1>6, <1>a DEF Register!Share
<1>7. CASE Register!Settle
  BY <1>7, <1>a DEF Register!Settle
<1>8. CASE UNCHANGED Register!regVars
  BY <1>8, <1>a DEF Register!regVars
<1> QED
  BY <1>1, <1>2, <1>3, <1>4, <1>5, <1>6, <1>7, <1>8 DEF Register!Next

(* An answer a build holds is being handed out, unless it is a refusal. *)
LEMMA OutIsShared ==
    ASSUME NEW b \in Builds, builds[b] # None, builds[b].out \notin {None, Refused}
    PROVE  builds[b].out \in Shared
BY DEF Shared

(* A step of a build that leaves store and calls alone, and in which it     *)
(* decides at most what is live, or anything while the file is replaced.    *)
LEMMA Shares ==
    ASSUME TypeOK, TypeOK', UNCHANGED <<db, settled, callVars>>, returned' = Nothing,
           \A b \in Builds : builds'[b] # None /\ builds'[b].out \notin {None, Refused} =>
              builds'[b].out \in Shared \/ (settled => builds'[b].out = db)
    PROVE  Register!Share
<1>1. \A b \in Builds : builds'[b] # None => builds'[b].out \in Contents \cup {None, Refused}
  BY DEF TypeOK, BuildStates
<1>2. Shared' \subseteq IF settled THEN Shared \cup {db} ELSE Contents
  BY <1>1 DEF Shared
<1>3. Asking' = Asking
  BY DEF Asking, callVars
<1> QED
  BY <1>2, <1>3 DEF Register!Share, Register!Quiet, Nothing, callVars

(* A call that begins to wait. *)
LEMMA Asks ==
    ASSUME TypeOK, NEW r \in Readers, NEW b \in Builds, waiting[r] = None, Await(r, b),
           UNCHANGED <<db, settled>>, Shared' = Shared
    PROVE  Register!Ask(r)
<1>1. r \notin Asking /\ Asking' = Asking \cup {r}
  BY CacheAssumption DEF Asking, Await, TypeOK
<1> QED
  BY <1>1 DEF Await, Register!Ask, Register!Quiet, Nothing

(* A call that returns at once, with what the register may answer. *)
LEMMA Reads ==
    ASSUME TypeOK, CallsInv, NEW r \in Readers, waiting[r] = None,
           UNCHANGED <<db, settled, builds, callVars>>,
           NEW STATE v, v \in Contents \cup {Refused}, settled => v \in {db, Refused},
           returned' = [Nothing EXCEPT ![r] = v]
    PROVE  Register!Read(r)
<1>1. r \notin Asking /\ Asking' = Asking /\ Shared' = Shared
  BY DEF Asking, Shared, callVars
<1>2. valid[r] = {} /\ r \notin loose
  BY <1>1 DEF CallsInv
<1>3. valid' = [valid EXCEPT ![r] = {}] /\ loose' = loose \ {r}
  BY <1>2 DEF TypeOK, callVars
<1> QED
  BY <1>1, <1>3 DEF Register!Read, Register!Quiet, Nothing

(* A build begun in a free place: what is being handed out stays. *)
LEMMA BeginsSilently ==
    ASSUME TypeOK, NEW b \in Builds, builds[b] = None,
           builds' = [builds EXCEPT ![b] = Started]
    PROVE  Shared' = Shared
<1>1. \A c \in Builds : builds'[c] = IF c = b THEN Started ELSE builds[c]
  BY DEF TypeOK
<1>2. Started # None => Started.out = None
  BY DEF Started
<1> QED
  BY <1>1, <1>2 DEF Shared

(* A commit is a change of what is live. *)
LEMMA Changes ==
    ASSUME valid' = Seen(db'), returned' = Nothing, UNCHANGED <<settled, builds, waiting, loose>>
    PROVE  Register!Change(db')
<1>1. Asking' = Asking /\ Shared' = Shared
  BY DEF Asking, Shared
<1> QED
  BY <1>1 DEF Register!Change, Register!Quiet, Nothing, Seen

(* The answer of a build reaches its callers, and the builds chained to it. *)
LEMMA Answers ==
    ASSUME TypeOK, TypeOK', CallsInv, NEW b \in Builds, Finally(b)
    PROVE  \E R \in SUBSET Readers : Register!Answer(R)
<1> DEFINE R == {r \in Readers : waiting[r] = b}
<1>1. builds[b].out \in Contents \cup {Refused}
  BY BuildIsRecord DEF Finally, BuildStates
<1>2. builds[b].out \in Shared \cup {Refused}
  BY <1>1, OutIsShared DEF Finally
<1>3. R \subseteq Asking /\ Asking' = Asking \ R
  BY CacheAssumption DEF Asking, Finally
<1>4. \A r \in R : builds[b].out \in valid[r] \cup {Refused} \/ r \in loose
  BY <1>2, <1>3 DEF CallsInv
<1>5. Shared' \subseteq Shared
  <2>1. \A c \in Builds : builds'[c] # None => \/ builds'[c] = builds[c]
                                              \/ builds'[c].out = builds[b].out
    BY DEF Finally, Answered
  <2> QED
    BY <2>1, <1>2 DEF Shared
<1>6. /\ returned' \in [Readers -> Contents \cup {None, Refused}]
      /\ \A r \in Readers : returned'[r] = IF r \in R THEN builds[b].out ELSE None
  BY DEF TypeOK, Finally
<1>7. /\ valid' = [r \in Readers |-> IF r \in R THEN {} ELSE valid[r]]
      /\ loose' = loose \ R
      /\ UNCHANGED <<db, settled>>
  BY DEF Finally, TypeOK, storeVars
<1>8. R \in SUBSET Readers
  OBVIOUS
<1> HIDE DEF R
<1>9. Register!Answer(R)
  BY <1>3, <1>4, <1>5, <1>6, <1>7 DEF Register!Answer
<1> QED
  BY <1>8, <1>9

(* Every step of the cache is a step of the register, or leaves it alone. *)
LEMMA NextRegister ==
    ASSUME CacheInv, CallsInv, [CacheNext]_vars
    PROVE  [Register!Next]_(Register!regVars)
<1>t. TypeOK /\ TypeOK'
  BY NextTyped DEF CacheInv
<1>s. \A b \in Builds : builds[b] # None /\ builds[b].out \notin {None, Refused} =>
          builds[b].out \in Shared
  BY OutIsShared
<1> USE DEF storeVars, cacheVars, buildVars
<1>1. ASSUME NEW r \in Readers, GetClosed(r) PROVE Register!Read(r)
  BY <1>1, <1>t, Reads DEF GetClosed, callVars
<1>2. ASSUME NEW r \in Readers, Hit(r) PROVE Register!Read(r)
  <2>1. snapshot \in Contents \cup {Refused} /\ (settled => snapshot \in {db, Refused})
    BY <1>2, <1>t DEF Hit, Fresh, CacheInv, SnapshotCurrent, TypeOK
  <2>2. UNCHANGED <<db, settled, builds, callVars>> /\ waiting[r] = None
    BY <1>2 DEF Hit, callVars
  <2>3. returned' = [Nothing EXCEPT ![r] = snapshot]
    BY <1>2 DEF Hit
  <2> QED
    BY <2>1, <2>2, <2>3, <1>t, Reads
<1>3. ASSUME NEW r \in Readers, Join(r) PROVE Register!Ask(r)
  <2>1. inFlight \in Builds
    BY <1>3, <1>t DEF Join, TypeOK
  <2>2. Shared' = Shared
    BY <1>3 DEF Join, Shared
  <2> QED
    BY <1>3, <1>t, <2>1, <2>2, Asks DEF Join
<1>4. ASSUME NEW r \in Readers, Build(r) PROVE Register!Ask(r)
  <2>1. PICK b \in Builds : /\ builds[b] = None
                            /\ builds' = [builds EXCEPT ![b] = Started]
                            /\ Await(r, b)
    BY <1>4 DEF Build
  <2>2. Shared' = Shared
    BY <2>1, <1>t, BeginsSilently
  <2> QED
    BY <1>4, <1>t, <2>1, <2>2, Asks DEF Build
<1>5. ASSUME NEW b \in Builds, ReadConfig(b) \/ ReadHealth(b) PROVE Register!Share
  <2>1. PICK v : \/ builds' = [builds EXCEPT ![b] = [builds[b] EXCEPT !.cfg = v]]
                 \/ builds' = [builds EXCEPT ![b] = [builds[b] EXCEPT !.hp = v]]
    BY <1>5 DEF ReadConfig, ReadHealth
  <2>2. builds[b] \in BuildStates /\ builds[b].out = None
    BY <1>5, <1>t, BuildIsRecord DEF ReadConfig, ReadHealth, Reading
  <2>3. \A c \in Builds \ {b} : builds'[c] = builds[c]
    BY <2>1, <1>t DEF TypeOK
  <2>4. builds'[b].out = None
    BY <2>1, <2>2, <1>t DEF TypeOK, BuildStates
  <2> QED
    BY <1>5, <1>t, <1>s, <2>3, <2>4, Shares DEF ReadConfig, ReadHealth
<1>6. ASSUME NEW b \in Builds, ReadFails(b) \/ VersionThrows(b) PROVE Register!Share
  <2>1. builds' = [builds EXCEPT ![b] = Answered(Refused)]
    BY <1>6 DEF ReadFails, VersionThrows
  <2>2. \A c \in Builds : builds'[c] = IF c = b THEN Answered(Refused) ELSE builds[c]
    BY <2>1, <1>t DEF TypeOK
  <2> QED
    BY <1>6, <1>t, <1>s, <2>2, Shares DEF ReadFails, VersionThrows, Answered
<1>7. ASSUME NEW b \in Builds, Install(b) PROVE Register!Share
  <2> DEFINE next == [cfg |-> builds[b].cfg, hp |-> builds[b].hp]
  <2>1. settled => next = db
    BY <1>7, InstallsCurrent
  <2>2. \A c \in Builds : builds'[c] = IF c = b THEN Answered(next) ELSE builds[c]
    BY <1>7, <1>t DEF Install, TypeOK
  <2> HIDE DEF next
  <2>3. Answered(next).out = next
    BY DEF Answered
  <2> QED
    BY <1>7, <1>t, <1>s, <2>1, <2>2, <2>3, Shares DEF Install
<1>8. ASSUME NEW b \in Builds, AgainHit(b) PROVE Register!Share
  <2>1. \A c \in Builds : builds'[c] = IF c = b THEN Answered(snapshot) ELSE builds[c]
    BY <1>8, <1>t DEF AgainHit, TypeOK
  <2>2. settled => snapshot = db
    BY <1>8 DEF AgainHit, CacheInv, SnapshotCurrent
  <2>3. Answered(snapshot).out = snapshot
    BY DEF Answered
  <2> QED
    BY <1>8, <1>t, <1>s, <2>1, <2>2, <2>3, Shares DEF AgainHit
<1>9. ASSUME NEW b \in Builds, AgainBuild(b) PROVE Register!Share
  <2>1. PICK c \in Builds : builds' = [builds EXCEPT ![b] = Chained(c), ![c] = Started]
    BY <1>9 DEF AgainBuild
  <2>2. \A d \in Builds : builds'[d] = IF d = c THEN Started
                                       ELSE IF d = b THEN Chained(c) ELSE builds[d]
    BY <2>1, <1>t DEF TypeOK
  <2>3. Started.out = None /\ Chained(c).out = None
    BY DEF Started, Chained
  <2> QED
    BY <1>9, <1>t, <1>s, <2>2, <2>3, Shares DEF AgainBuild
<1>10. ASSUME NEW v \in Values, SaveHealth(v) \/ SaveConfig(v) \/ ExternalCommit(v)
       PROVE  Register!Change(db') /\ db' \in Contents
  BY <1>10, <1>t, Changes DEF SaveHealth, SaveConfig, ExternalCommit, TypeOK
<1>11. ASSUME Swapped PROVE Register!Unsettle(db') /\ db' \in Contents
  <2>1. PICK c \in Contents, opened \in BOOLEAN, v \in FreshVersions :
            ReplaceFile(c, opened, v)
    BY <1>11 DEF Swapped
  <2>2. Asking' = Asking /\ Shared' = Shared
    BY <2>1 DEF ReplaceFile, Asking, Shared
  <2> QED
    BY <2>1, <2>2 DEF ReplaceFile, Register!Unsettle, Register!Quiet, Nothing
<1>12. ASSUME Invalidate PROVE Register!Settle
  <2>1. Asking' = Asking /\ Shared' = Shared
    BY <1>12 DEF Invalidate, Invalidated, Asking, Shared, callVars
  <2> QED
    BY <1>12, <2>1 DEF Invalidate, Invalidated, Register!Settle,
                       Register!Quiet, Nothing, callVars
<1>13. ASSUME UNCHANGED vars PROVE UNCHANGED Register!regVars
  BY <1>13 DEF vars, callVars, Register!regVars, Asking, Shared
<1>14. ASSUME NEW b \in Builds, Finally(b) PROVE \E R \in SUBSET Readers : Register!Answer(R)
  BY <1>14, <1>t, Answers
<1>15. ASSUME NEW r \in Readers, Get(r) PROVE Register!Next
  BY <1>15, <1>1, <1>2, <1>3, <1>4 DEF Get, Register!Next
<1>16. ASSUME NEW b \in Builds, Advance(b) PROVE Register!Next
  BY <1>16, <1>5, <1>6, <1>7, <1>8, <1>9, <1>14 DEF Advance, Register!Next
<1>17. ASSUME Writes \/ Swapped \/ Invalidate PROVE Register!Next
  BY <1>17, <1>10, <1>11, <1>12 DEF Writes, Register!Next
<1> QED
  BY <1>13, <1>15, <1>16, <1>17 DEF CacheNext

(* The cache starts as the register does. *)
LEMMA InitRegister == Init => Register!Init /\ CallsInv
<1> SUFFICES ASSUME Init PROVE Register!Init /\ CallsInv
  OBVIOUS
<1>1. Asking = {} /\ Shared = {}
  BY DEF Init, Asking, Shared
<1> QED
  BY <1>1 DEF Init, Register!Init, Register!Quiet, Nothing, CallsInv

(* The cache goes on implementing the register. *)
LEMMA NextLive ==
    ASSUME CacheInv, CallsInv, [CacheNext]_vars
    PROVE  CacheInv' /\ CallsInv' /\ [Register!Next]_(Register!regVars)
<1>1. CacheInv'
  BY NextCurrent
<1>2. [Register!Next]_(Register!regVars)
  BY NextRegister
<1>3. CallsInv'
  BY <1>1, <1>2, NextCalls DEF CacheInv
<1> QED
  BY <1>1, <1>2, <1>3

(* The cache implements the register: whatever is built, patched, committed *)
(* or replaced meanwhile, get returns what was live during the call, or     *)
(* what another call was being handed when it was made.                     *)
THEOREM ReadsAreLiveHolds == Spec => ReadsAreLive
<1> DEFINE Inv == CacheInv /\ CallsInv
<1>1. Init => Inv /\ Register!Init
  BY InitCurrent, InitRegister
<1>2. Inv /\ [Next]_vars => Inv' /\ [Register!Next]_(Register!regVars)
  BY NextLive, NextIsCacheNext
<1> HIDE DEF Inv
<1> QED
  BY <1>1, <1>2, PTL DEF Spec, ReadsAreLive, Register!Spec
=============================================================================
