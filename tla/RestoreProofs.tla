----------------------------- MODULE RestoreProofs -----------------------------
(***************************************************************************)
(* Proofs about Restore, for any number of requests, restore calls and     *)
(* changes: the latch, and the routing snapshot cache under the swaps the  *)
(* restore route makes of its file.                                        *)
(*                                                                         *)
(* Who shut the latch is kept by no single variable.  ForCause says of a   *)
(* shut latch and of an unannounced replacement that somebody is on the    *)
(* way to undo it.  What the latch promises the operation rests on calls   *)
(* that do not contend: then there is one at a time (Undisturbed).         *)
(***************************************************************************)
EXTENDS Restore, SnapshotCacheProofs

(* The lock, the count of calls, the close that a release wakes, and the    *)
(* requests that overlap a replacement.                                     *)
Bookkeeping ==
    /\ \A s \in Operating : exclusive = s
    /\ \A s \in UnderWay : calls[s] > 0
    /\ onIdle # None => pc[onIdle] \in {"waiting", "resumed"}
    /\ loose \subseteq Asking

(* A shut latch has a call under way that will open it, unless a            *)
(* replacement failed half way; and a replacement that was not announced    *)
(* has one that will announce it, unless it failed or its read back did.    *)
ForCause ==
    /\ ~admitting => broken \/ \E s \in UnderWay : closedHere[s]
    /\ ~settled => broken \/ unannounced \/ \E s \in Swaps : pc[s] = "replaced"

(* No close that was called gave up on a request. *)
AllDrained == \A s \in Swaps : calls[s] > 0 => drained[s]

(* Without contention: one call at a time, under a shut latch that it shut  *)
(* itself unless a replacement had failed before; and when it has drained   *)
(* the gateway, no request is being served.                                 *)
Undisturbed ==
    /\ \A s, t \in UnderWay : s = t
    /\ UnderWay # {} \/ broken => ~admitting
    /\ broken => \A s \in UnderWay : ~closedHere[s]
    /\ \A s \in Operating : drained[s] => admitted = {}
    /\ AllDrained /\ ~settled /\ ~unannounced => admitted = {}

RestoreInv ==
    /\ RestoreTypeOK /\ Bookkeeping /\ ForCause
    /\ ~contended => Undisturbed
    /\ LooseOnlyIfUndrained

-----------------------------------------------------------------------------
(* The cache under a restore *)

(* To the cache, every step of the gateway is a step of its own or none. *)
LEMMA RestoreIsCacheNext == [RestoreNext]_allVars => [CacheNext]_vars
<1> SUFFICES ASSUME [RestoreNext]_allVars PROVE [CacheNext]_vars
  OBVIOUS
<1>1. ASSUME NEW r \in Readers, Enter(r) \/ Serve(r) \/ Release(r) PROVE [CacheNext]_vars
  BY <1>1 DEF Enter, Serve, Release, CacheNext
<1>2. ASSUME NEW s \in Swaps, Close(s) \/ Step(s) \/ Settle(s) PROVE [CacheNext]_vars
  <2>1. CASE SwapIn(s) \/ SwapFails(s)
    BY <2>1 DEF SwapIn, SwapFails, Swapped, CacheNext
  <2>2. CASE Reopen(s)
    BY <2>2 DEF Reopen, CacheNext
  <2>3. CASE \/ Close(s) \/ Deadline(s) \/ Operate(s) \/ Prepare(s)
             \/ ReadBackFails(s) \/ Settle(s)
    BY <2>3 DEF Close, Shut, Deadline, Operate, Prepare, ReadBackFails, Settle
  <2> QED
    BY <1>2, <2>1, <2>2, <2>3 DEF Step
<1>3. ASSUME OtherBegins \/ OtherEnds \/ UNCHANGED allVars PROVE [CacheNext]_vars
  BY <1>3 DEF OtherBegins, OtherEnds, allVars
<1>4. ASSUME (\E b \in Builds : Advance(b)) \/ Writes PROVE [CacheNext]_vars
  BY <1>4 DEF CacheNext
<1> QED
  BY <1>1, <1>2, <1>3, <1>4 DEF RestoreNext

(* What is held and fresh is the database, also while restores and imports  *)
(* replace its file under requests that are being served.                   *)
THEOREM RestoreFreshIsCurrent == RestoreSpec => []FreshIsCurrent
<1>1. RestoreInit => CacheInv
  BY InitCurrent DEF RestoreInit
<1>2. CacheInv /\ [RestoreNext]_allVars => CacheInv'
  BY NextCurrent, RestoreIsCacheNext
<1>3. CacheInv => FreshIsCurrent
  BY DEF CacheInv, SnapshotCurrent, FreshIsCurrent
<1> QED
  BY <1>1, <1>2, <1>3, PTL DEF RestoreSpec

(* And get reads the database: the gateway with its restores implements the *)
(* register, and only requests that overlap a replacement are excused.      *)
THEOREM RestoreReadsAreLive == RestoreSpec => ReadsAreLive
<1> DEFINE Inv == CacheInv /\ CallsInv
<1>1. RestoreInit => Inv /\ Register!Init
  BY InitCurrent, InitRegister DEF RestoreInit
<1>2. Inv /\ [RestoreNext]_allVars => Inv' /\ [Register!Next]_(Register!regVars)
  BY NextLive, RestoreIsCacheNext
<1> HIDE DEF Inv
<1> QED
  BY <1>1, <1>2, PTL DEF RestoreSpec, ReadsAreLive, Register!Spec

-----------------------------------------------------------------------------
(* The latch *)

(* What a request that reads the snapshot changes of what the latch knows. *)
LEMMA ServeEffect ==
    ASSUME TypeOK, loose \subseteq Asking, NEW r \in Readers, Get(r)
    PROVE  /\ settled' = settled
           /\ Asking' \subseteq Asking \cup {r}
           /\ loose' \subseteq loose \cup {r} /\ loose' \subseteq Asking'
           /\ settled => loose' \subseteq loose
<1> USE DEF storeVars, cacheVars, buildVars
<1>1. CASE GetClosed(r) \/ Hit(r)
  BY <1>1 DEF GetClosed, Hit, Asking
<1>2. ASSUME NEW b \in Builds, Await(r, b), UNCHANGED settled
      PROVE  /\ Asking' = Asking \cup {r} /\ loose' \subseteq loose \cup {r}
             /\ settled => loose' \subseteq loose
  <2>1. \A x \in Readers : waiting'[x] = IF x = r THEN b ELSE waiting[x]
    BY <1>2 DEF Await, TypeOK
  <2> QED
    BY <1>2, <2>1, CacheAssumption DEF Await, Asking
<1>3. CASE Join(r)
  <2>1. inFlight \in Builds /\ Await(r, inFlight) /\ UNCHANGED settled
    BY <1>3 DEF Join, TypeOK
  <2> QED
    BY <1>2, <2>1
<1>4. CASE Build(r)
  <2>1. \E b \in Builds : Await(r, b)
    BY <1>4 DEF Build
  <2>2. UNCHANGED settled
    BY <1>4 DEF Build
  <2> QED
    BY <1>2, <2>1, <2>2
<1> QED
  BY <1>1, <1>3, <1>4 DEF Get

(* Builds and writes only let calls end. *)
LEMMA BackgroundEffect ==
    ASSUME TypeOK, loose \subseteq Asking, (\E b \in Builds : Advance(b)) \/ Writes
    PROVE  /\ settled' = settled
           /\ Asking' \subseteq Asking
           /\ loose' \subseteq loose /\ loose' \subseteq Asking'
<1> USE DEF storeVars, cacheVars, buildVars, callVars
<1>1. ASSUME NEW b \in Builds, Finally(b)
      PROVE  /\ settled' = settled /\ Asking' \subseteq Asking
             /\ loose' \subseteq loose /\ loose' \subseteq Asking'
  BY <1>1 DEF Finally, Asking
<1>2. ASSUME UNCHANGED <<settled, waiting, loose>>
      PROVE  /\ settled' = settled /\ Asking' \subseteq Asking
             /\ loose' \subseteq loose /\ loose' \subseteq Asking'
  BY <1>2 DEF Asking
<1> QED
  BY <1>1, <1>2 DEF Advance, Writes, ReadConfig, ReadHealth, ReadFails, Install, AgainHit,
     AgainBuild, VersionThrows, SaveHealth, SaveConfig, ExternalCommit

(* A swap of the file catches every call under way. *)
LEMMA SwapEffect ==
    ASSUME Swapped
    PROVE  ~settled' /\ Asking' = Asking /\ loose' = Asking
BY DEF Swapped, ReplaceFile, Asking

(* Asking for the lock. *)
LEMMA BeginEffect ==
    ASSUME RestoreTypeOK, NEW s \in Swaps, NEW mine \in BOOLEAN, NEW shut \in BOOLEAN,
           Begin(s, mine, shut)
    PROVE  /\ pc' \in [Swaps -> Places] /\ admitting' \in BOOLEAN
           /\ exclusive' \in Swaps \cup {None, Other}
           /\ \A t \in Swaps \ {s} : pc'[t] = pc[t]
           /\ \/ /\ exclusive = None /\ exclusive' = s /\ pc'[s] = "preparing"
                 /\ admitting' <=> ~shut
              \/ /\ exclusive # None /\ exclusive' = exclusive /\ pc'[s] = "idle"
                 /\ admitting' <=> (mine \/ ~shut)
BY DEF RestoreTypeOK, Begin, GaveUp, Places

(* A close that is called. *)
LEMMA ShutEffect ==
    ASSUME RestoreTypeOK, NEW s \in Swaps, Close(s)
    PROVE  /\ pc[s] = "idle" /\ \A t \in Swaps : pc[t] # "resumed"
           /\ calls' \in [Swaps -> 0..MaxCalls] /\ calls'[s] > 0
           /\ closedHere' \in [Swaps -> BOOLEAN] /\ closedHere'[s] = admitting
           /\ pc' \in [Swaps -> Places] /\ admitting' \in BOOLEAN
           /\ drained' \in [Swaps -> BOOLEAN]
           /\ exclusive' \in Swaps \cup {None, Other}
           /\ onIdle' \in Swaps \cup {None}
           /\ \A t \in Swaps \ {s} : /\ pc'[t] = pc[t] /\ calls'[t] = calls[t]
                                      /\ closedHere'[t] = closedHere[t]
                                      /\ drained'[t] = drained[t]
           /\ \/ /\ admitted = {} /\ drained'[s]
                 /\ exclusive = None /\ exclusive' = s /\ pc'[s] = "preparing" /\ ~admitting'
              \/ /\ admitted = {} /\ drained'[s]
                 /\ exclusive # None /\ exclusive' = exclusive /\ pc'[s] = "idle"
                 /\ admitting' <=> admitting
              \/ /\ admitted # {} /\ drained'[s] = drained[s]
                 /\ exclusive' = exclusive /\ pc'[s] = "waiting" /\ ~admitting'
<1>1. /\ pc[s] = "idle" /\ \A t \in Swaps : pc[t] # "resumed"
      /\ calls[s] < MaxCalls
      /\ calls' = [calls EXCEPT ![s] = @ + 1]
      /\ closedHere' = [closedHere EXCEPT ![s] = admitting]
  BY DEF Close, Shut, NextEvent
<1>2. calls' \in [Swaps -> 0..MaxCalls] /\ calls'[s] > 0
  BY <1>1, RestoreAssumption DEF RestoreTypeOK
<1>3. /\ closedHere' \in [Swaps -> BOOLEAN] /\ closedHere'[s] = admitting
      /\ \A t \in Swaps \ {s} : closedHere'[t] = closedHere[t] /\ calls'[t] = calls[t]
  BY <1>1 DEF RestoreTypeOK
<1>4. CASE admitted = {}
  <2>1. Begin(s, admitting, TRUE) /\ UNCHANGED onIdle
        /\ drained' = [drained EXCEPT ![s] = TRUE]
    BY <1>4 DEF Close, Shut
  <2>2. /\ drained' \in [Swaps -> BOOLEAN] /\ drained'[s]
        /\ \A t \in Swaps \ {s} : drained'[t] = drained[t]
    BY <2>1 DEF RestoreTypeOK
  <2>3. admitting \in BOOLEAN /\ onIdle \in Swaps \cup {None}
    BY DEF RestoreTypeOK
  <2>4. /\ pc' \in [Swaps -> Places] /\ admitting' \in BOOLEAN
        /\ exclusive' \in Swaps \cup {None, Other}
        /\ \A t \in Swaps \ {s} : pc'[t] = pc[t]
        /\ \/ /\ exclusive = None /\ exclusive' = s /\ pc'[s] = "preparing"
              /\ ~admitting'
           \/ /\ exclusive # None /\ exclusive' = exclusive /\ pc'[s] = "idle"
              /\ admitting' <=> admitting
    BY <2>1, <2>3, BeginEffect
  <2>5. onIdle' \in Swaps \cup {None}
    BY <2>1, <2>3
  <2> QED
    BY <1>1, <1>2, <1>3, <1>4, <2>2, <2>4, <2>5
<1>5. CASE admitted # {}
  <2>1. /\ pc' = [pc EXCEPT ![s] = "waiting"] /\ admitting' = FALSE /\ onIdle' = s
        /\ UNCHANGED <<drained, exclusive>>
    BY <1>5 DEF Close, Shut
  <2> QED
    BY <1>1, <1>2, <1>3, <1>5, <2>1 DEF RestoreTypeOK, Places
<1> QED
  BY <1>4, <1>5

(* A close that resumes. *)
LEMMA OperateEffect ==
    ASSUME RestoreTypeOK, NEW s \in Swaps, Operate(s)
    PROVE  /\ pc[s] = "resumed"
           /\ pc' \in [Swaps -> Places] /\ admitting' \in BOOLEAN
           /\ drained' \in [Swaps -> BOOLEAN]
           /\ exclusive' \in Swaps \cup {None, Other}
           /\ \A t \in Swaps \ {s} : pc'[t] = pc[t] /\ drained'[t] = drained[t]
           /\ drained'[s] <=> admitted = {}
           /\ \/ /\ exclusive = None /\ exclusive' = s /\ pc'[s] = "preparing"
                 /\ admitting' <=> admitting
              \/ /\ exclusive # None /\ exclusive' = exclusive /\ pc'[s] = "idle"
                 /\ admitting' <=> (closedHere[s] \/ admitting)
<1>1. /\ pc[s] = "resumed" /\ Begin(s, closedHere[s], ~admitting)
      /\ drained' = [drained EXCEPT ![s] = admitted = {}]
  BY DEF Operate
<1>2. closedHere[s] \in BOOLEAN /\ (~admitting) \in BOOLEAN
  BY DEF RestoreTypeOK
<1>3. /\ drained' \in [Swaps -> BOOLEAN] /\ (drained'[s] <=> admitted = {})
      /\ \A t \in Swaps \ {s} : drained'[t] = drained[t]
  BY <1>1 DEF RestoreTypeOK
<1> QED
  BY <1>1, <1>2, <1>3, BeginEffect, ZenonT(60)

(* Judging and staging the candidate. *)
LEMMA PrepareEffect ==
    ASSUME RestoreTypeOK, NEW s \in Swaps, Prepare(s)
    PROVE  /\ pc[s] = "preparing"
           /\ pc' \in [Swaps -> Places] /\ admitting' \in BOOLEAN
           /\ exclusive' \in Swaps \cup {None, Other}
           /\ \A t \in Swaps \ {s} : pc'[t] = pc[t]
           /\ \/ /\ exclusive' = exclusive /\ pc'[s] = "staged" /\ admitting' = admitting
              \/ /\ exclusive' = None /\ pc'[s] = "idle"
                 /\ admitting' <=> (closedHere[s] \/ admitting)
BY DEF RestoreTypeOK, Prepare, GaveUp, Places

(* The step of a swap call that only moves it, and of a lock that only      *)
(* changes hands.                                                           *)
LEMMA MoveEffect ==
    ASSUME RestoreTypeOK, NEW s \in Swaps, NEW p \in Places, pc' = [pc EXCEPT ![s] = p]
    PROVE  /\ pc' \in [Swaps -> Places] /\ pc'[s] = p
           /\ \A t \in Swaps \ {s} : pc'[t] = pc[t]
BY DEF RestoreTypeOK

-----------------------------------------------------------------------------
(* One lemma per action: the parts of the invariant after it. *)

Kept ==
    /\ Bookkeeping' /\ ForCause'
    /\ ~contended' => Undisturbed'
    /\ LooseOnlyIfUndrained'

LEMMA EnterKeeps ==
    ASSUME RestoreInv, NEW r \in Readers, Enter(r) PROVE Kept
<1>1. /\ admitting /\ admitted' = admitted \cup {r}
      /\ UNCHANGED <<settled, waiting, loose, admitting, onIdle, pc, closedHere, drained,
                     exclusive, calls, broken, unannounced, contended>>
  BY DEF Enter, vars, storeVars, callVars, swapVars
<1>2. ASSUME ~contended PROVE UnderWay = {} /\ ~broken /\ (settled \/ unannounced)
  <2>1. UnderWay = {} /\ ~broken
    BY <1>1, <1>2 DEF RestoreInv, Undisturbed
  <2> QED
    BY <2>1 DEF RestoreInv, ForCause, UnderWay
<1>3. Bookkeeping' /\ ForCause' /\ LooseOnlyIfUndrained'
  BY <1>1 DEF RestoreInv, Bookkeeping, ForCause, LooseOnlyIfUndrained, Operating, UnderWay, Asking
<1>4. ASSUME ~contended' PROVE Undisturbed'
  <2>1. UnderWay' = {} /\ ~broken' /\ (settled' \/ unannounced') /\ Operating' = {}
    BY <1>1, <1>2, <1>4 DEF UnderWay, Operating
  <2> QED
    BY <2>1 DEF Undisturbed
<1> QED
  BY <1>3, <1>4 DEF Kept

LEMMA ServeKeeps ==
    ASSUME RestoreInv, NEW r \in Readers, Serve(r) PROVE Kept
<1>1. /\ r \in admitted
      /\ UNCHANGED <<admitting, admitted, onIdle, pc, closedHere, drained,
                     exclusive, calls, broken, unannounced, contended>>
  BY DEF Serve, restoreVars, latchVars, swapVars
<1>2. /\ settled' = settled /\ loose' \subseteq Asking'
      /\ loose' \subseteq loose \cup {r}
      /\ settled => loose' \subseteq loose
  BY ServeEffect DEF Serve, RestoreInv, RestoreTypeOK, Bookkeeping
<1>3. Bookkeeping' /\ ForCause'
  BY <1>1, <1>2 DEF RestoreInv, Bookkeeping, ForCause, Operating, UnderWay
<1>4. ~contended' => Undisturbed'
  BY <1>1, <1>2 DEF RestoreInv, Undisturbed, AllDrained, Operating, UnderWay
<1>5. ASSUME loose' # {}, ~contended', ~unannounced' PROVE ~AllDrained'
  <2>1. CASE loose # {}
    BY <1>1, <1>5, <2>1 DEF RestoreInv, LooseOnlyIfUndrained, AllDrained
  <2>2. CASE loose = {}
    <3>1. ~settled
      BY <1>2, <1>5, <2>2
    <3> QED
      BY <1>1, <1>5, <3>1 DEF RestoreInv, Undisturbed, AllDrained
  <2> QED
    BY <2>1, <2>2
<1>6. LooseOnlyIfUndrained'
  BY <1>5 DEF LooseOnlyIfUndrained, AllDrained
<1> QED
  BY <1>3, <1>4, <1>6 DEF Kept

LEMMA BackgroundKeeps ==
    ASSUME RestoreInv, (\E b \in Builds : Advance(b)) \/ Writes, UNCHANGED restoreVars PROVE Kept
<1>1. UNCHANGED <<admitting, admitted, onIdle, pc, closedHere, drained,
                  exclusive, calls, broken, unannounced, contended>>
  BY DEF restoreVars, latchVars, swapVars
<1>2. settled' = settled /\ loose' \subseteq loose /\ loose' \subseteq Asking'
  BY BackgroundEffect DEF RestoreInv, RestoreTypeOK, Bookkeeping
<1>3. Bookkeeping' /\ ForCause' /\ LooseOnlyIfUndrained'
  BY <1>1, <1>2 DEF RestoreInv, Bookkeeping, ForCause, LooseOnlyIfUndrained, Operating, UnderWay
<1>4. ~contended' => Undisturbed'
  BY <1>1, <1>2 DEF RestoreInv, Undisturbed, AllDrained, Operating, UnderWay
<1> QED
  BY <1>3, <1>4 DEF Kept

(* A call that is waiting, and one that is to wake, are both under way and  *)
(* not operating.                                                           *)
LEMMA WakeKeeps ==
    ASSUME RestoreInv, NEW s \in Swaps, pc[s] \in {"waiting", "resumed"},
           pc' = [pc EXCEPT ![s] = "resumed"],
           onIdle' \in {onIdle, None}, admitted' \subseteq admitted,
           UNCHANGED <<settled, waiting, loose, admitting, closedHere, drained,
                       exclusive, calls, broken, unannounced, contended>>
    PROVE  Kept
<1>1. pc'[s] = "resumed" /\ \A t \in Swaps \ {s} : pc'[t] = pc[t]
  BY MoveEffect DEF RestoreInv, Places
<1>2. UnderWay' = UnderWay /\ Operating' = Operating
  BY <1>1 DEF UnderWay, Operating
<1>3. \A t \in Swaps : pc[t] = "replaced" => pc'[t] = "replaced"
  BY <1>1
<1>4. onIdle \in Swaps \cup {None}
  BY DEF RestoreInv, RestoreTypeOK
<1>5. Bookkeeping'
  BY <1>1, <1>2, <1>4 DEF RestoreInv, Bookkeeping, Asking
<1>6. ForCause' /\ LooseOnlyIfUndrained'
  BY <1>2, <1>3 DEF RestoreInv, ForCause, LooseOnlyIfUndrained
<1>7. ~contended' => Undisturbed'
  BY <1>2 DEF RestoreInv, Undisturbed, AllDrained
<1> QED
  BY <1>5, <1>6, <1>7 DEF Kept

LEMMA ReleaseKeeps ==
    ASSUME RestoreInv, NEW r \in Readers, Release(r) PROVE Kept
<1>1. /\ admitted' \subseteq admitted
      /\ UNCHANGED <<settled, waiting, loose, admitting, closedHere, drained,
                     exclusive, calls, broken, unannounced, contended>>
  BY DEF Release, vars, storeVars, callVars
<1>2. CASE admitted' = {} /\ onIdle # None
  <2>1. onIdle' = None /\ pc' = [pc EXCEPT ![onIdle] = "resumed"]
    BY <1>2 DEF Release
  <2>2. onIdle \in Swaps /\ pc[onIdle] \in {"waiting", "resumed"}
    BY <1>2 DEF RestoreInv, RestoreTypeOK, Bookkeeping
  <2> QED
    BY <1>1, <2>1, <2>2, WakeKeeps
<1>3. CASE ~(admitted' = {} /\ onIdle # None)
  <2>1. UNCHANGED <<onIdle, pc>>
    BY <1>3 DEF Release
  <2>2. Bookkeeping' /\ ForCause' /\ LooseOnlyIfUndrained'
    BY <1>1, <2>1 DEF RestoreInv, Bookkeeping, ForCause, LooseOnlyIfUndrained, Operating,
       UnderWay, Asking
  <2>3. ~contended' => Undisturbed'
    BY <1>1, <2>1 DEF RestoreInv, Undisturbed, AllDrained, Operating, UnderWay
  <2> QED
    BY <2>2, <2>3 DEF Kept
<1> QED
  BY <1>2, <1>3

LEMMA DeadlineKeeps ==
    ASSUME RestoreInv, NEW s \in Swaps, Deadline(s) PROVE Kept
<1>1. /\ pc[s] = "waiting" /\ pc' = [pc EXCEPT ![s] = "resumed"]
      /\ UNCHANGED <<settled, waiting, loose, admitting, admitted, onIdle, closedHere, drained,
                     exclusive, calls, broken, unannounced, contended>>
  BY DEF Deadline, vars, storeVars, callVars, latchVars
<1> QED
  BY <1>1, WakeKeeps

(* The heart of it: a call that finds another under way without contention  *)
(* finds it operating, is refused the lock and leaves everything as it was. *)
LEMMA CloseKeeps ==
    ASSUME RestoreInv, NEW s \in Swaps, Close(s) PROVE Kept
<1>1. /\ UNCHANGED <<settled, waiting, loose, admitted, broken, unannounced>>
      /\ contended' = IF UnderWay = {} THEN contended /\ (broken \/ loose # {})
                      ELSE contended \/ admitted # {} \/ Waiting # {}
      /\ onIdle' \in {onIdle, s}
      /\ onIdle' = s => onIdle = s \/ pc'[s] = "waiting"
  <2>1. pc \in [Swaps -> Places]
    BY DEF RestoreInv, RestoreTypeOK
  <2> QED
    BY <2>1 DEF Close, Shut, vars, storeVars, callVars
<1> DEFINE
  Began == /\ admitted = {} /\ drained'[s]
           /\ exclusive = None /\ exclusive' = s /\ pc'[s] = "preparing" /\ ~admitting'
  Refusal == /\ admitted = {} /\ drained'[s]
             /\ exclusive # None /\ exclusive' = exclusive /\ pc'[s] = "idle"
             /\ admitting' <=> admitting
  Waits == /\ admitted # {} /\ drained'[s] = drained[s]
           /\ exclusive' = exclusive /\ pc'[s] = "waiting" /\ ~admitting'
<1>2. /\ pc[s] = "idle" /\ \A t \in Swaps : pc[t] # "resumed"
      /\ calls'[s] > 0 /\ closedHere'[s] = admitting
      /\ \A t \in Swaps \ {s} : /\ pc'[t] = pc[t] /\ calls'[t] = calls[t]
                                 /\ closedHere'[t] = closedHere[t]
                                 /\ drained'[t] = drained[t]
      /\ Began \/ Refusal \/ Waits
  BY ShutEffect DEF RestoreInv
<1> HIDE DEF Began, Refusal, Waits
<1>3. /\ UnderWay \subseteq UnderWay' /\ UnderWay' \subseteq UnderWay \cup {s}
      /\ s \notin UnderWay
      /\ Refusal => UnderWay' = UnderWay /\ Operating' = Operating
      /\ Waits => Operating' = Operating
      /\ Began => Operating' = Operating \cup {s}
      /\ ~Refusal => s \in UnderWay'
  BY <1>2 DEF UnderWay, Operating, Began, Refusal, Waits
<1>4. /\ exclusive = None => Operating = {}
      /\ loose # {} => admitted # {}
  BY RestoreAssumption DEF RestoreInv, RestoreTypeOK, Bookkeeping, Operating
<1>5. Bookkeeping'
  <2>1. \A t \in Operating' : exclusive' = t
    BY <1>2, <1>3, <1>4 DEF RestoreInv, Bookkeeping, Began, Refusal, Waits
  <2>2. \A t \in UnderWay' : calls'[t] > 0
    BY <1>2, <1>3 DEF RestoreInv, Bookkeeping, UnderWay
  <2>3. onIdle' # None => pc'[onIdle'] \in {"waiting", "resumed"}
    BY <1>1, <1>2 DEF RestoreInv, RestoreTypeOK, Bookkeeping
  <2> QED
    BY <1>1, <2>1, <2>2, <2>3 DEF RestoreInv, Bookkeeping, Asking
<1>6. ForCause'
  <2>1. ~admitting' => broken' \/ \E t \in UnderWay' : closedHere'[t]
    <3>1. CASE admitting
      BY <1>2, <1>3, <3>1 DEF Refusal
    <3>2. CASE ~admitting
      BY <1>1, <1>2, <1>3, <3>2 DEF RestoreInv, ForCause, UnderWay
    <3> QED
      BY <3>1, <3>2
  <2>2. ~settled' => broken' \/ unannounced' \/ \E t \in Swaps : pc'[t] = "replaced"
    BY <1>1, <1>2 DEF RestoreInv, ForCause
  <2> QED
    BY <2>1, <2>2 DEF ForCause
<1>7. CASE UnderWay # {} /\ ~contended'
  <2>1. ~contended /\ admitted = {} /\ Waiting = {}
    BY <1>1, <1>7
  <2>2. exclusive # None
    BY <1>2, <1>4, <1>7, <2>1 DEF UnderWay, Waiting, Operating, RestoreInv, RestoreTypeOK, Places
  <2>3. Refusal
    BY <1>2, <2>1, <2>2 DEF Began, Waits
  <2>4. Undisturbed'
    BY <1>1, <1>2, <1>3, <2>1, <2>3 DEF RestoreInv, Undisturbed, Refusal, UnderWay, Operating
  <2> QED
    BY <1>1, <1>4, <1>5, <1>6, <2>1, <2>4 DEF Kept, LooseOnlyIfUndrained
<1>8. CASE UnderWay = {} /\ ~contended'
  <2>1. ~contended \/ (~broken /\ loose = {})
    BY <1>1, <1>8
  <2>2. broken => ~contended /\ ~admitting
    BY <2>1 DEF RestoreInv, Undisturbed
  <2>3. ~settled => broken \/ unannounced
    BY <1>8 DEF RestoreInv, ForCause, UnderWay
  <2>4. Waits /\ AllDrained' => AllDrained
    BY <1>2 DEF Waits, AllDrained
  <2>5. Undisturbed'
    <3>1. \A t, u \in UnderWay' : t = u
      BY <1>3, <1>8
    <3>2. UnderWay' # {} \/ broken' => ~admitting'
      BY <1>1, <1>2, <1>3, <1>8, <2>2 DEF Began, Refusal, Waits
    <3>3. broken' => \A t \in UnderWay' : ~closedHere'[t]
      BY <1>1, <1>2, <1>3, <1>8, <2>2
    <3>4. \A t \in Operating' : drained'[t] => admitted' = {}
      BY <1>1, <1>2, <1>3, <1>8 DEF Began, Refusal, Waits, UnderWay, Operating
    <3>5. AllDrained' /\ ~settled' /\ ~unannounced' => admitted' = {}
      BY <1>1, <1>2, <2>2, <2>3, <2>4 DEF Began, Refusal, RestoreInv, Undisturbed
    <3> QED
      BY <3>1, <3>2, <3>3, <3>4, <3>5 DEF Undisturbed
  <2>6. LooseOnlyIfUndrained'
    <3>1. loose # {} => ~contended /\ Waits
      BY <1>2, <1>4, <2>1 DEF Began, Refusal
    <3>2. loose # {} => unannounced \/ ~AllDrained'
      BY <2>4, <3>1 DEF RestoreInv, LooseOnlyIfUndrained, AllDrained
    <3> QED
      BY <1>1, <3>2 DEF LooseOnlyIfUndrained, AllDrained
  <2> QED
    BY <1>5, <1>6, <2>5, <2>6 DEF Kept
<1>9. CASE contended'
  BY <1>5, <1>6, <1>9 DEF Kept, LooseOnlyIfUndrained
<1> QED
  BY <1>7, <1>8, <1>9

(* A call that ends without having touched the database opens the latch it  *)
(* shut.                                                                    *)
LEMMA OperateKeeps ==
    ASSUME RestoreInv, NEW s \in Swaps, Operate(s) PROVE Kept
<1>1. /\ UNCHANGED <<settled, waiting, loose, admitted, closedHere, calls, broken, unannounced, contended>>
      /\ onIdle' = None
  BY DEF Operate, vars, storeVars, callVars
<1>2. /\ pc[s] = "resumed"
      /\ \A t \in Swaps \ {s} : pc'[t] = pc[t] /\ drained'[t] = drained[t]
      /\ drained'[s] <=> admitted = {}
      /\ \/ /\ exclusive = None /\ exclusive' = s /\ pc'[s] = "preparing"
            /\ admitting' <=> admitting
         \/ /\ exclusive # None /\ exclusive' = exclusive /\ pc'[s] = "idle"
            /\ admitting' <=> (closedHere[s] \/ admitting)
  BY OperateEffect DEF RestoreInv
<1>3. /\ UnderWay' \subseteq UnderWay /\ UnderWay \subseteq UnderWay' \cup {s}
      /\ s \in UnderWay
      /\ s \notin UnderWay' => exclusive # None /\ (admitting' <=> closedHere[s] \/ admitting)
      /\ s \in UnderWay' => exclusive = None /\ (admitting' <=> admitting)
      /\ Operating' \subseteq Operating \cup {s}
      /\ s \in Operating' => exclusive' = s /\ exclusive = None
      /\ s \notin Operating' => exclusive' = exclusive
  BY <1>2 DEF UnderWay, Operating
<1>4. /\ exclusive = None => Operating = {}
      /\ loose # {} => admitted # {}
      /\ calls[s] > 0
  BY <1>3, RestoreAssumption DEF RestoreInv, RestoreTypeOK, Bookkeeping, Operating
<1>5. Bookkeeping'
  BY <1>1, <1>3, <1>4 DEF RestoreInv, Bookkeeping, Asking
<1>6. ForCause'
  <2>1. ~settled' => broken' \/ unannounced' \/ \E t \in Swaps : pc'[t] = "replaced"
    BY <1>1, <1>2 DEF RestoreInv, ForCause
  <2> QED
    BY <1>1, <1>3, <2>1 DEF RestoreInv, ForCause
<1>7. AllDrained' => admitted' = {}
  BY <1>1, <1>2, <1>4 DEF AllDrained
<1>8. ASSUME ~contended' PROVE Undisturbed'
  <2>1. Undisturbed
    BY <1>1, <1>8 DEF RestoreInv
  <2>2. \A t, u \in UnderWay' : t = u
    BY <1>3, <2>1 DEF Undisturbed
  <2>3. UnderWay = {s} /\ ~admitting /\ (broken => ~closedHere[s])
    BY <1>3, <2>1 DEF Undisturbed
  <2>4. UnderWay' # {} \/ broken' => ~admitting'
    BY <1>1, <1>3, <2>3
  <2>5. broken' => \A t \in UnderWay' : ~closedHere'[t]
    BY <1>1, <1>3, <2>3
  <2>6. \A t \in Operating' : drained'[t] => admitted' = {}
    BY <1>1, <1>2, <1>3, <2>3 DEF UnderWay, Operating
  <2> QED
    BY <1>7, <2>2, <2>4, <2>5, <2>6 DEF Undisturbed
<1>9. LooseOnlyIfUndrained'
  BY <1>1, <1>4, <1>7 DEF LooseOnlyIfUndrained, AllDrained
<1> QED
  BY <1>5, <1>6, <1>8, <1>9 DEF Kept

LEMMA PrepareKeeps ==
    ASSUME RestoreInv, NEW s \in Swaps, Prepare(s) PROVE Kept
<1>1. UNCHANGED <<settled, waiting, loose, admitted, onIdle, closedHere, drained, calls, broken, unannounced,
                  contended>>
  BY DEF Prepare, vars, storeVars, callVars
<1>2. /\ pc[s] = "preparing"
      /\ \A t \in Swaps \ {s} : pc'[t] = pc[t]
      /\ \/ /\ exclusive' = exclusive /\ pc'[s] = "staged" /\ admitting' = admitting
         \/ /\ exclusive' = None /\ pc'[s] = "idle"
            /\ admitting' <=> (closedHere[s] \/ admitting)
  BY PrepareEffect DEF RestoreInv
<1>3. /\ UnderWay' \subseteq UnderWay /\ UnderWay \subseteq UnderWay' \cup {s}
      /\ s \in UnderWay /\ s \in Operating
      /\ s \notin UnderWay' => (admitting' <=> closedHere[s] \/ admitting)
      /\ s \in UnderWay' => exclusive' = exclusive /\ admitting' = admitting
      /\ Operating' \subseteq Operating /\ Operating' \subseteq UnderWay'
  BY <1>2 DEF UnderWay, Operating
<1>4. Operating = {s}
  BY <1>3 DEF RestoreInv, Bookkeeping
<1>5. Bookkeeping'
  <2>1. onIdle' # None => pc'[onIdle'] \in {"waiting", "resumed"}
    BY <1>1, <1>2 DEF RestoreInv, RestoreTypeOK, Bookkeeping
  <2> QED
    BY <1>1, <1>3, <1>4, <2>1 DEF RestoreInv, Bookkeeping, Asking
<1>6. ForCause'
  <2>1. ~settled' => broken' \/ unannounced' \/ \E t \in Swaps : pc'[t] = "replaced"
    BY <1>1, <1>2 DEF RestoreInv, ForCause
  <2> QED
    BY <1>1, <1>3, <2>1 DEF RestoreInv, ForCause
<1>7. ASSUME ~contended' PROVE Undisturbed'
  <2>1. Undisturbed
    BY <1>1, <1>7 DEF RestoreInv
  <2>2. UnderWay = {s} /\ ~admitting /\ (broken => ~closedHere[s])
    BY <1>3, <2>1 DEF Undisturbed
  <2>3. UnderWay' # {} \/ broken' => ~admitting'
    BY <1>1, <1>3, <2>2
  <2> QED
    BY <1>1, <1>3, <2>1, <2>3 DEF Undisturbed, AllDrained
<1>8. LooseOnlyIfUndrained'
  BY <1>1 DEF RestoreInv, LooseOnlyIfUndrained
<1> QED
  BY <1>5, <1>6, <1>7, <1>8 DEF Kept

(* A replacement, whole or failed half way: no request is caught by it that *)
(* its call drained.                                                        *)
LEMMA SwapKeeps ==
    ASSUME RestoreInv, NEW s \in Swaps, SwapIn(s) \/ SwapFails(s) PROVE Kept
<1>1. /\ Swapped
      /\ UNCHANGED <<admitting, admitted, onIdle, closedHere, drained, calls, unannounced, contended>>
  BY DEF SwapIn, SwapFails, Swapped, latchVars
<1>2. ~settled' /\ Asking' = Asking /\ loose' = Asking
  BY <1>1, SwapEffect
<1>3. pc[s] = "staged" /\ \A t \in Swaps \ {s} : pc'[t] = pc[t]
  BY DEF RestoreInv, RestoreTypeOK, SwapIn, SwapFails
<1>4. \/ pc'[s] = "replaced" /\ UNCHANGED <<exclusive, broken>>
      \/ pc'[s] = "idle" /\ exclusive' = None /\ broken'
  BY DEF RestoreInv, RestoreTypeOK, SwapIn, SwapFails
<1>5. /\ UnderWay' \subseteq UnderWay /\ s \in UnderWay /\ s \in Operating
      /\ UnderWay \subseteq UnderWay' \cup {s}
      /\ Operating' \subseteq Operating /\ Operating' \subseteq UnderWay'
      /\ s \in UnderWay' => pc'[s] = "replaced" /\ UNCHANGED <<exclusive, broken>>
      /\ s \notin UnderWay' => broken'
  BY <1>3, <1>4 DEF UnderWay, Operating
<1>6. Operating = {s} /\ calls[s] > 0 /\ Asking \subseteq admitted
  BY <1>5 DEF RestoreInv, RestoreTypeOK, Bookkeeping
<1>7. Bookkeeping'
  <2>1. onIdle' # None => pc'[onIdle'] \in {"waiting", "resumed"}
    BY <1>1, <1>3 DEF RestoreInv, RestoreTypeOK, Bookkeeping
  <2> QED
    BY <1>1, <1>2, <1>5, <1>6, <2>1 DEF RestoreInv, Bookkeeping
<1>8. ForCause'
  BY <1>1, <1>5 DEF RestoreInv, ForCause, UnderWay
<1>9. ASSUME ~contended PROVE AllDrained => admitted = {}
  BY <1>5, <1>6, <1>9 DEF RestoreInv, Undisturbed, AllDrained, Operating
<1>10. ASSUME ~contended' PROVE Undisturbed'
  <2>1. Undisturbed
    BY <1>1, <1>10 DEF RestoreInv
  <2>2. UnderWay = {s} /\ ~admitting
    BY <1>5, <2>1 DEF Undisturbed
  <2>3. AllDrained' => admitted' = {}
    BY <1>1, <1>9, <1>10 DEF AllDrained
  <2>4. broken' => \A t \in UnderWay' : ~closedHere'[t]
    BY <1>1, <1>5, <2>1, <2>2 DEF Undisturbed
  <2> QED
    BY <1>1, <1>5, <2>1, <2>2, <2>3, <2>4 DEF Undisturbed
<1>11. LooseOnlyIfUndrained'
  BY <1>1, <1>2, <1>6, <1>9 DEF LooseOnlyIfUndrained, AllDrained
<1> QED
  BY <1>7, <1>8, <1>10, <1>11 DEF Kept

(* The read back fails: the call ends like one that touched nothing. *)
LEMMA ReadBackKeeps ==
    ASSUME RestoreInv, NEW s \in Swaps, ReadBackFails(s) PROVE Kept
<1>1. /\ UNCHANGED <<settled, waiting, loose, admitted, onIdle, closedHere, drained, calls, broken,
                     contended>>
      /\ unannounced' /\ exclusive' = None
      /\ admitting' <=> (closedHere[s] \/ admitting)
  BY DEF ReadBackFails, GaveUp, vars, storeVars, callVars, RestoreInv, RestoreTypeOK
<1>2. pc[s] = "replaced" /\ pc'[s] = "idle" /\ \A t \in Swaps \ {s} : pc'[t] = pc[t]
  BY DEF RestoreInv, RestoreTypeOK, ReadBackFails, GaveUp
<1>3. UnderWay' = UnderWay \ {s} /\ s \in UnderWay /\ s \in Operating /\ Operating' = Operating \ {s}
  BY <1>2 DEF UnderWay, Operating
<1>4. Operating' = {}
  BY <1>3 DEF RestoreInv, Bookkeeping
<1>5. Bookkeeping'
  <2>1. onIdle' # None => pc'[onIdle'] \in {"waiting", "resumed"}
    BY <1>1, <1>2 DEF RestoreInv, RestoreTypeOK, Bookkeeping
  <2> QED
    BY <1>1, <1>3, <1>4, <2>1 DEF RestoreInv, Bookkeeping, Asking
<1>6. ForCause'
  BY <1>1, <1>3 DEF RestoreInv, ForCause
<1>7. ASSUME ~contended' PROVE Undisturbed'
  <2>1. Undisturbed
    BY <1>1, <1>7 DEF RestoreInv
  <2>2. UnderWay' = {} /\ ~admitting /\ (broken => ~closedHere[s])
    BY <1>3, <2>1 DEF Undisturbed
  <2> QED
    BY <1>1, <1>4, <2>2 DEF Undisturbed
<1>8. LooseOnlyIfUndrained'
  BY <1>1 DEF LooseOnlyIfUndrained
<1> QED
  BY <1>5, <1>6, <1>7, <1>8 DEF Kept

(* A call that completes: what it invalidates, no request has begun to read *)
(* unless a close gave up.                                                  *)
LEMMA ReopenKeeps ==
    ASSUME RestoreInv, NEW s \in Swaps, Reopen(s) PROVE Kept
<1>1. /\ UNCHANGED <<waiting, loose, admitted, onIdle, closedHere, drained, calls, contended>>
      /\ settled' /\ admitting' /\ ~broken' /\ ~unannounced' /\ exclusive' = None
  BY DEF Reopen, Invalidate, Invalidated, callVars
<1>2. /\ pc[s] = "replaced" /\ pc'[s] \in {"idle", "settling"}
      /\ \A t \in Swaps \ {s} : pc'[t] = pc[t]
  BY DEF RestoreInv, RestoreTypeOK, Reopen
<1>3. UnderWay' = UnderWay \ {s} /\ s \in UnderWay /\ s \in Operating /\ Operating' = Operating \ {s}
  BY <1>2 DEF UnderWay, Operating
<1>4. Operating' = {}
  BY <1>3 DEF RestoreInv, Bookkeeping
<1>5. Bookkeeping'
  <2>1. onIdle' # None => pc'[onIdle'] \in {"waiting", "resumed"}
    BY <1>1, <1>2 DEF RestoreInv, RestoreTypeOK, Bookkeeping
  <2> QED
    BY <1>1, <1>3, <1>4, <2>1 DEF RestoreInv, Bookkeeping, Asking
<1>6. ForCause'
  BY <1>1 DEF ForCause
<1>7. ~contended' => Undisturbed'
  BY <1>1, <1>3, <1>4 DEF RestoreInv, Undisturbed
<1>8. LooseOnlyIfUndrained'
  <2>1. ASSUME ~contended, loose # {} PROVE ~drained[s] /\ calls[s] > 0
    <3>1. admitted # {} /\ calls[s] > 0
      BY <1>3, <2>1 DEF RestoreInv, RestoreTypeOK, Bookkeeping
    <3> QED
      BY <1>3, <2>1, <3>1 DEF RestoreInv, Undisturbed
  <2> QED
    BY <1>1, <2>1 DEF LooseOnlyIfUndrained
<1> QED
  BY <1>5, <1>6, <1>7, <1>8 DEF Kept

(* A call that fails after it has reopened the latch: it opens what another *)
(* may have shut, and that is contention.                                   *)
LEMMA SettleKeeps ==
    ASSUME RestoreInv, NEW s \in Swaps, Settle(s) PROVE Kept
<1>1. /\ UNCHANGED <<settled, waiting, loose, admitted, onIdle, closedHere, drained, exclusive,
                     calls, broken, unannounced>>
      /\ admitting => admitting'
      /\ ~contended' => ~contended /\ admitting' = admitting
      /\ contended => contended'
  BY DEF Settle, vars, storeVars, callVars, RestoreInv, RestoreTypeOK
<1>2. /\ pc[s] = "settling" /\ pc'[s] = "idle" /\ \A t \in Swaps \ {s} : pc'[t] = pc[t]
  BY DEF RestoreInv, RestoreTypeOK, Settle
<1>3. UnderWay' = UnderWay /\ Operating' = Operating
  BY <1>2 DEF UnderWay, Operating
<1>4. Bookkeeping'
  <2>1. onIdle' # None => pc'[onIdle'] \in {"waiting", "resumed"}
    BY <1>1, <1>2 DEF RestoreInv, RestoreTypeOK, Bookkeeping
  <2> QED
    BY <1>1, <1>3, <2>1 DEF RestoreInv, Bookkeeping, Asking
<1>5. ForCause'
  <2>1. ~settled' => broken' \/ unannounced' \/ \E t \in Swaps : pc'[t] = "replaced"
    BY <1>1, <1>2 DEF RestoreInv, ForCause
  <2> QED
    BY <1>1, <1>3, <2>1 DEF RestoreInv, ForCause
<1>6. ~contended' => Undisturbed'
  BY <1>1, <1>3 DEF RestoreInv, Undisturbed, AllDrained
<1>7. LooseOnlyIfUndrained'
  BY <1>1 DEF RestoreInv, LooseOnlyIfUndrained
<1> QED
  BY <1>4, <1>5, <1>6, <1>7 DEF Kept

(* The lock in other hands, and a step that changes nothing. *)
LEMMA OtherKeeps ==
    ASSUME RestoreInv, OtherBegins \/ OtherEnds \/ UNCHANGED allVars PROVE Kept
<1>1. UNCHANGED <<settled, waiting, loose, admitting, admitted, onIdle, pc, closedHere, drained,
                  calls, broken, unannounced, contended>>
  BY DEF OtherBegins, OtherEnds, allVars, restoreVars, swapVars, vars, storeVars, callVars, latchVars
<1>2. exclusive' = exclusive \/ exclusive \notin Swaps
  BY RestoreAssumption DEF OtherBegins, OtherEnds, allVars, restoreVars, swapVars
<1>3. Bookkeeping' /\ ForCause' /\ LooseOnlyIfUndrained'
  BY <1>1, <1>2 DEF RestoreInv, Bookkeeping, ForCause, LooseOnlyIfUndrained, Operating,
     UnderWay, Asking
<1>4. ~contended' => Undisturbed'
  BY <1>1 DEF RestoreInv, Undisturbed, AllDrained, Operating, UnderWay
<1> QED
  BY <1>3, <1>4 DEF Kept

-----------------------------------------------------------------------------
(* The types.  That a request under way in the cache is one the latch       *)
(* counts rests on Release, which waits for it.                             *)
LEMMA NextRestoreTyped ==
    ASSUME RestoreInv, [RestoreNext]_allVars PROVE RestoreTypeOK'
<1> DEFINE
  LatchTyped == /\ admitting \in BOOLEAN
                /\ broken \in BOOLEAN /\ unannounced \in BOOLEAN /\ contended \in BOOLEAN
                /\ admitted \subseteq Readers
                /\ Asking \subseteq admitted
                /\ onIdle \in Swaps \cup {None}
                /\ pc \in [Swaps -> Places]
                /\ closedHere \in [Swaps -> BOOLEAN] /\ drained \in [Swaps -> BOOLEAN]
                /\ exclusive \in Swaps \cup {None, Other}
                /\ calls \in [Swaps -> 0..MaxCalls]
<1>1. RestoreTypeOK /\ TypeOK /\ LatchTyped /\ loose \subseteq Asking
  BY DEF RestoreInv, RestoreTypeOK, Bookkeeping
<1>2. TypeOK'
  BY <1>1, NextTyped, RestoreIsCacheNext
<1>3. ASSUME NEW r \in Readers, Enter(r) PROVE LatchTyped'
  BY <1>1, <1>3 DEF Enter, vars, callVars, swapVars, Asking
<1>4. ASSUME NEW r \in Readers, Serve(r) PROVE LatchTyped'
  <2>1. Asking' \subseteq Asking \cup {r}
    BY <1>1, <1>4, ServeEffect DEF Serve
  <2> QED
    BY <1>1, <1>4, <2>1 DEF Serve, restoreVars, latchVars, swapVars
<1>5. ASSUME NEW r \in Readers, Release(r) PROVE LatchTyped'
  <2>1. /\ admitted' = admitted \ {r} /\ r \notin Asking
        /\ UNCHANGED <<waiting, admitting, closedHere, drained, exclusive, calls, broken, unannounced, contended>>
    BY <1>5 DEF Release, vars, callVars
  <2>2. onIdle' \in Swaps \cup {None} /\ pc' \in [Swaps -> Places]
    BY <1>1, <1>5 DEF Release, Places
  <2> QED
    BY <1>1, <2>1, <2>2 DEF Asking
<1>6. ASSUME (\E b \in Builds : Advance(b)) \/ Writes, UNCHANGED restoreVars PROVE LatchTyped'
  <2>1. Asking' \subseteq Asking
    BY <1>1, <1>6, BackgroundEffect
  <2> QED
    BY <1>1, <1>6, <2>1 DEF restoreVars, latchVars, swapVars
<1>7. ASSUME NEW s \in Swaps, Close(s) PROVE LatchTyped'
  <2>1. UNCHANGED <<waiting, admitted, broken, unannounced>> /\ contended' \in BOOLEAN
    BY <1>1, <1>7 DEF Close, Shut, vars, callVars
  <2> QED
    BY <1>1, <1>7, <2>1, ShutEffect DEF Asking
<1>8. ASSUME NEW s \in Swaps, Deadline(s) PROVE LatchTyped'
  BY <1>1, <1>8 DEF Deadline, vars, callVars, latchVars, Asking, Places
<1>9. ASSUME NEW s \in Swaps, Operate(s) PROVE LatchTyped'
  <2>1. UNCHANGED <<waiting, admitted, closedHere, calls, broken, unannounced, contended>> /\ onIdle' = None
    BY <1>9 DEF Operate, vars, callVars
  <2> QED
    BY <1>1, <1>9, <2>1, OperateEffect DEF Asking
<1>10. ASSUME NEW s \in Swaps, Prepare(s) PROVE LatchTyped'
  <2>1. UNCHANGED <<waiting, admitted, onIdle, closedHere, drained, calls, broken, unannounced, contended>>
    BY <1>10 DEF Prepare, vars, callVars
  <2> QED
    BY <1>1, <1>10, <2>1, PrepareEffect DEF Asking
<1>11. ASSUME NEW s \in Swaps, SwapIn(s) \/ SwapFails(s) PROVE LatchTyped'
  <2>1. /\ UNCHANGED <<admitting, admitted, onIdle, closedHere, drained, calls, unannounced,
                       contended>>
        /\ Swapped /\ exclusive' \in {exclusive, None} /\ broken' \in {broken, TRUE}
    BY <1>11 DEF SwapIn, SwapFails, Swapped, latchVars
  <2>2. pc' \in [Swaps -> Places]
    BY <1>1, <1>11 DEF SwapIn, SwapFails, Places
  <2> QED
    BY <1>1, <2>1, <2>2, SwapEffect
<1>12. ASSUME NEW s \in Swaps, Reopen(s) \/ ReadBackFails(s) \/ Settle(s) PROVE LatchTyped'
  <2>1. CASE Reopen(s)
    BY <1>1, <2>1 DEF Reopen, Invalidate, Invalidated, callVars, Asking, Places
  <2>2. CASE ReadBackFails(s)
    BY <1>1, <2>2 DEF ReadBackFails, GaveUp, vars, callVars, Asking, Places
  <2>3. CASE Settle(s)
    BY <1>1, <2>3 DEF Settle, vars, callVars, Asking, Places
  <2> QED
    BY <1>12, <2>1, <2>2, <2>3
<1>13. ASSUME OtherBegins \/ OtherEnds \/ UNCHANGED allVars PROVE LatchTyped'
  BY <1>1, <1>13 DEF OtherBegins, OtherEnds, allVars, restoreVars, swapVars, vars, callVars,
     latchVars, Asking
<1>14. LatchTyped'
  BY <1>3, <1>4, <1>5, <1>6, <1>7, <1>8, <1>9, <1>10, <1>11, <1>12, <1>13 DEF RestoreNext, Step
<1> QED
  BY <1>2, <1>14 DEF RestoreTypeOK

-----------------------------------------------------------------------------
LEMMA InitRestoreInv == RestoreInit => RestoreInv
<1> SUFFICES ASSUME RestoreInit PROVE RestoreInv
  OBVIOUS
<1>1. /\ Init /\ admitting = TRUE /\ admitted = {} /\ onIdle = None
      /\ pc = [s \in Swaps |-> "idle"]
      /\ broken = FALSE /\ unannounced = FALSE /\ contended = FALSE
      /\ closedHere = [s \in Swaps |-> FALSE] /\ drained = [s \in Swaps |-> FALSE]
      /\ exclusive = None /\ calls = [s \in Swaps |-> 0]
  BY DEF RestoreInit
<1>2. TypeOK
  BY <1>1, InitCurrent DEF CacheInv
<1>3. settled /\ loose = {} /\ Asking = {}
  BY <1>1 DEF Init, Asking
<1>4. RestoreTypeOK
  <2>1. pc \in [Swaps -> Places] /\ calls \in [Swaps -> 0..MaxCalls]
    BY <1>1, RestoreAssumption DEF Places
  <2>2. closedHere \in [Swaps -> BOOLEAN] /\ drained \in [Swaps -> BOOLEAN]
    BY <1>1
  <2>3. /\ admitting \in BOOLEAN
        /\ broken \in BOOLEAN /\ unannounced \in BOOLEAN /\ contended \in BOOLEAN
        /\ admitted \subseteq Readers /\ Asking \subseteq admitted
        /\ onIdle \in Swaps \cup {None} /\ exclusive \in Swaps \cup {None, Other}
    BY <1>1, <1>3
  <2> QED
    BY <1>2, <2>1, <2>2, <2>3 DEF RestoreTypeOK
<1>5. UnderWay = {} /\ Operating = {}
  BY <1>1 DEF UnderWay, Operating
<1> QED
  BY <1>1, <1>3, <1>4, <1>5 DEF RestoreInv, Bookkeeping, ForCause, Undisturbed, LooseOnlyIfUndrained

LEMMA NextRestoreInv ==
    ASSUME RestoreInv, [RestoreNext]_allVars PROVE RestoreInv'
<1>1. ASSUME NEW r \in Readers, Enter(r) \/ Serve(r) \/ Release(r) PROVE Kept
  BY <1>1, EnterKeeps, ServeKeeps, ReleaseKeeps
<1>2. ASSUME (\E b \in Builds : Advance(b)) \/ Writes, UNCHANGED restoreVars PROVE Kept
  BY <1>2, BackgroundKeeps
<1>3. ASSUME NEW s \in Swaps, Close(s) \/ Step(s) \/ Settle(s) PROVE Kept
  BY <1>3, CloseKeeps, DeadlineKeeps, OperateKeeps, PrepareKeeps, SwapKeeps, ReadBackKeeps,
     ReopenKeeps, SettleKeeps DEF Step
<1>4. ASSUME OtherBegins \/ OtherEnds \/ UNCHANGED allVars PROVE Kept
  BY <1>4, OtherKeeps
<1>5. Kept
  BY <1>1, <1>2, <1>3, <1>4 DEF RestoreNext
<1> QED
  BY <1>5, NextRestoreTyped DEF RestoreInv, Kept

LEMMA RestoreInvariant == RestoreSpec => []RestoreInv
BY InitRestoreInv, NextRestoreInv, PTL DEF RestoreSpec

(* The latch, the calls and the lock keep their types, and every request    *)
(* the cache is serving is counted by the latch.                            *)
THEOREM RestoreTyped == RestoreSpec => []RestoreTypeOK
<1>1. RestoreInv => RestoreTypeOK
  BY DEF RestoreInv
<1> QED
  BY <1>1, RestoreInvariant, PTL

(* With every call returned the gateway serves, unless a replacement failed *)
(* half way: however many calls overlapped, and whichever of them shut the  *)
(* latch, was refused the lock or ran out its deadline.                     *)
THEOREM ShutOnlyIfBrokenHolds == RestoreSpec => []ShutOnlyIfBroken
<1>1. RestoreInv => ShutOnlyIfBroken
  BY DEF RestoreInv, ForCause, ShutOnlyIfBroken
<1> QED
  BY <1>1, RestoreInvariant, PTL

(* The latch stays shut for the whole of an operation, and after one that   *)
(* failed half way, unless calls contended while requests were waited for   *)
(* or one failed late and opened the latch of another.                      *)
THEOREM ShutUnlessContendedHolds == RestoreSpec => []ShutUnlessContended
<1>1. RestoreInv => ShutUnlessContended
  BY DEF RestoreInv, Undisturbed, ShutUnlessContended, LatchStaysShut, Operating, UnderWay
<1> QED
  BY <1>1, RestoreInvariant, PTL

(* Under the same proviso, a request that reads a file replaced under it    *)
(* outlived the deadline of some close, or the file could not be read back. *)
THEOREM LooseOnlyIfUndrainedHolds == RestoreSpec => []LooseOnlyIfUndrained
<1>1. RestoreInv => LooseOnlyIfUndrained
  BY DEF RestoreInv
<1> QED
  BY <1>1, RestoreInvariant, PTL
=============================================================================
