--------------------------- MODULE AdmissionProofs ---------------------------
(***************************************************************************)
(* Proofs about Admission, for every set of requests, processes, limits    *)
(* and times that meets the module's assumptions.                          *)
(*                                                                         *)
(* First what the later arguments stand on: what each action does, stated  *)
(* point by point (lemmas ...Does), that every variable is typed, and what *)
(* the place of a request says about its locals (Placed).                  *)
(*                                                                         *)
(* The ceilings are then proved with two counting arguments.  A slot       *)
(* acquired when fewer than ConcLimit others were live makes at most       *)
(* ConcLimit holders (Holders), and a stamp recorded when fewer than       *)
(* ReqLimit were in the ring makes at most ReqLimit (Stamped).  What       *)
(* remains is that a running request is still a holder, the timing         *)
(* argument of SlotsLast, and that no stamp a claim must find was pruned   *)
(* before it arrived, StampsLast with the latest reading of the others.  What faults leave behind is accounted for   *)
(* by SlotsOwned and SlotsEnd.                                             *)
(***************************************************************************)
EXTENDS Admission, TLAPS, FiniteSetTheorems

Claiming == {"window", "gauge", "judge"}

Admitted == {"held", "releasing", "done"}

(* What the place of a request says about its locals and its claims *)
Placed(r) ==
    /\ claimed[r] \subseteq subjectsOf(r)
    /\ renewing[r] \subseteq NamedSlots(r)
    /\ pc[r] \in Settled => claimed[r] = {}
    /\ pc[r] \in {"window", "gauge"} => claimed[r] # subjectsOf(r)
    /\ pc[r] \in {"judge", "held"} => claimed[r] = subjectsOf(r)
    /\ pc[r] \in {"rollback", "rollbackGauge", "releasing"} => claimed[r] # {}
    /\ pc[r] \in Claiming \union {"held"} => subjectsOf(r) # {}
    /\ pc[r] \in {"held", "releasing"} => r \notin CountTokens
    /\ pc[r] # "held" => due[r] = 0
    /\ renewing[r] # {} => pc[r] \in Admitted
    /\ pc[r] # "idle" => 1 <= at[r] /\ at[r] <= now
    /\ pc[r] = "idle" => \A s \in Subjects : slot[s][r] = 0 /\ ring[s][r] = 0
    /\ pc[r] \in Claiming \union {"idle"} =>
          \A s \in Subjects : missed[s][r] = 0
    /\ pc[r] \in Claiming \union {"idle", "held"} => orphaned[r] = 0
    /\ pc[r] \in Admitted \union {"idle"} => before[r] = NoClaims
    /\ r \in CountTokens => \A s \in Subjects : slot[s][r] = 0

PlaceInv == \A r \in Requests : Placed(r)

-----------------------------------------------------------------------------
(* Helpers *)

(* The subject visited next is one of those left to visit. *)
LEMMA FirstIn ==
    ASSUME NEW S, S # {}
    PROVE  First(S) \in S
BY DEF First

(* Sets of requests are finite. *)
LEMMA RequestsCount ==
    ASSUME NEW S \in SUBSET Requests
    PROVE  IsFiniteSet(S) /\ Cardinality(S) \in Nat
BY RequestsFinite, FS_Subset, FS_CardinalityType

(* The subjects of a request are subjects, and while it claims there is    *)
(* one left to visit.                                                      *)
LEMMA NextSubject ==
    ASSUME NEW r \in Requests
    PROVE  /\ subjectsOf(r) \subseteq Subjects /\ NamedSlots(r) \subseteq Subjects
           /\ Placed(r) /\ pc[r] \in {"window", "gauge"} =>
                 First(subjectsOf(r) \ claimed[r]) \in subjectsOf(r) \ claimed[r]
           /\ Placed(r) /\ pc[r] \in {"rollback", "rollbackGauge", "releasing"} =>
                 First(claimed[r]) \in claimed[r]
<1>1. subjectsOf(r) \subseteq Subjects /\ NamedSlots(r) \subseteq Subjects
  BY DEF subjectsOf, NamedSlots
<1>2. ASSUME Placed(r), pc[r] \in {"window", "gauge"}
      PROVE  First(subjectsOf(r) \ claimed[r]) \in subjectsOf(r) \ claimed[r]
  <2>1. subjectsOf(r) \ claimed[r] # {}
    BY <1>2 DEF Placed
  <2> QED
    BY <2>1, FirstIn
<1>3. ASSUME Placed(r), pc[r] \in {"rollback", "rollbackGauge", "releasing"}
      PROVE  First(claimed[r]) \in claimed[r]
  BY <1>3, FirstIn DEF Placed
<1> QED
  BY <1>1, <1>2, <1>3

(* One entry of a two-level table of numbers is replaced. *)
LEMMA PutEntry ==
    ASSUME NEW f \in [Subjects -> [Requests -> Nat]], NEW s \in Subjects, NEW r \in Requests,
           NEW v \in Nat
    PROVE  /\ [f EXCEPT ![s][r] = v] \in [Subjects -> [Requests -> Nat]]
           /\ \A p \in Subjects, q \in Requests :
                 [f EXCEPT ![s][r] = v][p][q] = IF p = s /\ q = r THEN v ELSE f[p][q]
OBVIOUS

(* What a release does to the slots: nothing is raised; a named slot goes  *)
(* only if it is the caller's and then does go.                            *)
LEMMA ReleaseEffect ==
    ASSUME TypeOK, NEW r \in Requests, NEW s \in Subjects, GaugeRelease(s, r)
    PROVE  /\ slot' \in [Subjects -> [Requests -> Nat]]
           /\ \A p \in Subjects, q \in Requests : slot'[p][q] = slot[p][q] \/ slot'[p][q] = 0
           /\ \A p \in Subjects, q \in Requests :
                 Named(p) /\ q # r => slot'[p][q] = slot[p][q]
           /\ Named(s) => slot'[s][r] = 0
<1>1. PICK d \in Requests : d \in Dropped(s, r) /\ slot' = [slot EXCEPT ![s][d] = 0]
  BY DEF GaugeRelease, Dropped
<1>2. Named(s) => d = r
  BY <1>1 DEF Dropped
<1>3. slot \in [Subjects -> [Requests -> Nat]]
  BY DEF TypeOK
<1>4. /\ slot' \in [Subjects -> [Requests -> Nat]]
      /\ \A p \in Subjects, q \in Requests :
            slot'[p][q] = IF p = s /\ q = d THEN 0 ELSE slot[p][q]
  BY <1>1, <1>3, PutEntry
<1> QED
  BY <1>2, <1>4

Befores == [Subjects -> [requests : Nat, concurrency : Nat]]

(* Claim.before of one subject is replaced. *)
LEMMA PutBefore ==
    ASSUME NEW b \in [Requests -> Befores], NEW s \in Subjects, NEW r \in Requests,
           NEW v \in Nat
    PROVE  /\ [b EXCEPT ![r][s].requests = v] \in [Requests -> Befores]
           /\ [b EXCEPT ![r][s].concurrency = v] \in [Requests -> Befores]
<1>1. b[r] \in Befores /\ b[r][s] \in [requests : Nat, concurrency : Nat]
  BY DEF Befores
<1>2. /\ [b[r][s] EXCEPT !.requests = v] \in [requests : Nat, concurrency : Nat]
      /\ [b[r][s] EXCEPT !.concurrency = v] \in [requests : Nat, concurrency : Nat]
  BY <1>1
<1>3. ASSUME NEW c \in [requests : Nat, concurrency : Nat]
      PROVE  [b EXCEPT ![r] = [b[r] EXCEPT ![s] = c]] \in [Requests -> Befores]
  <2>1. [b[r] EXCEPT ![s] = c] \in Befores
    BY <1>1 DEF Befores
  <2> QED
    BY <2>1
<1> QED
  BY <1>2, <1>3

(* The locals of an admission that has none are typed. *)
LEMMA NoClaimsTyped == NoClaims \in [Subjects -> [requests : Nat, concurrency : Nat]]
BY DEF NoClaims

-----------------------------------------------------------------------------
(* Types *)

(* The initial state is typed. *)
LEMMA AdmissionInitTyped == Init => TypeOK
<1> SUFFICES ASSUME Init PROVE TypeOK
  OBVIOUS
<1>1. pc \in [Requests -> Phases]
  BY DEF Init, Phases, Settled
<1>2. /\ now \in Nat \ {0} /\ faults \in Nat
      /\ at \in [Requests -> Nat] /\ due \in [Requests -> Nat]
      /\ orphaned \in [Requests -> Nat]
  BY DEF Init
<1>3. claimed \in [Requests -> SUBSET Subjects] /\ renewing \in [Requests -> SUBSET Subjects]
  BY DEF Init
<1>4. /\ ring \in [Subjects -> [Requests -> Nat]] /\ slot \in [Subjects -> [Requests -> Nat]]
      /\ missed \in [Subjects -> [Requests -> Nat]]
  BY DEF Init
<1>5. before \in [Requests -> [Subjects -> [requests : Nat, concurrency : Nat]]]
  BY NoClaimsTyped DEF Init
<1> QED
  BY <1>1, <1>2, <1>3, <1>4, <1>5 DEF TypeOK

(* Every action is typed, from where the requests are. *)
LEMMA AdmissionTypedStep ==
    ASSUME TypeOK, PlaceInv, [Next]_vars
    PROVE  TypeOK'
<1> USE DEF coordVars, claimVars, timerVars, histVars, Fault
<1>0. \A r \in Requests : subjectsOf(r) \subseteq Subjects /\ NamedSlots(r) \subseteq Subjects
  BY NextSubject
<1>1. ASSUME NEW r \in Requests, Begin(r) PROVE TypeOK'
  BY <1>1 DEF TypeOK, Begin, Phases, Settled
<1>2. ASSUME NEW r \in Requests, ClaimWindow(r) PROVE TypeOK'
  <2> DEFINE s == First(subjectsOf(r) \ claimed[r])
  <2>1. /\ WindowClaim(s, r) /\ pc' = [pc EXCEPT ![r] = "gauge"]
        /\ s \in Subjects
    BY <1>2, NextSubject DEF ClaimWindow, PlaceInv
  <2> HIDE DEF s
  <2>2. Cardinality(InRing(s, at[r]) \ {r}) \in Nat
    BY RequestsCount DEF InRing
  <2>3. before' \in [Requests -> [Subjects -> [requests : Nat, concurrency : Nat]]]
    BY <2>1, <2>2, PutBefore DEF TypeOK, WindowClaim, Befores
  <2>4. ring' \in [Subjects -> [Requests -> Nat]]
    <3> DEFINE row == [q \in Requests |-> IF q = r THEN at[r]
                                    ELSE IF q \in InRing(s, at[r]) THEN ring[s][q] ELSE 0]
    <3>1. ring' = [ring EXCEPT ![s] = row]
      BY <2>1 DEF WindowClaim
    <3>2. row \in [Requests -> Nat]
      BY <2>1 DEF TypeOK
    <3> HIDE DEF row
    <3> QED
      BY <3>1, <3>2 DEF TypeOK
  <2> QED
    BY <1>2, <2>1, <2>3, <2>4 DEF TypeOK, ClaimWindow, Phases
<1>3. ASSUME NEW r \in Requests, ClaimGauge(r) PROVE TypeOK'
  <2> DEFINE s == First(subjectsOf(r) \ claimed[r])
  <2>1. /\ pc' = [pc EXCEPT ![r] = AfterClaim(r, s)]
        /\ claimed' = [claimed EXCEPT ![r] = @ \union {s}]
        /\ GaugeAcquire(s, r) \/ UNCHANGED <<slot, before>>
        /\ UNCHANGED <<now, ring, at, due, renewing, missed, orphaned, faults>>
        /\ s \in Subjects
    BY <1>3, NextSubject DEF ClaimGauge, PlaceInv
  <2> HIDE DEF s
  <2>2. Cardinality(Others(s, r)) \in Nat
    BY RequestsCount DEF Others
  <2>3. before' \in [Requests -> [Subjects -> [requests : Nat, concurrency : Nat]]]
    <3>1. CASE GaugeAcquire(s, r)
      BY <2>1, <2>2, <3>1, PutBefore DEF TypeOK, GaugeAcquire, Befores
    <3>2. CASE UNCHANGED before
      BY <3>2 DEF TypeOK
    <3> QED
      BY <2>1, <3>1, <3>2
  <2>4. slot' \in [Subjects -> [Requests -> Nat]]
    <3>1. now + GaugeTtl \in Nat
      BY TimesTyped DEF TypeOK
    <3>2. CASE GaugeAcquire(s, r)
      BY <2>1, <3>1, <3>2, PutEntry DEF TypeOK, GaugeAcquire
    <3>3. CASE UNCHANGED slot
      BY <3>3 DEF TypeOK
    <3> QED
      BY <2>1, <3>2, <3>3
  <2>5. AfterClaim(r, s) \in Phases
    BY DEF AfterClaim, Phases
  <2> QED
    BY <2>1, <2>3, <2>4, <2>5 DEF TypeOK
<1>4. ASSUME NEW r \in Requests, ClaimFails(r) PROVE TypeOK'
  <2>1. AfterRollback(claimed[r]) \in Phases
    BY DEF AfterRollback, Phases, Settled
  <2>2. ring' \in [Subjects -> [Requests -> Nat]]
    BY <1>4 DEF ClaimFails, WindowRollback, TypeOK
  <2>3. before' \in [Requests -> [Subjects -> [requests : Nat, concurrency : Nat]]]
    BY <1>4, NoClaimsTyped DEF ClaimFails, TypeOK
  <2> QED
    BY <1>4, <2>1, <2>2, <2>3 DEF TypeOK, ClaimFails
<1>5. ASSUME NEW r \in Requests, Admit(r) PROVE TypeOK'
  <2>1. before' \in [Requests -> [Subjects -> [requests : Nat, concurrency : Nat]]]
    BY <1>5, NoClaimsTyped DEF Admit, TypeOK
  <2> QED
    BY <1>5, <2>1, TimesTyped DEF TypeOK, Admit, Phases, Settled
<1>6. ASSUME NEW r \in Requests, Refuse(r) PROVE TypeOK'
  <2>1. before' \in [Requests -> [Subjects -> [requests : Nat, concurrency : Nat]]]
    BY <1>6, NoClaimsTyped DEF Refuse, TypeOK
  <2> QED
    BY <1>6, <2>1 DEF TypeOK, Refuse, Phases
<1>7. ASSUME NEW r \in Requests, RollbackWindow(r) PROVE TypeOK'
  <2> DEFINE s == First(claimed[r])
  <2>1. /\ WindowRollback(s, r) \/ ring' = ring
        /\ orphaned' = orphaned \/ orphaned' = [orphaned EXCEPT ![r] = now]
        /\ faults' = faults \/ faults' = faults + 1
        /\ pc' = [pc EXCEPT ![r] = "rollbackGauge"]
        /\ UNCHANGED <<now, slot, at, claimed, before, due, renewing, missed>>
    BY <1>7 DEF RollbackWindow, Fault, histVars, claimVars, timerVars
  <2> HIDE DEF s
  <2>2. ring' \in [Subjects -> [Requests -> Nat]]
    <3>1. CASE WindowRollback(s, r)
      BY <3>1 DEF TypeOK, WindowRollback
    <3>2. CASE ring' = ring
      BY <3>2 DEF TypeOK
    <3> QED
      BY <2>1, <3>1, <3>2
  <2>3. pc' \in [Requests -> Phases]
    BY <2>1 DEF TypeOK, Phases
  <2>4. orphaned' \in [Requests -> Nat] /\ faults' \in Nat
    BY <2>1 DEF TypeOK
  <2> QED
    BY <2>1, <2>2, <2>3, <2>4 DEF TypeOK
<1>8. ASSUME NEW r \in Requests, RollbackGauge(r) PROVE TypeOK'
  <2> DEFINE s == First(claimed[r])
  <2>1. /\ GaugeRelease(s, r) \/ UNCHANGED slot
        /\ orphaned' = orphaned \/ orphaned' = [orphaned EXCEPT ![r] = now]
        /\ faults' = faults \/ faults' = faults + 1
        /\ claimed' = [claimed EXCEPT ![r] = @ \ {s}]
        /\ pc' = [pc EXCEPT ![r] = AfterRollback(claimed[r] \ {s})]
        /\ UNCHANGED <<now, ring, at, before, due, renewing, missed>>
    BY <1>8 DEF RollbackGauge
  <2>2. s \in Subjects
    BY <1>8, NextSubject DEF RollbackGauge, PlaceInv, TypeOK
  <2>3. slot' \in [Subjects -> [Requests -> Nat]]
    BY <2>1, <2>2, ReleaseEffect DEF TypeOK
  <2>4. AfterRollback(claimed[r] \ {s}) \in Phases
    BY DEF AfterRollback, Phases, Settled
  <2>5. claimed' \in [Requests -> SUBSET Subjects]
    BY <2>1 DEF TypeOK
  <2>6. pc' \in [Requests -> Phases]
    BY <2>1, <2>4 DEF TypeOK
  <2>7. orphaned' \in [Requests -> Nat]
    BY <2>1 DEF TypeOK
  <2>8. faults' \in Nat
    BY <2>1 DEF TypeOK
  <2> QED
    BY <2>1, <2>3, <2>5, <2>6, <2>7, <2>8 DEF TypeOK
<1>9. ASSUME NEW r \in Requests, TimerFires(r) PROVE TypeOK'
  <2>1. due' \in [Requests -> Nat]
    BY <1>9, TimesTyped, SMTT(30) DEF TypeOK, TimerFires
  <2>2. renewing' \in [Requests -> SUBSET Subjects]
    BY <1>0, <1>9 DEF TypeOK, TimerFires
  <2> QED
    BY <1>9, <2>1, <2>2 DEF TypeOK, TimerFires
<1>10. ASSUME NEW r \in Requests, RenewSlot(r) PROVE TypeOK'
  <2> DEFINE s == First(renewing[r])
  <2>1. /\ renewing' = [renewing EXCEPT ![r] = @ \ {s}]
        /\ GaugeRenew(s, r) \/ UNCHANGED slot
        /\ missed' = [missed EXCEPT ![s][r] = 0] \/ missed' = [missed EXCEPT ![s][r] = @ + 1]
        /\ UNCHANGED <<now, pc, ring, at, claimed, before, due, orphaned, faults>>
    BY <1>10 DEF RenewSlot
  <2>2. s \in Subjects
    BY <1>0, <1>10, FirstIn DEF RenewSlot, PlaceInv, Placed
  <2>3. slot' \in [Subjects -> [Requests -> Nat]]
    <3>1. (IF Live(s, r) THEN now + GaugeTtl ELSE 0) \in Nat
      BY TimesTyped DEF TypeOK
    <3>2. CASE GaugeRenew(s, r)
      BY <2>2, <3>1, <3>2, PutEntry DEF TypeOK, GaugeRenew
    <3>3. CASE UNCHANGED slot
      BY <3>3 DEF TypeOK
    <3> QED
      BY <2>1, <3>2, <3>3
  <2>4. missed' \in [Subjects -> [Requests -> Nat]]
    <3>1. missed[s][r] + 1 \in Nat
      BY <2>2 DEF TypeOK
    <3>2. CASE missed' = [missed EXCEPT ![s][r] = 0]
      BY <2>2, <3>2, PutEntry DEF TypeOK
    <3>3. CASE missed' = [missed EXCEPT ![s][r] = @ + 1]
      BY <2>2, <3>1, <3>3, PutEntry DEF TypeOK
    <3> QED
      BY <2>1, <3>2, <3>3
  <2>5. renewing' \in [Requests -> SUBSET Subjects]
    BY <2>1 DEF TypeOK
  <2> QED
    BY <2>1, <2>3, <2>4, <2>5 DEF TypeOK
<1>11. ASSUME NEW r \in Requests, Release(r) PROVE TypeOK'
  BY <1>11 DEF TypeOK, Release, Phases, Settled
<1>15. ASSUME NEW r \in Requests, ReleaseSlot(r) PROVE TypeOK'
  <2> DEFINE s == First(claimed[r])
  <2>1. /\ GaugeRelease(s, r) \/ UNCHANGED slot
        /\ orphaned' = orphaned \/ orphaned' = [orphaned EXCEPT ![r] = now]
        /\ faults' = faults \/ faults' = faults + 1
        /\ claimed' = [claimed EXCEPT ![r] = @ \ {s}]
        /\ pc' = [pc EXCEPT ![r] = IF claimed[r] = {s} THEN "done" ELSE @]
        /\ UNCHANGED <<now, ring, at, before, due, renewing, missed>>
    BY <1>15 DEF ReleaseSlot
  <2>2. s \in Subjects
    BY <1>15, NextSubject DEF ReleaseSlot, PlaceInv, TypeOK
  <2>3. slot' \in [Subjects -> [Requests -> Nat]]
    BY <2>1, <2>2, ReleaseEffect DEF TypeOK
  <2>4. claimed' \in [Requests -> SUBSET Subjects]
    BY <2>1 DEF TypeOK
  <2>5. pc' \in [Requests -> Phases]
    BY <2>1 DEF TypeOK, Phases, Settled
  <2>6. orphaned' \in [Requests -> Nat]
    BY <2>1 DEF TypeOK
  <2>7. faults' \in Nat
    BY <2>1 DEF TypeOK
  <2> QED
    BY <2>1, <2>3, <2>4, <2>5, <2>6, <2>7 DEF TypeOK
<1>12. ASSUME NEW p \in Processes, Crash(p) PROVE TypeOK'
  <2>1. before' \in [Requests -> [Subjects -> [requests : Nat, concurrency : Nat]]]
    BY <1>12, NoClaimsTyped DEF Crash, TypeOK
  <2> QED
    BY <1>12, <2>1 DEF TypeOK, Crash, Phases, Settled
<1>13. CASE Tick
  <2>1. slot' \in [Subjects -> [Requests -> Nat]]
    BY <1>13 DEF Tick, Lapse, TypeOK
  <2> QED
    BY <1>13, <2>1 DEF TypeOK, Tick
<1>14. CASE UNCHANGED vars
  BY <1>14 DEF TypeOK, vars
<1> QED
  BY <1>1, <1>2, <1>3, <1>4, <1>5, <1>6, <1>7, <1>8, <1>9, <1>10, <1>11, <1>12, <1>13,
     <1>14, <1>15 DEF Next

-----------------------------------------------------------------------------
(* What each action does, point by point *)

(* The request q is left where it is. *)
Untouched(q) ==
    /\ pc'[q] = pc[q] /\ at'[q] = at[q] /\ claimed'[q] = claimed[q]
    /\ before'[q] = before[q] /\ due'[q] = due[q] /\ renewing'[q] = renewing[q]
    /\ orphaned'[q] = orphaned[q]
    /\ \A s \in Subjects : missed'[s][q] = missed[s][q]

OthersUntouched(r) == \A q \in Requests \ {r} : Untouched(q)

(* Nothing of r but its place and the locals named by the caller moves. *)
SameTimer(r) ==
    /\ due'[r] = due[r] /\ renewing'[r] = renewing[r]
    /\ \A s \in Subjects : missed'[s][r] = missed[s][r]

(* Begin: a place and a clock reading. *)
LEMMA BeginDoes ==
    ASSUME TypeOK, NEW r \in Requests, Begin(r)
    PROVE  /\ pc[r] = "idle" /\ at'[r] = now
           /\ pc'[r] = IF subjectsOf(r) = {} THEN "done" ELSE "window"
           /\ claimed'[r] = claimed[r] /\ before'[r] = before[r] /\ orphaned'[r] = orphaned[r]
           /\ SameTimer(r) /\ OthersUntouched(r)
           /\ UNCHANGED <<now, ring, slot>>
BY DEF TypeOK, Begin, SameTimer, OthersUntouched, Untouched, coordVars, timerVars, histVars

(* ClaimWindow: the next subject's ring is pruned and stamped. *)
LEMMA ClaimWindowDoes ==
    ASSUME TypeOK, PlaceInv, NEW r \in Requests, ClaimWindow(r)
    PROVE  LET s == First(subjectsOf(r) \ claimed[r]) IN
           /\ pc[r] = "window" /\ pc'[r] = "gauge"
           /\ s \in subjectsOf(r) \ claimed[r] /\ s \in Subjects
           /\ at'[r] = at[r] /\ claimed'[r] = claimed[r] /\ orphaned'[r] = orphaned[r]
           /\ before'[r][s].requests = Cardinality(InRing(s, at[r]) \ {r})
           /\ before'[r][s].concurrency = before[r][s].concurrency
           /\ \A p \in Subjects \ {s} : before'[r][p] = before[r][p]
           /\ ring'[s][r] = at[r]
           /\ \A q \in Requests \ {r} :
                 ring'[s][q] = IF q \in InRing(s, at[r]) THEN ring[s][q] ELSE 0
           /\ \A p \in Subjects \ {s} : ring'[p] = ring[p]
           /\ SameTimer(r) /\ OthersUntouched(r)
           /\ UNCHANGED <<now, slot>>
<1> DEFINE s == First(subjectsOf(r) \ claimed[r])
<1>1. /\ pc[r] = "window" /\ WindowClaim(s, r) /\ pc' = [pc EXCEPT ![r] = "gauge"]
      /\ UNCHANGED <<now, slot, at, claimed, due, renewing, missed, orphaned, faults>>
  BY DEF ClaimWindow, timerVars, histVars
<1>2. s \in subjectsOf(r) \ claimed[r] /\ s \in Subjects
  BY <1>1, NextSubject DEF PlaceInv
<1> HIDE DEF s
<1>3. /\ before' = [before EXCEPT ![r][s].requests = Cardinality(InRing(s, at[r]) \ {r})]
      /\ ring' = [ring EXCEPT ![s] =
                    [q \in Requests |-> IF q = r THEN at[r]
                                        ELSE IF q \in InRing(s, at[r]) THEN ring[s][q] ELSE 0]]
  BY <1>1 DEF WindowClaim
<1>4. /\ before'[r][s].requests = Cardinality(InRing(s, at[r]) \ {r})
      /\ before'[r][s].concurrency = before[r][s].concurrency
      /\ \A p \in Subjects \ {s} : before'[r][p] = before[r][p]
      /\ \A q \in Requests \ {r} : before'[q] = before[q]
  BY <1>2, <1>3 DEF TypeOK
<1>5. /\ ring'[s][r] = at[r]
      /\ \A q \in Requests \ {r} :
           ring'[s][q] = IF q \in InRing(s, at[r]) THEN ring[s][q] ELSE 0
      /\ \A p \in Subjects \ {s} : ring'[p] = ring[p]
  BY <1>2, <1>3 DEF TypeOK
<1>6. SameTimer(r) /\ OthersUntouched(r)
  BY <1>1, <1>4 DEF TypeOK, SameTimer, OthersUntouched, Untouched
<1>7. pc'[r] = "gauge" /\ at'[r] = at[r] /\ claimed'[r] = claimed[r] /\ orphaned'[r] = orphaned[r]
  BY <1>1 DEF TypeOK
<1> QED
  BY <1>1, <1>2, <1>4, <1>5, <1>6, <1>7 DEF s

(* ClaimGauge: the next subject's slot is acquired, but by count_tokens. *)
LEMMA ClaimGaugeDoes ==
    ASSUME TypeOK, PlaceInv, NEW r \in Requests, ClaimGauge(r)
    PROVE  LET s == First(subjectsOf(r) \ claimed[r]) IN
           /\ pc[r] = "gauge"
           /\ s \in subjectsOf(r) \ claimed[r] /\ s \in Subjects
           /\ claimed'[r] = claimed[r] \union {s}
           /\ pc'[r] = IF claimed'[r] = subjectsOf(r) THEN "judge" ELSE "window"
           /\ at'[r] = at[r] /\ orphaned'[r] = orphaned[r]
           /\ \/ /\ r \notin CountTokens
                 /\ before'[r][s].concurrency = Cardinality(Others(s, r))
                 /\ before'[r][s].requests = before[r][s].requests
                 /\ \A p \in Subjects \ {s} : before'[r][p] = before[r][p]
                 /\ slot'[s][r] = now + GaugeTtl
                 /\ \A q \in Requests \ {r} : slot'[s][q] = slot[s][q]
                 /\ \A p \in Subjects \ {s} : slot'[p] = slot[p]
              \/ r \in CountTokens /\ slot' = slot /\ before'[r] = before[r]
           /\ SameTimer(r) /\ OthersUntouched(r)
           /\ UNCHANGED <<now, ring>>
<1> DEFINE s == First(subjectsOf(r) \ claimed[r])
<1>1. /\ pc[r] = "gauge" /\ claimed' = [claimed EXCEPT ![r] = @ \union {s}]
      /\ pc' = [pc EXCEPT ![r] = AfterClaim(r, s)]
      /\ UNCHANGED <<now, ring, at, due, renewing, missed, orphaned, faults>>
  BY DEF ClaimGauge, timerVars, histVars
<1>2. s \in subjectsOf(r) \ claimed[r] /\ s \in Subjects
  BY <1>1, NextSubject DEF PlaceInv
<1>3. \/ r \notin CountTokens /\ GaugeAcquire(s, r)
      \/ r \in CountTokens /\ UNCHANGED <<slot, before>>
  BY DEF ClaimGauge
<1> HIDE DEF s
<1>4. claimed'[r] = claimed[r] \union {s} /\ pc'[r] = AfterClaim(r, s)
  BY <1>1 DEF TypeOK
<1>5. pc'[r] = IF claimed'[r] = subjectsOf(r) THEN "judge" ELSE "window"
  BY <1>4 DEF AfterClaim
<1>6. ASSUME GaugeAcquire(s, r)
      PROVE  /\ before'[r][s].concurrency = Cardinality(Others(s, r))
             /\ before'[r][s].requests = before[r][s].requests
             /\ \A p \in Subjects \ {s} : before'[r][p] = before[r][p]
             /\ \A q \in Requests \ {r} : before'[q] = before[q]
             /\ slot'[s][r] = now + GaugeTtl
             /\ \A q \in Requests \ {r} : slot'[s][q] = slot[s][q]
             /\ \A p \in Subjects \ {s} : slot'[p] = slot[p]
  BY <1>2, <1>6 DEF TypeOK, GaugeAcquire
<1>7. \A q \in Requests \ {r} : before'[q] = before[q]
  BY <1>3, <1>6
<1>8. SameTimer(r) /\ OthersUntouched(r)
  BY <1>1, <1>7 DEF TypeOK, SameTimer, OthersUntouched, Untouched
<1>9. at'[r] = at[r] /\ orphaned'[r] = orphaned[r]
  BY <1>1
<1> QED
  BY <1>1, <1>2, <1>3, <1>4, <1>5, <1>6, <1>8, <1>9 DEF s

(* ClaimFails: the stamp of the subject being claimed goes back. *)
LEMMA ClaimFailsDoes ==
    ASSUME TypeOK, PlaceInv, NEW r \in Requests, ClaimFails(r)
    PROVE  LET s == First(subjectsOf(r) \ claimed[r]) IN
           /\ pc[r] = "gauge"
           /\ s \in subjectsOf(r) \ claimed[r] /\ s \in Subjects
           /\ pc'[r] = IF claimed[r] = {} THEN "refused" ELSE "rollback"
           /\ at'[r] = at[r] /\ claimed'[r] = claimed[r] /\ orphaned'[r] = orphaned[r]
           /\ ring'[s][r] = 0
           /\ \A p \in Subjects, q \in Requests : p # s \/ q # r => ring'[p][q] = ring[p][q]
           /\ SameTimer(r) /\ OthersUntouched(r)
           /\ UNCHANGED <<now, slot>>
<1> DEFINE s == First(subjectsOf(r) \ claimed[r])
<1>1. /\ pc[r] = "gauge" /\ WindowRollback(s, r)
      /\ before' = [before EXCEPT ![r] = NoClaims]
      /\ pc' = [pc EXCEPT ![r] = AfterRollback(claimed[r])]
      /\ UNCHANGED <<now, slot, at, claimed, due, renewing, missed, orphaned>>
  BY DEF ClaimFails, timerVars
<1>2. s \in subjectsOf(r) \ claimed[r] /\ s \in Subjects
  BY <1>1, NextSubject DEF PlaceInv
<1> HIDE DEF s
<1>3. /\ ring'[s][r] = 0
      /\ \A p \in Subjects, q \in Requests : p # s \/ q # r => ring'[p][q] = ring[p][q]
  BY <1>1, <1>2 DEF WindowRollback, TypeOK
<1>4. SameTimer(r) /\ OthersUntouched(r)
  BY <1>1 DEF TypeOK, SameTimer, OthersUntouched, Untouched
<1>5. /\ pc'[r] = IF claimed[r] = {} THEN "refused" ELSE "rollback"
      /\ at'[r] = at[r] /\ claimed'[r] = claimed[r] /\ orphaned'[r] = orphaned[r]
  BY <1>1 DEF TypeOK, AfterRollback
<1> QED
  BY <1>1, <1>2, <1>3, <1>4, <1>5 DEF s

(* Admit: a dispatched request is held, with a timer for named slots. *)
LEMMA AdmitDoes ==
    ASSUME TypeOK, NEW r \in Requests, Admit(r)
    PROVE  /\ pc[r] = "judge" /\ Within(r)
           /\ pc'[r] = IF r \in CountTokens THEN "done" ELSE "held"
           /\ claimed'[r] = IF r \in CountTokens THEN {} ELSE claimed[r]
           /\ before'[r] = NoClaims
           /\ due'[r] = IF r \in CountTokens \/ NamedSlots(r) = {} THEN 0 ELSE now + RenewInterval
           /\ at'[r] = at[r] /\ orphaned'[r] = orphaned[r] /\ renewing'[r] = renewing[r]
           /\ \A s \in Subjects : missed'[s][r] = missed[s][r]
           /\ OthersUntouched(r)
           /\ UNCHANGED <<now, ring, slot>>
BY DEF TypeOK, Admit, OthersUntouched, Untouched, coordVars, histVars

(* Refuse: the claims are to be given back. *)
LEMMA RefuseDoes ==
    ASSUME TypeOK, NEW r \in Requests, Refuse(r)
    PROVE  /\ pc[r] = "judge" /\ pc'[r] = "rollback"
           /\ claimed'[r] = claimed[r] /\ at'[r] = at[r] /\ orphaned'[r] = orphaned[r]
           /\ SameTimer(r) /\ OthersUntouched(r)
           /\ UNCHANGED <<now, ring, slot>>
BY DEF TypeOK, Refuse, SameTimer, OthersUntouched, Untouched, coordVars, timerVars, histVars

(* RollbackWindow: the stamp of one claimed subject goes, or is orphaned. *)
LEMMA RollbackWindowDoes ==
    ASSUME TypeOK, PlaceInv, NEW r \in Requests, RollbackWindow(r)
    PROVE  LET s == First(claimed[r]) IN
           /\ pc[r] = "rollback" /\ pc'[r] = "rollbackGauge"
           /\ s \in claimed[r] /\ s \in Subjects
           /\ claimed'[r] = claimed[r] /\ at'[r] = at[r]
           /\ \/ ring'[s][r] = 0 /\ orphaned'[r] = orphaned[r]
              \/ ring' = ring /\ orphaned'[r] = now
           /\ \A p \in Subjects, q \in Requests : p # s \/ q # r => ring'[p][q] = ring[p][q]
           /\ SameTimer(r) /\ OthersUntouched(r)
           /\ UNCHANGED <<now, slot>>
<1> DEFINE s == First(claimed[r])
<1>1. /\ pc[r] = "rollback"
      /\ \/ WindowRollback(s, r) /\ orphaned' = orphaned
         \/ orphaned' = [orphaned EXCEPT ![r] = now] /\ ring' = ring
      /\ pc' = [pc EXCEPT ![r] = "rollbackGauge"]
      /\ UNCHANGED <<now, slot, at, claimed, before, due, renewing, missed>>
  BY DEF RollbackWindow, timerVars, claimVars, histVars
<1>2. s \in claimed[r] /\ s \in Subjects
  BY <1>1, NextSubject DEF PlaceInv, TypeOK
<1> HIDE DEF s
<1>3. /\ \/ ring'[s][r] = 0 /\ orphaned'[r] = orphaned[r]
         \/ ring' = ring /\ orphaned'[r] = now
      /\ \A p \in Subjects, q \in Requests : p # s \/ q # r => ring'[p][q] = ring[p][q]
  <2>1. CASE WindowRollback(s, r) /\ orphaned' = orphaned
    BY <1>2, <2>1 DEF WindowRollback, TypeOK
  <2>2. CASE orphaned' = [orphaned EXCEPT ![r] = now] /\ ring' = ring
    BY <2>2 DEF TypeOK
  <2> QED
    BY <1>1, <2>1, <2>2
<1>4. SameTimer(r) /\ OthersUntouched(r)
  <2>1. \A q \in Requests \ {r} : orphaned'[q] = orphaned[q]
    BY <1>1 DEF TypeOK
  <2> QED
    BY <1>1, <2>1 DEF TypeOK, SameTimer, OthersUntouched, Untouched
<1>5. /\ pc'[r] = "rollbackGauge"
      /\ at'[r] = at[r] /\ claimed'[r] = claimed[r]
  BY <1>1 DEF TypeOK
<1> QED
  BY <1>1, <1>2, <1>3, <1>4, <1>5 DEF s

(* No slot is raised; with a name, only r's may go. *)
SlotsOnlyGo(r) ==
    \A s \in Subjects, q \in Requests :
        /\ slot'[s][q] = slot[s][q] \/ slot'[s][q] = 0
        /\ Named(s) /\ q # r => slot'[s][q] = slot[s][q]

(* RollbackGauge: the slot of that subject goes too, or is orphaned. *)
LEMMA RollbackGaugeDoes ==
    ASSUME TypeOK, PlaceInv, NEW r \in Requests, RollbackGauge(r)
    PROVE  LET s == First(claimed[r]) IN
           /\ pc[r] = "rollbackGauge"
           /\ s \in claimed[r] /\ s \in Subjects
           /\ claimed'[r] = claimed[r] \ {s}
           /\ pc'[r] = IF claimed'[r] = {} THEN "refused" ELSE "rollback"
           /\ at'[r] = at[r] /\ before'[r] = before[r]
           /\ SlotsOnlyGo(r)
           /\ \/ r \in CountTokens /\ slot' = slot /\ orphaned'[r] = orphaned[r]
              \/ (Named(s) => slot'[s][r] = 0) /\ orphaned'[r] = orphaned[r]
              \/ orphaned'[r] = now /\ slot' = slot
           /\ SameTimer(r) /\ OthersUntouched(r)
           /\ UNCHANGED <<now, ring>>
<1> DEFINE s == First(claimed[r])
<1>1. /\ pc[r] = "rollbackGauge"
      /\ claimed' = [claimed EXCEPT ![r] = @ \ {s}]
      /\ pc' = [pc EXCEPT ![r] = AfterRollback(claimed[r] \ {s})]
      /\ UNCHANGED <<now, ring, at, before, due, renewing, missed>>
  BY DEF RollbackGauge, timerVars
<1>2. \/ r \in CountTokens /\ UNCHANGED <<slot, orphaned>>
      \/ GaugeRelease(s, r) /\ UNCHANGED orphaned
      \/ orphaned' = [orphaned EXCEPT ![r] = now] /\ UNCHANGED slot
  BY DEF RollbackGauge, histVars
<1>3. s \in claimed[r] /\ s \in Subjects
  BY <1>1, NextSubject DEF PlaceInv, TypeOK
<1> HIDE DEF s
<1>4. ASSUME GaugeRelease(s, r) PROVE SlotsOnlyGo(r) /\ (Named(s) => slot'[s][r] = 0)
  BY <1>3, <1>4, ReleaseEffect DEF SlotsOnlyGo
<1>5. ASSUME slot' = slot PROVE SlotsOnlyGo(r)
  BY <1>5 DEF SlotsOnlyGo
<1>6. /\ SlotsOnlyGo(r)
      /\ \/ r \in CountTokens /\ slot' = slot /\ orphaned'[r] = orphaned[r]
         \/ (Named(s) => slot'[s][r] = 0) /\ orphaned'[r] = orphaned[r]
         \/ orphaned'[r] = now /\ slot' = slot
      /\ \A q \in Requests \ {r} : orphaned'[q] = orphaned[q]
  <2>1. CASE r \in CountTokens /\ UNCHANGED <<slot, orphaned>>
    BY <2>1, <1>5
  <2>2. CASE GaugeRelease(s, r) /\ UNCHANGED orphaned
    BY <2>2, <1>4
  <2>3. CASE orphaned' = [orphaned EXCEPT ![r] = now] /\ UNCHANGED slot
    <3>1. orphaned'[r] = now /\ \A q \in Requests \ {r} : orphaned'[q] = orphaned[q]
      BY <2>3 DEF TypeOK
    <3> QED
      BY <2>3, <3>1, <1>5
  <2> QED
    BY <1>2, <2>1, <2>2, <2>3
<1>7. SameTimer(r) /\ OthersUntouched(r)
  BY <1>1, <1>6 DEF TypeOK, SameTimer, OthersUntouched, Untouched
<1>8. /\ claimed'[r] = claimed[r] \ {s}
      /\ pc'[r] = IF claimed'[r] = {} THEN "refused" ELSE "rollback"
      /\ at'[r] = at[r] /\ before'[r] = before[r]
  BY <1>1 DEF TypeOK, AfterRollback
<1> QED
  BY <1>1, <1>3, <1>6, <1>7, <1>8 DEF s

(* TimerFires: renewal is over, or every named slot is to be renewed. *)
LEMMA TimerFiresDoes ==
    ASSUME TypeOK, NEW r \in Requests, TimerFires(r)
    PROVE  /\ pc[r] = "held" /\ due[r] # 0 /\ now >= due[r]
           /\ \/ now >= at[r] + MaxRenewed /\ due'[r] = 0 /\ renewing'[r] = renewing[r]
              \/ /\ now < at[r] + MaxRenewed
                 /\ due'[r] = due[r] + RenewInterval
                 /\ renewing'[r] = NamedSlots(r)
           /\ pc'[r] = pc[r] /\ at'[r] = at[r] /\ claimed'[r] = claimed[r]
           /\ before'[r] = before[r] /\ orphaned'[r] = orphaned[r]
           /\ \A s \in Subjects : missed'[s][r] = missed[s][r]
           /\ OthersUntouched(r)
           /\ UNCHANGED <<now, ring, slot>>
<1>1. /\ pc[r] = "held" /\ due[r] # 0 /\ now >= due[r]
      /\ UNCHANGED <<now, pc, ring, slot, at, claimed, before, missed, orphaned>>
  BY DEF TimerFires, coordVars, claimVars, histVars
<1>2. \/ /\ now >= at[r] + MaxRenewed
         /\ due' = [due EXCEPT ![r] = 0] /\ renewing' = renewing
      \/ /\ now < at[r] + MaxRenewed
         /\ due' = [due EXCEPT ![r] = @ + RenewInterval]
         /\ renewing' = [renewing EXCEPT ![r] = NamedSlots(r)]
  <2>1. now \in Nat /\ at[r] + MaxRenewed \in Nat
    BY TimesTyped DEF TypeOK
  <2>2. now < at[r] + MaxRenewed \/ now >= at[r] + MaxRenewed
    BY <2>1
  <2>3. CASE now >= at[r] + MaxRenewed
    BY <2>3 DEF TimerFires
  <2>4. CASE now < at[r] + MaxRenewed
    <3>1. ~(now >= at[r] + MaxRenewed)
      BY <2>1, <2>4
    <3> QED
      BY <2>4, <3>1 DEF TimerFires
  <2> QED
    BY <2>2, <2>3, <2>4
<1>3. \/ now >= at[r] + MaxRenewed /\ due'[r] = 0 /\ renewing'[r] = renewing[r]
      \/ /\ now < at[r] + MaxRenewed
         /\ due'[r] = due[r] + RenewInterval
         /\ renewing'[r] = NamedSlots(r)
  BY <1>2 DEF TypeOK
<1>4. \A q \in Requests \ {r} : due'[q] = due[q] /\ renewing'[q] = renewing[q]
  BY <1>2 DEF TypeOK
<1>5. OthersUntouched(r)
  BY <1>1, <1>4 DEF OthersUntouched, Untouched
<1> QED
  BY <1>1, <1>3, <1>5

(* RenewSlot: one named slot is moved if it is live, or the command is lost. *)
LEMMA RenewSlotDoes ==
    ASSUME TypeOK, PlaceInv, NEW r \in Requests, RenewSlot(r)
    PROVE  LET s == First(renewing[r]) IN
           /\ s \in renewing[r] /\ s \in NamedSlots(r) /\ s \in Subjects
           /\ renewing'[r] = renewing[r] \ {s}
           /\ \/ /\ slot'[s][r] = IF slot[s][r] # 0 THEN now + GaugeTtl ELSE 0
                 /\ missed'[s][r] = 0
              \/ /\ slot'[s][r] = slot[s][r]
                 /\ missed[s][r] < MaxMissed /\ missed'[s][r] = missed[s][r] + 1
           /\ \A p \in Subjects, q \in Requests :
                 p # s \/ q # r => slot'[p][q] = slot[p][q] /\ missed'[p][q] = missed[p][q]
           /\ pc'[r] = pc[r] /\ at'[r] = at[r] /\ claimed'[r] = claimed[r]
           /\ before'[r] = before[r] /\ due'[r] = due[r] /\ orphaned'[r] = orphaned[r]
           /\ OthersUntouched(r)
           /\ UNCHANGED <<now, ring>>
<1> DEFINE s == First(renewing[r])
<1>1. /\ renewing[r] # {} /\ renewing' = [renewing EXCEPT ![r] = @ \ {s}]
      /\ UNCHANGED <<now, pc, ring, at, claimed, before, due, orphaned>>
  BY DEF RenewSlot, claimVars, histVars
<1>2. \/ GaugeRenew(s, r) /\ missed' = [missed EXCEPT ![s][r] = 0]
      \/ /\ missed[s][r] < MaxMissed
         /\ missed' = [missed EXCEPT ![s][r] = missed[s][r] + 1]
         /\ UNCHANGED slot
  BY DEF RenewSlot
<1>3. s \in renewing[r] /\ s \in NamedSlots(r) /\ s \in Subjects
  BY <1>1, FirstIn DEF PlaceInv, Placed, TypeOK
<1> HIDE DEF s
<1>4. /\ \/ /\ slot'[s][r] = IF slot[s][r] # 0 THEN now + GaugeTtl ELSE 0
            /\ missed'[s][r] = 0
         \/ /\ slot'[s][r] = slot[s][r]
            /\ missed[s][r] < MaxMissed /\ missed'[s][r] = missed[s][r] + 1
      /\ \A p \in Subjects, q \in Requests :
            p # s \/ q # r => slot'[p][q] = slot[p][q] /\ missed'[p][q] = missed[p][q]
  <2>1. CASE GaugeRenew(s, r) /\ missed' = [missed EXCEPT ![s][r] = 0]
    <3> DEFINE v == IF slot[s][r] # 0 THEN now + GaugeTtl ELSE 0
    <3>1. slot' = [slot EXCEPT ![s][r] = v]
      BY <2>1 DEF GaugeRenew, Live
    <3> HIDE DEF v
    <3>2. slot'[s][r] = v /\ missed'[s][r] = 0
      BY <1>3, <2>1, <3>1 DEF TypeOK
    <3>3. \A p \in Subjects, q \in Requests :
            p # s \/ q # r => slot'[p][q] = slot[p][q] /\ missed'[p][q] = missed[p][q]
      BY <1>3, <2>1, <3>1 DEF TypeOK
    <3> QED
      BY <3>2, <3>3 DEF v
  <2>2. CASE /\ missed[s][r] < MaxMissed
             /\ missed' = [missed EXCEPT ![s][r] = missed[s][r] + 1]
             /\ UNCHANGED slot
    <3>1. missed'[s][r] = missed[s][r] + 1
      BY <1>3, <2>2 DEF TypeOK
    <3>2. \A p \in Subjects, q \in Requests :
            p # s \/ q # r => slot'[p][q] = slot[p][q] /\ missed'[p][q] = missed[p][q]
      BY <1>3, <2>2 DEF TypeOK
    <3> QED
      BY <2>2, <3>1, <3>2
  <2> QED
    BY <1>2, <2>1, <2>2
<1>5. renewing'[r] = renewing[r] \ {s} /\ \A q \in Requests \ {r} : renewing'[q] = renewing[q]
  BY <1>1 DEF TypeOK
<1>6. OthersUntouched(r)
  BY <1>1, <1>4, <1>5 DEF OthersUntouched, Untouched
<1> QED
  BY <1>1, <1>3, <1>4, <1>5, <1>6 DEF s

(* Release: the timer goes and the claims wait for their commands. *)
LEMMA ReleaseDoes ==
    ASSUME TypeOK, NEW r \in Requests, Release(r)
    PROVE  /\ pc[r] = "held" /\ pc'[r] = "releasing" /\ due'[r] = 0
           /\ at'[r] = at[r] /\ before'[r] = before[r] /\ renewing'[r] = renewing[r]
           /\ claimed'[r] = claimed[r] /\ orphaned'[r] = orphaned[r]
           /\ \A s \in Subjects : missed'[s][r] = missed[s][r]
           /\ OthersUntouched(r)
           /\ UNCHANGED <<now, ring, slot>>
BY DEF Release, TypeOK, OthersUntouched, Untouched, coordVars, claimVars, histVars

(* ReleaseSlot: the named slot of one claim goes, or is orphaned. *)
LEMMA ReleaseSlotDoes ==
    ASSUME TypeOK, PlaceInv, NEW r \in Requests, ReleaseSlot(r)
    PROVE  LET s == First(claimed[r]) IN
           /\ pc[r] = "releasing"
           /\ s \in claimed[r] /\ s \in Subjects
           /\ claimed'[r] = claimed[r] \ {s}
           /\ pc'[r] = IF claimed'[r] = {} THEN "done" ELSE "releasing"
           /\ at'[r] = at[r] /\ before'[r] = before[r]
           /\ SlotsOnlyGo(r)
           /\ \/ (Named(s) => slot'[s][r] = 0) /\ orphaned'[r] = orphaned[r]
              \/ orphaned'[r] = now /\ slot' = slot
           /\ SameTimer(r) /\ OthersUntouched(r)
           /\ UNCHANGED <<now, ring>>
<1> DEFINE s == First(claimed[r])
<1>1. /\ pc[r] = "releasing"
      /\ claimed' = [claimed EXCEPT ![r] = @ \ {s}]
      /\ pc' = [pc EXCEPT ![r] = IF claimed[r] = {s} THEN "done" ELSE @]
      /\ UNCHANGED <<now, ring, at, before, due, renewing, missed>>
  BY DEF ReleaseSlot, timerVars
<1>2. \/ GaugeRelease(s, r) /\ UNCHANGED orphaned
      \/ orphaned' = [orphaned EXCEPT ![r] = now] /\ UNCHANGED slot
  BY DEF ReleaseSlot, histVars
<1>3. s \in claimed[r] /\ s \in Subjects
  BY <1>1, NextSubject DEF PlaceInv, TypeOK
<1> HIDE DEF s
<1>4. ASSUME GaugeRelease(s, r) PROVE SlotsOnlyGo(r) /\ (Named(s) => slot'[s][r] = 0)
  BY <1>3, <1>4, ReleaseEffect DEF SlotsOnlyGo
<1>5. ASSUME slot' = slot PROVE SlotsOnlyGo(r)
  BY <1>5 DEF SlotsOnlyGo
<1>6. /\ SlotsOnlyGo(r)
      /\ \/ (Named(s) => slot'[s][r] = 0) /\ orphaned'[r] = orphaned[r]
         \/ orphaned'[r] = now /\ slot' = slot
      /\ \A q \in Requests \ {r} : orphaned'[q] = orphaned[q]
  <2>1. CASE GaugeRelease(s, r) /\ UNCHANGED orphaned
    BY <2>1, <1>4
  <2>2. CASE orphaned' = [orphaned EXCEPT ![r] = now] /\ UNCHANGED slot
    <3>1. orphaned'[r] = now /\ \A q \in Requests \ {r} : orphaned'[q] = orphaned[q]
      BY <2>2 DEF TypeOK
    <3> QED
      BY <2>2, <3>1, <1>5
  <2> QED
    BY <1>2, <2>1, <2>2
<1>7. SameTimer(r) /\ OthersUntouched(r)
  BY <1>1, <1>6 DEF TypeOK, SameTimer, OthersUntouched, Untouched
<1>8. claimed'[r] = claimed[r] \ {s} /\ (claimed[r] = {s} <=> claimed[r] \ {s} = {})
  BY <1>1, <1>3 DEF TypeOK
<1>9. /\ pc'[r] = IF claimed'[r] = {} THEN "done" ELSE "releasing"
      /\ at'[r] = at[r] /\ before'[r] = before[r]
  BY <1>1, <1>8 DEF TypeOK
<1> QED
  BY <1>1, <1>3, <1>6, <1>7, <1>8, <1>9 DEF s

(* Crash: every request is left alone, loses only what it was renewing, or *)
(* dies.                                                                   *)
LEMMA CrashDoes ==
    ASSUME TypeOK, NEW p \in Processes, Crash(p), NEW r \in Requests
    PROVE  /\ at'[r] = at[r] /\ UNCHANGED <<now, ring, slot>>
           /\ \A s \in Subjects : missed'[s][r] = missed[s][r]
           /\ renewing'[r] = {} \/ renewing'[r] = renewing[r]
           /\ \/ /\ pc[r] \notin Settled /\ pc'[r] = "crashed" /\ claimed'[r] = {}
                 /\ before'[r] = NoClaims /\ due'[r] = 0 /\ renewing'[r] = {}
                 /\ orphaned'[r] = now
              \/ /\ pc'[r] = pc[r] /\ claimed'[r] = claimed[r] /\ before'[r] = before[r]
                 /\ due'[r] = due[r] /\ orphaned'[r] = orphaned[r]
                 /\ pc[r] \in Settled \/ renewing'[r] = renewing[r]
<1> DEFINE Hit == {q \in Requests : ProcOf[q] = p /\ pc[q] \notin Settled}
<1>1. /\ pc' = [q \in Requests |-> IF q \in Hit THEN "crashed" ELSE pc[q]]
      /\ claimed' = [q \in Requests |-> IF q \in Hit THEN {} ELSE claimed[q]]
      /\ before' = [q \in Requests |-> IF q \in Hit THEN NoClaims ELSE before[q]]
      /\ due' = [q \in Requests |-> IF q \in Hit THEN 0 ELSE due[q]]
      /\ renewing' = [q \in Requests |-> IF ProcOf[q] = p THEN {} ELSE renewing[q]]
      /\ orphaned' = [q \in Requests |-> IF q \in Hit THEN now ELSE orphaned[q]]
      /\ UNCHANGED <<now, ring, slot, at, missed>>
  BY DEF Crash, coordVars
<1>2. renewing'[r] = IF ProcOf[r] = p THEN {} ELSE renewing[r]
  BY <1>1
<1>3. CASE r \in Hit
  <2>1. pc[r] \notin Settled /\ ProcOf[r] = p
    BY <1>3
  <2> HIDE DEF Hit
  <2> QED
    BY <1>1, <1>2, <1>3, <2>1
<1>4. CASE r \notin Hit
  <2>1. pc[r] \in Settled \/ ProcOf[r] # p
    BY <1>4
  <2> HIDE DEF Hit
  <2> QED
    BY <1>1, <1>2, <1>4, <2>1
<1> QED
  BY <1>3, <1>4

(* Tick: the clock moves on, and slots that reach their expiry go. *)
LEMMA TickDoes ==
    ASSUME TypeOK, Tick
    PROVE  /\ now' = now + 1
           /\ \A s \in Subjects, r \in Requests :
                 slot'[s][r] = IF slot[s][r] > now + 1 THEN slot[s][r] ELSE 0
           /\ \A r \in Requests :
                 /\ renewing[r] = {}
                 /\ due[r] # 0 => now < due[r]
                 /\ pc[r] \in Claiming => now < at[r] + ClaimMax
           /\ UNCHANGED <<pc, ring, at, claimed, before, due, renewing, missed, orphaned>>
BY DEF Tick, Lapse, TypeOK, Claiming, claimVars, timerVars, histVars

-----------------------------------------------------------------------------
(* Where each request is *)

(* Nothing of q is raised in the coordinator. *)
NotRaised(q) ==
    \A s \in Subjects : /\ slot'[s][q] = slot[s][q] \/ slot'[s][q] = 0
                        /\ ring'[s][q] = ring[s][q] \/ ring'[s][q] = 0

(* A step of another request leaves a request placed. *)
LEMMA PlaceFrame ==
    ASSUME TypeOK, NEW q \in Requests, Placed(q), Untouched(q), NotRaised(q),
           now' = now \/ now' = now + 1
    PROVE  Placed(q)'
<1>1. at[q] \in Nat /\ now \in Nat
  BY DEF TypeOK
<1>2. (pc[q] # "idle" => 1 <= at[q] /\ at[q] <= now)'
  BY <1>1 DEF Placed, Untouched
<1>3. (pc[q] = "idle" => \A s \in Subjects : slot[s][q] = 0 /\ ring[s][q] = 0)'
  BY DEF Placed, Untouched, NotRaised
<1>4. (pc[q] \in Claiming \union {"idle"} => \A s \in Subjects : missed[s][q] = 0)'
  BY DEF Placed, Untouched
<1>5. (q \in CountTokens => \A s \in Subjects : slot[s][q] = 0)'
  BY DEF Placed, NotRaised
<1> QED
  BY <1>2, <1>3, <1>4, <1>5 DEF Placed, Untouched

(* An action of r, seen from the others: they stay placed if r does. *)
LEMMA PlaceOthers ==
    ASSUME TypeOK, PlaceInv, NEW r \in Requests, OthersUntouched(r),
           \A q \in Requests \ {r} : NotRaised(q), now' = now, Placed(r)'
    PROVE  PlaceInv'
<1> SUFFICES ASSUME NEW q \in Requests PROVE Placed(q)'
  BY DEF PlaceInv
<1>1. CASE q = r
  BY <1>1
<1>2. CASE q # r
  BY <1>2, PlaceFrame DEF PlaceInv, OthersUntouched
<1> QED
  BY <1>1, <1>2

(* Every step keeps requests where their locals say they are. *)
LEMMA PlaceStep ==
    ASSUME TypeOK, PlaceInv, [Next]_vars
    PROVE  PlaceInv'
<1> USE DEF Settled, Claiming, Admitted
<1>0. ASSUME NEW r \in Requests
      PROVE  Placed(r) /\ now \in Nat \ {0} /\ at[r] \in Nat /\ due[r] \in Nat
  BY DEF TypeOK, PlaceInv
<1>1. ASSUME NEW r \in Requests, Begin(r) PROVE PlaceInv'
  <2>1. Placed(r)'
    BY <1>0, <1>1, BeginDoes DEF Placed, SameTimer
  <2>2. \A q \in Requests \ {r} : NotRaised(q)
    BY <1>1, BeginDoes DEF NotRaised
  <2> QED
    BY <1>1, <2>1, <2>2, BeginDoes, PlaceOthers
<1>2. ASSUME NEW r \in Requests, ClaimWindow(r) PROVE PlaceInv'
  <2> DEFINE s == First(subjectsOf(r) \ claimed[r])
  <2>1. /\ pc[r] = "window" /\ pc'[r] = "gauge" /\ s \in Subjects
        /\ at'[r] = at[r] /\ claimed'[r] = claimed[r] /\ orphaned'[r] = orphaned[r]
        /\ SameTimer(r) /\ OthersUntouched(r) /\ now' = now /\ slot' = slot
        /\ \A q \in Requests \ {r} :
              ring'[s][q] = IF q \in InRing(s, at[r]) THEN ring[s][q] ELSE 0
        /\ \A p \in Subjects \ {s} : ring'[p] = ring[p]
    BY <1>2, ClaimWindowDoes
  <2> HIDE DEF s
  <2>2. Placed(r)
    BY <1>0
  <2>3. Placed(r)'
    BY <2>1, <2>2 DEF Placed, SameTimer
  <2>4. \A q \in Requests \ {r} : NotRaised(q)
    BY <2>1 DEF NotRaised
  <2> QED
    BY <2>1, <2>3, <2>4, PlaceOthers
<1>3. ASSUME NEW r \in Requests, ClaimGauge(r) PROVE PlaceInv'
  <2> DEFINE s == First(subjectsOf(r) \ claimed[r])
  <2>1. /\ pc[r] = "gauge" /\ s \in subjectsOf(r) \ claimed[r] /\ s \in Subjects
        /\ claimed'[r] = claimed[r] \union {s}
        /\ pc'[r] = IF claimed'[r] = subjectsOf(r) THEN "judge" ELSE "window"
        /\ at'[r] = at[r] /\ orphaned'[r] = orphaned[r]
        /\ SameTimer(r) /\ OthersUntouched(r) /\ now' = now /\ ring' = ring
        /\ r \in CountTokens => slot' = slot
    BY <1>3, ClaimGaugeDoes
  <2>2. \A p \in Subjects, q \in Requests \ {r} : slot'[p][q] = slot[p][q]
    <3>1. CASE slot' = slot
      BY <3>1
    <3>2. CASE /\ \A q \in Requests \ {r} : slot'[s][q] = slot[s][q]
               /\ \A p \in Subjects \ {s} : slot'[p] = slot[p]
      BY <3>2
    <3> QED
      BY <1>3, <3>1, <3>2, ClaimGaugeDoes
  <2> HIDE DEF s
  <2>3. Placed(r)
    BY <1>0
  <2>4. Placed(r)'
    BY <2>1, <2>3 DEF Placed, SameTimer
  <2>5. \A q \in Requests \ {r} : NotRaised(q)
    BY <2>1, <2>2 DEF NotRaised
  <2> QED
    BY <2>1, <2>4, <2>5, PlaceOthers
<1>4. ASSUME NEW r \in Requests, ClaimFails(r) PROVE PlaceInv'
  <2>1. Placed(r)'
    <3>1. Placed(r)
      BY <1>0
    <3>2. /\ pc[r] = "gauge" /\ now' = now /\ slot' = slot
          /\ pc'[r] = IF claimed[r] = {} THEN "refused" ELSE "rollback"
          /\ at'[r] = at[r] /\ claimed'[r] = claimed[r] /\ orphaned'[r] = orphaned[r]
          /\ SameTimer(r)
      BY <1>4, ClaimFailsDoes
    <3> QED
      BY <3>1, <3>2 DEF Placed, SameTimer
  <2>2. \A q \in Requests \ {r} : NotRaised(q)
    BY <1>4, ClaimFailsDoes DEF NotRaised
  <2> QED
    BY <1>4, <2>1, <2>2, ClaimFailsDoes, PlaceOthers
<1>5. ASSUME NEW r \in Requests, Admit(r) PROVE PlaceInv'
  <2>1. Placed(r)'
    BY <1>0, <1>5, AdmitDoes DEF Placed
  <2>2. \A q \in Requests \ {r} : NotRaised(q)
    BY <1>5, AdmitDoes DEF NotRaised
  <2> QED
    BY <1>5, <2>1, <2>2, AdmitDoes, PlaceOthers
<1>6. ASSUME NEW r \in Requests, Refuse(r) PROVE PlaceInv'
  <2>1. Placed(r)'
    <3>1. Placed(r)
      BY <1>0
    <3>2. /\ pc[r] = "judge" /\ pc'[r] = "rollback" /\ now' = now
          /\ claimed'[r] = claimed[r] /\ at'[r] = at[r] /\ orphaned'[r] = orphaned[r]
          /\ SameTimer(r) /\ slot' = slot /\ claimed[r] = subjectsOf(r)
      BY <1>6, <3>1, RefuseDoes DEF Placed
    <3> QED
      BY <3>1, <3>2 DEF Placed, SameTimer
  <2>2. \A q \in Requests \ {r} : NotRaised(q)
    BY <1>6, RefuseDoes DEF NotRaised
  <2> QED
    BY <1>6, <2>1, <2>2, RefuseDoes, PlaceOthers
<1>7. ASSUME NEW r \in Requests, RollbackWindow(r) PROVE PlaceInv'
  <2>1. Placed(r)'
    BY <1>0, <1>7, RollbackWindowDoes DEF Placed, SameTimer
  <2>2. \A q \in Requests \ {r} : NotRaised(q)
    BY <1>7, RollbackWindowDoes DEF NotRaised
  <2> QED
    BY <1>7, <2>1, <2>2, RollbackWindowDoes, PlaceOthers
<1>8. ASSUME NEW r \in Requests, RollbackGauge(r) PROVE PlaceInv'
  <2>1. Placed(r)'
    <3>1. Placed(r)
      BY <1>0
    <3>2. /\ pc[r] = "rollbackGauge" /\ now' = now /\ SlotsOnlyGo(r)
          /\ claimed'[r] \subseteq claimed[r] /\ at'[r] = at[r]
          /\ pc'[r] = IF claimed'[r] = {} THEN "refused" ELSE "rollback"
          /\ SameTimer(r)
      BY <1>8, RollbackGaugeDoes
    <3>3. r \in CountTokens => \A s \in Subjects : slot'[s][r] = 0
      BY <3>1, <3>2 DEF Placed, SlotsOnlyGo
    <3> QED
      BY <3>1, <3>2, <3>3 DEF Placed, SameTimer
  <2>2. \A q \in Requests \ {r} : NotRaised(q)
    BY <1>8, RollbackGaugeDoes DEF NotRaised, SlotsOnlyGo
  <2> QED
    BY <1>8, <2>1, <2>2, RollbackGaugeDoes, PlaceOthers
<1>9. ASSUME NEW r \in Requests, TimerFires(r) PROVE PlaceInv'
  <2>1. Placed(r)'
    BY <1>0, <1>9, TimerFiresDoes DEF Placed
  <2>2. \A q \in Requests \ {r} : NotRaised(q)
    BY <1>9, TimerFiresDoes DEF NotRaised
  <2> QED
    BY <1>9, <2>1, <2>2, TimerFiresDoes, PlaceOthers
<1>10. ASSUME NEW r \in Requests, RenewSlot(r) PROVE PlaceInv'
  <2>1. Placed(r)'
    BY <1>0, <1>10, RenewSlotDoes DEF Placed
  <2>2. \A q \in Requests \ {r} : NotRaised(q)
    BY <1>10, RenewSlotDoes DEF NotRaised
  <2> QED
    BY <1>10, <2>1, <2>2, RenewSlotDoes, PlaceOthers
<1>11. ASSUME NEW r \in Requests, Release(r) PROVE PlaceInv'
  <2>1. Placed(r)'
    <3>1. Placed(r)
      BY <1>0
    <3>2. /\ pc[r] = "held" /\ pc'[r] = "releasing" /\ due'[r] = 0 /\ now' = now
          /\ at'[r] = at[r] /\ before'[r] = before[r] /\ renewing'[r] = renewing[r]
          /\ claimed'[r] = claimed[r] /\ UNCHANGED <<ring, slot>>
      BY <1>11, ReleaseDoes
    <3>3. claimed[r] # {}
      BY <1>0, <3>1, <3>2 DEF Placed
    <3> QED
      BY <3>1, <3>2, <3>3 DEF Placed
  <2>2. \A q \in Requests \ {r} : NotRaised(q)
    BY <1>11, ReleaseDoes DEF NotRaised
  <2> QED
    BY <1>11, <2>1, <2>2, ReleaseDoes, PlaceOthers
<1>15. ASSUME NEW r \in Requests, ReleaseSlot(r) PROVE PlaceInv'
  <2>1. Placed(r)'
    <3>1. Placed(r)
      BY <1>0
    <3>2. /\ pc[r] = "releasing" /\ now' = now /\ SlotsOnlyGo(r)
          /\ claimed'[r] \subseteq claimed[r] /\ at'[r] = at[r] /\ before'[r] = before[r]
          /\ pc'[r] = IF claimed'[r] = {} THEN "done" ELSE "releasing"
          /\ SameTimer(r)
      BY <1>15, ReleaseSlotDoes
    <3>3. r \notin CountTokens
      BY <3>1, <3>2 DEF Placed
    <3> QED
      BY <3>1, <3>2, <3>3 DEF Placed, SameTimer
  <2>2. \A q \in Requests \ {r} : NotRaised(q)
    BY <1>15, ReleaseSlotDoes DEF NotRaised, SlotsOnlyGo
  <2> QED
    BY <1>15, <2>1, <2>2, ReleaseSlotDoes, PlaceOthers
<1>12. ASSUME NEW p \in Processes, Crash(p) PROVE PlaceInv'
  <2> SUFFICES ASSUME NEW r \in Requests PROVE Placed(r)'
    BY DEF PlaceInv
  <2> QED
    BY <1>0, <1>12, CrashDoes DEF Placed
<1>13. CASE Tick
  <2> SUFFICES ASSUME NEW r \in Requests PROVE Placed(r)'
    BY DEF PlaceInv
  <2>1. Untouched(r) /\ NotRaised(r) /\ now' = now + 1
    BY <1>13, TickDoes DEF Untouched, NotRaised
  <2> QED
    BY <1>0, <2>1, PlaceFrame
<1>14. CASE UNCHANGED vars
  <2> SUFFICES ASSUME NEW r \in Requests PROVE Placed(r)'
    BY DEF PlaceInv
  <2>1. Untouched(r) /\ NotRaised(r) /\ now' = now
    BY <1>14 DEF Untouched, NotRaised, vars, coordVars, claimVars, timerVars, histVars
  <2> QED
    BY <1>0, <2>1, PlaceFrame
<1> QED
  BY <1>1, <1>2, <1>3, <1>4, <1>5, <1>6, <1>7, <1>8, <1>9, <1>10, <1>11, <1>12, <1>13,
     <1>14, <1>15 DEF Next

(* At the start every request is in its place. *)
LEMMA PlaceInit == Init => PlaceInv
BY DEF Init, PlaceInv, Placed, Settled, Claiming, Admitted

(* Types and places together are inductive. *)
THEOREM AdmissionPlaced == Spec => [](TypeOK /\ PlaceInv)
<1>1. Init => TypeOK /\ PlaceInv
  BY AdmissionInitTyped, PlaceInit
<1>2. TypeOK /\ PlaceInv /\ [Next]_vars => (TypeOK /\ PlaceInv)'
  BY AdmissionTypedStep, PlaceStep
<1> QED
  BY <1>1, <1>2, PTL DEF Spec

(* Every variable of Admission keeps its type: no counter that admit and   *)
(* consume are judged on is ever negative or missing.                      *)
THEOREM AdmissionTyped == Spec => []TypeOK
BY AdmissionPlaced, PTL

-----------------------------------------------------------------------------
(* Time *)

(* A slot in the coordinator is one whose expiry is ahead. *)
SlotsAhead(r) ==
    \A s \in Subjects :
        slot[s][r] # 0 => now < slot[s][r] /\ slot[s][r] <= now + GaugeTtl

(* Until judged, a claim is younger than ClaimMax and its slots are as     *)
(* long as they were acquired for.                                         *)
ClaimFresh(r) ==
    pc[r] \in Claiming =>
        /\ now <= at[r] + ClaimMax
        /\ \A s \in claimed[r] : r \notin CountTokens /\ Named(s) =>
              slot[s][r] >= at[r] + GaugeTtl

(* How far a slot reaches that has missed m renewals, one being pending or *)
(* not                                                                     *)
Reach(m) == ClaimMax + (m + 1) * RenewInterval

SlotReach(s, r) ==
    /\ missed[s][r] <= MaxMissed
    /\ slot[s][r] + Reach(missed[s][r] + IF s \in renewing[r] THEN 1 ELSE 0)
          >= due[r] + GaugeTtl

(* A held request's timer is ahead of time, and each of its named slots    *)
(* reaches as far as the renewals it missed allow.                         *)
SlotsLast(r) ==
    pc[r] = "held" /\ NamedSlots(r) # {} =>
        /\ due[r] = 0 => now >= at[r] + MaxRenewed /\ renewing[r] = {}
        /\ due[r] # 0 => now <= due[r] /\ \A s \in NamedSlots(r) : SlotReach(s, r)
        /\ renewing[r] # {} => due[r] = now + RenewInterval /\ now < at[r] + MaxRenewed

Timed(r) == SlotsAhead(r) /\ ClaimFresh(r) /\ SlotsLast(r)

TimeInv == \A r \in Requests : Timed(r)

(* The renewals that may be missed fit in GAUGE_TTL_MS, and one more       *)
(* missed renewal is one more interval.                                    *)
LEMMA ReachFits ==
    ASSUME NEW m \in Nat
    PROVE  /\ Reach(m) \in Nat /\ Reach(m + 1) = Reach(m) + RenewInterval
           /\ m <= MaxMissed => Reach(m) < GaugeTtl
           /\ Reach(0) = ClaimMax + RenewInterval /\ ClaimMax < GaugeTtl
<1>1. /\ RenewInterval \in Nat /\ MaxMissed \in Nat /\ ClaimMax \in Nat /\ GaugeTtl \in Nat
      /\ ClaimMax + (MaxMissed + 1) * RenewInterval < GaugeTtl
  BY TimesTyped, RenewalMargin
<1>2. (m + 1) * RenewInterval \in Nat /\ (m + 2) * RenewInterval = (m + 1) * RenewInterval + RenewInterval
  BY <1>1
<1>3. m <= MaxMissed => (m + 1) * RenewInterval <= (MaxMissed + 1) * RenewInterval
  BY <1>1
<1>4. (0 + 1) * RenewInterval = RenewInterval /\ 0 <= (MaxMissed + 1) * RenewInterval
  BY <1>1
<1> QED
  BY <1>1, <1>2, <1>3, <1>4 DEF Reach

(* The named slots of q stay, the others are not raised. *)
SlotsKept(q) ==
    \A s \in Subjects : /\ slot'[s][q] = slot[s][q] \/ slot'[s][q] = 0
                        /\ Named(s) => slot'[s][q] = slot[s][q]

(* A step of another request that leaves the named slots leaves a request  *)
(* on time.                                                                *)
LEMMA TimeFrame ==
    ASSUME TypeOK, NEW q \in Requests, Placed(q), Timed(q), Untouched(q), SlotsKept(q), now' = now
    PROVE  Timed(q)'
<1>0. subjectsOf(q) \subseteq Subjects /\ NamedSlots(q) \subseteq Subjects /\ claimed[q] \subseteq Subjects
  BY NextSubject DEF TypeOK
<1>1. SlotsAhead(q)'
  BY DEF Timed, SlotsAhead, SlotsKept
<1>2. ClaimFresh(q)'
  BY <1>0 DEF Timed, ClaimFresh, SlotsKept, Untouched
<1>3. \A s \in NamedSlots(q) : slot'[s][q] = slot[s][q] /\ missed'[s][q] = missed[s][q]
  BY <1>0 DEF SlotsKept, Untouched, NamedSlots
<1>4. SlotsLast(q)'
  BY <1>3 DEF Timed, SlotsLast, SlotReach, Untouched
<1> QED
  BY <1>1, <1>2, <1>4 DEF Timed

(* An action of r, seen from the others: they stay on time if r does. *)
LEMMA TimeOthers ==
    ASSUME TypeOK, PlaceInv, TimeInv, NEW r \in Requests, OthersUntouched(r),
           \A q \in Requests \ {r} : SlotsKept(q), now' = now, Timed(r)'
    PROVE  TimeInv'
<1> SUFFICES ASSUME NEW q \in Requests PROVE Timed(q)'
  BY DEF TimeInv
<1>1. CASE q = r
  BY <1>1
<1>2. CASE q # r
  BY <1>2, TimeFrame DEF PlaceInv, TimeInv, OthersUntouched
<1> QED
  BY <1>1, <1>2

(* ClaimGauge: the slot acquired now outlives the judging. *)
LEMMA ClaimGaugeTimed ==
    ASSUME TypeOK, PlaceInv, TimeInv, NEW r \in Requests, ClaimGauge(r)
    PROVE  TimeInv'
<1> DEFINE s == First(subjectsOf(r) \ claimed[r])
<1>1. /\ pc[r] = "gauge" /\ s \in Subjects /\ claimed'[r] = claimed[r] \union {s}
      /\ pc'[r] \in {"judge", "window"} /\ at'[r] = at[r] /\ now' = now
      /\ s \notin claimed[r] /\ OthersUntouched(r)
  BY ClaimGaugeDoes
<1>2. /\ \A p \in Subjects, q \in Requests : p # s \/ q # r => slot'[p][q] = slot[p][q]
      /\ r \notin CountTokens => slot'[s][r] = now + GaugeTtl
      /\ r \in CountTokens => slot'[s][r] = slot[s][r]
  <2>1. CASE /\ r \notin CountTokens /\ slot'[s][r] = now + GaugeTtl
             /\ \A q \in Requests \ {r} : slot'[s][q] = slot[s][q]
             /\ \A p \in Subjects \ {s} : slot'[p] = slot[p]
    BY <2>1
  <2>2. CASE r \in CountTokens /\ slot' = slot
    BY <2>2
  <2> QED
    BY <2>1, <2>2, ClaimGaugeDoes
<1> HIDE DEF s
<1>3. /\ now \in Nat /\ at[r] \in Nat /\ at[r] <= now /\ GaugeTtl \in Nat \ {0}
      /\ Timed(r) /\ claimed[r] \subseteq Subjects
  BY <1>1, TimesTyped DEF TypeOK, PlaceInv, Placed, TimeInv
<1>4. SlotsAhead(r)'
  BY <1>1, <1>2, <1>3 DEF Timed, SlotsAhead
<1>5. ClaimFresh(r)'
  BY <1>1, <1>2, <1>3 DEF Timed, ClaimFresh, Claiming
<1>6. SlotsLast(r)'
  BY <1>1 DEF SlotsLast
<1>7. \A q \in Requests \ {r} : SlotsKept(q)
  BY <1>2 DEF SlotsKept
<1> QED
  BY <1>1, <1>4, <1>5, <1>6, <1>7, TimeOthers DEF Timed

(* Admit: the first renewal is due while every slot still reaches.  *)
LEMMA AdmitTimed ==
    ASSUME TypeOK, PlaceInv, TimeInv, NEW r \in Requests, Admit(r)
    PROVE  TimeInv'
<1>1. /\ pc[r] = "judge" /\ pc'[r] = (IF r \in CountTokens THEN "done" ELSE "held")
      /\ due'[r] = (IF r \in CountTokens \/ NamedSlots(r) = {} THEN 0 ELSE now + RenewInterval)
      /\ at'[r] = at[r] /\ renewing'[r] = renewing[r] /\ now' = now /\ slot' = slot
      /\ \A s \in Subjects : missed'[s][r] = missed[s][r]
      /\ OthersUntouched(r)
  BY AdmitDoes
<1>2. /\ now \in Nat \ {0} /\ at[r] \in Nat /\ at[r] <= now /\ GaugeTtl \in Nat /\ RenewInterval \in Nat
      /\ ClaimMax \in Nat /\ MaxMissed \in Nat
      /\ Timed(r) /\ claimed[r] = subjectsOf(r) /\ renewing[r] = {}
      /\ \A s \in Subjects : missed[s][r] = 0
  BY <1>1, TimesTyped DEF TypeOK, PlaceInv, Placed, TimeInv, Claiming, Admitted
<1>3. SlotsAhead(r)'
  BY <1>1, <1>2 DEF Timed, SlotsAhead
<1>4. ClaimFresh(r)'
  BY <1>1 DEF ClaimFresh, Claiming
<1>5. ASSUME r \notin CountTokens, NEW s \in NamedSlots(r)
      PROVE  SlotReach(s, r)'
  <2>1. s \in Subjects /\ s \in claimed[r] /\ Named(s)
    BY <1>2, <1>5, NextSubject DEF NamedSlots
  <2>2. slot[s][r] \in Nat /\ slot[s][r] >= at[r] + GaugeTtl /\ now <= at[r] + ClaimMax
    BY <1>1, <1>2, <1>5, <2>1 DEF TypeOK, Timed, ClaimFresh, Claiming
  <2>3. due'[r] = now + RenewInterval /\ missed'[s][r] = 0 /\ renewing'[r] = {}
    BY <1>1, <1>2, <1>5, <2>1
  <2>4. Reach(0) = ClaimMax + RenewInterval
    BY ReachFits
  <2>5. slot[s][r] + Reach(0) >= due'[r] + GaugeTtl
    BY <1>2, <2>2, <2>3, <2>4
  <2>6. missed'[s][r] + (IF s \in renewing'[r] THEN 1 ELSE 0) = 0
    BY <2>3
  <2> QED
    BY <1>1, <1>2, <2>3, <2>5, <2>6 DEF SlotReach
<1>6. SlotsLast(r)'
  BY <1>1, <1>2, <1>5, TimesTyped DEF SlotsLast
<1>7. \A q \in Requests \ {r} : SlotsKept(q)
  BY <1>1 DEF SlotsKept
<1> QED
  BY <1>1, <1>3, <1>4, <1>6, <1>7, TimeOthers DEF Timed

(* TimerFires: it fires on time, and at the cap nothing is being renewed. *)
LEMMA TimerFiresTimed ==
    ASSUME TypeOK, PlaceInv, TimeInv, NEW r \in Requests, TimerFires(r)
    PROVE  TimeInv'
<1>1. /\ pc[r] = "held" /\ due[r] # 0 /\ now >= due[r]
      /\ pc'[r] = pc[r] /\ at'[r] = at[r] /\ now' = now /\ slot' = slot
      /\ \A s \in Subjects : missed'[s][r] = missed[s][r]
      /\ OthersUntouched(r)
  BY TimerFiresDoes
<1>2. \/ now >= at[r] + MaxRenewed /\ due'[r] = 0 /\ renewing'[r] = renewing[r]
      \/ /\ now < at[r] + MaxRenewed
         /\ due'[r] = due[r] + RenewInterval
         /\ renewing'[r] = NamedSlots(r)
  BY TimerFiresDoes
<1>3. /\ now \in Nat \ {0} /\ at[r] \in Nat /\ due[r] \in Nat
      /\ GaugeTtl \in Nat /\ RenewInterval \in Nat \ {0} /\ MaxRenewed \in Nat
      /\ Timed(r) /\ Placed(r)
  BY TimesTyped DEF TypeOK, PlaceInv, TimeInv
<1>4. SlotsAhead(r)' /\ ClaimFresh(r)'
  BY <1>1, <1>3 DEF Timed, SlotsAhead, ClaimFresh, Claiming
<1>5. SlotsLast(r)'
  <2> SUFFICES ASSUME NamedSlots(r) # {} PROVE SlotsLast(r)'
    BY DEF SlotsLast
  <2>1. /\ now = due[r] /\ renewing[r] = {}
        /\ \A s \in NamedSlots(r) : SlotReach(s, r)
    BY <1>1, <1>3 DEF Timed, SlotsLast
  <2>2. CASE now >= at[r] + MaxRenewed /\ due'[r] = 0 /\ renewing'[r] = renewing[r]
    BY <1>1, <2>1, <2>2 DEF SlotsLast
  <2>3. CASE /\ now < at[r] + MaxRenewed
             /\ due'[r] = due[r] + RenewInterval
             /\ renewing'[r] = NamedSlots(r)
    <3>1. ASSUME NEW s \in NamedSlots(r) PROVE SlotReach(s, r)'
      <4>1. s \in Subjects
        BY NextSubject
      <4>2. slot[s][r] \in Nat /\ missed[s][r] \in Nat
        BY <4>1 DEF TypeOK
      <4>3. missed[s][r] <= MaxMissed /\ slot[s][r] + Reach(missed[s][r]) >= due[r] + GaugeTtl
        <5>1. missed[s][r] + (IF s \in renewing[r] THEN 1 ELSE 0) = missed[s][r]
          BY <2>1, <4>2
        <5> QED
          BY <2>1, <5>1 DEF SlotReach
      <4>4. Reach(missed[s][r] + 1) = Reach(missed[s][r]) + RenewInterval /\ Reach(missed[s][r]) \in Nat
        BY <4>2, ReachFits
      <4>5. slot[s][r] + Reach(missed[s][r] + 1) >= due'[r] + GaugeTtl
        BY <1>3, <2>3, <4>2, <4>3, <4>4
      <4>6. missed'[s][r] + (IF s \in renewing'[r] THEN 1 ELSE 0) = missed[s][r] + 1
        BY <1>1, <2>3, <4>1
      <4> QED
        BY <1>1, <4>1, <4>3, <4>5, <4>6 DEF SlotReach
    <3> QED
      BY <1>1, <1>3, <2>1, <2>3, <3>1 DEF SlotsLast
  <2> QED
    BY <1>2, <2>2, <2>3
<1>6. \A q \in Requests \ {r} : SlotsKept(q)
  BY <1>1 DEF SlotsKept
<1> QED
  BY <1>1, <1>4, <1>5, <1>6, TimeOthers DEF Timed

(* A slot that reaches is live: the renewals it may have missed fit.      *)
LEMMA ReachLive ==
    ASSUME TypeOK, NEW r \in Requests, NEW s \in Subjects, SlotReach(s, r), renewing[r] = {},
           NEW t \in Nat, t <= due[r]
    PROVE  slot[s][r] > t
<1>1. slot[s][r] \in Nat /\ missed[s][r] \in Nat /\ due[r] \in Nat /\ GaugeTtl \in Nat
  BY TimesTyped DEF TypeOK
<1>2. missed[s][r] + (IF s \in renewing[r] THEN 1 ELSE 0) = missed[s][r]
  BY <1>1
<1>3. missed[s][r] <= MaxMissed /\ slot[s][r] + Reach(missed[s][r]) >= due[r] + GaugeTtl
  BY <1>2 DEF SlotReach
<1>4. Reach(missed[s][r]) \in Nat /\ Reach(missed[s][r]) < GaugeTtl
  BY <1>1, <1>3, ReachFits
<1> QED
  BY <1>1, <1>3, <1>4

(* RenewSlot: the slot it moves is still live when the request is held. *)
LEMMA RenewSlotTimed ==
    ASSUME TypeOK, PlaceInv, TimeInv, NEW r \in Requests, RenewSlot(r)
    PROVE  TimeInv'
<1>0. PICK s \in Subjects :
        /\ s \in renewing[r] /\ s \in NamedSlots(r)
        /\ renewing'[r] = renewing[r] \ {s}
        /\ \/ /\ slot'[s][r] = (IF slot[s][r] # 0 THEN now + GaugeTtl ELSE 0)
              /\ missed'[s][r] = 0
           \/ /\ slot'[s][r] = slot[s][r]
              /\ missed[s][r] < MaxMissed /\ missed'[s][r] = missed[s][r] + 1
        /\ \A p \in Subjects, q \in Requests :
              p # s \/ q # r => slot'[p][q] = slot[p][q] /\ missed'[p][q] = missed[p][q]
  BY RenewSlotDoes
<1>1. /\ s \in renewing[r] /\ s \in NamedSlots(r) /\ s \in Subjects
      /\ renewing'[r] = renewing[r] \ {s}
      /\ pc'[r] = pc[r] /\ at'[r] = at[r] /\ due'[r] = due[r] /\ now' = now
      /\ OthersUntouched(r)
  BY <1>0, RenewSlotDoes
<1>2. \/ /\ slot'[s][r] = (IF slot[s][r] # 0 THEN now + GaugeTtl ELSE 0)
         /\ missed'[s][r] = 0
      \/ /\ slot'[s][r] = slot[s][r]
         /\ missed[s][r] < MaxMissed /\ missed'[s][r] = missed[s][r] + 1
  BY <1>0
<1>3. \A p \in Subjects, q \in Requests :
         p # s \/ q # r => slot'[p][q] = slot[p][q] /\ missed'[p][q] = missed[p][q]
  BY <1>0
<1>4. /\ now \in Nat \ {0} /\ at[r] \in Nat /\ due[r] \in Nat
      /\ slot[s][r] \in Nat /\ missed[s][r] \in Nat
      /\ GaugeTtl \in Nat \ {0} /\ RenewInterval \in Nat \ {0} /\ MaxRenewed \in Nat /\ MaxMissed \in Nat
      /\ ClaimMax \in Nat
      /\ Timed(r) /\ Placed(r) /\ pc[r] \in Admitted
  <2>1. Placed(r) /\ renewing[r] # {}
    BY <1>1 DEF PlaceInv
  <2> QED
    BY <1>1, <2>1, TimesTyped DEF TypeOK, TimeInv, Placed
<1>5. SlotsAhead(r)'
  <2>1. slot'[s][r] = 0 \/ slot'[s][r] = slot[s][r] \/ slot'[s][r] = now + GaugeTtl
    BY <1>2
  <2>2. \A p \in Subjects \ {s} : slot'[p][r] = slot[p][r]
    BY <1>3
  <2> QED
    BY <1>1, <1>4, <2>1, <2>2 DEF Timed, SlotsAhead
<1>6. ClaimFresh(r)'
  BY <1>1, <1>4 DEF ClaimFresh, Claiming, Admitted
<1>7. SlotsLast(r)'
  <2> SUFFICES ASSUME pc[r] = "held" PROVE SlotsLast(r)'
    BY <1>1 DEF SlotsLast
  <2>1. /\ due[r] = now + RenewInterval /\ now < at[r] + MaxRenewed
        /\ \A p \in NamedSlots(r) : SlotReach(p, r)
    BY <1>1, <1>4 DEF Timed, SlotsLast
  <2>2. missed[s][r] <= MaxMissed /\ slot[s][r] + Reach(missed[s][r] + 1) >= due[r] + GaugeTtl
    BY <1>1, <2>1 DEF SlotReach
  <2>3. /\ Reach(missed[s][r]) \in Nat /\ Reach(missed[s][r]) < GaugeTtl
        /\ Reach(missed[s][r] + 1) = Reach(missed[s][r]) + RenewInterval
        /\ Reach(0) = ClaimMax + RenewInterval
    BY <1>4, <2>2, ReachFits
  <2>4. slot[s][r] # 0
    BY <1>4, <2>1, <2>2, <2>3
  <2>5. missed'[s][r] + (IF s \in renewing'[r] THEN 1 ELSE 0) = missed'[s][r]
    <3>1. missed'[s][r] \in Nat
      BY <1>2, <1>4
    <3> QED
      BY <1>1, <3>1
  <2>6. SlotReach(s, r)'
    <3>1. CASE slot'[s][r] = now + GaugeTtl /\ missed'[s][r] = 0
      <4>1. slot'[s][r] + Reach(0) >= due[r] + GaugeTtl
        BY <1>4, <2>1, <2>3, <3>1
      <4> QED
        BY <1>1, <1>4, <2>5, <3>1, <4>1 DEF SlotReach
    <3>2. CASE /\ slot'[s][r] = slot[s][r]
               /\ missed[s][r] < MaxMissed /\ missed'[s][r] = missed[s][r] + 1
      <4>1. missed'[s][r] <= MaxMissed /\ slot'[s][r] + Reach(missed'[s][r]) >= due[r] + GaugeTtl
        BY <1>4, <2>2, <3>2
      <4> QED
        BY <1>1, <2>5, <4>1 DEF SlotReach
    <3> QED
      BY <1>2, <2>4, <3>1, <3>2
  <2>7. ASSUME NEW p \in NamedSlots(r), p # s PROVE SlotReach(p, r)'
    <3>1. p \in Subjects
      BY NextSubject
    <3>2. /\ slot'[p][r] = slot[p][r] /\ missed'[p][r] = missed[p][r]
          /\ p \in renewing'[r] <=> p \in renewing[r]
      BY <1>1, <1>3, <2>7, <3>1
    <3> QED
      BY <1>1, <2>1, <3>2 DEF SlotReach
  <2> QED
    BY <1>1, <1>4, <2>1, <2>6, <2>7 DEF SlotsLast
<1>8. \A q \in Requests \ {r} : SlotsKept(q)
  BY <1>3 DEF SlotsKept
<1> QED
  BY <1>1, <1>5, <1>6, <1>7, <1>8, TimeOthers DEF Timed

(* Tick: no slot of a claim being judged, and no named slot of a request   *)
(* whose timer runs, lapses.                                               *)
LEMMA TickTimed ==
    ASSUME TypeOK, PlaceInv, TimeInv, Tick
    PROVE  TimeInv'
<1> SUFFICES ASSUME NEW r \in Requests PROVE Timed(r)'
  BY DEF TimeInv
<1>1. /\ now' = now + 1
      /\ \A s \in Subjects : slot'[s][r] = IF slot[s][r] > now + 1 THEN slot[s][r] ELSE 0
      /\ renewing[r] = {} /\ (due[r] # 0 => now < due[r])
      /\ pc[r] \in Claiming => now < at[r] + ClaimMax
      /\ UNCHANGED <<pc, at, claimed, due, renewing, missed>>
  BY TickDoes
<1>2. /\ now \in Nat \ {0} /\ at[r] \in Nat /\ due[r] \in Nat
      /\ \A s \in Subjects : slot[s][r] \in Nat
      /\ GaugeTtl \in Nat \ {0} /\ RenewInterval \in Nat \ {0} /\ MaxRenewed \in Nat /\ ClaimMax \in Nat
      /\ ClaimMax < GaugeTtl /\ Timed(r) /\ claimed[r] \subseteq Subjects
  BY TimesTyped, ReachFits DEF TypeOK, TimeInv
<1>3. SlotsAhead(r)'
  BY <1>1, <1>2 DEF Timed, SlotsAhead
<1>4. ClaimFresh(r)'
  BY <1>1, <1>2 DEF Timed, ClaimFresh, Claiming
<1>5. SlotsLast(r)'
  <2> SUFFICES ASSUME pc[r] = "held", NamedSlots(r) # {} PROVE SlotsLast(r)'
    BY <1>1 DEF SlotsLast
  <2>1. CASE due[r] = 0
    BY <1>1, <1>2, <2>1 DEF Timed, SlotsLast
  <2>2. CASE due[r] # 0
    <3>1. now + 1 <= due[r] /\ \A s \in NamedSlots(r) : SlotReach(s, r)
      BY <1>1, <1>2, <2>2 DEF Timed, SlotsLast
    <3>2. ASSUME NEW s \in NamedSlots(r) PROVE SlotReach(s, r)'
      <4>0. s \in Subjects
        BY NextSubject
      <4>1. s \in Subjects /\ now + 1 \in Nat
        BY <1>2, <4>0
      <4>2. slot[s][r] > now + 1
        BY <1>1, <3>1, <4>1, ReachLive
      <4> QED
        BY <1>1, <3>1, <4>1, <4>2 DEF SlotReach
    <3> QED
      BY <1>1, <1>2, <2>2, <3>1, <3>2 DEF SlotsLast
  <2> QED
    BY <2>1, <2>2
<1> QED
  BY <1>3, <1>4, <1>5 DEF Timed

(* A request that neither claims nor runs is on time if its slots are not  *)
(* raised.                                                                 *)
LEMMA TimedIdle ==
    ASSUME TypeOK, NEW r \in Requests, Timed(r), now' = now, pc'[r] \notin Claiming \union {"held"},
           \A s \in Subjects : slot'[s][r] = slot[s][r] \/ slot'[s][r] = 0
    PROVE  Timed(r)'
<1>1. SlotsAhead(r)'
  BY DEF Timed, SlotsAhead
<1>2. ClaimFresh(r)' /\ SlotsLast(r)'
  BY DEF ClaimFresh, SlotsLast
<1> QED
  BY <1>1, <1>2 DEF Timed

(* Every step keeps every request on time. *)
LEMMA TimeStep ==
    ASSUME TypeOK, PlaceInv, TimeInv, [Next]_vars
    PROVE  TimeInv'
<1>0. ASSUME NEW r \in Requests
      PROVE  Timed(r) /\ Placed(r) /\ now \in Nat \ {0} /\ at[r] \in Nat /\ ClaimMax \in Nat
  BY TimesTyped DEF TypeOK, PlaceInv, TimeInv
<1>1. ASSUME NEW r \in Requests, Begin(r) PROVE TimeInv'
  <2>1. /\ pc'[r] \in {"done", "window"} /\ at'[r] = now /\ now' = now /\ slot' = slot
        /\ claimed'[r] = {} /\ OthersUntouched(r)
    BY <1>0, <1>1, BeginDoes DEF Placed, Settled
  <2>2. Timed(r)'
    BY <1>0, <2>1 DEF Timed, SlotsAhead, ClaimFresh, SlotsLast
  <2>3. \A q \in Requests \ {r} : SlotsKept(q)
    BY <2>1 DEF SlotsKept
  <2> QED
    BY <2>1, <2>2, <2>3, TimeOthers
<1>2. ASSUME NEW r \in Requests, ClaimWindow(r) PROVE TimeInv'
  <2>1. /\ pc[r] = "window" /\ pc'[r] = "gauge" /\ at'[r] = at[r] /\ now' = now /\ slot' = slot
        /\ claimed'[r] = claimed[r] /\ OthersUntouched(r)
    BY <1>2, ClaimWindowDoes
  <2>2. Timed(r)
    BY <1>0
  <2>3. Timed(r)'
    BY <2>1, <2>2 DEF Timed, SlotsAhead, ClaimFresh, SlotsLast, Claiming
  <2>4. \A q \in Requests \ {r} : SlotsKept(q)
    BY <2>1 DEF SlotsKept
  <2> QED
    BY <2>1, <2>3, <2>4, TimeOthers
<1>3. ASSUME NEW r \in Requests, OthersUntouched(r), now' = now,
             pc'[r] \notin Claiming \union {"held"},
             SlotsOnlyGo(r) \/ slot' = slot
      PROVE  TimeInv'
  <2>1. \A s \in Subjects : slot'[s][r] = slot[s][r] \/ slot'[s][r] = 0
    BY <1>3 DEF SlotsOnlyGo
  <2>2. \A q \in Requests \ {r} : SlotsKept(q)
    BY <1>3 DEF SlotsOnlyGo, SlotsKept
  <2> QED
    BY <1>0, <1>3, <2>1, <2>2, TimedIdle, TimeOthers
<1>4. ASSUME NEW r \in Requests, ClaimFails(r) PROVE TimeInv'
  <2>1. OthersUntouched(r) /\ now' = now /\ slot' = slot /\ pc'[r] \in {"refused", "rollback"}
    BY <1>4, ClaimFailsDoes
  <2> QED
    BY <1>3, <2>1 DEF Claiming
<1>5. ASSUME NEW r \in Requests, Refuse(r) PROVE TimeInv'
  <2>1. OthersUntouched(r) /\ now' = now /\ slot' = slot /\ pc'[r] = "rollback"
    BY <1>5, RefuseDoes
  <2> QED
    BY <1>3, <2>1 DEF Claiming
<1>6. ASSUME NEW r \in Requests, RollbackWindow(r) PROVE TimeInv'
  <2>1. OthersUntouched(r) /\ now' = now /\ slot' = slot /\ pc'[r] = "rollbackGauge"
    BY <1>6, RollbackWindowDoes
  <2> QED
    BY <1>3, <2>1 DEF Claiming
<1>7. ASSUME NEW r \in Requests, RollbackGauge(r) PROVE TimeInv'
  <2>1. OthersUntouched(r) /\ now' = now /\ SlotsOnlyGo(r) /\ pc'[r] \in {"refused", "rollback"}
    BY <1>7, RollbackGaugeDoes
  <2> QED
    BY <1>3, <2>1 DEF Claiming
<1>8. ASSUME NEW r \in Requests, Release(r) PROVE TimeInv'
  <2>1. OthersUntouched(r) /\ now' = now /\ slot' = slot /\ pc'[r] = "releasing"
    BY <1>8, ReleaseDoes
  <2> QED
    BY <1>3, <2>1 DEF Claiming
<1>11. ASSUME NEW r \in Requests, ReleaseSlot(r) PROVE TimeInv'
  <2>1. OthersUntouched(r) /\ now' = now /\ SlotsOnlyGo(r) /\ pc'[r] \in {"done", "releasing"}
    BY <1>11, ReleaseSlotDoes
  <2> QED
    BY <1>3, <2>1 DEF Claiming
<1>9. ASSUME NEW p \in Processes, Crash(p) PROVE TimeInv'
  <2> SUFFICES ASSUME NEW r \in Requests PROVE Timed(r)'
    BY DEF TimeInv
  <2>1. now' = now /\ slot' = slot /\ at'[r] = at[r] /\ \A s \in Subjects : missed'[s][r] = missed[s][r]
    BY <1>9, CrashDoes
  <2>2. CASE pc'[r] \notin Claiming \union {"held"}
    BY <1>0, <2>1, <2>2, TimedIdle
  <2>3. CASE pc'[r] \in Claiming \union {"held"}
    <3>1. Untouched(r)
      BY <1>9, <2>1, <2>3, CrashDoes DEF Untouched, Claiming, Settled
    <3> QED
      BY <1>0, <2>1, <3>1, TimeFrame DEF SlotsKept
  <2> QED
    BY <2>2, <2>3
<1>10. CASE UNCHANGED vars
  <2> SUFFICES ASSUME NEW r \in Requests PROVE Timed(r)'
    BY DEF TimeInv
  <2>1. Untouched(r) /\ SlotsKept(r) /\ now' = now
    BY <1>10 DEF Untouched, SlotsKept, vars, coordVars, claimVars, timerVars, histVars
  <2> QED
    BY <1>0, <2>1, TimeFrame
<1> QED
  BY <1>1, <1>2, <1>4, <1>5, <1>6, <1>7, <1>8, <1>9, <1>10, <1>11, ClaimGaugeTimed, AdmitTimed,
     TimerFiresTimed, RenewSlotTimed, TickTimed DEF Next

-----------------------------------------------------------------------------
(* The concurrency ceiling *)

(* Requests counted against the concurrency ceiling of s *)
Holders(s) ==
    {r \in Requests \ CountTokens :
        /\ Live(s, r)
        /\ s \in claimed[r]
        /\ pc[r] \in Claiming \union {"held"}
        /\ before[r][s].concurrency < ConcLimit[s]}

HoldersBounded ==
    \A s \in Subjects : ConcLimit[s] # 0 => Cardinality(Holders(s)) <= ConcLimit[s]

(* A set of requests that may only gain r, and gains it only when the rest *)
(* is among fewer than n, stays within n.                                  *)
LEMMA GainOne ==
    ASSUME NEW S \in SUBSET Requests, NEW T \in SUBSET Requests, NEW U \in SUBSET Requests,
           NEW r \in Requests, NEW n \in Nat, Cardinality(S) <= n,
           \/ T \subseteq S
           \/ T \subseteq U \union {r} /\ Cardinality(U) < n
    PROVE  Cardinality(T) <= n
<1>1. /\ IsFiniteSet(S) /\ IsFiniteSet(T) /\ IsFiniteSet(U)
      /\ Cardinality(S) \in Nat /\ Cardinality(T) \in Nat /\ Cardinality(U) \in Nat
  BY RequestsCount
<1>2. CASE T \subseteq S
  BY <1>1, <1>2, FS_Subset
<1>3. CASE T \subseteq U \union {r} /\ Cardinality(U) < n
  <2>1. IsFiniteSet(U \union {r}) /\ Cardinality(U \union {r}) <= Cardinality(U) + 1
    BY <1>1, FS_AddElement
  <2>2. Cardinality(T) <= Cardinality(U \union {r}) /\ Cardinality(U \union {r}) \in Nat
    BY <1>3, <2>1, FS_Subset, FS_CardinalityType
  <2> QED
    BY <1>1, <1>3, <2>1, <2>2
<1> QED
  BY <1>2, <1>3

(* A request that is left alone, with its named slots, is no new holder. *)
LEMMA HolderFrame ==
    ASSUME NEW q \in Requests, NEW s \in Subjects, Named(s), q \in Holders(s)',
           Untouched(q), slot'[s][q] = slot[s][q] \/ slot'[s][q] = 0
    PROVE  q \in Holders(s)
BY DEF Holders, Untouched, Live

(* ClaimGauge is the one action that makes a holder, and it counts the     *)
(* other live slots in the same command.                                   *)
LEMMA ClaimGaugeHolders ==
    ASSUME TypeOK, PlaceInv, HoldersBounded, NEW r \in Requests, ClaimGauge(r)
    PROVE  HoldersBounded'
<1> SUFFICES ASSUME NEW s \in Subjects, ConcLimit[s] # 0
             PROVE  Cardinality(Holders(s)') <= ConcLimit[s]
  BY DEF HoldersBounded
<1>1. PICK t \in Subjects :
        /\ t \notin claimed[r] /\ claimed'[r] = claimed[r] \union {t}
        /\ pc[r] = "gauge"
        /\ \/ /\ r \notin CountTokens
              /\ before'[r][t].concurrency = Cardinality(Others(t, r))
              /\ \A p \in Subjects \ {t} : before'[r][p] = before[r][p]
              /\ \A q \in Requests \ {r} : slot'[t][q] = slot[t][q]
              /\ \A p \in Subjects \ {t} : slot'[p] = slot[p]
           \/ r \in CountTokens /\ slot' = slot
  BY ClaimGaugeDoes
<1>2. OthersUntouched(r)
  BY ClaimGaugeDoes
<1>3. /\ Holders(s) \in SUBSET Requests /\ Holders(s)' \in SUBSET Requests
      /\ Others(s, r) \in SUBSET Requests /\ ConcLimit[s] \in Nat /\ Named(s)
      /\ Cardinality(Holders(s)) <= ConcLimit[s]
  BY MapsTyped DEF Holders, Others, HoldersBounded, Named
<1>4. \A q \in Requests \ {r} : slot'[s][q] = slot[s][q]
  <2>1. CASE r \in CountTokens /\ slot' = slot
    BY <2>1
  <2>2. CASE /\ \A q \in Requests \ {r} : slot'[t][q] = slot[t][q]
             /\ \A p \in Subjects \ {t} : slot'[p] = slot[p]
    BY <2>2
  <2> QED
    BY <1>1, <2>1, <2>2
<1>5. \A q \in Requests \ {r} : q \in Holders(s)' => q \in Holders(s) /\ q \in Others(s, r)
  <2> SUFFICES ASSUME NEW q \in Requests \ {r}, q \in Holders(s)'
               PROVE  q \in Holders(s) /\ q \in Others(s, r)
    OBVIOUS
  <2>1. q \in Holders(s)
    BY <1>2, <1>3, <1>4, HolderFrame DEF OthersUntouched
  <2> QED
    BY <2>1 DEF Holders, Others
<1>6. CASE r \notin Holders(s)'
  <2>1. Holders(s)' \subseteq Holders(s)
    BY <1>3, <1>5, <1>6
  <2> QED
    BY <1>3, <2>1, GainOne
<1>7. CASE r \in Holders(s)'
  <2>1. r \notin CountTokens /\ s \in claimed'[r] /\ before'[r][s].concurrency < ConcLimit[s] /\ slot'[s][r] # 0
    BY <1>7 DEF Holders, Live
  <2>2. CASE s = t
    <3>1. Cardinality(Others(s, r)) < ConcLimit[s]
      BY <1>1, <2>1, <2>2
    <3>2. Holders(s)' \subseteq Others(s, r) \union {r}
      BY <1>3, <1>5
    <3> QED
      BY <1>3, <3>1, <3>2, GainOne
  <2>3. CASE s # t
    <3>1. s \in claimed[r] /\ before'[r][s] = before[r][s] /\ slot'[s] = slot[s]
      BY <1>1, <2>1, <2>3
    <3>2. r \in Holders(s)
      BY <1>1, <2>1, <3>1 DEF Holders, Live, Claiming
    <3>3. Holders(s)' \subseteq Holders(s)
      BY <1>3, <1>5, <3>2
    <3> QED
      BY <1>3, <3>3, GainOne
  <2> QED
    BY <2>2, <2>3
<1> QED
  BY <1>6, <1>7

(* The holders stay within the ceiling. *)
LEMMA HoldersStep ==
    ASSUME TypeOK, PlaceInv, HoldersBounded, [Next]_vars
    PROVE  HoldersBounded'
<1>0. ASSUME \A s \in Subjects : Named(s) => Holders(s)' \subseteq Holders(s)
      PROVE  HoldersBounded'
  <2> SUFFICES ASSUME NEW s \in Subjects, ConcLimit[s] # 0
               PROVE  Cardinality(Holders(s)') <= ConcLimit[s]
    BY DEF HoldersBounded
  <2>1. /\ Holders(s) \in SUBSET Requests /\ Holders(s)' \in SUBSET Holders(s)
        /\ Cardinality(Holders(s)) <= ConcLimit[s] /\ ConcLimit[s] \in Nat
    BY <1>0, MapsTyped DEF Holders, HoldersBounded, Named
  <2>2. IsFiniteSet(Holders(s)) /\ Cardinality(Holders(s)) \in Nat
    BY <2>1, RequestsCount
  <2>3. Cardinality(Holders(s)') <= Cardinality(Holders(s)) /\ IsFiniteSet(Holders(s)')
    BY <2>1, <2>2, FS_Subset
  <2>4. Cardinality(Holders(s)') \in Nat
    BY <2>3, FS_CardinalityType
  <2> QED
    BY <2>1, <2>2, <2>3, <2>4
<1>1. ASSUME NEW r \in Requests, OthersUntouched(r), SlotsOnlyGo(r) \/ slot' = slot,
             \A s \in Subjects : Named(s) /\ r \in Holders(s)' => r \in Holders(s)
      PROVE  HoldersBounded'
  <2> SUFFICES ASSUME NEW s \in Subjects, Named(s), NEW q \in Requests, q \in Holders(s)'
               PROVE  q \in Holders(s)
    BY <1>0 DEF Holders
  <2>1. CASE q = r
    BY <1>1, <2>1
  <2>2. CASE q # r
    <3>1. Untouched(q) /\ (slot'[s][q] = slot[s][q] \/ slot'[s][q] = 0)
      BY <1>1, <2>2 DEF OthersUntouched, SlotsOnlyGo
    <3> QED
      BY <3>1, HolderFrame
  <2> QED
    BY <2>1, <2>2
<1>2. ASSUME NEW r \in Requests, OthersUntouched(r), SlotsOnlyGo(r) \/ slot' = slot,
             pc'[r] \notin Claiming \union {"held"}
      PROVE  HoldersBounded'
  <2>1. \A s \in Subjects : r \notin Holders(s)'
    BY <1>2 DEF Holders
  <2> QED
    BY <1>1, <1>2, <2>1
<1>3. ASSUME NEW r \in Requests, Begin(r) PROVE HoldersBounded'
  <2>1. OthersUntouched(r) /\ slot' = slot /\ claimed'[r] = {}
    BY <1>3, BeginDoes DEF PlaceInv, Placed, Settled
  <2>2. \A s \in Subjects : r \notin Holders(s)'
    BY <2>1 DEF Holders
  <2> QED
    BY <1>1, <2>1, <2>2
<1>4. ASSUME NEW r \in Requests, ClaimWindow(r) PROVE HoldersBounded'
  <2>1. PICK t \in Subjects :
          /\ t \notin claimed[r] /\ claimed'[r] = claimed[r] /\ pc[r] = "window"
          /\ \A p \in Subjects \ {t} : before'[r][p] = before[r][p]
          /\ slot' = slot /\ OthersUntouched(r)
    BY <1>4, ClaimWindowDoes
  <2>2. \A s \in Subjects : r \in Holders(s)' => r \in Holders(s)
    BY <2>1 DEF Holders, Live, Claiming
  <2> QED
    BY <1>1, <2>1, <2>2
<1>5. ASSUME NEW r \in Requests, ClaimFails(r) PROVE HoldersBounded'
  <2>1. OthersUntouched(r) /\ slot' = slot /\ pc'[r] \in {"refused", "rollback"}
    BY <1>5, ClaimFailsDoes
  <2> QED
    BY <1>2, <2>1 DEF Claiming
<1>6. ASSUME NEW r \in Requests, Admit(r) PROVE HoldersBounded'
  <2>1. /\ pc[r] = "judge" /\ Within(r) /\ OthersUntouched(r) /\ slot' = slot
        /\ r \notin CountTokens => claimed'[r] = claimed[r]
        /\ claimed[r] = subjectsOf(r)
    BY <1>6, AdmitDoes DEF PlaceInv, Placed
  <2>2. ASSUME NEW s \in Subjects, Named(s), r \in Holders(s)' PROVE r \in Holders(s)
    <3>1. r \notin CountTokens /\ s \in claimed[r] /\ s \in subjectsOf(r) /\ slot[s][r] # 0
      BY <2>1, <2>2 DEF Holders, Live
    <3>2. before[r][s].concurrency < ConcLimit[s]
      BY <2>1, <2>2, <3>1 DEF Within, WithinGauge, Named
    <3> QED
      BY <2>1, <3>1, <3>2 DEF Holders, Live, Claiming
  <2> QED
    BY <1>1, <2>1, <2>2
<1>7. ASSUME NEW r \in Requests, Refuse(r) PROVE HoldersBounded'
  <2>1. OthersUntouched(r) /\ slot' = slot /\ pc'[r] = "rollback"
    BY <1>7, RefuseDoes
  <2> QED
    BY <1>2, <2>1 DEF Claiming
<1>8. ASSUME NEW r \in Requests, RollbackWindow(r) PROVE HoldersBounded'
  <2>1. OthersUntouched(r) /\ slot' = slot /\ pc'[r] = "rollbackGauge"
    BY <1>8, RollbackWindowDoes
  <2> QED
    BY <1>2, <2>1 DEF Claiming
<1>9. ASSUME NEW r \in Requests, RollbackGauge(r) PROVE HoldersBounded'
  <2>1. OthersUntouched(r) /\ SlotsOnlyGo(r) /\ pc'[r] \in {"refused", "rollback"}
    BY <1>9, RollbackGaugeDoes
  <2> QED
    BY <1>2, <2>1 DEF Claiming
<1>10. ASSUME NEW r \in Requests, TimerFires(r) PROVE HoldersBounded'
  <2>1. /\ OthersUntouched(r) /\ slot' = slot /\ pc'[r] = pc[r]
        /\ claimed'[r] = claimed[r] /\ before'[r] = before[r]
    BY <1>10, TimerFiresDoes
  <2>2. \A s \in Subjects : r \in Holders(s)' => r \in Holders(s)
    BY <2>1 DEF Holders, Live
  <2> QED
    BY <1>1, <2>1, <2>2
<1>11. ASSUME NEW r \in Requests, RenewSlot(r) PROVE HoldersBounded'
  <2>1. PICK t \in Subjects :
          /\ slot[t][r] = 0 => slot'[t][r] = 0
          /\ \A p \in Subjects, q \in Requests : p # t \/ q # r => slot'[p][q] = slot[p][q]
    BY <1>11, RenewSlotDoes
  <2>2. /\ OthersUntouched(r) /\ pc'[r] = pc[r]
        /\ claimed'[r] = claimed[r] /\ before'[r] = before[r]
    BY <1>11, RenewSlotDoes
  <2> SUFFICES ASSUME NEW s \in Subjects, Named(s), NEW q \in Requests, q \in Holders(s)'
               PROVE  q \in Holders(s)
    BY <1>0 DEF Holders
  <2>3. CASE q = r
    <3>1. slot[s][r] # 0
      BY <2>1, <2>3 DEF Holders, Live
    <3> QED
      BY <2>2, <2>3, <3>1 DEF Holders, Live
  <2>4. CASE q # r
    <3>1. Untouched(q) /\ slot'[s][q] = slot[s][q]
      BY <2>1, <2>2, <2>4 DEF OthersUntouched
    <3> QED
      BY <3>1, HolderFrame
  <2> QED
    BY <2>3, <2>4
<1>12. ASSUME NEW r \in Requests, Release(r) PROVE HoldersBounded'
  <2>1. OthersUntouched(r) /\ slot' = slot /\ pc'[r] = "releasing"
    BY <1>12, ReleaseDoes
  <2> QED
    BY <1>2, <2>1 DEF Claiming
<1>16. ASSUME NEW r \in Requests, ReleaseSlot(r) PROVE HoldersBounded'
  <2>1. OthersUntouched(r) /\ SlotsOnlyGo(r) /\ pc'[r] \in {"done", "releasing"}
    BY <1>16, ReleaseSlotDoes
  <2> QED
    BY <1>2, <2>1 DEF Claiming
<1>13. ASSUME NEW p \in Processes, Crash(p) PROVE HoldersBounded'
  <2> SUFFICES ASSUME NEW s \in Subjects, Named(s), NEW q \in Requests, q \in Holders(s)'
               PROVE  q \in Holders(s)
    BY <1>0 DEF Holders
  <2>1. /\ slot' = slot
        /\ \/ pc'[q] = "crashed"
           \/ pc'[q] = pc[q] /\ claimed'[q] = claimed[q] /\ before'[q] = before[q]
    BY <1>13, CrashDoes
  <2>2. pc'[q] # "crashed"
    BY DEF Holders, Claiming
  <2> QED
    BY <2>1, <2>2 DEF Holders, Live
<1>14. CASE Tick
  <2>1. /\ UNCHANGED <<pc, claimed, before>>
        /\ \A s \in Subjects, r \in Requests : slot'[s][r] = slot[s][r] \/ slot'[s][r] = 0
    BY <1>14, TickDoes
  <2>2. \A s \in Subjects : Holders(s)' \subseteq Holders(s)
    BY <2>1 DEF Holders, Live
  <2> QED
    BY <1>0, <2>2
<1>15. CASE UNCHANGED vars
  <2>1. \A s \in Subjects : Holders(s)' \subseteq Holders(s)
    BY <1>15 DEF Holders, Live, vars, coordVars, claimVars
  <2> QED
    BY <1>0, <2>1
<1> QED
  BY <1>3, <1>4, <1>5, <1>6, <1>7, <1>8, <1>9, <1>10, <1>11, <1>12, <1>13, <1>14, <1>15, <1>16,
     ClaimGaugeHolders DEF Next

(* At the start nothing is held. *)
LEMMA CeilingInit == Init => TimeInv /\ HoldersBounded
<1> SUFFICES ASSUME Init PROVE TimeInv /\ HoldersBounded
  OBVIOUS
<1>1. /\ pc = [r \in Requests |-> "idle"] /\ claimed = [r \in Requests |-> {}]
      /\ \A s \in Subjects, r \in Requests : slot[s][r] = 0
  BY DEF Init
<1>2. TimeInv
  BY <1>1 DEF TimeInv, Timed, SlotsAhead, ClaimFresh, SlotsLast, Claiming
<1>3. \A s \in Subjects : Holders(s) = {}
  BY <1>1 DEF Holders
<1>4. HoldersBounded
  BY <1>3, FS_EmptySet, MapsTyped DEF HoldersBounded
<1> QED
  BY <1>2, <1>4

(* A request that runs, and is younger than the renewal cap, is a holder. *)
LEMMA RunningHold ==
    ASSUME TypeOK, PlaceInv, TimeInv, NEW s \in Subjects, ConcLimit[s] # 0
    PROVE  Running(s) \subseteq Holders(s)
<1> SUFFICES ASSUME NEW r \in Running(s) PROVE r \in Holders(s)
  OBVIOUS
<1>1. r \in Requests /\ pc[r] = "held" /\ s \in subjectsOf(r) /\ now < at[r] + MaxRenewed
  BY DEF Running
<1>2. Placed(r) /\ Timed(r)
  BY <1>1 DEF PlaceInv, TimeInv
<1>3. s \in NamedSlots(r) /\ claimed[r] = subjectsOf(r) /\ r \notin CountTokens /\ before[r] = NoClaims
  BY <1>1, <1>2 DEF NamedSlots, Named, Placed, Admitted
<1>4. now \in Nat /\ at[r] \in Nat /\ due[r] \in Nat /\ slot[s][r] \in Nat /\ missed[s][r] \in Nat
      /\ MaxRenewed \in Nat /\ GaugeTtl \in Nat /\ RenewInterval \in Nat
  BY <1>1, TimesTyped DEF TypeOK
<1>5. due[r] # 0
  BY <1>1, <1>2, <1>3, <1>4 DEF Timed, SlotsLast
<1>6. now <= due[r] /\ SlotReach(s, r)
  BY <1>1, <1>2, <1>3, <1>5 DEF Timed, SlotsLast
<1>7. slot[s][r] # 0
  <2>1. CASE renewing[r] = {}
    BY <1>1, <1>4, <1>6, <2>1, ReachLive
  <2>2. CASE renewing[r] # {}
    <3>1. due[r] = now + RenewInterval
      BY <1>1, <1>2, <1>3, <2>2 DEF Timed, SlotsLast
    <3>2. /\ Reach(missed[s][r]) \in Nat /\ Reach(missed[s][r]) < GaugeTtl
          /\ Reach(missed[s][r] + 1) = Reach(missed[s][r]) + RenewInterval
      BY <1>4, <1>6, ReachFits DEF SlotReach
    <3>3. slot[s][r] + Reach(missed[s][r] + 1) >= due[r] + GaugeTtl
      <4>1. CASE s \in renewing[r]
        BY <1>6, <4>1 DEF SlotReach
      <4>2. CASE s \notin renewing[r]
        <5>1. missed[s][r] + (IF s \in renewing[r] THEN 1 ELSE 0) = missed[s][r]
          BY <1>4, <4>2
        <5>2. slot[s][r] + Reach(missed[s][r]) >= due[r] + GaugeTtl
          BY <1>6, <5>1 DEF SlotReach
        <5> QED
          BY <1>4, <3>2, <5>2
      <4> QED
        BY <4>1, <4>2
    <3> QED
      BY <1>4, <3>1, <3>2, <3>3
  <2> QED
    BY <2>1, <2>2
<1>8. before[r][s].concurrency = 0 /\ 0 < ConcLimit[s]
  BY <1>3, MapsTyped DEF NoClaims
<1> QED
  BY <1>1, <1>3, <1>7, <1>8 DEF Holders, Live

(* Time and the holders are an inductive invariant with types and places. *)
THEOREM AdmissionCounted == Spec => [](TypeOK /\ PlaceInv /\ TimeInv /\ HoldersBounded)
<1>1. Init => TypeOK /\ PlaceInv /\ TimeInv /\ HoldersBounded
  BY AdmissionInitTyped, PlaceInit, CeilingInit
<1>2. TypeOK /\ PlaceInv /\ TimeInv /\ HoldersBounded /\ [Next]_vars
        => (TypeOK /\ PlaceInv /\ TimeInv /\ HoldersBounded)'
  BY AdmissionTypedStep, PlaceStep, TimeStep, HoldersStep
<1> QED
  BY <1>1, <1>2, PTL DEF Spec

(* The concurrency ceiling is enforced exactly by every number of          *)
(* processes and requests: across crashes, lost commands and as many lost  *)
(* renewals as RenewalMargin allows, never more than ConcLimit requests of *)
(* a subject run at once (admit, claim, renew, release).                   *)
THEOREM ConcurrencyCeilingHolds == Spec => []ConcurrencyCeiling
<1>1. TypeOK /\ PlaceInv /\ TimeInv /\ HoldersBounded => ConcurrencyCeiling
  <2> SUFFICES ASSUME TypeOK, PlaceInv, TimeInv, HoldersBounded,
                      NEW s \in Subjects, ConcLimit[s] # 0
               PROVE  Cardinality(Running(s)) <= ConcLimit[s]
    BY DEF ConcurrencyCeiling
  <2>1. Running(s) \in SUBSET Holders(s) /\ Holders(s) \in SUBSET Requests
    BY RunningHold DEF Holders
  <2>2. /\ IsFiniteSet(Holders(s)) /\ Cardinality(Holders(s)) \in Nat
        /\ Cardinality(Running(s)) \in Nat
    BY <2>1, RequestsCount
  <2>3. Cardinality(Running(s)) <= Cardinality(Holders(s))
    BY <2>1, <2>2, FS_Subset
  <2> QED
    BY <2>2, <2>3, MapsTyped DEF HoldersBounded
<1> QED
  BY <1>1, AdmissionCounted, PTL

-----------------------------------------------------------------------------
(* The requests ceiling *)

(* The subjects whose ring r has claimed *)
Rung(r) ==
    IF pc[r] \in Admitted THEN subjectsOf(r)
    ELSE IF pc[r] = "gauge" THEN claimed[r] \union {First(subjectsOf(r) \ claimed[r])}
    ELSE claimed[r]

Counting == Claiming \union Admitted

(* Stamps are where Rung says, and none is pruned before it is a window    *)
(* old.                                                                    *)
StampsLast(r) ==
    /\ pc[r] \in Counting =>
          \A s \in Rung(r) : at[r] > now - Window => ring[s][r] = at[r]
    /\ orphaned[r] = 0 => \A s \in Subjects : ring[s][r] # 0 => s \in Rung(r)
    /\ pc[r] = "rollbackGauge" /\ orphaned[r] = 0 => ring[First(claimed[r])][r] = 0

StampInv == \A r \in Requests : StampsLast(r)

(* Requests counted against the `requests` ceiling of s in the minute that *)
(* ends at t                                                               *)
Stamped(s, t) ==
    {r \in Requests : /\ pc[r] \in Counting
                      /\ s \in Rung(r)
                      /\ before[r][s].requests < ReqLimit[s]
                      /\ LatestReading(t) - Window < at[r] /\ at[r] <= t}

StampedBounded ==
    \A s \in Subjects, t \in Nat :
        ReqLimit[s] # 0 => Cardinality(Stamped(s, t)) <= ReqLimit[s]

(* The ring of q keeps every stamp younger than a window. *)
RingKept(q) ==
    \A s \in Subjects : \/ ring'[s][q] = ring[s][q]
                        \/ ring'[s][q] = 0 /\ ring[s][q] <= now - Window

(* A request that is left alone, and loses only old stamps, keeps those    *)
(* that count.                                                             *)
LEMMA StampFrame ==
    ASSUME TypeOK, NEW q \in Requests, Placed(q), StampsLast(q), RingKept(q),
           pc'[q] = pc[q], at'[q] = at[q], claimed'[q] = claimed[q],
           orphaned'[q] = orphaned[q], now' = now \/ now' = now + 1
    PROVE  StampsLast(q)'
<1>1. Rung(q)' = Rung(q)
  BY DEF Rung, Admitted
<1>2. /\ now \in Nat /\ at[q] \in Nat /\ Window \in Nat
      /\ \A s \in Subjects : ring[s][q] \in Nat
  BY TimesTyped DEF TypeOK
<1>3. Rung(q) \subseteq Subjects /\ (pc[q] = "rollbackGauge" => First(claimed[q]) \in Subjects)
  <2>1. /\ subjectsOf(q) \subseteq Subjects /\ claimed[q] \subseteq Subjects
        /\ pc[q] \in {"window", "gauge"} => First(subjectsOf(q) \ claimed[q]) \in subjectsOf(q)
        /\ pc[q] \in {"rollback", "rollbackGauge"} => First(claimed[q]) \in claimed[q]
    BY NextSubject DEF TypeOK
  <2> QED
    BY <2>1 DEF Rung, Admitted
<1>4. (pc[q] \in Counting =>
         \A s \in Rung(q) : at[q] > now - Window => ring[s][q] = at[q])'
  <2> SUFFICES ASSUME pc[q] \in Counting, NEW s \in Rung(q), at[q] > now' - Window
               PROVE  ring'[s][q] = at[q]
    BY <1>1
  <2>1. at[q] > now - Window
    BY <1>2
  <2>2. ring[s][q] = at[q] /\ s \in Subjects
    BY <1>3, <2>1 DEF StampsLast
  <2> QED
    BY <1>2, <2>1, <2>2 DEF RingKept
<1>5. (orphaned[q] = 0 => \A s \in Subjects : ring[s][q] # 0 => s \in Rung(q))'
  BY <1>1 DEF StampsLast, RingKept
<1>6. (pc[q] = "rollbackGauge" /\ orphaned[q] = 0 => ring[First(claimed[q])][q] = 0)'
  <2> SUFFICES ASSUME pc[q] = "rollbackGauge", orphaned[q] = 0
               PROVE  ring'[First(claimed[q])][q] = 0
    BY DEF First
  <2>1. First(claimed[q]) \in Subjects /\ ring[First(claimed[q])][q] = 0
    BY <1>3 DEF StampsLast
  <2> QED
    BY <2>1 DEF RingKept
<1> QED
  BY <1>4, <1>5, <1>6 DEF StampsLast

(* An action of r, seen from the others: they keep their stamps if r does. *)
LEMMA StampOthers ==
    ASSUME TypeOK, PlaceInv, StampInv, NEW r \in Requests, OthersUntouched(r),
           \A q \in Requests \ {r} : RingKept(q), now' = now, StampsLast(r)'
    PROVE  StampInv'
<1> SUFFICES ASSUME NEW q \in Requests PROVE StampsLast(q)'
  BY DEF StampInv
<1>1. CASE q = r
  BY <1>1
<1>2. CASE q # r
  <2>1. Untouched(q) /\ Placed(q) /\ StampsLast(q) /\ RingKept(q)
    BY <1>2 DEF PlaceInv, StampInv, OthersUntouched
  <2> QED
    BY <2>1, StampFrame DEF Untouched
<1> QED
  BY <1>1, <1>2

(* ClaimWindow: the caller's clock reading is not ahead of the clock, so   *)
(* what it prunes is old, and the caller gets its stamp.                   *)
LEMMA ClaimWindowStamps ==
    ASSUME TypeOK, PlaceInv, StampInv, NEW r \in Requests, ClaimWindow(r)
    PROVE  StampInv'
<1>1. PICK t \in Subjects :
        /\ t = First(subjectsOf(r) \ claimed[r]) /\ pc[r] = "window" /\ pc'[r] = "gauge"
        /\ at'[r] = at[r] /\ claimed'[r] = claimed[r] /\ ring'[t][r] = at[r] /\ now' = now
        /\ \A q \in Requests \ {r} :
              ring'[t][q] = IF q \in InRing(t, at[r]) THEN ring[t][q] ELSE 0
        /\ \A p \in Subjects \ {t} : ring'[p] = ring[p]
        /\ OthersUntouched(r)
  BY ClaimWindowDoes
<1>2. /\ now \in Nat /\ at[r] \in Nat /\ at[r] <= now /\ Window \in Nat
      /\ \A s \in Subjects, q \in Requests : ring[s][q] \in Nat
  BY <1>1, TimesTyped DEF TypeOK, PlaceInv, Placed
<1>3. ASSUME NEW q \in Requests \ {r} PROVE RingKept(q)
  <2> SUFFICES ASSUME NEW s \in Subjects
               PROVE  \/ ring'[s][q] = ring[s][q]
                      \/ ring'[s][q] = 0 /\ ring[s][q] <= now - Window
    BY DEF RingKept
  <2>1. CASE s # t
    BY <1>1, <2>1
  <2>2. CASE s = t /\ q \in InRing(t, at[r])
    BY <1>1, <2>2
  <2>3. CASE s = t /\ q \notin InRing(t, at[r])
    <3>1. ring'[t][q] = 0 /\ ring[t][q] \in Nat
      BY <1>1, <1>2, <2>3
    <3>2. ring[t][q] = 0 \/ ring[t][q] <= at[r] - Window
      BY <1>2, <2>3 DEF InRing
    <3> QED
      BY <1>2, <2>3, <3>1, <3>2
  <2> QED
    BY <2>1, <2>2, <2>3
<1>4. Rung(r) = claimed[r] /\ (Rung(r)') = claimed[r] \union {t}
  <2>1. Rung(r) = claimed[r]
    BY <1>1 DEF Rung, Admitted
  <2>2. Rung(r)' = claimed'[r] \union {First(subjectsOf(r) \ claimed'[r])}
    BY <1>1 DEF Rung, First, Admitted
  <2> QED
    BY <1>1, <2>1, <2>2
<1>5. StampsLast(r)'
  <2>1. StampsLast(r) /\ claimed[r] \subseteq Subjects /\ orphaned[r] = 0
    BY <1>1 DEF StampInv, TypeOK, PlaceInv, Placed, Claiming
  <2>2. \A s \in claimed[r] \union {t} : at[r] > now - Window => ring'[s][r] = at[r]
    BY <1>1, <1>4, <2>1 DEF StampsLast, Counting, Claiming, Admitted
  <2>3. \A s \in Subjects : ring'[s][r] # 0 => s \in claimed[r] \union {t}
    BY <1>1, <1>4, <2>1 DEF StampsLast
  <2> QED
    BY <1>1, <1>4, <2>2, <2>3 DEF StampsLast
<1> QED
  BY <1>1, <1>3, <1>5, StampOthers

(* Every step keeps the stamps that count. *)
LEMMA StampStep ==
    ASSUME TypeOK, PlaceInv, StampInv, [Next]_vars
    PROVE  StampInv'
<1>0. ASSUME NEW r \in Requests PROVE Placed(r) /\ StampsLast(r)
  BY DEF PlaceInv, StampInv
<1>1. ASSUME NEW r \in Requests, Begin(r) PROVE StampInv'
  <2>1. /\ pc[r] = "idle" /\ pc'[r] = (IF subjectsOf(r) = {} THEN "done" ELSE "window")
        /\ claimed'[r] = {} /\ now' = now /\ ring' = ring /\ OthersUntouched(r)
        /\ \A s \in Subjects : ring[s][r] = 0
    BY <1>0, <1>1, BeginDoes DEF Placed, Settled
  <2>2. Rung(r)' = {}
    BY <2>1 DEF Rung, Admitted
  <2>3. StampsLast(r)'
    BY <2>1, <2>2 DEF StampsLast
  <2>4. \A q \in Requests \ {r} : RingKept(q)
    BY <2>1 DEF RingKept
  <2> QED
    BY <2>1, <2>3, <2>4, StampOthers
<1>2. ASSUME NEW r \in Requests, ClaimGauge(r) PROVE StampInv'
  <2>1. /\ pc[r] = "gauge" /\ claimed'[r] = claimed[r] \union {First(subjectsOf(r) \ claimed[r])}
        /\ pc'[r] \in {"judge", "window"} /\ at'[r] = at[r] /\ now' = now /\ ring' = ring
        /\ OthersUntouched(r) /\ orphaned'[r] = orphaned[r]
    BY <1>2, ClaimGaugeDoes
  <2>2. Rung(r)' = Rung(r)
    BY <2>1 DEF Rung, Admitted
  <2>3. StampsLast(r)
    BY <1>0
  <2>4. StampsLast(r)'
    BY <2>1, <2>2, <2>3 DEF StampsLast, Counting, Claiming, Admitted
  <2>5. \A q \in Requests \ {r} : RingKept(q)
    BY <2>1 DEF RingKept
  <2> QED
    BY <2>1, <2>4, <2>5, StampOthers
<1>3. ASSUME NEW r \in Requests, ClaimFails(r) PROVE StampInv'
  <2>1. PICK t \in Subjects :
          /\ t = First(subjectsOf(r) \ claimed[r]) /\ ring'[t][r] = 0
          /\ \A p \in Subjects, q \in Requests : p # t \/ q # r => ring'[p][q] = ring[p][q]
    BY <1>3, ClaimFailsDoes
  <2>2. /\ pc[r] = "gauge" /\ pc'[r] \in {"refused", "rollback"} /\ claimed'[r] = claimed[r]
        /\ now' = now /\ OthersUntouched(r) /\ orphaned[r] = 0
    BY <1>0, <1>3, ClaimFailsDoes DEF Placed, Claiming
  <2>3. Rung(r) = claimed[r] \union {t} /\ (Rung(r)') = claimed[r]
    BY <2>1, <2>2 DEF Rung, Admitted
  <2>4. StampsLast(r)
    BY <1>0
  <2>5. \A s \in Subjects : ring'[s][r] # 0 => s \in claimed[r]
    BY <2>1, <2>2, <2>3, <2>4 DEF StampsLast
  <2>6. StampsLast(r)'
    BY <2>2, <2>3, <2>5 DEF StampsLast, Counting, Claiming, Admitted
  <2>7. \A q \in Requests \ {r} : RingKept(q)
    BY <2>1 DEF RingKept
  <2> QED
    BY <2>2, <2>6, <2>7, StampOthers
<1>4. ASSUME NEW r \in Requests, ring' = ring, now' = now, OthersUntouched(r), at'[r] = at[r],
             Rung(r)' = Rung(r), pc[r] \in Counting, pc'[r] # "rollbackGauge",
             orphaned'[r] = 0 => orphaned[r] = 0
      PROVE  StampInv'
  <2>1. StampsLast(r)
    BY <1>0
  <2>3. StampsLast(r)'
    BY <1>4, <2>1 DEF StampsLast
  <2>4. \A q \in Requests \ {r} : RingKept(q)
    BY <1>4 DEF RingKept
  <2> QED
    BY <1>4, <2>3, <2>4, StampOthers
<1>5. ASSUME NEW r \in Requests, Admit(r) PROVE StampInv'
  <2>1. /\ pc[r] = "judge" /\ pc'[r] \in {"held", "done"} /\ claimed[r] = subjectsOf(r)
        /\ at'[r] = at[r] /\ now' = now /\ ring' = ring /\ OthersUntouched(r)
        /\ orphaned'[r] = orphaned[r]
    BY <1>0, <1>5, AdmitDoes DEF Placed
  <2>2. Rung(r)' = Rung(r)
    BY <2>1 DEF Rung, Admitted
  <2> QED
    BY <1>4, <2>1, <2>2 DEF Counting, Claiming, Admitted
<1>6. ASSUME NEW r \in Requests, Refuse(r) PROVE StampInv'
  <2>1. /\ pc[r] = "judge" /\ pc'[r] = "rollback" /\ claimed'[r] = claimed[r]
        /\ at'[r] = at[r] /\ now' = now /\ ring' = ring /\ OthersUntouched(r)
        /\ orphaned'[r] = orphaned[r]
    BY <1>6, RefuseDoes
  <2>2. Rung(r)' = Rung(r)
    BY <2>1 DEF Rung, Admitted
  <2> QED
    BY <1>4, <2>1, <2>2 DEF Counting, Claiming, Admitted
<1>7. ASSUME NEW r \in Requests, RollbackWindow(r) PROVE StampInv'
  <2>1. PICK t \in Subjects :
          /\ t = First(claimed[r])
          /\ \/ ring'[t][r] = 0 /\ orphaned'[r] = orphaned[r]
             \/ ring' = ring /\ orphaned'[r] = now
          /\ \A p \in Subjects, q \in Requests : p # t \/ q # r => ring'[p][q] = ring[p][q]
    BY <1>7, RollbackWindowDoes
  <2>2. /\ pc[r] = "rollback" /\ pc'[r] = "rollbackGauge" /\ claimed'[r] = claimed[r]
        /\ now' = now /\ OthersUntouched(r)
    BY <1>7, RollbackWindowDoes
  <2>3. Rung(r) = claimed[r] /\ (Rung(r)') = claimed[r]
    BY <2>2 DEF Rung, Admitted
  <2>4. First(claimed[r])' = t
    BY <2>1, <2>2 DEF First
  <2>5. StampsLast(r) /\ now # 0
    BY <1>0 DEF TypeOK
  <2>6. orphaned'[r] = 0 => ring'[t][r] = 0 /\ orphaned[r] = 0
    BY <2>1, <2>5
  <2>7. StampsLast(r)'
    <3>1. orphaned'[r] = 0 => \A s \in Subjects : ring'[s][r] # 0 => s \in claimed[r]
      BY <2>1, <2>2, <2>3, <2>5, <2>6 DEF StampsLast
    <3> QED
      BY <2>2, <2>3, <2>4, <2>6, <3>1 DEF StampsLast, Counting, Claiming, Admitted
  <2>8. \A q \in Requests \ {r} : RingKept(q)
    BY <2>1 DEF RingKept
  <2> QED
    BY <2>2, <2>7, <2>8, StampOthers
<1>8. ASSUME NEW r \in Requests, RollbackGauge(r) PROVE StampInv'
  <2>1. /\ pc[r] = "rollbackGauge" /\ pc'[r] \in {"refused", "rollback"}
        /\ claimed'[r] = claimed[r] \ {First(claimed[r])}
        /\ now' = now /\ ring' = ring /\ OthersUntouched(r)
        /\ orphaned'[r] = orphaned[r] \/ orphaned'[r] = now
    BY <1>8, RollbackGaugeDoes
  <2>2. Rung(r) = claimed[r] /\ (Rung(r)') = claimed[r] \ {First(claimed[r])}
    BY <2>1 DEF Rung, Admitted
  <2>3. StampsLast(r) /\ now # 0
    BY <1>0 DEF TypeOK
  <2>4. orphaned'[r] = 0 =>
          \A s \in Subjects : ring'[s][r] # 0 => s \in claimed[r] \ {First(claimed[r])}
    BY <2>1, <2>2, <2>3 DEF StampsLast
  <2>5. StampsLast(r)'
    BY <2>1, <2>2, <2>4 DEF StampsLast, Counting, Claiming, Admitted
  <2>6. \A q \in Requests \ {r} : RingKept(q)
    BY <2>1 DEF RingKept
  <2> QED
    BY <2>1, <2>5, <2>6, StampOthers
<1>9. ASSUME NEW r \in Requests, TimerFires(r) PROVE StampInv'
  <2>1. /\ pc[r] = "held" /\ pc'[r] = "held"
        /\ at'[r] = at[r] /\ now' = now /\ ring' = ring /\ OthersUntouched(r)
        /\ orphaned'[r] = orphaned[r]
    BY <1>9, TimerFiresDoes
  <2>2. Rung(r)' = Rung(r)
    BY <2>1 DEF Rung, Admitted
  <2> QED
    BY <1>4, <2>1, <2>2 DEF Counting, Admitted
<1>10. ASSUME NEW r \in Requests, RenewSlot(r) PROVE StampInv'
  <2>1. /\ pc'[r] = pc[r] /\ pc[r] \in Admitted
        /\ at'[r] = at[r] /\ now' = now /\ ring' = ring /\ OthersUntouched(r)
        /\ orphaned'[r] = orphaned[r]
    <3>1. First(renewing[r]) \in renewing[r]
      BY <1>10, RenewSlotDoes
    <3>2. pc[r] \in Admitted
      BY <1>0, <3>1 DEF Placed
    <3> QED
      BY <1>10, <3>2, RenewSlotDoes
  <2>2. Rung(r)' = Rung(r)
    BY <2>1 DEF Rung, Admitted
  <2>3. pc[r] \in Counting /\ pc'[r] # "rollbackGauge"
    BY <2>1 DEF Counting, Admitted
  <2> QED
    BY <1>4, <2>1, <2>2, <2>3
<1>11. ASSUME NEW r \in Requests, Release(r) PROVE StampInv'
  <2>1. /\ pc[r] = "held" /\ pc'[r] = "releasing"
        /\ at'[r] = at[r] /\ now' = now /\ ring' = ring /\ OthersUntouched(r)
        /\ orphaned'[r] = orphaned[r]
    BY <1>11, ReleaseDoes
  <2>2. Rung(r)' = Rung(r)
    BY <2>1 DEF Rung, Admitted
  <2> QED
    BY <1>4, <2>1, <2>2 DEF Counting, Admitted
<1>15. ASSUME NEW r \in Requests, ReleaseSlot(r) PROVE StampInv'
  <2>1. /\ pc[r] = "releasing" /\ pc'[r] \in {"done", "releasing"}
        /\ at'[r] = at[r] /\ now' = now /\ ring' = ring /\ OthersUntouched(r)
        /\ orphaned'[r] = orphaned[r] \/ orphaned'[r] = now
    BY <1>15, ReleaseSlotDoes
  <2>2. Rung(r)' = Rung(r)
    BY <2>1 DEF Rung, Admitted
  <2>3. orphaned'[r] = 0 => orphaned[r] = 0
    BY <2>1 DEF TypeOK
  <2> QED
    BY <1>4, <2>1, <2>2, <2>3 DEF Counting, Admitted
<1>12. ASSUME NEW p \in Processes, Crash(p) PROVE StampInv'
  <2> SUFFICES ASSUME NEW r \in Requests PROVE StampsLast(r)'
    BY DEF StampInv
  <2>1. /\ at'[r] = at[r] /\ now' = now /\ ring' = ring
        /\ \/ pc'[r] = "crashed" /\ orphaned'[r] = now
           \/ pc'[r] = pc[r] /\ claimed'[r] = claimed[r] /\ orphaned'[r] = orphaned[r]
    BY <1>12, CrashDoes
  <2>2. CASE pc'[r] = "crashed" /\ orphaned'[r] = now
    <3>1. now # 0
      BY DEF TypeOK
    <3> QED
      BY <2>2, <3>1 DEF StampsLast, Counting, Claiming, Admitted
  <2>3. CASE pc'[r] = pc[r] /\ claimed'[r] = claimed[r] /\ orphaned'[r] = orphaned[r]
    BY <1>0, <2>1, <2>3, StampFrame DEF RingKept
  <2> QED
    BY <2>1, <2>2, <2>3
<1>13. CASE Tick
  <2> SUFFICES ASSUME NEW r \in Requests PROVE StampsLast(r)'
    BY DEF StampInv
  <2>1. now' = now + 1 /\ UNCHANGED <<pc, ring, at, claimed, orphaned>>
    BY <1>13, TickDoes
  <2> QED
    BY <1>0, <2>1, StampFrame DEF RingKept
<1>14. CASE UNCHANGED vars
  <2> SUFFICES ASSUME NEW r \in Requests PROVE StampsLast(r)'
    BY DEF StampInv
  <2>1. UNCHANGED <<now, pc, ring, at, claimed, orphaned>>
    BY <1>14 DEF vars, coordVars, claimVars, histVars
  <2> QED
    BY <1>0, <2>1, StampFrame DEF RingKept
<1> QED
  BY <1>1, <1>2, <1>3, <1>5, <1>6, <1>7, <1>8, <1>9, <1>10, <1>11, <1>12, <1>13, <1>14, <1>15,
     ClaimWindowStamps DEF Next

(* Time only takes the oldest stamps off a minute. *)
LEMMA ReadingGrows ==
    ASSUME TypeOK, NEW t \in Nat, now' = now \/ now' = now + 1
    PROVE  /\ LatestReading(t) \in Int /\ LatestReading(t)' \in Int
           /\ LatestReading(t) <= LatestReading(t)'
<1>1. now \in Nat /\ ClaimMax \in Nat
  BY TimesTyped DEF TypeOK
<1>2. LatestReading(t)' = IF now' < t + ClaimMax THEN now' ELSE t + ClaimMax
  BY DEF LatestReading
<1> QED
  BY <1>1, <1>2 DEF LatestReading

(* ClaimWindow is the one action that adds a stamp.  No claim that arrived *)
(* before it can have a reading later than now, nor than ClaimMax after    *)
(* its own, so the stamps of the minute are still in the ring, and it      *)
(* counts them in the same command.                                        *)
LEMMA ClaimWindowStamped ==
    ASSUME TypeOK, PlaceInv, TimeInv, StampInv, StampedBounded, NEW r \in Requests,
           ClaimWindow(r)
    PROVE  StampedBounded'
<1> SUFFICES ASSUME NEW s \in Subjects, NEW u \in Nat, ReqLimit[s] # 0
             PROVE  Cardinality(Stamped(s, u)') <= ReqLimit[s]
  BY DEF StampedBounded
<1>1. PICK t \in Subjects :
        /\ t = First(subjectsOf(r) \ claimed[r]) /\ pc[r] = "window" /\ pc'[r] = "gauge"
        /\ claimed'[r] = claimed[r]
        /\ before'[r][t].requests = Cardinality(InRing(t, at[r]) \ {r})
        /\ \A p \in Subjects \ {t} : before'[r][p] = before[r][p]
        /\ OthersUntouched(r)
  BY ClaimWindowDoes, ZenonT(60)
<1>2. /\ Stamped(s, u) \in SUBSET Requests /\ Stamped(s, u)' \in SUBSET Requests
      /\ InRing(s, at[r]) \ {r} \in SUBSET Requests /\ ReqLimit[s] \in Nat
      /\ Cardinality(Stamped(s, u)) <= ReqLimit[s]
  BY MapsTyped DEF Stamped, InRing, StampedBounded
<1>3. /\ now' = now /\ at'[r] = at[r] /\ LatestReading(u)' = LatestReading(u)
  <2>1. now' = now /\ at'[r] = at[r]
    BY ClaimWindowDoes, ZenonT(60)
  <2> QED
    BY <2>1 DEF LatestReading
<1>4. /\ now \in Nat /\ at[r] \in Nat /\ Window \in Nat /\ ClaimMax \in Nat
      /\ at[r] <= now /\ now <= at[r] + ClaimMax
  BY <1>1, TimesTyped DEF TypeOK, PlaceInv, Placed, TimeInv, Timed, ClaimFresh, Claiming
<1>5. ASSUME NEW q \in Requests \ {r}, q \in Stamped(s, u)' PROVE q \in Stamped(s, u)
  <2>1. Untouched(q)
    BY <1>1 DEF OthersUntouched
  <2>2. Rung(q)' = Rung(q)
    BY <2>1 DEF Rung, Untouched, Admitted
  <2> QED
    BY <1>3, <1>5, <2>1, <2>2 DEF Stamped, Untouched
<1>6. CASE r \notin Stamped(s, u)'
  <2>1. Stamped(s, u)' \subseteq Stamped(s, u)
    BY <1>2, <1>5, <1>6
  <2> QED
    BY <1>2, <2>1, GainOne
<1>7. CASE r \in Stamped(s, u)' /\ s = t
  <2>1. Cardinality(InRing(s, at[r]) \ {r}) < ReqLimit[s]
    BY <1>1, <1>7 DEF Stamped
  <2>2. at[r] <= u
    BY <1>3, <1>7 DEF Stamped
  <2>3. now <= LatestReading(u)
    BY <1>4, <2>2 DEF LatestReading
  <2>4. ASSUME NEW q \in Requests \ {r}, q \in Stamped(s, u) PROVE q \in InRing(s, at[r]) \ {r}
    <3>1. /\ pc[q] \in Counting /\ s \in Rung(q) /\ StampsLast(q)
          /\ LatestReading(u) - Window < at[q] /\ at[q] \in Nat
      BY <2>4 DEF Stamped, StampInv, TypeOK
    <3>2. LatestReading(u) \in Nat
      BY <1>4 DEF LatestReading
    <3>3. now - Window < at[q] /\ at[r] - Window < at[q]
      BY <1>4, <2>3, <3>1, <3>2
    <3>4. ring[s][q] = at[q]
      BY <1>4, <3>1, <3>3 DEF StampsLast
    <3>5. at[q] # 0
      <4>1. pc[q] # "idle"
        BY <3>1 DEF Counting, Claiming, Admitted
      <4> QED
        BY <4>1 DEF PlaceInv, Placed
    <3> QED
      BY <3>3, <3>4, <3>5, <1>4, <3>1 DEF InRing
  <2>5. Stamped(s, u)' \subseteq (InRing(s, at[r]) \ {r}) \union {r}
    BY <1>2, <1>5, <2>4
  <2> QED
    BY <1>2, <2>1, <2>5, GainOne
<1>8. CASE r \in Stamped(s, u)' /\ s # t
  <2>1. Rung(r) = claimed[r] /\ (Rung(r)') = claimed[r] \union {t}
    <3>1. Rung(r)' = claimed'[r] \union {First(subjectsOf(r) \ claimed'[r])}
      BY <1>1 DEF Rung, First, Admitted
    <3> QED
      BY <1>1, <3>1 DEF Rung, Admitted
  <2>2. /\ s \in Rung(r) /\ before[r][s].requests < ReqLimit[s]
        /\ LatestReading(u) - Window < at[r] /\ at[r] <= u
    BY <1>1, <1>3, <1>8, <2>1 DEF Stamped
  <2>3. r \in Stamped(s, u)
    BY <1>1, <2>2 DEF Stamped, Counting, Claiming, Admitted
  <2>4. Stamped(s, u)' \subseteq Stamped(s, u)
    BY <1>2, <1>5, <2>3
  <2> QED
    BY <1>2, <2>4, GainOne
<1> QED
  BY <1>6, <1>7, <1>8

(* The stamps that count stay within the ceiling. *)
LEMMA StampedStep ==
    ASSUME TypeOK, PlaceInv, TimeInv, StampInv, StampedBounded, [Next]_vars
    PROVE  StampedBounded'
<1>0. ASSUME \A s \in Subjects, t \in Nat, q \in Requests : q \in Stamped(s, t)' => q \in Stamped(s, t)
      PROVE  StampedBounded'
  <2> SUFFICES ASSUME NEW s \in Subjects, NEW t \in Nat, ReqLimit[s] # 0
               PROVE  Cardinality(Stamped(s, t)') <= ReqLimit[s]
    BY DEF StampedBounded
  <2>1. /\ Stamped(s, t) \in SUBSET Requests /\ Stamped(s, t)' \in SUBSET Stamped(s, t)
        /\ Cardinality(Stamped(s, t)) <= ReqLimit[s] /\ ReqLimit[s] \in Nat
    BY <1>0, MapsTyped DEF Stamped, StampedBounded
  <2>2. IsFiniteSet(Stamped(s, t)) /\ Cardinality(Stamped(s, t)) \in Nat
    BY <2>1, RequestsCount
  <2>3. Cardinality(Stamped(s, t)') <= Cardinality(Stamped(s, t)) /\ IsFiniteSet(Stamped(s, t)')
    BY <2>1, <2>2, FS_Subset
  <2>4. Cardinality(Stamped(s, t)') \in Nat
    BY <2>3, FS_CardinalityType
  <2> QED
    BY <2>1, <2>2, <2>3, <2>4
<1>1. ASSUME NEW q \in Requests, NEW s \in Subjects, NEW t \in Nat, q \in Stamped(s, t)',
             pc'[q] \in Counting => pc[q] \in Counting,
             s \in Rung(q)' => s \in Rung(q), at'[q] = at[q],
             before[q][s].requests < ReqLimit[s], now' = now \/ now' = now + 1
      PROVE  q \in Stamped(s, t)
  <2>1. LatestReading(t)' - Window < at[q] /\ at[q] <= t /\ pc[q] \in Counting /\ s \in Rung(q)
    BY <1>1 DEF Stamped
  <2>2. at[q] \in Nat /\ Window \in Nat
    BY TimesTyped DEF TypeOK
  <2>3. LatestReading(t) - Window < at[q]
    BY <1>1, <2>1, <2>2, ReadingGrows
  <2> QED
    BY <1>1, <2>1, <2>3 DEF Stamped
<1>2. ASSUME NEW q \in Requests, NEW s \in Subjects, NEW t \in Nat, q \in Stamped(s, t)',
             pc'[q] = pc[q], claimed'[q] = claimed[q], before'[q] = before[q], at'[q] = at[q],
             now' = now \/ now' = now + 1
      PROVE  q \in Stamped(s, t)
  <2>1. Rung(q)' = Rung(q)
    BY <1>2 DEF Rung, Admitted
  <2>2. before[q][s].requests < ReqLimit[s]
    BY <1>2 DEF Stamped
  <2> QED
    BY <1>1, <1>2, <2>1, <2>2
<1>3. ASSUME NEW r \in Requests, OthersUntouched(r), now' = now,
             \A s \in Subjects, t \in Nat : r \in Stamped(s, t)' => r \in Stamped(s, t)
      PROVE  StampedBounded'
  <2> SUFFICES ASSUME NEW s \in Subjects, NEW t \in Nat, NEW q \in Requests, q \in Stamped(s, t)'
               PROVE  q \in Stamped(s, t)
    BY <1>0
  <2>1. CASE q = r
    BY <1>3, <2>1
  <2>2. CASE q # r
    <3>1. Untouched(q)
      BY <1>3, <2>2 DEF OthersUntouched
    <3> QED
      BY <1>2, <1>3, <3>1 DEF Untouched
  <2> QED
    BY <2>1, <2>2
<1>4. ASSUME NEW r \in Requests, OthersUntouched(r), now' = now, pc'[r] \notin Counting
      PROVE  StampedBounded'
  <2>1. \A s \in Subjects, t \in Nat : r \notin Stamped(s, t)'
    BY <1>4 DEF Stamped
  <2> QED
    BY <1>3, <1>4, <2>1
<1>5. ASSUME NEW r \in Requests, Begin(r) PROVE StampedBounded'
  <2>1. /\ OthersUntouched(r) /\ now' = now /\ claimed'[r] = {}
        /\ pc'[r] = IF subjectsOf(r) = {} THEN "done" ELSE "window"
    BY <1>5, BeginDoes DEF PlaceInv, Placed, Settled
  <2>2. Rung(r)' = {}
    BY <2>1 DEF Rung, Admitted
  <2>3. \A s \in Subjects, t \in Nat : r \notin Stamped(s, t)'
    BY <2>2 DEF Stamped
  <2> QED
    BY <1>3, <2>1, <2>3
<1>6. ASSUME NEW r \in Requests, ClaimGauge(r) PROVE StampedBounded'
  <2>1. PICK t \in Subjects :
        /\ pc[r] = "gauge" /\ claimed'[r] = claimed[r] \union {First(subjectsOf(r) \ claimed[r])}
        /\ pc'[r] \in {"judge", "window"} /\ now' = now /\ at'[r] = at[r] /\ OthersUntouched(r)
        /\ \/ /\ before'[r][t].requests = before[r][t].requests
              /\ \A p \in Subjects \ {t} : before'[r][p] = before[r][p]
           \/ before'[r] = before[r]
    BY <1>6, ClaimGaugeDoes
  <2>2. Rung(r)' = Rung(r)
    BY <2>1 DEF Rung, Admitted
  <2>3. \A s \in Subjects : before'[r][s].requests = before[r][s].requests
    BY <2>1
  <2>4. ASSUME NEW s \in Subjects, NEW u \in Nat, r \in Stamped(s, u)' PROVE r \in Stamped(s, u)
    <3>1. before[r][s].requests < ReqLimit[s] /\ pc[r] \in Counting
      BY <2>1, <2>3, <2>4 DEF Stamped, Counting, Claiming, Admitted
    <3> QED
      BY <1>1, <2>1, <2>2, <2>4, <3>1
  <2> QED
    BY <1>3, <2>1, <2>4
<1>7. ASSUME NEW r \in Requests, ClaimFails(r) PROVE StampedBounded'
  <2>1. OthersUntouched(r) /\ now' = now /\ pc'[r] \in {"refused", "rollback"}
    BY <1>7, ClaimFailsDoes
  <2> QED
    BY <1>4, <2>1 DEF Counting, Claiming, Admitted
<1>8. ASSUME NEW r \in Requests, Admit(r) PROVE StampedBounded'
  <2>1. /\ pc[r] = "judge" /\ Within(r) /\ OthersUntouched(r) /\ now' = now /\ at'[r] = at[r]
        /\ pc'[r] \in {"held", "done"} /\ claimed[r] = subjectsOf(r) /\ before'[r] = NoClaims
    BY <1>8, AdmitDoes DEF PlaceInv, Placed
  <2>2. Rung(r)' = subjectsOf(r) /\ Rung(r) = subjectsOf(r) /\ pc[r] \in Counting
    BY <2>1 DEF Rung, Counting, Claiming, Admitted
  <2>3. ASSUME NEW s \in Subjects, NEW t \in Nat, r \in Stamped(s, t)' PROVE r \in Stamped(s, t)
    <3>1. s \in subjectsOf(r) /\ before'[r][s].requests < ReqLimit[s]
      BY <2>2, <2>3 DEF Stamped
    <3>2. ReqLimit[s] # 0
      <4>1. before'[r][s].requests = 0
        BY <2>1 DEF NoClaims
      <4> QED
        BY <3>1, <4>1
    <3>3. before[r][s].requests < ReqLimit[s]
      BY <2>1, <3>1, <3>2 DEF Within, WithinRing
    <3> QED
      BY <1>1, <2>1, <2>2, <2>3, <3>3
  <2> QED
    BY <1>3, <2>1, <2>3
<1>9. ASSUME NEW r \in Requests, Refuse(r) PROVE StampedBounded'
  <2>1. OthersUntouched(r) /\ now' = now /\ pc'[r] = "rollback"
    BY <1>9, RefuseDoes
  <2> QED
    BY <1>4, <2>1 DEF Counting, Claiming, Admitted
<1>10. ASSUME NEW r \in Requests, RollbackWindow(r) PROVE StampedBounded'
  <2>1. OthersUntouched(r) /\ now' = now /\ pc'[r] = "rollbackGauge"
    BY <1>10, RollbackWindowDoes
  <2> QED
    BY <1>4, <2>1 DEF Counting, Claiming, Admitted
<1>11. ASSUME NEW r \in Requests, RollbackGauge(r) PROVE StampedBounded'
  <2>1. OthersUntouched(r) /\ now' = now /\ pc'[r] \in {"refused", "rollback"}
    BY <1>11, RollbackGaugeDoes
  <2> QED
    BY <1>4, <2>1 DEF Counting, Claiming, Admitted
<1>12. ASSUME NEW r \in Requests, TimerFires(r) PROVE StampedBounded'
  <2>1. /\ OthersUntouched(r) /\ now' = now /\ pc'[r] = pc[r] /\ at'[r] = at[r]
        /\ claimed'[r] = claimed[r] /\ before'[r] = before[r]
    BY <1>12, TimerFiresDoes
  <2>2. \A s \in Subjects, t \in Nat : r \in Stamped(s, t)' => r \in Stamped(s, t)
    BY <1>2, <2>1
  <2> QED
    BY <1>3, <2>1, <2>2
<1>13. ASSUME NEW r \in Requests, RenewSlot(r) PROVE StampedBounded'
  <2>1. /\ OthersUntouched(r) /\ now' = now /\ pc'[r] = pc[r] /\ at'[r] = at[r]
        /\ claimed'[r] = claimed[r] /\ before'[r] = before[r]
    BY <1>13, RenewSlotDoes
  <2>2. \A s \in Subjects, t \in Nat : r \in Stamped(s, t)' => r \in Stamped(s, t)
    BY <1>2, <2>1
  <2> QED
    BY <1>3, <2>1, <2>2
<1>14. ASSUME NEW r \in Requests, OthersUntouched(r), now' = now, at'[r] = at[r],
              before'[r] = before[r], pc[r] \in Admitted, pc'[r] \in Admitted
       PROVE  StampedBounded'
  <2>1. Rung(r)' = Rung(r) /\ pc[r] \in Counting
    BY <1>14 DEF Rung, Counting, Admitted
  <2>2. ASSUME NEW s \in Subjects, NEW t \in Nat, r \in Stamped(s, t)' PROVE r \in Stamped(s, t)
    <3>1. before[r][s].requests < ReqLimit[s]
      BY <1>14, <2>2 DEF Stamped
    <3> QED
      BY <1>1, <1>14, <2>1, <2>2, <3>1
  <2> QED
    BY <1>3, <1>14, <2>2
<1>15. ASSUME NEW r \in Requests, Release(r) PROVE StampedBounded'
  <2>1. /\ OthersUntouched(r) /\ now' = now /\ at'[r] = at[r] /\ before'[r] = before[r]
        /\ pc[r] = "held" /\ pc'[r] = "releasing"
    BY <1>15, ReleaseDoes
  <2> QED
    BY <1>14, <2>1 DEF Admitted
<1>16. ASSUME NEW r \in Requests, ReleaseSlot(r) PROVE StampedBounded'
  <2>1. /\ OthersUntouched(r) /\ now' = now /\ at'[r] = at[r] /\ before'[r] = before[r]
        /\ pc[r] = "releasing" /\ pc'[r] \in {"done", "releasing"}
    BY <1>16, ReleaseSlotDoes
  <2> QED
    BY <1>14, <2>1 DEF Admitted
<1>17. ASSUME NEW p \in Processes, Crash(p) PROVE StampedBounded'
  <2> SUFFICES ASSUME NEW s \in Subjects, NEW t \in Nat, NEW q \in Requests, q \in Stamped(s, t)'
               PROVE  q \in Stamped(s, t)
    BY <1>0
  <2>1. /\ now' = now /\ at'[q] = at[q]
        /\ \/ pc'[q] = "crashed"
           \/ pc'[q] = pc[q] /\ claimed'[q] = claimed[q] /\ before'[q] = before[q]
    BY <1>17, CrashDoes
  <2>2. pc'[q] # "crashed"
    BY DEF Stamped, Counting, Claiming, Admitted
  <2> QED
    BY <1>2, <2>1, <2>2
<1>18. CASE Tick
  <2>1. now' = now + 1 /\ UNCHANGED <<pc, at, claimed, before>>
    BY <1>18, TickDoes
  <2> QED
    BY <1>0, <1>2, <2>1
<1>19. CASE UNCHANGED vars
  <2>1. UNCHANGED <<now, pc, at, claimed, before>>
    BY <1>19 DEF vars, coordVars, claimVars
  <2> QED
    BY <1>0, <1>2, <2>1
<1> QED
  BY <1>5, <1>6, <1>7, <1>8, <1>9, <1>10, <1>11, <1>12, <1>13, <1>15, <1>16, <1>17, <1>18,
     <1>19, ClaimWindowStamped DEF Next

(* At the start there is no stamp. *)
LEMMA StampInit == Init => StampInv /\ StampedBounded
<1> SUFFICES ASSUME Init PROVE StampInv /\ StampedBounded
  OBVIOUS
<1>1. /\ pc = [r \in Requests |-> "idle"]
      /\ \A s \in Subjects, r \in Requests : ring[s][r] = 0
  BY DEF Init
<1>2. StampInv
  BY <1>1 DEF StampInv, StampsLast, Counting, Claiming, Admitted
<1>3. \A s \in Subjects, t \in Nat : Stamped(s, t) = {}
  BY <1>1 DEF Stamped, Counting, Claiming, Admitted
<1>4. \A s \in Subjects, t \in Nat : Cardinality(Stamped(s, t)) = 0
  BY <1>3, FS_EmptySet, ZenonT(30)
<1>5. \A s \in Subjects : ReqLimit[s] \in Nat
  BY MapsTyped
<1>6. StampedBounded
  BY <1>4, <1>5 DEF StampedBounded
<1> QED
  BY <1>2, <1>6

(* The stamps are an inductive invariant with types, places and times. *)
THEOREM AdmissionStamped ==
    Spec => [](TypeOK /\ PlaceInv /\ TimeInv /\ StampInv /\ StampedBounded)
<1>1. Init => TypeOK /\ PlaceInv /\ TimeInv /\ StampInv /\ StampedBounded
  BY AdmissionInitTyped, PlaceInit, CeilingInit, StampInit
<1>2. TypeOK /\ PlaceInv /\ TimeInv /\ StampInv /\ StampedBounded /\ [Next]_vars
        => (TypeOK /\ PlaceInv /\ TimeInv /\ StampInv /\ StampedBounded)'
  BY AdmissionTypedStep, PlaceStep, TimeStep, StampStep, StampedStep
<1> QED
  BY <1>1, <1>2, PTL DEF Spec

(* For every number of processes and requests, however claims, rollbacks   *)
(* and old clock readings interleave (claim, rollback, judge): the minute  *)
(* ending now holds no more admissions of a subject than its requests      *)
(* ceiling, and neither do the last Window - ClaimMax of any earlier one.  *)
THEOREM RequestCeilingHolds == Spec => []RequestCeiling
<1>1. TypeOK /\ PlaceInv /\ StampedBounded => RequestCeiling
  <2> SUFFICES ASSUME TypeOK, PlaceInv, StampedBounded,
                      NEW s \in Subjects, NEW t \in 1 .. now, ReqLimit[s] # 0
               PROVE  Cardinality(AdmittedInWindow(s, t)) <= ReqLimit[s]
    BY DEF RequestCeiling
  <2>0. t \in Nat
    BY DEF TypeOK
  <2>1. ASSUME NEW r \in AdmittedInWindow(s, t) PROVE r \in Stamped(s, t)
    <3>1. /\ r \in Requests /\ pc[r] \in Admitted /\ s \in Rung(r)
          /\ LatestReading(t) - Window < at[r] /\ at[r] <= t
      BY DEF AdmittedInWindow, Rung, Admitted
    <3>2. before[r][s].requests = 0 /\ 0 < ReqLimit[s]
      BY <3>1, MapsTyped DEF PlaceInv, Placed, NoClaims
    <3> QED
      BY <3>1, <3>2 DEF Stamped, Counting, Admitted
  <2>2. AdmittedInWindow(s, t) \in SUBSET Stamped(s, t) /\ Stamped(s, t) \in SUBSET Requests
    BY <2>1 DEF Stamped
  <2>3. /\ IsFiniteSet(Stamped(s, t)) /\ Cardinality(Stamped(s, t)) \in Nat
        /\ Cardinality(AdmittedInWindow(s, t)) \in Nat
    BY <2>2, RequestsCount
  <2>4. Cardinality(AdmittedInWindow(s, t)) <= Cardinality(Stamped(s, t))
    BY <2>2, <2>3, FS_Subset
  <2> QED
    BY <2>0, <2>3, <2>4, MapsTyped DEF StampedBounded
<1> QED
  BY <1>1, AdmissionStamped, PTL

-----------------------------------------------------------------------------
(* What is left behind *)

(* A named slot belongs to a claim or was left behind by a fault. *)
SlotsOwned(r) ==
    \A s \in Subjects : Named(s) /\ slot[s][r] # 0 => s \in claimed[r] \/ orphaned[r] # 0

(* No slot outlives the fault that orphaned it, or the renewal cap, by     *)
(* more than GaugeTtl.                                                     *)
SlotsEnd(r) ==
    /\ orphaned[r] # 0 =>
          /\ orphaned[r] <= now
          /\ \A s \in Subjects : slot[s][r] <= orphaned[r] + GaugeTtl
          /\ renewing[r] # {} => orphaned[r] = now
    /\ pc[r] \in Claiming \union {"held"} =>
          \A s \in Subjects : slot[s][r] <= at[r] + MaxRenewed + GaugeTtl

Accounted(r) == SlotsOwned(r) /\ SlotsEnd(r)

LeftInv == \A r \in Requests : Accounted(r)

(* A request that is left alone, with no slot raised, stays accounted for. *)
LEMMA LeftFrame ==
    ASSUME TypeOK, NEW q \in Requests, Accounted(q), Untouched(q),
           \A s \in Subjects : slot'[s][q] = slot[s][q] \/ slot'[s][q] = 0,
           now' = now \/ (now' = now + 1 /\ renewing[q] = {})
    PROVE  Accounted(q)'
<1>1. /\ now \in Nat /\ at[q] \in Nat /\ orphaned[q] \in Nat
      /\ GaugeTtl \in Nat /\ MaxRenewed \in Nat
  BY TimesTyped DEF TypeOK
<1>2. SlotsOwned(q)'
  BY DEF Accounted, SlotsOwned, Untouched
<1>3. (orphaned[q] # 0 =>
         /\ orphaned[q] <= now
         /\ \A s \in Subjects : slot[s][q] <= orphaned[q] + GaugeTtl
         /\ renewing[q] # {} => orphaned[q] = now)'
  BY <1>1 DEF Accounted, SlotsEnd, Untouched
<1>4. (pc[q] \in Claiming \union {"held"} =>
         \A s \in Subjects : slot[s][q] <= at[q] + MaxRenewed + GaugeTtl)'
  BY <1>1 DEF Accounted, SlotsEnd, Untouched
<1> QED
  BY <1>2, <1>3, <1>4 DEF Accounted, SlotsEnd

(* An action of r, seen from the others. *)
LEMMA LeftOthers ==
    ASSUME TypeOK, LeftInv, NEW r \in Requests, OthersUntouched(r), now' = now,
           \A s \in Subjects, q \in Requests \ {r} : slot'[s][q] = slot[s][q] \/ slot'[s][q] = 0,
           Accounted(r)'
    PROVE  LeftInv'
<1> SUFFICES ASSUME NEW q \in Requests PROVE Accounted(q)'
  BY DEF LeftInv
<1>1. CASE q = r
  BY <1>1
<1>2. CASE q # r
  <2>1. Untouched(q) /\ Accounted(q)
    BY <1>2 DEF LeftInv, OthersUntouched
  <2> QED
    BY <1>2, <2>1, LeftFrame
<1> QED
  BY <1>1, <1>2

(* ClaimGauge: a slot is acquired by a claim, before the renewal cap. *)
LEMMA ClaimGaugeLeft ==
    ASSUME TypeOK, PlaceInv, TimeInv, LeftInv, NEW r \in Requests, ClaimGauge(r)
    PROVE  LeftInv'
<1>1. PICK t \in Subjects :
        /\ claimed'[r] = claimed[r] \union {t} /\ pc[r] = "gauge"
        /\ at'[r] = at[r] /\ orphaned'[r] = orphaned[r] /\ now' = now /\ OthersUntouched(r)
        /\ \/ /\ slot'[t][r] = now + GaugeTtl
              /\ \A q \in Requests \ {r} : slot'[t][q] = slot[t][q]
              /\ \A p \in Subjects \ {t} : slot'[p] = slot[p]
           \/ slot' = slot
  BY ClaimGaugeDoes
<1>2. /\ now \in Nat \ {0} /\ at[r] \in Nat /\ orphaned[r] = 0 /\ now <= at[r] + ClaimMax
      /\ GaugeTtl \in Nat /\ MaxRenewed \in Nat /\ ClaimMax \in Nat /\ ClaimMax < MaxRenewed
      /\ Accounted(r)
  BY <1>1, TimesTyped, RenewalMargin
     DEF TypeOK, PlaceInv, Placed, TimeInv, Timed, ClaimFresh, LeftInv, Claiming
<1>3. \A p \in Subjects, q \in Requests : p # t \/ q # r => slot'[p][q] = slot[p][q]
  <2>1. CASE slot' = slot
    BY <2>1
  <2>2. CASE /\ \A q \in Requests \ {r} : slot'[t][q] = slot[t][q]
             /\ \A p \in Subjects \ {t} : slot'[p] = slot[p]
    BY <2>2
  <2> QED
    BY <1>1, <2>1, <2>2
<1>4. slot'[t][r] = slot[t][r] \/ slot'[t][r] = now + GaugeTtl
  BY <1>1
<1>5. SlotsOwned(r)'
  BY <1>1, <1>2, <1>3 DEF Accounted, SlotsOwned
<1>6. \A s \in Subjects : slot'[s][r] <= at[r] + MaxRenewed + GaugeTtl
  BY <1>1, <1>2, <1>3, <1>4 DEF Accounted, SlotsEnd, Claiming
<1>7. SlotsEnd(r)'
  BY <1>1, <1>2, <1>6 DEF SlotsEnd
<1> QED
  BY <1>1, <1>3, <1>5, <1>7, LeftOthers DEF Accounted

(* RenewSlot: a held slot is moved before the cap, one of a request that   *)
(* is over only while the fault that orphaned it is no older than the      *)
(* renewal in progress.                                                    *)
LEMMA RenewSlotLeft ==
    ASSUME TypeOK, PlaceInv, TimeInv, LeftInv, NEW r \in Requests, RenewSlot(r)
    PROVE  LeftInv'
<1>1. PICK t \in Subjects :
        /\ t \in renewing[r] /\ t \in NamedSlots(r) /\ renewing'[r] = renewing[r] \ {t}
        /\ \/ slot'[t][r] = (IF slot[t][r] # 0 THEN now + GaugeTtl ELSE 0)
           \/ slot'[t][r] = slot[t][r]
        /\ \A p \in Subjects, q \in Requests : p # t \/ q # r => slot'[p][q] = slot[p][q]
  BY RenewSlotDoes
<1>2. /\ pc'[r] = pc[r] /\ at'[r] = at[r] /\ claimed'[r] = claimed[r]
      /\ orphaned'[r] = orphaned[r] /\ OthersUntouched(r) /\ now' = now
  BY RenewSlotDoes
<1>3. /\ Placed(r) /\ Timed(r) /\ Accounted(r) /\ renewing[r] # {} /\ NamedSlots(r) # {}
  BY <1>1 DEF PlaceInv, TimeInv, LeftInv
<1>4. /\ now \in Nat \ {0} /\ at[r] \in Nat /\ orphaned[r] \in Nat
      /\ GaugeTtl \in Nat /\ MaxRenewed \in Nat
      /\ \A s \in Subjects : slot[s][r] \in Nat
  BY TimesTyped DEF TypeOK
<1>5. pc[r] \in Admitted
  BY <1>3 DEF Placed
<1>6. /\ slot[t][r] = 0 => slot'[t][r] = 0
      /\ slot'[t][r] = slot[t][r] \/ slot'[t][r] = 0 \/ slot'[t][r] = now + GaugeTtl
  BY <1>1
<1>7. SlotsOwned(r)'
  BY <1>1, <1>2, <1>3, <1>6 DEF Accounted, SlotsOwned
<1>8. ASSUME orphaned[r] # 0
      PROVE  orphaned[r] = now /\ \A s \in Subjects : slot'[s][r] <= orphaned[r] + GaugeTtl
  <2>1. orphaned[r] = now /\ \A s \in Subjects : slot[s][r] <= orphaned[r] + GaugeTtl
    BY <1>3, <1>8 DEF Accounted, SlotsEnd
  <2> QED
    BY <1>1, <1>4, <1>6, <2>1
<1>9. ASSUME pc[r] = "held"
      PROVE  \A s \in Subjects : slot'[s][r] <= at[r] + MaxRenewed + GaugeTtl
  <2>1. now < at[r] + MaxRenewed
    BY <1>3, <1>9 DEF Timed, SlotsLast
  <2>2. \A s \in Subjects : slot[s][r] <= at[r] + MaxRenewed + GaugeTtl
    BY <1>3, <1>9 DEF Accounted, SlotsEnd
  <2> QED
    BY <1>1, <1>4, <1>6, <2>1, <2>2
<1>10. SlotsEnd(r)'
  BY <1>2, <1>4, <1>5, <1>8, <1>9 DEF SlotsEnd, Claiming, Admitted
<1> QED
  BY <1>1, <1>2, <1>7, <1>10, LeftOthers DEF Accounted

(* Every step keeps account of every slot. *)
LEMMA LeftStep ==
    ASSUME TypeOK, PlaceInv, TimeInv, LeftInv, [Next]_vars
    PROVE  LeftInv'
<1>0. ASSUME NEW r \in Requests
      PROVE  /\ Placed(r) /\ Timed(r) /\ Accounted(r)
             /\ now \in Nat \ {0} /\ at[r] \in Nat /\ orphaned[r] \in Nat
             /\ GaugeTtl \in Nat /\ MaxRenewed \in Nat
             /\ \A s \in Subjects : slot[s][r] \in Nat /\ slot[s][r] <= now + GaugeTtl
  <2>1. /\ Placed(r) /\ Timed(r) /\ Accounted(r)
        /\ now \in Nat \ {0} /\ at[r] \in Nat /\ orphaned[r] \in Nat
        /\ GaugeTtl \in Nat /\ MaxRenewed \in Nat
        /\ \A s \in Subjects : slot[s][r] \in Nat
    BY TimesTyped DEF TypeOK, PlaceInv, TimeInv, LeftInv
  <2>2. \A s \in Subjects : slot[s][r] <= now + GaugeTtl
    BY <2>1 DEF Timed, SlotsAhead
  <2> QED
    BY <2>1, <2>2
<1>1. ASSUME NEW r \in Requests, slot' = slot, OthersUntouched(r), now' = now, Accounted(r)'
      PROVE  LeftInv'
  BY <1>1, LeftOthers
<1>2. ASSUME NEW r \in Requests, slot' = slot, OthersUntouched(r), now' = now,
             orphaned'[r] = orphaned[r], renewing'[r] = renewing[r], at'[r] = at[r],
             claimed'[r] = claimed[r],
             pc'[r] \in Claiming \union {"held"} => pc[r] \in Claiming
      PROVE  LeftInv'
  <2>1. Accounted(r)
    BY <1>0
  <2>2. Accounted(r)'
    BY <1>2, <2>1 DEF Accounted, SlotsOwned, SlotsEnd
  <2> QED
    BY <1>1, <1>2, <2>2
<1>3. ASSUME NEW r \in Requests, Begin(r) PROVE LeftInv'
  <2>1. /\ slot' = slot /\ OthersUntouched(r) /\ now' = now /\ orphaned'[r] = 0
        /\ \A s \in Subjects : slot[s][r] = 0
        /\ at'[r] = now
    BY <1>0, <1>3, BeginDoes DEF Placed
  <2>2. Accounted(r)'
    BY <1>0, <2>1 DEF Accounted, SlotsOwned, SlotsEnd
  <2> QED
    BY <1>1, <2>1, <2>2
<1>4. ASSUME NEW r \in Requests, ClaimWindow(r) PROVE LeftInv'
  <2>1. /\ slot' = slot /\ OthersUntouched(r) /\ now' = now /\ at'[r] = at[r] /\ pc[r] = "window"
        /\ orphaned'[r] = orphaned[r] /\ SameTimer(r) /\ claimed'[r] = claimed[r]
    BY <1>4, ClaimWindowDoes
  <2> QED
    BY <1>2, <2>1 DEF SameTimer, Claiming
<1>5. ASSUME NEW r \in Requests, ClaimFails(r) PROVE LeftInv'
  <2>1. /\ slot' = slot /\ OthersUntouched(r) /\ now' = now /\ at'[r] = at[r] /\ pc[r] = "gauge"
        /\ orphaned'[r] = orphaned[r] /\ SameTimer(r) /\ claimed'[r] = claimed[r]
    BY <1>5, ClaimFailsDoes
  <2> QED
    BY <1>2, <2>1 DEF SameTimer, Claiming
<1>6. ASSUME NEW r \in Requests, Admit(r) PROVE LeftInv'
  <2>1. /\ slot' = slot /\ OthersUntouched(r) /\ now' = now /\ at'[r] = at[r] /\ pc[r] = "judge"
        /\ orphaned'[r] = orphaned[r] /\ renewing'[r] = renewing[r]
        /\ claimed'[r] = IF r \in CountTokens THEN {} ELSE claimed[r]
        /\ pc'[r] = IF r \in CountTokens THEN "done" ELSE "held"
    BY <1>6, AdmitDoes
  <2>2. CASE r \notin CountTokens
    BY <1>2, <2>1, <2>2 DEF Claiming
  <2>3. CASE r \in CountTokens
    <3>1. orphaned[r] = 0 /\ \A s \in Subjects : slot[s][r] = 0
      BY <1>0, <2>1, <2>3 DEF Placed, Claiming
    <3>2. Accounted(r)'
      BY <2>1, <2>3, <3>1 DEF Accounted, SlotsOwned, SlotsEnd, Claiming
    <3> QED
      BY <1>1, <2>1, <3>2
  <2> QED
    BY <2>2, <2>3
<1>7. ASSUME NEW r \in Requests, Refuse(r) PROVE LeftInv'
  <2>1. /\ slot' = slot /\ OthersUntouched(r) /\ now' = now /\ at'[r] = at[r] /\ pc[r] = "judge"
        /\ orphaned'[r] = orphaned[r] /\ SameTimer(r) /\ claimed'[r] = claimed[r]
    BY <1>7, RefuseDoes
  <2> QED
    BY <1>2, <2>1 DEF SameTimer, Claiming
<1>8. ASSUME NEW r \in Requests, RollbackWindow(r) PROVE LeftInv'
  <2>1. /\ slot' = slot /\ OthersUntouched(r) /\ now' = now /\ at'[r] = at[r]
        /\ pc[r] = "rollback" /\ pc'[r] = "rollbackGauge"
        /\ orphaned'[r] = orphaned[r] \/ orphaned'[r] = now
        /\ SameTimer(r) /\ claimed'[r] = claimed[r]
    BY <1>8, RollbackWindowDoes
  <2>2. Accounted(r) /\ renewing'[r] = {} /\ now \in Nat \ {0}
    BY <1>0, <2>1 DEF Placed, SameTimer, Admitted
  <2>3. SlotsOwned(r)'
    BY <2>1, <2>2 DEF Accounted, SlotsOwned
  <2>4. SlotsEnd(r)'
    <3>1. \A s \in Subjects : slot[s][r] \in Nat /\ slot[s][r] <= now + GaugeTtl
      BY <1>0
    <3>2. CASE orphaned'[r] = orphaned[r]
      BY <2>1, <2>2, <3>2 DEF Accounted, SlotsEnd, Claiming
    <3>3. CASE orphaned'[r] = now
      BY <2>1, <2>2, <3>1, <3>3 DEF Accounted, SlotsEnd, Claiming
    <3> QED
      BY <2>1, <3>2, <3>3
  <2> QED
    BY <2>1, <2>3, <2>4, LeftOthers DEF Accounted
<1>9. ASSUME NEW r \in Requests, RollbackGauge(r) PROVE LeftInv'
  <2>1. PICK t \in Subjects :
          /\ claimed'[r] = claimed[r] \ {t}
          /\ \/ r \in CountTokens /\ slot' = slot /\ orphaned'[r] = orphaned[r]
             \/ (Named(t) => slot'[t][r] = 0) /\ orphaned'[r] = orphaned[r]
             \/ orphaned'[r] = now /\ slot' = slot
    BY <1>9, RollbackGaugeDoes
  <2>2. /\ pc[r] = "rollbackGauge" /\ pc'[r] \in {"refused", "rollback"}
        /\ SlotsOnlyGo(r) /\ SameTimer(r) /\ OthersUntouched(r) /\ now' = now
    BY <1>9, RollbackGaugeDoes
  <2>3. Accounted(r) /\ renewing[r] = {}
    BY <1>0, <2>2 DEF Placed, Admitted
  <2>4. orphaned'[r] = orphaned[r] \/ orphaned'[r] = now
    BY <2>1
  <2>5. \A s \in Subjects : slot'[s][r] = slot[s][r] \/ slot'[s][r] = 0
    BY <2>2 DEF SlotsOnlyGo
  <2>6. SlotsOwned(r)'
    <3> SUFFICES ASSUME NEW s \in Subjects, Named(s), slot'[s][r] # 0, orphaned'[r] = 0
                 PROVE  s \in claimed'[r]
      BY DEF SlotsOwned
    <3>1. now # 0 /\ slot[s][r] # 0 /\ r \notin CountTokens
      BY <1>0, <2>5 DEF Placed
    <3>2. orphaned[r] = 0 /\ s # t
      BY <2>1, <3>1
    <3> QED
      BY <2>1, <2>3, <3>1, <3>2 DEF Accounted, SlotsOwned
  <2>7. SlotsEnd(r)'
    <3>1. \A s \in Subjects : slot[s][r] \in Nat /\ slot[s][r] <= now + GaugeTtl
      BY <1>0
    <3>2. now \in Nat /\ orphaned[r] \in Nat /\ GaugeTtl \in Nat
      BY <1>0
    <3>3. ASSUME orphaned'[r] # 0
          PROVE  orphaned'[r] <= now /\ \A s \in Subjects : slot'[s][r] <= orphaned'[r] + GaugeTtl
      <4>1. CASE orphaned'[r] = now
        BY <2>5, <3>1, <3>2, <4>1
      <4>2. CASE orphaned'[r] = orphaned[r]
        BY <2>3, <2>5, <3>2, <3>3, <4>2 DEF Accounted, SlotsEnd
      <4> QED
        BY <2>4, <4>1, <4>2
    <3>4. renewing'[r] = {}
      BY <2>2, <2>3 DEF SameTimer
    <3> QED
      BY <2>2, <3>3, <3>4 DEF SlotsEnd, Claiming
  <2>8. \A s \in Subjects, q \in Requests \ {r} : slot'[s][q] = slot[s][q] \/ slot'[s][q] = 0
    BY <2>2 DEF SlotsOnlyGo
  <2> QED
    BY <2>2, <2>6, <2>7, <2>8, LeftOthers DEF Accounted
<1>10. ASSUME NEW r \in Requests, TimerFires(r) PROVE LeftInv'
  <2>1. /\ slot' = slot /\ OthersUntouched(r) /\ now' = now /\ at'[r] = at[r]
        /\ pc[r] = "held" /\ pc'[r] = "held"
        /\ orphaned'[r] = 0 /\ orphaned[r] = 0 /\ claimed'[r] = claimed[r]
    BY <1>0, <1>10, TimerFiresDoes DEF Placed
  <2>2. Accounted(r)
    BY <1>0
  <2>3. Accounted(r)'
    BY <2>1, <2>2 DEF Accounted, SlotsOwned, SlotsEnd
  <2> QED
    BY <1>1, <2>1, <2>3
<1>11. ASSUME NEW r \in Requests, Release(r) PROVE LeftInv'
  <2>1. /\ slot' = slot /\ OthersUntouched(r) /\ now' = now /\ at'[r] = at[r]
        /\ pc'[r] = "releasing" /\ orphaned'[r] = orphaned[r]
        /\ renewing'[r] = renewing[r] /\ claimed'[r] = claimed[r]
    BY <1>11, ReleaseDoes
  <2> QED
    BY <1>2, <2>1 DEF Claiming
<1>15. ASSUME NEW r \in Requests, ReleaseSlot(r) PROVE LeftInv'
  <2>1. PICK t \in Subjects :
          /\ claimed'[r] = claimed[r] \ {t}
          /\ \/ (Named(t) => slot'[t][r] = 0) /\ orphaned'[r] = orphaned[r]
             \/ orphaned'[r] = now /\ slot' = slot
    BY <1>15, ReleaseSlotDoes
  <2>2. /\ pc'[r] \in {"done", "releasing"}
        /\ SlotsOnlyGo(r) /\ SameTimer(r) /\ OthersUntouched(r) /\ now' = now
    BY <1>15, ReleaseSlotDoes
  <2>3. Accounted(r)
    BY <1>0
  <2>4. orphaned'[r] = orphaned[r] \/ orphaned'[r] = now
    BY <2>1
  <2>5. \A s \in Subjects : slot'[s][r] = slot[s][r] \/ slot'[s][r] = 0
    BY <2>2 DEF SlotsOnlyGo
  <2>6. SlotsOwned(r)'
    <3> SUFFICES ASSUME NEW s \in Subjects, Named(s), slot'[s][r] # 0, orphaned'[r] = 0
                 PROVE  s \in claimed'[r]
      BY DEF SlotsOwned
    <3>1. now # 0 /\ slot[s][r] # 0
      BY <1>0, <2>5
    <3>2. orphaned[r] = 0 /\ s # t
      BY <2>1, <3>1
    <3> QED
      BY <2>1, <2>3, <3>1, <3>2 DEF Accounted, SlotsOwned
  <2>7. SlotsEnd(r)'
    <3>1. \A s \in Subjects : slot[s][r] \in Nat /\ slot[s][r] <= now + GaugeTtl
      BY <1>0
    <3>2. now \in Nat /\ orphaned[r] \in Nat /\ GaugeTtl \in Nat
      BY <1>0
    <3>3. ASSUME orphaned'[r] # 0
          PROVE  /\ orphaned'[r] <= now
                 /\ \A s \in Subjects : slot'[s][r] <= orphaned'[r] + GaugeTtl
                 /\ renewing'[r] # {} => orphaned'[r] = now
      <4>1. CASE orphaned'[r] = now
        BY <2>5, <3>1, <3>2, <4>1
      <4>2. CASE orphaned'[r] = orphaned[r]
        BY <2>2, <2>3, <2>5, <3>2, <3>3, <4>2 DEF Accounted, SlotsEnd, SameTimer
      <4> QED
        BY <2>4, <4>1, <4>2
    <3> QED
      BY <2>2, <3>3 DEF SlotsEnd, Claiming
  <2>8. \A s \in Subjects, q \in Requests \ {r} : slot'[s][q] = slot[s][q] \/ slot'[s][q] = 0
    BY <2>2 DEF SlotsOnlyGo
  <2> QED
    BY <2>2, <2>6, <2>7, <2>8, LeftOthers DEF Accounted
<1>12. ASSUME NEW p \in Processes, Crash(p) PROVE LeftInv'
  <2> SUFFICES ASSUME NEW r \in Requests PROVE Accounted(r)'
    BY DEF LeftInv
  <2>1. /\ at'[r] = at[r] /\ now' = now /\ slot' = slot
        /\ renewing'[r] = {} \/ renewing'[r] = renewing[r]
    BY <1>12, CrashDoes
  <2>2. \/ /\ pc'[r] = "crashed" /\ renewing'[r] = {} /\ orphaned'[r] = now
        \/ /\ pc'[r] = pc[r] /\ claimed'[r] = claimed[r] /\ orphaned'[r] = orphaned[r]
    BY <1>12, CrashDoes
  <2>3. /\ Accounted(r) /\ now \in Nat \ {0}
        /\ \A s \in Subjects : slot[s][r] <= now + GaugeTtl
    BY <1>0
  <2>4. CASE pc'[r] = "crashed" /\ renewing'[r] = {} /\ orphaned'[r] = now
    BY <2>1, <2>3, <2>4 DEF Accounted, SlotsOwned, SlotsEnd, Claiming
  <2>5. CASE pc'[r] = pc[r] /\ claimed'[r] = claimed[r] /\ orphaned'[r] = orphaned[r]
    BY <2>1, <2>3, <2>5 DEF Accounted, SlotsOwned, SlotsEnd
  <2> QED
    BY <2>2, <2>4, <2>5
<1>13. CASE Tick
  <2> SUFFICES ASSUME NEW r \in Requests PROVE Accounted(r)'
    BY DEF LeftInv
  <2>1. /\ now' = now + 1 /\ renewing[r] = {} /\ Untouched(r)
        /\ \A s \in Subjects : slot'[s][r] = slot[s][r] \/ slot'[s][r] = 0
    BY <1>13, TickDoes DEF Untouched
  <2> QED
    BY <1>0, <2>1, LeftFrame
<1>14. CASE UNCHANGED vars
  <2> SUFFICES ASSUME NEW r \in Requests PROVE Accounted(r)'
    BY DEF LeftInv
  <2>1. now' = now /\ slot' = slot /\ Untouched(r)
    BY <1>14 DEF Untouched, vars, coordVars, claimVars, timerVars, histVars
  <2> QED
    BY <1>0, <2>1, LeftFrame
<1> QED
  BY <1>3, <1>4, <1>5, <1>6, <1>7, <1>8, <1>9, <1>10, <1>11, <1>12, <1>13, <1>14,
     <1>15, ClaimGaugeLeft, RenewSlotLeft DEF Next

(* At the start there is no slot. *)
LEMMA LeftInit == Init => LeftInv
BY DEF Init, LeftInv, Accounted, SlotsOwned, SlotsEnd, Claiming

(* The account of slots is inductive with types, places and time. *)
THEOREM AdmissionAccounted == Spec => [](TypeOK /\ PlaceInv /\ TimeInv /\ LeftInv)
<1>1. Init => TypeOK /\ PlaceInv /\ TimeInv /\ LeftInv
  BY AdmissionInitTyped, PlaceInit, CeilingInit, LeftInit
<1>2. TypeOK /\ PlaceInv /\ TimeInv /\ LeftInv /\ [Next]_vars
        => (TypeOK /\ PlaceInv /\ TimeInv /\ LeftInv)'
  BY AdmissionTypedStep, PlaceStep, TimeStep, LeftStep
<1> QED
  BY <1>1, <1>2, PTL DEF Spec

(* A request that is over holds no named slot and, when refused, no stamp, *)
(* in any subject, unless its process died or a rollback or release was    *)
(* lost (rollback, release, renew).                                             *)
THEOREM SettledHoldsNothingHolds == Spec => []SettledHoldsNothing
<1>1. TypeOK /\ PlaceInv /\ LeftInv /\ StampInv => SettledHoldsNothing
  <2> SUFFICES ASSUME TypeOK, PlaceInv, LeftInv, StampInv, NEW s \in Subjects, NEW r \in Requests
               PROVE  pc[r] \in Settled /\ orphaned[r] = 0 =>
                        /\ Named(s) => ~Live(s, r)
                        /\ pc[r] = "refused" => ring[s][r] = 0
    BY DEF SettledHoldsNothing
  <2>1. Placed(r) /\ Accounted(r) /\ StampsLast(r)
    BY DEF PlaceInv, LeftInv, StampInv
  <2>2. Named(s) /\ pc[r] \in Settled /\ Live(s, r) => orphaned[r] # 0
    BY <2>1 DEF Placed, Accounted, SlotsOwned, Live
  <2>3. pc[r] = "refused" => claimed[r] = {} /\ Rung(r) = {}
    BY <2>1 DEF Placed, Settled, Rung, Admitted
  <2>4. pc[r] = "refused" /\ orphaned[r] = 0 => ring[s][r] = 0
    BY <2>1, <2>3 DEF StampsLast
  <2> QED
    BY <2>2, <2>4
<1> QED
  BY <1>1, AdmissionAccounted, AdmissionStamped, PTL

(* A slot nobody will release heals: GAUGE_TTL_MS after the fault that     *)
(* orphaned it, MAX_RENEWED_MS + GAUGE_TTL_MS after admission at the       *)
(* latest (renew, the renewal cap).                                        *)
THEOREM LeakHealsHolds == Spec => []LeakHeals
<1>1. TypeOK /\ PlaceInv /\ TimeInv /\ LeftInv => LeakHeals
  <2> SUFFICES ASSUME TypeOK, TimeInv, LeftInv, NEW s \in Subjects, NEW r \in Requests, Live(s, r)
               PROVE  /\ orphaned[r] # 0 => now < orphaned[r] + GaugeTtl
                      /\ pc[r] = "held" => now < at[r] + MaxRenewed + GaugeTtl
    BY DEF LeakHeals
  <2>1. now < slot[s][r] /\ Accounted(r)
    BY DEF TimeInv, Timed, SlotsAhead, LeftInv, Live
  <2>2. /\ now \in Nat /\ slot[s][r] \in Nat /\ orphaned[r] \in Nat /\ at[r] \in Nat
        /\ GaugeTtl \in Nat /\ MaxRenewed \in Nat
    BY TimesTyped DEF TypeOK
  <2> QED
    BY <2>1, <2>2 DEF Accounted, SlotsEnd
<1> QED
  BY <1>1, AdmissionAccounted, PTL
=============================================================================
