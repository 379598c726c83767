--------------------------- MODULE LongWindowProofs ---------------------------
(***************************************************************************)
(* Proofs about LongWindow, for any number of requests and faults.         *)
(* LowOnlyByRace is not inductive: what an install will put in the picture *)
(* was read earlier, so SnapsCover says of every read still to be          *)
(* installed what LowOnlyByRace says of the picture.                       *)
(***************************************************************************)
EXTENDS LongWindow, TLAPS

(* What a seed read and has not installed covers every finished request,   *)
(* except the ones debited since.                                          *)
SnapsCover ==
    \A q \in Requests : pc[q] = "install" =>
        \A r \in Requests : Finished(r) => r \in snap[q] \/ r \in raced

LowInv == TypeOK /\ SnapsCover /\ LowOnlyByRace

(* The initial state is typed. *)
LEMMA InitTyped == Init => TypeOK
<1> SUFFICES ASSUME Init PROVE TypeOK
  OBVIOUS
<1>1. seeded \in BOOLEAN
  BY DEF Init
<1>2. pc \in [Requests -> Phases] /\ count \in [Requests -> Nat]
  BY DEF Init, Phases, Nothing
<1>3. snap \in [Requests -> SUBSET Requests]
  BY DEF Init
<1>4. rows \in SUBSET Requests /\ raced \in SUBSET Requests
  BY DEF Init
<1>5. lock \in Requests \union {NoRequest} /\ faults \in Nat
  BY DEF Init
<1> QED
  BY <1>1, <1>2, <1>3, <1>4, <1>5 DEF TypeOK

(* The variables keep their shape: every action of the limiter, the log    *)
(* and the coordinator is typed.                                           *)
THEOREM LongWindowTyped == Spec => []TypeOK
<1>1. Init => TypeOK
  BY InitTyped
<1>2. TypeOK /\ [Next]_vars => TypeOK'
  <2> SUFFICES ASSUME TypeOK, [Next]_vars PROVE TypeOK'
    OBVIOUS
  <2> USE DEF TypeOK, Phases, Goto, Unlock, Fault
  <2>1. ASSUME NEW r \in Requests, Ask(r) PROVE TypeOK'
    BY <2>1 DEF Ask
  <2>2. ASSUME NEW r \in Requests, TakeLock(r) PROVE TypeOK'
    BY <2>2 DEF TakeLock
  <2>3. ASSUME NEW r \in Requests, NoLock(r) PROVE TypeOK'
    BY <2>3, FaultsTyped DEF NoLock
  <2>4. ASSUME NEW r \in Requests, Recheck(r) PROVE TypeOK'
    BY <2>4 DEF Recheck
  <2>5. ASSUME NEW r \in Requests, ReadRows(r) PROVE TypeOK'
    BY <2>5 DEF ReadRows
  <2>6. ASSUME NEW r \in Requests, ReadFails(r) PROVE TypeOK'
    BY <2>6, FaultsTyped DEF ReadFails
  <2>7. ASSUME NEW r \in Requests, Install(r) PROVE TypeOK'
    BY <2>7 DEF Install, SeedPicture, Of
  <2>8. ASSUME NEW r \in Requests, Append(r) PROVE TypeOK'
    BY <2>8 DEF Append
  <2>9. ASSUME NEW r \in Requests, AppendFails(r) PROVE TypeOK'
    BY <2>9, FaultsTyped DEF AppendFails
  <2>10. ASSUME NEW r \in Requests, Debit(r) PROVE TypeOK'
    BY <2>10 DEF Debit, AddCounts
  <2>11. CASE LockLapses
    BY <2>11, FaultsTyped DEF LockLapses
  <2>12. CASE Evict
    <3>1. seeded' \in BOOLEAN
      BY <2>12 DEF Evict
    <3>2. count' \in [Requests -> Nat] /\ faults' \in Nat
      BY <2>12, FaultsTyped DEF Evict, Nothing
    <3> QED
      BY <3>1, <3>2, <2>12 DEF Evict
  <2>13. CASE UNCHANGED vars
    BY <2>13 DEF vars
  <2> QED
    BY <2>1, <2>2, <2>3, <2>4, <2>5, <2>6, <2>7, <2>8, <2>9, <2>10, <2>11, <2>12, <2>13
       DEF Next
<1> QED
  BY <1>1, <1>2, PTL DEF Spec

(* A request that moves on without finishing, with the picture, the reads  *)
(* and the other rows left alone, disturbs neither conjunct.               *)
LEMMA QuietStep ==
    ASSUME LowInv, NEW q \in Requests, NEW l \in Phases \ {"install", "done"},
           pc' = [pc EXCEPT ![q] = l],
           rows' \subseteq rows \union {q},
           UNCHANGED <<seeded, count, snap, raced>>
    PROVE  SnapsCover' /\ LowOnlyByRace'
<1>1. \A r \in Requests : Finished(r)' => Finished(r)
  BY DEF Finished, LowInv, TypeOK, Phases
<1>2. \A p \in Requests : pc'[p] = "install" => pc[p] = "install"
  BY DEF LowInv, TypeOK, Phases
<1> QED
  BY <1>1, <1>2 DEF LowInv, SnapsCover, LowOnlyByRace

(* The counters of a long window run low only by the one race of a seed:   *)
(* in every fleet, a finished request missing from the picture was debited *)
(* between some seed's read and its install.                               *)
THEOREM LowOnlyByRaceHolds == Spec => []LowOnlyByRace
<1>1. Init => LowInv
  <2> SUFFICES ASSUME Init PROVE LowInv
    OBVIOUS
  <2>1. TypeOK
    BY InitTyped
  <2>2. SnapsCover /\ LowOnlyByRace
    BY DEF Init, SnapsCover, LowOnlyByRace
  <2> QED
    BY <2>1, <2>2 DEF LowInv
<1>2. LowInv /\ TypeOK' /\ [Next]_vars => LowInv'
  <2> SUFFICES ASSUME LowInv, TypeOK', [Next]_vars PROVE SnapsCover' /\ LowOnlyByRace'
    BY DEF LowInv
  <2> USE DEF LowInv, SnapsCover, LowOnlyByRace
  <2>1. CASE UNCHANGED vars
    BY <2>1 DEF vars, Finished
  <2>2. CASE Next
    <3> USE DEF TypeOK
    <3>2. ASSUME NEW q \in Requests, Ask(q) PROVE SnapsCover' /\ LowOnlyByRace'
      <4> DEFINE l == IF seeded THEN "run" ELSE "lock"
      <4>1. pc' = [pc EXCEPT ![q] = l] /\ l \in Phases \ {"install", "done"}
        BY <3>2 DEF Ask, Goto, Phases
      <4> QED
        BY <4>1, <3>2, QuietStep DEF Ask
    <3>3. ASSUME NEW q \in Requests, TakeLock(q) PROVE SnapsCover' /\ LowOnlyByRace'
      BY <3>3, QuietStep DEF TakeLock, Goto, Phases
    <3>4. ASSUME NEW q \in Requests, NoLock(q) PROVE SnapsCover' /\ LowOnlyByRace'
      BY <3>4, QuietStep DEF NoLock, Goto, Phases
    <3>5. ASSUME NEW q \in Requests, Recheck(q) PROVE SnapsCover' /\ LowOnlyByRace'
      <4>1. CASE Goto(q, "run")
        BY <4>1, <3>5, QuietStep DEF Recheck, Goto, Phases
      <4>2. CASE Goto(q, "read")
        BY <4>2, <3>5, QuietStep DEF Recheck, Goto, Phases
      <4> QED
        BY <4>1, <4>2, <3>5 DEF Recheck
    <3>6. ASSUME NEW q \in Requests, ReadRows(q) PROVE SnapsCover' /\ LowOnlyByRace'
      <4>1. snap' = [snap EXCEPT ![q] = rows] /\ pc' = [pc EXCEPT ![q] = "install"]
        BY <3>6 DEF ReadRows, Goto
      <4>2. UNCHANGED <<rows, seeded, count, raced>>
        BY <3>6 DEF ReadRows
      <4>3. \A r \in Requests : Finished(r)' => Finished(r) /\ r \in rows
        BY <4>1, <4>2 DEF Finished
      <4> QED
        BY <4>1, <4>2, <4>3
    <3>7. ASSUME NEW q \in Requests, ReadFails(q) PROVE SnapsCover' /\ LowOnlyByRace'
      BY <3>7, QuietStep DEF ReadFails, Goto, Phases
    <3>8. ASSUME NEW q \in Requests, Install(q) PROVE SnapsCover' /\ LowOnlyByRace'
      <4>1. /\ pc[q] = "install" /\ pc' = [pc EXCEPT ![q] = "run"]
            /\ snap' = [snap EXCEPT ![q] = {}]
            /\ count' = [r \in Requests |-> IF r \in snap[q] THEN 1 ELSE 0]
            /\ UNCHANGED <<rows, raced>>
        BY <3>8 DEF Install, SeedPicture, Of, Goto
      <4>2. \A r \in Requests : Finished(r)' => Finished(r)
        BY <4>1 DEF Finished
      <4> QED
        BY <4>1, <4>2
    <3>9. ASSUME NEW q \in Requests, Append(q) PROVE SnapsCover' /\ LowOnlyByRace'
      BY <3>9, QuietStep DEF Append, Goto, Phases
    <3>10. ASSUME NEW q \in Requests, AppendFails(q) PROVE SnapsCover' /\ LowOnlyByRace'
      BY <3>10, QuietStep DEF AppendFails, Goto, Phases
    <3>11. ASSUME NEW q \in Requests, Debit(q) PROVE SnapsCover' /\ LowOnlyByRace'
      <4>1. /\ pc[q] = "debit" /\ pc' = [pc EXCEPT ![q] = "done"]
            /\ count' = IF seeded THEN [count EXCEPT ![q] = @ + 1] ELSE count
            /\ raced' = IF \E p \in Requests : pc[p] = "install" /\ q \notin snap[p]
                        THEN raced \union {q} ELSE raced
            /\ UNCHANGED <<rows, seeded, snap>>
        BY <3>11 DEF Debit, AddCounts, Goto
      <4>2. \A r \in Requests : Finished(r)' => Finished(r) \/ r = q
        BY <4>1 DEF Finished
      <4>3. raced \subseteq raced'
        BY <4>1
      <4>4. SnapsCover'
        BY <4>1, <4>2, <4>3
      <4>5. LowOnlyByRace'
        BY <4>1, <4>2, <4>3
      <4> QED
        BY <4>4, <4>5
    <3>12. CASE LockLapses
      BY <3>12 DEF LockLapses, Finished
    <3>13. CASE Evict
      <4>1. ~seeded' /\ UNCHANGED <<pc, rows, snap, raced>>
        BY <3>13 DEF Evict
      <4> QED
        BY <4>1 DEF Finished
    <3> QED
      BY <2>2, <3>2, <3>3, <3>4, <3>5, <3>6, <3>7, <3>8, <3>9, <3>10, <3>11, <3>12, <3>13
         DEF Next
  <2> QED
    BY <2>1, <2>2
<1>3. LowInv => LowOnlyByRace
  BY DEF LowInv
<1> QED
  BY <1>1, <1>2, <1>3, LongWindowTyped, PTL DEF Spec

(* The counters never run high by more than one debit per request, however *)
(* many seeds, evictions and lost locks there are.                         *)
THEOREM CountedAtMostTwiceHolds == Spec => []CountedAtMostTwice
<1>1. Init => CountedAtMostTwice
  BY DEF Init, Nothing, CountedAtMostTwice
<1>2. CountedAtMostTwice /\ TypeOK /\ TypeOK' /\ [Next]_vars => CountedAtMostTwice'
  <2> SUFFICES ASSUME CountedAtMostTwice, TypeOK, TypeOK', [Next]_vars
               PROVE  CountedAtMostTwice'
    OBVIOUS
  <2> USE DEF CountedAtMostTwice, TypeOK
  <2>1. ASSUME NEW q \in Requests, NEW l \in Phases \ {"done"}, pc[q] # "done",
               pc' = [pc EXCEPT ![q] = l], count' = count
        PROVE  CountedAtMostTwice'
    BY <2>1
  <2>2. ASSUME NEW q \in Requests, Ask(q) PROVE CountedAtMostTwice'
    <3> DEFINE l == IF seeded THEN "run" ELSE "lock"
    <3>1. pc' = [pc EXCEPT ![q] = l] /\ l \in Phases \ {"done"} /\ pc[q] # "done"
      BY <2>2 DEF Ask, Goto, Phases
    <3> QED
      BY <3>1, <2>1, <2>2 DEF Ask
  <2>3. ASSUME NEW q \in Requests,
               TakeLock(q) \/ NoLock(q) \/ ReadRows(q) \/ ReadFails(q)
               \/ Append(q) \/ AppendFails(q)
        PROVE  CountedAtMostTwice'
    <3>1. PICK l \in Phases \ {"done"} : pc' = [pc EXCEPT ![q] = l] /\ pc[q] # "done"
      BY <2>3 DEF TakeLock, NoLock, ReadRows, ReadFails, Append, AppendFails, Goto, Phases
    <3>2. count' = count
      BY <2>3 DEF TakeLock, NoLock, ReadRows, ReadFails, Append, AppendFails
    <3> QED
      BY <3>1, <3>2, <2>1
  <2>4. ASSUME NEW q \in Requests, Recheck(q) PROVE CountedAtMostTwice'
    <3>1. PICK l \in Phases \ {"done"} : pc' = [pc EXCEPT ![q] = l] /\ pc[q] # "done"
      BY <2>4 DEF Recheck, Goto, Phases
    <3> QED
      BY <3>1, <2>1, <2>4 DEF Recheck
  <2>5. ASSUME NEW q \in Requests, Install(q) PROVE CountedAtMostTwice'
    <3>1. count' = [r \in Requests |-> IF r \in snap[q] THEN 1 ELSE 0]
      BY <2>5 DEF Install, SeedPicture, Of
    <3> QED
      BY <3>1
  <2>6. ASSUME NEW q \in Requests, Debit(q) PROVE CountedAtMostTwice'
    <3>1. /\ pc[q] = "debit" /\ pc' = [pc EXCEPT ![q] = "done"]
          /\ count' = IF seeded THEN [count EXCEPT ![q] = @ + 1] ELSE count
      BY <2>6 DEF Debit, AddCounts, Goto
    <3> QED
      BY <3>1
  <2>7. CASE LockLapses
    BY <2>7 DEF LockLapses
  <2>8. CASE Evict
    BY <2>8 DEF Evict, Nothing
  <2>9. CASE UNCHANGED vars
    BY <2>9 DEF vars
  <2> QED
    BY <2>2, <2>3, <2>4, <2>5, <2>6, <2>7, <2>8, <2>9 DEF Next
<1> QED
  BY <1>1, <1>2, LongWindowTyped, PTL DEF Spec
=============================================================================
