-------------------------- MODULE OAuthRefreshProofs --------------------------
(***************************************************************************)
(* Proofs about OAuthRefresh, for any number of processes, rotations,      *)
(* faults and reconnects.                                                  *)
(*                                                                         *)
(* That the store never goes back is a matter of order: tokens are         *)
(* numbered as they are minted, versions as they are written (OrderInv).   *)
(* That nothing is dropped and nothing disabled rests on the lock as well, *)
(* while it works (LockInv).                                               *)
(***************************************************************************)
EXTENDS OAuthRefresh, TLAPS

(* Nobody knows of a token or a version that is still to come. *)
NothingAhead ==
    /\ honoured = minted
    /\ row.token <= minted /\ \A f \in Flows : grant[f] <= minted
    /\ \A p \in Procs :
        /\ view[p].token <= minted /\ cred[p].token <= minted /\ got[p] <= minted
        /\ view[p].version <= row.version /\ cred[p].version <= row.version

(* Until it is stored, nobody but the flow has the token of a reconnect. *)
GrantIsOwn ==
    \A f \in Flows :
        reconnect[f] = "exchanged" =>
            /\ row.token # grant[f]
            /\ \A p \in Procs : /\ view[p].token # grant[f]
                                /\ cred[p].token # grant[f]
                                /\ got[p] # grant[f]
            /\ \A g \in Flows \ {f} : grant[g] # grant[f]

(* It is the honoured one, or another reconnect was exchanged later. *)
NewestOrOvertaken ==
    \A f \in Flows :
        reconnect[f] = "exchanged" => grant[f] = honoured \/ \E g \in Flows : grant[f] < grant[g]

(* A rotation whose write would be accepted is not older than the store's. *)
AcceptedIsNewer ==
    \A p \in Procs :
        pc[p] = "answered" /\ cred[p].version = row.version => row.token <= got[p]

OrderInv == TypeOK /\ NothingAhead /\ GrantIsOwn /\ NewestOrOvertaken /\ AcceptedIsNewer

(* The lock works and no answer is lost. *)
Orderly == lockFaults = 0 /\ lost = 0

(* Then whoever is inside holds the lock, *)
Exclusive == \A p \in Procs : pc[p] # "open" /\ (pc[p] \in Critical => lock = p)

(* presents what is stored, unless a reconnect has replaced it meanwhile, *)
PresentsStored ==
    \A p \in Procs :
        pc[p] = "call" =>
            \/ cred[p].version = row.version /\ cred[p].token = row.token
            \/ cred[p].token # row.token /\ ~NoReconnect

(* a rotation whose write would be accepted is the honoured one, unless a   *)
(* reconnect is about to store a newer one,                                 *)
AcceptedIsHonoured ==
    \A p \in Procs :
        pc[p] = "answered" /\ cred[p].version = row.version =>
            got[p] = honoured \/ \E f \in Flows : reconnect[f] = "exchanged"

(* the honoured token is stored, or on its way by a write that succeeds,    *)
(* unless the older of two reconnects was stored last,                      *)
NotDropped ==
    \/ \E f \in Flows : reconnect[f] = "exchanged"
    \/ row.token = honoured
    \/ OlderReconnectStored
    \/ \E p \in Procs : pc[p] = "answered" /\ cred[p].version = row.version

(* and without reconnects nobody is repudiated. *)
NotRepudiated ==
    NoReconnect => row.enabled /\ \A p \in Procs : pc[p] # "repudiated"

Held ==
    Exclusive /\ PresentsStored /\ AcceptedIsHonoured /\ NotDropped /\ NotRepudiated

LockInv == Orderly => Held

RefreshInv == OrderInv /\ LockInv

-----------------------------------------------------------------------------
(* Types *)

(* The numbers of a typed state are natural numbers. *)
LEMMA Numbers ==
    ASSUME TypeOK
    PROVE  /\ row.version \in Nat /\ row.token \in Nat
           /\ honoured \in Nat /\ minted \in Nat /\ (\A f \in Flows : grant[f] \in Nat)
           /\ \A p \in Procs : /\ view[p].version \in Nat /\ view[p].token \in Nat
                               /\ cred[p].version \in Nat /\ cred[p].token \in Nat
                               /\ got[p] \in Nat
BY DEF TypeOK

(* A write of the secrets moves the version. *)
LEMMA Written ==
    ASSUME TypeOK, NEW t \in Nat, row' = [row EXCEPT !.version = @ + 1, !.token = t]
    PROVE  /\ row' \in [version : Nat, token : Nat, enabled : BOOLEAN]
           /\ row'.version = row.version + 1 /\ row'.token = t /\ row'.enabled = row.enabled
<1>1. row.version + 1 \in Nat
  BY DEF TypeOK
<1> QED
  BY <1>1 DEF TypeOK

(* A process moves on to a place of the program. *)
LEMMA Moved ==
    ASSUME TypeOK, NEW p \in Procs, NEW l \in Phases, Goto(p, l)
    PROVE  /\ pc' \in [Procs -> Phases]
           /\ pc'[p] = l
           /\ \A q \in Procs \ {p} : pc'[q] = pc[q]
BY DEF TypeOK, Goto

(* Init is typed. *)
LEMMA InitTyped == Init => TypeOK
BY DEF Init, TypeOK, Phases

(* Every step of a process, the lock, the provider and a reconnect keeps    *)
(* the types.                                                               *)
LEMMA NextTyped == TypeOK /\ [Next]_vars => TypeOK'
<1> SUFFICES ASSUME TypeOK, [Next]_vars PROVE TypeOK'
  OBVIOUS
<1> USE DEF credVars, flowVars, histVars
<1>p. Phases = {"recheck", "call", "answered", "repudiated", "refused", "idle", "lock", "open"}
  BY DEF Phases, Critical
<1>u. \A p \in Procs : Unlock(p) => lock' \in Procs \union {NoProc}
  BY DEF Unlock, TypeOK
<1>1. ASSUME NEW p \in Procs, Call(p) PROVE TypeOK'
  BY <1>1, <1>p, <1>u, Moved DEF Call, TypeOK
<1>2. ASSUME NEW p \in Procs, TakeLock(p) PROVE TypeOK'
  BY <1>2, <1>p, <1>u, Moved DEF TakeLock, TypeOK
<1>3. ASSUME NEW p \in Procs, NoLock(p) PROVE TypeOK'
  BY <1>3, <1>p, <1>u, Moved DEF NoLock, TypeOK
<1>4. ASSUME NEW p \in Procs, Recheck(p) PROVE TypeOK'
  <2>1. pc' \in [Procs -> Phases] /\ lock' \in Procs \union {NoProc}
    BY <1>4, <1>p, <1>u, Moved DEF Recheck, TypeOK
  <2>2. cred' \in [Procs -> [version : Nat, token : Nat]]
    BY <1>4 DEF Recheck, TypeOK
  <2> QED
    BY <1>4, <2>1, <2>2 DEF Recheck, TypeOK
<1>5. ASSUME NEW p \in Procs, Open(p) PROVE TypeOK'
  BY <1>5, <1>p, <1>u, Moved DEF Open, TypeOK
<1>6. ASSUME NEW p \in Procs, Exchange(p) PROVE TypeOK'
  <2>1. minted' \in Nat /\ honoured' \in Nat /\ got' \in [Procs -> Nat]
    BY <1>6 DEF Exchange, TypeOK
  <2>2. pc' \in [Procs -> Phases]
    BY <1>6, <1>p, Moved DEF Exchange
  <2> QED
    BY <1>6, <2>1, <2>2 DEF Exchange, TypeOK
<1>7. ASSUME NEW p \in Procs, CallFails(p) PROVE TypeOK'
  BY <1>7, <1>p, <1>u, Moved DEF CallFails, TypeOK
<1>8. ASSUME NEW p \in Procs, StoreRotation(p) PROVE TypeOK'
  <2>1. got[p] \in Nat
    BY DEF TypeOK
  <2>2. row' \in [version : Nat, token : Nat, enabled : BOOLEAN]
    BY <1>8, <2>1, Written DEF StoreRotation, TypeOK
  <2>3. pc' \in [Procs -> Phases] /\ lock' \in Procs \union {NoProc}
    BY <1>8, <1>p, <1>u, Moved DEF StoreRotation, TypeOK
  <2> QED
    BY <1>8, <2>2, <2>3 DEF StoreRotation, TypeOK
<1>9. ASSUME NEW p \in Procs, ReturnStored(p) PROVE TypeOK'
  BY <1>9, <1>p, <1>u, Moved DEF ReturnStored, TypeOK
<1>10. ASSUME NEW p \in Procs, Disable(p) PROVE TypeOK'
  BY <1>10, <1>p, <1>u, Moved DEF Disable, TypeOK
<1>11. ASSUME NEW p \in Procs, Crash(p) PROVE TypeOK'
  BY <1>11, <1>p, <1>u, Moved DEF Crash, TypeOK
<1>12. CASE LockLapses
  BY <1>12 DEF LockLapses, TypeOK
<1>13. ASSUME NEW f \in Flows, ReconnectExchange(f) PROVE TypeOK'
  <2>1. minted' \in Nat /\ honoured' \in Nat /\ grant' \in [Flows -> Nat]
    BY <1>13 DEF ReconnectExchange, TypeOK
  <2> QED
    BY <1>13, <2>1 DEF ReconnectExchange, TypeOK
<1>14. ASSUME NEW f \in Flows, ReconnectStore(f) PROVE TypeOK'
  <2>1. grant[f] \in Nat
    BY DEF TypeOK
  <2>2. row' \in [version : Nat, token : Nat, enabled : BOOLEAN]
    BY <1>14, <2>1, Written DEF ReconnectStore
  <2> QED
    BY <1>14, <2>2 DEF ReconnectStore, TypeOK
<1>15. ASSUME NEW f \in Flows, ReconnectEnable(f) \/ ReconnectFails(f) PROVE TypeOK'
  <2>1. CASE ReconnectEnable(f)
    BY <2>1 DEF ReconnectEnable, TypeOK
  <2>2. CASE ReconnectFails(f)
    BY <2>2 DEF ReconnectFails, TypeOK
  <2> QED
    BY <1>15, <2>1, <2>2
<1>16. CASE UNCHANGED vars
  BY <1>16 DEF vars, TypeOK
<1> QED
  BY <1>1, <1>2, <1>3, <1>4, <1>5, <1>6, <1>7, <1>8, <1>9, <1>10, <1>11,
     <1>12, <1>13, <1>14, <1>15, <1>16 DEF Next

-----------------------------------------------------------------------------
(* The order of tokens and versions *)

Ordered == NothingAhead /\ GrantIsOwn /\ NewestOrOvertaken /\ AcceptedIsNewer

(* Init: there is one token and one version. *)
LEMMA InitOrder == Init => OrderInv
<1> SUFFICES ASSUME Init PROVE OrderInv
  OBVIOUS
<1>1. TypeOK
  BY InitTyped
<1>2. Ordered
  BY DEF Init, Ordered, NothingAhead, GrantIsOwn, NewestOrOvertaken, AcceptedIsNewer
<1> QED
  BY <1>1, <1>2 DEF OrderInv, Ordered

(* A step that moves no token and answers nobody keeps it. *)
LEMMA OrderKept ==
    ASSUME Ordered,
           UNCHANGED <<honoured, minted, view, cred, got, grant>>,
           row'.token = row.token, row'.version = row.version,
           \A f \in Flows : reconnect'[f] = "exchanged" => reconnect[f] = "exchanged",
           \A q \in Procs : pc'[q] = "answered" => pc[q] = "answered"
    PROVE  Ordered'
BY DEF Ordered, NothingAhead, GrantIsOwn, NewestOrOvertaken, AcceptedIsNewer

(* Every step keeps the order. *)
LEMMA NextOrder == OrderInv /\ [Next]_vars => OrderInv'
<1> SUFFICES ASSUME OrderInv, [Next]_vars PROVE OrderInv'
  OBVIOUS
<1>t. TypeOK /\ TypeOK' /\ Ordered
  BY NextTyped DEF OrderInv, Ordered
<1> SUFFICES Ordered'
  BY <1>t DEF OrderInv, Ordered
<1>n. /\ row.version \in Nat /\ row.token \in Nat
      /\ honoured \in Nat /\ minted \in Nat /\ (\A f \in Flows : grant[f] \in Nat)
      /\ \A p \in Procs : /\ view[p].version \in Nat /\ view[p].token \in Nat
                          /\ cred[p].version \in Nat /\ cred[p].token \in Nat
                          /\ got[p] \in Nat
  BY <1>t, Numbers
<1>a. \A l : l \in Phases <=> l \in {"recheck", "call", "answered", "repudiated",
                                    "refused", "idle", "lock", "open"}
  BY DEF Phases, Critical
<1> USE DEF credVars, flowVars, histVars
<1>1. ASSUME NEW p \in Procs, Call(p) PROVE Ordered'
  <2>1. /\ \A q \in Procs \ {p} : view'[q] = view[q]
        /\ view'[p].version = row.version /\ view'[p].token = row.token
    BY <1>1, <1>t DEF Call, TypeOK
  <2>2. \A q \in Procs : pc'[q] = "answered" => pc[q] = "answered"
    BY <1>1, <1>t, <1>a, Moved DEF Call
  <2> QED
    BY <1>1, <1>t, <1>n, <2>1, <2>2 DEF Call, Ordered, NothingAhead, GrantIsOwn, NewestOrOvertaken, AcceptedIsNewer
<1>2. ASSUME NEW p \in Procs, Recheck(p) \/ Open(p) PROVE Ordered'
  <2>1. /\ \A q \in Procs \ {p} : cred'[q] = cred[q]
        /\ \/ cred'[p] = cred[p]
           \/ /\ cred'[p].version \in {row.version, view[p].version}
              /\ cred'[p].token \in {row.token, view[p].token}
    BY <1>2, <1>t DEF Recheck, Open, TypeOK
  <2>2. \A q \in Procs : pc'[q] = "answered" => pc[q] = "answered" /\ q # p
    BY <1>2, <1>t, <1>a, Moved DEF Recheck, Open
  <2> QED
    BY <1>2, <1>t, <1>n, <2>1, <2>2
       DEF Recheck, Open, Ordered, NothingAhead, GrantIsOwn, NewestOrOvertaken, AcceptedIsNewer
<1>3. ASSUME NEW p \in Procs, Exchange(p) PROVE Ordered'
  <2>1. CASE cred[p].token = honoured
    <3>1. \A f \in Flows : reconnect[f] = "exchanged" => grant[f] # honoured
      BY <2>1, <1>t DEF Ordered, GrantIsOwn
    <3>2. minted' = minted + 1 /\ honoured' = minted + 1 /\ Goto(p, "answered")
      BY <1>3, <2>1 DEF Exchange
    <3>3. got'[p] = minted + 1 /\ \A q \in Procs \ {p} : got'[q] = got[q]
      BY <1>3, <2>1, <1>t DEF Exchange, TypeOK
    <3>4. \A q \in Procs \ {p} : pc'[q] = pc[q]
      BY <3>2, <1>t, <1>a, Moved
    <3> QED
      BY <1>3, <1>t, <1>n, <3>1, <3>2, <3>3, <3>4
         DEF Exchange, Ordered, NothingAhead, GrantIsOwn, NewestOrOvertaken, AcceptedIsNewer
  <2>2. CASE cred[p].token # honoured
    BY <1>3, <2>2, <1>t, <1>a, Moved, OrderKept DEF Exchange
  <2> QED
    BY <2>1, <2>2
<1>4. ASSUME NEW p \in Procs, StoreRotation(p) PROVE Ordered'
  <2>1. CASE row.version = cred[p].version
    <3>1. row'.version = row.version + 1 /\ row'.token = got[p] /\ Goto(p, "idle")
      BY <1>4, <2>1, <1>t, <1>n, Written DEF StoreRotation
    <3>2. \A q \in Procs : pc'[q] = "answered" => pc[q] = "answered"
      BY <3>1, <1>t, <1>a, Moved
    <3> QED
      BY <1>4, <1>t, <1>n, <3>1, <3>2
         DEF StoreRotation, Ordered, NothingAhead, GrantIsOwn, NewestOrOvertaken, AcceptedIsNewer
  <2>2. CASE row.version # cred[p].version
    BY <1>4, <2>2, <1>t, <1>a, Moved, OrderKept DEF StoreRotation
  <2> QED
    BY <2>1, <2>2
<1>5. ASSUME NEW p \in Procs,
             TakeLock(p) \/ NoLock(p) \/ CallFails(p) \/ ReturnStored(p) \/ Crash(p)
      PROVE  Ordered'
  <2>1. \A q \in Procs : pc'[q] = "answered" => pc[q] = "answered"
    BY <1>5, <1>t, <1>a, Moved DEF TakeLock, NoLock, CallFails, ReturnStored, Crash
  <2> QED
    BY <1>5, <1>t, <2>1, OrderKept DEF TakeLock, NoLock, CallFails, ReturnStored, Crash
<1>6. ASSUME NEW p \in Procs, Disable(p) PROVE Ordered'
  <2>1. \A q \in Procs : pc'[q] = "answered" => pc[q] = "answered"
    BY <1>6, <1>t, <1>a, Moved DEF Disable
  <2>2. row'.token = row.token /\ row'.version = row.version
    BY <1>6, <1>t DEF Disable, TypeOK
  <2> QED
    BY <1>6, <1>t, <2>1, <2>2, OrderKept DEF Disable
<1>7. CASE LockLapses
  BY <1>7, <1>t, OrderKept DEF LockLapses
<1>8. ASSUME NEW f \in Flows, ReconnectExchange(f) PROVE Ordered'
  <2>1. /\ minted' = minted + 1 /\ honoured' = minted + 1
        /\ UNCHANGED <<row, pc, view, cred, got>>
    BY <1>8 DEF ReconnectExchange
  <2>2. grant'[f] = minted + 1 /\ \A g \in Flows \ {f} : grant'[g] = grant[g]
    BY <1>8, <1>t DEF ReconnectExchange, TypeOK
  <2>3. \A g \in Flows \ {f} : reconnect'[g] = reconnect[g]
    BY <1>8, <1>t DEF ReconnectExchange, TypeOK
  <2>4. NothingAhead' /\ AcceptedIsNewer'
    BY <2>1, <2>2, <1>t, <1>n DEF Ordered, NothingAhead, AcceptedIsNewer
  <2>5. GrantIsOwn'
    BY <2>1, <2>2, <2>3, <1>t, <1>n DEF Ordered, NothingAhead, GrantIsOwn
  <2>6. NewestOrOvertaken'
    BY <2>1, <2>2, <2>3, <1>t, <1>n DEF Ordered, NothingAhead, NewestOrOvertaken
  <2> QED
    BY <2>4, <2>5, <2>6 DEF Ordered
<1>9. ASSUME NEW f \in Flows, ReconnectStore(f) PROVE Ordered'
  <2>1. row'.version = row.version + 1 /\ row'.token = grant[f]
    BY <1>9, <1>t, <1>n, Written DEF ReconnectStore
  <2>2. \A g \in Flows : reconnect'[g] = "exchanged" => reconnect[g] = "exchanged" /\ g # f
    BY <1>9, <1>t DEF ReconnectStore, TypeOK
  <2>3. UNCHANGED <<honoured, minted, pc, view, cred, got, grant>>
    BY <1>9 DEF ReconnectStore
  <2>4. NothingAhead' /\ AcceptedIsNewer'
    BY <2>1, <2>3, <1>t, <1>n DEF Ordered, NothingAhead, AcceptedIsNewer
  <2>5. GrantIsOwn' /\ NewestOrOvertaken'
    BY <2>1, <2>2, <2>3, <1>t DEF Ordered, GrantIsOwn, NewestOrOvertaken
  <2> QED
    BY <2>4, <2>5 DEF Ordered
<1>10. ASSUME NEW f \in Flows, ReconnectEnable(f) \/ ReconnectFails(f) PROVE Ordered'
  <2>1. row'.token = row.token /\ row'.version = row.version
    BY <1>10, <1>t DEF ReconnectEnable, ReconnectFails, TypeOK
  <2>2. \A g \in Flows : reconnect'[g] = "exchanged" => reconnect[g] = "exchanged"
    BY <1>10, <1>t DEF ReconnectEnable, ReconnectFails, TypeOK
  <2> QED
    BY <1>10, <1>t, <2>1, <2>2, OrderKept DEF ReconnectEnable, ReconnectFails
<1>11. CASE UNCHANGED vars
  BY <1>11, <1>t, OrderKept DEF vars
<1> QED
  BY <1>1, <1>2, <1>3, <1>4, <1>5, <1>6, <1>7, <1>8, <1>9, <1>10, <1>11 DEF Next

(* A write is of an older token only when a reconnect was overtaken. *)
LEMMA StepForward ==
    ASSUME OrderInv, [Next]_vars, row'.token < row.token
    PROVE  \E f, g \in Flows : /\ reconnect[f] = "exchanged" /\ row'.token = grant[f]
                               /\ grant[f] < grant[g]
<1>n. /\ row.token \in Nat /\ minted \in Nat /\ TypeOK
      /\ (\A f \in Flows : grant[f] \in Nat) /\ \A p \in Procs : got[p] \in Nat
  BY Numbers DEF OrderInv
<1> USE DEF credVars, flowVars, histVars
<1>1. ASSUME NEW p \in Procs, StoreRotation(p) PROVE FALSE
  <2>1. CASE row.version = cred[p].version
    <3>1. row'.token = got[p]
      BY <1>1, <2>1, <1>n, Written DEF StoreRotation
    <3>2. row.token <= got[p]
      BY <1>1, <2>1 DEF StoreRotation, OrderInv, AcceptedIsNewer
    <3> QED
      BY <3>1, <3>2, <1>n
  <2>2. CASE row.version # cred[p].version
    BY <1>1, <2>2, <1>n DEF StoreRotation
  <2> QED
    BY <2>1, <2>2
<1>2. ASSUME NEW f \in Flows, ReconnectStore(f)
      PROVE  /\ reconnect[f] = "exchanged" /\ row'.token = grant[f]
             /\ \E g \in Flows : grant[f] < grant[g]
  <2>1. reconnect[f] = "exchanged" /\ row'.token = grant[f]
    BY <1>2, <1>n, Written DEF ReconnectStore
  <2>2. grant[f] # honoured
    BY <2>1, <1>n DEF OrderInv, NothingAhead
  <2> QED
    BY <2>1, <2>2 DEF OrderInv, NewestOrOvertaken
<1>3. ASSUME NEW p \in Procs, Disable(p) PROVE FALSE
  BY <1>3, <1>n DEF Disable, TypeOK
<1>4. ASSUME NEW f \in Flows, ReconnectEnable(f) PROVE FALSE
  BY <1>4, <1>n DEF ReconnectEnable, TypeOK
<1>5. row' # row
  BY <1>n
<1> QED
  BY <1>1, <1>2, <1>3, <1>4, <1>5
     DEF Next, vars, Call, TakeLock, NoLock, Recheck, Open, Exchange, CallFails, ReturnStored,
         Crash, LockLapses, ReconnectExchange, ReconnectFails

(* Every variable keeps its shape. *)
THEOREM OAuthRefreshTyped == Spec => []TypeOK
<1>1. Init => TypeOK
  BY InitTyped
<1>2. TypeOK /\ [Next]_vars => TypeOK'
  BY NextTyped
<1> QED
  BY <1>1, <1>2, PTL DEF Spec

(* The store goes back to an older refresh token by nothing but a reconnect *)
(* that another one overtook, for any number of processes, faults and       *)
(* overlapping reconnects (updateSecrets, complete).                        *)
THEOREM RotationNeverUndoneHolds == Spec => RotationNeverUndone
<1>1. Init => OrderInv
  BY InitOrder
<1>2. OrderInv /\ [Next]_vars => OrderInv'
  BY NextOrder
<1>3. OrderInv /\ [Next]_vars =>
        [row'.token < row.token =>
            \E f, g \in Flows : /\ reconnect[f] = "exchanged" /\ row'.token = grant[f]
                                /\ grant[f] < grant[g]]_vars
  BY StepForward
<1> QED
  BY <1>1, <1>2, <1>3, PTL DEF Spec, RotationNeverUndone

-----------------------------------------------------------------------------
(* The lock *)

(* A step that changes neither the row nor a token, and after which nobody  *)
(* is anywhere inside but where it was, or out, or at the recheck with the  *)
(* lock.                                                                    *)
LEMMA HeldKept ==
    ASSUME Held,
           UNCHANGED <<row, honoured, cred, got, reconnect, grant>>,
           \A q \in Procs :
              \/ pc'[q] = pc[q] /\ (pc[q] \in Critical => lock' = lock)
              \/ pc'[q] \in {"idle", "lock"} /\ pc[q] # "answered"
              \/ pc'[q] = "recheck" /\ lock' = q /\ pc[q] # "answered"
    PROVE  Held'
<1>1. Exclusive'
  BY DEF Held, Exclusive, Critical
<1>2. PresentsStored' /\ NotRepudiated'
  BY DEF Held, PresentsStored, NotRepudiated, NoReconnect
<1>3. AcceptedIsHonoured' /\ NotDropped'
  BY DEF Held, AcceptedIsHonoured, NotDropped, OlderReconnectStored
<1> QED
  BY <1>1, <1>2, <1>3 DEF Held

(* Nobody else is inside. *)
LEMMA Alone ==
    ASSUME Held, NEW p \in Procs, pc[p] \in Critical
    PROVE  lock = p /\ \A q \in Procs \ {p} : pc[q] \notin Critical
BY DEF Held, Exclusive

(* Init: nobody is inside and the token is stored. *)
LEMMA InitLock == Init => LockInv
BY DEF Init, LockInv, Held, Exclusive, PresentsStored, AcceptedIsHonoured, NotDropped,
       NotRepudiated, Critical

(* Every step keeps LockInv; a fault of the lock or a lost answer ends what *)
(* it promises.                                                             *)
LEMMA NextLock == RefreshInv /\ [Next]_vars => LockInv'
<1> SUFFICES ASSUME OrderInv, LockInv, [Next]_vars, Orderly' PROVE Held'
  BY DEF RefreshInv, LockInv
<1>t. TypeOK
  BY DEF OrderInv
<1>n. /\ row.version \in Nat /\ row.token \in Nat
      /\ honoured \in Nat /\ minted \in Nat /\ (\A f \in Flows : grant[f] \in Nat)
      /\ \A p \in Procs : /\ view[p].version \in Nat /\ view[p].token \in Nat
                          /\ cred[p].version \in Nat /\ cred[p].token \in Nat
                          /\ got[p] \in Nat
  BY <1>t, Numbers
<1>a. \A l : l \in Phases <=> l \in {"recheck", "call", "answered", "repudiated",
                                    "refused", "idle", "lock", "open"}
  BY DEF Phases, Critical
<1> USE DEF credVars, flowVars, histVars
<1>o. Orderly
  <2>1. lockFaults \in Nat /\ lost \in Nat
    BY <1>t DEF TypeOK
  <2>2. lockFaults' \in {lockFaults, lockFaults + 1} /\ lost' \in {lost, lost + 1}
    BY DEF Next, vars, Call, TakeLock, NoLock, Recheck, Open, Exchange, CallFails,
           StoreRotation, ReturnStored, Disable, Crash, LockLapses, ReconnectExchange,
           ReconnectStore, ReconnectEnable, ReconnectFails
  <2> QED
    BY <2>1, <2>2 DEF Orderly
<1>h. Held
  BY <1>o DEF LockInv
<1>f. lockFaults = 0 /\ lockFaults' = 0 /\ lost = 0 /\ lost' = 0
  BY <1>o DEF Orderly
<1>1. ASSUME NEW p \in Procs, Call(p) \/ TakeLock(p) PROVE Held'
  <2>1. CASE Call(p)
    BY <2>1, <1>t, <1>h, <1>a, Moved, HeldKept DEF Call
  <2>2. CASE TakeLock(p)
    <3>1. \A q \in Procs : pc[q] \notin Critical
      BY <2>2, <1>h, NobodyIsNoProc DEF TakeLock, Held, Exclusive
    <3>2. pc'[p] = "recheck" /\ \A q \in Procs \ {p} : pc'[q] = pc[q]
      BY <2>2, <1>t, <1>a, Moved DEF TakeLock
    <3> QED
      BY <2>2, <3>1, <3>2, <1>h, HeldKept DEF TakeLock, Critical
  <2> QED
    BY <1>1, <2>1, <2>2
<1>2. ASSUME NEW p \in Procs, NoLock(p) \/ Open(p) \/ CallFails(p) \/ Crash(p) PROVE Held'
  BY <1>2, <1>f, <1>h DEF NoLock, Open, CallFails, Crash, Held, Exclusive
<1>3. ASSUME NEW p \in Procs, Recheck(p) PROVE Held'
  <2>1. lock = p /\ \A q \in Procs \ {p} : pc[q] \notin Critical
    BY <1>3, <1>h, Alone DEF Recheck, Critical
  <2>2. CASE row.version > view[p].version
    BY <1>3, <2>1, <2>2, <1>t, <1>n, <1>h, <1>a, Moved, HeldKept DEF Recheck
  <2>3. CASE row.version <= view[p].version
    <3>1. Goto(p, "call") /\ UNCHANGED lock
      BY <1>3, <2>3, <1>n DEF Recheck
    <3>2. pc'[p] = "call" /\ \A q \in Procs \ {p} : pc'[q] = pc[q]
      BY <3>1, <1>t, <1>a, Moved
    <3>3. /\ cred'[p].version = row.version /\ cred'[p].token = row.token
          /\ \A q \in Procs \ {p} : cred'[q] = cred[q]
      BY <1>3, <2>3, <1>n, <1>t DEF Recheck, TypeOK
    <3>4. Exclusive' /\ PresentsStored' /\ NotRepudiated'
      BY <1>3, <2>1, <3>1, <3>2, <3>3, <1>h
         DEF Recheck, Held, Exclusive, PresentsStored, NotRepudiated, NoReconnect, Critical
    <3>5. AcceptedIsHonoured' /\ NotDropped'
      BY <1>3, <3>2, <3>3, <1>h
         DEF Recheck, Held, AcceptedIsHonoured, NotDropped, OlderReconnectStored
    <3> QED
      BY <3>4, <3>5 DEF Held
  <2> QED
    BY <2>2, <2>3, <1>n
<1>4. ASSUME NEW p \in Procs, Exchange(p) PROVE Held'
  <2>1. lock = p /\ \A q \in Procs \ {p} : pc[q] \notin Critical
    BY <1>4, <1>h, Alone DEF Exchange, Critical
  <2>2. \/ \E f \in Flows : reconnect[f] = "exchanged"
        \/ row.token = honoured
        \/ OlderReconnectStored
    BY <1>4, <2>1, <1>h DEF Exchange, Held, NotDropped, Critical
  <2>3. CASE cred[p].token = honoured
    <3>1. Goto(p, "answered") /\ honoured' = minted + 1
      BY <1>4, <2>3 DEF Exchange
    <3>2. UNCHANGED <<row, lock, cred, reconnect, grant>>
      BY <1>4 DEF Exchange
    <3>3. pc'[p] = "answered" /\ \A q \in Procs \ {p} : pc'[q] = pc[q]
      BY <3>1, <1>t, <1>a, Moved
    <3>4. got'[p] = honoured'
      BY <1>4, <2>3, <3>1, <1>t DEF Exchange, TypeOK
    <3>5. Exclusive' /\ PresentsStored' /\ NotRepudiated'
      BY <2>1, <3>2, <3>3, <1>h
         DEF Held, Exclusive, PresentsStored, NotRepudiated, NoReconnect, Critical
    <3>6. AcceptedIsHonoured'
      BY <2>1, <3>2, <3>3, <3>4 DEF AcceptedIsHonoured, Critical
    <3>7. row.token = honoured => cred[p].version = row.version
      BY <1>4, <2>3, <1>h DEF Exchange, Held, PresentsStored
    <3>8. NotDropped'
      BY <2>2, <3>2, <3>3, <3>7 DEF NotDropped, OlderReconnectStored
    <3> QED
      BY <3>5, <3>6, <3>8 DEF Held
  <2>4. CASE cred[p].token # honoured
    <3>1. Goto(p, "repudiated") /\ UNCHANGED <<row, honoured, got, cred, lock, reconnect, grant>>
      BY <1>4, <2>4 DEF Exchange
    <3>2. pc'[p] = "repudiated" /\ \A q \in Procs \ {p} : pc'[q] = pc[q]
      BY <3>1, <1>t, <1>a, Moved
    <3>3. ~NoReconnect
      <4>1. CASE row.token = honoured
        BY <1>4, <2>4, <4>1, <1>h DEF Exchange, Held, PresentsStored
      <4>2. CASE row.token # honoured
        BY <2>2, <4>2 DEF NoReconnect, OlderReconnectStored
      <4> QED
        BY <4>1, <4>2
    <3>4. Exclusive' /\ PresentsStored' /\ NotRepudiated'
      BY <2>1, <3>1, <3>2, <3>3, <1>h
         DEF Held, Exclusive, PresentsStored, NotRepudiated, NoReconnect, Critical
    <3>5. AcceptedIsHonoured' /\ NotDropped'
      BY <2>1, <2>2, <3>1, <3>2
         DEF AcceptedIsHonoured, NotDropped, OlderReconnectStored, Critical
    <3> QED
      BY <3>4, <3>5 DEF Held
  <2> QED
    BY <2>3, <2>4
<1>5. ASSUME NEW p \in Procs, StoreRotation(p) PROVE Held'
  <2>1. lock = p /\ \A q \in Procs \ {p} : pc[q] \notin Critical
    BY <1>5, <1>h, Alone DEF StoreRotation, Critical
  <2>2. pc[p] = "answered"
    BY <1>5 DEF StoreRotation
  <2>3. CASE row.version = cred[p].version
    <3>1. row'.token = got[p] /\ row'.enabled = row.enabled
      BY <1>5, <2>3, <1>t, <1>n, Written DEF StoreRotation
    <3>2. pc'[p] = "idle" /\ \A q \in Procs \ {p} : pc'[q] = pc[q]
      BY <1>5, <2>3, <1>t, <1>a, Moved DEF StoreRotation
    <3>3. Exclusive'
      BY <1>5, <2>1, <3>2, <1>h DEF Held, Exclusive, Critical
    <3>4. PresentsStored'
      BY <2>1, <3>2 DEF PresentsStored, Critical
    <3>5. NotRepudiated'
      BY <1>5, <3>1, <3>2, <1>h DEF StoreRotation, Held, NotRepudiated, NoReconnect
    <3>6. got[p] = honoured \/ \E f \in Flows : reconnect[f] = "exchanged"
      BY <2>2, <2>3, <1>h DEF Held, AcceptedIsHonoured
    <3>7. UNCHANGED <<honoured, reconnect>>
      BY <1>5 DEF StoreRotation
    <3>8. AcceptedIsHonoured' /\ NotDropped'
      BY <2>1, <3>1, <3>2, <3>6, <3>7 DEF AcceptedIsHonoured, NotDropped, Critical
    <3> QED
      BY <3>3, <3>4, <3>5, <3>8 DEF Held
  <2>4. CASE row.version # cred[p].version
    <3>1. Goto(p, "refused") /\ UNCHANGED <<row, honoured, got, cred, lock, reconnect, grant>>
      BY <1>5, <2>4 DEF StoreRotation
    <3>2. pc'[p] = "refused" /\ \A q \in Procs \ {p} : pc'[q] = pc[q]
      BY <3>1, <1>t, <1>a, Moved
    <3>3. Exclusive' /\ PresentsStored' /\ NotRepudiated'
      BY <2>1, <3>1, <3>2, <1>h
         DEF Held, Exclusive, PresentsStored, NotRepudiated, NoReconnect, Critical
    <3>4. AcceptedIsHonoured' /\ NotDropped'
      BY <2>1, <2>4, <3>1, <3>2, <1>h
         DEF Held, AcceptedIsHonoured, NotDropped, OlderReconnectStored, Critical
    <3> QED
      BY <3>3, <3>4 DEF Held
  <2> QED
    BY <2>3, <2>4
<1>6. ASSUME NEW p \in Procs, ReturnStored(p) PROVE Held'
  <2>1. lock = p /\ \A q \in Procs \ {p} : pc[q] \notin Critical
    BY <1>6, <1>h, Alone DEF ReturnStored, Critical
  <2> QED
    BY <1>6, <2>1, <1>t, <1>h, <1>a, Moved, HeldKept DEF ReturnStored
<1>7. ASSUME NEW p \in Procs, Disable(p) PROVE Held'
  <2>1. lock = p /\ \A q \in Procs \ {p} : pc[q] \notin Critical
    BY <1>7, <1>h, Alone DEF Disable, Critical
  <2>2. ~NoReconnect
    BY <1>7, <1>h DEF Disable, Held, NotRepudiated
  <2>3. pc'[p] = "idle" /\ \A q \in Procs \ {p} : pc'[q] = pc[q]
    BY <1>7, <1>t, <1>a, Moved DEF Disable
  <2>4. row'.token = row.token /\ row'.version = row.version
    BY <1>7, <1>t DEF Disable, TypeOK
  <2>5. UNCHANGED <<honoured, cred, got, reconnect, grant>> /\ pc[p] = "repudiated"
    BY <1>7 DEF Disable
  <2>6. Exclusive' /\ PresentsStored' /\ NotRepudiated'
    BY <2>1, <2>2, <2>3, <2>5, <1>h
       DEF Held, Exclusive, PresentsStored, NotRepudiated, NoReconnect, Critical
  <2>7. AcceptedIsHonoured' /\ NotDropped'
    BY <2>1, <2>3, <2>4, <2>5, <1>h
       DEF Held, AcceptedIsHonoured, NotDropped, OlderReconnectStored, Critical
  <2> QED
    BY <2>6, <2>7 DEF Held
<1>8. CASE LockLapses
  BY <1>8, <1>f, <1>h, HeldKept DEF LockLapses, Held, Exclusive
<1>9. ASSUME NEW f \in Flows, ReconnectExchange(f) PROVE Held'
  <2>1. reconnect'[f] = "exchanged" /\ UNCHANGED <<row, lock, pc, cred, got>>
    BY <1>9, <1>t DEF ReconnectExchange, TypeOK
  <2>2. ~NoReconnect'
    BY <2>1 DEF NoReconnect
  <2>3. Exclusive' /\ PresentsStored' /\ NotRepudiated'
    BY <2>1, <2>2, <1>h DEF Held, Exclusive, PresentsStored, NotRepudiated
  <2>4. AcceptedIsHonoured' /\ NotDropped'
    BY <2>1 DEF AcceptedIsHonoured, NotDropped
  <2> QED
    BY <2>3, <2>4 DEF Held
<1>10. ASSUME NEW f \in Flows, ReconnectStore(f) PROVE Held'
  <2>1. reconnect[f] = "exchanged" /\ UNCHANGED <<honoured, lock, pc, cred, got, grant>>
    BY <1>10 DEF ReconnectStore
  <2>2. row'.token = grant[f] /\ row'.version = row.version + 1
    BY <1>10, <1>t, <1>n, Written DEF ReconnectStore
  <2>3. reconnect'[f] = "stored"
    BY <1>10, <1>t DEF ReconnectStore, TypeOK
  <2>4. ~NoReconnect'
    BY <2>3 DEF NoReconnect
  <2>5. \A q \in Procs : cred[q].token # grant[f] /\ cred[q].version # row'.version
    BY <2>1, <2>2, <1>n DEF OrderInv, GrantIsOwn, NothingAhead
  <2>6. Exclusive' /\ PresentsStored' /\ NotRepudiated'
    BY <2>1, <2>2, <2>4, <2>5, <1>h DEF Held, Exclusive, PresentsStored, NotRepudiated
  <2>7. AcceptedIsHonoured'
    BY <2>1, <2>5 DEF AcceptedIsHonoured
  <2>8. NotDropped'
    BY <2>1, <2>2, <2>3 DEF OrderInv, NewestOrOvertaken, NotDropped, OlderReconnectStored
  <2> QED
    BY <2>6, <2>7, <2>8 DEF Held
<1>11. ASSUME NEW f \in Flows, ReconnectEnable(f) \/ ReconnectFails(f) PROVE Held'
  <2>1. ReconnectEnable(f)
    BY <1>11, <1>f, <1>t DEF ReconnectFails
  <2>2. row'.token = row.token /\ row'.version = row.version
    BY <2>1, <1>t DEF ReconnectEnable, TypeOK
  <2>3. /\ reconnect[f] = "stored" /\ reconnect'[f] = "over"
        /\ \A g \in Flows \ {f} : reconnect'[g] = reconnect[g]
    BY <2>1, <1>t DEF ReconnectEnable, TypeOK
  <2>4. UNCHANGED <<honoured, lock, pc, cred, got, grant>>
    BY <2>1 DEF ReconnectEnable
  <2>5. ~NoReconnect /\ ~NoReconnect'
    BY <2>3 DEF NoReconnect
  <2>6. Exclusive' /\ PresentsStored' /\ NotRepudiated'
    BY <2>2, <2>4, <2>5, <1>h DEF Held, Exclusive, PresentsStored, NotRepudiated
  <2>7. AcceptedIsHonoured' /\ NotDropped'
    BY <2>2, <2>3, <2>4, <1>h DEF Held, AcceptedIsHonoured, NotDropped, OlderReconnectStored
  <2> QED
    BY <2>6, <2>7 DEF Held
<1>12. CASE UNCHANGED vars
  BY <1>12, <1>h, HeldKept DEF vars
<1> QED
  BY <1>1, <1>2, <1>3, <1>4, <1>5, <1>6, <1>7, <1>8, <1>9, <1>10, <1>11, <1>12 DEF Next

(* The invariant of the refresh. *)
LEMMA RefreshInvHolds == Spec => []RefreshInv
<1>1. Init => RefreshInv
  BY InitOrder, InitLock DEF RefreshInv
<1>2. RefreshInv /\ [Next]_vars => RefreshInv'
  BY NextOrder, NextLock DEF RefreshInv
<1> QED
  BY <1>1, <1>2, PTL DEF Spec

(* While the lock works and no answer is lost, no rotation is dropped, for  *)
(* any number of processes and of reconnects in between, also overlapping   *)
(* ones: only the older of two can take the place of the honoured token.    *)
THEOREM StoredIsHonouredHolds == Spec => []StoredIsHonoured
<1>1. RefreshInv => StoredIsHonoured
  BY DEF RefreshInv, LockInv, Held, Orderly, NotDropped, StoredIsHonoured
<1> QED
  BY <1>1, RefreshInvHolds, PTL

(* While the lock works, refreshes of several processes never disable a     *)
(* working credential.                                                      *)
THEOREM NeverDisabledByRaceHolds == Spec => []NeverDisabledByRace
<1>1. RefreshInv => NeverDisabledByRace
  BY DEF RefreshInv, LockInv, Held, Orderly, NotRepudiated, NeverDisabledByRace
<1> QED
  BY <1>1, RefreshInvHolds, PTL
=============================================================================
