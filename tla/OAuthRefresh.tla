----------------------------- MODULE OAuthRefresh -----------------------------
(***************************************************************************)
(* Refreshing one OAuth credential of a provider that rotates refresh      *)
(* tokens (packages/control/src/oauth/refresh.ts), by every process that   *)
(* serves it: live requests before a call or after a 401, the scheduler's  *)
(* sweep, the quota poller, an operator.  A process runs at most one       *)
(* refresh of the credential at a time (the inFlight map), so a process is *)
(* the unit here; later callers of the same process share its result.      *)
(*                                                                         *)
(* Tokens are numbered in the order the provider minted them.  The         *)
(* provider honours one refresh token and exchanging it mints the next:    *)
(* that is external, modelled from how run and complete (connect.ts) use   *)
(* it.  Reconnecting the account in a browser is three steps outside the   *)
(* lock, and several browser flows for one credential may be open.         *)
(***************************************************************************)
EXTENDS Integers, FiniteSets

CONSTANTS
    Procs,          \* gateway processes
    NoProc,         \* nobody holds the lock
    MaxToken,       \* bound: tokens the provider mints
    MaxLockFaults,  \* bound: locks not taken or lost to their TTL
    MaxLost,        \* bound: answers lost to a fault or a crash
    Flows           \* browser flows that reconnect the credential, one use each

ASSUME NobodyIsNoProc == NoProc \notin Procs
ASSUME BoundsTyped ==
    MaxToken \in Nat /\ MaxLockFaults \in Nat /\ MaxLost \in Nat

VARIABLES
    row,         \* the store: [version, token, enabled]
    honoured,    \* the provider: the refresh token it accepts
    minted,      \* the provider: tokens minted so far
    lock,        \* the mutex `refresh:<id>`
    pc,          \* where each process is
    view,        \* the CredentialView the caller passed
    cred,        \* version and token `run` works with
    got,         \* the rotation the provider answered with
    reconnect,   \* where each flow is: "none", "exchanged", "stored", "over"
    grant,       \* the token each flow was given, 0 before
    lockFaults, lost   \* history

credVars == <<view, cred, got>>
flowVars == <<reconnect, grant>>
histVars == <<lockFaults, lost>>
vars == <<row, honoured, minted, lock, pc, credVars, flowVars, histVars>>

Goto(p, l) == pc' = [pc EXCEPT ![p] = l]

(* MUTEX_RELEASE compares the holder's token, so a lapsed holder drops     *)
(* nobody else's lock.                                                     *)
Unlock(p) == lock' = IF lock = p THEN NoProc ELSE lock

-----------------------------------------------------------------------------
(* A caller takes its view of the credential and asks for a refresh.  A    *)
(* routing view is lazy: it keeps the version it was read with and loads   *)
(* the refresh token current when it is opened; list and get keep both.    *)
Call(p) ==
    /\ pc[p] = "idle"
    /\ minted < MaxToken
    /\ \E lazy \in BOOLEAN :
        view' = [view EXCEPT ![p] =
                    [version |-> row.version, token |-> row.token, lazy |-> lazy]]
    /\ Goto(p, "lock")
    /\ UNCHANGED <<row, honoured, minted, lock, cred, got, flowVars, histVars>>

TakeLock(p) ==
    /\ pc[p] = "lock"
    /\ lock = NoProc
    /\ lock' = p
    /\ Goto(p, "recheck")
    /\ UNCHANGED <<row, honoured, minted, credVars, flowVars, histVars>>

(* LockUnavailable: refresh unserialised, on the caller's view. *)
NoLock(p) ==
    /\ pc[p] = "lock"
    /\ lockFaults < MaxLockFaults
    /\ lockFaults' = lockFaults + 1
    /\ Goto(p, "open")
    /\ UNCHANGED <<row, honoured, minted, lock, credVars, flowVars, lost>>

Critical == {"recheck", "call", "answered", "repudiated", "refused"}

(* REFRESH_LOCK_MS runs out: harmless when the holder died, a fault when   *)
(* its token call outlives the lock.                                       *)
LockLapses ==
    /\ lock # NoProc
    /\ \/ pc[lock] \notin Critical /\ UNCHANGED lockFaults
       \/ /\ pc[lock] \in Critical
          /\ lockFaults < MaxLockFaults
          /\ lockFaults' = lockFaults + 1
    /\ lock' = NoProc
    /\ UNCHANGED <<row, honoured, minted, pc, credVars, flowVars, lost>>

(* Mutated form of Recheck: nobody asks whether the token the caller saw   *)
(* was rotated meanwhile.                                                  *)
RecheckBlind(p) ==
    /\ pc[p] = "recheck"
    /\ cred' = [cred EXCEPT ![p] = [version |-> row.version, token |-> view[p].token]]
    /\ Goto(p, "call")
    /\ UNCHANGED <<row, honoured, minted, lock, view, got, flowVars, histVars>>

(* Mutated form of Recheck: the current token goes with the caller's       *)
(* version, which the write then compares.                                 *)
RecheckCallersVersion(p) ==
    /\ pc[p] = "recheck"
    /\ cred' = [cred EXCEPT ![p] = [version |-> view[p].version, token |-> row.token]]
    /\ Goto(p, "call")
    /\ UNCHANGED <<row, honoured, minted, lock, view, got, flowVars, histVars>>

(* Under the lock the row is read again: a version past the view's means   *)
(* somebody refreshed, and their secrets are returned.                     *)
Recheck(p) ==
    /\ pc[p] = "recheck"
    /\ \/ /\ row.version > view[p].version
          /\ Unlock(p)
          /\ Goto(p, "idle")
          /\ UNCHANGED cred
       \/ /\ row.version <= view[p].version
          /\ cred' = [cred EXCEPT ![p] = [version |-> row.version, token |-> row.token]]
          /\ Goto(p, "call")
          /\ UNCHANGED lock
    /\ UNCHANGED <<row, honoured, minted, view, got, flowVars, histVars>>

(* Mutated form of Open: the write will compare against the version before. *)
OpenBehind(p) ==
    /\ pc[p] = "open"
    /\ cred' = [cred EXCEPT ![p] = [version |-> view[p].version - 1, token |-> view[p].token]]
    /\ Goto(p, "call")
    /\ UNCHANGED <<row, honoured, minted, lock, view, got, flowVars, histVars>>

(* openForRefresh on the caller's own view *)
Open(p) ==
    /\ pc[p] = "open"
    /\ cred' = [cred EXCEPT ![p] =
                  [version |-> view[p].version,
                   token |-> IF view[p].lazy THEN row.token ELSE view[p].token]]
    /\ Goto(p, "call")
    /\ UNCHANGED <<row, honoured, minted, lock, view, got, flowVars, histVars>>

(* External: the provider exchanges the token it honours and repudiates    *)
(* any other.                                                              *)
Exchange(p) ==
    /\ pc[p] = "call"
    /\ \/ /\ cred[p].token = honoured
          /\ minted' = minted + 1
          /\ honoured' = minted + 1
          /\ got' = [got EXCEPT ![p] = minted + 1]
          /\ Goto(p, "answered")
       \/ /\ cred[p].token # honoured
          /\ Goto(p, "repudiated")
          /\ UNCHANGED <<honoured, minted, got>>
    /\ UNCHANGED <<row, lock, view, cred, flowVars, histVars>>

(* A transient error, before or after the provider acted: nothing is       *)
(* written and the credential stays enabled.                               *)
CallFails(p) ==
    /\ pc[p] \in {"call", "answered"}
    /\ lost < MaxLost
    /\ lost' = lost + 1
    /\ Unlock(p)
    /\ Goto(p, "idle")
    /\ UNCHANGED <<row, honoured, minted, credVars, flowVars, lockFaults>>

(* Mutated form of StoreRotation: the write is not conditional. *)
StoreRotationBlind(p) ==
    /\ pc[p] = "answered"
    /\ row' = [row EXCEPT !.version = @ + 1, !.token = got[p]]
    /\ Unlock(p)
    /\ Goto(p, "idle")
    /\ UNCHANGED <<honoured, minted, credVars, flowVars, histVars>>

(* updateSecrets, compare-and-swap on the version `run` read *)
StoreRotation(p) ==
    /\ pc[p] = "answered"
    /\ \/ /\ row.version = cred[p].version
          /\ row' = [row EXCEPT !.version = @ + 1, !.token = got[p]]
          /\ Unlock(p)
          /\ Goto(p, "idle")
       \/ /\ row.version # cred[p].version
          /\ Goto(p, "refused")
          /\ UNCHANGED <<row, lock>>
    /\ UNCHANGED <<honoured, minted, credVars, flowVars, histVars>>

(* The write was refused: the stored secrets are returned instead. *)
ReturnStored(p) ==
    /\ pc[p] = "refused"
    /\ Unlock(p)
    /\ Goto(p, "idle")
    /\ UNCHANGED <<row, honoured, minted, credVars, flowVars, histVars>>

(* AUTH: the credential is disabled, whatever its version is by now. *)
Disable(p) ==
    /\ pc[p] = "repudiated"
    /\ row' = [row EXCEPT !.enabled = FALSE]
    /\ Unlock(p)
    /\ Goto(p, "idle")
    /\ UNCHANGED <<honoured, minted, credVars, flowVars, histVars>>

(* The process dies; its lock stays until it lapses. *)
Crash(p) ==
    /\ pc[p] # "idle"
    /\ lost < MaxLost
    /\ lost' = lost + 1
    /\ Goto(p, "idle")
    /\ UNCHANGED <<row, honoured, minted, lock, credVars, flowVars, lockFaults>>

-----------------------------------------------------------------------------
(* complete (connect.ts): exchange the code, write the secrets without a   *)
(* version, then enable the credential.  Flows take no lock and may        *)
(* overlap.                                                                *)
ReconnectExchange(f) ==
    /\ reconnect[f] = "none"
    /\ minted < MaxToken
    /\ minted' = minted + 1
    /\ honoured' = minted + 1
    /\ grant' = [grant EXCEPT ![f] = minted + 1]
    /\ reconnect' = [reconnect EXCEPT ![f] = "exchanged"]
    /\ UNCHANGED <<row, lock, pc, credVars, histVars>>

ReconnectStore(f) ==
    /\ reconnect[f] = "exchanged"
    /\ row' = [row EXCEPT !.version = @ + 1, !.token = grant[f]]
    /\ reconnect' = [reconnect EXCEPT ![f] = "stored"]
    /\ UNCHANGED <<honoured, minted, lock, pc, credVars, grant, histVars>>

ReconnectEnable(f) ==
    /\ reconnect[f] = "stored"
    /\ row' = [row EXCEPT !.enabled = TRUE]
    /\ reconnect' = [reconnect EXCEPT ![f] = "over"]
    /\ UNCHANGED <<honoured, minted, lock, pc, credVars, grant, histVars>>

(* A write of complete fails, or the process dies between two of them. *)
ReconnectFails(f) ==
    /\ reconnect[f] \in {"exchanged", "stored"}
    /\ lost < MaxLost
    /\ lost' = lost + 1
    /\ reconnect' = [reconnect EXCEPT ![f] = "over"]
    /\ UNCHANGED <<row, honoured, minted, lock, pc, credVars, grant, lockFaults>>

-----------------------------------------------------------------------------
Init ==
    /\ row = [version |-> 0, token |-> 0, enabled |-> TRUE]
    /\ honoured = 0
    /\ minted = 0
    /\ lock = NoProc
    /\ pc = [p \in Procs |-> "idle"]
    /\ view = [p \in Procs |-> [version |-> 0, token |-> 0, lazy |-> FALSE]]
    /\ cred = [p \in Procs |-> [version |-> 0, token |-> 0]]
    /\ got = [p \in Procs |-> 0]
    /\ reconnect = [f \in Flows |-> "none"]
    /\ grant = [f \in Flows |-> 0]
    /\ lockFaults = 0
    /\ lost = 0

Next ==
    \/ \E p \in Procs :
        \/ Call(p) \/ TakeLock(p) \/ NoLock(p) \/ Recheck(p) \/ Open(p)
        \/ Exchange(p) \/ CallFails(p) \/ StoreRotation(p) \/ ReturnStored(p)
        \/ Disable(p) \/ Crash(p)
    \/ LockLapses
    \/ \E f \in Flows :
        ReconnectExchange(f) \/ ReconnectStore(f) \/ ReconnectEnable(f) \/ ReconnectFails(f)

Spec == Init /\ [][Next]_vars

-----------------------------------------------------------------------------
Phases == Critical \union {"idle", "lock", "open"}

(* Every variable has the shape the code gives it. *)
TypeOK ==
    /\ row \in [version : Nat, token : Nat, enabled : BOOLEAN]
    /\ honoured \in Nat
    /\ minted \in Nat
    /\ lock \in Procs \union {NoProc}
    /\ pc \in [Procs -> Phases]
    /\ view \in [Procs -> [version : Nat, token : Nat, lazy : BOOLEAN]]
    /\ cred \in [Procs -> [version : Nat, token : Nat]]
    /\ got \in [Procs -> Nat]
    /\ reconnect \in [Flows -> {"none", "exchanged", "stored", "over"}]
    /\ grant \in [Flows -> Nat]
    /\ lockFaults \in Nat
    /\ lost \in Nat

(* The store never goes back to an older refresh token, with or without    *)
(* the lock and whatever is lost: a late write whose version has moved is  *)
(* refused (updateSecrets).  The one exception is a reconnect that stores  *)
(* its token after another one was exchanged: complete has neither lock    *)
(* nor version, so of two overlapping reconnects the older may win.        *)
RotationNeverUndone ==
    [][row'.token < row.token =>
          \E f, g \in Flows : /\ reconnect[f] = "exchanged" /\ row'.token = grant[f]
                              /\ grant[f] < grant[g]]_vars

(* No reconnect was begun. *)
NoReconnect == \A f \in Flows : reconnect[f] = "none"

(* The store holds the token of a reconnect although another one was       *)
(* exchanged later.                                                        *)
OlderReconnectStored ==
    \E f, g \in Flows : /\ reconnect[f] # "none" /\ row.token = grant[f]
                        /\ grant[f] < grant[g]

(* While the lock works and no answer is lost, the stored token is the one *)
(* the provider honours as soon as nobody is about to write: no rotation   *)
(* is dropped, also when an account is reconnected meanwhile (serialised). *)
(* Only the older of two overlapping reconnects can leave another one.     *)
StoredIsHonoured ==
    (/\ lockFaults = 0
     /\ lost = 0
     /\ \A f \in Flows : reconnect[f] # "exchanged"
     /\ \A p \in Procs : pc[p] # "answered") => row.token = honoured \/ OlderReconnectStored

(* Refreshes of several processes never disable a working credential: with *)
(* the lock working, no lost answer and no reconnect, no process presents  *)
(* a token that was already exchanged (serialised, Recheck).               *)
NeverDisabledByRace ==
    lockFaults = 0 /\ lost = 0 /\ NoReconnect => row.enabled

(* The comment on the compare-and-swap: a refused write means another      *)
(* process rotated first and "the secrets it stored are the ones the       *)
(* provider now honours".  Lost answers and reconnects aside, and unless   *)
(* yet another process holds a newer rotation.                             *)
RefusedMeansHonoured ==
    lost = 0 /\ NoReconnect =>
        \A p \in Procs :
            pc[p] = "refused" =>
                row.token = honoured \/ \E q \in Procs : pc[q] = "answered"
=============================================================================
