-------------------------------- MODULE Restore --------------------------------
(***************************************************************************)
(* Restores and imports on a gateway that is serving: the quiesce latch     *)
(* (quiesce.ts), the swap the routes wrap around an operation               *)
(* (routes/database.ts), the one-at-a-time lock and the replacement itself  *)
(* (packages/control/src/database.ts), over the routing snapshot cache.     *)
(*                                                                         *)
(* A client request enters the latch, reads the snapshot, and releases when *)
(* its response is handed back.  A swap call shuts the latch, waits for the *)
(* requests or for a deadline, runs the operation and, unless the database  *)
(* was left half replaced, opens the latch again.  Calls may overlap.       *)
(***************************************************************************)
EXTENDS SnapshotCache

CONSTANTS
    Swaps,       \* restore and import calls
    Other,       \* the lock's holder when it is a snapshot, a vacuum or a preview
    MaxCalls     \* bound: calls one after the other by each of Swaps

ASSUME RestoreAssumption == Other \notin Swaps \cup {None} /\ None \notin Swaps /\ MaxCalls \in Nat

VARIABLES
    admitting,   \* the latch
    admitted,    \* the requests it counts
    onIdle,      \* the close that the last release will wake, or None
    pc,          \* where each swap call is
    closedHere,  \* per call, whether it was the one that shut the latch
    drained,     \* per call, what its close returned
    exclusive,   \* who holds the one-at-a-time lock
    calls,       \* per caller, calls made
    broken,      \* history: a replacement failed half way, and no swap has completed since
    unannounced, \* history: a replacement never invalidated, and no swap has completed since
    contended    \* history: a call got in another's way

latchVars == <<admitting, admitted, onIdle>>
swapVars == <<pc, closedHere, drained, exclusive, calls, broken, unannounced>>
restoreVars == <<latchVars, swapVars, contended>>
allVars == <<vars, restoreVars>>

Places == {"idle", "waiting", "resumed", "preparing", "staged", "replaced", "settling"}

RestoreTypeOK ==
    /\ TypeOK
    /\ admitting \in BOOLEAN
    /\ broken \in BOOLEAN /\ unannounced \in BOOLEAN /\ contended \in BOOLEAN
    /\ admitted \subseteq Readers
    /\ Asking \subseteq admitted
    /\ onIdle \in Swaps \cup {None}
    /\ pc \in [Swaps -> Places]
    /\ closedHere \in [Swaps -> BOOLEAN] /\ drained \in [Swaps -> BOOLEAN]
    /\ exclusive \in Swaps \cup {None, Other}
    /\ calls \in [Swaps -> 0..MaxCalls]

(* Calls between shutting the latch and opening it, or failing. *)
UnderWay == {s \in Swaps : pc[s] \notin {"idle", "settling"}}

(* Calls whose close has not returned. *)
Waiting == {s \in Swaps : pc[s] = "waiting"}

(* Calls that hold the lock: the database is being judged, staged, replaced. *)
Operating == {s \in Swaps : pc[s] \in {"preparing", "staged", "replaced"}}

(* A call whose close was woken runs on before the next event is handled:   *)
(* a request, a response, a timer.                                          *)
NextEvent == \A s \in Swaps : pc[s] # "resumed"

-----------------------------------------------------------------------------
(* onRequest: latch.enter(). *)
Enter(r) ==
    /\ NextEvent
    /\ r \notin admitted
    /\ admitting
    /\ admitted' = admitted \cup {r}
    /\ UNCHANGED <<vars, admitting, onIdle, swapVars, contended>>

(* The request reads the routing snapshot. *)
Serve(r) ==
    /\ r \in admitted
    /\ Get(r)
    /\ UNCHANGED restoreVars

ReleaseEarly(r) ==
    /\ NextEvent
    /\ r \in admitted
    /\ admitted' = admitted \ {r}
    /\ IF admitted' = {} /\ onIdle # None
       THEN /\ onIdle' = None
            /\ pc' = [pc EXCEPT ![onIdle] = "resumed"]
       ELSE UNCHANGED <<onIdle, pc>>
    /\ UNCHANGED <<vars, admitting, closedHere, drained, exclusive, calls, broken, unannounced, contended>>

(* onAfterResponse: the release, and settle() when it was the last.  The    *)
(* promise resolves here; the close that awaits it resumes in a later step. *)
Release(r) ==
    /\ NextEvent
    /\ r \in admitted \ Asking
    /\ admitted' = admitted \ {r}
    /\ IF admitted' = {} /\ onIdle # None
       THEN /\ onIdle' = None
            /\ pc' = [pc EXCEPT ![onIdle] = "resumed"]
       ELSE UNCHANGED <<onIdle, pc>>
    /\ UNCHANGED <<vars, admitting, closedHere, drained, exclusive, calls, broken, unannounced, contended>>

-----------------------------------------------------------------------------
(* The catch of a failure that touched nothing: the latch is opened by the  *)
(* call that shut it.  (GaveUpOpen forgets to ask which that was.)          *)
GaveUpOpen(s, mine, shut) ==
    /\ pc' = [pc EXCEPT ![s] = "idle"]
    /\ admitting' = TRUE

GaveUp(s, mine, shut) ==
    /\ pc' = [pc EXCEPT ![s] = "idle"]
    /\ admitting' = (mine \/ ~shut)

(* The operation asks for the lock, and is refused while another holds it. *)
Begin(s, mine, shut) ==
    IF exclusive = None
    THEN /\ exclusive' = s
         /\ pc' = [pc EXCEPT ![s] = "preparing"]
         /\ admitting' = ~shut
    ELSE /\ GaveUp(s, mine, shut)
         /\ UNCHANGED exclusive

Shut(s, mine) ==
    /\ NextEvent
    /\ pc[s] = "idle" /\ calls[s] < MaxCalls
    /\ calls' = [calls EXCEPT ![s] = @ + 1]
    /\ closedHere' = [closedHere EXCEPT ![s] = mine]
    /\ IF admitted = {}
       THEN /\ drained' = [drained EXCEPT ![s] = TRUE]
            /\ Begin(s, mine, TRUE)
            /\ UNCHANGED onIdle
       ELSE /\ pc' = [pc EXCEPT ![s] = "waiting"]
            /\ admitting' = FALSE
            /\ onIdle' = s
            /\ UNCHANGED <<drained, exclusive>>
    /\ contended' = IF UnderWay = {} THEN contended /\ (broken \/ loose # {})
                    ELSE contended \/ admitted # {} \/ Waiting # {}
    /\ UNCHANGED <<vars, admitted, broken, unannounced>>

CloseReadAfter(s) == Shut(s, FALSE)

(* swap(): whether this call shuts the latch is read before it does.  Then  *)
(* close(): with nothing in flight it returns at once and the operation     *)
(* begins; otherwise it takes the one onIdle slot, from another close that  *)
(* was waiting with it if there is one.                                     *)
Close(s) == Shut(s, admitting)

(* The deadline passes first. *)
Deadline(s) ==
    /\ NextEvent
    /\ pc[s] = "waiting"
    /\ pc' = [pc EXCEPT ![s] = "resumed"]
    /\ UNCHANGED <<vars, latchVars, closedHere, drained, exclusive, calls, broken, unannounced, contended>>

OperateOpened(s) ==
    /\ pc[s] = "resumed"
    /\ drained' = [drained EXCEPT ![s] = admitted = {}]
    /\ onIdle' = None
    /\ Begin(s, closedHere[s], FALSE)
    /\ UNCHANGED <<vars, admitted, closedHere, calls, broken, unannounced, contended>>

(* close() resumes; its finally clears the slot, whoever's it is. *)
Operate(s) ==
    /\ pc[s] = "resumed"
    /\ drained' = [drained EXCEPT ![s] = admitted = {}]
    /\ onIdle' = None
    /\ Begin(s, closedHere[s], ~admitting)
    /\ UNCHANGED <<vars, admitted, closedHere, calls, broken, unannounced, contended>>

(* The candidate is judged, the undo snapshot written and the file staged   *)
(* beside the live one; any of them may fail, and with the handle closed    *)
(* the undo snapshot does.                                                  *)
Prepare(s) ==
    /\ pc[s] = "preparing"
    /\ \/ /\ open
          /\ pc' = [pc EXCEPT ![s] = "staged"]
          /\ UNCHANGED <<exclusive, admitting>>
       \/ /\ GaveUp(s, closedHere[s], ~admitting)
          /\ exclusive' = None
    /\ UNCHANGED <<vars, admitted, onIdle, closedHere, drained, calls, broken, unannounced, contended>>

(* close, unlink, rename, reopen, in one synchronous stretch. *)
SwapIn(s) ==
    /\ pc[s] = "staged"
    /\ \E c \in Contents, v \in FreshVersions : ReplaceFile(c, TRUE, v)
    /\ pc' = [pc EXCEPT ![s] = "replaced"]
    /\ UNCHANGED <<latchVars, closedHere, drained, exclusive, calls, broken, unannounced, contended>>

(* The same when one of them throws: a SwapFailedError, with the old or the *)
(* new file in place and the handle opened again or not.  The catch leaves  *)
(* the latch as it is.                                                      *)
SwapFails(s) ==
    /\ pc[s] = "staged"
    /\ \E c \in Contents, opened \in BOOLEAN, v \in FreshVersions : ReplaceFile(c, opened, v)
    /\ pc' = [pc EXCEPT ![s] = "idle"]
    /\ exclusive' = None
    /\ broken' = TRUE
    /\ UNCHANGED <<latchVars, closedHere, drained, calls, unannounced, contended>>

(* The password hashes are read back from the new file outside every try:   *)
(* a read that throws ends in the catch of a failure that touched nothing,  *)
(* and the latch opens on a file nobody was told of.                        *)
ReadBackFails(s) ==
    /\ pc[s] = "replaced"
    /\ GaveUp(s, closedHere[s], ~admitting)
    /\ exclusive' = None
    /\ unannounced' = TRUE
    /\ UNCHANGED <<vars, admitted, onIdle, closedHere, drained, calls, broken, contended>>

ReopenMine(s) ==
    /\ pc[s] = "replaced"
    /\ exclusive' = None
    /\ Invalidate
    /\ admitting' = (admitting \/ closedHere[s])
    /\ broken' = FALSE /\ unannounced' = FALSE
    /\ \E p \in {"idle", "settling"} : pc' = [pc EXCEPT ![s] = p]
    /\ UNCHANGED <<admitted, onIdle, closedHere, drained, calls, contended>>

(* The rollup is rebuilt and the plugins' schema reapplied, their failures  *)
(* swallowed, and the lock released; the snapshot is dropped and the latch  *)
(* opened, whoever shut it.  If the admin password changed, the call then   *)
(* awaits the end of the sessions.                                          *)
Reopen(s) ==
    /\ pc[s] = "replaced"
    /\ exclusive' = None
    /\ Invalidate
    /\ admitting' = TRUE
    /\ broken' = FALSE /\ unannounced' = FALSE
    /\ \E p \in {"idle", "settling"} : pc' = [pc EXCEPT ![s] = p]
    /\ UNCHANGED <<admitted, onIdle, closedHere, drained, calls, contended>>

(* The sessions are ended and the consoles told; or one of the two throws,  *)
(* and the catch opens the latch once more, though another call may have    *)
(* shut it by now.                                                          *)
Settle(s) ==
    /\ pc[s] = "settling"
    /\ pc' = [pc EXCEPT ![s] = "idle"]
    /\ \/ UNCHANGED <<admitting, contended>>
       \/ /\ admitting' = (admitting \/ closedHere[s])
          /\ contended' = (contended \/ admitting' # admitting)
    /\ UNCHANGED <<vars, admitted, onIdle, closedHere, drained, exclusive, calls, broken,
                   unannounced>>

(* A snapshot, a vacuum or a restore preview holds the same lock. *)
OtherBegins ==
    /\ exclusive = None
    /\ exclusive' = Other
    /\ UNCHANGED <<vars, latchVars, pc, closedHere, drained, calls, broken, unannounced, contended>>

OtherEnds ==
    /\ exclusive = Other
    /\ exclusive' = None
    /\ UNCHANGED <<vars, latchVars, pc, closedHere, drained, calls, broken, unannounced, contended>>

-----------------------------------------------------------------------------
RestoreInit ==
    /\ Init
    /\ admitting = TRUE /\ admitted = {} /\ onIdle = None
    /\ pc = [s \in Swaps |-> "idle"]
    /\ closedHere = [s \in Swaps |-> FALSE]
    /\ drained = [s \in Swaps |-> FALSE]
    /\ exclusive = None
    /\ calls = [s \in Swaps |-> 0]
    /\ broken = FALSE /\ unannounced = FALSE /\ contended = FALSE

Step(s) ==
    \/ Deadline(s) \/ Operate(s) \/ Prepare(s)
    \/ SwapIn(s) \/ SwapFails(s) \/ ReadBackFails(s) \/ Reopen(s)

RestoreNext ==
    \/ \E r \in Readers : Enter(r) \/ Serve(r) \/ Release(r)
    \/ \E b \in Builds : Advance(b) /\ UNCHANGED restoreVars
    \/ Writes /\ UNCHANGED restoreVars
    \/ \E s \in Swaps : Close(s) \/ Step(s) \/ Settle(s)
    \/ OtherBegins \/ OtherEnds

(* A timer fires, a resumed call runs on and every operation ends. *)
RestoreSpec ==
    /\ RestoreInit /\ [][RestoreNext]_allVars
    /\ \A s \in Swaps : WF_allVars(Step(s))

-----------------------------------------------------------------------------
(* "The latch stays shut for the whole operation": no client request is     *)
(* admitted while an operation holds the database or the file is half       *)
(* replaced.                                                                *)
LatchStaysShut == (Operating # {} \/ broken) => ~admitting

(* It does unless calls got in each other's way: they overlapped while one  *)
(* waited for requests, or one failed after it had reopened the latch and   *)
(* opened another's.  A second call that merely finds the latch shut and    *)
(* the lock taken fails without opening anything, and so do the calls after *)
(* a replacement failed.                                                    *)
ShutUnlessContended == LatchStaysShut \/ contended

(* A request reads a file that was replaced and not yet invalidated only if *)
(* it was still running when the deadline passed, or the read back of the   *)
(* replaced file failed (or under that proviso): otherwise close waited for *)
(* it, and later ones were not admitted.                                    *)
LooseOnlyIfUndrained ==
    loose # {} => contended \/ unannounced \/ \E s \in Swaps : calls[s] > 0 /\ ~drained[s]

(* With every call returned, the gateway serves unless a replacement failed *)
(* half way, however the calls overlapped: the latch is never left shut     *)
(* because the call that shut it and the call that ended last differ.       *)
ShutOnlyIfBroken == UnderWay = {} /\ ~broken => admitting

(* A shut latch opens again, or a replacement fails half way. *)
LatchReopens == ~admitting ~> (admitting \/ broken)
=============================================================================
