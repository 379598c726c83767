---------------------------- MODULE RoutingRegister ----------------------------
(***************************************************************************)
(* What `snapshots.get` promises its callers: it reads the database.  A    *)
(* call returns contents that were live at some instant between the call   *)
(* and the return, or the answer another call is being handed at that      *)
(* moment.  Only while the database file is being replaced is a call that  *)
(* overlaps the replacement free to return anything.                       *)
(***************************************************************************)
CONSTANTS
    Readers,
    Contents,   \* what the database may hold
    Silence,    \* nothing returned
    Refused     \* the call was rejected

VARIABLES
    live,       \* what the database holds
    settled,    \* no replacement of the file is under way
    asking,     \* the calls that have not returned
    valid,      \* per caller, what has been live since it asked
    loose,      \* callers whose call overlaps a replacement
    shared,     \* answers being handed out
    answer      \* per caller, what this step returned to it

regVars == <<live, settled, asking, valid, loose, shared, answer>>

Quiet == [r \in Readers |-> Silence]

Init ==
    /\ live \in Contents
    /\ settled = TRUE
    /\ asking = {}
    /\ valid = [r \in Readers |-> {}]
    /\ loose = {}
    /\ shared = {}
    /\ answer = Quiet

(* A call is made. *)
Ask(r) ==
    /\ r \notin asking
    /\ asking' = asking \cup {r}
    /\ valid' = [valid EXCEPT ![r] = IF settled THEN {live} \cup shared ELSE {}]
    /\ loose' = IF settled THEN loose \ {r} ELSE loose \cup {r}
    /\ answer' = Quiet
    /\ UNCHANGED <<live, settled, shared>>

(* A call that returns at once. *)
Read(r) ==
    /\ r \notin asking
    /\ \E v \in Contents \cup {Refused} :
        /\ settled => v \in {live, Refused}
        /\ answer' = [Quiet EXCEPT ![r] = v]
    /\ valid' = [valid EXCEPT ![r] = {}]
    /\ loose' = loose \ {r}
    /\ UNCHANGED <<live, settled, asking, shared>>

(* Calls that were waiting for the same thing return together. *)
Answer(R) ==
    /\ R \subseteq asking
    /\ asking' = asking \ R
    /\ answer' \in [Readers -> Contents \cup {Silence, Refused}]
    /\ \A r \in Readers :
        IF r \in R
        THEN answer'[r] \in valid[r] \cup {Refused} \/ r \in loose
        ELSE answer'[r] = Silence
    /\ valid' = [r \in Readers |-> IF r \in R THEN {} ELSE valid[r]]
    /\ loose' = loose \ R
    /\ shared' \subseteq shared
    /\ UNCHANGED <<live, settled>>

(* The database holds something else; every call under way may see it. *)
Change(v) ==
    /\ live' = v
    /\ valid' = [r \in Readers |-> IF r \in asking \ loose THEN valid[r] \cup {v} ELSE {}]
    /\ answer' = Quiet
    /\ UNCHANGED <<settled, asking, loose, shared>>

(* An answer is decided, or the last one is no longer to be had. *)
Share ==
    /\ shared' \subseteq IF settled THEN shared \cup {live} ELSE Contents
    /\ answer' = Quiet
    /\ UNCHANGED <<live, settled, asking, valid, loose>>

(* The file is replaced, and later the replacement is announced. *)
Unsettle(v) ==
    /\ live' = v
    /\ settled' = FALSE
    /\ loose' = asking
    /\ valid' = [r \in Readers |-> {}]
    /\ answer' = Quiet
    /\ UNCHANGED <<asking, shared>>

Settle ==
    /\ settled' = TRUE
    /\ answer' = Quiet
    /\ UNCHANGED <<live, asking, valid, loose, shared>>

Next ==
    \/ \E r \in Readers : Ask(r) \/ Read(r)
    \/ \E R \in SUBSET Readers : Answer(R)
    \/ \E v \in Contents : Change(v) \/ Unsettle(v)
    \/ Share \/ Settle

Spec == Init /\ [][Next]_regVars
=============================================================================
