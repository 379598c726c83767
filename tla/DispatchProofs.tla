---------------------------- MODULE DispatchProofs ----------------------------
(***************************************************************************)
(* Proofs about Dispatch, for any number of requests, pairs, candidates and *)
(* attempts.                                                               *)
(*                                                                         *)
(* What one request may hold and may have told its client at each of its   *)
(* awaits (RequestInv) does not depend on the others.  The counts do: the  *)
(* load registry is compared with the requests that hold a claim, and the  *)
(* slots of a probe's gauge with the requests that hold one, at every      *)
(* moment from now on (ClaimsCovered), because the release of a slot does  *)
(* not name its holder.                                                    *)
(***************************************************************************)
EXTENDS Dispatch, FiniteSetTheorems, TLAPS

Candidates == [pair : Pairs, probe : BOOLEAN, dirty : BOOLEAN]

Statuses == Codes \cup {"none", "200", "NO_CANDIDATES", "ALL_CANDIDATES_FAILED"}

Snaps == {<<>>} \cup [Pairs -> HealthRow]

States ==
    [pc : Attempting \cup {"idle", "rank", "next", "done"},
     snap : Snaps, startedAt : Nat,
     order : Seq(Candidates), idx : Nat \ {0}, attempts : 0..MaxAttempts,
     eager : BOOLEAN, own : BOOLEAN, claim : Nat \cup {Never}, won : BOOLEAN,
     probing : BOOLEAN, committed : BOOLEAN, closed : BOOLEAN, retried : BOOLEAN,
     err : Codes \cup {NoCode}, after : {"next", "final", "over"}, aborted : BOOLEAN,
     from : SUBSET Nat, ends : Nat, errors : Nat, status : Statuses, unsaved : BOOLEAN,
     client : {"reading", "stalled", "left"}]

Slots == [by : Requests, until : Nat]

(* The walk over the candidates, and the claims made on the way: a rank-    *)
(* time claim goes with the first candidate until the client leaves, a     *)
(* claim of its own with each later one, a probe slot with the attempt.    *)
Walk(st) ==
    /\ st.pc \in {"idle", "rank", "done"} => st.order = <<>> /\ st.idx = 1
    /\ st.pc \in Attempting => st.idx <= Len(st.order)
    /\ \A i, j \in DOMAIN st.order : st.order[i].pair = st.order[j].pair => i = j
    /\ st.eager <=> st.idx = 1 /\ ~st.aborted /\ Len(st.order) # 0
    /\ st.own <=> st.pc \in Attempting /\ st.idx > 1
    /\ st.claim # Never => st.pc \in Attempting \ {"probe"}
    /\ st.won => st.claim # Never
    /\ st.pc \in {"probe", "mark"} => st.attempts < MaxAttempts

(* The client has seen nothing of this request. *)
Quiet(st) ==
    st.from = {} /\ st.ends = 0 /\ st.errors = 0 /\ st.status = "none" /\ ~st.unsaved

(* The client has been told at most what the answer of one attempt tells,  *)
(* and the log agrees.                                                     *)
Told(st) ==
    /\ st.ends + st.errors <= IF st.unsaved THEN 2 ELSE 1
    /\ st.status = "200" => st.ends = 1 /\ st.errors = 0
    /\ st.ends > 0 => st.status = "200" \/ st.client = "left" \/ st.unsaved
    /\ st.errors > 0 => st.status \notin {"none", "200"}

(* An error is about to end the request, perhaps after `end` itself.       *)
Failing(st) ==
    /\ st.err \in Codes /\ st.errors = 0 /\ st.status = "none"
    /\ st.ends = IF st.unsaved THEN 1 ELSE 0
    /\ st.unsaved => st.err \in {"INTERNAL", "TIMEOUT"}

(* The success could not be written and the deadline had passed: the loop   *)
(* is over as soon as it is back at its head.                               *)
Doomed(st) ==
    st.unsaved /\ st.err = "TIMEOUT" /\ st.ends = 1 /\ st.errors = 0 /\ st.status = "none"

(* What the client has been told, by where the request is. *)
Answer(st) ==
    /\ \A i, j \in st.from : i = j
    /\ st.pc \in {"idle", "rank", "probe", "mark", "refresh"} => Quiet(st) /\ ~st.committed
    /\ st.pc = "next" => (Quiet(st) \/ Doomed(st)) /\ ~st.committed
    /\ st.pc = "send" /\ ~st.committed => Quiet(st)
    /\ st.pc = "close" => st.committed
    /\ st.pc \in {"send", "close"} =>
            /\ st.from \subseteq {st.idx} /\ st.ends = 0 /\ st.errors = 0
            /\ st.status = "none" /\ ~st.unsaved
    /\ st.pc = "ended" => st.ends = 1 /\ st.errors = 0 /\ st.status = "none" /\ ~st.unsaved
    /\ st.pc = "record" => /\ st.err \in Codes /\ st.ends = 0 /\ st.errors = 1
                           /\ st.status \in Codes /\ ~st.unsaved
    /\ st.pc = "fail" =>
            /\ Failing(st)
            /\ ~st.committed /\ ~st.unsaved => st.from = {}
    /\ st.pc # "finally" => st.after = "next"
    /\ st.pc = "finally" /\ st.after = "next" => Quiet(st) \/ Doomed(st)
    /\ st.pc = "finally" /\ st.after = "final" => Failing(st) /\ st.err \notin Retryable
    /\ st.pc = "finally" /\ st.after = "over" => Told(st)
    /\ st.pc \in {"told", "done"} => Told(st)

RequestInv(st) == st \in States /\ Walk(st) /\ Answer(st)

-----------------------------------------------------------------------------
(* Who holds what *)

(* A request in this state has acquired a slot of p's probe. *)
Claims(st, p) ==
    st.claim # Never /\ st.idx <= Len(st.order) /\ st.order[st.idx].pair = p

(* It has come as far as p. *)
Comes(st, p) ==
    \/ st.pc = "done"
    \/ \E i \in DOMAIN st.order :
        /\ st.order[i].pair = p
        /\ i < st.idx \/ (i = st.idx /\ st.claim # Never)

Holders(p) == {r \in Requests : Claims(q[r], p)}

(* Those whose own slot lives past t, and those that were let in by one. *)
Claimants(p, t) == {r \in Requests : Claims(q[r], p) /\ q[r].claim > t}

Winners(p) == {r \in Requests : Claims(q[r], p) /\ q[r].claim > now /\ q[r].won}

LiveAt(p, t) == {s \in gauge[p] : s.until > t}

(* A slot was acquired by a request that has come as far as p. *)
SlotsReached == \A p \in Pairs : \A s \in gauge[p] : Comes(q[s.by], p)

(* Whatever the time, the slots that will be live then are as many as the   *)
(* requests that count on one, but for those that late releases took.       *)
ClaimsCovered ==
    \A p \in Pairs : \A t \in Nat :
        t >= now => Cardinality(Claimants(p, t)) <= Cardinality(LiveAt(p, t)) + late[p]

(* ProbesBounded and ProbeSlotsAccounted, in these terms. *)
WinnersBounded == \A p \in Pairs : Cardinality(Winners(p)) <= 1 + late[p]

SlotsHeld == \A p \in Pairs : Cardinality(LiveAt(p, now)) <= Cardinality(Holders(p)) + lost[p]

GaugeInv == SlotsReached /\ ClaimsCovered /\ WinnersBounded /\ SlotsHeld

(* A request whose success could not be written in time is past its time. *)
DoomedIsDue ==
    \A r \in Requests :
        q[r].unsaved /\ q[r].err = "TIMEOUT" /\ q[r].after # "over" => Due(r)

DispatchTyped ==
    /\ now \in 0..MaxTime /\ faults \in 0..MaxFaults
    /\ health \in [Pairs -> HealthRow] /\ healed \in [Pairs -> BOOLEAN]
    /\ gauge \in [Pairs -> SUBSET Slots]
    /\ \A p \in Pairs : IsFiniteSet(gauge[p])
    /\ load \in [Pairs -> Nat]
    /\ late \in [Pairs -> Nat] /\ lost \in [Pairs -> Nat]
    /\ q \in [Requests -> States]
    /\ \A r \in Requests : RequestInv(q[r])

-----------------------------------------------------------------------------
(* One request *)

LEMMA IdleInv == RequestInv(Idle)
<1>1. Idle \in States
  <2>1. 0 \in 0..MaxAttempts /\ <<>> \in Seq(Candidates) /\ <<>> \in Snaps
    BY DispatchConstants DEF Snaps
  <2> QED
    BY <2>1 DEF Idle, States, Attempting, Statuses, Never
<1>2. Walk(Idle)
  BY DEF Walk, Idle, Attempting
<1>3. Answer(Idle)
  BY DEF Answer, Idle, Quiet
<1> QED
  BY <1>1, <1>2, <1>3 DEF RequestInv

(* A request that is over keeps what the client was told. *)
LEMMA OverInv ==
    ASSUME NEW st \in States, \A i, j \in st.from : i = j, Told(st)
    PROVE  RequestInv(Over(st))
<1>1. Idle \in States
  BY IdleInv DEF RequestInv
<1>2. Over(st) \in States
  BY <1>1, ZenonT(60) DEF Over, States
<1>3. /\ Over(st).pc = "done" /\ Over(st).order = <<>> /\ Over(st).idx = 1
      /\ Over(st).eager = FALSE /\ Over(st).own = FALSE /\ Over(st).claim = Never
      /\ Over(st).won = FALSE /\ Over(st).after = "next"
      /\ Over(st).from = st.from /\ Over(st).ends = st.ends /\ Over(st).errors = st.errors
      /\ Over(st).status = st.status /\ Over(st).unsaved = st.unsaved
      /\ Over(st).client = st.client
  BY DEF Over, Idle
<1>4. Walk(Over(st))
  BY <1>3 DEF Walk, Attempting
<1>5. Answer(Over(st))
  BY <1>3 DEF Answer, Told
<1> QED
  BY <1>2, <1>4, <1>5 DEF RequestInv

(* An error is told, and logged as what it is. *)
Tell(st, code) == [st EXCEPT !.status = code, !.errors = @ + 1]

LEMMA TellState ==
    ASSUME NEW st \in States, NEW code \in Statuses
    PROVE  /\ Tell(st, code) \in States
           /\ Tell(st, code).errors = st.errors + 1 /\ Tell(st, code).status = code
           /\ Tell(st, code).from = st.from /\ Tell(st, code).ends = st.ends
           /\ Tell(st, code).unsaved = st.unsaved /\ Tell(st, code).client = st.client
<1>1. st.errors + 1 \in Nat
  BY DEF States
<1> QED
  BY <1>1 DEF States, Tell

(* The answer of an exhausted request. *)
LEMMA ExhaustedInv ==
    ASSUME NEW st \in States, \A i, j \in st.from : i = j,
           Quiet(st) \/ Doomed(st) \/ (Failing(st) /\ st.err \notin Retryable)
    PROVE  RequestInv(Exhausted(st)) /\ \E u \in States : Exhausted(st) = Over(u)
<1>1. PICK code \in Statuses : code \notin {"none", "200"} /\ Exhausted(st) = Over(Tell(st, code))
  <2> DEFINE code == CASE st.err = NoCode -> "NO_CANDIDATES"
                       [] st.err # NoCode /\ (st.err = "TIMEOUT" \/ st.err \notin Retryable) -> st.err
                       [] OTHER -> "ALL_CANDIDATES_FAILED"
  <2>1. code \in Statuses /\ code \notin {"none", "200"}
    BY DEF States, Statuses, Codes
  <2>2. Exhausted(st) = Over(Tell(st, code))
    BY DEF Exhausted, Tell
  <2> HIDE DEF code
  <2> QED
    BY <2>1, <2>2
<1>2. Told(Tell(st, code))
  BY <1>1, TellState, SMTT(30) DEF Told, Quiet, Doomed, Failing, States
<1> QED
  BY <1>1, <1>2, TellState, OverInv

(* Steps that leave a request's claims alone. *)
SameClaims(st, u) ==
    /\ u.order = st.order /\ u.idx = st.idx /\ u.eager = st.eager /\ u.own = st.own
    /\ u.claim = st.claim /\ u.won = st.won
    /\ st.pc = "done" => u.pc = "done"

LEMMA BeginState ==
    ASSUME NEW st, RequestInv(st), st.pc = "idle", NEW n \in Nat, NEW h \in [Pairs -> HealthRow],
           NEW u, u = [st EXCEPT !.pc = "rank", !.startedAt = n, !.snap = h]
    PROVE  RequestInv(u) /\ SameClaims(st, u)
<1>1. u \in States
  BY DEF RequestInv, States, Snaps
<1>2. /\ u.pc = "rank" /\ u.order = st.order /\ u.idx = st.idx /\ u.eager = st.eager
      /\ u.own = st.own /\ u.claim = st.claim /\ u.won = st.won /\ u.after = st.after
      /\ u.aborted = st.aborted
      /\ u.from = st.from /\ u.ends = st.ends /\ u.errors = st.errors
      /\ u.status = st.status /\ u.unsaved = st.unsaved /\ u.client = st.client /\ u.committed = st.committed
  BY DEF RequestInv, States
<1>3. Walk(u)
  BY <1>2 DEF RequestInv, Walk, Attempting
<1>4. Answer(u)
  BY <1>2 DEF RequestInv, Answer, Quiet
<1> QED
  BY <1>1, <1>2, <1>3, <1>4 DEF RequestInv, SameClaims

(* A step inside an attempt moves the request from one await to the next.  *)
LEMMA AttemptStep ==
    ASSUME NEW st, RequestInv(st), st.pc \in Attempting, NEW u \in States,
           u.pc \in Attempting \ {"probe", "mark"}, u.order = st.order, u.idx = st.idx,
           u.eager = st.eager, u.own = st.own, u.claim = st.claim, u.won = st.won,
           u.aborted = st.aborted, Answer(u)
    PROVE  RequestInv(u) /\ SameClaims(st, u)
<1>1. u.pc \notin {"idle", "rank", "done", "probe", "mark"} /\ st.pc # "done"
  BY DEF Attempting
<1>2. Walk(u)
  BY <1>1 DEF RequestInv, Walk
<1> QED
  BY <1>1, <1>2 DEF RequestInv, SameClaims

(* The catch of an attempt.  What was sent to the client before is only     *)
(* taken back into failover when nothing was.                               *)
Catch(st, c, u) ==
    \/ st.aborted /\ u = [st EXCEPT !.pc = "finally", !.after = "over"]
    \/ /\ ~st.aborted /\ c = "AUTH" /\ ~st.committed
       /\ u = [st EXCEPT !.pc = "refresh", !.retried = TRUE]
    \/ u = [st EXCEPT !.pc = "fail", !.err = c]

LEMMA CaughtIsCatch ==
    ASSUME NEW r \in Requests, NEW c PROVE Catch(q[r], c, Caught(r, c))
BY DEF Caught, Catch

LEMMA CatchState ==
    ASSUME NEW st, RequestInv(st), st.pc \in {"send", "refresh", "close"},
           NEW c \in Codes, NEW u, Catch(st, c, u)
    PROVE  RequestInv(u) /\ SameClaims(st, u)
<1>1. st.pc \in Attempting /\ st \in States
  BY DEF Attempting, RequestInv
<1>2. CASE st.aborted /\ u = [st EXCEPT !.pc = "finally", !.after = "over"]
  <2>1. u \in States
    BY <1>1, <1>2, ZenonT(60) DEF States, Attempting
  <2>2. /\ u.pc = "finally" /\ u.after = "over" /\ u.order = st.order /\ u.idx = st.idx
        /\ u.eager = st.eager /\ u.own = st.own /\ u.claim = st.claim /\ u.won = st.won
        /\ u.aborted = st.aborted
        /\ u.from = st.from /\ u.ends = st.ends /\ u.errors = st.errors
        /\ u.status = st.status /\ u.unsaved = st.unsaved /\ u.client = st.client
    BY <1>1, <1>2 DEF States
  <2>3. Answer(u)
    BY <2>2 DEF RequestInv, Answer, Quiet, Told
  <2> QED
    BY <1>1, <2>1, <2>2, <2>3, AttemptStep DEF Attempting
<1>3. CASE ~st.committed /\ u = [st EXCEPT !.pc = "refresh", !.retried = TRUE]
  <2>1. u \in States
    BY <1>1, <1>3, ZenonT(60) DEF States, Attempting
  <2>2. /\ u.pc = "refresh" /\ u.after = st.after /\ u.order = st.order /\ u.idx = st.idx
        /\ u.eager = st.eager /\ u.own = st.own /\ u.claim = st.claim /\ u.won = st.won
        /\ u.aborted = st.aborted /\ u.committed = st.committed
        /\ u.from = st.from /\ u.ends = st.ends /\ u.errors = st.errors
        /\ u.status = st.status /\ u.unsaved = st.unsaved /\ u.client = st.client
    BY <1>1, <1>3 DEF States
  <2>3. Answer(u)
    BY <1>3, <2>2 DEF RequestInv, Answer, Quiet
  <2> QED
    BY <1>1, <2>1, <2>2, <2>3, AttemptStep DEF Attempting
<1>4. CASE u = [st EXCEPT !.pc = "fail", !.err = c]
  <2>1. u \in States
    BY <1>1, <1>4, ZenonT(60) DEF States, Attempting
  <2>2. /\ u.pc = "fail" /\ u.err = c /\ u.after = st.after /\ u.order = st.order /\ u.idx = st.idx
        /\ u.eager = st.eager /\ u.own = st.own /\ u.claim = st.claim /\ u.won = st.won
        /\ u.aborted = st.aborted /\ u.committed = st.committed
        /\ u.from = st.from /\ u.ends = st.ends /\ u.errors = st.errors
        /\ u.status = st.status /\ u.unsaved = st.unsaved /\ u.client = st.client
    BY <1>1, <1>4 DEF States
  <2>3. Answer(u)
    BY <2>2 DEF RequestInv, Answer, Quiet, Failing
  <2> QED
    BY <1>1, <2>1, <2>2, <2>3, AttemptStep DEF Attempting
<1> QED
  BY <1>2, <1>3, <1>4 DEF Catch

(* The other steps of an attempt, in the order of the code. *)
LEMMA MarkedState ==
    ASSUME NEW st, RequestInv(st), st.pc = "mark", NEW b \in BOOLEAN,
           NEW u, u = [st EXCEPT !.pc = "send", !.attempts = st.attempts + 1, !.probing = b]
    PROVE  RequestInv(u) /\ SameClaims(st, u)
<1>1. st.pc \in Attempting /\ st \in States /\ st.attempts + 1 \in 0..MaxAttempts
  BY DispatchConstants DEF Attempting, RequestInv, Walk, States
<1>2. u \in States
  BY <1>1, ZenonT(60) DEF States, Attempting
<1>3. /\ u.pc = "send" /\ u.after = st.after /\ u.order = st.order /\ u.idx = st.idx
      /\ u.eager = st.eager /\ u.own = st.own /\ u.claim = st.claim /\ u.won = st.won
      /\ u.aborted = st.aborted /\ u.committed = st.committed
      /\ u.from = st.from /\ u.ends = st.ends /\ u.errors = st.errors
      /\ u.status = st.status /\ u.unsaved = st.unsaved /\ u.client = st.client
  BY <1>1 DEF States
<1>4. Answer(u)
  BY <1>3 DEF RequestInv, Answer, Quiet
<1> QED
  BY <1>1, <1>2, <1>3, <1>4, AttemptStep DEF Attempting

(* A request leaves the loop: nothing more is told. *)
LEMMA LeftState ==
    ASSUME NEW st, RequestInv(st), st.pc \in {"mark", "send", "record", "fail", "told"},
           NEW u, u = [st EXCEPT !.pc = "finally", !.after = "over"]
    PROVE  RequestInv(u) /\ SameClaims(st, u)
<1>1. st.pc \in Attempting /\ st \in States
  BY DEF Attempting, RequestInv
<1>2. u \in States
  BY <1>1, ZenonT(60) DEF States, Attempting
<1>3. /\ u.pc = "finally" /\ u.after = "over" /\ u.order = st.order /\ u.idx = st.idx
      /\ u.eager = st.eager /\ u.own = st.own /\ u.claim = st.claim /\ u.won = st.won
      /\ u.aborted = st.aborted
      /\ u.from = st.from /\ u.ends = st.ends /\ u.errors = st.errors
      /\ u.status = st.status /\ u.unsaved = st.unsaved /\ u.client = st.client
  BY <1>1 DEF States
<1>4. Answer(u)
  BY <1>3 DEF RequestInv, Answer, Quiet, Told, Failing, Codes
<1> QED
  BY <1>1, <1>2, <1>3, <1>4, AttemptStep DEF Attempting

(* Or its client leaves it, perhaps at the `end` event. *)
LEMMA AbandonedState ==
    ASSUME NEW st, RequestInv(st), st.pc \in {"send", "close", "ended", "record", "told"},
           NEW u, u = [st EXCEPT !.pc = "finally", !.after = "over", !.client = "left"]
    PROVE  RequestInv(u) /\ SameClaims(st, u)
<1>1. st.pc \in Attempting /\ st \in States
  BY DEF Attempting, RequestInv
<1>2. u \in States
  BY <1>1, ZenonT(60) DEF States, Attempting
<1>3. /\ u.pc = "finally" /\ u.after = "over" /\ u.order = st.order /\ u.idx = st.idx
      /\ u.eager = st.eager /\ u.own = st.own /\ u.claim = st.claim /\ u.won = st.won
      /\ u.aborted = st.aborted /\ u.client = "left"
      /\ u.from = st.from /\ u.ends = st.ends /\ u.errors = st.errors
      /\ u.status = st.status /\ u.unsaved = st.unsaved
  BY <1>1 DEF States
<1>4. Answer(u)
  BY <1>3 DEF RequestInv, Answer, Quiet, Told, Failing, Codes
<1> QED
  BY <1>1, <1>2, <1>3, <1>4, AttemptStep DEF Attempting

(* A client that has not left stops reading, or reads on. *)
LEMMA ReaderState ==
    ASSUME NEW st, RequestInv(st), st.client # "left", NEW c \in {"reading", "stalled"},
           NEW u, u = [st EXCEPT !.client = c]
    PROVE  RequestInv(u) /\ SameClaims(st, u)
<1>1. st \in States
  BY DEF RequestInv
<1>2. u \in States
  BY <1>1 DEF States
<1>3. /\ u.pc = st.pc /\ u.order = st.order /\ u.idx = st.idx
      /\ u.eager = st.eager /\ u.own = st.own /\ u.claim = st.claim /\ u.won = st.won
      /\ u.aborted = st.aborted /\ u.after = st.after /\ u.err = st.err
      /\ u.attempts = st.attempts /\ u.committed = st.committed
      /\ u.from = st.from /\ u.ends = st.ends /\ u.errors = st.errors
      /\ u.status = st.status /\ u.unsaved = st.unsaved
  BY <1>1 DEF States
<1>4. Walk(u)
  BY <1>3 DEF RequestInv, Walk
<1>5. /\ (Quiet(u) <=> Quiet(st)) /\ (Failing(u) <=> Failing(st))
      /\ (Doomed(u) <=> Doomed(st)) /\ (Told(st) => Told(u))
  BY <1>3 DEF Quiet, Failing, Doomed, Told
<1>6. Answer(u)
  BY <1>3, <1>5 DEF RequestInv, Answer
<1> QED
  BY <1>2, <1>3, <1>4, <1>6 DEF RequestInv, SameClaims

(* The credential is refreshed. *)
LEMMA RefreshedState ==
    ASSUME NEW st, RequestInv(st), st.pc = "refresh", NEW u, u = [st EXCEPT !.pc = "send"]
    PROVE  RequestInv(u) /\ SameClaims(st, u)
<1>1. st.pc \in Attempting /\ st \in States
  BY DEF Attempting, RequestInv
<1>2. u \in States
  BY <1>1 DEF States, Attempting
<1>3. /\ u.pc = "send"
      /\ u.after = st.after /\ u.order = st.order /\ u.idx = st.idx
      /\ u.eager = st.eager /\ u.own = st.own /\ u.claim = st.claim /\ u.won = st.won
      /\ u.aborted = st.aborted /\ u.committed = st.committed
      /\ u.from = st.from /\ u.ends = st.ends /\ u.errors = st.errors
      /\ u.status = st.status /\ u.unsaved = st.unsaved /\ u.client = st.client
  BY <1>1 DEF States
<1>4. Answer(u)
  BY <1>3 DEF RequestInv, Answer, Quiet, Failing
<1> QED
  BY <1>1, <1>2, <1>3, <1>4, AttemptStep DEF Attempting

(* The first byte goes out. *)
LEMMA CommittedState ==
    ASSUME NEW st, RequestInv(st), st.pc = "send", NEW l \in {"send", "close"},
           NEW u, u = [st EXCEPT !.committed = TRUE, !.from = st.from \cup {st.idx}, !.pc = l]
    PROVE  RequestInv(u) /\ SameClaims(st, u)
<1>1. st.pc \in Attempting /\ st \in States /\ st.from \cup {st.idx} \in SUBSET Nat
  BY DEF Attempting, RequestInv, States
<1>2. u \in States
  BY <1>1, ZenonT(60) DEF States, Attempting
<1>3. /\ u.pc \in {"send", "close"} /\ u.committed = TRUE /\ u.from = st.from \cup {st.idx}
      /\ u.after = st.after /\ u.order = st.order /\ u.idx = st.idx
      /\ u.eager = st.eager /\ u.own = st.own /\ u.claim = st.claim /\ u.won = st.won
      /\ u.aborted = st.aborted
      /\ u.ends = st.ends /\ u.errors = st.errors
      /\ u.status = st.status /\ u.unsaved = st.unsaved /\ u.client = st.client
  BY <1>1 DEF States
<1>4. Answer(u)
  BY <1>3 DEF RequestInv, Answer
<1> QED
  BY <1>1, <1>2, <1>3, <1>4, AttemptStep DEF Attempting

(* The breaker is closed at the commit. *)
LEMMA ClosedState ==
    ASSUME NEW st, RequestInv(st), st.pc = "close",
           NEW u, u = [st EXCEPT !.pc = "send", !.probing = FALSE, !.closed = TRUE]
    PROVE  RequestInv(u) /\ SameClaims(st, u)
<1>1. st.pc \in Attempting /\ st \in States
  BY DEF Attempting, RequestInv
<1>2. u \in States
  BY <1>1, ZenonT(60) DEF States, Attempting
<1>3. /\ u.pc = "send" /\ u.committed = st.committed /\ u.from = st.from
      /\ u.after = st.after /\ u.order = st.order /\ u.idx = st.idx
      /\ u.eager = st.eager /\ u.own = st.own /\ u.claim = st.claim /\ u.won = st.won
      /\ u.aborted = st.aborted
      /\ u.ends = st.ends /\ u.errors = st.errors
      /\ u.status = st.status /\ u.unsaved = st.unsaved /\ u.client = st.client
  BY <1>1 DEF States
<1>4. Answer(u)
  BY <1>3 DEF RequestInv, Answer
<1> QED
  BY <1>1, <1>2, <1>3, <1>4, AttemptStep DEF Attempting

(* The answer ends. *)
LEMMA EndedState ==
    ASSUME NEW st, RequestInv(st), st.pc = "send",
           NEW u, u = [st EXCEPT !.pc = "ended", !.from = st.from \cup {st.idx},
                                 !.ends = st.ends + 1]
    PROVE  RequestInv(u) /\ SameClaims(st, u)
<1>1. st.pc \in Attempting /\ st \in States /\ st.from \cup {st.idx} \in SUBSET Nat
      /\ st.ends + 1 \in Nat
  BY DEF Attempting, RequestInv, States
<1>2. u \in States
  BY <1>1, ZenonT(60) DEF States, Attempting
<1>3. /\ u.pc = "ended" /\ u.from = st.from \cup {st.idx} /\ u.ends = st.ends + 1
      /\ u.after = st.after /\ u.order = st.order /\ u.idx = st.idx
      /\ u.eager = st.eager /\ u.own = st.own /\ u.claim = st.claim /\ u.won = st.won
      /\ u.aborted = st.aborted /\ u.errors = st.errors
      /\ u.status = st.status /\ u.unsaved = st.unsaved /\ u.client = st.client
  BY <1>1 DEF States
<1>4. Answer(u)
  BY <1>3 DEF RequestInv, Answer
<1> QED
  BY <1>1, <1>2, <1>3, <1>4, AttemptStep DEF Attempting

(* An error frame is the answer. *)
LEMMA ErrorState ==
    ASSUME NEW st, RequestInv(st), st.pc = "send", NEW c \in Codes,
           NEW u, u = [st EXCEPT !.pc = "record", !.err = c, !.committed = TRUE, !.status = c,
                                 !.errors = st.errors + 1, !.from = st.from \cup {st.idx}]
    PROVE  RequestInv(u) /\ SameClaims(st, u)
<1>1. st.pc \in Attempting /\ st \in States /\ st.from \cup {st.idx} \in SUBSET Nat
      /\ st.errors + 1 \in Nat /\ c \in Statuses
  BY DEF Attempting, RequestInv, States, Statuses
<1>2. u \in States
  BY <1>1, ZenonT(60) DEF States, Attempting
<1>3. /\ u.pc = "record" /\ u.from = st.from \cup {st.idx} /\ u.errors = st.errors + 1
      /\ u.err = c /\ u.status = c /\ u.ends = st.ends
      /\ u.after = st.after /\ u.order = st.order /\ u.idx = st.idx
      /\ u.eager = st.eager /\ u.own = st.own /\ u.claim = st.claim /\ u.won = st.won
      /\ u.aborted = st.aborted
  BY <1>1 DEF States
<1>4. Answer(u)
  BY <1>3 DEF RequestInv, Answer
<1> QED
  BY <1>1, <1>2, <1>3, <1>4, AttemptStep DEF Attempting

(* A success, written or with nothing to write. *)
LEMMA SucceededState ==
    ASSUME NEW st, RequestInv(st), st.pc = "ended",
           NEW u, u = [st EXCEPT !.pc = "finally", !.after = "over", !.status = "200"]
    PROVE  RequestInv(u) /\ SameClaims(st, u)
<1>1. st.pc \in Attempting /\ st \in States /\ "200" \in Statuses
  BY DEF Attempting, RequestInv, Statuses
<1>2. u \in States
  BY <1>1, ZenonT(60) DEF States, Attempting
<1>3. /\ u.pc = "finally" /\ u.after = "over" /\ u.status = "200"
      /\ u.order = st.order /\ u.idx = st.idx
      /\ u.eager = st.eager /\ u.own = st.own /\ u.claim = st.claim /\ u.won = st.won
      /\ u.aborted = st.aborted /\ u.from = st.from /\ u.ends = st.ends /\ u.errors = st.errors
      /\ u.unsaved = st.unsaved /\ u.client = st.client
  BY <1>1 DEF States
<1>4. Answer(u)
  BY <1>3 DEF RequestInv, Answer, Told
<1> QED
  BY <1>1, <1>2, <1>3, <1>4, AttemptStep DEF Attempting

(* A success that could not be written is an error after the end. *)
LEMMA UnsavedState ==
    ASSUME NEW st, RequestInv(st), st.pc = "ended",
           NEW c \in {"INTERNAL", "TIMEOUT"}, NEW v, Catch(st, c, v),
           NEW u, u = [v EXCEPT !.unsaved = TRUE]
    PROVE  RequestInv(u) /\ SameClaims(st, u)
<1>1. st.pc \in Attempting /\ st \in States /\ c \in Codes /\ c # "AUTH"
  BY DEF Attempting, RequestInv, Codes
<1>2. CASE v = [st EXCEPT !.pc = "finally", !.after = "over"]
  <2>1. v \in States
    BY <1>1, <1>2 DEF States, Attempting
  <2>2. u \in States
    BY <2>1 DEF States
  <2>3. /\ u.pc = "finally" /\ u.after = "over" /\ u.order = st.order /\ u.idx = st.idx
        /\ u.eager = st.eager /\ u.own = st.own /\ u.claim = st.claim /\ u.won = st.won
        /\ u.aborted = st.aborted
        /\ u.from = st.from /\ u.ends = st.ends /\ u.errors = st.errors
        /\ u.status = st.status /\ u.unsaved /\ u.client = st.client
    BY <1>1, <1>2, <2>1 DEF States
  <2>4. st.ends = 1 /\ st.errors = 0 /\ st.status = "none" /\ \A i, j \in st.from : i = j
    BY DEF RequestInv, Answer
  <2>5. Told(u)
    BY <2>3, <2>4 DEF Told
  <2>6. Answer(u)
    BY <2>3, <2>4, <2>5 DEF Answer
  <2> QED
    BY <1>1, <2>2, <2>3, <2>6, AttemptStep DEF Attempting
<1>3. CASE v = [st EXCEPT !.pc = "fail", !.err = c]
  <2>1. v \in States
    BY <1>1, <1>3 DEF States, Attempting
  <2>2. u \in States
    BY <2>1 DEF States
  <2>3. /\ u.pc = "fail" /\ u.err = c /\ u.after = st.after
        /\ u.order = st.order /\ u.idx = st.idx
        /\ u.eager = st.eager /\ u.own = st.own /\ u.claim = st.claim /\ u.won = st.won
        /\ u.aborted = st.aborted
        /\ u.from = st.from /\ u.ends = st.ends /\ u.errors = st.errors
        /\ u.status = st.status /\ u.unsaved /\ u.client = st.client
    BY <1>1, <1>3, <2>1 DEF States
  <2>4. Answer(u)
    BY <1>1, <2>3 DEF RequestInv, Answer, Failing
  <2> QED
    BY <1>1, <2>2, <2>3, <2>4, AttemptStep DEF Attempting
<1> QED
  BY <1>1, <1>2, <1>3 DEF Catch

(* A failure after the commit is told to the client. *)
LEMMA ToldState ==
    ASSUME NEW st, RequestInv(st), st.pc = "fail",
           NEW u, u = [st EXCEPT !.pc = "told", !.status = st.err, !.errors = st.errors + 1]
    PROVE  RequestInv(u) /\ SameClaims(st, u)
<1>1. st.pc \in Attempting /\ st \in States /\ st.err \in Codes /\ st.errors + 1 \in Nat
  BY DEF Attempting, RequestInv, Answer, Failing, States
<1>2. st.err \in Statuses /\ st.err \notin {"none", "200"}
  BY <1>1 DEF Statuses, Codes
<1>3. u \in States
  BY <1>1, <1>2 DEF States, Attempting
<1>4. /\ u.pc = "told" /\ u.after = st.after /\ u.status = st.err /\ u.errors = st.errors + 1
      /\ u.order = st.order /\ u.idx = st.idx
      /\ u.eager = st.eager /\ u.own = st.own /\ u.claim = st.claim /\ u.won = st.won
      /\ u.aborted = st.aborted /\ u.from = st.from /\ u.ends = st.ends
      /\ u.unsaved = st.unsaved /\ u.client = st.client
  BY <1>1 DEF States
<1>5. Answer(u)
  BY <1>2, <1>4 DEF RequestInv, Answer, Told, Failing
<1> QED
  BY <1>1, <1>3, <1>4, <1>5, AttemptStep DEF Attempting

(* Before it, the loop goes on or is over. *)
LEMMA GoneOnState ==
    ASSUME NEW st, RequestInv(st), st.pc = "fail", ~st.committed,
           NEW a \in {"next", "final"}, a = "next" <=> st.err \in Retryable,
           NEW u, u = [st EXCEPT !.pc = "finally", !.after = a]
    PROVE  RequestInv(u) /\ SameClaims(st, u)
<1>1. st.pc \in Attempting /\ st \in States
  BY DEF Attempting, RequestInv
<1>2. u \in States
  BY <1>1 DEF States, Attempting
<1>3. /\ u.pc = "finally" /\ u.after = a /\ u.err = st.err
      /\ u.order = st.order /\ u.idx = st.idx
      /\ u.eager = st.eager /\ u.own = st.own /\ u.claim = st.claim /\ u.won = st.won
      /\ u.aborted = st.aborted /\ u.from = st.from /\ u.ends = st.ends /\ u.errors = st.errors
      /\ u.status = st.status /\ u.unsaved = st.unsaved /\ u.client = st.client
  BY <1>1 DEF States
<1>4. "INTERNAL" \notin Retryable
  BY DEF Retryable, Hard, Soft
<1>5. Answer(u)
  BY <1>3, <1>4 DEF RequestInv, Answer, Failing, Quiet, Doomed
<1> QED
  BY <1>1, <1>2, <1>3, <1>5, AttemptStep DEF Attempting

(* Steps that change what a request claims. *)
Ordered(st, order) ==
    [st EXCEPT !.pc = "next", !.snap = <<>>, !.order = order, !.eager = ~st.aborted]

LEMMA RankedState ==
    ASSUME NEW st, RequestInv(st), st.pc = "rank", NEW order \in Seq(Candidates), Len(order) # 0,
           \A i, j \in DOMAIN order : order[i].pair = order[j].pair => i = j,
           NEW u, u = Ordered(st, order)
    PROVE  /\ RequestInv(u)
           /\ u.pc = "next" /\ u.order = order /\ u.idx = 1 /\ (u.eager <=> ~st.aborted)
           /\ ~u.own /\ u.claim = Never /\ ~u.won
           /\ st.order = <<>>
<1>1. st \in States /\ <<>> \in Snaps /\ (~st.aborted) \in BOOLEAN
  BY DEF RequestInv, Snaps
<1>2. u \in States
  BY <1>1, ZenonT(60) DEF States, Ordered
<1>3. /\ st.order = <<>> /\ st.idx = 1 /\ ~st.own /\ st.claim = Never /\ ~st.won
  BY <1>1 DEF RequestInv, Walk, Attempting
<1>4. /\ u.pc = "next" /\ u.order = order /\ u.idx = st.idx /\ (u.eager <=> ~st.aborted)
      /\ u.own = st.own /\ u.claim = st.claim /\ u.won = st.won /\ u.after = st.after
      /\ u.aborted = st.aborted
      /\ u.from = st.from /\ u.ends = st.ends /\ u.errors = st.errors
      /\ u.status = st.status /\ u.unsaved = st.unsaved /\ u.client = st.client /\ u.committed = st.committed
  BY <1>1 DEF States, Ordered
<1>5. Walk(u)
  BY <1>3, <1>4 DEF Walk, Attempting
<1>6. Answer(u)
  BY <1>4 DEF RequestInv, Answer, Quiet
<1> QED
  BY <1>2, <1>3, <1>4, <1>5, <1>6 DEF RequestInv

LEMMA AbortedState ==
    ASSUME NEW st, RequestInv(st), st.pc \notin {"idle", "done"},
           NEW u, u = [st EXCEPT !.aborted = TRUE, !.eager = FALSE]
    PROVE  /\ RequestInv(u) /\ ~u.eager
           /\ u.pc = st.pc /\ u.order = st.order /\ u.idx = st.idx /\ u.own = st.own
           /\ u.claim = st.claim /\ u.won = st.won
<1>1. st \in States
  BY DEF RequestInv
<1>2. u \in States
  BY <1>1 DEF States
<1>3. /\ u.pc = st.pc /\ u.order = st.order /\ u.idx = st.idx /\ ~u.eager /\ u.aborted
      /\ u.own = st.own /\ u.claim = st.claim /\ u.won = st.won /\ u.after = st.after
      /\ u.err = st.err /\ u.attempts = st.attempts
      /\ u.from = st.from /\ u.ends = st.ends /\ u.errors = st.errors
      /\ u.status = st.status /\ u.unsaved = st.unsaved /\ u.client = st.client /\ u.committed = st.committed
  BY <1>1 DEF States
<1>4. Walk(u)
  BY <1>3 DEF RequestInv, Walk
<1>5. /\ (Quiet(u) <=> Quiet(st)) /\ (Failing(u) <=> Failing(st))
      /\ (Doomed(u) <=> Doomed(st)) /\ (Told(u) <=> Told(st))
  BY <1>3 DEF Quiet, Failing, Doomed, Told
<1>6. Answer(u)
  BY <1>3, <1>5 DEF RequestInv, Answer
<1> QED
  BY <1>2, <1>3, <1>4, <1>6 DEF RequestInv

Launched(st, l, n) == [st EXCEPT !.pc = l, !.attempts = n, !.own = st.idx > 1]

LEMMA StartedState ==
    ASSUME NEW st, RequestInv(st), st.pc = "next", Quiet(st), st.idx <= Len(st.order),
           st.attempts < MaxAttempts, NEW l \in {"probe", "send"}, NEW n \in Nat,
           n = st.attempts \/ (l = "send" /\ n = st.attempts + 1),
           NEW u, u = Launched(st, l, n)
    PROVE  /\ RequestInv(u) /\ u.pc = l
           /\ u.order = st.order /\ u.idx = st.idx /\ u.eager = st.eager
           /\ u.claim = st.claim /\ u.won = st.won
           /\ u.own <=> st.idx > 1
<1>1. st \in States /\ (st.idx > 1) \in BOOLEAN /\ n \in 0..MaxAttempts
  BY DispatchConstants DEF RequestInv, States
<1>2. u \in States
  BY <1>1, ZenonT(60) DEF States, Attempting, Launched
<1>3. /\ u.pc = l /\ u.order = st.order /\ u.idx = st.idx /\ u.eager = st.eager
      /\ (u.own <=> st.idx > 1) /\ u.claim = st.claim /\ u.won = st.won /\ u.after = st.after
      /\ u.aborted = st.aborted /\ u.attempts = n
      /\ u.from = st.from /\ u.ends = st.ends /\ u.errors = st.errors
      /\ u.status = st.status /\ u.unsaved = st.unsaved /\ u.client = st.client /\ u.committed = st.committed
  BY <1>1 DEF States, Launched
<1>4. Walk(u)
  BY <1>3 DEF RequestInv, Walk, Attempting
<1>5. Answer(u)
  BY <1>3 DEF RequestInv, Answer, Quiet
<1> QED
  BY <1>2, <1>3, <1>4, <1>5 DEF RequestInv

Acquired(st, c, w, l) == [st EXCEPT !.claim = c, !.won = w, !.pc = l]

LEMMA AcquiredState ==
    ASSUME NEW st, RequestInv(st), st.pc = "probe", NEW c \in Nat, NEW w \in BOOLEAN,
           NEW l \in {"mark", "finally"},
           NEW u, u = Acquired(st, c, w, l)
    PROVE  /\ RequestInv(u) /\ u.pc = l
           /\ u.order = st.order /\ u.idx = st.idx /\ u.eager = st.eager /\ u.own = st.own
           /\ u.claim = c /\ u.won = w /\ st.claim = Never /\ ~st.won
<1>1. st \in States /\ c # Never
  BY DEF RequestInv, Never
<1>2. u \in States
  BY <1>1, ZenonT(60) DEF States, Attempting, Acquired
<1>3. /\ u.pc = l /\ u.order = st.order /\ u.idx = st.idx /\ u.eager = st.eager
      /\ u.own = st.own /\ u.claim = c /\ u.won = w /\ u.after = st.after
      /\ u.aborted = st.aborted /\ u.attempts = st.attempts
      /\ u.from = st.from /\ u.ends = st.ends /\ u.errors = st.errors
      /\ u.status = st.status /\ u.unsaved = st.unsaved /\ u.client = st.client /\ u.committed = st.committed
  BY <1>1 DEF States, Acquired
<1>4. Walk(u) /\ st.claim = Never /\ ~st.won
  BY <1>1, <1>3 DEF RequestInv, Walk, Attempting
<1>5. Answer(u)
  BY <1>3 DEF RequestInv, Answer, Quiet
<1> QED
  BY <1>2, <1>3, <1>4, <1>5 DEF RequestInv

LEMMA NextState ==
    ASSUME NEW st, RequestInv(st), st.pc = "finally", st.after = "next",
           NEW u, u = [st EXCEPT !.pc = "next", !.idx = st.idx + 1, !.own = FALSE,
                        !.eager = FALSE, !.claim = Never, !.won = FALSE,
                        !.probing = FALSE, !.committed = FALSE, !.closed = FALSE,
                        !.retried = FALSE]
    PROVE  /\ RequestInv(u) /\ u.pc = "next"
           /\ u.order = st.order /\ u.idx = st.idx + 1 /\ ~u.eager /\ ~u.own
           /\ u.claim = Never /\ ~u.won
<1>1. st \in States /\ st.idx + 1 \in Nat \ {0} /\ Never \in Nat \cup {Never}
  BY DEF RequestInv, States
<1>2. u \in States
  <2>1. PICK v : v = [st EXCEPT !.pc = "next", !.idx = st.idx + 1, !.own = FALSE,
                                !.eager = FALSE, !.claim = Never]
    OBVIOUS
  <2>2. v \in States
    BY <1>1, <2>1, ZenonT(60) DEF States
  <2>3. u = [v EXCEPT !.won = FALSE, !.probing = FALSE, !.committed = FALSE,
                      !.closed = FALSE, !.retried = FALSE]
    BY <2>1
  <2> QED
    BY <2>2, <2>3, ZenonT(60) DEF States
<1>3. /\ u.pc = "next" /\ u.order = st.order /\ u.idx = st.idx + 1 /\ ~u.eager
      /\ ~u.own /\ u.claim = Never /\ ~u.won /\ u.after = st.after
      /\ u.from = st.from /\ u.ends = st.ends /\ u.errors = st.errors
      /\ u.status = st.status /\ u.unsaved = st.unsaved /\ u.client = st.client /\ ~u.committed
      /\ u.err = st.err
  BY <1>1 DEF States
<1>4. u.idx # 1 /\ Walk(st)
  BY <1>1, <1>3 DEF States, RequestInv
<1>5. Walk(u)
  BY <1>3, <1>4 DEF Walk, Attempting
<1>6. Answer(u)
  BY <1>3 DEF RequestInv, Answer, Quiet, Doomed
<1> QED
  BY <1>2, <1>3, <1>5, <1>6 DEF RequestInv

(* A request none of whose candidates is in hand has claimed nothing. *)
LEMMA OverUnclaimed ==
    ASSUME NEW st, RequestInv(st), st.pc \in {"idle", "rank"}, NEW v
    PROVE  SameClaims(st, Over(v))
BY DEF RequestInv, States, Walk, SameClaims, Over, Idle, Attempting

-----------------------------------------------------------------------------
(* The actions, as steps of one request *)

LocalTo(r) ==
    /\ q' \in [Requests -> States]
    /\ \A x \in Requests \ {r} : q'[x] = q[x]
    /\ RequestInv(q'[r])

Silent(r) == LocalTo(r) /\ SameClaims(q[r], q'[r])

LEMMA Replaced ==
    ASSUME q \in [Requests -> States], NEW r \in Requests, NEW u, RequestInv(u),
           q' = [q EXCEPT ![r] = u]
    PROVE  LocalTo(r) /\ q'[r] = u
BY DEF LocalTo, RequestInv

LEMMA BeginStep ==
    ASSUME DispatchTyped, NEW r \in Requests, Begin(r) PROVE Silent(r)
<1>1. q \in [Requests -> States] /\ RequestInv(q[r]) /\ q[r].pc = "idle"
      /\ now \in Nat /\ health \in [Pairs -> HealthRow]
  BY DispatchConstants DEF DispatchTyped, Begin, At
<1>2. CASE q' = [q EXCEPT ![r].pc = "rank", ![r].startedAt = now, ![r].snap = health]
  <2>1. q' = [q EXCEPT ![r] = [q[r] EXCEPT !.pc = "rank", !.startedAt = now, !.snap = health]]
    BY <1>1, <1>2
  <2> QED
    BY <1>1, <2>1, Replaced, BeginState DEF Silent
<1>3. CASE q' = [q EXCEPT ![r] = Exhausted(@)]
  <2>1. q[r] \in States /\ Quiet(q[r]) /\ \A i, j \in q[r].from : i = j
    BY <1>1 DEF RequestInv, Answer
  <2>2. RequestInv(Exhausted(q[r])) /\ SameClaims(q[r], Exhausted(q[r]))
    BY <1>1, <2>1, ExhaustedInv, OverUnclaimed
  <2> QED
    BY <1>1, <1>3, <2>2, Replaced DEF Silent
<1> QED
  BY <1>2, <1>3 DEF Begin

LEMMA MarkStep ==
    ASSUME DispatchTyped, NEW r \in Requests, MarkHalfOpen(r) PROVE Silent(r)
<1>1. q \in [Requests -> States] /\ RequestInv(q[r]) /\ q[r].pc = "mark"
  BY DEF DispatchTyped, MarkHalfOpen, At
<1>2. ASSUME NEW b \in BOOLEAN,
             q' = [q EXCEPT ![r].pc = "send", ![r].attempts = @ + 1, ![r].probing = b]
      PROVE  Silent(r)
  <2>1. q' = [q EXCEPT ![r] = [q[r] EXCEPT !.pc = "send", !.attempts = q[r].attempts + 1,
                                           !.probing = b]]
    BY <1>1, <1>2
  <2> QED
    BY <1>1, <2>1, Replaced, MarkedState DEF Silent
<1>3. CASE q' = [q EXCEPT ![r].pc = "finally", ![r].after = "over"]
  <2>1. q' = [q EXCEPT ![r] = [q[r] EXCEPT !.pc = "finally", !.after = "over"]]
    BY <1>1, <1>3
  <2> QED
    BY <1>1, <2>1, Replaced, LeftState DEF Silent
<1> QED
  BY <1>2, <1>3 DEF MarkHalfOpen

LEMMA CatchStep ==
    ASSUME DispatchTyped, NEW r \in Requests, q[r].pc \in {"send", "refresh", "close"},
           NEW c \in Codes, q' = [q EXCEPT ![r] = Caught(r, c)]
    PROVE  Silent(r)
<1>1. q \in [Requests -> States] /\ RequestInv(q[r])
  BY DEF DispatchTyped
<1>2. RequestInv(Caught(r, c)) /\ SameClaims(q[r], Caught(r, c))
  BY <1>1, CaughtIsCatch, CatchState
<1> QED
  BY <1>1, <1>2, Replaced DEF Silent

LEMMA UpstreamStep ==
    ASSUME DispatchTyped, NEW r \in Requests, Upstream(r) \/ Cancelled(r) PROVE Silent(r)
<1>1. q \in [Requests -> States] /\ RequestInv(q[r]) /\ UpstreamCodes \subseteq Codes
      /\ {"UPSTREAM", "TIMEOUT"} \subseteq Codes
  BY DispatchConstants DEF DispatchTyped, Codes
<1>r. CASE RouteFails(r)
  <2>1. q' = [q EXCEPT ![r] = [q[r] EXCEPT !.pc = "finally", !.after = "over"]]
    BY <1>1, <1>r DEF RouteFails
  <2>2. q[r].pc = "send"
    BY <1>r DEF RouteFails, At
  <2> QED
    BY <1>1, <2>1, <2>2, Replaced, LeftState DEF Silent
<1>2. CASE Fails(r)
  BY <1>1, <1>2, CatchStep DEF Fails, At
<1>3. CASE Cancelled(r)
  BY <1>1, <1>3, CatchStep DEF Cancelled
<1>4. CASE Refreshed(r)
  <2>1. q[r].pc = "refresh"
    BY <1>4 DEF Refreshed, At
  <2>2. CASE q' = [q EXCEPT ![r].pc = "send"]
    <3>1. q' = [q EXCEPT ![r] = [q[r] EXCEPT !.pc = "send"]]
      BY <1>1, <2>2
    <3> QED
      BY <1>1, <2>1, <3>1, Replaced, RefreshedState DEF Silent
  <2>3. ASSUME NEW c \in UpstreamCodes, q' = [q EXCEPT ![r].pc = "fail", ![r].err = c]
        PROVE  Silent(r)
    <3>1. q' = [q EXCEPT ![r] = [q[r] EXCEPT !.pc = "fail", !.err = c]]
      BY <1>1, <2>3
    <3>2. PICK u : u = [q[r] EXCEPT !.pc = "fail", !.err = c]
      OBVIOUS
    <3>3. c \in Codes /\ Catch(q[r], c, u)
      BY <1>1, <2>3, <3>2 DEF Catch
    <3>4. RequestInv(u) /\ SameClaims(q[r], u)
      BY <1>1, <2>1, <3>3, CatchState
    <3> QED
      BY <1>1, <3>1, <3>2, <3>4, Replaced DEF Silent
  <2> QED
    BY <1>4, <2>2, <2>3 DEF Refreshed
<1>5. CASE Commit(r)
  <2>1. q[r].pc = "send"
    BY <1>5 DEF Commit, At
  <2>2. PICK l \in {"send", "close"} :
            q' = [q EXCEPT ![r].committed = TRUE, ![r].from = @ \cup {q[r].idx}, ![r].pc = l]
    BY <1>5 DEF Commit
  <2>3. q' = [q EXCEPT ![r] = [q[r] EXCEPT !.committed = TRUE,
                                           !.from = q[r].from \cup {q[r].idx}, !.pc = l]]
    BY <1>1, <2>2
  <2> QED
    BY <1>1, <2>1, <2>3, Replaced, CommittedState DEF Silent
<1>6. CASE End(r)
  <2>1. q[r].pc = "send"
    BY <1>6 DEF End, At
  <2>2. q' = [q EXCEPT ![r] = [q[r] EXCEPT !.pc = "ended", !.from = q[r].from \cup {q[r].idx},
                                           !.ends = q[r].ends + 1]]
    BY <1>1, <1>6 DEF End
  <2> QED
    BY <1>1, <2>1, <2>2, Replaced, EndedState DEF Silent
<1>7. CASE ErrorEvent(r)
  <2>1. q[r].pc = "send"
    BY <1>7 DEF ErrorEvent, At
  <2>2. PICK c \in UpstreamCodes :
            q' = IF ~q[r].committed /\ c \in Retryable
                 THEN [q EXCEPT ![r] = Caught(r, c)]
                 ELSE [q EXCEPT ![r].pc = "record", ![r].err = c, ![r].committed = TRUE,
                                ![r].status = c, ![r].errors = @ + 1,
                                ![r].from = @ \cup {q[r].idx}]
    BY <1>7 DEF ErrorEvent
  <2>3. c \in Codes
    BY <1>1
  <2>4. CASE q' = [q EXCEPT ![r] = Caught(r, c)]
    BY <2>1, <2>3, <2>4, CatchStep
  <2>5. CASE q' = [q EXCEPT ![r].pc = "record", ![r].err = c, ![r].committed = TRUE,
                            ![r].status = c, ![r].errors = @ + 1, ![r].from = @ \cup {q[r].idx}]
    <3>1. q' = [q EXCEPT ![r] = [q[r] EXCEPT !.pc = "record", !.err = c, !.committed = TRUE,
                                    !.status = c, !.errors = q[r].errors + 1,
                                    !.from = q[r].from \cup {q[r].idx}]]
      BY <1>1, <2>5
    <3> QED
      BY <1>1, <2>1, <2>3, <3>1, Replaced, ErrorState, ZenonT(60) DEF Silent
  <2> QED
    BY <2>2, <2>4, <2>5
<1> QED
  BY <1>r, <1>2, <1>3, <1>4, <1>5, <1>6, <1>7 DEF Upstream

LEMMA LeaveStep ==
    ASSUME DispatchTyped, NEW r \in Requests,
           q[r].pc \in {"mark", "send", "record", "fail", "told"},
           q' = [q EXCEPT ![r].pc = "finally", ![r].after = "over"]
    PROVE  Silent(r)
<1>1. q \in [Requests -> States] /\ RequestInv(q[r])
  BY DEF DispatchTyped
<1>2. q' = [q EXCEPT ![r] = [q[r] EXCEPT !.pc = "finally", !.after = "over"]]
  BY <1>1
<1> QED
  BY <1>1, <1>2, Replaced, LeftState DEF Silent

LEMMA ClientStep ==
    ASSUME DispatchTyped, NEW r \in Requests, Abandon(r) \/ Stall(r) \/ ReadOn(r) PROVE Silent(r)
<1>1. q \in [Requests -> States] /\ RequestInv(q[r])
  BY DEF DispatchTyped
<1>2. CASE Abandon(r)
  <2>1. q' = [q EXCEPT ![r] = [q[r] EXCEPT !.pc = "finally", !.after = "over", !.client = "left"]]
    BY <1>1, <1>2 DEF Abandon
  <2>2. q[r].pc \in {"send", "close", "ended", "record", "told"}
    BY <1>2 DEF Abandon, AtYield, At
  <2> QED
    BY <1>1, <2>1, <2>2, Replaced, AbandonedState DEF Silent
<1>3. CASE Stall(r) \/ ReadOn(r)
  <2>1. PICK c \in {"reading", "stalled"} : q' = [q EXCEPT ![r].client = c]
    BY <1>3 DEF Stall, ReadOn
  <2>2. q' = [q EXCEPT ![r] = [q[r] EXCEPT !.client = c]] /\ q[r].client # "left"
    BY <1>1, <1>3, <2>1 DEF Stall, ReadOn
  <2> QED
    BY <1>1, <2>1, <2>2, Replaced, ReaderState DEF Silent
<1> QED
  BY <1>2, <1>3

LEMMA ThrownCodes ==
    ASSUME NEW r \in Requests PROVE Thrown(r) \subseteq {"INTERNAL", "TIMEOUT"} /\ Thrown(r) \subseteq Codes
BY DEF Thrown, Codes

LEMMA CloseStep ==
    ASSUME DispatchTyped, NEW r \in Requests, CloseAtCommit(r) PROVE Silent(r)
<1>1. q \in [Requests -> States] /\ RequestInv(q[r]) /\ q[r].pc = "close"
  BY DEF DispatchTyped, CloseAtCommit, At
<1>2. CASE q' = [q EXCEPT ![r].pc = "send", ![r].probing = FALSE, ![r].closed = TRUE]
  <2>1. q' = [q EXCEPT ![r] = [q[r] EXCEPT !.pc = "send", !.probing = FALSE, !.closed = TRUE]]
    BY <1>1, <1>2
  <2> QED
    BY <1>1, <2>1, Replaced, ClosedState DEF Silent
<1>3. ASSUME NEW c \in Thrown(r), q' = [q EXCEPT ![r] = Caught(r, c)] PROVE Silent(r)
  BY <1>1, <1>3, CatchStep, ThrownCodes
<1> QED
  BY <1>2, <1>3 DEF CloseAtCommit

LEMMA SucceedStep ==
    ASSUME DispatchTyped, NEW r \in Requests, Succeed(r) PROVE Silent(r)
<1>1. q \in [Requests -> States] /\ RequestInv(q[r]) /\ q[r].pc = "ended"
  BY DEF DispatchTyped, Succeed, At
<1>2. CASE q' = [q EXCEPT ![r].pc = "finally", ![r].after = "over", ![r].status = "200"]
  <2>1. q' = [q EXCEPT ![r] = [q[r] EXCEPT !.pc = "finally", !.after = "over", !.status = "200"]]
    BY <1>1, <1>2
  <2> QED
    BY <1>1, <2>1, Replaced, SucceededState DEF Silent
<1>3. ASSUME NEW c \in Thrown(r), q' = [q EXCEPT ![r] = [Caught(r, c) EXCEPT !.unsaved = TRUE]]
      PROVE  Silent(r)
  <2>1. PICK u : u = [Caught(r, c) EXCEPT !.unsaved = TRUE]
    OBVIOUS
  <2>2. RequestInv(u) /\ SameClaims(q[r], u)
    BY <1>1, <2>1, CaughtIsCatch, UnsavedState, ThrownCodes
  <2> QED
    BY <1>1, <1>3, <2>1, <2>2, Replaced DEF Silent
<1> QED
  BY <1>2, <1>3 DEF Succeed

LEMMA FailedStep ==
    ASSUME DispatchTyped, NEW r \in Requests, RecordFailed(r) PROVE Silent(r)
<1>1. q \in [Requests -> States] /\ RequestInv(q[r]) /\ q[r].pc = "fail"
  BY DEF DispatchTyped, RecordFailed, At
<1>2. CASE q' = [q EXCEPT ![r].pc = "finally", ![r].after = "over"]
  BY <1>1, <1>2, LeaveStep
<1>3. CASE q' = [q EXCEPT ![r].pc = "told", ![r].status = q[r].err, ![r].errors = @ + 1]
  <2>1. q' = [q EXCEPT ![r] = [q[r] EXCEPT !.pc = "told", !.status = q[r].err,
                                           !.errors = q[r].errors + 1]]
    BY <1>1, <1>3
  <2> QED
    BY <1>1, <2>1, Replaced, ToldState DEF Silent
<1>4. ASSUME ~q[r].committed,
             q' = [q EXCEPT ![r].pc = "finally",
                            ![r].after = IF q[r].err \in Retryable THEN "next" ELSE "final"]
      PROVE  Silent(r)
  <2>1. PICK a \in {"next", "final"} : /\ a = "next" <=> q[r].err \in Retryable
                                       /\ q' = [q EXCEPT ![r].pc = "finally", ![r].after = a]
    BY <1>4
  <2>2. q' = [q EXCEPT ![r] = [q[r] EXCEPT !.pc = "finally", !.after = a]]
    BY <1>1, <2>1
  <2> QED
    BY <1>1, <1>4, <2>1, <2>2, Replaced, GoneOnState DEF Silent
<1> QED
  BY <1>2, <1>3, <1>4 DEF RecordFailed

(* All of them. *)
SilentAction(r) ==
    \/ Begin(r) \/ MarkHalfOpen(r) \/ Upstream(r) \/ Cancelled(r) \/ CloseAtCommit(r)
    \/ RecordError(r) \/ Succeed(r) \/ RecordFailed(r) \/ Unwind(r)
    \/ Abandon(r) \/ Stall(r) \/ ReadOn(r)

LEMMA SilentStep ==
    ASSUME DispatchTyped, NEW r \in Requests, SilentAction(r)
    PROVE  Silent(r) /\ UNCHANGED <<now, gauge, load, late, lost>>
<1>1. ASSUME RecordError(r) \/ Unwind(r) PROVE Silent(r)
  <2>1. /\ q[r].pc \in {"record", "told"}
        /\ q' = [q EXCEPT ![r].pc = "finally", ![r].after = "over"]
    BY <1>1 DEF RecordError, Unwind, At
  <2>2. q[r].pc \in {"mark", "send", "record", "fail", "told"}
    BY <2>1
  <2>3. q' = [q EXCEPT ![r].pc = "finally", ![r].after = "over"]
    BY <2>1
  <2> QED
    BY <2>2, <2>3, LeaveStep
<1>2. Silent(r)
  BY <1>1, BeginStep, MarkStep, UpstreamStep, CloseStep, SucceedStep, FailedStep, ClientStep
     DEF SilentAction
<1>3. UNCHANGED <<now, gauge, load, late, lost>>
  BY DEF SilentAction, Begin, MarkHalfOpen, Upstream, Cancelled, CloseAtCommit, RecordError,
     Succeed, RecordFailed, Unwind, Abandon, Stall, ReadOn, RouteFails, Commit, End,
     ErrorEvent, Fails, Refreshed, histVars
<1> QED
  BY <1>2, <1>3

-----------------------------------------------------------------------------
(* The actions that move claims.  What each changes is stated in the terms  *)
(* of the counts: Has says that a request counts in the load of a pair.     *)
Has(st, p) ==
    /\ st.idx <= Len(st.order) /\ st.order[st.idx].pair = p
    /\ st.eager \/ st.own

LEMMA OccupiesIsHas ==
    ASSUME NEW r \in Requests, RequestInv(q[r]), NEW p
    PROVE  Occupies(r, p) <=> Has(q[r], p)
<1>1. q[r].idx \in Nat \ {0} /\ q[r].order \in Seq(Candidates)
  BY DEF RequestInv, States
<1> QED
  BY <1>1 DEF RequestInv, Walk, Occupies, Has, On, More, Pair, Candidate

One(b) == IF b THEN 1 ELSE 0

LEMMA OneInt == ASSUME NEW b PROVE One(b) \in {0, 1}
BY DEF One

(* The load registry follows what a step of r does to its own claims. *)
LoadFollows(r) ==
    /\ load' \in [Pairs -> Int]
    /\ \A p \in Pairs : load'[p] = load[p] + One(Has(q'[r], p)) - One(Has(q[r], p))

LEMMA PairTyped ==
    ASSUME NEW order \in Seq(Candidates), NEW i \in 1..Len(order)
    PROVE  i \in DOMAIN order /\ order[i].pair \in Pairs
<1>1. order[i] \in Candidates
  OBVIOUS
<1> QED
  BY <1>1 DEF Candidates

(* The rank-time claim, freed, when it is the one the request has. *)
LEMMA FreedEffect ==
    ASSUME DispatchTyped, NEW r \in Requests
    PROVE  /\ Freed(r) \in [Pairs -> Int]
           /\ \A p \in Pairs : /\ ~q[r].eager => Freed(r)[p] = load[p]
                               /\ q[r].eager => /\ ~q[r].own
                                                /\ Freed(r)[p] = load[p] - One(Has(q[r], p))
<1>1. load \in [Pairs -> Int] /\ RequestInv(q[r])
  BY DEF DispatchTyped
<1>2. /\ q[r].order \in Seq(Candidates)
      /\ q[r].eager => q[r].idx = 1 /\ ~q[r].own /\ Len(q[r].order) # 0
  BY <1>1 DEF RequestInv, States, Walk
<1>3. q[r].eager => 1 \in DOMAIN q[r].order /\ q[r].order[1].pair \in Pairs /\ 1 <= Len(q[r].order)
  <2>1. Len(q[r].order) \in Nat
    BY <1>2
  <2>2. q[r].eager => 1 \in 1..Len(q[r].order)
    BY <1>2, <2>1
  <2> QED
    BY <1>2, <2>2, PairTyped
<1>4. q[r].eager => \A p \in Pairs : Has(q[r], p) <=> q[r].order[1].pair = p
  BY <1>2, <1>3 DEF Has
<1>5. CASE q[r].eager
  <2>1. Freed(r) = [load EXCEPT ![q[r].order[1].pair] = @ - 1]
    BY <1>5 DEF Freed
  <2>2. /\ Freed(r) \in [Pairs -> Int]
        /\ \A p \in Pairs : Freed(r)[p] = IF q[r].order[1].pair = p THEN load[p] - 1 ELSE load[p]
    BY <1>1, <1>3, <1>5, <2>1
  <2> QED
    BY <1>1, <1>2, <1>4, <1>5, <2>2 DEF One
<1>6. CASE ~q[r].eager
  BY <1>1, <1>6 DEF Freed
<1> QED
  BY <1>5, <1>6

(* When the request counts nowhere afterwards and had no claim of its own. *)
LEMMA FreedFollows ==
    ASSUME DispatchTyped, NEW r \in Requests, load' = Freed(r), ~q[r].own,
           \A p \in Pairs : ~Has(q'[r], p)
    PROVE  LoadFollows(r)
<1>1. \A p \in Pairs : ~q[r].eager => ~Has(q[r], p)
  BY DEF Has
<1>2. load \in [Pairs -> Int]
  BY DEF DispatchTyped
<1>3. ASSUME NEW p \in Pairs PROVE load'[p] = load[p] + One(Has(q'[r], p)) - One(Has(q[r], p))
  <2>1. One(Has(q'[r], p)) = 0 /\ load[p] \in Int /\ One(Has(q[r], p)) \in {0, 1}
    BY <1>2, OneInt DEF One
  <2>2. CASE q[r].eager
    BY <2>1, <2>2, FreedEffect
  <2>3. CASE ~q[r].eager
    BY <1>1, <2>1, <2>3, FreedEffect DEF One
  <2> QED
    BY <2>2, <2>3
<1> QED
  BY <1>3, FreedEffect DEF LoadFollows

(* A request that is over counts nowhere. *)
LEMMA OverHasNothing ==
    ASSUME NEW st PROVE /\ \A p : ~Has(Over(st), p)
                        /\ Over(st).claim = Never /\ ~Over(st).won /\ Over(st).pc = "done"
BY DEF Over, Idle, Has

(* What the gauges' counts see of a request stays as it was. *)
KeepsProbes(st, u) ==
    /\ \A p \in Pairs : Claims(u, p) <=> Claims(st, p)
    /\ st.claim # Never => u.claim = st.claim /\ u.won = st.won
    /\ st.won => st.claim # Never
    /\ u.won => u.claim # Never
    /\ \A p \in Pairs : Comes(st, p) => Comes(u, p)

(* A step of r that has nothing to do with probes. *)
Apart(r) == LocalTo(r) /\ LoadFollows(r) /\ KeepsProbes(q[r], q'[r])

LEMMA SilentApart ==
    ASSUME DispatchTyped, NEW r \in Requests, Silent(r), UNCHANGED load PROVE Apart(r)
<1>1. SameClaims(q[r], q'[r]) /\ RequestInv(q[r]) /\ RequestInv(q'[r]) /\ load \in [Pairs -> Int]
  BY DEF Silent, LocalTo, DispatchTyped
<1>2. \A p \in Pairs : Has(q'[r], p) <=> Has(q[r], p)
  BY <1>1 DEF SameClaims, Has
<1>3. LoadFollows(r)
  BY <1>1, <1>2 DEF LoadFollows, One
<1>4. KeepsProbes(q[r], q'[r])
  BY <1>1 DEF KeepsProbes, Claims, Comes, SameClaims, RequestInv, Walk
<1> QED
  BY <1>3, <1>4 DEF Apart, Silent

(* A request that held no slot is over. *)
LEMMA OverApart ==
    ASSUME DispatchTyped, NEW r \in Requests, q[r].pc \in {"rank", "next"}, NEW v,
           RequestInv(Over(v)), q' = [q EXCEPT ![r] = Over(v)], load' = Freed(r)
    PROVE  Apart(r)
<1>1. q \in [Requests -> States] /\ RequestInv(q[r])
  BY DEF DispatchTyped
<1>2. LocalTo(r) /\ q'[r] = Over(v)
  BY <1>1, Replaced
<1>3. q[r].claim = Never /\ ~q[r].won /\ ~q[r].own
  BY <1>1 DEF RequestInv, Walk, Attempting
<1>4. LoadFollows(r)
  BY <1>2, <1>3, FreedFollows, OverHasNothing
<1>5. KeepsProbes(q[r], q'[r])
  BY <1>2, <1>3, OverHasNothing DEF KeepsProbes, Claims, Comes
<1> QED
  BY <1>2, <1>4, <1>5 DEF Apart

(* Ranking makes a sequence of candidates of different pairs. *)
LEMMA RankingOrder ==
    ASSUME DispatchTyped, NEW r \in Requests, NEW S \in (SUBSET Eligible(r)) \ {{}},
           NEW pairs \in SetToSeqs(S), NEW order,
           order = [i \in DOMAIN pairs |-> AsCandidate(r, pairs[i])]
    PROVE  /\ order \in Seq(Candidates) /\ Len(order) # 0
           /\ \A i, j \in DOMAIN order : order[i].pair = order[j].pair => i = j
           /\ order[1].pair = pairs[1]
<1>1. S \subseteq Pairs /\ S # {} /\ IsFiniteSet(S)
  <2>1. S \subseteq Pairs /\ S # {}
    BY DispatchConstants DEF Eligible
  <2> QED
    BY <2>1, FiniteAssumption, FS_Subset
<1>2. Cardinality(S) \in Nat \ {0}
  BY <1>1, FS_CardinalityType, FS_EmptySet
<1>3. PICK n \in Nat \ {0} : n = Cardinality(S)
  BY <1>2
<1>4. pairs \in [1..n -> S] /\ \A i, j \in 1..n : i # j => pairs[i] # pairs[j]
  BY <1>3 DEF SetToSeqs
<1>5. \A i \in 1..n : /\ AsCandidate(r, pairs[i]) \in Candidates
                      /\ AsCandidate(r, pairs[i]).pair = pairs[i]
  BY <1>1, <1>4 DEF AsCandidate, Candidates, IsProbe, SuccessWouldChange
<1>6. order = [i \in 1..n |-> AsCandidate(r, pairs[i])]
  BY <1>4
<1>7. order \in [1..n -> Candidates] /\ \A i \in 1..n : order[i].pair = pairs[i]
  BY <1>5, <1>6
<1>8. order \in Seq(Candidates) /\ Len(order) = n /\ DOMAIN order = 1..n
  BY <1>7
<1> QED
  BY <1>4, <1>7, <1>8

LEMMA RankStep ==
    ASSUME DispatchTyped, NEW r \in Requests, Rank(r) PROVE Apart(r)
<1>1. /\ q \in [Requests -> States] /\ RequestInv(q[r]) /\ q[r].pc = "rank"
      /\ load \in [Pairs -> Int]
  <2>1. At(r, "rank")
    BY DEF Rank
  <2> QED
    BY <2>1 DEF DispatchTyped, At
<1>2. ~q[r].eager /\ ~q[r].own /\ q[r].claim = Never /\ ~q[r].won /\ q[r].order = <<>>
  BY <1>1 DEF RequestInv, Walk, Attempting
<1>3. CASE q' = [q EXCEPT ![r] = Exhausted(@)] /\ UNCHANGED load
  <2>1. q[r] \in States /\ Quiet(q[r]) /\ \A i, j \in q[r].from : i = j
    BY <1>1 DEF RequestInv, Answer
  <2>2. PICK v : RequestInv(Over(v)) /\ Exhausted(q[r]) = Over(v)
    BY <2>1, ExhaustedInv
  <2>3. load' = Freed(r)
    BY <1>2, <1>3 DEF Freed
  <2> QED
    BY <1>1, <1>3, <2>2, <2>3, OverApart
<1>4. ASSUME NEW S \in (SUBSET Eligible(r)) \ {{}}, NEW pairs \in SetToSeqs(S),
             q' = [q EXCEPT ![r].pc = "next", ![r].snap = <<>>,
                            ![r].order = [i \in DOMAIN pairs |-> AsCandidate(r, pairs[i])],
                            ![r].eager = ~q[r].aborted],
             load' = IF q[r].aborted THEN load ELSE [load EXCEPT ![pairs[1]] = @ + 1]
      PROVE  Apart(r)
  <2>1. PICK order : order = [i \in DOMAIN pairs |-> AsCandidate(r, pairs[i])]
    OBVIOUS
  <2>2. /\ order \in Seq(Candidates) /\ Len(order) # 0
        /\ \A i, j \in DOMAIN order : order[i].pair = order[j].pair => i = j
        /\ order[1].pair = pairs[1]
    BY <2>1, RankingOrder
  <2>3. PICK u : u = Ordered(q[r], order)
    OBVIOUS
  <2>4. q' = [q EXCEPT ![r] = u]
    BY <1>1, <1>4, <2>1, <2>3 DEF Ordered
  <2>5. /\ RequestInv(u) /\ u.pc = "next" /\ u.order = order /\ u.idx = 1
        /\ (u.eager <=> ~q[r].aborted) /\ ~u.own /\ u.claim = Never /\ ~u.won
    BY <1>1, <2>2, <2>3, RankedState
  <2>6. LocalTo(r) /\ q'[r] = u
    BY <1>1, <2>4, <2>5, Replaced
  <2>7. Len(order) \in Nat /\ 1 <= Len(order) /\ order[1].pair \in Pairs
    BY <2>2, PairTyped
  <2>8. \A p \in Pairs : ~Has(q[r], p) /\ (Has(u, p) <=> ~q[r].aborted /\ pairs[1] = p)
    BY <1>2, <2>2, <2>5, <2>7 DEF Has
  <2>9. LoadFollows(r)
    <3>1. /\ pairs[1] \in Pairs
          /\ q[r].aborted => load' = load
          /\ ~q[r].aborted => load' = [load EXCEPT ![pairs[1]] = @ + 1]
      BY <1>4, <2>2, <2>7
    <3>2. CASE q[r].aborted
      BY <1>1, <2>6, <2>8, <3>1, <3>2 DEF LoadFollows, One
    <3>3. CASE ~q[r].aborted
      <4>1. /\ load' \in [Pairs -> Int]
            /\ \A p \in Pairs : load'[p] = IF pairs[1] = p THEN load[p] + 1 ELSE load[p]
        BY <1>1, <3>1, <3>3
      <4> QED
        BY <1>1, <2>6, <2>8, <3>3, <4>1 DEF LoadFollows, One
    <3> QED
      BY <3>2, <3>3
  <2>10. KeepsProbes(q[r], q'[r])
    BY <1>1, <1>2, <2>5, <2>6 DEF KeepsProbes, Claims, Comes
  <2> QED
    BY <2>6, <2>9, <2>10 DEF Apart
<1> QED
  BY <1>3, <1>4 DEF Rank

LEMMA CloseUnstartedStep ==
    ASSUME DispatchTyped, NEW r \in Requests, CloseUnstarted(r) PROVE Apart(r)
<1>1. q[r].pc = "next" /\ q' = [q EXCEPT ![r] = Over(q[r])] /\ load' = Freed(r)
  BY DEF CloseUnstarted, At
<1>2. RequestInv(q[r])
  BY DEF DispatchTyped
<1>3. q[r] \in States /\ Told(q[r]) /\ \A i, j \in q[r].from : i = j
  BY <1>1, <1>2 DEF RequestInv, Answer, Quiet, Doomed, Told
<1> QED
  BY <1>1, <1>3, OverInv, OverApart

LEMMA AbortStep ==
    ASSUME DispatchTyped, NEW r \in Requests, Abort(r) PROVE Apart(r)
<1>1. /\ q \in [Requests -> States] /\ RequestInv(q[r]) /\ q[r].pc \notin {"idle", "done"}
      /\ load \in [Pairs -> Int]
  BY DEF DispatchTyped, Abort
<1>2. PICK u : u = [q[r] EXCEPT !.aborted = TRUE, !.eager = FALSE]
  OBVIOUS
<1>3. q' = [q EXCEPT ![r] = u] /\ load' = Freed(r)
  BY <1>1, <1>2 DEF Abort
<1>4. /\ RequestInv(u) /\ ~u.eager
      /\ u.pc = q[r].pc /\ u.order = q[r].order /\ u.idx = q[r].idx /\ u.own = q[r].own
      /\ u.claim = q[r].claim /\ u.won = q[r].won
  BY <1>1, <1>2, AbortedState
<1>5. LocalTo(r) /\ q'[r] = u
  BY <1>1, <1>3, <1>4, Replaced
<1>6. KeepsProbes(q[r], q'[r])
  BY <1>1, <1>4, <1>5 DEF KeepsProbes, Claims, Comes, RequestInv, Walk
<1>7. LoadFollows(r)
  <2>1. CASE q[r].own
    <3>1. ~q[r].eager
      BY <2>1, FreedEffect DEF DispatchTyped, RequestInv, Walk, States
    <3>2. \A p \in Pairs : Has(q'[r], p) <=> Has(q[r], p)
      BY <1>4, <1>5, <3>1 DEF Has
    <3>3. load' = load
      BY <1>3, <3>1 DEF Freed
    <3> QED
      BY <1>1, <3>2, <3>3 DEF LoadFollows, One
  <2>2. CASE ~q[r].own
    BY <1>3, <1>4, <1>5, <2>2, FreedFollows DEF Has
  <2> QED
    BY <2>1, <2>2
<1> QED
  BY <1>5, <1>6, <1>7 DEF Apart

LEMMA NextCandidateStep ==
    ASSUME DispatchTyped, DoomedIsDue, NEW r \in Requests, NextCandidate(r) PROVE Apart(r)
<1>1. /\ q \in [Requests -> States] /\ RequestInv(q[r]) /\ q[r].pc = "next"
      /\ load \in [Pairs -> Int]
  BY DEF DispatchTyped, NextCandidate, At
<1>2. /\ q[r] \in States /\ (Quiet(q[r]) \/ Doomed(q[r])) /\ Told(q[r])
      /\ \A i, j \in q[r].from : i = j
  BY <1>1 DEF RequestInv, Answer, Quiet, Doomed, Told
<1>3. q[r].claim = Never /\ ~q[r].won /\ ~q[r].own /\ (q[r].eager => q[r].idx = 1)
  BY <1>1 DEF RequestInv, Walk, Attempting
<1>4. CASE q' = [q EXCEPT ![r] = Exhausted(@)] /\ load' = Freed(r)
  <2>1. PICK v : RequestInv(Over(v)) /\ Exhausted(q[r]) = Over(v)
    BY <1>2, ExhaustedInv
  <2> QED
    BY <1>1, <1>4, <2>1, OverApart
<1>5. CASE q' = [q EXCEPT ![r] = Over(@)] /\ load' = Freed(r)
  BY <1>1, <1>2, <1>5, OverInv, OverApart
<1>6. CASE q' = [q EXCEPT ![r] = Exhausted([@ EXCEPT !.err = "TIMEOUT"])] /\ load' = Freed(r)
  <2>1. PICK w : w = [q[r] EXCEPT !.err = "TIMEOUT"]
    OBVIOUS
  <2>2. w \in States
    BY <1>2, <2>1 DEF States, Codes
  <2>3. (Quiet(w) \/ Doomed(w)) /\ \A i, j \in w.from : i = j
    BY <1>2, <2>1 DEF States, Quiet, Doomed
  <2>4. PICK v : RequestInv(Over(v)) /\ Exhausted(w) = Over(v)
    BY <2>2, <2>3, ExhaustedInv
  <2>5. q' = [q EXCEPT ![r] = Over(v)]
    BY <1>6, <2>1, <2>4
  <2> QED
    BY <1>1, <1>6, <2>4, <2>5, OverApart
<1>7. ASSUME More(r), q[r].attempts < MaxAttempts, ~Due(r),
             q' = [q EXCEPT ![r].pc = IF Candidate(r).probe THEN "probe" ELSE "send",
                            ![r].attempts = IF Candidate(r).probe THEN @ ELSE @ + 1,
                            ![r].own = q[r].idx > 1],
             load' = IF q[r].idx > 1 THEN [load EXCEPT ![Pair(r)] = @ + 1] ELSE load
      PROVE  Apart(r)
  <2>1. /\ q[r].idx \in Nat \ {0} /\ q[r].order \in Seq(Candidates) /\ q[r].attempts \in Nat
        /\ q[r].idx <= Len(q[r].order)
    BY <1>2, <1>7, DispatchConstants DEF States, More
  <2>2. PICK l \in {"probe", "send"}, n \in Nat :
            /\ n = q[r].attempts \/ (l = "send" /\ n = q[r].attempts + 1)
            /\ q' = [q EXCEPT ![r].pc = l, ![r].attempts = n, ![r].own = q[r].idx > 1]
    <3>1. CASE Candidate(r).probe
      BY <1>1, <1>7, <2>1, <3>1
    <3>2. CASE ~Candidate(r).probe
      <4>1. q' = [q EXCEPT ![r].pc = "send", ![r].attempts = q[r].attempts + 1,
                           ![r].own = q[r].idx > 1]
        BY <1>1, <1>7, <3>2
      <4>2. q[r].attempts + 1 \in Nat
        BY <2>1
      <4> QED
        BY <4>1, <4>2
    <3> QED
      BY <3>1, <3>2
  <2>3. PICK u : u = Launched(q[r], l, n)
    OBVIOUS
  <2>4. q' = [q EXCEPT ![r] = u]
    BY <1>1, <2>2, <2>3 DEF Launched
  <2>5. /\ RequestInv(u) /\ u.pc = l
        /\ u.order = q[r].order /\ u.idx = q[r].idx /\ u.eager = q[r].eager
        /\ u.claim = q[r].claim /\ u.won = q[r].won
        /\ u.own <=> q[r].idx > 1
    <3>1. Quiet(q[r])
      BY <1>1, <1>2, <1>7 DEF DoomedIsDue, Doomed, RequestInv, Answer
    <3> QED
      BY <1>1, <1>7, <2>1, <2>2, <2>3, <3>1, StartedState
  <2>6. LocalTo(r) /\ q'[r] = u
    BY <1>1, <2>4, <2>5, Replaced
  <2>7. KeepsProbes(q[r], q'[r])
    BY <1>1, <1>3, <2>5, <2>6 DEF KeepsProbes, Claims, Comes
  <2>8. LoadFollows(r)
    <3>1. q[r].idx \in 1..Len(q[r].order) /\ Pair(r) = q[r].order[q[r].idx].pair
      BY <2>1 DEF Pair, Candidate
    <3>2. Pair(r) \in Pairs
      BY <2>1, <3>1, PairTyped
    <3>3. CASE q[r].idx > 1
      <4>1. \A p \in Pairs : ~Has(q[r], p) /\ (Has(u, p) <=> Pair(r) = p)
        BY <1>3, <2>1, <2>5, <3>1, <3>3 DEF Has
      <4>2. /\ load' \in [Pairs -> Int]
            /\ \A p \in Pairs : load'[p] = IF Pair(r) = p THEN load[p] + 1 ELSE load[p]
        BY <1>1, <1>7, <3>2, <3>3
      <4> QED
        BY <1>1, <2>6, <4>1, <4>2 DEF LoadFollows, One
    <3>4. CASE ~(q[r].idx > 1)
      <4>1. \A p \in Pairs : Has(q[r], p) <=> Has(u, p)
        BY <1>3, <2>5, <3>4 DEF Has
      <4>2. load' = load
        BY <1>7, <3>4
      <4> QED
        BY <1>1, <2>6, <4>1, <4>2 DEF LoadFollows, One
    <3> QED
      BY <3>3, <3>4
  <2> QED
    BY <2>6, <2>7, <2>8 DEF Apart
<1> QED
  BY <1>4, <1>5, <1>6, <1>7 DEF NextCandidate

(* Every step of a request but those that take and give back a probe slot. *)
ApartAction(r) ==
    SilentAction(r) \/ Rank(r) \/ CloseUnstarted(r) \/ Abort(r) \/ NextCandidate(r)

LEMMA ApartStep ==
    ASSUME DispatchTyped, DoomedIsDue, NEW r \in Requests, ApartAction(r)
    PROVE  Apart(r) /\ UNCHANGED <<now, gauge, late, lost>>
<1>1. CASE SilentAction(r)
  BY <1>1, SilentStep, SilentApart
<1>2. CASE Rank(r) \/ CloseUnstarted(r) \/ Abort(r) \/ NextCandidate(r)
  <2>1. UNCHANGED <<now, gauge, late, lost>>
    BY <1>2 DEF Rank, CloseUnstarted, Abort, NextCandidate, histVars
  <2> QED
    BY <1>2, <2>1, RankStep, CloseUnstartedStep, AbortStep, NextCandidateStep
<1> QED
  BY <1>1, <1>2 DEF ApartAction

-----------------------------------------------------------------------------
(* The load registry *)

(* A set that changes by one element. *)
LEMMA CountStep ==
    ASSUME NEW S, NEW T, NEW x, IsFiniteSet(S), S \ {x} = T \ {x}
    PROVE  /\ IsFiniteSet(T) /\ Cardinality(S) \in Nat /\ Cardinality(T) \in Nat
           /\ Cardinality(T) = Cardinality(S) + One(x \in T) - One(x \in S)
<1> DEFINE R == S \ {x}
<1>1. IsFiniteSet(R) /\ Cardinality(R) = IF x \in S THEN Cardinality(S) - 1 ELSE Cardinality(S)
  BY FS_RemoveElement
<1>2. /\ IsFiniteSet(R \cup {x}) /\ Cardinality(R \cup {x}) = Cardinality(R) + 1
  <2>1. x \notin R
    OBVIOUS
  <2> QED
    BY <1>1, <2>1, FS_AddElement
<1>3. T = IF x \in T THEN R \cup {x} ELSE R
  OBVIOUS
<1>4. Cardinality(S) \in Nat /\ Cardinality(R) \in Nat
  BY <1>1, FS_CardinalityType
<1> HIDE DEF R
<1>5. CASE x \in T
  <2>1. T = R \cup {x}
    BY <1>3, <1>5
  <2> QED
    BY <1>1, <1>2, <1>4, <1>5, <2>1 DEF One
<1>6. CASE x \notin T
  <2>1. T = R
    BY <1>3, <1>6
  <2> QED
    BY <1>1, <1>4, <1>6, <2>1 DEF One
<1> QED
  BY <1>5, <1>6

LEMMA RequestSubset ==
    ASSUME NEW S \in SUBSET Requests PROVE IsFiniteSet(S) /\ Cardinality(S) \in Nat
BY FiniteAssumption, FS_Subset, FS_CardinalityType

LEMMA OccupiesIsHasPrimed ==
    ASSUME NEW r \in Requests, RequestInv(q'[r]), NEW p
    PROVE  Occupies(r, p)' <=> Has(q'[r], p)
<1>1. q'[r].idx \in Nat \ {0} /\ q'[r].order \in Seq(Candidates)
  BY DEF RequestInv, States
<1> QED
  BY <1>1 DEF RequestInv, Walk, Occupies, Has, On, More, Pair, Candidate

LEMMA LoadStep ==
    ASSUME DispatchTyped, LoadIsInFlight, NEW r \in Requests, LocalTo(r), LoadFollows(r)
    PROVE  load' \in [Pairs -> Nat] /\ LoadIsInFlight'
<1>1. ASSUME NEW p \in Pairs
      PROVE  load'[p] = Cardinality({x \in Requests : Occupies(x, p)'}) /\ load'[p] \in Nat
  <2> DEFINE S == {x \in Requests : Occupies(x, p)}
             T == {x \in Requests : Occupies(x, p)'}
  <2>1. \A x \in Requests \ {r} : Occupies(x, p)' <=> Occupies(x, p)
    BY DEF LocalTo, Occupies, On, More, Pair, Candidate
  <2>2. S \ {r} = T \ {r}
    BY <2>1
  <2>3. (r \in S <=> Has(q[r], p)) /\ (r \in T <=> Has(q'[r], p))
    BY OccupiesIsHas, OccupiesIsHasPrimed DEF DispatchTyped, LocalTo
  <2>4. IsFiniteSet(S)
    BY RequestSubset
  <2> HIDE DEF S, T
  <2>5. Cardinality(T) = Cardinality(S) + One(r \in T) - One(r \in S) /\ Cardinality(T) \in Nat
    BY <2>2, <2>4, CountStep
  <2>6. load[p] = Cardinality(S)
    BY DEF LoadIsInFlight, S
  <2>7. load'[p] = load[p] + One(Has(q'[r], p)) - One(Has(q[r], p))
    BY DEF LoadFollows
  <2>8. One(Has(q'[r], p)) = One(r \in T) /\ One(Has(q[r], p)) = One(r \in S)
    BY <2>3 DEF One
  <2> QED
    BY <2>5, <2>6, <2>7, <2>8 DEF T
<1>2. LoadIsInFlight'
  BY <1>1 DEF LoadIsInFlight
<1> QED
  BY <1>1, <1>2 DEF LoadFollows

-----------------------------------------------------------------------------
(* The probe gauges *)

(* The least element of a set of numbers, and the slot of a gauge that is   *)
(* nearest its end.                                                         *)
LEMMA LeastNat ==
    ASSUME NEW T, T \subseteq Nat, T # {} PROVE \E x \in T : \A y \in T : x <= y
<1> DEFINE R == {ss \in Nat \X Nat : ss[1] < ss[2]}
<1>1. IsWellFoundedOn(R, Nat)
  BY NatLessThanWellFounded DEF OpToRel
<1>2. \A x, y \in Nat : y < x => <<y, x>> \in R
  OBVIOUS
<1> HIDE DEF R
<1>3. PICK x \in T : \A y \in T : ~(<<y, x>> \in R)
  BY <1>1, WFMin
<1>4. \A y \in T : x <= y
  <2> TAKE y \in T
  <2>1. x \in Nat /\ y \in Nat /\ ~(<<y, x>> \in R)
    BY <1>3
  <2>2. ~(y < x)
    BY <1>2, <2>1, Zenon
  <2> QED
    BY <2>1, <2>2
<1> QED
  BY <1>4

LEMMA OldestSlot ==
    ASSUME NEW L \in SUBSET Slots, L # {} PROVE \E s \in L : \A t \in L : s.until <= t.until
<1> DEFINE T == {s.until : s \in L}
<1>1. T \subseteq Nat /\ T # {}
  BY DEF Slots
<1>2. PICK x \in T : \A y \in T : x <= y
  BY <1>1, LeastNat
<1>3. PICK s \in L : x = s.until
  BY <1>2
<1> QED
  BY <1>2, <1>3

(* The sets the counts are of, before and after a step, are finite. *)
LEMMA GaugeFinite ==
    ASSUME DispatchTyped, NEW p \in Pairs, NEW t
    PROVE  /\ IsFiniteSet(Claimants(p, t)) /\ IsFiniteSet(Winners(p)) /\ IsFiniteSet(Holders(p))
           /\ IsFiniteSet(LiveAt(p, t))
           /\ Cardinality(Claimants(p, t)) \in Nat /\ Cardinality(Winners(p)) \in Nat
           /\ Cardinality(Holders(p)) \in Nat /\ Cardinality(LiveAt(p, t)) \in Nat
<1>1. IsFiniteSet(Claimants(p, t)) /\ IsFiniteSet(Winners(p)) /\ IsFiniteSet(Holders(p))
  BY RequestSubset DEF Claimants, Winners, Holders
<1>2. IsFiniteSet(LiveAt(p, t))
  BY FS_Subset DEF DispatchTyped, LiveAt
<1> QED
  BY <1>1, <1>2, FS_CardinalityType

(* A pair none of whose sets a step touches. *)
Untouched(p) ==
    /\ gauge'[p] = gauge[p] /\ late'[p] = late[p] /\ lost'[p] = lost[p]
    /\ \A x \in Requests : Claims(q'[x], p) <=> Claims(q[x], p)
    /\ \A x \in Requests : Claims(q[x], p) => q'[x].claim = q[x].claim /\ q'[x].won = q[x].won
    /\ \A x \in Requests : Comes(q[x], p) => Comes(q'[x], p)

GaugeInvAt(p) ==
    /\ \A s \in gauge[p] : Comes(q[s.by], p)
    /\ \A t \in Nat :
        t >= now => Cardinality(Claimants(p, t)) <= Cardinality(LiveAt(p, t)) + late[p]
    /\ Cardinality(Winners(p)) <= 1 + late[p]
    /\ Cardinality(LiveAt(p, now)) <= Cardinality(Holders(p)) + lost[p]

LEMMA GaugeInvIsPointwise == GaugeInv <=> \A p \in Pairs : GaugeInvAt(p)
BY DEF GaugeInv, GaugeInvAt, SlotsReached, ClaimsCovered, WinnersBounded, SlotsHeld

LEMMA UntouchedKeeps ==
    ASSUME DispatchTyped, NEW p \in Pairs, GaugeInvAt(p), Untouched(p), UNCHANGED now
    PROVE  GaugeInvAt(p)'
<1>1. \A t : LiveAt(p, t)' = LiveAt(p, t)
  BY DEF LiveAt, Untouched
<1>2. \A t : Claimants(p, t)' = Claimants(p, t)
  BY DEF Claimants, Untouched
<1>3. Winners(p)' = Winners(p) /\ Holders(p)' = Holders(p)
  BY DEF Winners, Holders, Untouched
<1>4. \A s \in gauge'[p] : Comes(q'[s.by], p)
  BY DEF GaugeInvAt, Untouched, DispatchTyped, Slots
<1> QED
  BY <1>1, <1>2, <1>3, <1>4 DEF GaugeInvAt, Untouched

LEMMA ApartGauge ==
    ASSUME DispatchTyped, GaugeInv, NEW r \in Requests, Apart(r),
           UNCHANGED <<now, gauge, late, lost>>
    PROVE  GaugeInv'
<1>1. ASSUME NEW p \in Pairs PROVE GaugeInvAt(p)'
  <2>1. GaugeInvAt(p)
    BY GaugeInvIsPointwise
  <2>2. Untouched(p)
    BY DEF Untouched, Apart, LocalTo, KeepsProbes, Claims
  <2> QED
    BY <2>1, <2>2, UntouchedKeeps
<1> QED
  BY <1>1 DEF GaugeInv, GaugeInvAt, SlotsReached, ClaimsCovered, WinnersBounded, SlotsHeld

(* A step of r moves only r in and out of the sets of requests. *)
LEMMA LocalSets ==
    ASSUME NEW r \in Requests, LocalTo(r), UNCHANGED now, NEW p, NEW t
    PROVE  /\ Claimants(p, t) \ {r} = Claimants(p, t)' \ {r}
           /\ Winners(p) \ {r} = Winners(p)' \ {r}
           /\ Holders(p) \ {r} = Holders(p)' \ {r}
<1>1. \A x \in Requests \ {r} : q'[x] = q[x]
  BY DEF LocalTo
<1> QED
  BY <1>1 DEF Claimants, Winners, Holders

(* The request stands at the pair whose slot it is about to take or free. *)
LEMMA StandsAt ==
    ASSUME DispatchTyped, NEW r \in Requests, q[r].pc \in Attempting
    PROVE  /\ Pair(r) = q[r].order[q[r].idx].pair /\ Pair(r) \in Pairs
           /\ q[r].idx \in DOMAIN q[r].order /\ q[r].idx <= Len(q[r].order)
           /\ q[r].idx \in Nat \ {0} /\ q[r].order \in Seq(Candidates)
<1>1. RequestInv(q[r])
  BY DEF DispatchTyped
<1>2. /\ q[r].idx <= Len(q[r].order) /\ q[r].idx \in Nat \ {0} /\ q[r].order \in Seq(Candidates)
  BY <1>1 DEF RequestInv, Walk, States
<1>3. q[r].idx \in 1..Len(q[r].order)
  BY <1>2
<1> QED
  BY <1>2, <1>3, PairTyped DEF Pair, Candidate

(* What acquiring a slot does, in the terms of the counts. *)
Acquires(r) ==
    /\ LocalTo(r) /\ LoadFollows(r) /\ q[r].pc = "probe"
    /\ gauge' = [gauge EXCEPT ![Pair(r)] =
                    LiveAt(Pair(r), now) \cup {[by |-> r, until |-> now + ProbeTtl]}]
    /\ q'[r].order = q[r].order /\ q'[r].idx = q[r].idx
    /\ q'[r].claim = now + ProbeTtl /\ (q'[r].won <=> LiveAt(Pair(r), now) = {})
    /\ q[r].claim = Never /\ ~q[r].won
    /\ UNCHANGED <<now, late, lost>>

LEMMA AcquireStep ==
    ASSUME DispatchTyped, NEW r \in Requests, AcquireProbe(r) PROVE Acquires(r)
<1>1. /\ q \in [Requests -> States] /\ RequestInv(q[r]) /\ q[r].pc = "probe"
      /\ now + ProbeTtl \in Nat /\ load \in [Pairs -> Int]
  <2>1. At(r, "probe")
    BY DEF AcquireProbe
  <2>2. now \in Nat /\ ProbeTtl \in Nat
    BY DispatchConstants DEF DispatchTyped
  <2> QED
    BY <2>1, <2>2 DEF DispatchTyped, At
<1>2. LiveSlots(Pair(r)) = LiveAt(Pair(r), now)
  BY DEF LiveSlots, LiveAt
<1>3. PICK w \in BOOLEAN, l \in {"mark", "finally"} :
        /\ w <=> LiveAt(Pair(r), now) = {}
        /\ q' = [q EXCEPT ![r].claim = now + ProbeTtl, ![r].won = w, ![r].pc = l]
  <2>1. PICK w \in BOOLEAN : w = (LiveAt(Pair(r), now) = {})
    OBVIOUS
  <2>2. q' = [q EXCEPT ![r].claim = now + ProbeTtl, ![r].won = w,
                       ![r].pc = IF w THEN "mark" ELSE "finally"]
    BY <1>2, <2>1 DEF AcquireProbe
  <2> QED
    BY <2>1, <2>2
<1>4. PICK u : u = Acquired(q[r], now + ProbeTtl, w, l)
  OBVIOUS
<1>5. q' = [q EXCEPT ![r] = u]
  BY <1>1, <1>3, <1>4 DEF Acquired
<1>6. /\ RequestInv(u) /\ u.order = q[r].order /\ u.idx = q[r].idx
      /\ u.eager = q[r].eager /\ u.own = q[r].own
      /\ u.claim = now + ProbeTtl /\ u.won = w /\ q[r].claim = Never /\ ~q[r].won
  BY <1>1, <1>4, AcquiredState
<1>7. LocalTo(r) /\ q'[r] = u
  BY <1>1, <1>5, <1>6, Replaced
<1>8. UNCHANGED <<now, load, late, lost>>
  BY DEF AcquireProbe, histVars
<1>9. LoadFollows(r)
  <2>1. \A p \in Pairs : Has(q'[r], p) <=> Has(q[r], p)
    BY <1>6, <1>7 DEF Has
  <2> QED
    BY <1>1, <1>8, <2>1 DEF LoadFollows, One
<1>10. gauge' = [gauge EXCEPT ![Pair(r)] =
                    LiveAt(Pair(r), now) \cup {[by |-> r, until |-> now + ProbeTtl]}]
  BY <1>2 DEF AcquireProbe
<1> QED
  BY <1>1, <1>3, <1>6, <1>7, <1>8, <1>9, <1>10 DEF Acquires

LEMMA AcquireTyped ==
    ASSUME DispatchTyped, NEW r \in Requests, Acquires(r)
    PROVE  gauge' \in [Pairs -> SUBSET Slots] /\ \A p \in Pairs : IsFiniteSet(gauge'[p])
<1>1. Pair(r) \in Pairs /\ now + ProbeTtl \in Nat /\ gauge \in [Pairs -> SUBSET Slots]
  BY StandsAt, DispatchConstants, SMTT(40) DEF Acquires, Attempting, DispatchTyped
<1>2. PICK s0 : s0 = [by |-> r, until |-> now + ProbeTtl]
  OBVIOUS
<1>3. s0 \in Slots
  BY <1>1, <1>2 DEF Slots
<1>4. LiveAt(Pair(r), now) \subseteq Slots /\ IsFiniteSet(LiveAt(Pair(r), now))
  <2>1. LiveAt(Pair(r), now) \subseteq Slots
    BY <1>1 DEF LiveAt
  <2> QED
    BY <1>1, <2>1, GaugeFinite
<1>5. IsFiniteSet(LiveAt(Pair(r), now) \cup {s0})
  BY <1>4, FS_AddElement
<1>6. gauge' = [gauge EXCEPT ![Pair(r)] = LiveAt(Pair(r), now) \cup {s0}]
  BY <1>2 DEF Acquires
<1> QED
  BY <1>1, <1>3, <1>4, <1>5, <1>6 DEF DispatchTyped

LEMMA AcquireGaugeElsewhere ==
    ASSUME DispatchTyped, NEW r \in Requests, Acquires(r), NEW p \in Pairs, p # Pair(r)
    PROVE  Untouched(p)
<1>1. /\ Pair(r) = q[r].order[q[r].idx].pair /\ gauge \in [Pairs -> SUBSET Slots]
      /\ q[r].pc # "done"
  BY StandsAt DEF Acquires, Attempting, DispatchTyped
<1>2. gauge'[p] = gauge[p] /\ late'[p] = late[p] /\ lost'[p] = lost[p]
  BY <1>1 DEF Acquires
<1>3. ~Claims(q[r], p) /\ ~Claims(q'[r], p)
  BY <1>1 DEF Acquires, Claims
<1>4. Comes(q[r], p) => Comes(q'[r], p)
  BY <1>1 DEF Acquires, Comes
<1>5. \A x \in Requests \ {r} : q'[x] = q[x]
  BY DEF Acquires, LocalTo
<1> QED
  BY <1>2, <1>3, <1>4, <1>5 DEF Untouched

LEMMA AcquireGauge ==
    ASSUME DispatchTyped, GaugeInv, NEW r \in Requests, Acquires(r) PROVE GaugeInv'
<1>1. ASSUME NEW p \in Pairs, p # Pair(r) PROVE GaugeInvAt(p)'
  BY <1>1, AcquireGaugeElsewhere, UntouchedKeeps, GaugeInvIsPointwise DEF Acquires
<1>2. ASSUME NEW p \in Pairs, p = Pair(r) PROVE GaugeInvAt(p)'
  <2>1. /\ p = q[r].order[q[r].idx].pair /\ q[r].idx \in DOMAIN q[r].order
        /\ q[r].idx <= Len(q[r].order) /\ q[r].idx \in Nat
        /\ RequestInv(q[r]) /\ now \in Nat /\ now' = now /\ late' = late /\ lost' = lost
        /\ late[p] \in Nat /\ lost[p] \in Nat /\ ProbeTtl \in Nat \ {0} /\ LocalTo(r)
        /\ gauge \in [Pairs -> SUBSET Slots]
    BY <1>2, StandsAt, DispatchConstants, SMTT(40) DEF Acquires, Attempting, DispatchTyped
  <2>2. GaugeInvAt(p)
    BY GaugeInvIsPointwise
  <2>3. PICK s0 : s0 = [by |-> r, until |-> now + ProbeTtl]
    OBVIOUS
  <2>4. s0.by = r /\ s0.until = now + ProbeTtl /\ gauge'[p] = LiveAt(p, now) \cup {s0}
    BY <1>2, <2>1, <2>3 DEF Acquires
  <2>5. \A i \in DOMAIN q[r].order : q[r].order[i].pair = p => i = q[r].idx
    BY <2>1 DEF RequestInv, Walk
  <2>6. ~Comes(q[r], p) /\ Comes(q'[r], p) /\ ~Claims(q[r], p) /\ Claims(q'[r], p)
    <3>1. q[r].pc # "done" /\ now + ProbeTtl # Never
      BY <2>1 DEF Acquires, Never
    <3> QED
      BY <2>1, <2>5, <3>1 DEF Acquires, Comes, Claims
  <2>7. s0 \notin gauge[p]
    BY <2>2, <2>4, <2>6 DEF GaugeInvAt
  <2>8. \A s \in gauge'[p] : Comes(q'[s.by], p)
    <3>1. ASSUME NEW s \in gauge[p] PROVE Comes(q'[s.by], p)
      <4>1. s.by \in Requests
        BY <2>1 DEF Slots
      <4>2. Comes(q[s.by], p)
        BY <2>2, Zenon DEF GaugeInvAt
      <4> QED
        BY <2>1, <2>6, <4>1, <4>2 DEF LocalTo
    <3> QED
      BY <2>4, <2>6, <3>1 DEF LiveAt
  <2>9. ASSUME NEW t \in Nat, t >= now
        PROVE  /\ Cardinality(LiveAt(p, t)') = Cardinality(LiveAt(p, t)) + One(now + ProbeTtl > t)
               /\ Cardinality(LiveAt(p, t)) \in Nat
    <3>1. LiveAt(p, t) \ {s0} = LiveAt(p, t)' \ {s0}
      <4>1. \A s \in gauge[p] : s.until \in Nat
        BY <2>1 DEF Slots
      <4>2. \A s \in gauge[p] : s.until > t => s.until > now
        BY <2>1, <2>9, <4>1
      <4> QED
        BY <2>4, <4>2 DEF LiveAt
    <3>2. (s0 \in LiveAt(p, t)' <=> now + ProbeTtl > t) /\ s0 \notin LiveAt(p, t)
      BY <2>4, <2>7 DEF LiveAt
    <3>3. IsFiniteSet(LiveAt(p, t))
      BY GaugeFinite
    <3> QED
      BY <3>1, <3>2, <3>3, CountStep DEF One
  <2>10. ASSUME NEW t \in Nat
        PROVE  /\ Cardinality(Claimants(p, t)')
                        = Cardinality(Claimants(p, t)) + One(now + ProbeTtl > t)
               /\ Cardinality(Claimants(p, t)) \in Nat
    <3>1. Claimants(p, t) \ {r} = Claimants(p, t)' \ {r}
      BY <2>1, LocalSets
    <3>2. (r \in Claimants(p, t)' <=> now + ProbeTtl > t) /\ r \notin Claimants(p, t)
      BY <2>6 DEF Claimants, Acquires
    <3>3. IsFiniteSet(Claimants(p, t))
      BY GaugeFinite
    <3> QED
      BY <3>1, <3>2, <3>3, CountStep DEF One
  <2>11. \A t \in Nat : t >= now =>
            Cardinality(Claimants(p, t)') <= Cardinality(LiveAt(p, t)') + late'[p]
    <3> TAKE t \in Nat
    <3> HAVE t >= now
    <3>1. Cardinality(Claimants(p, t)) <= Cardinality(LiveAt(p, t)) + late[p]
      BY <2>2 DEF GaugeInvAt
    <3>2. One(now + ProbeTtl > t) \in {0, 1}
      BY OneInt
    <3>3. /\ Cardinality(LiveAt(p, t)') = Cardinality(LiveAt(p, t)) + One(now + ProbeTtl > t)
          /\ Cardinality(LiveAt(p, t)) \in Nat
      BY <2>9, Zenon
    <3>4. /\ Cardinality(Claimants(p, t)') = Cardinality(Claimants(p, t)) + One(now + ProbeTtl > t)
          /\ Cardinality(Claimants(p, t)) \in Nat
      BY <2>10, Zenon
    <3>5. late'[p] = late[p] /\ late[p] \in Nat
      BY <2>1
    <3> QED
      BY <3>1, <3>2, <3>3, <3>4, <3>5
  <2>12. Cardinality(LiveAt(p, now)') <= Cardinality(Holders(p)') + lost'[p]
    <3>1. Holders(p) \ {r} = Holders(p)' \ {r} /\ IsFiniteSet(Holders(p))
      BY <2>1, LocalSets, GaugeFinite
    <3>2. r \in Holders(p)' /\ r \notin Holders(p)
      BY <2>6 DEF Holders
    <3>3. Cardinality(Holders(p)') = Cardinality(Holders(p)) + 1 /\ Cardinality(Holders(p)) \in Nat
      BY <3>1, <3>2, CountStep DEF One
    <3>4. LiveAt(p, now)' = LiveAt(p, now) \cup {s0}
      <4>1. now + ProbeTtl > now
        BY <2>1
      <4> QED
        BY <2>1, <2>4, <4>1 DEF LiveAt
    <3>5. /\ Cardinality(LiveAt(p, now)') = Cardinality(LiveAt(p, now)) + 1
          /\ Cardinality(LiveAt(p, now)) \in Nat
      <4>1. IsFiniteSet(LiveAt(p, now)) /\ s0 \notin LiveAt(p, now)
        BY <2>7, GaugeFinite DEF LiveAt
      <4> QED
        BY <3>4, <4>1, FS_AddElement, FS_CardinalityType
    <3>6. Cardinality(LiveAt(p, now)) <= Cardinality(Holders(p)) + lost[p]
      BY <2>2 DEF GaugeInvAt
    <3> QED
      BY <2>1, <3>3, <3>5, <3>6, SMTT(30)
  <2>13. Cardinality(Winners(p)') <= 1 + late'[p]
    <3>1. Winners(p) \ {r} = Winners(p)' \ {r} /\ IsFiniteSet(Winners(p))
      BY <2>1, LocalSets, GaugeFinite
    <3>2. r \notin Winners(p) /\ (r \in Winners(p)' <=> LiveAt(p, now) = {})
      <4>1. now + ProbeTtl > now
        BY <2>1
      <4> QED
        BY <1>2, <2>1, <2>6, <4>1 DEF Winners, Acquires
    <3>3. /\ Cardinality(Winners(p)') = Cardinality(Winners(p)) + One(LiveAt(p, now) = {})
          /\ Cardinality(Winners(p)) \in Nat
      BY <3>1, <3>2, CountStep DEF One
    <3>4. CASE LiveAt(p, now) = {}
      <4>1. Cardinality(Claimants(p, now)) <= late[p]
        <5>1. Cardinality(LiveAt(p, now)) = 0
          BY <3>4, FS_EmptySet
        <5>2. Cardinality(Claimants(p, now)) <= Cardinality(LiveAt(p, now)) + late[p]
          <6>1. now \in Nat /\ now >= now
            BY <2>1
          <6> QED
            BY <2>2, <6>1, Zenon DEF GaugeInvAt
        <5> QED
          BY <2>1, <5>1, <5>2
      <4>2. Winners(p) \subseteq Claimants(p, now)
        BY DEF Winners, Claimants
      <4>3. /\ Cardinality(Winners(p)) <= Cardinality(Claimants(p, now))
            /\ Cardinality(Claimants(p, now)) \in Nat
        BY <4>2, GaugeFinite, FS_Subset
      <4>4. One(LiveAt(p, now) = {}) = 1
        BY <3>4 DEF One
      <4>5. Cardinality(Winners(p)') = Cardinality(Winners(p)) + 1
        BY <3>3, <4>4
      <4>6. late'[p] = late[p] /\ late[p] \in Nat
        BY <2>1
      <4>7. Cardinality(Winners(p)) \in Nat
        BY <3>3
      <4>8. Cardinality(Winners(p)) <= late[p]
        BY <4>1, <4>3, <4>6, <4>7
      <4> QED
        BY <4>5, <4>6, <4>7, <4>8
    <3>5. CASE LiveAt(p, now) # {}
      <4>1. One(LiveAt(p, now) = {}) = 0 /\ Cardinality(Winners(p)) <= 1 + late[p]
        BY <2>2, <3>5 DEF One, GaugeInvAt
      <4>2. late'[p] = late[p]
        BY <2>1
      <4>3. PICK n \in Nat : n = Cardinality(Winners(p))
        BY <3>3
      <4>4. Cardinality(Winners(p)') = n + 0 /\ n + 0 = n
        BY <3>3, <4>1, <4>3
      <4> QED
        BY <4>1, <4>2, <4>3, <4>4
    <3> QED
      BY <3>4, <3>5
  <2> QED
    BY <2>1, <2>8, <2>11, <2>12, <2>13 DEF GaugeInvAt
<1>3. \A p \in Pairs : GaugeInvAt(p)'
  BY <1>1, <1>2
<1> QED
  BY <1>3 DEF GaugeInv, GaugeInvAt, SlotsReached, ClaimsCovered, WinnersBounded, SlotsHeld

(* What the finally of an attempt leaves of its request. *)
Left(r) ==
    /\ LocalTo(r)
    /\ q'[r].claim = Never /\ ~q'[r].won
    /\ \A p \in Pairs : ~Has(q'[r], p)
    /\ \A p \in Pairs : Comes(q[r], p) => Comes(q'[r], p)

LEMMA LeftOver ==
    ASSUME q \in [Requests -> States], NEW r \in Requests, NEW v, RequestInv(Over(v)),
           q' = [q EXCEPT ![r] = Over(v)]
    PROVE  Left(r)
<1>1. LocalTo(r) /\ q'[r] = Over(v)
  BY Replaced
<1> QED
  BY <1>1, OverHasNothing DEF Left, Comes

LEMMA FinallyLeaves ==
    ASSUME DispatchTyped, NEW r \in Requests, Finally(r) PROVE Left(r)
<1>1. /\ q \in [Requests -> States] /\ RequestInv(q[r]) /\ q[r].pc = "finally"
      /\ q[r] \in States /\ q[r].after \in {"next", "final", "over"}
  <2>1. At(r, "finally")
    BY DEF Finally
  <2>2. RequestInv(q[r]) /\ q \in [Requests -> States]
    BY DEF DispatchTyped
  <2>3. q[r] \in States
    BY <2>2
  <2> QED
    BY <2>1, <2>2, <2>3 DEF At, States
<1>2. \A i, j \in q[r].from : i = j
  BY <1>1 DEF RequestInv, Answer
<1>3. CASE q[r].after = "over"
  <2>1. q' = [q EXCEPT ![r] = Over(q[r])]
    BY <1>3 DEF Finally
  <2>2. Told(q[r])
    BY <1>1, <1>3 DEF RequestInv, Answer
  <2> QED
    BY <1>1, <1>2, <2>1, <2>2, OverInv, LeftOver
<1>4. CASE q[r].after = "final"
  <2>1. q' = [q EXCEPT ![r] = Exhausted(q[r])]
    BY <1>4 DEF Finally
  <2>2. Failing(q[r]) /\ q[r].err \notin Retryable
    BY <1>1, <1>4 DEF RequestInv, Answer
  <2>3. PICK v : RequestInv(Over(v)) /\ Exhausted(q[r]) = Over(v)
    BY <1>1, <1>2, <2>2, ExhaustedInv
  <2> QED
    BY <1>1, <2>1, <2>3, LeftOver
<1>5. CASE q[r].after = "next"
  <2>1. q' = [q EXCEPT ![r].pc = "next", ![r].idx = @ + 1, ![r].own = FALSE,
                        ![r].eager = FALSE, ![r].claim = Never, ![r].won = FALSE,
                        ![r].probing = FALSE, ![r].committed = FALSE, ![r].closed = FALSE,
                        ![r].retried = FALSE]
    BY <1>5 DEF Finally
  <2>2. PICK u : u = [q[r] EXCEPT !.pc = "next", !.idx = q[r].idx + 1, !.own = FALSE,
                        !.eager = FALSE, !.claim = Never, !.won = FALSE,
                        !.probing = FALSE, !.committed = FALSE, !.closed = FALSE,
                        !.retried = FALSE]
    OBVIOUS
  <2>3. q' = [q EXCEPT ![r] = u]
    BY <1>1, <2>1, <2>2, ZenonT(60)
  <2>4. /\ RequestInv(u) /\ u.order = q[r].order /\ u.idx = q[r].idx + 1 /\ ~u.eager /\ ~u.own
        /\ u.claim = Never /\ ~u.won
    BY <1>1, <1>5, <2>2, NextState
  <2>5. LocalTo(r) /\ q'[r] = u
    BY <1>1, <2>3, <2>4, Replaced
  <2>6. \A p \in Pairs : Comes(q[r], p) => Comes(u, p)
    <3>1. q[r].order \in Seq(Candidates) /\ q[r].idx \in Nat
      BY <1>1 DEF States
    <3>2. \A i \in DOMAIN q[r].order : i \in Nat
      BY <3>1
    <3> QED
      BY <1>1, <2>4, <3>1, <3>2 DEF Comes
  <2> QED
    BY <2>4, <2>5, <2>6 DEF Left, Has
<1> QED
  BY <1>1, <1>3, <1>4, <1>5

(* What it does to the counts. *)
Releases(r) ==
    /\ Left(r) /\ LoadFollows(r) /\ q[r].pc = "finally"
    /\ \/ q[r].claim = Never /\ UNCHANGED <<gauge, late, lost>>
       \/ /\ q[r].claim # Never
          /\ gauge' = [gauge EXCEPT ![Pair(r)] = WithoutOldest(Pair(r))]
          /\ late' = IF q[r].claim <= now THEN [late EXCEPT ![Pair(r)] = @ + 1] ELSE late
          /\ UNCHANGED lost
       \/ /\ q[r].claim # Never /\ UNCHANGED <<gauge, late>>
          /\ lost' = [lost EXCEPT ![Pair(r)] = @ + 1]
    /\ UNCHANGED now

LEMMA FinallyStep ==
    ASSUME DispatchTyped, NEW r \in Requests, Finally(r) PROVE Releases(r)
<1>1. /\ q[r].pc = "finally" /\ q[r].pc \in Attempting /\ RequestInv(q[r])
      /\ load \in [Pairs -> Int]
  <2>1. At(r, "finally")
    BY DEF Finally
  <2> QED
    BY <2>1 DEF At, Attempting, DispatchTyped
<1>2. Left(r)
  BY FinallyLeaves
<1>3. LoadFollows(r)
  <2>1. CASE q[r].own
    <3>1. load' = [load EXCEPT ![Pair(r)] = @ - 1]
      BY <2>1 DEF Finally
    <3>2. Pair(r) \in Pairs /\ \A p \in Pairs : Has(q[r], p) <=> p = Pair(r)
      BY <1>1, <2>1, StandsAt DEF Has
    <3>3. /\ load' \in [Pairs -> Int]
          /\ \A p \in Pairs : load'[p] = IF p = Pair(r) THEN load[p] - 1 ELSE load[p]
      BY <1>1, <3>1, <3>2
    <3> QED
      BY <1>1, <1>2, <3>2, <3>3 DEF LoadFollows, Left, One
  <2>2. CASE ~q[r].own
    <3>1. load' = Freed(r)
      BY <2>2 DEF Finally
    <3> QED
      BY <1>2, <2>2, <3>1, FreedFollows DEF Left
  <2> QED
    BY <2>1, <2>2
<1>4. UNCHANGED now
  BY DEF Finally
<1>5. \/ q[r].claim = Never /\ UNCHANGED <<gauge, late, lost>>
      \/ /\ q[r].claim # Never
         /\ gauge' = [gauge EXCEPT ![Pair(r)] = WithoutOldest(Pair(r))]
         /\ late' = IF q[r].claim <= now THEN [late EXCEPT ![Pair(r)] = @ + 1] ELSE late
         /\ UNCHANGED lost
      \/ /\ q[r].claim # Never /\ UNCHANGED <<gauge, late>>
         /\ lost' = [lost EXCEPT ![Pair(r)] = @ + 1]
  <2>1. CASE q[r].claim = Never
    BY <2>1 DEF Finally
  <2>2. CASE q[r].claim # Never
    BY <2>2 DEF Finally
  <2> QED
    BY <2>1, <2>2
<1> QED
  BY <1>1, <1>2, <1>3, <1>4, <1>5 DEF Releases

(* The slots that go are among those there were. *)
LEMMA ReleaseTyped ==
    ASSUME DispatchTyped, NEW r \in Requests, Releases(r)
    PROVE  /\ gauge' \in [Pairs -> SUBSET Slots]
           /\ \A p \in Pairs : IsFiniteSet(gauge'[p]) /\ gauge'[p] \subseteq gauge[p]
           /\ late' \in [Pairs -> Nat] /\ lost' \in [Pairs -> Nat]
           /\ Pair(r) \in Pairs
           /\ \A p \in Pairs : p # Pair(r) =>
                gauge'[p] = gauge[p] /\ late'[p] = late[p] /\ lost'[p] = lost[p]
<1>1. /\ Pair(r) \in Pairs /\ gauge \in [Pairs -> SUBSET Slots]
      /\ late \in [Pairs -> Nat] /\ lost \in [Pairs -> Nat]
  BY StandsAt DEF Releases, Attempting, DispatchTyped
<1>2. \A p \in Pairs : WithoutOldest(p) \subseteq gauge[p]
  BY DEF WithoutOldest, LiveSlots
<1>3. gauge' = gauge \/ gauge' = [gauge EXCEPT ![Pair(r)] = WithoutOldest(Pair(r))]
  BY DEF Releases
<1>4. /\ gauge' \in [Pairs -> SUBSET Slots]
      /\ \A p \in Pairs : gauge'[p] \subseteq gauge[p] /\ (p # Pair(r) => gauge'[p] = gauge[p])
  BY <1>1, <1>2, <1>3
<1>5. \A p \in Pairs : IsFiniteSet(gauge'[p])
  BY <1>4, FS_Subset DEF DispatchTyped
<1>6. late' = late \/ late' = [late EXCEPT ![Pair(r)] = @ + 1]
  BY DEF Releases
<1>7. late' \in [Pairs -> Nat] /\ \A p \in Pairs : p # Pair(r) => late'[p] = late[p]
  BY <1>1, <1>6
<1>8. lost' = lost \/ lost' = [lost EXCEPT ![Pair(r)] = @ + 1]
  BY DEF Releases
<1>9. lost' \in [Pairs -> Nat] /\ \A p \in Pairs : p # Pair(r) => lost'[p] = lost[p]
  BY <1>1, <1>8
<1> QED
  BY <1>1, <1>4, <1>5, <1>7, <1>9

(* No pair but the one released is touched, and not that one either when    *)
(* the request had no slot of it.                                           *)
LEMMA ReleaseElsewhere ==
    ASSUME DispatchTyped, NEW r \in Requests, Releases(r), NEW p \in Pairs,
           p # Pair(r) \/ q[r].claim = Never
    PROVE  Untouched(p)
<1>1. q[r].pc \in Attempting /\ LocalTo(r) /\ q'[r].claim = Never
  BY DEF Releases, Left, Attempting
<1>2. gauge'[p] = gauge[p] /\ late'[p] = late[p] /\ lost'[p] = lost[p]
  BY ReleaseTyped DEF Releases
<1>3. ~Claims(q[r], p) /\ ~Claims(q'[r], p)
  BY <1>1, StandsAt DEF Claims
<1>4. Comes(q[r], p) => Comes(q'[r], p)
  BY DEF Releases, Left
<1>5. \A x \in Requests \ {r} : q'[x] = q[x]
  BY <1>1 DEF LocalTo
<1> QED
  BY <1>2, <1>3, <1>4, <1>5 DEF Untouched

(* The request leaves the sets it was in. *)
LEMMA ReleaseCounts ==
    ASSUME DispatchTyped, NEW r \in Requests, Releases(r), NEW p \in Pairs, p = Pair(r),
           q[r].claim # Never
    PROVE  /\ Cardinality(Holders(p)) \in Nat
           /\ Cardinality(Holders(p)') = Cardinality(Holders(p)) - 1
           /\ Cardinality(Winners(p)) \in Nat /\ Cardinality(Winners(p)') \in Nat
           /\ Cardinality(Winners(p)') <= Cardinality(Winners(p))
           /\ \A t \in Nat : /\ Cardinality(Claimants(p, t)) \in Nat
                             /\ Cardinality(Claimants(p, t)')
                                    = Cardinality(Claimants(p, t)) - One(q[r].claim > t)
<1>1. /\ q[r].pc \in Attempting /\ LocalTo(r) /\ q'[r].claim = Never /\ ~q'[r].won
      /\ UNCHANGED now
  BY DEF Releases, Left, Attempting
<1>2. Claims(q[r], p) /\ ~Claims(q'[r], p)
  BY <1>1, StandsAt DEF Claims
<1>3. /\ Cardinality(Holders(p)) \in Nat
      /\ Cardinality(Holders(p)') = Cardinality(Holders(p)) - 1
  <2>1. Holders(p) \ {r} = Holders(p)' \ {r} /\ IsFiniteSet(Holders(p))
    BY <1>1, LocalSets, GaugeFinite
  <2>2. r \in Holders(p) /\ r \notin Holders(p)'
    BY <1>2 DEF Holders
  <2> QED
    BY <2>1, <2>2, CountStep DEF One
<1>4. /\ Cardinality(Winners(p)) \in Nat /\ Cardinality(Winners(p)') \in Nat
      /\ Cardinality(Winners(p)') <= Cardinality(Winners(p))
  <2>1. Winners(p) \ {r} = Winners(p)' \ {r} /\ IsFiniteSet(Winners(p))
    BY <1>1, LocalSets, GaugeFinite
  <2>2. r \notin Winners(p)'
    BY <1>2 DEF Winners
  <2>3. One(r \in Winners(p)) \in {0, 1} /\ One(r \in Winners(p)') = 0
    BY <2>2, OneInt DEF One
  <2> QED
    BY <2>1, <2>3, CountStep
<1>5. ASSUME NEW t \in Nat
      PROVE  /\ Cardinality(Claimants(p, t)) \in Nat
             /\ Cardinality(Claimants(p, t)') = Cardinality(Claimants(p, t)) - One(q[r].claim > t)
  <2>1. Claimants(p, t) \ {r} = Claimants(p, t)' \ {r} /\ IsFiniteSet(Claimants(p, t))
    BY <1>1, LocalSets, GaugeFinite
  <2>2. (r \in Claimants(p, t) <=> q[r].claim > t) /\ r \notin Claimants(p, t)'
    BY <1>2 DEF Claimants
  <2>3. One(r \in Claimants(p, t)) = One(q[r].claim > t) /\ One(r \in Claimants(p, t)') = 0
    BY <2>2 DEF One
  <2>4. One(q[r].claim > t) \in {0, 1}
    BY OneInt
  <2> QED
    BY <2>1, <2>3, <2>4, CountStep
<1> QED
  BY <1>3, <1>4, <1>5

(* What is taken out of the gauge is the oldest of its live slots. *)
LEMMA OldestGoes ==
    ASSUME DispatchTyped, NEW p \in Pairs, LiveAt(p, now) # {}
    PROVE  \E m \in LiveAt(p, now) : /\ \A s \in LiveAt(p, now) : m.until <= s.until
                                     /\ WithoutOldest(p) = LiveAt(p, now) \ {m}
<1>1. LiveSlots(p) = LiveAt(p, now) /\ LiveAt(p, now) \in SUBSET Slots
  BY DEF LiveSlots, LiveAt, DispatchTyped
<1>2. \E s \in LiveSlots(p) : \A t \in LiveSlots(p) : s.until <= t.until
  BY <1>1, OldestSlot
<1> DEFINE m == CHOOSE s \in LiveSlots(p) : \A t \in LiveSlots(p) : s.until <= t.until
<1>3. m \in LiveSlots(p) /\ \A t \in LiveSlots(p) : m.until <= t.until
  BY <1>2
<1>4. WithoutOldest(p) = LiveSlots(p) \ {m}
  BY <1>1 DEF WithoutOldest
<1> QED
  BY <1>1, <1>3, <1>4

LEMMA ReleaseCovers ==
    ASSUME DispatchTyped, NEW r \in Requests, Releases(r), NEW p \in Pairs, p = Pair(r),
           GaugeInvAt(p), q[r].claim # Never,
           gauge' = [gauge EXCEPT ![p] = WithoutOldest(p)],
           late' = IF q[r].claim <= now THEN [late EXCEPT ![p] = @ + 1] ELSE late,
           lost' = lost
    PROVE  GaugeInvAt(p)'
<1>1. /\ now \in Nat /\ now' = now /\ late[p] \in Nat /\ lost[p] \in Nat
      /\ q[r].claim \in Nat /\ gauge \in [Pairs -> SUBSET Slots] /\ LocalTo(r)
      /\ late'[p] = late[p] + One(q[r].claim <= now)
  <2>1. now \in Nat /\ late[p] \in Nat /\ lost[p] \in Nat /\ gauge \in [Pairs -> SUBSET Slots]
    BY DispatchConstants DEF DispatchTyped
  <2>2. q[r].claim \in Nat
    BY DEF DispatchTyped, States
  <2>3. late'[p] = late[p] + One(q[r].claim <= now)
    BY <2>1 DEF DispatchTyped, One
  <2> QED
    BY <2>1, <2>2, <2>3 DEF Releases, Left
<1>2. \A s \in gauge'[p] : Comes(q'[s.by], p)
  <2> TAKE s \in gauge'[p]
  <2>1. s \in gauge[p]
    BY ReleaseTyped
  <2>2. s.by \in Requests
    BY <1>1, <2>1 DEF Slots
  <2>3. Comes(q[s.by], p)
    BY <2>1, Zenon DEF GaugeInvAt
  <2>4. CASE s.by = r
    BY <2>3, <2>4 DEF Releases, Left
  <2>5. CASE s.by # r
    BY <1>1, <2>2, <2>3, <2>5 DEF LocalTo
  <2> QED
    BY <2>4, <2>5
<1>3. Cardinality(Winners(p)') <= 1 + late'[p]
  <2>1. Cardinality(Winners(p)) <= 1 + late[p]
    BY DEF GaugeInvAt
  <2>2. One(q[r].claim <= now) \in {0, 1}
    BY OneInt
  <2> QED
    BY <1>1, <2>1, <2>2, ReleaseCounts
<1>4. \A t \in Nat : t >= now => LiveAt(p, t) \subseteq LiveAt(p, now)
  <2>1. \A s \in gauge[p] : s.until \in Nat
    BY <1>1 DEF Slots
  <2> QED
    BY <1>1, <2>1 DEF LiveAt
<1>5. CASE LiveAt(p, now) = {}
  <2>1. gauge'[p] = {}
    BY <1>1, <1>5 DEF WithoutOldest, LiveSlots, LiveAt
  <2>2. \A t : LiveAt(p, t)' = {}
    BY <2>1 DEF LiveAt
  <2>3. ASSUME NEW t \in Nat, t >= now
        PROVE  Cardinality(Claimants(p, t)') <= Cardinality(LiveAt(p, t)') + late'[p]
    <3>1. Cardinality(LiveAt(p, t)) = 0 /\ Cardinality(LiveAt(p, t)') = 0
      BY <1>4, <1>5, <2>2, <2>3, FS_EmptySet
    <3>2. Cardinality(Claimants(p, t)) <= Cardinality(LiveAt(p, t)) + late[p]
      BY <2>3, Zenon DEF GaugeInvAt
    <3>3. One(q[r].claim > t) \in {0, 1} /\ One(q[r].claim <= now) \in {0, 1}
      BY OneInt
    <3>4. /\ Cardinality(Claimants(p, t)) \in Nat
          /\ Cardinality(Claimants(p, t)') = Cardinality(Claimants(p, t)) - One(q[r].claim > t)
      BY ReleaseCounts
    <3> QED
      BY <1>1, <3>1, <3>2, <3>3, <3>4
  <2>4. Cardinality(LiveAt(p, now)') <= Cardinality(Holders(p)') + lost'[p]
    <3>1. Cardinality(LiveAt(p, now)') = 0
      BY <2>1, FS_EmptySet DEF LiveAt
    <3>2. Cardinality(Holders(p)') \in Nat
      BY RequestSubset DEF Holders
    <3> QED
      BY <1>1, <3>1, <3>2
  <2> QED
    BY <1>1, <1>2, <1>3, <2>3, <2>4 DEF GaugeInvAt
<1>6. CASE LiveAt(p, now) # {}
  <2>1. PICK m \in LiveAt(p, now) : /\ \A s \in LiveAt(p, now) : m.until <= s.until
                                    /\ WithoutOldest(p) = LiveAt(p, now) \ {m}
    BY <1>6, OldestGoes
  <2>2. gauge'[p] = LiveAt(p, now) \ {m} /\ m.until \in Nat
    BY <1>1, <2>1 DEF LiveAt, Slots
  <2>3. ASSUME NEW t \in Nat, t >= now
        PROVE  /\ Cardinality(LiveAt(p, t)') = Cardinality(LiveAt(p, t)) - One(m.until > t)
               /\ Cardinality(LiveAt(p, t)) \in Nat
    <3>1. LiveAt(p, t)' = LiveAt(p, t) \ {m}
      BY <1>4, <2>2, <2>3 DEF LiveAt
    <3>2. m \in LiveAt(p, t) <=> m.until > t
      BY <2>1 DEF LiveAt
    <3>3. IsFiniteSet(LiveAt(p, t)) /\ Cardinality(LiveAt(p, t)) \in Nat
      BY GaugeFinite
    <3>4. Cardinality(LiveAt(p, t) \ {m}) =
            IF m \in LiveAt(p, t) THEN Cardinality(LiveAt(p, t)) - 1 ELSE Cardinality(LiveAt(p, t))
      BY <3>3, FS_RemoveElement
    <3> QED
      BY <3>1, <3>2, <3>3, <3>4 DEF One
  <2>4. ASSUME NEW t \in Nat, t >= now
        PROVE  Cardinality(Claimants(p, t)') <= Cardinality(LiveAt(p, t)') + late'[p]
    <3>1. Cardinality(Claimants(p, t)) <= Cardinality(LiveAt(p, t)) + late[p]
      BY <2>4, Zenon DEF GaugeInvAt
    <3>2. /\ Cardinality(Claimants(p, t)) \in Nat
          /\ Cardinality(Claimants(p, t)') = Cardinality(Claimants(p, t)) - One(q[r].claim > t)
      BY ReleaseCounts
    <3>3. /\ Cardinality(LiveAt(p, t)') = Cardinality(LiveAt(p, t)) - One(m.until > t)
          /\ Cardinality(LiveAt(p, t)) \in Nat
      BY <2>3, <2>4, Zenon
    <3>4. /\ One(q[r].claim > t) \in {0, 1} /\ One(q[r].claim <= now) \in {0, 1}
          /\ One(m.until > t) \in {0, 1}
      BY OneInt
    <3>5. CASE q[r].claim <= now \/ q[r].claim > t \/ ~(m.until > t)
      <4>1. One(q[r].claim <= now) = 1 \/ One(q[r].claim > t) = 1 \/ One(m.until > t) = 0
        BY <3>5 DEF One
      <4> QED
        BY <1>1, <3>1, <3>2, <3>3, <3>4, <4>1
    <3>6. CASE ~(q[r].claim <= now) /\ ~(q[r].claim > t) /\ m.until > t
      <4>1. LiveAt(p, t) = LiveAt(p, now)
        <5>1. \A s \in LiveAt(p, now) : s.until \in Nat /\ s \in gauge[p]
          BY <1>1 DEF LiveAt, Slots
        <5>2. \A s \in LiveAt(p, now) : s.until > t
          BY <2>1, <2>2, <3>6, <5>1
        <5> QED
          BY <1>4, <2>4, <5>1, <5>2 DEF LiveAt
      <4>2. Claimants(p, t) \subseteq Claimants(p, now) \ {r}
        <5>1. ASSUME NEW x \in Claimants(p, t) PROVE x \in Claimants(p, now) \ {r}
          <6>1. x \in Requests /\ Claims(q[x], p) /\ q[x].claim > t
            BY DEF Claimants
          <6>2. q[x].claim \in Nat
            <7>1. q[x].claim \in Nat \cup {Never}
              BY <6>1 DEF DispatchTyped, States
            <7> QED
              BY <6>1, <7>1 DEF Claims
          <6>3. q[x].claim > now /\ x # r
            BY <1>1, <2>4, <3>6, <6>1, <6>2
          <6> QED
            BY <6>1, <6>3 DEF Claimants
        <5> QED
          BY <5>1
      <4>3. r \in Claimants(p, now)
        <5>1. Claims(q[r], p)
          BY StandsAt DEF Claims, Releases, Attempting
        <5> QED
          BY <1>1, <3>6, <5>1 DEF Claimants
      <4>4. /\ Cardinality(Claimants(p, t)) <= Cardinality(Claimants(p, now)) - 1
            /\ Cardinality(Claimants(p, now)) \in Nat
        <5>1. IsFiniteSet(Claimants(p, now)) /\ Cardinality(Claimants(p, now)) \in Nat
          BY GaugeFinite
        <5>2. /\ IsFiniteSet(Claimants(p, now) \ {r})
              /\ Cardinality(Claimants(p, now) \ {r}) = Cardinality(Claimants(p, now)) - 1
          BY <4>3, <5>1, FS_RemoveElement
        <5> QED
          BY <4>2, <5>1, <5>2, FS_Subset
      <4>5. Cardinality(Claimants(p, now)) <= Cardinality(LiveAt(p, now)) + late[p]
        <5>1. now \in Nat /\ now >= now
          BY <1>1
        <5> QED
          BY <5>1, Zenon DEF GaugeInvAt
      <4>6. Cardinality(Claimants(p, t)) <= Cardinality(LiveAt(p, t)) + late[p] - 1
        BY <1>1, <3>2, <3>3, <4>1, <4>4, <4>5
      <4> QED
        BY <1>1, <3>2, <3>3, <3>4, <4>6
    <3> QED
      BY <3>5, <3>6
  <2>5. Cardinality(LiveAt(p, now)') <= Cardinality(Holders(p)') + lost'[p]
    <3>1. LiveAt(p, now)' = LiveAt(p, now) \ {m}
      BY <1>1, <2>2 DEF LiveAt
    <3>2. IsFiniteSet(LiveAt(p, now)) /\ Cardinality(LiveAt(p, now)) \in Nat
      BY GaugeFinite
    <3>3. Cardinality(LiveAt(p, now)') = Cardinality(LiveAt(p, now)) - 1
      BY <2>1, <3>1, <3>2, FS_RemoveElement, ZenonT(60)
    <3>4. Cardinality(LiveAt(p, now)) <= Cardinality(Holders(p)) + lost[p]
      BY DEF GaugeInvAt
    <3> QED
      BY <1>1, <3>2, <3>3, <3>4, ReleaseCounts
  <2> QED
    BY <1>1, <1>2, <1>3, <2>4, <2>5 DEF GaugeInvAt
<1> QED
  BY <1>5, <1>6

(* A release that was lost leaves its slot behind. *)
LEMMA ReleaseLost ==
    ASSUME DispatchTyped, NEW r \in Requests, Releases(r), NEW p \in Pairs, p = Pair(r),
           GaugeInvAt(p), q[r].claim # Never, UNCHANGED <<gauge, late>>,
           lost' = [lost EXCEPT ![p] = @ + 1]
    PROVE  GaugeInvAt(p)'
<1>1. /\ now \in Nat /\ now' = now /\ late[p] \in Nat /\ lost[p] \in Nat
      /\ lost'[p] = lost[p] + 1 /\ gauge \in [Pairs -> SUBSET Slots] /\ LocalTo(r)
  BY DispatchConstants DEF DispatchTyped, Releases, Left
<1>2. \A s \in gauge'[p] : Comes(q'[s.by], p)
  <2> TAKE s \in gauge'[p]
  <2>1. s \in gauge[p] /\ s.by \in Requests
    BY <1>1 DEF Slots
  <2>2. Comes(q[s.by], p)
    BY <2>1, Zenon DEF GaugeInvAt
  <2>3. CASE s.by = r
    BY <2>2, <2>3 DEF Releases, Left
  <2>4. CASE s.by # r
    BY <1>1, <2>1, <2>2, <2>4 DEF LocalTo
  <2> QED
    BY <2>3, <2>4
<1>3. Cardinality(Winners(p)') <= 1 + late'[p]
  <2>1. Cardinality(Winners(p)) <= 1 + late[p]
    BY DEF GaugeInvAt
  <2> QED
    BY <1>1, <2>1, ReleaseCounts
<1>4. \A t : LiveAt(p, t)' = LiveAt(p, t)
  BY DEF LiveAt
<1>5. ASSUME NEW t \in Nat, t >= now
      PROVE  Cardinality(Claimants(p, t)') <= Cardinality(LiveAt(p, t)') + late'[p]
  <2>1. Cardinality(Claimants(p, t)) <= Cardinality(LiveAt(p, t)) + late[p]
    BY <1>5, Zenon DEF GaugeInvAt
  <2>2. One(q[r].claim > t) \in {0, 1} /\ Cardinality(LiveAt(p, t)) \in Nat
    BY OneInt, GaugeFinite
  <2>3. /\ Cardinality(Claimants(p, t)) \in Nat
        /\ Cardinality(Claimants(p, t)') = Cardinality(Claimants(p, t)) - One(q[r].claim > t)
    BY ReleaseCounts
  <2>4. LiveAt(p, t)' = LiveAt(p, t)
    BY <1>4
  <2> QED
    BY <1>1, <2>1, <2>2, <2>3, <2>4
<1>6. Cardinality(LiveAt(p, now)') <= Cardinality(Holders(p)') + lost'[p]
  <2>1. LiveAt(p, now)' = LiveAt(p, now) /\ Cardinality(LiveAt(p, now)) \in Nat
    BY <1>1, GaugeFinite DEF LiveAt
  <2>2. Cardinality(LiveAt(p, now)) <= Cardinality(Holders(p)) + lost[p]
    BY DEF GaugeInvAt
  <2> QED
    BY <1>1, <2>1, <2>2, ReleaseCounts
<1> QED
  BY <1>1, <1>2, <1>3, <1>5, <1>6 DEF GaugeInvAt

LEMMA ReleaseGauge ==
    ASSUME DispatchTyped, GaugeInv, NEW r \in Requests, Releases(r) PROVE GaugeInv'
<1>1. ASSUME NEW p \in Pairs PROVE GaugeInvAt(p)'
  <2>1. GaugeInvAt(p)
    BY GaugeInvIsPointwise
  <2>2. CASE p # Pair(r) \/ q[r].claim = Never
    BY <2>1, <2>2, ReleaseElsewhere, UntouchedKeeps DEF Releases
  <2>3. CASE p = Pair(r) /\ q[r].claim # Never
    BY <2>1, <2>3, ReleaseCovers, ReleaseLost DEF Releases
  <2> QED
    BY <2>2, <2>3
<1> QED
  BY <1>1 DEF GaugeInv, GaugeInvAt, SlotsReached, ClaimsCovered, WinnersBounded, SlotsHeld

(* Slots and claims run out with the clock, at the same times. *)
LEMMA TickGauge ==
    ASSUME DispatchTyped, GaugeInv, Tick PROVE GaugeInv'
<1>1. /\ now \in Nat /\ now' = now + 1 /\ UNCHANGED <<gauge, q, late, lost>>
      /\ gauge \in [Pairs -> SUBSET Slots] /\ q \in [Requests -> States]
  BY DispatchConstants DEF DispatchTyped, Tick, histVars
<1>2. ASSUME NEW p \in Pairs PROVE GaugeInvAt(p)'
  <2>1. GaugeInvAt(p) /\ late[p] \in Nat /\ lost[p] \in Nat
    BY GaugeInvIsPointwise DEF DispatchTyped
  <2>2. \A s \in gauge'[p] : Comes(q'[s.by], p)
    BY <1>1, <2>1, Zenon DEF GaugeInvAt
  <2>3. ASSUME NEW t \in Nat, t >= now'
        PROVE  Cardinality(Claimants(p, t)') <= Cardinality(LiveAt(p, t)') + late'[p]
    <3>1. Claimants(p, t)' = Claimants(p, t) /\ LiveAt(p, t)' = LiveAt(p, t)
      BY <1>1 DEF Claimants, LiveAt
    <3>2. t >= now
      BY <1>1, <2>3
    <3>3. Cardinality(Claimants(p, t)) <= Cardinality(LiveAt(p, t)) + late[p]
      BY <2>1, <3>2, Zenon DEF GaugeInvAt
    <3> QED
      BY <1>1, <3>1, <3>3
  <2>4. Cardinality(Winners(p)') <= 1 + late'[p]
    <3>1. Winners(p)' \subseteq Winners(p)
      <4>1. \A x \in Requests : q[x].claim \in Int
        BY <1>1 DEF States, Never
      <4> QED
        BY <1>1, <4>1 DEF Winners
    <3>2. /\ Cardinality(Winners(p)') <= Cardinality(Winners(p)) /\ Cardinality(Winners(p)) \in Nat
          /\ Cardinality(Winners(p)') \in Nat
      BY <3>1, GaugeFinite, FS_Subset, FS_CardinalityType
    <3>3. Cardinality(Winners(p)) <= 1 + late[p]
      BY <2>1 DEF GaugeInvAt
    <3> QED
      BY <1>1, <2>1, <3>2, <3>3
  <2>5. Cardinality(LiveAt(p, now)') <= Cardinality(Holders(p)') + lost'[p]
    <3>1. LiveAt(p, now)' \subseteq LiveAt(p, now)
      <4>1. \A s \in gauge[p] : s.until \in Nat
        BY <1>1 DEF Slots
      <4> QED
        BY <1>1, <4>1 DEF LiveAt
    <3>2. /\ Cardinality(LiveAt(p, now)') <= Cardinality(LiveAt(p, now))
          /\ Cardinality(LiveAt(p, now)) \in Nat /\ Cardinality(LiveAt(p, now)') \in Nat
      BY <3>1, GaugeFinite, FS_Subset, FS_CardinalityType
    <3>3. Holders(p)' = Holders(p) /\ Cardinality(Holders(p)) \in Nat
      BY <1>1, GaugeFinite DEF Holders
    <3>4. Cardinality(LiveAt(p, now)) <= Cardinality(Holders(p)) + lost[p]
      BY <2>1 DEF GaugeInvAt
    <3> QED
      BY <1>1, <2>1, <3>2, <3>3, <3>4
  <2> QED
    BY <1>1, <2>2, <2>3, <2>4, <2>5 DEF GaugeInvAt
<1> QED
  BY <1>2 DEF GaugeInv, GaugeInvAt, SlotsReached, ClaimsCovered, WinnersBounded, SlotsHeld

-----------------------------------------------------------------------------
(* The health rows *)

(* A failure leaves a row a row, and a closed one closed unless it is hard. *)
LEMMA FailureRow ==
    ASSUME NEW h \in HealthRow, NEW c \in Codes, NEW at \in Nat
    PROVE  /\ RecordFailure(h, c, at) \in HealthRow
           /\ c \notin Hard => RecordFailure(h, c, at).state = h.state
<1>1. CASE c \in Soft
  <2>1. PICK n \in Nat : RecordFailure(h, c, at) = [h EXCEPT !.limitedUntil = n]
    <3>1. c \notin Hard /\ at + (IF c = "QUOTA_EXHAUSTED" THEN QuotaPark ELSE RateLimitPark) \in Nat
      BY <1>1, BreakerConstants DEF Soft, Hard
    <3> QED
      BY <1>1, <3>1 DEF RecordFailure
  <2> QED
    BY <2>1 DEF HealthRow
<1>2. CASE c \in Hard
  <2>1. PICK n \in Nat, s \in {"open", "closed"}, o \in Nat \cup {Never} :
            RecordFailure(h, c, at) = [h EXCEPT !.failures = n, !.state = s, !.openedAt = o]
    <3>1. c \notin Soft /\ h.failures + 1 \in Nat /\ h.openedAt \in Nat \cup {Never}
      BY <1>2 DEF Soft, Hard, HealthRow
    <3>2. CASE c = "AUTH" \/ h.state = "halfOpen" \/ h.failures + 1 >= Threshold
      <4>1. RecordFailure(h, c, at)
                = [h EXCEPT !.failures = h.failures + 1, !.state = "open", !.openedAt = at]
        BY <1>2, <3>1, <3>2 DEF RecordFailure
      <4> QED
        BY <3>1, <4>1
    <3>3. CASE ~(c = "AUTH" \/ h.state = "halfOpen" \/ h.failures + 1 >= Threshold)
      <4>1. RecordFailure(h, c, at)
                = [h EXCEPT !.failures = h.failures + 1, !.state = "closed",
                            !.openedAt = h.openedAt]
        BY <1>2, <3>1, <3>3 DEF RecordFailure
      <4> QED
        BY <3>1, <4>1
    <3> QED
      BY <3>2, <3>3
  <2> QED
    BY <1>2, <2>1 DEF HealthRow
<1>3. CASE c \notin Soft /\ c \notin Hard
  BY <1>3 DEF RecordFailure
<1> QED
  BY <1>1, <1>2, <1>3

HealthInv ==
    /\ health \in [Pairs -> HealthRow] /\ healed \in [Pairs -> BOOLEAN]
    /\ HealedStaysClosed

(* One row is written, and nothing is called healed that it leaves open. *)
LEMMA RowWritten ==
    ASSUME HealthInv, NEW p \in Pairs, NEW row \in HealthRow,
           health' = [health EXCEPT ![p] = row], healed' \in [Pairs -> BOOLEAN],
           \A x \in Pairs : x # p => healed'[x] = healed[x],
           healed'[p] => row.state = "closed"
    PROVE  HealthInv'
<1>1. /\ health' \in [Pairs -> HealthRow] /\ health'[p] = row
      /\ \A x \in Pairs : x # p => health'[x] = health[x]
  BY DEF HealthInv
<1>2. \A x \in Pairs : healed'[x] => health'[x].state = "closed"
  BY <1>1 DEF HealthInv, HealedStaysClosed
<1> QED
  BY <1>1, <1>2 DEF HealthInv, HealedStaysClosed

LEMMA HealthSame == ASSUME HealthInv, UNCHANGED <<health, healed>> PROVE HealthInv'
BY DEF HealthInv, HealedStaysClosed

LEMMA BlameHealth ==
    ASSUME HealthInv, now \in Nat, NEW p \in Pairs, NEW c \in Codes, Blame(p, c) PROVE HealthInv'
<1>1. /\ health[p] \in HealthRow /\ healed \in [Pairs -> BOOLEAN]
      /\ healed[p] => health[p].state = "closed"
  BY DEF HealthInv, HealedStaysClosed
<1>2. PICK row \in HealthRow : /\ row = RecordFailure(health[p], c, now)
                               /\ c \notin Hard => row.state = health[p].state
  BY <1>1, FailureRow
<1>3. health' = [health EXCEPT ![p] = row]
  BY <1>2 DEF Blame, Write
<1>4. healed' = [healed EXCEPT ![p] = healed[p] /\ c \notin Hard]
  BY DEF Blame
<1>5. /\ healed' \in [Pairs -> BOOLEAN] /\ (healed'[p] => healed[p] /\ c \notin Hard)
      /\ \A x \in Pairs : x # p => healed'[x] = healed[x]
  BY <1>1, <1>4
<1>6. healed'[p] => row.state = "closed"
  BY <1>1, <1>2, <1>5
<1> QED
  BY <1>3, <1>5, <1>6, RowWritten

LEMMA SuccessHealth ==
    ASSUME HealthInv, NEW p \in Pairs, health' = [health EXCEPT ![p] = RecordSuccess(health[p])],
           healed' = [healed EXCEPT ![p] = TRUE]
    PROVE  HealthInv'
<1>1. RecordSuccess(health[p]) \in HealthRow /\ RecordSuccess(health[p]).state = "closed"
  BY DEF RecordSuccess, Blank, HealthRow
<1>2. healed' \in [Pairs -> BOOLEAN] /\ \A x \in Pairs : x # p => healed'[x] = healed[x]
  BY DEF HealthInv
<1> QED
  BY <1>1, <1>2, RowWritten

LEMMA HealthStep ==
    ASSUME DispatchTyped, HealedStaysClosed, NEW r \in Requests,
           Proceed(r) \/ Upstream(r) \/ Client(r)
    PROVE  HealthInv'
<1>1. HealthInv /\ now \in Nat /\ RequestInv(q[r])
  BY DispatchConstants DEF HealthInv, DispatchTyped
<1>2. CASE MarkHalfOpen(r)
  <2>1. q[r].pc \in Attempting
    BY <1>2 DEF MarkHalfOpen, At, Attempting
  <2>2. Pair(r) \in Pairs /\ UNCHANGED healed
    BY <1>2, <2>1, StandsAt DEF MarkHalfOpen
  <2>3. CASE UNCHANGED health
    BY <1>1, <2>2, <2>3, HealthSame
  <2>4. CASE health' = [health EXCEPT ![Pair(r)] = IF health[Pair(r)].state # "closed"
                                THEN [health[Pair(r)] EXCEPT !.state = "halfOpen"] ELSE health[Pair(r)]]
    <3>1. PICK row : row = IF health[Pair(r)].state # "closed"
                           THEN [health[Pair(r)] EXCEPT !.state = "halfOpen"] ELSE health[Pair(r)]
      OBVIOUS
    <3>2. row \in HealthRow /\ (health[Pair(r)].state = "closed" => row = health[Pair(r)])
      BY <1>1, <2>2, <3>1 DEF HealthInv, HealthRow
    <3>3. healed[Pair(r)] => row.state = "closed"
      BY <2>2, <3>2 DEF HealedStaysClosed
    <3>4. health' = [health EXCEPT ![Pair(r)] = row]
      BY <2>4, <3>1
    <3>5. healed' \in [Pairs -> BOOLEAN]
      BY <1>1, <2>2 DEF HealthInv
    <3> QED
      BY <1>1, <2>2, <3>2, <3>3, <3>4, <3>5, RowWritten
  <2> QED
    BY <1>2, <2>3, <2>4 DEF MarkHalfOpen, Write
<1>3. CASE CloseAtCommit(r)
  <2>1. q[r].pc \in Attempting
    BY <1>3 DEF CloseAtCommit, At, Attempting
  <2>2. Pair(r) \in Pairs
    BY <2>1, StandsAt
  <2> QED
    BY <1>1, <1>3, <2>2, SuccessHealth, HealthSame DEF CloseAtCommit, Write
<1>4. CASE RecordError(r)
  <2>1. q[r].pc = "record" /\ q[r].pc \in Attempting
    BY <1>4 DEF RecordError, At, Attempting
  <2>2. Pair(r) \in Pairs /\ q[r].err \in Codes
    BY <1>1, <2>1, StandsAt DEF RequestInv, Answer
  <2> QED
    BY <1>1, <1>4, <2>2, BlameHealth, HealthSame DEF RecordError
<1>5. CASE Succeed(r)
  <2>1. q[r].pc \in Attempting
    BY <1>5 DEF Succeed, At, Attempting
  <2>2. Pair(r) \in Pairs
    BY <2>1, StandsAt
  <2>3. \/ UNCHANGED <<health, healed>>
        \/ /\ health' = [health EXCEPT ![Pair(r)] = RecordSuccess(health[Pair(r)])]
           /\ healed' = [healed EXCEPT ![Pair(r)] = TRUE]
    BY <1>5 DEF Succeed
  <2> QED
    BY <1>1, <2>2, <2>3, SuccessHealth, HealthSame
<1>6. CASE RecordFailed(r)
  <2>1. q[r].pc = "fail" /\ q[r].pc \in Attempting
    BY <1>6 DEF RecordFailed, At, Attempting
  <2>2. Pair(r) \in Pairs /\ q[r].err \in Codes
    BY <1>1, <2>1, StandsAt DEF RequestInv, Answer, Failing
  <2>3. Blame(Pair(r), q[r].err) \/ UNCHANGED <<health, healed>>
    BY <1>6 DEF RecordFailed
  <2> QED
    BY <1>1, <2>2, <2>3, BlameHealth, HealthSame
<1>7. CASE \/ Rank(r) \/ NextCandidate(r) \/ AcquireProbe(r) \/ Cancelled(r) \/ Unwind(r)
           \/ Finally(r) \/ Upstream(r) \/ Client(r)
  <2>1. UNCHANGED <<health, healed>>
    BY <1>7 DEF Rank, NextCandidate, AcquireProbe, Cancelled, Unwind, Finally, Upstream,
       RouteFails, Commit, End, ErrorEvent, Fails, Refreshed, Client, Begin, CloseUnstarted,
       Abort, Abandon, Stall, ReadOn, histVars
  <2> QED
    BY <1>1, <2>1, HealthSame
<1> QED
  BY <1>2, <1>3, <1>4, <1>5, <1>6, <1>7 DEF Proceed

-----------------------------------------------------------------------------
(* Time *)

(* Nothing but the failing write of a success brings a TIMEOUT after `end`. *)
Steady(st, u) ==
    \/ u.err = NoCode \/ ~u.unsaved \/ u.after = "over"
    \/ /\ st.unsaved /\ u.err = st.err /\ u.startedAt = st.startedAt
       /\ st.after # "over"

LEMMA OverSteady == ASSUME NEW st, NEW v PROVE Steady(st, Over(v)) /\ Steady(st, Exhausted(v))
BY DEF Steady, Exhausted, Over, Idle

(* A step of an attempt that has not come to its end. *)
LEMMA UnsavedNot ==
    ASSUME NEW st, RequestInv(st),
           st.pc \in {"idle", "rank", "probe", "mark", "refresh", "send", "close", "record"}
    PROVE  st \in States /\ st.unsaved = FALSE
BY DEF RequestInv, Answer, Quiet, States

LEMMA EarlySteady ==
    ASSUME DispatchTyped, NEW r \in Requests,
           \/ Begin(r) \/ Rank(r) \/ AcquireProbe(r) \/ MarkHalfOpen(r) \/ Cancelled(r)
           \/ CloseAtCommit(r) \/ RecordError(r) \/ Upstream(r)
    PROVE  Steady(q[r], q'[r])
<1>1. q \in [Requests -> States] /\ RequestInv(q[r])
  BY DEF DispatchTyped
<1>2. CASE Begin(r) \/ Rank(r)
  <2>1. q[r].pc \in {"idle", "rank"}
    BY <1>2 DEF Begin, Rank, At
  <2>2. q[r].unsaved = FALSE
    BY <1>1, <2>1, UnsavedNot
  <2>3. CASE q' = [q EXCEPT ![r] = Exhausted(@)]
    BY <1>1, <2>3, OverSteady
  <2>4. CASE q' = [q EXCEPT ![r].pc = "rank", ![r].startedAt = now, ![r].snap = health]
    <3>1. q'[r] = [q[r] EXCEPT !.pc = "rank", !.startedAt = now, !.snap = health]
      BY <1>1, <2>4
    <3> QED
      BY <1>1, <2>2, <3>1 DEF Steady, States
  <2>5. ASSUME NEW order, NEW e, q' = [q EXCEPT ![r].pc = "next", ![r].snap = <<>>,
                                                ![r].order = order, ![r].eager = e]
        PROVE  Steady(q[r], q'[r])
    <3>1. q'[r] = [q[r] EXCEPT !.pc = "next", !.snap = <<>>, !.order = order, !.eager = e]
      BY <1>1, <2>5
    <3> QED
      BY <1>1, <2>2, <3>1 DEF Steady, States
  <2> QED
    BY <1>2, <2>3, <2>4, <2>5 DEF Begin, Rank
<1>3. ASSUME NEW c, q' = [q EXCEPT ![r] = Caught(r, c)], q[r].unsaved = FALSE
      PROVE  Steady(q[r], q'[r])
  <2>1. q'[r] = Caught(r, c)
    BY <1>1, <1>3
  <2>2. Catch(q[r], c, q'[r])
    BY <2>1, CaughtIsCatch
  <2> QED
    BY <1>1, <1>3, <2>2, ZenonT(60) DEF Catch, Steady, States
<1>4. CASE AcquireProbe(r) \/ MarkHalfOpen(r) \/ RecordError(r)
  <2>1. q[r].unsaved = FALSE
    BY <1>1, <1>4, UnsavedNot DEF AcquireProbe, MarkHalfOpen, RecordError, At
  <2>2. ASSUME NEW c, NEW w, NEW l, q' = [q EXCEPT ![r].claim = c, ![r].won = w, ![r].pc = l]
        PROVE  Steady(q[r], q'[r])
    <3>1. q'[r] = [q[r] EXCEPT !.claim = c, !.won = w, !.pc = l]
      BY <1>1, <2>2
    <3> QED
      BY <1>1, <2>1, <3>1 DEF Steady, States
  <2>3. ASSUME NEW b, q' = [q EXCEPT ![r].pc = "send", ![r].attempts = @ + 1, ![r].probing = b]
        PROVE  Steady(q[r], q'[r])
    <3>1. q'[r] = [q[r] EXCEPT !.pc = "send", !.attempts = @ + 1, !.probing = b]
      BY <1>1, <2>3
    <3> QED
      BY <1>1, <2>1, <3>1 DEF Steady, States
  <2>4. CASE q' = [q EXCEPT ![r].pc = "finally", ![r].after = "over"]
    BY <1>1, <2>4 DEF Steady, States
  <2>5. CASE AcquireProbe(r)
    BY <2>2, <2>5 DEF AcquireProbe
  <2>6. CASE MarkHalfOpen(r)
    BY <2>3, <2>4, <2>6 DEF MarkHalfOpen
  <2>7. CASE RecordError(r)
    BY <2>4, <2>7 DEF RecordError
  <2> QED
    BY <1>4, <2>5, <2>6, <2>7
<1>5. CASE Cancelled(r) \/ CloseAtCommit(r)
  <2>1. q[r].unsaved = FALSE
    BY <1>1, <1>5, UnsavedNot DEF Cancelled, CloseAtCommit, At
  <2>2. CASE \E c : q' = [q EXCEPT ![r] = Caught(r, c)]
    BY <2>1, <2>2, <1>3
  <2>3. CASE q' = [q EXCEPT ![r].pc = "send", ![r].probing = FALSE, ![r].closed = TRUE]
    BY <1>1, <2>1, <2>3 DEF Steady, States
  <2> QED
    BY <1>5, <2>2, <2>3 DEF Cancelled, CloseAtCommit
<1>6. CASE Upstream(r)
  <2>1. q[r].unsaved = FALSE
    BY <1>1, <1>6, UnsavedNot DEF Upstream, RouteFails, Commit, End, ErrorEvent, Fails, Refreshed, At
  <2>2. CASE \E c : q' = [q EXCEPT ![r] = Caught(r, c)]
    BY <2>1, <2>2, <1>3
  <2>r. CASE RouteFails(r)
    <3>1. q'[r] = [q[r] EXCEPT !.pc = "finally", !.after = "over"]
      BY <1>1, <2>r DEF RouteFails
    <3> QED
      BY <1>1, <3>1 DEF Steady, States
  <2>c. CASE Commit(r)
    <3>1. PICK l, f : q'[r] = [q[r] EXCEPT !.committed = TRUE, !.from = f, !.pc = l]
      BY <1>1, <2>c DEF Commit
    <3> QED
      BY <1>1, <2>1, <3>1 DEF Steady, States
  <2>e. CASE End(r)
    <3>1. PICK n, f : q'[r] = [q[r] EXCEPT !.pc = "ended", !.from = f, !.ends = n]
      BY <1>1, <2>e DEF End
    <3> QED
      BY <1>1, <2>1, <3>1 DEF Steady, States
  <2>f. CASE Refreshed(r)
    <3>1. \/ q'[r] = [q[r] EXCEPT !.pc = "send"]
          \/ \E c : q'[r] = [q[r] EXCEPT !.pc = "fail", !.err = c]
      BY <1>1, <2>f DEF Refreshed
    <3> QED
      BY <1>1, <2>1, <3>1, ZenonT(60) DEF Steady, States
  <2>4. ASSUME NEW c, q' = [q EXCEPT ![r].pc = "record", ![r].err = c, ![r].committed = TRUE,
                            ![r].status = c, ![r].errors = @ + 1, ![r].from = @ \cup {q[r].idx}]
        PROVE  Steady(q[r], q'[r])
    <3>1. PICK n, f : q'[r] = [q[r] EXCEPT !.pc = "record", !.err = c, !.committed = TRUE,
                                           !.status = c, !.errors = n, !.from = f]
      BY <1>1, <2>4
    <3> QED
      BY <1>1, <2>1, <3>1 DEF Steady, States
  <2> QED
    BY <1>6, <2>2, <2>4, <2>r, <2>c, <2>e, <2>f DEF Upstream, ErrorEvent, Fails
<1> QED
  BY <1>2, <1>4, <1>5, <1>6

(* A step after it. *)
LEMMA LateSteady ==
    ASSUME DispatchTyped, NEW r \in Requests,
           \/ NextCandidate(r) \/ RecordFailed(r) \/ Unwind(r) \/ Finally(r)
           \/ CloseUnstarted(r) \/ Abort(r) \/ Abandon(r) \/ Stall(r) \/ ReadOn(r)
    PROVE  Steady(q[r], q'[r])
<1>1. q \in [Requests -> States] /\ RequestInv(q[r]) /\ q[r] \in States
  BY DEF DispatchTyped
<1>2. ASSUME NEW v, q' = [q EXCEPT ![r] = Over(v)] \/ q' = [q EXCEPT ![r] = Exhausted(v)]
      PROVE  Steady(q[r], q'[r])
  BY <1>1, <1>2, OverSteady
<1>3. ASSUME /\ q'[r].err = q[r].err /\ q'[r].startedAt = q[r].startedAt
             /\ q'[r].unsaved = q[r].unsaved /\ (q'[r].after = q[r].after \/ q'[r].after = "over"
                                                  \/ q[r].after # "over")
      PROVE  Steady(q[r], q'[r])
  BY <1>1, <1>3 DEF Steady, States
<1>4. CASE CloseUnstarted(r)
  BY <1>2, <1>4 DEF CloseUnstarted
<1>5. CASE Unwind(r) \/ Abort(r) \/ Abandon(r) \/ Stall(r) \/ ReadOn(r)
  <2>1. \/ q'[r] = [q[r] EXCEPT !.pc = "finally", !.after = "over"]
        \/ q'[r] = [q[r] EXCEPT !.aborted = TRUE, !.eager = FALSE]
        \/ q'[r] = [q[r] EXCEPT !.pc = "finally", !.after = "over", !.client = "left"]
        \/ \E c : q'[r] = [q[r] EXCEPT !.client = c]
    BY <1>1, <1>5 DEF Unwind, Abort, Abandon, Stall, ReadOn
  <2>2. /\ q'[r].err = q[r].err /\ q'[r].startedAt = q[r].startedAt
        /\ q'[r].unsaved = q[r].unsaved /\ q'[r].after \in {q[r].after, "over"}
    BY <1>1, <2>1, ZenonT(60) DEF States
  <2> QED
    BY <1>3, <2>2
<1>6. CASE RecordFailed(r)
  <2>1. q[r].after = "next"
    BY <1>1, <1>6 DEF RecordFailed, At, RequestInv, Answer
  <2>2. \/ \E n, c : q'[r] = [q[r] EXCEPT !.pc = "told", !.status = c, !.errors = n]
        \/ \E a : q'[r] = [q[r] EXCEPT !.pc = "finally", !.after = a]
    BY <1>1, <1>6 DEF RecordFailed
  <2>3. /\ q'[r].err = q[r].err /\ q'[r].startedAt = q[r].startedAt
        /\ q'[r].unsaved = q[r].unsaved
    BY <1>1, <2>2, ZenonT(60) DEF States
  <2> QED
    BY <1>3, <2>1, <2>3
<1>7. CASE NextCandidate(r)
  <2>1. CASE \E v : q' = [q EXCEPT ![r] = Over(v)] \/ q' = [q EXCEPT ![r] = Exhausted(v)]
    BY <1>2, <2>1
  <2>2. CASE \E l, n : q' = [q EXCEPT ![r].pc = l, ![r].attempts = n, ![r].own = q[r].idx > 1]
    <3>0. PICK l, n : q' = [q EXCEPT ![r].pc = l, ![r].attempts = n, ![r].own = q[r].idx > 1]
      BY <2>2
    <3>1. q'[r] = [q[r] EXCEPT !.pc = l, !.attempts = n, !.own = q[r].idx > 1]
      BY <1>1, <3>0
    <3>2. /\ q'[r].err = q[r].err /\ q'[r].startedAt = q[r].startedAt
          /\ q'[r].unsaved = q[r].unsaved /\ q'[r].after = q[r].after
      BY <1>1, <3>1 DEF States
    <3> QED
      BY <1>3, <3>2
  <2> QED
    BY <1>1, <1>7, <2>1, <2>2 DEF NextCandidate
<1>8. CASE Finally(r)
  <2>1. CASE q[r].after = "over"
    BY <1>2, <1>8, <2>1 DEF Finally
  <2>2. CASE q[r].after = "final"
    BY <1>2, <1>8, <2>2 DEF Finally
  <2>3. CASE q[r].after = "next"
    <3>1. q' = [q EXCEPT ![r].pc = "next", ![r].idx = @ + 1, ![r].own = FALSE,
                        ![r].eager = FALSE, ![r].claim = Never, ![r].won = FALSE,
                        ![r].probing = FALSE, ![r].committed = FALSE, ![r].closed = FALSE,
                        ![r].retried = FALSE]
      BY <1>8, <2>3 DEF Finally
    <3>2. PICK u : u = [q[r] EXCEPT !.pc = "next", !.idx = q[r].idx + 1, !.own = FALSE,
                        !.eager = FALSE, !.claim = Never, !.won = FALSE,
                        !.probing = FALSE, !.committed = FALSE, !.closed = FALSE,
                        !.retried = FALSE]
      OBVIOUS
    <3>3. q' = [q EXCEPT ![r] = u]
      BY <1>1, <3>1, <3>2, ZenonT(60)
    <3>4. u.err = q[r].err /\ u.startedAt = q[r].startedAt /\ u.unsaved = q[r].unsaved
      BY <1>1, <3>2 DEF States
    <3>5. q'[r] = u
      BY <1>1, <3>3
    <3> QED
      BY <1>3, <2>3, <3>4, <3>5
  <2>4. q[r].after \in {"next", "final", "over"}
    BY <1>1 DEF States
  <2> QED
    BY <2>1, <2>2, <2>3, <2>4
<1> QED
  BY <1>4, <1>5, <1>6, <1>7, <1>8

LEMMA DoomedStep ==
    ASSUME DispatchTyped, DoomedIsDue, NEW r \in Requests, Proceed(r) \/ Upstream(r) \/ Client(r),
           LocalTo(r), UNCHANGED now
    PROVE  DoomedIsDue'
<1>1. q \in [Requests -> States] /\ NoCode # "TIMEOUT"
  BY DispatchConstants DEF DispatchTyped, Codes
<1>2. CASE Steady(q[r], q'[r])
  BY <1>1, <1>2 DEF Steady, DoomedIsDue, Due, LocalTo
<1>3. CASE Succeed(r)
  <2>1. CASE q' = [q EXCEPT ![r].pc = "finally", ![r].after = "over", ![r].status = "200"]
    <3>1. q'[r] = [q[r] EXCEPT !.pc = "finally", !.after = "over", !.status = "200"]
      BY <1>1, <2>1
    <3>2. q'[r].after = "over"
      BY <1>1, <3>1 DEF States
    <3> QED
      BY <1>2, <3>2 DEF Steady
  <2>2. ASSUME NEW c \in Thrown(r), q' = [q EXCEPT ![r] = [Caught(r, c) EXCEPT !.unsaved = TRUE]]
        PROVE  DoomedIsDue'
    <3>1. PICK u : u = Caught(r, c)
      OBVIOUS
    <3>2. Catch(q[r], c, u) /\ q'[r] = [u EXCEPT !.unsaved = TRUE] /\ c # "AUTH" /\ c \in Codes
      BY <1>1, <2>2, <3>1, CaughtIsCatch, ThrownCodes
    <3>3. u \in States /\ u.startedAt = q[r].startedAt /\ (u.after = "over" \/ u.err = c)
      <4>0. q[r] \in States /\ {"finally", "fail"} \subseteq Attempting
        BY <1>1 DEF Attempting
      <4>1. CASE u = [q[r] EXCEPT !.pc = "finally", !.after = "over"]
        <5>1. u \in States
          BY <4>0, <4>1 DEF States
        <5> QED
          BY <4>0, <4>1, <5>1 DEF States
      <4>2. CASE u = [q[r] EXCEPT !.pc = "fail", !.err = c]
        <5>1. u \in States
          BY <3>2, <4>0, <4>2 DEF States
        <5> QED
          BY <4>0, <4>2, <5>1 DEF States
      <4> QED
        BY <3>2, <4>1, <4>2 DEF Catch
    <3>4. /\ q'[r].startedAt = q[r].startedAt
          /\ q'[r].after = "over" \/ q'[r].err = c
      BY <3>2, <3>3 DEF States
    <3>5. c = "TIMEOUT" => Due(r)
      BY <2>2 DEF Thrown
    <3> QED
      BY <1>1, <3>4, <3>5 DEF DoomedIsDue, Due, LocalTo
  <2> QED
    BY <1>3, <2>1, <2>2 DEF Succeed
<1> QED
  BY <1>2, <1>3, EarlySteady, LateSteady DEF Proceed, Client

-----------------------------------------------------------------------------
(* Together *)

DispatchInv ==
    DispatchTyped /\ DoomedIsDue /\ LoadIsInFlight /\ GaugeInv /\ HealedStaysClosed

LEMMA DispatchStart == Init => DispatchInv
<1> SUFFICES ASSUME Init PROVE DispatchInv
  OBVIOUS
<1>1. DispatchTyped
  <2>1. \A r \in Requests : q[r] = Idle /\ RequestInv(q[r])
    BY IdleInv DEF Init
  <2>2. q \in [Requests -> States]
    BY IdleInv DEF Init, RequestInv
  <2>3. gauge \in [Pairs -> SUBSET Slots] /\ \A p \in Pairs : IsFiniteSet(gauge[p])
    BY FS_EmptySet DEF Init
  <2> QED
    BY <2>1, <2>2, <2>3, DispatchConstants DEF Init, DispatchTyped
<1>2. ASSUME NEW r \in Requests, NEW p PROVE ~Claims(q[r], p) /\ ~Occupies(r, p)
  <2>1. q[r].claim = Never /\ q[r].order = <<>> /\ q[r].idx = 1
    BY DEF Init, Idle
  <2> QED
    BY <2>1 DEF Claims, Occupies, On, More
<1>3. LoadIsInFlight
  <2>1. \A p \in Pairs : {r \in Requests : Occupies(r, p)} = {} /\ load[p] = 0
    BY <1>2 DEF Init
  <2> QED
    BY <2>1, FS_EmptySet DEF LoadIsInFlight
<1>4. ASSUME NEW p \in Pairs PROVE GaugeInvAt(p)
  <2>1. gauge[p] = {} /\ late[p] = 0 /\ lost[p] = 0
    BY DEF Init
  <2>2. \A t : Claimants(p, t) = {} /\ LiveAt(p, t) = {}
    BY <1>2, <2>1 DEF Claimants, LiveAt
  <2>3. Winners(p) = {} /\ Holders(p) = {}
    BY <1>2 DEF Winners, Holders
  <2> QED
    BY <2>1, <2>2, <2>3, FS_EmptySet DEF GaugeInvAt
<1>5. HealedStaysClosed /\ DoomedIsDue
  BY DEF Init, HealedStaysClosed, DoomedIsDue, Idle
<1> QED
  BY <1>1, <1>3, <1>4, <1>5, GaugeInvIsPointwise DEF DispatchInv

LEMMA FaultsTyped ==
    ASSUME DispatchTyped, NEW r \in Requests, Proceed(r) \/ Upstream(r) \/ Client(r)
    PROVE  faults' \in 0..MaxFaults
<1>1. Fault \/ NoFault
  <2>1. CASE Upstream(r) \/ Client(r)
    BY <2>1 DEF NoFault, Upstream, RouteFails, Commit, End, ErrorEvent, Fails, Refreshed,
       Client, Begin, CloseUnstarted, Abort, Abandon, Stall, ReadOn, histVars
  <2>2. CASE Rank(r) \/ NextCandidate(r) \/ AcquireProbe(r) \/ Cancelled(r) \/ Unwind(r)
    BY <2>2 DEF NoFault, Rank, NextCandidate, AcquireProbe, Cancelled, Unwind, histVars
  <2>3. CASE MarkHalfOpen(r) \/ CloseAtCommit(r) \/ RecordError(r)
    BY <2>3 DEF NoFault, MarkHalfOpen, CloseAtCommit, RecordError
  <2>4. CASE Succeed(r) \/ RecordFailed(r)
    BY <2>4 DEF NoFault, Succeed, RecordFailed
  <2>5. CASE Finally(r)
    BY <2>5 DEF NoFault, Finally
  <2> QED
    BY <2>1, <2>2, <2>3, <2>4, <2>5 DEF Proceed
<1> QED
  BY <1>1, DispatchConstants DEF Fault, NoFault, DispatchTyped

(* A step of a request, once its effect on the gauges is known. *)
LEMMA RequestKeeps ==
    ASSUME DispatchInv, NEW r \in Requests, Proceed(r) \/ Upstream(r) \/ Client(r),
           LocalTo(r), LoadFollows(r), UNCHANGED now,
           gauge' \in [Pairs -> SUBSET Slots], \A p \in Pairs : IsFiniteSet(gauge'[p]),
           late' \in [Pairs -> Nat], lost' \in [Pairs -> Nat], GaugeInv'
    PROVE  DispatchInv'
<1>1. load' \in [Pairs -> Nat] /\ LoadIsInFlight'
  BY LoadStep DEF DispatchInv
<1>2. HealthInv' /\ faults' \in 0..MaxFaults
  BY HealthStep, FaultsTyped DEF DispatchInv
<1>3. \A x \in Requests : RequestInv(q'[x])
  BY DEF DispatchInv, DispatchTyped, LocalTo
<1>4. now' \in 0..MaxTime /\ q' \in [Requests -> States]
  BY DEF DispatchInv, DispatchTyped, LocalTo
<1>5. DoomedIsDue'
  BY DoomedStep DEF DispatchInv
<1> QED
  BY <1>1, <1>2, <1>3, <1>4, <1>5 DEF DispatchInv, DispatchTyped, HealthInv

LEMMA DispatchNext == DispatchInv /\ [Next]_vars => DispatchInv'
<1> SUFFICES ASSUME DispatchInv, [Next]_vars PROVE DispatchInv'
  OBVIOUS
<1>1. /\ DispatchTyped /\ DoomedIsDue /\ LoadIsInFlight /\ GaugeInv /\ HealedStaysClosed
      /\ gauge \in [Pairs -> SUBSET Slots] /\ \A p \in Pairs : IsFiniteSet(gauge[p])
      /\ late \in [Pairs -> Nat] /\ lost \in [Pairs -> Nat]
  BY DEF DispatchInv, DispatchTyped
<1>2. ASSUME NEW r \in Requests, Proceed(r) \/ Upstream(r) \/ Client(r) PROVE DispatchInv'
  <2>1. CASE ApartAction(r)
    <3>1. Apart(r) /\ UNCHANGED <<now, gauge, late, lost>>
      BY <1>1, <2>1, ApartStep
    <3>2. GaugeInv'
      BY <1>1, <3>1, ApartGauge
    <3> QED
      BY <1>1, <1>2, <3>1, <3>2, RequestKeeps DEF Apart
  <2>2. CASE AcquireProbe(r)
    <3>1. Acquires(r)
      BY <1>1, <2>2, AcquireStep
    <3>2. GaugeInv' /\ gauge' \in [Pairs -> SUBSET Slots] /\ \A p \in Pairs : IsFiniteSet(gauge'[p])
      BY <1>1, <3>1, AcquireGauge, AcquireTyped
    <3>3. LocalTo(r) /\ LoadFollows(r) /\ UNCHANGED <<now, late, lost>>
      BY <3>1 DEF Acquires
    <3> QED
      BY <1>1, <1>2, <3>2, <3>3, RequestKeeps
  <2>3. CASE Finally(r)
    <3>1. Releases(r)
      BY <1>1, <2>3, FinallyStep
    <3>2. /\ GaugeInv' /\ gauge' \in [Pairs -> SUBSET Slots]
          /\ \A p \in Pairs : IsFiniteSet(gauge'[p])
          /\ late' \in [Pairs -> Nat] /\ lost' \in [Pairs -> Nat]
      BY <1>1, <3>1, ReleaseGauge, ReleaseTyped
    <3>3. LocalTo(r) /\ LoadFollows(r) /\ UNCHANGED now
      BY <3>1 DEF Releases, Left
    <3> QED
      BY <1>2, <3>2, <3>3, RequestKeeps
  <2> QED
    BY <1>2, <2>1, <2>2, <2>3 DEF Proceed, Client, ApartAction, SilentAction
<1>3. CASE Tick
  <2>1. GaugeInv'
    BY <1>1, <1>3, TickGauge
  <2>2. now' \in 0..MaxTime
    BY <1>1, <1>3, DispatchConstants DEF Tick, DispatchTyped
  <2>3. LoadIsInFlight' /\ HealedStaysClosed'
    BY <1>1, <1>3 DEF Tick, histVars, LoadIsInFlight, Occupies, On, More, Pair, Candidate,
       HealedStaysClosed
  <2>4. DoomedIsDue'
    <3>1. now \in Nat /\ now' = now + 1 /\ q' = q /\ \A r \in Requests : q[r].startedAt \in Nat
      BY <1>1, <1>3, DispatchConstants DEF Tick, DispatchTyped, States
    <3> QED
      BY <1>1, <3>1, DispatchConstants DEF DoomedIsDue, Due
  <2> QED
    BY <1>1, <1>3, <2>1, <2>2, <2>3, <2>4 DEF DispatchInv, DispatchTyped, Tick, histVars
<1>4. CASE UNCHANGED vars
  <2>1. UNCHANGED <<now, health, gauge, load, q, faults, healed, late, lost>>
    BY <1>4 DEF vars
  <2>2. GaugeInv'
    BY <1>1, <2>1 DEF GaugeInv, SlotsReached, ClaimsCovered, WinnersBounded, SlotsHeld,
       Claimants, LiveAt, Winners, Holders
  <2>3. LoadIsInFlight' /\ HealedStaysClosed'
    BY <1>1, <2>1 DEF LoadIsInFlight, Occupies, On, More, Pair, Candidate, HealedStaysClosed
  <2>4. DoomedIsDue'
    BY <1>1, <2>1 DEF DoomedIsDue, Due
  <2> QED
    BY <1>1, <2>1, <2>2, <2>3, <2>4 DEF DispatchInv, DispatchTyped
<1> QED
  BY <1>2, <1>3, <1>4 DEF Next

LEMMA DispatchInvariant == Spec => []DispatchInv
BY DispatchStart, DispatchNext, PTL DEF Spec

(* The clock, the health rows, the gauges and the load registry have their  *)
(* types, and every request is at one of the awaits of dispatch, with no    *)
(* more attempts made than settings.maxAttempts allows, whatever the other  *)
(* requests, the upstreams and the client do.                               *)
THEOREM DispatchTypeCorrect == Spec => []TypeOK
<1>1. DispatchInv => TypeOK
  <2> SUFFICES ASSUME DispatchInv PROVE TypeOK
    OBVIOUS
  <2>1. \A p \in Pairs : \A s \in gauge[p] : s.by \in Requests /\ s.until \in Nat
    BY DEF DispatchInv, DispatchTyped, Slots
  <2>2. ASSUME NEW r \in Requests
        PROVE  /\ q[r].pc \in Attempting \cup {"idle", "rank", "next", "done"}
               /\ q[r].err \in Codes \cup {NoCode}
               /\ q[r].attempts \in 0..MaxAttempts
               /\ \A i \in DOMAIN q[r].order : q[r].order[i].pair \in Pairs
    <3>1. q[r] \in States
      BY DEF DispatchInv, DispatchTyped
    <3>2. q[r].order \in Seq(Candidates)
      BY <3>1 DEF States
    <3>3. \A i \in DOMAIN q[r].order : q[r].order[i].pair \in Pairs
      BY <3>2, PairTyped
    <3> QED
      BY <3>1, <3>3 DEF States
  <2> QED
    BY <2>1, <2>2 DEF DispatchInv, DispatchTyped, TypeOK
<1> QED
  BY <1>1, DispatchInvariant, PTL

(* The load registry counts exactly the requests in flight on a pair: the   *)
(* claim made at rank time and the one of each later attempt are freed once *)
(* each, whether the attempt's finally, the generator's close or the abort  *)
(* listener gets to it.                                                     *)
THEOREM LoadIsInFlightHolds == Spec => []LoadIsInFlight
<1>1. DispatchInv => LoadIsInFlight
  BY DEF DispatchInv
<1> QED
  BY <1>1, DispatchInvariant, PTL

(* What the properties speak of, in the terms of the invariant. *)
LEMMA GaugeTerms ==
    ASSUME DispatchTyped, NEW p \in Pairs
    PROVE  /\ {r \in Requests : q[r].won /\ On(r, p) /\ q[r].claim > now} = Winners(p)
           /\ {r \in Requests : q[r].claim # Never /\ On(r, p)} = Holders(p)
           /\ LiveSlots(p) = LiveAt(p, now)
<1>1. \A r \in Requests : q[r].won => q[r].claim # Never
  BY DEF DispatchTyped, RequestInv, Walk
<1>2. \A r \in Requests : Claims(q[r], p) <=> q[r].claim # Never /\ On(r, p)
  BY DEF Claims, On, More, Pair, Candidate
<1>3. {r \in Requests : q[r].claim # Never /\ On(r, p)} = Holders(p)
  BY <1>2 DEF Holders
<1>4. {r \in Requests : q[r].won /\ On(r, p) /\ q[r].claim > now} = Winners(p)
  BY <1>1, <1>2 DEF Winners
<1> QED
  BY <1>3, <1>4 DEF LiveSlots, LiveAt

(* The requests that were let in to test a recovering pair, and whose slot  *)
(* of the probe gauge has not run out, are one, plus one for each request   *)
(* that released a slot after PROBE_TTL_MS had taken its own.               *)
THEOREM ProbesBoundedHolds == Spec => []ProbesBounded
<1>1. DispatchInv => ProbesBounded
  BY GaugeTerms DEF DispatchInv, GaugeInv, WinnersBounded, ProbesBounded
<1> QED
  BY <1>1, DispatchInvariant, PTL

(* The probe gauge of a pair has no more live slots than requests that      *)
(* acquired one and have not released it, but for releases that were lost:  *)
(* a request refused the probe gives back its slot too.                     *)
THEOREM ProbeSlotsAccountedHolds == Spec => []ProbeSlotsAccounted
<1>1. DispatchInv => ProbeSlotsAccounted
  BY GaugeTerms DEF DispatchInv, GaugeInv, SlotsHeld, ProbeSlotsAccounted
<1> QED
  BY <1>1, DispatchInvariant, PTL

(* After recordSuccess a pair stays closed until a hard failure is recorded:*)
(* markHalfOpen by a request that was ranked before does not reopen it.     *)
THEOREM HealedStaysClosedHolds == Spec => []HealedStaysClosed
<1>1. DispatchInv => HealedStaysClosed
  BY DEF DispatchInv
<1> QED
  BY <1>1, DispatchInvariant, PTL

(* However many candidates are tried, the client sees events of one attempt *)
(* only and one terminal event, or an error after `end` when the success    *)
(* could not be written.                                                    *)
THEOREM OneAnswerHolds == Spec => []OneAnswer
<1>1. DispatchInv => OneAnswer
  <2> SUFFICES ASSUME DispatchInv, NEW r \in Requests
               PROVE  /\ Cardinality(q[r].from) <= 1
                      /\ q[r].ends + q[r].errors <= IF q[r].unsaved THEN 2 ELSE 1
    BY DEF OneAnswer
  <2>1. RequestInv(q[r])
    BY DEF DispatchInv, DispatchTyped
  <2>2. Cardinality(q[r].from) <= 1
    <3>1. \A i, j \in q[r].from : i = j
      BY <2>1 DEF RequestInv, Answer
    <3>2. CASE q[r].from = {}
      BY <3>2, FS_EmptySet
    <3>3. CASE q[r].from # {}
      <4>1. PICK i \in q[r].from : q[r].from = {i}
        BY <3>1, <3>3
      <4> QED
        BY <4>1, FS_Singleton, SMTT(40)
    <3> QED
      BY <3>2, <3>3
  <2>3. q[r].ends + q[r].errors <= IF q[r].unsaved THEN 2 ELSE 1
    <3>1. /\ q[r].pc \in Attempting \cup {"idle", "rank", "next", "done"}
          /\ q[r].after \in {"next", "final", "over"}
      BY <2>1 DEF RequestInv, States
    <3>2. CASE q[r].pc = "finally"
      BY <2>1, <3>1, <3>2 DEF RequestInv, Answer, Quiet, Doomed, Failing, Told
    <3>3. CASE q[r].pc # "finally"
      BY <2>1, <3>1, <3>3 DEF RequestInv, Answer, Quiet, Doomed, Failing, Told, Attempting
    <3> QED
      BY <3>2, <3>3
  <2> QED
    BY <2>2, <2>3
<1> QED
  BY <1>1, DispatchInvariant, PTL

(* The request log says 200 only of a request that was answered to its      *)
(* `end` and told of no error, and of each such request unless its consumer *)
(* closed at that event or its success could not be written; a request      *)
(* whose client was told of an error is logged with an error code.          *)
THEOREM LogTellsTheAnswerHolds == Spec => []LogTellsTheAnswer
<1>1. DispatchInv => LogTellsTheAnswer
  BY DEF DispatchInv, DispatchTyped, RequestInv, Answer, Told, LogTellsTheAnswer
<1> QED
  BY <1>1, DispatchInvariant, PTL
=============================================================================
