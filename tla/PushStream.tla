------------------------------ MODULE PushStream ------------------------------
(***************************************************************************)
(* One stream:* topic of the push stream over a fleet: the owner publishes  *)
(* frames numbered by the coordinator, every process keeps a ring of them   *)
(* for subscribers that come back, and a console that moves between         *)
(* processes resumes from the last number it saw (stream/broadcaster.ts,    *)
(* ring.ts, registry.ts, routes/stream.ts, coord/redis.ts and the           *)
(* dashboard's session/stream.tsx).                                         *)
(*                                                                         *)
(* A process whose channel to the coordinator dropped hears nothing until   *)
(* it is back.  A publish the coordinator does not answer in time is made   *)
(* on the process's own fallback instead, with the fallback's numbers,      *)
(* whether or not the coordinator carried it.  A frame's content is its     *)
(* number; `own` says that a process, not the fleet, numbered it.           *)
(*                                                                         *)
(* The topic has one source here.  `stream:console`, which the dashboard    *)
(* resumes by number, is published by every process that captures its log;  *)
(* the topics of one process, which have one source, are subscribed without *)
(* a number, as by a console that has seen nothing.  The other topics of    *)
(* the console's connection appear as what they do to this one's frames.    *)
(***************************************************************************)
EXTENDS Integers, Sequences

CONSTANTS
    Procs,
    Owner,          \* the process with the source
    Nobody,
    RingFrames,     \* DEFAULT_RING_LIMITS.frames
    QueueFrames,    \* the registry's capacity per connection
    MaxSeq,         \* bound: frames numbered by the fleet
    MaxOwn,         \* bound: frames numbered by a fallback
    MaxFaults,      \* bound: dropped channels and failed publishes
    MaxConnects     \* bound: connections the console makes

ASSUME PushAssumption ==
    /\ Owner \in Procs /\ Nobody \notin Procs
    /\ RingFrames \in Nat \ {0} /\ QueueFrames \in Nat \ {0}
    /\ MaxSeq \in Nat /\ MaxOwn \in 0..MaxSeq /\ MaxFaults \in Nat /\ MaxConnects \in Nat

Unseen == -1    \* the console has seen no frame yet

Frames == [kind : {"frame"}, n : 1..MaxSeq, own : BOOLEAN]
Notices == [kind : {"declare"}] \cup [kind : {"hello"}, from : Procs]

VARIABLES
    counter,    \* the coordinator's seq:<topic>
    ownCounter, \* the owner's fallback counter
    hears,      \* processes subscribed to the coordinator's channel
    inbox,      \* per process, what the channel has for it
    ring,       \* per process, the topic's state: [seq, entries]
    declared,   \* processes that know the topic has a source
    conn,       \* the process the console is connected to
    sub,        \* its subscription there: "asked", "held" or "refused"
    queue,      \* this topic's frames in the queue the registry holds for it
    wire,       \* frames on their way to it
    seen,       \* the console's last number
    tail,       \* the frames handed to the panel since it was told of a gap
    faults, connects,
    crowded,    \* history: other topics pushed this one's newest frame out of the queue
    mixed,      \* history: tail or seen may rest on a number of a fallback
    ownNumbered,\* history: processes that published on their fallback
    unheard     \* history: a notice was not shared, or the owner was deaf

vars == <<counter, ownCounter, hears, inbox, ring, declared, conn, sub,
          queue, wire, seen, tail, faults, connects, crowded, mixed, ownNumbered, unheard>>

chanVars == <<counter, ownCounter, hears, inbox, ownNumbered, unheard>>
serverVars == <<ring, declared, queue, crowded>>
clientVars == <<conn, sub, wire, seen, tail, connects, mixed>>

Fault == faults < MaxFaults /\ faults' = faults + 1

(* The coordinator hands a message to every process subscribed just then. *)
Shared(m) == [p \in Procs |-> IF p \in hears THEN Append(inbox[p], m) ELSE inbox[p]]

-----------------------------------------------------------------------------
NoFrames == [seq |-> 0, entries |-> <<>>]

PushedLate(st, f) ==
    IF f.n <= st.seq THEN st
    ELSE [seq |-> f.n,
          entries |-> Append(IF Len(st.entries) > RingFrames THEN Tail(st.entries)
                             ELSE st.entries, f)]

(* ring.push: a number at or below the head is dropped, and the oldest      *)
(* frame goes when there are too many.                                      *)
Pushed(st, f) ==
    IF f.n <= st.seq THEN st
    ELSE LET entries == Append(st.entries, f) IN
         [seq |-> f.n,
          entries |-> IF Len(entries) > RingFrames THEN Tail(entries) ELSE entries]

(* The retained frames past s: numbers grow along a ring, so the filter     *)
(* leaves its end.                                                          *)
After(entries, s) ==
    LET k == CHOOSE k \in 0..Len(entries) :
                \A i \in DOMAIN entries : entries[i].n > s <=> i > k
    IN  SubSeq(entries, k + 1, Len(entries))

SinceSkipping(st, s) ==
    IF s > st.seq \/ (s < st.seq /\ (st.entries = <<>> \/ st.entries[1].n > s + 1))
    THEN <<[kind |-> "gap", n |-> st.seq]>>
    ELSE After(st.entries, s + 1)

(* ring.since: what a subscriber that saw s is sent, or the gap it is told of. *)
Since(st, s) ==
    IF s > st.seq \/ (s < st.seq /\ (st.entries = <<>> \/ st.entries[1].n > s + 1))
    THEN <<[kind |-> "gap", n |-> st.seq]>>
    ELSE After(st.entries, s)

(* registry.deliver: the oldest frame of a full queue is dropped.  The      *)
(* connection has one queue for all its topics (see Crowd).                 *)
Queued(f) ==
    IF Len(queue) >= QueueFrames THEN Append(Tail(queue), f) ELSE Append(queue, f)

(* The broadcaster's handler of a stream frame: into the ring, then to the  *)
(* subscriber.                                                              *)
Receive(p, f) ==
    /\ ring' = [ring EXCEPT ![p] = Pushed(@, f)]
    /\ IF conn = p /\ sub = "held"
       THEN queue' = Queued(f) /\ crowded' = FALSE
       ELSE UNCHANGED <<queue, crowded>>

-----------------------------------------------------------------------------
(* stream(), of a source that has declared itself: numbered and published   *)
(* in one step of the coordinator.                                          *)
Publish ==
    /\ Owner \in declared
    /\ counter < MaxSeq
    /\ counter' = counter + 1
    /\ inbox' = Shared([kind |-> "frame", n |-> counter', own |-> FALSE])
    /\ UNCHANGED <<ownCounter, hears, ownNumbered, unheard, serverVars, clientVars, faults>>

(* The coordinator does not answer, or the owner knows that it hears        *)
(* nothing: the fallback numbers the frame and hands it to the owner's own  *)
(* subscribers.  The coordinator may have published it all the same.        *)
PublishFails ==
    /\ \/ Fault
       \/ Owner \notin hears /\ UNCHANGED faults
    /\ Owner \in declared
    /\ ownCounter < MaxOwn
    /\ ownCounter' = ownCounter + 1
    /\ ownNumbered' = ownNumbered \cup {Owner}
    /\ Receive(Owner, [kind |-> "frame", n |-> ownCounter', own |-> TRUE])
    /\ \/ UNCHANGED <<counter, inbox>>
       \/ /\ counter < MaxSeq
          /\ counter' = counter + 1
          /\ inbox' = Shared([kind |-> "frame", n |-> counter', own |-> FALSE])
    /\ UNCHANGED <<hears, unheard, declared, clientVars>>

(* The log rotated: what the owner's ring retains is dropped, its head kept. *)
ResetStream ==
    /\ ring[Owner].entries # <<>>
    /\ ring' = [ring EXCEPT ![Owner].entries = <<>>]
    /\ UNCHANGED <<chanVars, declared, queue, crowded, clientVars, faults>>

(* declareStream(): known here at once, and told to the others. *)
Declare ==
    /\ Owner \notin declared
    /\ declared' = declared \cup {Owner}
    /\ \/ /\ inbox' = Shared([kind |-> "declare"])
          /\ unheard' = (unheard \/ Owner \notin hears)
          /\ UNCHANGED faults
       \/ /\ Fault
          /\ unheard' = TRUE
          /\ UNCHANGED inbox
    /\ UNCHANGED <<counter, ownCounter, hears, ownNumbered, ring, queue, crowded, clientVars>>

(* A process handles the next message of the channel; the owner answers     *)
(* another's hello with its declaration.                                    *)
Handle(p) ==
    /\ inbox[p] # <<>>
    /\ LET m == Head(inbox[p])
           rest == [inbox EXCEPT ![p] = Tail(@)] IN
       \/ /\ m.kind = "frame"
          /\ Receive(p, m)
          /\ inbox' = rest
          /\ UNCHANGED <<declared, unheard, faults>>
       \/ /\ m.kind = "declare"
          /\ declared' = declared \cup {p}
          /\ inbox' = rest
          /\ UNCHANGED <<ring, queue, crowded, unheard, faults>>
       \/ /\ m.kind = "hello"
          /\ IF p = Owner /\ m.from # p /\ Owner \in declared
             THEN \/ /\ inbox' = [q \in Procs |-> IF q \in hears
                                     THEN Append(rest[q], [kind |-> "declare"]) ELSE rest[q]]
                     /\ UNCHANGED <<unheard, faults>>
                  \/ /\ Fault
                     /\ inbox' = rest
                     /\ unheard' = TRUE
             ELSE inbox' = rest /\ UNCHANGED <<unheard, faults>>
          /\ UNCHANGED <<ring, queue, crowded, declared>>
    /\ UNCHANGED <<counter, ownCounter, hears, ownNumbered, clientVars>>

(* The channel of a process drops: what it had for the process is lost. *)
Drop(p) ==
    /\ p \in hears
    /\ Fault
    /\ hears' = hears \ {p}
    /\ inbox' = [inbox EXCEPT ![p] = <<>>]
    /\ unheard' = (unheard \/ p = Owner)
    /\ UNCHANGED <<counter, ownCounter, ownNumbered, serverVars, clientVars>>

ReconnectQuietly(p) ==
    /\ p \notin hears
    /\ hears' = hears \cup {p}
    /\ UNCHANGED <<counter, ownCounter, inbox, ownNumbered, unheard, serverVars, clientVars, faults>>

(* It comes back and asks the others what they declared meanwhile. *)
Reconnect(p) ==
    /\ p \notin hears
    /\ hears' = hears \cup {p}
    /\ \/ /\ inbox' = [q \in Procs |-> IF q \in hears'
                          THEN Append(inbox[q], [kind |-> "hello", from |-> p]) ELSE inbox[q]]
          /\ UNCHANGED <<unheard, faults>>
       \/ /\ Fault
          /\ unheard' = TRUE
          /\ UNCHANGED inbox
    /\ UNCHANGED <<counter, ownCounter, ownNumbered, serverVars, clientVars>>

-----------------------------------------------------------------------------
(* The console's socket opens on some process, and it subscribes. *)
Connect(p) ==
    /\ conn = Nobody
    /\ connects < MaxConnects
    /\ conn' = p /\ sub' = "asked"
    /\ connects' = connects + 1
    /\ UNCHANGED <<chanVars, serverVars, wire, seen, tail, mixed, faults>>

(* The process takes the subscribe: refused without a source, for as long   *)
(* as the connection lasts; otherwise registered and, if the console has a  *)
(* number, answered from the ring, past the queue.                          *)
Subscribe ==
    /\ conn # Nobody /\ sub = "asked"
    /\ IF conn \in declared
       THEN /\ sub' = "held"
            /\ wire' = IF seen = Unseen THEN wire ELSE wire \o Since(ring[conn], seen)
            /\ mixed' = (mixed \/ conn \in ownNumbered)
       ELSE /\ sub' = "refused"
            /\ UNCHANGED <<wire, mixed>>
    /\ UNCHANGED <<chanVars, serverVars, conn, seen, tail, connects, faults>>

(* registry.flush: the socket takes the next frame. *)
Flush ==
    /\ queue # <<>>
    /\ wire' = Append(wire, Head(queue))
    /\ queue' = Tail(queue)
    /\ UNCHANGED <<chanVars, ring, declared, crowded, conn, sub, seen, tail, connects, mixed, faults>>

(* A frame of another topic finds the queue full and this topic's frame the *)
(* oldest in it.  The last one to go is the newest: nothing of this topic   *)
(* is left to say that the console is behind.                               *)
Crowd ==
    /\ queue # <<>>
    /\ queue' = Tail(queue)
    /\ crowded' = (crowded \/ Tail(queue) = <<>>)
    /\ UNCHANGED <<chanVars, ring, declared, clientVars, faults>>

(* The console's panel drops what it accumulated and re-reads over REST. *)
Emptied ==
    /\ tail' = {}
    /\ mixed' = FALSE

GapFrame ==
    /\ wire # <<>> /\ Head(wire).kind = "gap"
    /\ seen' = Head(wire).n
    /\ Emptied
    /\ wire' = Tail(wire)
    /\ UNCHANGED <<chanVars, serverVars, conn, sub, connects, faults>>

EventTrusting ==
    /\ wire # <<>> /\ Head(wire).kind = "frame"
    /\ LET f == Head(wire) IN
        /\ seen' = f.n
        /\ tail' = tail \cup {f.n}
        /\ mixed' = (mixed \/ f.own)
    /\ wire' = Tail(wire)
    /\ UNCHANGED <<chanVars, serverVars, conn, sub, connects, faults>>

(* An event: a number past the next one is a hole, and is treated as a gap. *)
Event ==
    /\ wire # <<>> /\ Head(wire).kind = "frame"
    /\ LET f == Head(wire) IN
        /\ seen' = f.n
        /\ IF seen # Unseen /\ f.n > seen + 1
           THEN tail' = {} /\ mixed' = f.own
           ELSE /\ tail' = tail \cup {f.n}
                /\ mixed' = (mixed \/ f.own)
    /\ wire' = Tail(wire)
    /\ UNCHANGED <<chanVars, serverVars, conn, sub, connects, faults>>

(* The socket closes; the console keeps its number. *)
Closed ==
    /\ conn' = Nobody
    /\ queue' = <<>> /\ wire' = <<>> /\ crowded' = FALSE
    /\ UNCHANGED <<sub, seen, tail, connects, mixed>>

Disconnect ==
    /\ conn # Nobody
    /\ Closed
    /\ UNCHANGED <<chanVars, ring, declared, faults>>

(* A process is restarted: its ring, its connections and what it knew of    *)
(* the others' streams are gone, and it asks for those, if the hello is     *)
(* shared.                                                                  *)
Restart(p) ==
    /\ Fault
    /\ ring' = [ring EXCEPT ![p] = NoFrames]
    /\ declared' = declared \ {p}
    /\ ownCounter' = IF p = Owner THEN 0 ELSE ownCounter
    /\ hears' = hears \cup {p}
    /\ \E told \in BOOLEAN :
        /\ inbox' = [q \in Procs |-> IF q = p THEN <<>> ELSE
                        IF told /\ q \in hears THEN Append(inbox[q], [kind |-> "hello", from |-> p])
                        ELSE inbox[q]]
        /\ unheard' = (unheard \/ ~told)
    /\ IF conn = p THEN Closed ELSE UNCHANGED <<queue, crowded, clientVars>>
    /\ UNCHANGED <<counter, ownNumbered>>

-----------------------------------------------------------------------------
Init ==
    /\ counter = 0 /\ ownCounter = 0
    /\ hears = Procs
    /\ inbox = [p \in Procs |-> <<>>]
    /\ ring = [p \in Procs |-> NoFrames]
    /\ declared = {}
    /\ conn = Nobody /\ sub = "asked"
    /\ queue = <<>> /\ wire = <<>> /\ crowded = FALSE
    /\ seen = Unseen /\ tail = {}
    /\ faults = 0 /\ connects = 0
    /\ mixed = FALSE /\ ownNumbered = {} /\ unheard = FALSE

Next ==
    \/ Publish \/ PublishFails \/ ResetStream \/ Declare
    \/ \E p \in Procs : Handle(p) \/ Drop(p) \/ Reconnect(p) \/ Connect(p) \/ Restart(p)
    \/ Subscribe \/ Flush \/ Crowd \/ GapFrame \/ Event \/ Disconnect

Spec == Init /\ [][Next]_vars

-----------------------------------------------------------------------------
(* The variables have their types. *)
TypeOK ==
    /\ counter \in 0..MaxSeq /\ ownCounter \in 0..MaxOwn
    /\ hears \subseteq Procs /\ declared \subseteq Procs
    /\ \A p \in Procs :
        /\ inbox[p] \in Seq(Frames \cup Notices)
        /\ ring[p].seq \in 0..MaxSeq
        /\ Len(ring[p].entries) <= RingFrames
        /\ \A i, j \in DOMAIN ring[p].entries :
              i < j => ring[p].entries[i].n < ring[p].entries[j].n
    /\ conn \in Procs \cup {Nobody}
    /\ sub \in {"asked", "held", "refused"}
    /\ Len(queue) <= QueueFrames
    /\ seen \in 0..MaxSeq \cup {Unseen}
    /\ faults \in 0..MaxFaults /\ connects \in 0..MaxConnects

(* The panel never holds a hole: of the frames handed to it since it was    *)
(* told of a gap, every number in between was handed to it too, through     *)
(* dropped channels, overflowing queues, replays from a ring that itself    *)
(* has holes, restarts and moves between processes.  Frames a process       *)
(* numbered by itself, and a resume from a process that has such frames,    *)
(* are excused until the next gap.                                          *)
NoSilentSkip ==
    ~mixed => \A i, j \in tail : \A n \in i..j : n \in tail

(* A subscribed console with nothing on its way is at the head of its       *)
(* process's ring: a replay never claims to be complete and falls short,    *)
(* and an overflow keeps the newest.  (Unless a fallback's numbers are in   *)
(* play, or frames of other topics pushed the newest one out: then the      *)
(* console is behind, and not told, until the topic's next frame.)          *)
CaughtUp ==
    conn # Nobody /\ sub = "held" /\ queue = <<>> /\ wire = <<>> /\ seen # Unseen
        /\ ~mixed /\ ownNumbered = {} /\ ~crowded
    => seen = ring[conn].seq

(* When the channel is quiet and everybody hears it, a declared stream is   *)
(* known to every process, however often the others dropped and came back.  *)
(* The one excuse is an owner that was deaf, or a notice that was not       *)
(* shared: nobody repeats those.                                            *)
DeclarationKnown ==
    /\ Owner \in declared /\ hears = Procs
    /\ \A p \in Procs : inbox[p] = <<>>
    => declared = Procs \/ unheard
=============================================================================
