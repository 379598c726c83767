--------------------------- MODULE PushStreamProofs ---------------------------
(***************************************************************************)
(* Proofs about PushStream, for any number of processes, frames, faults and *)
(* connections and any size of ring and queue.                             *)
(*                                                                         *)
(* A console is given what is on its wire, then what is in its queue, then  *)
(* what the channel still has for its process.  Along that pipe the fleet's *)
(* numbers rise, whatever was lost from it (PipeInv); and a panel that does *)
(* not rest on a fallback's numbers has seen nothing that is still to come  *)
(* (PanelInv).  While all numbers are the fleet's, the last thing in the    *)
(* wire and the queue is the head of the process's ring (HeadInv).  And     *)
(* whoever does not know of a declared stream has a message under way that  *)
(* will tell it, or has asked (DeclareInv).                                 *)
(***************************************************************************)
EXTENDS PushStream, NaturalsInduction, SequenceTheorems, WellFoundedInduction, TLAPS

Frame(m) == [kind |-> "frame", n |-> m, own |-> FALSE]
Declaration == [kind |-> "declare"]
Hello(p) == [kind |-> "hello", from |-> p]

Gaps == [kind : {"gap"}, n : 0..MaxSeq]
FleetFrames == {Frame(m) : m \in 1..MaxSeq}

Elements(s) == {s[i] : i \in DOMAIN s}

(* The fleet's numbers in a sequence of frames. *)
Numbers(s) == {m \in 1..MaxSeq : Frame(m) \in Elements(s)}

(* They rise. *)
Rising(s) ==
    \A i, j \in DOMAIN s : \A a, b \in 1..MaxSeq :
        i < j /\ s[i] = Frame(a) /\ s[j] = Frame(b) => a < b

Below(S, T) == \A a \in S : \A b \in T : a < b

PushTyped ==
    /\ counter \in 0..MaxSeq /\ ownCounter \in 0..MaxOwn
    /\ hears \subseteq Procs /\ declared \subseteq Procs
    /\ inbox \in [Procs -> Seq(FleetFrames \cup Notices)]
    /\ ring \in [Procs -> [seq : 0..MaxSeq, entries : Seq(Frames)]]
    /\ conn \in Procs \cup {Nobody} /\ sub \in {"asked", "held", "refused"}
    /\ queue \in Seq(Frames) /\ Len(queue) <= QueueFrames
    /\ wire \in Seq(Frames \cup Gaps)
    /\ seen \in 0..MaxSeq \cup {Unseen} /\ tail \subseteq 1..MaxSeq
    /\ faults \in 0..MaxFaults /\ connects \in 0..MaxConnects
    /\ mixed \in BOOLEAN /\ unheard \in BOOLEAN /\ ownNumbered \subseteq {Owner}

(* A ring holds rising numbers, the last of which is its head. *)
RingOrdered(st) ==
    /\ Len(st.entries) <= RingFrames
    /\ \A i, j \in DOMAIN st.entries : i < j => st.entries[i].n < st.entries[j].n
    /\ st.entries # <<>> => st.entries[Len(st.entries)].n = st.seq

(* What the channel still has for a process comes after what its ring has,  *)
(* and past its head if the head is the fleet's.                            *)
ProcInv(p) ==
    /\ RingOrdered(ring[p])
    /\ Rising(inbox[p])
    /\ Below(Numbers(ring[p].entries), Numbers(inbox[p]))
    /\ p \notin ownNumbered => /\ ring[p].seq <= counter
                               /\ Below({ring[p].seq}, Numbers(inbox[p]))
    /\ Below(Numbers(ring[p].entries) \cup Numbers(inbox[p]), {counter + 1})

Subscribed == conn # Nobody /\ sub = "held"

PipeInv ==
    /\ ~Subscribed => wire = <<>> /\ queue = <<>>
    /\ \A i \in DOMAIN wire : wire[i] \in Gaps => i = 1
    /\ Rising(wire) /\ Rising(queue)
    /\ Below(Numbers(wire), Numbers(queue))
    /\ Subscribed => Below(Numbers(wire) \cup Numbers(queue), Numbers(inbox[conn]))
    /\ Below(Numbers(wire) \cup Numbers(queue), {counter + 1})

(* A gap is the next thing the console hears of. *)
GapDue == wire # <<>> /\ wire[1] \in Gaps

PanelInv ==
    ~mixed /\ tail # {} =>
        /\ seen \in tail /\ seen <= counter
        /\ \A i, j \in tail : \A n \in i..j : n \in tail
        /\ Subscribed /\ ~GapDue =>
              Below({seen}, Numbers(wire) \cup Numbers(queue) \cup Numbers(inbox[conn]))

(* While all numbers are the fleet's, the last thing on its way to a        *)
(* console is the head of its process's ring, unless other topics pushed it *)
(* out of the queue.                                                        *)
HeadInv ==
    ownNumbered = {} /\ Subscribed =>
        /\ queue # <<>> => queue[Len(queue)].n = ring[conn].seq
        /\ queue = <<>> /\ wire # <<>> /\ ~crowded => wire[Len(wire)].n = ring[conn].seq
        /\ queue = <<>> /\ wire = <<>> /\ ~crowded => seen \in {Unseen, ring[conn].seq}

(* Whoever hears the channel and does not know the declared stream is about *)
(* to be told, or has asked.  An owner never learns of its stream from a    *)
(* declaration it sent before it was restarted.                             *)
DeclareInv ==
    /\ Owner \notin declared => Declaration \notin Elements(inbox[Owner])
    /\ ~unheard =>
        /\ Owner \in hears
        /\ Owner \in declared => \A p \in hears \ declared :
              Declaration \in Elements(inbox[p]) \/ Hello(p) \in Elements(inbox[Owner])

PushInv ==
    PushTyped /\ (\A p \in Procs : ProcInv(p)) /\ PipeInv /\ PanelInv /\ HeadInv /\ DeclareInv

-----------------------------------------------------------------------------
(* Sequences *)

LEMMA AppendIs ==
    ASSUME NEW S, NEW s \in Seq(S), NEW e \in S
    PROVE  /\ Append(s, e) \in Seq(S) /\ Append(s, e) # <<>>
           /\ Len(Append(s, e)) = Len(s) + 1 /\ Len(s) \in Nat
           /\ DOMAIN s = 1..Len(s) /\ DOMAIN Append(s, e) = 1..(Len(s) + 1)
           /\ \A i \in DOMAIN s : Append(s, e)[i] = s[i]
           /\ Append(s, e)[Len(s) + 1] = e
OBVIOUS

LEMMA TailIs ==
    ASSUME NEW S, NEW s \in Seq(S), s # <<>>
    PROVE  /\ Tail(s) \in Seq(S) /\ Len(Tail(s)) = Len(s) - 1
           /\ Len(s) \in Nat \ {0} /\ DOMAIN s = 1..Len(s) /\ DOMAIN Tail(s) = 1..(Len(s) - 1)
           /\ \A i \in DOMAIN Tail(s) : Tail(s)[i] = s[i + 1]
           /\ Head(s) = s[1] /\ Head(s) \in S
OBVIOUS

LEMMA ElementsAppend ==
    ASSUME NEW S, NEW s \in Seq(S), NEW e \in S
    PROVE  Elements(Append(s, e)) = Elements(s) \cup {e}
<1>1. \A x \in Elements(Append(s, e)) : x \in Elements(s) \cup {e}
  BY AppendIs DEF Elements
<1>2. \A x \in Elements(s) \cup {e} : x \in Elements(Append(s, e))
  <2>1. Len(s) + 1 \in DOMAIN Append(s, e) /\ DOMAIN s \subseteq DOMAIN Append(s, e)
    BY AppendIs
  <2> QED
    BY <2>1, AppendIs DEF Elements
<1> QED
  BY <1>1, <1>2

LEMMA ElementsTail ==
    ASSUME NEW S, NEW s \in Seq(S), s # <<>>
    PROVE  /\ Elements(s) = Elements(Tail(s)) \cup {Head(s)}
           /\ Elements(s) \subseteq S
<1>1. \A x \in Elements(s) : x \in Elements(Tail(s)) \cup {Head(s)}
  <2> TAKE x \in Elements(s)
  <2>1. PICK i \in DOMAIN s : x = s[i]
    BY DEF Elements
  <2>2. CASE i = 1
    BY <2>1, <2>2, TailIs
  <2>3. CASE i # 1
    <3>1. i - 1 \in DOMAIN Tail(s) /\ (i - 1) + 1 = i
      BY <2>3, TailIs
    <3>2. Tail(s)[i - 1] = x
      BY <2>1, <3>1, TailIs
    <3> QED
      BY <3>1, <3>2 DEF Elements
  <2> QED
    BY <2>2, <2>3
<1>2. \A x \in Elements(Tail(s)) \cup {Head(s)} : x \in Elements(s)
  <2>1. 1 \in DOMAIN s /\ \A i \in DOMAIN Tail(s) : i + 1 \in DOMAIN s
    BY TailIs
  <2> QED
    BY <2>1, TailIs DEF Elements
<1>3. Elements(s) \subseteq S
  BY DEF Elements
<1> QED
  BY <1>1, <1>2, <1>3

LEMMA FrameIs ==
    ASSUME NEW a, NEW b
    PROVE  /\ Frame(a) = Frame(b) => a = b
           /\ Frame(a).n = a /\ Frame(a).own = FALSE /\ Frame(a).kind = "frame"
           /\ Frame(a) # Declaration /\ \A p : Frame(a) # Hello(p)
BY DEF Frame, Declaration, Hello

(* The fleet's numbers of a longer and of a shorter sequence. *)
LEMMA NumbersAppend ==
    ASSUME NEW S, NEW s \in Seq(S), NEW e \in S
    PROVE  /\ \A a \in Numbers(Append(s, e)) : a \in Numbers(s) \/ e = Frame(a)
           /\ Numbers(s) \subseteq Numbers(Append(s, e))
BY ElementsAppend DEF Numbers

LEMMA NumbersTail ==
    ASSUME NEW S, NEW s \in Seq(S), s # <<>>
    PROVE  /\ Numbers(Tail(s)) \subseteq Numbers(s)
           /\ \A a \in 1..MaxSeq : Head(s) = Frame(a) => a \in Numbers(s)
BY ElementsTail DEF Numbers

LEMMA NumbersEmpty == Numbers(<<>>) = {} /\ Rising(<<>>) /\ Elements(<<>>) = {}
BY DEF Numbers, Rising, Elements

LEMMA RisingAppend ==
    ASSUME NEW S, NEW s \in Seq(S), NEW e \in S, Rising(s),
           \A a \in 1..MaxSeq : e = Frame(a) => Below(Numbers(s), {a})
    PROVE  Rising(Append(s, e))
<1> DEFINE t == Append(s, e)
<1> SUFFICES ASSUME NEW i \in DOMAIN t, NEW j \in DOMAIN t, NEW a \in 1..MaxSeq, NEW b \in 1..MaxSeq,
                    i < j, t[i] = Frame(a), t[j] = Frame(b)
             PROVE  a < b
  BY DEF Rising
<1>1. i \in DOMAIN s /\ t[i] = s[i] /\ (j \in DOMAIN s \/ j = Len(s) + 1)
  BY AppendIs
<1>2. CASE j \in DOMAIN s
  <2>1. t[j] = s[j]
    BY <1>2, AppendIs
  <2> QED
    BY <1>1, <1>2, <2>1 DEF Rising
<1>3. CASE j = Len(s) + 1
  <2>1. e = Frame(b)
    BY <1>3, AppendIs
  <2>2. a \in Numbers(s)
    BY <1>1 DEF Numbers, Elements
  <2> QED
    BY <2>1, <2>2 DEF Below
<1> QED
  BY <1>1, <1>2, <1>3

LEMMA RisingTail ==
    ASSUME NEW S, NEW s \in Seq(S), s # <<>>, Rising(s)
    PROVE  /\ Rising(Tail(s))
           /\ \A a \in 1..MaxSeq : Head(s) = Frame(a) => Below({a}, Numbers(Tail(s)))
<1>1. \A i \in DOMAIN Tail(s) : i + 1 \in DOMAIN s /\ Tail(s)[i] = s[i + 1] /\ i \in Nat /\ i >= 1
  BY TailIs
<1>2. Rising(Tail(s))
  <2> SUFFICES ASSUME NEW i \in DOMAIN Tail(s), NEW j \in DOMAIN Tail(s),
                      NEW a \in 1..MaxSeq, NEW b \in 1..MaxSeq,
                      i < j, Tail(s)[i] = Frame(a), Tail(s)[j] = Frame(b)
               PROVE  a < b
    BY DEF Rising
  <2>1. i + 1 < j + 1 /\ s[i + 1] = Frame(a) /\ s[j + 1] = Frame(b)
    BY <1>1
  <2> QED
    BY <1>1, <2>1 DEF Rising
<1>3. ASSUME NEW a \in 1..MaxSeq, Head(s) = Frame(a), NEW b \in Numbers(Tail(s)) PROVE a < b
  <2>1. PICK i \in DOMAIN Tail(s) : Tail(s)[i] = Frame(b)
    BY DEF Numbers, Elements
  <2>2. 1 \in DOMAIN s /\ s[1] = Frame(a) /\ s[i + 1] = Frame(b) /\ 1 < i + 1 /\ i + 1 \in DOMAIN s
    BY <1>1, <1>3, <2>1, TailIs
  <2>3. b \in 1..MaxSeq
    BY DEF Numbers
  <2> QED
    BY <2>2, <2>3 DEF Rising
<1> QED
  BY <1>2, <1>3 DEF Below
(* The end of a sequence. *)
LEMMA SuffixIs ==
    ASSUME NEW S, NEW s \in Seq(S), NEW k \in 0..Len(s)
    PROVE  LET t == SubSeq(s, k + 1, Len(s)) IN
           /\ t \in Seq(S) /\ Len(t) = Len(s) - k /\ DOMAIN t = 1..(Len(s) - k)
           /\ \A i \in DOMAIN t : t[i] = s[i + k] /\ i + k \in DOMAIN s /\ i + k > k
           /\ t # <<>> <=> k < Len(s)
<1> DEFINE t == SubSeq(s, k + 1, Len(s))
<1>1. Len(s) \in Nat /\ k \in Nat /\ k <= Len(s) /\ DOMAIN s = 1..Len(s)
  OBVIOUS
<1>2. k + 1 \in Int /\ Len(s) \in Int /\ \A i \in (k + 1)..Len(s) : s[i] \in S
  BY <1>1
<1>3. /\ t \in Seq(S) /\ Len(t) = IF k + 1 <= Len(s) THEN Len(s) - (k + 1) + 1 ELSE 0
      /\ \A i \in 1..(Len(s) - (k + 1) + 1) : t[i] = s[(k + 1) + i - 1]
  BY <1>2, SubSeqProperties
<1> HIDE DEF t
<1>4. t \in Seq(S) /\ Len(t) = IF k + 1 <= Len(s) THEN Len(s) - (k + 1) + 1 ELSE 0
  BY <1>3
<1>5. PICK n \in Nat : n = Len(s) /\ k \in Nat /\ k <= n
  BY <1>1
<1>6. n - (k + 1) + 1 = n - k /\ (~(k + 1 <= n) => n - k = 0)
  BY <1>5
<1>7. Len(t) = Len(s) - k /\ Len(s) - (k + 1) + 1 = Len(s) - k
  BY <1>4, <1>5, <1>6
<1>8. DOMAIN t = 1..(Len(s) - k)
  BY <1>3, <1>7
<1>9. ASSUME NEW i \in DOMAIN t PROVE t[i] = s[i + k] /\ i + k \in DOMAIN s /\ i + k > k
  <2>1. (k + 1) + i - 1 = i + k /\ i + k \in DOMAIN s /\ i + k > k
    BY <1>1, <1>8
  <2> QED
    BY <1>3, <1>7, <1>8, <2>1
<1>10. t # <<>> <=> k < Len(s)
  <2>1. t # <<>> <=> Len(t) # 0
    BY <1>4
  <2>2. \A a, b \in Nat : b <= a => (a - b # 0 <=> b < a)
    OBVIOUS
  <2>3. Len(s) \in Nat /\ k \in Nat /\ k <= Len(s)
    BY <1>1
  <2> QED
    BY <1>7, <2>1, <2>2, <2>3, Zenon
<1> QED
  BY <1>3, <1>7, <1>8, <1>9, <1>10 DEF t

(* A nonempty set of numbers has a least one. *)
LEMMA LeastNumber ==
    ASSUME NEW T, T \subseteq Nat, T # {} PROVE \E x \in T : \A y \in T : x <= y
<1> DEFINE R == {ss \in Nat \X Nat : ss[1] < ss[2]}
<1>1. IsWellFoundedOn(R, Nat)
  BY NatLessThanWellFounded DEF OpToRel
<1>2. \A x, y \in Nat : y < x => <<y, x>> \in R
  OBVIOUS
<1> HIDE DEF R
<1>3. PICK x \in T : \A y \in T : ~(<<y, x>> \in R)
  BY <1>1, WFMin
<1>4. \A y \in T : x <= y
  <2> TAKE y \in T
  <2>1. x \in Nat /\ y \in Nat /\ ~(<<y, x>> \in R)
    BY <1>3
  <2>2. ~(y < x)
    BY <1>2, <2>1, Zenon
  <2> QED
    BY <2>1, <2>2
<1> QED
  BY <1>4

-----------------------------------------------------------------------------
(* The ring *)

Rings == [seq : 0..MaxSeq, entries : Seq(Frames)]

LEMMA FramesAre ==
    /\ \A f \in Frames : f.n \in 1..MaxSeq /\ f.own \in BOOLEAN /\ f.kind = "frame"
    /\ \A f \in Frames : f.own = FALSE => f = Frame(f.n)
    /\ \A f \in Frames : f.own => \A a : f # Frame(a)
    /\ \A m \in 1..MaxSeq : Frame(m) \in Frames /\ Frame(m) \in FleetFrames
    /\ FleetFrames \subseteq Frames
    /\ \A g \in Gaps : g \notin Frames /\ g.n \in 0..MaxSeq /\ g.kind = "gap"
    /\ MaxSeq \in Nat
<1>1. MaxSeq \in Nat
  BY PushAssumption
<1> QED
  <2>1. \A m \in 1..MaxSeq : Frame(m) \in Frames /\ Frame(m) \in FleetFrames
    BY DEF Frames, Frame, FleetFrames
  <2>2. FleetFrames \subseteq Frames
    BY <2>1 DEF FleetFrames
  <2>3. \A f \in Frames : /\ f.n \in 1..MaxSeq /\ f.own \in BOOLEAN /\ f.kind = "frame"
                           /\ f = [kind |-> "frame", n |-> f.n, own |-> f.own]
    BY DEF Frames
  <2>4. \A f \in Frames : f.own = FALSE => f = Frame(f.n)
    BY <2>3 DEF Frame
  <2>5. \A f \in Frames : f.own => \A a : f # Frame(a)
    BY FrameIs
  <2>6. \A g \in Gaps : g.n \in 0..MaxSeq /\ g.kind = "gap"
    BY DEF Gaps
  <2>7. \A g \in Gaps : g \notin Frames
    BY <2>3, <2>6
  <2> QED
    BY <1>1, <2>1, <2>2, <2>3, <2>4, <2>5, <2>6, <2>7

(* Every retained frame is at or below the head. *)
LEMMA RingBelowHead ==
    ASSUME NEW st \in Rings, RingOrdered(st), NEW i \in DOMAIN st.entries
    PROVE  st.entries[i].n <= st.seq
<1> DEFINE e == st.entries
<1>1. e \in Seq(Frames) /\ st.seq \in 0..MaxSeq /\ MaxSeq \in Nat
  BY PushAssumption DEF Rings
<1>2. Len(e) \in DOMAIN e /\ i \in Nat /\ i <= Len(e) /\ e # <<>> /\ e[i] \in Frames /\ Len(e) \in Nat
  BY <1>1
<1>3. e[Len(e)].n = st.seq /\ e[i].n \in 1..MaxSeq
  BY <1>2, FramesAre DEF RingOrdered
<1>4. CASE i = Len(e)
  BY <1>1, <1>3, <1>4
<1>5. CASE i < Len(e)
  <2>1. e[i].n < e[Len(e)].n
    BY <1>2, <1>5 DEF RingOrdered
  <2> QED
    BY <1>1, <1>3, <2>1
<1> QED
  BY <1>2, <1>4, <1>5

(* ring.push keeps a ring in order, and adds at most the frame. *)
LEMMA PushedIs ==
    ASSUME NEW st \in Rings, RingOrdered(st), NEW f \in Frames
    PROVE  /\ Pushed(st, f) \in Rings /\ RingOrdered(Pushed(st, f))
           /\ f.n > st.seq => Pushed(st, f).seq = f.n
           /\ f.n <= st.seq => Pushed(st, f) = st
           /\ \A a \in Numbers(Pushed(st, f).entries) : a \in Numbers(st.entries) \/ f = Frame(a)
<1>1. st.entries \in Seq(Frames) /\ st.seq \in 0..MaxSeq /\ f.n \in 1..MaxSeq /\ MaxSeq \in Nat
      /\ RingFrames \in Nat \ {0}
  BY FramesAre, PushAssumption DEF Rings
<1>2. CASE f.n <= st.seq
  <2>1. Pushed(st, f) = st
    BY <1>2 DEF Pushed
  <2> QED
    BY <1>1, <1>2, <2>1
<1>3. CASE f.n > st.seq
  <2> DEFINE e == st.entries
             t == Append(e, f)
             u == IF Len(t) > RingFrames THEN Tail(t) ELSE t
  <2>1. ~(f.n <= st.seq)
    BY <1>1, <1>3
  <2>2. Pushed(st, f) = [seq |-> f.n, entries |-> u]
    BY <2>1 DEF Pushed
  <2>3. /\ t \in Seq(Frames) /\ t # <<>> /\ Len(t) = Len(e) + 1 /\ Len(e) \in Nat
        /\ DOMAIN e = 1..Len(e) /\ DOMAIN t = 1..(Len(e) + 1)
        /\ \A i \in DOMAIN e : t[i] = e[i]
        /\ t[Len(e) + 1] = f
    BY <1>1, AppendIs
  <2>4. ASSUME NEW i \in DOMAIN t, NEW j \in DOMAIN t, i < j PROVE t[i].n < t[j].n
    <3>1. i \in DOMAIN e /\ t[i] = e[i] /\ e[i] \in Frames /\ e[i].n \in 1..MaxSeq
      BY <1>1, <2>3, <2>4, FramesAre
    <3>2. CASE j \in DOMAIN e
      <4>1. e[i].n < e[j].n /\ t[j] = e[j]
        BY <2>3, <2>4, <3>1, <3>2 DEF RingOrdered
      <4> QED
        BY <3>1, <4>1
    <3>3. CASE j = Len(e) + 1
      <4>1. e[i].n <= st.seq
        BY <3>1, RingBelowHead
      <4> QED
        BY <1>1, <1>3, <2>3, <3>1, <3>3, <4>1
    <3> QED
      BY <2>3, <3>2, <3>3
  <2>5. Len(e) <= RingFrames
    BY DEF RingOrdered
  <2>6. CASE Len(t) > RingFrames
    <3>1. u = Tail(t)
      BY <2>6
    <3>2. /\ u \in Seq(Frames) /\ Len(u) = Len(e) /\ DOMAIN u = 1..Len(e)
          /\ \A i \in DOMAIN u : u[i] = t[i + 1] /\ i + 1 \in DOMAIN t
      <4> HIDE DEF t, u
      <4> QED
        BY <2>3, <3>1, TailIs
    <3>3. \A i, j \in DOMAIN u : i < j => u[i].n < u[j].n
      <4> HIDE DEF t, u
      <4>1. \A i, j \in DOMAIN u : i < j => i + 1 < j + 1 /\ i + 1 \in DOMAIN t /\ j + 1 \in DOMAIN t
        BY <2>3, <3>2
      <4> QED
        BY <2>4, <3>2, <4>1
    <3>4. Len(u) <= RingFrames /\ u # <<>> /\ u[Len(u)] = f
      <4> HIDE DEF t, u
      <4> QED
        BY <1>1, <2>3, <2>5, <2>6, <3>2, SMTT(30)
    <3>5. \A a \in Numbers(u) : a \in Numbers(e) \/ f = Frame(a)
      <4>1. Numbers(u) \subseteq Numbers(t)
        BY <2>3, <3>1, NumbersTail, Zenon
      <4>2. \A a \in Numbers(t) : a \in Numbers(e) \/ f = Frame(a)
        BY <1>1, NumbersAppend
      <4> QED
        BY <4>1, <4>2
    <3> HIDE DEF u
    <3> QED
      BY <1>1, <1>3, <2>2, <3>2, <3>3, <3>4, <3>5 DEF Rings, RingOrdered
  <2>7. CASE ~(Len(t) > RingFrames)
    <3>1. u = t
      BY <2>7
    <3>2. Len(t) <= RingFrames /\ t[Len(t)] = f
      BY <1>1, <2>3, <2>7
    <3>3. \A a \in Numbers(t) : a \in Numbers(e) \/ f = Frame(a)
      BY <1>1, NumbersAppend
    <3> HIDE DEF t, u
    <3> QED
      BY <1>1, <1>3, <2>2, <2>3, <2>4, <3>1, <3>2, <3>3 DEF Rings, RingOrdered
  <2> QED
    BY <2>6, <2>7
<1> QED
  BY <1>1, <1>2, <1>3

(* The retained frames past s are some of the retained ones, in order, all  *)
(* past s, up to the head.                                                  *)
LEMMA AfterIs ==
    ASSUME NEW st \in Rings, RingOrdered(st), NEW s \in Int
    PROVE  LET t == After(st.entries, s) IN
           /\ t \in Seq(Frames)
           /\ \A i \in DOMAIN t : t[i] \in Elements(st.entries) /\ t[i].n > s
           /\ \A i, j \in DOMAIN t : i < j => t[i].n < t[j].n
           /\ t # <<>> => t[Len(t)].n = st.seq
           /\ t = <<>> /\ st.entries # <<>> => st.seq <= s
<1> DEFINE e == st.entries
           Cut(k) == \A i \in DOMAIN e : e[i].n > s <=> i > k
           t == After(e, s)
<1>1. /\ e \in Seq(Frames) /\ st.seq \in 0..MaxSeq /\ MaxSeq \in Nat /\ Len(e) \in Nat
      /\ DOMAIN e = 1..Len(e)
      /\ \A i \in DOMAIN e : e[i] \in Frames /\ e[i].n \in 1..MaxSeq
  BY FramesAre DEF Rings
<1>2. \A i, j \in DOMAIN e : i < j => e[i].n < e[j].n
  BY DEF RingOrdered
<1>3. e # <<>> => e[Len(e)].n = st.seq
  BY DEF RingOrdered
<1> HIDE DEF e
<1>4. \E k \in 0..Len(e) : Cut(k)
  <2> DEFINE T == {k \in 0..Len(e) : \A i \in DOMAIN e : i > k => e[i].n > s}
  <2>1. Len(e) \in T /\ T \subseteq Nat
    BY <1>1
  <2>2. PICK k \in T : \A y \in T : k <= y
    <3> HIDE DEF T
    <3> QED
      BY <2>1, LeastNumber
  <2>3. k \in 0..Len(e) /\ \A i \in DOMAIN e : i > k => e[i].n > s
    BY <2>2
  <2>4. ASSUME NEW i \in DOMAIN e, i <= k PROVE e[i].n <= s
    <3>1. k - 1 \in 0..Len(e) /\ k \in DOMAIN e /\ ~(k <= k - 1)
      BY <1>1, <2>3, <2>4
    <3>2. k - 1 \notin T
      BY <2>2, <3>1
    <3>3. PICK j \in DOMAIN e : j > k - 1 /\ ~(e[j].n > s)
      BY <3>1, <3>2
    <3>4. j = k /\ e[k].n <= s
      BY <1>1, <2>3, <3>1, <3>3
    <3>5. i = k \/ i < k
      BY <1>1, <2>3, <2>4
    <3>6. i < k => e[i].n < e[k].n
      BY <1>2, <3>1
    <3> QED
      BY <1>1, <3>1, <3>4, <3>5, <3>6
  <2>5. Cut(k)
    BY <1>1, <2>3, <2>4
  <2> QED
    BY <2>3, <2>5
<1>5. PICK k \in 0..Len(e) : Cut(k) /\ t = SubSeq(e, k + 1, Len(e))
  BY <1>4 DEF After
<1>6. Cut(k) /\ k \in Nat /\ k <= Len(e)
  BY <1>1, <1>5
<1> HIDE DEF t
<1>7. /\ t \in Seq(Frames) /\ Len(t) = Len(e) - k /\ DOMAIN t = 1..(Len(e) - k)
      /\ \A i \in DOMAIN t : t[i] = e[i + k] /\ i + k \in DOMAIN e /\ i + k > k
      /\ t # <<>> <=> k < Len(e)
      /\ e # <<>> <=> 0 < Len(e)
  <2>1. e # <<>> <=> 0 < Len(e)
    BY <1>1
  <2> QED
    BY <1>1, <1>5, <2>1, SuffixIs
<1>8. \A i \in DOMAIN t : t[i] \in Elements(e) /\ t[i].n > s
  BY <1>6, <1>7 DEF Elements
<1>9. \A i, j \in DOMAIN t : i < j => t[i].n < t[j].n
  <2>1. \A i, j \in DOMAIN t : i < j => i + k < j + k
    BY <1>6, <1>7
  <2> QED
    BY <1>2, <1>7, <2>1
<1>10. t # <<>> => t[Len(t)].n = st.seq
  <2> HAVE t # <<>>
  <2>1. Len(t) \in DOMAIN t /\ Len(t) + k = Len(e) /\ e # <<>>
    BY <1>1, <1>6, <1>7
  <2> QED
    BY <1>3, <1>7, <2>1
<1>11. t = <<>> /\ e # <<>> => st.seq <= s
  <2> HAVE t = <<>> /\ e # <<>>
  <2>1. ~(k < Len(e)) /\ 0 < Len(e) /\ k \in Nat /\ k <= Len(e) /\ Len(e) \in Nat
    BY <1>1, <1>6, <1>7
  <2>2. Len(e) = k
    BY <2>1
  <2>3. Len(e) \in DOMAIN e
    BY <1>1, <2>1
  <2>4. ~(e[Len(e)].n > s)
    BY <1>6, <2>2, <2>3
  <2> QED
    BY <1>1, <1>3, <2>3, <2>4
<1> QED
  BY <1>7, <1>8, <1>9, <1>10, <1>11 DEF e, t
(* ring.since: either a gap, alone, or retained frames past s up to the head. *)
LEMMA SinceIs ==
    ASSUME NEW st \in Rings, RingOrdered(st), NEW s \in 0..MaxSeq
    PROVE  LET t == Since(st, s) IN
           /\ t \in Seq(Frames \cup Gaps)
           /\ \A i \in DOMAIN t : t[i] \in Gaps => i = 1
           /\ Rising(t) /\ Numbers(t) \subseteq Numbers(st.entries)
           /\ t = <<>> \/ t[1] \notin Gaps => s <= st.seq /\ Below({s}, Numbers(t))
           /\ t # <<>> => t[Len(t)].n = st.seq
           /\ t = <<>> => s = st.seq
<1> DEFINE Missed == s > st.seq \/ (s < st.seq /\ (st.entries = <<>> \/ st.entries[1].n > s + 1))
           t == Since(st, s)
<1>1. st.seq \in 0..MaxSeq /\ s \in Int /\ MaxSeq \in Nat /\ s \in Nat
  BY PushAssumption DEF Rings
<1>2. CASE Missed
  <2>1. PICK g : g = [kind |-> "gap", n |-> st.seq]
    OBVIOUS
  <2>2. g \in Gaps /\ g.n = st.seq /\ \A a : g # Frame(a)
    BY <1>1, <2>1 DEF Gaps, Frame
  <2>3. t = <<g>>
    BY <1>2, <2>1 DEF Since
  <2>4. t \in Seq(Frames \cup Gaps) /\ DOMAIN t = {1} /\ t[1] = g /\ Len(t) = 1 /\ t # <<>>
    <3> HIDE DEF t
    <3> QED
      BY <2>2, <2>3
  <2>5. Rising(t) /\ Numbers(t) = {}
    <3> HIDE DEF t
    <3> QED
      BY <2>2, <2>4 DEF Rising, Numbers, Elements
  <2> HIDE DEF t
  <2> QED
    BY <2>2, <2>4, <2>5 DEF t
<1>3. CASE ~Missed
  <2>1. t = After(st.entries, s)
    BY <1>3 DEF Since
  <2>2. /\ t \in Seq(Frames)
        /\ \A i \in DOMAIN t : t[i] \in Elements(st.entries) /\ t[i].n > s
        /\ \A i, j \in DOMAIN t : i < j => t[i].n < t[j].n
        /\ t # <<>> => t[Len(t)].n = st.seq
        /\ t = <<>> /\ st.entries # <<>> => st.seq <= s
    BY <1>1, <2>1, AfterIs
  <2> HIDE DEF t
  <2>3. t \in Seq(Frames \cup Gaps)
    <3>1. \A i \in DOMAIN t : t[i] \in Frames
      BY <2>2
    <3> QED
      BY <2>2, <3>1
  <2>4. \A i \in DOMAIN t : t[i] \notin Gaps
    BY <2>2, FramesAre
  <2>5. Rising(t)
    <3> SUFFICES ASSUME NEW i \in DOMAIN t, NEW j \in DOMAIN t, NEW a \in 1..MaxSeq,
                        NEW b \in 1..MaxSeq, i < j, t[i] = Frame(a), t[j] = Frame(b)
                 PROVE  a < b
      BY DEF Rising
    <3>1. t[i].n = a /\ t[j].n = b
      BY FrameIs
    <3> QED
      BY <2>2, <3>1
  <2>6. \A a \in Numbers(t) : a \in Numbers(st.entries) /\ s < a
    <3> TAKE a \in Numbers(t)
    <3>1. a \in 1..MaxSeq
      BY DEF Numbers
    <3>2. PICK i \in DOMAIN t : t[i] = Frame(a)
      BY DEF Numbers, Elements
    <3>3. t[i].n = a
      BY <3>2, FrameIs
    <3>4. Frame(a) \in Elements(st.entries) /\ a > s
      BY <2>2, <3>2, <3>3
    <3> QED
      BY <1>1, <3>1, <3>4 DEF Numbers
  <2>7. s <= st.seq /\ (t = <<>> => s = st.seq)
    <3>1. s <= st.seq
      BY <1>1, <1>3
    <3>2. t = <<>> => s = st.seq
      BY <1>1, <1>3, <2>2, <3>1
    <3> QED
      BY <3>1, <3>2
  <2> QED
    BY <2>2, <2>3, <2>4, <2>5, <2>6, <2>7 DEF Below, t
<1> QED
  BY <1>2, <1>3

(* registry.deliver: the frame is the last of the queue, which stays within *)
(* its capacity and in order.                                               *)
LEMMA QueuedIs ==
    ASSUME NEW f \in Frames, queue \in Seq(Frames), Len(queue) <= QueueFrames, Rising(queue),
           \A a \in 1..MaxSeq : f = Frame(a) => Below(Numbers(queue), {a})
    PROVE  /\ Queued(f) \in Seq(Frames) /\ Len(Queued(f)) <= QueueFrames
           /\ Queued(f) # <<>> /\ Queued(f)[Len(Queued(f))] = f
           /\ \A a \in Numbers(Queued(f)) : a \in Numbers(queue) \/ f = Frame(a)
           /\ Rising(Queued(f))
<1> DEFINE Shorter == IF Len(queue) >= QueueFrames THEN Tail(queue) ELSE queue
<1>1. PICK q : q = Shorter
  OBVIOUS
<1>2. Queued(f) = Append(q, f)
  BY <1>1 DEF Queued
<1>3. q \in Seq(Frames) /\ Len(q) + 1 <= QueueFrames /\ Rising(q) /\ Numbers(q) \subseteq Numbers(queue)
  <2>1. QueueFrames \in Nat \ {0} /\ Len(queue) \in Nat
    BY PushAssumption
  <2>2. CASE Len(queue) >= QueueFrames
    <3>1. q = Tail(queue) /\ queue # <<>>
      BY <1>1, <2>1, <2>2
    <3>2. q \in Seq(Frames) /\ Len(q) = Len(queue) - 1
      BY <3>1, TailIs
    <3>3. Rising(q) /\ Numbers(q) \subseteq Numbers(queue)
      BY <3>1, RisingTail, NumbersTail
    <3> QED
      BY <2>1, <3>2, <3>3
  <2>3. CASE ~(Len(queue) >= QueueFrames)
    BY <1>1, <2>1, <2>3
  <2> QED
    BY <2>2, <2>3
<1>4. /\ Append(q, f) \in Seq(Frames) /\ Append(q, f) # <<>> /\ Len(Append(q, f)) = Len(q) + 1
      /\ Append(q, f)[Len(q) + 1] = f
  BY <1>3, AppendIs
<1>5. \A a \in Numbers(Append(q, f)) : a \in Numbers(q) \/ f = Frame(a)
  BY <1>3, NumbersAppend
<1>6. \A a \in 1..MaxSeq : f = Frame(a) => Below(Numbers(q), {a})
  BY <1>3 DEF Below
<1>7. Rising(Append(q, f))
  BY <1>3, <1>6, RisingAppend
<1> QED
  BY <1>2, <1>3, <1>4, <1>5, <1>7
-----------------------------------------------------------------------------
(* What the channel has for a process, from one state to the next: nothing  *)
(* new but numbers past the counter c of before, and none past the one of   *)
(* after.                                                                   *)
Onward(s, t, c, d) ==
    /\ Rising(t)
    /\ \A a \in Numbers(t) : a <= d /\ (a \in Numbers(s) \/ a > c)

LEMMA NumbersType ==
    ASSUME NEW s PROVE Numbers(s) \subseteq Nat /\ Numbers(s) \subseteq 1..MaxSeq
BY FramesAre DEF Numbers

(* What the channel has is typed and in order. *)
LEMMA InboxIs ==
    ASSUME PushTyped, NEW p \in Procs, ProcInv(p)
    PROVE  /\ inbox[p] \in Seq(FleetFrames \cup Notices) /\ Rising(inbox[p])
           /\ counter \in Nat /\ \A a \in Numbers(inbox[p]) : a <= counter
<1>1. inbox[p] \in Seq(FleetFrames \cup Notices) /\ Rising(inbox[p]) /\ counter \in Nat
  BY PushAssumption DEF PushTyped, ProcInv
<1>2. \A a \in Numbers(inbox[p]) : a < counter + 1
  BY DEF ProcInv, Below
<1> QED
  BY <1>1, <1>2, NumbersType

LEMMA OnwardSame ==
    ASSUME PushTyped, NEW p \in Procs, ProcInv(p), NEW d \in Nat, counter <= d
    PROVE  Onward(inbox[p], inbox[p], counter, d)
<1>1. \A a \in Numbers(inbox[p]) : a <= counter /\ a \in Nat
  BY InboxIs, NumbersType
<1> QED
  BY <1>1, InboxIs DEF Onward

LEMMA OnwardTail ==
    ASSUME PushTyped, NEW p \in Procs, ProcInv(p), inbox[p] # <<>>
    PROVE  /\ Onward(inbox[p], Tail(inbox[p]), counter, counter)
           /\ Tail(inbox[p]) \in Seq(FleetFrames \cup Notices)
BY InboxIs, RisingTail, NumbersTail, TailIs DEF Onward

LEMMA OnwardEmpty ==
    ASSUME NEW s, NEW c PROVE Onward(s, <<>>, c, c)
BY NumbersEmpty DEF Onward

LEMMA NoticesAre ==
    /\ Declaration \in Notices /\ \A p \in Procs : Hello(p) \in Notices
    /\ \A m \in Notices : (\A a : m # Frame(a)) /\ m.kind \in {"declare", "hello"}
    /\ \A m \in Notices : m.kind = "declare" => m = Declaration
    /\ \A m \in Notices : m.kind = "hello" => m.from \in Procs /\ m = Hello(m.from)
    /\ \A p : Hello(p) # Declaration
<1>1. Declaration \in Notices /\ Declaration.kind = "declare"
  BY DEF Notices, Declaration
<1>2. \A p \in Procs : Hello(p) \in Notices
  BY DEF Notices, Hello
<1>3. \A p : Hello(p).kind = "hello"
  BY DEF Hello
<1>4. \A m \in Notices : m = Declaration \/ \E p \in Procs : m = Hello(p)
  BY DEF Notices, Declaration, Hello
<1>5. \A p : Hello(p).from = p
  BY DEF Hello
<1>6. \A a : Frame(a).kind = "frame"
  BY DEF Frame
<1> QED
  BY <1>1, <1>2, <1>3, <1>4, <1>5, <1>6

LEMMA OnwardNotice ==
    ASSUME NEW s, NEW t \in Seq(FleetFrames \cup Notices), NEW c, NEW d, Onward(s, t, c, d),
           NEW m \in Notices
    PROVE  Onward(s, Append(t, m), c, d) /\ Append(t, m) \in Seq(FleetFrames \cup Notices)
<1>1. m \in FleetFrames \cup Notices /\ \A a : m # Frame(a)
  BY NoticesAre
<1>2. Rising(Append(t, m))
  BY <1>1, RisingAppend DEF Onward
<1>3. Numbers(Append(t, m)) \subseteq Numbers(t)
  BY <1>1, NumbersAppend
<1> QED
  BY <1>1, <1>2, <1>3, AppendIs DEF Onward

LEMMA OnwardFrame ==
    ASSUME PushTyped, NEW p \in Procs, ProcInv(p), counter < MaxSeq
    PROVE  /\ Onward(inbox[p], Append(inbox[p], Frame(counter + 1)), counter, counter + 1)
           /\ Append(inbox[p], Frame(counter + 1)) \in Seq(FleetFrames \cup Notices)
<1> DEFINE m == Frame(counter + 1)
<1>1. counter \in Nat /\ counter + 1 \in 1..MaxSeq
  BY PushAssumption DEF PushTyped
<1>2. m \in FleetFrames \cup Notices
  BY <1>1, FramesAre
<1>3. \A a : m = Frame(a) => a = counter + 1
  BY FrameIs
<1> HIDE DEF m
<1>4. \A a \in Numbers(inbox[p]) : a <= counter /\ a \in Nat
  BY InboxIs, NumbersType
<1>5. \A a \in 1..MaxSeq : m = Frame(a) => Below(Numbers(inbox[p]), {a})
  BY <1>1, <1>3, <1>4 DEF Below
<1>6. inbox[p] \in Seq(FleetFrames \cup Notices) /\ Rising(inbox[p])
  BY InboxIs
<1>7. Rising(Append(inbox[p], m))
  BY <1>2, <1>5, <1>6, RisingAppend
<1>8. \A a \in Numbers(Append(inbox[p], m)) : a \in Numbers(inbox[p]) \/ a = counter + 1
  BY <1>2, <1>3, <1>6, NumbersAppend
<1>9. \A a \in Numbers(Append(inbox[p], m)) :
          a <= counter + 1 /\ (a \in Numbers(inbox[p]) \/ a > counter)
  BY <1>1, <1>4, <1>8
<1> QED
  BY <1>2, <1>6, <1>7, <1>9, AppendIs DEF Onward, m

Flows(p) ==
    /\ inbox'[p] \in Seq(FleetFrames \cup Notices)
    /\ Onward(inbox[p], inbox'[p], counter, counter')

(* A process whose ring a step leaves alone. *)
LEMMA ProcFlows ==
    ASSUME PushTyped, NEW p \in Procs, ProcInv(p), Flows(p), ring'[p] = ring[p],
           counter' \in Nat, counter <= counter', p \in ownNumbered => p \in ownNumbered'
    PROVE  ProcInv(p)'
<1> DEFINE e == ring[p].entries
<1>1. counter \in Nat /\ ring[p] \in Rings
  BY PushAssumption DEF PushTyped, Rings
<1>2. ring[p].seq \in Nat /\ \A a \in Numbers(e) \cup Numbers(inbox[p]) \cup Numbers(inbox'[p]) : a \in Nat
  BY <1>1, NumbersType, FramesAre DEF Rings
<1>3. /\ Rising(inbox'[p])
      /\ \A a \in Numbers(inbox'[p]) : a <= counter' /\ (a \in Numbers(inbox[p]) \/ a > counter)
  BY DEF Flows, Onward
<1>4. /\ RingOrdered(ring[p])
      /\ \A a \in Numbers(e) : \A b \in Numbers(inbox[p]) : a < b
      /\ \A a \in Numbers(e) : a < counter + 1
      /\ p \notin ownNumbered =>
            ring[p].seq <= counter /\ \A b \in Numbers(inbox[p]) : ring[p].seq < b
  BY DEF ProcInv, Below
<1>5. \A a \in Numbers(e) : \A b \in Numbers(inbox'[p]) : a < b
  <2> TAKE a \in Numbers(e)
  <2> TAKE b \in Numbers(inbox'[p])
  <2>1. a < counter + 1 /\ (b \in Numbers(inbox[p]) => a < b) /\ a \in Nat /\ b \in Nat
    BY <1>2, <1>4
  <2>2. b \in Numbers(inbox[p]) \/ b > counter
    BY <1>3
  <2> QED
    BY <1>1, <2>1, <2>2
<1>6. p \notin ownNumbered' =>
         ring[p].seq <= counter' /\ \A b \in Numbers(inbox'[p]) : ring[p].seq < b
  <2> HAVE p \notin ownNumbered'
  <2>1. ring[p].seq <= counter /\ \A b \in Numbers(inbox[p]) : ring[p].seq < b
    BY <1>4
  <2> QED
    BY <1>1, <1>2, <1>3, <2>1
<1>7. \A a \in Numbers(e) \cup Numbers(inbox'[p]) : a < counter' + 1
  BY <1>1, <1>2, <1>3, <1>4
<1>8. ring[p]' = ring[p] /\ inbox[p]' = inbox'[p]
  OBVIOUS
<1> HIDE DEF e
<1> QED
  BY <1>3, <1>4, <1>5, <1>6, <1>7, <1>8 DEF ProcInv, Below, e
(* The invariants of the pipe and of the panel spelt out, with the types of *)
(* the numbers in them.                                                     *)
LEMMA PipeIs ==
    ASSUME PushTyped, PipeInv
    PROVE  /\ \A a \in Numbers(wire) \cup Numbers(queue) : a \in Nat /\ a <= counter
           /\ \A a \in Numbers(wire) : \A b \in Numbers(queue) : a < b
           /\ Subscribed => \A a \in Numbers(wire) \cup Numbers(queue) :
                               \A b \in Numbers(inbox[conn]) : a < b
           /\ counter \in Nat
<1>1. \A a \in Numbers(wire) \cup Numbers(queue) : a < counter + 1 /\ a \in Nat
  BY NumbersType DEF PipeInv, Below
<1>2. counter \in Nat
  BY PushAssumption DEF PushTyped
<1> QED
  BY <1>1, <1>2 DEF PipeInv, Below

(* A step of a server: the console, its wire and its panel are left alone,  *)
(* and the queue may take what its process has just heard.                  *)
LEMMA PipeFlows ==
    ASSUME PushTyped, PipeInv, PanelInv, \A p \in Procs : ProcInv(p),
           UNCHANGED <<conn, sub, wire, seen, tail, mixed>>,
           counter' \in Nat, counter <= counter',
           Subscribed => Flows(conn),
           queue' = queue \/ /\ Subscribed /\ Rising(queue')
                             /\ Numbers(queue') \subseteq Numbers(queue) \cup Numbers(inbox[conn])
                             /\ Below(Numbers(queue'), Numbers(inbox'[conn]))
    PROVE  PipeInv' /\ PanelInv'
<1> DEFINE in == Numbers(inbox[conn])
           next == Numbers(inbox'[conn])
           after == Numbers(queue')
<1>1. /\ \A a \in Numbers(wire) \cup Numbers(queue) : a \in Nat /\ a <= counter
      /\ \A a \in Numbers(wire) : \A b \in Numbers(queue) : a < b
      /\ Subscribed => \A a \in Numbers(wire) \cup Numbers(queue) : \A b \in in : a < b
      /\ counter \in Nat
  BY PipeIs
<1>2. (Subscribed' <=> Subscribed) /\ (GapDue' <=> GapDue) /\ (Subscribed => conn \in Procs)
  BY DEF Subscribed, GapDue, PushTyped
<1>3. Rising(queue')
  BY DEF PipeInv
<1>4. Subscribed => \A a \in next : a \in Nat /\ a <= counter' /\ (a \in in \/ a > counter)
  BY <1>2, NumbersType DEF Flows, Onward
<1>5. Subscribed => \A a \in in : a \in Nat /\ a <= counter
  BY <1>2, InboxIs, NumbersType
<1>6. \A a \in after : a \in Nat /\ (a \in Numbers(queue) \/ (Subscribed /\ a \in in))
  BY NumbersType
<1>7. \A a \in Numbers(wire) : \A b \in after : a < b
  BY <1>1, <1>6
<1>8. \A a \in Numbers(wire) \cup after : a < counter' + 1
  BY <1>1, <1>5, <1>6
<1>9. Subscribed => \A a \in Numbers(wire) : \A b \in next : a < b
  BY <1>1, <1>4
<1>10. Subscribed => \A a \in after : \A b \in next : a < b
  <2>1. CASE queue' = queue
    BY <1>1, <1>4, <2>1
  <2>2. CASE queue' # queue
    BY <2>2 DEF Below
  <2> QED
    BY <2>1, <2>2
<1> HIDE DEF in, next, after
<1>11. PipeInv'
  <2>1. ~Subscribed => wire' = <<>> /\ queue' = <<>>
    BY DEF PipeInv
  <2>2. \A i \in DOMAIN wire' : wire'[i] \in Gaps => i = 1
    BY DEF PipeInv
  <2>3. Rising(wire') /\ Below(Numbers(wire'), Numbers(queue'))
        /\ Below(Numbers(wire') \cup Numbers(queue'), {counter' + 1})
    BY <1>7, <1>8 DEF PipeInv, Below, after
  <2>4. Subscribed => Below(Numbers(wire') \cup Numbers(queue'), Numbers(inbox'[conn]))
    BY <1>9, <1>10 DEF Below, after, next
  <2> QED
    BY <1>2, <1>3, <2>1, <2>2, <2>3, <2>4 DEF PipeInv
<1>12. PanelInv'
  <2> SUFFICES ASSUME ~mixed, tail # {}
               PROVE  /\ seen' \in tail' /\ seen' <= counter'
                      /\ \A i, j \in tail' : \A n \in i..j : n \in tail'
                      /\ Subscribed' /\ ~GapDue' =>
                           Below({seen'}, Numbers(wire') \cup Numbers(queue') \cup Numbers(inbox'[conn']))
    BY DEF PanelInv
  <2>1. seen \in tail /\ seen <= counter /\ (\A i, j \in tail : \A n \in i..j : n \in tail)
    BY DEF PanelInv
  <2>2. seen \in Nat
    BY <2>1, FramesAre DEF PushTyped
  <2>3. ASSUME Subscribed, ~GapDue
        PROVE  Below({seen}, Numbers(wire) \cup after \cup next)
    <3>1. \A a \in Numbers(wire) \cup Numbers(queue) \cup in : seen < a
      BY <2>3 DEF PanelInv, Below, in
    <3>2. \A a \in Numbers(wire) \cup after : seen < a
      BY <1>6, <3>1
    <3>3. \A a \in next : seen < a
      BY <1>1, <1>4, <2>1, <2>2, <2>3, <3>1
    <3> QED
      BY <3>2, <3>3 DEF Below
  <2>4. seen' <= counter'
    BY <1>1, <2>1, <2>2
  <2> QED
    BY <1>2, <2>1, <2>3, <2>4 DEF after, next
<1> QED
  BY <1>11, <1>12

LEMMA HeadFlows ==
    ASSUME HeadInv, UNCHANGED <<conn, sub, wire, seen>>,
           ownNumbered' = {} => ownNumbered = {},
           ownNumbered' = {} /\ Subscribed =>
              \/ queue' = queue /\ crowded' = crowded /\ ring'[conn].seq = ring[conn].seq
              \/ queue' # <<>> /\ queue'[Len(queue')].n = ring'[conn].seq
    PROVE  HeadInv'
<1> SUFFICES ASSUME ownNumbered' = {}, Subscribed'
             PROVE  /\ queue' # <<>> => queue'[Len(queue')].n = ring'[conn].seq
                    /\ queue' = <<>> /\ wire # <<>> /\ ~crowded' => wire[Len(wire)].n = ring'[conn].seq
                    /\ queue' = <<>> /\ wire = <<>> /\ ~crowded' => seen \in {Unseen, ring'[conn].seq}
  BY DEF HeadInv
<1>1. Subscribed
  BY DEF Subscribed
<1>2. CASE queue' = queue /\ crowded' = crowded /\ ring'[conn].seq = ring[conn].seq
  BY <1>1, <1>2 DEF HeadInv
<1>3. CASE queue' # <<>> /\ queue'[Len(queue')].n = ring'[conn].seq
  BY <1>3
<1> QED
  BY <1>1, <1>2, <1>3

(* A step that loses no notice. *)
LEMMA DeclareFlows ==
    ASSUME DeclareInv, PushTyped, UNCHANGED <<hears, declared>>, unheard => unheard',
           Declaration \in Elements(inbox'[Owner]) => Declaration \in Elements(inbox[Owner]),
           \A p \in Procs : Declaration \in Elements(inbox[p]) => Declaration \in Elements(inbox'[p]),
           \A p \in Procs : Hello(p) \in Elements(inbox[Owner]) => Hello(p) \in Elements(inbox'[Owner])
    PROVE  DeclareInv'
<1>1. Owner \notin declared' => Declaration \notin Elements(inbox'[Owner])
  BY DEF DeclareInv
<1>2. ASSUME ~unheard', Owner \in declared, NEW p \in hears \ declared
      PROVE  Declaration \in Elements(inbox'[p]) \/ Hello(p) \in Elements(inbox'[Owner])
  <2>1. p \in Procs /\ ~unheard
    BY <1>2 DEF PushTyped
  <2> QED
    BY <1>2, <2>1 DEF DeclareInv
<1>3. ~unheard' => Owner \in hears
  BY DEF DeclareInv
<1> QED
  BY <1>1, <1>2, <1>3 DEF DeclareInv
-----------------------------------------------------------------------------
(* Publishing *)

(* The channel carries a frame, or nothing, to those that hear it. *)
Spread ==
    /\ counter' \in 0..MaxSeq /\ counter' \in Nat /\ counter <= counter'
    /\ inbox' \in [Procs -> Seq(FleetFrames \cup Notices)]
    /\ \A p \in Procs :
        /\ Flows(p)
        /\ Elements(inbox[p]) \subseteq Elements(inbox'[p])
        /\ Declaration \in Elements(inbox'[p]) => Declaration \in Elements(inbox[p])

LEMMA SpreadFrame ==
    ASSUME PushInv, counter < MaxSeq, counter' = counter + 1,
           inbox' = Shared([kind |-> "frame", n |-> counter', own |-> FALSE])
    PROVE  Spread
<1> USE DEF PushInv
<1>1. counter \in Nat /\ counter' \in 0..MaxSeq /\ counter' \in Nat /\ counter <= counter'
  BY PushAssumption DEF PushTyped
<1>2. PICK f : f = Frame(counter + 1)
  OBVIOUS
<1>3. inbox' = [p \in Procs |-> IF p \in hears THEN Append(inbox[p], f) ELSE inbox[p]]
  BY <1>2 DEF Shared, Frame
<1>4. f \in FleetFrames \cup Notices /\ f # Declaration
  <2>1. counter + 1 \in 1..MaxSeq
    BY <1>1
  <2>2. f \in FleetFrames
    BY <1>2, <2>1, FramesAre
  <2>3. f # Declaration
    BY <1>2, FrameIs
  <2> QED
    BY <2>2, <2>3
<1>5. ASSUME NEW p \in Procs
      PROVE  /\ Flows(p)
             /\ Elements(inbox[p]) \subseteq Elements(inbox'[p])
             /\ Declaration \in Elements(inbox'[p]) => Declaration \in Elements(inbox[p])
  <2>1. ProcInv(p) /\ inbox[p] \in Seq(FleetFrames \cup Notices)
    BY InboxIs
  <2>2. CASE p \in hears
    <3>1. inbox'[p] = Append(inbox[p], f)
      BY <1>3, <2>2
    <3>2. Flows(p)
      BY <1>2, <2>1, <3>1, OnwardFrame DEF Flows
    <3>3. Elements(inbox'[p]) = Elements(inbox[p]) \cup {f}
      <4>1. Elements(Append(inbox[p], f)) = Elements(inbox[p]) \cup {f}
        BY <1>4, <2>1, ElementsAppend
      <4> QED
        BY <3>1, <4>1
    <3> QED
      BY <1>4, <3>2, <3>3
  <2>3. CASE p \notin hears
    <3>1. inbox'[p] = inbox[p]
      BY <1>3, <2>3
    <3> QED
      BY <1>1, <2>1, <3>1, OnwardSame DEF Flows
  <2> QED
    BY <2>2, <2>3
<1>6. inbox' \in [Procs -> Seq(FleetFrames \cup Notices)]
  <2>1. \A p \in Procs : inbox'[p] \in Seq(FleetFrames \cup Notices)
    BY <1>5 DEF Flows
  <2> QED
    BY <1>3, <2>1
<1> QED
  BY <1>1, <1>5, <1>6 DEF Spread

LEMMA SpreadNothing ==
    ASSUME PushInv, UNCHANGED <<counter, inbox>>
    PROVE  Spread
<1> USE DEF PushInv
<1>1. counter \in Nat /\ counter' \in 0..MaxSeq /\ counter' \in Nat /\ counter <= counter'
      /\ inbox' \in [Procs -> Seq(FleetFrames \cup Notices)]
  BY PushAssumption DEF PushTyped
<1>2. ASSUME NEW p \in Procs PROVE Flows(p)
  <2>1. ProcInv(p) /\ inbox'[p] = inbox[p] /\ inbox[p] \in Seq(FleetFrames \cup Notices)
    BY InboxIs
  <2> QED
    BY <1>1, <2>1, OnwardSame DEF Flows
<1> QED
  BY <1>1, <1>2 DEF Spread

(* What follows from a channel that only grows: nothing declared is lost. *)
LEMMA SpreadDeclared ==
    ASSUME PushInv, Spread, UNCHANGED <<hears, declared, unheard>>
    PROVE  DeclareInv'
<1>1. /\ Declaration \in Elements(inbox'[Owner]) => Declaration \in Elements(inbox[Owner])
      /\ \A p \in Procs : Declaration \in Elements(inbox[p]) => Declaration \in Elements(inbox'[p])
      /\ \A p \in Procs : Hello(p) \in Elements(inbox[Owner]) => Hello(p) \in Elements(inbox'[Owner])
  BY PushAssumption DEF Spread
<1> QED
  BY <1>1, DeclareFlows DEF PushInv

LEMMA FaultType ==
    ASSUME PushTyped, Fault \/ UNCHANGED faults PROVE faults' \in 0..MaxFaults
BY PushAssumption DEF PushTyped, Fault

LEMMA PublishStep ==
    ASSUME PushInv, Publish PROVE PushInv'
<1> USE DEF PushInv
<1>1. Spread
  BY SpreadFrame DEF Publish
<1>2. UNCHANGED <<ownCounter, hears, ownNumbered, unheard, ring, declared, queue, crowded, conn, sub, wire,
                  seen, tail, connects, mixed, faults>>
  BY DEF Publish, serverVars, clientVars
<1>3. PushTyped'
  BY <1>1, <1>2 DEF PushTyped, Spread
<1>4. ASSUME NEW p \in Procs PROVE ProcInv(p)'
  BY <1>1, <1>2, ProcFlows DEF Spread
<1>5. PipeInv' /\ PanelInv'
  <2>1. Subscribed => Flows(conn)
    BY <1>1 DEF Spread, Subscribed, PushTyped
  <2> QED
    BY <1>1, <1>2, <2>1, PipeFlows DEF Spread
<1>6. HeadInv'
  BY <1>2, HeadFlows
<1>7. DeclareInv'
  BY <1>1, <1>2, SpreadDeclared
<1> QED
  BY <1>3, <1>4, <1>5, <1>6, <1>7

LEMMA PublishFailsStep ==
    ASSUME PushInv, PublishFails PROVE PushInv'
<1> USE DEF PushInv
<1>1. Spread
  <2>1. CASE UNCHANGED <<counter, inbox>>
    BY <2>1, SpreadNothing
  <2>2. CASE /\ counter < MaxSeq /\ counter' = counter + 1
             /\ inbox' = Shared([kind |-> "frame", n |-> counter', own |-> FALSE])
    BY <2>2, SpreadFrame
  <2> QED
    BY <2>1, <2>2 DEF PublishFails
<1>2. UNCHANGED <<hears, unheard, declared, conn, sub, wire, seen, tail, connects, mixed>>
  BY DEF PublishFails, clientVars
<1>3. PICK f : f = [kind |-> "frame", n |-> ownCounter', own |-> TRUE]
  OBVIOUS
<1>4. /\ ownCounter' \in 0..MaxOwn /\ ownCounter' \in 1..MaxSeq /\ ownNumbered' = {Owner}
      /\ faults' \in 0..MaxFaults /\ Owner \in Procs
      /\ ring' = [ring EXCEPT ![Owner] = Pushed(ring[Owner], f)]
      /\ queue' = IF conn = Owner /\ sub = "held" THEN Queued(f) ELSE queue
  <2>1. ownCounter \in Nat /\ MaxOwn \in Nat /\ MaxSeq \in Nat /\ MaxOwn <= MaxSeq /\ MaxFaults \in Nat
        /\ ownCounter < MaxOwn /\ ownCounter' = ownCounter + 1 /\ faults \in Nat
    BY PushAssumption DEF PushTyped, PublishFails
  <2>2. faults' \in 0..MaxFaults
    BY FaultType DEF PublishFails
  <2>3. ownNumbered' = {Owner}
    BY DEF PushTyped, PublishFails
  <2>4. /\ ring' = [ring EXCEPT ![Owner] = Pushed(ring[Owner], f)]
        /\ queue' = IF conn = Owner /\ sub = "held" THEN Queued(f) ELSE queue
    BY <1>3 DEF PublishFails, Receive
  <2> QED
    BY <2>1, <2>2, <2>3, <2>4, PushAssumption
<1>5. f \in Frames /\ \A a : f # Frame(a)
  <2>1. f \in Frames /\ f.own = TRUE
    BY <1>3, <1>4 DEF Frames
  <2> QED
    BY <2>1, FramesAre
<1>6. ring \in [Procs -> Rings] /\ ring[Owner] \in Rings /\ RingOrdered(ring[Owner])
  BY <1>4 DEF PushTyped, Rings, ProcInv
<1>7. PICK u : u = Pushed(ring[Owner], f)
  OBVIOUS
<1>8. u \in Rings /\ RingOrdered(u) /\ Numbers(u.entries) \subseteq Numbers(ring[Owner].entries)
  BY <1>5, <1>6, <1>7, PushedIs
<1>9. ring' \in [Procs -> Rings] /\ ring'[Owner] = u /\ \A p \in Procs \ {Owner} : ring'[p] = ring[p]
  BY <1>4, <1>6, <1>7, <1>8
<1>10. /\ queue' \in Seq(Frames) /\ Len(queue') <= QueueFrames /\ Rising(queue')
       /\ Numbers(queue') \subseteq Numbers(queue)
       /\ queue' = queue \/ Subscribed
  <2>1. queue \in Seq(Frames) /\ Len(queue) <= QueueFrames /\ Rising(queue)
    BY DEF PushTyped, PipeInv
  <2>2. CASE conn = Owner /\ sub = "held"
    <3>1. queue' = Queued(f) /\ Subscribed
      BY <1>4, <2>2, PushAssumption DEF Subscribed
    <3> QED
      BY <1>5, <2>1, <3>1, QueuedIs
  <2>3. CASE ~(conn = Owner /\ sub = "held")
    BY <1>4, <2>1, <2>3
  <2> QED
    BY <2>2, <2>3
<1>11. PushTyped'
  <2>1. ring' \in [Procs -> [seq : 0..MaxSeq, entries : Seq(Frames)]]
    BY <1>9 DEF Rings
  <2> QED
    BY <1>1, <1>2, <1>4, <1>10, <2>1 DEF PushTyped, Spread
<1>12. ASSUME NEW p \in Procs PROVE ProcInv(p)'
  <2>1. CASE p # Owner
    <3>1. ring'[p] = ring[p] /\ (p \in ownNumbered => p \in ownNumbered') /\ Flows(p) /\ ProcInv(p)
      BY <1>1, <1>9, <2>1 DEF Spread, PushTyped
    <3> QED
      BY <1>1, <3>1, ProcFlows DEF Spread
  <2>2. CASE p = Owner
    <3> DEFINE e == ring[p].entries
    <3>1. /\ \A a \in Numbers(u.entries) : a \in Numbers(e) /\ a < counter + 1 /\ a \in Nat
          /\ \A a \in Numbers(e) : \A b \in Numbers(inbox[p]) : a < b
      BY <1>8, <2>2, NumbersType DEF ProcInv, Below
    <3>2. /\ Rising(inbox'[p])
          /\ \A b \in Numbers(inbox'[p]) :
                b <= counter' /\ (b \in Numbers(inbox[p]) \/ b > counter) /\ b \in Nat
      BY <1>1, NumbersType DEF Spread, Flows, Onward
    <3>3. counter \in Nat /\ counter' \in Nat /\ counter <= counter'
      BY <1>1, PushAssumption DEF Spread, PushTyped
    <3> HIDE DEF e
    <3>4. Below(Numbers(u.entries), Numbers(inbox'[p]))
      BY <3>1, <3>2, <3>3 DEF Below
    <3>5. Below(Numbers(u.entries) \cup Numbers(inbox'[p]), {counter' + 1})
      BY <3>1, <3>2, <3>3 DEF Below
    <3>6. ring'[p] = u /\ p \in ownNumbered'
      BY <1>4, <1>9, <2>2
    <3> QED
      BY <1>8, <3>2, <3>4, <3>5, <3>6 DEF ProcInv
  <2> QED
    BY <2>1, <2>2
<1>13. PipeInv' /\ PanelInv'
  <2>1. Subscribed => Flows(conn)
    BY <1>1 DEF Spread, Subscribed, PushTyped
  <2>2. Subscribed => Below(Numbers(queue'), Numbers(inbox'[conn]))
    <3> HAVE Subscribed
    <3>1. \A a \in Numbers(queue') : a \in Nat /\ a <= counter /\ \A b \in Numbers(inbox[conn]) : a < b
      BY <1>10, PipeIs
    <3>2. \A b \in Numbers(inbox'[conn]) : (b \in Numbers(inbox[conn]) \/ b > counter) /\ b \in Nat
      BY <2>1, NumbersType DEF Flows, Onward
    <3>3. counter \in Nat
      BY PipeIs
    <3> QED
      BY <3>1, <3>2, <3>3 DEF Below
  <2> QED
    BY <1>1, <1>2, <1>10, <2>1, <2>2, PipeFlows DEF Spread
<1>14. HeadInv'
  BY <1>4 DEF HeadInv
<1>15. DeclareInv'
  BY <1>1, <1>2, SpreadDeclared
<1> QED
  BY <1>11, <1>12, <1>13, <1>14, <1>15
(* What a ring retains is dropped; its head, and all that is on its way,   *)
(* stay.                                                                   *)
LEMMA ResetStreamStep ==
    ASSUME PushInv, ResetStream PROVE PushInv'
<1> USE DEF PushInv
<1>1. UNCHANGED <<counter, ownCounter, hears, inbox, ownNumbered, unheard, declared, queue, crowded, conn, sub,
                  wire, seen, tail, connects, mixed, faults>>
  BY DEF ResetStream, chanVars, clientVars
<1>2. Spread
  BY <1>1, SpreadNothing
<1>3. ring \in [Procs -> Rings] /\ Owner \in Procs
  BY PushAssumption DEF PushTyped, Rings
<1>4. PICK u : u = [seq |-> ring[Owner].seq, entries |-> <<>>]
  OBVIOUS
<1>5. u \in Rings /\ RingOrdered(u) /\ u.seq = ring[Owner].seq /\ Numbers(u.entries) = {}
  <2>1. u \in Rings /\ u.seq = ring[Owner].seq /\ u.entries = <<>>
    BY <1>3, <1>4 DEF Rings
  <2>2. RingOrdered(u)
    BY <2>1, PushAssumption DEF RingOrdered
  <2> QED
    BY <2>1, <2>2, NumbersEmpty
<1>6. ring' = [ring EXCEPT ![Owner] = u]
  <2>1. ring[Owner] = [seq |-> ring[Owner].seq, entries |-> ring[Owner].entries]
    BY <1>3 DEF Rings
  <2>2. ring' = [ring EXCEPT ![Owner] = [ring[Owner] EXCEPT !.entries = <<>>]]
    BY DEF ResetStream
  <2>3. [ring[Owner] EXCEPT !.entries = <<>>] = u
    BY <1>4, <2>1
  <2> QED
    BY <2>2, <2>3
<1>7. /\ ring' \in [Procs -> Rings] /\ ring'[Owner] = u
      /\ \A p \in Procs \ {Owner} : ring'[p] = ring[p]
      /\ \A p \in Procs : ring'[p].seq = ring[p].seq
  BY <1>3, <1>5, <1>6
<1>8. PushTyped'
  <2>1. ring' \in [Procs -> [seq : 0..MaxSeq, entries : Seq(Frames)]]
    BY <1>7 DEF Rings
  <2> QED
    BY <1>1, <2>1 DEF PushTyped
<1>9. ASSUME NEW p \in Procs PROVE ProcInv(p)'
  <2>1. CASE p # Owner
    BY <1>1, <1>2, <1>7, <2>1, ProcFlows DEF Spread
  <2>2. CASE p = Owner
    <3>1. ring'[p] = u /\ u.seq = ring[p].seq
      BY <1>5, <1>7, <2>2
    <3> QED
      BY <1>1, <1>5, <3>1 DEF ProcInv, Below
  <2> QED
    BY <2>1, <2>2
<1>10. PipeInv' /\ PanelInv'
  BY <1>1 DEF PipeInv, PanelInv, Subscribed, GapDue
<1>11. HeadInv'
  <2>1. Subscribed => ring'[conn].seq = ring[conn].seq
    BY <1>7 DEF Subscribed, PushTyped
  <2> QED
    BY <1>1, <2>1, HeadFlows
<1>12. DeclareInv'
  BY <1>1, <1>2, SpreadDeclared
<1> QED
  BY <1>8, <1>9, <1>10, <1>11, <1>12

(* A step of the channel alone: the rings, the queue, the console and its   *)
(* panel are left alone.                                                    *)
LEMMA ChannelStep ==
    ASSUME PushInv, PushTyped', \A p \in Procs : Flows(p), counter' = counter,
           UNCHANGED <<ownNumbered, ring, queue, crowded, conn, sub, wire, seen, tail, mixed>>
    PROVE  (\A p \in Procs : ProcInv(p)') /\ PipeInv' /\ PanelInv' /\ HeadInv'
<1> USE DEF PushInv
<1>1. counter \in Nat /\ counter' \in Nat /\ counter <= counter'
  BY PushAssumption DEF PushTyped
<1>2. ASSUME NEW p \in Procs PROVE ProcInv(p)'
  BY <1>1, ProcFlows
<1>3. PipeInv' /\ PanelInv'
  <2>1. Subscribed => Flows(conn)
    BY DEF Subscribed, PushTyped
  <2> QED
    BY <1>1, <2>1, PipeFlows
<1>4. HeadInv'
  BY HeadFlows
<1> QED
  BY <1>2, <1>3, <1>4

(* A notice more at some of the processes. *)
LEMMA NoticeShared ==
    ASSUME PushInv, NEW m \in Notices, NEW S, counter' = counter,
           inbox' = [p \in Procs |-> IF p \in S THEN Append(inbox[p], m) ELSE inbox[p]]
    PROVE  /\ inbox' \in [Procs -> Seq(FleetFrames \cup Notices)]
           /\ \A p \in Procs : Flows(p)
           /\ \A p \in Procs : p \in S => Elements(inbox'[p]) = Elements(inbox[p]) \cup {m}
           /\ \A p \in Procs : p \notin S => inbox'[p] = inbox[p]
<1> USE DEF PushInv
<1>1. ASSUME NEW p \in Procs
      PROVE  Flows(p) /\ (p \in S => Elements(inbox'[p]) = Elements(inbox[p]) \cup {m})
  <2>1. /\ ProcInv(p) /\ inbox[p] \in Seq(FleetFrames \cup Notices) /\ counter \in Nat
        /\ counter <= counter
    BY InboxIs
  <2>2. Onward(inbox[p], inbox[p], counter, counter)
    BY <2>1, OnwardSame
  <2>3. CASE p \in S
    <3>1. inbox'[p] = Append(inbox[p], m)
      BY <2>3
    <3>2. Flows(p)
      BY <2>1, <2>2, <3>1, OnwardNotice DEF Flows
    <3>3. Elements(Append(inbox[p], m)) = Elements(inbox[p]) \cup {m}
      BY <2>1, ElementsAppend
    <3> QED
      BY <3>1, <3>2, <3>3
  <2>4. CASE p \notin S
    <3>1. inbox'[p] = inbox[p]
      BY <2>4
    <3> QED
      BY <2>1, <2>2, <2>4, <3>1 DEF Flows
  <2> QED
    BY <2>3, <2>4
<1>2. inbox' \in [Procs -> Seq(FleetFrames \cup Notices)]
  <2>1. \A p \in Procs : inbox'[p] \in Seq(FleetFrames \cup Notices)
    BY <1>1 DEF Flows
  <2> QED
    BY <2>1
<1>3. \A p \in Procs : p \notin S => inbox'[p] = inbox[p]
  OBVIOUS
<1> QED
  BY <1>1, <1>2, <1>3

LEMMA DeclareStep ==
    ASSUME PushInv, Declare PROVE PushInv'
<1> USE DEF PushInv
<1>1. /\ UNCHANGED <<counter, ownCounter, hears, ownNumbered, ring, queue, crowded, conn, sub, wire, seen, tail,
                     connects, mixed>>
      /\ declared' = declared \cup {Owner} /\ Owner \in Procs
  BY PushAssumption DEF Declare, clientVars
<1>2. CASE /\ inbox' = Shared([kind |-> "declare"])
           /\ unheard' = (unheard \/ Owner \notin hears)
           /\ UNCHANGED faults
  <2>1. inbox' = [p \in Procs |-> IF p \in hears THEN Append(inbox[p], Declaration) ELSE inbox[p]]
    BY <1>2 DEF Shared, Declaration
  <2>2. /\ inbox' \in [Procs -> Seq(FleetFrames \cup Notices)]
        /\ \A p \in Procs : Flows(p)
        /\ \A p \in Procs : p \in hears => Elements(inbox'[p]) = Elements(inbox[p]) \cup {Declaration}
    BY <1>1, <2>1, NoticesAre, NoticeShared
  <2>3. PushTyped'
    BY <1>1, <1>2, <2>2 DEF PushTyped
  <2>4. (\A p \in Procs : ProcInv(p)') /\ PipeInv' /\ PanelInv' /\ HeadInv'
    BY <1>1, <2>2, <2>3, ChannelStep
  <2>5. DeclareInv'
    <3>1. ~unheard' => Owner \in hears
      BY <1>2
    <3>2. \A p \in hears : Declaration \in Elements(inbox'[p])
      BY <2>2 DEF PushTyped
    <3> QED
      BY <1>1, <3>1, <3>2 DEF DeclareInv
  <2> QED
    BY <2>3, <2>4, <2>5
<1>3. CASE Fault /\ unheard' = TRUE /\ UNCHANGED inbox
  <2>1. Spread
    BY <1>1, <1>3, SpreadNothing
  <2>2. PushTyped'
    <3>1. faults' \in 0..MaxFaults
      BY <1>3, FaultType
    <3> QED
      BY <1>1, <1>3, <3>1 DEF PushTyped
  <2>3. (\A p \in Procs : ProcInv(p)') /\ PipeInv' /\ PanelInv' /\ HeadInv'
    BY <1>1, <2>1, <2>2, ChannelStep DEF Spread
  <2>4. DeclareInv'
    BY <1>1, <1>3 DEF DeclareInv
  <2> QED
    BY <2>2, <2>3, <2>4
<1> QED
  BY <1>2, <1>3 DEF Declare

LEMMA DropStep ==
    ASSUME PushInv, NEW p \in Procs, Drop(p) PROVE PushInv'
<1> USE DEF PushInv
<1>1. /\ UNCHANGED <<counter, ownCounter, ownNumbered, ring, declared, queue, crowded, conn, sub, wire, seen,
                     tail, connects, mixed>>
      /\ hears' = hears \ {p} /\ unheard' = (unheard \/ p = Owner) /\ Owner \in Procs
  BY PushAssumption DEF Drop, serverVars, clientVars
<1>2. inbox \in [Procs -> Seq(FleetFrames \cup Notices)] /\ inbox' = [inbox EXCEPT ![p] = <<>>]
  BY DEF Drop, PushTyped
<1>3. inbox'[p] = <<>> /\ \A q \in Procs \ {p} : inbox'[q] = inbox[q]
  BY <1>2
<1>4. inbox' \in [Procs -> Seq(FleetFrames \cup Notices)]
  BY <1>2
<1>5. ASSUME NEW q \in Procs PROVE Flows(q)
  <2>1. counter \in Nat /\ counter <= counter /\ ProcInv(q)
    BY InboxIs
  <2>2. CASE q = p
    BY <1>1, <1>3, <1>4, <2>2, OnwardEmpty DEF Flows
  <2>3. CASE q # p
    BY <1>1, <1>3, <1>4, <2>1, <2>3, OnwardSame DEF Flows
  <2> QED
    BY <2>2, <2>3
<1>6. PushTyped'
  <2>1. faults' \in 0..MaxFaults
    BY FaultType DEF Drop
  <2>2. unheard' \in BOOLEAN
    BY <1>1 DEF PushTyped
  <2> QED
    BY <1>1, <1>4, <2>1, <2>2 DEF PushTyped
<1>7. (\A q \in Procs : ProcInv(q)') /\ PipeInv' /\ PanelInv' /\ HeadInv'
  BY <1>1, <1>5, <1>6, ChannelStep
<1>8. DeclareInv'
  <2>1. Owner \notin declared' => Declaration \notin Elements(inbox'[Owner])
    BY <1>1, <1>3, NumbersEmpty DEF DeclareInv
  <2>2. ~unheard' => ~unheard /\ p # Owner
    BY <1>1
  <2>3. p # Owner => inbox'[Owner] = inbox[Owner]
    BY <1>1, <1>3
  <2>4. \A q \in hears' : q \in hears /\ inbox'[q] = inbox[q]
    BY <1>1, <1>3 DEF PushTyped
  <2>5. ~unheard' => Owner \in hears'
    BY <1>1, <2>2 DEF DeclareInv
  <2> QED
    BY <1>1, <2>1, <2>2, <2>3, <2>4, <2>5 DEF DeclareInv
<1> QED
  BY <1>6, <1>7, <1>8

LEMMA ReconnectStep ==
    ASSUME PushInv, NEW p \in Procs, Reconnect(p) PROVE PushInv'
<1> USE DEF PushInv
<1>1. /\ UNCHANGED <<counter, ownCounter, ownNumbered, ring, declared, queue, crowded, conn, sub, wire, seen,
                     tail, connects, mixed>>
      /\ hears' = hears \cup {p} /\ p \notin hears /\ Owner \in Procs
  BY PushAssumption DEF Reconnect, serverVars, clientVars
<1>2. faults' \in 0..MaxFaults
  BY FaultType DEF Reconnect
<1>3. CASE /\ inbox' = [q \in Procs |-> IF q \in hears'
                          THEN Append(inbox[q], [kind |-> "hello", from |-> p]) ELSE inbox[q]]
           /\ UNCHANGED <<unheard, faults>>
  <2>1. PICK S, m : S = hears' /\ m = Hello(p)
    OBVIOUS
  <2>2. /\ inbox' = [q \in Procs |-> IF q \in S THEN Append(inbox[q], m) ELSE inbox[q]]
        /\ m \in Notices /\ counter' = counter
    BY <1>1, <1>3, <2>1, NoticesAre DEF Hello
  <2>3. /\ inbox' \in [Procs -> Seq(FleetFrames \cup Notices)]
        /\ \A q \in Procs : Flows(q)
        /\ \A q \in Procs : q \in hears' => Elements(inbox'[q]) = Elements(inbox[q]) \cup {Hello(p)}
        /\ \A q \in Procs : q \notin hears' => inbox'[q] = inbox[q]
    BY <2>1, <2>2, NoticeShared, ZenonT(60)
  <2>4. PushTyped'
    BY <1>1, <1>2, <1>3, <2>3 DEF PushTyped
  <2>5. (\A q \in Procs : ProcInv(q)') /\ PipeInv' /\ PanelInv' /\ HeadInv'
    BY <1>1, <2>3, <2>4, ChannelStep
  <2>6. \A q \in Procs : /\ Elements(inbox[q]) \subseteq Elements(inbox'[q])
                         /\ Declaration \in Elements(inbox'[q]) => Declaration \in Elements(inbox[q])
    BY <2>3, NoticesAre
  <2>7. DeclareInv'
    <3>1. Owner \notin declared' => Declaration \notin Elements(inbox'[Owner])
      BY <1>1, <2>6 DEF DeclareInv
    <3>2. ~unheard' => Owner \in hears /\ Owner \in hears' /\ ~unheard
      BY <1>1, <1>3 DEF DeclareInv
    <3>3. ASSUME ~unheard', Owner \in declared', NEW q \in hears' \ declared'
          PROVE  Declaration \in Elements(inbox'[q]) \/ Hello(q) \in Elements(inbox'[Owner])
      <4>1. CASE q = p
        BY <1>1, <2>3, <3>2, <3>3, <4>1
      <4>2. CASE q # p
        <5>1. q \in hears \ declared /\ q \in Procs /\ ~unheard /\ Owner \in declared
          BY <1>1, <1>3, <3>3, <4>2 DEF PushTyped
        <5> QED
          BY <1>1, <2>6, <5>1 DEF DeclareInv
      <4> QED
        BY <4>1, <4>2
    <3> QED
      BY <3>1, <3>2, <3>3 DEF DeclareInv
  <2> QED
    BY <2>4, <2>5, <2>7
<1>4. CASE Fault /\ unheard' = TRUE /\ UNCHANGED inbox
  <2>1. Spread
    BY <1>1, <1>4, SpreadNothing
  <2>2. PushTyped'
    BY <1>1, <1>2, <1>4 DEF PushTyped
  <2>3. (\A q \in Procs : ProcInv(q)') /\ PipeInv' /\ PanelInv' /\ HeadInv'
    BY <1>1, <2>1, <2>2, ChannelStep DEF Spread
  <2>4. DeclareInv'
    BY <1>1, <1>4 DEF DeclareInv
  <2> QED
    BY <2>2, <2>3, <2>4
<1> QED
  BY <1>3, <1>4 DEF Reconnect
(* The socket is closed: nothing is on its way any more. *)
LEMMA ClosedStep ==
    ASSUME PushInv, conn' = Nobody, queue' = <<>>, wire' = <<>>, UNCHANGED <<seen, tail, mixed, counter>>
    PROVE  PipeInv' /\ PanelInv' /\ HeadInv'
<1> USE DEF PushInv
<1>1. ~Subscribed'
  BY DEF Subscribed
<1>2. PipeInv'
  <2>1. DOMAIN wire' = {} /\ Rising(wire') /\ Rising(queue') /\ Numbers(wire') = {} /\ Numbers(queue') = {}
    BY NumbersEmpty
  <2> QED
    BY <1>1, <2>1 DEF PipeInv, Below
<1>3. PanelInv'
  BY <1>1 DEF PanelInv
<1>4. HeadInv'
  BY <1>1 DEF HeadInv
<1> QED
  BY <1>2, <1>3, <1>4

LEMMA RestartStep ==
    ASSUME PushInv, NEW p \in Procs, Restart(p) PROVE PushInv'
<1> USE DEF PushInv
<1>1. /\ UNCHANGED <<counter, ownNumbered>> /\ Owner \in Procs
      /\ declared' = declared \ {p} /\ hears' = hears \cup {p}
      /\ ownCounter' = IF p = Owner THEN 0 ELSE ownCounter
      /\ ring' = [ring EXCEPT ![p] = NoFrames]
      /\ conn = p => /\ conn' = Nobody /\ queue' = <<>> /\ wire' = <<>>
                     /\ UNCHANGED <<sub, seen, tail, connects, mixed>>
      /\ conn # p => UNCHANGED <<queue, crowded, conn, sub, wire, seen, tail, connects, mixed>>
  BY PushAssumption DEF Restart, Closed, clientVars
<1>2. PICK m : m = Hello(p)
  OBVIOUS
<1>3. m \in Notices /\ m \in FleetFrames \cup Notices /\ m # Declaration
  BY <1>2, NoticesAre
<1>4. PICK told \in BOOLEAN :
        /\ inbox' = [q \in Procs |-> IF q = p THEN <<>> ELSE
                        IF told /\ q \in hears THEN Append(inbox[q], m) ELSE inbox[q]]
        /\ unheard' = (unheard \/ ~told)
  BY <1>2 DEF Restart, Hello
<1>5. /\ inbox'[p] = <<>>
      /\ \A q \in Procs \ {p} : told /\ q \in hears => inbox'[q] = Append(inbox[q], m)
      /\ \A q \in Procs \ {p} : ~(told /\ q \in hears) => inbox'[q] = inbox[q]
  BY <1>4
<1>6. ASSUME NEW q \in Procs
      PROVE  /\ Flows(q)
             /\ q # p => /\ Elements(inbox[q]) \subseteq Elements(inbox'[q])
                         /\ told /\ q \in hears => m \in Elements(inbox'[q])
                         /\ Declaration \in Elements(inbox'[q]) => Declaration \in Elements(inbox[q])
  <2>1. /\ counter \in Nat /\ counter <= counter /\ ProcInv(q)
        /\ inbox[q] \in Seq(FleetFrames \cup Notices)
    BY InboxIs
  <2>2. Onward(inbox[q], inbox[q], counter, counter)
    BY <2>1, OnwardSame
  <2>3. CASE q = p
    <3>1. Onward(inbox[q], <<>>, counter, counter)
      BY OnwardEmpty
    <3>2. <<>> \in Seq(FleetFrames \cup Notices)
      OBVIOUS
    <3> QED
      BY <1>1, <1>5, <2>3, <3>1, <3>2 DEF Flows
  <2>4. CASE q # p /\ told /\ q \in hears
    <3>1. inbox'[q] = Append(inbox[q], m)
      BY <1>5, <2>4
    <3>2. Flows(q)
      BY <1>1, <1>3, <2>1, <2>2, <3>1, OnwardNotice DEF Flows
    <3>3. Elements(Append(inbox[q], m)) = Elements(inbox[q]) \cup {m}
      BY <1>3, <2>1, ElementsAppend
    <3> QED
      BY <1>3, <3>1, <3>2, <3>3
  <2>5. CASE q # p /\ ~(told /\ q \in hears)
    <3>1. inbox'[q] = inbox[q]
      BY <1>5, <2>5
    <3> QED
      BY <1>1, <2>1, <2>2, <2>5, <3>1 DEF Flows
  <2> QED
    BY <2>3, <2>4, <2>5
<1>7. inbox' \in [Procs -> Seq(FleetFrames \cup Notices)]
  <2>1. \A q \in Procs : inbox'[q] \in Seq(FleetFrames \cup Notices)
    BY <1>6 DEF Flows
  <2> QED
    BY <1>4, <2>1
<1>8. /\ NoFrames \in Rings /\ RingOrdered(NoFrames) /\ NoFrames.seq = 0 /\ Numbers(NoFrames.entries) = {}
  <2>1. NoFrames \in Rings /\ NoFrames.seq = 0 /\ NoFrames.entries = <<>>
    BY PushAssumption DEF NoFrames, Rings
  <2>2. RingOrdered(NoFrames)
    BY <2>1, PushAssumption DEF RingOrdered
  <2> QED
    BY <2>1, <2>2, NumbersEmpty
<1>9. ring \in [Procs -> Rings]
  BY DEF PushTyped, Rings
<1>10. ring' \in [Procs -> Rings] /\ ring'[p] = NoFrames /\ \A q \in Procs \ {p} : ring'[q] = ring[q]
  BY <1>1, <1>8, <1>9
<1>11. PushTyped'
  <2>1. ring' \in [Procs -> [seq : 0..MaxSeq, entries : Seq(Frames)]]
    BY <1>10 DEF Rings
  <2>2. faults' \in 0..MaxFaults
    BY FaultType DEF Restart
  <2>3. /\ counter' \in 0..MaxSeq /\ ownCounter' \in 0..MaxOwn
        /\ hears' \subseteq Procs /\ declared' \subseteq Procs
        /\ unheard' \in BOOLEAN /\ ownNumbered' \subseteq {Owner}
    BY <1>1, <1>4, PushAssumption DEF PushTyped
  <2>4. CASE conn = p
    <3>1. queue' \in Seq(Frames) /\ Len(queue') <= QueueFrames /\ wire' \in Seq(Frames \cup Gaps)
      BY <1>1, <2>4, PushAssumption
    <3> QED
      BY <1>1, <1>7, <2>1, <2>2, <2>3, <2>4, <3>1 DEF PushTyped
  <2>5. CASE conn # p
    BY <1>1, <1>7, <2>1, <2>2, <2>3, <2>5 DEF PushTyped
  <2> QED
    BY <2>4, <2>5
<1>12. ASSUME NEW q \in Procs PROVE ProcInv(q)'
  <2>1. counter \in Nat /\ counter' = counter /\ counter <= counter' /\ counter' \in Nat
    BY <1>1, PipeIs
  <2>2. CASE q # p
    BY <1>1, <1>6, <1>10, <2>1, <2>2, ProcFlows
  <2>3. CASE q = p
    <3>1. ring'[q] = NoFrames /\ inbox'[q] = <<>>
      BY <1>5, <1>10, <2>3
    <3>2. Numbers(inbox'[q]) = {} /\ Rising(inbox'[q])
      BY <3>1, NumbersEmpty
    <3> QED
      BY <1>8, <2>1, <3>1, <3>2 DEF ProcInv, Below
  <2> QED
    BY <2>2, <2>3
<1>13. PipeInv' /\ PanelInv' /\ HeadInv'
  <2>1. CASE conn = p
    BY <1>1, <2>1, ClosedStep
  <2>2. CASE conn # p
    <3>1. Subscribed => conn \in Procs \ {p}
      BY <2>2 DEF Subscribed, PushTyped
    <3>2. counter' \in Nat /\ counter <= counter'
      BY <1>1, PipeIs
    <3>3. PipeInv' /\ PanelInv'
      BY <1>1, <1>6, <2>2, <3>1, <3>2, PipeFlows
    <3>4. Subscribed => ring'[conn].seq = ring[conn].seq
      BY <1>10, <3>1
    <3>5. HeadInv'
      BY <1>1, <2>2, <3>4, HeadFlows
    <3> QED
      BY <3>3, <3>5
  <2> QED
    BY <2>1, <2>2
<1>14. DeclareInv'
  <2>1. Owner \notin declared' => Declaration \notin Elements(inbox'[Owner])
    <3>1. CASE p = Owner
      BY <1>5, <3>1, NumbersEmpty
    <3>2. CASE p # Owner
      BY <1>1, <1>6, <3>2 DEF DeclareInv
    <3> QED
      BY <3>1, <3>2
  <2>2. ~unheard' => Owner \in hears /\ Owner \in hears' /\ ~unheard /\ told
    BY <1>1, <1>4 DEF DeclareInv
  <2>3. ASSUME ~unheard', Owner \in declared', NEW q \in hears' \ declared'
        PROVE  Declaration \in Elements(inbox'[q]) \/ Hello(q) \in Elements(inbox'[Owner])
    <3>1. p # Owner /\ Owner \in declared
      BY <1>1, <2>3
    <3>2. CASE q = p
      BY <1>1, <1>2, <1>6, <2>2, <2>3, <3>1, <3>2
    <3>3. CASE q # p
      <4>1. q \in hears \ declared /\ q \in Procs /\ ~unheard
        BY <1>1, <2>2, <2>3, <3>3 DEF PushTyped
      <4>2. Declaration \in Elements(inbox[q]) \/ Hello(q) \in Elements(inbox[Owner])
        BY <3>1, <4>1 DEF DeclareInv
      <4> QED
        BY <1>1, <1>6, <3>1, <3>3, <4>1, <4>2
    <3> QED
      BY <3>2, <3>3
  <2> QED
    BY <2>1, <2>2, <2>3 DEF DeclareInv
<1> QED
  BY <1>11, <1>12, <1>13, <1>14
-----------------------------------------------------------------------------
(* Handling a message *)

(* The channel without the message that is handled. *)
LEMMA RestIs ==
    ASSUME PushInv, NEW p \in Procs, inbox[p] # <<>>, NEW rest,
           rest = [inbox EXCEPT ![p] = Tail(@)]
    PROVE  /\ rest \in [Procs -> Seq(FleetFrames \cup Notices)]
           /\ rest[p] = Tail(inbox[p]) /\ \A q \in Procs \ {p} : rest[q] = inbox[q]
           /\ \A q \in Procs : Onward(inbox[q], rest[q], counter, counter)
           /\ \A q \in Procs : /\ Elements(rest[q]) \subseteq Elements(inbox[q])
                               /\ Elements(inbox[q]) \subseteq Elements(rest[q]) \cup {Head(inbox[p])}
           /\ Head(inbox[p]) \in FleetFrames \cup Notices /\ Head(inbox[p]) \in Elements(inbox[p])
<1> USE DEF PushInv
<1>1. inbox \in [Procs -> Seq(FleetFrames \cup Notices)] /\ counter \in Nat /\ counter <= counter
  BY PipeIs DEF PushTyped
<1>2. rest[p] = Tail(inbox[p]) /\ \A q \in Procs \ {p} : rest[q] = inbox[q]
  BY <1>1
<1>3. /\ Onward(inbox[p], Tail(inbox[p]), counter, counter)
      /\ Tail(inbox[p]) \in Seq(FleetFrames \cup Notices)
  BY OnwardTail
<1>4. rest \in [Procs -> Seq(FleetFrames \cup Notices)]
  BY <1>1, <1>3
<1>5. \A q \in Procs : Onward(inbox[q], inbox[q], counter, counter)
  BY <1>1, OnwardSame
<1>6. PICK s : s = inbox[p]
  OBVIOUS
<1>7. s \in Seq(FleetFrames \cup Notices) /\ s # <<>>
  BY <1>1, <1>6
<1>8. Elements(s) = Elements(Tail(s)) \cup {Head(s)} /\ Elements(s) \subseteq FleetFrames \cup Notices
  BY <1>7, ElementsTail
<1> QED
  BY <1>2, <1>3, <1>4, <1>5, <1>6, <1>8

LEMMA HandleFrame ==
    ASSUME PushInv, NEW p \in Procs, inbox[p] # <<>>, NEW f, f = Head(inbox[p]), f.kind = "frame",
           Receive(p, f), inbox' = [inbox EXCEPT ![p] = Tail(@)],
           UNCHANGED <<counter, ownCounter, hears, ownNumbered, declared, unheard, conn, sub, wire,
                       seen, tail, connects, mixed, faults>>
    PROVE  PushInv'
<1> USE DEF PushInv
<1>1. /\ inbox' \in [Procs -> Seq(FleetFrames \cup Notices)]
      /\ inbox'[p] = Tail(inbox[p]) /\ \A q \in Procs \ {p} : inbox'[q] = inbox[q]
      /\ \A q \in Procs : Onward(inbox[q], inbox'[q], counter, counter)
      /\ \A q \in Procs : /\ Elements(inbox'[q]) \subseteq Elements(inbox[q])
                          /\ Elements(inbox[q]) \subseteq Elements(inbox'[q]) \cup {f}
      /\ f \in FleetFrames \cup Notices /\ f \in Elements(inbox[p])
  BY RestIs
<1>2. PICK a \in 1..MaxSeq : f = Frame(a)
  <2>1. f \notin Notices
    BY NoticesAre
  <2> QED
    BY <1>1, <2>1 DEF FleetFrames
<1>3. f \in Frames /\ f.n = a /\ \A b : f = Frame(b) => b = a
  BY <1>2, FramesAre, FrameIs, ZenonT(60)
<1>4. a \in Nat /\ a \in Numbers(inbox[p]) /\ a <= counter /\ counter \in Nat
  <2>1. a \in Numbers(inbox[p])
    BY <1>1, <1>2 DEF Numbers
  <2> QED
    BY <2>1, InboxIs, NumbersType
<1>5. \A b \in Numbers(inbox'[p]) : b \in Nat /\ a < b /\ b \in Numbers(inbox[p])
  <2>1. Below({a}, Numbers(Tail(inbox[p]))) /\ Numbers(Tail(inbox[p])) \subseteq Numbers(inbox[p])
    BY <1>2, InboxIs, RisingTail, NumbersTail
  <2> QED
    BY <1>1, <2>1, NumbersType DEF Below
<1>6. PICK u : u = Pushed(ring[p], f)
  OBVIOUS
<1>7. ring \in [Procs -> Rings] /\ RingOrdered(ring[p]) /\ ring[p].seq \in Nat
  <2>1. ring \in [Procs -> Rings] /\ RingOrdered(ring[p])
    BY DEF PushTyped, Rings, ProcInv
  <2>2. ring[p].seq \in 0..MaxSeq
    BY <2>1 DEF Rings
  <2> QED
    BY <2>1, <2>2
<1>8. /\ u \in Rings /\ RingOrdered(u)
      /\ a > ring[p].seq => u.seq = a
      /\ \A b \in Numbers(u.entries) : b \in Numbers(ring[p].entries) \/ b = a
  <2>1. PICK st : st = ring[p]
    OBVIOUS
  <2>2. st \in Rings /\ RingOrdered(st) /\ u = Pushed(st, f)
    BY <1>6, <1>7, <2>1
  <2>3. /\ u \in Rings /\ RingOrdered(u) /\ (f.n > st.seq => u.seq = f.n)
        /\ \A b \in Numbers(u.entries) : b \in Numbers(st.entries) \/ f = Frame(b)
    BY <1>3, <2>2, PushedIs
  <2> QED
    BY <1>3, <2>1, <2>3
<1>9. ring' \in [Procs -> Rings] /\ ring'[p] = u /\ \A q \in Procs \ {p} : ring'[q] = ring[q]
  <2>1. ring' = [ring EXCEPT ![p] = u]
    BY <1>6 DEF Receive
  <2> QED
    BY <1>7, <1>8, <2>1
<1>10. p \notin ownNumbered => a > ring[p].seq /\ u.seq = a
  <2> HAVE p \notin ownNumbered
  <2>1. ring[p].seq < a
    BY <1>4 DEF ProcInv, Below
  <2> QED
    BY <1>4, <1>7, <1>8, <2>1
<1>11. ASSUME conn = p, sub = "held"
       PROVE  /\ Subscribed /\ queue' \in Seq(Frames) /\ Len(queue') <= QueueFrames /\ Rising(queue')
              /\ queue' # <<>> /\ queue'[Len(queue')] = f
              /\ \A b \in Numbers(queue') : b \in Numbers(queue) \/ b = a
              /\ \A b \in Numbers(queue) : b \in Nat /\ b < a
  <2>1. Subscribed /\ queue' = Queued(f)
    BY <1>11, PushAssumption DEF Receive, Subscribed
  <2>2. \A b \in Numbers(queue) : b \in Nat /\ b < a
    BY <1>4, <1>11, <2>1, PipeIs
  <2>3. \A b \in 1..MaxSeq : f = Frame(b) => Below(Numbers(queue), {b})
    BY <1>3, <2>2 DEF Below
  <2>4. queue \in Seq(Frames) /\ Len(queue) <= QueueFrames /\ Rising(queue)
    BY DEF PushTyped, PipeInv
  <2> QED
    BY <1>3, <2>1, <2>2, <2>3, <2>4, QueuedIs
<1>12. ~(conn = p /\ sub = "held") => queue' = queue /\ crowded' = crowded
  BY DEF Receive
<1>13. PushTyped'
  <2>1. ring' \in [Procs -> [seq : 0..MaxSeq, entries : Seq(Frames)]]
    BY <1>9 DEF Rings
  <2>2. queue' \in Seq(Frames) /\ Len(queue') <= QueueFrames
    BY <1>11, <1>12 DEF PushTyped
  <2> QED
    BY <1>1, <2>1, <2>2 DEF PushTyped
<1>14. \A q \in Procs : Flows(q)
  BY <1>1 DEF Flows
<1>15. ASSUME NEW q \in Procs PROVE ProcInv(q)'
  <2>1. counter' \in Nat /\ counter <= counter'
    BY <1>4
  <2>2. CASE q # p
    BY <1>9, <1>14, <2>1, <2>2, ProcFlows
  <2>3. CASE q = p
    <3> DEFINE e == ring[p].entries
    <3>1. /\ \A b \in Numbers(e) : b \in Nat /\ b < counter + 1
          /\ \A b \in Numbers(e) : \A c \in Numbers(inbox[p]) : b < c
      BY NumbersType DEF ProcInv, Below
    <3> HIDE DEF e
    <3>2. \A b \in Numbers(u.entries) : b \in Numbers(e) \/ b = a
      BY <1>8 DEF e
    <3>3. Below(Numbers(u.entries), Numbers(inbox'[p]))
      BY <1>5, <3>1, <3>2 DEF Below
    <3>4. \A b \in Numbers(inbox'[p]) : b <= counter
      BY <1>5, InboxIs
    <3>5. Below(Numbers(u.entries) \cup Numbers(inbox'[p]), {counter + 1})
      BY <1>4, <1>5, <3>1, <3>2, <3>4 DEF Below
    <3>6. p \notin ownNumbered => u.seq <= counter /\ Below({u.seq}, Numbers(inbox'[p]))
      BY <1>4, <1>5, <1>10 DEF Below
    <3>7. Rising(inbox'[p])
      BY <1>1 DEF Onward
    <3> QED
      BY <1>8, <1>9, <2>3, <3>3, <3>5, <3>6, <3>7 DEF ProcInv
  <2> QED
    BY <2>2, <2>3
<1>16. PipeInv' /\ PanelInv'
  <2>1. counter' \in Nat /\ counter <= counter'
    BY <1>4
  <2>2. Subscribed => Flows(conn)
    BY <1>14 DEF Subscribed, PushTyped
  <2>3. CASE conn = p /\ sub = "held"
    <3>1. Numbers(queue') \subseteq Numbers(queue) \cup Numbers(inbox[conn])
      BY <1>4, <1>11, <2>3
    <3>2. Below(Numbers(queue'), Numbers(inbox'[conn]))
      <4> SUFFICES ASSUME NEW b \in Numbers(queue'), NEW c \in Numbers(inbox'[p]) PROVE b < c
        BY <2>3 DEF Below
      <4>1. a < c /\ c \in Nat /\ (b = a \/ b < a) /\ b \in Nat
        BY <1>5, <1>11, <2>3, NumbersType
      <4> QED
        BY <1>4, <4>1
    <3> QED
      BY <1>11, <2>1, <2>2, <2>3, <3>1, <3>2, PipeFlows
  <2>4. CASE ~(conn = p /\ sub = "held")
    BY <1>12, <2>1, <2>2, <2>4, PipeFlows
  <2> QED
    BY <2>3, <2>4
<1>17. HeadInv'
  <2>1. ownNumbered' = {} /\ Subscribed =>
            \/ queue' = queue /\ crowded' = crowded /\ ring'[conn].seq = ring[conn].seq
            \/ queue' # <<>> /\ queue'[Len(queue')].n = ring'[conn].seq
    <3> HAVE ownNumbered' = {} /\ Subscribed
    <3>1. CASE conn = p
      BY <1>3, <1>9, <1>10, <1>11, <3>1 DEF Subscribed
    <3>2. CASE conn # p
      BY <1>9, <1>12, <3>2 DEF Subscribed, PushTyped
    <3> QED
      BY <3>1, <3>2
  <2> QED
    BY <2>1, HeadFlows
<1>18. DeclareInv'
  <2>1. f # Declaration /\ \A q : f # Hello(q)
    BY <1>2, FrameIs
  <2>2. /\ Declaration \in Elements(inbox'[Owner]) => Declaration \in Elements(inbox[Owner])
        /\ \A q \in Procs : Declaration \in Elements(inbox[q]) => Declaration \in Elements(inbox'[q])
        /\ \A q \in Procs : Hello(q) \in Elements(inbox[Owner]) => Hello(q) \in Elements(inbox'[Owner])
    BY <1>1, <2>1, PushAssumption
  <2> QED
    BY <2>2, DeclareFlows
<1> QED
  BY <1>13, <1>15, <1>16, <1>17, <1>18

LEMMA HandleDeclare ==
    ASSUME PushInv, NEW p \in Procs, inbox[p] # <<>>, Head(inbox[p]).kind = "declare",
           declared' = declared \cup {p}, inbox' = [inbox EXCEPT ![p] = Tail(@)],
           UNCHANGED <<counter, ownCounter, hears, ownNumbered, unheard, ring, queue, crowded, conn, sub, wire,
                       seen, tail, connects, mixed, faults>>
    PROVE  PushInv'
<1> USE DEF PushInv
<1>1. /\ inbox' \in [Procs -> Seq(FleetFrames \cup Notices)]
      /\ \A q \in Procs \ {p} : inbox'[q] = inbox[q]
      /\ \A q \in Procs : Onward(inbox[q], inbox'[q], counter, counter)
      /\ \A q \in Procs : /\ Elements(inbox'[q]) \subseteq Elements(inbox[q])
                          /\ Elements(inbox[q]) \subseteq Elements(inbox'[q]) \cup {Head(inbox[p])}
      /\ Head(inbox[p]) \in FleetFrames \cup Notices /\ Head(inbox[p]) \in Elements(inbox[p])
  BY RestIs
<1>2. Head(inbox[p]) = Declaration
  <2>1. Head(inbox[p]) \notin FleetFrames
    BY FramesAre
  <2> QED
    BY <1>1, <2>1, NoticesAre
<1>3. PushTyped'
  BY <1>1 DEF PushTyped
<1>4. \A q \in Procs : Flows(q)
  BY <1>1 DEF Flows
<1>5. (\A q \in Procs : ProcInv(q)') /\ PipeInv' /\ PanelInv' /\ HeadInv'
  BY <1>3, <1>4, ChannelStep
<1>6. DeclareInv'
  <2>1. Owner \in Procs /\ (Owner \in declared' => Owner \in declared)
    BY <1>1, <1>2, PushAssumption DEF DeclareInv
  <2>2. Owner \notin declared' => Declaration \notin Elements(inbox'[Owner])
    BY <1>1, <2>1 DEF DeclareInv
  <2>3. ASSUME ~unheard', Owner \in declared', NEW q \in hears' \ declared'
        PROVE  Declaration \in Elements(inbox'[q]) \/ Hello(q) \in Elements(inbox'[Owner])
    <3>1. q # p /\ q \in hears \ declared /\ ~unheard /\ q \in Procs
      BY <2>3 DEF PushTyped
    <3>2. Declaration \in Elements(inbox[q]) \/ Hello(q) \in Elements(inbox[Owner])
      BY <2>1, <2>3, <3>1 DEF DeclareInv
    <3>3. Hello(q) # Declaration
      BY NoticesAre
    <3> QED
      BY <1>1, <1>2, <2>1, <3>1, <3>2, <3>3
  <2>4. ~unheard' => Owner \in hears'
    BY DEF DeclareInv
  <2> QED
    BY <2>2, <2>3, <2>4 DEF DeclareInv
<1> QED
  BY <1>3, <1>5, <1>6
(* What the handler of a hello does with the channel. *)
Greeted(p, m, rest) ==
    IF p = Owner /\ m.from # p /\ Owner \in declared
    THEN \/ /\ inbox' = [q \in Procs |-> IF q \in hears
                            THEN Append(rest[q], [kind |-> "declare"]) ELSE rest[q]]
            /\ UNCHANGED <<unheard, faults>>
         \/ /\ Fault
            /\ inbox' = rest
            /\ unheard' = TRUE
    ELSE inbox' = rest /\ UNCHANGED <<unheard, faults>>

LEMMA HandleHello ==
    ASSUME PushInv, NEW p \in Procs, inbox[p] # <<>>, Head(inbox[p]).kind = "hello",
           NEW rest, rest = [inbox EXCEPT ![p] = Tail(@)],
           Greeted(p, Head(inbox[p]), rest),
           UNCHANGED <<counter, ownCounter, hears, ownNumbered, ring, declared, queue, crowded, conn, sub, wire,
                       seen, tail, connects, mixed>>
    PROVE  PushInv'
<1> USE DEF PushInv
<1> DEFINE Answers == p = Owner /\ Head(inbox[p]).from # p /\ Owner \in declared
<1>1. /\ rest \in [Procs -> Seq(FleetFrames \cup Notices)]
      /\ \A q \in Procs \ {p} : rest[q] = inbox[q]
      /\ \A q \in Procs : Onward(inbox[q], rest[q], counter, counter)
      /\ \A q \in Procs : /\ Elements(rest[q]) \subseteq Elements(inbox[q])
                          /\ Elements(inbox[q]) \subseteq Elements(rest[q]) \cup {Head(inbox[p])}
      /\ Head(inbox[p]) \in FleetFrames \cup Notices
  BY RestIs
<1>2. PICK r \in Procs : Head(inbox[p]) = Hello(r) /\ Head(inbox[p]).from = r
  <2>1. Head(inbox[p]) \notin FleetFrames
    BY FramesAre
  <2> QED
    BY <1>1, <2>1, NoticesAre
<1>3. Owner \in Procs
  BY PushAssumption
<1>4. \A q \in Procs : Declaration \in Elements(inbox[q]) => Declaration \in Elements(rest[q])
  BY <1>1, <1>2, NoticesAre
<1>5. CASE Answers /\ inbox' = [q \in Procs |-> IF q \in hears
                                   THEN Append(rest[q], [kind |-> "declare"]) ELSE rest[q]]
              /\ UNCHANGED <<unheard, faults>>
  <2>1. PICK m : m = Declaration
    OBVIOUS
  <2>2. /\ inbox' = [q \in Procs |-> IF q \in hears THEN Append(rest[q], m) ELSE rest[q]]
        /\ m \in Notices /\ m \in FleetFrames \cup Notices
    BY <1>5, <2>1, NoticesAre DEF Declaration
  <2>3. m \in Notices /\ m \in FleetFrames \cup Notices
    BY <2>2
  <2>4. ASSUME NEW q \in Procs
        PROVE  Flows(q) /\ (q \in hears => Declaration \in Elements(inbox'[q]))
    <3>1. rest[q] \in Seq(FleetFrames \cup Notices) /\ Onward(inbox[q], rest[q], counter, counter)
      BY <1>1
    <3>2. CASE q \in hears
      <4>1. inbox'[q] = Append(rest[q], m)
        BY <2>2, <3>2
      <4>2. Flows(q)
        <5>1. /\ Onward(inbox[q], Append(rest[q], m), counter, counter)
              /\ Append(rest[q], m) \in Seq(FleetFrames \cup Notices)
          BY <2>3, <3>1, OnwardNotice
        <5>2. counter' = counter
          OBVIOUS
        <5> QED
          BY <4>1, <5>1, <5>2, Zenon DEF Flows
      <4>3. Elements(Append(rest[q], m)) = Elements(rest[q]) \cup {m}
        <5>1. PICK s : s = rest[q]
          OBVIOUS
        <5>2. s \in Seq(FleetFrames \cup Notices)
          BY <3>1, <5>1
        <5>3. Elements(Append(s, m)) = Elements(s) \cup {m}
          BY <2>3, <5>2, ElementsAppend
        <5> QED
          BY <5>1, <5>3
      <4> QED
        BY <2>1, <4>1, <4>2, <4>3
    <3>3. CASE q \notin hears
      <4>1. inbox'[q] = rest[q]
        BY <2>2, <3>3
      <4> QED
        BY <3>1, <3>3, <4>1 DEF Flows
    <3> QED
      BY <3>2, <3>3
  <2>5. inbox' \in [Procs -> Seq(FleetFrames \cup Notices)]
    <3>1. \A q \in Procs : inbox'[q] \in Seq(FleetFrames \cup Notices)
      BY <2>4 DEF Flows
    <3> QED
      BY <2>2, <3>1
  <2>6. PushTyped'
    BY <1>5, <2>5 DEF PushTyped
  <2>7. (\A q \in Procs : ProcInv(q)') /\ PipeInv' /\ PanelInv' /\ HeadInv'
    BY <2>4, <2>6, ChannelStep
  <2>8. DeclareInv'
    <3>1. \A q \in hears : Declaration \in Elements(inbox'[q])
      BY <2>4 DEF PushTyped
    <3> QED
      BY <1>5, <3>1 DEF DeclareInv
  <2> QED
    BY <2>6, <2>7, <2>8
<1>6. ASSUME inbox' = rest, unheard => unheard', unheard' \in BOOLEAN, Fault \/ UNCHANGED faults,
             unheard' \/ ~Answers
      PROVE  PushInv'
  <2>1. PushTyped'
    <3>1. faults' \in 0..MaxFaults
      BY <1>6, FaultType
    <3> QED
      BY <1>1, <1>6, <3>1 DEF PushTyped
  <2>2. \A q \in Procs : Flows(q)
    BY <1>1, <1>6 DEF Flows
  <2>3. (\A q \in Procs : ProcInv(q)') /\ PipeInv' /\ PanelInv' /\ HeadInv'
    BY <2>1, <2>2, ChannelStep
  <2>4. DeclareInv'
    <3>1. Owner \notin declared' => Declaration \notin Elements(inbox'[Owner])
      BY <1>1, <1>3, <1>6 DEF DeclareInv
    <3>2. ~unheard' => Owner \in hears' /\ ~unheard
      BY <1>6 DEF DeclareInv
    <3>3. ASSUME ~unheard', Owner \in declared', NEW q \in hears' \ declared'
          PROVE  Declaration \in Elements(inbox'[q]) \/ Hello(q) \in Elements(inbox'[Owner])
      <4>1. q \in Procs /\ q # Owner /\ Owner \in declared /\ q \in hears \ declared /\ ~unheard
        BY <3>2, <3>3 DEF PushTyped
      <4>2. Declaration \in Elements(inbox[q]) \/ Hello(q) \in Elements(inbox[Owner])
        BY <4>1 DEF DeclareInv
      <4>3. ~Answers
        BY <1>6, <3>3
      <4>4. Hello(q) \in Elements(inbox[Owner]) => Hello(q) \in Elements(rest[Owner])
        <5>1. CASE p = Owner
          <6>1. Hello(q) # Hello(r)
            BY <1>2, <4>1, <4>3, <5>1 DEF Hello
          <6> QED
            BY <1>1, <1>2, <1>3, <6>1
        <5>2. CASE p # Owner
          BY <1>1, <1>3, <5>2
        <5> QED
          BY <5>1, <5>2
      <4> QED
        BY <1>4, <1>6, <4>1, <4>2, <4>4
    <3> QED
      BY <3>1, <3>2, <3>3 DEF DeclareInv
  <2> QED
    BY <2>1, <2>3, <2>4
<1>7. CASE Answers /\ Fault /\ inbox' = rest /\ unheard' = TRUE
  BY <1>6, <1>7
<1>8. CASE ~Answers /\ inbox' = rest /\ UNCHANGED <<unheard, faults>>
  BY <1>6, <1>8 DEF PushTyped
<1> QED
  BY <1>5, <1>7, <1>8 DEF Greeted

LEMMA HandleStep ==
    ASSUME PushInv, NEW p \in Procs, Handle(p) PROVE PushInv'
<1>1. PICK m, rest : m = Head(inbox[p]) /\ rest = [inbox EXCEPT ![p] = Tail(@)]
  OBVIOUS
<1>2. /\ inbox[p] # <<>>
      /\ UNCHANGED <<counter, ownCounter, hears, ownNumbered, conn, sub, wire, seen, tail, connects, mixed>>
  BY DEF Handle, clientVars
<1>3. CASE m.kind = "frame" /\ Receive(p, m) /\ inbox' = rest /\ UNCHANGED <<declared, unheard, faults>>
  BY <1>1, <1>2, <1>3, HandleFrame
<1>4. CASE /\ m.kind = "declare" /\ declared' = declared \cup {p} /\ inbox' = rest
           /\ UNCHANGED <<ring, queue, crowded, unheard, faults>>
  BY <1>1, <1>2, <1>4, HandleDeclare
<1>5. CASE m.kind = "hello" /\ Greeted(p, m, rest) /\ UNCHANGED <<ring, queue, crowded, declared>>
  BY <1>1, <1>2, <1>5, HandleHello
<1> QED
  BY <1>1, <1>3, <1>4, <1>5 DEF Handle, Greeted
-----------------------------------------------------------------------------
(* The console *)

(* A step of the console's side leaves the processes alone. *)
LEMMA ClientStep ==
    ASSUME PushInv, UNCHANGED <<counter, hears, inbox, ring, declared, ownNumbered, unheard>>
    PROVE  (\A p \in Procs : ProcInv(p)') /\ DeclareInv'
<1>1. ASSUME NEW p \in Procs PROVE ProcInv(p)'
  BY DEF PushInv, ProcInv
<1>2. DeclareInv'
  BY DEF PushInv, DeclareInv
<1> QED
  BY <1>1, <1>2

LEMMA ConnectStep ==
    ASSUME PushInv, NEW p \in Procs, Connect(p) PROVE PushInv'
<1> USE DEF PushInv
<1>1. /\ UNCHANGED <<counter, ownCounter, hears, inbox, ownNumbered, unheard, ring, declared, queue, crowded, wire,
                     seen, tail, mixed, faults>>
      /\ conn' = p /\ sub' = "asked" /\ conn = Nobody
      /\ connects < MaxConnects /\ connects' = connects + 1
  BY DEF Connect, chanVars, serverVars
<1>2. PushTyped'
  <2>1. connects' \in 0..MaxConnects
    BY <1>1, PushAssumption DEF PushTyped
  <2> QED
    BY <1>1, <2>1 DEF PushTyped
<1>3. (\A q \in Procs : ProcInv(q)') /\ DeclareInv'
  BY <1>1, ClientStep
<1>4. ~Subscribed /\ ~Subscribed'
  BY <1>1 DEF Subscribed
<1>5. PipeInv'
  BY <1>1, <1>4 DEF PipeInv
<1>6. PanelInv'
  BY <1>1, <1>4 DEF PanelInv
<1>7. HeadInv'
  BY <1>4 DEF HeadInv
<1> QED
  BY <1>2, <1>3, <1>5, <1>6, <1>7

LEMMA DisconnectStep ==
    ASSUME PushInv, Disconnect PROVE PushInv'
<1> USE DEF PushInv
<1>1. /\ UNCHANGED <<counter, ownCounter, hears, inbox, ownNumbered, unheard, ring, declared, faults,
                     sub, seen, tail, connects, mixed>>
      /\ conn' = Nobody /\ queue' = <<>> /\ wire' = <<>>
  BY DEF Disconnect, Closed, chanVars
<1>2. PushTyped'
  <2>1. queue' \in Seq(Frames) /\ Len(queue') <= QueueFrames /\ wire' \in Seq(Frames \cup Gaps)
    BY <1>1, PushAssumption
  <2> QED
    BY <1>1, <2>1 DEF PushTyped
<1>3. (\A q \in Procs : ProcInv(q)') /\ DeclareInv'
  BY <1>1, ClientStep
<1>4. PipeInv' /\ PanelInv' /\ HeadInv'
  BY <1>1, ClosedStep
<1> QED
  BY <1>2, <1>3, <1>4

LEMMA SubscribeStep ==
    ASSUME PushInv, Subscribe PROVE PushInv'
<1> USE DEF PushInv
<1>1. /\ UNCHANGED <<counter, ownCounter, hears, inbox, ownNumbered, unheard, ring, declared, queue, crowded, conn,
                     seen, tail, connects, faults>>
      /\ conn # Nobody /\ sub = "asked" /\ conn \in Procs
  BY DEF Subscribe, chanVars, serverVars, PushTyped
<1>2. ~Subscribed /\ wire = <<>> /\ queue = <<>>
  BY <1>1 DEF Subscribed, PipeInv
<1>3. (\A q \in Procs : ProcInv(q)') /\ DeclareInv'
  BY <1>1, ClientStep
<1>4. CASE conn \notin declared
  <2>1. sub' = "refused" /\ UNCHANGED <<wire, mixed>> /\ ~Subscribed'
    BY <1>4 DEF Subscribe, Subscribed
  <2>2. PushTyped'
    BY <1>1, <2>1 DEF PushTyped
  <2>3. PipeInv' /\ PanelInv' /\ HeadInv'
    BY <1>1, <1>2, <2>1 DEF PipeInv, PanelInv, HeadInv
  <2> QED
    BY <1>3, <2>2, <2>3
<1>5. CASE conn \in declared
  <2>1. PICK t : t = Since(ring[conn], seen)
    OBVIOUS
  <2>2. ring[conn] \in Rings /\ ProcInv(conn) /\ RingOrdered(ring[conn])
    BY <1>1 DEF PushTyped, Rings, ProcInv
  <2>3. sub' = "held" /\ mixed' = (mixed \/ conn \in ownNumbered) /\ Subscribed'
    BY <1>1, <1>5 DEF Subscribe, Subscribed
  <2>4. seen # Unseen => /\ seen \in 0..MaxSeq /\ wire' = t
                         /\ t \in Seq(Frames \cup Gaps)
                         /\ \A i \in DOMAIN t : t[i] \in Gaps => i = 1
                         /\ Rising(t) /\ Numbers(t) \subseteq Numbers(ring[conn].entries)
                         /\ t = <<>> \/ t[1] \notin Gaps =>
                               seen <= ring[conn].seq /\ Below({seen}, Numbers(t))
                         /\ t # <<>> => t[Len(t)].n = ring[conn].seq
                         /\ t = <<>> => seen = ring[conn].seq
    <3> HAVE seen # Unseen
    <3>1. seen \in 0..MaxSeq
      BY DEF PushTyped
    <3>2. wire' = <<>> \o t
      BY <1>2, <1>5, <2>1 DEF Subscribe
    <3>3. t \in Seq(Frames \cup Gaps)
      BY <2>1, <2>2, <3>1, SinceIs
    <3>4. wire' = t
      BY <3>2, <3>3, ConcatEmptySeq
    <3> QED
      BY <2>1, <2>2, <3>1, <3>4, SinceIs
  <2>5. seen = Unseen => wire' = <<>>
    BY <1>2, <1>5 DEF Subscribe
  <2>6. /\ wire' \in Seq(Frames \cup Gaps) /\ Rising(wire')
        /\ \A i \in DOMAIN wire' : wire'[i] \in Gaps => i = 1
        /\ Numbers(wire') \subseteq Numbers(ring[conn].entries)
    <3>1. CASE seen # Unseen
      BY <2>4, <3>1
    <3>2. CASE seen = Unseen
      <4>1. wire' = <<>> /\ Numbers(wire') = {} /\ Rising(wire')
        BY <2>5, <3>2, NumbersEmpty
      <4> QED
        BY <4>1
    <3> QED
      BY <3>1, <3>2
  <2>7. PushTyped'
    <3>1. mixed' \in BOOLEAN
      BY <2>3
    <3> QED
      BY <1>1, <2>3, <2>6, <3>1 DEF PushTyped
  <2>8. Numbers(queue') = {} /\ Rising(queue')
    BY <1>1, <1>2, NumbersEmpty
  <2>9. PipeInv'
    <3>1. Below(Numbers(wire'), Numbers(inbox[conn])) /\ Below(Numbers(wire'), {counter + 1})
      BY <2>2, <2>6 DEF ProcInv, Below
    <3> QED
      BY <1>1, <2>3, <2>6, <2>8, <3>1 DEF PipeInv, Below
  <2>10. PanelInv'
    <3> SUFFICES ASSUME ~mixed', tail # {}
                 PROVE  /\ seen \in tail /\ seen <= counter
                        /\ \A i, j \in tail : \A n \in i..j : n \in tail
                        /\ ~GapDue' => Below({seen}, Numbers(wire') \cup Numbers(queue')
                                                        \cup Numbers(inbox[conn]))
      BY <1>1, <2>3 DEF PanelInv
    <3>1. ~mixed /\ conn \notin ownNumbered
      BY <2>3
    <3>2. seen \in tail /\ seen <= counter /\ (\A i, j \in tail : \A n \in i..j : n \in tail)
      BY <3>1 DEF PanelInv
    <3>3. seen \in Nat /\ seen # Unseen
      <4>1. seen \in 1..MaxSeq
        BY <3>2 DEF PushTyped
      <4> QED
        BY <4>1 DEF Unseen
    <3>4. ASSUME ~GapDue'
          PROVE  Below({seen}, Numbers(wire') \cup Numbers(queue') \cup Numbers(inbox[conn]))
      <4>1. wire' = t /\ (t = <<>> \/ t[1] \notin Gaps)
        BY <2>4, <3>3, <3>4 DEF GapDue
      <4>2. seen <= ring[conn].seq /\ \A a \in Numbers(wire') : seen < a
        BY <2>4, <3>3, <4>1 DEF Below
      <4>3. \A a \in Numbers(inbox[conn]) : ring[conn].seq < a /\ a \in Nat
        BY <2>2, <3>1, NumbersType DEF ProcInv, Below
      <4>4. ring[conn].seq \in Nat
        BY <2>2, FramesAre DEF Rings
      <4>5. \A a \in Numbers(inbox[conn]) : seen < a
        BY <3>3, <4>2, <4>3, <4>4
      <4> QED
        BY <2>8, <4>2, <4>5 DEF Below
    <3> QED
      BY <3>2, <3>4
  <2>11. HeadInv'
    <3>1. CASE seen = Unseen
      BY <1>1, <1>2, <2>5, <3>1 DEF HeadInv
    <3>2. CASE seen # Unseen
      BY <1>1, <1>2, <2>4, <3>2 DEF HeadInv
    <3> QED
      BY <3>1, <3>2
  <2> QED
    BY <1>3, <2>7, <2>9, <2>10, <2>11
<1> QED
  BY <1>4, <1>5
(* The first frame of the queue becomes the last of the wire. *)
LEMMA FlushStep ==
    ASSUME PushInv, Flush PROVE PushInv'
<1> USE DEF PushInv
<1>1. /\ UNCHANGED <<counter, ownCounter, hears, inbox, ownNumbered, unheard, ring, declared, conn, sub,
                     seen, tail, connects, crowded, mixed, faults>>
      /\ queue # <<>> /\ wire' = Append(wire, Head(queue)) /\ queue' = Tail(queue)
  BY DEF Flush, chanVars
<1>2. PICK f : f = Head(queue)
  OBVIOUS
<1>3. /\ queue \in Seq(Frames) /\ Len(queue) <= QueueFrames /\ wire \in Seq(Frames \cup Gaps)
      /\ Rising(queue) /\ Rising(wire)
  BY DEF PushTyped, PipeInv
<1>4. /\ f \in Frames /\ f = queue[1] /\ Len(queue) \in Nat \ {0}
      /\ queue' \in Seq(Frames) /\ Len(queue') = Len(queue) - 1
      /\ DOMAIN queue' = 1..(Len(queue) - 1) /\ \A i \in DOMAIN queue' : queue'[i] = queue[i + 1]
  BY <1>1, <1>2, <1>3, TailIs
<1>5. f \in Frames \cup Gaps /\ f \notin Gaps
  BY <1>4, FramesAre
<1>6. /\ wire' \in Seq(Frames \cup Gaps) /\ wire' # <<>> /\ Len(wire') = Len(wire) + 1 /\ Len(wire) \in Nat
      /\ DOMAIN wire = 1..Len(wire) /\ DOMAIN wire' = 1..(Len(wire) + 1)
      /\ \A i \in DOMAIN wire : wire'[i] = wire[i]
      /\ wire'[Len(wire) + 1] = f
  BY <1>1, <1>2, <1>3, <1>5, AppendIs
<1>7. PushTyped'
  <2>1. Len(queue') <= QueueFrames
    BY <1>3, <1>4, PushAssumption
  <2> QED
    BY <1>1, <1>4, <1>6, <2>1 DEF PushTyped
<1>8. (\A q \in Procs : ProcInv(q)') /\ DeclareInv'
  BY <1>1, ClientStep
<1>9. /\ \A a \in Numbers(wire') : a \in Numbers(wire) \/ f = Frame(a)
      /\ Numbers(queue') \subseteq Numbers(queue)
      /\ \A a \in 1..MaxSeq : f = Frame(a) => a \in Numbers(queue) /\ Below({a}, Numbers(queue'))
      /\ Rising(queue')
  BY <1>1, <1>2, <1>3, <1>5, NumbersAppend, NumbersTail, RisingTail
<1>10. Subscribed
  BY <1>1 DEF PipeInv
<1>11. /\ \A a \in Numbers(wire) : \A b \in Numbers(queue) : a < b
       /\ \A a \in Numbers(wire) \cup Numbers(queue) : \A b \in Numbers(inbox[conn]) : a < b
       /\ \A a \in Numbers(wire) \cup Numbers(queue) : a < counter + 1
  BY <1>10 DEF PipeInv, Below
<1>12. \A a \in Numbers(wire') : a \in Numbers(wire) \cup Numbers(queue) /\ a \in 1..MaxSeq
  <2>1. \A a \in Numbers(wire') : a \in 1..MaxSeq
    BY NumbersType
  <2> QED
    BY <1>9, <2>1
<1>13. PipeInv'
  <2>1. \A i \in DOMAIN wire' : wire'[i] \in Gaps => i = 1
    <3> TAKE i \in DOMAIN wire'
    <3>1. CASE i \in DOMAIN wire
      BY <1>6, <3>1 DEF PipeInv
    <3>2. CASE i = Len(wire) + 1
      BY <1>5, <1>6, <3>2
    <3> QED
      BY <1>6, <3>1, <3>2
  <2>2. Rising(wire')
    <3>1. \A a \in 1..MaxSeq : f = Frame(a) => Below(Numbers(wire), {a})
      BY <1>9, <1>11 DEF Below
    <3> QED
      BY <1>1, <1>2, <1>3, <1>5, <3>1, RisingAppend
  <2>3. Below(Numbers(wire'), Numbers(queue'))
    <3> SUFFICES ASSUME NEW a \in Numbers(wire'), NEW b \in Numbers(queue') PROVE a < b
      BY DEF Below
    <3>1. CASE a \in Numbers(wire)
      BY <1>9, <1>11, <3>1
    <3>2. CASE f = Frame(a)
      BY <1>9, <1>12, <3>2 DEF Below
    <3> QED
      BY <1>9, <3>1, <3>2
  <2>4. /\ Below(Numbers(wire') \cup Numbers(queue'), Numbers(inbox[conn]))
        /\ Below(Numbers(wire') \cup Numbers(queue'), {counter + 1})
    BY <1>9, <1>11, <1>12 DEF Below
  <2>5. Subscribed'
    BY <1>1, <1>10 DEF Subscribed
  <2> QED
    BY <1>1, <1>9, <2>1, <2>2, <2>3, <2>4, <2>5 DEF PipeInv
<1>14. PanelInv'
  <2> SUFFICES ASSUME ~mixed, tail # {}
               PROVE  /\ seen \in tail /\ seen <= counter
                      /\ \A i, j \in tail : \A n \in i..j : n \in tail
                      /\ ~GapDue' => Below({seen}, Numbers(wire') \cup Numbers(queue')
                                                      \cup Numbers(inbox[conn]))
    BY <1>1 DEF PanelInv
  <2>1. seen \in tail /\ seen <= counter /\ (\A i, j \in tail : \A n \in i..j : n \in tail)
    BY DEF PanelInv
  <2>2. ~GapDue' => ~GapDue
    <3>1. wire # <<>> => 1 \in DOMAIN wire
      BY <1>3
    <3> QED
      BY <1>6, <3>1 DEF GapDue
  <2>3. ~GapDue => \A a \in Numbers(wire) \cup Numbers(queue) \cup Numbers(inbox[conn]) : seen < a
    BY <1>10 DEF PanelInv, Below
  <2>4. ~GapDue' => Below({seen}, Numbers(wire') \cup Numbers(queue') \cup Numbers(inbox[conn]))
    BY <1>9, <1>12, <2>2, <2>3 DEF Below
  <2> QED
    BY <2>1, <2>4
<1>15. HeadInv'
  <2> SUFFICES ASSUME ownNumbered = {}
               PROVE  /\ queue' # <<>> => queue'[Len(queue')].n = ring[conn].seq
                      /\ queue' = <<>> => wire'[Len(wire')].n = ring[conn].seq
    BY <1>1, <1>6 DEF HeadInv
  <2>1. queue[Len(queue)].n = ring[conn].seq
    BY <1>1, <1>10 DEF HeadInv
  <2>2. ASSUME queue' # <<>> PROVE queue'[Len(queue')].n = ring[conn].seq
    <3>1. Len(queue') \in DOMAIN queue' /\ Len(queue') + 1 = Len(queue)
      BY <1>4, <2>2
    <3> QED
      BY <1>4, <2>1, <3>1
  <2>3. ASSUME queue' = <<>> PROVE wire'[Len(wire')].n = ring[conn].seq
    <3>1. Len(queue) = 1
      BY <1>4, <2>3
    <3> QED
      BY <1>4, <1>6, <2>1, <3>1
  <2> QED
    BY <2>2, <2>3
<1> QED
  BY <1>7, <1>8, <1>13, <1>14, <1>15

(* Other topics push the first frame of the queue out. *)
LEMMA CrowdStep ==
    ASSUME PushInv, Crowd PROVE PushInv'
<1> USE DEF PushInv
<1>1. /\ UNCHANGED <<counter, ownCounter, hears, inbox, ownNumbered, unheard, ring, declared, conn, sub,
                     wire, seen, tail, connects, mixed, faults>>
      /\ queue # <<>> /\ queue' = Tail(queue)
      /\ queue' = <<>> => crowded'
  BY DEF Crowd, chanVars, clientVars
<1>2. queue \in Seq(Frames) /\ Len(queue) <= QueueFrames /\ Rising(queue)
  BY DEF PushTyped, PipeInv
<1>3. /\ Len(queue) \in Nat \ {0}
      /\ queue' \in Seq(Frames) /\ Len(queue') = Len(queue) - 1
      /\ DOMAIN queue' = 1..(Len(queue) - 1) /\ \A i \in DOMAIN queue' : queue'[i] = queue[i + 1]
  BY <1>1, <1>2, TailIs
<1>4. PushTyped'
  <2>1. Len(queue') <= QueueFrames
    BY <1>2, <1>3, PushAssumption
  <2> QED
    BY <1>1, <1>3, <2>1 DEF PushTyped
<1>5. (\A q \in Procs : ProcInv(q)') /\ DeclareInv'
  BY <1>1, ClientStep
<1>6. Numbers(queue') \subseteq Numbers(queue) /\ Rising(queue')
  BY <1>1, <1>2, NumbersTail, RisingTail
<1>7. PipeInv'
  <2>1. (Subscribed' <=> Subscribed) /\ Subscribed
    BY <1>1 DEF Subscribed, PipeInv
  <2> QED
    BY <1>1, <1>6, <2>1 DEF PipeInv, Below
<1>8. PanelInv'
  BY <1>1, <1>6 DEF PanelInv, Below, GapDue, Subscribed
<1>9. HeadInv'
  <2> SUFFICES ASSUME ownNumbered = {}, Subscribed, queue' # <<>>
               PROVE  queue'[Len(queue')].n = ring[conn].seq
    BY <1>1 DEF HeadInv, Subscribed
  <2>1. queue[Len(queue)].n = ring[conn].seq
    BY <1>1 DEF HeadInv
  <2>2. Len(queue') \in DOMAIN queue' /\ Len(queue') + 1 = Len(queue)
    BY <1>3
  <2> QED
    BY <1>3, <2>1, <2>2
<1> QED
  BY <1>4, <1>5, <1>7, <1>8, <1>9

(* The wire moves along: what is left of it. *)
LEMMA WireTail ==
    ASSUME PushInv, wire # <<>>, wire' = Tail(wire),
           UNCHANGED <<counter, hears, inbox, ownNumbered, unheard, ring, declared, queue, crowded, conn, sub>>
    PROVE  /\ Head(wire) \in Frames \cup Gaps /\ Head(wire) = wire[1] /\ Subscribed /\ Subscribed'
           /\ wire' \in Seq(Frames \cup Gaps)
           /\ (\A p \in Procs : ProcInv(p)') /\ DeclareInv' /\ PipeInv'
           /\ seen' = Head(wire).n => HeadInv'
           /\ \A a \in 1..MaxSeq : Head(wire) = Frame(a) =>
                 /\ a <= counter
                 /\ Below({a}, Numbers(wire') \cup Numbers(queue) \cup Numbers(inbox[conn]))
                 /\ ~mixed /\ tail # {} => seen < a
<1> USE DEF PushInv
<1>1. wire \in Seq(Frames \cup Gaps) /\ Rising(wire) /\ Rising(queue)
  BY DEF PushTyped, PipeInv
<1>2. PICK f : f = Head(wire)
  OBVIOUS
<1>3. /\ f \in Frames \cup Gaps /\ f = wire[1] /\ Len(wire) \in Nat \ {0}
      /\ wire' \in Seq(Frames \cup Gaps) /\ Len(wire') = Len(wire) - 1
      /\ DOMAIN wire = 1..Len(wire) /\ DOMAIN wire' = 1..(Len(wire) - 1)
      /\ \A i \in DOMAIN wire' : wire'[i] = wire[i + 1]
  BY <1>1, <1>2, TailIs
<1>4. Subscribed /\ Subscribed'
  BY DEF PipeInv, Subscribed
<1>5. /\ Rising(wire') /\ Numbers(wire') \subseteq Numbers(wire)
      /\ \A a \in 1..MaxSeq : f = Frame(a) => a \in Numbers(wire) /\ Below({a}, Numbers(wire'))
  BY <1>1, <1>2, RisingTail, NumbersTail
<1>6. /\ Below(Numbers(wire), Numbers(queue))
      /\ Below(Numbers(wire) \cup Numbers(queue), Numbers(inbox[conn]))
      /\ Below(Numbers(wire) \cup Numbers(queue), {counter + 1})
  BY <1>4 DEF PipeInv
<1>7. PipeInv'
  <2>1. \A i \in DOMAIN wire' : wire'[i] \notin Gaps
    <3> TAKE i \in DOMAIN wire'
    <3>1. i + 1 \in DOMAIN wire /\ i + 1 # 1 /\ wire'[i] = wire[i + 1]
      BY <1>3
    <3> QED
      BY <3>1 DEF PipeInv
  <2>2. /\ Below(Numbers(wire'), Numbers(queue))
        /\ Below(Numbers(wire') \cup Numbers(queue), Numbers(inbox[conn]))
        /\ Below(Numbers(wire') \cup Numbers(queue), {counter + 1})
    BY <1>5, <1>6 DEF Below
  <2> QED
    BY <1>1, <1>4, <1>5, <2>1, <2>2 DEF PipeInv
<1>8. (\A p \in Procs : ProcInv(p)') /\ DeclareInv'
  BY ClientStep
<1>9. ASSUME NEW a \in 1..MaxSeq, f = Frame(a)
      PROVE  /\ a <= counter
             /\ Below({a}, Numbers(wire') \cup Numbers(queue) \cup Numbers(inbox[conn]))
             /\ ~mixed /\ tail # {} => seen < a
  <2>1. a \in Numbers(wire) /\ Below({a}, Numbers(wire'))
    BY <1>5, <1>9
  <2>2. Below({a}, Numbers(wire') \cup Numbers(queue) \cup Numbers(inbox[conn]))
    BY <1>6, <2>1 DEF Below
  <2>3. a <= counter
    BY <2>1, PipeIs
  <2>4. ~GapDue
    <3>1. f \in Frames
      BY <1>9, FramesAre
    <3> QED
      BY <1>3, <3>1, FramesAre DEF GapDue
  <2>5. ~mixed /\ tail # {} => seen < a
    BY <1>4, <2>1, <2>4 DEF PanelInv, Below
  <2> QED
    BY <2>2, <2>3, <2>5
<1>10. ASSUME seen' = f.n PROVE HeadInv'
  <2> SUFFICES ASSUME ownNumbered = {}
               PROVE  /\ queue # <<>> => queue[Len(queue)].n = ring[conn].seq
                      /\ queue = <<>> /\ wire' # <<>> /\ ~crowded => wire'[Len(wire')].n = ring[conn].seq
                      /\ queue = <<>> /\ wire' = <<>> /\ ~crowded => seen' = ring[conn].seq
    BY <1>4 DEF HeadInv
  <2>1. /\ queue # <<>> => queue[Len(queue)].n = ring[conn].seq
        /\ queue = <<>> /\ ~crowded => wire[Len(wire)].n = ring[conn].seq
    BY <1>4 DEF HeadInv
  <2>2. ASSUME wire' # <<>> PROVE wire'[Len(wire')] = wire[Len(wire)]
    <3>1. Len(wire') \in DOMAIN wire' /\ Len(wire') + 1 = Len(wire)
      BY <1>3, <2>2
    <3> QED
      BY <1>3, <3>1
  <2>3. ASSUME wire' = <<>> PROVE wire[Len(wire)] = f
    <3>1. Len(wire') = 0
      BY <2>3, EmptySeq, Zenon
    <3>2. Len(wire') = Len(wire) - 1 /\ Len(wire) \in Nat
      BY <1>3
    <3>3. Len(wire) = 1
      BY <3>1, <3>2
    <3> QED
      BY <1>3, <3>3
  <2> QED
    BY <1>10, <2>1, <2>2, <2>3
<1> QED
  BY <1>2, <1>3, <1>4, <1>7, <1>8, <1>9, <1>10

LEMMA GapFrameStep ==
    ASSUME PushInv, GapFrame PROVE PushInv'
<1> USE DEF PushInv
<1>1. /\ UNCHANGED <<counter, ownCounter, hears, inbox, ownNumbered, unheard, ring, declared, queue, crowded, conn,
                     sub, connects, faults>>
      /\ wire # <<>> /\ wire' = Tail(wire) /\ Head(wire).kind = "gap"
      /\ seen' = Head(wire).n /\ tail' = {} /\ mixed' = FALSE
  BY DEF GapFrame, Emptied, chanVars, serverVars
<1>2. /\ Head(wire) \in Frames \cup Gaps /\ wire' \in Seq(Frames \cup Gaps)
      /\ (\A p \in Procs : ProcInv(p)') /\ DeclareInv' /\ PipeInv' /\ HeadInv'
  BY <1>1, WireTail
<1>3. seen' \in 0..MaxSeq
  BY <1>1, <1>2, FramesAre
<1>4. PushTyped'
  BY <1>1, <1>2, <1>3 DEF PushTyped
<1>5. PanelInv'
  BY <1>1 DEF PanelInv
<1> QED
  BY <1>2, <1>4, <1>5

LEMMA EventStep ==
    ASSUME PushInv, Event PROVE PushInv'
<1> USE DEF PushInv
<1>1. /\ UNCHANGED <<counter, ownCounter, hears, inbox, ownNumbered, unheard, ring, declared, queue, crowded, conn,
                     sub, connects, faults>>
      /\ wire # <<>> /\ wire' = Tail(wire) /\ Head(wire).kind = "frame"
      /\ seen' = Head(wire).n
  BY DEF Event, chanVars, serverVars
<1>2. PICK f : f = Head(wire)
  OBVIOUS
<1>3. IF seen # Unseen /\ f.n > seen + 1
      THEN tail' = {} /\ mixed' = f.own
      ELSE tail' = tail \cup {f.n} /\ mixed' = (mixed \/ f.own)
  BY <1>2 DEF Event
<1>4. /\ f \in Frames \cup Gaps /\ Subscribed /\ Subscribed' /\ wire' \in Seq(Frames \cup Gaps)
      /\ (\A p \in Procs : ProcInv(p)') /\ DeclareInv' /\ PipeInv' /\ HeadInv'
      /\ \A a \in 1..MaxSeq : f = Frame(a) =>
            /\ a <= counter
            /\ Below({a}, Numbers(wire') \cup Numbers(queue) \cup Numbers(inbox[conn]))
            /\ ~mixed /\ tail # {} => seen < a
  BY <1>1, <1>2, WireTail
<1>5. f \in Frames /\ f.n \in 1..MaxSeq /\ f.own \in BOOLEAN
  <2>1. f \in Frames
    BY <1>1, <1>2, <1>4, FramesAre
  <2> QED
    BY <2>1, FramesAre
<1>6. PushTyped'
  <2>1. seen' \in 0..MaxSeq
    BY <1>1, <1>2, <1>5, FramesAre
  <2>2. tail' \subseteq 1..MaxSeq
    BY <1>3, <1>5 DEF PushTyped
  <2>3. mixed' \in BOOLEAN
    BY <1>3, <1>5
  <2> QED
    BY <1>1, <1>4, <2>1, <2>2, <2>3 DEF PushTyped
<1>7. PanelInv'
  <2> SUFFICES ASSUME ~mixed', tail' # {}
               PROVE  /\ seen' \in tail' /\ seen' <= counter
                      /\ \A i, j \in tail' : \A n \in i..j : n \in tail'
                      /\ Below({seen'}, Numbers(wire') \cup Numbers(queue) \cup Numbers(inbox[conn]))
    BY <1>1, <1>4 DEF PanelInv
  <2>1. ~(seen # Unseen /\ f.n > seen + 1) /\ tail' = tail \cup {f.n} /\ ~mixed /\ f.own = FALSE
    <3>1. ~(seen # Unseen /\ f.n > seen + 1)
      BY <1>3
    <3>2. tail' = tail \cup {f.n} /\ mixed' = (mixed \/ f.own)
      BY <1>3, <3>1
    <3> QED
      BY <1>5, <3>1, <3>2
  <2>2. PICK a \in 1..MaxSeq : f = Frame(a) /\ f.n = a
    BY <1>5, <2>1, FramesAre
  <2>3. /\ a <= counter /\ (tail # {} => seen < a)
        /\ Below({a}, Numbers(wire') \cup Numbers(queue) \cup Numbers(inbox[conn]))
    BY <1>4, <2>1, <2>2
  <2>4. seen' = a /\ tail' = tail \cup {a}
    BY <1>1, <1>2, <2>1, <2>2
  <2>5. \A i, j \in tail \cup {a} : \A n \in i..j : n \in tail \cup {a}
    <3>1. CASE tail = {}
      BY <3>1
    <3>2. CASE tail # {}
      <4>1. seen \in tail /\ (\A i, j \in tail : \A n \in i..j : n \in tail) /\ tail \subseteq 1..MaxSeq
        BY <2>1, <3>2 DEF PanelInv, PushTyped
      <4>2. seen \in Nat /\ seen # Unseen /\ a \in Nat
        BY <4>1 DEF Unseen
      <4>3. a = seen + 1
        BY <2>1, <2>2, <2>3, <3>2, <4>2
      <4> SUFFICES ASSUME NEW i \in tail \cup {a}, NEW j \in tail \cup {a}, NEW n \in i..j
                   PROVE  n \in tail \cup {a}
        OBVIOUS
      <4>4. i \in Nat /\ j \in Nat /\ n \in Nat /\ i <= n /\ n <= j
        BY <4>1, <4>2
      <4>5. CASE i \in tail /\ j \in tail
        BY <4>1, <4>5
      <4>6. CASE i \in tail /\ j = a
        <5>1. n = a \/ n \in i..seen
          BY <4>2, <4>3, <4>4, <4>6
        <5> QED
          BY <4>1, <4>6, <5>1
      <4>7. CASE i = a /\ j \in tail
        <5>1. n \in seen..j
          BY <4>2, <4>3, <4>4, <4>7
        <5> QED
          BY <4>1, <4>7, <5>1
      <4>8. CASE i = a /\ j = a
        BY <4>2, <4>4, <4>8
      <4> QED
        BY <4>5, <4>6, <4>7, <4>8
    <3> QED
      BY <3>1, <3>2
  <2> QED
    BY <2>3, <2>4, <2>5
<1> QED
  BY <1>4, <1>6, <1>7
-----------------------------------------------------------------------------
(* The theorems *)

LEMMA InitPush == Init => PushInv
<1> SUFFICES ASSUME Init PROVE PushInv
  OBVIOUS
<1>1. /\ counter = 0 /\ ownCounter = 0 /\ hears = Procs /\ declared = {} /\ conn = Nobody /\ sub = "asked"
      /\ queue = <<>> /\ wire = <<>> /\ seen = Unseen /\ tail = {} /\ faults = 0 /\ connects = 0
      /\ mixed = FALSE /\ ownNumbered = {} /\ unheard = FALSE
      /\ inbox = [p \in Procs |-> <<>>] /\ ring = [p \in Procs |-> NoFrames]
  BY DEF Init
<1>2. /\ NoFrames \in Rings /\ RingOrdered(NoFrames) /\ NoFrames.seq = 0 /\ Numbers(NoFrames.entries) = {}
  <2>1. NoFrames \in Rings /\ NoFrames.seq = 0 /\ NoFrames.entries = <<>>
    BY PushAssumption DEF NoFrames, Rings
  <2>2. RingOrdered(NoFrames)
    BY <2>1, PushAssumption DEF RingOrdered
  <2> QED
    BY <2>1, <2>2, NumbersEmpty
<1>3. PushTyped
  <2>1. ring \in [Procs -> [seq : 0..MaxSeq, entries : Seq(Frames)]]
    BY <1>1, <1>2 DEF Rings
  <2>2. inbox \in [Procs -> Seq(FleetFrames \cup Notices)]
    BY <1>1
  <2>3. queue \in Seq(Frames) /\ Len(queue) <= QueueFrames /\ wire \in Seq(Frames \cup Gaps)
    BY <1>1, PushAssumption
  <2> QED
    <3>1. /\ counter \in 0..MaxSeq /\ ownCounter \in 0..MaxOwn
          /\ faults \in 0..MaxFaults /\ connects \in 0..MaxConnects
      BY <1>1, PushAssumption
    <3>2. /\ hears \subseteq Procs /\ declared \subseteq Procs /\ conn \in Procs \cup {Nobody}
          /\ sub \in {"asked", "held", "refused"} /\ seen \in 0..MaxSeq \cup {Unseen}
          /\ tail \subseteq 1..MaxSeq /\ mixed \in BOOLEAN /\ unheard \in BOOLEAN
          /\ ownNumbered \subseteq {Owner}
      BY <1>1
    <3> QED
      BY <2>1, <2>2, <2>3, <3>1, <3>2 DEF PushTyped
<1>4. ASSUME NEW p \in Procs PROVE ProcInv(p)
  <2>1. ring[p] = NoFrames /\ Numbers(inbox[p]) = {} /\ Rising(inbox[p])
    BY <1>1, NumbersEmpty
  <2> QED
    BY <1>1, <1>2, <2>1 DEF ProcInv, Below
<1>5. ~Subscribed /\ DOMAIN wire = {}
  BY <1>1 DEF Subscribed
<1>6. PipeInv /\ PanelInv /\ HeadInv
  BY <1>1, <1>5, NumbersEmpty DEF PipeInv, PanelInv, HeadInv, Below
<1>7. DeclareInv
  <2>1. Owner \in hears /\ inbox[Owner] = <<>>
    BY <1>1, PushAssumption
  <2> QED
    BY <1>1, <2>1, NumbersEmpty DEF DeclareInv
<1> QED
  BY <1>3, <1>4, <1>6, <1>7 DEF PushInv

LEMMA StutterPush ==
    ASSUME PushInv, UNCHANGED vars PROVE PushInv'
<1> USE DEF PushInv, vars
<1>1. PushTyped'
  BY DEF PushTyped
<1>2. (\A p \in Procs : ProcInv(p)') /\ DeclareInv'
  BY ClientStep
<1>3. PipeInv' /\ PanelInv' /\ HeadInv'
  BY DEF PipeInv, PanelInv, HeadInv, Subscribed, GapDue
<1> QED
  BY <1>1, <1>2, <1>3

LEMMA NextPush == PushInv /\ [Next]_vars => PushInv'
<1> SUFFICES ASSUME PushInv, [Next]_vars PROVE PushInv'
  OBVIOUS
<1>1. CASE Publish \/ PublishFails \/ ResetStream \/ Declare
  BY <1>1, PublishStep, PublishFailsStep, ResetStreamStep, DeclareStep
<1>2. ASSUME NEW p \in Procs, Handle(p) \/ Drop(p) \/ Reconnect(p) \/ Connect(p) \/ Restart(p)
      PROVE  PushInv'
  BY <1>2, HandleStep, DropStep, ReconnectStep, ConnectStep, RestartStep
<1>3. CASE Subscribe \/ Flush \/ Crowd \/ GapFrame \/ Event \/ Disconnect
  BY <1>3, SubscribeStep, FlushStep, CrowdStep, GapFrameStep, EventStep, DisconnectStep
<1>4. CASE UNCHANGED vars
  BY <1>4, StutterPush
<1> QED
  BY <1>1, <1>2, <1>3, <1>4 DEF Next

LEMMA PushInvariant == Spec => []PushInv
  BY InitPush, NextPush, PTL DEF Spec

(* The stream's state keeps its types: rings and queues stay within their   *)
(* limits, and a ring (ring.push) always holds rising numbers.              *)
THEOREM PushStreamTyped == Spec => []TypeOK
<1>1. PushInv => TypeOK
  <2> SUFFICES ASSUME PushInv PROVE TypeOK
    OBVIOUS
  <2> USE DEF PushInv
  <2>1. ASSUME NEW p \in Procs
        PROVE  /\ inbox[p] \in Seq(Frames \cup Notices)
               /\ ring[p].seq \in 0..MaxSeq /\ Len(ring[p].entries) <= RingFrames
               /\ \A i, j \in DOMAIN ring[p].entries :
                     i < j => ring[p].entries[i].n < ring[p].entries[j].n
    <3>1. inbox[p] \in Seq(FleetFrames \cup Notices) /\ ring[p].seq \in 0..MaxSeq
      BY DEF PushTyped
    <3>2. FleetFrames \cup Notices \subseteq Frames \cup Notices
      BY FramesAre
    <3>3. inbox[p] \in Seq(Frames \cup Notices)
      <4>1. \A i \in DOMAIN inbox[p] : inbox[p][i] \in Frames \cup Notices
        BY <3>1, <3>2
      <4> QED
        BY <3>1, <4>1
    <3> QED
      BY <3>1, <3>3 DEF ProcInv, RingOrdered
  <2> QED
    BY <2>1 DEF TypeOK, PushTyped
<1> QED
  BY <1>1, PushInvariant, PTL

(* The panel never holds a hole it was not told of: what onEvent and the    *)
(* gap frame leave in it is an unbroken run of the fleet's numbers, whatever *)
(* the channel, the queue and the rings lost, and wherever it reconnected.  *)
THEOREM NoSilentSkipHolds == Spec => []NoSilentSkip
<1>1. PushInv => NoSilentSkip
  <2> SUFFICES ASSUME PushInv, ~mixed PROVE \A i, j \in tail : \A n \in i..j : n \in tail
    BY DEF NoSilentSkip
  <2>1. CASE tail = {}
    BY <2>1
  <2>2. CASE tail # {}
    BY <2>2 DEF PushInv, PanelInv
  <2> QED
    BY <2>1, <2>2
<1> QED
  BY <1>1, PushInvariant, PTL

(* A subscribed console with nothing on its way is at the head of its       *)
(* process's ring: ring.since never answers a resume with less than is      *)
(* retained, and a topic that overflows a queue keeps its newest frame.     *)
(* Only frames of other topics can push that one out.                       *)
THEOREM CaughtUpHolds == Spec => []CaughtUp
<1>1. PushInv => CaughtUp
  BY DEF PushInv, HeadInv, Subscribed, CaughtUp
<1> QED
  BY <1>1, PushInvariant, PTL

(* With a quiet channel that everybody hears, a declared stream is known to *)
(* every process, through any drops and restarts of the others: the hello   *)
(* of a process that comes back (broadcaster's hello) is always answered.   *)
THEOREM DeclarationKnownHolds == Spec => []DeclarationKnown
<1>1. PushInv => DeclarationKnown
  <2> SUFFICES ASSUME PushInv, Owner \in declared, hears = Procs, ~unheard,
                      \A p \in Procs : inbox[p] = <<>>
               PROVE  declared = Procs
    BY DEF DeclarationKnown, PushInv, PushTyped
  <2>1. \A p \in Procs : Elements(inbox[p]) = {}
    BY NumbersEmpty
  <2>2. Elements(inbox[Owner]) = {}
    BY <2>1, PushAssumption
  <2>3. \A p \in hears \ declared : FALSE
    BY <2>1, <2>2 DEF PushInv, DeclareInv
  <2> QED
    BY <2>3 DEF PushInv, PushTyped
<1> QED
  BY <1>1, PushInvariant, PTL
=============================================================================
