------------------------ MODULE TelemetryFeedProofs ------------------------
(***************************************************************************)
(* Proofs about TelemetryFeed for every set of panes and sidebars and every *)
(* capacity and bound.                                                     *)
(*                                                                         *)
(* The idea: put the screen of a sidebar in front of everything on its way *)
(* to it (event channel, socket, line being written, subscriber channel),  *)
(* as if it were a snapshot line.  That one sequence, Feed(s), is "whole": *)
(* its lines describe states the store had, a delta stands right behind    *)
(* the line it continues, and stamps never decrease.  Every step appends   *)
(* to it, cuts its end, or folds its first two elements into one.          *)
(***************************************************************************)
EXTENDS TelemetryFeed, SequenceTheorems, TLAPS

-----------------------------------------------------------------------------
(* Types.                                                                  *)

Cards0     == [Panes -> Nat]
HelloLine  == [kind : {"hello"}, seq : Nat, panes : Cards0, stamp : Nat]
DeltaLine  == [kind : {"delta"}, seq : Nat, pane : Panes, card : Nat, stamp : Nat]
StoreLine  == HelloLine \cup DeltaLine
WireLine   == StoreLine \cup {Partial}
StreamEvent == WireLine \cup {Disconnected, Reconnected}

TypeInv ==
    /\ up \in {"down", "up", "stopping"}
    /\ panes \in Cards0
    /\ seq \in Nat
    /\ subs \in SUBSET Sidebars
    /\ chan \in [Sidebars -> Seq(DeltaLine)]
    /\ worker \in [Sidebars -> {"none", "queued", "accepted", "serving", "leaving"}]
    /\ outgoing \in [Sidebars -> Seq(StoreLine)]
    /\ wire \in [Sidebars -> Seq(WireLine)]
    /\ link \in [Sidebars -> {"none", "attached", "seeking"}]
    /\ gone \in [Sidebars -> BOOLEAN]
    /\ inbox \in [Sidebars -> Seq(StreamEvent)]
    /\ ui \in [Sidebars -> {"off", "running", "halted"}]
    /\ view \in [Sidebars -> Cards0]
    /\ lastSeq \in [Sidebars -> Nat]
    /\ lost \in [Sidebars -> BOOLEAN]
    /\ past \in Seq(Cards0)
    /\ past # <<>>
    /\ shown \in [Sidebars -> Nat]
    /\ \A s \in Sidebars : Len(chan[s]) <= Buffer /\ Len(outgoing[s]) <= 1

-----------------------------------------------------------------------------
(* The inductive invariant.                                                *)

\* What the connection's state says about its pieces.
Stages ==
    /\ panes = past[Now]
    /\ up = "down" => subs = {} /\ \A s \in Sidebars : worker[s] = "none"
    /\ \A s \in Sidebars :
         /\ worker[s] # "serving" => outgoing[s] = <<>>
         /\ worker[s] \in {"none", "queued", "accepted"} => s \notin subs
         /\ worker[s] \in {"queued", "accepted"} => wire[s] = <<>>
         /\ link[s] = "seeking" => wire[s] = <<>> /\ worker[s] = "none"
         /\ ui[s] = "running" => link[s] # "none"
         /\ ui[s] = "off" =>
              /\ link[s] = "none" /\ inbox[s] = <<>> /\ wire[s] = <<>>
              /\ view[s] = NoCards /\ lastSeq[s] = 0 /\ shown[s] = 0

Screen(s) ==
    [kind |-> "hello", seq |-> lastSeq[s], panes |-> view[s], stamp |-> shown[s]]
Sent(s)   == IF worker[s] = "serving" THEN outgoing[s] \o chan[s] ELSE <<>>
Ahead(s)  == wire[s] \o Sent(s)
Read(s)   == <<Screen(s)>> \o inbox[s]
Feed(s)   == Read(s) \o Ahead(s)

At(h, moment) == IF moment = 0 THEN NoCards ELSE h[moment]

\* A line tells the truth about the history h.
Genuine(h, e) ==
    e.kind \in Line =>
        /\ e.stamp <= Len(h)
        /\ e.kind = "hello" => e.panes = At(h, e.stamp)
        /\ e.kind = "delta" =>
             /\ e.stamp > 0
             /\ h[e.stamp] = [At(h, e.stamp - 1) EXCEPT ![e.pane] = e.card]

\* d continues e.
Continues(e, d) ==
    d.kind = "delta" =>
        e.kind \in Line /\ d.stamp = e.stamp + 1 /\ d.seq = e.seq + 1

Whole(h, q) ==
    /\ \A i \in 1..Len(q) : Genuine(h, q[i])
    /\ \A i \in 1..Len(q) : i > 1 => Continues(q[i - 1], q[i])
    /\ \A i, j \in 1..Len(q) :
         i < j /\ q[i].kind \in Line /\ q[j].kind \in Line => q[i].stamp <= q[j].stamp

Opens(q) == q # <<>> /\ q[1].kind \in {"hello", "partial"}

\* The sequence ends with the line of the moment m and the sequence number n.
EndsAt(q, m, n) ==
    q[Len(q)].kind \in Line /\ q[Len(q)].stamp = m /\ q[Len(q)].seq = n

FeedWhole(s)   == Whole(past, Feed(s))
FeedCurrent(s) == s \in subs /\ worker[s] = "serving" => EndsAt(Feed(s), Now, seq)
FeedFresh(s)   ==
    link[s] = "attached" /\ gone[s] =>
        Opens(Ahead(s)) \/ (Ahead(s) = <<>> /\ worker[s] # "serving")

FeedInv ==
    \A s \in Sidebars :
        ui[s] # "off" => FeedWhole(s) /\ FeedCurrent(s) /\ FeedFresh(s)

IInv == TypeInv /\ Stages /\ FeedInv /\ ReconnectedWithProof

-----------------------------------------------------------------------------
(* Sequences of lines.                                                     *)

\* Growing the history leaves what was whole whole.
LEMMA WholeGrows ==
    ASSUME NEW h \in Seq(Cards0), NEW c \in Cards0, NEW q \in Seq(StreamEvent), Whole(h, q)
    PROVE  Whole(Append(h, c), q)
<1>1. ASSUME NEW i \in 1..Len(q), Genuine(h, q[i])
      PROVE  Genuine(Append(h, c), q[i])
  <2> SUFFICES ASSUME q[i].kind \in Line PROVE Genuine(Append(h, c), q[i])
    BY DEF Genuine
  <2>1. q[i] \in StoreLine
    BY DEF StreamEvent, WireLine, StoreLine, Partial, Disconnected, Reconnected, Line
  <2>2. q[i].stamp \in Nat
    BY <2>1 DEF StoreLine, HelloLine, DeltaLine
  <2>3. \A m \in 0..Len(h) : At(Append(h, c), m) = At(h, m)
    BY DEF At
  <2>4. q[i].stamp <= Len(h) /\ Len(Append(h, c)) = Len(h) + 1
    BY <1>1 DEF Genuine
  <2>5. q[i].kind = "hello" => q[i].panes = At(Append(h, c), q[i].stamp)
    BY <1>1, <2>2, <2>3, <2>4 DEF Genuine
  <2>6. CASE q[i].kind = "delta"
    <3>1. q[i].stamp > 0 /\ h[q[i].stamp] = [At(h, q[i].stamp - 1) EXCEPT ![q[i].pane] = q[i].card]
      BY <1>1, <2>6 DEF Genuine, Line
    <3>2. Append(h, c)[q[i].stamp] = h[q[i].stamp]
      BY <2>2, <2>4, <3>1
    <3>3. At(Append(h, c), q[i].stamp - 1) = At(h, q[i].stamp - 1)
      BY <2>2, <2>3, <2>4, <3>1
    <3> QED
      BY <2>2, <2>4, <2>6, <3>1, <3>2, <3>3 DEF Genuine
  <2> QED
    BY <2>2, <2>4, <2>5, <2>6 DEF Genuine
<1> QED
  BY <1>1 DEF Whole

\* A further line, or a mark of the stream, may be put behind a whole sequence.
LEMMA WholeAppend ==
    ASSUME NEW h \in Seq(Cards0), NEW q \in Seq(StreamEvent), NEW e \in StreamEvent,
           Whole(h, q), q # <<>>, Genuine(h, e), Continues(q[Len(q)], e),
           \A i \in 1..Len(q) :
             q[i].kind \in Line /\ e.kind \in Line => q[i].stamp <= e.stamp
    PROVE  Whole(h, Append(q, e))
<1> DEFINE r == Append(q, e)
<1>1. Len(r) = Len(q) + 1 /\ r[Len(q) + 1] = e /\ \A i \in 1..Len(q) : r[i] = q[i]
  OBVIOUS
<1>2. Len(q) \in Nat \ {0}
  OBVIOUS
<1> HIDE DEF r
<1>a. \A i \in 1..Len(r) : i = Len(q) + 1 \/ i \in 1..Len(q)
  BY <1>1, <1>2
<1>b. \A i \in 1..Len(q) : Genuine(h, q[i])
  BY DEF Whole
<1>3. \A i \in 1..Len(r) : Genuine(h, r[i])
  BY <1>1, <1>a, <1>b
<1>4. \A i \in 1..Len(r) : i > 1 => Continues(r[i - 1], r[i])
  <2> TAKE i \in 1..Len(r)
  <2>1. CASE i = Len(q) + 1
    BY <1>1, <1>2, <2>1
  <2>2. CASE i \in 1..Len(q)
    <3>1. i > 1 => i - 1 \in 1..Len(q)
      BY <2>2
    <3> QED
      BY <1>1, <1>2, <2>2, <3>1 DEF Whole
  <2> QED
    BY <1>1, <1>2, <2>1, <2>2
<1>5. \A i, j \in 1..Len(r) :
        i < j /\ r[i].kind \in Line /\ r[j].kind \in Line => r[i].stamp <= r[j].stamp
  <2> TAKE i, j \in 1..Len(r)
  <2>1. i < j => i \in 1..Len(q)
    BY <1>1, <1>2
  <2>2. CASE j = Len(q) + 1
    BY <1>1, <2>1, <2>2
  <2>3. CASE j \in 1..Len(q)
    BY <1>1, <2>1, <2>3 DEF Whole
  <2> QED
    BY <1>a, <2>2, <2>3
<1> QED
  BY <1>3, <1>4, <1>5 DEF Whole, r

\* Cutting the end off a whole sequence leaves it whole.
LEMMA WholePrefix ==
    ASSUME NEW h, NEW q \in Seq(StreamEvent), NEW r \in Seq(StreamEvent), Whole(h, q \o r)
    PROVE  Whole(h, q)
<1> DEFINE t == q \o r
<1>1. Len(t) = Len(q) + Len(r) /\ \A i \in 1..Len(q) : t[i] = q[i]
  OBVIOUS
<1>2. Len(q) \in Nat /\ Len(r) \in Nat
  OBVIOUS
<1>3. Whole(h, t)
  OBVIOUS
<1> HIDE DEF t
<1>4. \A i \in 1..Len(q) : i \in 1..Len(t) /\ (i > 1 => i - 1 \in 1..Len(q))
  BY <1>1, <1>2
<1>5. \A i \in 1..Len(q) : Genuine(h, q[i])
  BY <1>1, <1>3, <1>4 DEF Whole
<1>6. \A i \in 1..Len(q) : i > 1 => Continues(q[i - 1], q[i])
  BY <1>1, <1>3, <1>4 DEF Whole
<1>7. \A i, j \in 1..Len(q) :
        i < j /\ q[i].kind \in Line /\ q[j].kind \in Line => q[i].stamp <= q[j].stamp
  BY <1>1, <1>3, <1>4 DEF Whole
<1> QED
  BY <1>5, <1>6, <1>7 DEF Whole

\* So does cutting its first element off.
LEMMA WholeTail ==
    ASSUME NEW h, NEW q \in Seq(StreamEvent), q # <<>>, Whole(h, q)
    PROVE  Whole(h, Tail(q))
<1> DEFINE t == Tail(q)
<1>1. Len(t) = Len(q) - 1 /\ \A i \in 1..Len(t) : t[i] = q[i + 1]
  OBVIOUS
<1>2. Len(q) \in Nat \ {0}
  OBVIOUS
<1> HIDE DEF t
<1>3. \A i \in 1..Len(t) : i + 1 \in 1..Len(q) /\ (i > 1 => i - 1 \in 1..Len(t))
  BY <1>1, <1>2
<1>4. \A i \in 1..Len(t) : Genuine(h, t[i])
  BY <1>1, <1>3 DEF Whole
<1>5. ASSUME NEW i \in 1..Len(t), i > 1
      PROVE  Continues(t[i - 1], t[i])
  <2>1. t[i] = q[i + 1] /\ t[i - 1] = q[i] /\ i \in 1..Len(q) /\ i + 1 \in 1..Len(q)
    BY <1>1, <1>2, <1>3, <1>5
  <2>2. Continues(q[(i + 1) - 1], q[i + 1])
    BY <1>5, <2>1 DEF Whole
  <2> QED
    BY <2>1, <2>2
<1>6. \A i, j \in 1..Len(t) :
        i < j /\ t[i].kind \in Line /\ t[j].kind \in Line => t[i].stamp <= t[j].stamp
  <2> TAKE i, j \in 1..Len(t)
  <2>1. t[i] = q[i + 1] /\ t[j] = q[j + 1] /\ (i < j => i + 1 < j + 1)
    BY <1>1
  <2> QED
    BY <1>3, <2>1 DEF Whole
<1> QED
  BY <1>4, <1>5, <1>6 DEF Whole, t

\* A mark of the stream, and what cannot be read, separates without joining:
\* it may be put in front of a line that continues nothing.
LEMMA WholeInsert ==
    ASSUME NEW h, NEW q \in Seq(StreamEvent), NEW r \in Seq(StreamEvent),
           NEW m \in {Partial, Disconnected, Reconnected},
           Whole(h, q \o r), r = <<>> \/ r[1].kind # "delta"
    PROVE  Whole(h, Append(q, m) \o r)
<1> DEFINE t == q \o r
           u == Append(q, m) \o r
           n == Len(q)
           old(i) == IF i <= n THEN i ELSE i - 1
<1>1. n \in Nat /\ Len(r) \in Nat /\ Len(t) = n + Len(r) /\ Len(u) = n + 1 + Len(r)
  BY DEF StreamEvent, WireLine
<1>2. u[n + 1] = m /\ \A i \in 1..Len(u) : i # n + 1 => u[i] = t[old(i)]
  BY DEF StreamEvent, WireLine
<1>3. r # <<>> => t[n + 1] = r[1]
  OBVIOUS
<1>4. r # <<>> => Len(r) > 0
  OBVIOUS
<1>5. m.kind \notin Line /\ m.kind # "delta"
  BY DEF Partial, Disconnected, Reconnected, Line
<1>6. Whole(h, t)
  OBVIOUS
<1> HIDE DEF t, u, n
<1>7. \A i \in 1..Len(u) : i # n + 1 => old(i) \in 1..Len(t)
  BY <1>1
<1>8. ASSUME NEW i \in 1..Len(u)
      PROVE  Genuine(h, u[i])
  <2>1. CASE i = n + 1
    BY <1>2, <1>5, <2>1 DEF Genuine
  <2>2. CASE i # n + 1
    <3>1. u[i] = t[old(i)] /\ old(i) \in 1..Len(t)
      BY <1>2, <1>7, <2>2
    <3> HIDE DEF old
    <3> QED
      BY <1>6, <3>1 DEF Whole
  <2> QED
    BY <2>1, <2>2
<1>9. ASSUME NEW i \in 1..Len(u), i > 1
      PROVE  Continues(u[i - 1], u[i])
  <2>1. CASE i = n + 1
    BY <1>2, <1>5, <2>1 DEF Continues
  <2>2. CASE i = n + 2
    <3>1. Len(r) > 0 /\ r # <<>>
      BY <1>1, <2>2
    <3>2. old(i) = n + 1 /\ i # n + 1
      BY <1>1, <2>2
    <3> HIDE DEF old
    <3>3. u[i] = r[1]
      BY <1>2, <1>3, <1>9, <3>1, <3>2
    <3> QED
      BY <3>1, <3>3 DEF Continues
  <2>3. CASE i \notin {n + 1, n + 2}
    <3>a. i # n + 1 /\ i # n + 2
      BY <2>3
    <3>b. i - 1 \in 1..Len(u) /\ i - 1 # n + 1
      BY <1>1, <1>9, <3>a
    <3>1. u[i] = t[old(i)] /\ old(i) \in 1..Len(t) /\ i - 1 \in 1..Len(u) /\ i - 1 # n + 1
      BY <1>2, <1>7, <3>a, <3>b
    <3>2. u[i - 1] = t[old(i - 1)]
      BY <1>2, <3>1
    <3>3. old(i - 1) = old(i) - 1 /\ old(i) > 1
      BY <1>1, <1>9, <2>3
    <3> HIDE DEF old
    <3> QED
      BY <1>6, <3>1, <3>2, <3>3 DEF Whole
  <2> QED
    BY <2>1, <2>2, <2>3
<1>10. ASSUME NEW i \in 1..Len(u), NEW j \in 1..Len(u), i < j,
              u[i].kind \in Line, u[j].kind \in Line
       PROVE  u[i].stamp <= u[j].stamp
  <2>1. i # n + 1 /\ j # n + 1
    BY <1>2, <1>5, <1>10
  <2>2. u[i] = t[old(i)] /\ u[j] = t[old(j)]
    BY <1>2, <2>1
  <2>3. old(i) < old(j) /\ old(i) \in 1..Len(t) /\ old(j) \in 1..Len(t)
    BY <1>1, <1>7, <1>10, <2>1
  <2> HIDE DEF old
  <2> QED
    BY <1>6, <1>10, <2>2, <2>3 DEF Whole
<1> QED
  BY <1>8, <1>9, <1>10 DEF Whole, u

\* Folding the second element into the screen in front of it: a mark leaves the
\* screen alone, a snapshot replaces it, a delta changes one card of it.
LEMMA WholeSkip ==
    ASSUME NEW h, NEW a \in StreamEvent, NEW m \in {Partial, Disconnected, Reconnected},
           NEW r \in Seq(StreamEvent), Whole(h, <<a, m>> \o r)
    PROVE  Whole(h, <<a>> \o r)
<1> DEFINE t == <<a, m>> \o r
           u == <<a>> \o r
           old(i) == IF i = 1 THEN 1 ELSE i + 1
<1>1. Len(r) \in Nat /\ Len(t) = Len(r) + 2 /\ Len(u) = Len(r) + 1
  BY DEF StreamEvent, WireLine
<1>2. t[2] = m /\ \A i \in 1..Len(u) : u[i] = t[old(i)]
  BY DEF StreamEvent, WireLine
<1>3. m.kind \notin Line
  BY DEF Partial, Disconnected, Reconnected, Line
<1>4. Whole(h, t)
  OBVIOUS
<1> HIDE DEF t, u
<1>5. \A i \in 1..Len(u) : old(i) \in 1..Len(t) /\ \A j \in 1..Len(u) : i < j => old(i) < old(j)
  BY <1>1
<1>6. \A i \in 1..Len(u) : Genuine(h, u[i])
  BY <1>2, <1>4, <1>5 DEF Whole
<1>7. ASSUME NEW i \in 1..Len(u), i > 1
      PROVE  Continues(u[i - 1], u[i])
  <2>1. CASE i = 2
    <3>1. Continues(t[2], t[3])
      <4>1. 3 \in 1..Len(t)
        BY <1>1, <2>1
      <4>2. \A k \in 1..Len(t) : k > 1 => Continues(t[k - 1], t[k])
        BY <1>4 DEF Whole
      <4>3. 3 > 1 /\ 3 - 1 = 2
        OBVIOUS
      <4> QED
        BY <4>1, <4>2, <4>3
    <3> QED
      BY <1>2, <1>3, <2>1, <3>1 DEF Continues
  <2>2. CASE i # 2
    <3>1. u[i] = t[i + 1] /\ u[i - 1] = t[(i + 1) - 1] /\ i + 1 \in 1..Len(t) /\ i + 1 > 1
      BY <1>1, <1>2, <1>7, <2>2
    <3> QED
      BY <1>4, <3>1 DEF Whole
  <2> QED
    BY <2>1, <2>2
<1>8. ASSUME NEW i \in 1..Len(u), NEW j \in 1..Len(u), i < j,
             u[i].kind \in Line, u[j].kind \in Line
      PROVE  u[i].stamp <= u[j].stamp
  <2> HIDE DEF old
  <2> QED
    BY <1>2, <1>4, <1>5, <1>8 DEF Whole
<1> QED
  BY <1>6, <1>7, <1>8 DEF Whole, u

\* The snapshot in front of a feed may be dropped.
LEMMA WholeSnapshot ==
    ASSUME NEW h, NEW a \in StreamEvent, NEW b \in StreamEvent,
           NEW r \in Seq(StreamEvent), Whole(h, <<a, b>> \o r)
    PROVE  Whole(h, <<b>> \o r)
<1>1. <<a, b>> \o r \in Seq(StreamEvent) /\ <<a, b>> \o r # <<>>
  OBVIOUS
<1>2. Tail(<<a, b>> \o r) = <<b>> \o r
  OBVIOUS
<1> QED
  BY <1>1, <1>2, WholeTail

\* Folding a line into the snapshot it follows leaves the sequence whole.
LEMMA WholeFold ==
    ASSUME NEW h \in Seq(Cards0), NEW a \in HelloLine, NEW d \in DeltaLine,
           NEW r \in Seq(StreamEvent), Whole(h, <<a, d>> \o r)
    PROVE  LET b == [kind |-> "hello", seq |-> d.seq,
                     panes |-> [a.panes EXCEPT ![d.pane] = d.card], stamp |-> d.stamp]
           IN  Whole(h, <<b>> \o r)
<1> DEFINE b == [kind |-> "hello", seq |-> d.seq,
                 panes |-> [a.panes EXCEPT ![d.pane] = d.card], stamp |-> d.stamp]
           t == <<d>> \o r
           u == <<b>> \o r
           w == <<a, d>> \o r
<1>1. a.kind = "hello" /\ a.stamp \in Nat /\ d.kind = "delta" /\ d.stamp \in Nat
  BY DEF HelloLine, DeltaLine
<1>2. a \in StreamEvent /\ d \in StreamEvent
  BY DEF StreamEvent, WireLine, StoreLine
<1>3. Whole(h, t)
  BY <1>2, WholeSnapshot
<1>4. Genuine(h, a) /\ Genuine(h, d) /\ Continues(a, d)
  <2>1. Whole(h, w) /\ w[1] = a /\ w[2] = d /\ Len(w) >= 2
    BY <1>2
  <2> HIDE DEF w
  <2>2. \A k \in 1..Len(w) : Genuine(h, w[k]) /\ (k > 1 => Continues(w[k - 1], w[k]))
    BY <2>1 DEF Whole
  <2>3. 1 \in 1..Len(w) /\ 2 \in 1..Len(w) /\ 2 - 1 = 1 /\ 2 > 1
    BY <1>2, <2>1 DEF w
  <2> QED
    BY <2>1, <2>2, <2>3
<1>5. Genuine(h, b)
  <2>1. d.stamp = a.stamp + 1 /\ d.stamp <= Len(h)
    BY <1>1, <1>4 DEF Continues, Genuine, Line
  <2>2. a.panes = At(h, a.stamp) /\ h[d.stamp] = [At(h, d.stamp - 1) EXCEPT ![d.pane] = d.card]
    BY <1>1, <1>4 DEF Genuine, Line
  <2>3. At(h, d.stamp) = h[d.stamp] /\ d.stamp - 1 = a.stamp
    BY <1>1, <2>1 DEF At
  <2> QED
    BY <2>1, <2>2, <2>3 DEF Genuine, Line
<1>6. Len(r) \in Nat /\ Len(t) = Len(r) + 1 /\ Len(u) = Len(r) + 1
  BY <1>2
<1>7. t[1] = d /\ u[1] = b /\ \A i \in 1..Len(u) : i # 1 => u[i] = t[i]
  BY <1>2
<1>8. b.kind \in Line /\ d.kind \in Line /\ b.stamp = d.stamp /\ b.seq = d.seq
  BY <1>1 DEF Line
<1> HIDE DEF t, u, b
<1>9. \A i \in 1..Len(u) : Genuine(h, u[i])
  BY <1>3, <1>5, <1>6, <1>7 DEF Whole
<1>10. ASSUME NEW i \in 1..Len(u), i > 1
       PROVE  Continues(u[i - 1], u[i])
  <2>1. Continues(t[i - 1], t[i]) /\ u[i] = t[i]
    BY <1>3, <1>6, <1>7, <1>10 DEF Whole
  <2>2. CASE i - 1 = 1
    BY <1>7, <1>8, <2>1, <2>2 DEF Continues
  <2>3. CASE i - 1 # 1
    <3>1. u[i - 1] = t[i - 1]
      BY <1>6, <1>7, <1>10, <2>3
    <3> QED
      BY <2>1, <3>1
  <2> QED
    BY <2>2, <2>3
<1>11. ASSUME NEW i \in 1..Len(u), NEW j \in 1..Len(u), i < j,
              u[i].kind \in Line, u[j].kind \in Line
       PROVE  u[i].stamp <= u[j].stamp
  <2>1. u[i].stamp = t[i].stamp /\ t[i].kind \in Line
    BY <1>7, <1>8, <1>11
  <2>2. j # 1 /\ u[j] = t[j]
    BY <1>6, <1>7, <1>11
  <2> QED
    BY <1>3, <1>6, <1>11, <2>1, <2>2 DEF Whole
<1>12. Whole(h, u)
  BY <1>9, <1>10, <1>11 DEF Whole
<1> QED
  BY <1>12 DEF u, b

-----------------------------------------------------------------------------
(* Type correctness.                                                       *)

\* An empty store is a state of the cards.
LEMMA NoCardsType == NoCards \in Cards0
  BY DEF NoCards, Cards0

\* A longer history is a history.
LEMMA LongerHistory ==
    ASSUME NEW h \in Seq(Cards0), NEW c \in Cards0
    PROVE  /\ Append(h, c) \in Seq(Cards0) /\ Append(h, c) # <<>>
           /\ Len(Append(h, c)) = Len(h) + 1
<1>1. Append(h, c) \in Seq(Cards0) /\ Len(Append(h, c)) = Len(h) + 1
  OBVIOUS
<1>2. Len(h) + 1 # Len(<<>>)
  OBVIOUS
<1> QED
  BY <1>1, <1>2

\* A change of the store keeps the types.
LEMMA CommitType ==
    ASSUME TypeInv, NEW p \in Panes, NEW card \in Nat, Commit(p, card)
    PROVE  TypeInv'
<1> USE FeedAssumption
<1>1. Delta(p, card) \in DeltaLine
  BY DEF TypeInv, Delta, DeltaLine, Now
<1>2. panes' \in Cards0 /\ past' \in Seq(Cards0) /\ past' # <<>>
  <2>1. panes' \in Cards0
    BY DEF TypeInv, Commit, Cards0
  <2>2. past' = Append(past, panes') /\ past \in Seq(Cards0)
    BY DEF TypeInv, Commit
  <2> QED
    BY <2>1, <2>2, LongerHistory
<1>3. chan' \in [Sidebars -> Seq(DeltaLine)] /\ \A s \in Sidebars : Len(chan'[s]) <= Buffer
  <2> DEFINE u == Delta(p, card)
  <2>1. \A s \in Sidebars : chan[s] \in Seq(DeltaLine) /\ Len(chan[s]) <= Buffer
    BY DEF TypeInv
  <2>2. chan' = [s \in Sidebars |->
                   IF s \in subs /\ Len(chan[s]) < Buffer THEN Append(chan[s], u) ELSE chan[s]]
    BY DEF Commit, Broadcast
  <2>3. u \in DeltaLine
    BY <1>1
  <2> HIDE DEF u
  <2>4. ASSUME NEW s \in Sidebars
        PROVE  chan'[s] \in Seq(DeltaLine) /\ Len(chan'[s]) <= Buffer
    <3>1. CASE s \in subs /\ Len(chan[s]) < Buffer
      <4>1. chan'[s] = Append(chan[s], u)
        BY <2>2, <3>1
      <4> QED
        BY <2>1, <2>3, <3>1, <4>1
    <3>2. CASE ~(s \in subs /\ Len(chan[s]) < Buffer)
      BY <2>1, <2>2, <3>2
    <3> QED
      BY <3>1, <3>2
  <2> QED
    BY <2>2, <2>4
<1>4. subs' \in SUBSET Sidebars /\ seq' \in Nat
  BY DEF TypeInv, Commit, Broadcast
<1> QED
  BY <1>2, <1>3, <1>4 DEF TypeInv, Commit, stream, screen

\* A snapshot line has its type.
LEMMA HelloType ==
    ASSUME TypeInv
    PROVE  Hello \in HelloLine
  BY DEF TypeInv, Hello, HelloLine, Now

\* How the kinds of lines and events contain one another.
LEMMA LineTypes ==
    /\ DeltaLine \subseteq StoreLine /\ HelloLine \subseteq StoreLine
    /\ StoreLine \subseteq WireLine /\ WireLine \subseteq StreamEvent
    /\ Partial \in WireLine /\ Partial \in StreamEvent
    /\ Disconnected \in StreamEvent /\ Reconnected \in StreamEvent
  BY DEF StoreLine, WireLine, StreamEvent

\* Every step keeps the types.
LEMMA TypeStep ==
    ASSUME TypeInv, [Next]_vars
    PROVE  TypeInv'
<1> USE FeedAssumption, NoCardsType DEF TypeInv
<1>1. CASE UNCHANGED vars
  BY <1>1 DEF vars, daemon, conn, stream, screen
<1>2. ASSUME NEW p \in Panes, SetAgent(p) \/ ReplaceSession(p) \/ Record(p) \/ Remove(p)
      PROVE  TypeInv'
  <2>1. Now + 1 \in Nat /\ 0 \in Nat
    BY DEF Now
  <2> QED
    BY <1>2, <2>1, CommitType DEF SetAgent, ReplaceSession, Record, Remove
<1>3. CASE Start
  BY <1>3 DEF Start, conn, stream, screen
<1>4. CASE Stop
  BY <1>4 DEF Stop, conn, stream, screen
<1>5. CASE Exit
  <2>1. \A s \in Sidebars : Len(chan'[s]) <= Buffer /\ Len(outgoing'[s]) <= 1
    BY <1>5 DEF Exit, Vanish
  <2>2. past' \in Seq(Cards0) /\ past' # <<>>
    BY <1>5, LongerHistory DEF Exit, Vanish
  <2> QED
    BY <1>5, <2>1, <2>2 DEF Exit, Vanish, stream, screen
<1>6. CASE Crash
  <2>1. \A s \in Sidebars : Len(chan'[s]) <= Buffer /\ Len(outgoing'[s]) <= 1
    BY <1>6 DEF Crash, Vanish
  <2>2. wire' \in [Sidebars -> Seq(WireLine)]
    <3>1. PICK cut \in SUBSET Sidebars :
            wire' = [s \in Sidebars |->
                       IF s \in cut THEN Append(wire[s], Partial) ELSE wire[s]]
      BY <1>6 DEF Crash
    <3>2. \A s \in Sidebars : Append(wire[s], Partial) \in Seq(WireLine)
      BY LineTypes
    <3> QED
      BY <3>1, <3>2
  <2>3. past' \in Seq(Cards0) /\ past' # <<>>
    BY <1>6, LongerHistory DEF Crash, Vanish
  <2> QED
    BY <1>6, <2>1, <2>2, <2>3 DEF Crash, Vanish, stream, screen
<1>7. ASSUME NEW s \in Sidebars, Accept(s) \/ EndLoop(s)
      PROVE  TypeInv'
  BY <1>7 DEF Accept, EndLoop, daemon, stream, screen
<1>8. ASSUME NEW s \in Sidebars, Subscribe(s)
      PROVE  TypeInv'
  <2>1. <<Hello>> \in Seq(StoreLine) /\ Len(<<Hello>>) = 1
    BY SMTT(30), HelloType, LineTypes
  <2> QED
    BY SMTT(30), <1>8, <2>1 DEF Subscribe, stream, screen
<1>9. ASSUME NEW s \in Sidebars, Receive(s)
      PROVE  TypeInv'
  <2>1. <<Head(chan[s])>> \in Seq(StoreLine) /\ Len(<<Head(chan[s])>>) = 1
    BY <1>9, LineTypes DEF Receive
  <2>2. Tail(chan[s]) \in Seq(DeltaLine) /\ Len(Tail(chan[s])) <= Buffer
    BY <1>9 DEF Receive
  <2>3. chan' \in [Sidebars -> Seq(DeltaLine)] /\ outgoing' \in [Sidebars -> Seq(StoreLine)]
    BY <1>9, <2>1, <2>2 DEF Receive
  <2>4. ASSUME NEW r \in Sidebars
        PROVE  Len(chan'[r]) <= Buffer /\ Len(outgoing'[r]) <= 1
    BY <1>9, <2>1, <2>2 DEF Receive
  <2> QED
    BY <1>9, <2>3, <2>4 DEF Receive, daemon, stream, screen
<1>10. ASSUME NEW s \in Sidebars, WriteLine(s) \/ WriteFails(s)
       PROVE  TypeInv'
  <2>1. outgoing[s] # <<>>
    BY <1>10 DEF WriteLine, WriteFails
  <2>2. Append(wire[s], Head(outgoing[s])) \in Seq(WireLine)
    BY <2>1, LineTypes
  <2>3. Append(wire[s], Partial) \in Seq(WireLine)
    BY LineTypes
  <2>4. <<>> \in Seq(StoreLine) /\ Len(<<>>) <= 1
    OBVIOUS
  <2>5. CASE WriteLine(s)
    BY <2>2, <2>4, <2>5 DEF WriteLine, daemon, stream, screen
  <2>6. CASE WriteFails(s)
    <3>1. wire' \in [Sidebars -> Seq(WireLine)]
      BY <2>3, <2>6 DEF WriteFails
    <3>2. outgoing' \in [Sidebars -> Seq(StoreLine)] /\ \A r \in Sidebars : Len(outgoing'[r]) <= 1
      BY <2>4, <2>6 DEF WriteFails
    <3> QED
      BY <2>6, <3>1, <3>2 DEF WriteFails, daemon, stream, screen
  <2> QED
    BY <1>10, <2>5, <2>6
<1>11. ASSUME NEW s \in Sidebars, Unsubscribe(s)
       PROVE  TypeInv'
  BY <1>11 DEF Unsubscribe, stream, screen
<1>12. ASSUME NEW s \in Sidebars, ReadLine(s)
       PROVE  TypeInv'
  <2>1. Head(wire[s]) \in StreamEvent /\ Tail(wire[s]) \in Seq(WireLine)
    BY <1>12, LineTypes DEF ReadLine
  <2>2. (IF gone[s] THEN <<Reconnected>> ELSE <<>>) \in Seq(StreamEvent)
    BY LineTypes
  <2>3. inbox[s] \o (IF gone[s] THEN <<Reconnected>> ELSE <<>>) \o <<Head(wire[s])>>
          \in Seq(StreamEvent)
    BY <2>1, <2>2
  <2> QED
    BY <1>12, <2>1, <2>3 DEF ReadLine, daemon, screen
<1>13. ASSUME NEW s \in Sidebars, ReadEnd(s)
       PROVE  TypeInv'
  <2>1. Append(inbox[s], Disconnected) \in Seq(StreamEvent)
    BY LineTypes
  <2> QED
    BY <1>13, <2>1 DEF ReadEnd, daemon, conn, screen
<1>14. ASSUME NEW s \in Sidebars, Resubscribe(s) \/ Launch(s)
       PROVE  TypeInv'
  <2>1. wire' = [wire EXCEPT ![s] = <<>>]
    BY <1>14 DEF Resubscribe, Launch
  <2>2. wire' \in [Sidebars -> Seq(WireLine)]
    BY <2>1
  <2>3. CASE Resubscribe(s)
    BY <2>2, <2>3 DEF Resubscribe, daemon, screen
  <2>4. CASE Launch(s)
    BY <2>2, <2>4 DEF Launch, daemon
  <2> QED
    BY <1>14, <2>3, <2>4
<1>15. ASSUME NEW s \in Sidebars, Apply(s)
       PROVE  TypeInv'
  <2> DEFINE e == Head(inbox[s])
  <2>1. e \in StreamEvent /\ Tail(inbox[s]) \in Seq(StreamEvent)
    BY <1>15 DEF Apply
  <2>2. inbox' \in [Sidebars -> Seq(StreamEvent)]
    BY <1>15, <2>1 DEF Apply
  <2>3. CASE ApplyHello(s, e)
    <3>1. e \in HelloLine
      BY SMTT(30), <2>1, <2>3 DEF ApplyHello, StreamEvent, WireLine, StoreLine, DeltaLine,
         Partial, Disconnected, Reconnected
    <3>2. e.panes \in Cards0 /\ e.seq \in Nat /\ e.stamp \in Nat
      BY <3>1 DEF HelloLine
    <3> QED
      BY <1>15, <2>2, <2>3, <3>2 DEF Apply, ApplyHello, daemon, conn
  <2>4. CASE ApplyDelta(s, e)
    <3>1. e \in DeltaLine
      BY <2>1, <2>4 DEF ApplyDelta, StreamEvent, WireLine, StoreLine, HelloLine,
         Partial, Disconnected, Reconnected
    <3>2. e.pane \in Panes /\ e.card \in Nat /\ e.seq \in Nat /\ e.stamp \in Nat
      BY <3>1 DEF DeltaLine
    <3>3. [view EXCEPT ![s][e.pane] = e.card] \in [Sidebars -> Cards0]
      BY <3>2 DEF Cards0
    <3> QED
      BY <1>15, <2>2, <2>4, <3>2, <3>3 DEF Apply, ApplyDelta, daemon, conn
  <2>5. CASE ApplyPartial(s, e) \/ ApplyLink(s, e)
    BY <1>15, <2>2, <2>5 DEF Apply, ApplyPartial, ApplyLink, daemon, conn
  <2> QED
    BY <1>15, <2>3, <2>4, <2>5 DEF Apply
<1>16. ASSUME NEW s \in Sidebars, GiveUp(s)
       PROVE  TypeInv'
  BY <1>16 DEF GiveUp, daemon, conn, stream
<1>17. ASSUME NEW s \in Sidebars, Close(s)
       PROVE  TypeInv'
  BY <1>17 DEF Close, daemon
<1> QED
  BY <1>1, <1>2, <1>3, <1>4, <1>5, <1>6, <1>7, <1>8, <1>9, <1>10, <1>11, <1>12, <1>13,
     <1>14, <1>15, <1>16, <1>17 DEF Next, ServerStep, StreamStep

\* The types hold initially.
LEMMA TypeInit == Init => TypeInv
  BY FeedAssumption, NoCardsType DEF Init, TypeInv

\* The types of the proof give those of the specification.
LEMMA TypeInvTypes == TypeInv => TypeOK
<1> SUFFICES ASSUME TypeInv PROVE TypeOK
  OBVIOUS
<1>1. \A e \in StreamEvent : e.kind \in Event
  BY DEF StreamEvent, WireLine, StoreLine, HelloLine, DeltaLine, Partial, Disconnected,
     Reconnected, Event
<1>2. ASSUME NEW s \in Sidebars
      PROVE  \A q \in {chan[s], outgoing[s], wire[s], inbox[s]} :
               \A i \in DOMAIN q : q[i].kind \in Event
  <2> TAKE q \in {chan[s], outgoing[s], wire[s], inbox[s]}
  <2> TAKE i \in DOMAIN q
  <2>1. q[i] \in DeltaLine \/ q[i] \in StoreLine \/ q[i] \in WireLine \/ q[i] \in StreamEvent
    BY DEF TypeInv
  <2> QED
    BY <1>1, <2>1, LineTypes
<1> QED
  BY <1>2 DEF TypeInv, TypeOK, Cards0

\* Every variable always has its type, whatever the panes, sidebars and bounds;
\* no channel outgrows SUBSCRIBER_BUFFER (store.rs, state_server.rs).
THEOREM TypeCorrect == Spec => []TypeOK
  BY TypeInit, TypeStep, TypeInvTypes, PTL DEF Spec

-----------------------------------------------------------------------------
(* The stages of a connection.                                             *)

\* No connection exists initially.
LEMMA StagesInit == Init => Stages
  BY DEF Init, Stages, Now

\* Every step takes a connection from one stage to the next.
LEMMA StagesStep ==
    ASSUME TypeInv, Stages, [Next]_vars
    PROVE  Stages'
<1> USE DEF TypeInv, Stages
<1>1. CASE UNCHANGED vars
  BY <1>1 DEF vars, daemon, conn, stream, screen, Now
<1>2. ASSUME NEW p \in Panes, SetAgent(p) \/ ReplaceSession(p) \/ Record(p) \/ Remove(p)
      PROVE  Stages'
  <2>1. PICK card \in Nat : Commit(p, card)
    <3>1. Now + 1 \in Nat /\ 0 \in Nat
      BY DEF Now
    <3>2. Commit(p, Now + 1) \/ Commit(p, 0)
      BY <1>2 DEF SetAgent, ReplaceSession, Record, Remove
    <3> QED
      BY <3>1, <3>2
  <2>2. panes' = past'[Now']
    BY <2>1 DEF Commit, Now, Cards0
  <2>3. subs' \subseteq subs /\ up' # "down"
    BY <2>1 DEF Commit, Broadcast
  <2> QED
    BY <2>1, <2>2, <2>3 DEF Commit, stream, screen
<1>3. CASE Start
  BY <1>3 DEF Start, conn, stream, screen, Now
<1>4. CASE Stop
  BY <1>4 DEF Stop, conn, stream, screen, Now
<1>5. CASE Exit \/ Crash
  <2>1. Vanish /\ NoCards \in Cards0
    BY <1>5, NoCardsType DEF Exit, Crash
  <2>2. panes' = past'[Now']
    BY <2>1 DEF Vanish, Now
  <2>3. \A s \in Sidebars : link[s] # "attached" => wire'[s] = wire[s]
    BY <1>5 DEF Exit, Crash
  <2> QED
    BY <2>1, <2>2, <2>3 DEF Vanish, stream, screen
<1>6. ASSUME NEW s \in Sidebars, Accept(s) \/ EndLoop(s)
      PROVE  Stages'
  BY SMTT(30), <1>6 DEF Accept, EndLoop, daemon, stream, screen, Now
<1>7. ASSUME NEW s \in Sidebars, Subscribe(s)
      PROVE  Stages'
  BY <1>7 DEF Subscribe, stream, screen, Now
<1>8. ASSUME NEW s \in Sidebars, Receive(s)
      PROVE  Stages'
  BY <1>8 DEF Receive, daemon, stream, screen, Now
<1>9. ASSUME NEW s \in Sidebars, WriteLine(s) \/ WriteFails(s)
      PROVE  Stages'
  <2>1. CASE WriteLine(s)
    BY <1>9, <2>1 DEF WriteLine, daemon, stream, screen, Now
  <2>2. CASE WriteFails(s)
    <3>1. \A r \in Sidebars : r # s => wire'[r] = wire[r] /\ outgoing'[r] = outgoing[r]
      BY <2>2 DEF WriteFails
    <3>2. link[s] # "attached" => wire'[s] = wire[s]
      BY <2>2 DEF WriteFails
    <3>3. outgoing'[s] = <<>> /\ worker[s] = "serving" /\ worker' = [worker EXCEPT ![s] = "leaving"]
      BY <2>2 DEF WriteFails
    <3> QED
      BY SMTT(30), <2>2, <3>1, <3>2, <3>3 DEF WriteFails, daemon, stream, screen, Now
  <2> QED
    BY <1>9, <2>1, <2>2
<1>10. ASSUME NEW s \in Sidebars, Unsubscribe(s)
       PROVE  Stages'
  BY <1>10 DEF Unsubscribe, stream, screen, Now
<1>11. ASSUME NEW s \in Sidebars, ReadLine(s)
       PROVE  Stages'
  BY <1>11 DEF ReadLine, daemon, screen, Now
<1>12. ASSUME NEW s \in Sidebars, ReadEnd(s)
       PROVE  Stages'
  BY <1>12 DEF ReadEnd, daemon, conn, screen, Now
<1>13. ASSUME NEW s \in Sidebars, Resubscribe(s) \/ Launch(s)
       PROVE  Stages'
  <2>1. CASE Resubscribe(s)
    BY <2>1 DEF Resubscribe, daemon, screen, Now
  <2>2. CASE Launch(s)
    BY <2>2 DEF Launch, daemon, Now
  <2> QED
    BY <1>13, <2>1, <2>2
<1>14. ASSUME NEW s \in Sidebars, Apply(s)
       PROVE  Stages'
  <2>1. \A r \in Sidebars : r # s => inbox'[r] = inbox[r] /\ ui'[r] = ui[r] /\ view'[r] = view[r]
                                 /\ lastSeq'[r] = lastSeq[r] /\ shown'[r] = shown[r]
    BY <1>14 DEF Apply, ApplyHello, ApplyDelta, ApplyPartial, ApplyLink
  <2>2. ui'[s] # "off" /\ ui[s] = "running"
    BY <1>14 DEF Apply, ApplyHello, ApplyDelta, ApplyPartial, ApplyLink
  <2> QED
    BY SMTT(30), <1>14, <2>1, <2>2 DEF Apply, daemon, conn, Now
<1>15. ASSUME NEW s \in Sidebars, GiveUp(s)
       PROVE  Stages'
  BY <1>15 DEF GiveUp, daemon, conn, stream, Now
<1>16. ASSUME NEW s \in Sidebars, Close(s)
       PROVE  Stages'
  BY <1>16 DEF Close, daemon, Now
<1> QED
  BY <1>1, <1>2, <1>3, <1>4, <1>5, <1>6, <1>7, <1>8, <1>9, <1>10, <1>11, <1>12, <1>13,
     <1>14, <1>15, <1>16 DEF Next, ServerStep, StreamStep

-----------------------------------------------------------------------------
(* What is on its way to a sidebar stays whole.                            *)

\* The pieces of a feed are sequences.
LEMMA FeedTypes ==
    ASSUME TypeInv, NEW s \in Sidebars
    PROVE  /\ Screen(s) \in HelloLine /\ Screen(s) \in StreamEvent
           /\ inbox[s] \in Seq(StreamEvent) /\ wire[s] \in Seq(StreamEvent)
           /\ Read(s) \in Seq(StreamEvent) /\ Read(s) # <<>>
           /\ Sent(s) \in Seq(StreamEvent) /\ Ahead(s) \in Seq(StreamEvent)
           /\ Feed(s) \in Seq(StreamEvent) /\ Feed(s) # <<>>
<1>1. Screen(s) \in HelloLine
  BY DEF TypeInv, Screen, HelloLine
<1>2. Screen(s) \in StreamEvent
  BY <1>1, LineTypes
<1>3. inbox[s] \in Seq(StreamEvent)
  BY DEF TypeInv
<1>4. /\ wire[s] \in Seq(StreamEvent)
      /\ outgoing[s] \in Seq(StreamEvent)
      /\ chan[s] \in Seq(StreamEvent)
  <2>1. wire[s] \in Seq(WireLine) /\ outgoing[s] \in Seq(StoreLine) /\ chan[s] \in Seq(DeltaLine)
    BY DEF TypeInv
  <2> QED
    BY <2>1, LineTypes
<1>5. Sent(s) \in Seq(StreamEvent)
  BY <1>4 DEF Sent
<1>6. Read(s) \in Seq(StreamEvent) /\ Read(s) # <<>>
  <2>1. <<Screen(s)>> \o inbox[s] \in Seq(StreamEvent) /\ Len(<<Screen(s)>> \o inbox[s]) > 0
    BY <1>2, <1>3
  <2> QED
    BY <2>1 DEF Read
<1>7. Ahead(s) \in Seq(StreamEvent)
  BY <1>4, <1>5 DEF Ahead
<1>8. Feed(s) \in Seq(StreamEvent) /\ Feed(s) # <<>>
  <2>1. Read(s) \o Ahead(s) \in Seq(StreamEvent) /\ Len(Read(s) \o Ahead(s)) > 0
    <3>1. Len(Read(s)) > 0
      BY <1>6
    <3> QED
      BY <1>6, <1>7, <3>1
  <2> QED
    BY <2>1 DEF Feed
<1> QED
  BY <1>1, <1>2, <1>3, <1>4, <1>5, <1>6, <1>7, <1>8

\* Sequences can be put together in any grouping.
LEMMA ConcatAssociates ==
    ASSUME NEW a \in Seq(StreamEvent), NEW b \in Seq(StreamEvent), NEW c \in Seq(StreamEvent)
    PROVE  (a \o b) \o c = a \o (b \o c)
  OBVIOUS

\* To append to the last piece is to append to the whole.
LEMMA ConcatAppend ==
    ASSUME NEW a \in Seq(StreamEvent), NEW b \in Seq(StreamEvent), NEW e \in StreamEvent
    PROVE  a \o Append(b, e) = Append(a \o b, e)
  OBVIOUS

\* What an appended sequence holds.
LEMMA AppendedSequence ==
    ASSUME NEW a \in Seq(StreamEvent), NEW e \in StreamEvent
    PROVE  /\ Append(a, e) \in Seq(StreamEvent) /\ Append(a, e) # <<>>
           /\ Append(a, e)[1] = IF a = <<>> THEN e ELSE a[1]
           /\ Append(a, e) = a \o <<e>>
<1>1. Append(a, e) \in Seq(StreamEvent) /\ Len(Append(a, e)) = Len(a) + 1
  OBVIOUS
<1>2. Len(a) + 1 # Len(<<>>)
  OBVIOUS
<1>3. Append(a, e) = a \o <<e>>
  OBVIOUS
<1>4. Append(a, e)[1] = IF a = <<>> THEN e ELSE a[1]
  OBVIOUS
<1> QED
  BY <1>1, <1>2, <1>3, <1>4

\* A sequence is its head and its tail.
LEMMA HeadAndTail ==
    ASSUME NEW a \in Seq(StreamEvent), a # <<>>
    PROVE  /\ Head(a) \in StreamEvent /\ Tail(a) \in Seq(StreamEvent)
           /\ a = <<Head(a)>> \o Tail(a) /\ Head(a) = a[1]
  OBVIOUS

\* A step that leaves both parts of a feed as they are.
LEMMA FeedSame ==
    ASSUME NEW s \in Sidebars, FeedWhole(s), FeedCurrent(s), FeedFresh(s),
           Read(s)' = Read(s), Ahead(s)' = Ahead(s),
           past' = past, seq' = seq, s \in subs' => s \in subs,
           worker'[s] = worker[s], link'[s] = link[s], gone'[s] = gone[s]
    PROVE  FeedWhole(s)' /\ FeedCurrent(s)' /\ FeedFresh(s)'
  BY DEF FeedWhole, FeedCurrent, FeedFresh, Feed, Now, EndsAt, Opens

\* A step that is about other sidebars only.
LEMMA FeedFrame ==
    ASSUME NEW s \in Sidebars, FeedWhole(s), FeedCurrent(s), FeedFresh(s),
           chan'[s] = chan[s], outgoing'[s] = outgoing[s], wire'[s] = wire[s],
           inbox'[s] = inbox[s], view'[s] = view[s], lastSeq'[s] = lastSeq[s],
           shown'[s] = shown[s],
           past' = past, seq' = seq, s \in subs' => s \in subs,
           worker'[s] = worker[s], link'[s] = link[s], gone'[s] = gone[s]
    PROVE  FeedWhole(s)' /\ FeedCurrent(s)' /\ FeedFresh(s)'
<1>1. Read(s)' = Read(s) /\ Ahead(s)' = Ahead(s)
  BY DEF Read, Screen, Ahead, Sent
<1> QED
  BY <1>1, FeedSame

\* A step after which the server sends nothing more on the connection: what
\* it had not written is lost, and the line being written may arrive in part.
LEMMA FeedCut ==
    ASSUME TypeInv, NEW s \in Sidebars, FeedWhole(s), FeedFresh(s),
           past' = past \/ \E c \in Cards0 : past' = Append(past, c),
           Read(s)' = Read(s), Sent(s)' = <<>>,
           wire'[s] = wire[s] \/ wire'[s] = Append(wire[s], Partial),
           worker'[s] # "serving", link'[s] = link[s], gone'[s] = gone[s]
    PROVE  FeedWhole(s)' /\ FeedCurrent(s)' /\ FeedFresh(s)'
<1> DEFINE q == Read(s) \o wire[s]
<1>1. q \in Seq(StreamEvent) /\ q # <<>>
  <2>1. Len(Read(s)) > 0 /\ q \in Seq(StreamEvent)
    BY FeedTypes
  <2>2. Len(q) > 0
    BY <2>1, FeedTypes
  <2> QED
    BY <2>1, <2>2
<1>t. /\ Read(s) \in Seq(StreamEvent) /\ wire[s] \in Seq(StreamEvent)
      /\ Sent(s) \in Seq(StreamEvent) /\ Partial \in StreamEvent
  BY FeedTypes, LineTypes
<1>2. Feed(s) = q \o Sent(s)
  <2>1. (Read(s) \o wire[s]) \o Sent(s) = Read(s) \o (wire[s] \o Sent(s))
    BY <1>t, ConcatAssociates
  <2> QED
    BY <2>1 DEF Feed, Ahead
<1>3. Whole(past, q)
  BY <1>1, <1>2, FeedTypes, WholePrefix DEF FeedWhole
<1>4. Whole(past', q)
  BY <1>1, <1>3, WholeGrows DEF TypeInv
<1>5. Ahead(s)' = wire'[s]
  <2>1. wire'[s] \in Seq(StreamEvent)
    <3>1. Append(wire[s], Partial) \in Seq(StreamEvent)
      BY <1>t, AppendedSequence
    <3> QED
      BY <1>t, <3>1
  <2> QED
    BY <2>1 DEF Ahead
<1>6. CASE wire'[s] = wire[s]
  <2>1. Feed(s)' = q
    BY <1>5, <1>6 DEF Feed
  <2>2. Opens(Ahead(s)) => Opens(wire[s]) \/ wire[s] = <<>>
    BY FeedTypes DEF Opens, Ahead
  <2>3. Ahead(s) = <<>> => wire[s] = <<>>
    BY FeedTypes DEF Ahead
  <2> QED
    BY <1>4, <1>5, <1>6, <2>1, <2>2, <2>3 DEF FeedWhole, FeedCurrent, FeedFresh, Opens
<1>7. CASE wire'[s] = Append(wire[s], Partial)
  <2>1. Feed(s)' = Append(q, Partial)
    BY SMTT(30), <1>5, <1>7, FeedTypes, LineTypes DEF Feed
  <2>2. past' \in Seq(Cards0)
    BY LongerHistory DEF TypeInv
  <2>3. Genuine(past', Partial) /\ Continues(q[Len(q)], Partial) /\ Partial.kind \notin Line
    BY DEF Genuine, Continues, Partial, Line
  <2>4. Whole(past', Append(q, Partial))
    BY <1>1, <1>4, <2>2, <2>3, LineTypes, WholeAppend
  <2>5. Opens(Ahead(s)) \/ Ahead(s) = <<>> => Opens(Append(wire[s], Partial))
    <3>1. Append(wire[s], Partial)[1] = (IF wire[s] = <<>> THEN Partial ELSE wire[s][1])
      BY FeedTypes, LineTypes, AppendedSequence
    <3>2. Append(wire[s], Partial) # <<>>
      BY FeedTypes, LineTypes, AppendedSequence
    <3>3. wire[s] # <<>> => Ahead(s)[1] = wire[s][1] /\ Ahead(s) # <<>>
      BY FeedTypes DEF Ahead
    <3> QED
      BY <3>1, <3>2, <3>3 DEF Opens, Partial
  <2> QED
    BY <1>5, <1>7, <2>1, <2>4, <2>5 DEF FeedWhole, FeedCurrent, FeedFresh, Opens
<1> QED
  BY <1>6, <1>7

\* broadcast puts the delta behind everything the subscriber has not seen, or
\* takes the subscription away.
LEMMA FeedCommit ==
    ASSUME TypeInv, Stages, NEW p \in Panes, NEW card \in Nat, Commit(p, card),
           NEW s \in Sidebars, FeedWhole(s), FeedCurrent(s), FeedFresh(s)
    PROVE  FeedWhole(s)' /\ FeedCurrent(s)' /\ FeedFresh(s)'
<1> DEFINE d == Delta(p, card)
           c == [panes EXCEPT ![p] = card]
<1>1. /\ past \in Seq(Cards0) /\ c \in Cards0 /\ past' = Append(past, c)
      /\ seq' = seq + 1 /\ Now' = Now + 1 /\ Now \in Nat \ {0} /\ seq \in Nat
  <2>1. past \in Seq(Cards0) /\ past # <<>> /\ c \in Cards0 /\ past' = Append(past, c)
    BY DEF TypeInv, Commit, Cards0
  <2> QED
    BY <2>1, LongerHistory DEF TypeInv, Commit, Now
<1>2. d \in StreamEvent /\ d.kind = "delta" /\ d.seq = seq + 1 /\ d.stamp = Now + 1
      /\ d.pane = p /\ d.card = card
  <2>1. d \in DeltaLine
    BY <1>1 DEF Delta, DeltaLine
  <2> QED
    BY <2>1, LineTypes DEF Delta
<1>3. /\ Read(s)' = Read(s) /\ worker'[s] = worker[s] /\ link'[s] = link[s]
      /\ gone'[s] = gone[s] /\ wire'[s] = wire[s] /\ outgoing'[s] = outgoing[s]
  BY DEF Commit, stream, screen, Read, Screen
<1>4. Whole(past', Feed(s))
  BY <1>1, FeedTypes, WholeGrows DEF FeedWhole
<1>5. CASE worker[s] = "serving" /\ s \in subs'
  <2>1. s \in subs /\ chan'[s] = Append(chan[s], d)
    BY <1>5 DEF Commit, Broadcast
  <2>2. chan[s] \in Seq(StreamEvent) /\ outgoing[s] \in Seq(StreamEvent)
    BY LineTypes DEF TypeInv
  <2>3. Sent(s)' = Append(Sent(s), d)
    <3>1. outgoing[s] \o Append(chan[s], d) = Append(outgoing[s] \o chan[s], d)
      BY <1>2, <2>2, ConcatAppend
    <3> QED
      BY <1>3, <1>5, <2>1, <3>1 DEF Sent
  <2>4. Ahead(s)' = Append(Ahead(s), d)
    <3>1. wire[s] \o Append(Sent(s), d) = Append(wire[s] \o Sent(s), d)
      BY <1>2, FeedTypes, ConcatAppend
    <3> QED
      BY <1>3, <2>3, <3>1 DEF Ahead
  <2>5. Feed(s)' = Append(Feed(s), d)
    BY <1>2, <1>3, <2>4, FeedTypes DEF Feed
  <2>6. EndsAt(Feed(s), Now, seq)
    BY <1>5, <2>1 DEF FeedCurrent
  <2>7. Continues(Feed(s)[Len(Feed(s))], d)
    BY <1>2, <2>6 DEF Continues, EndsAt
  <2>8. Genuine(past', d)
    <3>1. past'[Now + 1] = c /\ past'[Now] = past[Now] /\ Len(past') = Now + 1
      BY <1>1 DEF Now
    <3>2. At(past', Now) = panes
      BY <1>1, <3>1 DEF At, Stages
    <3>3. (Now + 1) - 1 = Now /\ Now + 1 > 0
      BY <1>1
    <3> QED
      BY <1>2, <3>1, <3>2, <3>3 DEF Genuine
  <2>9. ASSUME NEW i \in 1..Len(Feed(s)), Feed(s)[i].kind \in Line
        PROVE  Feed(s)[i].stamp <= d.stamp
    <3>1. Feed(s)[i].stamp <= Now
      BY <2>9 DEF FeedWhole, Whole, Genuine, Now
    <3>2. Feed(s)[i] \in StreamEvent
      BY FeedTypes
    <3>3. Feed(s)[i].stamp \in Nat
      BY <2>9, <3>2 DEF StreamEvent, WireLine, StoreLine, HelloLine, DeltaLine,
         Partial, Disconnected, Reconnected, Line
    <3> QED
      BY <1>1, <1>2, <3>1, <3>3
  <2>10. past' \in Seq(Cards0)
    BY <1>1, LongerHistory
  <2>11. Whole(past', Append(Feed(s), d))
    BY <1>2, <1>4, <2>7, <2>8, <2>9, <2>10, FeedTypes, WholeAppend
  <2>12. EndsAt(Append(Feed(s), d), Now + 1, seq + 1)
    <3>1. Append(Feed(s), d)[Len(Append(Feed(s), d))] = d
      BY <1>2, FeedTypes
    <3> QED
      BY <1>2, <3>1 DEF EndsAt, Line
  <2>13. Opens(Ahead(s)) => Opens(Append(Ahead(s), d))
    BY <1>2, FeedTypes, AppendedSequence DEF Opens
  <2> QED
    BY <1>1, <1>3, <1>5, <2>4, <2>5, <2>11, <2>12, <2>13
       DEF FeedWhole, FeedCurrent, FeedFresh
<1>6. CASE ~(worker[s] = "serving" /\ s \in subs')
  <2>1. Sent(s)' = Sent(s)
    <3>1. s \notin subs' => chan'[s] = chan[s]
      BY DEF Commit, Broadcast
    <3> QED
      BY <1>3, <1>6, <3>1 DEF Sent
  <2>2. Ahead(s)' = Ahead(s) /\ Feed(s)' = Feed(s)
    BY <1>3, <2>1 DEF Ahead, Feed
  <2> QED
    BY <1>3, <1>4, <1>6, <2>2 DEF FeedWhole, FeedCurrent, FeedFresh
<1> QED
  BY <1>5, <1>6

\* subscribe_full: the snapshot follows whatever the sidebar still has to read.
LEMMA FeedSubscribe ==
    ASSUME TypeInv, Stages, NEW s \in Sidebars, Subscribe(s),
           FeedWhole(s), FeedFresh(s)
    PROVE  FeedWhole(s)' /\ FeedCurrent(s)' /\ FeedFresh(s)'
<1>1. Hello \in StreamEvent /\ Hello.kind = "hello" /\ Hello.panes = past[Now]
      /\ Hello.stamp = Now /\ Hello.seq = seq
  BY HelloType, LineTypes DEF Hello, Stages
<1>2. Ahead(s) = <<>> /\ Feed(s) = Read(s)
  <2>1. wire[s] = <<>> /\ Sent(s) = <<>>
    BY DEF Subscribe, Stages, Sent
  <2>2. Ahead(s) = <<>>
    BY <2>1 DEF Ahead
  <2> QED
    BY <2>2, FeedTypes DEF Feed
<1>3. Ahead(s)' = <<Hello>>
  <2>1. wire'[s] = <<>> /\ outgoing'[s] = <<Hello>> /\ chan'[s] = <<>> /\ worker'[s] = "serving"
    BY DEF Subscribe, Stages, TypeInv
  <2> QED
    BY <1>1, <2>1 DEF Ahead, Sent
<1>4. Read(s)' = Read(s) /\ past' = past /\ seq' = seq /\ Now' = Now
  BY DEF Subscribe, stream, screen, Read, Screen, Now
<1>5. Feed(s)' = Append(Feed(s), Hello)
  BY <1>1, <1>2, <1>3, <1>4, FeedTypes, AppendedSequence DEF Feed
<1>6. Whole(past, Append(Feed(s), Hello))
  <2>1. Now \in Nat \ {0} /\ past \in Seq(Cards0)
    BY DEF TypeInv, Now
  <2>2. Genuine(past, Hello) /\ Continues(Feed(s)[Len(Feed(s))], Hello)
    BY <1>1, <2>1 DEF Genuine, Continues, At, Now
  <2>3. \A i \in 1..Len(Feed(s)) : Feed(s)[i].kind \in Line => Feed(s)[i].stamp <= Hello.stamp
    BY <1>1 DEF FeedWhole, Whole, Genuine, Now
  <2> QED
    BY <1>1, <2>1, <2>2, <2>3, FeedTypes, WholeAppend DEF FeedWhole
<1>7. EndsAt(Append(Feed(s), Hello), Now, seq)
  <2>1. Append(Feed(s), Hello)[Len(Append(Feed(s), Hello))] = Hello
    BY <1>1, FeedTypes
  <2> QED
    BY <1>1, <2>1 DEF EndsAt, Line
<1>8. Opens(<<Hello>>)
  BY <1>1 DEF Opens
<1> QED
  BY <1>3, <1>4, <1>5, <1>6, <1>7, <1>8 DEF FeedWhole, FeedCurrent, FeedFresh

\* recv and write_all hand a line on without changing the order.
LEMMA FeedHandOn ==
    ASSUME TypeInv, Stages, NEW s \in Sidebars, Receive(s) \/ WriteLine(s),
           FeedWhole(s), FeedCurrent(s), FeedFresh(s)
    PROVE  FeedWhole(s)' /\ FeedCurrent(s)' /\ FeedFresh(s)'
<1>1. /\ Read(s)' = Read(s) /\ past' = past /\ seq' = seq /\ subs' = subs
      /\ worker'[s] = worker[s] /\ link'[s] = link[s] /\ gone'[s] = gone[s]
  BY DEF Receive, WriteLine, daemon, stream, screen, Read, Screen
<1>2. /\ wire[s] \in Seq(StreamEvent) /\ outgoing[s] \in Seq(StreamEvent)
      /\ chan[s] \in Seq(StreamEvent) /\ worker[s] = "serving" /\ Len(outgoing[s]) <= 1
  <2>1. outgoing[s] \in Seq(StoreLine) /\ chan[s] \in Seq(DeltaLine) /\ Len(outgoing[s]) <= 1
    BY DEF TypeInv
  <2>2. outgoing[s] \in Seq(StreamEvent) /\ chan[s] \in Seq(StreamEvent)
    BY <2>1, LineTypes
  <2> QED
    BY <2>1, <2>2, FeedTypes DEF Receive, WriteLine
<1>3. CASE Receive(s)
  <2>1. /\ outgoing[s] = <<>> /\ chan[s] # <<>> /\ wire'[s] = wire[s]
        /\ outgoing'[s] = <<Head(chan[s])>> /\ chan'[s] = Tail(chan[s])
    BY <1>3 DEF Receive, TypeInv
  <2>2. Sent(s)' = Sent(s)
    BY <1>1, <1>2, <2>1, HeadAndTail DEF Sent
  <2> QED
    BY <1>1, <2>1, <2>2, FeedSame DEF Ahead
<1>4. CASE WriteLine(s)
  <2>1. /\ outgoing[s] # <<>> /\ wire'[s] = Append(wire[s], Head(outgoing[s]))
        /\ outgoing'[s] = <<>> /\ chan'[s] = chan[s]
    BY <1>4 DEF WriteLine, TypeInv
  <2>2. outgoing[s] = <<Head(outgoing[s])>> /\ Head(outgoing[s]) \in StreamEvent
    BY <1>2, <2>1
  <2>3. Ahead(s)' = Append(wire[s], Head(outgoing[s])) \o chan[s]
    BY <1>1, <1>2, <2>1 DEF Ahead, Sent
  <2>4. Ahead(s) = wire[s] \o (<<Head(outgoing[s])>> \o chan[s])
    BY <1>2, <2>2 DEF Ahead, Sent
  <2>5. Ahead(s)' = Ahead(s)
    <3> DEFINE e == Head(outgoing[s])
    <3>1. e \in StreamEvent /\ <<e>> \in Seq(StreamEvent)
      BY <2>2
    <3>2. Append(wire[s], e) = wire[s] \o <<e>>
      BY <1>2, <3>1, AppendedSequence
    <3> HIDE DEF e
    <3>3. (wire[s] \o <<e>>) \o chan[s] = wire[s] \o (<<e>> \o chan[s])
      BY <1>2, <3>1, ConcatAssociates
    <3> QED
      BY <2>3, <2>4, <3>2, <3>3 DEF e
  <2> QED
    BY <1>1, <2>5, FeedSame
<1> QED
  BY <1>3, <1>4

\* read_line moves one line over; the announcement goes in front of a line that
\* continues nothing.
LEMMA FeedReadLine ==
    ASSUME TypeInv, Stages, NEW s \in Sidebars, ReadLine(s),
           FeedWhole(s), FeedCurrent(s), FeedFresh(s)
    PROVE  FeedWhole(s)' /\ FeedCurrent(s)' /\ FeedFresh(s)'
<1> DEFINE h == Head(wire[s])
           w == Tail(wire[s])
           ns == IF gone[s] THEN <<Reconnected>> ELSE <<>>
<1>1. /\ past' = past /\ seq' = seq /\ subs' = subs /\ worker'[s] = worker[s]
      /\ Sent(s)' = Sent(s) /\ Screen(s)' = Screen(s) /\ Now' = Now
      /\ gone'[s] = FALSE /\ link'[s] = "attached" /\ link[s] = "attached"
      /\ wire'[s] = w /\ inbox'[s] = (inbox[s] \o ns) \o <<h>> /\ wire[s] # <<>>
  BY DEF ReadLine, TypeInv, daemon, screen, Sent, Screen, Now
<1>2. /\ h \in StreamEvent /\ w \in Seq(StreamEvent) /\ <<h>> \in Seq(StreamEvent)
      /\ wire[s] = <<h>> \o w /\ h = wire[s][1]
  BY <1>1, FeedTypes, HeadAndTail
<1>3. ns \in Seq(StreamEvent)
  BY LineTypes
<1>t. /\ Read(s) \in Seq(StreamEvent) /\ Sent(s) \in Seq(StreamEvent)
      /\ inbox[s] \in Seq(StreamEvent) /\ <<Screen(s)>> \in Seq(StreamEvent)
      /\ Ahead(s) \in Seq(StreamEvent) /\ Reconnected \in StreamEvent
      /\ inbox[s] \o ns \in Seq(StreamEvent) /\ Read(s) \o ns \in Seq(StreamEvent)
      /\ w \o Sent(s) \in Seq(StreamEvent)
  BY <1>2, <1>3, FeedTypes, LineTypes
<1> HIDE DEF h, w, ns
<1>4. Ahead(s) = <<h>> \o (w \o Sent(s)) /\ Ahead(s)' = w \o Sent(s)
  BY SMTT(30), <1>1, <1>2, <1>t, ConcatAssociates DEF Ahead
<1>5. Read(s)' = (Read(s) \o ns) \o <<h>>
  <2> DEFINE a == <<Screen(s)>>
             b == inbox[s]
             c == <<h>>
             d == inbox[s] \o ns
  <2>1. Read(s)' = a \o (d \o c) /\ Read(s) = a \o b /\ d = b \o ns
    BY <1>1 DEF Read
  <2>2. /\ a \in Seq(StreamEvent) /\ b \in Seq(StreamEvent)
        /\ c \in Seq(StreamEvent) /\ d \in Seq(StreamEvent)
    BY <1>2, <1>t
  <2> HIDE DEF a, b, c, d
  <2>3. a \o (d \o c) = (a \o d) \o c
    BY ZenonT(30), <2>2, ConcatAssociates
  <2>4. a \o (b \o ns) = (a \o b) \o ns
    BY ZenonT(30), <1>3, <2>2, ConcatAssociates
  <2> QED
    BY <2>1, <2>3, <2>4 DEF c
<1>6. Feed(s)' = (Read(s) \o ns) \o Ahead(s)
  <2> DEFINE c == <<h>>
             q == w \o Sent(s)
             r == Read(s) \o ns
  <2>1. c \in Seq(StreamEvent) /\ q \in Seq(StreamEvent) /\ r \in Seq(StreamEvent)
    BY <1>2, <1>t
  <2>2. Feed(s)' = (r \o c) \o q /\ Ahead(s) = c \o q
    BY <1>4, <1>5 DEF Feed
  <2> HIDE DEF c, q, r
  <2>3. (r \o c) \o q = r \o (c \o q)
    BY <2>1, ConcatAssociates
  <2> QED
    BY <2>2, <2>3 DEF r
<1>7. CASE ~gone[s]
  <2>1. Read(s) \o ns = Read(s)
    BY <1>7, <1>t DEF ns
  <2> QED
    BY <1>1, <1>6, <2>1 DEF FeedWhole, FeedCurrent, FeedFresh, Feed
<1>8. CASE gone[s]
  <2>1. Read(s) \o ns = Append(Read(s), Reconnected)
    BY <1>8, <1>t, AppendedSequence DEF ns
  <2>2. Ahead(s) # <<>> /\ Ahead(s)[1].kind # "delta"
    <3>1. Len(Ahead(s)) > 0
      BY <1>2, <1>4, <1>t
    <3>2. Ahead(s) # <<>>
      BY <3>1
    <3> QED
      BY <1>1, <1>8, <3>2 DEF FeedFresh, Opens
  <2>3. Whole(past, Append(Read(s), Reconnected) \o Ahead(s))
    BY <1>t, <2>2, WholeInsert DEF FeedWhole, Feed
  <2>4. EndsAt(Feed(s), Now, seq) => EndsAt(Append(Read(s), Reconnected) \o Ahead(s), Now, seq)
    <3> DEFINE n == Len(Read(s))
               m == Len(Ahead(s))
               f == Read(s) \o Ahead(s)
               g == Append(Read(s), Reconnected) \o Ahead(s)
    <3>1. n \in Nat /\ m \in Nat /\ m > 0
      BY <1>t, <2>2
    <3>2. Len(f) = n + m /\ f[n + m] = Ahead(s)[m]
      BY <1>t, <3>1
    <3>3. Len(g) = n + 1 + m /\ g[n + 1 + m] = Ahead(s)[m]
      <4>1. Append(Read(s), Reconnected) \in Seq(StreamEvent) /\ Len(Append(Read(s), Reconnected)) = n + 1
        BY <1>t
      <4> QED
        BY <1>t, <3>1, <4>1
    <3> QED
      BY <3>2, <3>3 DEF EndsAt, Feed
  <2> QED
    BY <1>1, <1>6, <2>1, <2>3, <2>4 DEF FeedWhole, FeedCurrent, FeedFresh
<1> QED
  BY <1>7, <1>8

\* At the end of the stream everything has been read.
LEMMA FeedReadEnd ==
    ASSUME TypeInv, Stages, NEW s \in Sidebars, ReadEnd(s),
           FeedWhole(s), FeedCurrent(s), FeedFresh(s)
    PROVE  FeedWhole(s)' /\ FeedCurrent(s)' /\ FeedFresh(s)'
<1>1. /\ past' = past /\ worker'[s] = "none" /\ link'[s] = "seeking" /\ Sent(s)' = <<>>
      /\ Screen(s)' = Screen(s) /\ wire'[s] = <<>> /\ wire[s] = <<>> /\ Sent(s) = <<>>
  BY DEF ReadEnd, TypeInv, daemon, conn, screen, Sent, Screen
<1>2. Feed(s) = Read(s) /\ Ahead(s)' = <<>>
  <2>1. Ahead(s) = <<>> /\ Ahead(s)' = <<>>
    BY <1>1 DEF Ahead
  <2> QED
    BY <2>1, FeedTypes DEF Feed
<1>3. inbox'[s] = inbox[s] \/ inbox'[s] = Append(inbox[s], Disconnected)
  BY DEF ReadEnd, TypeInv
<1>4. CASE inbox'[s] = inbox[s]
  <2>1. Feed(s)' = Read(s)
    BY <1>1, <1>2, <1>4, FeedTypes DEF Feed, Read
  <2> QED
    BY <1>1, <1>2, <2>1 DEF FeedWhole, FeedCurrent, FeedFresh
<1>5. CASE inbox'[s] = Append(inbox[s], Disconnected)
  <2>1. <<Screen(s)>> \o Append(inbox[s], Disconnected) = Append(Read(s), Disconnected)
    <3>1. <<Screen(s)>> \in Seq(StreamEvent) /\ inbox[s] \in Seq(StreamEvent)
      BY FeedTypes
    <3> QED
      BY <3>1, LineTypes, ConcatAppend DEF Read
  <2>2. Append(Read(s), Disconnected) \in Seq(StreamEvent)
    BY FeedTypes, LineTypes, AppendedSequence
  <2>3. Feed(s)' = Append(Read(s), Disconnected)
    BY <1>1, <1>2, <1>5, <2>1, <2>2 DEF Feed, Read
  <2>4. Genuine(past, Disconnected) /\ Continues(Read(s)[Len(Read(s))], Disconnected)
        /\ Disconnected.kind \notin Line
    BY DEF Genuine, Continues, Disconnected, Line
  <2>5. Whole(past, Append(Read(s), Disconnected))
    <3>1. past \in Seq(Cards0)
      BY DEF TypeInv
    <3> QED
      BY <1>2, <2>4, <3>1, FeedTypes, LineTypes, WholeAppend DEF FeedWhole
  <2> QED
    BY <1>1, <2>3, <2>5 DEF FeedWhole, FeedCurrent, FeedFresh
<1> QED
  BY <1>3, <1>4, <1>5

\* A new connection starts with nothing on it.
LEMMA FeedResubscribe ==
    ASSUME TypeInv, Stages, NEW s \in Sidebars, Resubscribe(s), FeedWhole(s)
    PROVE  FeedWhole(s)' /\ FeedCurrent(s)' /\ FeedFresh(s)'
<1>1. /\ Read(s)' = Read(s) /\ Ahead(s)' = <<>> /\ past' = past /\ worker'[s] = "queued"
      /\ wire[s] = <<>> /\ Sent(s) = <<>>
  BY DEF Resubscribe, Stages, TypeInv, daemon, screen, Read, Screen, Ahead, Sent
<1>2. Ahead(s) = <<>>
  BY <1>1 DEF Ahead
<1> QED
  BY <1>1, <1>2 DEF FeedWhole, FeedCurrent, FeedFresh, Feed

\* A sidebar that opens has an empty feed.
LEMMA FeedLaunch ==
    ASSUME TypeInv, Stages, NEW s \in Sidebars, Launch(s)
    PROVE  FeedWhole(s)' /\ FeedCurrent(s)' /\ FeedFresh(s)'
<1>1. /\ Ahead(s)' = <<>> /\ past' = past /\ worker'[s] = "queued" /\ inbox'[s] = <<>>
      /\ Screen(s)' = Screen(s)
  BY DEF Launch, Stages, TypeInv, daemon, Screen, Ahead, Sent
<1>2. Screen(s) = [kind |-> "hello", seq |-> 0, panes |-> NoCards, stamp |-> 0]
  BY DEF Launch, Stages, Screen
<1>3. Feed(s)' = <<Screen(s)>>
  BY <1>1 DEF Feed, Read
<1>4. Genuine(past, Screen(s))
  BY <1>2 DEF Genuine, At, TypeInv
<1>5. Whole(past, <<Screen(s)>>)
  BY <1>4 DEF Whole
<1> QED
  BY <1>1, <1>3, <1>5 DEF FeedWhole, FeedCurrent, FeedFresh

\* What Apply consumes stands right behind the screen.
LEMMA FeedFront ==
    ASSUME TypeInv, NEW s \in Sidebars, inbox[s] # <<>>
    PROVE  LET e == Head(inbox[s])
               q == Tail(inbox[s]) \o Ahead(s)
           IN  /\ e \in StreamEvent /\ q \in Seq(StreamEvent)
               /\ Feed(s) = <<Screen(s), e>> \o q
<1> DEFINE a == <<Screen(s)>>
           e == Head(inbox[s])
           c == <<e>>
           t == Tail(inbox[s])
           h == Ahead(s)
           b == inbox[s]
<1>1. /\ a \in Seq(StreamEvent) /\ c \in Seq(StreamEvent) /\ t \in Seq(StreamEvent)
      /\ h \in Seq(StreamEvent) /\ b \in Seq(StreamEvent) /\ b = c \o t /\ e \in StreamEvent
      /\ Feed(s) = (a \o b) \o h
  BY FeedTypes, HeadAndTail DEF Feed, Read
<1>2. t \o h \in Seq(StreamEvent) /\ a \o c \in Seq(StreamEvent)
  BY <1>1
<1>3. a \o c = <<Screen(s), e>>
  <2>1. ASSUME NEW x \in StreamEvent, NEW y \in StreamEvent
        PROVE  <<x>> \o <<y>> = <<x, y>>
    <3> DEFINE l == <<x>> \o <<y>>
               r == <<x, y>>
    <3>1. l \in Seq(StreamEvent) /\ Len(l) = 2 /\ l[1] = x /\ l[2] = y
      OBVIOUS
    <3>2. r \in Seq(StreamEvent) /\ Len(r) = 2 /\ r[1] = x /\ r[2] = y
      OBVIOUS
    <3> HIDE DEF l, r
    <3>3. \A i \in 1..Len(l) : l[i] = r[i]
      <4>1. \A i \in 1..2 : i = 1 \/ i = 2
        OBVIOUS
      <4> QED
        BY <3>1, <3>2, <4>1
    <3>4. l = r
      BY <3>1, <3>2, <3>3, SeqEqual
    <3> QED
      BY <3>4 DEF l, r
  <2>2. Screen(s) \in StreamEvent /\ e \in StreamEvent
    BY <1>1, FeedTypes
  <2> QED
    BY <2>1, <2>2
<1> HIDE DEF a, c, t, h, b
<1>4. (a \o c) \o t = a \o (c \o t)
  <2>1. a \in Seq(StreamEvent) /\ c \in Seq(StreamEvent) /\ t \in Seq(StreamEvent)
    BY <1>1
  <2> QED
    BY <2>1, ConcatAssociates
<1>5. ((a \o c) \o t) \o h = (a \o c) \o (t \o h)
  <2> DEFINE ac == a \o c
  <2>1. ac \in Seq(StreamEvent)
    BY <1>2
  <2> HIDE DEF ac
  <2>2. (ac \o t) \o h = ac \o (t \o h)
    BY <1>1, <2>1, ConcatAssociates
  <2> QED
    BY <2>2 DEF ac
<1> QED
  BY <1>1, <1>2, <1>3, <1>4, <1>5 DEF t, h

\* Folding the first two elements of a feed leaves its end.
LEMMA SameEnd ==
    ASSUME NEW a \in StreamEvent, NEW e \in StreamEvent, NEW b \in StreamEvent,
           NEW q \in Seq(StreamEvent), NEW m, NEW n, EndsAt(<<a, e>> \o q, m, n),
           q = <<>> => EndsAt(<<b>>, m, n) \/ e.kind \notin Line
    PROVE  EndsAt(<<b>> \o q, m, n)
<1>1. CASE q = <<>>
  <2>1. (<<a, e>> \o q)[Len(<<a, e>> \o q)] = e /\ <<b>> \o q = <<b>>
    BY <1>1
  <2> QED
    BY <1>1, <2>1 DEF EndsAt
<1>2. CASE q # <<>>
  <2>1. Len(q) \in Nat /\ Len(q) > 0
    BY <1>2
  <2>2. /\ (<<a, e>> \o q)[Len(<<a, e>> \o q)] = q[Len(q)]
        /\ (<<b>> \o q)[Len(<<b>> \o q)] = q[Len(q)]
    BY <2>1
  <2> QED
    BY <2>2 DEF EndsAt
<1> QED
  BY <1>1, <1>2

\* What the screen and the line behind it say of each other.
LEMMA FrontFits ==
    ASSUME NEW h, NEW a \in HelloLine, NEW e \in StreamEvent, NEW q \in Seq(StreamEvent),
           Whole(h, <<a, e>> \o q)
    PROVE  Continues(a, e) /\ (e.kind \in Line => a.stamp <= e.stamp)
<1> DEFINE w == <<a, e>> \o q
<1>1. a \in StreamEvent /\ a.kind \in Line
  BY LineTypes DEF HelloLine, Line
<1>2. Whole(h, w) /\ w[1] = a /\ w[2] = e /\ 1 \in 1..Len(w) /\ 2 \in 1..Len(w)
  BY <1>1
<1> HIDE DEF w
<1>3. /\ \A i \in 1..Len(w) : i > 1 => Continues(w[i - 1], w[i])
      /\ \A i, j \in 1..Len(w) :
           i < j /\ w[i].kind \in Line /\ w[j].kind \in Line => w[i].stamp <= w[j].stamp
  BY <1>2 DEF Whole
<1>4. 2 - 1 = 1 /\ 2 > 1 /\ 1 < 2
  OBVIOUS
<1> QED
  BY <1>1, <1>2, <1>3, <1>4

\* apply_line folds the first line into the screen.
LEMMA FeedApply ==
    ASSUME TypeInv, NEW s \in Sidebars, Apply(s),
           FeedWhole(s), FeedCurrent(s), FeedFresh(s)
    PROVE  FeedWhole(s)' /\ FeedCurrent(s)' /\ FeedFresh(s)' /\ shown[s] <= shown'[s]
<1> DEFINE e == Head(inbox[s])
           q == Tail(inbox[s]) \o Ahead(s)
<1>1. /\ Ahead(s)' = Ahead(s) /\ past' = past /\ seq' = seq /\ subs' = subs /\ Now' = Now
      /\ worker'[s] = worker[s] /\ link'[s] = link[s] /\ gone'[s] = gone[s]
      /\ inbox'[s] = Tail(inbox[s]) /\ inbox[s] # <<>>
  BY DEF Apply, TypeInv, daemon, conn, Ahead, Sent, Now
<1>2. /\ e \in StreamEvent /\ q \in Seq(StreamEvent) /\ Feed(s) = <<Screen(s), e>> \o q
      /\ Screen(s) \in HelloLine /\ Screen(s) \in StreamEvent
  BY <1>1, FeedFront, FeedTypes
<1>3. \A x : Screen(s)' = x /\ x \in StreamEvent => Feed(s)' = <<x>> \o q
  <2> SUFFICES ASSUME NEW x \in StreamEvent, Screen(s)' = x
               PROVE  Feed(s)' = <<x>> \o q
    OBVIOUS
  <2> DEFINE a == <<x>>
             t == Tail(inbox[s])
             h == Ahead(s)
  <2>1. Feed(s)' = (a \o t) \o h /\ q = t \o h
    BY <1>1 DEF Feed, Read
  <2>2. a \in Seq(StreamEvent) /\ t \in Seq(StreamEvent) /\ h \in Seq(StreamEvent)
    BY <1>1, FeedTypes, HeadAndTail
  <2> HIDE DEF a, t, h, q
  <2>3. (a \o t) \o h = a \o (t \o h)
    BY <2>2, ConcatAssociates
  <2> QED
    BY <2>1, <2>3 DEF a
<1>4. Whole(past, <<Screen(s), e>> \o q) /\ past \in Seq(Cards0)
  BY <1>2 DEF FeedWhole, TypeInv
<1>5. Continues(Screen(s), e) /\ (e.kind \in Line => Screen(s).stamp <= e.stamp)
  BY <1>2, <1>4, FrontFits
<1>6. s \in subs /\ worker[s] = "serving" => EndsAt(<<Screen(s), e>> \o q, Now, seq)
  BY <1>2 DEF FeedCurrent
<1>7. FeedFresh(s)'
  BY <1>1 DEF FeedFresh, Opens
<1>8. shown[s] \in Nat
  BY DEF TypeInv
<1> HIDE DEF q
<1>9. CASE ApplyHello(s, e)
  <2>1. e \in HelloLine
    BY <1>2, <1>9 DEF ApplyHello, StreamEvent, WireLine, StoreLine, DeltaLine,
       Partial, Disconnected, Reconnected
  <2>2. Screen(s)' = e /\ shown'[s] = e.stamp
    BY <1>9, <2>1 DEF ApplyHello, Screen, HelloLine, TypeInv
  <2>3. Feed(s)' = <<e>> \o q
    BY <1>2, <1>3, <2>2
  <2>4. Whole(past, <<e>> \o q)
    BY <1>2, <1>4, WholeSnapshot
  <2>5. \A m, n : EndsAt(<<Screen(s), e>> \o q, m, n) => EndsAt(<<e>> \o q, m, n)
    <3> TAKE m, n
    <3>1. q = <<>> => (<<Screen(s), e>> \o q)[Len(<<Screen(s), e>> \o q)] = e
      BY <1>2
    <3>2. EndsAt(<<Screen(s), e>> \o q, m, n) /\ q = <<>> => EndsAt(<<e>>, m, n)
      BY <3>1 DEF EndsAt
    <3> QED
      BY <1>2, <3>2, SameEnd
  <2>6. shown[s] <= shown'[s]
    BY <1>5, <1>9, <2>2 DEF Screen, ApplyHello, Line
  <2> QED
    BY <1>1, <1>6, <1>7, <2>3, <2>4, <2>5, <2>6 DEF FeedWhole, FeedCurrent
<1>10. CASE ApplyDelta(s, e)
  <2> DEFINE b == [kind |-> "hello", seq |-> e.seq,
                   panes |-> [Screen(s).panes EXCEPT ![e.pane] = e.card], stamp |-> e.stamp]
  <2>1. e \in DeltaLine /\ e.kind = "delta"
    BY <1>2, <1>10 DEF ApplyDelta, StreamEvent, WireLine, StoreLine, HelloLine,
       Partial, Disconnected, Reconnected
  <2>2. e.seq = lastSeq[s] + 1 /\ e.stamp = shown[s] + 1 /\ lastSeq[s] \in Nat
    BY <1>5, <2>1 DEF Continues, Screen, TypeInv
  <2>3. ~(e.seq <= lastSeq[s])
    BY <2>2
  <2>4. /\ view' = [view EXCEPT ![s][e.pane] = e.card]
        /\ lastSeq' = [lastSeq EXCEPT ![s] = e.seq] /\ shown' = [shown EXCEPT ![s] = e.stamp]
    BY <1>10, <2>3 DEF ApplyDelta
  <2>5. Screen(s)' = b /\ b \in HelloLine
    BY <2>1, <2>4 DEF Screen, TypeInv, HelloLine, DeltaLine, Cards0
  <2>6. b \in StreamEvent
    BY <2>5, LineTypes
  <2>7. Feed(s)' = <<b>> \o q
    BY <1>3, <2>5, <2>6
  <2>8. Whole(past, <<b>> \o q)
    BY <1>2, <1>4, <2>1, WholeFold
  <2>9. \A m, n : EndsAt(<<Screen(s), e>> \o q, m, n) => EndsAt(<<b>> \o q, m, n)
    <3> TAKE m, n
    <3>1. q = <<>> => (<<Screen(s), e>> \o q)[Len(<<Screen(s), e>> \o q)] = e
      BY <1>2
    <3>2. EndsAt(<<Screen(s), e>> \o q, m, n) /\ q = <<>> => EndsAt(<<b>>, m, n)
      BY <3>1 DEF EndsAt, Line
    <3> HIDE DEF b
    <3> QED
      BY <1>2, <2>6, <3>2, SameEnd
  <2>10. shown[s] <= shown'[s]
    BY <1>8, <2>2, <2>4 DEF TypeInv
  <2> QED
    BY <1>1, <1>6, <1>7, <2>7, <2>8, <2>9, <2>10 DEF FeedWhole, FeedCurrent
<1>11. CASE ApplyLink(s, e) \/ ApplyPartial(s, e)
  <2>1. Screen(s)' = Screen(s) /\ shown' = shown /\ e \in {Partial, Disconnected, Reconnected}
    BY <1>11 DEF ApplyLink, ApplyPartial, Screen
  <2>2. Feed(s)' = <<Screen(s)>> \o q
    BY <1>2, <1>3, <2>1
  <2>3. Whole(past, <<Screen(s)>> \o q)
    BY <1>2, <1>4, <2>1, WholeSkip
  <2>4. e.kind \notin Line
    BY <2>1 DEF Partial, Disconnected, Reconnected, Line
  <2>5. \A m, n : EndsAt(<<Screen(s), e>> \o q, m, n) => EndsAt(<<Screen(s)>> \o q, m, n)
    BY <1>2, <2>4, SameEnd
  <2>6. FeedWhole(s)' /\ FeedCurrent(s)'
    BY <1>1, <1>6, <2>2, <2>3, <2>5 DEF FeedWhole, FeedCurrent
  <2>7. shown[s] <= shown'[s]
    BY <1>8, <2>1
  <2> QED
    BY <1>7, <2>6, <2>7
<1> QED
  BY <1>9, <1>10, <1>11 DEF Apply

\* No sidebar is open initially.
LEMMA FeedInit == Init => FeedInv
  BY DEF Init, FeedInv

\* Everything but an action of the sidebar itself, or a change of the store,
\* leaves a sidebar's feed alone.
LEMMA FeedOthers ==
    ASSUME TypeInv, NEW r \in Sidebars, NEW s \in Sidebars, r # s,
           FeedWhole(s), FeedCurrent(s), FeedFresh(s),
           ServerStep(r) \/ StreamStep(r) \/ Launch(r) \/ Apply(r) \/ GiveUp(r) \/ Close(r)
    PROVE  /\ FeedWhole(s)' /\ FeedCurrent(s)' /\ FeedFresh(s)'
           /\ ui'[s] = ui[s] /\ shown'[s] = shown[s]
<1>1. /\ past' = past /\ seq' = seq /\ (s \in subs' => s \in subs)
      /\ chan'[s] = chan[s] /\ outgoing'[s] = outgoing[s] /\ worker'[s] = worker[s]
  <2>1. CASE ServerStep(r)
    BY <2>1 DEF ServerStep, Accept, Subscribe, Receive, WriteLine, WriteFails, EndLoop,
       Unsubscribe, daemon, TypeInv
  <2>2. CASE StreamStep(r) \/ Launch(r) \/ Apply(r) \/ GiveUp(r) \/ Close(r)
    BY <2>2 DEF StreamStep, ReadLine, ReadEnd, Resubscribe, Launch, Apply, GiveUp, Close,
       daemon, conn, TypeInv
  <2> QED
    BY <2>1, <2>2
<1>2. /\ wire'[s] = wire[s] /\ inbox'[s] = inbox[s]
      /\ link'[s] = link[s] /\ gone'[s] = gone[s]
  <2>1. CASE ServerStep(r)
    BY <2>1 DEF ServerStep, Accept, Subscribe, Receive, WriteLine, WriteFails, EndLoop,
       Unsubscribe, stream, TypeInv
  <2>2. CASE StreamStep(r)
    BY <2>2 DEF StreamStep, ReadLine, ReadEnd, Resubscribe, conn, TypeInv
  <2>3. CASE Launch(r) \/ Apply(r) \/ GiveUp(r) \/ Close(r)
    BY <2>3 DEF Launch, Apply, GiveUp, Close, conn, stream, TypeInv
  <2> QED
    BY <2>1, <2>2, <2>3
<1>3. ui'[s] = ui[s] /\ view'[s] = view[s] /\ lastSeq'[s] = lastSeq[s] /\ shown'[s] = shown[s]
  <2>1. CASE ServerStep(r)
    BY <2>1 DEF ServerStep, Accept, Subscribe, Receive, WriteLine, WriteFails, EndLoop,
       Unsubscribe, screen
  <2>2. CASE StreamStep(r)
    BY <2>2 DEF StreamStep, ReadLine, ReadEnd, Resubscribe, screen
  <2>3. CASE Apply(r)
    BY <2>3 DEF Apply, ApplyHello, ApplyDelta, ApplyPartial, ApplyLink, TypeInv
  <2>4. CASE Launch(r) \/ GiveUp(r) \/ Close(r)
    BY <2>4 DEF Launch, GiveUp, Close, TypeInv
  <2> QED
    BY <2>1, <2>2, <2>3, <2>4
<1> QED
  BY <1>1, <1>2, <1>3, FeedFrame

\* Every step leaves every feed whole, current and fresh.
LEMMA FeedStep ==
    ASSUME TypeInv, Stages, FeedInv, [Next]_vars,
           NEW s \in Sidebars, ui'[s] # "off"
    PROVE  /\ FeedWhole(s)' /\ FeedCurrent(s)' /\ FeedFresh(s)'
           /\ ui[s] # "off" => shown[s] <= shown'[s]
<1>1. CASE ui[s] # "off"
  <2>1. FeedWhole(s) /\ FeedCurrent(s) /\ FeedFresh(s) /\ shown[s] \in Nat
    BY <1>1 DEF FeedInv, TypeInv
  <2>2. CASE UNCHANGED vars
    BY <2>1, <2>2, FeedFrame DEF vars, daemon, conn, stream, screen
  <2>3. ASSUME NEW p \in Panes, SetAgent(p) \/ ReplaceSession(p) \/ Record(p) \/ Remove(p)
        PROVE  FeedWhole(s)' /\ FeedCurrent(s)' /\ FeedFresh(s)' /\ shown' = shown
    <3>1. PICK card \in Nat : Commit(p, card)
      <4>1. Now + 1 \in Nat /\ 0 \in Nat
        BY DEF TypeInv, Now
      <4> QED
        BY <2>3, <4>1 DEF SetAgent, ReplaceSession, Record, Remove
    <3> QED
      BY <2>1, <3>1, FeedCommit DEF Commit, screen
  <2>4. CASE Start
    <3>1. s \notin subs
      BY <2>4 DEF Start, Stages
    <3>2. /\ Feed(s)' = Feed(s) /\ Ahead(s)' = Ahead(s) /\ past' = past /\ subs' = subs
          /\ link' = link /\ gone' = gone /\ worker' = worker /\ shown' = shown
      BY <2>4 DEF Start, conn, stream, screen, Feed, Read, Ahead, Sent, Screen
    <3> QED
      BY <2>1, <3>1, <3>2 DEF FeedWhole, FeedCurrent, FeedFresh, Opens
  <2>5. CASE Stop
    BY <2>1, <2>5, FeedFrame DEF Stop, conn, stream, screen
  <2>6. CASE Exit \/ Crash
    <3>1. /\ Vanish /\ NoCards \in Cards0
          /\ wire'[s] = wire[s] \/ wire'[s] = Append(wire[s], Partial)
      BY <2>6, NoCardsType DEF Exit, Crash, TypeInv
    <3>2. /\ Read(s)' = Read(s) /\ Sent(s)' = <<>> /\ worker'[s] = "none"
          /\ link' = link /\ gone' = gone /\ past' = Append(past, NoCards) /\ shown' = shown
      BY <3>1 DEF Vanish, stream, screen, Read, Screen, Sent
    <3> QED
      BY <2>1, <3>1, <3>2, FeedCut
  <2>7. ASSUME NEW r \in Sidebars,
               ServerStep(r) \/ StreamStep(r) \/ Launch(r) \/ Apply(r) \/ GiveUp(r) \/ Close(r)
        PROVE  FeedWhole(s)' /\ FeedCurrent(s)' /\ FeedFresh(s)' /\ shown[s] <= shown'[s]
    <3>1. CASE r # s
      BY <1>1, <2>1, <2>7, <3>1, FeedOthers
    <3>2. CASE r = s
      <4>1. CASE Accept(s) \/ WriteFails(s) \/ EndLoop(s) \/ Unsubscribe(s)
        <5>1. /\ Read(s)' = Read(s) /\ link' = link /\ gone' = gone /\ past' = past
              /\ shown' = shown /\ worker'[s] # "serving"
              /\ wire'[s] = wire[s] \/ wire'[s] = Append(wire[s], Partial)
          BY <4>1 DEF Accept, WriteFails, EndLoop, Unsubscribe, daemon, stream, screen,
             Read, Screen, TypeInv
        <5>2. Sent(s)' = <<>>
          BY <5>1 DEF Sent
        <5> QED
          BY <2>1, <5>1, <5>2, FeedCut
      <4>2. CASE Subscribe(s)
        <5>1. shown' = shown
          BY <4>2 DEF Subscribe, screen
        <5> QED
          BY <2>1, <4>2, <5>1, FeedSubscribe
      <4>3. CASE Receive(s) \/ WriteLine(s)
        BY <2>1, <4>3, FeedHandOn DEF Receive, WriteLine, screen
      <4>4. CASE ReadLine(s)
        <5>1. shown' = shown
          BY <4>4 DEF ReadLine, screen
        <5> QED
          BY <2>1, <4>4, <5>1, FeedReadLine
      <4>5. CASE ReadEnd(s)
        <5>1. shown' = shown
          BY <4>5 DEF ReadEnd, screen
        <5> QED
          BY <2>1, <4>5, <5>1, FeedReadEnd
      <4>6. CASE Resubscribe(s)
        <5>1. shown' = shown
          BY <4>6 DEF Resubscribe, screen
        <5> QED
          BY <2>1, <4>6, <5>1, FeedResubscribe
      <4>7. CASE Apply(s)
        BY <2>1, <4>7, FeedApply
      <4>8. CASE GiveUp(s)
        BY <2>1, <4>8, FeedFrame DEF GiveUp, daemon, conn, stream
      <4>9. ~Launch(s) /\ ~Close(s)
        BY <1>1 DEF Launch, Close, TypeInv
      <4> QED
        BY <2>7, <3>2, <4>1, <4>2, <4>3, <4>4, <4>5, <4>6, <4>7, <4>8, <4>9
           DEF ServerStep, StreamStep
    <3> QED
      BY <3>1, <3>2
  <2>8. UNCHANGED vars \/ Start \/ Stop \/ Exit \/ Crash => shown' = shown
    BY DEF vars, screen, Start, Stop, Exit, Crash, Vanish
  <2> QED
    BY <2>1, <2>2, <2>3, <2>4, <2>5, <2>6, <2>7, <2>8 DEF Next
<1>2. CASE ui[s] = "off"
  <2>1. Launch(s)
    <3>1. ~UNCHANGED ui
      BY <1>2
    <3>2. PICK r \in Sidebars : Launch(r) \/ Apply(r) \/ GiveUp(r) \/ Close(r)
      BY <3>1 DEF Next, vars, screen, SetAgent, ReplaceSession, Record, Remove, Commit,
         Start, Stop, Exit, Crash, Vanish, ServerStep, Accept, Subscribe, Receive, WriteLine,
         WriteFails, EndLoop, Unsubscribe, StreamStep, ReadLine, ReadEnd, Resubscribe
    <3>3. r = s
      BY <1>2, <3>2 DEF Launch, Apply, ApplyHello, ApplyDelta, ApplyPartial, ApplyLink,
         GiveUp, Close, TypeInv
    <3> QED
      BY <1>2, <3>2, <3>3 DEF Apply, ApplyHello, ApplyDelta, ApplyPartial, ApplyLink,
         GiveUp, Close, TypeInv
  <2> QED
    BY <1>2, <2>1, FeedLaunch
<1> QED
  BY <1>1, <1>2

-----------------------------------------------------------------------------
(* A reconnection is announced together with the line that proved it.      *)

Announced(q) ==
    \A i \in DOMAIN q :
        q[i] = Reconnected => i < Len(q) /\ q[i + 1].kind \in {"hello", "partial"}

\* An event read behind an announced sequence leaves it announced.
LEMMA AnnouncedAppend ==
    ASSUME NEW q \in Seq(StreamEvent), NEW e \in StreamEvent, Announced(q), e # Reconnected
    PROVE  Announced(Append(q, e))
<1> DEFINE r == Append(q, e)
<1>1. /\ Len(q) \in Nat /\ Len(r) = Len(q) + 1 /\ r[Len(q) + 1] = e
      /\ DOMAIN r = 1..(Len(q) + 1) /\ DOMAIN q = 1..Len(q)
      /\ \A i \in 1..Len(q) : r[i] = q[i]
  OBVIOUS
<1> HIDE DEF r
<1>2. ASSUME NEW i \in DOMAIN r, r[i] = Reconnected
      PROVE  i < Len(r) /\ r[i + 1].kind \in {"hello", "partial"}
  <2>1. i \in 1..Len(q) /\ q[i] = Reconnected
    BY <1>1, <1>2
  <2>2. i < Len(q) /\ q[i + 1].kind \in {"hello", "partial"}
    BY <1>1, <2>1 DEF Announced
  <2> QED
    BY <1>1, <2>1, <2>2
<1> QED
  BY <1>2 DEF Announced, r

\* An announcement may enter with its proof.
LEMMA AnnouncedPair ==
    ASSUME NEW q \in Seq(StreamEvent), NEW e \in StreamEvent, Announced(q),
           e.kind \in {"hello", "partial"}
    PROVE  Announced(Append(Append(q, Reconnected), e))
<1> DEFINE r == Append(Append(q, Reconnected), e)
<1>1. Append(q, Reconnected) \in Seq(StreamEvent) /\ Len(q) \in Nat
      /\ Len(Append(q, Reconnected)) = Len(q) + 1
  BY LineTypes
<1>2. /\ Len(r) = Len(q) + 2 /\ r[Len(q) + 1] = Reconnected /\ r[Len(q) + 2] = e
      /\ DOMAIN r = 1..(Len(q) + 2) /\ DOMAIN q = 1..Len(q)
      /\ \A i \in 1..Len(q) : r[i] = q[i]
  BY <1>1, LineTypes
<1> HIDE DEF r
<1>3. e # Reconnected
  BY DEF Reconnected
<1>4. ASSUME NEW i \in DOMAIN r, r[i] = Reconnected
      PROVE  i < Len(r) /\ r[i + 1].kind \in {"hello", "partial"}
  <2>1. CASE i \in 1..Len(q)
    <3>1. i < Len(q) /\ q[i + 1].kind \in {"hello", "partial"}
      BY <1>2, <1>4, <2>1 DEF Announced
    <3> QED
      BY <1>1, <1>2, <2>1, <3>1
  <2>2. CASE i = Len(q) + 1
    BY <1>1, <1>2, <2>2
  <2> QED
    BY <1>1, <1>2, <1>3, <1>4, <2>1, <2>2
<1> QED
  BY <1>4 DEF Announced, r

\* Taking the first event away leaves the rest announced.
LEMMA AnnouncedTail ==
    ASSUME NEW q \in Seq(StreamEvent), q # <<>>, Announced(q)
    PROVE  Announced(Tail(q))
<1> DEFINE r == Tail(q)
<1>1. /\ Len(q) \in Nat \ {0} /\ Len(r) = Len(q) - 1
      /\ DOMAIN r = 1..(Len(q) - 1) /\ DOMAIN q = 1..Len(q)
      /\ \A i \in 1..(Len(q) - 1) : r[i] = q[i + 1]
  OBVIOUS
<1> HIDE DEF r
<1>2. ASSUME NEW i \in DOMAIN r, r[i] = Reconnected
      PROVE  i < Len(r) /\ r[i + 1].kind \in {"hello", "partial"}
  <2>1. i + 1 \in DOMAIN q /\ q[i + 1] = Reconnected
    BY <1>1, <1>2
  <2>2. i + 1 < Len(q) /\ q[(i + 1) + 1].kind \in {"hello", "partial"}
    BY <2>1 DEF Announced
  <2> QED
    BY <1>1, <1>2, <2>2
<1> QED
  BY <1>2 DEF Announced, r

\* Every step leaves each announcement in front of its proof.
LEMMA AnnouncedStep ==
    ASSUME TypeInv, Stages, FeedInv, ReconnectedWithProof, [Next]_vars
    PROVE  ReconnectedWithProof'
<1> SUFFICES ASSUME NEW s \in Sidebars PROVE Announced(inbox'[s])
  BY DEF ReconnectedWithProof, Announced
<1>1. Announced(inbox[s]) /\ inbox[s] \in Seq(StreamEvent)
  BY DEF ReconnectedWithProof, Announced, TypeInv
<1>2. CASE inbox'[s] = inbox[s]
  BY <1>1, <1>2
<1>3. CASE ReadLine(s)
  <2> DEFINE h == Head(wire[s])
  <2>1. /\ wire[s] # <<>> /\ link[s] = "attached" /\ h = wire[s][1] /\ h \in WireLine
        /\ inbox'[s] = (inbox[s] \o (IF gone[s] THEN <<Reconnected>> ELSE <<>>)) \o <<h>>
    BY SMTT(30), <1>3 DEF ReadLine, TypeInv
  <2>2. h \in StreamEvent /\ h # Reconnected
    BY <2>1, LineTypes DEF WireLine, StoreLine, HelloLine, DeltaLine, Partial, Reconnected
  <2>3. CASE gone[s]
    <3>1. Ahead(s)[1] = h /\ Ahead(s) # <<>>
      <4>1. Ahead(s)[1] = wire[s][1] /\ Len(Ahead(s)) > 0
        BY <2>1, FeedTypes DEF Ahead
      <4> QED
        BY <2>1, <4>1
    <3>2. ui[s] # "off"
      BY <2>1 DEF Stages
    <3>3. h.kind \in {"hello", "partial"}
      BY <2>1, <2>3, <3>1, <3>2 DEF FeedInv, FeedFresh, Opens
    <3>4. inbox'[s] = Append(Append(inbox[s], Reconnected), h)
      <4>1. inbox[s] \o <<Reconnected>> = Append(inbox[s], Reconnected)
            /\ Append(inbox[s], Reconnected) \in Seq(StreamEvent)
        BY <1>1, LineTypes, AppendedSequence
      <4>2. Append(inbox[s], Reconnected) \o <<h>> = Append(Append(inbox[s], Reconnected), h)
        BY <2>2, <4>1, AppendedSequence
      <4> QED
        BY <2>1, <2>3, <4>1, <4>2
    <3> QED
      BY <1>1, <2>2, <3>3, <3>4, AnnouncedPair
  <2>4. CASE ~gone[s]
    <3>1. inbox'[s] = Append(inbox[s], h)
      <4>1. inbox[s] \o <<>> = inbox[s]
        BY <1>1
      <4>2. inbox[s] \o <<h>> = Append(inbox[s], h)
        BY <1>1, <2>2, AppendedSequence
      <4> QED
        BY <2>1, <2>4, <4>1, <4>2
    <3> QED
      BY <1>1, <2>2, <3>1, AnnouncedAppend
  <2> QED
    BY <2>3, <2>4
<1>4. CASE ReadEnd(s)
  <2>1. inbox'[s] = inbox[s] \/ inbox'[s] = Append(inbox[s], Disconnected)
    BY <1>4 DEF ReadEnd, TypeInv
  <2>2. Disconnected # Reconnected
    BY DEF Disconnected, Reconnected
  <2> QED
    BY <1>1, <2>1, <2>2, LineTypes, AnnouncedAppend
<1>5. CASE Apply(s)
  BY <1>1, <1>5, AnnouncedTail DEF Apply, TypeInv
<1>6. CASE Close(s)
  BY <1>6 DEF Close, TypeInv, Announced
<1>7. \/ inbox'[s] = inbox[s]
      \/ ReadLine(s) \/ ReadEnd(s) \/ Apply(s) \/ Close(s)
  <2>1. CASE UNCHANGED inbox
    BY <2>1
  <2>2. CASE \E r \in Sidebars : ReadLine(r) \/ ReadEnd(r) \/ Apply(r) \/ Close(r)
    <3>1. PICK r \in Sidebars : ReadLine(r) \/ ReadEnd(r) \/ Apply(r) \/ Close(r)
      BY <2>2
    <3>2. r # s => inbox'[s] = inbox[s]
      BY <3>1 DEF ReadLine, ReadEnd, Apply, Close, TypeInv
    <3> QED
      BY <3>1, <3>2
  <2> QED
    BY <2>1, <2>2 DEF Next, vars, stream, SetAgent, ReplaceSession, Record, Remove, Commit,
       Start, Stop, Exit, Crash, Vanish, ServerStep, Accept, Subscribe, Receive, WriteLine,
       WriteFails, EndLoop, Unsubscribe, StreamStep, Resubscribe, Launch, GiveUp
<1> QED
  BY <1>2, <1>3, <1>4, <1>5, <1>6, <1>7

-----------------------------------------------------------------------------
(* The invariant, and what follows from it.                                *)

\* The invariant is inductive.
LEMMA Inductive ==
    /\ Init => IInv
    /\ IInv /\ [Next]_vars => IInv'
<1>1. Init => ReconnectedWithProof
  BY DEF Init, ReconnectedWithProof
<1>2. ASSUME IInv, [Next]_vars PROVE IInv'
  <2>1. TypeInv' /\ Stages'
    BY <1>2, TypeStep, StagesStep DEF IInv
  <2>2. FeedInv'
    BY <1>2, FeedStep DEF IInv, FeedInv
  <2>3. ReconnectedWithProof'
    BY <1>2, AnnouncedStep DEF IInv
  <2> QED
    BY <2>1, <2>2, <2>3 DEF IInv
<1> QED
  BY <1>1, <1>2, TypeInit, StagesInit, FeedInit DEF IInv

\* It holds in every reachable state.
LEMMA InvariantHolds == Spec => []IInv
  BY Inductive, PTL DEF Spec

\* The screen is the first element of a whole feed.
LEMMA ScreenIsGenuine ==
    ASSUME IInv, NEW s \in Sidebars, ui[s] # "off"
    PROVE  view[s] = At(past, shown[s]) /\ shown[s] <= Len(past) /\ shown[s] \in Nat
<1> USE DEF IInv
<1>1. Feed(s)[1] = Screen(s) /\ 1 \in 1..Len(Feed(s))
  <2>1. /\ <<Screen(s)>> \in Seq(StreamEvent) /\ inbox[s] \in Seq(StreamEvent)
        /\ Ahead(s) \in Seq(StreamEvent)
    BY FeedTypes
  <2>2. Read(s) \in Seq(StreamEvent) /\ Read(s)[1] = Screen(s) /\ Len(Read(s)) >= 1
    BY <2>1 DEF Read
  <2> QED
    BY <2>1, <2>2 DEF Feed
<1>2. Genuine(past, Screen(s))
  BY <1>1 DEF FeedInv, FeedWhole, Whole
<1> QED
  BY <1>2 DEF Genuine, Screen, Line, TypeInv

\* An open sidebar shows a state the store really had, every pane from the same
\* moment, for every number of panes and sidebars and every buffer size
\* (broadcast, subscribe_full, StateStream::start, apply_line).
THEOREM ViewConsistency == Spec => []ViewIsConsistent
<1>1. IInv => ViewIsConsistent
  BY ScreenIsGenuine DEF ViewIsConsistent, At
<1> QED
  BY <1>1, InvariantHolds, PTL

\* A sidebar that is still subscribed and served, with nothing on the way, is
\* current (broadcast, handle_connection).
THEOREM SubscribedIsCurrent == Spec => []SubscribedMeansCurrent
<1>1. ASSUME IInv PROVE SubscribedMeansCurrent
  <2> SUFFICES ASSUME NEW s \in subs, ui[s] = "running", worker[s] = "serving",
                      inbox[s] \o wire[s] \o outgoing[s] \o chan[s] = <<>>
               PROVE  view[s] = panes /\ lastSeq[s] = seq
    BY DEF SubscribedMeansCurrent
  <2>1. s \in Sidebars
    BY <1>1 DEF IInv, TypeInv
  <2>2. /\ inbox[s] \in Seq(StreamEvent) /\ wire[s] \in Seq(StreamEvent)
        /\ outgoing[s] \in Seq(StreamEvent) /\ chan[s] \in Seq(StreamEvent)
    <3>1. outgoing[s] \in Seq(StoreLine) /\ chan[s] \in Seq(DeltaLine)
      BY <1>1, <2>1 DEF IInv, TypeInv
    <3> QED
      BY <1>1, <2>1, <3>1, FeedTypes, LineTypes DEF IInv
  <2>3. inbox[s] = <<>> /\ wire[s] = <<>> /\ outgoing[s] = <<>> /\ chan[s] = <<>>
    <3> DEFINE i == inbox[s]
               w == wire[s]
               o == outgoing[s]
               c == chan[s]
    <3>1. /\ i \in Seq(StreamEvent) /\ w \in Seq(StreamEvent) /\ o \in Seq(StreamEvent)
          /\ c \in Seq(StreamEvent) /\ i \o w \o o \o c = <<>>
      BY <2>2
    <3> HIDE DEF i, w, o, c
    <3>2. Len(i \o w \o o \o c) = Len(i) + Len(w) + Len(o) + Len(c)
      BY <3>1
    <3>3. Len(i) = 0 /\ Len(w) = 0 /\ Len(o) = 0 /\ Len(c) = 0
      BY <3>1, <3>2
    <3>4. i = <<>> /\ w = <<>> /\ o = <<>> /\ c = <<>>
      BY <3>1, <3>3
    <3> QED
      BY <3>4 DEF i, w, o, c
  <2>4. Feed(s) = <<Screen(s)>>
    <3>1. Read(s) = <<Screen(s)>> /\ Ahead(s) = <<>>
      BY <1>1, <2>1, <2>3, FeedTypes DEF Read, Ahead, Sent, IInv
    <3> QED
      BY <3>1 DEF Feed
  <2>5. EndsAt(<<Screen(s)>>, Now, seq)
    BY <1>1, <2>1, <2>4 DEF IInv, FeedInv, FeedCurrent
  <2>6. shown[s] = Now /\ lastSeq[s] = seq
    BY <2>5 DEF EndsAt, Screen
  <2>7. view[s] = past[Now]
    <3>1. view[s] = At(past, Now)
      BY <1>1, <2>1, <2>6, ScreenIsGenuine
    <3>2. Now # 0
      BY <1>1 DEF IInv, TypeInv, Now
    <3> QED
      BY <3>1, <3>2 DEF At
  <2> QED
    BY <1>1, <2>6, <2>7 DEF IInv, Stages
<1> QED
  BY <1>1, InvariantHolds, PTL

\* A reconnection is announced only together with the line that proved it
\* (StateStream::start).
THEOREM ReconnectionIsProven == Spec => []ReconnectedWithProof
  BY InvariantHolds, PTL DEF IInv

\* The screen of a sidebar that stays open never moves to an older state
\* (apply_line's sequence check; a restarted daemon counts from 0 again).
THEOREM NoStepBack == Spec => NeverGoesBack
<1>1. ASSUME IInv, [Next]_vars
      PROVE  \A s \in Sidebars : ui[s] = "running" /\ ui'[s] = "running" => shown[s] <= shown'[s]
  BY <1>1, FeedStep DEF IInv
<1>2. IInv /\ [Next]_vars =>
        [\A s \in Sidebars : ui[s] = "running" /\ ui'[s] = "running" => shown[s] <= shown'[s]]_vars
  BY <1>1
<1> QED
  BY <1>2, InvariantHolds, PTL DEF Spec, NeverGoesBack

-----------------------------------------------------------------------------
(* The refinement.                                                         *)

\* Initial states are initial states of the abstract feed.
LEMMA CardsInit == Init => Cards!Init
  BY DEF Init, Cards!Init, NoCards, Cards!NoCards

\* A change of the store publishes one state.
LEMMA CardsPublish ==
    ASSUME IInv, NEW p \in Panes, SetAgent(p) \/ ReplaceSession(p) \/ Record(p) \/ Remove(p)
    PROVE  Cards!Publish
<1>1. PICK card \in {0, Len(past) + 1} : Commit(p, card)
  BY DEF SetAgent, ReplaceSession, Record, Remove, Now
<1>2. past' = Append(past, [past[Len(past)] EXCEPT ![p] = card])
  BY <1>1 DEF Commit, IInv, Stages, Now
<1>3. shown' = shown /\ view' = view
  BY <1>1 DEF Commit, screen
<1> QED
  BY <1>2, <1>3 DEF Cards!Publish

\* Every screen shows a moment of the history.
LEMMA ScreensAreGenuine ==
    \A r \in Sidebars :
      IInv /\ ui[r] # "off" => view[r] = At(past, shown[r]) /\ shown[r] <= Len(past)
  BY ScreenIsGenuine

\* What Apply does to a screen is a refresh to a moment not before the old one.
LEMMA CardsApply ==
    ASSUME IInv, IInv', NEW s \in Sidebars, Apply(s)
    PROVE  Cards!Refresh(s) \/ Cards!Clear(s) \/ UNCHANGED <<past, shown, view>>
<1>1. /\ past' = past /\ ui'[s] # "off" /\ ui[s] # "off"
      /\ shown \in [Sidebars -> Nat] /\ view \in [Sidebars -> Cards0]
      /\ shown' \in [Sidebars -> Nat] /\ view' \in [Sidebars -> Cards0]
  BY DEF Apply, ApplyHello, ApplyDelta, ApplyPartial, ApplyLink, daemon, IInv, TypeInv
<1>2. \A r \in Sidebars : r # s => shown'[r] = shown[r] /\ view'[r] = view[r]
  BY <1>1 DEF Apply, ApplyHello, ApplyDelta, ApplyPartial, ApplyLink
<1>3. shown[s] <= shown'[s]
  BY <1>1, FeedApply DEF IInv, FeedInv
<1>4. view'[s] = At(past', shown'[s]) /\ shown'[s] <= Len(past')
  <2>1. (\A r \in Sidebars :
           IInv /\ ui[r] # "off" => view[r] = At(past, shown[r]) /\ shown[r] <= Len(past))'
    BY ScreensAreGenuine, PTL
  <2> QED
    BY <1>1, <2>1
<1>5. /\ shown' = [shown EXCEPT ![s] = shown'[s]]
      /\ view' = [view EXCEPT ![s] = view'[s]]
  BY <1>1, <1>2
<1>6. CASE shown'[s] = 0
  <2>1. view'[s] = Cards!NoCards
    BY <1>4, <1>6 DEF At, NoCards, Cards!NoCards
  <2> QED
    BY <1>1, <1>5, <1>6, <2>1 DEF Cards!Clear
<1>7. CASE shown'[s] # 0
  <2>1. shown'[s] \in 1..Len(past) /\ view'[s] = past[shown'[s]]
    BY <1>1, <1>4, <1>7 DEF At
  <2> QED
    BY <1>1, <1>3, <1>5, <2>1 DEF Cards!Refresh
<1> QED
  BY <1>6, <1>7

\* Every step is a step of the abstract feed, or none.
LEMMA CardsStep ==
    ASSUME IInv, IInv', [Next]_vars
    PROVE  [Cards!Next]_(Cards!vars)
<1>1. CASE UNCHANGED vars
  BY <1>1 DEF vars, daemon, screen, Cards!vars
<1>2. ASSUME NEW p \in Panes, SetAgent(p) \/ ReplaceSession(p) \/ Record(p) \/ Remove(p)
      PROVE  Cards!Next
  BY <1>2, CardsPublish DEF Cards!Next
<1>3. CASE Start \/ Stop
  BY <1>3 DEF Start, Stop, screen, Cards!vars
<1>4. CASE Exit \/ Crash
  BY <1>4 DEF Exit, Crash, Vanish, screen, Cards!Next, Cards!Publish, NoCards, Cards!NoCards
<1>5. ASSUME NEW s \in Sidebars, ServerStep(s) \/ StreamStep(s) \/ Launch(s) \/ GiveUp(s)
      PROVE  UNCHANGED <<past, shown, view>>
  BY <1>5 DEF ServerStep, Accept, Subscribe, Receive, WriteLine, WriteFails, EndLoop,
     Unsubscribe, StreamStep, ReadLine, ReadEnd, Resubscribe, Launch, GiveUp, daemon, screen
<1>6. ASSUME NEW s \in Sidebars, Apply(s)
      PROVE  Cards!Next \/ UNCHANGED <<past, shown, view>>
  BY <1>6, CardsApply DEF Cards!Next
<1>7. ASSUME NEW s \in Sidebars, Close(s)
      PROVE  Cards!Next
  BY <1>7 DEF Close, daemon, Cards!Next, Cards!Clear, NoCards, Cards!NoCards
<1> QED
  BY <1>1, <1>2, <1>3, <1>4, <1>5, <1>6, <1>7 DEF Next, Cards!vars

\* The whole pipeline, with its buffers, drops, reconnections and restarts,
\* implements the abstract card feed.
THEOREM ImplementsCardFeed == Spec => CardFeedSpec
<1>1. IInv /\ IInv' /\ [Next]_vars => [Cards!Next]_(Cards!vars)
  BY CardsStep
<1> QED
  BY <1>1, CardsInit, InvariantHolds, PTL DEF Spec, CardFeedSpec, Cards!Spec
=============================================================================
