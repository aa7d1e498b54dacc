------------------------- MODULE TailServiceProofs -------------------------
(***************************************************************************)
(* Proofs about TailService for every cap, every chunk size and every      *)
(* file.  The inductive invariant adds to the framing where the line being *)
(* read begins: at the buffered part, or, while it is skipped, so far back *)
(* that it is too long whatever comes next.                                *)
(***************************************************************************)
EXTENDS TailService, TLAPS

\* No line begins inside (from, to].
OneLine(from, to) == \A i \in from + 1 .. to : i \notin Starts

\* What is buffered begins a line, and what is skipped is too long already.
Open ==
    /\ OneLine(partial, pos)
    /\ ~skip => partial \in Starts
    /\ skip => /\ partial = pos
               /\ \E s \in Starts : pos - s > MaxPartial /\ OneLine(s, pos)

\* What was decoded lies before what is buffered, and so does the boundary.
Behind ==
    /\ \A i \in DOMAIN lines : lines[i].to <= partial
    /\ live => boundary <= partial

\* Nothing is live before the decoder caught up.
AllReplayUntilLive == ~live => \A i \in DOMAIN lines : ~lines[i].live

IInv == TypeOK /\ Open /\ Behind /\ Framing /\ LiveIsNew /\ AllReplayUntilLive

-----------------------------------------------------------------------------
\* The types of the positions and of the decoded lines, one by one.
Ordered ==
    /\ Len(file) \in Nat /\ upto \in Nat /\ pos \in Nat /\ partial \in Nat /\ boundary \in Nat
    /\ upto <= Len(file) /\ pos <= upto /\ partial <= pos /\ boundary <= pos
    /\ MaxPartial \in Nat /\ pos - partial <= MaxPartial
    /\ \A i \in Starts : i \in Nat /\ i <= pos

\* The types of the positions, spelled out for the provers.
LEMMA Positions == TypeOK => Ordered
<1> SUFFICES ASSUME TypeOK PROVE Ordered
  OBVIOUS
<1>1. Len(file) \in Nat
  BY DEF TypeOK
<1>2. upto \in Nat /\ upto <= Len(file)
  BY <1>1 DEF TypeOK
<1>3. pos \in Nat /\ pos <= upto
  BY <1>2 DEF TypeOK
<1>4. partial \in Nat /\ partial <= pos /\ boundary \in Nat /\ boundary <= pos
  BY <1>3 DEF TypeOK
<1>5. \A i \in Starts : i \in Nat /\ i <= pos
  BY <1>3 DEF TypeOK, Starts
<1> QED
  BY <1>1, <1>2, <1>3, <1>4, <1>5, TailAssumption DEF Ordered, TypeOK

\* And after a step.
LEMMA PositionsNext == TypeOK' => Ordered'
  BY Positions, PTL

Line == [from : Nat, to : Nat, live : BOOLEAN]

LineFields ==
    /\ Len(lines) \in Nat /\ DOMAIN lines = 1 .. Len(lines)
    /\ \A i \in DOMAIN lines : lines[i].from \in Nat /\ lines[i].to \in Nat

\* The types of the decoded lines, field by field.
LEMMA Fields == TypeOK => LineFields
<1> SUFFICES ASSUME lines \in Seq(Line) PROVE LineFields
  BY DEF TypeOK, Line
<1>1. Len(lines) \in Nat /\ DOMAIN lines = 1 .. Len(lines)
  OBVIOUS
<1>2. ASSUME NEW i \in DOMAIN lines PROVE lines[i].from \in Nat /\ lines[i].to \in Nat
  <2>1. lines[i] \in Line
    BY <1>1
  <2> QED
    BY <2>1 DEF Line
<1> QED
  BY <1>1, <1>2 DEF LineFields

\* The invariant holds of an empty file.
LEMMA InitIInv == Init => IInv
<1> SUFFICES ASSUME Init PROVE IInv
  OBVIOUS
<1> USE TailAssumption DEF Init
<1>1. TypeOK
  <2>1. file \in Seq(Chars) /\ lines \in Seq([from : Nat, to : Nat, live : BOOLEAN])
    OBVIOUS
  <2>2. Len(file) = 0
    OBVIOUS
  <2>3. upto \in 0 .. Len(file) /\ pos \in 0 .. upto /\ partial \in 0 .. pos /\ boundary \in 0 .. pos
    BY <2>2
  <2>4. pos - partial <= MaxPartial /\ cuts \subseteq 0 .. pos
    OBVIOUS
  <2> QED
    BY <2>1, <2>3, <2>4 DEF TypeOK
<1>2. Starts = {0}
  BY DEF Starts
<1>3. Open
  BY <1>2 DEF Open, OneLine
<1>4. \A from, to \in 0 .. pos : ~Whole(from, to)
  BY DEF Whole
<1>5. DOMAIN lines = {}
  OBVIOUS
<1> QED
  BY <1>1, <1>3, <1>4, <1>5 DEF IInv, Behind, Framing, LiveIsNew, AllReplayUntilLive

\* Nothing that was true of what has been gone through changes when the file
\* grows or the position moves over characters that are no line breaks.
LEMMA SameLines ==
  ASSUME TypeOK, TypeOK', pos <= pos', cuts' = cuts,
         \A i \in 1 .. pos : file'[i] = file[i],
         \A i \in pos + 1 .. pos' : file'[i] # "nl"
  PROVE  /\ Starts' = Starts
         /\ \A from, to \in Nat : Whole(from, to)' <=> Whole(from, to)
<1>0. pos \in Nat /\ pos' \in Nat
  BY Positions, PositionsNext DEF Ordered
<1>1. Starts' = Starts
  BY <1>0 DEF Starts
<1>2. ASSUME NEW from \in Nat, NEW to \in Nat PROVE Whole(from, to)' <=> Whole(from, to)
  <2>1. CASE to <= pos
    <3>1. from < to => file'[to] = file[to]
      BY <2>1, <1>0
    <3>2. \A i \in from + 1 .. to : file'[i] = file[i]
      BY <2>1, <1>0
    <3>3. Decoded(from, to)' <=> Decoded(from, to)
      BY <3>2 DEF Decoded
    <3>4. to <= pos'
      BY <1>0, <2>1
    <3> QED
      BY <1>1, <2>1, <3>1, <3>3, <3>4 DEF Whole
  <2>2. CASE to > pos
    <3>1. ~(to <= pos)
      BY <2>2, <1>0
    <3>2. to <= pos' => file'[to] # "nl"
      BY <2>2, <1>0
    <3> QED
      BY <3>1, <3>2 DEF Whole
  <2> QED
    BY <2>1, <2>2, <1>0
<1> QED
  BY <1>1, <1>2

\* A step that leaves what was gone through and decoded alone.
LEMMA QuietStep ==
  ASSUME IInv, TypeOK', UNCHANGED <<pos, buffer, decoder, cuts>>,
         \A i \in 1 .. pos : file'[i] = file[i]
  PROVE  IInv'
<1>1. Starts' = Starts /\ \A from, to \in Nat : Whole(from, to)' <=> Whole(from, to)
  BY SameLines DEF IInv, TypeOK
<1>2. Open'
  BY <1>1 DEF IInv, Open, OneLine, buffer
<1>3. Behind'
  BY DEF IInv, Behind, buffer, decoder
<1>4. Framing'
  <2>1. LineFields /\ pos \in Nat
    BY Fields, Positions DEF IInv, Ordered
  <2>2. lines' = lines /\ pos' = pos
    BY DEF decoder
  <2> QED
    BY <1>1, <2>1, <2>2 DEF IInv, Framing, LineFields
<1>5. LiveIsNew'
  BY DEF IInv, LiveIsNew, decoder
<1>6. AllReplayUntilLive'
  BY DEF IInv, AllReplayUntilLive, decoder
<1> QED
  BY <1>2, <1>3, <1>4, <1>5, <1>6 DEF IInv

-----------------------------------------------------------------------------
\* A decoder that gets one more line keeps those it got.
LEMMA LinesGrow ==
  ASSUME NEW seq \in Seq(Line), NEW line \in Line
  PROVE  /\ Append(seq, line) \in Seq(Line)
         /\ Len(Append(seq, line)) = Len(seq) + 1
         /\ Append(seq, line)[Len(seq) + 1] = line
         /\ \A i \in 1 .. Len(seq) : Append(seq, line)[i] = seq[i]
  OBVIOUS

\* Every step keeps the types, the cap on the buffer among them.
LEMMA StepType == TypeOK /\ [Next]_vars => TypeOK'
<1> SUFFICES ASSUME TypeOK, [Next]_vars PROVE TypeOK'
  OBVIOUS
<1> USE TailAssumption DEF TypeOK
<1>1. ASSUME NEW c \in Chars, Write(c) PROVE TypeOK'
  <2>1. file' \in Seq(Chars) /\ Len(file') = Len(file) + 1
    BY <1>1 DEF Write
  <2> QED
    BY <1>1, <2>1 DEF Write, buffer, decoder
<1>2. CASE TimePasses \/ Stop \/ ReadError \/ NoWatchdog \/ ChunkDone
  BY <1>2 DEF TimePasses, Stop, ReadError, NoWatchdog, ChunkDone, buffer, decoder
<1>3. CASE ReadChunk
  <2>1. PICK n \in 1 .. Chunk : upto + n <= Len(file) /\ upto' = upto + n
    BY <1>3 DEF ReadChunk
  <2>2. upto' \in Nat /\ upto <= upto' /\ upto' <= Len(file)
    BY <2>1, Positions DEF Ordered
  <2>3. upto' \in 0 .. Len(file) /\ pos \in 0 .. upto'
    BY <2>2, Positions DEF Ordered
  <2> QED
    BY <1>3, <2>3 DEF ReadChunk, buffer, decoder
<1>4. CASE Eof
  <2>0. boundary \in 0 .. pos /\ pos \in 0 .. pos
    BY Positions DEF Ordered
  <2>1. live' \in BOOLEAN /\ boundary' \in 0 .. pos
    <3>1. CASE Stuck
      BY <1>4, <2>0, <3>1 DEF Eof
    <3>2. CASE ~Stuck
      BY <1>4, <2>0, <3>2 DEF Eof, CatchUp
    <3> QED
      BY <3>1, <3>2
  <2> QED
    BY <1>4, <2>1 DEF Eof, buffer
<1>5. CASE Watchdog
  <2>1. live' \in BOOLEAN /\ boundary' \in 0 .. pos
    BY <1>5, Positions DEF Watchdog, CatchUp, Ordered
  <2>2. partial' \in 0 .. pos /\ pos - partial' <= MaxPartial /\ cuts' \subseteq 0 .. pos
    BY <1>5, Positions DEF Watchdog, Ordered
  <2> QED
    BY <1>5, <2>1, <2>2 DEF Watchdog
<1>6. CASE LineEnds
  <2> PICK end \in pos + 1 .. upto :
        /\ pos' = end /\ partial' = end /\ skip' = FALSE
        /\ lines' = IF ~skip /\ end - partial <= MaxPartial /\ Decoded(partial, end)
                      THEN Append(lines, [from |-> partial, to |-> end, live |-> live])
                      ELSE lines
    BY <1>6 DEF LineEnds
  <2>1. [from |-> partial, to |-> end, live |-> live] \in [from : Nat, to : Nat, live : BOOLEAN]
    BY Positions DEF Ordered
  <2>2. lines' \in Seq([from : Nat, to : Nat, live : BOOLEAN])
    BY <2>1, LinesGrow DEF Line
  <2>3. end \in Nat /\ pos <= end /\ end <= upto
    BY Positions DEF Ordered
  <2>4. /\ pos' \in 0 .. upto /\ partial' \in 0 .. pos' /\ pos' - partial' <= MaxPartial
        /\ boundary \in 0 .. pos' /\ cuts \subseteq 0 .. pos'
    BY <2>3, Positions DEF Ordered
  <2> QED
    BY <1>6, <2>2, <2>4 DEF LineEnds
<1>7. CASE ChunkEnds
  <2>1. pos' \in 0 .. upto /\ boundary \in 0 .. pos' /\ cuts \subseteq 0 .. pos'
    BY <1>7, Positions DEF ChunkEnds, Ordered
  <2>2. skip' \in BOOLEAN
    BY <1>7 DEF ChunkEnds
  <2>3. partial' \in 0 .. pos' /\ pos' - partial' <= MaxPartial
    <3>1. CASE skip'
      BY <1>7, <3>1, Positions DEF ChunkEnds, Ordered
    <3>2. CASE ~skip'
      <4>1. pos' = upto /\ partial' = partial /\ ~(upto - partial > MaxPartial)
        BY <1>7, <3>2 DEF ChunkEnds
      <4> QED
        BY <4>1, Positions DEF Ordered
    <3> QED
      BY <3>1, <3>2
  <2> QED
    BY <1>7, <2>1, <2>2, <2>3 DEF ChunkEnds, decoder
<1>8. CASE UNCHANGED vars
  BY <1>8 DEF vars, buffer, decoder
<1> QED
  BY <1>1, <1>2, <1>3, <1>4, <1>5, <1>6, <1>7, <1>8 DEF Next, Loop

\* What the writer appends lies behind what was gone through.
LEMMA WriteStep == ASSUME IInv, TypeOK', NEW c \in Chars, Write(c) PROVE IInv'
<1>1. \A i \in 1 .. pos : file'[i] = file[i]
  BY DEF IInv, TypeOK, Write
<1> QED
  BY <1>1, QuietStep DEF Write

\* The end of the file is the boundary only where no line is open.
LEMMA EofStep == ASSUME IInv, TypeOK', Eof PROVE IInv'
<1>1. CASE Stuck
  BY <1>1, QuietStep DEF Eof, decoder
<1>2. CASE ~Stuck
  <2>1. Starts' = Starts /\ \A from, to \in Nat : Whole(from, to)' <=> Whole(from, to)
    BY SameLines DEF IInv, Eof, buffer, TypeOK
  <2>2. Open'
    BY <2>1 DEF IInv, Open, OneLine, Eof, buffer
  <2>3. partial = pos
    BY <1>2 DEF IInv, Stuck, TypeOK
  <2>4. Behind'
    BY <1>2, <2>3 DEF IInv, Behind, Eof, buffer, CatchUp, TypeOK
  <2>5. Framing'
    <3>1. LineFields /\ pos \in Nat
      BY Fields, Positions DEF IInv, Ordered
    <3>2. lines' = lines /\ pos' = pos
      BY DEF Eof
    <3> QED
      BY <2>1, <3>1, <3>2 DEF IInv, Framing, LineFields
  <2>6. LiveIsNew'
    <3>1. CASE live
      BY <3>1, <1>2 DEF IInv, LiveIsNew, Eof, CatchUp
    <3>2. CASE ~live
      <4>1. lines' = lines /\ boundary' = pos
        BY <1>2, <3>2 DEF Eof, CatchUp
      <4>2. \A i \in DOMAIN lines : ~lines[i].live /\ lines[i].to <= pos
        BY <3>2, <2>3 DEF AllReplayUntilLive, IInv, Behind
      <4> QED
        BY <4>1, <4>2 DEF LiveIsNew
    <3> QED
      BY <3>1, <3>2
  <2>7. AllReplayUntilLive'
    BY <1>2 DEF AllReplayUntilLive, Eof, CatchUp
  <2> QED
    BY <2>2, <2>4, <2>5, <2>6, <2>7 DEF IInv
<1> QED
  BY <1>1, <1>2

\* A cut begins a new line where the file stands.
LEMMA WatchdogStep == ASSUME IInv, TypeOK', Watchdog PROVE IInv'
<1> USE DEF IInv
<1>1. Starts' = Starts \cup {pos}
  BY DEF Starts, Watchdog
<1>2. \A from \in Nat : \A to \in 0 .. pos : Whole(from, to)' <=> Whole(from, to)
  <2> SUFFICES ASSUME NEW from \in Nat, NEW to \in 0 .. pos
               PROVE  Whole(from, to)' <=> Whole(from, to)
    OBVIOUS
  <2>1. Decoded(from, to)' <=> Decoded(from, to)
    BY DEF Decoded, Watchdog
  <2>2. from < to => (from \in Starts' <=> from \in Starts)
    BY <1>1, Positions DEF Ordered
  <2>3. \A i \in from + 1 .. to - 1 : i \in Starts' <=> i \in Starts
    BY <1>1, Positions DEF Ordered
  <2> QED
    BY <2>1, <2>2, <2>3 DEF Whole, Watchdog
<1>3. Open'
  BY <1>1 DEF Open, OneLine, Watchdog, TypeOK
<1>a. \A i \in DOMAIN lines : lines[i].from \in Nat /\ lines[i].to \in Nat /\ lines[i].to <= pos
  BY Fields, Positions DEF Behind, LineFields, Ordered
<1>b. lines' = lines /\ pos' = pos /\ partial' = pos /\ pos \in Nat
  BY Positions DEF Watchdog, Ordered
<1>c. boundary' = IF live THEN boundary ELSE pos
  BY DEF Watchdog, CatchUp
<1>4. Behind'
  BY <1>a, <1>b, <1>c, Positions DEF Behind, Ordered
<1>5. Framing'
  <2>1. \A from, to \in 0 .. pos : Whole(from, to)' <=> Whole(from, to)
    BY <1>2, <1>b
  <2>2. \A i \in DOMAIN lines : Whole(lines[i].from, lines[i].to)'
    BY <1>2, <1>a, <1>b DEF Framing
  <2> QED
    BY <1>b, <2>1, <2>2 DEF Framing
<1>6. LiveIsNew'
  <2>1. CASE live
    BY <2>1 DEF LiveIsNew, Watchdog, CatchUp
  <2>2. CASE ~live
    BY <2>2, <1>a, <1>b, <1>c DEF AllReplayUntilLive, LiveIsNew
  <2> QED
    BY <2>1, <2>2
<1>7. AllReplayUntilLive'
  BY DEF AllReplayUntilLive, Watchdog, CatchUp
<1> QED
  BY <1>3, <1>4, <1>5, <1>6, <1>7

\* No position lies behind the last one.
LEMMA NothingBetween == \A n \in Nat : \A i \in n + 1 .. n : FALSE
  OBVIOUS

\* What is buffered grows, or becomes too long to be decoded.
LEMMA ChunkEndsStep == ASSUME IInv, TypeOK', ChunkEnds PROVE IInv'
<1> USE DEF IInv
<1>1. \A i \in pos + 1 .. pos' : file'[i] # "nl"
  BY DEF ChunkEnds, Breaks
<1>2. Starts' = Starts /\ \A from, to \in Nat : Whole(from, to)' <=> Whole(from, to)
  BY <1>1, SameLines DEF ChunkEnds, TypeOK
<1>3. \A s \in Nat : OneLine(s, pos) => \A i \in s + 1 .. pos' : i \notin Starts'
  BY <1>1, <1>2 DEF OneLine, ChunkEnds, Starts, TypeOK
<1>4. Starts \subseteq Nat /\ Ordered
  BY Positions DEF Ordered
<1>0. pos' \in Nat
  BY PositionsNext DEF Ordered
<1>a. Ordered' /\ \A i \in pos' + 1 .. pos' : FALSE
  BY <1>0, PositionsNext, NothingBetween
<1>5. Open'
  <2>1. CASE skip
    <3>1. PICK s \in Starts : pos - s > MaxPartial /\ OneLine(s, pos)
      BY <2>1 DEF Open
    <3>2. pos' - s > MaxPartial /\ \A i \in s + 1 .. pos' : i \notin Starts'
      BY <3>1, <1>3, <1>4 DEF ChunkEnds, OneLine, Ordered
    <3>3. skip' /\ partial' = pos'
      BY <2>1 DEF ChunkEnds
    <3>5. \A i \in partial' + 1 .. pos' : FALSE
      BY <3>3, <1>a
    <3> QED
      BY <1>2, <3>1, <3>2, <3>3, <3>5 DEF Open, OneLine
  <2>2. CASE ~skip
    <3>1. partial \in Starts /\ \A i \in partial + 1 .. pos' : i \notin Starts'
      BY <2>2, <1>3, <1>4 DEF Open, OneLine
    <3>2. CASE skip'
      <4>1. partial' = pos' /\ pos' - partial > MaxPartial
        BY <2>2, <3>2 DEF ChunkEnds
      <4>2. \A i \in partial' + 1 .. pos' : FALSE
        BY <4>1, <1>a
      <4> QED
        BY <1>2, <3>1, <3>2, <4>1, <4>2 DEF Open, OneLine
    <3>3. CASE ~skip'
      <4>1. partial' = partial
        BY <3>3 DEF ChunkEnds
      <4> QED
        BY <1>2, <3>1, <3>3, <4>1 DEF Open, OneLine
    <3> QED
      BY <3>2, <3>3
  <2> QED
    BY <2>1, <2>2
<1>6. partial <= partial' /\ UNCHANGED <<lines, live, boundary>>
  BY <1>4 DEF ChunkEnds, decoder, Ordered
<1>7. Behind'
  BY <1>a, <1>4, <1>6, Fields DEF Behind, LineFields, Ordered
<1>8. Framing'
  <2>1. \A i \in DOMAIN lines : lines[i].from \in Nat /\ lines[i].to \in Nat
    BY Fields DEF LineFields
  <2>2. \A from, to \in 0 .. pos' : Whole(from, to)' => to <= pos /\ Whole(from, to)
    BY <1>2, <1>a DEF Whole, Ordered
  <2>3. \A from, to \in 0 .. pos' :
          Whole(from, to)' => \E i \in DOMAIN lines : lines[i].from = from /\ lines[i].to = to
    <3> SUFFICES ASSUME NEW from \in 0 .. pos', NEW to \in 0 .. pos', Whole(from, to)'
                 PROVE  \E i \in DOMAIN lines : lines[i].from = from /\ lines[i].to = to
      OBVIOUS
    <3>1. to <= pos /\ Whole(from, to) /\ from < to
      BY <2>2 DEF Whole
    <3>2. from \in 0 .. pos /\ to \in 0 .. pos
      BY <3>1, <1>a, <1>4 DEF Ordered
    <3> QED
      BY <3>1, <3>2 DEF Framing
  <2> QED
    BY <1>2, <1>6, <2>1, <2>3 DEF Framing
<1>9. LiveIsNew'
  BY <1>6 DEF LiveIsNew
<1>10. AllReplayUntilLive'
  BY <1>6 DEF AllReplayUntilLive
<1> QED
  BY <1>5, <1>7, <1>8, <1>9, <1>10

\* A line break closes the open line, which is decoded just if it should be.
LEMMA LineEndsStep == ASSUME IInv, TypeOK', LineEnds PROVE IInv'
<1> USE DEF IInv
<1> PICK end \in pos + 1 .. upto :
        /\ FirstBreak(end)
        /\ pos' = end /\ partial' = end /\ skip' = FALSE
        /\ lines' = IF ~skip /\ end - partial <= MaxPartial /\ Decoded(partial, end)
                      THEN Append(lines, [from |-> partial, to |-> end, live |-> live])
                      ELSE lines
  BY DEF LineEnds
<1> DEFINE decode == ~skip /\ end - partial <= MaxPartial /\ Decoded(partial, end)
           line == [from |-> partial, to |-> end, live |-> live]
<1>1. UNCHANGED <<file, live, boundary, cuts>>
  BY DEF LineEnds
<1>2. file[end] = "nl" /\ \A i \in pos + 1 .. end - 1 : file[i] # "nl"
  BY DEF FirstBreak, Breaks, TypeOK
<1>a. Ordered /\ Ordered' /\ pos < end /\ end \in Nat
  BY Positions, PositionsNext DEF Ordered
<1>3. Starts' = Starts \cup {end} /\ Starts \subseteq 0 .. pos
  <2>1. Starts \subseteq 0 .. pos
    BY <1>a DEF Ordered
  <2>2. {i \in 1 .. end : file[i] = "nl"} = {i \in 1 .. pos : file[i] = "nl"} \cup {end}
    BY <1>2, <1>a DEF Ordered
  <2> QED
    BY <1>1, <2>1, <2>2 DEF Starts
<1>4. \A from \in Nat : \A to \in 0 .. pos : Whole(from, to)' <=> Whole(from, to)
  <2> SUFFICES ASSUME NEW from \in Nat, NEW to \in 0 .. pos
               PROVE  Whole(from, to)' <=> Whole(from, to)
    OBVIOUS
  <2>1. Decoded(from, to)' <=> Decoded(from, to)
    BY <1>1 DEF Decoded
  <2>2. \A i \in 0 .. pos : i \in Starts' <=> i \in Starts
    BY <1>3 DEF TypeOK
  <2> QED
    BY <1>1, <1>a, <2>1, <2>2 DEF Whole, Ordered
<1>5. \A from \in 0 .. end : Whole(from, end)' => from = partial /\ decode
  <2> SUFFICES ASSUME NEW from \in 0 .. end, Whole(from, end)'
               PROVE  from = partial /\ decode
    OBVIOUS
  <2>1. from \in Starts /\ \A i \in from + 1 .. pos : i \notin Starts
    BY <1>3 DEF Whole, TypeOK
  <2>2. end - from <= MaxPartial /\ Decoded(from, end)
    BY <1>1 DEF Whole, Decoded
  <2>3. ~skip
    <3> SUFFICES ASSUME skip PROVE FALSE
      OBVIOUS
    <3>1. PICK s \in Starts : pos - s > MaxPartial /\ OneLine(s, pos)
      BY DEF Open
    <3>2. s = from
      BY <1>3, <2>1, <3>1 DEF OneLine, TypeOK
    <3> QED
      BY <2>2, <3>1, <3>2, TailAssumption DEF TypeOK
  <2>4. from = partial
    BY <1>3, <2>1, <2>3 DEF Open, OneLine, TypeOK
  <2> QED
    BY <2>2, <2>3, <2>4
<1>6. ASSUME decode, NEW from, from = partial PROVE Whole(from, end)'
  <2>1. partial \in Starts' /\ \A i \in partial + 1 .. end - 1 : i \notin Starts'
    BY <1>3, <1>6 DEF Open, OneLine, TypeOK
  <2>2. Decoded(from, end)'
    BY <1>1, <1>6 DEF Decoded
  <2>3. from < end
    BY <1>a, <1>6 DEF Ordered
  <2> QED
    BY <1>1, <1>2, <1>6, <2>1, <2>2, <2>3 DEF Whole
<1>7. Open'
  BY <1>3 DEF Open, OneLine, TypeOK
<1>8. /\ lines' = IF decode THEN Append(lines, line) ELSE lines
      /\ lines \in Seq([from : Nat, to : Nat, live : BOOLEAN])
  BY DEF TypeOK
<1>b. lines \in Seq(Line) /\ line \in Line /\ Len(lines) \in Nat /\ DOMAIN lines = 1 .. Len(lines)
  BY <1>8, <1>a, Fields DEF Line, Ordered, LineFields, TypeOK
<1> HIDE DEF line
<1>c. decode => DOMAIN lines' = 1 .. Len(lines) + 1
  BY <1>8, <1>b, LinesGrow
<1>9. \A i \in DOMAIN lines' : (i \in DOMAIN lines /\ lines'[i] = lines[i]) \/ (decode /\ lines'[i] = line)
  BY <1>8, <1>b, <1>c, LinesGrow
<1>10. \A i \in DOMAIN lines : i \in DOMAIN lines' /\ lines'[i] = lines[i]
  BY <1>8, <1>b, <1>c, LinesGrow
<1>11. decode => \E i \in DOMAIN lines' : lines'[i] = line
  BY <1>8, <1>b, <1>c, LinesGrow
<1>d. decode => \A i, j \in DOMAIN lines' : i < j => i \in DOMAIN lines /\ (j \in DOMAIN lines \/ lines'[j] = line)
  BY <1>8, <1>b, <1>c, LinesGrow
<1>e. line.from = partial /\ line.to = end /\ line.live = live
  BY DEF line
<1>12. \A i \in DOMAIN lines :
         lines[i].from \in Nat /\ lines[i].to \in Nat /\ lines[i].to <= partial /\ lines[i].to <= pos
  BY Fields, <1>a DEF Behind, LineFields, Ordered
<1>13. Behind'
  BY <1>1, <1>9, <1>12, <1>a, <1>e DEF Behind, Ordered
<1>14. Framing'
  <2>1. \A i \in DOMAIN lines' : Whole(lines[i].from, lines[i].to)'
    <3> TAKE i \in DOMAIN lines'
    <3>1. CASE i \in DOMAIN lines /\ lines'[i] = lines[i]
      BY <1>4, <1>12, <3>1, <1>a DEF Framing, Ordered
    <3>2. CASE decode /\ lines'[i] = line
      BY <1>6, <1>e, <3>2
    <3> QED
      BY <1>9, <3>1, <3>2
  <2>2. ASSUME NEW i \in DOMAIN lines', NEW j \in DOMAIN lines', i < j
        PROVE  lines'[i].to <= lines'[j].from
    <3>1. CASE decode
      BY <1>10, <1>12, <1>d, <1>e, <2>2, <3>1 DEF Framing
    <3>2. CASE ~decode
      BY <1>8, <2>2, <3>2 DEF Framing
    <3> QED
      BY <3>1, <3>2
  <2>3. ASSUME NEW from \in 0 .. end, NEW to \in 0 .. end, Whole(from, to)'
        PROVE  \E i \in DOMAIN lines' : lines'[i].from = from /\ lines'[i].to = to
    <3>1. CASE to <= pos
      <4>1. from \in 0 .. pos /\ to \in 0 .. pos /\ Whole(from, to)
        BY <1>4, <2>3, <3>1, <1>a DEF Whole, Ordered
      <4>2. PICK i \in DOMAIN lines : lines[i].from = from /\ lines[i].to = to
        BY <4>1 DEF Framing
      <4> QED
        BY <1>10, <4>2
    <3>2. CASE to > pos
      <4>1. to = end
        BY <1>1, <1>2, <2>3, <3>2 DEF Whole, TypeOK
      <4> QED
        BY <1>5, <1>11, <1>e, <2>3, <4>1
    <3> QED
      BY <3>1, <3>2, <1>a DEF Ordered
  <2> QED
    BY <2>1, <2>2, <2>3 DEF Framing
<1>15. LiveIsNew'
  <2> SUFFICES ASSUME NEW i \in DOMAIN lines'
               PROVE  IF lines'[i].live THEN boundary <= lines'[i].from
                                        ELSE (live => lines'[i].to <= boundary)
    BY <1>1 DEF LiveIsNew
  <2>1. CASE i \in DOMAIN lines /\ lines'[i] = lines[i]
    BY <2>1 DEF LiveIsNew
  <2>2. CASE decode /\ lines'[i] = line
    BY <1>e, <2>2 DEF Behind
  <2> QED
    BY <1>9, <2>1, <2>2
<1>16. AllReplayUntilLive'
  BY <1>1, <1>9, <1>e DEF AllReplayUntilLive
<1> QED
  BY <1>7, <1>13, <1>14, <1>15, <1>16

\* The invariant of the tail loop (TranscriptTailService::run).
THEOREM Invariance == Spec => []IInv
<1>1. Init => IInv
  BY InitIInv
<1>2. IInv /\ [Next]_vars => IInv'
  <2> SUFFICES ASSUME IInv, [Next]_vars PROVE IInv'
    OBVIOUS
  <2>1. TypeOK'
    BY StepType DEF IInv
  <2>2. ASSUME NEW c \in Chars, Write(c) PROVE IInv'
    BY <2>1, <2>2, WriteStep
  <2>3. CASE TimePasses \/ Stop \/ ReadChunk \/ ReadError \/ NoWatchdog \/ ChunkDone
    BY <2>1, <2>3, QuietStep
       DEF TimePasses, Stop, ReadChunk, ReadError, NoWatchdog, ChunkDone, buffer
  <2>4. CASE Eof
    BY <2>1, <2>4, EofStep
  <2>5. CASE Watchdog
    BY <2>1, <2>5, WatchdogStep
  <2>6. CASE LineEnds
    BY <2>1, <2>6, LineEndsStep
  <2>7. CASE ChunkEnds
    BY <2>1, <2>7, ChunkEndsStep
  <2>8. CASE UNCHANGED vars
    BY <2>1, <2>8, QuietStep DEF vars
  <2> QED
    BY <2>2, <2>3, <2>4, <2>5, <2>6, <2>7, <2>8 DEF Next, Loop
<1> QED
  BY <1>1, <1>2, PTL DEF Spec

-----------------------------------------------------------------------------
\* The buffer stays within its cap, whatever the writer writes.
THEOREM TypeCorrect == Spec => []TypeOK
<1>1. IInv => TypeOK
  BY DEF IInv
<1> QED
  BY <1>1, Invariance, PTL

\* The decoder gets exactly the lines it should, whatever chunks they came in.
THEOREM FramingIsExact == Spec => []Framing
<1>1. IInv => Framing
  BY DEF IInv
<1> QED
  BY <1>1, Invariance, PTL

\* No line that began in the replay is taken for a live one.
THEOREM ReplayStaysReplay == Spec => []LiveIsNew
<1>1. IInv => LiveIsNew
  BY DEF IInv
<1> QED
  BY <1>1, Invariance, PTL
=============================================================================
