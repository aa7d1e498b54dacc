---------------------------- MODULE TailService ----------------------------
(***************************************************************************)
(* The transcript tail (agent/adapter/base/transcript_tail_service.rs): it *)
(* reads a growing file in chunks, cuts it into lines and hands them to a  *)
(* decoder; at the end of the file it tells the decoder that it has caught *)
(* up, which ends the replay of what was there before.                     *)
(*                                                                         *)
(* The file is a sequence of characters told apart only by what the loop   *)
(* does with them.  The buffered part of a line is always the end of what  *)
(* was read, so it is given by the position it starts behind.              *)
(***************************************************************************)
EXTENDS Naturals, Sequences

CONSTANTS
    MaxPartial, \* MAX_PARTIAL_BYTES
    Chunk,      \* READ_CHUNK_BYTES
    FileBound   \* model bound: characters the writer writes

ASSUME TailAssumption ==
    /\ MaxPartial \in Nat \ {0} /\ Chunk \in Nat \ {0} /\ FileBound \in Nat

\* A line break, a character of a line, a blank, a byte that is no UTF-8.
Chars == {"nl", "text", "blank", "bad"}

VARIABLES
    file,     \* what the writer has written
    upto,     \* how much of it the reader has returned
    pos,      \* how much of that process_chunk has gone through
    partial,  \* the buffered part of a line starts behind this position
    skip,     \* skip_until_newline
    pc,       \* the loop: about to read, in process_chunk, at the watchdog, stopped
    silent,   \* no byte for STALE_PARTIAL_WATCHDOG
    lines,    \* the lines decoded: where each lies, and whether as a live one
    live,     \* the decoder has been told that it caught up
    boundary, \* history: the position at which it was told first
    cuts      \* history: the positions where the watchdog dropped a line

buffer  == <<partial, skip>>
decoder == <<lines, live, boundary>>
vars == <<file, upto, pos, buffer, pc, silent, decoder, cuts>>

Init ==
    /\ file = <<>> /\ upto = 0 /\ pos = 0 /\ partial = 0 /\ skip = FALSE
    /\ pc = "read" /\ silent = FALSE
    /\ lines = <<>> /\ live = FALSE /\ boundary = 0 /\ cuts = {}

Stuck == partial < pos \/ skip

-----------------------------------------------------------------------------
Write(c) ==
    /\ Len(file) < FileBound
    /\ file' = Append(file, c)
    /\ UNCHANGED <<upto, pos, buffer, pc, silent, decoder, cuts>>

TimePasses ==
    /\ silent' = TRUE
    /\ UNCHANGED <<file, upto, pos, buffer, pc, decoder, cuts>>

Stop ==
    /\ pc = "read" /\ pc' = "stopped"
    /\ UNCHANGED <<file, upto, pos, buffer, silent, decoder, cuts>>

ReadChunk ==
    /\ pc = "read" /\ upto < Len(file)
    /\ \E n \in 1 .. Chunk : upto + n <= Len(file) /\ upto' = upto + n
    /\ silent' = FALSE
    /\ pc' = "chunk"
    /\ UNCHANGED <<file, pos, buffer, decoder, cuts>>

CatchUp ==
    /\ live' = TRUE
    /\ boundary' = IF live THEN boundary ELSE pos

\* Mutant: the end of the file counts as caught up in the middle of a line.
EofMidLine ==
    /\ pc = "read" /\ upto = Len(file)
    /\ CatchUp
    /\ pc' = "watchdog"
    /\ UNCHANGED <<file, upto, pos, buffer, silent, lines, cuts>>

Eof ==
    /\ pc = "read" /\ upto = Len(file)
    /\ IF Stuck THEN UNCHANGED <<live, boundary>> ELSE CatchUp
    /\ pc' = "watchdog"
    /\ UNCHANGED <<file, upto, pos, buffer, silent, lines, cuts>>

ReadError ==
    /\ pc = "read" /\ pc' = "watchdog"
    /\ UNCHANGED <<file, upto, pos, buffer, silent, decoder, cuts>>

\* Mutant: the rest of an over-long line is still skipped after a cut.
WatchdogKeepsSkip ==
    /\ pc = "watchdog" /\ Stuck /\ silent
    /\ partial' = pos /\ UNCHANGED skip
    /\ CatchUp
    /\ cuts' = cuts \cup {pos}
    /\ silent' = FALSE /\ pc' = "read"
    /\ UNCHANGED <<file, upto, pos, lines>>

\* A line that got no byte for long is dropped and the decoder told anyway.
Watchdog ==
    /\ pc = "watchdog" /\ Stuck /\ silent
    /\ partial' = pos /\ skip' = FALSE
    /\ CatchUp
    /\ cuts' = cuts \cup {pos}
    /\ silent' = FALSE /\ pc' = "read"
    /\ UNCHANGED <<file, upto, pos, lines>>

NoWatchdog ==
    /\ pc = "watchdog" /\ ~(Stuck /\ silent)
    /\ pc' = "read"
    /\ UNCHANGED <<file, upto, pos, buffer, silent, decoder, cuts>>

-----------------------------------------------------------------------------
(* process_chunk: one step per turn of its loop.                           *)

Breaks == {i \in pos + 1 .. upto : file[i] = "nl"}

FirstBreak(end) == end \in Breaks /\ \A i \in Breaks : end <= i

\* decode_line gets what is valid UTF-8 and not blank.
Decoded(from, to) ==
    /\ \A i \in from + 1 .. to : file[i] # "bad"
    /\ \E i \in from + 1 .. to : file[i] = "text"

\* Mutant: the size is only checked while no line break has come.
LineEndsUnchecked ==
    /\ pc = "chunk"
    /\ \E end \in pos + 1 .. upto :
         /\ FirstBreak(end)
         /\ pos' = end /\ partial' = end /\ skip' = FALSE
         /\ lines' = IF ~skip /\ Decoded(partial, end)
                       THEN Append(lines, [from |-> partial, to |-> end, live |-> live])
                       ELSE lines
    /\ UNCHANGED <<file, upto, pc, silent, live, boundary, cuts>>

\* A line break: the line is decoded, unless it is too long or being skipped.
LineEnds ==
    /\ pc = "chunk"
    /\ \E end \in pos + 1 .. upto :
         /\ FirstBreak(end)
         /\ pos' = end /\ partial' = end /\ skip' = FALSE
         /\ lines' = IF ~skip /\ end - partial <= MaxPartial /\ Decoded(partial, end)
                       THEN Append(lines, [from |-> partial, to |-> end, live |-> live])
                       ELSE lines
    /\ UNCHANGED <<file, upto, pc, silent, live, boundary, cuts>>

\* No line break in the rest of the chunk: it is buffered, or dropped with what
\* was buffered if that gets too long.
ChunkEnds ==
    /\ pc = "chunk" /\ pos < upto /\ Breaks = {}
    /\ pos' = upto
    /\ skip' = (skip \/ upto - partial > MaxPartial)
    /\ partial' = IF skip' THEN upto ELSE partial
    /\ UNCHANGED <<file, upto, pc, silent, decoder, cuts>>

ChunkDone ==
    /\ pc = "chunk" /\ pos = upto /\ pc' = "read"
    /\ UNCHANGED <<file, upto, pos, buffer, silent, decoder, cuts>>

-----------------------------------------------------------------------------
Loop ==
    \/ ReadChunk \/ Eof \/ ReadError \/ Watchdog \/ NoWatchdog
    \/ LineEnds \/ ChunkEnds \/ ChunkDone

Next == Loop \/ Stop \/ TimePasses \/ \E c \in Chars : Write(c)

Spec == Init /\ [][Next]_vars

\* The thread runs on and time passes; nothing makes a read succeed.
FairSpec == Spec /\ WF_vars(Loop) /\ WF_vars(TimePasses)

-----------------------------------------------------------------------------
(* Properties.                                                             *)

\* Every variable has its type, and the buffer stays within its cap.
TypeOK ==
    /\ file \in Seq(Chars)
    /\ upto \in 0 .. Len(file) /\ pos \in 0 .. upto /\ partial \in 0 .. pos
    /\ pos - partial <= MaxPartial
    /\ skip \in BOOLEAN /\ silent \in BOOLEAN
    /\ pc \in {"read", "chunk", "watchdog", "stopped"}
    /\ lines \in Seq([from : Nat, to : Nat, live : BOOLEAN])
    /\ live \in BOOLEAN /\ boundary \in 0 .. pos
    /\ cuts \subseteq 0 .. pos

\* Where a line of the file, or what a cut left of one, begins.
Starts == {0} \cup cuts \cup {i \in 1 .. pos : file[i] = "nl"}

\* What should be decoded: a line of one start only that is not too long.
Whole(from, to) ==
    /\ from \in Starts /\ from < to /\ to <= pos /\ file[to] = "nl"
    /\ \A i \in from + 1 .. to - 1 : i \notin Starts
    /\ to - from <= MaxPartial /\ Decoded(from, to)

\* The lines the decoder got are, in order, exactly the lines of what was read
\* that are neither too long, nor blank, nor broken: independent of the chunks
\* they came in, of where a line lay across reads, and with nothing lost behind
\* a line that was dropped (process_chunk).
Framing ==
    /\ \A i \in DOMAIN lines : Whole(lines[i].from, lines[i].to)
    /\ \A i, j \in DOMAIN lines : i < j => lines[i].to <= lines[j].from
    /\ \A from, to \in 0 .. pos :
         Whole(from, to) =>
             \E i \in DOMAIN lines : lines[i].from = from /\ lines[i].to = to

\* A line taken for a live one began after the decoder was told that the replay
\* is over (run: "classify the straddling line as a live event").
LiveIsNew ==
    \A i \in DOMAIN lines :
        IF lines[i].live THEN boundary <= lines[i].from
                         ELSE live => lines[i].to <= boundary

\* The decoder does not stay cut off in the middle of a line, not even when the
\* writer died there and every read fails (the stale-partial watchdog).
Unblocks == pc # "stopped" /\ Stuck ~> ~Stuck \/ pc = "stopped"

\* A line handed to the decoder is a whole line of the file (on_caught_up:
\* "corrupt or truncated lines are never delivered as events").
NeverTruncated ==
    \A i \in DOMAIN lines :
        lines[i].from = 0 \/ file[lines[i].from] = "nl"
=============================================================================
