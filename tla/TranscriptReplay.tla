-------------------------- MODULE TranscriptReplay --------------------------
(***************************************************************************)
(* A transcript, or the stream of Claude's hooks, the tails that follow it *)
(* one after the other, and the card they keep.  The agent appends lines;  *)
(* a tail reads the file from its beginning, is live once it has reached   *)
(* the end, and may be replaced by another one, which reads the same file  *)
(* from the beginning again.                                               *)
(***************************************************************************)
EXTENDS ClaudeDecoder, CodexDecoder, KimiDecoder, OpenCodeDecoder

CONSTANTS Providers,   \* the providers of the instance
          Lines(_, _), \* the lines each provider may write after a given file
          Nonces,      \* the questions whose answers may be asked for
          Seed,        \* the cwd the watcher is started with
          RingLimit,   \* TOOL_CALL_RING, the finished calls an entry keeps
          MaxLines, MaxTails

-----------------------------------------------------------------------------
(* The pane's entry in the telemetry store (daemon/store.rs), and what each *)
(* event does to it.                                                       *)

NoCwd == "none"

\* CwdSource is ordered: a transcript's cwd outranks the pane list's.
Source == {"None", "PaneList", "Transcript"}

NewCard == [state |-> "Idle", phase |-> NoCwd, title |-> NoCwd,
            cwd |-> NoCwd, source |-> "None", ring |-> <<>>, total |-> 0,
            open |-> {}, settled |-> {}]

\* A new session takes the pane: only the cwd stays, as a fallback.
replace_session(card) ==
    [NewCard EXCEPT !.cwd = card.cwd,
                    !.source = IF card.cwd = NoCwd THEN "None" ELSE "PaneList"]

set_pane_list_cwd(card, cwd) ==
    IF cwd = NoCwd \/ card.source = "Transcript" THEN card
    ELSE [card EXCEPT !.cwd = cwd, !.source = "PaneList"]

Latest(calls) ==
    IF Len(calls) <= RingLimit THEN calls
    ELSE SubSeq(calls, Len(calls) - RingLimit + 1, Len(calls))

record_lifecycle_event(card, phase) ==
    [card EXCEPT !.phase = phase,
                 !.state = IF phase = "running" THEN "Running"
                           ELSE IF phase = "idle" /\ @ = "Running" THEN "Idle"
                           ELSE @]

record_notification(card, reason) ==
    CASE reason = "turn-complete" -> [card EXCEPT !.state = "Finished"]
      [] reason = "agent-error"   -> [card EXCEPT !.state = "Error"]
      [] OTHER                    -> card

record_cwd(card, cwd) == [card EXCEPT !.cwd = cwd, !.source = "Transcript"]

\* Mutant: a result that was counted already is counted again.
CountsEveryResult(card, event) ==
    IF event.status = "running"
    THEN IF event.id \in card.settled THEN card
         ELSE [card EXCEPT !.open = @ \cup {event.id}]
    ELSE [card EXCEPT !.settled = @ \cup {event.id}, !.open = @ \ {event.id},
                      !.ring = Latest(Append(@, event.id)), !.total = @ + 1]

record_tool_call_event(card, event) ==
    IF event.id \in card.settled THEN card
    ELSE IF event.status = "running" THEN [card EXCEPT !.open = @ \cup {event.id}]
    ELSE [card EXCEPT !.settled = @ \cup {event.id}, !.open = @ \ {event.id},
                      !.ring = Latest(Append(@, event.id)), !.total = @ + 1]

\* A summary replaces the count and the ring and settles the ring's calls.
record_replay_summary(card, event) ==
    LET ids == [i \in 1..Len(event.recent) |-> event.recent[i].id]
        replayed == [card EXCEPT !.total = event.total, !.ring = Latest(ids),
                                 !.settled = @ \cup ToSet(Latest(ids))]
    IN IF event.cwd = NoCwd THEN replayed ELSE record_cwd(replayed, event.cwd)

record(card, event) ==
    CASE event.kind = "lifecycle"      -> record_lifecycle_event(card, event.phase)
      [] event.kind = "attention"      -> [card EXCEPT !.state = "Attention"]
      [] event.kind = "notification"   -> record_notification(card, event.reason)
      [] event.kind = "title"          -> [card EXCEPT !.title = event.title]
      [] event.kind = "cwd"            -> record_cwd(card, event.cwd)
      [] event.kind = "tool-call"      -> record_tool_call_event(card, event)
      [] event.kind = "replay-summary" -> record_replay_summary(card, event)
      [] OTHER                         -> card

record_all(card, events) == FoldLeft(record, card, events)
-----------------------------------------------------------------------------
VARIABLES provider,
          file,    \* the lines written so far
          tails,   \* the tails started so far
          card,    \* the pane's entry
          said     \* per line, how many times it was news

vars == <<provider, file, tails, card, said>>

-----------------------------------------------------------------------------
NewDecoderOf(p) ==
    CASE p = "claude"   -> NewClaude
      [] p = "hooks"    -> NewHooks
      [] p = "codex"    -> NewCodex
      [] p = "kimi"     -> with_replay("", Seed, TRUE)
      [] p = "opencode" -> NewOpenCode(Seed)

decode_line(p, d, line) ==
    CASE p = "claude"   -> process_claude_line(d, line)
      [] p = "hooks"    -> process_hook_line(d, line)
      [] p = "codex"    -> process_codex_line(d, line)
      [] p = "kimi"     -> process_kimi_line(d, line)
      [] p = "opencode" -> process_opencode_line(d, line)

on_caught_up(p, d) ==
    CASE p = "claude"   -> claude_caught_up(d)
      [] p = "hooks"    -> hooks_caught_up(d)
      [] p = "codex"    -> codex_caught_up(d)
      [] p = "kimi"     -> kimi_caught_up(d)
      [] p = "opencode" -> opencode_caught_up(d)

\* A line over MAX_PARTIAL_BYTES, or of bytes that are no UTF-8, is read by nobody.
Broken == [type |-> "broken"]

\* process_chunk hands a line over or drops it.
process_chunk(p, d, line) == IF line = Broken THEN d ELSE decode_line(p, d, line)

\* So does a scan of the whole file: a corrupt record hides no later one.
bounded_lines(lines) == SelectSeq(lines, LAMBDA line : line # Broken)

\* Kimi's and OpenCode's tails report the cwd they were given before they read.
StartEvents(p) ==
    IF p \in {"kimi", "opencode"} THEN <<[kind |-> "cwd", cwd |-> Seed]>> ELSE <<>>

\* What is told to somebody, not only kept: it must not be told again.
News == {"reply", "review", "attention", "notification"}
IsNews(events) == \E i \in DOMAIN events : events[i].kind \in News

Init ==
    /\ provider \in Providers
    /\ file = <<>>
    /\ tails = <<>>
    /\ card = NewCard
    /\ said = <<>>

\* The agent.
Write(line) ==
    /\ Len(file) < MaxLines
    /\ file' = Append(file, line)
    /\ said' = Append(said, 0)
    /\ UNCHANGED <<provider, tails, card>>

Current == Len(tails)

\* A thread that is done with what it has read.
Idle(i) == tails[i].pos = tails[i].upto /\ ~tails[i].atEnd

\* start_or_replace: the old tail is stopped and joined; when the whole
\* watcher is replaced it may still be at work on what it has read.  A rebind
\* gives the pane a new card, a change of its cwd does not.
StartTail(joined) ==
    /\ Len(tails) < MaxTails
    /\ joined => \A i \in DOMAIN tails : Idle(i)
    /\ tails' = Append(tails, [pos |-> 0, upto |-> 0, atEnd |-> FALSE, alone |-> joined,
                               dec |-> NewDecoderOf(provider)])
    /\ \E entry \in {card, replace_session(card)} :
         card' = record_all(entry, StartEvents(provider))
    /\ UNCHANGED <<provider, file, said>>

\* The thread looks at its stop flag before each read: only the last one reads.
ReadChunk ==
    /\ tails # <<>> /\ Idle(Current)
    /\ \E n \in {tails[Current].pos + 1, Len(file)} :
         /\ tails[Current].pos < n /\ n <= Len(file)
         /\ tails' = [tails EXCEPT ![Current].upto = n]
    /\ UNCHANGED <<provider, file, card, said>>

\* One line is decoded; its events reach the card in the order they are sent.
DecodeLine(i) ==
    /\ tails[i].pos < tails[i].upto
    /\ LET n == tails[i].pos + 1 IN
       \E d \in {process_chunk(provider, [tails[i].dec EXCEPT !.at = n], file[n])} :
          /\ tails' = [tails EXCEPT ![i].pos = n, ![i].dec = [d EXCEPT !.out = <<>>]]
          /\ card' = record_all(card, d.out)
          /\ said' = [said EXCEPT ![n] = @ + IF IsNews(d.out) THEN 1 ELSE 0]
    /\ UNCHANGED <<provider, file>>

\* The pane list reports the pane's cwd to the card, whatever the tails do.
PaneListed ==
    /\ card' = set_pane_list_cwd(card, Seed) /\ card' # card
    /\ UNCHANGED <<provider, file, tails, said>>

\* The first read that returns nothing ...
ReachEnd ==
    /\ tails # <<>> /\ Idle(Current)
    /\ ~tails[Current].dec.live /\ tails[Current].pos = Len(file)
    /\ tails' = [tails EXCEPT ![Current].atEnd = TRUE]
    /\ UNCHANGED <<provider, file, card, said>>

\* ... is followed by the summary, whatever the agent and an old tail did since.
CaughtUp(i) ==
    /\ tails[i].atEnd
    /\ LET d == on_caught_up(provider, tails[i].dec)
       IN /\ tails' = [tails EXCEPT ![i].atEnd = FALSE, ![i].dec = [d EXCEPT !.out = <<>>]]
          /\ card' = record_all(card, d.out)
    /\ UNCHANGED <<provider, file, said>>

Next ==
    \/ \E line \in Lines(provider, file) : Write(line)
    \/ \E joined \in BOOLEAN : StartTail(joined)
    \/ ReadChunk
    \/ PaneListed
    \/ ReachEnd
    \/ \E i \in DOMAIN tails : DecodeLine(i) \/ CaughtUp(i)

Spec == Init /\ [][Next]_vars
-----------------------------------------------------------------------------
\* A decoder that has been live from the first line on, and the card it keeps.
Heard(acc, d) ==
    [dec |-> [d EXCEPT !.out = <<>>], card |-> record_all(acc.card, d.out),
     told |-> acc.told \cup {d.out[i].nonce : i \in {j \in DOMAIN d.out : d.out[j].kind = "reply"}}]
LiveStep(acc, n) == Heard(acc, process_chunk(provider, [acc.dec EXCEPT !.at = n], file[n]))

Live == FoldLeft(LiveStep,
                 [dec  |-> [NewDecoderOf(provider) EXCEPT !.live = TRUE],
                  card |-> record_all(NewCard, StartEvents(provider)),
                  told |-> {}],
                 [n \in 1..Len(file) |-> n])

\* The tail is live and at the end, and no older one was at work beside it.
Settled ==
    /\ tails # <<>>
    /\ tails[Current].alone /\ tails[Current].dec.live /\ tails[Current].pos = Len(file)

TypeOK ==
    /\ provider \in Providers
    /\ Len(file) <= MaxLines /\ Len(said) = Len(file)
    /\ Len(tails) <= MaxTails
    /\ \A i \in DOMAIN tails :
         /\ 0 <= tails[i].pos /\ tails[i].pos <= tails[i].upto /\ tails[i].upto <= Len(file)
         /\ tails[i].dec.out = <<>>
         /\ Len(tails[i].dec.activity.recent) <= RecentLimit
    /\ Len(card.ring) <= RingLimit
    /\ card.source \in Source
    /\ card.state \in {"Idle", "Running", "Attention", "Finished", "Error"}

\* The cwd is the transcript's once the transcript has told one.
Seen(entry) == <<entry.total, entry.ring, entry.phase,
                 IF entry.source = "Transcript" THEN entry.cwd ELSE NoCwd>>

\* However a file falls into history and news, and however often its tail is
\* restarted, the card shows what it would show had everything been news.
ReplayEqualsLive == Settled => Seen(card) = Seen(Live.card)

\* While a replaced tail still works on what it read, no call is counted twice,
\* unless there were more calls than a summary names.
CountedOnce ==
    card.total > 0 => Live.card.total \notin {n \in 0 .. RecentLimit : n < card.total}

\* An answer, a request for attention, a finished turn is told at most once,
\* however often the file is read.
SaidOnce == \A n \in DOMAIN said : said[n] <= 1

\* However tails overlap and files are read again, nothing tells twice on the card
\* (store.rs, sink.rs).
OnceOnly == CountedOnce /\ SaidOnce

recover_replies ==
    LET scanned == bounded_lines(file) IN
    CASE provider = "claude" -> claude_recover_replies(scanned, Nonces)
      [] provider = "codex"  -> codex_recover_replies(scanned, Nonces)
      [] provider = "kimi"   -> kimi_recover_replies(scanned, Nonces)

\* Reading the file again for an answer finds exactly the answers that a live
\* tail sends.  It depends on the file alone: looked at before a tail starts.
RecoveryAgrees ==
    tails = <<>> /\ provider \in {"claude", "codex", "kimi"} =>
        recover_replies = Live.told \cap Nonces
=============================================================================
