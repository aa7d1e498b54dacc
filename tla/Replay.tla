------------------------------- MODULE Replay -------------------------------
(***************************************************************************)
(* What every transcript decoder shares (agent/events.rs and the test-run  *)
(* emitter): while it replays a file from its beginning it folds tool      *)
(* calls, the phase and the test run into a summary; once it has reached   *)
(* the end of the file it sends what it decodes at once.                   *)
(*                                                                         *)
(* A decoder is a record d.  d.out holds the events its last step sent.    *)
(***************************************************************************)
EXTENDS Naturals, Sequences, SequencesExt, FiniteSetsExt

CONSTANT RecentLimit   \* RECENT_TOOL_CALLS_LIMIT, the newest calls kept

None == "none"

-----------------------------------------------------------------------------
(* The reply and review blocks an agent writes into its answer             *)
(* (agent/reply.rs, agent/review.rs).  A text is a sequence of marks:      *)
(* [mark |-> "open" or "close", of |-> "reply" or "review"], or            *)
(* [mark |-> "body", ...], the JSON between two markers: v, nonce,         *)
(* entries, and reviewer for a review.  A marker within a line of prose is *)
(* no mark.                                                                *)

NoBlock == [found |-> FALSE, complete |-> FALSE, at |-> 0]

\* One mark of the text: where the open block begins, where the last complete one.
scan_mark(text, kind, acc, i) ==
    IF text[i].mark = "open" /\ text[i].of = kind THEN [acc EXCEPT !.open = i]
    ELSE IF text[i].mark = "close" /\ text[i].of = kind /\ acc.open # 0
         THEN [last |-> acc.open, open |-> 0]
         ELSE acc

\* The last complete block, else the one left open at the end.  An opening
\* marker inside an open block starts the block again.
select_protocol_block(text, kind) ==
    LET scan == FoldLeft(LAMBDA acc, i : scan_mark(text, kind, acc, i),
                         [last |-> 0, open |-> 0], [i \in 1..Len(text) |-> i])
    IN IF scan.last # 0 THEN [found |-> TRUE, complete |-> TRUE, at |-> scan.last + 1]
       ELSE IF scan.open # 0 THEN [found |-> TRUE, complete |-> FALSE, at |-> scan.open + 1]
       ELSE NoBlock

IsBody(text, i) == i \in DOMAIN text /\ text[i].mark = "body"

\* Replies: at least one, positive ids without repetition, known statuses.
valid_reply(body) ==
    /\ body.v = 1
    /\ body.nonce # None
    /\ body.entries # <<>>
    /\ \A i, j \in DOMAIN body.entries :
         /\ body.entries[i].id > 0
         /\ body.entries[i].status \in {"reply", "clarify", "resolved", "deferred", "rejected",
                                        "answered", "changed", "skipped"}
         /\ i # j => body.entries[i].id # body.entries[j].id

\* Whatever names a nonce can be matched to its question, even when malformed.
reply_of(text, block) ==
    LET body  == IF IsBody(text, block.at) THEN text[block.at] ELSE [nonce |-> None]
    IN [kind |-> "reply", found |-> block.found, nonce |-> body.nonce,
        structured |-> block.complete /\ IsBody(text, block.at) /\ valid_reply(body)]
extract_agent_reply(text) == reply_of(text, select_protocol_block(text, "reply"))

\* A finding on a line or a range names its side; a range is not empty.
valid_finding(f) ==
    /\ f.category \in {"bug", "suggestion", "change", "question"}
    /\ f.path # None
    /\ CASE f.scope = "file" -> TRUE
         [] f.scope = "line" \/ (f.scope = "range" /\ f.from = 0 /\ f.to = 0 /\ f.line > 0) ->
              f.side # None /\ f.line > 0
         [] f.scope = "range" -> f.side # None /\ 0 < f.from /\ f.from <= f.to
         [] OTHER -> FALSE

\* A bad finding is left out and counted; it does not spoil the others.
review_of(text, block) ==
    LET whole == block.complete /\ IsBody(text, block.at)
        body  == IF IsBody(text, block.at) THEN text[block.at]
                 ELSE [nonce |-> None, v |-> 0, reviewer |-> None, entries |-> <<>>]
        good  == whole /\ body.v = 1 /\ body.nonce # None /\ body.reviewer # None
        kept  == {i \in DOMAIN body.entries : valid_finding(body.entries[i])}
    IN [kind |-> "review", found |-> block.found, nonce |-> body.nonce, structured |-> good,
        findings |-> IF good THEN kept ELSE {},
        omitted |-> IF good THEN Len(body.entries) - Cardinality(kept) ELSE 0]
extract_agent_review(text) == review_of(text, select_protocol_block(text, "review"))

-----------------------------------------------------------------------------
(* The summary a replay folds, and what is sent live.                      *)

NoActivity == [total |-> 0, running |-> {}, recent |-> <<>>]

\* The fields every decoder has.  at is the time stamp of the line decoded.
NewDecoder ==
    [live |-> FALSE, lastPhase |-> None, replayPhase |-> None,
     activity |-> NoActivity, inFlight |-> {}, turns |-> 0, cwd |-> None,
     testRun |-> None, at |-> 0, out |-> <<>>]

Emit(d, event) == [d EXCEPT !.out = Append(@, event)]

ToolCall(d, id, status) ==
    [kind |-> "tool-call", id |-> id, status |-> status, at |-> d.at]

Newest(calls) ==
    IF Len(calls) <= RecentLimit THEN calls
    ELSE SubSeq(calls, Len(calls) - RecentLimit + 1, Len(calls))

record_running(activity, call) ==
    [activity EXCEPT !.running = {c \in @ : c.id # call.id} \cup {call}]

record_completed(activity, call) ==
    [total   |-> activity.total + 1,
     running |-> {c \in activity.running : c.id # call.id},
     recent  |-> Newest(Append(activity.recent, call))]

\* Two decoders' histories become one: counts add up, the newest calls stay.
merge(mine, other) ==
    [total   |-> mine.total + other.total,
     running |-> {c \in mine.running : \A o \in other.running : o.id # c.id}
                 \cup other.running,
     recent  |-> Newest(SortSeq(mine.recent \o other.recent,
                                LAMBDA a, b : a.at < b.at))]

into_summary(activity, turns, cwd) ==
    [kind |-> "replay-summary", total |-> activity.total,
     recent |-> activity.recent, turns |-> turns, cwd |-> cwd]

record_tool_call(d, id, status) ==
    LET call == ToolCall(d, id, status) IN
    IF d.live THEN Emit(d, call)
    ELSE IF status = "running"
         THEN [d EXCEPT !.activity = record_running(@, call)]
         ELSE [d EXCEPT !.activity = record_completed(@, call)]

\* A phase is sent only when it differs from the last one sent.
emit_lifecycle_on_change(d, phase) ==
    IF d.lastPhase = phase THEN d
    ELSE Emit([d EXCEPT !.lastPhase = phase], [kind |-> "lifecycle", phase |-> phase])

record_lifecycle(d, phase) ==
    IF d.live THEN emit_lifecycle_on_change(d, phase)
    ELSE [d EXCEPT !.replayPhase = phase]

record_attention(d) == IF d.live THEN Emit(d, [kind |-> "attention"]) ELSE d

\* A cwd the transcript reports: news only when it changes and only live.
observe_cwd(d, cwd) ==
    IF cwd = None \/ cwd = d.cwd THEN d
    ELSE LET moved == [d EXCEPT !.cwd = cwd] IN
         IF d.live THEN Emit(moved, [kind |-> "cwd", cwd |-> cwd]) ELSE moved

count_turn(d) ==
    LET counted == [d EXCEPT !.turns = @ + 1] IN
    IF d.live THEN Emit(counted, [kind |-> "turn", turns |-> counted.turns])
    ELSE counted

\* A turn has ended with this answer: its reply and review blocks are news, live.
emit_block(d, block) ==
    IF block.found THEN Emit(d, [kind |-> block.kind, nonce |-> block.nonce]) ELSE d
emit_answers(d, text) ==
    IF d.live THEN emit_block(emit_block(d, extract_agent_reply(text)), extract_agent_review(text))
    ELSE d

\* TestRunEmitter: of the runs in the history only the last is reported.
submit(d, run) ==
    IF d.live THEN Emit(d, [kind |-> "test-run", run |-> run])
    ELSE [d EXCEPT !.testRun = run]

finish_replay(d) ==
    IF d.testRun = None THEN d
    ELSE Emit([d EXCEPT !.testRun = None], [kind |-> "test-run", run |-> d.testRun])

\* The first end of file: the settled phase, the calls still running and
\* the summary, in this order.  mayTell: the session's id is known.
flush_phase(d, mayTell) ==
    IF d.replayPhase = None \/ ~mayTell THEN d
    ELSE [emit_lifecycle_on_change(d, d.replayPhase) EXCEPT !.replayPhase = None]

flush_running(d) ==
    [d EXCEPT !.out = @ \o SetToSeq(d.activity.running),
              !.activity.running = {}]

flush_summary(d) ==
    LET summary == into_summary(d.activity, d.turns, d.cwd)
        taken   == [d EXCEPT !.activity = NoActivity]
    IN IF summary.total > 0 \/ summary.turns > 0 \/ summary.cwd # None
       THEN Emit(taken, summary) ELSE taken

caught_up(d, mayTell) ==
    IF d.live THEN d
    ELSE [finish_replay(flush_summary(flush_running(flush_phase(d, mayTell))))
            EXCEPT !.live = TRUE]
=============================================================================
