--------------------------- MODULE OpenCodeDecoder ---------------------------
(***************************************************************************)
(* The decoder of the lines the OpenCode plugin writes                     *)
(* (opencode/transcript.rs).                                               *)
(*                                                                         *)
(* A line is a record with type and, by type:                              *)
(*   tool.before   id, args (whether the preview has text), bash, test     *)
(*   tool.after    id, ok, bash                                            *)
(*   message.part.updated  id, status, args, test                          *)
(*   message.updated  id, role                                             *)
(*   session.status status, session;  session.idle, session.error session  *)
(*   session.updated cwd;  assistant.text text;   permission.asked         *)
(***************************************************************************)
EXTENDS Replay

\* seed: the cwd the watcher was started with, which is already on the card.
NewOpenCode(seed) ==
    [NewDecoder EXCEPT !.cwd = seed]
    @@ [meta |-> {}, emitted |-> {}, resolved |-> {}, seenTurns |-> {},
        session |-> None, turnActive |-> FALSE]

opencode_call(calls, id) == {c \in calls : c.id = id}

\* Metadata outlives the call's display: a tool.after may come after its part.
record_tool_metadata(d, id, args, test, expectsAfter) ==
    LET old == opencode_call(d.meta, id)
        kept == \E c \in old : c.args
        new == [id |-> id, args |-> args \/ kept,
                test |-> IF kept THEN \E c \in old : c.test ELSE test,
                after |-> expectsAfter \/ \E c \in old : c.after]
    IN [d EXCEPT !.meta = (@ \ old) \cup {new}]

\* tool.before brings the arguments that the pending part lacked: sent again.
start_opencode_call(d, id, args, test, expectsAfter) ==
    LET upgraded == args /\ \E c \in d.inFlight : c.id = id /\ ~c.args
        kept == IF upgraded THEN {} ELSE opencode_call(d.inFlight, id)
        here == [d EXCEPT !.inFlight = {c \in @ : c.id # id}
                                       \cup IF kept = {} THEN {[id |-> id, args |-> args]} ELSE kept]
        noted == record_tool_metadata(here, id, args, test, expectsAfter)
        first == <<id, "running">> \notin d.emitted
        sent == [noted EXCEPT !.emitted = @ \cup {<<id, "running">>}]
    IN IF first \/ upgraded THEN record_tool_call(sent, id, "running") ELSE sent

\* Mutant: the same end of a call is sent every time it is reported.
FinishesAgain(d, id, status) ==
    record_tool_call([d EXCEPT !.inFlight = {c \in @ : c.id # id}], id, status)

\* Each end of a call is sent once.
finish_opencode_call(d, id, status) ==
    LET closed == [d EXCEPT !.inFlight = {c \in @ : c.id # id},
                            !.emitted = @ \cup {<<id, status>>}]
    IN IF <<id, status>> \in d.emitted THEN closed
       ELSE record_tool_call(closed, id, status)

forget_metadata(d, id) == [d EXCEPT !.meta = {c \in @ : c.id # id}]

\* The part stream may end only the calls that tool.after will not.
finish_tool_call_from_part_update(d, id, status) ==
    IF (\E c \in d.meta : c.id = id /\ c.after) \/ id \in d.resolved THEN d
    ELSE forget_metadata(finish_opencode_call(d, id, status), id)

maybe_submit_test_run(d, id) ==
    IF \E c \in d.meta : c.id = id /\ c.args /\ c.test THEN submit(d, id) ELSE d

finish_tool_call_from_after(d, line) ==
    LET tested == IF line.bash THEN maybe_submit_test_run(d, line.id) ELSE d
        ended == finish_opencode_call(tested, line.id, IF line.ok THEN "done" ELSE "failed")
    IN forget_metadata([ended EXCEPT !.resolved = @ \cup {line.id}], line.id)

process_part_updated(d, line) ==
    CASE line.status \in {"pending", "running"} ->
           start_opencode_call(d, line.id, line.args, line.test, FALSE)
      [] line.status = "completed" -> finish_tool_call_from_part_update(d, line.id, "done")
      [] line.status = "error"     -> finish_tool_call_from_part_update(d, line.id, "failed")
      [] OTHER -> d

\* A user's message counts once, however often it is updated.
process_message_updated(d, line) ==
    IF line.role # "user" \/ line.id \in d.seenTurns THEN d
    ELSE count_turn([d EXCEPT !.seenTurns = @ \cup {line.id}])

finish_turn(d) ==
    IF d.turnActive THEN record_lifecycle([d EXCEPT !.turnActive = FALSE], "idle") ELSE d

process_session_status(d, line) ==
    LET here == IF d.session = line.session THEN d
                ELSE [d EXCEPT !.session = line.session, !.lastPhase = None]
    IN CASE line.status \in {"busy", "retry"} ->
              record_lifecycle([here EXCEPT !.turnActive = TRUE], "running")
         [] line.status = "idle" -> finish_turn(here)
         [] OTHER -> here

process_session_error(d) ==
    IF d.turnActive
    THEN record_lifecycle([record_attention(d) EXCEPT !.turnActive = FALSE], "idle")
    ELSE d

\* OpenCode's reviews are not read, only its replies.
process_assistant_text(d, line) ==
    LET reply == extract_agent_reply(line.text) IN
    IF d.live /\ reply.found THEN Emit(d, [kind |-> "reply", nonce |-> reply.nonce]) ELSE d

\* The plugin's line before a call has its arguments and starts it anew.
start_tool_call_from_before(d, line) == start_opencode_call(d, line.id, line.args, line.test, TRUE)

process_session_event(d, line) == observe_cwd(d, line.cwd)

process_attention(d) == record_attention(d)

process_opencode_line(d, line) ==
    CASE line.type = "tool.before"          -> start_tool_call_from_before(d, line)
      [] line.type = "tool.after"           -> finish_tool_call_from_after(d, line)
      [] line.type = "message.updated"      -> process_message_updated(d, line)
      [] line.type = "message.part.updated" -> process_part_updated(d, line)
      [] line.type = "assistant.text"       -> process_assistant_text(d, line)
      [] line.type \in {"session.created", "session.updated"} -> process_session_event(d, line)
      [] line.type = "session.status"       -> process_session_status(d, line)
      [] line.type = "session.idle"         -> finish_turn(d)
      [] line.type = "session.error"        -> process_session_error(d)
      [] line.type \in {"permission.asked", "question.asked"} -> process_attention(d)
      [] OTHER -> d

opencode_caught_up(d) == caught_up(d, d.session # None)
=============================================================================
