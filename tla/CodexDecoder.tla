---------------------------- MODULE CodexDecoder ----------------------------
(***************************************************************************)
(* The decoder of a Codex rollout (codex/transcript.rs).                   *)
(*                                                                         *)
(* A line is a record with rec (the record type) and type (the payload's   *)
(* type), id (call or session), name (of the tool called), tool (the one   *)
(* the call stands for, which an exec script may hide), cwd (what a        *)
(* session_meta or the exec arguments name), ok, test, blank, text, ask.  *)
(***************************************************************************)
EXTENDS Replay

NewCodex == NewDecoder @@ [session |-> None]

\* A second session in one rollout starts every fold again.
process_session_meta(d, line) ==
    IF line.id = None THEN d
    ELSE IF d.session \in {None, line.id} THEN [d EXCEPT !.session = line.id]
    ELSE [d EXCEPT !.session = line.id, !.inFlight = {}, !.turns = 0, !.cwd = None,
                   !.lastPhase = None, !.replayPhase = None, !.activity = NoActivity,
                   !.testRun = None]

codex_phase_of(line) ==
    CASE line.rec = "event_msg" /\ line.type \in {"task_started", "user_message"}  -> "running"
      [] line.rec = "event_msg" /\ line.type \in {"task_complete", "turn_aborted"} -> "idle"
      [] OTHER -> None

start_call_as(d, line, mode, test) ==
    LET call == [id |-> line.id, mode |-> mode, test |-> test] IN
    IF line.id = None THEN d
    ELSE record_tool_call([d EXCEPT !.inFlight = {c \in @ : c.id # line.id} \cup {call}],
                          line.id, "running")

\* The mode of a call: which later line ends it.  A command's output does not.
start_function_call(d, line) ==
    start_call_as(d, line, IF line.tool = "exec_command" THEN "ExecCommandEnd" ELSE "Output",
                  line.tool = "exec_command" /\ line.test)

start_custom_tool_call(d, line) ==
    start_call_as(d, line,
        CASE line.tool = "apply_patch" -> "PatchApplyEnd"
          [] line.name = "exec" /\ line.tool = "exec_command" -> "ExecCommandEnd"
          [] OTHER -> "Output",
        FALSE)

calls_in_flight(d, line) == {c \in d.inFlight : c.id = line.id}

end_call(d, line, status) ==
    IF calls_in_flight(d, line) = {} THEN d
    ELSE record_tool_call([d EXCEPT !.inFlight = @ \ calls_in_flight(d, line)], line.id, status)

process_output_completion(d, line) ==
    IF \E c \in calls_in_flight(d, line) : c.mode # "Output" THEN d
    ELSE end_call(d, line, IF line.type = "custom_tool_call_output" /\ ~line.ok THEN "failed" ELSE "done")

process_exec_command_end(d, line) ==
    LET tested == \E c \in calls_in_flight(d, line) : c.test
    IN end_call(IF tested THEN submit(d, line.id) ELSE d, line,
                IF line.ok THEN "done" ELSE "failed")

process_patch_apply_end(d, line) == end_call(d, line, IF line.ok THEN "done" ELSE "failed")

\* The end of a turn ends every call still open.
flush_in_flight_tool_calls(d, status) ==
    FoldSet(LAMBDA c, acc : record_tool_call(acc, c.id, status),
            [d EXCEPT !.inFlight = {}], d.inFlight)

process_response_item(d, line) ==
    CASE line.type = "function_call" ->
           start_function_call(IF line.ask THEN record_attention(d) ELSE d, line)
      [] line.type = "custom_tool_call" -> start_custom_tool_call(d, line)
      [] line.type \in {"function_call_output", "custom_tool_call_output"} ->
           process_output_completion(d, line)
      [] OTHER -> d

process_event_msg(d, line) ==
    CASE line.type = "user_message" -> IF line.blank THEN d ELSE count_turn(d)
      [] line.type = "exec_command_end" -> process_exec_command_end(d, line)
      [] line.type = "patch_apply_end" -> process_patch_apply_end(d, line)
      [] line.type = "task_complete" -> emit_answers(flush_in_flight_tool_calls(d, "done"), line.text)
      [] line.type = "turn_aborted" -> flush_in_flight_tool_calls(d, "failed")
      [] line.type \in {"exec_approval_request", "elicitation_request"} -> record_attention(d)
      [] OTHER -> d

process_codex_line(decoder, line) ==
    LET known  == IF line.rec = "session_meta" THEN process_session_meta(decoder, line) ELSE decoder
        phased == IF codex_phase_of(line) = None \/ known.session = None THEN known
                  ELSE record_lifecycle(known, codex_phase_of(line))
        d == observe_cwd(phased, line.cwd)
    IN CASE line.rec = "response_item" -> process_response_item(d, line)
         [] line.rec = "event_msg" -> process_event_msg(d, line)
         [] OTHER -> d

\* Without a session id the settled phase has nobody to be sent for.
codex_caught_up(d) == caught_up(d, d.session # None)

codex_recover_replies(file, nonces) ==
    {n \in nonces : \E i \in DOMAIN file :
        /\ file[i].rec = "event_msg"
        /\ file[i].type = "task_complete"
        /\ extract_agent_reply(file[i].text).nonce = n}
=============================================================================
