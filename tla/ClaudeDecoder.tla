---------------------------- MODULE ClaudeDecoder ----------------------------
(***************************************************************************)
(* The decoder of a Claude Code transcript (claude_code/transcript.rs).    *)
(*                                                                         *)
(* A line is a record with type, cwd and, by type:                         *)
(*   assistant    stop (stop_reason), uses (set of tool_use calls), text   *)
(*   user         results (seq. of tool results), content (set of blocks)  *)
(*   tool_result  result                                                   *)
(*   ai-title, custom-title   own (names this session), title              *)
(* A call is [id, test]: test says that its command runs tests.            *)
(***************************************************************************)
EXTENDS Replay

NewClaude == NewDecoder @@ [titleMemo |-> None]

\* A prompt is a message with a block that is neither a tool's result nor blank.
is_user_prompt(content) == content \ {"tool_result", "blank"} # {}

Ended(line) == line.stop \in {"end_turn", "stop_sequence", "max_tokens"}

phase_of(line) ==
    CASE line.type = "assistant" /\ line.stop = "tool_use" -> "running"
      [] line.type = "assistant" /\ Ended(line) -> "idle"
      [] line.type = "user" /\ is_user_prompt(line.content) -> "running"
      [] OTHER -> None

start_call(d, use) ==
    record_tool_call([d EXCEPT !.inFlight = {c \in @ : c.id # use.id} \cup {use}],
                     use.id, "running")

process_assistant_message(d, line) == FoldSet(LAMBDA use, acc : start_call(acc, use), d, line.uses)

\* Mutant: an answer is read from any message of the turn.
ReadsEveryMessage(d, line) == emit_answers(d, line.text)

\* An answer is read at the end of a turn only.
emit_reply_if_present(d, line) == IF Ended(line) THEN emit_answers(d, line.text) ELSE d

\* The result of a call nobody saw starting is dropped.
process_tool_result(d, result) ==
    LET calls == {c \in d.inFlight : c.id = result.id}
        closed == [d EXCEPT !.inFlight = @ \ calls]
        tested == IF \E c \in calls : c.test THEN submit(closed, result.id) ELSE closed
    IN IF calls = {} THEN d
       ELSE record_tool_call(tested, result.id, IF result.failed THEN "failed" ELSE "done")

process_user_message(d, line) ==
    LET settled == FoldLeft(process_tool_result, d, line.results) IN
    IF is_user_prompt(line.content) THEN count_turn(settled) ELSE settled

\* An AI title that says nothing new is dropped; a blank title clears one.
emit_title(d, title, userRenamed) ==
    IF \/ title = d.titleMemo /\ (title = None \/ ~userRenamed)
    THEN d
    ELSE Emit([d EXCEPT !.titleMemo = title], [kind |-> "title", title |-> title])

process_claude_line(decoder, line) ==
    LET moved == observe_cwd(decoder, line.cwd)
        d == IF phase_of(line) = None THEN moved ELSE record_lifecycle(moved, phase_of(line))
    IN CASE line.type = "assistant" ->
              emit_reply_if_present(process_assistant_message(d, line), line)
         [] line.type = "user" -> process_user_message(d, line)
         [] line.type = "tool_result" -> process_tool_result(d, line.result)
         [] line.type \in {"ai-title", "custom-title"} /\ line.own ->
              emit_title(d, line.title, line.type = "custom-title")
         [] OTHER -> d

claude_caught_up(d) == caught_up(d, TRUE)

\* The reply, if any, that the file shows for each of the nonces asked for.
claude_recover_replies(file, nonces) ==
    {n \in nonces : \E i \in DOMAIN file :
        /\ file[i].type = "assistant"
        /\ Ended(file[i])
        /\ extract_agent_reply(file[i].text).nonce = n}
-----------------------------------------------------------------------------
(* The stream Claude's hooks append to (claude_code/hooks.rs): what asks   *)
(* for the operator's attention, from the first end of file on.  A line has*)
(* a type (hook_event_name) and a tool (tool_name).                        *)

NewHooks == NewDecoder

\* The other hooks of the stream ask for nothing.
asks_for_attention(line) ==
    \/ line.type \in {"PermissionRequest", "StopFailure"}
    \/ line.type = "PreToolUse" /\ line.tool = "AskUserQuestion"

process_hook_line(d, line) == IF asks_for_attention(line) THEN record_attention(d) ELSE d

\* The stream has no summary.
hooks_caught_up(d) == [d EXCEPT !.live = TRUE]
=============================================================================
