----------------------------- MODULE KimiDecoder -----------------------------
(***************************************************************************)
(* The decoder of one Kimi wire (kimi/transcript.rs).  The main agent's    *)
(* wire carries turns, phases, texts and cwd; a sub-agent's only calls.    *)
(*                                                                         *)
(* A line is a record with type and, by type:                              *)
(*   TurnPrompt user;  ToolCall id, cwd;  ToolResult id;                   *)
(*   ContentPart text;  StepEnd reason                                     *)
(***************************************************************************)
EXTENDS Replay

\* A wire found after the session's summary was sent is live from its start.
with_replay(prefix, seed, replaying) ==
    [NewDecoder EXCEPT !.cwd = seed, !.live = ~replaying]
    @@ [prefix |-> prefix, turnText |-> <<>>, body |-> FALSE]

is_main(d) == d.prefix = ""

tool_use_id(d, id) == <<d.prefix, id>>

process_turn_prompt(d, line) ==
    IF ~is_main(d) \/ ~line.user THEN d
    ELSE record_lifecycle(count_turn([d EXCEPT !.turnText = <<>>, !.body = FALSE]), "running")

kimi_record_cwd(d, line) == IF is_main(d) THEN observe_cwd(d, line.cwd) ELSE d

process_tool_call(d, line) ==
    IF line.id \in d.inFlight THEN d
    ELSE LET here == kimi_record_cwd(d, line)
         IN record_tool_call([here EXCEPT !.inFlight = @ \cup {line.id}],
                             tool_use_id(d, line.id), "running")

process_kimi_result(d, line) ==
    IF line.id \notin d.inFlight THEN d
    ELSE record_tool_call([d EXCEPT !.inFlight = @ \ {line.id}], tool_use_id(d, line.id), "done")

\* The texts of a turn are kept until it ends, for its notification and reply.
process_content_part(d, line) ==
    IF ~is_main(d) THEN d
    ELSE [d EXCEPT !.turnText = @ \o line.text, !.body = TRUE]

\* An answer with both kinds of block is taken for neither.
flush_turn_outputs(d) ==
    LET silent == [d EXCEPT !.turnText = <<>>]
        both == extract_agent_reply(d.turnText).found /\ extract_agent_review(d.turnText).found
    IN IF both THEN silent ELSE emit_answers(silent, d.turnText)

process_step_end(d, line) ==
    IF ~is_main(d) \/ line.reason # "end_turn" THEN d
    ELSE LET said == [d EXCEPT !.body = FALSE]
             told == IF d.live THEN Emit(said, [kind |-> "notification", reason |-> "turn-complete"])
                     ELSE said
         IN record_lifecycle(flush_turn_outputs(told), "idle")

process_kimi_line(d, line) ==
    CASE line.type = "TurnPrompt"  -> process_turn_prompt(d, line)
      [] line.type = "ToolCall"    -> process_tool_call(d, line)
      [] line.type = "ToolResult"  -> process_kimi_result(d, line)
      [] line.type = "ContentPart" -> process_content_part(d, line)
      [] line.type = "StepEnd"     -> process_step_end(d, line)
      [] OTHER -> d

\* With a wire alone in its session the barrier opens at once (KimiSupervisor).
kimi_caught_up(d) == caught_up(d, TRUE)

\* The texts of the finished turns that a user's prompt began.
recover_turn_texts(file) ==
    LET step(acc, line) ==
          IF line.type = "TurnPrompt" /\ line.user THEN [acc EXCEPT !.inTurn = TRUE, !.text = <<>>]
          ELSE IF ~acc.inTurn THEN acc
          ELSE IF line.type = "ContentPart" THEN [acc EXCEPT !.text = @ \o line.text]
          ELSE IF line.type = "StepEnd" /\ line.reason = "end_turn"
               THEN [inTurn |-> FALSE, text |-> <<>>, turns |-> acc.turns \cup {acc.text}]
               ELSE acc
    IN FoldLeft(step, [inTurn |-> FALSE, text |-> <<>>, turns |-> {}], file).turns

kimi_recover_replies(file, nonces) ==
    {n \in nonces : \E text \in recover_turn_texts(file) :
        /\ extract_agent_reply(text).nonce = n
        /\ ~extract_agent_review(text).found}
=============================================================================
