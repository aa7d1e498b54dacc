------------------------- MODULE MCTranscriptReplay -------------------------
EXTENDS TranscriptReplay

Reply(n) == <<[mark |-> "open", of |-> "reply"],
              [mark |-> "body", v |-> 1, nonce |-> n, entries |-> <<[id |-> 1, status |-> "reply"]>>],
              [mark |-> "close", of |-> "reply"]>>

Assistant(stop, uses, text) ==
    [type |-> "assistant", cwd |-> None, stop |-> stop, uses |-> uses, text |-> text]
User(results, content) ==
    [type |-> "user", cwd |-> None, results |-> results, content |-> content]

ClaudeLines ==
    {Assistant("tool_use", {[id |-> "c1", test |-> FALSE], [id |-> "c2", test |-> TRUE]}, Reply("n1")),
     Assistant("end_turn", {}, Reply("n1")),
     User(<<[id |-> "c1", failed |-> FALSE]>>, {"tool_result"}),
     User(<<[id |-> "c2", failed |-> TRUE]>>, {"tool_result", "text"}),
     [type |-> "ai-title", cwd |-> "d1", own |-> TRUE, title |-> "t1"],
     [type |-> "custom-title", cwd |-> None, own |-> TRUE, title |-> None]}

HookLines ==
    {[type |-> "PermissionRequest", tool |-> "Bash"], [type |-> "StopFailure", tool |-> None],
     [type |-> "PreToolUse", tool |-> "AskUserQuestion"], [type |-> "PreToolUse", tool |-> "Bash"]}

Codex(rec, type, id) ==
    [rec |-> rec, type |-> type, id |-> id, name |-> None, tool |-> None, cwd |-> None,
     ok |-> TRUE, test |-> FALSE, blank |-> FALSE, text |-> <<>>, ask |-> FALSE]

CodexLines ==
    {[Codex("session_meta", None, "s1") EXCEPT !.cwd = "d1"],
     [Codex("response_item", "function_call", "c1")
        EXCEPT !.name = "exec_command", !.tool = "exec_command", !.test = TRUE],
     [Codex("response_item", "custom_tool_call", "c2")
        EXCEPT !.name = "apply_patch", !.tool = "apply_patch"],
     Codex("response_item", "function_call_output", "c1"),
     Codex("event_msg", "exec_command_end", "c1"),
     [Codex("event_msg", "patch_apply_end", "c2") EXCEPT !.ok = FALSE],
     [Codex("event_msg", "task_complete", None) EXCEPT !.text = Reply("n1")],
     Codex("event_msg", "elicitation_request", None)}

KimiLines ==
    {[type |-> "TurnPrompt", user |-> TRUE],
     [type |-> "ToolCall", id |-> "c1", cwd |-> "d1"],
     [type |-> "ToolCall", id |-> "c2", cwd |-> None],
     [type |-> "ToolResult", id |-> "c1"],
     [type |-> "ToolResult", id |-> "c2"],
     [type |-> "ContentPart", text |-> Reply("n1")],
     [type |-> "StepEnd", reason |-> "end_turn"]}

OpenCodeLines ==
    {[type |-> "tool.before", id |-> "c1", args |-> TRUE, test |-> TRUE],
     [type |-> "tool.after", id |-> "c1", ok |-> FALSE, bash |-> TRUE],
     [type |-> "message.part.updated", id |-> "c1", status |-> "pending", args |-> FALSE, test |-> FALSE],
     [type |-> "message.part.updated", id |-> "c1", status |-> "completed", args |-> TRUE, test |-> FALSE],
     [type |-> "message.updated", id |-> "m1", role |-> "user"],
     [type |-> "session.status", status |-> "busy", session |-> "s1"],
     [type |-> "session.idle", session |-> "s1"],
     [type |-> "assistant.text", text |-> Reply("n1")],
     [type |-> "permission.asked"]}

\* Kimi's answers are written inside a turn, which a user's prompt begins.
InTurn(lines) ==
    \E i \in DOMAIN lines :
        /\ lines[i].type = "TurnPrompt"
        /\ \A j \in i..Len(lines) : lines[j].type # "StepEnd"

KimiAfter(lines) ==
    {line \in KimiLines : line.type \in {"ContentPart", "StepEnd"} => InTurn(lines)}

\* The plugin is told of a call's end after it was told of its beginning, and
\* of its beginning before the stream of parts shows its end.
Shown(lines, id, types) ==
    \E i \in DOMAIN lines : lines[i].type \in types /\ lines[i].id = id
ShownEnded(lines, id) ==
    \E i \in DOMAIN lines : lines[i].type = "message.part.updated" /\ lines[i].id = id
                            /\ lines[i].status = "completed"

OpenCodeAfter(lines) ==
    {line \in OpenCodeLines :
        CASE line.type = "tool.after" -> Shown(lines, line.id, {"tool.before"})
          [] line.type = "tool.before" -> ~ShownEnded(lines, line.id)
          [] line.type = "message.part.updated" /\ line.status = "completed" ->
               Shown(lines, line.id, {"tool.before", "message.part.updated"})
          [] OTHER -> TRUE}

LinesOf(p, lines) ==
    CASE p = "claude"   -> ClaudeLines
      [] p = "hooks"    -> HookLines
      [] p = "codex"    -> CodexLines
      [] p = "kimi"     -> KimiAfter(lines)
      [] p = "opencode" -> OpenCodeAfter(lines)

\* A corrupt record comes before the others, which it must not hide.
MCLines(p, lines) == LinesOf(p, lines) \cup IF lines = <<>> THEN {Broken} ELSE {}
=============================================================================
