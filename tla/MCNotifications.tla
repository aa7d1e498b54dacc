--------------------------- MODULE MCNotifications ---------------------------
(* Notifications for TLC: per provider, how many lines and binds.           *)
EXTENDS Notifications

MCTypes(p) ==
    CASE p = "codex" -> {"task_started", "task_complete", "turn_aborted",
                              "approval_request"}
      [] p = "claude" -> {"UserPromptSubmit", "Stop"}
      [] p = "opencode" -> {"status busy", "status idle", "session.idle", "assistant.text"}
      [] OTHER -> {}

MCMaxLines(p) == CASE p = "kimi" -> 0 [] p = "claude" -> 2 [] OTHER -> 3

MCMaxBinds(p) == CASE p = "kimi" -> 3 [] OTHER -> 1
=============================================================================
