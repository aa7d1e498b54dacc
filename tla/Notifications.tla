---------------------------- MODULE Notifications ----------------------------
(***************************************************************************)
(* The notification watcher service (agent/notification.rs) with the       *)
(* daemon's loop that binds and unbinds panes through it                   *)
(* (agents/sidecar.rs, daemon/run.rs), its worker thread, the file         *)
(* watcher's callback, the three-second timer and the agent that writes    *)
(* the source.                                                             *)
(*                                                                         *)
(* All panes share one source file, and all run the same provider; Kimi's  *)
(* source is not read, its registration owns the pane's transcript tail.   *)
(***************************************************************************)
EXTENDS Naturals, Sequences, SequencesExt, FiniteSets

CONSTANTS Panes, Providers,
          Types(_),       \* the types of line each provider writes
          QueueLimit,     \* EVENT_QUEUE_CAPACITY
          RecentKeys,     \* RECENT_DEDUPE_KEYS
          MaxLines(_), MaxBinds(_),   \* bounds, per provider
          MaxTurns

ASSUME NotificationAssumption ==
    /\ Providers \subseteq {"claude", "codex", "kimi", "opencode"}
    /\ QueueLimit \in Nat \ {0}

\* Each provider writes its own lines, or others that are not classified.
ASSUME TypesAssumption ==
    /\ Types("codex") \subseteq {"task_started", "task_complete", "turn_aborted", "approval_request",
                                "request_user_input", "elicitation_request", "other", "oversize"}
    /\ Types("claude") \subseteq {"UserPromptSubmit", "Stop", "StopFailure", "PermissionRequest",
                                 "AskUserQuestion", "other", "oversize"}
    /\ Types("opencode") \subseteq {"status busy", "status idle", "assistant.text", "session.idle",
                                   "session.error", "permission.asked", "question.asked", "other", "oversize"}

-----------------------------------------------------------------------------
(* What is made of the lines of one source: each line becomes a signal, and *)
(* a registration turns the signals into at most one notification per turn. *)
(*                                                                          *)
(* A line is a record: type, turn (the turn it was written in), id (of the  *)
(* turn, when the line names it), key (it is de-duplicated by).  A text     *)
(* stands for the turn it belongs to; 0 is no text.                         *)

None == "none"
NoText == 0
NoTurn == 0

\* The agent's answers in Claude's own transcript are read from position read.
NewRegistration(pane, generation, cursor) ==
    [pane |-> pane, generation |-> generation, cursor |-> cursor,
     partial |-> FALSE, active |-> FALSE, turn |-> NoTurn, body |-> NoText,
     pending |-> <<>>, read |-> 0, keys |-> <<>>, out |-> <<>>]

Known(reg, key) == key # <<>> /\ \E i \in DOMAIN reg.keys : reg.keys[i] = key

\* The oldest key makes room for a new one.
remember_dedupe_key(reg, key) ==
    IF key = <<>> THEN reg
    ELSE [reg EXCEPT !.keys = Append(IF Len(@) = RecentKeys THEN Tail(@) ELSE @, key)]
-----------------------------------------------------------------------------
Irrelevant == [signal |-> "Irrelevant"]
TurnStarted(line) == [signal |-> "TurnStarted", id |-> line.id]
Text(line) == [signal |-> "AssistantText", text |-> line.turn]

Notice(reason, line, key, needsTurn, endsTurn) ==
    [signal |-> "Notification", reason |-> reason, of |-> line.turn, key |-> key,
     id |-> line.id, body |-> NoText, needsTurn |-> needsTurn, endsTurn |-> endsTurn]

\* A registration may begin within a turn: the end of a Codex turn is told even
\* when its beginning was not seen.
classify_codex(line) ==
    CASE line.type = "task_started" -> TurnStarted(line)
      [] line.type = "task_complete" ->
           [Notice("turn-complete", line, IF line.id = NoTurn THEN <<>> ELSE <<"turn", line.id>>, FALSE, TRUE)
              EXCEPT !.body = line.turn]
      [] line.type = "turn_aborted" -> [signal |-> "TurnEnded"]
      [] line.type = "approval_request" -> Notice("approval-requested", line, line.key, FALSE, FALSE)
      [] line.type \in {"request_user_input", "elicitation_request"} ->
           Notice("question-requested", line, line.key, FALSE, FALSE)
      [] OTHER -> Irrelevant

\* A Claude pane is registered with its stream of hook inputs (attention.jsonl), so that
\* the branch for lines of a transcript, which name no hook, is never taken here.
classify_claude(line) ==
    CASE line.type = "UserPromptSubmit"  -> TurnStarted(line)
      [] line.type = "Stop"              -> Notice("turn-complete", line, line.key, TRUE, TRUE)
      [] line.type = "StopFailure"       -> [Notice("agent-error", line, line.key, FALSE, TRUE)
                                               EXCEPT !.body = line.turn]
      [] line.type = "PermissionRequest" -> Notice("approval-requested", line, line.key, FALSE, FALSE)
      [] line.type = "AskUserQuestion"   -> Notice("question-requested", line, line.key, FALSE, FALSE)
      [] OTHER -> Irrelevant

\* An idle status may be followed by an idle event that says the same.
classify_opencode(line) ==
    CASE line.type = "status busy"      -> TurnStarted(line)
      [] line.type = "status idle"      -> [signal |-> "StatusIdle", line |-> line]
      [] line.type = "assistant.text"   -> Text(line)
      [] line.type = "session.idle"     -> Notice("turn-complete", line, <<>>, TRUE, TRUE)
      [] line.type = "session.error"    -> [Notice("agent-error", line, line.key, TRUE, TRUE)
                                              EXCEPT !.body = line.turn]
      [] line.type = "permission.asked" -> Notice("approval-requested", line, line.key, FALSE, FALSE)
      [] line.type = "question.asked"   -> Notice("question-requested", line, line.key, FALSE, FALSE)
      [] OTHER -> Irrelevant

classify(provider, line) ==
    CASE provider = "codex"    -> classify_codex(line)
      [] provider = "claude"   -> classify_claude(line)
      [] provider = "opencode" -> classify_opencode(line)

opencode_completion(line) == Notice("turn-complete", line, <<>>, TRUE, TRUE)
-----------------------------------------------------------------------------
\* The latest answer in Claude's transcript that was not read before.
claude_hook_body(reg, signal, answers) ==
    IF signal.reason \in {"turn-complete", "agent-error"} /\ Len(answers) > reg.read
    THEN Last(answers) ELSE NoText

FirstText(texts) == IF \E i \in DOMAIN texts : texts[i] # NoText
                    THEN texts[CHOOSE i \in DOMAIN texts :
                                  /\ texts[i] # NoText
                                  /\ \A j \in 1..(i - 1) : texts[j] = NoText]
                    ELSE NoText

\* Not this turn's, or no turn is known to be under way.
Suppressed(reg, signal) ==
    \/ reg.turn # NoTurn /\ signal.id # NoTurn /\ reg.turn # signal.id
    \/ signal.needsTurn /\ ~reg.active

notify(reg, signal, answers) ==
    LET ended == [reg EXCEPT !.active = FALSE, !.turn = NoTurn, !.pending = <<>>, !.body = NoText]
        here  == IF signal.endsTurn THEN ended ELSE reg
        read  == [here EXCEPT !.read = IF signal.reason \in {"turn-complete", "agent-error"}
                                       THEN Len(answers) ELSE @]
        body  == FirstText(<<signal.body, claude_hook_body(reg, signal, answers),
                             IF signal.endsTurn THEN reg.body ELSE NoText>>)
    IN IF Suppressed(reg, signal) THEN reg
       ELSE IF Known(reg, signal.key) THEN read
       ELSE [remember_dedupe_key(read, signal.key)
               EXCEPT !.out = Append(@, [reason |-> signal.reason, turn |-> signal.of,
                                         ends |-> signal.endsTurn, body |-> body])]

\* The line a held-back idle status came from stands for it.
flush_pending_opencode_idle(reg, answers) ==
    IF reg.pending = <<>> THEN reg
    ELSE notify([reg EXCEPT !.pending = <<>>], opencode_completion(reg.pending[1]), answers)

\* Mutant: the next turn's beginning drops the idle status held back.
BeginsForgetful(reg, signal, answers) ==
    [reg EXCEPT !.active = TRUE, !.turn = signal.id, !.body = NoText, !.pending = <<>>]

\* A turn's beginning settles what the last one left open.
turn_begins(reg, signal, answers) ==
    [flush_pending_opencode_idle(reg, answers)
       EXCEPT !.active = TRUE, !.turn = signal.id, !.body = NoText]

apply_signal(reg, signal, answers) ==
    CASE signal.signal = "AssistantText" ->
           flush_pending_opencode_idle([reg EXCEPT !.body = signal.text], answers)
      [] signal.signal = "StatusIdle"   -> [reg EXCEPT !.pending = <<signal.line>>]
      [] signal.signal = "TurnStarted"  -> turn_begins(reg, signal, answers)
      [] signal.signal = "TurnEnded"    ->
           [reg EXCEPT !.active = FALSE, !.turn = NoTurn, !.body = NoText, !.pending = <<>>]
      [] signal.signal = "Notification" -> notify(reg, signal, answers)
      [] OTHER -> reg
-----------------------------------------------------------------------------
\* A line is written in two halves, the second of which ends it.  A line whose
\* beginning was not read, or that is over MAX_PARTIAL_LINE_BYTES, is no line.
finish_line(provider, reg, line, answers) ==
    LET taken == [reg EXCEPT !.partial = FALSE] IN
    IF ~reg.partial \/ line.type = "oversize" THEN taken
    ELSE apply_signal(taken, classify(provider, line), answers)

read_half(provider, reg, file, half, answers) ==
    LET here == [reg EXCEPT !.cursor = half] IN
    IF half % 2 = 1 THEN [here EXCEPT !.partial = TRUE]
    ELSE finish_line(provider, here, file[half \div 2], answers)

\* A source shorter than what was read of it was replaced: what it holds is old.
scan_source(provider, reg, file, length, answers) ==
    IF length < reg.cursor
    THEN [reg EXCEPT !.cursor = length, !.partial = FALSE, !.active = FALSE,
                     !.turn = NoTurn, !.pending = <<>>, !.read = 0]
    ELSE IF length = reg.cursor THEN reg
    ELSE LET upto[n \in reg.cursor .. length] ==
               IF n = reg.cursor THEN reg ELSE read_half(provider, upto[n - 1], file, n, answers)
         IN  flush_pending_opencode_idle(upto[length], answers)
-----------------------------------------------------------------------------
VARIABLES
    provider,
    file,     \* the source's lines
    half,     \* its last line is only half written
    turns,    \* turns begun by the agent
    answers,  \* turns answered in Claude's own transcript
    replaced, \* the source was removed and made again
    loop,     \* the call the daemon's loop is in
    bound,    \* the panes it has bound
    unserved, \* those whose registration failed twice
    binds,    \* how many binds it has begun
    tail,     \* per pane, who stops its transcript tail, if it runs
    worker,   \* "none", "running", "leaving" (alive is false) or "gone"
    queue,    \* commands sent to the worker
    acked,    \* the answer the worker gave to the loop's command
    regs,     \* the worker's registrations, by pane
    watched,  \* the file watcher follows the source
    event,    \* it has seen a change it has not called back for
    due,      \* the reconcile interval has passed
    told      \* per pane, the notifications sent, and where it registered

source == <<provider, file, half, turns, answers, replaced>>
caller == <<loop, bound, unserved, binds, tail>>
thread == <<worker, queue, acked, regs, watched, due>>
vars == <<source, caller, thread, event, told>>

-----------------------------------------------------------------------------
NoRegistrations == [p \in {} |-> None]
Rest == [call |-> "rest"]
Length == 2 * Len(file) - IF half THEN 1 ELSE 0
Registered == DOMAIN regs
NotTold == [from |-> 0, sent |-> <<>>]

Init ==
    /\ provider \in Providers
    /\ file = <<>> /\ half = FALSE /\ turns = 0 /\ answers = <<>> /\ replaced = FALSE
    /\ loop = Rest /\ bound = {} /\ unserved = {} /\ binds = 0
    /\ tail = [p \in Panes |-> None]
    /\ worker = "none" /\ queue = <<>> /\ acked = None
    /\ regs = NoRegistrations
    /\ watched = FALSE /\ event = FALSE /\ due = FALSE
    /\ told = [p \in Panes |-> NotTold]
-----------------------------------------------------------------------------
(* The agent.                                                              *)

Starts == {"task_started", "UserPromptSubmit", "status busy"}

\* Codex ends a turn it began, and once.
MayWrite(type) ==
    /\ type \in Starts => turns < MaxTurns
    /\ type \in {"task_complete", "turn_aborted"} =>
         turns > 0 /\ (file # <<>> => Last(file).type \in Starts)

\* Claude has written its answer before it runs the hook that says so.
Write(type) ==
    /\ provider # "kimi" /\ ~half /\ Len(file) < MaxLines(provider)
    /\ MayWrite(type)
    /\ LET k == IF type \in Starts THEN turns + 1 ELSE turns IN
         /\ turns' = k
         /\ file' = Append(file, [type |-> type, turn |-> k,
                                  key |-> IF type = "approval_request" THEN <<type, k>> ELSE <<>>,
                                  id |-> IF provider = "codex" THEN k ELSE NoTurn])
         /\ answers' = IF type = "Stop" THEN Append(answers, k) ELSE answers
    /\ half' \in BOOLEAN
    /\ event' = (event \/ watched)
    /\ UNCHANGED <<provider, replaced, caller, thread, told>>

WriteRest ==
    /\ half /\ half' = FALSE /\ event' = (event \/ watched)
    /\ UNCHANGED <<provider, file, turns, answers, replaced, caller, thread, told>>

\* The sweep removes the source; the next line makes a new one, which the file
\* watcher does not follow.
Replace ==
    /\ provider = "claude" /\ ~replaced /\ ~half /\ file # <<>>
    /\ replaced' = TRUE /\ file' = <<>> /\ watched' = FALSE
    /\ UNCHANGED <<provider, half, turns, answers, caller, worker, queue, acked, regs, due, event, told>>
-----------------------------------------------------------------------------
(* The loop's calls: bind registers a pane, unbind stops it.               *)

\* A new watcher's tail is the watcher's; where to read from is settled now.
Bind(p) ==
    /\ loop = Rest /\ p \notin bound /\ binds < MaxBinds(provider)
    /\ binds' = binds + 1
    /\ tail' = [tail EXCEPT ![p] = "watcher"]
    /\ loop' = [call |-> "register", pane |-> p, try |-> 1,
                reg |-> NewRegistration(p, 1, Length)]
    /\ UNCHANGED <<source, bound, unserved, thread, event, told>>

\* worker_sender: a worker that left is joined and replaced.
WorkerSender ==
    /\ loop.call = "register" /\ worker # "leaving"
    /\ loop' = [loop EXCEPT !.call = "send"]
    /\ IF worker = "running" THEN UNCHANGED thread
       ELSE /\ worker' = "running" /\ queue' = <<>> /\ acked' = None
            /\ regs' = NoRegistrations /\ watched' = FALSE /\ due' = FALSE
    /\ UNCHANGED <<source, bound, unserved, binds, tail, event, told>>

\* The pane is bound, its registration made or not.
EndBind(made) ==
    /\ bound' = bound \cup {loop.pane}
    /\ unserved' = IF made THEN unserved ELSE unserved \cup {loop.pane}
    /\ loop' = Rest

\* The worker may have left since; then the call tries once more.
TryAgain ==
    IF loop.try = 1 THEN /\ loop' = [loop EXCEPT !.call = "register", !.try = 2]
                         /\ UNCHANGED <<bound, unserved>>
    ELSE EndBind(FALSE)

SendRegister ==
    /\ loop.call = "send"
    /\ IF worker = "gone"
       THEN TryAgain /\ UNCHANGED queue
       ELSE /\ Len(queue) < QueueLimit
            /\ queue' = Append(queue, [command |-> "register", reg |-> loop.reg])
            /\ loop' = [loop EXCEPT !.call = "await"]
            /\ UNCHANGED <<bound, unserved>>
    /\ UNCHANGED <<source, binds, tail, worker, acked, regs, watched, due, event, told>>

\* Mutant: a worker that is gone is taken to have answered.
AwaitRegisterBlindly ==
    /\ loop.call = "await" /\ acked' = None
    /\ acked # None \/ worker = "gone"
    /\ EndBind(TRUE)
    /\ UNCHANGED <<source, binds, tail, worker, queue, regs, watched, due, event, told>>

AwaitRegister ==
    /\ loop.call = "await" /\ acked' = None
    /\ \/ acked # None /\ EndBind(TRUE)
       \/ acked = None /\ worker = "gone" /\ TryAgain
    /\ UNCHANGED <<source, binds, tail, worker, queue, regs, watched, due, event, told>>

\* The watcher of the pane goes, and with it a tail that is still its own.
EndUnbind(p, transcript) ==
    /\ tail' = [tail EXCEPT ![p] = IF transcript \/ @ = "watcher" THEN None ELSE @]
    /\ bound' = bound \ {p} /\ unserved' = unserved \ {p}
    /\ told' = [told EXCEPT ![p] = NotTold]
    /\ loop' = Rest

\* stop, whose caller keeps the lock on the worker until it is answered.
Unbind(p) ==
    /\ loop = Rest /\ p \in bound
    /\ IF worker \in {"none", "gone"}
       THEN EndUnbind(p, TRUE) /\ UNCHANGED queue
       ELSE /\ Len(queue) < QueueLimit
            /\ queue' = Append(queue, [command |-> "stop", pane |-> p])
            /\ loop' = [call |-> "stopping", pane |-> p]
            /\ UNCHANGED <<bound, unserved, tail, told>>
    /\ UNCHANGED <<source, binds, worker, acked, regs, watched, due, event>>

AwaitStop ==
    /\ loop.call = "stopping"
    /\ acked # None \/ worker = "gone"
    /\ acked' = None
    /\ EndUnbind(loop.pane, acked \in {None, "kimi"})
    /\ UNCHANGED <<source, binds, worker, queue, regs, watched, due, event>>
-----------------------------------------------------------------------------
(* The worker and its file watcher.                                        *)

\* A queue that is full drops the change.
Callback ==
    /\ event /\ event' = FALSE
    /\ queue' = IF worker \in {"running", "leaving"} /\ Len(queue) < QueueLimit
                THEN Append(queue, [command |-> "changed"]) ELSE queue
    /\ UNCHANGED <<source, caller, worker, acked, regs, watched, due, told>>

TimePasses ==
    /\ worker = "running" /\ ~due /\ due' = TRUE
    /\ UNCHANGED <<source, caller, worker, queue, acked, regs, watched, event, told>>

\* What the registrations make of the source as it is now.
Scan ==
    LET scanned == [p \in Registered |-> scan_source(provider, regs[p], file, Length, answers)]
    IN /\ regs' = [p \in Registered |-> [scanned[p] EXCEPT !.out = <<>>]]
       /\ told' = [p \in Panes |-> IF p \notin Registered THEN told[p]
                                   ELSE [told[p] EXCEPT !.sent = @ \o scanned[p].out]]

\* The worker leaves for good when it has nothing left to watch.
LeaveWhenIdle(registered) == worker' = IF registered = {} THEN "leaving" ELSE worker

\* Mutant: the interval's scan is left to the file watcher.
ReconcileWithoutScan ==
    /\ worker = "running" /\ due /\ due' = FALSE
    /\ LeaveWhenIdle(Registered)
    /\ UNCHANGED <<source, caller, queue, acked, regs, watched, event, told>>

Reconcile ==
    /\ worker = "running" /\ due /\ due' = FALSE
    /\ IF provider = "kimi" THEN UNCHANGED <<regs, told>> ELSE Scan
    /\ LeaveWhenIdle(Registered)
    /\ UNCHANGED <<source, caller, queue, acked, watched, event>>

Command(name) ==
    /\ worker = "running" /\ ~due /\ queue # <<>> /\ Head(queue).command = name
    /\ queue' = Tail(queue)

\* register_source; the same source again changes nothing.
TakeRegister ==
    /\ Command("register")
    /\ LET reg == Head(queue).reg IN
         /\ regs' = [q \in Registered \cup {reg.pane} |-> IF q \in Registered THEN regs[q] ELSE reg]
         /\ watched' = (watched \/ provider # "kimi")
         /\ tail' = [tail EXCEPT ![reg.pane] = IF provider = "kimi" THEN "service" ELSE @]
         /\ told' = [told EXCEPT ![reg.pane] = [from |-> reg.cursor, sent |-> <<>>]]
    /\ acked' = "ok"
    /\ UNCHANGED <<source, loop, bound, unserved, binds, worker, due, event>>

\* The source is unwatched with its last registration, and the worker leaves.
TakeStop ==
    /\ Command("stop")
    /\ LET p == Head(queue).pane IN
         /\ regs' = [q \in Registered \ {p} |-> regs[q]]
         /\ watched' = (watched /\ Registered \ {p} # {})
         /\ LeaveWhenIdle(Registered \ {p})
         /\ acked' = IF p \in Registered THEN provider ELSE "other"
    /\ UNCHANGED <<source, caller, due, event, told>>

TakeChanged ==
    /\ Command("changed")
    /\ IF provider = "kimi" THEN UNCHANGED <<regs, told>> ELSE Scan
    /\ UNCHANGED <<source, caller, worker, acked, watched, due, event>>

\* Its receiver goes, and with it what is still queued, and its file watcher.
Leave ==
    /\ worker = "leaving"
    /\ worker' = "gone" /\ queue' = <<>> /\ watched' = FALSE /\ event' = FALSE
    /\ UNCHANGED <<source, caller, acked, regs, due, told>>
-----------------------------------------------------------------------------
Agent == (\E type \in Types(provider) : Write(type)) \/ WriteRest \/ Replace

Calls == WorkerSender \/ SendRegister \/ AwaitRegister \/ AwaitStop

Worker == Reconcile \/ TakeRegister \/ TakeStop \/ TakeChanged \/ Leave

Next == Agent \/ Calls \/ Worker \/ Callback \/ TimePasses
        \/ \E p \in Panes : Bind(p) \/ Unbind(p)

\* The worker's steps, by what they do to these three variables: enabled when
\* Worker is, and taken only by it.
WorkerTurn ==
    \/ /\ worker = "running" /\ due /\ due' = FALSE /\ queue' = queue
       /\ worker' \in {"running", "leaving"}
    \/ /\ worker = "running" /\ ~due /\ queue # <<>> /\ queue' = Tail(queue) /\ due' = due
       /\ worker' \in {"running", "leaving"}
    \/ worker = "leaving" /\ worker' = "gone" /\ queue' = <<>> /\ due' = due

\* The worker's thread runs, time passes, and a call goes on; nothing makes the
\* file watcher call back, and the agent and herdr do as they like.
Spec == Init /\ [][Next]_vars
        /\ WF_<<worker, queue, due>>(WorkerTurn) /\ WF_vars(TimePasses) /\ WF_vars(Calls)
-----------------------------------------------------------------------------
(* Properties.                                                             *)

TypeOK ==
    /\ Len(queue) <= QueueLimit
    /\ bound \subseteq Panes
    /\ worker \in {"none", "running", "leaving", "gone"}
    /\ \A p \in Registered :
         /\ regs[p].cursor <= 2 * MaxLines(provider)
         /\ regs[p].out = <<>>
         /\ Len(regs[p].keys) <= RecentKeys
         /\ regs[p].partial => regs[p].cursor % 2 = 1

Ends(p) == {i \in DOMAIN told[p].sent : told[p].sent[i].ends}

\* A failure of Claude's is told whether a turn is known to be under way or not.
Counted(p) == {i \in Ends(p) : ~(provider = "claude" /\ told[p].sent[i].reason = "agent-error")}

\* A turn's end is told at most once, however its end was written, cut into
\* reads, and re-read (apply_signal, flush_pending_opencode_idle).
OnePerTurn ==
    \A p \in Panes : \A i, j \in Counted(p) :
        i # j => told[p].sent[i].turn # told[p].sent[j].turn

\* What one read of everything since the registration would tell of turns.
Whole(p) ==
    LET reg == scan_source(provider, NewRegistration(p, 1, told[p].from), file, regs[p].cursor, answers)
    IN {reg.out[i].turn : i \in {k \in DOMAIN reg.out : reg.out[k].ends}}

\* Which turns are told does not depend on where the reads fell (scan_source).
AnyReads ==
    \A p \in Registered : provider # "kimi" /\ ~replaced =>
        {told[p].sent[i].turn : i \in Ends(p)} = Whole(p)

\* A notification never shows the text of an earlier turn (notification_body,
\* claude_transcript_cursors).
OwnText ==
    \A p \in Panes : \A i \in Ends(p) :
        LET sent == told[p].sent[i] IN sent.body # NoText => sent.body >= sent.turn

\* A pane the loop has bound is registered with a worker that runs until it is
\* unbound, although the worker leaves by itself when it is idle and a call may
\* meet one that is leaving (register's second try).
BoundIsServed ==
    \A p \in bound \ unserved :
        \/ loop.call = "stopping" /\ loop.pane = p
        \/ p \in Registered /\ worker = "running"

\* When the loop has unbound a pane its transcript tail does not run on, whoever
\* it belonged to (transfer_kimi_transcript, stop).
NoTailLeft == loop = Rest => \A p \in Panes \ bound : tail[p] = None

\* What is told of turns: once, whatever the reads, in their own words.
ToldRight == OnePerTurn /\ AnyReads /\ OwnText

\* A pane is served while it is bound, and no longer.
ServedWhileBound == BoundIsServed /\ NoTailLeft

\* A registered pane's source is read to its end, although the file watcher may
\* drop a change or follow a file that is gone (reconcile_sources).
EveryLineRead ==
    \A p \in Panes :
        (p \in Registered /\ provider # "kimi" /\ regs[p].cursor # Length)
        ~> (p \notin Registered \/ regs[p].cursor = Length)
=============================================================================
