----------------------------- MODULE StatusReaders -----------------------------
(***************************************************************************)
(* What an agent says of itself beside its transcript, and what is read of *)
(* it: the model, how much of its context is used, its limits.             *)
(*                                                                         *)
(* Claude replaces one JSON document; Codex, OpenCode and Kimi append      *)
(* lines, which a fold reads from the first one at every change            *)
(* (claude_code/statusline.rs, the parser.rs of the others).  A field that *)
(* may be missing, null or of a wrong type is a set of at most one value   *)
(* (serde_helpers.rs); a line that does not parse, and the last one until  *)
(* its newline is there, is "other".  Percentages are whole.               *)
(***************************************************************************)
EXTENDS Integers, Sequences, SequencesExt

CONSTANTS
    Reports,       \* for each agent, what it can write
    Logs,          \* the account's lines in Codex' log
    Catalogs,      \* the contents OpenCode's model catalogue can have
    KimiSize,      \* Kimi's context window, which it does not report
    ScanRows,      \* how many of the log's lines are looked at
    MaxReports

VARIABLES
    reader,        \* whose reports these are
    reports,       \* what was written: the wire, the line
    lately,       \* the wires whose time of modification is the newest
    listed,        \* the wires in Kimi's state.json; empty when it cannot be read
    log,           \* Codex' log, oldest first
    catalogFile, catalog,  \* the catalogue on disk, and as loaded in this process
    plan           \* the limits fetched for Kimi, if any

readerVars == <<reader, reports, lately, listed, log, catalogFile, catalog, plan>>

Only(opt) == CHOOSE v \in opt : TRUE
Or(opt, default) == IF opt = {} THEN default ELSE Only(opt)
Said(opt, before) == IF opt = {} THEN before ELSE opt      \* what is not said is kept
Filled(opt) == opt \ {""}

clamp_percentage(v) == IF v > 100 THEN 100 ELSE IF v < 0 THEN 0 ELSE v

NoLimits == [short |-> 0, long |-> {}]

\* What every agent's report is turned into.
Snapshot(session, model, window, cost, limits, fetched) ==
    [session |-> session, model |-> IF model = "" THEN "unknown" ELSE model, window |-> window,
     cost |-> cost, limits |-> limits, fetched |-> fetched]

ContextWindow(used, remaining, size, input, output, usage) ==
    [used |-> used, remaining |-> IF used = {} THEN remaining ELSE clamp_percentage(100 - Only(used)),
     size |-> size, input |-> input, output |-> output, usage |-> usage]

Share(tokens, size) == clamp_percentage((tokens * 100) \div size)
-----------------------------------------------------------------------------
(* Claude Code: statusline.rs.                                             *)

ClaudeStatusDto(doc) ==
    /\ DOMAIN doc = {"session", "model", "window", "cost", "limits"}
    /\ \A w \in doc.window : DOMAIN w = {"used", "remaining", "size", "input", "output", "usage"}
    /\ \A l \in doc.limits : DOMAIN l = {"five", "seven"}

ASSUME ClaudeReportsAreDtos == \A doc \in Reports["claude"] : ClaudeStatusDto(doc)

\* Until it says how much is used, that is taken from the tokens it counts.
context_window_from_dto(opt) ==
    IF opt = {} THEN ContextWindow({}, 100, 0, 0, 0, {})
    ELSE LET cw == Only(opt)
             size == Or(cw.size, 0)
             input == Or(cw.input, 0)
             counted == IF size > 0 /\ input > 0 THEN {(input * 100) \div size} ELSE {}
             used == {clamp_percentage(p) : p \in Said(cw.used, counted)}
         IN  ContextWindow(used, clamp_percentage(Or(cw.remaining, 100)), size, input, Or(cw.output, 0), cw.usage)

\* A cost block without a cost is no cost yet; no block is not known.
cost_from_dto(opt) == IF opt = {} THEN {} ELSE {Or(Only(opt), 0)}

claude_rate_limits(opt) ==
    LET rl == Or(opt, [five |-> {}, seven |-> {}])
    IN  [short |-> Or(Or(rl.five, {}), 0), long |-> {Or(w, 0) : w \in rl.seven}]

dto_to_snapshot(doc) ==
    Snapshot(doc.session, Or(Or(doc.model, {}), ""), context_window_from_dto(doc.window),
             cost_from_dto(doc.cost), claude_rate_limits(doc.limits), FALSE)
-----------------------------------------------------------------------------
(* Codex: codex/parser.rs, and the account's limits in its log.            *)

Day == 24 * 60

CodexRolloutLine(line) ==
    DOMAIN line = {"type"} \cup
        CASE line.type = "session_meta"  -> {"id"}
          [] line.type = "turn_context"  -> {"model"}
          [] line.type = "task_started"  -> {"size"}
          [] line.type = "task_complete" -> {"ms"}
          [] line.type = "token_count"   -> {"info", "limits"}
          [] line.type = "other"         -> {}

ASSUME CodexReportsAreLines == \A line \in Reports["codex"] : CodexRolloutLine(line)

\* Both windows, primary first: their limit and their length, each if known.  With a
\* length the later of those that are short, or long, is shown as such; a length of 0
\* is none.  Without any, the first is the short one.
RouteWindows(primary, secondary) ==
    LET windows == <<primary, secondary>>
        fits(short) == {i \in 1..2 : /\ windows[i].limit # {} /\ windows[i].minutes \notin {{}, {0}}
                                     /\ short = (Only(windows[i].minutes) < Day)}
        last(S) == IF S = {} THEN {} ELSE windows[CHOOSE i \in S : \A j \in S : j <= i].limit
    IN  IF primary.minutes = {} /\ secondary.minutes = {}
        THEN [short |-> Or(primary.limit, 0), long |-> secondary.limit]
        ELSE [short |-> Or(last(fits(TRUE)), 0), long |-> last(fits(FALSE))]

Window(opt) == Or(opt, [limit |-> {}, minutes |-> {}])

\* In a rollout a window there is without its limit has the limit 0.
rate_limits_from_dto(rl) ==
    LET limited(opt) == IF opt = {} THEN Window(opt) ELSE [Only(opt) EXCEPT !.limit = {Or(@, 0)}]
    IN  RouteWindows(limited(rl.primary), limited(rl.secondary))

\* In the log, without lengths and without a primary limit there is nothing.
account_rate_limits_from_log_body(body) ==
    IF body.primary.minutes = {} /\ body.secondary.minutes = {} /\ body.primary.limit = {} THEN {}
    ELSE {RouteWindows(body.primary, body.secondary)}

\* The newest of the session's lines that tells the limits, of the few looked at.
latest_account_rate_limits(session) ==
    LET own == Reverse(SelectSeq(log, LAMBDA row : row.thread = session))
        tells == {i \in DOMAIN own : i <= ScanRows /\ account_rate_limits_from_log_body(own[i]) # {}}
    IN  IF session = "" \/ tells = {} THEN {}
        ELSE account_rate_limits_from_log_body(own[CHOOSE i \in tells : \A j \in tells : i <= j])

CodexFoldState == [session |-> "", model |-> "", started |-> {}, info |-> {}, limits |-> {}, duration |-> 0]

token_count_info_from_dto(info) ==
    [usage |-> Or(info.usage, [input |-> 0, output |-> 0, cached |-> 0, total |-> 0]), size |-> Or(info.size, 0)]

fold_event(s, line) ==
    CASE line.type = "session_meta" /\ Filled(line.id) # {} ->
            [IF s.session \in {"", Only(line.id)} THEN s ELSE CodexFoldState EXCEPT !.session = Only(line.id)]
      [] line.type = "turn_context"  -> [s EXCEPT !.model = Or(line.model, @)]
      [] line.type = "task_started"  -> [s EXCEPT !.started = Said(line.size, @)]
      [] line.type = "task_complete" -> [s EXCEPT !.duration = @ + Or(line.ms, 0)]
      [] line.type = "token_count"   ->
            [s EXCEPT !.info = Said({token_count_info_from_dto(i) : i \in line.info}, @),
                      !.limits = Said({rate_limits_from_dto(l) : l \in line.limits}, @)]
      [] OTHER -> s

codex_into_snapshot(s) ==
    LET info == Or(s.info, token_count_info_from_dto([usage |-> {}, size |-> {}]))
        size == IF s.info # {} THEN info.size ELSE Or(s.started, 0)
        used == IF s.info = {} \/ size = 0 THEN {} ELSE {Share(info.usage.total, size)}
    IN  Snapshot(s.session, s.model,
                 ContextWindow(used, 100, size, info.usage.input, info.usage.output, {i.usage : i \in s.info}),
                 {}, Or(s.limits, NoLimits), FALSE)

parse_rollout_snapshot(lines) == codex_into_snapshot(FoldLeft(fold_event, CodexFoldState, lines))

\* What the account's log says wins over what the rollout says.
codex_decode(lines) ==
    LET read == parse_rollout_snapshot(lines)
    IN  [read EXCEPT !.limits = Or(latest_account_rate_limits(read.session), @)]
-----------------------------------------------------------------------------
(* OpenCode: opencode/parser.rs and model_catalog.rs.                      *)

OpencodeFoldState ==
    [session |-> "", byMessage |-> [model |-> "", provider |-> ""], bySession |-> [model |-> "", provider |-> ""],
     input |-> 0, output |-> 0, stepped |-> FALSE, cost |-> {}, usage |-> {}]

\* A name that is not said, or empty, replaces none.
Named(names, line) == [model |-> Or(Filled(line.model), names.model),
                       provider |-> Or(Filled(line.provider), names.provider)]

\* The session's own totals are zero once steps report theirs.
fold_session_info(s, line) ==
    [s EXCEPT !.session = Or(Filled(line.id), @), !.bySession = Named(@, line),
              !.input = IF s.stepped THEN @ ELSE Or(line.input, @),
              !.output = IF s.stepped THEN @ ELSE Or(line.output, @),
              !.cost = Said(line.cost, @)]

fold_message_info(s, line) == [s EXCEPT !.byMessage = Named(@, line)]

fold_step_finish(s, line) ==
    IF line.tokens = {} THEN s
    ELSE [s EXCEPT !.usage = line.tokens, !.stepped = TRUE,
                   !.input = Only(line.tokens).input, !.output = Only(line.tokens).output]

opencode_fold_line(s, line) ==
    CASE line.type = "session"     -> fold_session_info(s, line)
      [] line.type = "message"     -> fold_message_info(s, line)
      [] line.type = "step-finish" -> fold_step_finish(s, line)
      [] OTHER -> s

\* The first catalogue with anything in it is kept for as long as the process runs.
Catalogue == IF catalog # {} THEN catalog ELSE catalogFile

context_window(provider, model) ==
    Or({entry.size : entry \in {e \in Catalogue : e.provider = provider /\ e.model = model}}, 0)

\* How full the context is counts what was read from the cache, as the totals do not.
opencode_into_snapshot(s) ==
    LET wins(name) == IF s.byMessage[name] # "" THEN s.byMessage[name] ELSE s.bySession[name]
        size == IF wins("model") = "" THEN 0 ELSE context_window(wins("provider"), wins("model"))
        cached == Or({u.read + u.write : u \in s.usage}, 0)
        used == IF size = 0 THEN {} ELSE {Share(s.input + s.output + cached, size)}
    IN  Snapshot(s.session, wins("model"), ContextWindow(used, 100, size, s.input, s.output, s.usage),
                 s.cost, NoLimits, FALSE)

parse_bridge_snapshot(lines) == opencode_into_snapshot(FoldLeft(opencode_fold_line, OpencodeFoldState, lines))
-----------------------------------------------------------------------------
(* Kimi: kimi/parser.rs.                                                   *)

KimiFoldState == [model |-> "", usage |-> {}]

kimi_fold_line(s, line) ==
    CASE line.type = "config.update" -> [s EXCEPT !.model = Or(line.model, @)]
      [] line.type = "usage.record"  -> [model |-> Or(line.model, s.model), usage |-> Said(line.usage, s.usage)]
      [] line.type = "loop_event"    -> [s EXCEPT !.usage = Said(line.usage, @)]
      [] OTHER -> s

Tokens(u) == u.input + u.output + u.read + u.write

kimi_into_snapshot(s) ==
    LET u == Or(s.usage, [input |-> 0, output |-> 0, read |-> 0, write |-> 0])
    IN  Snapshot("", s.model, ContextWindow({Share(Tokens(u), KimiSize)}, 100, KimiSize, u.input, u.output, {u}),
                 {}, NoLimits, FALSE)

parse_wire_snapshot(lines) == kimi_into_snapshot(FoldLeft(kimi_fold_line, KimiFoldState, lines))

LinesOf(wire) == LET own == SelectSeq(reports, LAMBDA r : r.wire = wire) IN [i \in DOMAIN own |-> own[i].line]

\* The session is the main agent's, the context that of the agent that wrote last.
\* Without the list, or the main agent in it, the main wire is all there is.
parse_session_aggregate ==
    IF "main" \notin listed THEN {parse_wire_snapshot(LinesOf("main"))}
    ELSE LET newest == IF lately \cap listed = {} THEN listed ELSE lately \cap listed
         IN  {[parse_wire_snapshot(LinesOf("main")) EXCEPT
                 !.session = "dir", !.window = parse_wire_snapshot(LinesOf(w)).window] : w \in newest}

kimi_decode == {[read EXCEPT !.fetched = (plan # {}), !.limits = Or(plan, @)] : read \in parse_session_aggregate}

\* A user's turn is settled when a later line records its use.
count_settled_user_turns(lines) ==
    LET count(c, line) ==
            CASE line.type = "turn.prompt" /\ line.user -> [c EXCEPT !.pending = @ + 1]
              [] line.type = "usage.record" -> [settled |-> c.settled + c.pending, pending |-> 0]
              [] OTHER -> c
    IN  FoldLeft(count, [settled |-> 0, pending |-> 0], lines).settled

main_settled_turn_count == IF "main" \in listed THEN count_settled_user_turns(LinesOf("main")) ELSE 0
-----------------------------------------------------------------------------
(* The reports grow, and are read again whenever they did.                 *)

\* What may be read now: one thing, but for two wires that were written at once.
Read ==
    CASE reader = "claude"   -> {dto_to_snapshot(reports[Len(reports)].line)}
      [] reader = "codex"    -> {codex_decode(LinesOf("main"))}
      [] reader = "opencode" -> {parse_bridge_snapshot(LinesOf("main"))}
      [] reader = "kimi"     -> kimi_decode

ReaderInit ==
    /\ reader \in {"claude", "codex", "opencode", "kimi"}
    /\ reports = <<>> /\ lately = {}
    /\ listed \in IF reader = "kimi" THEN {{}, {"sub"}, {"main"}, {"main", "sub"}} ELSE {{}}
    /\ log \in IF reader = "codex" THEN Logs ELSE {<<>>}
    /\ catalogFile = {} /\ catalog = {}
    /\ plan \in IF reader = "kimi" THEN {{}, {[short |-> 7, long |-> {9}]}} ELSE {{}}

\* The clock of the files may be too coarse to tell two writes apart.
Report ==
    /\ Len(reports) < MaxReports
    /\ \E line \in Reports[reader], wire \in IF reader = "kimi" THEN {"main", "sub"} ELSE {"main"} :
          /\ reports' = IF reader = "claude" THEN <<[wire |-> wire, line |-> line]>>
                        ELSE Append(reports, [wire |-> wire, line |-> line])
          /\ lately' \in {{wire}, lately \cup {wire}}
    /\ catalog' = IF reader = "opencode" THEN Catalogue ELSE catalog
    /\ UNCHANGED <<reader, listed, log, catalogFile, plan>>

\* OpenCode fetches its catalogue anew.
RefreshCatalog ==
    /\ reader = "opencode" /\ catalogFile' \in Catalogs \ {catalogFile}
    /\ UNCHANGED <<reader, reports, lately, listed, log, catalog, plan>>

ReaderNext == Report \/ RefreshCatalog
-----------------------------------------------------------------------------
(* What the readers find, said without a fold: each field is what the last *)
(* line that says it says.                                                 *)

Latest(lines, Field(_)) ==
    LET said == {i \in DOMAIN lines : Field(lines[i]) # {}}
    IN  IF said = {} THEN {} ELSE Field(lines[CHOOSE i \in said : \A j \in said : j <= i])

Of(line, type, field) == IF line.type = type THEN line[field] ELSE {}

\* The lines of the rollout's last session; a rollout is of one until another is named.
LastSession(lines) ==
    LET Id(line) == Filled(Of(line, "session_meta", "id"))
        names == {i \in DOMAIN lines : Id(lines[i]) # {}}
        others == {i \in names : Id(lines[i]) # Latest(lines, Id)}
        first == CHOOSE i \in names : /\ \A j \in others : j < i
                                      /\ \A j \in names : j < i => \E k \in others : j <= k
    IN  IF others = {} THEN lines ELSE SubSeq(lines, first, Len(lines))

CodexSays ==
    LET own == LastSession(LinesOf("main"))
        Id(line) == Filled(Of(line, "session_meta", "id"))
        Model(line) == Of(line, "turn_context", "model")
        Info(line) == Of(line, "token_count", "info")
        read == codex_decode(LinesOf("main"))
    IN  /\ read.session = Or(Latest(own, Id), "")
        /\ read.model = Or(Filled(Latest(own, Model)), "unknown")
        /\ read.window.usage = {token_count_info_from_dto(x).usage : x \in Latest(own, Info)}

OpenCodeSays ==
    LET lines == LinesOf("main")
        ByMessage(line) == Filled(Of(line, "message", "model"))
        BySession(line) == Filled(Of(line, "session", "model"))
        Step(line) == Of(line, "step-finish", "tokens")
        Total(line) == Of(line, "session", "input")
        read == parse_bridge_snapshot(lines)
    IN  /\ read.model = Or(Latest(lines, ByMessage), Or(Latest(lines, BySession), "unknown"))
        /\ read.window.usage = Latest(lines, Step)
        /\ read.window.input = Or({u.input : u \in Latest(lines, Step)}, Or(Latest(lines, Total), 0))
        /\ read.window.size > 0 /\ Latest(lines, Step) # {} =>
              read.window.used = {Share(Tokens(Only(Latest(lines, Step))), read.window.size)}

KimiSays ==
    LET Model(line) == IF line.type \in {"config.update", "usage.record"} THEN line.model ELSE {}
        Usage(line) == IF line.type \in {"usage.record", "loop_event"} THEN line.usage ELSE {}
        shown == IF "main" \in listed THEN lately \cap listed ELSE {"main"}
        recorded(i) == \E j \in DOMAIN LinesOf("main") : j > i /\ LinesOf("main")[j].type = "usage.record"
    IN  /\ \A read \in kimi_decode : /\ read.model = Or(Latest(LinesOf("main"), Model), "unknown")
                                     /\ read.fetched <=> plan # {}
        /\ shown # {} => {read.window.usage : read \in kimi_decode} =
              {{Or(Latest(LinesOf(w), Usage), [input |-> 0, output |-> 0, read |-> 0, write |-> 0])} : w \in shown}
        /\ "main" \in listed => main_settled_turn_count =
              Cardinality({i \in DOMAIN LinesOf("main") :
                 LinesOf("main")[i].type = "turn.prompt" /\ LinesOf("main")[i].user /\ recorded(i)})

\* What is shown of an agent is what it said last, however its reports are ordered: a
\* line that says nothing of a field keeps it (token_count without info, zero totals of
\* an OpenCode session, an assistant's empty model), a second session in one rollout
\* starts anew, and a Kimi turn counts once its use is recorded.
ReportsAreRead ==
    /\ reader = "codex" => CodexSays
    /\ reader = "opencode" => OpenCodeSays
    /\ reader = "kimi" => KimiSays

\* The two shares add up, and what is said not to be known is not made up.
GaugeAddsUp ==
    reports # <<>> => \A read \in Read :
        LET w == read.window IN
        /\ w.used # {} => Only(w.used) \in 0..100 /\ Only(w.used) + w.remaining = 100
        /\ w.used = {} => w.remaining \in 0..100
        /\ reader # "claude" /\ w.size = 0 => w.used = {}
=============================================================================
