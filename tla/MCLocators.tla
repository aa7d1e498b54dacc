------------------------------- MODULE MCLocators -------------------------------
EXTENDS Locators, TLC

CONSTANTS r1, r2, r3, k1, k2, k3, p1, p2, s1, s2, s3

MCDepth == (k1 :> 1) @@ (k2 :> 2) @@ (k3 :> 2)
Begun(a, b, c) == (k1 :> a) @@ (k2 :> b) @@ (k3 :> c)
MCEarlier == {Begun(0, 0, 0), Begun(1, 1, 0), Begun(0, 2, 0), Begun(0, 1, 2), Begun(0, 0, 1)}
MCOwnerOf == (s1 :> p1) @@ (s2 :> p1) @@ (s3 :> p2)
MCDirOf == [p \in {p1, p2} |-> "dir"]
-----------------------------------------------------------------------------
(* What agents report: for each kind of line the fields that are said, not *)
(* said, empty or zero, and windows shorter and longer than a day.         *)

Sized(limit, minutes) == [limit |-> limit, minutes |-> minutes]
CodexUse(total) == [input |-> 10, output |-> 20, cached |-> 5, total |-> total]
CodexReports ==
    {[type |-> "session_meta", id |-> id] : id \in {{}, {""}, {"s1"}, {"s2"}}}
    \cup {[type |-> "turn_context", model |-> m] : m \in {{}, {"m1"}, {"m2"}}}
    \cup {[type |-> "task_started", size |-> {200}], [type |-> "task_complete", ms |-> {3}], [type |-> "other"]}
    \cup {[type |-> "token_count", info |-> i, limits |-> {}] :
            i \in {{}, {[usage |-> {}, size |-> {100}]}, {[usage |-> {CodexUse(50)}, size |-> {}]},
                   {[usage |-> {CodexUse(50)}, size |-> {100}]}, {[usage |-> {CodexUse(300)}, size |-> {200}]}}}
    \cup {[type |-> "token_count", info |-> {}, limits |-> {l}] :
            l \in {[primary |-> {Sized({4}, {300})}, secondary |-> {Sized({6}, {7 * Day})}],
                   [primary |-> {Sized({4}, {7 * Day})}, secondary |-> {}],
                   [primary |-> {Sized({4}, {})}, secondary |-> {Sized({}, {0})}]}}

OcReports ==
    {[type |-> "session", id |-> {"s1"}, model |-> m, provider |-> {"p"}, input |-> i, output |-> i, cost |-> {}] :
        m \in {{""}, {"m1"}}, i \in {{}, {0}, {10}}}
    \cup {[type |-> "message", model |-> m, provider |-> {"p"}] : m \in {{}, {"m1"}, {"m2"}}}
    \cup {[type |-> "step-finish", tokens |-> t] :
            t \in {{}} \cup {{[input |-> n, output |-> 5, read |-> 30, write |-> 2]} : n \in {1, 80}}}

KimiUse == [input : {1, 50}, output : {2}, read : {40}, write : {3}]
KimiReports ==
    {[type |-> "config.update", model |-> m] : m \in {{}, {"m1"}}}
    \cup {[type |-> "usage.record", model |-> {"m2"}, usage |-> u] : u \in {{}} \cup {{v} : v \in KimiUse}}
    \cup {[type |-> "loop_event", usage |-> {v}] : v \in KimiUse}
    \cup {[type |-> "turn.prompt", user |-> b] : b \in BOOLEAN}

ClaudeReports ==
    [session : {"s1"}, model : {{}, {{}}, {{"m1"}}},
     window : {{}} \cup {{w} : w \in [used : {{}, {30}, {140}}, remaining : {{}, {55}}, size : {{}, {100}},
                                     input : {{}, {60}, {250}}, output : {{}}, usage : {{}}]},
     cost : {{}, {{}}, {{4}}}, limits : {{}, {[five |-> {{20}}, seven |-> {{}}]}}]

MCReports == [claude |-> ClaudeReports, codex |-> CodexReports, opencode |-> OcReports, kimi |-> KimiReports]

LogLine(t, limit) == [thread |-> t, primary |-> Sized(limit, {}), secondary |-> Sized({}, {})]
MCLogs == {<<>>, <<LogLine("s1", {8}), LogLine("s1", {})>>, <<LogLine("s1", {8}), LogLine("s1", {}), LogLine("s1", {})>>,
           <<LogLine("s1", {8}), LogLine("s2", {9})>>}

Model(m, n) == [provider |-> "p", model |-> m, size |-> n]
MCCatalogs == {{}, {Model("m1", 100)}, {Model("m1", 100), Model("m2", 200)}}
-----------------------------------------------------------------------------
(* The plugin's messages, and a tool's arguments.                          *)

MCRole == [m \in {"m1", "m2"} |-> IF m = "m1" THEN "assistant" ELSE "user"]
MCArguments == {[content |-> FALSE, secret |-> TRUE, nested |-> TRUE], [content |-> TRUE, secret |-> FALSE, nested |-> FALSE]}
-----------------------------------------------------------------------------
(* Commands, scripts that run each other, with words passed on and without *)
(* end, and what runs of tests do.                                         *)

MCCommands ==
    {<<"CI=1", "npx", "vitest">>, <<"dotenv", "--", "npx", "vitest">>, <<"npm", "test">>, <<"npm", "test", "--", "x", "key">>,
     <<"pnpm", "vitest">>, <<"yarn", "run", "unit">>, <<"bun", "test">>, <<"cargo", "test", "&&", "vitest">>, <<"npm", "run">>}
MCPackages ==
    {NoPackage}
    \cup [{"test"} -> {<<"vitest", "run">>, <<"npm", "run", "test">>, <<"npm", "run", "test", "--", "x">>}]
    \cup {[test |-> <<"npm", "run", "unit", "--", "test">>, unit |-> u] :
            u \in {<<"cargo">>, <<"CI=1", "vitest">>, <<"npm", "test">>, <<"tsc", "&&", "vitest">>, <<"yarn", "exec", "cargo", "test">>}}
    \cup {[test |-> <<"npm", "run", "a">>, a |-> <<"npm", "run", "b">>, b |-> <<"npm", "run", "c">>,
            c |-> <<"npm", "run", "unit">>, unit |-> <<"vitest">>]}

MCParts == {("m" :> Counts(2, 0, 0)), ("m" :> Counts(1, 1, 0)) @@ ("n" :> Counts(0, 0, 2)), ("n" :> Counts(0, 0, 1))}
Suite(runner, parts) ==
    [runner : {runner}, parts : parts, whole : BOOLEAN, failed : BOOLEAN,
     said : {<<>>, <<"blank", "text", "error">>}, times : {<<{3}, {5}, 9>>, <<{}, {5}, 9>>}]
MCTestSuites == Suite("cargo", [1..1 -> MCParts] \cup [1..2 -> MCParts]) \cup Suite("vitest", {<<>>} \cup [1..1 -> MCParts])
-----------------------------------------------------------------------------
(* Scripts: constants of every ending, and objects of every kind of entry. *)

Plain(t) == [as |-> "string", is |-> t]
Constant(n) == [as |-> "constant", is |-> n]
Computed(t) == [as |-> "call", is |-> t]
Entry(k, v) == [key |-> k, value |-> v, short |-> FALSE, inner |-> FALSE]
Inner(k, v) == [key |-> k, value |-> v, short |-> FALSE, inner |-> TRUE]
Short(k) == [key |-> k, value |-> Constant(k), short |-> TRUE, inner |-> FALSE]
MCStatements ==
    {[do |-> "const", name |-> n, value |-> Plain(v), end |-> e] : n \in {"workdir", "d"}, v \in {"/a", "?"}, e \in {";", "line", "more"}}
    \cup {[do |-> "exec", entries |-> es] : es \in {
        <<>>, <<Entry("cmd", Plain("ls")), Entry("workdir", Plain("/b"))>>, <<Short("workdir"), Entry("command", Constant("d"))>>,
        <<Inner("workdir", Plain("/c")), Entry("cmd", Plain("?")), Entry("workdir", Constant("d"))>>,
        <<Entry("workdir", Computed("/c")), Entry("cmd", Plain("pwd"))>>, <<Inner("cmd", Computed("x")), Short("workdir")>>,
        <<Entry("workdir", Plain(""))>>}}
    \cup {[do |-> "patch", value |-> v] : v \in {Plain("p"), Constant("d"), Computed("p")}}
=============================================================================
