-------------------------------- MODULE TestRuns --------------------------------
(***************************************************************************)
(* Recognising a command of Claude Code or Codex as a run of tests, and    *)
(* reading what it printed (claude_code/test_runners).                     *)
(*                                                                         *)
(* A command is its words.  A script of package.json that runs another is  *)
(* followed: in resolve_alias to a depth, and round by round in            *)
(* match_command_inner, which remembers the commands it has seen.          *)
(* What is printed are lines; those that neither count tests nor name      *)
(* them are texts.                                                         *)
(***************************************************************************)
EXTENDS Naturals, Sequences, FiniteSets, SequencesExt, FiniteSetsExt

CONSTANTS
    Commands,       \* what an agent can run
    Packages,       \* what package.json can hold: [scripts -> commands]
    Assignments,    \* words KEY=value
    Secrets,        \* words that look like a credential
    TestSuites,     \* what a run can do: [runner, parts, whole, failed, said]
    Reachable,      \* labels of vitest that name a file below the directory
    MAX_ITERATIONS, MAX_RECURSION_DEPTH, MAX_GROUPS,
    MaxRounds       \* bound on the rounds of one command

VARIABLES
    package,        \* package.json, or NoPackage
    ran,            \* the command that is matched
    command,        \* its words, this round
    visited,        \* the commands of the rounds before
    outcome,        \* "matching", "none", or the runner that matched
    suite, shown    \* the run it was, and what is shown of it

testVars == <<package, ran, command, visited, outcome, suite, shown>>

NoPackage == <<>>
NoSuite == [runner |-> "none"]
NotShown == [status |-> "not shown"]

First(words) == IF words = <<>> THEN "" ELSE words[1]
Second(words) == IF Len(words) < 2 THEN "" ELSE words[2]
Rest(words, n) == SubSeq(words, n + 1, Len(words))

LeadingUntil(words, Stops(_)) ==
    CHOOSE n \in 0..Len(words) : (\A i \in 1..n : ~Stops(words[i])) /\ (n < Len(words) => Stops(words[n + 1]))
-----------------------------------------------------------------------------
(* Matching a command.                                                     *)

strip_env_prefix(words) == LET Other(w) == w \notin Assignments IN Rest(words, LeadingUntil(words, Other))

first_segment(words) ==
    LET Separator(w) == w \in {"&&", "||", ";", "|"} IN SubSeq(words, 1, LeadingUntil(words, Separator))

strip_one_wrapper(words) ==
    IF First(words) = "npx" THEN Tail(words)
    ELSE IF <<First(words), Second(words)>> \in {<<"pnpm", "exec">>, <<"yarn", "exec">>, <<"bun", "x">>, <<"dotenv", "--">>}
         THEN Rest(words, 2)
    ELSE words

strip_wrappers(words) ==
    LET strip[n \in 0..MAX_ITERATIONS] == IF n = 0 THEN words ELSE strip_one_wrapper(strip[n - 1])
    IN  strip[MAX_ITERATIONS]

Normal(words) == strip_wrappers(first_segment(strip_env_prefix(words)))

\* The script a command runs, with the words consumed by saying so, if it runs one.
parse_alias_invocation(words) ==
    IF First(words) \in {"npm", "yarn", "pnpm"} /\ Second(words) = "test" THEN {[script |-> "test", consumed |-> 2]}
    ELSE IF First(words) \in {"npm", "yarn", "pnpm", "bun"} /\ Second(words) = "run" /\ Len(words) > 2
         THEN {[script |-> words[3], consumed |-> 3]}
    ELSE {}

package_script(name) == IF name \in DOMAIN package THEN {package[name]} ELSE {}

\* A script that is nothing but another one is that one, as far as that can be followed;
\* what it passes to it is lost.
resolve_recursive(name) ==
    LET resolve[depth \in 0..MAX_RECURSION_DEPTH, n \in DOMAIN package] ==
            IF depth = 0 THEN {}
            ELSE LET next == {a \in parse_alias_invocation(package[n]) : a.script \in DOMAIN package}
                     deeper == UNION {resolve[depth - 1, a.script] : a \in next}
                 IN  IF deeper # {} THEN deeper ELSE {package[n]}
    IN  IF package_script(name) = {} THEN {} ELSE resolve[MAX_RECURSION_DEPTH, name]

\* What follows the script's name is passed on to it.
resolve_alias(words) ==
    UNION {LET left == Rest(words, a.consumed)
               passed == IF First(left) = "--" THEN Tail(left) ELSE left
           IN  {body \o passed : body \in resolve_recursive(a.script)} : a \in parse_alias_invocation(words)}

\* The runners in RUNNERS that these words start.
runner_of(words) ==
    IF First(words) = "vitest" THEN "vitest"
    ELSE IF First(words) = "cargo" /\ Second(words) = "test" THEN "cargo"
    ELSE "none"

\* pnpm and yarn also run a program directly.
match_runner(words) ==
    IF runner_of(words) # "none" \/ First(words) \notin {"pnpm", "yarn"} THEN runner_of(words)
    ELSE runner_of(Tail(words))

Run(c) ==
    /\ outcome # "matching" /\ suite = NoSuite /\ ran = <<>>
    /\ ran' = c /\ command' = c /\ visited' = {} /\ outcome' = "matching"
    /\ UNCHANGED <<package, suite, shown>>

\* One call of match_command_inner.
Round ==
    /\ outcome = "matching" /\ Cardinality(visited) < MaxRounds
    /\ visited' = visited \cup {command}
    /\ LET words == Normal(command)
           resolved == resolve_alias(words)
       IN  IF command \in visited THEN outcome' = "none" /\ UNCHANGED command
           ELSE IF resolved # {} THEN command' \in resolved /\ UNCHANGED outcome
           ELSE outcome' = match_runner(words) /\ UNCHANGED command
    /\ UNCHANGED <<package, ran, suite, shown>>
-----------------------------------------------------------------------------
(* Reading a run.  A suite's parts are cargo's binaries or vitest's files, *)
(* each by module or label with its counts.                                *)

Total(counts) == counts.passed + counts.failed + counts.skipped
SumOver(set, Of(_)) == MapThenSumSet(Of, set)

Counts(p, f, s) == [passed |-> p, failed |-> f, skipped |-> s]
Tally(part) ==
    LET P(m) == part[m].passed
        F(m) == part[m].failed
        S(m) == part[m].skipped
    IN  Counts(SumOver(DOMAIN part, P), SumOver(DOMAIN part, F), SumOver(DOMAIN part, S))
Together(a, b) == Counts(a.passed + b.passed, a.failed + b.failed, a.skipped + b.skipped)
Zero == Counts(0, 0, 0)
InAll(s) == FoldSeq(Together, Zero, [i \in DOMAIN s.parts |-> Tally(s.parts[i])])

\* cargo prints a result for every binary that ran to its end, vitest one for all files;
\* a run that was cut short or did not compile prints none for the last.
result_lines(s) ==
    LET ends == IF s.whole THEN Len(s.parts) ELSE Len(s.parts) - 1
    IN  IF s.runner = "cargo" THEN [i \in 1..ends |-> Tally(s.parts[i])]
        ELSE IF s.whole THEN <<InAll(s)>> ELSE <<>>

\* The sum of all results, if there are any.
parse_summary(s) == IF result_lines(s) = <<>> THEN {} ELSE {FoldSeq(Together, Zero, result_lines(s))}

group_status(c) ==
    IF c.failed > 0 THEN "fail" ELSE IF Total(c) = 0 \/ (c.skipped > 0 /\ c.passed = 0) THEN "skip" ELSE "pass"

\* cargo's groups are the modules of its tests, over all binaries.
cargo_groups(s) ==
    LET modules == UNION {DOMAIN s.parts[i] : i \in DOMAIN s.parts}
        Of(m) == FoldSeq(Together, Zero, [i \in DOMAIN s.parts |-> IF m \in DOMAIN s.parts[i] THEN s.parts[i][m] ELSE Zero])
    IN  {[label |-> m, path |-> {}, counts |-> Of(m), status |-> group_status(Of(m))] : m \in modules}

\* vitest's rows count a file's tests and its failures; a file all of which was skipped
\* has a mark of its own, and in another what was skipped seems to have passed.
vitest_groups(s) ==
    LET files == UNION {DOMAIN s.parts[i] : i \in DOMAIN s.parts}
        Of(f) == LET c == s.parts[CHOOSE i \in DOMAIN s.parts : f \in DOMAIN s.parts[i]][f]
                 IN  IF group_status(c) = "skip" THEN Counts(0, 0, Total(c)) ELSE Counts(Total(c) - c.failed, c.failed, 0)
    IN  {[label |-> f, path |-> {f} \cap Reachable, counts |-> Of(f), status |-> group_status(Of(f))] : f \in files}

\* Of too many groups, the first.
Groups(s) ==
    LET all == IF s.runner = "cargo" THEN cargo_groups(s) ELSE vitest_groups(s)
    IN  IF Cardinality(all) <= MAX_GROUPS THEN all ELSE CHOOSE few \in kSubset(MAX_GROUPS, all) : TRUE

derive_status(summary) ==
    IF summary = {} THEN "error"
    ELSE LET s == CHOOSE c \in summary : TRUE
         IN  IF s.failed > 0 THEN "fail"
             ELSE IF Total(s) = 0 \/ (s.passed = 0 /\ s.skipped > 0) THEN "noTests"
             ELSE "pass"

\* Credentials are blacked out in the command shown.
build_command_preview(words) == [i \in DOMAIN words |-> IF words[i] \in Secrets THEN "[REDACTED]" ELSE words[i]]

\* The first line that tells of an error, or the first that is not blank.
extract_excerpt(said) ==
    LET full == SelectSeq(said, LAMBDA l : l # "blank")
        telling == SelectSeq(full, LAMBDA l : l = "error")
    IN  First(telling \o full)

\* From the times of the two lines when both have one and in order; else as measured.
compute_duration_ms(started, finished, fallback) ==
    IF started # {} /\ finished # {} /\ Max(finished) >= Max(started) THEN Max(finished) - Max(started) ELSE fallback

\* Nothing is shown of a run that neither counted its tests nor failed.
maybe_build_snapshot(s) ==
    LET summary == parse_summary(s)
        status == derive_status(summary)
    IN  IF summary = {} /\ ~s.failed THEN NotShown
        ELSE [status |-> status, runner |-> outcome, preview |-> build_command_preview(Normal(command)),
              summary |-> IF summary = {} THEN Zero ELSE CHOOSE c \in summary : TRUE,
              groups |-> IF summary = {} THEN {} ELSE Groups(s),
              duration |-> compute_duration_ms(s.times[1], s.times[2], s.times[3]),
              excerpt |-> IF status = "error" THEN extract_excerpt(s.said) ELSE ""]

Answer(s) ==
    /\ outcome \notin {"matching", "none"} /\ suite = NoSuite /\ s.runner = outcome
    /\ suite' = s /\ shown' = maybe_build_snapshot(s)
    /\ UNCHANGED <<package, ran, command, visited, outcome>>

TestInit ==
    /\ package \in Packages
    /\ ran = <<>> /\ command = <<>> /\ visited = {} /\ outcome = "none"
    /\ suite = NoSuite /\ shown = NotShown

TestNext == (\E c \in Commands : Run(c)) \/ Round \/ (\E s \in TestSuites : Answer(s))
-----------------------------------------------------------------------------
(* Properties.                                                             *)

\* What a shell would run first, going through the scripts one after the other: a
\* script's words, with what is passed to it.  A script that runs itself runs nothing.
Program(words) ==
    LET run[n \in 0..Cardinality(DOMAIN package) + 1] ==
            LET before == Normal(IF n = 0 THEN words ELSE run[n - 1])
                alias == {a \in parse_alias_invocation(before) : a.script \in DOMAIN package}
            IN  IF alias = {} THEN before
                ELSE LET a == CHOOSE b \in alias : TRUE
                         left == Rest(before, a.consumed)
                     IN  package[a.script] \o (IF First(left) = "--" THEN Tail(left) ELSE left)
        end == Normal(run[Cardinality(DOMAIN package) + 1])
    IN  IF parse_alias_invocation(end) = {} THEN end ELSE <<>>

\* A command is taken for no other run than that of the tests it runs, through any
\* scripts; and vitest, which needs no further word, is always found
\* (match_command_inner, resolve_alias).
MatchIsRun ==
    outcome # "matching" /\ ran # <<>> =>
        /\ outcome \in {"none", match_runner(Program(ran))}
        /\ match_runner(Program(ran)) = "vitest" => outcome = "vitest"

\* A run that came to its end is shown with what it did, over all binaries and files,
\* and the groups shown add up to it; it is shown as failed exactly when a test failed
\* (cargo_parse_result, vitest_parse_result, derive_status).
RunIsHonest ==
    suite # NoSuite /\ suite.whole =>
        /\ shown.status # "not shown" /\ shown.summary = InAll(suite)
        /\ shown.status = "fail" <=> InAll(suite).failed > 0
        /\ LET In(g) == Total(g.counts)
               Failed(g) == g.counts.failed
           IN  Cardinality(shown.groups) < MAX_GROUPS =>
               /\ SumOver(shown.groups, In) = Total(InAll(suite))
               /\ SumOver(shown.groups, Failed) = InAll(suite).failed

\* Scripts that run each other are noticed: a command goes through few more rounds than
\* there are scripts (matcher.rs:105-111 and 130-131).
CyclesAreCaught == Cardinality(visited) <= Cardinality(DOMAIN package) + 2
=============================================================================
