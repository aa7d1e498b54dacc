-------------------------------- MODULE Locators --------------------------------
(***************************************************************************)
(* How each agent's session is found and followed, and how what it leaves  *)
(* behind is read.  The parts share nothing; each behaviour is of one.     *)
(***************************************************************************)
EXTENDS CodexLocator, KimiSession, OpenCodeIndex,
        StatusReaders, TestRuns, ExecScript

VARIABLE agent
locatorVars == <<codexVars, titleVars, kimiVars, ocVars>>
readingVars == <<readerVars, pluginVars, testVars, scriptVars>>
allVars == <<agent, locatorVars, readingVars>>

Init ==
    /\ agent \in {"codex", "title", "kimi", "opencode", "status", "plugin", "tests", "script"}
    /\ CodexInit /\ (agent # "codex" => argv = NoRollout /\ tables = {} /\ rows = [r \in Rollouts |-> 0])
    /\ TitleInit /\ (agent # "title" => name = NoTitle)
    /\ KimiSessionInit /\ (agent # "kimi" => startKnown /\ reported = NoKimiSession /\ indexed = {})
    /\ ReaderInit /\ (agent # "status" => reader = "claude")
    /\ TestInit /\ (agent # "tests" => package = NoPackage)
    /\ OcInit /\ PluginInit /\ ScriptInit

LocatorNext ==
    /\ UNCHANGED readingVars
    /\ \/ agent = "codex" /\ CodexNext /\ UNCHANGED <<titleVars, kimiVars, ocVars>>
       \/ agent = "title" /\ TitleNext /\ UNCHANGED <<codexVars, kimiVars, ocVars>>
       \/ agent = "kimi" /\ KimiSessionNext /\ UNCHANGED <<codexVars, titleVars, ocVars>>
       \/ agent = "opencode" /\ OcNext /\ UNCHANGED <<codexVars, titleVars, kimiVars>>

ReadingNext ==
    /\ UNCHANGED locatorVars
    /\ \/ agent = "status" /\ ReaderNext /\ UNCHANGED <<pluginVars, testVars, scriptVars>>
       \/ agent = "plugin" /\ PluginNext /\ UNCHANGED <<readerVars, testVars, scriptVars>>
       \/ agent = "tests" /\ TestNext /\ UNCHANGED <<readerVars, pluginVars, scriptVars>>
       \/ agent = "script" /\ ScriptNext /\ UNCHANGED <<readerVars, pluginVars, testVars>>

Next == UNCHANGED agent /\ (LocatorNext \/ ReadingNext)

\* The thread of the title polls on; the supervisor polls until it has left, and each
\* thread of a wire reads on.
Fairness ==
    /\ WF_titleVars(agent = "title" /\ Watch)
    /\ WF_kimiVars(agent = "kimi" /\ Supervise) /\ WF_kimiVars(agent = "kimi" /\ Children)

Spec == Init /\ [][Next]_allVars /\ Fairness

-----------------------------------------------------------------------------
\* What a pane is bound to is of its own process by all that agent leaves behind, and
\* another's only where nothing of its own tells them apart, for each agent by what
\* that agent leaves behind (StatusSourceLocator.locate of each adapter).
OwnSession ==
    /\ [][CodexTakes]_codexVars
    /\ [][KimiTakes]_kimiVars
    /\ [](agent = "opencode" => OpenCodeOwn)

\* A title that Codex wrote is told in the end, and the wire of a newer session of Kimi's is
\* followed (session_index.rs, run_session_supervisor).
CatchesUp == TitleFollows /\ WiresFollowed

\* What is read of an agent's reports, of its scripts and of its test runs is what they
\* say and do.
ReadAsWritten ==
    /\ agent = "status" => ReportsAreRead /\ GaugeAddsUp
    /\ agent = "script" => ScriptIsRead
    /\ agent = "tests" => MatchIsRun /\ RunIsHonest
=============================================================================
