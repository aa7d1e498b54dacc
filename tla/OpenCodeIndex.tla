----------------------------- MODULE OpenCodeIndex -----------------------------
(***************************************************************************)
(* Both sides of the index by which OpenCode's sessions are found: the     *)
(* plugin OpenCode loads, which writes it, and the daemon's locator.       *)
(*                                                                         *)
(* The plugin (opencode/plugin/agent-watcher-opencode-bridge.ts) writes a  *)
(* file of lines per session, and the index of the sessions.               *)
(* OpenCode tells a part of a message over and over, with all of its text  *)
(* so far, and may tell it before the message it is of.  The plugin keeps  *)
(* texts in memory and writes those of assistants when the session rests.  *)
(* A session whose name is no safe file name is told of as well.  Any      *)
(* write may fail, without a word and without the plugin remembering it.   *)
(*                                                                         *)
(* For the locator (agents/sidecar.rs, agent/adapter/opencode/locator.rs)  *)
(* the plugins of all servers append rows to the one index, the daemon     *)
(* appends one of its own for the session herdr declares, and the locator  *)
(* chooses from them.  Each bind has a locator of its own, which is asked  *)
(* once: the session it would hold on to is never there.                   *)
(***************************************************************************)
EXTENDS Naturals, Sequences, FiniteSets

CONSTANTS
    PluginSessions,  \* sessions OpenCode tells of
    SafeSessions,    \* those whose name may be that of a file
    Messages,        \* messages, by who wrote them
    Role,            \* [Messages -> {"user", "assistant"}]
    Texts,           \* what a part's text can be so far
    Directories,
    Arguments,       \* a tool's arguments: [content, secret, nested : BOOLEAN]
    MaxEvents

ASSUME SafeAssumption == SafeSessions \subseteq PluginSessions

VARIABLES
    assistants,   \* assistantMessages: by session, the assistant's messages known
    texts,        \* sessionTextParts: by session and message, the part's text
    directory,    \* lastDirectory: by session, the one a row was made for
    entered, lines, \* the files: the index, and what the last event left of each session
    told,         \* the texts told since the session last rested or failed
    here,         \* the directory each session was last told to be in
    lost,         \* a write failed
    events

pluginVars == <<assistants, texts, directory, entered, lines, told, here, lost, events>>
buffers == <<assistants, texts, told>>
filed == <<directory, entered, here>>

NoText == "no text"
NoDirectory == "no directory"
Untold == [m \in Messages |-> NoText]

PluginInit ==
    /\ assistants = [s \in PluginSessions |-> {}]
    /\ texts = [s \in PluginSessions |-> Untold] /\ told = texts
    /\ directory = [s \in PluginSessions |-> NoDirectory] /\ here = directory
    /\ entered = <<>> /\ lines = [s \in PluginSessions |-> {}]
    /\ lost = FALSE /\ events = 0
-----------------------------------------------------------------------------
(* What is written of an event.                                            *)

\* Arguments that carry contents are dropped, those that look like a credential are
\* blacked out, and of the rest only texts and scalars are kept.
previewArgs(args) ==
    {[a EXCEPT !.secret = FALSE] : a \in {b \in args : ~b.content /\ (b.secret \/ ~b.nested)}}

\* Of a tool its arguments so previewed, its title and an excerpt of its output; of a
\* message who wrote it and what it used; of none a text.
sanitizeEventData(type, args) == [type |-> type, text |-> {}, args |-> previewArgs(args)]

sessionFilename(s) == s \in SafeSessions

\* Lines for the session's file, any of which may be lost.
appendSessionLine(s, new) ==
    LET due == IF sessionFilename(s) THEN new ELSE {}
    IN  \E kept \in SUBSET due :
            /\ lines' = [lines EXCEPT ![s] = kept]
            /\ lost' = (lost \/ kept # due)

Event(s) == events < MaxEvents /\ events' = events + 1 /\ s \in PluginSessions
-----------------------------------------------------------------------------
(* Messages and tools.                                                     *)

\* Only an assistant's messages are known by name.
trackAssistantMessage(s, m) ==
    assistants' = IF Role[m] = "assistant" THEN [assistants EXCEPT ![s] = @ \cup {m}] ELSE assistants

MessageUpdated(s, m) ==
    /\ Event(s) /\ trackAssistantMessage(s, m)
    /\ appendSessionLine(s, {sanitizeEventData("message.updated", {})})
    /\ UNCHANGED <<texts, told, filed>>

\* The newest text of a part replaces the last, and nothing is written.
bufferTextPart(s, m, t) ==
    /\ Event(s)
    /\ texts' = [texts EXCEPT ![s][m] = t] /\ told' = [told EXCEPT ![s][m] = t]
    /\ UNCHANGED <<assistants, lines, lost, filed>>

\* Tools about to run and done, permissions, questions, steps: a line each.
OneLine(s, type, args) ==
    /\ Event(s) /\ appendSessionLine(s, {sanitizeEventData(type, args)})
    /\ UNCHANGED <<buffers, filed>>

\* Mutant: the texts of all messages are written.
flushEverything(s) == {texts[s][m] : m \in {n \in Messages : texts[s][n] # NoText}}

\* The texts of the messages known to be an assistant's.
flushAssistantText(s) == {texts[s][m] : m \in {n \in assistants[s] : texts[s][n] # NoText}}

clearAssistantBuffers(s) ==
    /\ assistants' = [assistants EXCEPT ![s] = {}]
    /\ texts' = [texts EXCEPT ![s] = Untold]
    /\ told' = [told EXCEPT ![s] = Untold]

\* The answer is a line before that of the rest.
SessionIdle(s) ==
    LET answer == flushAssistantText(s)
        said == IF answer = {} THEN {} ELSE {[type |-> "assistant.text", text |-> answer, args |-> {}]}
    IN  /\ Event(s) /\ clearAssistantBuffers(s) /\ UNCHANGED filed
        /\ appendSessionLine(s, said \cup {sanitizeEventData("session.idle", {})})

\* A turn that fails never rests: what was said in it is dropped.
SessionError(s) ==
    /\ Event(s) /\ clearAssistantBuffers(s) /\ UNCHANGED filed
    /\ appendSessionLine(s, {sanitizeEventData("session.error", {})})
-----------------------------------------------------------------------------
(* Sessions.                                                               *)

\* Mutant: only a session that begins is entered in the index.
EntersNewOnly(s, new, d) == new

\* A session that begins is entered in the index, and one in another directory, which
\* is remembered before its row is written.
Enters(s, new, d) == new \/ directory[s] # d

handleSessionInfo(s, new, d) ==
    LET rows == IF Enters(s, new, d) /\ sessionFilename(s) THEN {TRUE} ELSE {}
        line == IF sessionFilename(s) THEN {sanitizeEventData("session", {})} ELSE {}
    IN  /\ Event(s) /\ UNCHANGED buffers
        /\ here' = [here EXCEPT ![s] = d]
        /\ directory' = IF Enters(s, new, d) THEN [directory EXCEPT ![s] = d] ELSE directory
        /\ \E row \in SUBSET rows, kept \in SUBSET line :
              /\ entered' = IF row # {} THEN Append(entered, [session |-> s, dir |-> d]) ELSE entered
              /\ lines' = [lines EXCEPT ![s] = kept]
              /\ lost' = (lost \/ row # rows \/ kept # line)

PluginNext ==
    \E s \in PluginSessions :
        \/ \E m \in Messages : MessageUpdated(s, m) \/ \E t \in Texts : bufferTextPart(s, m, t)
        \/ \E type \in {"tool", "other"}, args \in SUBSET Arguments : (args # {} => type = "tool") /\ OneLine(s, type, args)
        \/ SessionIdle(s) \/ SessionError(s)
        \/ \E new \in BOOLEAN, d \in Directories : handleSessionInfo(s, new, d)
-----------------------------------------------------------------------------
(* Properties.                                                             *)

\* Whatever the order of a message and of its text, no text of a user's is written,
\* and what is written of an assistant's is the newest told in this turn
\* (bufferTextPart, trackAssistantMessage, flushAssistantText).
AnswersOnly ==
    [][\A s \in PluginSessions : lines'[s] # lines[s] =>
          \A line \in lines'[s] :
             line.text \subseteq {told[s][m] : m \in {n \in Messages : Role[n] = "assistant"}} \ {NoText}]_pluginVars

\* The index names the directory each session is in, unless a write failed
\* (handleSessionInfo remembers the directory before its row is written).
IndexIsCurrent ==
    ~lost => \A s \in SafeSessions : here[s] # NoDirectory =>
        LET rows == {i \in DOMAIN entered : entered[i].session = s}
        IN  rows # {} /\ entered[CHOOSE i \in rows : \A j \in rows : j <= i].dir = here[s]
-----------------------------------------------------------------------------
(* The locator.                                                            *)

CONSTANTS
    OcPanes, OcSessions,
    OwnerOf,        \* the pane whose server has the session
    DirOf,          \* the directory of a pane, which its sessions share
    NoOcSession,
    MaxRows         \* model bound

ASSUME OwnerAssumption == OwnerOf \in [OcSessions -> OcPanes] /\ NoOcSession \notin OcSessions

VARIABLES
    index,     \* the rows: session, the process, its directory, whether since the pane was first seen
    bridged,   \* the sessions that have a file
    declared,  \* what herdr declares for a pane
    seenAt,    \* how long the index was when the daemon first saw the pane
    binds      \* a pane's bind: step, whether its declared session had a file, what it found

ocVars == <<index, bridged, declared, seenAt, binds>>

Unbound == [step |-> "seed", seeded |-> FALSE, found |-> NoOcSession]

OcInit ==
    /\ index = <<>> /\ bridged = {} /\ declared = [p \in OcPanes |-> NoOcSession]
    /\ seenAt = [p \in OcPanes |-> 0] /\ binds = [p \in OcPanes |-> Unbound]

IndexRowOf(s, pid) == [session |-> s, pid |-> pid, dir |-> DirOf[OwnerOf[s]]]

\* A session is created, or its directory is another than the plugin remembers.
SessionRow(s) ==
    /\ Len(index) < MaxRows
    /\ index' = Append(index, IndexRowOf(s, <<OwnerOf[s], "agent">>)) /\ bridged' = bridged \cup {s}
    /\ UNCHANGED <<declared, seenAt, binds>>

\* herdr declares a session of the pane's server: a pane that is bound is bound again.
Declare(s) ==
    /\ declared[OwnerOf[s]] # s
    /\ declared' = [declared EXCEPT ![OwnerOf[s]] = s]
    /\ binds' = [binds EXCEPT ![OwnerOf[s]] = Unbound]
    /\ UNCHANGED <<index, bridged, seenAt>>

\* A new daemon sees every pane for the first time.
DaemonRestart ==
    /\ seenAt' = [p \in OcPanes |-> Len(index)]
    /\ binds' = [p \in OcPanes |-> Unbound]
    /\ UNCHANGED <<index, bridged, declared>>

\* seed_opencode_index: the row has the process of the pane's shell.
Seed(p) ==
    /\ declared[p] # NoOcSession /\ binds[p].step = "seed"
    /\ IF declared[p] \in bridged
       THEN Len(index) < MaxRows /\ index' = Append(index, IndexRowOf(declared[p], <<p, "shell">>))
       ELSE UNCHANGED index
    /\ binds' = [binds EXCEPT ![p] = [step |-> "locate", seeded |-> declared[p] \in bridged, found |-> NoOcSession]]
    /\ UNCHANGED <<bridged, declared, seenAt>>

FreshRows(p) == {i \in DOMAIN index : i > seenAt[p]}
OfAgent(p) == {i \in FreshRows(p) : index[i].pid = <<p, "agent">>}
OfDir(p) == {i \in FreshRows(p) : index[i].dir = DirOf[p]}
SessionsOf(I) == {index[i].session : i \in I}
LastOf(I) == index[CHOOSE i \in I : \A j \in I : j <= i].session

\* resolve_by_cwd: several sessions in one directory cannot be told apart.
ResolveByCwd(p) ==
    IF Cardinality(SessionsOf(OfDir(p))) = 1 THEN SessionsOf(OfDir(p)) ELSE {}

\* The last row of the agent's own process, else the only session of the directory.
Resolve(p) == IF OfAgent(p) # {} THEN {LastOf(OfAgent(p))} ELSE ResolveByCwd(p)

\* A bind that finds nothing, or cannot read the index, is begun again by a later pass.
OcLocate(p) ==
    /\ binds[p].step = "locate"
    /\ \/ \E s \in Resolve(p) : binds' = [binds EXCEPT ![p].step = "bound", ![p].found = s]
       \/ binds' = [binds EXCEPT ![p] = Unbound]
    /\ UNCHANGED <<index, bridged, declared, seenAt>>

OcNext ==
    \/ DaemonRestart
    \/ \E s \in OcSessions : SessionRow(s) \/ Declare(s)
    \/ \E p \in OcPanes : Seed(p) \/ OcLocate(p)
-----------------------------------------------------------------------------
\* A pane whose declared session had a file is never shown from another pane's server,
\* whichever rows the servers and the daemon wrote in between
\* (resolve_by_pid, resolve_by_cwd, seed_opencode_index).
OpenCodeOwn ==
    \A p \in OcPanes : binds[p].step = "bound" /\ binds[p].seeded => OwnerOf[binds[p].found] = p

\* "appends a fresh PID/cwd/session index row so an already-running session survives an
\* Agent Watcher daemon restart": a declared session that has a file can be found.
SeedIsFound ==
    \A p \in OcPanes :
       binds[p].step = "locate" /\ binds[p].seeded /\ declared[p] = index[Len(index)].session
         /\ index[Len(index)].pid = <<p, "shell">> => Resolve(p) # {}
=============================================================================
