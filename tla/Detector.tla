-------------------------------- MODULE Detector --------------------------------
(***************************************************************************)
(* Which agent runs in a pane (agent/detector.rs), and what is bound of it *)
(* (resolve_bind_inputs, AgentBindings::for_attach): the processes under   *)
(* the pane's shell are collected one by one, then asked one by one what   *)
(* they run, while processes come and go.                                  *)
(*                                                                         *)
(* The panes' registry (terminal/state.rs) keeps the shell and the         *)
(* directory herdr reports; a pane's generation stands for the time it was *)
(* first seen as well.                                                     *)
(***************************************************************************)
EXTENDS Naturals, Sequences, FiniteSets, SequencesExt

CONSTANTS
    Pids,         \* numbers the system gives to processes, and gives again
    Shell,        \* the one herdr started in the pane
    Programs,     \* what they can run
    PaneIds,
    KimiVariable, \* KIMI_CODE_HOME, if it is set
    MaxChanges,   \* model bound: processes that begin, end or run something else
    MaxPanes      \* model bound: times a pane is first seen

\* The system has finitely many processes, and gives none the number 0.
ASSUME ShellAssumption == IsFiniteSet(Pids) /\ Shell \in Pids /\ 0 \notin Pids

VARIABLES
    table,        \* [Pids -> processes]: who started it, and what it runs
    runtimes,     \* PtyState: [PaneIds -> what is known of the pane]
    generation,   \* GENERATION
    search,       \* the detection under way
    context,      \* the last attachment
    still,        \* history: no process came or went since the detection began
    changes

detectorVars == <<table, runtimes, generation, search, context, still, changes>>

Free == [program |-> "none"]
Init1 == 0                       \* the parent of what nobody waits for
Unseen == [generation |-> 0]
NoSearch == [pane |-> "none"]
NotAttached == [agent |-> "none"]
Runs(q) == table[q] # Free

DetectorInit ==
    /\ table = [q \in Pids |-> IF q = Shell THEN [parent |-> Init1, program |-> "shell"] ELSE Free]
    /\ runtimes = [p \in PaneIds |-> Unseen] /\ generation = 0
    /\ search = NoSearch /\ context = NotAttached /\ still = TRUE /\ changes = 0
-----------------------------------------------------------------------------
(* Agents (agent/config.rs).                                               *)

agent_type_for_binary(program) ==
    IF program \in {"claude", "codex", "kimi", "opencode", "aider"} THEN {program}
    ELSE IF program = "kimi-code" THEN {"kimi"} ELSE {}

detect_agent_from_cmdline(q) == IF Runs(q) THEN agent_type_for_binary(table[q].program) ELSE {}

\* Agents with a home under the user's, if that is known.
provider_home(agent, user) == IF agent \in {"claude", "codex", "kimi"} THEN user ELSE {}

First(choices, default) ==
    LET known == SelectSeq(choices, LAMBDA c : c # {}) IN IF known = <<>> THEN default ELSE CHOOSE home \in known[1] : TRUE

codex_home(user) == First(<<provider_home("codex", user)>>, "relative")
\* Kimi's own variable counts, unless it is empty.
kimi_home(user) == First(<<KimiVariable \ {""}, provider_home("kimi", user)>>, "relative")

\* What an agent is read from.  For OpenCode it is the plugin's directory, and the plugin is
\* installed, whether or not that succeeds.
for_attach(agent, user) ==
    CASE agent = "claude" -> "app data"
      [] agent = "codex" -> codex_home(user)
      [] agent = "kimi" -> kimi_home(user)
      [] agent = "opencode" -> "bridge"
      [] OTHER -> "nothing"
-----------------------------------------------------------------------------
(* The panes' registry: what herdr does not report is kept, and a pane     *)
(* that was removed begins anew.                                           *)

Known(runtime) == runtime.generation # 0
Newest(reported, before) == IF reported = {} THEN before ELSE reported

upsert_pane(p, pid, cwd) ==
    /\ search = NoSearch
    /\ IF Known(runtimes[p])
       THEN /\ runtimes' = [runtimes EXCEPT ![p].pid = Newest(pid, @), ![p].cwd = Newest(cwd, @)]
            /\ UNCHANGED generation
       ELSE /\ generation < MaxPanes /\ generation' = generation + 1
            /\ runtimes' = [runtimes EXCEPT ![p] = [pid |-> pid, cwd |-> cwd, generation |-> generation']]
    /\ UNCHANGED <<table, search, context, still, changes>>

remove_pane(p) ==
    /\ search = NoSearch /\ Known(runtimes[p])
    /\ runtimes' = [runtimes EXCEPT ![p] = Unseen]
    /\ UNCHANGED <<table, generation, search, context, still, changes>>
-----------------------------------------------------------------------------
(* An attachment.                                                          *)

\* A pane without a directory or a shell is refused.
resolve_bind_inputs(p) ==
    /\ search = NoSearch /\ Known(runtimes[p]) /\ runtimes[p].pid # {} /\ runtimes[p].cwd # {}
    /\ \E shell \in runtimes[p].pid :
          search' = [pane |-> p, shell |-> shell, stack |-> <<shell>>, visited |-> {shell}, candidates |-> <<>>]
    /\ context' = NotAttached /\ still' = TRUE
    /\ UNCHANGED <<table, runtimes, generation, changes>>

Children(q) == {c \in Pids : Runs(c) /\ table[c].parent = q}

\* Mutant: a process is a candidate after those it started.
CandidatesBelow(q) == <<q>> \o search.candidates

\* A process is a candidate before those it started.
Candidates(q) == Append(search.candidates, q)

\* The last process found is next, with its children in the order they are listed in.
collect_process_tree ==
    /\ search # NoSearch /\ search.stack # <<>>
    /\ LET q == Last(search.stack)
           new == Children(q) \ search.visited
       IN  \E listed \in Bijection(1 .. Cardinality(new), new) :
               search' = [search EXCEPT !.stack = Front(@) \o listed,
                                        !.visited = @ \cup new, !.candidates = Candidates(q)]
    /\ UNCHANGED <<table, runtimes, generation, context, still, changes>>

\* The first candidate that runs an agent is the pane's.
detect_agent ==
    /\ search # NoSearch /\ search.stack = <<>>
    /\ IF search.candidates = <<>>
       THEN search' = NoSearch /\ context' = NotAttached
       ELSE LET q == Head(search.candidates) agents == detect_agent_from_cmdline(q)
            IN  IF agents = {} THEN search' = [search EXCEPT !.candidates = Tail(@)] /\ UNCHANGED context
                ELSE /\ search' = NoSearch
                     /\ \E agent \in agents, user \in {{}, {"home"}} :
                           context' = [agent |-> agent, pid |-> q, home |-> for_attach(agent, user), pane |-> search.pane]
    /\ UNCHANGED <<table, runtimes, generation, still, changes>>
-----------------------------------------------------------------------------
(* Processes.                                                              *)

Changes(new) ==
    /\ changes < MaxChanges /\ changes' = changes + 1
    /\ table' = new /\ still' = FALSE
    /\ UNCHANGED <<runtimes, generation, search, context>>

Forks(q, new) == Runs(q) /\ ~Runs(new) /\ Changes([table EXCEPT ![new] = [parent |-> q, program |-> table[q].program]])
Execs(q, program) == Runs(q) /\ Changes([table EXCEPT ![q].program = program])
Exits(q) ==
    /\ Runs(q)
    /\ Changes([c \in Pids |-> IF c = q THEN Free
                               ELSE IF c \in Children(q) THEN [table[c] EXCEPT !.parent = Init1] ELSE table[c]])

DetectorNext ==
    \/ \E p \in PaneIds, pid \in {{}, {Shell}}, cwd \in {{}, {"dir"}} : upsert_pane(p, pid, cwd)
    \/ \E p \in PaneIds : remove_pane(p) \/ resolve_bind_inputs(p)
    \/ collect_process_tree \/ detect_agent
    \/ \E q \in Pids : \/ \E new \in Pids : Forks(q, new)
                       \/ \E program \in Programs : Execs(q, program)
                       \/ Exits(q)
-----------------------------------------------------------------------------
(* Properties.                                                             *)

\* Process q and those it started, directly or not: no set of processes with q and the
\* children of its members is without them.
Under(q) == {c \in Pids : \A S \in SUBSET Pids : q \in S /\ (\A p \in S : Children(p) \subseteq S) => c \in S}

\* If no process came or went meanwhile, the pane's agent is one that runs in it and that no
\* other agent started, as a reviewer or a tool; and none is found only where none runs, the
\* shell included that was replaced by one (detect_agent_with_source).
OutermostAttached ==
    [][search # NoSearch /\ search' = NoSearch /\ still =>
          LET agents == {q \in Under(search.shell) : detect_agent_from_cmdline(q) # {}}
          IN  IF context' = NotAttached THEN agents = {}
              ELSE {q \in agents : context'.pid \in Under(q)} = {context'.pid}]_detectorVars
=============================================================================
