----------------------------- MODULE ClaudeBridge -----------------------------
(***************************************************************************)
(* Installing and removing the Claude bridge in the operator's own         *)
(* settings (agents/claude_bridge.rs, agents/bridge_settings.rs,           *)
(* agents/bridge_scripts.rs): one command runs at a time, may fail at any  *)
(* write or be killed at any step, and the operator saves the settings     *)
(* whenever they like.                                                     *)
(*                                                                         *)
(* The settings are a status line and, per event, the set of its hook      *)
(* entries, each ours or theirs; hooks may be absent altogether.  A        *)
(* command line is who it belongs to.                                      *)
(***************************************************************************)
EXTENDS Naturals, FiniteSets, Functions, TLC

CONSTANTS Events,        \* hook events
          TheirLines,    \* status lines of the operator
          MaxCommands, MaxEdits

ASSUME LineAssumption == "ours" \notin TheirLines
ASSUME EventAssumption == "absent" \notin Events

VARIABLES
    settings,   \* the operator's settings file
    record,     \* bridge-install.json
    script,     \* the status line baked into statusline.sh
    command,    \* the command that runs
    commands,   \* how many were begun
    operator    \* what the operator wants, and when their saves fell

bridgeVars == <<settings, record, script, command, commands, operator>>

NoLine == "no line"
Ours == "ours"
NoHooks == [absent |-> TRUE]
NoFile == [line |-> NoLine, hooks |-> NoHooks, missing |-> TRUE]
NoRecord == [state |-> "none"]
Torn == [state |-> "torn"]      \* a write that did not end
Idle == [name |-> "idle"]

File(line, hooks) == [line |-> line, hooks |-> hooks, missing |-> FALSE]
EventsOf(hooks) == IF hooks = NoHooks THEN {} ELSE DOMAIN hooks
Holding(hooks, whose) == {e \in EventsOf(hooks) : whose \in hooks[e]}

BridgeInit ==
    /\ settings \in {NoFile} \cup {File(l, NoHooks) : l \in TheirLines}
                    \cup {File(NoLine, [e \in {x} |-> {"theirs"}]) : x \in Events}
    /\ record = NoRecord /\ script = NoLine
    /\ command = Idle /\ commands = 0
    /\ operator = [line |-> settings.line, hooks |-> Holding(settings.hooks, "theirs"),
                   edits |-> 0, blind |-> FALSE, late |-> FALSE, again |-> FALSE]
-----------------------------------------------------------------------------
(* The operator saves the settings.  A save falls blind when the command   *)
(* cannot see it any more, or the file it looked at was missing, and late  *)
(* when the scripts are made already.                                      *)

Saves(new, line, hooks) ==
    /\ operator.edits < MaxEdits
    /\ settings' = new
    /\ operator' =
         [line |-> line, hooks |-> hooks, edits |-> operator.edits + 1, again |-> operator.again,
          blind |-> \/ operator.blind
                    \/ command.name # "idle" /\ command.at = "rename"
                    \/ /\ command.name # "idle" /\ command.at \in {"edit", "record", "check"}
                       /\ command.before \in {NoFile, new},
          late |-> operator.late \/ (command.name = "enable" /\ command.at \notin {"read", "scripts"})]
    /\ UNCHANGED <<record, script, command, commands>>

SaveLine(line) ==
    /\ settings.line # line
    /\ Saves(File(line, settings.hooks), line, operator.hooks)

SaveHook(e) ==
    LET had == EventsOf(settings.hooks) IN
    Saves(File(settings.line, [x \in had \cup {e} |->
                  (IF x \in had THEN settings.hooks[x] ELSE {})
                    \cup (IF x = e THEN {"theirs"} ELSE {})]),
          operator.line, operator.hooks \cup {e})
-----------------------------------------------------------------------------
(* A command.                                                              *)

Begin(name) ==
    /\ command = Idle /\ commands < MaxCommands
    /\ commands' = commands + 1
    /\ command' = [name |-> name, at |-> IF name = "enable" THEN "read" ELSE "record read",
                   downstream |-> NoLine, before |-> NoFile, new |-> NoFile, made |-> NoRecord]
    /\ UNCHANGED <<settings, record, script, operator>>

At(name, step) == command.name = name /\ command.at = step

CommandEnds == command' = Idle

Goes(step) == command' = [command EXCEPT !.at = step]

\* install_at: what our status line chains to is the operator's line, which the
\* record holds once ours has taken its place.
ReadDownstream ==
    /\ At("enable", "read")
    /\ IF settings.line # Ours
       THEN command' = [command EXCEPT !.at = "scripts", !.downstream = settings.line]
       ELSE IF record \in {NoRecord, Torn} THEN CommandEnds
       ELSE command' = [command EXCEPT !.at = "scripts", !.downstream = record.previous]
    /\ UNCHANGED <<settings, record, script, commands, operator>>

GenerateScripts ==
    /\ At("enable", "scripts")
    /\ \/ /\ script' = command.downstream
          /\ command' = [command EXCEPT !.at = "before", !.downstream = NoLine]
          /\ operator' = [operator EXCEPT !.late = settings.line \notin {Ours, script'}]
       \/ CommandEnds /\ UNCHANGED <<script, operator>>
    /\ UNCHANGED <<settings, record, commands>>

\* The text a later check compares with is one read, what is edited another.
ReadBefore ==
    /\ command.name # "idle" /\ command.at = "before"
    /\ command' = [command EXCEPT !.at = "edit", !.before = settings]
    /\ UNCHANGED <<settings, record, script, commands, operator>>

\* The hooks of every event, each with an entry of ours.
WithOurs(hooks) ==
    [e \in EventsOf(hooks) \cup Events |->
        (IF e \in EventsOf(hooks) THEN hooks[e] ELSE {}) \cup (IF e \in Events THEN {"ours"} ELSE {})]

\* Only what is added is recorded.
RecordOf(file) ==
    [state |-> "whole", previous |-> file.line,
     hooks |-> Events \ Holding(file.hooks, "ours"), keys |-> Events \ EventsOf(file.hooks),
     table |-> file.hooks = NoHooks]

\* What enable leaves as it is: our line is there, or it cannot be said what is.
AlreadyOurs == settings.line = Ours \/ record = Torn

\* Mutant: the settings are written before their record.
SettingsBeforeRecord ==
    /\ At("enable", "edit")
    /\ IF AlreadyOurs
       THEN CommandEnds /\ UNCHANGED settings
       ELSE /\ settings' = File(Ours, WithOurs(settings.hooks))
            /\ command' =
                 [command EXCEPT !.at = "record", !.new = settings', !.made = RecordOf(settings)]
    /\ operator' = [operator EXCEPT !.again = @ \/ (~AlreadyOurs /\ Holding(settings.hooks, "ours") # {})]
    /\ UNCHANGED <<record, script, commands>>

\* enable.
EditEnabled ==
    /\ At("enable", "edit")
    /\ IF AlreadyOurs
       THEN CommandEnds
       ELSE command' = [command EXCEPT !.at = "record", !.new = File(Ours, WithOurs(settings.hooks)),
                                       !.made = RecordOf(settings)]
    /\ operator' = [operator EXCEPT !.again = @ \/ (~AlreadyOurs /\ Holding(settings.hooks, "ours") # {})]
    /\ UNCHANGED <<settings, record, script, commands>>

\* Not written to a file of its own and renamed: it may be cut.
WriteRecord ==
    /\ At("enable", "record")
    /\ \/ record' = command.made /\ Goes("check")
       \/ record' \in {record, Torn} /\ CommandEnds
    /\ UNCHANGED <<settings, script, commands, operator>>

\* write_settings: nothing is written over a file that has changed since.
Check ==
    /\ command.name # "idle" /\ command.at = "check"
    /\ IF command.before \in {NoFile, settings} THEN Goes("rename")
       ELSE IF command.name = "enable" THEN Goes("undo") ELSE CommandEnds
    /\ UNCHANGED <<settings, record, script, commands, operator>>

Rename ==
    /\ command.name # "idle" /\ command.at = "rename"
    /\ \/ /\ settings' = command.new
          /\ IF command.name = "enable" THEN CommandEnds ELSE Goes("forget")
       \/ /\ IF command.name = "enable" THEN Goes("undo") ELSE CommandEnds
          /\ UNCHANGED settings
    /\ UNCHANGED <<record, script, commands, operator>>

\* A failed enable takes its record back; disable removes it last.
DropRecord ==
    /\ command.name # "idle" /\ command.at \in {"undo", "forget"}
    /\ record' \in {NoRecord, record} /\ CommandEnds
    /\ UNCHANGED <<settings, script, commands, operator>>

ReadRecord ==
    /\ At("disable", "record read")
    /\ IF record \in {NoRecord, Torn} THEN CommandEnds
       ELSE command' = [command EXCEPT !.at = "before", !.made = record]
    /\ UNCHANGED <<settings, record, script, commands, operator>>

\* Only what the record names goes, and only when it is as it was put there.
WithoutOurs(file, made) ==
    LET had  == EventsOf(file.hooks)
        less == [e \in had |-> IF e \in made.hooks THEN file.hooks[e] \ {"ours"} ELSE file.hooks[e]]
        kept == {e \in had : ~(e \in made.keys /\ less[e] = {})}
    IN File(IF file.line = Ours THEN made.previous ELSE file.line,
            IF file.hooks = NoHooks \/ (made.table /\ kept = {}) THEN NoHooks
            ELSE Restrict(less, kept))

EditDisabled ==
    /\ At("disable", "edit")
    /\ command' = [command EXCEPT !.at = "check", !.new = WithoutOurs(settings, command.made)]
    /\ UNCHANGED <<settings, record, script, commands, operator>>

\* The process is killed.
Killed == command # Idle /\ CommandEnds /\ UNCHANGED <<settings, record, script, commands, operator>>

BridgeNext ==
    \/ \E l \in TheirLines \cup {NoLine} : SaveLine(l)
    \/ \E e \in Events : SaveHook(e)
    \/ \E name \in {"enable", "disable"} : Begin(name)
    \/ ReadDownstream \/ GenerateScripts \/ ReadBefore \/ EditEnabled \/ WriteRecord
    \/ Check \/ Rename \/ DropRecord \/ ReadRecord \/ EditDisabled \/ Killed
-----------------------------------------------------------------------------
(* Properties.                                                             *)

\* The operator's status line is in the settings, or in the record for the day
\* ours goes.
LineKept ==
    settings.line = operator.line
    \/ (settings.line = Ours /\ record.state = "whole" /\ record.previous = operator.line)

\* However enable and disable were cut short or repeated, the operator's status
\* line and hook entries, and an event they made, are not lost, but for a save that
\* falls between the last look at the file and the rename, or makes a file that was
\* missing when the command looked (write_settings).
OperatorsKept ==
    ~operator.blind => LineKept /\ Holding(settings.hooks, "theirs") = operator.hooks

\* Every hook of ours is in the record, unless our line was replaced by hand and
\* enabled again: the entries found there already are not recorded a second time.
HooksAreRecorded ==
    LET ours == Holding(settings.hooks, "ours") IN
    ours # {} /\ ~operator.again => record.state = "whole" /\ ours \subseteq record.hooks

\* The status line our script runs is the one the record will put back, never
\* our own (downstream), unless it changed while the scripts were made.
Chained ==
    settings.line = Ours /\ command = Idle /\ ~operator.late /\ ~operator.blind
      => script = record.previous

\* What enable put in the settings can be undone at every moment: our line is never
\* there without its record, which is written first and removed last.
Undoable == (settings.line = Ours => record.state = "whole") /\ HooksAreRecorded /\ Chained

\* "Lossless installation and removal": once the record is gone and no command
\* runs, nothing of ours is left in the settings.
RemovalIsLossless ==
    command = Idle /\ record = NoRecord /\ ~operator.blind => Holding(settings.hooks, "ours") = {}
=============================================================================
