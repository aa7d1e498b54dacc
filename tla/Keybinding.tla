------------------------------ MODULE Keybinding ------------------------------
(***************************************************************************)
(* The sidebar's key in Herdr's own configuration (agents/keybinding.rs,   *)
(* sidebar/settings_file.rs): bound, unbound and changed by appending one  *)
(* block to a file that is the operator's and by taking it out again, with *)
(* a record of it, and a setting of the plugin's that says which key.      *)
(*                                                                         *)
(* The configuration is the operator's text, the keys it binds, and our    *)
(* blocks, of which a whole one is known by its key and a damaged one only *)
(* by its marker.  A command may fail at every write and at every call to  *)
(* herdr, or be killed.                                                    *)
(***************************************************************************)
EXTENDS Naturals, Sequences, SequencesExt, FiniteSets, TLC

CONSTANTS Keys, MaxKeyCommands, MaxKeyEdits

ASSUME KeyAssumption == Keys # {}

VARIABLES
    config,     \* Herdr's configuration
    install,    \* keybinding-install.json
    plugin,     \* the plugin's own configuration: the key, and the rest
    cmd,        \* the command that runs
    cmds,
    saves,      \* how often the operator saved one of the files
    lost,       \* a save fell where no check can see it
    disturbed   \* there was a save, a kill or a failed roll back

keyVars == <<config, install, plugin, cmd, cmds, saves, lost, disturbed>>

Missing == [text |-> "", taken |-> {}, blocks |-> <<>>, marker |-> FALSE, missing |-> TRUE]
Config(text, taken, blocks, marker) ==
    [text |-> text, taken |-> taken, blocks |-> blocks, marker |-> marker, missing |-> FALSE]
NoInstall == [state |-> "none"]
TornInstall == [state |-> "torn"]
NoCommand == [name |-> "none"]
NotPrepared == [key |-> "", existing |-> NoCommand]
IsEmpty(file) == file.text = "" /\ file.taken = {} /\ file.blocks = <<>> /\ ~file.marker

KeyInit ==
    /\ config \in {Missing, Config("a", {}, <<>>, FALSE)}
    /\ install = NoInstall
    /\ plugin = [key |-> CHOOSE k \in Keys : TRUE, text |-> "a"]
    /\ cmd = NoCommand /\ cmds = 0 /\ saves = 0
    /\ lost = FALSE /\ disturbed = FALSE
-----------------------------------------------------------------------------
(* The operator.                                                           *)

\* The places between a check of the file and the write it allows, or where no
\* check is made: the file was missing, or is about to be removed.
Unchecked ==
    /\ cmd.name # "none"
    /\ \/ cmd.at \in {"rename", "remove file"}
       \/ cmd.prepared.existing = Missing

OperatorSaves(new) ==
    /\ saves < MaxKeyEdits /\ new # config
    /\ config' = new /\ saves' = saves + 1
    /\ lost' = (lost \/ Unchecked) /\ disturbed' = TRUE
    /\ UNCHANGED <<install, plugin, cmd, cmds>>

SaveText == OperatorSaves(Config("b", config.taken, config.blocks, config.marker))

TakeKey(k) ==
    /\ \A i \in DOMAIN config.blocks : config.blocks[i] # k
    /\ OperatorSaves(Config(config.text, config.taken \cup {k}, config.blocks, config.marker))

\* The block is taken out by hand, or changed within.
RemoveByHand ==
    /\ config.blocks # <<>>
    /\ \E marker \in BOOLEAN : OperatorSaves(Config(config.text, config.taken, <<>>, marker))

SavePlugin ==
    /\ saves < MaxKeyEdits /\ plugin.text = "a"
    /\ plugin' = [plugin EXCEPT !.text = "b"] /\ saves' = saves + 1 /\ disturbed' = TRUE
    /\ UNCHANGED <<config, install, cmd, cmds, lost>>
-----------------------------------------------------------------------------
(* Commands are plans of operations: a change of a key that is bound       *)
(* unbinds the old, installs the new and saves the setting last.           *)

Start(name, plan, prepared, bound) ==
    /\ cmd = NoCommand /\ cmds < MaxKeyCommands
    /\ cmds' = cmds + 1
    /\ cmd' = [name |-> name, plan |-> plan, at |-> "start", back |-> FALSE,
               prepared |-> prepared, bound |-> bound, text |-> plugin.text,
               read |-> Missing, rest |-> Missing]
    /\ UNCHANGED <<config, install, plugin, saves, lost, disturbed>>

\* A chord is held by the operator's own binding or by a block of ours.
TakenIn(file, key) == key \in file.taken \/ \E i \in DOMAIN file.blocks : file.blocks[i] = key

\* append_block: behind all that is there.
Appended(file, key) == Config(file.text, file.taken, Append(file.blocks, key), file.marker)

\* check_bindable; that another plugin has an action of this name and that Herdr's validator
\* refuses the text with the block in it are failures at any time.
Bindable(file, key) == ~TakenIn(file, key)

Prepared(key, existing) ==
    [key |-> key, existing |-> existing, created |-> existing = Missing, new |-> Appended(existing, key)]

\* remove_block: only the very block, and only one.
Removable(file, key) == Cardinality({i \in DOMAIN file.blocks : file.blocks[i] = key}) = 1
Without(file, key) ==
    [file EXCEPT !.blocks = RemoveAt(file.blocks, CHOOSE i \in DOMAIN file.blocks : file.blocks[i] = key)]
Remainder(file, made) ==
    IF made.created /\ IsEmpty(Without(file, made.key)) THEN Missing ELSE Without(file, made.key)

\* preflight_key_change: what the panel took for bound is looked at again.
PreflightAllows(bound) ==
    IF bound THEN install.state = "whole" /\ Removable(config, install.key)
    ELSE install = NoInstall

StartChange(key, bound) ==
    /\ PreflightAllows(bound)
    /\ LET base == IF bound THEN Remainder(config, install) ELSE config IN
         /\ Bindable(base, key)
         /\ Start("change", IF bound THEN <<"unbind", "install", "save">> ELSE <<"install", "save">>,
                  Prepared(key, base), bound)

StartBind == Start("bind", <<"bind">>, NotPrepared, FALSE)
StartUnbind == Start("unbind", <<"unbind">>, NotPrepared, FALSE)

Doing(operation, at) == cmd.name # "none" /\ Head(cmd.plan) = operation /\ cmd.at = at

Installing == cmd.name # "none" /\ Head(cmd.plan) \in {"bind", "install"}

Succeeds ==
    cmd' = IF Len(cmd.plan) = 1 THEN NoCommand
           ELSE [cmd EXCEPT !.plan = Tail(@), !.at = "start"]

\* Mutant: a change whose last step fails does not go back.
NeverBack ==
    /\ cmd' = NoCommand
    /\ disturbed' = disturbed

\* A change that fails goes back to the old binding; failing at that, it stops.
Fails ==
    IF cmd.name # "change" \/ cmd.back
    THEN /\ cmd' = NoCommand
         /\ disturbed' = (disturbed \/ cmd.back)
    ELSE /\ cmd' = [cmd EXCEPT !.back = TRUE, !.at = "start",
                      !.plan = IF Head(cmd.plan) = "unbind" THEN <<"bind">>
                               ELSE IF cmd.bound THEN <<"unbind", "bind">> ELSE <<"unbind">>]
         /\ disturbed' = disturbed

FailsHere == Fails /\ UNCHANGED <<config, install, plugin, cmds, saves, lost>>

Quietly == UNCHANGED <<cmds, saves, lost>>
-----------------------------------------------------------------------------
(* bind and install.                                                       *)

\* bind_key: a record that is there is never written over.
BindKey ==
    /\ Doing("bind", "start")
    /\ \/ /\ install.state = "whole" /\ Removable(config, install.key) /\ Succeeds
          /\ UNCHANGED <<config, install, plugin, disturbed>> /\ Quietly
       \/ /\ install = NoInstall /\ Bindable(config, plugin.key)
          /\ cmd' = [cmd EXCEPT !.at = "record", !.prepared = Prepared(plugin.key, config)]
          /\ UNCHANGED <<config, install, plugin, disturbed>> /\ Quietly
       \/ FailsHere

StartInstall ==
    /\ Doing("install", "start")
    /\ cmd' = [cmd EXCEPT !.at = "record"]
    /\ UNCHANGED <<config, install, plugin, disturbed>> /\ Quietly

\* install_binding writes the record first.
WriteInstall ==
    /\ Installing /\ cmd.at = "record"
    /\ \/ /\ install' = [state |-> "whole", key |-> cmd.prepared.key, created |-> cmd.prepared.created]
          /\ cmd' = [cmd EXCEPT !.at = "check"] /\ UNCHANGED disturbed
       \/ install' \in {install, TornInstall} /\ Fails
    /\ UNCHANGED <<config, plugin>> /\ Quietly

CheckConfig ==
    /\ Installing /\ cmd.at = "check"
    /\ IF cmd.prepared.existing \in {Missing, config}
       THEN cmd' = [cmd EXCEPT !.at = "rename"] ELSE cmd' = [cmd EXCEPT !.at = "undo"]
    /\ UNCHANGED <<config, install, plugin, disturbed>> /\ Quietly

RenameConfig ==
    /\ Installing /\ cmd.at = "rename"
    /\ \/ config' = cmd.prepared.new /\ cmd' = [cmd EXCEPT !.at = "reload"]
       \/ cmd' = [cmd EXCEPT !.at = "undo"] /\ UNCHANGED config
    /\ UNCHANGED <<install, plugin, disturbed>> /\ Quietly

\* That the record could not be removed is not looked at.
UndoInstall ==
    /\ Installing /\ cmd.at = "undo"
    /\ install' \in {NoInstall, install} /\ Fails
    /\ UNCHANGED <<config, plugin>> /\ Quietly

Reload ==
    /\ cmd.name # "none" /\ cmd.at = "reload"
    /\ \/ Succeeds /\ UNCHANGED disturbed
       \/ Fails
    /\ UNCHANGED <<config, install, plugin>> /\ Quietly
-----------------------------------------------------------------------------
(* unbind.                                                                 *)

\* Of a configuration that is gone the record goes too, if it can be removed.
Unbind ==
    /\ Doing("unbind", "start")
    /\ \/ /\ install = NoInstall /\ config.blocks = <<>> /\ ~config.marker
          /\ Succeeds /\ UNCHANGED <<install, disturbed>>
       \/ /\ install.state = "whole" /\ config = Missing
          /\ install' \in {NoInstall, install} /\ Succeeds /\ UNCHANGED disturbed
       \/ /\ install.state = "whole" /\ Removable(config, install.key)
          /\ LET rest == Remainder(config, install) IN
               cmd' = [cmd EXCEPT !.at = IF rest = Missing THEN "remove file" ELSE "check",
                                  !.read = config, !.rest = rest]
          /\ UNCHANGED <<install, disturbed>>
       \/ Fails /\ UNCHANGED install
    /\ UNCHANGED <<config, plugin>> /\ Quietly

Continues(at) == cmd' = [cmd EXCEPT !.at = at, !.read = Missing, !.rest = Missing]

CheckRemainder ==
    /\ Doing("unbind", "check")
    /\ IF config = cmd.read
       THEN cmd' = [cmd EXCEPT !.at = "rename"] /\ UNCHANGED disturbed
       ELSE Fails
    /\ UNCHANGED <<config, install, plugin>> /\ Quietly

WriteRemainder ==
    /\ \/ Doing("unbind", "rename")
       \/ Doing("unbind", "remove file")
    /\ \/ config' = cmd.rest /\ Continues("forget") /\ UNCHANGED disturbed
       \/ Fails /\ UNCHANGED config
    /\ UNCHANGED <<install, plugin>> /\ Quietly

ForgetInstall ==
    /\ Doing("unbind", "forget")
    /\ \/ install' = NoInstall /\ cmd' = [cmd EXCEPT !.at = "reload"] /\ UNCHANGED disturbed
       \/ Fails /\ UNCHANGED install
    /\ UNCHANGED <<config, plugin>> /\ Quietly
-----------------------------------------------------------------------------
\* settings_file::save: the setting is changed in the text read at the start.
SaveSetting ==
    /\ Doing("save", "start")
    /\ \/ /\ plugin.text = cmd.text
          /\ plugin' = [plugin EXCEPT !.key = cmd.prepared.key]
          /\ Succeeds /\ UNCHANGED disturbed
       \/ Fails /\ UNCHANGED plugin
    /\ UNCHANGED <<config, install>> /\ Quietly

KillCommand ==
    /\ cmd # NoCommand /\ cmd' = NoCommand /\ disturbed' = TRUE
    /\ UNCHANGED <<config, install, plugin>> /\ Quietly

KeyNext ==
    \/ SaveText \/ (\E k \in Keys : TakeKey(k)) \/ RemoveByHand \/ SavePlugin
    \/ (\E k \in Keys, bound \in BOOLEAN : StartChange(k, bound)) \/ StartBind \/ StartUnbind
    \/ BindKey \/ StartInstall \/ WriteInstall \/ CheckConfig \/ RenameConfig \/ UndoInstall
    \/ Reload \/ Unbind \/ CheckRemainder \/ WriteRemainder \/ ForgetInstall
    \/ SaveSetting \/ KillCommand
-----------------------------------------------------------------------------
(* Properties.                                                             *)

\* A block of ours is never in the configuration without a record that takes it
\* out again, and never more than one is (install_binding, unbind).
BlockIsRecorded ==
    config.blocks # <<>> /\ ~lost =>
        Len(config.blocks) = 1 /\ install.state = "whole" /\ install.key = config.blocks[1]

\* When no command runs, the key Herdr has is the key the plugin says it has and
\* the record can take out, although a change writes three files and rolls back.
KeyAgrees ==
    /\ BlockIsRecorded
    /\ cmd = NoCommand /\ ~disturbed /\ config.blocks # <<>> => config.blocks = <<plugin.key>>

TheirsStay == config'.text = config.text /\ config'.taken = config.taken

\* No command changes what the operator wrote, but for a save between the last look
\* at the file and the write; and a change of a bound key that fails leaves a key
\* bound, unless going back fails too (rollback_key_change).  One failure makes going
\* back fail: a record that is torn or cannot be removed keeps the old key from being
\* bound again, and then no key is bound and `disturbed` is set.
KeyKept ==
    [][/\ cmd' # cmd /\ saves' = saves /\ ~lost => TheirsStay
       /\ cmd.name = "change" /\ cmd.bound /\ cmd' = NoCommand /\ ~disturbed'
            => config'.blocks # <<>>]_keyVars
=============================================================================
