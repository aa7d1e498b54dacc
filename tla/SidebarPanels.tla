----------------------------- MODULE SidebarPanels -----------------------------
(***************************************************************************)
(* The panels over the cards (sidebar/tui.rs, with settings_file.rs,       *)
(* live.rs, release.rs and bridges.rs): the keys that open and leave them, *)
(* the settings that are saved into a file others write too, the daemon    *)
(* that reads it only when it starts, and the threads that ask GitHub,     *)
(* herdr and the disk while the loop goes on.                              *)
(*                                                                         *)
(* The file is the daemon's settings in it, the sidebar's key, and how     *)
(* often others have saved it, which stands for the rest of its text; one  *)
(* that is missing has the defaults.                                       *)
(***************************************************************************)
EXTENDS Integers

CONSTANTS
    Settings,         \* of the daemon: interval_ms and prune_after_days
    Rungs,            \* of their ladders INTERVALS_MS and PRUNE_AFTER_DAYS, 1 .. n
    MaxEdits,         \* model bounds: other programs' saves of the file,
    MaxAsked          \*   and the questions threads are started for

ASSUME RungAssumption == Rungs # {}

VARIABLES
    open,        \* Option<Dialog>
    live,        \* Live::interval_ms and prune_after_days
    file,        \* config.toml
    daemon,      \* the settings it runs with
    restarting,  \* herdr has been asked to restart it
    saving,      \* save_hooked under way
    threads,     \* those that run, by the question they answer
    answer,      \* what the panel's channel holds
    asked,
    putBack,     \* history: the prompt's last answer put back what the daemon runs with
    dropped      \* history: the file was written for a panel that was left meanwhile

panelVars == <<open, live, file, daemon, restarting, saving, threads, answer, asked, putBack, dropped>>

DaemonSettings == [Settings -> Rungs]
Defaults == [setting \in Settings |-> CHOOSE rung \in Rungs : TRUE]

Closed == [at |-> "none"]
Menu == [at |-> "menu"]
Gone == [at |-> "gone"]        \* the process left
NotSaving == [step |-> "none"]
NoAnswer == [to |-> 0]
NoQuestion == 0
Question(panel) == IF panel.at \in {"bindings", "update", "bridges"} THEN panel.pending ELSE NoQuestion
Awaited == Question(open)

\* With its panel a channel goes, and of a thread only what it does besides answering.
Heard(panel) == {t \in threads : t.to = Question(panel) \/ t.work \in {"key", "upgrade"}}

\* settings_dialog: the file as it is now, if it can be read, and live taken for what the
\* daemon runs.
SettingsPanel(readable) ==
    [at |-> "settings", source |-> file, readable |-> readable, dirty |-> {}, atOpen |-> live, confirm |-> "down"]

PanelInit ==
    /\ open = Closed /\ asked = 0 /\ threads = {} /\ answer = NoAnswer
    /\ \E values \in DaemonSettings, missing \in BOOLEAN :
          file = [daemon |-> IF missing THEN Defaults ELSE values, missing |-> missing, key |-> 0, saved |-> 0]
    /\ live = file.daemon /\ daemon = file.daemon /\ restarting = FALSE
    /\ saving = NotSaving /\ putBack = FALSE /\ dropped = FALSE
-----------------------------------------------------------------------------
(* Keys.  The prompt and a key that is being typed take every key.         *)

Mandatory == open.at = "settings" /\ open.confirm # "down"
Typing == open.at = "bindings" /\ open.typing
InPanel == saving = NotSaving /\ open.at \notin {"none", "gone"} /\ ~Mandatory /\ ~Typing

Shows(panel) ==
    /\ open' = panel /\ threads' = Heard(panel)
    /\ answer' = (IF answer.to = Question(panel) THEN answer ELSE NoAnswer)
    /\ UNCHANGED <<live, file, daemon, restarting, saving, asked, putBack, dropped>>

\* A thread that sends its answer into a channel of its own, and the panel that holds it.
Asks(work, panel) ==
    /\ asked < MaxAsked /\ asked' = asked + 1
    /\ open' = [panel EXCEPT !.pending = asked + 1]
    /\ threads' = Heard(open') \cup {[to |-> asked + 1, work |-> work]} /\ answer' = NoAnswer
    /\ UNCHANGED <<live, file, daemon, restarting, saving, putBack, dropped>>

OpenFromCards == saving = NotSaving /\ open = Closed /\ \E panel \in {Menu, [at |-> "keys"]} : Shows(panel)
OpenSettings == InPanel /\ open.at # "settings" /\ \E readable \in BOOLEAN : Shows(SettingsPanel(readable))
OpenDoctor == InPanel /\ open.at # "doctor" /\ Shows([at |-> "doctor"])
OpenBridges == InPanel /\ open.at \notin {"bridges", "bindings"} /\ Asks("read", [at |-> "bridges", view |-> "waiting", pending |-> NoQuestion])
OpenUpdate == InPanel /\ open.at # "update" /\ Asks("check", [at |-> "update", view |-> "waiting", pending |-> NoQuestion])
OpenBindings ==
    /\ InPanel /\ open.at = "settings"
    /\ Shows([at |-> "bindings", parent |-> open, typing |-> FALSE, working |-> FALSE, pending |-> NoQuestion])

\* Esc: one level back; the settings ask first when live and the daemon disagree.
Back ==
    /\ InPanel
    /\ CASE open.at = "bindings" -> ~open.working /\ Shows(open.parent)
         [] open.at = "settings" /\ live # open.atOpen -> Shows([open EXCEPT !.confirm = "restart"])
         [] open.at = "menu" -> Shows(Closed)
         [] OTHER -> Shows(Menu)

Quit == saving = NotSaving /\ open # Gone /\ open' = Gone /\ threads' = {} /\ answer' = NoAnswer /\ UNCHANGED <<live, file, daemon, restarting, saving, asked, putBack, dropped>>

\* step_ladder, among the rungs.
Stepped(rung, by) == IF rung + by \in Rungs THEN rung + by ELSE rung

\* cycle_selected: the ladder is clamped, and a value that stays counts as changed.
Cycle(setting, by) ==
    /\ InPanel /\ open.at = "settings"
    /\ live' = [live EXCEPT ![setting] = Stepped(@, by)]
    /\ open' = [open EXCEPT !.dirty = @ \cup {setting}]
    /\ UNCHANGED <<file, daemon, restarting, saving, threads, asked, answer, putBack, dropped>>

Again == \* r
    /\ InPanel /\ open.at \in {"update", "bridges"}
    /\ Asks(IF open.at = "update" THEN "check" ELSE "read", [open EXCEPT !.view = "waiting"])
Upgrade == InPanel /\ open.at = "update" /\ open.view = "offer" /\ Asks("upgrade", [open EXCEPT !.view = "waiting"])
Prune == InPanel /\ open.at = "bridges" /\ open.view = "offer" /\ Asks("prune", [open EXCEPT !.view = "waiting"])

StartKeybinding == InPanel /\ open.at = "bindings" /\ ~open.working /\ Asks("bind", [open EXCEPT !.working = TRUE])
TypeKey == InPanel /\ open.at = "bindings" /\ ~open.working /\ Shows([open EXCEPT !.typing = TRUE])
StopTyping == saving = NotSaving /\ Typing /\ Shows([open EXCEPT !.typing = FALSE])
StartKeyEdit == saving = NotSaving /\ Typing /\ ~open.working /\ Asks("key", [open EXCEPT !.typing = FALSE, !.working = TRUE])
-----------------------------------------------------------------------------
(* Saving: the panel's text with what was changed in it, if the file still *)
(* is the text the panel read.                                             *)

\* settings_file::edit: what was changed, with the values as they are.
Edited(text, values, dirty) ==
    [text EXCEPT !.missing = FALSE,
                 !.daemon = [setting \in Settings |-> IF setting \in dirty THEN values[setting] ELSE @[setting]]]

\* StartSave(values, then): the text to be saved, and then what the caller does.
StartSave(values, then) ==
    /\ live' = values
    /\ saving' = [step |-> "check", then |-> then, seen |-> file.saved, body |-> Edited(open.source, values, open.dirty)]
    /\ UNCHANGED <<open, file, daemon, restarting, threads, asked, answer, dropped>>

Save == InPanel /\ open.at = "settings" /\ StartSave(live, "stay") /\ UNCHANGED putBack
Choose == saving = NotSaving /\ Mandatory /\ \E choice \in {"restart", "back"} : Shows([open EXCEPT !.confirm = choice])

\* resolve_daemon_settings
Answer ==
    /\ saving = NotSaving /\ Mandatory
    /\ StartSave(IF open.confirm = "back" THEN open.atOpen ELSE live, open.confirm)
    /\ putBack' = FALSE

\* Mutant: only that the settings are still those that were read.
SettingsAreSame == file.daemon = open.source.daemon
Unchanged == file = open.source

SaveCheck ==
    /\ saving.step = "check" /\ open.readable /\ Unchanged
    /\ saving' = [saving EXCEPT !.step = "rename", !.seen = file.saved]
    /\ UNCHANGED <<open, live, file, daemon, restarting, threads, asked, answer, putBack, dropped>>

Saved(written) ==
    /\ saving' = NotSaving
    /\ open' = CASE saving.then # "stay" -> Menu
                 [] written -> [open EXCEPT !.source = saving.body, !.dirty = {}]
                 [] OTHER -> open
    /\ putBack' = (saving.then = "back" /\ written /\ open.atOpen = daemon)
    /\ \E accepted \in BOOLEAN : restarting' = (restarting \/ (saving.then = "restart" /\ written /\ accepted))
    /\ UNCHANGED <<live, daemon, threads, asked, answer, dropped>>

SaveRename == saving.step = "rename" /\ file' = saving.body /\ Saved(TRUE)

\* The text is another or could not be read, or the disk refuses.
SaveFails == saving.step # "none" /\ Saved(FALSE) /\ UNCHANGED file
-----------------------------------------------------------------------------
(* Threads, and the loop that polls the channel of the open panel.         *)

\* change_key saves the key itself, and hands the text it wrote back. An upgrade has seen
\* the new daemon answer when it is ok, and may have herdr restart it later when it is not.
ThreadEnds(t, how) ==
    /\ threads' = threads \ {t}
    /\ file' = (IF t.work = "key" /\ how = "ok" THEN [file EXCEPT !.key = 1 - @, !.missing = FALSE] ELSE file)
    /\ dropped' = (dropped \/ (file' # file /\ t.to # Awaited))
    /\ answer' = (IF t.to = Awaited THEN [to |-> t.to, how |-> how, work |-> t.work, source |-> file'] ELSE answer)
    /\ daemon' = (IF t.work = "upgrade" /\ how = "ok" THEN file.daemon ELSE daemon)
    /\ restarting' \in {restarting, restarting \/ (t.work = "upgrade" /\ how = "failed")}
    /\ UNCHANGED <<open, live, saving, asked, putBack>>

\* Mutant: a key's new text is not handed to the settings under the panel.
PolledKeepsSource ==
    [open EXCEPT !.working = FALSE, !.pending = NoQuestion]

PolledBindings ==
    [open EXCEPT !.working = FALSE, !.pending = NoQuestion,
        !.parent.source = IF answer.work = "key" /\ answer.how = "ok" THEN answer.source ELSE @,
        !.parent.readable = @ \/ (answer.work = "key" /\ answer.how = "ok")]

\* An offer is a newer release that herdr can install, or directories past the retention.
Polled(found) ==
    IF open.at = "bindings" THEN PolledBindings
    ELSE [open EXCEPT !.pending = NoQuestion, !.view = IF answer.how = "ok" THEN found ELSE "failed"]

\* Mutant: a channel whose thread died is taken for one that is still empty.
SentAnswer == answer.to = Awaited /\ answer.how # "died"
HasAnswer == answer.to = Awaited

Poll ==
    /\ saving = NotSaving /\ Awaited # NoQuestion /\ HasAnswer
    /\ ~(answer.work = "upgrade" /\ answer.how = "ok")
    /\ \E found \in {"offer", "nothing"} : open' = Polled(found)
    /\ answer' = NoAnswer
    /\ UNCHANGED <<live, file, daemon, restarting, saving, threads, asked, putBack, dropped>>

\* reexec_or_fallback, after an upgrade: a new process, or the screen that says to reopen it.
Reexec ==
    /\ saving = NotSaving /\ Awaited # NoQuestion /\ HasAnswer
    /\ answer.work = "upgrade" /\ answer.how = "ok"
    /\ open' \in {Closed, Gone} /\ live' = file.daemon /\ threads' = {} /\ answer' = NoAnswer
    /\ UNCHANGED <<file, daemon, restarting, saving, asked, putBack, dropped>>
-----------------------------------------------------------------------------
(* The rest of the world.                                                  *)

OthersSave ==
    /\ file.saved < MaxEdits
    /\ \/ \E values \in DaemonSettings : file' = [file EXCEPT !.saved = @ + 1, !.daemon = values, !.missing = FALSE]
       \/ file' = [daemon |-> Defaults, missing |-> TRUE, key |-> 0, saved |-> file.saved + 1]
    /\ UNCHANGED <<open, live, daemon, restarting, saving, threads, asked, answer, putBack, dropped>>

DaemonRestarts ==
    /\ restarting /\ restarting' = FALSE /\ daemon' = file.daemon
    /\ UNCHANGED <<open, live, file, saving, threads, asked, answer, putBack, dropped>>

Keys ==
    \/ OpenFromCards \/ OpenSettings \/ OpenDoctor \/ OpenBridges \/ OpenUpdate \/ OpenBindings
    \/ Back \/ Quit \/ Again \/ Upgrade \/ Prune \/ StartKeybinding \/ TypeKey \/ StopTyping \/ StartKeyEdit
    \/ \E setting \in Settings, by \in {1, -1} : Cycle(setting, by)
    \/ Save \/ Choose \/ Answer

SaveStep == SaveCheck \/ SaveRename \/ SaveFails
ThreadStep == \E t \in threads, how \in {"ok", "failed", "died"} : ThreadEnds(t, how)
PanelNext == Keys \/ SaveStep \/ ThreadStep \/ Poll \/ Reexec \/ OthersSave \/ DaemonRestarts

-----------------------------------------------------------------------------
\* A save undoes another program's edit only if that edit fell between the check and the
\* rename: nobody's text that was there when the panel looked is replaced by an older one
\* (settings_file.rs save_hooked, whatever panels and threads wrote before).
OthersEditsKept == [][file'.saved < file.saved => saving.step = "rename" /\ saving.seen < file.saved /\ file'.saved = saving.seen]_panelVars

\* What the sidebar wrote itself is never taken for somebody else's change: a save finds
\* another text than the panel read only if others saved it, or a key operation ended whose
\* panel had been left (poll_keybinding hands the text on; Esc waits for the operation).
OwnWritesAccepted == saving.step = "check" /\ ~Unchanged => file.saved # open.source.saved \/ dropped

\* A panel that waits for a thread stops waiting for it, also when the thread dies.
PanelsSettle == \A n \in 1 .. MaxAsked : (Awaited = n) ~> (Awaited # n)

\* "both values go back to what the daemon is running, and if either had already been
\* saved the file goes back with it" (tui.rs, resolve_daemon_settings).
FileGoesBack == putBack /\ file.saved = 0 => file.daemon = daemon
=============================================================================
