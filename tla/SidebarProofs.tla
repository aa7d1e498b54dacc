---------------------------- MODULE SidebarProofs ----------------------------
(***************************************************************************)
(* Proofs about Sidebar: what the panels save and what they wait for, what *)
(* an upgrade leaves behind, and that the list of cards shows what the     *)
(* next key or click acts on.                                              *)
(*                                                                         *)
(* The text a panel read stays the newest it can be taken for, through the *)
(* panels opened over it and the threads that write the file themselves:   *)
(* so the invariant says which text that is, the panel's own or the one a  *)
(* thread's answer still carries, and that no two threads answer the same  *)
(* question.                                                               *)
(*                                                                         *)
(* What is on the screen follows from how it is drawn: cards start where   *)
(* the heights above them add up to, so the k-th row of a card is below    *)
(* its start and above its end.  The library's induction theorem takes a   *)
(* predicate; here a set of numbers that has the next of each takes its    *)
(* place (AllNumbers).                                                     *)
(***************************************************************************)
EXTENDS Sidebar, FiniteSetTheorems, SequenceTheorems, WellFoundedInduction, TLAPS

SavedTexts == [daemon : DaemonSettings, missing : BOOLEAN, key : {0, 1}, saved : Nat]
Works == {"read", "check", "upgrade", "prune", "bind", "key"}

SettingsPanels == [at : {"settings"}, source : SavedTexts, readable : BOOLEAN, dirty : SUBSET Settings,
                   atOpen : DaemonSettings, confirm : {"down", "restart", "back"}]
BindingPanels == [at : {"bindings"}, parent : SettingsPanels, typing : BOOLEAN, working : BOOLEAN, pending : Nat]
AskingPanels == [at : {"bridges", "update"}, view : {"waiting", "offer", "nothing", "failed"}, pending : Nat]
PlainPanels == {Closed, Menu, Gone, [at |-> "keys"], [at |-> "doctor"]}
Dialogs == SettingsPanels \cup BindingPanels \cup AskingPanels \cup PlainPanels

PanelThreads == [to : Nat \ {0}, work : Works]
Answers == {NoAnswer} \cup [to : Nat \ {0}, how : {"ok", "failed", "died"}, work : Works, source : SavedTexts]
Savings == {NotSaving} \cup [step : {"check", "rename"}, then : {"stay", "restart", "back"}, seen : Nat, body : SavedTexts]

PanelTypes ==
    /\ open \in Dialogs /\ file \in SavedTexts /\ saving \in Savings
    /\ live \in DaemonSettings /\ threads \subseteq PanelThreads /\ answer \in Answers /\ asked \in Nat

\* A question has one thread, or its answer; the panel that saves is the settings'.
Questions ==
    /\ \A t \in threads : t.to <= asked /\ t.to # answer.to
    /\ \A t, u \in threads : t.to = u.to => t = u
    /\ answer.to <= asked
    /\ open.at = "bindings" /\ (open.typing \/ ~open.working) => open.pending = NoQuestion

\* A save of the text that was read has that text's count.
SavesWhatItRead ==
    /\ saving # NotSaving => open.at = "settings"
    /\ saving.step = "check" => saving.body.saved = open.source.saved
    /\ saving.step = "rename" => saving.body.saved = saving.seen

\* The file is text, unless others have saved it since.
Current(text) == text.saved <= file.saved /\ (text.saved = file.saved => text = file)

\* A key's answer that was not polled yet carries the text under the bindings.
Handed == answer # NoAnswer /\ answer.to = open.pending /\ answer.work = "key" /\ answer.how = "ok"
Under == IF Handed THEN answer.source ELSE open.parent.source

TextsAreCurrent ==
    ~dropped => /\ open.at = "settings" => Current(open.source)
                /\ open.at = "bindings" => Current(Under)

PanelInv == PanelTypes /\ Questions /\ SavesWhatItRead /\ TextsAreCurrent

Builds == {Tags[i] : i \in Nat} \cup {NoDaemon}
Ready == [view : {"ready"}, tag : Builds, source : {"github", "linked", "unknown"}]
Results == {Shut, Failed, Finished} \cup Ready
ShownPanels == Results \cup {[view |-> "checking"], [view |-> "upgrading"]}
Upgrades == {NoThread} \cup [step : {"tag", "install", "restart", "wait", "sent"}, tag : Builds,
                             crossed : BOOLEAN, result : Results]
Renewals == {NotRenewed} \cup [crossed : {FALSE}, from : Builds, tag : Builds]

ReleaseTypes ==
    /\ published \in Nat /\ source \in {"github", "linked"} /\ disk \in Builds
    /\ updater \in [Updaters -> [build : Builds, panel : ShownPanels]]
    /\ thread \in [Waited -> Upgrades]
    /\ renewed \in [Updaters -> Renewals]

\* A thread installs, has installed, or has seen the daemon answer with what it installed.
Succeeded(t) == thread[t].step = "sent" /\ thread[t].result = Finished
Installed(t) == thread[t].step \in {"restart", "wait"} \/ Succeeded(t)

\* What is installed stays so until another upgrade crosses it.
Uncrossed ==
    /\ \A u \in Updaters : thread[u].step = "install" \/ Installed(u) =>
          is_newer(thread[u].tag, updater[u].build)
    /\ \A t \in Waited : Installed(t) /\ ~thread[t].crossed => disk = thread[t].tag
    /\ \A t \in Waited : Succeeded(t) /\ ~thread[t].crossed => running \in {NoDaemon, thread[t].tag}
    /\ \A u \in Updaters : ~renewed[u].crossed =>
          /\ u # "cli" /\ renewed[u].tag = updater[u].build /\ disk = updater[u].build
          /\ is_newer(updater[u].build, renewed[u].from)
          /\ running \in {NoDaemon, updater[u].build}

ReleaseInv == ReleaseTypes /\ Uncrossed
-----------------------------------------------------------------------------
(* The panels.                                                             *)

\* A dialog is told by where it is.
LEMMA DialogKinds ==
    ASSUME NEW d \in Dialogs
    PROVE  /\ d.at = "settings" => d \in SettingsPanels
           /\ d.at = "bindings" => d \in BindingPanels
           /\ d.at \in {"bridges", "update"} => d \in AskingPanels
           /\ d.at \notin {"settings", "bindings", "bridges", "update"} => d \in PlainPanels
<1>1. CASE d \in SettingsPanels  BY <1>1 DEF SettingsPanels
<1>2. CASE d \in BindingPanels  BY <1>2 DEF BindingPanels
<1>3. CASE d \in AskingPanels  BY <1>3 DEF AskingPanels
<1>4. CASE d \in PlainPanels  BY <1>4 DEF PlainPanels, Closed, Menu, Gone
<1> QED  BY <1>1, <1>2, <1>3, <1>4 DEF Dialogs

\* An answer that is there answers a question.
LEMMA AnswerKinds ==
    ASSUME NEW a \in Answers
    PROVE  /\ a.to \in Nat
           /\ a.to = 0 <=> a = NoAnswer
           /\ a # NoAnswer => a.source \in SavedTexts /\ a.how \in {"ok", "failed", "died"}
<1>1. CASE a = NoAnswer  BY <1>1 DEF NoAnswer
<1>2. CASE a # NoAnswer  BY <1>2 DEF Answers, NoAnswer
<1> QED  BY <1>1, <1>2

\* A panel that asks nothing takes the place of another, and what is shown in it is current.
LEMMA ShowsKeeps ==
    ASSUME PanelInv, saving = NotSaving, NEW panel \in Dialogs, Shows(panel),
           panel.at = "bindings" => panel.pending = NoQuestion,
           ~dropped => /\ panel.at = "settings" => Current(panel.source)
                       /\ panel.at = "bindings" => Current(panel.parent.source)
    PROVE  PanelInv'
<1>1. open' = panel /\ threads' \subseteq threads /\ answer' \in {answer, NoAnswer}
  BY DEF Shows, Heard
<1>2. UNCHANGED <<live, file, saving, asked, dropped>>  BY DEF Shows
<1>3. PanelTypes'  BY <1>1, <1>2 DEF PanelInv, PanelTypes, Answers
<1>4. Questions'
  <2>1. answer'.to <= asked /\ (\A t \in threads : t.to # answer'.to)
    BY <1>1 DEF PanelInv, PanelTypes, Questions, NoAnswer, PanelThreads
  <2> QED  BY <1>1, <1>2, <2>1 DEF PanelInv, Questions
<1>5. SavesWhatItRead'  BY <1>2 DEF SavesWhatItRead, NotSaving
<1>6. TextsAreCurrent'
  <2>1. panel.at = "bindings" => ~Handed'
    BY <1>1, <1>3, AnswerKinds DEF PanelTypes, Handed, NoQuestion
  <2> QED  BY <1>1, <1>2, <2>1 DEF TextsAreCurrent, Under, Current
<1> QED  BY <1>3, <1>4, <1>5, <1>6 DEF PanelInv

\* A panel asks a question of its own.
LEMMA AsksKeeps ==
    ASSUME PanelInv, saving = NotSaving, NEW work \in Works, NEW panel, Asks(work, panel),
           [panel EXCEPT !.pending = asked + 1] \in BindingPanels \cup AskingPanels,
           open'.at = "bindings" => open'.working /\ ~open'.typing,
           ~dropped /\ open'.at = "bindings" => Current(open'.parent.source)
    PROVE  PanelInv'
<1>1. /\ open' \in BindingPanels \cup AskingPanels /\ asked' = asked + 1 /\ answer' = NoAnswer
      /\ threads' = Heard(open') \cup {[to |-> asked + 1, work |-> work]}
  BY DEF Asks
<1>2. UNCHANGED <<live, file, saving, dropped>>  BY DEF Asks
<1>3. asked \in Nat /\ threads \subseteq PanelThreads /\ Heard(open') \subseteq threads
  BY DEF PanelInv, PanelTypes, Heard
<1>4. [to |-> asked + 1, work |-> work] \in PanelThreads  BY <1>3 DEF PanelThreads
<1>5. PanelTypes'
  BY <1>1, <1>2, <1>3, <1>4 DEF PanelInv, PanelTypes, Dialogs, Answers
<1>6. Questions'
  <2>1. \A t \in threads : t.to \in Nat \ {0} /\ t.to <= asked  BY <1>3 DEF PanelInv, Questions, PanelThreads
  <2>2. answer'.to = 0  BY <1>1 DEF NoAnswer
  <2>3. \A t \in threads' : t.to <= asked' /\ t.to # answer'.to  BY <1>1, <1>3, <2>1, <2>2
  <2>4. \A t, u \in threads' : t.to = u.to => t = u
    BY <1>1, <1>3, <2>1 DEF PanelInv, Questions
  <2>5. open'.at = "bindings" => open'.working /\ ~open'.typing  OBVIOUS
  <2> QED  BY <1>1, <1>3, <2>2, <2>3, <2>4, <2>5 DEF Questions
<1>7. SavesWhatItRead'  BY <1>2 DEF SavesWhatItRead, NotSaving
<1>8. TextsAreCurrent'
  <2>1. ~Handed'  BY <1>1 DEF Handed
  <2>2. open'.at # "settings"  BY <1>1 DEF BindingPanels, AskingPanels
  <2> QED  BY <1>2, <2>1, <2>2 DEF TextsAreCurrent, Under, Current
<1> QED  BY <1>5, <1>6, <1>7, <1>8 DEF PanelInv

\* The keys that open a panel over another.
LEMMA StepOpens ==
    ASSUME PanelInv,
           OpenFromCards \/ OpenSettings \/ OpenDoctor \/ OpenBridges \/ OpenUpdate \/ OpenBindings
    PROVE  PanelInv'
<1>1. PanelTypes  BY DEF PanelInv
<1>2. CASE OpenFromCards
  <2>1. PICK panel \in {Menu, [at |-> "keys"]} : Shows(panel)  BY <1>2 DEF OpenFromCards
  <2>2. panel \in Dialogs /\ panel.at \notin {"settings", "bindings"}  BY DEF Dialogs, PlainPanels, Menu
  <2> QED  BY <1>2, <2>1, <2>2, ShowsKeeps DEF OpenFromCards
<1>3. CASE OpenSettings
  <2> DEFINE panel(r) == SettingsPanel(r)
  <2>1. \A r \in BOOLEAN : panel(r) \in Dialogs /\ panel(r).at = "settings" /\ panel(r).source = file
    BY <1>1 DEF SettingsPanel, Dialogs, SettingsPanels, PanelTypes
  <2>2. Current(file)  BY <1>1 DEF PanelTypes, SavedTexts, Current
  <2>3. PICK r \in BOOLEAN : Shows(panel(r))  BY <1>3 DEF OpenSettings
  <2>4. saving = NotSaving  BY <1>3 DEF OpenSettings, InPanel
  <2> HIDE DEF panel
  <2> QED  BY <2>1, <2>2, <2>3, <2>4, ShowsKeeps
<1>4. CASE OpenDoctor
  <2>1. [at |-> "doctor"] \in Dialogs  BY DEF Dialogs, PlainPanels
  <2>2. Shows([at |-> "doctor"]) /\ saving = NotSaving  BY <1>4 DEF OpenDoctor, InPanel
  <2> QED  BY <2>1, <2>2, ShowsKeeps
<1>5. CASE OpenBridges
  <2> DEFINE panel == [at |-> "bridges", view |-> "waiting", pending |-> NoQuestion]
  <2>1. [panel EXCEPT !.pending = asked + 1] \in AskingPanels  BY <1>1 DEF AskingPanels, PanelTypes
  <2>2. Asks("read", panel) /\ saving = NotSaving  BY <1>5 DEF OpenBridges, InPanel
  <2>3. open'.at # "bindings"  BY <2>2 DEF Asks
  <2> QED  BY <2>1, <2>2, <2>3, AsksKeeps DEF Works
<1>6. CASE OpenUpdate
  <2> DEFINE panel == [at |-> "update", view |-> "waiting", pending |-> NoQuestion]
  <2>1. [panel EXCEPT !.pending = asked + 1] \in AskingPanels  BY <1>1 DEF AskingPanels, PanelTypes
  <2>2. Asks("check", panel) /\ saving = NotSaving  BY <1>6 DEF OpenUpdate, InPanel
  <2>3. open'.at # "bindings"  BY <2>2 DEF Asks
  <2> QED  BY <2>1, <2>2, <2>3, AsksKeeps DEF Works
<1>7. CASE OpenBindings
  <2> DEFINE panel == [at |-> "bindings", parent |-> open, typing |-> FALSE, working |-> FALSE, pending |-> NoQuestion]
  <2>1. open \in SettingsPanels /\ open.at = "settings"
    BY <1>1, <1>7, DialogKinds DEF OpenBindings, PanelTypes
  <2>2. panel \in BindingPanels  BY <2>1 DEF BindingPanels, NoQuestion
  <2>3. Shows(panel) /\ saving = NotSaving  BY <1>7 DEF OpenBindings, InPanel
  <2>4. panel \in Dialogs  BY <2>2 DEF Dialogs
  <2>5. panel.at = "bindings" /\ panel.pending = NoQuestion /\ panel.parent = open  OBVIOUS
  <2>6. ~dropped => Current(panel.parent.source)  BY <2>1, <2>5 DEF PanelInv, TextsAreCurrent
  <2> HIDE DEF panel
  <2> QED  BY <2>3, <2>4, <2>5, <2>6, ShowsKeeps
<1> QED  BY <1>2, <1>3, <1>4, <1>5, <1>6, <1>7

\* The keys of a panel that asks nothing.
LEMMA StepShows ==
    ASSUME PanelInv, Back \/ TypeKey \/ StopTyping \/ Choose
    PROVE  PanelInv'
<1>1. PanelTypes /\ (open.at = "settings" => open \in SettingsPanels)
      /\ (open.at = "bindings" => open \in BindingPanels)
  BY DialogKinds DEF PanelInv, PanelTypes
<1>2. Closed \in Dialogs /\ Menu \in Dialogs /\ Closed.at = "none" /\ Menu.at = "menu"
  BY DEF Dialogs, PlainPanels, Closed, Menu
<1>3. ASSUME NEW confirm \in {"restart", "back"}, open.at = "settings", saving = NotSaving,
             Shows([open EXCEPT !.confirm = confirm])
      PROVE  PanelInv'
  <2> DEFINE panel == [open EXCEPT !.confirm = confirm]
  <2>1. panel \in SettingsPanels /\ panel.at = "settings" /\ panel.source = open.source
    BY <1>1, <1>3 DEF SettingsPanels
  <2>2. panel \in Dialogs  BY <2>1 DEF Dialogs
  <2>3. ~dropped => Current(panel.source)  BY <1>3, <2>1 DEF PanelInv, TextsAreCurrent
  <2>4. Shows(panel)  BY <1>3
  <2> HIDE DEF panel
  <2> QED  BY <1>3, <2>1, <2>2, <2>3, <2>4, ShowsKeeps
<1>4. ASSUME open.at = "bindings", ~open.working \/ open.typing
      PROVE  open.pending = NoQuestion /\ (~dropped => Current(open.parent.source))
  <2>1. open.pending = NoQuestion  BY <1>4 DEF PanelInv, Questions
  <2>2. ~Handed  BY <1>1, <2>1, AnswerKinds DEF Handed, PanelTypes, NoQuestion
  <2> QED  BY <1>4, <2>1, <2>2 DEF PanelInv, TextsAreCurrent, Under
<1>5. ASSUME NEW typing \in BOOLEAN, open.at = "bindings", ~open.working \/ open.typing, saving = NotSaving,
             Shows([open EXCEPT !.typing = typing])
      PROVE  PanelInv'
  <2> DEFINE panel == [open EXCEPT !.typing = typing]
  <2>1. panel \in BindingPanels /\ panel.at = "bindings" /\ panel.parent = open.parent /\ panel.pending = open.pending
    BY <1>1, <1>5 DEF BindingPanels
  <2>2. panel \in Dialogs  BY <2>1 DEF Dialogs
  <2>3. panel.pending = NoQuestion /\ (~dropped => Current(panel.parent.source))  BY <1>4, <1>5, <2>1
  <2>4. Shows(panel)  BY <1>5
  <2> HIDE DEF panel
  <2> QED  BY <1>5, <2>1, <2>2, <2>3, <2>4, ShowsKeeps
<1>6. CASE Back
  <2>1. saving = NotSaving  BY <1>6 DEF Back, InPanel
  <2>2. CASE open.at = "bindings"
    <3>1. Shows(open.parent) /\ ~open.working  BY <1>6, <2>2 DEF Back
    <3>2. open.parent \in SettingsPanels  BY <1>1, <2>2 DEF BindingPanels
    <3>3. open.parent \in Dialogs /\ open.parent.at = "settings"  BY <3>2 DEF Dialogs, SettingsPanels
    <3>4. ~dropped => Current(open.parent.source)  BY <1>4, <2>2, <3>1
    <3> QED  BY <2>1, <3>1, <3>3, <3>4, ShowsKeeps
  <2>3. CASE open.at = "settings" /\ live # open.atOpen
    <3>1. Shows([open EXCEPT !.confirm = "restart"])  BY <1>6, <2>3 DEF Back
    <3> QED  BY <1>3, <2>1, <2>3, <3>1
  <2>4. CASE open.at # "bindings" /\ ~(open.at = "settings" /\ live # open.atOpen)
    <3>1. Shows(Closed) \/ Shows(Menu)  BY <1>6, <2>4 DEF Back
    <3> QED  BY <1>2, <2>1, <3>1, ShowsKeeps
  <2> QED  BY <2>2, <2>3, <2>4
<1>7. CASE TypeKey
  BY <1>5, <1>7 DEF TypeKey, InPanel
<1>8. CASE StopTyping
  BY <1>5, <1>8 DEF StopTyping, Typing
<1>9. CASE Choose
  BY <1>3, <1>9 DEF Choose, Mandatory
<1> QED  BY <1>6, <1>7, <1>8, <1>9

\* The keys that start a thread for the panel that is open.
LEMMA StepAsks ==
    ASSUME PanelInv, Again \/ Upgrade \/ Prune \/ StartKeybinding \/ StartKeyEdit
    PROVE  PanelInv'
<1>1. PanelTypes /\ asked + 1 \in Nat /\ (open.at = "bindings" => open \in BindingPanels)
      /\ (open.at \in {"bridges", "update"} => open \in AskingPanels)
  BY DialogKinds DEF PanelInv, PanelTypes
<1>2. ASSUME NEW work \in Works, saving = NotSaving, open.at \in {"bridges", "update"},
             Asks(work, [open EXCEPT !.view = "waiting"])
      PROVE  PanelInv'
  <2> DEFINE panel == [open EXCEPT !.view = "waiting"]
  <2>1. [panel EXCEPT !.pending = asked + 1] \in AskingPanels  BY <1>1, <1>2 DEF AskingPanels
  <2>2. Asks(work, panel)  BY <1>2
  <2> HIDE DEF panel
  <2>3. open'.at # "bindings"  BY <2>1, <2>2 DEF Asks, AskingPanels
  <2> QED  BY <1>2, <2>1, <2>2, <2>3, AsksKeeps
<1>3. ASSUME NEW work \in Works, saving = NotSaving, open.at = "bindings", ~open.working,
             \/ ~open.typing /\ Asks(work, [open EXCEPT !.working = TRUE])
             \/ Asks(work, [open EXCEPT !.typing = FALSE, !.working = TRUE])
      PROVE  PanelInv'
  <2> DEFINE panel == [open EXCEPT !.typing = FALSE, !.working = TRUE]
  <2>1. open \in BindingPanels  BY <1>1, <1>3
  <2>2. ~open.typing => [open EXCEPT !.working = TRUE] = panel  BY <2>1 DEF BindingPanels
  <2>3. Asks(work, panel)  BY <1>3, <2>2
  <2>4. /\ [panel EXCEPT !.pending = asked + 1] \in BindingPanels
        /\ [panel EXCEPT !.pending = asked + 1].working /\ ~[panel EXCEPT !.pending = asked + 1].typing
        /\ [panel EXCEPT !.pending = asked + 1].parent = open.parent
    BY <1>1, <2>1 DEF BindingPanels
  <2> HIDE DEF panel
  <2>5. open' = [panel EXCEPT !.pending = asked + 1]  BY <2>3 DEF Asks
  <2>6. open.pending = NoQuestion  BY <1>3 DEF PanelInv, Questions
  <2>7. ~Handed  BY <1>1, <2>6, AnswerKinds DEF Handed, PanelTypes, NoQuestion
  <2>8. ~dropped => Current(open'.parent.source)
    BY <1>3, <2>4, <2>5, <2>7 DEF PanelInv, TextsAreCurrent, Under
  <2> QED  BY <1>3, <2>3, <2>4, <2>5, <2>8, AsksKeeps
<1>4. CASE Again  BY <1>2, <1>4 DEF Again, InPanel, Works
<1>5. CASE Upgrade  BY <1>2, <1>5 DEF Upgrade, InPanel, Works
<1>6. CASE Prune  BY <1>2, <1>6 DEF Prune, InPanel, Works
<1>7. CASE StartKeybinding  BY <1>3, <1>7 DEF StartKeybinding, InPanel, Typing, Works
<1>8. CASE StartKeyEdit  BY <1>3, <1>8 DEF StartKeyEdit, Typing, Works
<1> QED  BY <1>4, <1>5, <1>6, <1>7, <1>8

\* What a save writes is text, of the count of the text that was read.
LEMMA EditedText ==
    ASSUME NEW text \in SavedTexts, NEW values \in DaemonSettings, NEW changed \in SUBSET Settings
    PROVE  Edited(text, values, changed) \in SavedTexts /\ Edited(text, values, changed).saved = text.saved
<1> DEFINE new == [setting \in Settings |-> IF setting \in changed THEN values[setting] ELSE text.daemon[setting]]
<1>1. text.daemon \in [Settings -> Rungs] /\ values \in [Settings -> Rungs]  BY DEF SavedTexts, DaemonSettings
<1>2. new \in DaemonSettings  BY <1>1 DEF DaemonSettings
<1>3. Edited(text, values, changed) = [text EXCEPT !.missing = FALSE, !.daemon = new]  BY DEF Edited
<1> HIDE DEF new
<1> QED  BY <1>2, <1>3 DEF SavedTexts

\* What a change of the key writes is text of the same count.
LEMMA KeyedText ==
    ASSUME NEW text \in SavedTexts
    PROVE  LET keyed == [text EXCEPT !.key = 1 - @, !.missing = FALSE]
           IN  keyed \in SavedTexts /\ keyed.saved = text.saved
<1> DEFINE key == 1 - text.key
<1>1. key \in {0, 1}
  <2>1. text.key \in {0, 1}  BY DEF SavedTexts
  <2> QED  BY <2>1
<1>2. [text EXCEPT !.key = 1 - @, !.missing = FALSE] = [text EXCEPT !.key = key, !.missing = FALSE]
  OBVIOUS
<1> HIDE DEF key
<1>3. [text EXCEPT !.key = key, !.missing = FALSE] \in SavedTexts
      /\ [text EXCEPT !.key = key, !.missing = FALSE].saved = text.saved
  BY <1>1 DEF SavedTexts
<1> QED  BY <1>2, <1>3

\* What others leave is text that was not there before.
LEMMA OthersText ==
    ASSUME file \in SavedTexts, OthersSave
    PROVE  file' \in SavedTexts /\ file'.saved = file.saved + 1 /\ file.saved \in Nat
<1>1. CASE \E values \in DaemonSettings : file' = [file EXCEPT !.saved = @ + 1, !.daemon = values, !.missing = FALSE]
  <2>1. PICK values \in DaemonSettings : file' = [file EXCEPT !.saved = @ + 1, !.daemon = values, !.missing = FALSE]
    BY <1>1
  <2>2. /\ file = [daemon |-> file.daemon, missing |-> file.missing, key |-> file.key, saved |-> file.saved]
        /\ file.key \in {0, 1} /\ file.saved \in Nat
    BY DEF SavedTexts
  <2>3. file' = [daemon |-> values, missing |-> FALSE, key |-> file.key, saved |-> file.saved + 1]  BY <2>1, <2>2, Zenon
  <2> QED  BY <2>2, <2>3 DEF SavedTexts
<1>2. CASE file' = [daemon |-> Defaults, missing |-> TRUE, key |-> 0, saved |-> file.saved + 1]
  <2>1. Defaults \in DaemonSettings  BY RungAssumption DEF Defaults, DaemonSettings
  <2> HIDE DEF Defaults
  <2> QED  BY <1>2, <2>1 DEF SavedTexts
<1> QED  BY <1>1, <1>2 DEF OthersSave

\* Changing a value, saving, and answering the prompt.
LEMMA StepSaves ==
    ASSUME PanelInv,
           (\E setting \in Settings, by \in {1, -1} : Cycle(setting, by)) \/ Save \/ Answer \/ SaveCheck \/ SaveRename \/ SaveFails
    PROVE  PanelInv'
<1>1. PanelTypes /\ (open.at = "settings" => open \in SettingsPanels)
  BY DialogKinds DEF PanelInv, PanelTypes
<1>2. CASE \E setting \in Settings, by \in {1, -1} : Cycle(setting, by)
  <2>1. PICK setting \in Settings, by \in {1, -1} : Cycle(setting, by)  BY <1>2
  <2>2. open.at = "settings" /\ open' = [open EXCEPT !.dirty = @ \cup {setting}] /\ live' \in DaemonSettings
    BY <1>1, <2>1 DEF Cycle, Stepped, PanelTypes, DaemonSettings
  <2>3. open' \in SettingsPanels /\ open'.at = "settings" /\ open'.source = open.source
    BY <1>1, <2>2 DEF SettingsPanels
  <2>4. UNCHANGED <<file, saving, threads, asked, answer, dropped>>  BY <2>1 DEF Cycle
  <2>5. PanelTypes'  BY <1>1, <2>2, <2>3, <2>4 DEF PanelTypes, Dialogs
  <2>6. Questions'  BY <2>3, <2>4 DEF PanelInv, Questions
  <2>7. SavesWhatItRead'  BY <2>3, <2>4 DEF PanelInv, SavesWhatItRead
  <2>8. TextsAreCurrent'  BY <2>2, <2>3, <2>4 DEF PanelInv, TextsAreCurrent, Current
  <2> QED  BY <2>5, <2>6, <2>7, <2>8 DEF PanelInv
<1>3. ASSUME NEW values \in DaemonSettings, NEW then \in {"stay", "restart", "back"},
             open.at = "settings", StartSave(values, then)
      PROVE  PanelInv'
  <2> DEFINE body == Edited(open.source, values, open.dirty)
  <2>1. open.source \in SavedTexts /\ open.dirty \in SUBSET Settings  BY <1>1, <1>3 DEF SettingsPanels
  <2>2. body \in SavedTexts /\ body.saved = open.source.saved  BY <2>1, EditedText
  <2>3. saving' = [step |-> "check", then |-> then, seen |-> file.saved, body |-> body]
    BY <1>3 DEF StartSave
  <2>4. UNCHANGED <<open, file, threads, asked, answer, dropped>> /\ live' = values  BY <1>3 DEF StartSave
  <2> HIDE DEF body
  <2>5. file.saved \in Nat  BY <1>1 DEF PanelTypes, SavedTexts
  <2>6. saving' \in Savings /\ saving'.step = "check" /\ saving'.body = body
    BY <2>2, <2>3, <2>5 DEF Savings
  <2>7. PanelTypes'  BY <1>1, <2>4, <2>6 DEF PanelTypes
  <2>8. Questions' /\ TextsAreCurrent'
    BY <2>4 DEF PanelInv, Questions, TextsAreCurrent, Current, Under, Handed
  <2>9. SavesWhatItRead'  BY <1>3, <2>2, <2>4, <2>6 DEF SavesWhatItRead
  <2> QED  BY <2>7, <2>8, <2>9 DEF PanelInv
<1>4. CASE Save
  BY <1>1, <1>3, <1>4 DEF Save, InPanel, PanelTypes
<1>5. CASE Answer
  <2>1. open.at = "settings" /\ open.atOpen \in DaemonSettings /\ open.confirm \in {"restart", "back"}
    BY <1>1, <1>5 DEF Answer, Mandatory, SettingsPanels
  <2>2. (IF open.confirm = "back" THEN open.atOpen ELSE live) \in DaemonSettings  BY <1>1, <2>1 DEF PanelTypes
  <2> QED  BY <1>3, <1>5, <2>1, <2>2 DEF Answer
<1>6. CASE SaveCheck
  <2>1. /\ saving.step = "check" /\ file = open.source /\ saving' = [saving EXCEPT !.step = "rename", !.seen = file.saved]
        /\ UNCHANGED <<open, live, file, threads, asked, answer, dropped>>
    BY <1>6 DEF SaveCheck, Unchanged
  <2>2. saving # NotSaving  BY <2>1 DEF NotSaving
  <2>3. file.saved \in Nat  BY <1>1 DEF PanelTypes, SavedTexts
  <2>4. saving' \in Savings /\ saving'.step = "rename" /\ saving'.seen = file.saved /\ saving'.body = saving.body
    BY <1>1, <2>1, <2>2, <2>3 DEF PanelTypes, Savings
  <2>5. PanelTypes'  BY <1>1, <2>1, <2>4 DEF PanelTypes
  <2>6. Questions' /\ TextsAreCurrent'
    BY <2>1 DEF PanelInv, Questions, TextsAreCurrent, Current, Under, Handed
  <2>7. SavesWhatItRead'  BY <2>1, <2>2, <2>4 DEF PanelInv, SavesWhatItRead
  <2> QED  BY <2>5, <2>6, <2>7 DEF PanelInv
<1>7. ASSUME NEW written \in BOOLEAN, saving # NotSaving, Saved(written),
             file' = IF written THEN saving.body ELSE file
      PROVE  PanelInv'
  <2>1. /\ open.at = "settings" /\ open \in SettingsPanels
        /\ saving.body \in SavedTexts /\ saving.then \in {"stay", "restart", "back"}
    BY <1>1, <1>7 DEF PanelInv, SavesWhatItRead, PanelTypes, Savings
  <2>2. saving' = NotSaving /\ UNCHANGED <<live, threads, asked, answer, dropped>>  BY <1>7 DEF Saved
  <2>3. \/ open' = Menu
        \/ written /\ open' = [open EXCEPT !.source = saving.body, !.dirty = {}]
        \/ ~written /\ open' = open
    BY <1>7 DEF Saved
  <2>4. Menu \in Dialogs /\ Menu.at \notin {"settings", "bindings"}  BY DEF Dialogs, PlainPanels, Menu
  <2>5. /\ [open EXCEPT !.source = saving.body, !.dirty = {}] \in SettingsPanels
        /\ [open EXCEPT !.source = saving.body, !.dirty = {}].source = saving.body
        /\ [open EXCEPT !.source = saving.body, !.dirty = {}].at = "settings"
    BY <2>1 DEF SettingsPanels
  <2>6. open' \in Dialogs /\ open'.at # "bindings"  BY <2>1, <2>3, <2>4, <2>5 DEF Dialogs
  <2>7. PanelTypes'  BY <1>1, <1>7, <2>1, <2>2, <2>6 DEF PanelTypes, Savings
  <2>8. Questions'  BY <2>2, <2>6 DEF PanelInv, Questions
  <2>9. SavesWhatItRead'  BY <2>2 DEF SavesWhatItRead, NotSaving
  <2>10. TextsAreCurrent'
    <3>1. SUFFICES ASSUME ~dropped, open'.at = "settings" PROVE Current(open.source)'
      BY <2>2, <2>6 DEF TextsAreCurrent
    <3>2. CASE written
      <4>1. open'.source = saving.body  BY <2>1, <2>3, <2>4, <2>5, <3>1, <3>2
      <4>2. file' = saving.body  BY <1>7, <3>2
      <4>3. saving.body.saved \in Nat  BY <2>1 DEF SavedTexts
      <4> QED  BY <4>1, <4>2, <4>3 DEF Current
    <3>3. CASE ~written
      BY <1>7, <2>1, <2>3, <2>4, <3>1, <3>3 DEF PanelInv, TextsAreCurrent, Current
    <3> QED  BY <3>2, <3>3
  <2> QED  BY <2>7, <2>8, <2>9, <2>10 DEF PanelInv
<1>8. CASE SaveRename
  <2>1. saving # NotSaving  BY <1>8 DEF SaveRename, NotSaving
  <2>2. Saved(TRUE) /\ file' = saving.body  BY <1>8 DEF SaveRename
  <2> QED  BY <1>7, <2>1, <2>2
<1>9. CASE SaveFails
  <2>1. saving # NotSaving  BY <1>9 DEF SaveFails, NotSaving
  <2>2. Saved(FALSE) /\ file' = file  BY <1>9 DEF SaveFails
  <2> QED  BY <1>7, <2>1, <2>2
<1> QED  BY <1>2, <1>4, <1>5, <1>6, <1>8, <1>9

\* What the threads, the poll of the loop and the rest of the world do.
LEMMA StepAnswers ==
    ASSUME PanelInv, ThreadStep \/ Poll
    PROVE  PanelInv'
<1>1. /\ PanelTypes
      /\ open.at = "bindings" => open \in BindingPanels
      /\ open.at \in {"bridges", "update"} => open \in AskingPanels
  BY DialogKinds DEF PanelInv, PanelTypes
<1>2. Awaited \in Nat /\ (Awaited # NoQuestion => open.at \in {"bindings", "update", "bridges"} /\ Awaited = open.pending)
  BY <1>1 DEF Awaited, Question, NoQuestion, BindingPanels, AskingPanels
<1>3. ASSUME NEW t \in threads, NEW how \in {"ok", "failed", "died"}, ThreadEnds(t, how)
      PROVE  PanelInv'
  <2>1. t \in PanelThreads /\ t.to \in Nat \ {0} /\ t.to <= asked /\ t.to # answer.to
    BY <1>1 DEF PanelTypes, PanelThreads, PanelInv, Questions
  <2>2. threads' = threads \ {t} /\ UNCHANGED <<open, live, saving, asked>>  BY <1>3 DEF ThreadEnds
  <2>3. file' = file \/ (t.work = "key" /\ how = "ok" /\ file' = [file EXCEPT !.key = 1 - @, !.missing = FALSE])
    BY <1>3 DEF ThreadEnds
  <2>4. file' \in SavedTexts /\ file'.saved = file.saved
    BY <1>1, <2>3, KeyedText DEF PanelTypes
  <2>5. answer' = IF t.to = Awaited THEN [to |-> t.to, how |-> how, work |-> t.work, source |-> file'] ELSE answer
    BY <1>3 DEF ThreadEnds
  <2>6. [to |-> t.to, how |-> how, work |-> t.work, source |-> file'] \in Answers
    BY <2>1, <2>4 DEF Answers, PanelThreads
  <2>7. PanelTypes'
    BY <1>1, <2>2, <2>4, <2>5, <2>6 DEF PanelTypes
  <2>8. Questions'
    <3>1. \A u \in threads' : u \in threads /\ u # t /\ u.to # t.to  BY <2>2 DEF PanelInv, Questions
    <3>2. answer'.to \in {t.to, answer.to}  BY <2>5
    <3> QED  BY <2>1, <2>2, <3>1, <3>2 DEF PanelInv, Questions
  <2>9. SavesWhatItRead'  BY <2>2 DEF PanelInv, SavesWhatItRead
  <2>10. TextsAreCurrent'
    <3>1. SUFFICES ASSUME ~dropped'
                   PROVE  /\ open.at = "settings" => Current(open.source)'
                          /\ open.at = "bindings" => Current(Under)'
      BY <2>2 DEF TextsAreCurrent
    <3>2. ~dropped /\ (file' # file => t.to = Awaited)  BY <1>3, <3>1 DEF ThreadEnds
    <3>3. ASSUME open.at = "settings" PROVE Current(open.source)'
      <4>1. Awaited = NoQuestion  BY <3>3 DEF Awaited, Question
      <4>2. file' = file  BY <2>1, <3>2, <4>1 DEF NoQuestion
      <4> QED  BY <2>2, <3>2, <3>3, <4>2 DEF PanelInv, TextsAreCurrent, Current
    <3>4. ASSUME open.at = "bindings" PROVE Current(Under)'
      <4>1. Awaited = open.pending  BY <3>4 DEF Awaited, Question
      <4>2. Current(Under)  BY <3>2, <3>4 DEF PanelInv, TextsAreCurrent
      <4>3. CASE t.to # Awaited
        BY <2>2, <2>5, <3>2, <4>2, <4>3 DEF Current, Under, Handed
      <4>4. CASE t.to = Awaited
        <5>1. ~Handed  BY <2>1, <4>1, <4>4 DEF Handed
        <5>2. /\ answer'.to = t.to /\ answer'.how = how /\ answer'.work = t.work /\ answer'.source = file'
          BY <2>5, <4>4
        <5>3. answer' # NoAnswer  BY <2>1, <5>2 DEF NoAnswer
        <5>4. CASE t.work = "key" /\ how = "ok"
          <6>1. Handed' /\ Under' = file'  BY <2>2, <4>1, <4>4, <5>2, <5>3, <5>4 DEF Handed, Under
          <6> QED  BY <2>4, <6>1 DEF Current, SavedTexts
        <5>5. CASE ~(t.work = "key" /\ how = "ok")
          <6>1. ~Handed' /\ file' = file  BY <2>3, <5>2, <5>5 DEF Handed
          <6> QED  BY <2>2, <4>2, <5>1, <6>1 DEF Current, Under
        <5> QED  BY <5>4, <5>5
      <4> QED  BY <4>3, <4>4
    <3> QED  BY <3>3, <3>4
  <2> QED  BY <2>7, <2>8, <2>9, <2>10 DEF PanelInv
<1>4. CASE Poll
  <2>1. /\ saving = NotSaving /\ Awaited # NoQuestion /\ answer.to = Awaited /\ answer' = NoAnswer
        /\ UNCHANGED <<live, file, saving, threads, asked, dropped>>
    BY <1>4 DEF Poll, HasAnswer
  <2>2. PICK found \in {"offer", "nothing"} : open' = Polled(found)  BY <1>4 DEF Poll
  <2>3. answer # NoAnswer /\ answer.source \in SavedTexts
    BY <1>1, <2>1, AnswerKinds DEF PanelTypes, NoQuestion
  <2>4. CASE open.at = "bindings"
    <3>1. /\ open' \in BindingPanels /\ open'.at = "bindings" /\ open'.pending = NoQuestion
          /\ open'.parent.source = Under
      <4>1. open' = PolledBindings /\ open \in BindingPanels /\ open.parent \in SettingsPanels
        BY <1>1, <2>2, <2>4 DEF Polled, BindingPanels
      <4>2. answer.to = open.pending  BY <1>2, <2>1
      <4>3. Under = IF answer.work = "key" /\ answer.how = "ok" THEN answer.source ELSE open.parent.source
        BY <2>3, <4>2 DEF Under, Handed
      <4>4. Under \in SavedTexts  BY <2>3, <4>1, <4>3 DEF SettingsPanels
      <4> DEFINE text == Under
                 readable == open.parent.readable \/ (answer.work = "key" /\ answer.how = "ok")
                 parent == [open.parent EXCEPT !.source = text, !.readable = readable]
      <4>5. /\ open' = [open EXCEPT !.working = FALSE, !.pending = NoQuestion, !.parent = [@ EXCEPT !.source = text, !.readable = readable]]
            /\ open.parent = [at |-> "settings", source |-> open.parent.source, readable |-> open.parent.readable,
                              dirty |-> open.parent.dirty, atOpen |-> open.parent.atOpen, confirm |-> open.parent.confirm]
        BY <4>1, <4>3 DEF PolledBindings, SettingsPanels
      <4>8. readable \in BOOLEAN  OBVIOUS
      <4> HIDE DEF text, readable
      <4>6. parent \in SettingsPanels /\ parent.source = text
        BY <4>1, <4>4, <4>8 DEF SettingsPanels, text
      <4>7. open' = [at |-> "bindings", parent |-> parent, typing |-> open.typing, working |-> FALSE, pending |-> NoQuestion]
        BY <4>1, <4>5 DEF BindingPanels, text, readable
      <4> HIDE DEF parent
      <4> QED  BY <4>1, <4>6, <4>7 DEF BindingPanels, NoQuestion, text
    <3>2. PanelTypes'  BY <1>1, <2>1, <3>1 DEF PanelTypes, Dialogs, Answers
    <3>3. \A t \in threads : t.to # 0  BY <1>1 DEF PanelTypes, PanelThreads
    <3>4. Questions'  BY <2>1, <3>1, <3>3, <1>1 DEF PanelInv, Questions, NoAnswer, PanelTypes
    <3>5. SavesWhatItRead'  BY <2>1 DEF SavesWhatItRead, NotSaving
    <3>6. ~Handed'  BY <2>1 DEF Handed
    <3>7. Under' = Under  BY <3>1, <3>6 DEF Under
    <3>8. TextsAreCurrent'  BY <2>1, <2>4, <3>1, <3>7 DEF PanelInv, TextsAreCurrent, Current
    <3> QED  BY <3>2, <3>4, <3>5, <3>8 DEF PanelInv
  <2>5. CASE open.at # "bindings"
    <3>1. open \in AskingPanels  BY <1>1, <1>2, <2>1, <2>5
    <3>2. open' = [open EXCEPT !.pending = NoQuestion, !.view = IF answer.how = "ok" THEN found ELSE "failed"]
      BY <2>2, <2>5 DEF Polled
    <3>3. open' \in AskingPanels /\ open'.at \notin {"settings", "bindings"}
      BY <3>1, <3>2 DEF AskingPanels, NoQuestion
    <3>4. PanelTypes'  BY <1>1, <2>1, <3>3 DEF PanelTypes, Dialogs, Answers
    <3>5. \A t \in threads : t.to # 0  BY <1>1 DEF PanelTypes, PanelThreads
    <3>6. Questions'  BY <2>1, <3>3, <3>5, <1>1 DEF PanelInv, Questions, NoAnswer, PanelTypes
    <3>7. SavesWhatItRead'  BY <2>1 DEF SavesWhatItRead, NotSaving
    <3>8. TextsAreCurrent'  BY <3>3 DEF TextsAreCurrent
    <3> QED  BY <3>4, <3>6, <3>7, <3>8 DEF PanelInv
  <2> QED  BY <2>4, <2>5
<1> QED  BY <1>3, <1>4 DEF ThreadStep

\* Leaving, going on as a new process, and what others do.
LEMMA StepOthers ==
    ASSUME PanelInv, Quit \/ Reexec \/ OthersSave \/ DaemonRestarts \/ UNCHANGED panelVars
    PROVE  PanelInv'
<1>1. PanelTypes  BY DEF PanelInv
<1>2. CASE Quit \/ Reexec
  <2>1. /\ open' \in {Closed, Gone} /\ threads' = {} /\ answer' = NoAnswer /\ saving = NotSaving
        /\ live' \in {live, file.daemon} /\ UNCHANGED <<file, saving, asked, dropped>>
    BY <1>2 DEF Quit, Reexec
  <2>2. open' \in Dialogs /\ open'.at \notin {"settings", "bindings"}
    BY <2>1 DEF Dialogs, PlainPanels, Closed, Gone
  <2>3. file.daemon \in DaemonSettings  BY <1>1 DEF PanelTypes, SavedTexts
  <2>4. PanelTypes'  BY <1>1, <2>1, <2>2, <2>3 DEF PanelTypes, Answers
  <2>5. Questions'  BY <1>1, <2>1, <2>2 DEF Questions, NoAnswer, PanelTypes
  <2>6. SavesWhatItRead'  BY <2>1 DEF SavesWhatItRead, NotSaving
  <2>7. TextsAreCurrent'  BY <2>2 DEF TextsAreCurrent
  <2> QED  BY <2>4, <2>5, <2>6, <2>7 DEF PanelInv
<1>3. CASE OthersSave
  <2>2. UNCHANGED <<open, live, saving, threads, asked, answer, dropped>>  BY <1>3 DEF OthersSave
  <2>3. file' \in SavedTexts /\ file'.saved = file.saved + 1 /\ file.saved \in Nat
    BY <1>1, <1>3, OthersText DEF PanelTypes
  <2>4. PanelTypes'  BY <1>1, <2>2, <2>3 DEF PanelTypes
  <2>5. Questions' /\ SavesWhatItRead'  BY <2>2 DEF PanelInv, Questions, SavesWhatItRead
  <2>6. ASSUME NEW text \in SavedTexts, Current(text)
        PROVE  text.saved <= file'.saved /\ text.saved # file'.saved
    BY <2>3, <2>6 DEF Current, SavedTexts
  <2>7. TextsAreCurrent'
    <3>1. SUFFICES ASSUME ~dropped
                   PROVE  /\ open.at = "settings" => Current(open.source)'
                          /\ open.at = "bindings" => Current(Under)'
      BY <2>2 DEF TextsAreCurrent
    <3>2. open.at = "settings" => open.source \in SavedTexts
      BY <1>1, DialogKinds DEF PanelTypes, SettingsPanels
    <3>3. open.at = "bindings" => Under \in SavedTexts /\ Under' = Under
      BY <1>1, <2>2, DialogKinds, AnswerKinds DEF PanelTypes, BindingPanels, SettingsPanels, Under, Handed
    <3> QED  BY <2>2, <2>6, <3>1, <3>2, <3>3 DEF PanelInv, TextsAreCurrent, Current
  <2> QED  BY <2>4, <2>5, <2>7 DEF PanelInv
<1>4. CASE DaemonRestarts \/ UNCHANGED panelVars
  <2>1. UNCHANGED <<open, live, file, saving, threads, asked, answer, dropped>>
    BY <1>4 DEF DaemonRestarts, panelVars
  <2> QED  BY <2>1 DEF PanelInv, PanelTypes, Questions, SavesWhatItRead, TextsAreCurrent, Current, Under, Handed
<1> QED  BY <1>2, <1>3, <1>4

\* Nothing was saved, asked or answered yet.
LEMMA PanelInitInv == PanelInit => PanelInv
<1> SUFFICES ASSUME PanelInit PROVE PanelInv
  OBVIOUS
<1>1. PICK values \in DaemonSettings, missing \in BOOLEAN :
         file = [daemon |-> IF missing THEN Defaults ELSE values, missing |-> missing, key |-> 0, saved |-> 0]
  BY DEF PanelInit
<1>2. /\ open = Closed /\ asked = 0 /\ threads = {} /\ answer = NoAnswer /\ live = file.daemon
      /\ saving = NotSaving
  BY DEF PanelInit
<1>3. file \in SavedTexts
  <2>1. Defaults \in DaemonSettings  BY RungAssumption DEF Defaults, DaemonSettings
  <2>2. (IF missing THEN Defaults ELSE values) \in DaemonSettings  BY <2>1
  <2> HIDE DEF Defaults
  <2> QED  BY <1>1, <2>2 DEF SavedTexts
<1>4. open \in Dialogs /\ open.at = "none"  BY <1>2 DEF Dialogs, PlainPanels, Closed
<1>5. PanelTypes  BY <1>2, <1>3, <1>4 DEF PanelTypes, SavedTexts, Answers, Savings
<1>6. Questions  BY <1>2, <1>4 DEF Questions, NoAnswer
<1>7. SavesWhatItRead  BY <1>2 DEF SavesWhatItRead, NotSaving
<1>8. TextsAreCurrent  BY <1>4 DEF TextsAreCurrent
<1> QED  BY <1>5, <1>6, <1>7, <1>8 DEF PanelInv

\* Every step of the panels, their threads and the rest of the world.
LEMMA StepPanels ==
    ASSUME PanelInv, [PanelNext]_panelVars
    PROVE  PanelInv'
BY StepOpens, StepShows, StepAsks, StepSaves, StepAnswers, StepOthers
   DEF PanelNext, Keys, SaveStep

\* Of all that is done to the file only the rename of a save takes it back.
LEMMA StepKeepsEdits ==
    ASSUME PanelInv, [PanelNext]_panelVars, file'.saved < file.saved
    PROVE  saving.step = "rename" /\ saving.seen < file.saved /\ file'.saved = saving.seen
<1>1. file \in SavedTexts /\ file.saved \in Nat  BY DEF PanelInv, PanelTypes, SavedTexts
<1>2. file' # file  BY <1>1
<1>3. CASE SaveRename
  <2>1. saving.step = "rename" /\ file' = saving.body  BY <1>3 DEF SaveRename
  <2>2. saving.body.saved = saving.seen  BY <2>1 DEF PanelInv, SavesWhatItRead
  <2> QED  BY <2>1, <2>2
<1>4. ASSUME NEW t \in threads, NEW how \in {"ok", "failed", "died"}, ThreadEnds(t, how)
      PROVE  FALSE
  <2>1. file' = file \/ file' = [file EXCEPT !.key = 1 - @, !.missing = FALSE]  BY <1>4 DEF ThreadEnds
  <2>2. file'.saved = file.saved  BY <1>1, <2>1, KeyedText
  <2> QED  BY <1>1, <2>2
<1>5. CASE OthersSave
  BY <1>1, <1>5, OthersText
<1>6. CASE Keys
  <2>1. ~(OpenFromCards \/ OpenSettings \/ OpenDoctor \/ OpenBindings \/ Back \/ TypeKey \/ StopTyping \/ Choose)
    BY <1>2 DEF OpenFromCards, OpenSettings, OpenDoctor, OpenBindings, Back, TypeKey, StopTyping, Choose, Shows
  <2>2. ~(OpenBridges \/ OpenUpdate \/ Again \/ Upgrade \/ Prune \/ StartKeybinding \/ StartKeyEdit)
    BY <1>2 DEF OpenBridges, OpenUpdate, Again, Upgrade, Prune, StartKeybinding, StartKeyEdit, Asks
  <2>3. ~(Quit \/ Save \/ Answer) /\ \A setting \in Settings, by \in {1, -1} : ~Cycle(setting, by)
    BY <1>2 DEF Quit, Save, Answer, StartSave, Cycle
  <2> QED  BY <1>6, <2>1, <2>2, <2>3 DEF Keys
<1>7. CASE SaveCheck \/ SaveFails \/ Poll \/ Reexec \/ DaemonRestarts \/ UNCHANGED panelVars
  BY <1>2, <1>7 DEF SaveCheck, SaveFails, Poll, Reexec, DaemonRestarts, panelVars
<1> QED  BY <1>3, <1>4, <1>5, <1>6, <1>7 DEF PanelNext, SaveStep, ThreadStep
-----------------------------------------------------------------------------
(* Replacing the plugin.                                                   *)

\* Nobody has upgraded yet.
LEMMA ReleaseInitInv == ReleaseInit => ReleaseInv
<1> SUFFICES ASSUME ReleaseInit PROVE ReleaseInv
  OBVIOUS
<1>1. disk \in Builds  BY DEF ReleaseInit, Builds
<1>2. ReleaseTypes
  BY <1>1 DEF ReleaseInit, ReleaseTypes, ShownPanels, Results, Upgrades, Renewals
<1>3. Uncrossed
  BY DEF ReleaseInit, Uncrossed, Installed, Succeeded, Waited, NoThread, NotRenewed
<1> QED  BY <1>2, <1>3 DEF ReleaseInv

\* A thread that has installed nothing, and a daemon that leaves or comes, change nothing of
\* what was installed.
LEMMA NothingInstalled ==
    ASSUME ReleaseInv, ReleaseTypes', UNCHANGED <<disk, renewed>>, running' \in {running, NoDaemon, disk},
           \A u \in Updaters : updater'[u].build = updater[u].build \/ u = "cli",
           \A t \in Waited : \/ thread'[t] = thread[t] /\ (t = "cli" => updater'[t].build = updater[t].build)
                             \/ thread'[t].step # "install" /\ ~Installed(t)'
    PROVE  ReleaseInv'
<1> USE DEF ReleaseInv, Uncrossed
<1>1. Updaters \subseteq Waited  BY DEF Waited
<1>2. \A t \in Waited : ~Installed(t)' => ~Succeeded(t)'  BY DEF Installed
<1>3. \A t \in Waited : thread'[t] = thread[t] => (Installed(t)' <=> Installed(t)) /\ (Succeeded(t)' <=> Succeeded(t))
  BY DEF Installed, Succeeded
<1>4. \A u \in Updaters : thread'[u].step = "install" \/ Installed(u)' => is_newer(thread'[u].tag, updater'[u].build)
  <2> SUFFICES ASSUME NEW u \in Updaters, thread'[u].step = "install" \/ Installed(u)'
               PROVE  is_newer(thread'[u].tag, updater'[u].build)
    OBVIOUS
  <2>1. thread'[u] = thread[u] /\ updater'[u].build = updater[u].build  BY <1>1
  <2>2. thread[u].step = "install" \/ Installed(u)  BY <1>1, <1>3, <2>1
  <2> QED  BY <2>1, <2>2
<1>5. \A t \in Waited : Installed(t)' /\ ~thread'[t].crossed => disk' = thread'[t].tag
  <2> SUFFICES ASSUME NEW t \in Waited, Installed(t)', ~thread'[t].crossed PROVE disk' = thread'[t].tag
    OBVIOUS
  <2>1. thread'[t] = thread[t]  OBVIOUS
  <2>2. Installed(t)  BY <1>3, <2>1
  <2> QED  BY <2>1, <2>2
<1>6. \A t \in Waited : Succeeded(t)' /\ ~thread'[t].crossed => running' \in {NoDaemon, thread'[t].tag}
  <2> SUFFICES ASSUME NEW t \in Waited, Succeeded(t)', ~thread'[t].crossed
               PROVE  running' \in {NoDaemon, thread'[t].tag}
    OBVIOUS
  <2>1. thread'[t] = thread[t]  BY <1>2
  <2>2. Succeeded(t) /\ Installed(t)  BY <1>3, <2>1 DEF Installed
  <2>3. disk = thread[t].tag /\ running \in {NoDaemon, thread[t].tag}  BY <2>1, <2>2
  <2> QED  BY <2>1, <2>3
<1>7. \A u \in Updaters : ~renewed'[u].crossed =>
          /\ u # "cli" /\ renewed'[u].tag = updater'[u].build /\ disk' = updater'[u].build
          /\ is_newer(updater'[u].build, renewed'[u].from)
          /\ running' \in {NoDaemon, updater'[u].build}
  <2> SUFFICES ASSUME NEW u \in Updaters, ~renewed[u].crossed
               PROVE  /\ u # "cli" /\ renewed[u].tag = updater'[u].build /\ disk = updater'[u].build
                      /\ is_newer(updater'[u].build, renewed[u].from)
                      /\ running' \in {NoDaemon, updater'[u].build}
    OBVIOUS
  <2>1. u # "cli" /\ updater'[u].build = updater[u].build  OBVIOUS
  <2> QED  BY <2>1
<1> QED  BY <1>4, <1>5, <1>6, <1>7
\* A thread that sends is done: it is nobody's, or its result waits to be shown.
LEMMA SendsKeeps ==
    ASSUME ReleaseTypes, NEW t \in Waited, thread[t] # NoThread, NEW result \in Results, Sends(t, result)
    PROVE  /\ thread' \in [Waited -> Upgrades]
           /\ \A i \in Waited \ {t} : thread'[i] = thread[i]
           /\ \/ t = Left /\ thread'[t] = NoThread
              \/ t # Left /\ thread'[t] = [thread[t] EXCEPT !.step = "sent", !.result = result]
           /\ thread'[t].step # "install" /\ (Installed(t)' => result = Finished)
<1>1. thread \in [Waited -> Upgrades]  BY DEF ReleaseTypes
<1>2. thread[t] \in [step : {"tag", "install", "restart", "wait", "sent"}, tag : Builds, crossed : BOOLEAN, result : Results]
  BY <1>1 DEF Upgrades
<1> DEFINE sent == [thread[t] EXCEPT !.step = "sent", !.result = result]
<1>3. sent \in Upgrades /\ sent.step = "sent" /\ sent.result = result  BY <1>2 DEF Upgrades
<1>4. NoThread \in Upgrades /\ NoThread.step = "none"  BY DEF Upgrades, NoThread
<1>5. thread' = [thread EXCEPT ![t] = IF t = Left THEN NoThread ELSE sent]  BY DEF Sends
<1> HIDE DEF sent
<1>6. thread'[t] = IF t = Left THEN NoThread ELSE sent  BY <1>1, <1>5
<1>7. Installed(t)' => result = Finished
  BY <1>3, <1>4, <1>6 DEF Installed, Succeeded
<1> QED  BY <1>1, <1>3, <1>4, <1>5, <1>6, <1>7 DEF sent

\* A thread begins with what its panel offers.
LEMMA StepBegins ==
    ASSUME ReleaseInv, NEW u \in Updaters, CheckRelease(u) \/ InstallRelease(u)
    PROVE  ReleaseInv'
<1> USE DEF ReleaseInv
<1>1. /\ thread \in [Waited -> Upgrades] /\ updater \in [Updaters -> [build : Builds, panel : ShownPanels]]
      /\ disk \in Builds /\ u \in Waited
  BY DEF ReleaseTypes, Waited
<1>2. UNCHANGED <<published, source, disk, running, renewed>>  BY DEF CheckRelease, InstallRelease, Begin
<1>3. CASE CheckRelease(u)
  <2> DEFINE build == IF u = "cli" THEN disk ELSE updater[u].build
             began == [step |-> "tag", tag |-> <<>>, crossed |-> FALSE, result |-> Shut]
             entry == [build |-> build, panel |-> [view |-> "checking"]]
  <2>1. thread' = [thread EXCEPT ![u] = began] /\ updater' = [updater EXCEPT ![u] = entry]
    BY <1>3 DEF CheckRelease, Begin
  <2>2. began \in Upgrades /\ began.step = "tag"  BY DEF Upgrades, Builds, NoDaemon, Results
  <2>3. build \in Builds  BY <1>1
  <2> HIDE DEF build
  <2>4. entry \in [build : Builds, panel : ShownPanels] /\ entry.build = build
    BY <2>3 DEF ShownPanels
  <2> HIDE DEF began, entry
  <2>5. ReleaseTypes'  BY <1>1, <1>2, <2>1, <2>2, <2>4 DEF ReleaseTypes
  <2>6. ~(Installed(u)') /\ thread'[u].step # "install"  BY <1>1, <2>1, <2>2 DEF Installed, Succeeded
  <2>7. \A i \in Waited \ {u} : thread'[i] = thread[i]  BY <1>1, <2>1
  <2>8. \A i \in Updaters \ {u} : updater'[i] = updater[i]  BY <1>1, <2>1
  <2>9. updater'[u].build = updater[u].build \/ u = "cli"  BY <1>1, <2>1, <2>4 DEF build
  <2>10. \A i \in Waited : \/ thread'[i] = thread[i] /\ (i = "cli" => updater'[i].build = updater[i].build)
                           \/ thread'[i].step # "install" /\ ~Installed(i)'
    <3> TAKE i \in Waited
    <3>1. CASE i = u  BY <2>6, <3>1
    <3>2. CASE i # u /\ i \in Updaters  BY <2>7, <2>8, <3>2
    <3>3. CASE i # u /\ i \notin Updaters
      <4>1. i # "cli"  BY <3>3 DEF Waited, Left
      <4> QED  BY <2>7, <3>3, <4>1
    <3> QED  BY <3>1, <3>2, <3>3
  <2> QED  BY <1>2, <2>5, <2>8, <2>9, <2>10, NothingInstalled
<1>4. CASE InstallRelease(u)
  <2> DEFINE began == [step |-> "install", tag |-> Panel(u).tag, crossed |-> FALSE, result |-> Shut]
             entry == [build |-> updater[u].build, panel |-> [view |-> "upgrading"]]
  <2>1. /\ thread' = [thread EXCEPT ![u] = began] /\ updater' = [updater EXCEPT ![u] = entry]
        /\ Panel(u).view = "ready" /\ is_newer(Panel(u).tag, updater[u].build)
    BY <1>4 DEF InstallRelease, Begin, upgradable
  <2>2. Panel(u).tag \in Builds
    <3>1. Panel(u) \in ShownPanels  BY <1>1 DEF Panel
    <3> QED  BY <2>1, <3>1 DEF ShownPanels, Results, Ready, Shut, Failed, Finished
  <2>3. /\ began \in Upgrades /\ began.step = "install" /\ began.tag = Panel(u).tag
    BY <2>2 DEF Upgrades, Results
  <2>4. entry \in [build : Builds, panel : ShownPanels] /\ entry.build = updater[u].build
    BY <1>1 DEF ShownPanels
  <2> HIDE DEF began, entry
  <2>5. ReleaseTypes'  BY <1>1, <1>2, <2>1, <2>3, <2>4 DEF ReleaseTypes
  <2>6. \A i \in Waited \ {u} : thread'[i] = thread[i]  BY <1>1, <2>1
  <2>7. thread'[u] = began /\ ~(Installed(u)')  BY <1>1, <2>1, <2>3 DEF Installed, Succeeded
  <2>8. \A i \in Updaters : updater'[i].build = updater[i].build  BY <1>1, <2>1, <2>4
  <2>9. \A i \in Waited : Installed(i)' => thread'[i] = thread[i] /\ Installed(i)
    BY <2>6, <2>7 DEF Installed, Succeeded
  <2>10. \A i \in Waited : Succeeded(i)' => thread'[i] = thread[i] /\ Succeeded(i)
    BY <2>6, <2>7 DEF Installed, Succeeded
  <2>11. \A i \in Updaters : thread'[i].step = "install" \/ Installed(i)' => is_newer(thread'[i].tag, updater'[i].build)
    <3> TAKE i \in Updaters
    <3>1. CASE i = u  BY <2>1, <2>3, <2>7, <2>8, <3>1
    <3>2. CASE i # u
      <4>1. thread'[i] = thread[i]  BY <2>6, <3>2 DEF Waited
      <4> QED  BY <2>8, <2>9, <4>1 DEF Uncrossed, Waited
    <3> QED  BY <3>1, <3>2
  <2>12. \A i \in Waited : Installed(i)' /\ ~thread'[i].crossed => disk' = thread'[i].tag
    BY <1>2, <2>9 DEF Uncrossed
  <2>13. \A i \in Waited : Succeeded(i)' /\ ~thread'[i].crossed => running' \in {NoDaemon, thread'[i].tag}
    BY <1>2, <2>10 DEF Uncrossed
  <2>14. \A i \in Updaters : ~renewed'[i].crossed =>
          /\ i # "cli" /\ renewed'[i].tag = updater'[i].build /\ disk' = updater'[i].build
          /\ is_newer(updater'[i].build, renewed'[i].from)
          /\ running' \in {NoDaemon, updater'[i].build}
    BY <1>2, <2>8 DEF Uncrossed
  <2> QED  BY <2>5, <2>11, <2>12, <2>13, <2>14 DEF Uncrossed
<1> QED  BY <1>3, <1>4
\* A thread that fails, or only asks, leaves what was installed.
LEMMA SendsNothing ==
    ASSUME ReleaseInv, NEW t \in Waited, thread[t] # NoThread, NEW result \in Results \ {Finished},
           Sends(t, result), UNCHANGED <<published, source, disk, running, updater, renewed>>
    PROVE  ReleaseInv'
<1> USE DEF ReleaseInv
<1>1. ReleaseTypes /\ ReleaseTypes'  BY SendsKeeps DEF ReleaseTypes
<1>2. /\ \A i \in Waited \ {t} : thread'[i] = thread[i]
      /\ thread'[t].step # "install" /\ ~(Installed(t)')
  BY <1>1, SendsKeeps
<1> QED  BY <1>1, <1>2, NothingInstalled

\* What herdr installs crosses what others had installed.
LEMMA StepInstalls ==
    ASSUME ReleaseInv, NEW t \in Waited, Now(t, "install"), disk' = thread[t].tag, Crossing(t),
           UNCHANGED <<published, source, running, accepted, updater>>
    PROVE  ReleaseInv'
<1> USE DEF ReleaseInv
<1>1. thread \in [Waited -> Upgrades] /\ thread[t] # NoThread  BY DEF ReleaseTypes, Now, NoThread
<1>2. thread[t] \in [step : {"tag", "install", "restart", "wait", "sent"}, tag : Builds, crossed : BOOLEAN, result : Results]
  BY <1>1 DEF Upgrades
<1> DEFINE installed == [thread[t] EXCEPT !.step = "restart"]
           crossed(i) == [thread[i] EXCEPT !.crossed = TRUE]
<1>3. installed \in Upgrades /\ installed.step = "restart" /\ installed.tag = thread[t].tag
  BY <1>2 DEF Upgrades
<1>4. ASSUME NEW i \in Waited, thread[i].step \in {"wait", "restart", "sent"}
      PROVE  crossed(i) \in Upgrades /\ crossed(i).crossed = TRUE /\ crossed(i).step # "install" /\ crossed(i).tag = thread[i].tag
             /\ crossed(i).step = thread[i].step /\ crossed(i).result = thread[i].result
  <2>1. thread[i] \in [step : {"tag", "install", "restart", "wait", "sent"}, tag : Builds, crossed : BOOLEAN, result : Results]
    BY <1>1, <1>4 DEF Upgrades, NoThread
  <2> QED  BY <1>4, <2>1 DEF Upgrades
<1> HIDE DEF installed, crossed
<1>5. /\ thread' = [i \in Waited |-> IF i = t THEN installed
                                     ELSE IF thread[i].step \in {"wait", "restart", "sent"} THEN crossed(i) ELSE thread[i]]
      /\ renewed' = [u \in Updaters |-> NotRenewed]
  BY DEF Crossing, installed, crossed
<1>6. ReleaseTypes'
  <2>1. thread' \in [Waited -> Upgrades]  BY <1>1, <1>3, <1>4, <1>5
  <2>2. renewed' \in [Updaters -> Renewals]  BY <1>5 DEF Renewals
  <2>3. disk' \in Builds  BY <1>2
  <2> QED  BY <2>1, <2>2, <2>3 DEF ReleaseTypes
<1>7. /\ thread'[t] = installed
      /\ \A i \in Waited \ {t} : \/ thread'[i] = thread[i] /\ ~Installed(i) /\ ~(Installed(i)')
                                 \/ thread'[i] = crossed(i) /\ thread[i].step \in {"wait", "restart", "sent"}
                                    /\ thread'[i].crossed = TRUE /\ (Installed(i)' <=> Installed(i))
  <2>1. thread'[t] = installed  BY <1>5
  <2>2. ASSUME NEW i \in Waited \ {t}, thread[i].step \in {"wait", "restart", "sent"}
        PROVE  thread'[i] = crossed(i) /\ thread'[i].crossed = TRUE /\ (Installed(i)' <=> Installed(i))
    BY <1>4, <1>5, <2>2 DEF Installed, Succeeded
  <2>3. ASSUME NEW i \in Waited \ {t}, thread[i].step \notin {"wait", "restart", "sent"}
        PROVE  thread'[i] = thread[i] /\ ~Installed(i) /\ ~(Installed(i)')
    BY <1>5, <2>3 DEF Installed, Succeeded
  <2> QED  BY <2>1, <2>2, <2>3
<1>8. \A u \in Updaters : thread'[u].step = "install" \/ Installed(u)' => is_newer(thread'[u].tag, updater'[u].build)
  <2> SUFFICES ASSUME NEW u \in Updaters, thread'[u].step = "install" \/ Installed(u)'
               PROVE  is_newer(thread'[u].tag, updater[u].build)
    OBVIOUS
  <2>1. u \in Waited  BY DEF Waited
  <2>2. CASE u = t  BY <1>3, <1>7, <2>2 DEF Uncrossed, Now
  <2>3. CASE u # t
    <3>1. thread'[u].tag = thread[u].tag /\ (thread[u].step = "install" \/ Installed(u))
      BY <1>4, <1>7, <2>1, <2>3
    <3> QED  BY <3>1 DEF Uncrossed
  <2> QED  BY <2>2, <2>3
<1>9. \A i \in Waited : Installed(i)' /\ ~thread'[i].crossed => disk' = thread'[i].tag
  BY <1>3, <1>7
<1>10. \A i \in Waited : Succeeded(i)' => i # t /\ thread'[i].crossed = TRUE
  <2>1. \A i \in Waited : Succeeded(i)' => Installed(i)'  BY DEF Installed
  <2>2. ~(Succeeded(t)')  BY <1>3, <1>7 DEF Succeeded
  <2> QED  BY <1>7, <2>1, <2>2
<1>11. \A u \in Updaters : renewed'[u].crossed  BY <1>5 DEF NotRenewed
<1> QED  BY <1>6, <1>8, <1>9, <1>10, <1>11 DEF Uncrossed

\* What the threads do.
LEMMA StepThreads ==
    ASSUME ReleaseInv, NEW t \in Waited,
           CheckNow(t) \/ InstallPlugin(t) \/ RestartDaemon(t) \/ ReadBuild(t) \/ DeadlinePasses(t)
    PROVE  ReleaseInv'
<1> USE DEF ReleaseInv
<1>1. thread \in [Waited -> Upgrades] /\ thread[t] # NoThread
  BY DEF ReleaseTypes, CheckNow, InstallPlugin, RestartDaemon, ReadBuild, DeadlinePasses, Now, NoThread
<1>2. thread[t] \in [step : {"tag", "install", "restart", "wait", "sent"}, tag : Builds, crossed : BOOLEAN, result : Results]
  BY <1>1 DEF Upgrades
<1>3. Failed \in Results \ {Finished} /\ Shut \in Results \ {Finished} /\ Finished \in Results
  BY DEF Results, Failed, Finished, Shut
<1>4. CASE CheckNow(t)
  <2>1. PICK reply \in Replies, said \in {source, "unknown"} :
           Sends(t, IF reply.body = "tag" THEN [view |-> "ready", tag |-> Tags[published], source |-> said] ELSE Failed)
    BY <1>4 DEF CheckNow
  <2> DEFINE result == IF reply.body = "tag" THEN [view |-> "ready", tag |-> Tags[published], source |-> said] ELSE Failed
  <2>2. Tags[published] \in Builds /\ said \in {"github", "linked", "unknown"}  BY DEF Builds, ReleaseTypes
  <2>3. result \in Results \ {Finished}  BY <1>3, <2>2 DEF Results, Ready, Finished
  <2>4. Sends(t, result)  BY <2>1
  <2>5. UNCHANGED <<published, source, disk, running, updater, renewed>>  BY <1>4 DEF CheckNow
  <2> HIDE DEF result
  <2> QED  BY <1>1, <2>3, <2>4, <2>5, SendsNothing
<1>5. CASE InstallPlugin(t)
  <2>1. CASE disk' = thread[t].tag /\ Crossing(t)  BY <1>5, <2>1, StepInstalls DEF InstallPlugin
  <2>2. CASE Sends(t, Failed) /\ UNCHANGED <<disk, renewed>>
    BY <1>1, <1>3, <1>5, <2>2, SendsNothing DEF InstallPlugin
  <2> QED  BY <1>5, <2>1, <2>2 DEF InstallPlugin
<1>6. CASE RestartDaemon(t)
  <2>1. UNCHANGED <<published, source, disk, running, updater, renewed>>  BY <1>6 DEF RestartDaemon
  <2>2. CASE Sends(t, Failed) \/ Sends(t, Shut)  BY <1>1, <1>3, <2>1, <2>2, SendsNothing
  <2>3. CASE thread' = [thread EXCEPT ![t].step = "wait"]
    <3> DEFINE waits == [thread[t] EXCEPT !.step = "wait"]
    <3>1. waits \in Upgrades /\ waits.step = "wait" /\ waits.tag = thread[t].tag /\ waits.crossed = thread[t].crossed
      BY <1>2 DEF Upgrades
    <3>2. thread' = [thread EXCEPT ![t] = waits]  BY <2>3
    <3> HIDE DEF waits
    <3>3. ReleaseTypes'  BY <1>1, <2>1, <3>1, <3>2 DEF ReleaseTypes
    <3>4. thread'[t] = waits /\ \A i \in Waited \ {t} : thread'[i] = thread[i]  BY <1>1, <3>2
    <3>5. \A i \in Waited : /\ Installed(i)' => Installed(i)
                            /\ thread'[i].step = "install" => thread[i].step = "install"
                            /\ thread'[i].tag = thread[i].tag /\ thread'[i].crossed = thread[i].crossed
                            /\ Succeeded(i)' => Succeeded(i)
      <4>1. Installed(t) /\ ~(Succeeded(t)')  BY <1>6, <3>1, <3>4 DEF RestartDaemon, Now, Installed, Succeeded
      <4> QED  BY <3>1, <3>4, <4>1 DEF Installed, Succeeded
    <3>6. Updaters \subseteq Waited  BY DEF Waited
    <3> QED  BY <2>1, <3>3, <3>5, <3>6 DEF Uncrossed
  <2> QED  BY <1>6, <2>2, <2>3 DEF RestartDaemon
<1>7. CASE ReadBuild(t)
  <2>1. /\ UNCHANGED <<published, source, disk, running, updater, renewed>> /\ Sends(t, Finished)
        /\ thread[t].step = "wait" /\ running = thread[t].tag
    BY <1>7 DEF ReadBuild, Now
  <2>2. /\ thread' \in [Waited -> Upgrades]
        /\ \A i \in Waited \ {t} : thread'[i] = thread[i]
        /\ \/ thread'[t] = NoThread
           \/ thread'[t] = [thread[t] EXCEPT !.step = "sent", !.result = Finished]
        /\ thread'[t].step # "install"
    BY <1>1, <1>3, <2>1, SendsKeeps
  <2>3. ReleaseTypes'  BY <2>1, <2>2 DEF ReleaseTypes
  <2>4. ~(thread'[t] = NoThread /\ Installed(t)')  BY DEF NoThread, Installed, Succeeded
  <2>5. thread'[t] # NoThread => thread'[t].tag = thread[t].tag /\ thread'[t].crossed = thread[t].crossed
    BY <1>2, <2>2
  <2>6. Installed(t)  BY <2>1 DEF Installed
  <2>7. \A i \in Waited : /\ Installed(i)' => /\ Installed(i)
                                              /\ thread'[i].tag = thread[i].tag /\ thread'[i].crossed = thread[i].crossed
                          /\ thread'[i].step = "install" => thread'[i] = thread[i]
                          /\ Succeeded(i)' => /\ i = t \/ Succeeded(i)
                                              /\ Installed(i)'
    BY <2>2, <2>4, <2>5, <2>6 DEF Installed, Succeeded
  <2>8. Updaters \subseteq Waited  BY DEF Waited
  <2> QED  BY <2>1, <2>3, <2>7, <2>8 DEF Uncrossed
<1>8. CASE DeadlinePasses(t)  BY <1>1, <1>3, <1>8, SendsNothing DEF DeadlinePasses
<1> QED  BY <1>4, <1>5, <1>6, <1>7, <1>8
\* What a panel does with its thread, and with the result.
LEMMA StepUpdaters ==
    ASSUME ReleaseInv, NEW u \in Updaters, ShutPanel(u) \/ ShowResult(u) \/ Renew(u)
    PROVE  ReleaseInv'
<1> USE DEF ReleaseInv
<1>1. /\ thread \in [Waited -> Upgrades] /\ updater \in [Updaters -> [build : Builds, panel : ShownPanels]]
      /\ u \in Waited /\ Left \in Waited /\ u # Left /\ Updaters \subseteq Waited
  BY UpdaterAssumption DEF ReleaseTypes, Waited
<1>2. NoThread \in Upgrades /\ NoThread.step = "none" /\ Shut \in ShownPanels
  BY DEF Upgrades, NoThread, ShownPanels, Results
<1>3. UNCHANGED <<published, source, disk, running>>  BY DEF ShutPanel, ShowResult, Renew
<1>4. ASSUME NEW panel \in ShownPanels, updater' = [updater EXCEPT ![u].panel = panel], renewed' = renewed,
             thread' = [thread EXCEPT ![u] = NoThread]
      PROVE  ReleaseInv'
  <2>1. updater' \in [Updaters -> [build : Builds, panel : ShownPanels]]
        /\ \A i \in Updaters : updater'[i].build = updater[i].build
    BY <1>1, <1>4
  <2>2. /\ thread' \in [Waited -> Upgrades] /\ thread'[u] = NoThread
        /\ \A i \in Waited \ {u} : thread'[i] = thread[i]
    BY <1>1, <1>2, <1>4
  <2>3. ReleaseTypes'  BY <1>3, <1>4, <2>1, <2>2 DEF ReleaseTypes
  <2>4. thread'[u].step # "install" /\ ~(Installed(u)')  BY <1>2, <2>2 DEF Installed, Succeeded
  <2>5. \A i \in Waited : \/ thread'[i] = thread[i] /\ (i = "cli" => updater'[i].build = updater[i].build)
                          \/ thread'[i].step # "install" /\ ~Installed(i)'
    <3> TAKE i \in Waited
    <3>1. CASE i = u  BY <2>4, <3>1
    <3>2. CASE i # u  BY <2>1, <2>2, <3>2 DEF Waited, Left
    <3> QED  BY <3>1, <3>2
  <2> QED  BY <1>3, <1>4, <2>1, <2>3, <2>5, NothingInstalled
<1>5. CASE ShutPanel(u)
  <2>1. updater' = [updater EXCEPT ![u].panel = Shut] /\ renewed' = renewed  BY <1>5 DEF ShutPanel
  <2>2. CASE thread[u].step \notin {"install", "restart"}
    BY <1>2, <1>4, <1>5, <2>1, <2>2 DEF ShutPanel
  <2>3. CASE thread[u].step \in {"install", "restart"}
    <3>1. thread' = [thread EXCEPT ![u] = NoThread, ![Left] = thread[u]]  BY <1>5, <2>3 DEF ShutPanel
    <3>2. /\ thread' \in [Waited -> Upgrades] /\ thread'[u] = NoThread /\ thread'[Left] = thread[u]
          /\ \A i \in Waited \ {u, Left} : thread'[i] = thread[i]
      BY <1>1, <1>2, <3>1
    <3>3. updater' \in [Updaters -> [build : Builds, panel : ShownPanels]]
          /\ \A i \in Updaters : updater'[i].build = updater[i].build
      BY <1>1, <1>2, <2>1
    <3>4. ReleaseTypes'  BY <1>3, <2>1, <3>2, <3>3 DEF ReleaseTypes
    <3>5. ~(Installed(u)') /\ ~(Succeeded(u)')  BY <1>2, <3>2 DEF Installed, Succeeded
    <3>6. (Installed(Left)' => Installed(u)) /\ ~(Succeeded(Left)')  BY <2>3, <3>2 DEF Installed, Succeeded
    <3>7. \A i \in Waited \ {u, Left} : (Installed(i)' => Installed(i)) /\ (Succeeded(i)' => Succeeded(i))
      BY <3>2 DEF Installed, Succeeded
    <3>8. \A i \in Updaters : thread'[i].step = "install" \/ Installed(i)' => is_newer(thread'[i].tag, updater'[i].build)
      <4> SUFFICES ASSUME NEW i \in Updaters, thread'[i].step = "install" \/ Installed(i)'
                   PROVE  is_newer(thread'[i].tag, updater'[i].build)
        OBVIOUS
      <4>1. i # u /\ i # Left  BY UpdaterAssumption, <1>2, <3>2, <3>5
      <4> QED  BY <1>1, <3>2, <3>3, <3>7, <4>1 DEF Uncrossed
    <3>9. \A i \in Waited : Installed(i)' /\ ~thread'[i].crossed => disk' = thread'[i].tag
      BY <1>1, <1>3, <3>2, <3>5, <3>6, <3>7 DEF Uncrossed
    <3>10. \A i \in Waited : Succeeded(i)' /\ ~thread'[i].crossed => running' \in {NoDaemon, thread'[i].tag}
      BY <1>3, <3>2, <3>5, <3>6, <3>7 DEF Uncrossed
    <3>11. \A i \in Updaters : ~renewed'[i].crossed =>
          /\ i # "cli" /\ renewed'[i].tag = updater'[i].build /\ disk' = updater'[i].build
          /\ is_newer(updater'[i].build, renewed'[i].from)
          /\ running' \in {NoDaemon, updater'[i].build}
      BY <1>3, <2>1, <3>3 DEF Uncrossed
    <3> QED  BY <3>4, <3>8, <3>9, <3>10, <3>11 DEF Uncrossed
  <2> QED  BY <2>2, <2>3
<1>6. CASE ShowResult(u)
  <2>1. thread[u].step = "sent"  BY <1>6 DEF ShowResult, Now
  <2>2. thread[u].result \in ShownPanels  BY <1>1, <1>2, <2>1 DEF Upgrades, ShownPanels
  <2> DEFINE panel == IF u = "cli" /\ ~upgradable(Result(u), updater[u].build) THEN Shut ELSE Result(u)
  <2>3. panel \in ShownPanels  BY <1>2, <2>2 DEF Result
  <2>4. updater' = [updater EXCEPT ![u].panel = panel] /\ renewed' = renewed /\ thread' = [thread EXCEPT ![u] = NoThread]
    BY <1>6 DEF ShowResult
  <2> HIDE DEF panel
  <2> QED  BY <1>4, <2>3, <2>4
<1>7. CASE Renew(u)
  <2> DEFINE fresh == [build |-> disk, panel |-> Shut]
             done == IF thread[u].crossed THEN NotRenewed
                     ELSE [crossed |-> FALSE, from |-> updater[u].build, tag |-> thread[u].tag]
  <2>1. /\ updater' = [updater EXCEPT ![u] = fresh] /\ thread' = [thread EXCEPT ![u] = NoThread]
        /\ renewed' = [renewed EXCEPT ![u] = done] /\ u # "cli" /\ Succeeded(u)
    BY <1>7 DEF Renew, Now, Success, Result, Succeeded
  <2>2. disk \in Builds /\ renewed \in [Updaters -> Renewals]  BY DEF ReleaseTypes
  <2>3. fresh \in [build : Builds, panel : ShownPanels] /\ fresh.build = disk  BY <1>2, <2>2
  <2>4. thread[u].tag \in Builds /\ updater[u].build \in Builds
    BY <1>1, <2>1 DEF Upgrades, Succeeded, NoThread
  <2>5. done \in Renewals /\ (~done.crossed => /\ ~thread[u].crossed /\ done.tag = thread[u].tag
                                               /\ done.from = updater[u].build)
    BY <2>4 DEF Renewals, NotRenewed
  <2>6. Installed(u) /\ is_newer(thread[u].tag, updater[u].build)  BY <2>1 DEF Installed, Uncrossed
  <2>7. ~thread[u].crossed => disk = thread[u].tag /\ running \in {NoDaemon, thread[u].tag}
    BY <1>1, <2>1, <2>6 DEF Uncrossed
  <2> HIDE DEF fresh, done
  <2>8. /\ updater'[u] = fresh /\ \A i \in Updaters \ {u} : updater'[i] = updater[i]
        /\ renewed'[u] = done /\ \A i \in Updaters \ {u} : renewed'[i] = renewed[i]
    BY <1>1, <2>1, <2>2
  <2>9. thread'[u] = NoThread /\ \A i \in Waited \ {u} : thread'[i] = thread[i]
    BY <1>1, <2>1
  <2>10. ReleaseTypes'  BY <1>1, <1>2, <1>3, <2>1, <2>2, <2>3, <2>5 DEF ReleaseTypes
  <2>11. ~(Installed(u)') /\ ~(Succeeded(u)') /\ thread'[u].step # "install"
    BY <1>2, <2>9 DEF Installed, Succeeded
  <2>12. \A i \in Waited \ {u} : (Installed(i)' => Installed(i)) /\ (Succeeded(i)' => Succeeded(i))
    BY <2>9 DEF Installed, Succeeded
  <2>13. \A i \in Updaters : thread'[i].step = "install" \/ Installed(i)' => is_newer(thread'[i].tag, updater'[i].build)
    BY <1>1, <2>8, <2>9, <2>11, <2>12 DEF Uncrossed
  <2>14. \A i \in Waited : Installed(i)' /\ ~thread'[i].crossed => disk' = thread'[i].tag
    BY <1>3, <2>9, <2>11, <2>12 DEF Uncrossed
  <2>15. \A i \in Waited : Succeeded(i)' /\ ~thread'[i].crossed => running' \in {NoDaemon, thread'[i].tag}
    BY <1>3, <2>9, <2>11, <2>12 DEF Uncrossed
  <2>16. \A i \in Updaters : ~renewed'[i].crossed =>
          /\ i # "cli" /\ renewed'[i].tag = updater'[i].build /\ disk' = updater'[i].build
          /\ is_newer(updater'[i].build, renewed'[i].from)
          /\ running' \in {NoDaemon, updater'[i].build}
    <3> SUFFICES ASSUME NEW i \in Updaters, ~renewed'[i].crossed
                 PROVE  /\ i # "cli" /\ renewed'[i].tag = updater'[i].build /\ disk = updater'[i].build
                        /\ is_newer(updater'[i].build, renewed'[i].from)
                        /\ running \in {NoDaemon, updater'[i].build}
      BY <1>3
    <3>1. CASE i = u  BY <2>1, <2>3, <2>5, <2>6, <2>7, <2>8, <3>1
    <3>2. CASE i # u  BY <2>8, <3>2 DEF Uncrossed
    <3> QED  BY <3>1, <3>2
  <2> QED  BY <2>10, <2>13, <2>14, <2>15, <2>16 DEF Uncrossed
<1> QED  BY <1>5, <1>6, <1>7

\* Every step of an upgrade, of GitHub and of the daemon.
LEMMA StepRelease ==
    ASSUME ReleaseInv, [ReleaseNext]_releaseVars
    PROVE  ReleaseInv'
<1> USE DEF ReleaseInv
<1>1. CASE Publish \/ DaemonLeaves \/ DaemonComes \/ UNCHANGED releaseVars
  <2>1. /\ UNCHANGED <<source, disk, updater, thread, renewed>> /\ published' \in {published, published + 1}
        /\ running' \in {running, NoDaemon, disk}
    BY <1>1 DEF Publish, DaemonLeaves, DaemonComes, releaseVars
  <2>2. ReleaseTypes'  BY <2>1 DEF ReleaseTypes
  <2> QED  BY <2>1, <2>2, NothingInstalled
<1>2. ASSUME NEW u \in Updaters, CheckRelease(u) \/ InstallRelease(u)
      PROVE  ReleaseInv'
  BY <1>2, StepBegins
<1>3. ASSUME NEW u \in Updaters, ShutPanel(u) \/ ShowResult(u) \/ Renew(u)
      PROVE  ReleaseInv'
  BY <1>3, StepUpdaters
<1>4. ASSUME NEW t \in Waited,
             CheckNow(t) \/ InstallPlugin(t) \/ RestartDaemon(t) \/ ReadBuild(t) \/ DeadlinePasses(t)
      PROVE  ReleaseInv'
  BY <1>4, StepThreads
<1> QED  BY <1>1, <1>2, <1>3, <1>4 DEF ReleaseNext

\* Short versions compare as the numbers they are written with.
LEMMA ShortVersions == VersionsAreNumbers
<1> DEFINE versions == UNION {[1 .. n -> {0, 9, 10}] : n \in 1 .. 3}
           weight(v) == 10000 * Part(v, 1) + 100 * Part(v, 2) + Part(v, 3)
<1>1. ASSUME NEW v \in versions
      PROVE  /\ DOMAIN v \subseteq 1 .. 3
             /\ \A i \in 1 .. 3 : Part(v, i) \in {0, 9, 10} /\ (i \notin DOMAIN v => Part(v, i) = 0)
  <2>1. PICK n \in 1 .. 3 : v \in [1 .. n -> {0, 9, 10}]  BY <1>1
  <2>2. DOMAIN v = 1 .. n  BY <2>1
  <2>3. \A i \in 1 .. n : v[i] \in {0, 9, 10}  BY <2>1
  <2> QED  BY <2>2, <2>3 DEF Part
<1>2. ASSUME NEW a \in versions, NEW b \in versions
      PROVE  is_newer(a, b) <=> weight(a) > weight(b)
  <2>1. is_newer(a, b) <=> \E i \in 1 .. 3 : /\ Part(a, i) > Part(b, i)
                                             /\ \A j \in 1 .. i - 1 : Part(a, j) = Part(b, j)
    <3>1. \A i \in 1 .. 3 : Part(a, i) > Part(b, i) => i \in DOMAIN a \cup DOMAIN b
      <4> SUFFICES ASSUME NEW i \in 1 .. 3, i \notin DOMAIN a, i \notin DOMAIN b PROVE ~(Part(a, i) > Part(b, i))
        OBVIOUS
      <4>1. Part(a, i) = 0 /\ Part(b, i) = 0  BY <1>1, <1>2
      <4> QED  BY <4>1
    <3>2. DOMAIN a \cup DOMAIN b \subseteq 1 .. 3  BY <1>1, <1>2
    <3> QED  BY <3>1, <3>2 DEF is_newer
  <2>2. /\ Part(a, 1) \in {0, 9, 10} /\ Part(a, 2) \in {0, 9, 10} /\ Part(a, 3) \in {0, 9, 10}
        /\ Part(b, 1) \in {0, 9, 10} /\ Part(b, 2) \in {0, 9, 10} /\ Part(b, 3) \in {0, 9, 10}
    BY <1>1, <1>2
  <2>3. (\E i \in 1 .. 3 : Part(a, i) > Part(b, i) /\ \A j \in 1 .. i - 1 : Part(a, j) = Part(b, j))
        <=> \/ Part(a, 1) > Part(b, 1)
            \/ Part(a, 2) > Part(b, 2) /\ Part(a, 1) = Part(b, 1)
            \/ Part(a, 3) > Part(b, 3) /\ Part(a, 1) = Part(b, 1) /\ Part(a, 2) = Part(b, 2)
    <3>1. 1 .. 3 = {1, 2, 3} /\ 1 .. 0 = {} /\ 1 .. 1 = {1} /\ 1 .. 2 = {1, 2}  OBVIOUS
    <3>2. 1 - 1 = 0 /\ 2 - 1 = 1 /\ 3 - 1 = 2  OBVIOUS
    <3> QED  BY <3>1, <3>2
  <2> QED  BY <2>1, <2>2, <2>3
<1> HIDE DEF versions, weight
<1> QED  BY <1>2 DEF VersionsAreNumbers, versions, weight
-----------------------------------------------------------------------------
(* The sidebar.                                                            *)

\* A step of the sidebar is one of the panels or leaves them, and one of an upgrade or
\* leaves it.
LEMMA PartsStep == [Next]_sidebarVars => [PanelNext]_panelVars /\ [ReleaseNext]_releaseVars
  BY DEF Next, sidebarVars

\* A save never takes back an edit of another program that was there when the save looked,
\* whatever panels and threads wrote before, and however often the file was saved
\* (settings_file.rs save_hooked, poll_keybinding).
THEOREM OthersEditsAreKept == Spec => OthersEditsKept
<1> DEFINE Kept == file'.saved < file.saved =>
                      saving.step = "rename" /\ saving.seen < file.saved /\ file'.saved = saving.seen
<1>1. Init => PanelInv  BY PanelInitInv DEF Init
<1>2. PanelInv /\ [Next]_sidebarVars => PanelInv'  BY PartsStep, StepPanels
<1>3. PanelInv /\ [Next]_sidebarVars => [Kept]_panelVars  BY PartsStep, StepKeepsEdits
<1> QED  BY <1>1, <1>2, <1>3, PTL DEF Spec, OthersEditsKept

\* Settings the sidebar wrote itself are never taken for somebody else's; versions compare as
\* their numbers do; and a sidebar that goes on after an upgrade nobody crossed is of the
\* newer build it offered, as is the daemon that answers (settings_file.rs save_hooked,
\* release.rs is_newer, wait_for_build, reexec_or_fallback).
THEOREM PanelsTellTheTruth == Spec => []PanelsAreTrue
<1>1. Init => PanelInv /\ ReleaseInv  BY PanelInitInv, ReleaseInitInv DEF Init
<1>2. PanelInv /\ ReleaseInv /\ [Next]_sidebarVars => PanelInv' /\ ReleaseInv'
  BY PartsStep, StepPanels, StepRelease
<1>3. PanelInv => OwnWritesAccepted
  <2> SUFFICES ASSUME PanelInv, saving.step = "check", file # open.source, file.saved = open.source.saved, ~dropped
               PROVE  FALSE
    BY DEF OwnWritesAccepted, Unchanged
  <2>1. open.at = "settings"  BY DEF PanelInv, SavesWhatItRead, NotSaving
  <2> QED  BY <2>1 DEF PanelInv, TextsAreCurrent, Current
<1>4. ReleaseInv => UpgradesAgree  BY DEF ReleaseInv, Uncrossed, UpgradesAgree
<1>5. PanelInv /\ ReleaseInv => PanelsAreTrue  BY <1>3, <1>4, ShortVersions DEF PanelsAreTrue
<1> QED  BY <1>1, <1>2, <1>5, PTL DEF Spec
-----------------------------------------------------------------------------
(* The list of cards: what a drawing is, and that what is acted on is in it. *)

\* A set of numbers has a least one.
LEMMA LeastOf ==
    ASSUME NEW S \in SUBSET Nat, S # {}
    PROVE  \E m \in S : \A k \in S : m <= k
<1>. DEFINE R == OpToRel(<, Nat)
<1>1. IsWellFoundedOn(R, Nat)
  BY NatLessThanWellFounded
<1>2. \A x, y \in Nat : x < y => <<x, y>> \in R
  BY DEF OpToRel
<1>. HIDE DEF R
<1>3. PICK m \in S : \A k \in S : ~(<<k, m>> \in R)
  BY <1>1, WFMin
<1>4. ASSUME NEW k \in S PROVE m <= k
  <2>1. k \in Nat /\ m \in Nat
    OBVIOUS
  <2>2. ~(k < m)
    BY <1>2, <1>3, <2>1, Zenon
  <2> QED
    BY <2>1, <2>2
<1> QED
  BY <1>4

\* Numbers from 0 on, each with the next one, are all of them.
LEMMA AllNumbers ==
    ASSUME NEW S \in SUBSET Nat, 0 \in S, \A n \in S : n + 1 \in S
    PROVE  S = Nat
<1>1. SUFFICES ASSUME Nat \ S # {} PROVE FALSE
  OBVIOUS
<1>2. PICK m \in Nat \ S : \A k \in Nat \ S : m <= k
  BY <1>1, LeastOf
<1>3. m # 0 /\ m - 1 \in S
  BY <1>2
<1> QED
  BY <1>2, <1>3

\* The elements of lesser numbers.
Lesser(S, f, r) == {q \in S : f[q] < f[r]}

\* The elements of a finite set that differ in their numbers are ranked by them.
LEMMA EveryRank ==
    ASSUME NEW S, IsFiniteSet(S), NEW f \in [S -> Nat],
           \A r, q \in S : f[r] = f[q] => r = q
    PROVE  \A k \in 0 .. Cardinality(S) - 1 : \E r \in S : Cardinality(Lesser(S, f, r)) = k
<1> DEFINE Below(r) == Lesser(S, f, r)
            Has(k) == k < Cardinality(S) => \E r \in S : Cardinality(Below(r)) = k
            T == {k \in Nat : Has(k)}
<1>1. ASSUME NEW A \in SUBSET S, A # {} PROVE \E r \in A : \A q \in A : f[r] <= f[q]
  <2>. DEFINE L == {f[q] : q \in A}
  <2>1. L \in SUBSET Nat /\ L # {}
    BY <1>1
  <2>2. PICK m \in L : \A k \in L : m <= k
    BY <2>1, LeastOf
  <2> QED
    BY <2>2
<1>2. Cardinality(S) \in Nat
  BY FS_CardinalityType
<1>3. 0 \in T
  <2>1. CASE S = {}
    BY <2>1, FS_EmptySet
  <2>2. CASE S # {}
    <3>1. PICK r \in S : \A q \in S : f[r] <= f[q]
      BY <2>2, <1>1
    <3>2. Below(r) = {}
      BY <3>1 DEF Lesser
    <3>3. Cardinality(Below(r)) = 0
      BY <3>2, FS_EmptySet
    <3> QED
      BY <3>3
  <2> QED
    BY <2>1, <2>2
<1>4. ASSUME NEW k \in T PROVE k + 1 \in T
  <2>1. SUFFICES ASSUME k + 1 < Cardinality(S) PROVE \E r \in S : Cardinality(Below(r)) = k + 1
    BY <1>4
  <2>2. PICK r \in S : Cardinality(Below(r)) = k
    BY <1>2, <1>4, <2>1
  <2>3. IsFiniteSet(Below(r)) /\ IsFiniteSet(Below(r) \cup {r}) /\ Cardinality(Below(r) \cup {r}) = k + 1
    <3>1. IsFiniteSet(Below(r))
      BY FS_Subset DEF Lesser
    <3>2. r \notin Below(r)
      BY DEF Lesser
    <3>. HIDE DEF Below
    <3> QED
      BY <2>2, <3>1, <3>2, FS_AddElement
  <2>. DEFINE Above == {q \in S : f[r] < f[q]}
  <2>4. Above # {}
    <3>1. SUFFICES ASSUME Above = {} PROVE FALSE
      OBVIOUS
    <3>2. S = Below(r) \cup {r}
      BY <3>1 DEF Lesser
    <3>3. Cardinality(S) = k + 1
      BY <2>3, <3>2
    <3>. HIDE DEF Below
    <3> QED
      BY <2>1, <3>3
  <2>5. PICK n \in Above : \A q \in Above : f[n] <= f[q]
    BY <1>1, <2>4
  <2>6. Below(n) = Below(r) \cup {r}
    BY <2>5 DEF Lesser
  <2> QED
    BY <2>3, <2>5, <2>6
<1>5. T = Nat
  <2>. HIDE DEF T
  <2>1. T \subseteq Nat
    BY DEF T
  <2> QED
    BY <1>3, <1>4, <2>1, AllNumbers
<1>6. ASSUME NEW k \in 0 .. Cardinality(S) - 1
      PROVE  \E r \in S : Cardinality(Below(r)) = k
  <2>1. k \in T /\ k < Cardinality(S)
    BY <1>2, <1>5
  <2> QED
    BY <2>1
<1> QED
  BY <1>6, Zenon

\* The k-th least of a finite set of numbers is the one with k - 1 below it.
LEMMA NthOf ==
    ASSUME NEW S \in SUBSET Nat, IsFiniteSet(S), NEW k \in 1 .. Cardinality(S)
    PROVE  Nth(S, k) \in S /\ Cardinality({m \in S : m < Nth(S, k)}) = k - 1
<1>. DEFINE f == [n \in S |-> n]
            Below(n) == {m \in S : m < n}
            Lower(n) == Lesser(S, f, n)
<1>1. f \in [S -> Nat] /\ \A r, q \in S : f[r] = f[q] => r = q
  OBVIOUS
<1>2. k - 1 \in 0 .. Cardinality(S) - 1
  BY FS_CardinalityType
<1>3. \E n \in S : Cardinality(Lower(n)) = k - 1
  <2>. HIDE DEF f
  <2>1. \A j \in 0 .. Cardinality(S) - 1 : \E r \in S : Cardinality(Lesser(S, f, r)) = j
    BY <1>1, EveryRank
  <2> QED
    BY <1>2, <2>1, Zenon
<1>4. \A n \in S : Lower(n) = Below(n)
  BY DEF Lesser
<1>5. \E n \in S : Cardinality(Below(n)) = k - 1
  <2>. HIDE DEF Lower, Below
  <2> QED
    BY <1>3, <1>4
<1> QED
  BY <1>5 DEF Nth

\* Positions in a sequence are finitely many.
LEMMA Positions ==
    ASSUME NEW s, NEW T, s \in Seq(T), NEW kept \in SUBSET DOMAIN s
    PROVE  kept \in SUBSET Nat /\ IsFiniteSet(kept) /\ Cardinality(kept) \in Nat
<1>1. DOMAIN s = 1 .. Len(s) /\ Len(s) \in Nat
  OBVIOUS
<1>2. IsFiniteSet(DOMAIN s)
  BY <1>1, FS_Interval
<1> QED
  BY <1>1, <1>2, FS_Subset, FS_CardinalityType

\* Calls and panes.
RingCalls == [id : Calls, settled : BOOLEAN]
PaneRecords == [card : Cards, idle : BOOLEAN, ring : Seq(RingCalls)]

\* What is left of a ring are calls of it, each the last of its id.
LEMMA NewestCalls ==
    ASSUME NEW ring \in Seq(RingCalls)
    PROVE  /\ Newest(ring) \in Seq(RingCalls)
           /\ \A k \in 1 .. Len(Newest(ring)) : CanonicalCall(ring, Newest(ring)[k].id) = Newest(ring)[k]
<1>. DEFINE kept == {i \in DOMAIN ring : \A j \in DOMAIN ring : ring[j].id = ring[i].id => j <= i}
            n == Cardinality(kept)
            at(k) == Nth(kept, n + 1 - k)
<1>1. kept \in SUBSET Nat /\ IsFiniteSet(kept) /\ n \in Nat
  BY Positions
<1>2. Newest(ring) = [k \in 1 .. n |-> ring[at(k)]]
  BY DEF Newest
<1>3. \A k \in 1 .. n : at(k) \in kept
  <2>. HIDE DEF kept
  <2>1. \A k \in 1 .. n : n + 1 - k \in 1 .. n
    BY <1>1
  <2> QED
    BY <1>1, <2>1, NthOf
<1>4. \A i \in kept : i \in DOMAIN ring /\ ring[i] \in RingCalls /\ CanonicalCall(ring, ring[i].id) = ring[i]
  <2> TAKE i \in kept
  <2>. DEFINE of == {j \in DOMAIN ring : ring[j].id = ring[i].id}
  <2>1. i \in of /\ \A j \in of : j <= i
    OBVIOUS
  <2>2. \A m \in of : (\A j \in of : j <= m) => m = i
    BY <2>1
  <2>3. (CHOOSE m \in of : \A j \in of : j <= m) = i
    <3>. HIDE DEF of
    <3> QED
      BY <2>1, <2>2
  <2> QED
    BY <2>3 DEF CanonicalCall
<1>. HIDE DEF kept, at
<1>5. \A k \in 1 .. n : Newest(ring)[k] = ring[at(k)]
  BY <1>2
<1>6. Newest(ring) \in Seq(RingCalls) /\ Len(Newest(ring)) = n
  <2>1. \A k \in 1 .. n : ring[at(k)] \in RingCalls
    BY <1>3, <1>4
  <2>. HIDE DEF n
  <2> QED
    BY <1>1, <1>2, <2>1
<1> QED
  BY <1>3, <1>4, <1>5, <1>6

\* Panes are of different cards.
Different(list) == \A i, j \in DOMAIN list : list[i].card = list[j].card => i = j

\* The cards that are drawn are those of panes, each once.
LEMMA VisiblePanes ==
    ASSUME panes \in Seq(PaneRecords), Different(panes)
    PROVE  /\ Visible \in Seq(PaneRecords) /\ Different(Visible)
           /\ \A k \in DOMAIN Visible : \E i \in DOMAIN panes : Visible[k] = panes[i]
<1>. DEFINE kept == {i \in DOMAIN panes : ~(hideIdle /\ panes[i].idle)}
            n == Cardinality(kept)
            at(k) == Nth(kept, k)
<1>1. kept \in SUBSET Nat /\ IsFiniteSet(kept) /\ n \in Nat /\ kept \subseteq DOMAIN panes
  BY Positions
<1>2. Visible = [k \in 1 .. n |-> panes[at(k)]]
  BY DEF Visible
<1>. HIDE DEF kept
<1>3. \A k \in 1 .. n : at(k) \in kept /\ Cardinality({m \in kept : m < at(k)}) = k - 1
  BY <1>1, NthOf
<1>4. \A j, k \in 1 .. n : at(j) = at(k) => j = k
  <2> TAKE j, k \in 1 .. n
  <2>. DEFINE under(i) == Cardinality({m \in kept : m < i})
  <2>1. under(at(j)) = j - 1 /\ under(at(k)) = k - 1
    BY <1>3
  <2>. HIDE DEF under, at
  <2>2. at(j) = at(k) => j - 1 = k - 1
    BY <2>1
  <2> QED
    BY <1>1, <2>2
<1>. HIDE DEF at, n
<1>5. \A k \in 1 .. n : at(k) \in DOMAIN panes /\ panes[at(k)] \in PaneRecords
  <2>1. \A i \in DOMAIN panes : panes[i] \in PaneRecords
    OBVIOUS
  <2> QED
    BY <1>1, <1>3, <2>1
<1>6. Visible \in Seq(PaneRecords) /\ DOMAIN Visible = 1 .. n /\ \A k \in 1 .. n : Visible[k] = panes[at(k)]
  BY <1>1, <1>2, <1>5
<1>7. Different(Visible)
  BY <1>4, <1>5, <1>6 DEF Different
<1> QED
  BY <1>5, <1>6, <1>7

\* Cards start where their heights say, and none ends after a later one.
LEMMA StartsRise ==
    ASSUME NEW heights \in Seq(Nat)
    PROVE  /\ Starts(heights) \in [DOMAIN heights -> Nat]
           /\ \A i, j \in DOMAIN heights :
                 i <= j => Starts(heights)[i] + heights[i] <= Starts(heights)[j] + heights[j]
<1>. DEFINE len == Len(heights)
            After(s, i) == IF i = 1 THEN 0 ELSE s[i - 1] + heights[i - 1] + 1
            Good(s, n) == s \in [1 .. n -> Nat] /\ \A i \in 1 .. n : s[i] = After(s, i)
            T == {n \in Nat : n <= len => \E s : Good(s, n)}
<1>1. DOMAIN heights = 1 .. len /\ len \in Nat /\ \A i \in 1 .. len : heights[i] \in Nat
  OBVIOUS
<1>2. 0 \in T
  <2>1. Good([i \in 1 .. 0 |-> 0], 0)
    OBVIOUS
  <2>. HIDE DEF Good
  <2> QED
    BY <2>1
<1>3. ASSUME NEW n \in T PROVE n + 1 \in T
  <2>1. SUFFICES ASSUME n + 1 <= len PROVE \E s : Good(s, n + 1)
    <3>. HIDE DEF Good
    <3> QED
      OBVIOUS
  <2>2. PICK s : Good(s, n)
    <3>. HIDE DEF Good
    <3> QED
      BY <1>1, <2>1
  <2>. DEFINE t == [i \in 1 .. n + 1 |-> IF i <= n THEN s[i] ELSE After(s, i)]
  <2>3. After(s, n + 1) \in Nat
    BY <1>1, <2>1, <2>2
  <2>4. t \in [1 .. n + 1 -> Nat]
    BY <2>2, <2>3
  <2>5. \A i \in 1 .. n + 1 : t[i] = After(t, i)
    BY <2>2
  <2>6. Good(t, n + 1)
    BY <2>4, <2>5
  <2> QED
    BY <2>6
<1>4. PICK s : Good(s, len)
  <2>. HIDE DEF Good
  <2>1. T \subseteq Nat
    OBVIOUS
  <2>. HIDE DEF T
  <2>2. len \in T
    BY <1>1, <1>2, <1>3, <2>1, AllNumbers
  <2> QED
    BY <1>1, <2>2 DEF T
<1>5. s = [i \in DOMAIN heights |-> After(s, i)]
  BY <1>1, <1>4
<1>6. Starts(heights) = [i \in DOMAIN heights |-> After(Starts(heights), i)]
  BY <1>5 DEF Starts
<1>. DEFINE starts == Starts(heights)
<1>. HIDE DEF starts
<1>7. \A n \in Nat : n + 1 <= len => starts[n + 1] \in Nat
  <2>. DEFINE U == {n \in Nat : n + 1 <= len => starts[n + 1] \in Nat}
  <2>1. 0 \in U
    BY <1>1, <1>6 DEF starts
  <2>2. ASSUME NEW n \in U PROVE n + 1 \in U
    <3>1. SUFFICES ASSUME (n + 1) + 1 <= len PROVE starts[(n + 1) + 1] \in Nat
      OBVIOUS
    <3>2. starts[n + 1] \in Nat /\ heights[n + 1] \in Nat
      BY <1>1, <3>1
    <3>3. (n + 1) + 1 \in DOMAIN heights /\ (n + 1) + 1 # 1 /\ ((n + 1) + 1) - 1 = n + 1
      BY <1>1, <3>1
    <3>4. starts[(n + 1) + 1] = starts[n + 1] + heights[n + 1] + 1
      BY <1>6, <3>3 DEF starts
    <3> QED
      BY <3>2, <3>4
  <2>. HIDE DEF U
  <2>3. U = Nat
    <3>1. U \subseteq Nat
      BY DEF U
    <3> QED
      BY <2>1, <2>2, <3>1, AllNumbers
  <2> QED
    BY <2>3 DEF U
<1>8. \A i \in 1 .. len : starts[i] \in Nat
  BY <1>1, <1>7
<1>9. ASSUME NEW i \in 1 .. len
      PROVE  \A n \in Nat : i + n <= len => starts[i] + heights[i] <= starts[i + n] + heights[i + n]
  <2>. DEFINE U == {n \in Nat : i + n <= len => starts[i] + heights[i] <= starts[i + n] + heights[i + n]}
  <2>1. 0 \in U
    BY <1>1, <1>8
  <2>2. ASSUME NEW n \in U PROVE n + 1 \in U
    <3>1. SUFFICES ASSUME i + n + 1 <= len
                   PROVE  starts[i] + heights[i] <= starts[i + n + 1] + heights[i + n + 1]
      OBVIOUS
    <3>2. starts[i + n + 1] = starts[i + n] + heights[i + n] + 1
      <4>1. i + n + 1 \in DOMAIN heights /\ i + n + 1 # 1 /\ (i + n + 1) - 1 = i + n
        BY <1>1, <3>1
      <4> QED
        BY <1>6, <4>1 DEF starts
    <3>3. starts[i] + heights[i] <= starts[i + n] + heights[i + n]
      BY <1>1, <3>1
    <3>4. i \in 1 .. len /\ i + n \in 1 .. len /\ i + n + 1 \in 1 .. len
      BY <1>1, <3>1
    <3>5. /\ starts[i] \in Nat /\ starts[i + n] \in Nat
          /\ heights[i] \in Nat /\ heights[i + n] \in Nat /\ heights[i + n + 1] \in Nat
      BY <1>1, <1>8, <3>4
    <3>. DEFINE si == starts[i]
                sn == starts[i + n]
                hi == heights[i]
                hn == heights[i + n]
                hm == heights[i + n + 1]
    <3>6. si + hi <= sn + hn /\ si \in Nat /\ sn \in Nat /\ hi \in Nat /\ hn \in Nat /\ hm \in Nat
      BY <3>3, <3>5
    <3>. HIDE DEF si, sn, hi, hn, hm
    <3>7. si + hi <= (sn + hn + 1) + hm
      BY <3>6
    <3> QED
      BY <3>2, <3>7 DEF si, sn, hi, hn, hm
  <2>. HIDE DEF U
  <2>3. U = Nat
    <3>1. U \subseteq Nat
      BY DEF U
    <3> QED
      BY <2>1, <2>2, <3>1, AllNumbers
  <2> QED
    BY <2>3 DEF U
<1>10. ASSUME NEW i \in DOMAIN heights, NEW j \in DOMAIN heights, i <= j
       PROVE  starts[i] + heights[i] <= starts[j] + heights[j]
  <2>1. i \in 1 .. len /\ j - i \in Nat /\ i + (j - i) = j /\ i + (j - i) <= len
    BY <1>1, <1>10
  <2> QED
    BY <1>9, <2>1
<1>11. starts \in [DOMAIN heights -> Nat]
  BY <1>1, <1>6, <1>8 DEF starts
<1> QED
  BY <1>10, <1>11 DEF starts

\* Cards and rows that are drawn, and panes that are the only ones of their cards.
SpanRecords == [card : Cards, start : Nat, height : Nat]
RowRecords == [card : Cards, id : Calls, line : Nat]

PanesTyped == panes \in Seq(PaneRecords) /\ Different(panes)

\* A drawing: no card or row of it ends below its last line, and no two rows of a card are
\* the same line.
Laid(out) ==
    /\ out.cards \in Seq(SpanRecords) /\ out.rows \subseteq RowRecords /\ out.total \in Nat
    /\ \A i \in DOMAIN out.cards :
          out.cards[i].height > 0 /\ out.cards[i].start + out.cards[i].height <= out.total
    /\ \A r \in out.rows : r.line < out.total
    /\ \A r, q \in out.rows : r.card = q.card /\ r.line = q.line => r = q

\* Each row is of a call that opens.
Opens(out) == \A r \in out.rows : CanonicalCall(RingOf(r.card), r.id).settled

\* The ring of a card that is drawn is its pane's.
LEMMA RingsOfPanes ==
    ASSUME PanesTyped
    PROVE  \A i \in DOMAIN panes : RingOf(panes[i].card) = panes[i].ring
<1>. TAKE i \in DOMAIN panes
<1>1. \A j \in DOMAIN panes : panes[j].card = panes[i].card => j = i
  BY DEF PanesTyped, Different
<1>2. (CHOOSE j \in DOMAIN panes : panes[j].card = panes[i].card) = i
  BY <1>1
<1> QED
  BY <1>2 DEF RingOf

\* The window of a card is not longer than its traces, which are calls of its ring.
LEMMA Windows ==
    ASSUME NEW p \in PaneRecords, NEW cursor, NEW focus
    PROVE  /\ Traces(p) \in Seq(RingCalls) /\ Len(Traces(p)) \in Nat
           /\ Window(p, cursor, focus) \in 0 .. Len(Traces(p))
           /\ Height(p, cursor, focus) \in Nat /\ Height(p, cursor, focus) > 0
           /\ Window(p, cursor, focus) > 0 => Body + Window(p, cursor, focus) < Height(p, cursor, focus)
           /\ \A k \in 1 .. Len(Traces(p)) : CanonicalCall(p.ring, Traces(p)[k].id) = Traces(p)[k]
<1>1. p.ring \in Seq(RingCalls)
  BY DEF PaneRecords
<1>2. CASE p.card \in it.toggled
  <2>1. Traces(p) = Newest(p.ring)
    BY <1>2 DEF Traces
  <2>2. Traces(p) \in Seq(RingCalls) /\ \A k \in 1 .. Len(Traces(p)) : CanonicalCall(p.ring, Traces(p)[k].id) = Traces(p)[k]
    BY <1>1, <2>1, NewestCalls
  <2>3. Len(Traces(p)) \in Nat
    BY <2>2
  <2>4. Window(p, cursor, focus) \in 0 .. Len(Traces(p))
    BY <2>3, CardAssumption DEF Window, Least, CardAssumption
  <2>5. Height(p, cursor, focus) \in Nat /\ Height(p, cursor, focus) > Body + Window(p, cursor, focus)
    BY <1>2, <2>3, <2>4, CardAssumption DEF Height, CardAssumption
  <2> QED
    BY <2>2, <2>3, <2>4, <2>5, CardAssumption DEF CardAssumption
<1>3. CASE p.card \notin it.toggled
  <2>1. Traces(p) = <<>> /\ Height(p, cursor, focus) = 3
    BY <1>3 DEF Traces, Height
  <2>2. Window(p, cursor, focus) = 0
    BY <2>1, CardAssumption DEF Window, Least, CardAssumption
  <2> QED
    BY <2>1, <2>2
<1> QED
  BY <1>2, <1>3

\* The heights of the cards that are drawn.
Heighted(cursor, focus) == [i \in DOMAIN Visible |-> Height(Visible[i], cursor, focus)]

\* What render returns, by its parts.
LEMMA RenderParts ==
    ASSUME PanesTyped, NEW cursor, NEW focus
    PROVE  LET out == Render(cursor, focus)
               starts == Starts(Heighted(cursor, focus))
           IN  /\ DOMAIN out.cards = DOMAIN Visible
               /\ \A i \in DOMAIN Visible :
                     out.cards[i] = [card |-> Visible[i].card, start |-> starts[i], height |-> Heighted(cursor, focus)[i]]
               /\ \A r : r \in out.rows <=>
                     \E i \in DOMAIN Visible : \E k \in 1 .. Window(Visible[i], cursor, focus) :
                        /\ Traces(Visible[i])[k].settled
                        /\ r = [card |-> Visible[i].card, id |-> Traces(Visible[i])[k].id, line |-> starts[i] + Body + k]
               /\ out.total = IF Visible = <<>> THEN (IF HiddenIdle THEN 0 ELSE 1)
                              ELSE starts[Len(Visible)] + Heighted(cursor, focus)[Len(Visible)]
  BY DEF Render, Heighted

\* A drawing is laid out soundly and every row of it opens.
LEMMA RenderLaid ==
    ASSUME PanesTyped, NEW cursor, NEW focus
    PROVE  Laid(Render(cursor, focus)) /\ Opens(Render(cursor, focus))
<1>. DEFINE out == Render(cursor, focus)
            heights == Heighted(cursor, focus)
            starts == Starts(heights)
            window(i) == Window(Visible[i], cursor, focus)
            traces(i) == Traces(Visible[i])
            Row(r, i, k) == /\ i \in DOMAIN Visible /\ k \in 1 .. window(i)
                            /\ traces(i)[k].settled
                            /\ r = [card |-> Visible[i].card, id |-> traces(i)[k].id, line |-> starts[i] + Body + k]
<1>1. /\ DOMAIN out.cards = DOMAIN Visible
      /\ \A i \in DOMAIN Visible : out.cards[i] = [card |-> Visible[i].card, start |-> starts[i], height |-> heights[i]]
      /\ \A r \in out.rows : \E i, k : Row(r, i, k)
      /\ out.total = IF Visible = <<>> THEN (IF HiddenIdle THEN 0 ELSE 1)
                     ELSE starts[Len(Visible)] + heights[Len(Visible)]
  <2>1. \A r : r \in out.rows <=>
           \E i \in DOMAIN Visible : \E k \in 1 .. window(i) :
              /\ traces(i)[k].settled
              /\ r = [card |-> Visible[i].card, id |-> traces(i)[k].id, line |-> starts[i] + Body + k]
    BY RenderParts
  <2>2. \A r \in out.rows : \E i, k : Row(r, i, k)
    <3>. HIDE DEF out, heights, starts, window, traces
    <3> QED
      BY <2>1, Zenon
  <2>3. /\ DOMAIN out.cards = DOMAIN Visible
        /\ \A i \in DOMAIN Visible : out.cards[i] = [card |-> Visible[i].card, start |-> starts[i], height |-> heights[i]]
        /\ out.total = IF Visible = <<>> THEN (IF HiddenIdle THEN 0 ELSE 1)
                       ELSE starts[Len(Visible)] + heights[Len(Visible)]
    BY RenderParts
  <2>. HIDE DEF out, heights, starts, window, traces, Row
  <2> QED
    BY <2>2, <2>3
<1>2. /\ Visible \in Seq(PaneRecords) /\ Different(Visible)
      /\ \A k \in DOMAIN Visible : \E i \in DOMAIN panes : Visible[k] = panes[i]
  BY VisiblePanes DEF PanesTyped
<1>3. \A i \in DOMAIN Visible : Visible[i] \in PaneRecords /\ Visible[i].card \in Cards
  <2>1. \A i \in DOMAIN Visible : Visible[i] \in PaneRecords
    BY <1>2
  <2> QED
    BY <2>1 DEF PaneRecords
<1>4. \A i \in DOMAIN Visible :
         /\ traces(i) \in Seq(RingCalls) /\ window(i) \in 0 .. Len(traces(i)) /\ Len(traces(i)) \in Nat
         /\ heights[i] \in Nat /\ heights[i] > 0
         /\ window(i) > 0 => Body + window(i) < heights[i]
         /\ \A k \in 1 .. Len(traces(i)) : CanonicalCall(Visible[i].ring, traces(i)[k].id) = traces(i)[k]
  BY <1>3, Windows DEF Heighted
<1>5. heights \in Seq(Nat) /\ DOMAIN heights = DOMAIN Visible
  <2>1. heights \in [1 .. Len(Visible) -> Nat] /\ Len(Visible) \in Nat /\ DOMAIN Visible = 1 .. Len(Visible)
    BY <1>2, <1>4 DEF Heighted
  <2>. HIDE DEF heights
  <2> QED
    BY <2>1
<1>6. /\ starts \in [DOMAIN Visible -> Nat]
      /\ \A i, j \in DOMAIN Visible : i <= j => starts[i] + heights[i] <= starts[j] + heights[j]
  BY <1>5, StartsRise
<1>. HIDE DEF out, heights, starts, window, traces
<1>7. out.total \in Nat /\ \A i \in DOMAIN Visible : starts[i] + heights[i] <= out.total
  <2>1. CASE Visible = <<>>
    BY <1>1, <2>1
  <2>2. CASE Visible # <<>>
    <3>1. Len(Visible) \in DOMAIN Visible /\ \A i \in DOMAIN Visible : i <= Len(Visible)
      BY <1>2, <2>2
    <3>2. out.total = starts[Len(Visible)] + heights[Len(Visible)]
      BY <1>1, <2>2
    <3> QED
      BY <1>4, <1>6, <3>1, <3>2
  <2> QED
    BY <2>1, <2>2
<1>8. out.cards \in Seq(SpanRecords) /\ DOMAIN out.cards = DOMAIN Visible
  <2>1. ASSUME NEW i \in DOMAIN Visible PROVE out.cards[i] \in SpanRecords
    <3>1. Visible[i].card \in Cards /\ starts[i] \in Nat /\ heights[i] \in Nat
      BY <1>3, <1>4, <1>6
    <3>2. out.cards[i] = [card |-> Visible[i].card, start |-> starts[i], height |-> heights[i]]
      BY <1>1
    <3> QED
      BY <3>1, <3>2 DEF SpanRecords
  <2>2. out.cards = [i \in DOMAIN Visible |-> out.cards[i]]
    BY RenderParts DEF Render, out
  <2>3. DOMAIN Visible = 1 .. Len(Visible) /\ Len(Visible) \in Nat
    BY <1>2
  <2> QED
    BY <2>1, <2>2, <2>3
<1>9. \A i \in DOMAIN out.cards : out.cards[i].height > 0 /\ out.cards[i].start + out.cards[i].height <= out.total
  <2> TAKE i \in DOMAIN out.cards
  <2>1. i \in DOMAIN Visible /\ out.cards[i].start = starts[i] /\ out.cards[i].height = heights[i]
    <3>1. i \in DOMAIN Visible
      BY <1>8
    <3>2. out.cards[i] = [card |-> Visible[i].card, start |-> starts[i], height |-> heights[i]]
      BY <1>1, <3>1
    <3> QED
      BY <3>1, <3>2
  <2> QED
    BY <1>4, <1>7, <2>1
<1>10. ASSUME NEW r, NEW i, NEW k, Row(r, i, k)
       PROVE  /\ k \in Nat /\ k <= window(i) /\ k \in 1 .. Len(traces(i)) /\ window(i) > 0
              /\ traces(i)[k] \in RingCalls
              /\ r.card = Visible[i].card /\ r.id = traces(i)[k].id /\ r.line = starts[i] + Body + k
              /\ r \in RowRecords /\ r.line < out.total
  <2>1. k \in Nat /\ k <= window(i) /\ k \in 1 .. Len(traces(i)) /\ window(i) > 0
    BY <1>4, <1>10
  <2>2. traces(i)[k] \in RingCalls /\ traces(i)[k].id \in Calls
    <3>1. traces(i) \in Seq(RingCalls)
      BY <1>4, <1>10
    <3>2. traces(i)[k] \in RingCalls
      BY <2>1, <3>1
    <3> QED
      BY <3>2 DEF RingCalls
  <2>3. starts[i] \in Nat /\ starts[i] + Body + k \in Nat
    BY <1>6, <1>10, <2>1, CardAssumption DEF CardAssumption
  <2>4. r \in RowRecords /\ r.card = Visible[i].card /\ r.id = traces(i)[k].id /\ r.line = starts[i] + Body + k
    BY <1>3, <1>10, <2>2, <2>3 DEF RowRecords
  <2>5. starts[i] + Body + k < out.total
    BY <1>4, <1>6, <1>7, <1>10, <2>1, CardAssumption DEF CardAssumption
  <2> QED
    BY <2>1, <2>2, <2>4, <2>5
<1>11. out.rows \subseteq RowRecords /\ \A r \in out.rows : r.line < out.total
  BY <1>1, <1>10
<1>12. \A r, q \in out.rows : r.card = q.card /\ r.line = q.line => r = q
  <2>1. SUFFICES ASSUME NEW r \in out.rows, NEW q \in out.rows, r.card = q.card, r.line = q.line PROVE r = q
    OBVIOUS
  <2>2. PICK i, k : Row(r, i, k)
    BY <1>1
  <2>3. PICK j, l : Row(q, j, l)
    BY <1>1
  <2>4. i = j
    BY <1>2, <1>10, <2>1, <2>2, <2>3 DEF Different
  <2>5. k = l
    <3>1. starts[i] + Body + k = starts[i] + Body + l /\ k \in Nat /\ l \in Nat /\ starts[i] \in Nat
      BY <1>6, <1>10, <2>1, <2>2, <2>3, <2>4
    <3> QED
      BY <3>1, CardAssumption DEF CardAssumption
  <2> QED
    BY <2>2, <2>3, <2>4, <2>5
<1>13. Laid(out)
  BY <1>7, <1>8, <1>9, <1>11, <1>12 DEF Laid
<1>14. Opens(out)
  <2>1. SUFFICES ASSUME NEW r \in out.rows PROVE CanonicalCall(RingOf(r.card), r.id).settled
    BY DEF Opens
  <2>2. PICK i, k : Row(r, i, k)
    BY <1>1
  <2>3. RingOf(r.card) = Visible[i].ring
    BY <1>2, <1>10, <2>2, RingsOfPanes
  <2>4. CanonicalCall(Visible[i].ring, r.id) = traces(i)[k]
    BY <1>4, <1>10, <2>2
  <2> QED
    BY <2>2, <2>3, <2>4
<1> QED
  BY <1>13, <1>14 DEF out

\* Which cards are drawn depends on neither the cursor nor the focus.
LEMMA SameCards ==
    ASSUME PanesTyped, NEW c, NEW f, NEW d, NEW g
    PROVE  /\ DOMAIN Render(c, f).cards = DOMAIN Render(d, g).cards
           /\ \A i \in DOMAIN Render(c, f).cards : Render(c, f).cards[i].card = Render(d, g).cards[i].card
<1>1. ASSUME NEW e, NEW h
      PROVE  /\ DOMAIN Render(e, h).cards = DOMAIN Visible
             /\ \A i \in DOMAIN Visible : Render(e, h).cards[i].card = Visible[i].card
  <2>1. /\ DOMAIN Render(e, h).cards = DOMAIN Visible
        /\ \A i \in DOMAIN Visible : Render(e, h).cards[i] =
              [card |-> Visible[i].card, start |-> Starts(Heighted(e, h))[i], height |-> Heighted(e, h)[i]]
    BY RenderParts
  <2>. DEFINE out == Render(e, h)
  <2>. HIDE DEF out
  <2>2. /\ DOMAIN out.cards = DOMAIN Visible
        /\ \A i \in DOMAIN Visible : out.cards[i] =
              [card |-> Visible[i].card, start |-> Starts(Heighted(e, h))[i], height |-> Heighted(e, h)[i]]
    BY <2>1 DEF out
  <2>3. ASSUME NEW i \in DOMAIN Visible PROVE out.cards[i].card = Visible[i].card
    <3>1. out.cards[i] = [card |-> Visible[i].card, start |-> Starts(Heighted(e, h))[i], height |-> Heighted(e, h)[i]]
      BY <2>2
    <3> QED
      BY <3>1
  <2> QED
    BY <2>2, <2>3 DEF out
<1> QED
  BY <1>1

\* In focus, a drawing is the same whichever row is.
LEMMA SameFocus ==
    ASSUME NEW c, NEW f, NEW g, f # NoCall, g # NoCall
    PROVE  Render(c, f) = Render(c, g)
<1>1. \A p : Window(p, c, f) = Window(p, c, g)
  BY DEF Window
<1>2. \A p : Height(p, c, f) = Height(p, c, g)
  BY <1>1 DEF Height
<1>3. Heighted(c, f) = Heighted(c, g)
  BY <1>2 DEF Heighted
<1>. DEFINE starts(h) == Starts(h)
            cards(h) == [i \in DOMAIN Visible |-> [card |-> Visible[i].card, start |-> starts(h)[i], height |-> h[i]]]
            row(h, i, k) == [card |-> Visible[i].card, id |-> Traces(Visible[i])[k].id, line |-> starts(h)[i] + Body + k]
            rows(h, e) == UNION {{row(h, i, k) : k \in {k \in 1 .. Window(Visible[i], c, e) : Traces(Visible[i])[k].settled}} :
                                   i \in DOMAIN Visible}
            total(h) == IF Visible = <<>> THEN (IF HiddenIdle THEN 0 ELSE 1) ELSE starts(h)[Len(Visible)] + h[Len(Visible)]
<1>4. \A e : Render(c, e) = [cards |-> cards(Heighted(c, e)), rows |-> rows(Heighted(c, e), e), total |-> total(Heighted(c, e))]
  BY DEF Render, Heighted
<1>5. \A h : rows(h, f) = rows(h, g)
  BY <1>1
<1>. HIDE DEF cards, rows, total
<1> QED
  BY <1>3, <1>4, <1>5

\* The rows of a card are finitely many, and each place below their number has one.
LEMMA RowsRanked ==
    ASSUME NEW out, Laid(out), NEW c
    PROVE  /\ IsFiniteSet(RowsOf(out, c)) /\ Cardinality(RowsOf(out, c)) \in Nat
           /\ \A k \in 0 .. Cardinality(RowsOf(out, c)) - 1 : RowAt(RowsOf(out, c), k) \in RowsOf(out, c)
<1>. DEFINE rows == RowsOf(out, c)
            f == [r \in rows |-> r.line]
<1>1. \A r \in rows : r \in out.rows /\ r.line \in Nat /\ r.line < out.total
  <2>1. \A r \in rows : r \in out.rows /\ r \in RowRecords /\ r.line < out.total
    BY DEF Laid, RowsOf
  <2> QED
    BY <2>1 DEF RowRecords
<1>2. \A r, q \in rows : r.line = q.line => r = q
  BY DEF Laid, RowsOf
<1>3. out.total \in Nat
  BY DEF Laid
<1>. HIDE DEF rows
<1>4. f \in [rows -> Nat] /\ f \in [rows -> 0 .. out.total] /\ \A r, q \in rows : f[r] = f[q] => r = q
  BY <1>1, <1>2, <1>3
<1>5. IsFiniteSet(rows)
  <2>1. f \in Injection(rows, 0 .. out.total)
    BY <1>4 DEF Injection, IsInjective
  <2>2. IsFiniteSet(0 .. out.total)
    BY <1>3, FS_Interval
  <2> QED
    BY <2>1, <2>2, FS_Injection
<1>6. Cardinality(rows) \in Nat
  BY <1>5, FS_CardinalityType
<1>7. ASSUME NEW k \in 0 .. Cardinality(rows) - 1 PROVE RowAt(rows, k) \in rows
  <2>1. \E r \in rows : Cardinality(Lesser(rows, f, r)) = k
    <3>. HIDE DEF f
    <3> QED
      BY <1>4, <1>5, EveryRank
  <2>2. \A r \in rows : Lesser(rows, f, r) = {q \in rows : q.line < r.line}
    BY DEF Lesser
  <2>3. \E r \in rows : Cardinality({q \in rows : q.line < r.line}) = k
    <3>. DEFINE Below(r) == {q \in rows : q.line < r.line}
    <3>1. \E r \in rows : Cardinality(Below(r)) = k
      <4>. HIDE DEF Below, f
      <4>1. \A r \in rows : Lesser(rows, f, r) = Below(r)
        BY <2>2 DEF Below
      <4> QED
        BY <2>1, <4>1
    <3> QED
      BY <3>1
  <2> QED
    BY <2>3 DEF RowAt
<1> QED
  BY <1>5, <1>6, <1>7 DEF rows

\* The place of a row is a number.
LEMMA PlacesAreNumbers ==
    ASSUME NEW out, Laid(out), NEW c, NEW id
    PROVE  PlaceIn(RowsOf(out, c), id) \in Nat
<1>. DEFINE rows == RowsOf(out, c)
            below(r) == {q \in rows : q.line < r.line}
<1>1. IsFiniteSet(rows)
  BY RowsRanked
<1>2. \A r : below(r) \subseteq rows
  OBVIOUS
<1>3. \A r : Cardinality(below(r)) \in Nat
  <2>. HIDE DEF below, rows
  <2> QED
    BY <1>1, <1>2, FS_Subset, FS_CardinalityType
<1> QED
  BY <1>3 DEF PlaceIn

\* Where a card is drawn.
LEMMA CardPlaces ==
    ASSUME NEW out, Laid(out), NEW c
    PROVE  /\ IndexOf(out, c) \in Nat \ {0} /\ CardsOf(out) \subseteq Cards
           /\ Len(out.cards) \in Nat /\ DOMAIN out.cards = 1 .. Len(out.cards)
           /\ c \in CardsOf(out) => IndexOf(out, c) \in DOMAIN out.cards /\ out.cards[IndexOf(out, c)].card = c
<1>1. out.cards \in Seq(SpanRecords) /\ DOMAIN out.cards = 1 .. Len(out.cards) /\ Len(out.cards) \in Nat
  BY DEF Laid
<1>2. \A i \in DOMAIN out.cards : out.cards[i] \in SpanRecords
  BY <1>1
<1>3. CardsOf(out) \subseteq Cards
  BY <1>2 DEF CardsOf, SpanRecords
<1>4. c \in CardsOf(out) => IndexOf(out, c) \in DOMAIN out.cards /\ out.cards[IndexOf(out, c)].card = c
  BY DEF CardsOf, IndexOf
<1>5. c \notin CardsOf(out) => IndexOf(out, c) = 1
  BY DEF IndexOf
<1> QED
  BY <1>1, <1>3, <1>4, <1>5

\* What is followed: a row or a card that is drawn, or nothing.
LEMMA FollowedSpan ==
    ASSUME NEW out, Laid(out), NEW c, NEW f
    PROVE  LET s == FollowSpan(out, c, f) IN
           /\ s.start \in Nat /\ s.height \in Nat
           /\ c \in CardsOf(out) => s # NoSpan /\ s.height > 0 /\ s.start + s.height <= out.total
<1>. DEFINE s == FollowSpan(out, c, f)
            R == {r \in RowsOf(out, c) : r.id = f}
<1>1. CASE R # {}
  <2>. DEFINE r == CHOOSE r \in RowsOf(out, c) : r.id = f
  <2>1. r \in out.rows
    BY <1>1 DEF RowsOf
  <2>2. r.line \in Nat /\ r.line < out.total /\ out.total \in Nat
    <3>1. r \in RowRecords /\ r.line < out.total /\ out.total \in Nat
      BY <2>1 DEF Laid
    <3> QED
      BY <3>1 DEF RowRecords
  <2>3. s = [start |-> r.line, height |-> 1]
    BY <1>1 DEF FollowSpan
  <2>. HIDE DEF r
  <2>4. s.start = r.line /\ s.height = 1 /\ s # NoSpan
    BY <2>3 DEF NoSpan
  <2> QED
    BY <2>2, <2>4
<1>2. CASE R = {} /\ c \in CardsOf(out)
  <2>. DEFINE i == IndexOf(out, c)
  <2>1. i \in DOMAIN out.cards
    BY <1>2, CardPlaces
  <2>2. s = [start |-> out.cards[i].start, height |-> out.cards[i].height]
    BY <1>2 DEF FollowSpan
  <2>. HIDE DEF i
  <2>3. /\ out.cards[i].start \in Nat /\ out.cards[i].height \in Nat
        /\ out.cards[i].height > 0 /\ out.cards[i].start + out.cards[i].height <= out.total
    <3>1. out.cards[i] \in SpanRecords
      BY <2>1 DEF Laid
    <3> QED
      BY <2>1, <3>1 DEF SpanRecords, Laid
  <2>4. s.start = out.cards[i].start /\ s.height = out.cards[i].height
    BY <2>2
  <2> QED
    BY <2>3, <2>4 DEF NoSpan
<1>3. CASE R = {} /\ c \notin CardsOf(out)
  <2>1. s = NoSpan
    BY <1>3 DEF FollowSpan
  <2> QED
    BY <1>3, <2>1 DEF NoSpan
<1> QED
  BY <1>1, <1>2, <1>3

\* A clamped scroll is a line of the drawing, and its last screen at most.
LEMMA Clamped ==
    ASSUME NEW offset \in Nat, NEW total \in Nat, NEW view \in Nat
    PROVE  /\ ClampScroll(offset, total, view) \in Nat
           /\ ClampScroll(offset, total, view) <= Most(total - view, 0)
           /\ ClampScroll(offset, total, view) <= offset
           /\ ClampScroll(offset, total, view) = offset \/ (total >= view /\ ClampScroll(offset, total, view) = total - view)
              \/ (total < view /\ ClampScroll(offset, total, view) = 0)
  BY DEF ClampScroll, Least, Most

\* Reanchored, the scroll is one too.
LEMMA Reanchored ==
    ASSUME NEW offset \in Nat, NEW total \in Nat, NEW view \in Nat,
           NEW old, old.start \in Nat, NEW new, new.start \in Nat
    PROVE  /\ Reanchor(offset, old, new, view, total) \in Nat
           /\ Reanchor(offset, old, new, view, total) <= Most(total - view, 0)
<1>1. Most(new.start + offset - old.start, 0) \in Nat
  BY DEF Most
<1> QED
  BY <1>1, Clamped DEF Reanchor

Inside(offset, s, view) ==
    /\ offset <= s.start /\ s.start < offset + view
    /\ s.height <= view => s.start + s.height <= offset + view

\* ensure_visible brings a span of the drawing inside of the viewport.
LEMMA Ensured ==
    ASSUME NEW offset \in Nat, NEW total \in Nat, NEW view \in Nat,
           NEW s, s.start \in Nat, s.height \in Nat
    PROVE  LET o == EnsureVisible(offset, s, view, total) IN
           /\ o \in Nat /\ o <= Most(total - view, 0)
           /\ s.height > 0 /\ s.start + s.height <= total /\ view > 0 => Inside(o, s, view)
<1>. DEFINE o == EnsureVisible(offset, s, view, total)
            most == Most(total - view, 0)
<1>1. most \in Nat /\ (total >= view => most = total - view) /\ (total < view => most = 0)
  BY DEF Most
<1>. HIDE DEF most
<1>2. CASE view = 0
  <2>1. o = 0
    BY <1>2 DEF EnsureVisible
  <2> QED
    BY <1>1, <1>2, <2>1 DEF most
<1>3. CASE view # 0 /\ s.height > view
  <2>1. o = ClampScroll(s.start, total, view)
    BY <1>3 DEF EnsureVisible
  <2>. HIDE DEF o
  <2>2. /\ o \in Nat /\ o <= most /\ o <= s.start
        /\ o = s.start \/ (total >= view /\ o = total - view) \/ (total < view /\ o = 0)
    BY <2>1, Clamped DEF most
  <2>3. s.height > 0 /\ s.start + s.height <= total /\ view > 0 => Inside(o, s, view)
    BY <1>3, <2>2 DEF Inside
  <2> QED
    BY <2>2, <2>3 DEF o, most
<1>4. CASE view # 0 /\ ~(s.height > view)
  <2>. DEFINE to == IF s.start < offset THEN s.start
                    ELSE IF s.start + s.height > offset + view THEN s.start + s.height - view
                    ELSE offset
  <2>1. o = ClampScroll(to, total, view)
    BY <1>4 DEF EnsureVisible
  <2>2. to \in Nat /\ to <= s.start /\ s.start + s.height <= to + view
    BY <1>4
  <2>. HIDE DEF to
  <2>3. /\ o \in Nat /\ o <= most /\ o <= to
        /\ o = to \/ (total >= view /\ o = total - view) \/ (total < view /\ o = 0)
    BY <2>1, <2>2, Clamped DEF most
  <2>. HIDE DEF o
  <2>4. s.height > 0 /\ s.start + s.height <= total /\ view > 0 => Inside(o, s, view)
    BY <1>4, <2>2, <2>3 DEF Inside
  <2> QED
    BY <2>3, <2>4 DEF o, most
<1> QED
  BY <1>2, <1>3, <1>4

\* The cursor of a drawing is on a card of it, if it has one.
LEMMA CursorIsDrawn ==
    ASSUME NEW out, Laid(out), NEW at \in Nat \ {0}
    PROVE  LET c == CursorOn(out, at) IN
           /\ c = NoCard <=> out.cards = <<>>
           /\ c # NoCard => c \in CardsOf(out)
<1>1. /\ CardsOf(out) \subseteq Cards /\ Len(out.cards) \in Nat /\ DOMAIN out.cards = 1 .. Len(out.cards)
      /\ out.cards \in Seq(SpanRecords)
  BY CardPlaces DEF Laid
<1>2. NoCard \notin CardsOf(out)
  BY <1>1, CardAssumption DEF CardAssumption
<1>3. CASE out.cards = <<>>
  <2>1. CardsOf(out) = {}
    BY <1>3 DEF CardsOf
  <2> QED
    BY <1>3, <2>1 DEF CursorOn
<1>4. CASE out.cards # <<>>
  <2>1. Least(at, Len(out.cards)) \in DOMAIN out.cards
    BY <1>1, <1>4 DEF Least
  <2>2. out.cards[Least(at, Len(out.cards))].card \in CardsOf(out)
    BY <2>1 DEF CardsOf
  <2>3. CursorOn(out, at) \in CardsOf(out)
    BY <1>4, <2>2 DEF CursorOn
  <2> QED
    BY <1>2, <1>4, <2>3
<1> QED
  BY <1>3, <1>4

\* The focus of a drawing is on a row of the card under the cursor, where it was.
LEMMA FocusIsDrawn ==
    ASSUME NEW out, Laid(out), Laid(shown), NEW c, FocusOn(out, c) # NoCall
    PROVE  /\ c = it.cursor /\ it.focus # NoCall
           /\ \E r \in RowsOf(out, c) : r.id = FocusOn(out, c)
<1>. DEFINE now == RowsOf(out, c)
            place == PlaceIn(RowsOf(shown, c), it.focus)
            k == Least(place, Cardinality(now) - 1)
<1>1. c = it.cursor /\ it.focus # NoCall /\ now # {}
  BY DEF FocusOn
<1>2. CASE \E r \in now : r.id = it.focus
  <2>1. FocusOn(out, c) = it.focus
    BY <1>1, <1>2 DEF FocusOn
  <2> QED
    BY <1>1, <1>2, <2>1
<1>3. CASE ~ \E r \in now : r.id = it.focus
  <2>1. FocusOn(out, c) = RowAt(now, k).id
    BY <1>1, <1>3 DEF FocusOn
  <2>2. place \in Nat
    BY PlacesAreNumbers
  <2>3. IsFiniteSet(now) /\ Cardinality(now) \in Nat /\ \A j \in 0 .. Cardinality(now) - 1 : RowAt(now, j) \in now
    BY RowsRanked
  <2>4. Cardinality(now) # 0
    BY <1>1, <2>3, FS_EmptySet
  <2>. HIDE DEF now, place
  <2>5. k \in 0 .. Cardinality(now) - 1
    BY <2>2, <2>3, <2>4 DEF Least
  <2>6. RowAt(now, k) \in now
    BY <2>3, <2>5
  <2>. HIDE DEF k
  <2>7. \E r \in now : r.id = RowAt(now, k).id
    BY <2>6
  <2> QED
    BY <1>1, <2>1, <2>7 DEF now
<1> QED
  BY <1>2, <1>3

\* What the next key or click acts on is on the screen: for an interaction of this cursor,
\* focus, offset and follow, and this drawing.
OnScreenAs(cursor, focus, offset, follow, drawn) ==
    /\ cursor = NoCard <=> drawn.cards = <<>>
    /\ cursor # NoCard => cursor \in CardsOf(drawn)
    /\ focus # NoCall => \E r \in RowsOf(drawn, cursor) : r.id = focus
    /\ Opens(drawn)
    /\ offset <= Most(drawn.total - drawn.view, 0)
    /\ follow /\ cursor # NoCard /\ drawn.view > 0 => Inside(offset, FollowSpan(drawn, cursor, focus), drawn.view)

OnScreen == OnScreenAs(it.cursor, it.focus, it.offset, it.follow, shown)

Interacts == "offset" \in DOMAIN it /\ it.offset \in Nat

\* It is, whenever the frame is not out of date; and no input is taken while it is.
CardInv ==
    /\ PanesTyped /\ Interacts /\ Laid(shown) /\ shown.view \in Nat /\ frame \in Nat
    /\ dirty \in BOOLEAN /\ (turn = "input" => dirty = FALSE) /\ (dirty = FALSE => OnScreen)

\* Cards and rows alike, two drawings show the same.
LEMMA SameDrawing ==
    ASSUME NEW out, NEW drawn, drawn.cards = out.cards, drawn.rows = out.rows, drawn.total = out.total
    PROVE  /\ \A c : RowsOf(drawn, c) = RowsOf(out, c)
           /\ CardsOf(drawn) = CardsOf(out)
           /\ \A c, f : FollowSpan(drawn, c, f) = FollowSpan(out, c, f)
           /\ Laid(out) => Laid(drawn)
           /\ Opens(out) => Opens(drawn)
<1>1. \A c : RowsOf(drawn, c) = RowsOf(out, c)
  BY DEF RowsOf
<1>2. CardsOf(drawn) = CardsOf(out)
  BY DEF CardsOf
<1>3. \A c : IndexOf(drawn, c) = IndexOf(out, c)
  BY <1>2 DEF IndexOf
<1>4. \A c, f : FollowSpan(drawn, c, f) = FollowSpan(out, c, f)
  <2>. TAKE c, f
  <2>1. RowsOf(drawn, c) = RowsOf(out, c) /\ IndexOf(drawn, c) = IndexOf(out, c) /\ drawn.cards = out.cards
    BY <1>1, <1>3
  <2> QED
    BY <1>2, <2>1, Zenon DEF FollowSpan
<1>5. Laid(out) => Laid(drawn)
  BY DEF Laid
<1>6. Opens(out) => Opens(drawn)
  BY DEF Opens
<1> QED
  BY <1>1, <1>2, <1>4, <1>5, <1>6

\* draw brings the cursor, the focus and what is followed of them onto the screen.
LEMMA DrawShows ==
    ASSUME CardInv, Draw
    PROVE  CardInv'
<1>. DEFINE seen == Render(it.cursor, it.focus)
            at == IndexOf(shown, it.cursor)
            cursor == CursorOn(seen, at)
            focus == FocusOn(seen, cursor)
            out == Render(cursor, focus)
            view == Most(frame - (IF HiddenIdle THEN 2 ELSE 1), 0)
            old == FollowSpan(shown, it.cursor, it.focus)
            new == FollowSpan(out, cursor, focus)
            offset == IF new = NoSpan THEN 0
                      ELSE IF it.follow \/ cursor # it.cursor THEN EnsureVisible(it.offset, new, view, out.total)
                      ELSE Reanchor(it.offset, IF old = NoSpan THEN new ELSE old, new, view, out.total)
            drawn == [cards |-> out.cards, rows |-> out.rows, total |-> out.total, view |-> view]
<1>1. /\ shown' = drawn
      /\ it' = [cursor |-> cursor, focus |-> focus, follow |-> it.follow,
                toggled |-> it.toggled \cap {panes[i].card : i \in DOMAIN panes}, offset |-> offset]
      /\ turn' = "input" /\ dirty' = FALSE /\ panes' = panes /\ frame' = frame
  BY DEF Draw, Reconcile, Present
<1>2. PanesTyped /\ Laid(shown) /\ it.offset \in Nat /\ frame \in Nat
  BY DEF CardInv, Interacts
<1>3. Laid(seen) /\ Laid(out) /\ Opens(out)
  BY <1>2, RenderLaid
<1>4. at \in Nat \ {0}
  BY <1>2, CardPlaces
<1>5. (cursor = NoCard <=> seen.cards = <<>>) /\ (cursor # NoCard => cursor \in CardsOf(seen))
  <2>. HIDE DEF seen, at
  <2> QED
    BY <1>3, <1>4, CursorIsDrawn
<1>6. seen.cards = <<>> <=> out.cards = <<>>
  <2>1. DOMAIN seen.cards = DOMAIN out.cards
    BY <1>2, SameCards
  <2>2. seen.cards \in Seq(SpanRecords) /\ out.cards \in Seq(SpanRecords)
    BY <1>3 DEF Laid
  <2>. HIDE DEF seen, out
  <2> QED
    BY <2>1, <2>2
<1>7. CardsOf(seen) = CardsOf(out)
  <2>1. DOMAIN seen.cards = DOMAIN out.cards /\ \A i \in DOMAIN seen.cards : seen.cards[i].card = out.cards[i].card
    BY <1>2, SameCards
  <2>. HIDE DEF seen, out
  <2> QED
    BY <2>1 DEF CardsOf
<1>8. focus # NoCall => \E r \in RowsOf(out, cursor) : r.id = focus
  <2>1. SUFFICES ASSUME focus # NoCall PROVE \E r \in RowsOf(out, cursor) : r.id = focus
    OBVIOUS
  <2>2. cursor = it.cursor /\ it.focus # NoCall /\ \E r \in RowsOf(seen, cursor) : r.id = focus
    <3>. HIDE DEF seen, cursor
    <3> QED
      BY <1>2, <1>3, <2>1, FocusIsDrawn
  <2>3. Render(cursor, focus) = Render(cursor, it.focus)
    <3>. HIDE DEF cursor, focus
    <3> QED
      BY <2>1, <2>2, SameFocus
  <2>4. seen = out
    BY <2>2, <2>3
  <2>. HIDE DEF seen, out, cursor, focus
  <2> QED
    BY <2>2, <2>4
<1>9. view \in Nat
  BY <1>2 DEF Most
<1>10. out.total \in Nat
  BY <1>3 DEF Laid
<1>11. /\ new.start \in Nat /\ new.height \in Nat
       /\ cursor \in CardsOf(out) => new # NoSpan /\ new.height > 0 /\ new.start + new.height <= out.total
  <2>. HIDE DEF out, cursor, focus
  <2> QED
    BY <1>3, FollowedSpan
<1>12. old.start \in Nat
  BY <1>2, FollowedSpan

<1>. HIDE DEF seen, at, cursor, focus, out, view, old, new
<1>14. /\ offset \in Nat /\ offset <= Most(out.total - view, 0)
       /\ it.follow /\ cursor # NoCard /\ view > 0 => Inside(offset, new, view)
  <2>1. CASE new = NoSpan
    <3>1. cursor = NoCard
      BY <1>5, <1>7, <1>11, <2>1
    <3> QED
      BY <1>9, <1>10, <2>1, <3>1 DEF Most
  <2>2. CASE new # NoSpan /\ (it.follow \/ cursor # it.cursor)
    <3>1. offset = EnsureVisible(it.offset, new, view, out.total)
      BY <2>2
    <3> QED
      BY <1>2, <1>5, <1>7, <1>9, <1>10, <1>11, <3>1, Ensured
  <2>3. CASE new # NoSpan /\ ~it.follow /\ cursor = it.cursor
    <3>. DEFINE base == IF old = NoSpan THEN new ELSE old
    <3>1. offset = Reanchor(it.offset, base, new, view, out.total)
      BY <2>3
    <3>2. base.start \in Nat
      BY <1>11, <1>12
    <3>. HIDE DEF base
    <3> QED
      BY <1>2, <1>9, <1>10, <1>11, <2>3, <3>1, <3>2, Reanchored
  <2> QED
    BY <2>1, <2>2, <2>3
<1>. HIDE DEF offset
<1>15. drawn.cards = out.cards /\ drawn.rows = out.rows /\ drawn.total = out.total /\ drawn.view = view
  OBVIOUS
<1>. HIDE DEF drawn
<1>16. /\ \A c : RowsOf(drawn, c) = RowsOf(out, c)
       /\ CardsOf(drawn) = CardsOf(out)
       /\ \A c, f : FollowSpan(drawn, c, f) = FollowSpan(out, c, f)
       /\ Laid(drawn) /\ Opens(drawn)
  BY <1>3, <1>15, SameDrawing
<1>17. OnScreenAs(cursor, focus, offset, it.follow, drawn)
  <2>1. cursor = NoCard <=> drawn.cards = <<>>
    BY <1>5, <1>6, <1>15
  <2>2. cursor # NoCard => cursor \in CardsOf(drawn)
    BY <1>5, <1>7, <1>16
  <2>3. focus # NoCall => \E r \in RowsOf(drawn, cursor) : r.id = focus
    BY <1>8, <1>16
  <2>4. offset <= Most(drawn.total - drawn.view, 0)
    BY <1>14, <1>15
  <2>5. it.follow /\ cursor # NoCard /\ drawn.view > 0 => Inside(offset, FollowSpan(drawn, cursor, focus), drawn.view)
    BY <1>14, <1>15, <1>16 DEF new
  <2> QED
    BY <1>16, <2>1, <2>2, <2>3, <2>4, <2>5 DEF OnScreenAs
<1>18. /\ it'.cursor = cursor /\ it'.focus = focus /\ it'.offset = offset /\ it'.follow = it.follow
       /\ "offset" \in DOMAIN it'
  BY <1>1
<1>19. OnScreen'
  BY <1>1, <1>17, <1>18 DEF OnScreen, OnScreenAs, Opens, RingOf
<1>20. PanesTyped' /\ Laid(shown') /\ shown'.view \in Nat /\ frame' \in Nat
  BY <1>1, <1>2, <1>9, <1>15, <1>16 DEF PanesTyped
<1> QED
  BY <1>1, <1>14, <1>18, <1>19, <1>20 DEF CardInv, Interacts, Laid

\* A sequence with an element put in, by its elements.
LEMMA Inserted ==
    ASSUME NEW S, NEW s \in Seq(S), NEW e \in S, NEW i \in 1 .. Len(s) + 1
    PROVE  /\ InsertAt(s, i, e) \in Seq(S) /\ Len(InsertAt(s, i, e)) = Len(s) + 1
           /\ \A j \in 1 .. Len(s) + 1 :
                 InsertAt(s, i, e)[j] = IF j < i THEN s[j] ELSE IF j = i THEN e ELSE s[j - 1]
<1>. DEFINE a == SubSeq(s, 1, i - 1)
            b == SubSeq(s, i, Len(s))
<1>1. Len(s) \in Nat /\ i \in Nat
  OBVIOUS
<1>2. a \in Seq(S) /\ Len(a) = i - 1 /\ \A j \in 1 .. i - 1 : a[j] = s[j]
  BY <1>1
<1>3. b \in Seq(S) /\ Len(b) = Len(s) + 1 - i /\ \A j \in 1 .. Len(s) + 1 - i : b[j] = s[i - 1 + j]
  BY <1>1
<1>4. InsertAt(s, i, e) = a \o <<e>> \o b
  BY DEF InsertAt
<1>. HIDE DEF a, b
<1>5. a \o <<e>> \in Seq(S) /\ Len(a \o <<e>>) = i /\ \A j \in 1 .. i : (a \o <<e>>)[j] = IF j < i THEN s[j] ELSE e
  BY <1>1, <1>2
<1>. DEFINE c == a \o <<e>>
<1>. HIDE DEF c
<1>6. c \in Seq(S) /\ Len(c) = i /\ \A k \in 1 .. i : c[k] = IF k < i THEN s[k] ELSE e
  BY <1>5 DEF c
<1>8. c \o b \in Seq(S) /\ Len(c \o b) = Len(s) + 1
  <2>1. c \o b \in Seq(S) /\ Len(c \o b) = Len(c) + Len(b)
    BY <1>3, <1>6, ConcatProperties
  <2> QED
    BY <1>1, <1>3, <1>6, <2>1
<1>7. ASSUME NEW j \in 1 .. Len(s) + 1
      PROVE  (c \o b)[j] = IF j < i THEN s[j] ELSE IF j = i THEN e ELSE s[j - 1]
  <2>1. CASE j <= i
    <3>1. (c \o b)[j] = c[j]
      BY <1>1, <1>3, <1>6, <2>1
    <3> QED
      BY <1>1, <1>6, <2>1, <3>1
  <2>2. CASE ~(j <= i)
    <3>1. (c \o b)[j] = b[j - i] /\ j - i \in 1 .. Len(s) + 1 - i
      BY <1>1, <1>3, <1>6, <2>2
    <3>2. b[j - i] = s[i - 1 + (j - i)] /\ i - 1 + (j - i) = j - 1
      BY <1>1, <1>3, <3>1
    <3> QED
      BY <1>1, <2>2, <3>1, <3>2
  <2> QED
    BY <2>1, <2>2, Zenon
<1> QED
  BY <1>4, <1>7, <1>8 DEF c

\* A sequence with an element taken out, by its elements.
LEMMA Removed ==
    ASSUME NEW S, NEW s \in Seq(S), NEW i \in DOMAIN s
    PROVE  /\ RemoveAt(s, i) \in Seq(S) /\ Len(RemoveAt(s, i)) = Len(s) - 1
           /\ \A j \in 1 .. Len(s) - 1 : RemoveAt(s, i)[j] = IF j < i THEN s[j] ELSE s[j + 1]
<1>. DEFINE a == SubSeq(s, 1, i - 1)
            b == SubSeq(s, i + 1, Len(s))
<1>1. Len(s) \in Nat /\ i \in 1 .. Len(s)
  OBVIOUS
<1>2. a \in Seq(S) /\ Len(a) = i - 1 /\ \A j \in 1 .. i - 1 : a[j] = s[j]
  BY <1>1
<1>3. b \in Seq(S) /\ Len(b) = Len(s) - i /\ \A j \in 1 .. Len(s) - i : b[j] = s[i + j]
  BY <1>1
<1>4. RemoveAt(s, i) = a \o b
  BY DEF RemoveAt
<1>. HIDE DEF a, b
<1>5. a \o b \in Seq(S) /\ Len(a \o b) = Len(s) - 1
  BY <1>1, <1>2, <1>3
<1>6. ASSUME NEW j \in 1 .. Len(s) - 1 PROVE (a \o b)[j] = IF j < i THEN s[j] ELSE s[j + 1]
  <2>1. CASE j < i
    BY <1>1, <1>2, <1>3, <2>1
  <2>2. CASE ~(j < i)
    <3>. DEFINE k == j - (i - 1)
    <3>1. /\ k \in 1 .. Len(s) - i /\ i + k = j + 1 /\ j - Len(a) = k
          /\ j \in 1 .. Len(a) + Len(b) /\ ~(j <= Len(a))
      <4>1. i \in Nat /\ j \in Nat /\ j >= i /\ j <= Len(s) - 1 /\ i >= 1
        BY <1>1, <2>2
      <4>2. Len(a) = i - 1 /\ Len(b) = Len(s) - i
        BY <1>2, <1>3
      <4>3. Len(s) \in Nat
        BY <1>1
      <4>. HIDE DEF k
      <4>4. k = j - (i - 1) => k \in 1 .. Len(s) - i /\ i + k = j + 1 /\ j - (i - 1) = k
        BY <4>1, <4>3
      <4>5. j \in 1 .. (i - 1) + (Len(s) - i) /\ ~(j <= i - 1)
        BY <4>1, <4>3
      <4> QED
        BY <4>2, <4>4, <4>5 DEF k
    <3>2. (a \o b)[j] = b[j - Len(a)]
      <4>1. \A m \in 1 .. Len(a) + Len(b) : (a \o b)[m] = IF m <= Len(a) THEN a[m] ELSE b[m - Len(a)]
        BY <1>2, <1>3, ConcatProperties
      <4> QED
        BY <3>1, <4>1
    <3>. HIDE DEF k
    <3>3. b[k] = s[i + k]
      BY <1>3, <3>1
    <3> QED
      BY <2>2, <3>1, <3>2, <3>3
  <2> QED
    BY <2>1, <2>2, Zenon
<1> QED
  BY <1>4, <1>5, <1>6

\* The daemon's lines leave each card one pane.
LEMMA Updated ==
    ASSUME CardInv, NEW to, Update(to), to \in Seq(PaneRecords), Different(to)
    PROVE  CardInv'
<1>1. /\ panes' = to /\ dirty' = TRUE /\ it' = it /\ shown' = shown /\ frame' = frame
      /\ turn' = turn /\ turn = "drain"
  BY DEF Update
<1> QED
  BY <1>1 DEF CardInv, Interacts, PanesTyped, Laid

\* Whatever lines arrive: panes come, go, turn idle, move and call.
LEMMA WireKeeps ==
    ASSUME CardInv, Wire
    PROVE  CardInv'
<1>1. panes \in Seq(PaneRecords) /\ Different(panes)
  BY DEF CardInv, PanesTyped
<1>2. DOMAIN panes = 1 .. Len(panes) /\ Len(panes) \in Nat /\ \A i \in DOMAIN panes : panes[i] \in PaneRecords
  BY <1>1
<1>3. ASSUME NEW c \in Cards, Bind(c) PROVE CardInv'
  <2>. DEFINE p == [card |-> c, idle |-> FALSE, ring |-> <<>>]
  <2>1. PICK i \in 1 .. Len(panes) + 1 : Update(InsertAt(panes, i, p))
    BY <1>3 DEF Bind
  <2>. DEFINE to == InsertAt(panes, i, p)
  <2>2. p \in PaneRecords /\ p.card = c /\ \A j \in DOMAIN panes : panes[j].card # c
    <3>1. <<>> \in Seq(RingCalls)
      OBVIOUS
    <3> QED
      BY <1>3, <3>1 DEF PaneRecords, Bind, Bound
  <2>. HIDE DEF p
  <2>3. /\ to \in Seq(PaneRecords) /\ Len(to) = Len(panes) + 1
        /\ \A j \in 1 .. Len(panes) + 1 : to[j] = IF j < i THEN panes[j] ELSE IF j = i THEN p ELSE panes[j - 1]
    BY <1>1, <2>2, Inserted
  <2>. HIDE DEF to
  <2>4. DOMAIN to = 1 .. Len(panes) + 1
    BY <2>3
  <2>5. ASSUME NEW j \in DOMAIN to, NEW k \in DOMAIN to, to[j].card = to[k].card PROVE j = k
    <3>1. CASE j < i /\ k < i
      BY <1>1, <1>2, <2>3, <2>4, <2>5, <3>1 DEF Different
    <3>2. CASE j > i /\ k > i
      <4>1. to[j] = panes[j - 1] /\ to[k] = panes[k - 1] /\ j - 1 \in DOMAIN panes /\ k - 1 \in DOMAIN panes
        BY <1>2, <2>3, <2>4, <3>2
      <4> QED
        BY <1>1, <1>2, <2>4, <2>5, <4>1 DEF Different
    <3>3. CASE j < i /\ k > i
      <4>1. to[j] = panes[j] /\ to[k] = panes[k - 1] /\ j \in DOMAIN panes /\ k - 1 \in DOMAIN panes
        BY <1>2, <2>3, <2>4, <3>3
      <4> QED
        BY <1>1, <1>2, <2>4, <2>5, <3>3, <4>1 DEF Different
    <3>4. CASE j > i /\ k < i
      <4>1. to[k] = panes[k] /\ to[j] = panes[j - 1] /\ k \in DOMAIN panes /\ j - 1 \in DOMAIN panes
        BY <1>2, <2>3, <2>4, <3>4
      <4> QED
        BY <1>1, <1>2, <2>4, <2>5, <3>4, <4>1 DEF Different
    <3>5. CASE j = i /\ k # i
      <4>1. to[j] = p /\ \E m \in DOMAIN panes : to[k] = panes[m]
        BY <1>2, <2>3, <2>4, <3>5
      <4> QED
        BY <2>2, <2>5, <4>1
    <3>6. CASE j # i /\ k = i
      <4>1. to[k] = p /\ \E m \in DOMAIN panes : to[j] = panes[m]
        BY <1>2, <2>3, <2>4, <3>6
      <4> QED
        BY <2>2, <2>5, <4>1
    <3> QED
      BY <2>4, <3>1, <3>2, <3>3, <3>4, <3>5, <3>6
  <2>6. Different(to)
    BY <2>5 DEF Different
  <2> QED
    BY <2>1, <2>3, <2>6, Updated DEF to
<1>4. ASSUME NEW i \in DOMAIN panes, Unbind(i) PROVE CardInv'
  <2>. DEFINE to == RemoveAt(panes, i)
  <2>1. Update(to)
    BY <1>4 DEF Unbind
  <2>2. /\ to \in Seq(PaneRecords) /\ Len(to) = Len(panes) - 1
        /\ \A j \in 1 .. Len(panes) - 1 : to[j] = IF j < i THEN panes[j] ELSE panes[j + 1]
    BY <1>1, Removed
  <2>. HIDE DEF to
  <2>3. DOMAIN to = 1 .. Len(panes) - 1
    BY <2>2
  <2>4. ASSUME NEW j \in DOMAIN to, NEW k \in DOMAIN to, to[j].card = to[k].card PROVE j = k
    <3>. DEFINE from(m) == IF m < i THEN m ELSE m + 1
    <3>1. from(j) \in DOMAIN panes /\ from(k) \in DOMAIN panes /\ to[j] = panes[from(j)] /\ to[k] = panes[from(k)]
      BY <1>2, <2>2, <2>3
    <3>2. from(j) = from(k)
      <4>. HIDE DEF from
      <4> QED
        BY <1>1, <2>4, <3>1 DEF Different
    <3> QED
      BY <1>2, <2>3, <3>2
  <2>5. Different(to)
    BY <2>4 DEF Different
  <2> QED
    BY <2>1, <2>2, <2>5, Updated
<1>5. ASSUME NEW i \in DOMAIN panes, NEW p \in PaneRecords, p.card = panes[i].card,
             Update([panes EXCEPT ![i] = p])
      PROVE  CardInv'
  <2>. DEFINE to == [panes EXCEPT ![i] = p]
  <2>1. to \in Seq(PaneRecords) /\ DOMAIN to = DOMAIN panes /\ \A j \in DOMAIN panes : to[j] = IF j = i THEN p ELSE panes[j]
    BY <1>1
  <2>. HIDE DEF to
  <2>2. \A j \in DOMAIN panes : to[j].card = panes[j].card
    BY <1>5, <2>1
  <2>3. Different(to)
    BY <1>1, <2>1, <2>2 DEF Different
  <2> QED
    BY <1>5, <2>1, <2>3, Updated DEF to
<1>6. ASSUME NEW i \in DOMAIN panes, TurnIdle(i) PROVE CardInv'
  <2>. DEFINE p == [panes[i] EXCEPT !.idle = ~@]
  <2>1. p \in PaneRecords /\ p.card = panes[i].card
    <3>1. panes[i] \in PaneRecords
      BY <1>2
    <3> QED
      BY <3>1 DEF PaneRecords
  <2>2. Update([panes EXCEPT ![i] = p])
    BY <1>6 DEF TurnIdle
  <2>. HIDE DEF p
  <2> QED
    BY <1>5, <2>1, <2>2
<1>7. ASSUME NEW i \in DOMAIN panes, NEW id \in Calls, NEW settled \in BOOLEAN, Called(i, id, settled) PROVE CardInv'
  <2>. DEFINE all == Append(panes[i].ring, [id |-> id, settled |-> settled])
              kept == IF Len(all) > RingLimit THEN Tail(all) ELSE all
              p == [panes[i] EXCEPT !.ring = kept]
  <2>1. panes[i] \in PaneRecords /\ panes[i].ring \in Seq(RingCalls)
    <3>1. panes[i] \in PaneRecords
      BY <1>2
    <3> QED
      BY <3>1 DEF PaneRecords
  <2>2. all \in Seq(RingCalls) /\ all # <<>>
    <3>1. [id |-> id, settled |-> settled] \in RingCalls
      BY DEF RingCalls
    <3>2. all \in Seq(RingCalls)
      BY <2>1, <3>1
    <3>3. all # <<>>
      BY <2>1
    <3> QED
      BY <3>2, <3>3
  <2>3. Update([panes EXCEPT ![i] = p])
    BY <1>7 DEF Called
  <2>. HIDE DEF all
  <2>4. kept \in Seq(RingCalls)
    BY <2>2
  <2>. HIDE DEF kept
  <2>5. p \in PaneRecords /\ p.card = panes[i].card
    BY <2>1, <2>4 DEF PaneRecords
  <2>. HIDE DEF p
  <2> QED
    BY <1>5, <2>3, <2>5
<1>8. ASSUME NEW i \in DOMAIN panes, Moves(i) PROVE CardInv'
  <2>. DEFINE to == [panes EXCEPT ![i] = panes[i - 1], ![i - 1] = panes[i]]
              from(m) == IF m = i THEN i - 1 ELSE IF m = i - 1 THEN i ELSE m
  <2>1. i > 1 /\ Update(to)
    BY <1>8 DEF Moves
  <2>2. /\ to \in Seq(PaneRecords) /\ DOMAIN to = DOMAIN panes
        /\ \A m \in DOMAIN panes : to[m] = panes[from(m)] /\ from(m) \in DOMAIN panes
    BY <1>1, <1>2, <2>1
  <2>. HIDE DEF to
  <2>3. ASSUME NEW j \in DOMAIN to, NEW k \in DOMAIN to, to[j].card = to[k].card PROVE j = k
    <3>1. to[j] = panes[from(j)] /\ to[k] = panes[from(k)] /\ from(j) \in DOMAIN panes /\ from(k) \in DOMAIN panes
      BY <2>2
    <3>2. from(j) = from(k)
      <4>. HIDE DEF from
      <4> QED
        BY <1>1, <2>3, <3>1 DEF Different
    <3> QED
      BY <1>2, <2>1, <2>2, <3>2
  <2>4. Different(to)
    BY <2>3 DEF Different
  <2> QED
    BY <2>1, <2>2, <2>4, Updated
<1>9. CASE \E c \in Cards : Bind(c)
  BY <1>3, <1>9
<1>10. CASE \E i \in DOMAIN panes : Unbind(i) \/ TurnIdle(i) \/ Moves(i)
  BY <1>4, <1>6, <1>8, <1>10
<1>11. CASE \E i \in DOMAIN panes, id \in Calls, settled \in BOOLEAN : Called(i, id, settled)
  BY <1>7, <1>11
<1> QED
  BY <1>9, <1>10, <1>11 DEF Wire

\* An input is taken once the frame is drawn, and the next one is drawn after it.
LEMMA Entered ==
    ASSUME CardInv, NEW next, Input(next), "offset" \in DOMAIN next, next.offset \in Nat
    PROVE  CardInv'
<1>1. /\ turn' = "drain" /\ dirty' = TRUE /\ it' = next
      /\ panes' = panes /\ shown' = shown /\ frame' = frame
  BY DEF Input
<1> QED
  BY <1>1 DEF CardInv, Interacts, PanesTyped, Laid

\* Every key and every click leaves a scroll there is.
LEMMA InputKeeps ==
    ASSUME CardInv, "offset" \in DOMAIN it, it.offset \in Nat,
           \/ \E delta \in {-1, 1} : MoveCursor(delta) \/ MoveFocus(delta)
           \/ ToggleCard \/ ToggleIdle \/ EnterTraces \/ LeaveTraces \/ OpenTrace \/ CloseTrace
           \/ \E lines \in {-1, 1} : Scroll(lines)
           \/ \E row \in 0 .. shown.view : Click(row)
    PROVE  CardInv'
<1>. DEFINE Kept(next) == "offset" \in DOMAIN next /\ next.offset \in Nat
<1>1. ASSUME NEW delta \in {-1, 1}, MoveCursor(delta) PROVE CardInv'
  <2>. DEFINE c == IF shown.cards = <<>> THEN NoCard
                   ELSE shown.cards[Step(IndexOf(shown, it.cursor), delta, Len(shown.cards))].card
              next == [it EXCEPT !.follow = TRUE, !.cursor = c]
  <2>1. Input(next)
    BY <1>1 DEF MoveCursor
  <2>. HIDE DEF c
  <2>2. Kept(next)
    OBVIOUS
  <2> QED
    BY <2>1, <2>2, Entered
<1>2. ASSUME NEW delta \in {-1, 1}, MoveFocus(delta) PROVE CardInv'
  <2>. DEFINE rows == RowsOf(shown, it.cursor)
              f == IF rows = {} THEN it.focus
                   ELSE RowAt(rows, Step(PlaceIn(rows, it.focus) + 1, delta, Cardinality(rows)) - 1).id
              next == [it EXCEPT !.follow = TRUE,
                         !.focus = IF rows = {} THEN @
                                   ELSE RowAt(rows, Step(PlaceIn(rows, it.focus) + 1, delta, Cardinality(rows)) - 1).id]
  <2>1. Input(next)
    BY <1>2 DEF MoveFocus
  <2>2. Kept(next)
    OBVIOUS
  <2>. HIDE DEF next
  <2> QED
    BY <2>1, <2>2, Entered
<1>3. ASSUME ToggleCard PROVE CardInv'
  <2>. DEFINE next == [it EXCEPT !.follow = TRUE, !.toggled = IF it.cursor = NoCard THEN @ ELSE Toggle(@, it.cursor)]
  <2>1. Input(next)
    BY <1>3 DEF ToggleCard
  <2>2. Kept(next)
    OBVIOUS
  <2>. HIDE DEF next
  <2> QED
    BY <2>1, <2>2, Entered
<1>4. ASSUME ToggleIdle PROVE CardInv'
  <2>. DEFINE next == [it EXCEPT !.follow = TRUE]
  <2>1. Input(next)
    BY <1>4 DEF ToggleIdle
  <2>2. Kept(next)
    OBVIOUS
  <2>. HIDE DEF next
  <2> QED
    BY <2>1, <2>2, Entered
<1>5. ASSUME EnterTraces PROVE CardInv'
  <2>. DEFINE ring == RingOf(it.cursor)
              f == Newest(ring)[CHOOSE k \in Selectable(ring) : \A j \in Selectable(ring) : k <= j].id
              next == [it EXCEPT !.follow = TRUE, !.focus = f]
  <2>1. Input(next)
    BY <1>5 DEF EnterTraces
  <2>. HIDE DEF f
  <2>2. Kept(next)
    OBVIOUS
  <2>. HIDE DEF next
  <2> QED
    BY <2>1, <2>2, Entered
<1>6. ASSUME LeaveTraces PROVE CardInv'
  <2>. DEFINE next == [it EXCEPT !.focus = NoCall]
  <2>1. Input(next)
    BY <1>6 DEF LeaveTraces
  <2>2. Kept(next)
    OBVIOUS
  <2>. HIDE DEF next
  <2> QED
    BY <2>1, <2>2, Entered
<1>7. ASSUME OpenTrace \/ CloseTrace PROVE CardInv'
  <2>1. Input(it)
    BY <1>7 DEF OpenTrace, CloseTrace
  <2> QED
    BY <2>1, Entered
<1>8. ASSUME NEW lines \in {-1, 1}, Scroll(lines) PROVE CardInv'
  <2>. DEFINE o == IF lines < 0 THEN Most(it.offset + lines, 0) ELSE ClampScroll(it.offset + lines, shown.total, shown.view)
  <2>1. Input(Scrolled(o))
    BY <1>8 DEF Scroll
  <2>2. o \in Nat
    <3>1. shown.total \in Nat /\ shown.view \in Nat
      BY DEF CardInv, Laid
    <3>2. CASE lines < 0
      BY <1>8, <3>2 DEF Most
    <3>3. CASE ~(lines < 0)
      <4>1. it.offset + lines \in Nat
        BY <1>8, <3>3
      <4> QED
        BY <3>1, <3>3, <4>1, Clamped
    <3> QED
      BY <3>2, <3>3
  <2>. HIDE DEF o
  <2>3. Kept(Scrolled(o))
    BY <2>2 DEF Scrolled
  <2> QED
    BY <2>1, <2>3, Entered
<1>9. ASSUME NEW row \in 0 .. shown.view, Click(row) PROVE CardInv'
  <2>1. ASSUME NEW r, Input([it EXCEPT !.cursor = r.card, !.focus = r.id, !.follow = TRUE]) PROVE CardInv'
    <3>. DEFINE next == [it EXCEPT !.cursor = r.card, !.focus = r.id, !.follow = TRUE]
    <3>1. Kept(next)
      OBVIOUS
    <3>. HIDE DEF next
    <3> QED
      BY <2>1, <3>1, Entered DEF next
  <2>2. ASSUME NEW s, Input([it EXCEPT !.cursor = s.card, !.focus = NoCall, !.follow = TRUE, !.toggled = Toggle(@, s.card)])
        PROVE CardInv'
    <3>. DEFINE next == [it EXCEPT !.cursor = s.card, !.focus = NoCall, !.follow = TRUE, !.toggled = Toggle(@, s.card)]
    <3>1. Kept(next)
      OBVIOUS
    <3>. HIDE DEF next
    <3> QED
      BY <2>2, <3>1, Entered DEF next
  <2>3. ASSUME NEW s, Input([it EXCEPT !.cursor = s.card, !.follow = FALSE, !.focus = IF it.cursor = s.card THEN @ ELSE NoCall])
        PROVE CardInv'
    <3>. DEFINE next == [it EXCEPT !.cursor = s.card, !.follow = FALSE, !.focus = IF it.cursor = s.card THEN @ ELSE NoCall]
    <3>1. Kept(next)
      OBVIOUS
    <3>. HIDE DEF next
    <3> QED
      BY <2>3, <3>1, Entered DEF next
  <2>4. \/ \E r : Input([it EXCEPT !.cursor = r.card, !.focus = r.id, !.follow = TRUE])
        \/ \E s : Input([it EXCEPT !.cursor = s.card, !.focus = NoCall, !.follow = TRUE, !.toggled = Toggle(@, s.card)])
        \/ \E s : Input([it EXCEPT !.cursor = s.card, !.follow = FALSE, !.focus = IF it.cursor = s.card THEN @ ELSE NoCall])
    BY <1>9, Zenon DEF Click
  <2> QED
    BY <2>1, <2>2, <2>3, <2>4
<1> QED
  BY <1>1, <1>2, <1>3, <1>4, <1>5, <1>6, <1>7, <1>8, <1>9

\* The sidebar starts with a frame to draw.
LEMMA CardsStart ==
    ASSUME CardInit
    PROVE  CardInv
<1>1. /\ panes = <<>> /\ it = [cursor |-> NoCard, focus |-> NoCall, toggled |-> {}, offset |-> 0, follow |-> TRUE]
      /\ shown = [cards |-> <<>>, rows |-> {}, total |-> 0, view |-> 0]
      /\ frame \in Heights /\ turn = "drain" /\ dirty = TRUE
  BY DEF CardInit
<1>2. PanesTyped
  BY <1>1 DEF PanesTyped, Different
<1>3. Laid(shown)
  <2>1. shown.cards = <<>> /\ shown.rows = {} /\ shown.total = 0
    BY <1>1
  <2> QED
    BY <2>1 DEF Laid
<1>4. Interacts /\ shown.view \in Nat
  BY <1>1 DEF Interacts
<1>5. frame \in Nat
  BY <1>1, CardAssumption DEF CardAssumption
<1> QED
  BY <1>1, <1>2, <1>3, <1>4, <1>5 DEF CardInv

\* Each step of the loop keeps it so.
LEMMA CardsStep ==
    ASSUME CardInv, CardNext
    PROVE  CardInv'
<1>1. CASE Wire
  BY <1>1, WireKeeps
<1>2. CASE Draw
  BY <1>2, DrawShows
<1>3. CASE Undrawn \/ Idles
  <2>1. /\ dirty' = dirty /\ it' = it /\ panes' = panes /\ shown' = shown /\ frame' = frame
        /\ turn' = "input" => ~dirty
    BY <1>3 DEF Undrawn, Idles
  <2>2. OnScreen => OnScreen'
    BY <2>1 DEF OnScreen, OnScreenAs, Opens, RingOf
  <2>3. dirty' \in BOOLEAN /\ (turn' = "input" => dirty' = FALSE) /\ (dirty' = FALSE => OnScreen')
    BY <2>1, <2>2 DEF CardInv
  <2> QED
    BY <2>1, <2>3 DEF CardInv, Interacts, PanesTyped, Laid
<1>4. CASE Resize
  <2>1. /\ frame' \in Nat /\ turn' = "drain" /\ dirty' = TRUE
        /\ it' = it /\ panes' = panes /\ shown' = shown
    BY <1>4, CardAssumption DEF Resize, CardAssumption
  <2> QED
    BY <2>1 DEF CardInv, Interacts, PanesTyped, Laid
<1>5. "offset" \in DOMAIN it /\ it.offset \in Nat
  BY DEF CardInv, Interacts
<1> QED
  BY <1>1, <1>2, <1>3, <1>4, <1>5, InputKeeps DEF CardNext

\* What the next key or click acts on is on the screen, for every set of cards and calls, every
\* ring, every height of the terminal and however long the daemon and the operator go on.
THEOREM FocusStaysShown == Spec => []FocusIsShown
<1>1. Init => CardInv
  BY CardsStart DEF Init
<1>2. CardInv /\ [Next]_sidebarVars => CardInv'
  <2>1. SUFFICES ASSUME CardInv, [Next]_sidebarVars PROVE CardInv'
    OBVIOUS
  <2>2. CASE part = "cards" /\ CardNext
    BY <2>1, <2>2, CardsStep
  <2>3. CASE UNCHANGED cardVars
    BY <2>1, <2>3 DEF CardInv, Interacts, PanesTyped, Laid, OnScreen, OnScreenAs, Opens, RingOf, cardVars
  <2> QED
    BY <2>1, <2>2, <2>3 DEF Next, sidebarVars
<1>3. CardInv => FocusIsShown
  BY DEF CardInv, OnScreen, OnScreenAs, Opens, Inside, FocusIsShown
<1> QED
  BY <1>1, <1>2, <1>3, PTL DEF Spec
=============================================================================
