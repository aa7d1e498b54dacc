# Verification of herdr-agent-watcher

herdr is a terminal multiplexer; herdr-agent-watcher is its plugin that watches
the coding agents running in herdr's panes. A daemon finds out which agent
session each pane runs, tails the session's status file and transcript, keeps
one telemetry card per pane, tells herdr when an agent needs its operator, and
streams the cards to sidebars. This directory holds TLA+ models of the program,
TLC configurations that check them, and TLAPS proofs of most of their safety
properties. Everything is translated from the source (`src/src/` from the root of the
repository's tree); `PROJECT.json` maps each definition to the lines it stands
for. The map covers 30% of all lines the repository has under `src/src/`, of
which almost half are tests; of the program proper it covers more than half.

Contents: [1 the system](#1-the-system) -
[2 modules, runs, bounds](#2-modules-runs-and-bounds) -
[3 fairness](#3-fairness) - [4 proofs](#4-proofs) -
[5 where code and documents disagree](#5-where-code-and-documents-disagree) -
[6 what is not modelled](#6-what-is-not-modelled) - [7 plan](#7-plan)

## 1 The system

```
 agents' processes, hooks, plugin --- transcripts, status, index files ---> locators
      |  status-path request                                                   |
      v                                                                        v
 bridge routes <-- bind/unbind -- reconcile loop -- starts/stops --> watcher, tail, decoder
                                   ^    |   |                            | events
                       herdr: pane list |   +-- notification watcher     v
                                        |          |            sink --> telemetry store
     consent, sweep, singleton lock ----+          v                     | bounded channels
                                          herdr: notify                  v
                                                            state server (a worker each)
                                                                         | socket, JSON lines
                                                                         v
   settings, Herdr's config <-- panels -- sidebar: stream thread -> interface thread
```

| component (source) | state | what makes it correct | module |
|---|---|---|---|
| telemetry store, state server, stream (`daemon/store.rs`, `state_server.rs`, `sidebar/state_stream.rs`, `reducer.rs`) | cards, `seq`, subscribers, workers; a sidebar's cards and last number | the screen is a state the daemon had and ends up the present one; shutdown ends | `TelemetryFeed`, `CardFeed` |
| a pane's card (`store.rs`, `sink.rs`) | calls in flight, ring, summary, titles | each call counted once over replays and restarts | `TranscriptReplay` |
| reconcile loop, routes, sidecar (`daemon/run.rs`, `routes.rs`, `agents/sidecar.rs`) | bindings; sessions and refusals | binding, card, route and watcher are of one session | `PaneBinding` |
| watcher, transcript state (`agent/adapter/base/`) | handles, callback, poll, gate, tail | no tail without a watcher, no deadlock among joins | `WatcherTranscript` |
| tail service (`transcript_tail_service.rs`) | buffer, skip mode, replay or live | each whole line once, in order | `TailService` |
| decoders (`claude_code`, `codex`, `kimi`, `opencode`, `agent/reply.rs`, `review.rs`) | phase, calls, titles, answers | history and news give the same card | `*Decoder`, `Replay`, `TranscriptReplay` |
| notifications (`agent/notification.rs`) | registrations, cursors, worker, timer | one notification per turn, in its own words, for bound panes | `Notifications` |
| locators (`codex/locator.rs`, `session_index.rs`, `kimi/locator.rs`, `opencode/locator.rs`) | candidates, chosen session, wires | a pane is shown from its own process's session | `CodexLocator`, `KimiSession`, `OpenCodeIndex` |
| OpenCode plugin (`opencode/plugin/*.ts`) | texts, roles, directories | no user text is written, the index is current | `OpenCodeIndex` |
| status readers (`statusline.rs`, `*/parser.rs`) | model, context, limits | what is shown is what was last said | `StatusReaders` |
| scripts and test runs (`codex/transcript.rs`, `test_runners/`) | - | what is claimed to run runs, what is counted was printed | `ExecScript`, `TestRuns` |
| singleton (`daemon/singleton.rs`) | lock, control socket | one daemon, never none | `Singleton` |
| sweep (`daemon/prune.rs`) | directories | nothing in use is deleted | `Sweep` |
| Kimi's consent and usage (`daemon/consent.rs`, `kimi_usage_consent.rs`) | file, memory, fetches | the key is sent only with consent | `KimiUsage` |
| session detection (`agent/detector.rs`) | process tree | the outermost agent of the pane | `Detector` |
| installs (`agents/claude_bridge.rs`, `bridge_settings.rs`, `keybinding.rs`, `opencode/install.rs`) | the operator's files, records | only our entries change; a crash can be undone | `ClaudeBridge`, `Keybinding`, `Overlay` |
| doctor (`agents/doctor.rs`) | none; asks the daemon | names why a pane's metrics are missing | `Doctor` |
| sidebar (`sidebar/tui.rs` and what it calls) | cursor, focus, panels, threads, settings file | keys act on what is shown; saves lose nothing; panels stop waiting | `SidebarCards`, `SidebarPanels` |
| releases (`sidebar/release.rs`) | installed version, daemon's build | what goes on after an upgrade is of one build | `Release` |
| rendering (`sidebar/view.rs`, `bars.rs`, `format.rs`, `dialog.rs`) | - | no line exceeds its width, gauges and names tell | `CardView` |

How they interact, and where it is hard:

* **Threads.** The main loop performs starts and stops one after the other.
  Beside it run, per session, the file watcher's callback, a poll thread and a
  tail thread (Kimi: a supervisor with a thread per wire); the notification
  worker with its callback and timer; per sidebar connection a worker; the sweeper;
  and in a sidebar a thread per question a panel asks.
* **Joins.** A stop joins the poll thread, the tail thread and (on macOS,
  through the drop of the FSEvents watcher) the callback. On Linux dropping the
  inotify watcher does not wait for a callback that is running.
* **Files others write.** Transcripts grow while they are read, are replaced and
  cut off; settings and Herdr's configuration belong to the operator, who saves
  them at any time; directories are swept while sessions write into them.
* **Limits.** A subscriber's channel holds 256 updates; a full one drops the
  subscriber. A socket write times out after half a second. The tail's buffer is
  capped at 4 MiB, the ring of a card's calls and the notification worker's queue
  are bounded.
* **Failures.** Daemons stop, are taken over and crash; commands are killed
  between two writes; binds fail and stops panic, and the next pass retries.
* **Stale knowledge.** Sequence numbers start again with each daemon; a status
  path is answered at one time and written to at another; a file is compared in
  one read and used from another; a panel edits the text it read when it opened.

`PROJECT.json` lists these as hazards, each at its line, with the properties
that cover it.

## 2 Modules, runs and bounds

Each module models one component or one protocol between components. Parts that
share no state are composed by a variable `part` that says which of them a
behaviour is about (`Host`, `Locators`, `Sidebar`): one run checks them all, and
their state spaces add instead of multiplying. `MC*` gives constants whose values
a .cfg cannot write; `*Proofs` proves theorems. Operators whose comment begins
with "Mutant" are plausible bugs in the operator that follows them; nothing uses
them, but putting one in place of the real definition makes TLC report the
property it is listed with in `PROJECT.json`.

| run | module | states | what it shows |
|---|---|---|---|
| `telemetry_feed` | `TelemetryFeed` | 396,325 | `ViewIsConsistent`, `SubscribedMeansCurrent`, `NeverGoesBack`, `CardFeedSpec` (refinement), `Converges`, `WindsDown` |
| `watcher` | `WatcherTranscript` | 27,457 | `OneTail`, `NoZombieWhereJoined`, `NeverOlder`, `CallCompletes` |
| `pane_binding` | `PaneBinding` | 654,995 | `RestIsWhole`, `OneWatcher`, `Settles`; no deadlock |
| `tail_service` | `TailService` | 904,918 | `Framing`, `LiveIsNew`, `Unblocks` |
| `transcript_replay` | `MCTranscriptReplay` | 3.6 million | `ReplayEqualsLive`, `OnceOnly`, `RecoveryAgrees` |
| `notifications` | `MCNotifications` | 434,104 | `ToldRight`, `ServedWhileBound`, `EveryLineRead` |
| `host` | `MCHost` | 883,000 | `HandedOver`, `SweptWasQuiet`, `ConsentIsHeard`, `UsageIsAsked`, `OutermostAttached`, `InstallsAreClean`, `KeyKept` |
| `locators` | `MCLocators` | 1.1 million | `OwnSession`, `OneSummary`, `CatchesUp`, `ReadAsWritten`, `IndexIsCurrent`, `AnswersOnly` |
| `sidebar` | `MCSidebar` | 1.05 million | `FocusIsShown`, `PanelsAreTrue`, `DrawnRight`, `OthersEditsKept`, `PanelsSettle` |
| `watcher_zombie`, `consent_crossed`, `settings_put_back` | | | expected violations, [section 5](#5-where-code-and-documents-disagree) |

### TelemetryFeed (and CardFeed): from the store to the screen

State: the daemon's life and store (`up`, `panes`, `seq`, `subs`), each
connection (`chan`, `worker`, `outgoing`, `wire`), each stream thread (`link`,
`gone`, `inbox`) and each interface (`ui`, `view`, `lastSeq`, `lost`). `past` and
`shown` are history variables: every state the store had, and the one on screen.
A card is the number of the write that made it, so that two cards are equal just
if they are the same write.

`Commit` is every change of a card, with `Broadcast` in it as in the code;
`SetAgent`, `ReplaceSession`, `Record`, `Remove` are its callers with their
guards. `Accept` to `Unsubscribe` are one server worker, `ReadLine`, `ReadEnd`,
`Resubscribe` the stream thread, `Apply` and `GiveUp` the interface thread.
`Stop`/`Exit` is an orderly shutdown (which joins the workers), `Crash` a kill
that may leave a cut-off line in a socket. After the shutdown flag is set the
accept loop takes no further connection, but a worker it has spawned still
subscribes and serves. `CardFeed` is the abstract promise: a
sidebar shows a past state and only moves forward.

Run `telemetry_feed` (396,325 states) checks

* `ViewIsConsistent`: the cards on the screen are one state the store had - the
  property a lost, repeated or mixed-up delta breaks;
* `SubscribedMeansCurrent`: with the subscription intact and nothing on its way,
  the screen is the store;
* `NeverGoesBack`: time on the screen moves forward, over daemon restarts too,
  where sequence numbers do not;
* `CardFeedSpec`: the refinement;
* `Converges`: a sidebar that stays open under a daemon that stays up ends up
  current; `WindsDown`: a stop completes, and a closed sidebar is unregistered.

Bounds: two panes, one sidebar, a channel of two, a socket of two lines, an event
channel of two, five states of the store. Two panes and a channel of two let one
update be lost with others on both sides of it; five states allow a snapshot,
a full channel, the overflow, and a restart behind it. Sidebars share
nothing but the store's subscriber set, in which each has its own entry, so one
is enough for TLC; the proofs are for any number.
The sidebar's event channel is unbounded in the code: bounding it in the
model only delays the reader.

### WatcherTranscript: restarts and stops of one session's watcher

State: `step` is the position of the main thread in a start or a stop;
`registered` and `leaving` are handles; `notify`, `alive`, `claimed`, `owns`,
`polling` are the handles' flags and threads; `job` is what each status reader
(inline, callback, poll) carries to `start_or_replace`; `gate` the session's start gate;
`tail`, `ending` the running tail and those still winding down. Start is
`Spawn, Quiesce, InlineRead, StartPoll, Insert` and the drop of the displaced
handle; stop is `Remove` and the drop of the owner, which goes on to `StopTail`.
`Arrives`, `Displaced`, `AlreadyRunning`, `Replace`, `TailStarts`, `TailFails`
are `start_or_replace` with its alive check under the gate. `joined`, chosen at the
start, says whether dropping a watcher waits for its callback: on macOS it does, on
Linux it does not.

Run `watcher` (two handles, 27,457 states): `OneTail` (a claimed transcript keeps its
tail when a displaced handle is dropped, and two tails run side by side only while a
restart drops one), `NoZombieWhereJoined` (after the last stop no tail runs),
`NeverOlder` (no older handle takes the transcript back), `CallCompletes` (every start
and stop returns: no join waits for a thread that waits for the gate). Two paths
suffice to tell a replacement from an adoption. Two handles are a start, a restart and
stops; a third one was explored while the module was written (149,580 states on Linux)
and showed nothing else.

### PaneBinding: one pane in the reconcile loop

State: what herdr lists (`listed`), the loop (`step`, `plan`, `bound`), what a
binding consists of (`card`, `watcher`, `route`), the `refusal`, the status file
and the callback reading it (`file`, `reading`), and each session's status-line
process (`writer`, `against`). `SeesUnbind`, `SeesRebind`, `SeesBind` are
`Bindings::diff`; `StopWatcher` to `BindRoute` the steps of unbind, rebind and
bind with their failures; `Ask` to `WriteStatus` the request a process makes, which
`BridgeRoutes::resolve` serves under several locks in turn. Panes share nothing
but the loop that serves them one after the other, so one pane is modelled.

Run `pane_binding` (two sessions an adapter takes, one that none takes, 654,995
states): `RestIsWhole` (between passes everything is of one session), `OneWatcher`
(a watcher is started only where there is none), `Settles` (once the report
stays, the loop reaches it). Two adopted sessions allow a rebind and the return
to the old one.

Two behaviours of the code show in this model without contradicting a document.
A session without a transcript is not seeded, so the new watcher's first read
puts the old session's status on the fresh card (`sidecar.rs:70`). And after a
stop that panicked the pane is bound without a watcher until the retry; if herdr
reports the old session again before that, the loop sees nothing to do and the
watcher stays missing, which is why `AsReported` and `RestIsWhole` allow it.

### TailService: framing a growing file

The file is a sequence of characters told apart by what the loop does with them
(line break, text, blank, invalid UTF-8). `upto`, `pos`, `partial` are positions:
read from the file, gone through, where the buffered part of a line begins.
`lines` is what the decoder got, with the range of each line and whether it was
announced as live; `boundary` and `cuts` are history. `LineEnds` and `ChunkEnds`
are the two branches of `process_chunk`, `Eof`, `ReadError` and `Watchdog` those
of the loop around it.

Run `tail_service` (904,918 states): `Framing` (the decoder got, in order, exactly
the lines that are not too long, blank or invalid, whatever chunks they came in),
`LiveIsNew` (nothing that began in the replay is announced as live), `Unblocks`
(an unfinished line does not hold up the decoder for ever). That the buffer keeps its
cap is part of the theorem `TypeCorrect`. A cap of two, chunks of up to three and five characters
put lines shorter, as long as and longer than the cap across every chunk boundary.


### Decoders and the pane's card: TranscriptReplay

`ClaudeDecoder` (transcript and hook stream), `CodexDecoder`, `KimiDecoder` and
`OpenCodeDecoder` have an operator per kind of line: from the decoder's state to its
next state with the events it sends in `out`. `Replay` is what they share: until the
end of the file, calls, phase and test run are folded into a summary, afterwards each
is sent at once; it also finds the reply and review blocks in an answer. `TranscriptReplay`
has what each event does to a pane's entry in the store (calls in flight, the ring of
recent ones, the precedence of working directories) and puts the parts together: an agent
that appends lines, tails that read them one after the other, the old one winding down
while its successor starts, and `Live`, the decoder and card that had seen every line as
news. A line that is too long or no UTF-8 (`Broken`) is dropped by the tail and by the
scan that recovers answers.

Run `transcript_replay`, every file of three lines over the lines an agent
writes, two tails, all five sources:

* `ReplayEqualsLive`: once the tail is live at the end of its file, with no older one
  beside it, the card is the one `Live` has, wherever history ended;
* `OnceOnly`: no call is counted twice and no answer is said twice while tails
  overlap. It is about as many calls as a summary names: an older one that is
  delivered late, behind a newer tail's summary, is counted again (`store.rs:315`);
* `RecoveryAgrees`: reading the file for an answer that herdr asks again for finds
  exactly the answers a live tail sends.

A ring of one and three lines reach the overflow. Of each agent the run takes the six to
nine kinds of line that change the card; of the first lines, one may be broken. Left out of them are two that were found to tell
history from news, with no document that says which is meant: a second `session_meta` of
another session in one rollout begins a new card only when it is replayed, and Kimi's
answers in a turn that no user began are sent live and not recovered. Only the
transcript's working directory is compared, since herdr's comes by another way.

### Notifications

`Notifications` classifies a line of each agent, keeps a turn's state (what was asked,
answered, and already told), and is the service: registrations (`regs`, with
their cursor and generation), the worker that starts on demand, leaves when nothing is
registered and may be replaced while it leaves, its bounded queue, the file watcher's
callback, the reconciliation of every tick, OpenCode's delayed idle, and Kimi's
registration that owns the pane's tail. The daemon's loop is the only caller of bind
and unbind, as in the code, so that a generation never mismatches there.

Run `notifications` (two panes; three lines, two for Claude; one bind, three for Kimi;
a queue of one): `ToldRight` (a turn is told once, whatever the reads fall into, with
its own text; but each of Claude's failures is told, the turn being known or not), `ServedWhileBound` (a bound pane is registered with a worker that runs,
an unbound one has no tail), `EveryLineRead` (no line stays unread, although the file
watcher drops a change or follows a file the sweep has removed). A registration starts
at the end of its file, so lines between an old tail's stop and a new tail's first
read are history and are never told; `ToldRight` is about lines that were read.

### Host: what surrounds the daemon's loop

* `Singleton`: `at` is how far each claimant is between its request, its wait, the lock
  and the socket. Time goes by in ticks: what the code does at once or within its
  polling happens before the next tick. `HandedOver`: the control socket is the lock
  holder's, and unless it was stopped or died, a daemon runs or is about to, whoever
  asks, waits or gives up. `ShutdownFits` is the assumption the
  comment at `singleton.rs:12` states: a shutdown (4.36 s) takes less than the timeout
  (8 s). Four claimants: two rivals, their successor and one after a crash. A claimant
  that asks while the holder is between lock and socket is refused and leaves; after an
  error in the listener the daemon goes on and nobody can take over.
* `Sweep`: two sweepers go through a session's directory file by file while its status
  line and hooks write. `SweptWasQuiet`: what is deleted was not written within the
  retention, but for what was written behind the look (`raced`).
* `KimiUsage`: the consent's file, its two reads by the reloader, the flag in memory,
  the count of settled turns and the fetch with its two checks. `ConsentIsHeard` and
  `UsageIsAsked`; `consent_crossed` is the interleaving the first one excludes.
* `Detector`: the walk under a pane's shell and the question to each process, one by
  one, while processes fork, exec and exit. `OutermostAttached` is about walks during
  which nothing changed, of which each step's outcome is the code's.
* `ClaudeBridge`, `Keybinding`, `Overlay`: commands that edit files which are not the
  plugin's, killed at any step, failing at any write, with the operator's saves
  anywhere between. `InstallsAreClean`: what the operator wrote stays (`OperatorsKept`,
  `KeyKept`), each record undoes what it says (`Undoable`), a file in use is whole
  (`WholeWhenUsed`), and the setting names the key that is bound (`KeyAgrees`).
  `KeyKept` promises a key after a change that failed only if going back did not fail too
  (`disturbed`), which takes one failure where a record is torn or cannot be removed
  (`keybinding.rs:739`): it then refuses the old key (`:369`). Removing a record after a
  failed `bind`, or for a configuration that is gone, may fail without notice (`:436`, `:717`).
* `Doctor`: one Claude pane's state in the daemon, the settings tiers of its directory,
  its status line as it runs, and the report. `LossIsNamed` (in `InstallsAreClean`):
  if nothing came of the status line of a pane the daemon follows, the report neither
  says wait nor reporting, unless the doctor's own question cleared the refusal. The
  panes are 1 and 10, because a command line is searched for a pane's name as a prefix.

### Locators: how a session is found and read

* `CodexLocator`: the databases, open files and the resume argument are asked one after
  the other while Codex opens another rollout and writes rows late. The
  module also has the poll of the index of titles, started with the watcher.
* `OwnSession` says, agent by agent, which session a pane may be bound to.
  * Codex (`CodexTakes`, over each step that binds): the newest of the rollouts its
    process had open when it was asked; otherwise one it has had open or was started
    with. Another process's rollout is taken only as a guess (`Guess`): the log named no
    thread, and no rollout of the process itself stands among the recent rows (unless
    that one is of another directory and what is taken is of the pane's) or, in a scan, among the files of the directory.
  * Kimi (`KimiTakes`, over each step in which the supervisor takes up a session): the
    reported session and no other; without a report one the process has had open, or
    one of the pane's directory or bucket. Where the start of the process is known, such
    a session is the process's own, or one that another process began after that start
    (less the slack) or resumed within the window after it, and only while no session of
    its own is known to be closer to the start. What an earlier run left never binds. A
    neighbour's new session may, until the pane's own is indexed, and also later when the
    pane's own began later than the neighbour's ([section 5](#5-where-code-and-documents-disagree)).
  * OpenCode (`OpenCodeOwn`): a pane whose declared session had a file is never shown
    from another pane's server; after a restart of the daemon the seeded row has the
    shell's process.
* `KimiSession`: the sessions' files, written by the pane's process and by others, the
  search, the supervisor, a thread per wire, and the barrier before the joint summary.
  Time has 5 moments with the process's start at the third, so that sessions begin before,
  within the slack (1), within the window after the start (1) and behind it; two of the
  three sessions are the process's, all are of the pane's directory or the one above it. `OneSummary`: no thread's calls are missing
  from it and none of another session runs on. `CatchesUp`: titles and newer wires are
  followed in the end.
* `OpenCodeIndex`: both sides of the index, the plugin that writes it and the locator. `IndexIsCurrent`,
  `AnswersOnly` (no text of the user's is written, and no older one of an answer).
* `StatusReaders`, `ExecScript`, `TestRuns`: pure readers checked over all inputs of a
  small alphabet (`ReadAsWritten`): a report's fold says what its last lines said, a
  gauge adds up, the command, directory and patch read of a script are those its
  statements pass (where they can be known), a command taken for a test run is one, and
  its counts are those printed. The limits (`MAX_ITERATIONS` 8, `MAX_GROUPS` 500) are
  3, so that they are reached.

### Sidebar: keys, panels, releases, lines

* `SidebarCards`: the daemon's lines change the panes between frames; a key or a click
  means what the last frame showed. `FocusIsShown`: cursor, focused row and viewport
  are on the screen when the next key comes. Two cards, two calls, heights of 4 and 9.
* `SidebarPanels`: settings (their file with other programs' saves, look, temporary and
  rename; the file may be missing or unreadable when the panel opens), key, bridges, doctor and update with their threads. `OthersEditsKept`,
  `PanelsSettle` (a panel stops waiting, also when its thread dies),
  `OwnWritesAccepted`. The daemon's settings are a set (`Settings`), each with a ladder of
  values: the run `sidebar` has one of the two, because both exceed its time,
  `settings_put_back` has both, and the theorems hold for any set.
* `Release`: a sidebar and the update command ask and install at once; herdr restarts
  the daemon later, from what is installed then. `UpgradesAgree`: what a success leaves
  is of one build, the offered one, unless another upgrade crossed it. Versions 0.9,
  0.10 and 0.10.1 tell numbers from text.
* `CardView`: every line at widths around each threshold, with wide and narrow texts.
  `DrawnRight`: no line exceeds its width, a gauge tells its percentage, and no two
  places are drawn under the same name.

### How they compose

`PaneBinding`'s `StartWatcher` and `StopWatcher` are the calls `WatcherTranscript`
takes apart; `WatcherTranscript`'s `TailStarts` starts the thread `TailService` is
about; the lines it delivers are what `TranscriptReplay`'s `ReadChunk` reads, in any
portion; each event `record_all` puts on the card is a `Commit` of `TelemetryFeed`, whose view is what
`SidebarCards` draws. `PaneBinding`'s bind and unbind are `Notifications`' calls, its
adapters ask the locators, and its route answers `Doctor` and the status lines. The
modules are checked apart, because each abstracts the others' data; where one relies on
another's property, that property is checked there (`TranscriptReplay` on `Framing` and
`OneTail`, `SidebarCards` on `ViewIsConsistent`).

## 3 Fairness

* `TelemetryFeed!Fairness`: threads run (weak fairness per sidebar of its
  worker, its stream thread and its interface), and a daemon told to stop exits
  when its workers have. Nothing makes a daemon start, a card change or a sidebar
  open. Writes to a full socket may fail but need not. With a socket of one line a
  reader that keeps up could still be dropped each time, so the bound is two.
* `WatcherTranscript!FairSpec`: the steps of a call in progress and of a job are
  weakly fair, those that take the start gate strongly: it is a mutex held for bounded
  times, and whoever competes for it (a callback per debounce interval, a poll per
  period) leaves it free in between. Threads reach their stop flags.
* `PaneBinding!FairSpec`: the loop goes on. `Seed`, `StartWatcher` and
  `RemoveRoute`, the steps that may fail instead, are strongly fair: each pass
  retries, and `Settles` is about failures that end.
* `TailService!FairSpec`: the loop runs and time passes. No fairness makes a read
  succeed, so `Unblocks` covers a file that can no longer be read.
* `Notifications`: the worker takes its turns, time passes (the tick of the daemon's
  loop and the three seconds of an idle), a call in progress goes on. Nothing makes the
  agent write or the file watcher notice.
* `KimiUsage`: the loop reloads, the session polls, a fetch and a command that has
  begun end. `Locators`: the pollers of titles and of wires go on.
* `Sidebar`: a save proceeds, a thread ends, the loop polls. That a thread ends assumes
  that herdr's command line returns: `.output()` waits for it without a timeout.

`Singleton` needs no fairness: its time-outs are part of the ticks, and what it
promises is an invariant.

Deadlock is not checked where the system may really stop or the model's bounds
end it: bounded histories, handles, files, commands, and a tail that has been stopped
at the end of its file. It is checked in `pane_binding`.

## 4 Proofs

All theorems are about `Spec` and for every value of the constants that satisfies
the modules' assumptions. These say no more than the code does: capacities and caps are
positive (`FeedAssumption`, `TailAssumption`, `WatcherAssumption`,
`NotificationAssumption`), a ladder of settings is not empty (`RungAssumption`), the sessions an adapter takes or a process owns are sessions
(`BindingAssumption`, `RolloutAssumption`, `KimiAssumption`, `SafeAssumption`,
`OwnerAssumption`), the rollouts are finitely many and Kimi's slack is shorter than the time
before the process's start (the same assumptions), and the value that stands for none is none of them
(`ClaimantAssumption`, `UpdaterAssumption`); there is a key to bind (`KeyAssumption`); a line of
the operator's is not the script's own, which `enable` would take for installed
(`LineAssumption`), no hook event has the name the model gives to hooks that are absent
(`EventAssumption`), and a pane is its number, by its digits (`PaneAssumption`); cards' heights are numbers
(`CardAssumption`), the processes are finitely many and none is 0 (`ShellAssumption`), and each agent writes its own types of lines (`TypesAssumption`).
One is about time: `ShutdownFits`, the
inequality `singleton.rs:12` states in its comment, on which `HandedOver` depends: without
it a daemon could still be leaving when those that asked it to have given up.

Each proof module has the same shape: the inductive invariant as named conjuncts, a lemma
that it holds initially, a lemma per conjunct with a step per action, and the theorems.

**TelemetryFeedProofs.** Theorems: `TypeCorrect`, `ViewConsistency`,
`SubscribedIsCurrent`, `ReconnectionIsProven`, `NoStepBack`, `ImplementsCardFeed`.
`ViewIsConsistent` alone is not inductive: it says nothing about lines on their
way. The idea is to take the screen as if it were a snapshot line and to put it
in front of the event channel, the socket, the line being written and the
subscriber channel. This one sequence, `Feed(s)`, is *whole*: each line tells
the truth about the history, each delta stands behind the line it continues, and
stamps do not decrease. It also ends with the store's present state as long as
the subscription is intact. Every action appends to the sequence, cuts its end,
drops an element or folds the first two into one, and a lemma about sequences
covers each of these. `IInv` adds the types, the stages of a connection, and that
each announcement of a reconnection stands in front of its proof. The refinement
then takes the screen's position in the history as the abstract state.

**PaneBindingProofs.** Theorems: `TypeCorrect`, `PaneIsWhole`, `NoSecondWatcher`.
The invariant says of each step of a pass which session the card, the watcher and
the route are of (`Resting`, `Unbinding`, `Binding`), and that a request
is only refused against a bound session.

**TailServiceProofs.** Theorems: `TypeCorrect`, `FramingIsExact`,
`ReplayStaysReplay`. `Framing` does not say where the line being read began. The
invariant adds it (`Open`): the buffer begins at a line start and no line begins
inside it; in skip mode, some line start lies more than the cap behind, so that
whatever comes next is too long. `Behind` places the decoded lines and
the boundary before the buffer.

**WatcherTranscriptProofs.** Theorems: `TypeCorrect`, `TailIsOne`, `NoZombieAfterJoin`,
`NoOlderTail`, for any number of restarts and paths. The properties speak of tails; what
keeps them is who may still bring a path to the gate. The invariant says which handles
exist at each step of a call (`Stages`), which of their readers may run (`Readers`), that a
displaced handle is refused at the gate (`Refused`), whose callback may be under way
where drops wait for it (`Callbacks`), who may be behind the gate and what the tail is
meanwhile (`Gated`, `NewestGated`), and that a claim stands for a tail (`Claims`).

**HostProofs.** `TakeoverIsSafe`, for any number of claimants. `HandedOver` only
says that somebody is there; `Patience` says why: whoever leaves on request is outlasted,
by the ticks its shutdown may still take, by one that asked it to, so that somebody still
waits when the lock is let go. `OneHolder` says that the places with the lock are the
holder's, and that only a daemon that serves and was not told to leave listens.
`ConsentIsRespected`: between the reloader's two reads what it saw is what the file is,
or the file changed (`crossed`), and the rest of `ConsentInv` follows what it saw into
the memory and to the bars. `SweptIsQuiet`: while anybody removes what was there when it
looked, everything in the directory is older than the retention, or a write came behind
the look. `UsedIsWhole` is `WholeWhenUsed`, a part of `InstallsAreClean`: a launch
has made the files it is past, with the settings that name them last, and a plugin about to
be renamed is whole. `KeyIsAgreed` (`KeyAgrees`, another part) and `KeyIsKept` (`KeyKept`)
are about the key in Herdr's configuration. A command is a plan of operations that each may fail, so
the invariant goes by the operation and the place in it: what is prepared (`Planned`), that
what is about to be written has the operator's own part of what is there (`Theirs`), that a
block is only added where there is none and behind its record (`Blocks`), and which key is
bound while a change is under way or goes back (`Agrees`). `SucceedsKeeps` and
`FailsKeeps` carry it over the end of any operation, the others over each step within one.
`InstallCanBeUndone` is `OperatorsKept` and `Undoable`. The invariant follows an enable or
disable from its look at the settings to the rename: while the record is the command's own
(`Recorded`), our line is not yet, or no longer, where the record may be missing (`LineOurs`),
nor are our hooks (`HooksOurs`); what is about to be written has the operator's line and hooks,
as long as the command does not notice a save and none fell blind (`TheirsInNew`); and the
scripts' line is the record's (`Chain`). What adding and removing entries does to a table of
hooks are the lemmas `OursAdded` and `OursRemoved`. `LossHasItsName` is `LossIsNamed`: a render
that came to nothing keeps its reason, in the tiers, the flags or the daemon's memory, until it
is forgotten or anything changes (`LostInVain`), which needs that a pane has one Claude
(`OneEach`). With these two, `UsedIsWhole` and `KeyIsAgreed`, `InstallsStayClean` states
`InstallsAreClean` as a whole. `OutermostIsAttached` is `OutermostAttached`, for every finite
process table: as long as no process comes or goes (`Searching`), what was listed has all its
ancestors listed before it, the stack holds what was found and not yet listed, and what was passed
over runs no agent. That no process is under one that it started (`UnderRanked`) is an invariant
of the table: there are ranks that rise from parent to child (`Ranked`). `Under` is the least set
with a process and the children of its members, so that induction along the tree is
`UnderLeast`.

**LocatorsProofs.** `PanesShowTheirOwn` is `OwnSession` by its three conjuncts, the first two
about steps. For Codex the invariant adds what an attempt knows (`Sound`): one that read open
files can only bind one of them or give up, and what the log named the process has had open;
of finitely many files some are newest. For Kimi it adds where the evidence of the search comes
from (`WorldInv`): whoever began or resumed a session is known, and what was remembered of a
resumption is of the process's own or of a rival's, and no newer than the oldest line the log still
has. A session of the process that the files tell of is then among those compared (`VisibleIsOwn`),
so that none taken in its place is farther from the start; that of several candidates one is
closest, and of those one deepest, is `SomeIsBest`, from `LeastOf`. For OpenCode it adds that a row with an agent's own
process is of its server's session, and that a pane whose declared session had a file has a
row of its own behind the point where it was first seen (`HasRow`). `SummaryIsWhole`: as
long as threads replay, the coordinator waits for as many as there are and counts only
those (`ThreadsInv`), which needs that the threads are finitely many. `IndexNamesDirectory`
and `OnlyAnswers`: the plugin's memory is what it was told in this turn (`PluginInv`).

**NotificationsProofs.** `PanesAreServed`. A worker may leave between a call's look and its
send; what the bounded queue can hold at each step of the loop's call is `Conversation`:
changes only, or the one command of this call among them, unless the worker is gone, and
then it is empty. `TailsAreBound` and `ServiceTails` say whose a tail is while a call is
under way. How many changes wait, and how far each file was read, do not matter to it.

`TellsRight` is `ToldRight`, for every sequence of lines and every way to cut it into reads.
What holds of the source is an invariant of its own (`SourceInv`): turns do not decrease from
line to line, a start or a second `task_complete` comes with a new one, and a stop has an answer
behind it. `Reports` then says of each registration that it is what its lines made of a fresh
one. That a turn is told once does not follow from what was told alone: the invariant adds which
turns the registration may still tell of (`Later`, in `Fresh`): no line not yet read is of an
earlier turn than those told, and an open turn, a held-back idle status and a line that starts or
completes a turn are of later ones; what is open or held back is of the turn of the line read
last (`Current`). That
the cuts do not matter (`AnyReads`) relates two registrations, one that reads now and one that
read everything at once (`Rel`): they are equal, or OpenCode's delayed idle was already settled
in the one and is still held back in the other (`Ahead`). Each half of a line keeps the
relation; `Bindings` adds that a registration begins where its source ends. `scan_source` is
recursive in the number of lines; no prover here can instantiate the library's induction
theorems, so induction over numbers is stated for sets: `LeastOf` (a set of numbers has a least
one, from the well-foundedness of `<`) and `AllNumbers`, `EveryHalf` from it. `classify` is taken
apart once per agent (`ClassifiedCodex` and the others); which agents' lines can be what is
all that is assumed (`TypesAssumption`).

**SidebarProofs.** `OthersEditsAreKept`: which text a panel's `source` can be taken for.
`TextsAreCurrent` says that it is the file's unless others saved since, where an answer that
waits to be polled carries the newer text (`Under`); `Questions` that a question has one thread or one
answer, so that no other answer is polled in its place; `SavesWhatItRead` relates a save in
progress to it. `PanelsTellTheTruth`: what an upgrade installed stays until another
crosses it (`Uncrossed`), from the thread that installs to the daemon that answers; that
`is_newer` compares short versions as their numbers is the lemma `ShortVersions`.
`FocusStaysShown` is `FocusIsShown` for any number of cards and calls and any heights. `CardInv`
says what each function of a frame promises the next one: the daemon's lines leave a
list of cards without repetition (`PanesTyped`), a frame lays out a card after the other, each as
high as its body and its window of traces (`Laid`), the cursor and the focused row are looked up
in what was laid out (`Interacts`), and the offset is moved last. Where a card starts is a recursive function of its place (`Starts`); that starts
rise with the places (`StartsRise`) is proved by a least place at which they do not.

Not proved, and checked by TLC only:

* all liveness properties (`Converges`, `WindsDown`, `CallCompletes`, `Settles`,
  `Unblocks`, `EveryLineRead`, `UsageIsAsked`, `CatchesUp`, `PanelsSettle`), which
  the prover has no rules for under fairness;
* what folds over data compute (`ReplayEqualsLive`, `OnceOnly`, `RecoveryAgrees`,
  `ReadAsWritten`, `DrawnRight`): they would
  need induction over a transcript, a script or a text.

## 5 Where code and documents disagree

Each of these runs checks one property that a document or comment states, and
TLC finds a behaviour of the code that breaks it. `PROJECT.json` quotes the lines.

| run | statement | what the code does |
|---|---|---|
| `watcher_zombie` | `transcript_state.rs:688`: the gate in `stop` leaves no zombie | a removed handle's alive token stays set, and on Linux its callback may start a tail after the stop |
| `consent_crossed` | `consent.rs:3`: reloads the consent, "including revocation by deletion" | the file is compared in one read and loaded from another; a consent given between them and taken back before the next turn is remembered as given |
| `settings_put_back` | `tui.rs:838`: if a value was saved, putting it back puts the file back | saving with `s` clears the list of changed settings, so the second save writes none |

The modules also state the following, which no run checks because TLC refutes them.
Each is a narrow race or a rare failure.

* `TelemetryFeed!RidesOutDisconnect` (README.md:113-115: a sidebar whose daemon goes
  away keeps its cards): bytes before the end of the stream are passed on as a line
  (`state_stream.rs:51`), do not parse, and end the sidebar.
* `WatcherTranscript!FreshAfterRestart` (`watcher_runtime.rs:296-298`): the new callback
  is live before the old handle is quiesced (`:1065`).
* `PaneBinding!RetiredIsHarmless` (DESIGN.md:81): the session is compared when a path is
  asked for, the write comes later. `RefusalIsCurrent` (`routes.rs:56-59`): a refusal is
  recorded under another lock, after an unbind has cleared it.
* `TailService!NeverTruncated` (`transcript_tail_service.rs:104-106`): after the watchdog
  dropped a line's first half, a slow writer's second half is taken for a line.
* `ClaudeBridge!RemovalIsLossless` (`bridge_settings.rs:1`): enabling again after the
  operator's edits replaces the earlier record, and disabling then leaves hooks of ours.
* `TestRuns!CyclesAreCaught`: arguments that are appended make each round's command a new
  one (`matcher.rs:114`); only the limit of rounds ends `"test": "npm run test -- x"`.
* `OpenCodeIndex!SeedIsFound` (PORT-SURFACE.md:48-50): after a restart the seeded row
  has the shell's process, and with a second session in the directory it is not chosen.
* Only a session "this process created or resumed may bind" (`kimi/locator.rs:728-731`): any
  session begun after the process's start counts as created by it
  (`created_in_own_window`), whoever began it. So a pane may take up a neighbour's of the same
  directory while its own is not indexed, or is farther from the start, and a later search may
  take it back to that one; `OwnSession` states what is left.
* `Release!NeverDowngrades`: an offer that a panel has shown for long, or a second
  updater, installs an older release over a newer one. `ComplaintIsShown`: the code of
  the HTTP error replaces GitHub's message (`release.rs:302-306`).
* `Doctor!GreenIsTrue` (DESIGN.md:157, README.md:242): the doctor's own question clears the
  refusal it reports (`routes.rs:78`), so that a second report before the next render
  is green; and pane w1:p1 is found in a command line that names w1:p10.
  `RemedyCures` (README.md:237-240): with the suggested block pasted, the report still says
  shadowed and suggests a script that chains to itself.

Others met on the way are noted at the definitions: a status write fails after a sweep
removed the directory (only an attention record makes it again, against
`prune.rs:10-12`); "clears memory immediately" (`kimi_usage_consent.rs`) is of the
command's own process; a key that leaves the settings panel another way passes by its
prompt (`tui.rs:391-405`); `r` or Esc during an upgrade drops its result while the
installation goes on.

## 6 What is not modelled

* **Components**: the configuration files' validation, aliases and
  `generate_bridge_files` (no caller outside tests), the herdr client (one request per
  connection; its answers are inputs), path and error helpers, serde types.
* **Parts of components**: what the sink reports to herdr and in which order with the
  record (`sink.rs:91`); a start gate poisoned by a panic (`transcript_state.rs:709`);
  the poll's memory of a file (`watcher_runtime.rs:1228`: a poll may read at any time);
  `classify`'s branch for a Claude transcript's lines (`notification.rs:1059-1096`), which
  is never taken: a Claude pane is registered with its `attention.jsonl`;
  test-file paths; the doctor's checks of hooks and files; colours and wording.
* **Data**: JSON, SQL, `lsof` and `/proc` by what they return; texts by their kind, size
  or owner; numbers by the values at which something changes.
* **Kimi's files**: the modification time of a session's directory, by which the bucket scan
  orders, moves only when the session begins, since the wires are deeper in it.
* **Time**: intervals and timeouts are nondeterministic choices, except in `Singleton`
  (ticks) and where fairness says that time passes.
* **The accept loop's end** on an unexpected error (`state_server.rs:89`): `Converges`
  assumes that a running daemon accepts. Bytes on the socket that are no protocol
  (`tui.rs:2411`) are not sent.
* **Two enables at once** of the same bridge, and JavaScript beyond what the plugin's and
  Codex's scripts use (regular expressions, spreads, nested templates).

## 7 Plan

Done: all modules above; the proofs of section 4.

What could be added: proofs about the decoders' folds and the readers of scripts, if a prover
with induction over data is at hand; the configuration files' validation.
