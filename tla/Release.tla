-------------------------------- MODULE Release --------------------------------
(***************************************************************************)
(* Replacing the plugin by a newer release (sidebar/release.rs, and the    *)
(* update panel of tui.rs).  Sidebars, and the update command, ask GitHub  *)
(* and have herdr install, each in threads of its own; herdr restarts the  *)
(* daemon some time after it accepted to, from what is installed then.     *)
(* A version is its numbers.                                               *)
(***************************************************************************)
EXTENDS Integers, Sequences, FiniteSets

CONSTANTS
    Tags,         \* of the releases, oldest first
    Updaters      \* sidebars and, if "cli" is one, the command

VARIABLES
    published,  \* how many of Tags GitHub has
    source,     \* how the plugin was installed
    disk,       \* the version that is installed
    running,    \* the daemon's build
    accepted,   \* herdr is going to restart the daemon
    updater,    \* per updater, its build and what its panel shows
    thread,     \* per updater the one it waits for, and one whose panel is shut
    renewed     \* history: per updater, what its last successful upgrade came to

releaseVars == <<published, source, disk, running, accepted, updater, thread, renewed>>

NoDaemon == <<>>
Shut == [view |-> "closed"]
Failed == [view |-> "failed"]
Finished == [view |-> "finished"]
NoThread == [step |-> "none"]
NotRenewed == [crossed |-> TRUE]
Left == "left"      \* it goes on, though nobody waits for it
Waited == Updaters \cup {Left}

\* The thread that is left is nobody's.
ASSUME UpdaterAssumption == Left \notin Updaters

ReleaseInit ==
    /\ published = 1 /\ source \in {"github", "linked"}
    /\ disk = Tags[1] /\ running = disk /\ accepted = FALSE
    /\ updater = [u \in Updaters |-> [build |-> disk, panel |-> Shut]]
    /\ thread = [t \in Waited |-> NoThread] /\ renewed = [u \in Updaters |-> NotRenewed]
-----------------------------------------------------------------------------
(* Versions.  A part that is missing is zero.                              *)

Part(version, i) == IF i \in DOMAIN version THEN version[i] ELSE 0

is_newer(latest, current) ==
    \E i \in DOMAIN latest \cup DOMAIN current :
        /\ Part(latest, i) > Part(current, i)
        /\ \A j \in 1 .. i - 1 : Part(latest, j) = Part(current, j)

\* The plugin herdr has linked, or says nothing of, is not to be replaced.
upgradable(check, current) == check.view = "ready" /\ check.source = "github" /\ is_newer(check.tag, current)
-----------------------------------------------------------------------------
(* Threads.                                                                *)

Now(t, step) == thread[t].step = step

Begin(u, step, tag, view, build) ==
    /\ thread' = [thread EXCEPT ![u] = [step |-> step, tag |-> tag, crossed |-> FALSE, result |-> Shut]]
    /\ updater' = [updater EXCEPT ![u] = [build |-> build, panel |-> [view |-> view]]]
    /\ UNCHANGED <<published, source, disk, running, accepted, renewed>>

\* What nobody waits for any more is lost.
Sends(t, result) ==
    thread' = [thread EXCEPT ![t] = IF t = Left THEN NoThread
                                    ELSE [@ EXCEPT !.step = "sent", !.result = result]]

\* latest_tag: a status error keeps what its body says only if that is a tag.
Replies == [status : {"ok", "error"}, body : {"tag", "message", "other"}] \cup {[status |-> "none", body |-> "none"]}
Complaint(reply) ==
    CASE reply.status = "ok" /\ reply.body = "message" -> "github's"
      [] reply.status = "error" -> "http"
      [] OTHER -> "ours"

\* check_now: the tag, and installed_source, for which whatever herdr does not say is unknown.
CheckNow(t) ==
    /\ Now(t, "tag")
    /\ \E reply \in Replies, said \in {source, "unknown"} :
          Sends(t, IF reply.body = "tag" THEN [view |-> "ready", tag |-> Tags[published], source |-> said]
                   ELSE Failed)
    /\ UNCHANGED <<published, source, disk, running, accepted, updater, renewed>>

\* install: herdr replaces the plugin, or says why not.
Crossing(t) == \* what others had installed is not what is there any more
    /\ thread' = [i \in Waited |-> CASE i = t -> [thread[i] EXCEPT !.step = "restart"]
                                      [] i # t /\ thread[i].step \in {"wait", "restart", "sent"} ->
                                            [thread[i] EXCEPT !.crossed = TRUE]
                                      [] OTHER -> thread[i]]
    /\ renewed' = [u \in Updaters |-> NotRenewed]
InstallPlugin(t) ==
    /\ Now(t, "install")
    /\ \/ disk' = thread[t].tag /\ Crossing(t)
       \/ Sends(t, Failed) /\ UNCHANGED <<disk, renewed>>
    /\ UNCHANGED <<published, source, running, accepted, updater>>

RestartDaemon(t) ==
    /\ Now(t, "restart")
    /\ \/ accepted' = TRUE /\ IF t = Left THEN Sends(t, Shut) ELSE thread' = [thread EXCEPT ![t].step = "wait"]
       \/ Sends(t, Failed) /\ UNCHANGED accepted
    /\ UNCHANGED <<published, source, disk, running, updater, renewed>>

\* Mutant: any daemon that answers is the new one.
AnyBuild(t) ==
    /\ Now(t, "wait") /\ running # NoDaemon
    /\ Sends(t, Finished)
    /\ UNCHANGED <<published, source, disk, running, accepted, updater, renewed>>

\* wait_for_build: until the daemon reports the build, or a deadline.
ReadBuild(t) ==
    /\ Now(t, "wait") /\ running = thread[t].tag
    /\ Sends(t, Finished)
    /\ UNCHANGED <<published, source, disk, running, accepted, updater, renewed>>
DeadlinePasses(t) ==
    /\ Now(t, "wait") /\ Sends(t, Failed)
    /\ UNCHANGED <<published, source, disk, running, accepted, updater, renewed>>
-----------------------------------------------------------------------------
(* A panel, and the command.                                               *)

Panel(u) == updater[u].panel

\* The panel opens checking, or checks again; the command is a process of its own.
CheckRelease(u) ==
    /\ thread[u] = NoThread
    /\ u = "cli" => Panel(u) = Shut
    /\ Begin(u, "tag", <<>>, "checking", IF u = "cli" THEN disk ELSE updater[u].build)

InstallRelease(u) ==
    /\ thread[u] = NoThread /\ upgradable(Panel(u), updater[u].build)
    /\ Begin(u, "install", Panel(u).tag, "upgrading", updater[u].build)

\* With the panel goes its end of the channel; a thread that still has something to do goes on.
ShutPanel(u) ==
    /\ u # "cli" /\ Panel(u) # Shut
    /\ updater' = [updater EXCEPT ![u].panel = Shut]
    /\ IF thread[u].step \in {"install", "restart"}
       THEN thread[Left] = NoThread /\ thread' = [thread EXCEPT ![u] = NoThread, ![Left] = thread[u]]
       ELSE thread' = [thread EXCEPT ![u] = NoThread]
    /\ UNCHANGED <<published, source, disk, running, accepted, renewed>>

Result(u) == thread[u].result
Success(u) == Result(u) = Finished

\* The command ends with what it has to say.
ShowResult(u) ==
    /\ Now(u, "sent") /\ ~(u # "cli" /\ Success(u))
    /\ updater' = [updater EXCEPT ![u].panel =
                      IF u = "cli" /\ ~upgradable(Result(u), updater[u].build) THEN Shut ELSE Result(u)]
    /\ thread' = [thread EXCEPT ![u] = NoThread]
    /\ UNCHANGED <<published, source, disk, running, accepted, renewed>>

\* reexec_or_fallback: the sidebar goes on as what is installed now, or says to reopen it.
Renew(u) ==
    /\ Now(u, "sent") /\ u # "cli" /\ Success(u)
    /\ updater' = [updater EXCEPT ![u] = [build |-> disk, panel |-> Shut]]
    /\ thread' = [thread EXCEPT ![u] = NoThread]
    /\ renewed' = [renewed EXCEPT ![u] = IF thread[u].crossed THEN NotRenewed
                     ELSE [crossed |-> FALSE, from |-> updater[u].build, tag |-> thread[u].tag]]
    /\ UNCHANGED <<published, source, disk, running, accepted>>
-----------------------------------------------------------------------------
(* GitHub, and herdr.                                                      *)

Publish ==
    /\ published < Len(Tags) /\ published' = published + 1
    /\ UNCHANGED <<source, disk, running, accepted, updater, thread, renewed>>

DaemonLeaves ==
    /\ accepted /\ running' = NoDaemon /\ accepted' = FALSE
    /\ UNCHANGED <<published, source, disk, updater, thread, renewed>>
DaemonComes ==
    /\ running = NoDaemon /\ running' = disk
    /\ UNCHANGED <<published, source, disk, accepted, updater, thread, renewed>>

ReleaseNext ==
    \/ \E u \in Updaters : CheckRelease(u) \/ InstallRelease(u) \/ ShutPanel(u) \/ ShowResult(u) \/ Renew(u)
    \/ \E t \in Waited :
          \/ CheckNow(t) \/ InstallPlugin(t) \/ RestartDaemon(t)
          \/ ReadBuild(t) \/ DeadlinePasses(t)
    \/ Publish \/ DaemonLeaves \/ DaemonComes
-----------------------------------------------------------------------------
\* By number, part by part, with what is missing zero (is_newer, on all short versions).
VersionsAreNumbers ==
    LET versions == UNION {[1 .. n -> {0, 9, 10}] : n \in 1 .. 3}
        weight(v) == 10000 * Part(v, 1) + 100 * Part(v, 2) + Part(v, 3)
    IN  \A a, b \in versions : is_newer(a, b) <=> weight(a) > weight(b)

\* "The daemon is confirmed before the sidebar re-execs, deliberately" (release.rs): a sidebar
\* that goes on after an upgrade runs the newer release it offered, and the daemon that
\* answers it is of the same build, unless another upgrade replaced the plugin meanwhile.
UpgradesAgree ==
    \A u \in Updaters : ~renewed[u].crossed =>
        /\ updater[u].build = renewed[u].tag /\ is_newer(updater[u].build, renewed[u].from)
        /\ running \in {NoDaemon, updater[u].build}

\* The offer of an open panel is not asked for again: it can replace a newer plugin.
NeverDowngrades == [][disk' # disk => is_newer(disk', disk)]_releaseVars

\* "A status error still carries GitHub's JSON, which says more than the code does"
\* (release.rs, latest_tag): what GitHub complains of is what is reported.
ComplaintIsShown == \A reply \in Replies : reply.body = "message" => Complaint(reply) = "github's"
=============================================================================
