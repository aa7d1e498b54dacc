------------------------- MODULE WatcherTranscript -------------------------
(***************************************************************************)
(* One session's status watcher and transcript tail over restarts:         *)
(* run_watch_sequence and stop (agent/adapter/session_lifecycle.rs), the   *)
(* watcher handle with its notify callback and poll thread                 *)
(* (base/watcher_runtime.rs), and the per-session start gate with the      *)
(* tail behind it (base/transcript_state.rs).                              *)
(*                                                                         *)
(* The daemon's main loop starts and stops a session's watcher one call at *)
(* a time.  What runs concurrently is each handle's notify callback, its   *)
(* poll thread and the tail threads.  Handles are numbered in the order    *)
(* they are made; a path stands for what identifies a tail, its transcript *)
(* path and working directory.                                             *)
(***************************************************************************)
EXTENDS Naturals, FiniteSets

CONSTANTS
    Paths,         \* transcripts a status file may name
    MaxHandles     \* bound: watcher handles made in a behaviour

ASSUME WatcherAssumption == MaxHandles \in Nat \ {0}

Handles == 1 .. MaxHandles
None    == 0
Kinds   == {"inline", "notify", "poll"}
Jobs    == Kinds \X Handles
Idle    == "idle"
Free    == <<"free", None>>
Op      == <<"op", None>>
Waiters == {"gate", "op"}
NoTail  == [path |-> Idle, by |-> None]

VARIABLES
    joined,     \* dropping a notify watcher waits for its callback: TRUE
                \* for FSEvents (macOS), FALSE for inotify (Linux)
    step,       \* where the lifecycle thread is in a start or a stop
    spawned,    \* the newest handle
    registered, \* the handle in AgentWatcherState, or None
    leaving,    \* the handle being dropped, or None
    notify,     \* handles whose notify backend dispatches callbacks
    alive,      \* handles whose alive token is set
    claimed,    \* handles whose claimed_transcript is set
    owns,       \* handles whose owns_transcript is set
    polling,    \* each handle's poll thread
    job,        \* path each status reader is taking to start_or_replace
    gate,       \* holder of the session's start gate
    tail,       \* the entry in TranscriptState, and the handle it comes from
    ending,     \* who waits for a signalled tail thread to exit
    failed      \* the last attempt to start a tail failed

handles == <<registered, leaving, notify, alive, owns, polling>>
tails   == <<tail, ending, failed>>
vars    == <<joined, step, spawned, handles, claimed, job, gate, tails>>

Init ==
    /\ joined \in BOOLEAN
    /\ step = "idle" /\ spawned = 0 /\ registered = None /\ leaving = None
    /\ notify = {} /\ alive = {} /\ claimed = {} /\ owns = {}
    /\ polling = [h \in Handles |-> "off"]
    /\ job = [j \in Jobs |-> Idle]
    /\ gate = Free
    /\ tail = NoTail /\ ending = {} /\ failed = FALSE

\* Dropping h's notify watcher returns.
CallbackDrained(h) == joined => job[<<"notify", h>>] = Idle

-----------------------------------------------------------------------------
(* A start: spawn, quiesce the old handle, inline read, poll thread,       *)
(* insert; then the displaced handle is dropped.  A start that fails in    *)
(* spawn, and Codex's relocation to the same rollout, change nothing.      *)

\* The callback is live as soon as the directory is watched.
Spawn ==
    /\ step = "idle" /\ spawned < MaxHandles
    /\ spawned' = spawned + 1
    /\ notify' = notify \cup {spawned'}
    /\ alive' = alive \cup {spawned'}
    /\ owns' = owns \cup {spawned'}
    /\ step' = "watching"
    /\ UNCHANGED <<joined, registered, leaving, claimed, polling, job, gate, tails>>

\* Mutant: the old handle's alive token stays set.
QuiesceKeepsAlive ==
    /\ step = "watching" /\ gate = Free
    /\ notify' = notify \ {registered}
    /\ step' = "quiesced"
    /\ UNCHANGED <<joined, spawned, registered, leaving, alive, claimed, owns, polling,
                   job, gate, tails>>

Quiesce ==
    /\ step = "watching" /\ gate = Free
    /\ alive' = alive \ {registered}
    /\ notify' = notify \ {registered}
    /\ step' = "quiesced"
    /\ UNCHANGED <<joined, spawned, registered, leaving, claimed, owns, polling,
                   job, gate, tails>>

\* The inline read, once the old watcher is dropped: the status file names a
\* transcript, or there is nothing to start from it.
InlineRead ==
    /\ step = "quiesced"
    /\ registered # None => CallbackDrained(registered)
    /\ \E p \in Paths \cup {Idle} : job' = [job EXCEPT ![<<"inline", spawned>>] = p]
    /\ step' = "inlining"
    /\ UNCHANGED <<joined, spawned, handles, claimed, gate, tails>>

StartPoll ==
    /\ step = "inlining" /\ job[<<"inline", spawned>>] = Idle
    /\ polling' = [polling EXCEPT ![spawned] = "run"]
    /\ step' = "ready"
    /\ UNCHANGED <<joined, spawned, registered, leaving, notify, alive, claimed, owns,
                   job, gate, tails>>

\* stop_with_held_gate: the entry goes and its thread is signalled.
Unhook(waiter) ==
    /\ tail' = NoTail
    /\ ending' = IF tail = NoTail THEN ending ELSE ending \cup {waiter}
    /\ UNCHANGED failed

\* Mutant: the displaced handle still owns the session's transcript.
InsertLeavesOwner ==
    /\ step = "ready" /\ gate = Free
    /\ registered' = spawned
    /\ leaving' = registered
    /\ alive' = alive \ {registered}
    /\ notify' = notify \ {registered}
    /\ IF registered # None /\ spawned \notin claimed
       THEN Unhook("op") ELSE UNCHANGED tails
    /\ step' = IF registered = None THEN "idle" ELSE "dropping"
    /\ UNCHANGED <<joined, spawned, claimed, owns, polling, job, gate>>

\* AgentWatcherState::insert, with what it does under the gate.
Insert ==
    /\ step = "ready" /\ gate = Free
    /\ registered' = spawned
    /\ leaving' = registered
    /\ alive' = alive \ {registered}
    /\ notify' = notify \ {registered}
    /\ owns' = owns \ {registered}
    /\ IF registered # None /\ spawned \notin claimed
       THEN Unhook("op") ELSE UNCHANGED tails
    /\ step' = IF registered = None THEN "idle" ELSE "dropping"
    /\ UNCHANGED <<joined, spawned, claimed, polling, job, gate>>

-----------------------------------------------------------------------------
(* A stop, and the drop of a handle.                                       *)

\* Mutant: the callback is not waited for although its watcher joins it.
RemoveEarly ==
    /\ step = "idle" /\ registered # None
    /\ leaving' = registered
    /\ registered' = None
    /\ notify' = notify \ {leaving'}
    /\ polling' = [polling EXCEPT ![leaving'] = "off"]
    /\ step' = "stopping"
    /\ UNCHANGED <<joined, spawned, alive, claimed, owns, job, gate, tails>>

\* Out of the map first, so the alive token stays set; then it drops.
Remove ==
    /\ step = "idle" /\ registered # None
    /\ leaving' = registered
    /\ registered' = None
    /\ notify' = notify \ {leaving'}
    /\ step' = "dropping"
    /\ UNCHANGED <<joined, spawned, alive, claimed, owns, polling, job, gate, tails>>

\* Mutant: the poll thread is joined before it is told to stop.
JoinPollFirst ==
    /\ step = "dropping" /\ "op" \notin ending
    /\ leaving \in owns => CallbackDrained(leaving)
    /\ polling[leaving] = "off"
    /\ step' = "reaping"
    /\ UNCHANGED <<joined, spawned, handles, claimed, job, gate, tails>>

\* After the join of a tail that insert unhooked, and of a removed handle's
\* callback, the poll thread is told to stop.
TellPoll ==
    /\ step = "dropping" /\ "op" \notin ending
    /\ leaving \in owns => CallbackDrained(leaving)
    /\ polling' = [polling EXCEPT ![leaving] = "told"]
    /\ step' = "reaping"
    /\ UNCHANGED <<joined, spawned, registered, leaving, notify, alive, claimed, owns,
                   job, gate, tails>>

\* The poll thread is joined; only an owner goes on to stop the transcript.
\* A displaced handle's watcher is dropped last.
Reap ==
    /\ step = "reaping" /\ polling[leaving] = "off"
    /\ \/ /\ leaving \in owns
          /\ step' = "stopping" /\ UNCHANGED leaving
       \/ /\ leaving \notin owns /\ CallbackDrained(leaving)
          /\ step' = "idle" /\ leaving' = None
    /\ UNCHANGED <<joined, spawned, registered, notify, alive, claimed, owns, polling,
                   job, gate, tails>>

\* TranscriptState::stop keeps the gate until the tail thread has exited.
StopTail ==
    /\ step = "stopping" /\ gate = Free
    /\ gate' = Op
    /\ step' = "stopped"
    /\ Unhook("gate")
    /\ UNCHANGED <<joined, spawned, handles, claimed, job>>

Stopped ==
    /\ step = "stopped" /\ "gate" \notin ending
    /\ gate' = Free
    /\ step' = "idle" /\ leaving' = None
    /\ UNCHANGED <<joined, spawned, registered, notify, alive, claimed, owns, polling,
                   job, tails>>

-----------------------------------------------------------------------------
(* The status readers: each takes what it read through the gate.           *)

NotifyFires(h) ==
    /\ h \in notify /\ job[<<"notify", h>>] = Idle
    /\ \E p \in Paths : job' = [job EXCEPT ![<<"notify", h>>] = p]
    /\ UNCHANGED <<joined, step, spawned, handles, claimed, gate, tails>>

PollReads(h) ==
    /\ polling[h] = "run" /\ job[<<"poll", h>>] = Idle
    /\ \E p \in Paths : job' = [job EXCEPT ![<<"poll", h>>] = p]
    /\ UNCHANGED <<joined, step, spawned, handles, claimed, gate, tails>>

PollExits(h) ==
    /\ polling[h] = "told" /\ job[<<"poll", h>>] = Idle
    /\ polling' = [polling EXCEPT ![h] = "off"]
    /\ UNCHANGED <<joined, step, spawned, registered, leaving, notify, alive, owns,
                   claimed, job, gate, tails>>

\* The inline read passes no alive token.
Current(j) == j[1] = "inline" \/ j[2] \in alive

Arrives(j) == gate = Free /\ job[j] # Idle

Displaced(j) ==
    /\ Arrives(j) /\ ~Current(j)
    /\ job' = [job EXCEPT ![j] = Idle]
    /\ UNCHANGED <<joined, step, spawned, handles, claimed, gate, tails>>

\* A tail adopted by several handles comes from the newest of them.
AlreadyRunning(j) ==
    /\ Arrives(j) /\ Current(j) /\ tail.path = job[j]
    /\ claimed' = claimed \cup {j[2]}
    /\ tail' = [tail EXCEPT !.by = IF j[2] > tail.by THEN j[2] ELSE tail.by]
    /\ job' = [job EXCEPT ![j] = Idle]
    /\ UNCHANGED <<joined, step, spawned, handles, gate, ending, failed>>

\* Nothing runs or something else does: it goes before the new tail starts.
Replace(j) ==
    /\ Arrives(j) /\ Current(j) /\ tail.path # job[j]
    /\ gate' = j
    /\ Unhook("gate")
    /\ UNCHANGED <<joined, step, spawned, handles, claimed, job>>

TailStarts(j) ==
    /\ gate = j /\ "gate" \notin ending
    /\ tail' = [path |-> job[j], by |-> j[2]]
    /\ failed' = FALSE
    /\ claimed' = claimed \cup {j[2]}
    /\ job' = [job EXCEPT ![j] = Idle]
    /\ gate' = Free
    /\ UNCHANGED <<joined, step, spawned, handles, ending>>

TailFails(j) ==
    /\ gate = j /\ "gate" \notin ending
    /\ failed' = TRUE
    /\ job' = [job EXCEPT ![j] = Idle]
    /\ gate' = Free
    /\ UNCHANGED <<joined, step, spawned, handles, claimed, tail, ending>>

\* A signalled tail thread reaches its stop flag.
TailExits(w) ==
    /\ w \in ending /\ ending' = ending \ {w}
    /\ UNCHANGED <<joined, step, spawned, handles, claimed, job, gate, tail, failed>>

-----------------------------------------------------------------------------
GoesOn ==
    \/ Quiesce \/ InlineRead \/ StartPoll \/ Insert
    \/ TellPoll \/ Reap \/ StopTail \/ Stopped

Lifecycle == Spawn \/ Remove \/ GoesOn

Enter(j)  == Displaced(j) \/ AlreadyRunning(j) \/ Replace(j)
Finish(j) == TailStarts(j) \/ TailFails(j)

Next ==
    \/ Lifecycle
    \/ \E h \in Handles : NotifyFires(h) \/ PollReads(h) \/ PollExits(h)
    \/ \E j \in Jobs : Enter(j) \/ Finish(j)
    \/ \E w \in Waiters : TailExits(w)

Spec == Init /\ [][Next]_vars

(* A call in progress goes on, and so do the threads it waits for.  The    *)
(* start gate is a mutex that is free again and again: a reader comes to   *)
(* it once per debounce interval or poll period, so whoever waits for it   *)
(* gets it.                                                                *)
FairSpec ==
    /\ Spec
    /\ SF_vars(GoesOn)
    /\ \A w \in Waiters : WF_vars(TailExits(w))
    /\ \A h \in Handles : WF_vars(PollExits(h))
    /\ \A j \in Jobs : SF_vars(Enter(j))
    /\ WF_vars(\E j \in Jobs : Finish(j))

-----------------------------------------------------------------------------
(* Properties.                                                             *)

Steps == {"idle", "watching", "quiesced", "inlining", "ready", "dropping",
          "reaping", "stopping", "stopped"}

\* Every variable has its type (the records of watcher_runtime.rs and
\* transcript_state.rs).
TypeOK ==
    /\ step \in Steps
    /\ spawned \in 0 .. MaxHandles
    /\ registered \in 0 .. MaxHandles /\ leaving \in 0 .. MaxHandles
    /\ notify \subseteq Handles /\ alive \subseteq Handles
    /\ claimed \subseteq Handles /\ owns \subseteq Handles
    /\ polling \in [Handles -> {"off", "run", "told"}]
    /\ job \in [Jobs -> Paths \cup {Idle}]
    /\ gate \in Jobs \cup {Free, Op}
    /\ tail \in [path : Paths, by : Handles] \cup {NoTail}
    /\ ending \subseteq Waiters
    /\ failed \in BOOLEAN

\* From the moment a restart has quiesced the old handle, only the newest
\* handle's readers start or adopt a tail; until then the registered one's may
\* too (quiesce_existing and the alive token checked in start_or_replace).  A
\* callback that outlives its watcher was let in before its token was cleared.
NeverOlder ==
    [][joined /\ tail'.by # None /\ tail'.by # tail.by =>
         tail'.by >= IF step = "watching" THEN registered ELSE spawned]_vars

\* When the registered watcher has claimed a transcript, the session has a
\* tail unless the attempt to switch it failed: dropping the displaced handle
\* does not take the tail along (insert, and the ownership flag it clears).
ClaimIsKept ==
    registered \in claimed /\ gate = Free /\ ~failed => tail # NoTail

\* A tail runs beside one that is still winding down only while a restart
\* drops the handle it displaced (stop_with_held_gate's bounded overlap).
BoundedOverlap ==
    tail # NoTail /\ ending # {} => step = "dropping" /\ "gate" \notin ending

\* The session's one tail: kept once claimed, beside another only while a restart lasts.
OneTail == ClaimIsKept /\ BoundedOverlap

\* With no watcher registered and no call in progress, no tail runs
\* (TranscriptState::stop: "there is no zombie").
NoZombie == step = "idle" /\ registered = None => tail = NoTail

\* It holds where dropping a watcher waits for its callback.
NoZombieWhereJoined == joined => NoZombie

\* When a restart is over, the tail is one the new handle started or adopted
\* (what quiesce_existing is there for).
FreshAfterRestart ==
    step = "idle" /\ registered # None /\ tail # NoTail => tail.by = registered

\* A start or a stop always comes to its end: nothing it joins waits for the
\* gate while it is held, and no join waits for a thread that was not told.
CallCompletes == step # "idle" ~> step = "idle"
=============================================================================
