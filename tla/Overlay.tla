------------------------------- MODULE Overlay -------------------------------
(***************************************************************************)
(* Two things that are made again at every launch: the settings overlay of *)
(* a pane (agents/claude_bridge.rs, generate), by any number of launches   *)
(* at a time, and OpenCode's bridge plugin (opencode/install.rs), by any   *)
(* number of daemons, of which some are older.                             *)
(***************************************************************************)
EXTENDS Naturals, FiniteSets

CONSTANTS Launches, Daemons,
          Version(_),    \* the version of the plugin each daemon carries
          MaxHookLines

VARIABLES
    made,      \* the files of the pane's directory
    stream,    \* the lines of attention.jsonl
    launch,    \* per launch, its next step
    cursor,    \* the watcher's position in the stream
    plugged,   \* the plugin installed, and whether all of it is
    temps,     \* per daemon, its temporary file
    daemon     \* per daemon, its next step

overlayVars == <<made, stream, launch, cursor, plugged, temps, daemon>>

Whole(v) == [version |-> v, whole |-> TRUE]
Cut(v) == [version |-> v, whole |-> FALSE]
NotThere == Whole(0)

OverlayInit ==
    /\ made = {} /\ stream = 0 /\ cursor = 0
    /\ launch = [l \in Launches |-> "statusline.sh"]
    /\ plugged \in {NotThere} \cup {Whole(Version(d)) : d \in Daemons}
    /\ temps = [d \in Daemons |-> NotThere]
    /\ daemon = [d \in Daemons |-> "look"]

pluginVars == <<plugged, temps, daemon>>
-----------------------------------------------------------------------------
\* Each file is whole when it appears, and the settings come last.
Following(step) ==
    CASE step = "statusline.sh" -> "attention.sh"
      [] step = "attention.sh" -> "attention.jsonl"
      [] step = "attention.jsonl" -> "settings.json"
      [] step = "settings.json" -> "launched"

Write(l) ==
    /\ launch[l] \notin {"launched", "failed", "attention.jsonl"}
    /\ \/ /\ made' = made \cup {launch[l]}
          /\ launch' = [launch EXCEPT ![l] = Following(@)]
       \/ launch' = [launch EXCEPT ![l] = "failed"] /\ UNCHANGED made
    /\ UNCHANGED <<stream, cursor, pluginVars>>

\* The stream is made only when it is not there.
CreateStream(l) ==
    /\ launch[l] = "attention.jsonl"
    /\ launch' = [launch EXCEPT ![l] = Following(@)]
    /\ made' = made \cup {"attention.jsonl"}
    /\ UNCHANGED <<stream, cursor, pluginVars>>

\* A Claude launched with the overlay runs its hook.
Hook ==
    /\ \E l \in Launches : launch[l] = "launched"
    /\ "attention.sh" \in made /\ stream < MaxHookLines
    /\ stream' = stream + 1 /\ made' = made \cup {"attention.jsonl"}
    /\ UNCHANGED <<launch, cursor, pluginVars>>

Watch ==
    /\ cursor < stream /\ cursor' = stream
    /\ UNCHANGED <<made, stream, launch, pluginVars>>
-----------------------------------------------------------------------------
\* ensure_bridge_installed: whatever version is there but this one is replaced.
LookAt(d) ==
    /\ daemon[d] = "look"
    /\ daemon' = [daemon EXCEPT ![d] = IF plugged = Whole(Version(d)) THEN "done" ELSE "write"]
    /\ UNCHANGED <<made, stream, launch, cursor, plugged, temps>>

\* atomic_write: a file of its own first, which may be cut short.
WriteTemp(d) ==
    /\ daemon[d] = "write"
    /\ \/ /\ temps' = [temps EXCEPT ![d] = Cut(Version(d))]
          /\ daemon' = [daemon EXCEPT ![d] = "failed"]
       \/ /\ temps' = [temps EXCEPT ![d] = Whole(Version(d))]
          /\ daemon' = [daemon EXCEPT ![d] = "rename"]
    /\ UNCHANGED <<made, stream, launch, cursor, plugged>>

RenameTemp(d) ==
    /\ daemon[d] = "rename"
    /\ plugged' = temps[d]
    /\ temps' = [temps EXCEPT ![d] = NotThere]
    /\ daemon' = [daemon EXCEPT ![d] = "done"]
    /\ UNCHANGED <<made, stream, launch, cursor>>

\* It starts again, and finds what it left.
Restart(d) ==
    /\ daemon[d] = "failed" /\ daemon' = [daemon EXCEPT ![d] = "look"]
    /\ UNCHANGED <<made, stream, launch, cursor, plugged, temps>>

OverlayNext ==
    \/ \E l \in Launches : Write(l) \/ CreateStream(l)
    \/ Hook \/ Watch
    \/ \E d \in Daemons : LookAt(d) \/ WriteTemp(d) \/ RenameTemp(d) \/ Restart(d)
-----------------------------------------------------------------------------
(* Properties.                                                             *)

LaunchIsWhole ==
    \A l \in Launches : launch[l] = "launched" \/ "settings.json" \in made =>
        {"statusline.sh", "attention.sh", "attention.jsonl"} \subseteq made

\* What runs is whole: a launch that is told of the overlay finds all of its files,
\* although others make them at the same time and may fail (generate); no launch
\* makes the stream shorter than its watcher has read (create_new); the plugin
\* OpenCode loads is never a part of one (atomic_write).
WholeWhenUsed == LaunchIsWhole /\ cursor <= stream /\ plugged.whole
=============================================================================
