--------------------------------- MODULE Sweep ---------------------------------
(***************************************************************************)
(* The directory of a session, deleted when it has been quiet for long     *)
(* (daemon/prune.rs) by the daemon's sweeper or the sidebar's prune, while *)
(* the session's status line and hooks write into it                       *)
(* (agents/claude_bridge.rs).                                              *)
(***************************************************************************)
EXTENDS Naturals

CONSTANTS Sweepers, Retention, MaxWrites

VARIABLES
    ages,      \* the files of the directory, by the days since each was written
    dirAge,    \* days since an entry was made or removed; Gone without the directory
    sweeping,  \* per sweeper, its step
    writer,    \* the status line's or a hook's write that runs
    writes,
    raced      \* a write came after a sweeper's look

sweepVars == <<ages, dirAge, sweeping, writer, writes, raced>>

Gone == Retention + 2
Files == DOMAIN ages
AllBut(f) == [g \in Files \ {f} |-> ages[g]]

SweepInit ==
    /\ ages = [f \in {} |-> 0] /\ dirAge = 0     \* made when the pane is bound
    /\ sweeping = [s \in Sweepers |-> "idle"]
    /\ writer = "idle" /\ writes = 0 /\ raced = FALSE

DayPasses ==
    /\ writer = "idle" /\ \A s \in Sweepers : sweeping[s] = "idle"
    /\ dirAge <= Retention
    /\ dirAge' = dirAge + 1
    /\ ages' = [f \in Files |-> IF ages[f] <= Retention THEN ages[f] + 1 ELSE ages[f]]
    /\ UNCHANGED <<sweeping, writer, writes, raced>>
-----------------------------------------------------------------------------
\* Mutant: the directory's own time is when it was written to.
DirectoryQuiet == dirAge > Retention

\* last_write, the newest of the directory's time and its files': an append leaves
\* the directory's own as it is.
Quiet == dirAge > Retention /\ \A f \in Files : ages[f] > Retention

Look(s) ==
    /\ sweeping[s] = "idle" /\ dirAge # Gone /\ Quiet
    /\ sweeping' = [sweeping EXCEPT ![s] = "removing"]
    /\ raced' = (raced /\ \E t \in Sweepers : sweeping[t] = "removing")
    /\ UNCHANGED <<ages, dirAge, writer, writes>>

\* remove_dir_all: one entry after the other, then the directory, which a new
\* entry keeps.
RemoveEntry(s) ==
    /\ sweeping[s] = "removing" /\ dirAge # Gone
    /\ \E f \in Files : ages' = AllBut(f)
    /\ dirAge' = 0
    /\ UNCHANGED <<sweeping, writer, writes, raced>>

RemoveDirectory(s) ==
    /\ sweeping[s] = "removing"
    /\ \/ dirAge # Gone /\ Files = {} /\ dirAge' = Gone
       \/ UNCHANGED dirAge
    /\ sweeping' = [sweeping EXCEPT ![s] = "idle"]
    /\ UNCHANGED <<ages, writer, writes, raced>>
-----------------------------------------------------------------------------
Written(f, others) == [g \in {f} \cup DOMAIN others |-> IF g = f THEN 0 ELSE others[g]]

Put(f) ==
    /\ ages' = Written(f, ages)
    /\ dirAge' = IF f \in Files THEN dirAge ELSE 0
    /\ raced' = (raced \/ \E s \in Sweepers : sweeping[s] = "removing")

BeginWrite ==
    /\ writer = "idle" /\ writes < MaxWrites
    /\ writer' \in {"temporary", "directory"} /\ writes' = writes + 1
    /\ UNCHANGED <<ages, dirAge, sweeping, raced>>

\* write_status: nothing is written when the directory is gone.
WriteTemporary ==
    /\ writer = "temporary"
    /\ IF dirAge = Gone THEN writer' = "idle" /\ UNCHANGED <<ages, dirAge, raced>>
       ELSE writer' = "rename" /\ Put("temporary")
    /\ UNCHANGED <<sweeping, writes>>

RenameTemporary ==
    /\ writer = "rename" /\ writer' = "idle"
    /\ IF "temporary" \in Files
       THEN /\ ages' = Written("status", AllBut("temporary")) /\ dirAge' = 0
            /\ raced' = (raced \/ \E s \in Sweepers : sweeping[s] = "removing")
       ELSE UNCHANGED <<ages, dirAge, raced>>
    /\ UNCHANGED <<sweeping, writes>>

\* append_attention: the directory is made again.
MakeDirectory ==
    /\ writer = "directory" /\ writer' = "append"
    /\ dirAge' = (IF dirAge = Gone THEN 0 ELSE dirAge)
    /\ UNCHANGED <<ages, sweeping, writes, raced>>

AppendAttention ==
    /\ writer = "append" /\ writer' = "idle"
    /\ IF dirAge = Gone THEN UNCHANGED <<ages, dirAge, raced>> ELSE Put("attention")
    /\ UNCHANGED <<sweeping, writes>>

SweepNext ==
    \/ DayPasses \/ BeginWrite \/ WriteTemporary \/ RenameTemporary \/ MakeDirectory \/ AppendAttention
    \/ \E s \in Sweepers : Look(s) \/ RemoveEntry(s) \/ RemoveDirectory(s)
-----------------------------------------------------------------------------
(* Properties.                                                             *)

Removes == Files' # Files /\ DOMAIN ages' \subseteq Files /\ writer' = writer

\* What a sweep deletes was not written within the retention, whichever file of the
\* directory a session writes to, unless it was written after the sweep had looked
\* (last_write, sweep).
SweptWasQuiet == [][Removes /\ ~raced => \A f \in Files : ages[f] > Retention]_sweepVars
=============================================================================
