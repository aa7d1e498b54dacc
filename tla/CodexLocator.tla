------------------------------ MODULE CodexLocator ------------------------------
(***************************************************************************)
(* Which rollout file a Codex pane is shown from                           *)
(* (agent/adapter/codex/locator.rs): CompositeLocator asks the databases   *)
(* Codex keeps and the files its process holds open, one query after the   *)
(* other, while Codex goes on: it opens another rollout and keeps the old  *)
(* ones open, and writes the row of a rollout some time after its file.    *)
(* Then the title of its conversation: a thread polls session_index.jsonl, *)
(* which Codex appends to, and says the last name it finds                 *)
(* (agent/adapter/codex/session_index.rs).  Nothing records a rename by    *)
(* the user in this program, so none is ever claimed.                      *)
(***************************************************************************)
EXTENDS Naturals, FiniteSets

CONSTANTS
    Rollouts, Own,    \* all of them, and those of the pane's process
    Here,             \* those of the pane's directory
    NoRollout,
    MaxAttempts,      \* CODEX_BIND_RETRY_MAX_ATTEMPTS
    MaxStamp,         \* model bound: updates
    Titles, NoTitle,  \* what Codex names a conversation
    MaxWrites         \* model bound: writes to session_index.jsonl

ASSUME RolloutAssumption == Own \subseteq Rollouts /\ IsFiniteSet(Rollouts)

PtyStart == 2         \* rows before it are of earlier runs

VARIABLES
    held, active,  \* the files the process has open, and the one it writes
    rows,          \* updated_at_ms of a rollout's row, 0 without a row
    logged,        \* the thread of the process's last log row
    argv,          \* the rollout named by "resume" on its command line
    touched,       \* the files written since the pane was first seen
    tables,        \* the tables there are
    stamp,         \* the newest update
    attach,        \* the locator: step, attempt, what it read, its answer
    name,          \* the conversation's last name in the index
    writes,        \* writes to the index, one modification time each
    title          \* the thread: step, last_mtime, the name read, last_emitted_title, what the card says

processVars == <<held, active, rows, logged, argv, touched, tables, stamp>>
codexVars == <<processVars, attach>>
fileVars == <<name, writes>>
titleVars == <<fileVars, title>>

Fresh == [step |-> "tables", tries |-> 0, logs |-> FALSE, fds |-> {}, thread |-> NoRollout, bound |-> NoRollout]

CodexInit ==
    /\ held = {} /\ active = NoRollout /\ logged = NoRollout /\ touched = {}
    /\ rows \in [Rollouts -> {0, PtyStart - 1}] /\ argv \in Own \cup {NoRollout}
    /\ tables \in SUBSET {"threads", "logs"} /\ stamp = PtyStart
    /\ attach = Fresh
-----------------------------------------------------------------------------
(* Codex, in this pane and in others.                                      *)

\* A new conversation, or one resumed; the old file stays open.
OpenRollout(r) ==
    /\ r \in Own /\ r # active
    /\ active' = r /\ held' = held \cup {r} /\ touched' = touched \cup {r}
    /\ UNCHANGED <<rows, logged, argv, tables, stamp, attach>>

\* Two updates may have the same time.
UpdateRow(r) ==
    /\ r = active \/ r \in Rollouts \ Own
    /\ stamp' \in {stamp, stamp + 1} /\ stamp' <= MaxStamp
    /\ rows' = [rows EXCEPT ![r] = stamp'] /\ touched' = touched \cup {r}
    /\ UNCHANGED <<held, active, logged, argv, tables, attach>>

LogRow ==
    /\ active # NoRollout /\ logged' = active
    /\ UNCHANGED <<held, active, rows, argv, touched, tables, stamp, attach>>

CreateTable(t) ==
    /\ t \notin tables /\ tables' = tables \cup {t}
    /\ UNCHANGED <<held, active, rows, logged, argv, touched, stamp, attach>>

Codex == \/ \E r \in Rollouts : OpenRollout(r) \/ UpdateRow(r)
         \/ LogRow \/ \E t \in {"threads", "logs"} : CreateTable(t)
-----------------------------------------------------------------------------
(* One attempt.                                                            *)

At(step) == attach.step = step /\ UNCHANGED processVars
Goes(step) == attach' = [attach EXCEPT !.step = step]
Bound(r) == attach' = [attach EXCEPT !.step = "bound", !.bound = r]
GivesUp == Goes("failed")

\* retry_locator: only what is not ready yet is tried again.
NotYetReady ==
    IF attach.tries + 1 < MaxAttempts
    THEN attach' = [Fresh EXCEPT !.tries = attach.tries + 1]
    ELSE GivesUp

Discover ==
    /\ At("tables")
    /\ attach' = [attach EXCEPT !.step = IF "threads" \in tables THEN "fds" ELSE "scan",
                     !.logs = "logs" \in tables]

\* resolve_from_open_fds; where there is no lsof the answer is that no file is open.
ReadFds ==
    /\ At("fds")
    /\ \E fds \in {held, {}} :
         attach' = [attach EXCEPT !.step = IF fds = {} THEN "argv" ELSE "rows", !.fds = fds]

\* A provider that fails, or an lsof that takes too long, answers nothing, which is not "none".
FdsFail == At("fds") /\ NotYetReady

WithRow == {r \in attach.fds : rows[r] > 0}
NewestOf(S) == {r \in S : \A q \in S : rows[q] <= rows[r]}

\* An open file whose row is not there yet is waited for; of several, the newest.
QueryRows ==
    /\ At("rows")
    /\ IF Cardinality(NewestOf(WithRow)) = 1
       THEN Bound(CHOOSE r \in NewestOf(WithRow) : TRUE)
       ELSE NotYetReady

\* resolve_from_resume_arg
ResumeArg ==
    /\ At("argv")
    /\ IF argv # NoRollout /\ rows[argv] > 0 THEN Bound(argv)
       ELSE Goes(IF attach.logs THEN "logs" ELSE "scan")

QueryLogs ==
    /\ At("logs")
    /\ attach' = [attach EXCEPT !.step = IF logged = NoRollout THEN "recent" ELSE "thread", !.thread = logged]

QueryThread ==
    /\ At("thread")
    /\ IF rows[attach.thread] > 0 THEN Bound(attach.thread) ELSE NotYetReady

\* choose_state_candidate: the only one of the directory, or the only one.
Choose(S) ==
    LET near == S \cap Here IN
    CASE S = {} -> NotYetReady
      [] Cardinality(near) = 1 -> Bound(CHOOSE r \in near : TRUE)
      [] near = {} /\ Cardinality(S) = 1 -> Bound(CHOOSE r \in S : TRUE)
      [] OTHER -> GivesUp

Recent == At("recent") /\ Choose({r \in Rollouts : rows[r] >= PtyStart})

\* FsScanFallback, for databases without the tables.
Scan == At("scan") /\ Choose(touched \cap Here)

\* A database that cannot be read ends the attach, not the attempt.
Fatal == attach.step \in {"tables", "rows", "argv", "logs", "thread", "recent"} /\ At(attach.step) /\ GivesUp

\* Bound again by a later pass, with a locator of its own.
Relocate == attach.step \in {"bound", "failed"} /\ At(attach.step) /\ attach' = Fresh

Locate ==
    \/ Discover \/ ReadFds \/ FdsFail \/ QueryRows \/ ResumeArg \/ QueryLogs \/ QueryThread
    \/ Recent \/ Scan \/ Fatal \/ Relocate

CodexNext == Codex \/ Locate
-----------------------------------------------------------------------------
(* The title.                                                              *)

TitleInit ==
    /\ name \in Titles \cup {NoTitle} /\ writes = 0
    /\ title = [step |-> "off", mtime |-> 0, read |-> NoTitle, memo |-> NoTitle, card |-> NoTitle]

\* Codex names the conversation, writes of another one, or starts the file over.
WriteIndex(t) ==
    /\ writes < MaxWrites /\ writes' = writes + 1
    /\ name' \in {t, name, NoTitle}
    /\ UNCHANGED title

\* The thread is started with the pane's watcher, for the conversation its locator named.
StartTitleWatch ==
    /\ title.step = "off"
    /\ title' = [title EXCEPT !.step = "stat"]
    /\ UNCHANGED fileVars

\* The time is taken before the first reading.
Stat ==
    /\ title.step = "stat"
    /\ title' = [title EXCEPT !.mtime = writes, !.step = "read"]
    /\ UNCHANGED fileVars

PollTime ==
    /\ title.step = "poll" /\ title.mtime # writes
    /\ title' = [title EXCEPT !.mtime = writes, !.step = "read"]
    /\ UNCHANGED fileVars

ReadName ==
    /\ title.step = "read"
    /\ title' = [title EXCEPT !.read = name, !.step = "emit"]
    /\ UNCHANGED fileVars

\* Mutant: the time is taken after the reading.
EmitStamps ==
    /\ title.step = "emit"
    /\ title' = [title EXCEPT !.step = "poll", !.memo = title.read, !.mtime = writes,
                    !.card = IF title.read = title.memo THEN @ ELSE title.read]
    /\ UNCHANGED fileVars

\* try_emit: what was said before is not said again; a name gone is said as none.
TryEmit ==
    /\ title.step = "emit"
    /\ title' = [title EXCEPT !.step = "poll", !.memo = title.read,
                    !.card = IF title.read = title.memo THEN @ ELSE title.read]
    /\ UNCHANGED fileVars

Watch == StartTitleWatch \/ Stat \/ PollTime \/ ReadName \/ TryEmit
TitleNext == Watch \/ \E t \in Titles : WriteIndex(t)
-----------------------------------------------------------------------------
\* A guess: neither an open file, nor an argument, nor the log named a rollout when it was
\* asked, and no rollout of the process stands beside what is taken, among the recent
\* rows of the directory or, without rows, among its files.
Guess(r) ==
    /\ attach.thread = NoRollout
    /\ \/ /\ attach.step = "recent"
          /\ \A q \in held : rows[q] >= PtyStart => r \in Here /\ q \notin Here
       \/ attach.step = "scan" /\ held \cap Here = {}

\* Which rollout a pane is bound to.  A process that had some open when it was asked is
\* shown from the newest of those, however its rows, its log and its arguments lag;
\* another from one it has had open or was started with.  A rollout of another process
\* is taken only as a guess, so never once a row, a file or a line of the log has its
\* own (resolve_from_open_fds, resolve_rollout, choose_state_candidate).
CodexTakes ==
    attach.step # "bound" /\ attach'.step = "bound" =>
       LET r == attach'.bound IN
         IF attach.fds # {} THEN r \in NewestOf(attach.fds)
         ELSE r \in held \cup {argv} \/ Guess(r)

\* When Codex has stopped writing, the card has the last name, although a name may
\* be written between any two steps of a reading (spawn_watch_inner).
TitleFollows == <>[](title.card = name)
=============================================================================
