------------------------------- MODULE KimiSession -------------------------------
(***************************************************************************)
(* The Kimi session of a pane (agent/adapter/kimi/locator.rs) and the      *)
(* supervisor that follows its wires (run_session_supervisor and           *)
(* KimiReplayCoordinator in agent/adapter/kimi/transcript.rs).             *)
(*                                                                         *)
(* A session has a main wire, and a second one once it delegates.  The     *)
(* supervisor looks for the session at every poll, has a thread per wire,  *)
(* and joins what the threads replay into one summary.                     *)
(***************************************************************************)
EXTENDS Naturals, FiniteSets

CONSTANTS
    Sessions, Ours,     \* all of them, and those the pane's process may write
    Depth, MaxDepth,    \* the length of a session's workDir, 0 for another directory
    Bucket,             \* the sessions in the bucket of the pane's directory
    NoKimiSession,
    Slack,              \* KIMI_INDEX_FRESHNESS_SLACK
    OwnWindow,          \* KIMI_OWN_WINDOW
    Earlier,            \* when the sessions of earlier runs, and of others, were begun
    KimiAttempts,        \* KIMI_BIND_RETRY_MAX_ATTEMPTS
    MaxTime

ProcessStart == 3       \* the start of the process, and of its pane

ASSUME KimiAssumption ==
    /\ Ours \subseteq Sessions /\ Bucket \subseteq Sessions /\ NoKimiSession \notin Sessions
    /\ MaxDepth \in Nat /\ Depth \in [Sessions -> 0 .. MaxDepth]
    /\ Slack \in 0 .. ProcessStart - 1 /\ OwnWindow \in Nat
    /\ Earlier \subseteq [Sessions -> 0 .. ProcessStart - 1]

None == 0               \* no time

VARIABLES
    created,    \* created_at of a session's wire, None before there is one
    resumed,    \* the lines of the sessions' logs: whose, and when it was resumed
    activity,   \* last write
    dirTime,    \* modification time of the session's directory
    indexed,    \* the sessions in session_index.jsonl
    open,       \* the wire the process has open, while it writes it
    delegated,  \* the sessions whose state.json lists a second wire
    now,
    reported,   \* the session herdr reports
    startKnown, \* process_start finds when the process began
    written,    \* history: the sessions the process had open
    rivals,     \* history: what others began, and when, or resumed while the process began
    evidence,   \* resume_evidence, None without
    sup,        \* the supervisor: step, its session, attempts
    children,   \* the threads: a wire to what it is doing
    joint,      \* the coordinator: enrolled, done, flushed; history: what the summary has
    quit        \* the handle was stopped

sessionFiles == <<created, resumed, activity, dirTime, indexed, delegated>>
worldVars == <<sessionFiles, open, now, reported, startKnown, written, rivals>>
supVars == <<evidence, sup, children, joint, quit>>
kimiVars == <<worldVars, supVars>>

InOwnWindow(t) == t \in ProcessStart .. ProcessStart + OwnWindow
CreatedInOwnWindow(s) == created[s] >= ProcessStart - Slack

NewJoint == [expected |-> 0, done |-> {}, flushed |-> FALSE, first |-> {}]

KimiSessionInit ==
    /\ created \in Earlier
    /\ activity = created /\ dirTime = created
    /\ indexed = {s \in Sessions : created[s] # None}
    /\ resumed = {<<s, ProcessStart - 1>> : s \in indexed}
    /\ rivals = {<<s, created[s]>> : s \in {q \in Sessions : CreatedInOwnWindow(q)}}
    /\ open = NoKimiSession /\ delegated = {}
    /\ now = ProcessStart /\ written = {} /\ evidence = [s \in Sessions |-> None]
    /\ reported \in Ours \cup {NoKimiSession} /\ startKnown \in BOOLEAN
    /\ reported # NoKimiSession => startKnown
    /\ sup = [step |-> "attach", session |-> NoKimiSession, tries |-> 0]
    /\ children = <<>> /\ joint = NewJoint /\ quit = FALSE
-----------------------------------------------------------------------------
(* Kimi.                                                                   *)

\* A write to a session, the first of which begins it and makes its directory's entries.
Writes(s) ==
    /\ now < MaxTime /\ now' = now + 1
    /\ created' = [created EXCEPT ![s] = IF @ = None THEN now' ELSE @]
    /\ activity' = [activity EXCEPT ![s] = now']
    /\ dirTime' = [dirTime EXCEPT ![s] = IF created[s] = None THEN now' ELSE @]
    /\ UNCHANGED <<indexed, delegated, reported, startKnown, supVars>>

\* The process begins a session, or resumes one and says so in its log; the wire is
\* open only while it is written.
OpenWire(s) ==
    /\ s \in Ours /\ open = NoKimiSession /\ Writes(s)
    /\ open' = s /\ written' = written \cup {s}
    /\ resumed' = IF created[s] # None /\ s \notin written THEN resumed \cup {<<s, now'>>} ELSE resumed
    /\ UNCHANGED rivals

CloseWire ==
    /\ open # NoKimiSession /\ open' = NoKimiSession
    /\ UNCHANGED <<sessionFiles, now, reported, startKnown, written, rivals, supVars>>

\* Another process, of the same directory or of another, begins a session, resumes
\* one, or goes on.
OtherWrites(s) ==
    /\ s \in Sessions \ Ours /\ Writes(s)
    /\ resumed' \in {resumed} \cup (IF created[s] = None THEN {} ELSE {resumed \cup {<<s, now'>>}})
    /\ rivals' = IF created[s] = None \/ (resumed' # resumed /\ InOwnWindow(now'))
                 THEN rivals \cup {<<s, now'>>} ELSE rivals
    /\ UNCHANGED <<open, written>>

\* The row may be there before the wire.
IndexRow(s) ==
    /\ s \notin indexed /\ indexed' = indexed \cup {s}
    /\ UNCHANGED <<created, resumed, activity, dirTime, delegated, open, now, reported, startKnown, written, rivals, supVars>>

\* A turn delegates; the log loses the line about a resumption as it grows.
Delegate(s) ==
    /\ s \in written \ delegated /\ delegated' = delegated \cup {s}
    /\ resumed' \in {resumed, {line \in resumed : line[1] # s}}
    /\ UNCHANGED <<created, activity, dirTime, indexed, open, now, reported, startKnown, written, rivals, supVars>>

Kimi == CloseWire \/ \E s \in Sessions : OpenWire(s) \/ OtherWrites(s) \/ IndexRow(s) \/ Delegate(s)
-----------------------------------------------------------------------------
(* The locator.                                                            *)

\* An indexed session is taken from the index, another from the bucket scan; either
\* needs its wire (try_resolve_by_session_id).
ByReport == IF created[reported] # None THEN {reported} ELSE {}

ByFd == {open} \ {NoKimiSession}

Least(T) == CHOOSE t \in T : \A u \in T : t <= u

\* What the log says of a resumption while the process began.
ResumeLines(s) == {t \in ProcessStart .. ProcessStart + OwnWindow : <<s, t>> \in resumed}

\* session_resume_at: what was read once is not read again.
ResumeAt(s) ==
    IF evidence[s] # None THEN evidence[s]
    ELSE IF ResumeLines(s) # {} THEN Least(ResumeLines(s)) ELSE None

OwnedAt(s) == IF CreatedInOwnWindow(s) THEN created[s] ELSE ResumeAt(s)
IsOwn(s) == OwnedAt(s) # None

\* Mutant: the process's own sessions are preferred, but others taken without one.
OwnPreferred(S) ==
    IF ~startKnown \/ \A s \in S : ~IsOwn(s) THEN S ELSE {s \in S : IsOwn(s)}

OwnOnly(S) == IF startKnown THEN {s \in S : IsOwn(s)} ELSE S

\* abs_duration to the start of the process.
Distance(t) == IF t >= ProcessStart THEN t - ProcessStart ELSE ProcessStart - t

Closest(S) == {s \in S : \A q \in S : Distance(OwnedAt(s)) <= Distance(OwnedAt(q))}
Deepest(S) == {s \in S : \A q \in S : Depth[q] <= Depth[s]}
Newest(S, time) == {s \in S : \A q \in S : time[q] <= time[s]}

\* cwd_matches_workdir: the directory of the pane, or one above it.
Matching(S) == {s \in S : Depth[s] > 0}

\* The one of the closest evidence, then the deepest; without a start the deepest, then
\* the last active.  One whose wire is not there yet is no answer.
ByIndex ==
    LET matches == OwnOnly(Matching(indexed))
        best == IF startKnown THEN Deepest(Closest(matches)) ELSE Newest(Deepest(matches), activity)
    IN  {s \in best : created[s] # None}

\* wire_is_fresh: written since the pane was first seen.
IsFresh(s) == activity[s] >= ProcessStart - Slack

\* Without a start, what is fresh.
InBucket == {s \in Bucket : created[s] # None}
ByBucket == Newest({s \in OwnOnly(InBucket) : startKnown \/ IsFresh(s)}, dirTime)

OrElse(S, T) == IF S # {} THEN S ELSE T
Found == IF reported # NoKimiSession THEN ByReport ELSE OrElse(ByFd, OrElse(ByIndex, ByBucket))

\* The sessions whose logs that search reads.
Searched ==
    IF reported # NoKimiSession \/ ByFd # {} \/ ~startKnown THEN {}
    ELSE {s \in Matching(indexed) \cup (IF ByIndex = {} THEN InBucket ELSE {}) : ~CreatedInOwnWindow(s)}

Remembers == evidence' = [s \in Sessions |-> IF s \in Searched THEN ResumeAt(s) ELSE evidence[s]]
-----------------------------------------------------------------------------
(* The supervisor.                                                         *)

\* The first search, tried again outside of the locator; then the supervisor starts.
Attach ==
    /\ sup.step = "attach" /\ ~quit
    /\ Remembers
    /\ IF Found # {}
       THEN \E s \in Found : sup' = [sup EXCEPT !.step = "spawn", !.session = s]
       ELSE sup' = [sup EXCEPT !.tries = @ + 1, !.step = IF sup.tries + 1 < KimiAttempts THEN @ ELSE "failed"]
    /\ UNCHANGED <<worldVars, children, joint, quit>>

AttachAgain ==
    /\ sup.step = "failed" /\ ~quit /\ sup' = [sup EXCEPT !.step = "attach", !.tries = 0]
    /\ UNCHANGED <<worldVars, evidence, children, joint, quit>>

\* refresh_located_source: another session stops every thread.
Refresh ==
    /\ sup.step = "look" /\ ~quit
    /\ Remembers
    /\ \/ Found \subseteq {sup.session} /\ sup' = [sup EXCEPT !.step = "spawn"]
       \/ \E s \in Found \ {sup.session} : sup' = [sup EXCEPT !.step = "switch", !.session = s]
    /\ UNCHANGED <<worldVars, children, joint, quit>>

\* stop_child_tailers has joined them; a new coordinator.
Switch ==
    /\ sup.step = "switch" /\ children = <<>>
    /\ sup' = [sup EXCEPT !.step = "spawn"] /\ joint' = NewJoint
    /\ UNCHANGED <<worldVars, evidence, children, quit>>

Listed == {w \in {sup.session} \X {"main", "sub"} : w[2] = "sub" => sup.session \in delegated}
Pending == Listed \ DOMAIN children

\* Mutant: a thread starts before the next wire is enrolled.
SpawnEach ==
    /\ sup.step = "spawn"
    /\ IF Pending = {} THEN sup' = [sup EXCEPT !.step = "look"] /\ UNCHANGED <<children, joint>>
       ELSE /\ \E w \in Pending :
                 /\ children' = [c \in DOMAIN children \cup {w} |->
                                   IF c = w THEN (IF joint.flushed THEN "live" ELSE "replay") ELSE children[c]]
                 /\ joint' = IF joint.flushed THEN joint
                             ELSE [joint EXCEPT !.expected = @ + 1, !.first = IF children = <<>> THEN Pending ELSE @]
            /\ UNCHANGED sup
    /\ UNCHANGED <<worldVars, evidence, quit>>

\* Every wire of the batch is enrolled before any thread starts; after the summary a
\* new wire is live from its first line.
Spawn ==
    /\ sup.step = "spawn" /\ sup' = [sup EXCEPT !.step = "look"]
    /\ children' = [c \in DOMAIN children \cup Pending |->
                       IF c \in DOMAIN children THEN children[c]
                       ELSE IF joint.flushed THEN "live" ELSE "replay"]
    /\ joint' = IF joint.flushed THEN joint
                ELSE [joint EXCEPT !.expected = @ + Cardinality(Pending),
                                   !.first = IF children = <<>> THEN Pending ELSE @]
    /\ UNCHANGED <<worldVars, evidence, quit>>

Quit == ~quit /\ quit' = TRUE /\ UNCHANGED <<worldVars, evidence, sup, children, joint>>

\* The flag is looked at while it sleeps; the threads are joined.
Leave ==
    /\ quit /\ sup.step \in {"look", "attach", "failed"} /\ sup' = [sup EXCEPT !.step = "down"]
    /\ UNCHANGED <<worldVars, evidence, children, joint, quit>>

Stopping == sup.step \in {"switch", "down"}
-----------------------------------------------------------------------------
(* The threads.                                                            *)

Becomes(w, state) == children' = [children EXCEPT ![w] = state]

\* KimiReplayCoordinator.finish, at the end of the file: the last one says the summary.
Finish(w) ==
    /\ children[w] = "replay" /\ ~Stopping
    /\ LET done == joint.done \cup {w} IN
         IF Cardinality(done) = joint.expected
         THEN joint' = [joint EXCEPT !.done = done, !.flushed = TRUE] /\ Becomes(w, "live")
         ELSE joint' = [joint EXCEPT !.done = done] /\ Becomes(w, "barrier")
    /\ UNCHANGED <<worldVars, evidence, sup, quit>>

PassBarrier(w) ==
    /\ children[w] = "barrier" /\ joint.flushed /\ Becomes(w, "live")
    /\ UNCHANGED <<worldVars, evidence, sup, joint, quit>>

Stops(w) ==
    /\ Stopping
    /\ children' = [c \in DOMAIN children \ {w} |-> children[c]]
    /\ UNCHANGED <<worldVars, evidence, sup, joint, quit>>

Child(w) == Finish(w) \/ PassBarrier(w) \/ Stops(w)
Children == \E w \in DOMAIN children : Child(w)
Supervise == Attach \/ AttachAgain \/ Refresh \/ Switch \/ Spawn \/ Leave

KimiSessionNext == Kimi \/ Supervise \/ Quit \/ Children
-----------------------------------------------------------------------------
\* When the files tell that this process has a session: when it began one, or when a line
\* says it resumed one.
Visible(q) ==
    IF q \notin written \cap Matching(indexed) THEN {}
    ELSE IF CreatedInOwnWindow(q) THEN {created[q]} ELSE ResumeLines(q)

\* Which session a pane takes up: the reported one, and no other; without a report one
\* of its directory.  Where the start of the process is known, one of the process's own,
\* or one that another process began after that start or resumed just then, and only
\* while no session of its own is told to be closer to the start.  So a session left by
\* an earlier run is never taken up, but a neighbour's new one may be until the pane's
\* own is indexed, and even after when its own came later
\* (KimiLocator.locate, refresh_located_source).
TakesUp(s) ==
    IF reported # NoKimiSession THEN s = reported
    ELSE \/ s \in written
         \/ /\ Depth[s] > 0 \/ s \in Bucket
            /\ startKnown =>
                  \E t \in 1 .. now :
                     /\ <<s, t>> \in rivals
                     /\ \A q \in Sessions : \A c \in Visible(q) : Distance(t) <= Distance(c)

KimiTakes == sup'.session # sup.session => TakesUp(sup'.session)

\* The summary, which replaces the card, has every wire that was there when the session
\* was taken up; and no thread of another session runs on beside it
\* (KimiReplayCoordinator, stop_child_tailers).
OneSummary ==
    /\ joint.flushed => joint.first \subseteq joint.done
    /\ ~Stopping => \A w \in DOMAIN children : w[1] = sup.session

\* When the session stays, every wire of it is followed in the end: no thread waits at
\* the barrier for one that is gone.
WiresFollowed ==
    <>[](sup.step \in {"look", "spawn"}) =>
       <>[](Listed \subseteq DOMAIN children /\ \A w \in Listed : children[w] = "live")
=============================================================================
