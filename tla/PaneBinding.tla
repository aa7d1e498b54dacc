---------------------------- MODULE PaneBinding ----------------------------
(***************************************************************************)
(* One pane in the daemon's reconcile loop (daemon/run.rs, reconcile.rs),  *)
(* with what a binding consists of: the adapter's watcher                  *)
(* (agents/sidecar.rs), the pane's card (daemon/store.rs), its route       *)
(* (daemon/routes.rs), and the status file that the agent's processes      *)
(* write after asking the daemon for its path (agents/claude_bridge.rs,    *)
(* daemon/state_server.rs).                                                *)
(*                                                                         *)
(* Panes share nothing but the order in which one loop serves them, so one *)
(* pane is modelled.  A session stands for an agent id with its session    *)
(* id; those in Adopted are of Claude Code, whose processes report through *)
(* the status line, the others of an agent no adapter takes.  A status is  *)
(* the session whose process wrote it.  The pane keeps its working         *)
(* directory, so its status file is one file whatever the session.         *)
(***************************************************************************)
EXTENDS Naturals

CONSTANTS
    Sessions,       \* agent sessions the pane may be reported with
    Adopted,        \* those of an agent the registry has an adapter for
    None,           \* no session
    CallbackJoined  \* stopping a watcher waits for its file callback (macOS)

ASSUME BindingAssumption ==
    /\ Adopted \subseteq Sessions
    /\ None \notin Sessions
    /\ CallbackJoined \in BOOLEAN

VARIABLES
    listed,  \* herdr: the session it lists the pane with, "bare" or "gone"
    up,      \* the daemon runs
    step,    \* where its loop is with the pane
    plan,    \* the session being bound, None for an unbind
    bound,   \* the loop's binding
    card,    \* the pane's card: session it was made for, status it shows
    watcher, \* the session the adapter watches for
    route,   \* the session status-path requests are answered for
    refusal, \* the refusal recorded for the pane
    reading, \* the status a callback has read and not recorded yet
    file,    \* the status in the pane's status file
    writer,  \* each session's process: where its status-path request is
    against  \* the binding a request is being refused for

herdr    == <<listed, up>>
loop     == <<step, plan, bound>>
binding  == <<card, watcher, route>>
requests == <<writer, against>>
vars == <<herdr, loop, binding, refusal, reading, file, requests>>

NoCard    == [of |-> None, shows |-> None]
NoRefusal == [offered |-> None, bound |-> None]
Fresh(s)  == [of |-> s, shows |-> None]

Init ==
    /\ listed = "gone" /\ up = TRUE
    /\ step = "rest" /\ plan = None /\ bound = None
    /\ card = NoCard /\ watcher = None /\ route = None
    /\ refusal = NoRefusal /\ reading = None /\ file = None
    /\ writer = [s \in Sessions |-> "quiet"]
    /\ against = [s \in Sessions |-> None]

-----------------------------------------------------------------------------
(* herdr and the daemon's life.                                            *)

HerdrReports(x) ==
    /\ listed # x /\ listed' = x
    /\ UNCHANGED <<up, loop, binding, refusal, reading, file, requests>>

\* The daemon goes down, by a signal, a crash or because herdr is gone: what it
\* held in memory and the requests it was serving are lost.
Exit ==
    /\ up /\ up' = FALSE
    /\ step' = "rest" /\ plan' = None /\ bound' = None
    /\ card' = NoCard /\ watcher' = None /\ route' = None
    /\ refusal' = NoRefusal /\ reading' = None
    /\ writer' = [s \in Sessions |->
                    IF writer[s] = "granted" THEN "granted" ELSE "quiet"]
    /\ against' = [s \in Sessions |-> None]
    /\ UNCHANGED <<listed, file>>

Restart ==
    /\ ~up /\ up' = TRUE
    /\ UNCHANGED <<listed, loop, binding, refusal, reading, file, requests>>

-----------------------------------------------------------------------------
(* One pass of the loop over the pane.  Bindings::diff compares the listed *)
(* pane with the binding; a pane listed without a session keeps it.        *)

At(where) == up /\ step = where

SeesUnbind ==
    /\ At("rest") /\ bound # None /\ listed = "gone"
    /\ step' = "unbinding" /\ plan' = None
    /\ UNCHANGED <<herdr, bound, binding, refusal, reading, file, requests>>

\* Mutant: an adapter is given the new session with the old one still bound.
RebindInPlace ==
    /\ At("rest") /\ bound # None /\ listed \in Sessions \ {bound}
    /\ step' = (IF listed \in Adopted THEN "unbound" ELSE "unbinding")
    /\ plan' = listed
    /\ UNCHANGED <<herdr, bound, binding, refusal, reading, file, requests>>

SeesRebind ==
    /\ At("rest") /\ bound # None /\ listed \in Sessions \ {bound}
    /\ step' = "unbinding" /\ plan' = listed
    /\ UNCHANGED <<herdr, bound, binding, refusal, reading, file, requests>>

\* bind_pane: the card comes first.  Without an adapter the pane is skipped.
SeesBind ==
    /\ At("rest") /\ bound = None /\ listed \in Adopted
    /\ step' = "seeding" /\ plan' = listed
    /\ card' = [card EXCEPT !.of = listed]
    /\ UNCHANGED <<herdr, bound, watcher, route, refusal, reading, file, requests>>

\* adapter.unbind: the watcher leaves its map and its threads are joined.
StopWatcher ==
    /\ At("unbinding")
    /\ step' = "stopping" /\ watcher' = None
    /\ UNCHANGED <<herdr, plan, bound, card, route, refusal, reading, file, requests>>

\* The stop task panicked: the pass gives the pane up with its binding as it
\* was, and the next one tries again.
UnbindFails ==
    /\ At("stopping") /\ watcher' = None
    /\ step' = "rest" /\ plan' = None
    /\ UNCHANGED <<herdr, bound, card, route, refusal, reading, file, requests>>

\* BridgeRoutes::unbind takes two locks in turn.
RemoveRoute ==
    /\ At("stopping")
    /\ CallbackJoined => reading = None
    /\ step' = "unrouting" /\ route' = None
    /\ UNCHANGED <<herdr, plan, bound, card, watcher, refusal, reading, file, requests>>

RemoveRefusal ==
    /\ At("unrouting")
    /\ step' = "unbound" /\ refusal' = NoRefusal
    /\ UNCHANGED <<herdr, plan, bound, binding, reading, file, requests>>

\* An unbind ends with the card; so does a rebind to an agent of no adapter.
ForgetPane ==
    /\ At("unbound") /\ plan \notin Adopted
    /\ step' = "rest" /\ plan' = None /\ bound' = None
    /\ card' = NoCard
    /\ UNCHANGED <<herdr, watcher, route, refusal, reading, file, requests>>

\* rebind: the binding is forgotten and the card swapped for a fresh one.
ReplaceSession ==
    /\ At("unbound") /\ plan \in Adopted
    /\ step' = "seeding" /\ bound' = None
    /\ card' = Fresh(plan)
    /\ UNCHANGED <<herdr, plan, watcher, route, refusal, reading, file, requests>>

\* seed_claude_status writes the session's status, unless the file has it or
\* there is no transcript to name.
Seed ==
    /\ At("seeding")
    /\ file' \in {file, plan}
    /\ step' = "starting"
    /\ UNCHANGED <<herdr, plan, bound, binding, refusal, reading, requests>>

\* The watcher's inline read records what the file holds before it is inserted.
StartWatcher ==
    /\ At("starting")
    /\ watcher' = plan
    /\ card' = [card EXCEPT !.shows = IF file = None THEN @ ELSE file]
    /\ step' = "routing"
    /\ UNCHANGED <<herdr, plan, bound, route, refusal, reading, file, requests>>

\* Mutant: a failed bind is applied all the same.
BindFailsApplied ==
    /\ up /\ step \in {"seeding", "starting"}
    /\ step' = "rest" /\ plan' = None /\ bound' = plan
    /\ card' = NoCard /\ route' = None /\ refusal' = NoRefusal
    /\ UNCHANGED <<herdr, watcher, reading, file, requests>>

\* No watcher was started: the rollback unbind finds none and drops the route;
\* no half-bound card stays.
BindFails ==
    /\ up /\ step \in {"seeding", "starting"}
    /\ step' = "rest" /\ plan' = None
    /\ card' = NoCard /\ route' = None /\ refusal' = NoRefusal
    /\ UNCHANGED <<herdr, bound, watcher, reading, file, requests>>

BindRoute ==
    /\ At("routing")
    /\ route' = plan /\ bound' = plan
    /\ step' = "rest" /\ plan' = None
    /\ UNCHANGED <<herdr, card, watcher, refusal, reading, file, requests>>

-----------------------------------------------------------------------------
(* The watcher's callback.                                                 *)

ReadStatus ==
    /\ watcher # None /\ reading = None /\ file # None
    /\ reading' = file
    /\ UNCHANGED <<herdr, loop, binding, refusal, file, requests>>

\* Mutant: an event makes a card where there is none.
RecordCreates ==
    /\ reading # None
    /\ card' = [card EXCEPT !.shows = reading]
    /\ reading' = None
    /\ UNCHANGED <<herdr, loop, watcher, route, refusal, file, requests>>

\* mutate_existing: a late event does not bring the card back.
Record ==
    /\ reading # None
    /\ card' = IF card = NoCard THEN NoCard ELSE [card EXCEPT !.shows = reading]
    /\ reading' = None
    /\ UNCHANGED <<herdr, loop, watcher, route, refusal, file, requests>>

-----------------------------------------------------------------------------
(* A status-line process of any session the pane has had.  A retired one   *)
(* keeps rendering.  BridgeRoutes::resolve compares the session under one  *)
(* lock and reads the watcher's path, and the refusals, under others.      *)

Ask(s) ==
    /\ up /\ writer[s] = "quiet" /\ route # None
    /\ \/ /\ route = s
          /\ writer' = [writer EXCEPT ![s] = "matched"] /\ UNCHANGED against
       \/ /\ route # s
          /\ writer' = [writer EXCEPT ![s] = "refused"]
          /\ against' = [against EXCEPT ![s] = route]
    /\ UNCHANGED <<herdr, loop, binding, refusal, reading, file>>

Refuse(s) ==
    /\ writer[s] = "refused"
    /\ refusal' = [offered |-> s, bound |-> against[s]]
    /\ writer' = [writer EXCEPT ![s] = "quiet"]
    /\ against' = [against EXCEPT ![s] = None]
    /\ UNCHANGED <<herdr, loop, binding, reading, file>>

LookUp(s) ==
    /\ writer[s] = "matched"
    /\ writer' = [writer EXCEPT ![s] = IF watcher = None THEN "quiet" ELSE "found"]
    /\ UNCHANGED <<herdr, loop, binding, refusal, reading, file, against>>

Grant(s) ==
    /\ writer[s] = "found"
    /\ refusal' = NoRefusal
    /\ writer' = [writer EXCEPT ![s] = "granted"]
    /\ UNCHANGED <<herdr, loop, binding, reading, file, against>>

WriteStatus(s) ==
    /\ writer[s] = "granted"
    /\ file' = s
    /\ writer' = [writer EXCEPT ![s] = "quiet"]
    /\ UNCHANGED <<herdr, loop, binding, refusal, reading, against>>

-----------------------------------------------------------------------------
Pass ==
    \/ SeesUnbind \/ SeesRebind \/ SeesBind
    \/ StopWatcher \/ RemoveRoute \/ RemoveRefusal
    \/ ForgetPane \/ ReplaceSession
    \/ Seed \/ StartWatcher \/ BindRoute

Failure == UnbindFails \/ BindFails

Request(s) == Ask(s) \/ Refuse(s) \/ LookUp(s) \/ Grant(s) \/ WriteStatus(s)

Next ==
    \/ \E x \in Sessions \cup {"bare", "gone"} : HerdrReports(x)
    \/ Exit \/ Restart
    \/ Pass \/ Failure
    \/ ReadStatus \/ Record
    \/ \E s \in Sessions : Request(s)

Spec == Init /\ [][Next]_vars

(* The loop goes on, and a callback finishes what it has read.  A step     *)
(* that can fail succeeds if it is tried again and again: each pass of the *)
(* loop retries what the last one could not do.                            *)
FairSpec ==
    /\ Spec
    /\ WF_vars(SeesUnbind \/ SeesRebind \/ SeesBind)
    /\ WF_vars(StopWatcher) /\ SF_vars(RemoveRoute) /\ WF_vars(RemoveRefusal)
    /\ WF_vars(ForgetPane \/ ReplaceSession)
    /\ SF_vars(Seed) /\ SF_vars(StartWatcher) /\ WF_vars(BindRoute)
    /\ WF_vars(Record)

-----------------------------------------------------------------------------
(* Properties.                                                             *)

\* Every variable has its type (the maps of Bindings, BridgeRoutes,
\* AgentWatcherState and TelemetryStore, for one pane).
TypeOK ==
    LET Session == Sessions \cup {None}
    IN  /\ listed \in Sessions \cup {"bare", "gone"} /\ up \in BOOLEAN
        /\ step \in {"rest", "unbinding", "stopping", "unrouting", "unbound",
                     "seeding", "starting", "routing"}
        /\ plan \in Session /\ bound \in Session /\ watcher \in Session
        /\ route \in Session /\ reading \in Session /\ file \in Session
        /\ card \in [of : Session, shows : Session]
        /\ refusal \in {NoRefusal} \cup [offered : Sessions, bound : Sessions]
        /\ writer \in [Sessions -> {"quiet", "matched", "refused", "found", "granted"}]
        /\ against \in [Sessions -> Session]

\* Between passes the loop's binding, the card and the route are those of one
\* session, whatever failed or arrived late; the watcher is that session's too,
\* unless a stop panicked and is yet to be retried (bind_pane, rebind, record).
RestIsWhole ==
    step = "rest" =>
        /\ card.of = bound /\ route = bound
        /\ watcher \in {bound, None}
        /\ bound = None => card = NoCard

\* A watcher is started only on a pane that has none (rebind: "the only order
\* that cannot leave two watchers on one pane").
OneWatcher ==
    [][watcher' \notin {watcher, None} => watcher = None /\ route = None]_vars

\* The binding, the card and the route are those herdr's report asks for.  The
\* watcher may be missing: a stop that panicked for another session and was not
\* yet retried when herdr reported the old session again.
AsReported ==
    LET s == IF listed \in Adopted THEN listed ELSE None
    IN  bound = s /\ card.of = s /\ route = s /\ watcher \in {s, None}

\* Once herdr's report stays the same and the daemon stays up, the pane ends up
\* as reported, through any failures on the way (Bindings::diff retries what was
\* not applied).  A pane listed without a session keeps what it has.
Settles ==
    <>[][UNCHANGED herdr]_vars => <>[](AsReported \/ ~up \/ listed = "bare")

\* A retired process does not overwrite the status of the session its pane is
\* bound to now (DESIGN.md section 4).
RetiredIsHarmless == [][file' # file => route \in {None, file'}]_vars

\* A recorded refusal is about the session the pane is bound to (routes.rs:
\* an unbound pane is not a refusal).
RefusalIsCurrent == refusal # NoRefusal /\ step = "rest" => refusal.bound = route
=============================================================================
