-------------------------------- MODULE Doctor --------------------------------
(***************************************************************************)
(* The doctor (agents/doctor.rs, claude_bridge.rs doctor_report): what it  *)
(* says of each Claude pane of one directory, and what comes of a pane's   *)
(* status line there.  The status line that runs is that of the highest    *)
(* settings tier; the script asks the daemon where to write (routes.rs),   *)
(* and so does the doctor, with the session herdr names.  A report is made *)
(* of one moment.  Hooks, configuration files and wording are left out.    *)
(***************************************************************************)
EXTENDS Integers, Sequences, FiniteSets, SequencesExt

CONSTANTS
    ClaudePanes,  \* each its number, by its digits
    MaxDoings     \* of the operator and of herdr: edits, launches, restarts

ASSUME PaneAssumption == ClaudePanes \subseteq Seq(0 .. 9)

VARIABLES
    tiers,      \* the project's two settings files: whose status line each has
    installed,  \* the user's settings and the scripts: "yes", "disabled", "broken"
    up,         \* the daemon answers
    claudes,    \* the processes, in the order of their pids
    told,       \* herdr's session of each pane
    routes,     \* the daemon's
    refused,    \* panes the daemon turned away
    written,    \* the status files that tell a window size
    rendered,   \* history: what came of a pane's last render since anything changed
    doings

doctorVars == <<tiers, installed, up, claudes, told, routes, refused, written, rendered, doings>>

NoSession == 0
Sessions == {1, 2}
Tiers == {"local", "shared"}

DoctorInit ==
    /\ tiers = [t \in Tiers |-> "none"] /\ installed = "yes" /\ up = TRUE
    /\ claudes = <<>> /\ refused = {} /\ written = {} /\ doings = 0
    /\ told = [p \in ClaudePanes |-> NoSession] /\ routes = told
    /\ rendered = [p \in ClaudePanes |-> "no"]

Unrendered == [p \in ClaudePanes |-> "no"]
-----------------------------------------------------------------------------
(* What the doctor reads.                                                  *)

\* The first status line from the directory up to the user's tier.
shadowing_status_line ==
    CASE tiers["local"] # "none" -> "local"
      [] tiers["local"] = "none" /\ tiers["shared"] # "none" -> "shared"
      [] OTHER -> "none"

\* The first process with a variable that begins like the pane's: another pane's number may.
process_argv_for_pane(p) ==
    LET found == {i \in DOMAIN claudes : IsPrefix(p, claudes[i].pane)}
    IN  IF found = {} THEN 0 ELSE CHOOSE i \in found : \A j \in found : i <= j
argv_shadows(p) == process_argv_for_pane(p) # 0 /\ claudes[process_argv_for_pane(p)].flags

\* routes.resolve: the answer, and what the daemon remembers of it.
Resolves(p, session) == up /\ routes[p] # NoSession /\ routes[p] = session
Remembered(p, session) ==
    CASE ~up \/ routes[p] = NoSession -> refused
      [] up /\ routes[p] # NoSession /\ routes[p] # session -> refused \cup {p}
      [] OTHER -> refused \ {p}

window_size(p) == Resolves(p, told[p]) /\ <<p, told[p]>> \in written

\* run, of one pane.
Verdict(p) ==
    LET shadow == shadowing_status_line # "none" IN
    CASE ~shadow /\ ~argv_shadows(p) /\ up /\ p \in refused -> "refused"
      [] shadow -> "shadowed"
      [] ~shadow /\ argv_shadows(p) -> "flags"
      [] ~shadow /\ ~argv_shadows(p) /\ ~(up /\ p \in refused) /\ told[p] = NoSession -> "no session"
      [] OTHER -> IF window_size(p) THEN "reporting" ELSE "wait"

Shown == {claudes[i].pane : i \in DOMAIN claudes}     \* herdr has a Claude in them
ChecksPass == up /\ installed = "yes" /\ \A p \in Shown : Verdict(p) \notin {"shadowed", "flags"}
Green == ChecksPass /\ \A p \in Shown : Verdict(p) = "reporting"

\* The report asks the daemon for every pane with a session.
Diagnose ==
    /\ LET asked == {p \in Shown : told[p] # NoSession}
       IN  refused' = {p \in ClaudePanes : IF p \in asked THEN p \in Remembered(p, told[p]) ELSE p \in refused}
    /\ rendered' = [p \in ClaudePanes |-> IF p \in refused \ refused' THEN "forgotten" ELSE rendered[p]]
    /\ UNCHANGED <<tiers, installed, up, claudes, told, routes, written, doings>>
-----------------------------------------------------------------------------
(* A status line is rendered.                                              *)

\* Claude runs the project's line, the local one first, before the user's; flags may leave out
\* the user's tier. The line of the remedy runs the script, and behind it the project's.
OursRuns(process) ==
    LET line == CASE tiers["local"] # "none" -> tiers["local"] [] tiers["local"] = "none" -> tiers["shared"]
    IN  CASE line = "none"   -> ~process.flags /\ installed = "yes"
          [] line = "theirs" -> FALSE
          [] OTHER           -> installed # "broken"

Render(process) ==
    LET p == process.pane
        through == OursRuns(process) /\ Resolves(p, process.session)
    IN  /\ refused' = IF OursRuns(process) THEN Remembered(p, process.session) ELSE refused
        /\ written' \in {written, written \cup (IF through THEN {<<p, process.session>>} ELSE {})}
        /\ rendered' = [rendered EXCEPT ![p] = IF through THEN "through" ELSE "lost"]
        /\ UNCHANGED <<tiers, installed, up, claudes, told, routes, doings>>

\* A hook asks for the same directory, and is turned away as well.
AskFromHook(process) ==
    /\ ~process.flags /\ installed = "yes"
    /\ refused' = Remembered(process.pane, process.session)
    /\ UNCHANGED <<tiers, installed, up, claudes, told, routes, written, rendered, doings>>
-----------------------------------------------------------------------------
(* The operator, herdr and the daemon.                                     *)

Does == doings < MaxDoings /\ doings' = doings + 1 /\ UNCHANGED <<told, written>>

EditTier ==
    /\ \E t \in Tiers, line \in {"none", "theirs"} : tiers' = [tiers EXCEPT ![t] = line]
    /\ rendered' = Unrendered /\ Does /\ UNCHANGED <<installed, up, claudes, routes, refused>>

\* settings_local_block: the line that shadows, behind the script.
Paste ==
    /\ Shown # {} /\ shadowing_status_line # "none"
    /\ tiers' = [tiers EXCEPT !["local"] = IF tiers[shadowing_status_line] = "theirs" THEN "chained" ELSE "twice"]
    /\ rendered' = Unrendered /\ Does /\ UNCHANGED <<installed, up, claudes, routes, refused>>

Install ==
    /\ installed' \in {"yes", "disabled", "broken"} \ {installed}
    /\ rendered' = Unrendered /\ Does /\ UNCHANGED <<tiers, up, claudes, routes, refused>>

\* One Claude runs in a pane at a time.
Others(p) ==
    LET own == {i \in DOMAIN claudes : claudes[i].pane = p}
    IN  IF own = {} THEN claudes ELSE RemoveAt(claudes, CHOOSE i \in own : TRUE)
Launch(p) ==
    /\ \/ \E session \in Sessions, flags \in BOOLEAN :
             claudes' = Append(Others(p), [pane |-> p, session |-> session, flags |-> flags])
       \/ p \in Shown /\ claudes' = Others(p)
    /\ rendered' = [rendered EXCEPT ![p] = "no"] /\ Does /\ UNCHANGED <<tiers, installed, up, routes, refused>>

DaemonRestarts ==
    /\ up' = ~up /\ routes' = [p \in ClaudePanes |-> NoSession] /\ refused' = {}
    /\ rendered' = Unrendered /\ Does /\ UNCHANGED <<tiers, installed, claudes>>

SessionIn(p) == IF p \in Shown THEN (CHOOSE process \in Range(claudes) : process.pane = p).session ELSE NoSession
\* herdr hears of a session from the session itself.
Tell(p) ==
    /\ told' = [told EXCEPT ![p] =
          SessionIn(p)]
    /\ UNCHANGED <<tiers, installed, up, claudes, routes, refused, written, rendered, doings>>

\* A bind or unbind of the daemon's loop: unbinding forgets that the pane was refused.
Reconcile(p) ==
    /\ up /\ routes[p] # told[p]
    /\ routes' = [routes EXCEPT ![p] = told[p]]
    /\ refused' = IF routes[p] = NoSession THEN refused ELSE refused \ {p}
    /\ rendered' = [rendered EXCEPT ![p] = "no"]
    /\ UNCHANGED <<tiers, installed, up, claudes, told, written, doings>>

DoctorNext ==
    \/ Diagnose \/ EditTier \/ Paste \/ Install \/ DaemonRestarts
    \/ \E i \in DOMAIN claudes : Render(claudes[i]) \/ AskFromHook(claudes[i])
    \/ \E p \in ClaudePanes : Launch(p) \/ Tell(p) \/ Reconcile(p)
-----------------------------------------------------------------------------
\* "Doctor names the cause" (README): a pane the daemon follows whose last status line came to
\* nothing is not told to wait, nor that it reports, while the checks pass: the tier, the flags,
\* the refusal or what is broken is named, even over the file an earlier session left. Not
\* so once the doctor's own question made the daemon forget the refusal, nor for the flags of
\* a pane whose number another running pane's begins with.
OwnArgv(p) == \A i \in DOMAIN claudes : IsPrefix(p, claudes[i].pane) => claudes[i].pane = p
LossIsNamed ==
    \A p \in ClaudePanes :
        (rendered[p] = "lost" /\ routes[p] # NoSession /\ OwnArgv(p)) =>
            Verdict(p) \notin {"wait", "reporting"} \/ ~up \/ installed # "yes"

\* "Doctor never reports green on an incomplete picture" (DESIGN.md 8).
GreenIsTrue == Green => \A p \in Shown : rendered[p] \notin {"lost", "forgotten"}

\* The block it prints is the remedy: where it was pasted, no pane is shadowed any more.
RemedyCures == tiers["local"] = "chained" => \A p \in Shown : Verdict(p) # "shadowed"
=============================================================================
