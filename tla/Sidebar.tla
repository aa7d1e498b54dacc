-------------------------------- MODULE Sidebar --------------------------------
(***************************************************************************)
(* The sidebar: the cards under the keys and the mouse, the panels over    *)
(* them, and the lines both are drawn with.  A panel takes every key and   *)
(* every click while it is open (tui.rs route, route_mouse), and the width *)
(* of a line depends on neither, so a behaviour is about one of them; so   *)
(* is replacing the plugin, of which SidebarPanels has the keys alone.     *)
(***************************************************************************)
EXTENDS SidebarCards, SidebarPanels, CardView, Release

VARIABLE part
sidebarVars == <<part, cardVars, panelVars, viewVars, releaseVars>>

Parts == {"cards", "panels", "lines", "upgrade"}

First(S) == CHOOSE e \in S : TRUE

Init ==
    /\ part \in Parts /\ CardInit /\ PanelInit /\ ViewInit /\ ReleaseInit
    /\ part = "cards" \/ (hideIdle = FALSE /\ frame = First(Heights))
    /\ part = "panels" \/ (file.daemon = Defaults /\ ~file.missing)
    /\ part = "lines" \/ width = First(Widths)
    /\ part = "upgrade" \/ source = "linked"

Next ==
    \/ part = "cards" /\ CardNext /\ UNCHANGED <<part, panelVars, viewVars, releaseVars>>
    \/ part = "panels" /\ PanelNext /\ UNCHANGED <<part, cardVars, viewVars, releaseVars>>
    \/ part = "lines" /\ ViewNext /\ UNCHANGED <<part, cardVars, panelVars, releaseVars>>
    \/ part = "upgrade" /\ ReleaseNext /\ UNCHANGED <<part, cardVars, panelVars, viewVars>>

\* A thread ends, for each of its calls has an end, and the loop polls what it waits for.
Fairness ==
    LET settles(step) == part = "panels" /\ step /\ UNCHANGED <<part, cardVars, viewVars, releaseVars>>
    IN  /\ WF_panelVars(settles(SaveStep))
        /\ WF_panelVars(settles(ThreadStep))
        /\ WF_panelVars(settles(Poll \/ Reexec))

Spec == Init /\ [][Next]_sidebarVars /\ Fairness
-----------------------------------------------------------------------------
\* What the panels claim is so: settings the sidebar wrote itself are accepted when it reads
\* them again, versions compare as their numbers do, and the sidebar and the daemon an
\* upgrade leaves are of one build, the offered one.
PanelsAreTrue == OwnWritesAccepted /\ VersionsAreNumbers /\ UpgradesAgree
================================================================================
