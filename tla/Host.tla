---------------------------------- MODULE Host ----------------------------------
(***************************************************************************)
(* What surrounds the daemon's loop: which daemon runs, the consent it     *)
(* asks for, the directories it sweeps, the agent it finds in a pane, and  *)
(* what the commands install in files that are not the plugin's: Claude's  *)
(* settings, Herdr's configuration, and what is made again at every        *)
(* launch, and what the doctor says of it.  They share nothing; each       *)
(* behaviour is of one of them.                                            *)
(***************************************************************************)
EXTENDS Singleton, Sweep, KimiUsage, Detector, ClaudeBridge, Keybinding, Overlay, Doctor

VARIABLE part
partsVars == <<hostVars, sweepVars, usageVars, detectorVars, bridgeVars, keyVars, overlayVars, doctorVars>>
allVars == <<part, partsVars>>

Init ==
    /\ part \in {"singleton", "sweep", "usage", "detector", "bridge", "key", "overlay", "doctor"}
    /\ SingletonInit /\ SweepInit /\ KimiInit /\ DetectorInit /\ BridgeInit /\ KeyInit /\ OverlayInit /\ DoctorInit
    /\ part # "usage" => file = "none"
    /\ part # "bridge" => settings = NoFile
    /\ part # "key" => config = Missing
    /\ part # "overlay" => plugged = NotThere

SingletonPart ==
    /\ part = "singleton" /\ SingletonNext
    /\ UNCHANGED <<part, sweepVars, usageVars, detectorVars, bridgeVars, keyVars, overlayVars, doctorVars>>
SweepPart ==
    /\ part = "sweep" /\ SweepNext
    /\ UNCHANGED <<part, hostVars, usageVars, detectorVars, bridgeVars, keyVars, overlayVars, doctorVars>>
UsagePart ==
    /\ part = "usage" /\ KimiNext
    /\ UNCHANGED <<part, hostVars, sweepVars, detectorVars, bridgeVars, keyVars, overlayVars, doctorVars>>
DetectorPart ==
    /\ part = "detector" /\ DetectorNext
    /\ UNCHANGED <<part, hostVars, sweepVars, usageVars, bridgeVars, keyVars, overlayVars, doctorVars>>
BridgePart ==
    /\ part = "bridge" /\ BridgeNext
    /\ UNCHANGED <<part, hostVars, sweepVars, usageVars, detectorVars, keyVars, overlayVars, doctorVars>>
KeyPart ==
    /\ part = "key" /\ KeyNext
    /\ UNCHANGED <<part, hostVars, sweepVars, usageVars, detectorVars, bridgeVars, overlayVars, doctorVars>>
OverlayPart ==
    /\ part = "overlay" /\ OverlayNext
    /\ UNCHANGED <<part, hostVars, sweepVars, usageVars, detectorVars, bridgeVars, keyVars, doctorVars>>
DoctorPart ==
    /\ part = "doctor" /\ DoctorNext
    /\ UNCHANGED <<part, hostVars, sweepVars, usageVars, detectorVars, bridgeVars, keyVars, overlayVars>>

Next ==
    \/ SingletonPart \/ SweepPart \/ UsagePart
    \/ DetectorPart \/ BridgePart \/ KeyPart \/ OverlayPart \/ DoctorPart

Spec == Init /\ [][Next]_allVars /\ KimiFairness
-----------------------------------------------------------------------------
\* What the commands leave of the operator's files, once each of them ended: the operator's own
\* settings and lines, a record that undoes them (agents/bridge_settings.rs), and only whole
\* files of a launch or of the plugin in use (agents/opencode/install.rs, overlay.rs); and when
\* nothing comes of an install, the doctor names why (agents/doctor.rs).
InstallsAreClean == OperatorsKept /\ Undoable /\ WholeWhenUsed /\ KeyAgrees /\ LossIsNamed
=============================================================================
