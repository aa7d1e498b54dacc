------------------------------ MODULE HostProofs ------------------------------
(***************************************************************************)
(* Proofs about Host, for any number of claimants, sweepers, launches and  *)
(* daemons, and any keys: a takeover never leaves the host without a       *)
(* daemon, consent that was taken back is not used, a sweep keeps what is  *)
(* young, what is made again at every launch is whole when it is used, a   *)
(* key in Herdr's configuration is recorded, agrees with the setting and   *)
(* costs the operator nothing, what enable puts into Claude's settings can *)
(* be taken out with nothing of the operator's lost, the doctor names why  *)
(* a status line came to nothing, and a pane's agent is the outermost one. *)
(*                                                                         *)
(* Each part has an invariant of its own, for the parts share nothing.     *)
(***************************************************************************)
EXTENDS Host, TLAPS, FiniteSetTheorems, SequenceTheorems
-----------------------------------------------------------------------------
(* Which daemon runs.                                                      *)

\* Where a claimant is that has the lock.
WithLock == {"remove", "bind", "serving", "leaving", "unlock"}
Spots == {"new", "request", "waiting", "gave up", "gone"} \cup WithLock

SingletonTypes ==
    /\ at \in [Claimants -> Spots]
    /\ holder \in Claimants \cup {Nobody} /\ control \in Claimants \cup {Nobody}
    /\ listening \subseteq Claimants /\ asked \subseteq listening /\ leaving \subseteq Claimants
    /\ left \in [Claimants -> Nat]
    /\ mishaps.ended \in BOOLEAN

\* One claimant has the lock, and only a daemon that serves and was not told to
\* leave listens, at the control path.
OneHolder ==
    /\ \A c \in Claimants : at[c] \in WithLock <=> holder = c
    /\ \A c \in listening : at[c] = "serving" /\ c \notin leaving /\ control = c
    /\ \A c \in leaving : at[c] \in {"serving", "leaving", "unlock", "gone"}

\* Somebody waits for longer.
Outlasted(ticks) == \E w \in Claimants : at[w] = "waiting" /\ left[w] > ticks

\* A daemon that leaves on request is outlasted by one that asked it to.
Patience ==
    ~mishaps.ended =>
      /\ asked # {} => Outlasted(SlowestShutdown)
      /\ \A c \in leaving : at[c] = "serving" => Outlasted(SlowestShutdown)
      /\ \A c \in Claimants : at[c] = "leaving" => Outlasted(left[c])
      /\ \A c \in Claimants : at[c] = "unlock" => Outlasted(0)
      /\ (\E c \in Claimants : at[c] # "new") =>
            \E c \in Claimants : at[c] \in WithLock \cup {"request", "waiting"}

SingletonInv == SingletonTypes /\ OneHolder /\ Patience

\* A claimant is somewhere, and only daemons that listen are asked.
LEMMA StepSingletonTypes ==
    SingletonTypes /\ OneHolder /\ [SingletonNext]_hostVars => SingletonTypes'
<1> SUFFICES ASSUME SingletonTypes, OneHolder, [SingletonNext]_hostVars
             PROVE  SingletonTypes'
  OBVIOUS
<1> USE ShutdownFits, ClaimantAssumption DEF SingletonTypes, OneHolder, Moves
<1>1. ASSUME NEW c \in Claimants, TryLock(c) PROVE SingletonTypes'
  BY <1>1 DEF TryLock, WithLock, Spots
<1>2. ASSUME NEW c \in Claimants, Request(c) PROVE SingletonTypes'
  BY <1>2 DEF Request, Deadline, WithLock, Spots
<1>3. ASSUME NEW c \in Claimants, Acquire(c) PROVE SingletonTypes'
  BY <1>3 DEF Acquire, WithLock, Spots
<1>4. ASSUME NEW c \in Claimants, RemoveControl(c) PROVE SingletonTypes'
  BY <1>4 DEF RemoveControl, WithLock, Spots
<1>5. ASSUME NEW c \in Claimants, BindControl(c) PROVE SingletonTypes'
  BY <1>5 DEF BindControl, WithLock, Spots
<1>6. ASSUME NEW c \in Claimants, Accept(c) PROVE SingletonTypes'
  BY <1>6 DEF Accept, WithLock, Spots
<1>7. ASSUME NEW c \in Claimants, BeginLeaving(c) PROVE SingletonTypes'
  <2>1. PICK t \in 0 .. SlowestShutdown : left' = [left EXCEPT ![c] = t]
    BY <1>7 DEF BeginLeaving
  <2>2. left' \in [Claimants -> Nat]  BY <2>1
  <2>3. QED  BY <1>7, <2>2 DEF BeginLeaving, Spots, WithLock
<1>8. ASSUME NEW c \in Claimants, RemoveSocket(c) PROVE SingletonTypes'
  BY <1>8 DEF RemoveSocket, WithLock, Spots
<1>9. ASSUME NEW c \in Claimants, Unlock(c) PROVE SingletonTypes'
  BY <1>9 DEF Unlock, WithLock, Spots
<1>10. ASSUME NEW c \in Claimants, Leaves(c) PROVE SingletonTypes'
  BY <1>10 DEF Leaves, Mishap, WithLock, Spots
<1>11. ASSUME NEW c \in Claimants, ListenerBreaks(c) PROVE SingletonTypes'
  BY <1>11 DEF ListenerBreaks, Mishap, WithLock, Spots
<1>12. ASSUME NEW c \in Claimants, Dies(c) PROVE SingletonTypes'
  BY <1>12 DEF Dies, Mishap, WithLock, Spots
<1>13. CASE Tick
  <2>1. left' \in [Claimants -> Nat]
    <3>1. \A c \in Claimants : left[c] \in Nat /\ (left[c] > 0 => left[c] - 1 \in Nat)
      OBVIOUS
    <3>2. QED  BY <1>13, <3>1 DEF Tick
  <2>2. QED  BY <1>13, <2>1 DEF Tick
<1>14. CASE UNCHANGED hostVars  BY <1>14 DEF hostVars
<1>15. QED  BY <1>1, <1>2, <1>3, <1>4, <1>5, <1>6, <1>7, <1>8, <1>9, <1>10, <1>11,
       <1>12, <1>13, <1>14 DEF SingletonNext, Step

\* The lock changes hands only when it is free, and the path of the
\* control socket goes with the daemon that bound it.
LEMMA StepOneHolder ==
    SingletonTypes /\ OneHolder /\ [SingletonNext]_hostVars => OneHolder'
<1> SUFFICES ASSUME SingletonTypes, OneHolder, [SingletonNext]_hostVars
             PROVE  OneHolder'
  OBVIOUS
<1> USE ShutdownFits, ClaimantAssumption DEF SingletonTypes, OneHolder, Moves
<1>1. ASSUME NEW c \in Claimants, TryLock(c) PROVE OneHolder'
  BY ZenonT(30), <1>1 DEF TryLock, WithLock, Spots
<1>2. ASSUME NEW c \in Claimants, Request(c) PROVE OneHolder'
  BY <1>2 DEF Request, Deadline, WithLock, Spots
<1>3. ASSUME NEW c \in Claimants, Acquire(c) PROVE OneHolder'
  BY ZenonT(30), <1>3 DEF Acquire, WithLock, Spots
<1>4. ASSUME NEW c \in Claimants, RemoveControl(c) PROVE OneHolder'
  BY <1>4 DEF RemoveControl, WithLock, Spots
<1>5. ASSUME NEW c \in Claimants, BindControl(c) PROVE OneHolder'
  BY ZenonT(30), <1>5 DEF BindControl, WithLock, Spots
<1>6. ASSUME NEW c \in Claimants, Accept(c) PROVE OneHolder'
  BY <1>6 DEF Accept, WithLock, Spots
<1>7. ASSUME NEW c \in Claimants, BeginLeaving(c) PROVE OneHolder'
  BY <1>7 DEF BeginLeaving, WithLock, Spots
<1>8. ASSUME NEW c \in Claimants, RemoveSocket(c) PROVE OneHolder'
  BY <1>8 DEF RemoveSocket, WithLock, Spots
<1>9. ASSUME NEW c \in Claimants, Unlock(c) PROVE OneHolder'
  BY <1>9 DEF Unlock, WithLock, Spots
<1>10. ASSUME NEW c \in Claimants, Leaves(c) PROVE OneHolder'
  BY <1>10 DEF Leaves, Mishap, WithLock, Spots
<1>11. ASSUME NEW c \in Claimants, ListenerBreaks(c) PROVE OneHolder'
  BY <1>11 DEF ListenerBreaks, Mishap, WithLock, Spots
<1>12. ASSUME NEW c \in Claimants, Dies(c) PROVE OneHolder'
  BY <1>12 DEF Dies, Mishap, WithLock, Spots
<1>13. CASE Tick  BY <1>13 DEF Tick, Due, WithLock, Spots
<1>14. CASE UNCHANGED hostVars  BY <1>14 DEF hostVars
<1>15. QED  BY <1>1, <1>2, <1>3, <1>4, <1>5, <1>6, <1>7, <1>8, <1>9, <1>10, <1>11,
       <1>12, <1>13, <1>14 DEF SingletonNext, Step

\* Time passes for who waits and who leaves alike, and who asks has more
\* of it than the slowest daemon takes (TAKEOVER_TIMEOUT).
LEMMA StepPatience ==
    SingletonTypes /\ OneHolder /\ Patience /\ [SingletonNext]_hostVars => Patience'
<1> SUFFICES ASSUME SingletonTypes, OneHolder, Patience, [SingletonNext]_hostVars
             PROVE  Patience'
  OBVIOUS
<1> USE ShutdownFits, ClaimantAssumption DEF SingletonTypes, OneHolder, Patience,
       Moves, Outlasted
<1>1. ASSUME NEW c \in Claimants, TryLock(c) PROVE Patience'
  <2>1. /\ at[c] = "new" /\ at' = [at EXCEPT ![c] = at'[c]] /\ at'[c] \in {"remove", "request"}
        /\ UNCHANGED <<asked, leaving, left, mishaps>>
    BY <1>1 DEF TryLock
  <2>2. \A n \in Nat : Outlasted(n) => Outlasted(n)'  BY <2>1
  <2>3. \A d \in Claimants : at'[d] \in {"serving", "leaving", "unlock"} => at[d] = at'[d]
    BY <2>1
  <2>4. \E d \in Claimants : at'[d] \in WithLock \cup {"request", "waiting"}
    BY <2>1 DEF WithLock
  <2>5. QED  BY <2>1, <2>2, <2>3, <2>4
<1>2. ASSUME NEW c \in Claimants, Request(c) PROVE Patience'
  BY ZenonT(30), <1>2 DEF Request, Deadline, WithLock, Spots
<1>3. ASSUME NEW c \in Claimants, Acquire(c) PROVE Patience'
  <2> SUFFICES ASSUME ~mishaps.ended PROVE Patience'
    BY <1>3 DEF Acquire
  <2>1. /\ at[c] = "waiting" /\ at' = [at EXCEPT ![c] = at'[c]] /\ at'[c] \in {"remove", "gave up"}
        /\ UNCHANGED <<listening, asked, leaving, left, mishaps>>
    BY <1>3 DEF Acquire
  <2>2. CASE holder = Nobody
    \* Nobody serves or leaves, and the lock is taken.
    <3>1. at'[c] = "remove" \/ left[c] = 0  BY <1>3 DEF Acquire
    <3>2. \A d \in Claimants : at[d] \notin WithLock  BY <2>2
    <3>3. asked = {}  BY <3>2 DEF WithLock
    <3>4. at'[c] = "remove"  BY <1>3, <2>2 DEF Acquire
    <3>5. \A d \in Claimants : at'[d] \notin {"serving", "leaving", "unlock"}
      BY <2>1, <3>2, <3>4 DEF WithLock
    <3>6. QED  BY <2>1, <3>3, <3>4, <3>5 DEF WithLock
  <2>3. CASE holder # Nobody
    \* Who gives up is not the one that outlasts the holder.
    <3>1. at'[c] = "gave up" /\ left[c] = 0  BY <1>3, <2>3 DEF Acquire
    <3>2. ASSUME NEW n \in Nat, Outlasted(n) PROVE Outlasted(n)'
      <4>1. PICK w \in Claimants : at[w] = "waiting" /\ left[w] > n  BY <3>2
      <4>2. left[c] = 0  BY <3>1
      <4>3. ~(0 > n)  OBVIOUS
      <4>4. w # c  BY <4>1, <4>2, <4>3
      <4>5. QED  BY <2>1, <4>1, <4>4
    <3>3. \A d \in Claimants : d = c \/ at'[d] = at[d]  BY <2>1
    <3>4. at'[holder] \in WithLock  BY <2>1, <2>3, <3>3 DEF WithLock
    <3>5. QED  BY ZenonT(30), <2>1, <2>3, <3>2, <3>3, <3>4 DEF WithLock
  <2>4. QED  BY <2>2, <2>3
<1>4. ASSUME NEW c \in Claimants, RemoveControl(c) PROVE Patience'
  BY <1>4 DEF RemoveControl, WithLock, Spots
<1>5. ASSUME NEW c \in Claimants, BindControl(c) PROVE Patience'
  BY <1>5 DEF BindControl, WithLock, Spots
<1>6. ASSUME NEW c \in Claimants, Accept(c) PROVE Patience'
  BY <1>6 DEF Accept, WithLock, Spots
<1>7. ASSUME NEW c \in Claimants, BeginLeaving(c) PROVE Patience'
  <2> SUFFICES ASSUME ~mishaps.ended PROVE Patience'
    BY <1>7 DEF BeginLeaving
  <2>1. PICK t \in 0 .. SlowestShutdown : left' = [left EXCEPT ![c] = t]
    BY <1>7 DEF BeginLeaving
  <2>2. /\ at[c] = "serving" /\ c \in leaving /\ at' = [at EXCEPT ![c] = "leaving"]
        /\ UNCHANGED <<asked, leaving, mishaps>>
    BY <1>7 DEF BeginLeaving
  <2>3. Outlasted(SlowestShutdown)'
    BY <2>1, <2>2
  <2>4. \A d \in Claimants : at[d] \in WithLock => d = c  BY <2>2 DEF WithLock
  <2>5. \A d \in Claimants : at'[d] \in {"leaving", "unlock"} => d = c /\ at'[d] = "leaving"
    BY <2>2, <2>4 DEF WithLock
  <2>6. left'[c] <= SlowestShutdown /\ left'[c] \in Nat  BY <2>1
  <2>7. Outlasted(left[c])'
    <3>1. PICK w \in Claimants : at'[w] = "waiting" /\ left'[w] > SlowestShutdown  BY <2>3
    <3>2. left'[w] \in Nat  BY <2>1
    <3>3. left'[w] > left'[c]  BY <2>6, <3>1, <3>2
    <3>4. QED  BY <3>1, <3>3
  <2>8. QED  BY <2>2, <2>3, <2>5, <2>7 DEF WithLock
<1>8. ASSUME NEW c \in Claimants, RemoveSocket(c) PROVE Patience'
  BY <1>8 DEF RemoveSocket, WithLock, Spots
<1>9. ASSUME NEW c \in Claimants, Unlock(c) PROVE Patience'
  BY <1>9 DEF Unlock, WithLock, Spots
<1>10. ASSUME NEW c \in Claimants, Leaves(c) PROVE Patience'
  BY <1>10 DEF Leaves, Mishap, WithLock, Spots
<1>11. ASSUME NEW c \in Claimants, ListenerBreaks(c) PROVE Patience'
  BY <1>11 DEF ListenerBreaks, Mishap, WithLock, Spots
<1>12. ASSUME NEW c \in Claimants, Dies(c) PROVE Patience'
  BY <1>12 DEF Dies, Mishap, WithLock, Spots
<1>13. CASE Tick
  <2> SUFFICES ASSUME ~mishaps.ended PROVE Patience'
    BY <1>13 DEF Tick
  <2>1. UNCHANGED <<at, listening, asked, leaving, mishaps>>  BY <1>13 DEF Tick
  <2>2. \A c \in Claimants : left'[c] = IF left[c] > 0 THEN left[c] - 1 ELSE 0
    BY <1>13 DEF Tick
  <2>3. /\ asked = {} /\ \A c \in leaving : at[c] # "serving"
        /\ \A c \in Claimants : at[c] # "unlock" /\ (at[c] = "leaving" => left[c] > 0)
    BY <1>13 DEF Tick, Due
  <2>4. ASSUME NEW c \in Claimants, at[c] = "leaving" PROVE Outlasted(left[c])'
    <3>1. PICK w \in Claimants : at[w] = "waiting" /\ left[w] > left[c]  BY <2>4
    <3>2. left'[w] = left[w] - 1 /\ left'[c] = left[c] - 1  BY <2>2, <2>3, <2>4, <3>1
    <3>3. left'[w] > left'[c]  BY <3>1, <3>2
    <3>4. QED  BY <2>1, <3>1, <3>3
  <2>5. QED  BY <2>1, <2>3, <2>4 DEF WithLock
<1>14. CASE UNCHANGED hostVars  BY <1>14 DEF hostVars
<1>15. QED  BY <1>1, <1>2, <1>3, <1>4, <1>5, <1>6, <1>7, <1>8, <1>9, <1>10, <1>11,
       <1>12, <1>13, <1>14 DEF SingletonNext, Step

\* Nobody has claimed anything yet.
LEMMA SingletonInitInv == SingletonInit => SingletonInv
<1> SUFFICES ASSUME SingletonInit PROVE SingletonInv
  OBVIOUS
<1> USE ClaimantAssumption DEF SingletonInit
<1>1. SingletonTypes  BY DEF SingletonTypes, Spots
<1>2. OneHolder  BY DEF OneHolder, WithLock
<1>3. Patience  BY DEF Patience
<1>4. QED  BY <1>1, <1>2, <1>3 DEF SingletonInv

-----------------------------------------------------------------------------
(* The consent to ask for Kimi's usage.                                    *)

Contents == {"none", "empty", "on"}

\* Once the consent was taken back the file is gone until it is given again; what
\* the daemon remembers is what its reloader saw, unless the file changed between
\* the reloader's two reads.
ConsentInv ==
    /\ file \in Contents /\ cli \in {"idle", "write"} /\ memory \in BOOLEAN
    /\ reloader \in [primed : BOOLEAN, last : Contents, saw : Contents, step : {"read", "load"}]
    /\ heard \in {"on", "removed", "looked", "heard", "polled"}
    /\ heard # "on" => file = "none" /\ cli = "idle"
    /\ ~crossed /\ reloader.step = "load" => reloader.saw = file
    /\ ~crossed /\ reloader.step = "read" => (memory <=> reloader.last = "on")
    /\ ~reloader.primed => reloader.last = "none"
    /\ heard \in {"heard", "polled"} /\ ~crossed => reloader.last = "none"
    /\ heard \in {"heard", "polled"} /\ ~crossed => ~memory
    /\ heard = "polled" /\ ~crossed => bars = NoBars

\* The daemon has read nothing yet.
LEMMA ConsentInitInv == KimiInit => ConsentInv
<1> SUFFICES ASSUME KimiInit PROVE ConsentInv
  OBVIOUS
<1>1. reloader \in [primed : BOOLEAN, last : Contents, saw : Contents, step : {"read", "load"}]
  BY DEF KimiInit, Contents
<1>2. QED  BY <1>1 DEF KimiInit, ConsentInv, Contents

\* Once the file is gone each of the reloader's reads and polls brings what
\* the daemon remembers nearer to that.
LEMMA StepConsent == ConsentInv /\ [KimiNext]_usageVars => ConsentInv'
<1> SUFFICES ASSUME ConsentInv, [KimiNext]_usageVars PROVE ConsentInv'
  OBVIOUS
<1> USE DEF ConsentInv, Contents, consentVars, pollVars
<1>1. CASE Enable  BY <1>1 DEF Enable, Becomes
<1>2. CASE WriteConsent  BY <1>2 DEF WriteConsent, Becomes
<1>3. CASE Revoke  BY <1>3 DEF Revoke, Becomes
<1>4. CASE ReadConsent
  <2>1. UNCHANGED <<file, cli, memory, crossed, bars>>  BY <1>4 DEF ReadConsent
  <2>2. CASE (~reloader.primed /\ file # "none") \/ (reloader.primed /\ file # reloader.last)
    <3>1. /\ reloader' = [reloader EXCEPT !.saw = file, !.step = "load"]
          /\ heard' = IF heard = "removed" THEN "looked" ELSE heard
      BY <1>4, <2>2 DEF ReadConsent
    <3>2. QED  BY <2>1, <2>2, <3>1
  <2>3. CASE ~((~reloader.primed /\ file # "none") \/ (reloader.primed /\ file # reloader.last))
    <3>1. /\ reloader' = Ends(file) /\ file = reloader.last /\ reloader.step = "read"
          /\ heard' = IF heard = "removed" THEN "heard" ELSE heard
      BY <1>4, <2>3 DEF ReadConsent, Heard
    <3>2. QED  BY <2>1, <3>1 DEF Ends
  <2>4. QED  BY <2>2, <2>3
<1>5. CASE LoadConsent  BY <1>5 DEF LoadConsent, Ends
<1>6. CASE Settle  BY <1>6 DEF Settle
<1>7. CASE Arm \/ Parse \/ MaybeRefresh  BY <1>7 DEF Arm, Parse, MaybeRefresh
<1>8. CASE MergeUsage  BY <1>8 DEF MergeUsage, NoBars
<1>9. CASE Fetch  BY <1>9 DEF Fetch, FetchCheck, FetchAnswer, FetchKeep
<1>10. CASE UNCHANGED usageVars  BY <1>10 DEF usageVars
<1>11. QED  BY <1>1, <1>2, <1>3, <1>4, <1>5, <1>6, <1>7, <1>8, <1>9, <1>10
       DEF KimiNext, ReloadConsent, Poll

-----------------------------------------------------------------------------
(* The directory that is swept.                                            *)

\* While a sweeper removes what was there when it looked, nothing in the directory
\* is younger than the retention.
SweepInv ==
    /\ ~raced /\ (\E s \in Sweepers : sweeping[s] = "removing") =>
         \A f \in Files : ages[f] > Retention

\* Nobody sweeps yet.
LEMMA SweepInitInv == SweepInit => SweepInv
  BY DEF SweepInit, SweepInv

\* The retention holds of what is left of a directory.
LEMMA LessIsQuiet ==
    ASSUME NEW f, \A g \in Files : ages[g] > Retention
    PROVE  \A g \in DOMAIN AllBut(f) : AllBut(f)[g] > Retention
<1>1. DOMAIN AllBut(f) = Files \ {f}  BY DEF AllBut
<1>2. \A g \in Files \ {f} : AllBut(f)[g] = ages[g]  BY DEF AllBut
<1>3. QED  BY <1>1, <1>2

\* A sweeper begins to remove only what it saw to be old, and a write after
\* that look is a race.
LEMMA StepSweep == SweepInv /\ [SweepNext]_sweepVars => SweepInv'
<1> SUFFICES ASSUME SweepInv, [SweepNext]_sweepVars PROVE SweepInv'
  OBVIOUS
<1> USE DEF SweepInv, Files
<1>1. CASE DayPasses  BY <1>1 DEF DayPasses
<1>2. CASE BeginWrite  BY <1>2 DEF BeginWrite
<1>3. CASE WriteTemporary  BY <1>3 DEF WriteTemporary, Put
<1>4. CASE RenameTemporary  BY <1>4 DEF RenameTemporary
<1>5. CASE MakeDirectory  BY <1>5 DEF MakeDirectory
<1>6. CASE AppendAttention  BY <1>6 DEF AppendAttention, Put
<1>7. ASSUME NEW s \in Sweepers, Look(s) PROVE SweepInv'  BY <1>7 DEF Look, Quiet
<1>8. ASSUME NEW s \in Sweepers, RemoveEntry(s) PROVE SweepInv'
  BY <1>8, LessIsQuiet DEF RemoveEntry
<1>9. ASSUME NEW s \in Sweepers, RemoveDirectory(s) PROVE SweepInv'  BY <1>9 DEF RemoveDirectory
<1>10. CASE UNCHANGED sweepVars  BY <1>10 DEF sweepVars
<1>11. QED  BY <1>1, <1>2, <1>3, <1>4, <1>5, <1>6, <1>7, <1>8, <1>9, <1>10 DEF SweepNext

-----------------------------------------------------------------------------
(* What is made again at every launch.                                     *)

Scripts == {"statusline.sh", "attention.sh", "attention.jsonl"}
Makings == Scripts \cup {"settings.json", "launched", "failed"}

\* Each launch has made the files it is past, and the settings come last; a plugin
\* about to be renamed is whole.
OverlayInv ==
    /\ launch \in [Launches -> Makings]
    /\ \A l \in Launches : launch[l] \in {"attention.sh", "attention.jsonl"} => "statusline.sh" \in made
    /\ \A l \in Launches : launch[l] = "attention.jsonl" => "attention.sh" \in made
    /\ \A l \in Launches : launch[l] \in {"settings.json", "launched"} => Scripts \subseteq made
    /\ "settings.json" \in made => Scripts \subseteq made
    /\ cursor <= stream /\ stream \in Nat /\ cursor \in Nat
    /\ plugged.whole
    /\ daemon \in [Daemons -> {"look", "write", "rename", "done", "failed"}]
    /\ DOMAIN temps = Daemons
    /\ \A d \in Daemons : daemon[d] = "rename" => temps[d].whole

\* No launch has made anything, and the plugin that is there is whole.
LEMMA OverlayInitInv == OverlayInit => OverlayInv
  BY DEF OverlayInit, OverlayInv, Scripts, Makings, NotThere, Whole

\* Files are made in their order and renamed when whole, whoever else makes
\* them, fails or starts again.
LEMMA StepOverlay == OverlayInv /\ [OverlayNext]_overlayVars => OverlayInv'
<1> SUFFICES ASSUME OverlayInv, [OverlayNext]_overlayVars PROVE OverlayInv'
  OBVIOUS
<1> USE DEF OverlayInv, Scripts, Makings, pluginVars
<1>1. ASSUME NEW l \in Launches, Write(l) PROVE OverlayInv'
  BY <1>1 DEF Write, Following
<1>2. ASSUME NEW l \in Launches, CreateStream(l) PROVE OverlayInv'
  BY <1>2 DEF CreateStream, Following
<1>3. CASE Hook  BY <1>3 DEF Hook
<1>4. CASE Watch  BY <1>4 DEF Watch
<1>5. ASSUME NEW d \in Daemons, LookAt(d) PROVE OverlayInv'  BY <1>5 DEF LookAt
<1>6. ASSUME NEW d \in Daemons, WriteTemp(d) PROVE OverlayInv'  BY <1>6 DEF WriteTemp, Whole, Cut
<1>7. ASSUME NEW d \in Daemons, RenameTemp(d) PROVE OverlayInv'  BY <1>7 DEF RenameTemp
<1>8. ASSUME NEW d \in Daemons, Restart(d) PROVE OverlayInv'  BY <1>8 DEF Restart
<1>9. CASE UNCHANGED overlayVars  BY <1>9 DEF overlayVars
<1>10. QED  BY <1>1, <1>2, <1>3, <1>4, <1>5, <1>6, <1>7, <1>8, <1>9 DEF OverlayNext

-----------------------------------------------------------------------------
(* The key in Herdr's configuration.                                       *)

KeyFiles == [text : {"", "a", "b"}, taken : SUBSET Keys, blocks : Seq(Keys), marker : BOOLEAN, missing : BOOLEAN]
Installs == {NoInstall, TornInstall} \cup [state : {"whole"}, key : Keys, created : BOOLEAN]
PreparedOnes == [key : Keys, existing : KeyFiles, created : BOOLEAN, new : KeyFiles]

\* The plans of a change that still adds its key, and of what else runs.
Adding == {<<"unbind", "install", "save">>, <<"install", "save">>, <<"save">>}
Plans == Adding \cup {<<"unbind", "bind">>, <<"unbind">>, <<"bind">>}
Places == {"start", "record", "check", "rename", "undo", "reload", "remove file", "forget"}
KeyCommands ==
    [name : {"change", "bind", "unbind"}, plan : Plans, at : Places, back : BOOLEAN,
     prepared : PreparedOnes \cup {NotPrepared}, bound : BOOLEAN, text : {"a", "b"},
     read : KeyFiles, rest : KeyFiles]

KeyTypes ==
    /\ config \in KeyFiles /\ install \in Installs /\ plugin \in [key : Keys, text : {"a", "b"}]
    /\ cmd \in {NoCommand} \cup KeyCommands
    /\ lost \in BOOLEAN /\ disturbed \in BOOLEAN /\ (lost => disturbed)

\* The operation that runs, and where it is.
Now(operation, places) == cmd # NoCommand /\ Head(cmd.plan) = operation /\ cmd.at \in places
Adds(places) == Now("bind", places) \/ Now("install", places)
IsAdding == Head(cmd.plan) \in {"bind", "install"}

\* What each plan has prepared, and that its record is written before its text.
Planned ==
    /\ cmd # NoCommand /\ cmd.plan \in Adding => cmd.name = "change" /\ cmd.prepared # NotPrepared
    /\ cmd # NoCommand /\ cmd.name = "change" /\ cmd.bound => cmd.plan # <<"unbind">>
    /\ Adds(Places \ {"start"}) => cmd.prepared # NotPrepared
    /\ Now("save", Places) => cmd.at = "start"
    /\ cmd # NoCommand /\ cmd.prepared # NotPrepared =>
          cmd.prepared.new = Appended(cmd.prepared.existing, cmd.prepared.key)
    /\ Adds({"check", "rename", "reload"}) => install.state = "whole" /\ install.key = cmd.prepared.key

SameTheirs(f, g) == f.text = g.text /\ f.taken = g.taken

\* What is about to be written has the operator's own part of what is there.
Theirs ==
    ~lost =>
      /\ cmd # NoCommand /\ cmd.prepared # NotPrepared /\ cmd.prepared.existing = Missing =>
            SameTheirs(config, Missing)
      /\ Adds({"rename"}) => SameTheirs(cmd.prepared.new, config)
      /\ Now("unbind", {"check"}) => SameTheirs(cmd.rest, cmd.read)
      /\ Now("unbind", {"rename", "remove file"}) => SameTheirs(cmd.rest, config)

\* A block is added where there is none, and none is there once it was taken out.
Blocks ==
    ~lost =>
      /\ BlockIsRecorded
      /\ Now("install", {"start"}) \/ Adds({"record", "check", "rename", "undo"}) => config.blocks = <<>>
      /\ Adds({"rename"}) => cmd.prepared.existing.blocks = <<>>
      /\ Now("unbind", {"check", "rename", "remove file"}) => cmd.rest.blocks = <<>>
      /\ Now("unbind", {"forget", "reload"}) => config.blocks = <<>>

\* Undisturbed, only a change that is under way has another key in the configuration
\* than the setting's, and that is the key it will save.
Agrees ==
    ~disturbed =>
      /\ \/ cmd = NoCommand
         \/ Now("bind", Places)
         \/ Now("unbind", Places) /\ ~cmd.back
         => config.blocks \in {<<>>, <<plugin.key>>}
      /\ Now("bind", Places \ {"start"}) => cmd.prepared.key = plugin.key
      /\ Now("save", Places) \/ Adds({"reload"}) => config.blocks = <<cmd.prepared.key>>

KeyInv == KeyTypes /\ Planned /\ Theirs /\ Blocks /\ Agrees

\* The command begins this plan.
StartsAt(p) ==
    /\ cmd' \in KeyCommands /\ cmd'.at = "start" /\ cmd'.plan = p
    /\ cmd'.name = cmd.name /\ cmd'.bound = cmd.bound /\ cmd'.prepared = cmd.prepared

\* The command goes on within its operation, with this prepared.
GoesTo(p, ready) ==
    /\ cmd' \in KeyCommands /\ cmd'.at = p /\ cmd'.plan = cmd.plan /\ cmd'.name = cmd.name
    /\ cmd'.back = cmd.back /\ cmd'.bound = cmd.bound /\ cmd'.prepared = ready

\* The plans there are, by their first operation.
LEMMA PlanFacts ==
    ASSUME NEW p \in Plans
    PROVE  /\ Head(p) = "install" <=> p = <<"install", "save">>
           /\ Head(p) = "save" <=> p = <<"save">>
           /\ Head(p) = "bind" <=> p = <<"bind">>
           /\ Head(p) = "unbind" <=> p \in {<<"unbind", "install", "save">>, <<"unbind", "bind">>, <<"unbind">>}
           /\ Head(p) \in {"install", "save", "bind", "unbind"}
           /\ Len(p) = 1 <=> p \in {<<"save">>, <<"unbind">>, <<"bind">>}
           /\ p = <<"unbind", "install", "save">> => Tail(p) = <<"install", "save">>
           /\ p = <<"install", "save">> => Tail(p) = <<"save">>
           /\ p = <<"unbind", "bind">> => Tail(p) = <<"bind">>
<1>1. CASE p = <<"unbind", "install", "save">>  BY <1>1
<1>2. CASE p = <<"install", "save">>  BY <1>2
<1>3. CASE p = <<"save">>  BY <1>3
<1>4. CASE p = <<"unbind", "bind">>  BY <1>4
<1>5. CASE p = <<"unbind">>  BY <1>5
<1>6. CASE p = <<"bind">>  BY <1>6
<1> QED  BY <1>1, <1>2, <1>3, <1>4, <1>5, <1>6 DEF Plans, Adding

\* The files a command makes of one that is there.
LEMMA MissingFile == Missing \in KeyFiles /\ Missing.text = "" /\ Missing.taken = {} /\ Missing.blocks = <<>>
  BY DEF Missing, KeyFiles

\* A block is added behind what is there, and nothing else changes.
LEMMA AppendedFile ==
    ASSUME NEW f \in KeyFiles, NEW k \in Keys
    PROVE  /\ Appended(f, k) \in KeyFiles /\ SameTheirs(Appended(f, k), f)
           /\ Appended(f, k).blocks # <<>>
           /\ f.blocks = <<>> => Appended(f, k).blocks = <<k>>
<1>1. f.blocks \in Seq(Keys)  BY DEF KeyFiles
<1>2. Append(f.blocks, k) \in Seq(Keys) /\ Append(f.blocks, k) # <<>>
  BY <1>1, AppendProperties
<1>3. f.blocks = <<>> => Append(f.blocks, k) = <<k>>  OBVIOUS
<1> DEFINE more == Append(f.blocks, k)
<1>4. Appended(f, k) = [text |-> f.text, taken |-> f.taken, blocks |-> more,
                        marker |-> f.marker, missing |-> FALSE]
  BY DEF Appended, Config
<1>5. more \in Seq(Keys) /\ more # <<>> /\ (f.blocks = <<>> => more = <<k>>)  BY <1>2, <1>3
<1> HIDE DEF more
<1>6. f.text \in {"", "a", "b"} /\ f.taken \in SUBSET Keys /\ f.marker \in BOOLEAN  BY DEF KeyFiles
<1>7. Appended(f, k) \in KeyFiles
  <2>1. \A t \in {"", "a", "b"}, taken \in SUBSET Keys, m \in BOOLEAN :
          [text |-> t, taken |-> taken, blocks |-> more, marker |-> m, missing |-> FALSE] \in KeyFiles
    BY <1>5, Zenon DEF KeyFiles
  <2> QED  BY <1>4, <1>6, <2>1, Zenon
<1> QED  BY <1>4, <1>5, <1>7 DEF SameTheirs

\* A block that can be removed is there.
LEMMA HasBlock ==
    ASSUME NEW f \in KeyFiles, NEW k, Removable(f, k)
    PROVE  f.blocks # <<>> /\ \E i \in DOMAIN f.blocks : f.blocks[i] = k
<1>1. {i \in DOMAIN f.blocks : f.blocks[i] = k} # {}
  BY FS_EmptySet DEF Removable
<1>2. PICK i \in DOMAIN f.blocks : f.blocks[i] = k  BY <1>1
<1>3. f.blocks # <<>>  BY <1>2
<1> QED  BY <1>2, <1>3

\* Taking an element out of a sequence moves the ones behind it.
LEMMA OneRemoved ==
    ASSUME NEW S, NEW q \in Seq(S), NEW i \in 1 .. Len(q)
    PROVE  /\ RemoveAt(q, i) \in Seq(S) /\ Len(RemoveAt(q, i)) = Len(q) - 1
           /\ \A j \in 1 .. Len(q) - 1 : RemoveAt(q, i)[j] = q[IF j < i THEN j ELSE j + 1]
<1> DEFINE before == SubSeq(q, 1, i - 1)
           after  == SubSeq(q, i + 1, Len(q))
<1>1. /\ before \in Seq(S) /\ Len(before) = i - 1
      /\ \A j \in 1 .. i - 1 : before[j] = q[j]
  <2>1. \A j \in 1 .. i - 1 : q[j] \in S  OBVIOUS
  <2>2. 1 \in Int /\ i - 1 \in Int  OBVIOUS
  <2>3. Len(before) = IF 1 <= i - 1 THEN i - 1 - 1 + 1 ELSE 0  BY <2>1, <2>2, SubSeqProperties
  <2>4. \A j \in 1 .. i - 1 : before[j] = q[1 + j - 1]  BY <2>1, <2>2, SubSeqProperties
  <2> QED  BY <2>1, <2>2, <2>3, <2>4, SubSeqProperties
<1>2. /\ after \in Seq(S) /\ Len(after) = Len(q) - i
      /\ \A j \in 1 .. Len(q) - i : after[j] = q[i + j]
  <2>1. \A j \in i + 1 .. Len(q) : q[j] \in S  OBVIOUS
  <2>2. i + 1 \in Int /\ Len(q) \in Int  OBVIOUS
  <2>3. Len(after) = IF i + 1 <= Len(q) THEN Len(q) - (i + 1) + 1 ELSE 0  BY <2>1, <2>2, SubSeqProperties
  <2>4. \A j \in 1 .. Len(q) - (i + 1) + 1 : after[j] = q[i + 1 + j - 1]  BY <2>1, <2>2, SubSeqProperties
  <2> QED  BY <2>1, <2>2, <2>3, <2>4, SubSeqProperties
<1>3. RemoveAt(q, i) = before \o after  BY DEF RemoveAt
<1> HIDE DEF before, after
<1>4. /\ before \o after \in Seq(S) /\ Len(before \o after) = Len(before) + Len(after)
      /\ \A j \in 1 .. Len(before) + Len(after) :
            (before \o after)[j] = IF j <= Len(before) THEN before[j] ELSE after[j - Len(before)]
  BY <1>1, <1>2, ConcatProperties
<1>5. \A j \in 1 .. Len(q) - 1 : (before \o after)[j] = q[IF j < i THEN j ELSE j + 1]
  <2> TAKE j \in 1 .. Len(q) - 1
  <2>1. CASE j < i  BY <1>1, <1>2, <1>4, <2>1
  <2>2. CASE ~(j < i)
    <3>1. j - (i - 1) \in 1 .. Len(q) - i /\ i + (j - (i - 1)) = j + 1  BY <2>2
    <3>2. (before \o after)[j] = after[j - (i - 1)]  BY <1>1, <1>2, <1>4, <2>2
    <3> QED  BY <1>2, <2>2, <3>1, <3>2
  <2> QED  BY <2>1, <2>2
<1> QED  BY <1>1, <1>2, <1>3, <1>4, <1>5

\* Taking a block out changes nothing else, and of one leaves none.
LEMMA WithoutFile ==
    ASSUME NEW f \in KeyFiles, NEW k, Removable(f, k)
    PROVE  /\ Without(f, k) \in KeyFiles /\ SameTheirs(Without(f, k), f)
           /\ Len(f.blocks) = 1 => Without(f, k).blocks = <<>>
<1> DEFINE place == CHOOSE i \in DOMAIN f.blocks : f.blocks[i] = k
           rest == RemoveAt(f.blocks, place)
<1>1. f.blocks \in Seq(Keys)  BY DEF KeyFiles
<1>2. place \in 1 .. Len(f.blocks)
  <2>1. place \in DOMAIN f.blocks  BY HasBlock
  <2> QED  BY <1>1, <2>1
<1>3. Without(f, k) = [f EXCEPT !.blocks = rest]  BY DEF Without
<1> HIDE DEF place
<1>4. rest \in Seq(Keys) /\ Len(rest) = Len(f.blocks) - 1
  BY <1>1, <1>2, OneRemoved
<1>5. Len(f.blocks) = 1 => rest = <<>>  BY <1>4, EmptySeq
<1> HIDE DEF rest
<1> QED  BY <1>3, <1>4, <1>5 DEF KeyFiles, SameTheirs

\* So does the remainder, where an empty file that we created goes.
LEMMA RemainderFile ==
    ASSUME NEW f \in KeyFiles, NEW ready, Removable(f, ready.key)
    PROVE  /\ Remainder(f, ready) \in KeyFiles /\ SameTheirs(Remainder(f, ready), f)
           /\ Len(f.blocks) = 1 => Remainder(f, ready).blocks = <<>>
<1>1. CASE ready.created /\ IsEmpty(Without(f, ready.key))
  BY <1>1, WithoutFile, MissingFile DEF Remainder, IsEmpty, SameTheirs
<1>2. CASE ~(ready.created /\ IsEmpty(Without(f, ready.key)))
  BY <1>2, WithoutFile DEF Remainder
<1> QED  BY <1>1, <1>2

\* What is prepared is all there before the first write.
LEMMA PreparedFile ==
    ASSUME NEW k \in Keys, NEW f \in KeyFiles
    PROVE  /\ Prepared(k, f) \in PreparedOnes
           /\ Prepared(k, f).key = k /\ Prepared(k, f).existing = f /\ Prepared(k, f).new = Appended(f, k)
           /\ Prepared(k, f) # NotPrepared
<1>1. Prepared(k, f) \in PreparedOnes  BY AppendedFile DEF Prepared, PreparedOnes
<1>2. Prepared(k, f) # NotPrepared
  <2>1. "new" \in DOMAIN Prepared(k, f)  BY DEF Prepared
  <2>2. "new" \notin DOMAIN NotPrepared  BY DEF NotPrepared
  <2> QED  BY <2>1, <2>2
<1> QED  BY <1>1, <1>2 DEF Prepared

\* A command that is there is a whole one.
LEMMA CommandThere ==
    ASSUME KeyTypes
    PROVE  /\ cmd # NoCommand <=> cmd.name # "none"
           /\ cmd # NoCommand => cmd \in KeyCommands
           /\ cmd.name # "none" => cmd \in KeyCommands
<1>1. NoCommand.name = "none"  BY DEF NoCommand
<1>2. \A c \in KeyCommands : c.name # "none"  BY DEF KeyCommands
<1> QED  BY <1>1, <1>2 DEF KeyTypes

\* No command is none of the commands.
LEMMA NoneIsThere == \A c \in KeyCommands : c # NoCommand
<1>1. NoCommand.name = "none"  BY DEF NoCommand
<1>2. \A c \in KeyCommands : c.name # "none"  BY DEF KeyCommands
<1> QED  BY <1>1, <1>2

\* A command that goes on within its operation.
LEMMA MovedCommand ==
    ASSUME NEW c \in KeyCommands, NEW p \in Places
    PROVE  /\ [c EXCEPT !.at = p] \in KeyCommands
           /\ [c EXCEPT !.at = p].at = p
           /\ [c EXCEPT !.at = p].plan = c.plan
           /\ [c EXCEPT !.at = p].name = c.name
           /\ [c EXCEPT !.at = p].back = c.back
           /\ [c EXCEPT !.at = p].bound = c.bound
           /\ [c EXCEPT !.at = p].prepared = c.prepared
           /\ [c EXCEPT !.at = p].read = c.read
           /\ [c EXCEPT !.at = p].rest = c.rest
  BY DEF KeyCommands

\* A command that goes on to the next operation of its plan.
LEMMA NextOfPlan ==
    ASSUME NEW c \in KeyCommands, NEW p \in Plans
    PROVE  LET d == [c EXCEPT !.plan = p, !.at = "start"]
           IN  /\ d \in KeyCommands /\ d.at = "start" /\ d.plan = p /\ d.back = c.back
               /\ d.name = c.name /\ d.bound = c.bound /\ d.prepared = c.prepared
<1> DEFINE e == [c EXCEPT !.plan = p]
<1>1. e \in KeyCommands /\ e.plan = p /\ e.back = c.back /\ e.name = c.name
      /\ e.bound = c.bound /\ e.prepared = c.prepared
  BY DEF KeyCommands
<1>2. [c EXCEPT !.plan = p, !.at = "start"] = [e EXCEPT !.at = "start"]  OBVIOUS
<1>3. "start" \in Places  BY DEF Places
<1> HIDE DEF e
<1>4. LET d == [e EXCEPT !.at = "start"]
      IN  /\ d \in KeyCommands /\ d.at = "start" /\ d.plan = e.plan /\ d.back = e.back
          /\ d.name = e.name /\ d.bound = e.bound /\ d.prepared = e.prepared
  BY <1>1, <1>3, MovedCommand, Zenon
<1> QED  BY <1>1, <1>2, <1>4, Zenon

\* A command that goes back.
LEMMA TurnedBack ==
    ASSUME NEW c \in KeyCommands, NEW p \in Plans
    PROVE  LET d == [c EXCEPT !.back = TRUE, !.at = "start", !.plan = p]
           IN  /\ d \in KeyCommands /\ d.at = "start" /\ d.plan = p /\ d.back = TRUE
               /\ d.name = c.name /\ d.bound = c.bound /\ d.prepared = c.prepared
<1> DEFINE e == [c EXCEPT !.back = TRUE]
           g == [e EXCEPT !.at = "start"]
<1>1. e \in KeyCommands /\ e.back = TRUE /\ e.name = c.name
      /\ e.bound = c.bound /\ e.prepared = c.prepared
  BY DEF KeyCommands
<1>2. [c EXCEPT !.back = TRUE, !.at = "start", !.plan = p] = [g EXCEPT !.plan = p]  OBVIOUS
<1>3. "start" \in Places  BY DEF Places
<1> HIDE DEF e
<1>4. g \in KeyCommands /\ g.at = "start" /\ g.back = TRUE /\ g.name = c.name
      /\ g.bound = c.bound /\ g.prepared = c.prepared
  BY <1>1, <1>3, MovedCommand, Zenon
<1> HIDE DEF g
<1>5. LET d == [g EXCEPT !.plan = p]
      IN  /\ d \in KeyCommands /\ d.at = g.at /\ d.plan = p /\ d.back = g.back
          /\ d.name = g.name /\ d.bound = g.bound /\ d.prepared = g.prepared
  BY <1>4 DEF KeyCommands
<1> QED  BY <1>2, <1>4, <1>5, Zenon

\* An operation that ends leads to the next of its plan, or to the end.
LEMMA SucceedsLeads ==
    ASSUME KeyTypes, cmd # NoCommand, Succeeds
    PROVE  \/ cmd' = NoCommand /\ cmd.plan \in {<<"save">>, <<"unbind">>, <<"bind">>}
           \/ /\ cmd'.back = cmd.back
              /\ \/ cmd.plan = <<"unbind", "install", "save">> /\ StartsAt(<<"install", "save">>)
                 \/ cmd.plan = <<"install", "save">> /\ StartsAt(<<"save">>)
                 \/ cmd.plan = <<"unbind", "bind">> /\ StartsAt(<<"bind">>)
<1>1. cmd \in KeyCommands /\ cmd.plan \in Plans  BY CommandThere DEF KeyCommands
<1>2. CASE Len(cmd.plan) = 1  BY <1>1, <1>2, PlanFacts DEF Succeeds
<1>3. CASE Len(cmd.plan) # 1
  <2>1. cmd.plan \in {<<"unbind", "install", "save">>, <<"install", "save">>, <<"unbind", "bind">>}
    BY <1>1, <1>3, PlanFacts DEF Plans, Adding
  <2>2. Tail(cmd.plan) \in Plans  BY <1>1, <2>1, PlanFacts DEF Plans, Adding
  <2>3. cmd' = [cmd EXCEPT !.plan = Tail(cmd.plan), !.at = "start"]  BY <1>3 DEF Succeeds
  <2>4. StartsAt(Tail(cmd.plan)) /\ cmd'.back = cmd.back
    BY <1>1, <2>2, <2>3, NextOfPlan, Zenon DEF StartsAt
  <2> QED  BY <1>1, <2>1, <2>4, PlanFacts
<1> QED  BY <1>2, <1>3

\* An operation that fails ends the command, or turns a change back.
LEMMA FailsLeads ==
    ASSUME KeyTypes, cmd # NoCommand, Fails
    PROVE  \/ cmd' = NoCommand /\ disturbed' = (disturbed \/ cmd.back) /\ (cmd.name # "change" \/ cmd.back)
           \/ /\ cmd.name = "change" /\ ~cmd.back /\ disturbed' = disturbed /\ cmd'.back = TRUE
              /\ \/ Head(cmd.plan) = "unbind" /\ StartsAt(<<"bind">>)
                 \/ Head(cmd.plan) # "unbind" /\ cmd.bound /\ StartsAt(<<"unbind", "bind">>)
                 \/ Head(cmd.plan) # "unbind" /\ ~cmd.bound /\ StartsAt(<<"unbind">>)
<1>1. cmd \in KeyCommands  BY CommandThere
<1>2. CASE cmd.name # "change" \/ cmd.back  BY <1>2, Zenon DEF Fails
<1>3. CASE ~(cmd.name # "change" \/ cmd.back)
  <2> DEFINE p == IF Head(cmd.plan) = "unbind" THEN <<"bind">>
                  ELSE IF cmd.bound THEN <<"unbind", "bind">> ELSE <<"unbind">>
  <2>1. p \in Plans  BY DEF Plans
  <2>2. cmd' = [cmd EXCEPT !.back = TRUE, !.at = "start", !.plan = p] /\ disturbed' = disturbed
    BY <1>3, Zenon DEF Fails
  <2>3. \/ Head(cmd.plan) = "unbind" /\ p = <<"bind">>
        \/ Head(cmd.plan) # "unbind" /\ cmd.bound /\ p = <<"unbind", "bind">>
        \/ Head(cmd.plan) # "unbind" /\ ~cmd.bound /\ p = <<"unbind">>
    OBVIOUS
  <2> HIDE DEF p
  <2>4. StartsAt(p) /\ cmd'.back = TRUE  BY <1>1, <2>1, <2>2, TurnedBack, Zenon DEF StartsAt
  <2> QED  BY <1>3, <2>2, <2>3, <2>4, Zenon
<1> QED  BY <1>2, <1>3

\* What plans are not.
LEMMA PlansDiffer ==
    /\ <<"bind">> \notin Adding /\ <<"unbind", "bind">> \notin Adding /\ <<"unbind">> \notin Adding
    /\ <<"bind">> # <<"unbind">> /\ <<"unbind", "bind">> # <<"unbind">>
    /\ <<"install", "save">> # <<"unbind">> /\ <<"save">> # <<"unbind">>
    /\ Adding \subseteq Plans
  BY DEF Adding, Plans

\* What holds of a command that begins a plan, or that ended.
LEMMA BeginsPlanned ==
    ASSUME KeyTypes, Planned, cmd # NoCommand, NEW p, StartsAt(p),
           p \in Adding => cmd.plan \in Adding,
           cmd.name = "change" /\ cmd.bound => p # <<"unbind">>
    PROVE  Planned'
<1>1. cmd'.at = "start" /\ cmd'.plan = p  BY DEF StartsAt
<1>2. (cmd # NoCommand /\ cmd.plan \in Adding => cmd.name = "change" /\ cmd.prepared # NotPrepared)'
  BY <1>1 DEF Planned, StartsAt
<1>3. (cmd # NoCommand /\ cmd.name = "change" /\ cmd.bound => cmd.plan # <<"unbind">>)'
  BY <1>1, Zenon DEF Planned, StartsAt
<1>4. (Adds(Places \ {"start"}) => cmd.prepared # NotPrepared)'  BY <1>1 DEF Adds, Now
<1>5. (Now("save", Places) => cmd.at = "start")'  BY <1>1
<1>6. (cmd # NoCommand /\ cmd.prepared # NotPrepared =>
          cmd.prepared.new = Appended(cmd.prepared.existing, cmd.prepared.key))'
  BY DEF Planned, StartsAt, Appended, Config
<1>7. (Adds({"check", "rename", "reload"}) => install.state = "whole" /\ install.key = cmd.prepared.key)'
  BY <1>1 DEF Adds, Now
<1> QED  BY <1>2, <1>3, <1>4, <1>5, <1>6, <1>7 DEF Planned

\* The operator's part is not touched where a plan begins.
LEMMA BeginsTheirs ==
    ASSUME Theirs, cmd # NoCommand, NEW p, StartsAt(p), config' = config, lost' = lost
    PROVE  Theirs'
<1>1. cmd'.at = "start" /\ cmd'.prepared = cmd.prepared  BY DEF StartsAt
<1>2. ~lost' => (cmd # NoCommand /\ cmd.prepared # NotPrepared /\ cmd.prepared.existing = Missing
                   => SameTheirs(config, Missing))'
  BY <1>1 DEF Theirs, SameTheirs, Missing
<1> QED  BY <1>1, <1>2 DEF Theirs, Adds, Now

\* Of a command that ended only the files matter.
LEMMA EndsKeeps ==
    ASSUME cmd' = NoCommand
    PROVE  Planned' /\ Theirs' /\ (Blocks' <=> (lost' \/ BlockIsRecorded'))
           /\ (Agrees' <=> (disturbed' \/ config'.blocks \in {<<>>, <<plugin'.key>>}))
<1>1. \A o, s : ~Now(o, s)'  BY DEF Now
<1>2. Planned'  BY <1>1, Zenon DEF Planned, Adds
<1>3. Theirs'  BY <1>1, Zenon DEF Theirs, Adds
<1>4. Blocks' <=> (lost' \/ BlockIsRecorded')  BY <1>1, Zenon DEF Blocks, Adds
<1>5. Agrees' <=> (disturbed' \/ config'.blocks \in {<<>>, <<plugin'.key>>})  BY <1>1, Zenon DEF Agrees, Adds
<1> QED  BY <1>2, <1>3, <1>4, <1>5

\* The blocks where a plan begins.
LEMMA BeginsBlocks ==
    ASSUME NEW p, StartsAt(p), cmd # NoCommand,
           ~lost' => BlockIsRecorded' /\ (Head(p) = "install" => config'.blocks = <<>>)
    PROVE  Blocks'
<1>1. cmd'.at = "start" /\ cmd'.plan = p  BY DEF StartsAt
<1> QED  BY <1>1 DEF Blocks, Adds, Now

\* The key where a plan begins.
LEMMA BeginsAgrees ==
    ASSUME NEW p, StartsAt(p), cmd # NoCommand,
           ~disturbed' =>
              /\ Head(p) = "bind" \/ (Head(p) = "unbind" /\ ~cmd'.back) => config'.blocks \in {<<>>, <<plugin'.key>>}
              /\ Head(p) = "save" => config'.blocks = <<cmd.prepared.key>>
    PROVE  Agrees'
<1>1. cmd'.at = "start" /\ cmd'.plan = p /\ cmd'.prepared = cmd.prepared /\ cmd' # NoCommand
  BY NoneIsThere DEF StartsAt
<1> QED  BY <1>1 DEF Agrees, Adds, Now

\* A command that fails where it left the configuration alone.
LEMMA FailsKeeps ==
    ASSUME KeyInv, cmd # NoCommand, Fails, config' = config, plugin' = plugin, lost' = lost,
           install' \in Installs, ~lost => BlockIsRecorded'
    PROVE  KeyInv'
<1> USE DEF KeyInv
<1>1. CASE cmd' = NoCommand /\ disturbed' = (disturbed \/ cmd.back) /\ (cmd.name # "change" \/ cmd.back)
  <2>1. disturbed' \in BOOLEAN /\ (lost => disturbed')  BY <1>1, Zenon DEF KeyTypes
  <2>2. KeyTypes'  BY <1>1, <2>1, Zenon DEF KeyTypes
  <2>3. ~disturbed' => config.blocks \in {<<>>, <<plugin.key>>}
    <3> SUFFICES ASSUME ~disturbed' PROVE config.blocks \in {<<>>, <<plugin.key>>}
      OBVIOUS
    <3>1. ~disturbed /\ ~cmd.back /\ cmd.name # "change"  BY <1>1, Zenon
    <3>2. cmd \in KeyCommands /\ cmd.plan \in Plans /\ cmd.plan \notin Adding
      BY <3>1, CommandThere DEF Planned, KeyCommands
    <3>3. Head(cmd.plan) \in {"bind", "unbind"}  BY <3>2, PlanFacts DEF Plans
    <3>4. Now("bind", Places) \/ (Now("unbind", Places) /\ ~cmd.back)  BY <3>1, <3>2, <3>3 DEF Now, KeyCommands
    <3> QED  BY <3>1, <3>4, Zenon DEF Agrees
  <2> QED  BY <1>1, <2>2, <2>3, EndsKeeps
<1>2. CASE /\ cmd.name = "change" /\ ~cmd.back /\ disturbed' = disturbed /\ cmd'.back = TRUE
           /\ \/ Head(cmd.plan) = "unbind" /\ StartsAt(<<"bind">>)
              \/ Head(cmd.plan) # "unbind" /\ cmd.bound /\ StartsAt(<<"unbind", "bind">>)
              \/ Head(cmd.plan) # "unbind" /\ ~cmd.bound /\ StartsAt(<<"unbind">>)
  <2>1. CASE Head(cmd.plan) = "unbind" /\ StartsAt(<<"bind">>)
    <3>1. KeyTypes'  BY <1>2, <2>1 DEF KeyTypes, StartsAt
    <3>2. Planned'  BY <2>1, BeginsPlanned, PlansDiffer
    <3>3. Theirs'  BY <2>1, BeginsTheirs
    <3>4. Blocks'  BY <2>1, BeginsBlocks
    <3>5. ~disturbed => config.blocks \in {<<>>, <<plugin.key>>}
      <4>1. Now("unbind", Places)  BY <2>1, CommandThere DEF Now, KeyCommands
      <4> QED  BY <1>2, <4>1, Zenon DEF Agrees
    <3>6. Agrees'  BY <1>2, <2>1, <3>5, BeginsAgrees
    <3> QED  BY <3>1, <3>2, <3>3, <3>4, <3>6
  <2>2. ASSUME NEW p \in {<<"unbind", "bind">>, <<"unbind">>}, StartsAt(p),
               cmd.bound => p # <<"unbind">>
        PROVE  KeyInv'
    <3>1. KeyTypes'  BY <1>2, <2>2 DEF KeyTypes, StartsAt
    <3>2. Planned'  BY <2>2, BeginsPlanned, PlansDiffer
    <3>3. Theirs'  BY <2>2, BeginsTheirs
    <3>4. Blocks'  BY <2>2, BeginsBlocks
    <3>5. Agrees'  BY <1>2, <2>2, BeginsAgrees
    <3> QED  BY <3>1, <3>2, <3>3, <3>4, <3>5
  <2> QED  BY <1>2, <2>1, <2>2, PlansDiffer
<1> QED  BY <1>1, <1>2, FailsLeads

\* A command that ends an operation.
LEMMA SucceedsKeeps ==
    ASSUME KeyInv, cmd # NoCommand, Succeeds, config' = config, lost' = lost, disturbed' = disturbed,
           install' \in Installs, plugin' \in [key : Keys, text : {"a", "b"}],
           ~lost => BlockIsRecorded',
           ~lost /\ Head(cmd.plan) = "unbind" => config.blocks = <<>>,
           ~disturbed =>
              /\ Head(cmd.plan) = "install" => config.blocks = <<cmd.prepared.key>>
              /\ Head(cmd.plan) \in {"save", "bind"} => config.blocks \in {<<>>, <<plugin'.key>>}
    PROVE  KeyInv'
<1> USE DEF KeyInv
<1>0. lost => disturbed  BY DEF KeyTypes
<1>1. CASE cmd' = NoCommand /\ cmd.plan \in {<<"save">>, <<"unbind">>, <<"bind">>}
  <2>1. KeyTypes'  BY <1>1 DEF KeyTypes
  <2>2. ~disturbed => config.blocks \in {<<>>, <<plugin'.key>>}  BY <1>0, <1>1
  <2> QED  BY <1>1, <2>1, <2>2, EndsKeeps
<1>2. CASE cmd'.back = cmd.back
           /\ cmd.plan = <<"unbind", "install", "save">> /\ StartsAt(<<"install", "save">>)
  <2>1. KeyTypes'  BY <1>2 DEF KeyTypes, StartsAt
  <2>2. Planned'  BY <1>2, BeginsPlanned, PlansDiffer DEF Adding
  <2>3. Theirs'  BY <1>2, BeginsTheirs
  <2>4. Blocks'  BY <1>2, BeginsBlocks
  <2>5. Agrees'  BY <1>0, <1>2, BeginsAgrees
  <2> QED  BY <2>1, <2>2, <2>3, <2>4, <2>5
<1>3. CASE cmd'.back = cmd.back /\ cmd.plan = <<"install", "save">> /\ StartsAt(<<"save">>)
  <2>1. KeyTypes'  BY <1>3 DEF KeyTypes, StartsAt
  <2>2. Planned'  BY <1>3, BeginsPlanned, PlansDiffer DEF Adding
  <2>3. Theirs'  BY <1>3, BeginsTheirs
  <2>4. Blocks'  BY <1>3, BeginsBlocks
  <2>5. Agrees'  BY <1>0, <1>3, BeginsAgrees
  <2> QED  BY <2>1, <2>2, <2>3, <2>4, <2>5
<1>4. CASE cmd'.back = cmd.back /\ cmd.plan = <<"unbind", "bind">> /\ StartsAt(<<"bind">>)
  <2>1. KeyTypes'  BY <1>4 DEF KeyTypes, StartsAt
  <2>2. Planned'  BY <1>4, BeginsPlanned, PlansDiffer
  <2>3. Theirs'  BY <1>4, BeginsTheirs
  <2>4. Blocks'  BY <1>4, BeginsBlocks
  <2>5. Agrees'  BY <1>0, <1>4, BeginsAgrees
  <2> QED  BY <2>1, <2>2, <2>3, <2>4, <2>5
<1> QED  BY <1>1, <1>2, <1>3, <1>4, SucceedsLeads

\* A command that only goes to another place keeps the rest.
LEMMA GoesOn ==
    ASSUME KeyTypes, cmd # NoCommand, NEW p \in Places, cmd' = [cmd EXCEPT !.at = p]
    PROVE  GoesTo(p, cmd.prepared) /\ cmd'.read = cmd.read /\ cmd'.rest = cmd.rest
  BY CommandThere, MovedCommand DEF GoesTo

\* What must hold of the place a command goes to.
LEMMA GoesPlanned ==
    ASSUME KeyTypes, Planned, cmd # NoCommand, NEW p, NEW ready, GoesTo(p, ready), Head(cmd.plan) # "save",
           IsAdding => ready # NotPrepared,
           cmd.prepared # NotPrepared => ready # NotPrepared,
           ready # NotPrepared => ready.new = Appended(ready.existing, ready.key),
           IsAdding /\ p \in {"check", "rename", "reload"} => install'.state = "whole" /\ install'.key = ready.key
    PROVE  Planned'
<1>1. cmd'.plan = cmd.plan /\ cmd'.at = p /\ cmd'.prepared = ready  BY DEF GoesTo
<1>2. (cmd # NoCommand /\ cmd.plan \in Adding => cmd.name = "change" /\ cmd.prepared # NotPrepared)'
  BY DEF Planned, GoesTo
<1>3. (cmd # NoCommand /\ cmd.name = "change" /\ cmd.bound => cmd.plan # <<"unbind">>)'
  BY Zenon DEF Planned, GoesTo
<1>4. (Adds(Places \ {"start"}) => cmd.prepared # NotPrepared)'  BY <1>1 DEF Adds, Now, IsAdding
<1>5. (Now("save", Places) => cmd.at = "start")'  BY <1>1 DEF Now
<1>6. (cmd # NoCommand /\ cmd.prepared # NotPrepared =>
          cmd.prepared.new = Appended(cmd.prepared.existing, cmd.prepared.key))'
  BY <1>1 DEF Appended, Config
<1>7. (Adds({"check", "rename", "reload"}) => install.state = "whole" /\ install.key = cmd.prepared.key)'
  BY <1>1 DEF Adds, Now, IsAdding
<1> QED  BY <1>2, <1>3, <1>4, <1>5, <1>6, <1>7 DEF Planned

\* What must hold of the operator's part there,
LEMMA GoesTheirs ==
    ASSUME NEW p, NEW ready, GoesTo(p, ready),
           ~lost' /\ ready # NotPrepared /\ ready.existing = Missing => SameTheirs(config', Missing),
           ~lost' /\ IsAdding /\ p = "rename" => SameTheirs(ready.new, config'),
           ~lost' /\ Head(cmd.plan) = "unbind" /\ p = "check" => SameTheirs(cmd'.rest, cmd'.read),
           ~lost' /\ Head(cmd.plan) = "unbind" /\ p \in {"rename", "remove file"} => SameTheirs(cmd'.rest, config')
    PROVE  Theirs'
  BY DEF Theirs, GoesTo, Adds, Now, IsAdding, SameTheirs, Missing

\* of the blocks there,
LEMMA GoesBlocks ==
    ASSUME NEW p, NEW ready, GoesTo(p, ready),
           ~lost' => BlockIsRecorded',
           ~lost' /\ Head(cmd.plan) = "install" /\ p = "start" => config'.blocks = <<>>,
           ~lost' /\ IsAdding /\ p \in {"record", "check", "rename", "undo"} => config'.blocks = <<>>,
           ~lost' /\ IsAdding /\ p = "rename" => ready.existing.blocks = <<>>,
           ~lost' /\ Head(cmd.plan) = "unbind" /\ p \in {"check", "rename", "remove file"} => cmd'.rest.blocks = <<>>,
           ~lost' /\ Head(cmd.plan) = "unbind" /\ p \in {"forget", "reload"} => config'.blocks = <<>>
    PROVE  Blocks'
  BY DEF Blocks, GoesTo, Adds, Now, IsAdding

\* and of the key there.
LEMMA GoesAgrees ==
    ASSUME NEW p, NEW ready, GoesTo(p, ready), cmd # NoCommand, KeyTypes, Head(cmd.plan) # "save",
           ~disturbed' /\ (Head(cmd.plan) = "bind" \/ (Head(cmd.plan) = "unbind" /\ ~cmd.back))
              => config'.blocks \in {<<>>, <<plugin'.key>>},
           ~disturbed' /\ Head(cmd.plan) = "bind" /\ p # "start" => ready.key = plugin'.key,
           ~disturbed' /\ IsAdding /\ p = "reload" => config'.blocks = <<ready.key>>
    PROVE  Agrees'
<1>1. cmd' # NoCommand  BY NoneIsThere DEF GoesTo
<1>2. ~disturbed' /\ (Now("bind", Places) \/ (Now("unbind", Places) /\ ~cmd.back))'
        => config'.blocks \in {<<>>, <<plugin'.key>>}
  BY DEF GoesTo, Now
<1>3. ~disturbed' /\ Now("bind", Places \ {"start"})' => ready.key = plugin'.key  BY DEF GoesTo, Now
<1>4. ~disturbed' /\ (Now("save", Places) \/ Adds({"reload"}))' => config'.blocks = <<ready.key>>
  BY DEF GoesTo, Now, Adds, IsAdding
<1>5. cmd'.prepared = ready  BY DEF GoesTo
<1> QED  BY <1>1, <1>2, <1>3, <1>4, <1>5 DEF Agrees

\* What the actions say of where the command is.
LEMMA WhereItIs ==
    ASSUME KeyTypes, cmd.name # "none"
    PROVE  /\ cmd # NoCommand /\ cmd \in KeyCommands /\ cmd.plan \in Plans /\ cmd.at \in Places
           /\ cmd.prepared \in PreparedOnes \cup {NotPrepared}
           /\ Head(cmd.plan) \in {"install", "save"} => cmd.plan \in Adding
  BY CommandThere, PlanFacts DEF KeyCommands, Adding

\* install: the plan goes on to the record.
LEMMA StartInstallKeeps ==
    ASSUME KeyInv, StartInstall  PROVE KeyInv'
<1> USE DEF KeyInv
<1>1. cmd # NoCommand /\ Head(cmd.plan) = "install" /\ cmd.at = "start" /\ cmd.plan \in Adding
  BY WhereItIs DEF StartInstall, Doing
<1>2. GoesTo("record", cmd.prepared)  BY <1>1, GoesOn DEF StartInstall, Places
<1>3. UNCHANGED <<config, install, plugin, disturbed, lost>>  BY DEF StartInstall, Quietly
<1>4. cmd.prepared # NotPrepared /\ cmd.prepared.new = Appended(cmd.prepared.existing, cmd.prepared.key)
  BY <1>1 DEF Planned
<1>5. KeyTypes'  BY <1>2, <1>3 DEF KeyTypes, GoesTo
<1>6. Planned'  BY <1>1, <1>2, <1>4, GoesPlanned
<1>7. Theirs'
  <2>1. ~lost /\ cmd.prepared.existing = Missing => SameTheirs(config, Missing)  BY <1>1, <1>4 DEF Theirs
  <2> QED  BY <1>1, <1>2, <1>3, <2>1, GoesTheirs
<1>8. Blocks'
  <2>1. ~lost => BlockIsRecorded /\ config.blocks = <<>>  BY <1>1 DEF Blocks, Now
  <2>2. ~lost => BlockIsRecorded'  BY <1>3, <2>1 DEF BlockIsRecorded
  <2> QED  BY <1>1, <1>2, <1>3, <2>1, <2>2, GoesBlocks
<1>9. Agrees'  BY <1>1, <1>2, <1>3, GoesAgrees
<1> QED  BY <1>5, <1>6, <1>7, <1>8, <1>9

\* Where neither file changes, a block that is recorded still is.
LEMMA SameBlocks ==
    ASSUME config' = config, install' = install, lost' = lost, Blocks
    PROVE  ~lost' => BlockIsRecorded'
  BY DEF Blocks, BlockIsRecorded

\* The record first.
LEMMA WriteInstallKeeps ==
    ASSUME KeyInv, WriteInstall  PROVE KeyInv'
<1> USE DEF KeyInv
<1>1. cmd # NoCommand /\ IsAdding /\ cmd.at = "record" /\ cmd.prepared \in PreparedOnes \cup {NotPrepared}
  BY WhereItIs DEF WriteInstall, Installing, IsAdding
<1>2. UNCHANGED <<config, plugin, lost>>  BY DEF WriteInstall, Quietly
<1>3. /\ cmd.prepared # NotPrepared /\ cmd.prepared.new = Appended(cmd.prepared.existing, cmd.prepared.key)
      /\ cmd.prepared.key \in Keys /\ cmd.prepared.created \in BOOLEAN
  BY <1>1 DEF Planned, Adds, Now, IsAdding, PreparedOnes, Places
<1>4. ~lost => config.blocks = <<>>  BY <1>1 DEF Blocks, Adds, Now, IsAdding
<1>5. ~lost' => BlockIsRecorded'  BY <1>2, <1>4 DEF BlockIsRecorded
<1>6. CASE /\ install' = [state |-> "whole", key |-> cmd.prepared.key, created |-> cmd.prepared.created]
           /\ cmd' = [cmd EXCEPT !.at = "check"] /\ UNCHANGED disturbed
  <2>1. GoesTo("check", cmd.prepared)  BY <1>1, <1>6, GoesOn DEF Places
  <2>2. install' \in Installs  BY <1>3, <1>6, Zenon DEF Installs
  <2>3. KeyTypes'  BY <1>2, <1>6, <2>1, <2>2 DEF KeyTypes, GoesTo
  <2>4. install'.state = "whole" /\ install'.key = cmd.prepared.key  BY <1>6
  <2>5. Planned'  BY <1>1, <1>3, <2>1, <2>4, GoesPlanned DEF IsAdding
  <2>6. Theirs'
    <3>1. ~lost /\ cmd.prepared.existing = Missing => SameTheirs(config, Missing)  BY <1>1, <1>3 DEF Theirs
    <3> QED  BY <1>1, <1>2, <2>1, <3>1, GoesTheirs DEF IsAdding
  <2>7. Blocks'  BY <1>1, <1>2, <1>4, <1>5, <2>1, GoesBlocks DEF IsAdding
  <2>8. Agrees'
    <3>1. ~disturbed /\ Head(cmd.plan) = "bind" =>
             config.blocks \in {<<>>, <<plugin.key>>} /\ cmd.prepared.key = plugin.key
      BY <1>1 DEF Agrees, Now, Places
    <3> QED  BY <1>1, <1>2, <1>6, <2>1, <3>1, GoesAgrees DEF IsAdding
  <2> QED  BY <2>3, <2>5, <2>6, <2>7, <2>8
<1>7. CASE install' \in {install, TornInstall} /\ Fails
  <2>1. install' \in Installs  BY <1>7 DEF KeyTypes, Installs
  <2> QED  BY <1>1, <1>2, <1>5, <1>7, <2>1, FailsKeeps
<1> QED  BY <1>6, <1>7 DEF WriteInstall

\* The configuration is looked at once more.
LEMMA CheckConfigKeeps ==
    ASSUME KeyInv, CheckConfig  PROVE KeyInv'
<1> USE DEF KeyInv
<1>1. cmd # NoCommand /\ IsAdding /\ cmd.at = "check"
  BY WhereItIs DEF CheckConfig, Installing, IsAdding
<1>2. UNCHANGED <<config, install, plugin, disturbed, lost>>  BY DEF CheckConfig, Quietly
<1>3. /\ cmd.prepared # NotPrepared /\ cmd.prepared.new = Appended(cmd.prepared.existing, cmd.prepared.key)
      /\ install.state = "whole" /\ install.key = cmd.prepared.key
  BY <1>1 DEF Planned, Adds, Now, IsAdding, Places
<1>4. ~lost => config.blocks = <<>>  BY <1>1 DEF Blocks, Adds, Now, IsAdding
<1>5. ~lost' => BlockIsRecorded'  BY <1>2, SameBlocks
<1>6. ~lost /\ cmd.prepared.existing = Missing => SameTheirs(config, Missing)  BY <1>1, <1>3 DEF Theirs
<1>7. ~disturbed /\ Head(cmd.plan) = "bind" =>
         config.blocks \in {<<>>, <<plugin.key>>} /\ cmd.prepared.key = plugin.key
  BY <1>1 DEF Agrees, Now, Places
<1>8. PICK p \in {"rename", "undo"} :
         /\ GoesTo(p, cmd.prepared)
         /\ p = "rename" => cmd.prepared.existing \in {Missing, config}
  BY <1>1, GoesOn DEF CheckConfig, Places
<1>9. KeyTypes'  BY <1>2, <1>8 DEF KeyTypes, GoesTo
<1>10. Planned'  BY <1>1, <1>2, <1>3, <1>8, GoesPlanned DEF IsAdding
<1>11. Theirs'
  <2>1. ~lost /\ p = "rename" => SameTheirs(cmd.prepared.new, config)
    <3>1. SameTheirs(cmd.prepared.new, cmd.prepared.existing)
      BY <1>3 DEF SameTheirs, Appended, Config
    <3>2. ~lost => SameTheirs(cmd.prepared.new, config) \/ cmd.prepared.existing # Missing
      BY <1>6, <3>1 DEF SameTheirs
    <3> QED  BY <1>8, <3>1, <3>2
  <2> QED  BY <1>1, <1>2, <1>6, <1>8, <2>1, GoesTheirs DEF IsAdding
<1>12. Blocks'
  <2>1. ~lost /\ p = "rename" => cmd.prepared.existing.blocks = <<>>  BY <1>4, <1>8, MissingFile
  <2> QED  BY <1>1, <1>2, <1>4, <1>5, <1>8, <2>1, GoesBlocks DEF IsAdding
<1>13. Agrees'  BY <1>1, <1>2, <1>7, <1>8, GoesAgrees DEF IsAdding
<1> QED  BY <1>9, <1>10, <1>11, <1>12, <1>13

\* The new text takes the place of the old.
LEMMA RenameConfigKeeps ==
    ASSUME KeyInv, RenameConfig  PROVE KeyInv'
<1> USE DEF KeyInv
<1>1. cmd # NoCommand /\ IsAdding /\ cmd.at = "rename" /\ cmd.prepared \in PreparedOnes \cup {NotPrepared}
  BY WhereItIs DEF RenameConfig, Installing, IsAdding
<1>2. UNCHANGED <<install, plugin, disturbed, lost>>  BY DEF RenameConfig, Quietly
<1>3. /\ cmd.prepared # NotPrepared /\ cmd.prepared.new = Appended(cmd.prepared.existing, cmd.prepared.key)
      /\ install.state = "whole" /\ install.key = cmd.prepared.key
  BY <1>1 DEF Planned, Adds, Now, IsAdding, Places
<1>4. cmd.prepared.key \in Keys /\ cmd.prepared.existing \in KeyFiles /\ cmd.prepared.new \in KeyFiles
  BY <1>1, <1>3 DEF PreparedOnes
<1>5. ~disturbed /\ Head(cmd.plan) = "bind" =>
         config.blocks \in {<<>>, <<plugin.key>>} /\ cmd.prepared.key = plugin.key
  BY <1>1 DEF Agrees, Now, Places
<1>6. lost => disturbed  BY DEF KeyTypes
<1>7. CASE config' = cmd.prepared.new /\ cmd' = [cmd EXCEPT !.at = "reload"]
  <2>1. GoesTo("reload", cmd.prepared)  BY <1>1, <1>7, GoesOn DEF Places
  <2>2. KeyTypes'  BY <1>2, <1>4, <1>7, <2>1 DEF KeyTypes, GoesTo
  <2>3. Planned'  BY <1>1, <1>2, <1>3, <2>1, GoesPlanned DEF IsAdding
  <2>4. Theirs'
    <3>1. cmd.prepared.existing = Missing => SameTheirs(cmd.prepared.new, Missing)
      BY <1>3, <1>4, AppendedFile
    <3> QED  BY <1>1, <1>2, <1>7, <2>1, <3>1, GoesTheirs DEF IsAdding
  <2>5. ~lost => config'.blocks = <<cmd.prepared.key>>
    <3>1. ~lost => cmd.prepared.existing.blocks = <<>>  BY <1>1 DEF Blocks, Adds, Now, IsAdding
    <3> QED  BY <1>3, <1>4, <1>7, <3>1, AppendedFile
  <2>6. Blocks'
    <3>1. ~lost' => BlockIsRecorded'
      <4>1. Len(<<cmd.prepared.key>>) = 1 /\ <<cmd.prepared.key>>[1] = cmd.prepared.key  OBVIOUS
      <4> QED  BY <1>2, <1>3, <2>5, <4>1 DEF BlockIsRecorded
    <3> QED  BY <1>1, <1>2, <2>1, <3>1, GoesBlocks DEF IsAdding
  <2>7. Agrees'  BY <1>1, <1>2, <1>5, <1>6, <2>1, <2>5, GoesAgrees DEF IsAdding
  <2> QED  BY <2>2, <2>3, <2>4, <2>6, <2>7
<1>8. CASE cmd' = [cmd EXCEPT !.at = "undo"] /\ UNCHANGED config
  <2>1. GoesTo("undo", cmd.prepared)  BY <1>1, <1>8, GoesOn DEF Places
  <2>2. KeyTypes'  BY <1>2, <1>8, <2>1 DEF KeyTypes, GoesTo
  <2>3. Planned'  BY <1>1, <1>3, <2>1, GoesPlanned DEF IsAdding
  <2>4. Theirs'
    <3>1. ~lost /\ cmd.prepared.existing = Missing => SameTheirs(config, Missing)  BY <1>1, <1>3 DEF Theirs
    <3> QED  BY <1>1, <1>2, <1>8, <2>1, <3>1, GoesTheirs DEF IsAdding
  <2>5. Blocks'
    <3>1. ~lost => config.blocks = <<>>  BY <1>1 DEF Blocks, Adds, Now, IsAdding
    <3>2. ~lost' => BlockIsRecorded'  BY <1>2, <1>8, SameBlocks
    <3> QED  BY <1>1, <1>2, <1>8, <2>1, <3>1, <3>2, GoesBlocks DEF IsAdding
  <2>6. Agrees'  BY <1>1, <1>2, <1>5, <1>8, <2>1, GoesAgrees DEF IsAdding
  <2> QED  BY <2>2, <2>3, <2>4, <2>5, <2>6
<1> QED  BY <1>7, <1>8 DEF RenameConfig

\* The record goes when the text could not be written, if it can be removed.
LEMMA UndoInstallKeeps ==
    ASSUME KeyInv, UndoInstall  PROVE KeyInv'
<1> USE DEF KeyInv
<1>1. cmd # NoCommand /\ IsAdding /\ cmd.at = "undo"
  BY WhereItIs DEF UndoInstall, Installing, IsAdding
<1>2. ~lost => config.blocks = <<>>  BY <1>1 DEF Blocks, Adds, Now, IsAdding
<1>3. ~lost => BlockIsRecorded'  BY <1>2 DEF BlockIsRecorded, UndoInstall
<1>4. install' \in Installs  BY DEF UndoInstall, Installs, KeyTypes
<1> QED  BY <1>1, <1>3, <1>4, FailsKeeps DEF UndoInstall, Quietly

\* Herdr reads the new text, or refuses to.
LEMMA ReloadKeeps ==
    ASSUME KeyInv, Reload  PROVE KeyInv'
<1> USE DEF KeyInv
<1>1. cmd # NoCommand /\ cmd.at = "reload" /\ cmd.plan \in Plans /\ Head(cmd.plan) # "save"
  BY WhereItIs DEF Reload, Planned, Now
<1>2. UNCHANGED <<config, install, plugin, lost>>  BY DEF Reload, Quietly
<1>3. ~lost' => BlockIsRecorded'  BY <1>2, SameBlocks
<1>4. install' \in Installs /\ plugin' \in [key : Keys, text : {"a", "b"}]  BY <1>2 DEF KeyTypes
<1>5. CASE Succeeds /\ UNCHANGED disturbed
  <2>1. ~lost /\ Head(cmd.plan) = "unbind" => config.blocks = <<>>  BY <1>1 DEF Blocks, Now
  <2>2. ~disturbed /\ Head(cmd.plan) = "install" => config.blocks = <<cmd.prepared.key>>
    BY <1>1 DEF Agrees, Adds, Now
  <2>3. ~disturbed /\ Head(cmd.plan) = "bind" => config.blocks \in {<<>>, <<plugin.key>>}
    BY <1>1 DEF Agrees, Now, Places
  <2> QED  BY <1>1, <1>2, <1>3, <1>4, <1>5, <2>1, <2>2, <2>3, SucceedsKeeps
<1>6. CASE Fails  BY <1>1, <1>2, <1>3, <1>4, <1>6, FailsKeeps
<1> QED  BY <1>5, <1>6 DEF Reload

\* The command keeps what it read, and what it will write.
LEMMA ReadsOn ==
    ASSUME cmd \in KeyCommands, NEW p \in Places, NEW f \in KeyFiles, NEW g \in KeyFiles,
           cmd' = [cmd EXCEPT !.at = p, !.read = f, !.rest = g]
    PROVE  GoesTo(p, cmd.prepared) /\ cmd'.read = f /\ cmd'.rest = g
<1> DEFINE e == [cmd EXCEPT !.at = p]
           h == [e EXCEPT !.read = f]
<1>1. e \in KeyCommands /\ e.at = p /\ e.plan = cmd.plan /\ e.back = cmd.back
      /\ e.name = cmd.name /\ e.bound = cmd.bound /\ e.prepared = cmd.prepared
  BY MovedCommand, Zenon
<1>2. cmd' = [h EXCEPT !.rest = g]  OBVIOUS
<1> HIDE DEF e
<1>3. /\ h \in KeyCommands /\ h.at = e.at /\ h.plan = e.plan /\ h.back = e.back
      /\ h.name = e.name /\ h.bound = e.bound /\ h.prepared = e.prepared /\ h.read = f
  BY <1>1 DEF KeyCommands
<1> HIDE DEF h
<1>4. LET d == [h EXCEPT !.rest = g]
      IN  /\ d \in KeyCommands /\ d.at = h.at /\ d.plan = h.plan /\ d.back = h.back
          /\ d.name = h.name /\ d.bound = h.bound /\ d.prepared = h.prepared
          /\ d.read = h.read /\ d.rest = g
  BY <1>3 DEF KeyCommands
<1> QED  BY <1>1, <1>2, <1>3, <1>4, Zenon DEF GoesTo

\* unbind, before its first write.
LEMMA UnbindKeeps ==
    ASSUME KeyInv, Unbind  PROVE KeyInv'
<1> USE DEF KeyInv
<1>1. cmd # NoCommand /\ cmd \in KeyCommands /\ Head(cmd.plan) = "unbind" /\ cmd.at = "start"
  BY WhereItIs DEF Unbind, Doing
<1>2. UNCHANGED <<config, plugin, lost>>  BY DEF Unbind, Quietly
<1>3. plugin' \in [key : Keys, text : {"a", "b"}] /\ install \in Installs /\ config \in KeyFiles
      /\ (lost => disturbed)
  BY <1>2 DEF KeyTypes
<1>4. CASE config.blocks = <<>> /\ Succeeds /\ UNCHANGED disturbed /\ install' \in {install, NoInstall}
  <2>1. ~lost => BlockIsRecorded'  BY <1>2, <1>4 DEF BlockIsRecorded
  <2>2. install' \in Installs  BY <1>3, <1>4 DEF Installs
  <2> QED  BY <1>1, <1>2, <1>3, <1>4, <2>1, <2>2, SucceedsKeeps
<1>5. CASE /\ Removable(config, install.key)
           /\ cmd' = [cmd EXCEPT !.at = IF Remainder(config, install) = Missing THEN "remove file" ELSE "check",
                                 !.read = config, !.rest = Remainder(config, install)]
           /\ UNCHANGED <<install, disturbed>>
  <2> DEFINE rest == Remainder(config, install)
  <2>1. rest \in KeyFiles /\ SameTheirs(rest, config)  BY <1>3, <1>5, RemainderFile
  <2>2. ~lost => rest.blocks = <<>>
    <3>1. config.blocks # <<>>  BY <1>3, <1>5, HasBlock
    <3>2. ~lost => Len(config.blocks) = 1  BY <3>1 DEF Blocks, BlockIsRecorded
    <3> QED  BY <1>3, <1>5, <3>2, RemainderFile
  <2> HIDE DEF rest
  <2>3. PICK p \in {"remove file", "check"} :
           cmd' = [cmd EXCEPT !.at = p, !.read = config, !.rest = rest]
    <3>1. CASE rest = Missing
      <4>1. cmd' = [cmd EXCEPT !.at = "remove file", !.read = config, !.rest = rest]  BY <1>5, <3>1, Zenon DEF rest
      <4> QED  BY <4>1
    <3>2. CASE rest # Missing
      <4>1. cmd' = [cmd EXCEPT !.at = "check", !.read = config, !.rest = rest]  BY <1>5, <3>2, Zenon DEF rest
      <4> QED  BY <4>1
    <3> QED  BY <3>1, <3>2
  <2>4. p \in Places  BY DEF Places
  <2>5. GoesTo(p, cmd.prepared) /\ cmd'.read = config /\ cmd'.rest = rest
    <3> DEFINE read == config
    <3>1. cmd \in KeyCommands /\ read \in KeyFiles /\ rest \in KeyFiles  BY <1>1, <1>3, <2>1
    <3>2. cmd' = [cmd EXCEPT !.at = p, !.read = read, !.rest = rest]  BY <2>3
    <3> HIDE DEF read
    <3>3. GoesTo(p, cmd.prepared) /\ cmd'.read = read /\ cmd'.rest = rest
      BY <2>4, <3>1, <3>2, ReadsOn, Zenon
    <3> QED  BY <3>3 DEF read
  <2>6. KeyTypes'  BY <1>2, <1>5, <2>5 DEF KeyTypes, GoesTo
  <2>7. Planned'
    <3>1. cmd.prepared # NotPrepared => cmd.prepared.new = Appended(cmd.prepared.existing, cmd.prepared.key)
      BY <1>1 DEF Planned
    <3> QED  BY <1>1, <2>5, <3>1, GoesPlanned DEF IsAdding
  <2>8. Theirs'
    <3>1. ~lost /\ cmd.prepared # NotPrepared /\ cmd.prepared.existing = Missing => SameTheirs(config, Missing)
      BY <1>1 DEF Theirs
    <3> QED  BY <1>1, <1>2, <2>1, <2>5, <3>1, GoesTheirs DEF IsAdding
  <2>9. Blocks'
    <3>1. ~lost' => BlockIsRecorded'  BY <1>2, <1>5, SameBlocks
    <3> QED  BY <1>1, <1>2, <2>2, <2>5, <3>1, GoesBlocks DEF IsAdding
  <2>10. Agrees'
    <3>1. ~disturbed /\ ~cmd.back => config.blocks \in {<<>>, <<plugin.key>>}
      BY <1>1 DEF Agrees, Now, Places
    <3> QED  BY <1>1, <1>2, <1>5, <2>5, <3>1, GoesAgrees DEF IsAdding
  <2> QED  BY <2>6, <2>7, <2>8, <2>9, <2>10
<1>6. CASE Fails /\ UNCHANGED install
  <2>1. ~lost' => BlockIsRecorded'  BY <1>2, <1>6, SameBlocks
  <2> QED  BY <1>1, <1>2, <1>3, <1>6, <2>1, FailsKeeps
<1> QED
  <2>1. config = Missing => config.blocks = <<>>  BY MissingFile
  <2> QED  BY <1>4, <1>5, <1>6, <2>1 DEF Unbind

\* unbind looks at the configuration once more,
LEMMA CheckRemainderKeeps ==
    ASSUME KeyInv, CheckRemainder  PROVE KeyInv'
<1> USE DEF KeyInv
<1>1. cmd # NoCommand /\ Head(cmd.plan) = "unbind" /\ cmd.at = "check"
  BY WhereItIs DEF CheckRemainder, Doing
<1>2. UNCHANGED <<config, install, plugin, lost>>  BY DEF CheckRemainder, Quietly
<1>3. ~lost' => BlockIsRecorded'  BY <1>2, SameBlocks
<1>4. CASE config = cmd.read /\ cmd' = [cmd EXCEPT !.at = "rename"] /\ UNCHANGED disturbed
  <2>1. GoesTo("rename", cmd.prepared) /\ cmd'.rest = cmd.rest  BY <1>1, <1>4, GoesOn DEF Places
  <2>2. KeyTypes'  BY <1>2, <1>4, <2>1 DEF KeyTypes, GoesTo
  <2>3. Planned'
    <3>1. cmd.prepared # NotPrepared => cmd.prepared.new = Appended(cmd.prepared.existing, cmd.prepared.key)
      BY <1>1 DEF Planned
    <3> QED  BY <1>1, <2>1, <3>1, GoesPlanned DEF IsAdding
  <2>4. Theirs'
    <3>1. ~lost /\ cmd.prepared # NotPrepared /\ cmd.prepared.existing = Missing => SameTheirs(config, Missing)
      BY <1>1 DEF Theirs
    <3>2. ~lost => SameTheirs(cmd.rest, config)  BY <1>1, <1>4 DEF Theirs, Now
    <3> QED  BY <1>1, <1>2, <2>1, <3>1, <3>2, GoesTheirs DEF IsAdding
  <2>5. Blocks'
    <3>1. ~lost => cmd.rest.blocks = <<>>  BY <1>1 DEF Blocks, Now
    <3> QED  BY <1>1, <1>2, <1>3, <2>1, <3>1, GoesBlocks DEF IsAdding
  <2>6. Agrees'
    <3>1. ~disturbed /\ ~cmd.back => config.blocks \in {<<>>, <<plugin.key>>}
      BY <1>1 DEF Agrees, Now, Places
    <3> QED  BY <1>1, <1>2, <1>4, <2>1, <3>1, GoesAgrees DEF IsAdding
  <2> QED  BY <2>2, <2>3, <2>4, <2>5, <2>6
<1>5. CASE Fails
  <2>1. install' \in Installs  BY <1>2 DEF KeyTypes
  <2> QED  BY <1>1, <1>2, <1>3, <1>5, <2>1, FailsKeeps
<1> QED  BY <1>4, <1>5 DEF CheckRemainder

\* writes what is left of it or removes it,
LEMMA WriteRemainderKeeps ==
    ASSUME KeyInv, WriteRemainder  PROVE KeyInv'
<1> USE DEF KeyInv
<1>1. cmd # NoCommand /\ cmd \in KeyCommands /\ Head(cmd.plan) = "unbind" /\ cmd.at \in {"rename", "remove file"}
  BY WhereItIs DEF WriteRemainder, Doing
<1>2. UNCHANGED <<install, plugin, lost>>  BY DEF WriteRemainder, Quietly
<1>3. lost => disturbed  BY DEF KeyTypes
<1>4. CASE config' = cmd.rest /\ Continues("forget") /\ UNCHANGED disturbed
  <2>1. GoesTo("forget", cmd.prepared)
    <3>1. "forget" \in Places /\ Missing \in KeyFiles  BY MissingFile DEF Places
    <3> QED  BY <1>1, <1>4, <3>1, ReadsOn, Zenon DEF Continues
  <2>2. KeyTypes'
    <3>1. cmd.rest \in KeyFiles  BY <1>1 DEF KeyCommands
    <3> QED  BY <1>2, <1>4, <2>1, <3>1 DEF KeyTypes, GoesTo
  <2>3. Planned'
    <3>1. cmd.prepared # NotPrepared => cmd.prepared.new = Appended(cmd.prepared.existing, cmd.prepared.key)
      BY <1>1 DEF Planned
    <3> QED  BY <1>1, <2>1, <3>1, GoesPlanned DEF IsAdding
  <2>4. Theirs'
    <3>1. ~lost /\ cmd.prepared # NotPrepared /\ cmd.prepared.existing = Missing => SameTheirs(config, Missing)
      BY <1>1 DEF Theirs
    <3>2. ~lost => SameTheirs(cmd.rest, config)  BY <1>1 DEF Theirs, Now
    <3>3. ~lost /\ cmd.prepared # NotPrepared /\ cmd.prepared.existing = Missing => SameTheirs(config', Missing)
      BY <1>4, <3>1, <3>2 DEF SameTheirs
    <3> QED  BY <1>1, <1>2, <2>1, <3>3, GoesTheirs DEF IsAdding
  <2>5. ~lost => config'.blocks = <<>>  BY <1>1, <1>4 DEF Blocks, Now
  <2>6. Blocks'
    <3>1. ~lost' => BlockIsRecorded'  BY <1>2, <2>5 DEF BlockIsRecorded
    <3> QED  BY <1>1, <1>2, <2>1, <2>5, <3>1, GoesBlocks DEF IsAdding
  <2>7. Agrees'  BY <1>1, <1>2, <1>3, <1>4, <2>1, <2>5, GoesAgrees DEF IsAdding
  <2> QED  BY <2>2, <2>3, <2>4, <2>6, <2>7
<1>5. CASE Fails /\ UNCHANGED config
  <2>1. install' \in Installs  BY <1>2 DEF KeyTypes
  <2>2. ~lost' => BlockIsRecorded'  BY <1>2, <1>5, SameBlocks
  <2> QED  BY <1>1, <1>2, <1>5, <2>1, <2>2, FailsKeeps
<1> QED  BY <1>4, <1>5 DEF WriteRemainder

\* and then removes the record.
LEMMA ForgetInstallKeeps ==
    ASSUME KeyInv, ForgetInstall  PROVE KeyInv'
<1> USE DEF KeyInv
<1>1. cmd # NoCommand /\ Head(cmd.plan) = "unbind" /\ cmd.at = "forget"
  BY WhereItIs DEF ForgetInstall, Doing
<1>2. UNCHANGED <<config, plugin, lost>>  BY DEF ForgetInstall, Quietly
<1>3. (~lost => config.blocks = <<>>) /\ (lost => disturbed)  BY <1>1 DEF Blocks, Now, KeyTypes
<1>4. ~lost' => BlockIsRecorded'  BY <1>2, <1>3 DEF BlockIsRecorded
<1>5. CASE install' = NoInstall /\ cmd' = [cmd EXCEPT !.at = "reload"] /\ UNCHANGED disturbed
  <2>1. GoesTo("reload", cmd.prepared)  BY <1>1, <1>5, GoesOn DEF Places
  <2>2. KeyTypes'  BY <1>2, <1>5, <2>1 DEF KeyTypes, GoesTo, Installs
  <2>3. Planned'
    <3>1. cmd.prepared # NotPrepared => cmd.prepared.new = Appended(cmd.prepared.existing, cmd.prepared.key)
      BY <1>1 DEF Planned
    <3> QED  BY <1>1, <2>1, <3>1, GoesPlanned DEF IsAdding
  <2>4. Theirs'
    <3>1. ~lost /\ cmd.prepared # NotPrepared /\ cmd.prepared.existing = Missing => SameTheirs(config, Missing)
      BY <1>1 DEF Theirs
    <3> QED  BY <1>1, <1>2, <2>1, <3>1, GoesTheirs DEF IsAdding
  <2>5. Blocks'  BY <1>1, <1>2, <1>3, <1>4, <2>1, GoesBlocks DEF IsAdding
  <2>6. Agrees'  BY <1>1, <1>2, <1>3, <1>5, <2>1, GoesAgrees DEF IsAdding
  <2> QED  BY <2>2, <2>3, <2>4, <2>5, <2>6
<1>6. CASE Fails /\ UNCHANGED install
  <2>1. install' \in Installs  BY <1>6 DEF KeyTypes
  <2> QED  BY <1>1, <1>2, <1>4, <1>6, <2>1, FailsKeeps
<1> QED  BY <1>5, <1>6 DEF ForgetInstall

\* The setting last.
LEMMA SaveSettingKeeps ==
    ASSUME KeyInv, SaveSetting  PROVE KeyInv'
<1> USE DEF KeyInv
<1>1. /\ cmd # NoCommand /\ Head(cmd.plan) = "save" /\ cmd.plan \in Adding
      /\ cmd.prepared \in PreparedOnes \cup {NotPrepared} /\ cmd.at \in Places
  BY WhereItIs DEF SaveSetting, Doing
<1>2. UNCHANGED <<config, install, lost>>  BY DEF SaveSetting, Quietly
<1>3. ~lost' => BlockIsRecorded'  BY <1>2, SameBlocks
<1>4. install' \in Installs  BY <1>2 DEF KeyTypes
<1>5. CASE plugin' = [plugin EXCEPT !.key = cmd.prepared.key] /\ Succeeds /\ UNCHANGED disturbed
  <2>1. cmd.prepared.key \in Keys  BY <1>1 DEF Planned, PreparedOnes
  <2>2. plugin' \in [key : Keys, text : {"a", "b"}] /\ plugin'.key = cmd.prepared.key
    BY <1>5, <2>1 DEF KeyTypes
  <2>3. ~disturbed => config.blocks = <<cmd.prepared.key>>  BY <1>1 DEF Agrees, Now
  <2> QED  BY <1>1, <1>2, <1>3, <1>4, <1>5, <2>2, <2>3, SucceedsKeeps
<1>6. CASE Fails /\ UNCHANGED plugin
  BY <1>1, <1>2, <1>3, <1>4, <1>6, FailsKeeps
<1> QED  BY <1>5, <1>6 DEF SaveSetting

\* A command that is killed leaves the files as they are.
LEMMA KillCommandKeeps ==
    ASSUME KeyInv, KillCommand  PROVE KeyInv'
<1> USE DEF KeyInv
<1>1. UNCHANGED <<config, install, plugin, lost>> /\ cmd' = NoCommand /\ disturbed' = TRUE
  BY DEF KillCommand, Quietly
<1>2. KeyTypes'  BY <1>1 DEF KeyTypes
<1>3. ~lost' => BlockIsRecorded'  BY <1>1, SameBlocks
<1> QED  BY <1>1, <1>2, <1>3, EndsKeeps

\* The command goes on with what it prepared.
LEMMA PreparesOn ==
    ASSUME cmd \in KeyCommands, NEW p \in Places, NEW ready \in PreparedOnes,
           cmd' = [cmd EXCEPT !.at = p, !.prepared = ready]
    PROVE  GoesTo(p, ready)
<1> DEFINE e == [cmd EXCEPT !.at = p]
<1>1. e \in KeyCommands /\ e.at = p /\ e.plan = cmd.plan /\ e.back = cmd.back
      /\ e.name = cmd.name /\ e.bound = cmd.bound
  BY MovedCommand, Zenon
<1>2. cmd' = [e EXCEPT !.prepared = ready]  OBVIOUS
<1> HIDE DEF e
<1>3. LET d == [e EXCEPT !.prepared = ready]
      IN  /\ d \in KeyCommands /\ d.at = e.at /\ d.plan = e.plan /\ d.back = e.back
          /\ d.name = e.name /\ d.bound = e.bound /\ d.prepared = ready
  BY <1>1 DEF KeyCommands
<1> QED  BY <1>1, <1>2, <1>3, Zenon DEF GoesTo

\* bind has nothing to do, or prepares the setting's key.
LEMMA BindKeyKeeps ==
    ASSUME KeyInv, BindKey  PROVE KeyInv'
<1> USE DEF KeyInv
<1>1. cmd # NoCommand /\ cmd \in KeyCommands /\ Head(cmd.plan) = "bind" /\ cmd.at = "start"
  BY WhereItIs DEF BindKey, Doing
<1>2. UNCHANGED <<config, install, plugin, lost>>  BY DEF BindKey, FailsHere, Quietly
<1>3. ~lost' => BlockIsRecorded'  BY <1>2, SameBlocks
<1>4. install' \in Installs /\ plugin' \in [key : Keys, text : {"a", "b"}] /\ config \in KeyFiles /\ plugin.key \in Keys
  BY <1>2 DEF KeyTypes
<1>5. ~disturbed => config.blocks \in {<<>>, <<plugin.key>>}  BY <1>1 DEF Agrees, Now, Places
<1>6. CASE Succeeds /\ UNCHANGED disturbed
  BY <1>1, <1>2, <1>3, <1>4, <1>5, <1>6, SucceedsKeeps
<1>7. CASE /\ install = NoInstall /\ UNCHANGED disturbed
           /\ cmd' = [cmd EXCEPT !.at = "record", !.prepared = Prepared(plugin.key, config)]
  <2> DEFINE ready == Prepared(plugin.key, config)
  <2>1. ready \in PreparedOnes /\ ready.key = plugin.key /\ ready.existing = config
        /\ ready.new = Appended(ready.existing, ready.key) /\ ready # NotPrepared
    BY <1>4, PreparedFile
  <2>2. cmd' = [cmd EXCEPT !.at = "record", !.prepared = ready]  BY <1>7
  <2> HIDE DEF ready
  <2>3. GoesTo("record", ready)
    <3>1. "record" \in Places  BY DEF Places
    <3> QED  BY <1>1, <2>1, <2>2, <3>1, PreparesOn, Zenon
  <2>4. KeyTypes'  BY <1>2, <1>7, <2>3 DEF KeyTypes, GoesTo
  <2>5. Planned'  BY <1>1, <2>1, <2>3, GoesPlanned
  <2>6. Theirs'  BY <1>1, <1>2, <2>1, <2>3, GoesTheirs DEF SameTheirs
  <2>7. Blocks'
    <3>1. ~lost => config.blocks = <<>>
      <4>1. NoInstall.state # "whole"  BY DEF NoInstall
      <4> QED  BY <1>7, <4>1 DEF Blocks, BlockIsRecorded
    <3> QED  BY <1>1, <1>2, <1>3, <2>3, <3>1, GoesBlocks
  <2>8. Agrees'  BY <1>1, <1>2, <1>5, <1>7, <2>1, <2>3, GoesAgrees
  <2> QED  BY <2>4, <2>5, <2>6, <2>7, <2>8
<1>8. CASE FailsHere  BY <1>1, <1>2, <1>3, <1>4, <1>8, FailsKeeps DEF FailsHere
<1> QED  BY <1>6, <1>7, <1>8 DEF BindKey

\* A command that starts.
LEMMA StartKeeps ==
    ASSUME KeyInv, NEW name \in {"change", "bind", "unbind"}, NEW plan \in Plans,
           NEW prepared \in PreparedOnes \cup {NotPrepared}, NEW bound \in BOOLEAN,
           Start(name, plan, prepared, bound),
           plan \in Adding => name = "change" /\ prepared # NotPrepared,
           plan = <<"unbind">> => name # "change", plan # <<"save">>,
           prepared # NotPrepared => prepared.new = Appended(prepared.existing, prepared.key),
           ~lost /\ prepared # NotPrepared /\ prepared.existing = Missing => SameTheirs(config, Missing),
           ~lost /\ Head(plan) = "install" => config.blocks = <<>>
    PROVE  KeyInv'
<1> USE DEF KeyInv
<1>1. cmd = NoCommand /\ UNCHANGED <<config, install, plugin, lost, disturbed>>  BY DEF Start
<1>2. /\ cmd' \in KeyCommands /\ cmd'.name = name /\ cmd'.plan = plan /\ cmd'.at = "start"
      /\ cmd'.prepared = prepared
  <2>1. plugin.text \in {"a", "b"} /\ Missing \in KeyFiles  BY MissingFile DEF KeyTypes
  <2>2. cmd' = [name |-> name, plan |-> plan, at |-> "start", back |-> FALSE, prepared |-> prepared,
                bound |-> bound, text |-> plugin.text, read |-> Missing, rest |-> Missing]
    BY DEF Start
  <2>3. cmd' \in KeyCommands  BY <2>1, <2>2, Zenon DEF KeyCommands, Places
  <2> QED  BY <2>2, <2>3
<1>3. ~lost' => BlockIsRecorded'  BY <1>1, SameBlocks
<1>4. KeyTypes'  BY <1>1, <1>2 DEF KeyTypes
<1>5. Planned'
  <2>1. (Adds(Places \ {"start"}) => cmd.prepared # NotPrepared)'  BY <1>2 DEF Adds, Now
  <2>2. (Adds({"check", "rename", "reload"}) => install.state = "whole" /\ install.key = cmd.prepared.key)'
    BY <1>2 DEF Adds, Now
  <2>3. (cmd # NoCommand /\ cmd.prepared # NotPrepared =>
            cmd.prepared.new = Appended(cmd.prepared.existing, cmd.prepared.key))'
    BY <1>2 DEF Appended, Config
  <2> QED  BY <1>2, <2>1, <2>2, <2>3 DEF Planned
<1>6. Theirs'
  <2>1. (cmd # NoCommand /\ cmd.prepared # NotPrepared /\ cmd.prepared.existing = Missing
           /\ ~lost => SameTheirs(config, Missing))'
    BY <1>1, <1>2 DEF SameTheirs, Missing
  <2> QED  BY <1>2, <2>1 DEF Theirs, Adds, Now
<1>7. Blocks'  BY <1>1, <1>2, <1>3 DEF Blocks, Adds, Now
<1>8. Agrees'
  <2>1. ~disturbed => config.blocks \in {<<>>, <<plugin.key>>}  BY <1>1 DEF Agrees
  <2>2. Head(plan) # "save"  BY PlanFacts
  <2> QED  BY <1>1, <1>2, <2>1, <2>2 DEF Agrees, Adds, Now
<1> QED  BY <1>4, <1>5, <1>6, <1>7, <1>8

\* A change prepares its key for what an unbind will leave.
LEMMA StartChangeKeeps ==
    ASSUME KeyInv, NEW key \in Keys, NEW bound \in BOOLEAN, StartChange(key, bound)
    PROVE  KeyInv'
<1> USE DEF KeyInv
<1> DEFINE base == IF bound THEN Remainder(config, install) ELSE config
           plan == IF bound THEN <<"unbind", "install", "save">> ELSE <<"install", "save">>
<1>1. Start("change", plan, Prepared(key, base), bound) /\ PreflightAllows(bound)  BY DEF StartChange
<1>2. config \in KeyFiles  BY DEF KeyTypes
<1>3. base \in KeyFiles /\ SameTheirs(base, config)
  <2>1. CASE bound  BY <1>1, <1>2, <2>1, RemainderFile DEF PreflightAllows
  <2>2. CASE ~bound  BY <1>2, <2>2 DEF SameTheirs
  <2> QED  BY <2>1, <2>2
<1>4. ~lost /\ Head(plan) = "install" => config.blocks = <<>>
  <2>1. CASE bound  BY <2>1
  <2>2. CASE ~bound
    <3>1. install = NoInstall /\ NoInstall.state # "whole"  BY <1>1, <2>2 DEF PreflightAllows, NoInstall
    <3> QED  BY <3>1 DEF Blocks, BlockIsRecorded
  <2> QED  BY <2>1, <2>2
<1>5. plan \in Plans /\ plan \in Adding /\ plan # <<"unbind">> /\ plan # <<"save">>  BY DEF Plans, Adding
<1> HIDE DEF base, plan
<1>6. /\ Prepared(key, base) \in PreparedOnes /\ Prepared(key, base) # NotPrepared
      /\ Prepared(key, base).existing = base
      /\ Prepared(key, base).new = Appended(base, key) /\ Prepared(key, base).key = key
  BY <1>3, PreparedFile
<1> DEFINE ready == Prepared(key, base)
<1>7. ready \in PreparedOnes /\ ready # NotPrepared /\ ready.existing = base /\ ready.new = Appended(base, key)
      /\ ready.key = key /\ Start("change", plan, ready, bound)
  BY <1>1, <1>6
<1> HIDE DEF ready
<1>8. base = Missing => SameTheirs(config, Missing)  BY <1>3 DEF SameTheirs
<1> QED  BY <1>4, <1>5, <1>7, <1>8, StartKeeps

\* bind and unbind start without anything prepared.
LEMMA StartOtherKeeps ==
    ASSUME KeyInv, StartBind \/ StartUnbind  PROVE KeyInv'
<1>1. CASE StartBind
  <2>1. <<"bind">> \in Plans /\ <<"bind">> \notin Adding /\ <<"bind">> # <<"unbind">> /\ <<"bind">> # <<"save">>
        /\ Head(<<"bind">>) = "bind"
    BY PlansDiffer DEF Plans
  <2> QED  BY <1>1, <2>1, StartKeeps DEF StartBind
<1>2. CASE StartUnbind
  <2>1. <<"unbind">> \in Plans /\ <<"unbind">> \notin Adding /\ <<"unbind">> # <<"save">>
        /\ Head(<<"unbind">>) = "unbind"
    BY PlansDiffer DEF Plans
  <2> QED  BY <1>2, <2>1, StartKeeps DEF StartUnbind
<1> QED  BY <1>1, <1>2

\* A save of the operator's.
LEMMA OperatorKeeps ==
    ASSUME KeyInv, NEW new \in KeyFiles, new.blocks \in {config.blocks, <<>>}, OperatorSaves(new)
    PROVE  KeyInv'
<1> USE DEF KeyInv
<1>1. config' = new /\ disturbed' = TRUE /\ UNCHANGED <<install, plugin, cmd>>  BY DEF OperatorSaves
<1>2. lost' \in BOOLEAN /\ (~lost' => ~lost /\ ~Unchecked)
  <2>1. lost' = (lost \/ Unchecked)  BY DEF OperatorSaves
  <2> QED  BY <2>1, Zenon
<1>3. KeyTypes'  BY <1>1, <1>2 DEF KeyTypes
<1>4. Planned'  BY <1>1 DEF Planned, Adds, Now, Appended, Config
<1>5. Theirs'
  <2> SUFFICES ASSUME ~lost' PROVE Theirs'
    BY Zenon DEF Theirs
  <2>1. cmd # NoCommand => cmd.at \notin {"rename", "remove file"} /\ cmd.prepared.existing # Missing
    BY <1>2, CommandThere DEF Unchecked
  <2>2. ~Adds({"rename"}) /\ ~Now("unbind", {"rename", "remove file"})  BY <2>1 DEF Adds, Now
  <2>3. Now("unbind", {"check"}) => SameTheirs(cmd.rest, cmd.read)  BY <1>2 DEF Theirs
  <2> QED  BY <1>1, <2>1, <2>2, <2>3 DEF Theirs, Adds, Now, SameTheirs, Missing
<1>6. Blocks'
  <2>1. ~lost' => BlockIsRecorded'  BY <1>1, <1>2 DEF Blocks, BlockIsRecorded
  <2> QED  BY <1>1, <1>2, <2>1 DEF Blocks, Adds, Now
<1>7. Agrees'  BY <1>1 DEF Agrees
<1> QED  BY <1>3, <1>4, <1>5, <1>6, <1>7

\* What the operator may save.
LEMMA ConfigFile ==
    ASSUME NEW t \in {"", "a", "b"}, NEW taken \in SUBSET Keys, NEW blocks \in Seq(Keys), NEW m \in BOOLEAN
    PROVE  Config(t, taken, blocks, m) \in KeyFiles /\ Config(t, taken, blocks, m).blocks = blocks
<1>1. Config(t, taken, blocks, m) \in KeyFiles  BY Zenon DEF Config, KeyFiles
<1> QED  BY <1>1 DEF Config

\* The operator saves either file.
LEMMA OperatorStepKeeps ==
    ASSUME KeyInv, SaveText \/ (\E k \in Keys : TakeKey(k)) \/ RemoveByHand \/ SavePlugin
    PROVE  KeyInv'
<1> USE DEF KeyInv
<1>1. config.text \in {"", "a", "b"} /\ config.taken \in SUBSET Keys /\ config.blocks \in Seq(Keys)
      /\ config.marker \in BOOLEAN
  BY DEF KeyTypes, KeyFiles
<1>2. CASE SaveText
  <2>1. Config("b", config.taken, config.blocks, config.marker) \in KeyFiles
        /\ Config("b", config.taken, config.blocks, config.marker).blocks = config.blocks
    BY <1>1, ConfigFile
  <2> QED  BY <1>2, <2>1, OperatorKeeps DEF SaveText
<1>3. ASSUME NEW k \in Keys, TakeKey(k) PROVE KeyInv'
  <2> DEFINE more == config.taken \cup {k}
             new  == Config(config.text, more, config.blocks, config.marker)
  <2>1. OperatorSaves(new)  BY <1>3 DEF TakeKey
  <2>2. new \in KeyFiles /\ new.blocks = config.blocks
    <3>1. more \in SUBSET Keys  BY <1>1
    <3> HIDE DEF more
    <3> QED  BY <1>1, <3>1, ConfigFile, ZenonT(40)
  <2> HIDE DEF new
  <2> QED  BY <2>1, <2>2, OperatorKeeps
<1>4. CASE RemoveByHand
  <2>1. PICK m \in BOOLEAN : OperatorSaves(Config(config.text, config.taken, <<>>, m))
    BY <1>4 DEF RemoveByHand
  <2> DEFINE new == Config(config.text, config.taken, <<>>, m)
  <2>2. new \in KeyFiles /\ new.blocks = <<>>
    <3>1. <<>> \in Seq(Keys)  OBVIOUS
    <3> QED  BY <1>1, <3>1, ConfigFile, ZenonT(40)
  <2>3. OperatorSaves(new)  BY <2>1
  <2> HIDE DEF new
  <2> QED  BY <2>2, <2>3, OperatorKeeps
<1>5. CASE SavePlugin
  <2>1. UNCHANGED <<config, install, cmd, lost>> /\ disturbed' = TRUE
        /\ plugin' = [plugin EXCEPT !.text = "b"]
    BY <1>5 DEF SavePlugin
  <2>2. KeyTypes'  BY <2>1 DEF KeyTypes
  <2>3. Planned'  BY <2>1 DEF Planned, Adds, Now, Appended, Config
  <2>4. Theirs'  BY <2>1 DEF Theirs, Adds, Now, SameTheirs, Missing
  <2>5. Blocks'
    <3>1. ~lost' => BlockIsRecorded'  BY <2>1, SameBlocks
    <3> QED  BY <2>1, <3>1 DEF Blocks, Adds, Now
  <2>6. Agrees'  BY <2>1 DEF Agrees
  <2> QED  BY <2>2, <2>3, <2>4, <2>5, <2>6
<1> QED  BY <1>2, <1>3, <1>4, <1>5

\* Nothing of ours is in the first configuration.
LEMMA KeyStarts == KeyInit => KeyInv
<1> SUFFICES ASSUME KeyInit PROVE KeyInv
  OBVIOUS
<1>1. (CHOOSE k \in Keys : TRUE) \in Keys  BY KeyAssumption
<1>2. <<>> \in Seq(Keys)  OBVIOUS
<1>3. Config("a", {}, <<>>, FALSE) \in KeyFiles /\ Config("a", {}, <<>>, FALSE).blocks = <<>>
  BY <1>2, ConfigFile
<1>4. config \in KeyFiles /\ config.blocks = <<>>  BY <1>3, MissingFile DEF KeyInit
<1>5. install = NoInstall /\ cmd = NoCommand /\ lost = FALSE /\ disturbed = FALSE  BY DEF KeyInit
<1>6. plugin \in [key : Keys, text : {"a", "b"}]  BY <1>1 DEF KeyInit
<1>7. KeyTypes  BY <1>4, <1>5, <1>6 DEF KeyTypes, Installs
<1>8. Planned /\ Theirs  BY <1>5 DEF Planned, Theirs, Adds, Now
<1>9. Blocks  BY <1>4, <1>5 DEF Blocks, BlockIsRecorded, Adds, Now
<1>10. Agrees  BY <1>4, <1>5 DEF Agrees, Adds, Now
<1> QED  BY <1>7, <1>8, <1>9, <1>10 DEF KeyInv

\* The invariant is of these variables only.
LEMMA KeyStutters == KeyInv /\ UNCHANGED keyVars => KeyInv'
<1> SUFFICES ASSUME KeyInv, UNCHANGED <<config, install, plugin, cmd, lost, disturbed>> PROVE KeyInv'
  BY DEF keyVars
<1>1. KeyTypes'  BY DEF KeyInv, KeyTypes
<1>2. Planned'  BY DEF KeyInv, Planned, Adds, Now, Appended, Config
<1>3. Theirs'  BY DEF KeyInv, Theirs, Adds, Now, SameTheirs, Missing
<1>4. Blocks'
  <2>1. ~lost' => BlockIsRecorded'  BY SameBlocks DEF KeyInv
  <2> QED  BY <2>1 DEF KeyInv, Blocks, Adds, Now
<1>5. Agrees'  BY DEF KeyInv, Agrees, Adds, Now
<1> QED  BY <1>1, <1>2, <1>3, <1>4, <1>5 DEF KeyInv

\* Every step keeps the invariant.
LEMMA KeySteps == KeyInv /\ [KeyNext]_keyVars => KeyInv'
  BY KeyStutters, OperatorStepKeeps, StartChangeKeeps, StartOtherKeeps, BindKeyKeeps, StartInstallKeeps,
     WriteInstallKeeps, CheckConfigKeeps, RenameConfigKeeps, UndoInstallKeeps, ReloadKeeps, UnbindKeeps,
     CheckRemainderKeeps, WriteRemainderKeeps, ForgetInstallKeeps, SaveSettingKeeps, KillCommandKeeps
     DEF KeyNext

\* What the operator wrote is changed by no step of a command.
LEMMA TheirsStayInStep ==
    ASSUME KeyInv, KeyNext, cmd' # cmd, ~lost  PROVE TheirsStay
<1> USE DEF KeyInv
<1>1. CASE config' = config  BY <1>1 DEF TheirsStay
<1>2. CASE RenameConfig /\ config' = cmd.prepared.new
  <2>1. Adds({"rename"})
    BY <1>2, WhereItIs DEF RenameConfig, Installing, Adds, Now
  <2> QED  BY <1>2, <2>1 DEF Theirs, SameTheirs, TheirsStay
<1>3. CASE WriteRemainder /\ config' = cmd.rest
  <2>1. Now("unbind", {"rename", "remove file"})
    BY <1>3, WhereItIs DEF WriteRemainder, Doing, Now
  <2> QED  BY <1>3, <2>1 DEF Theirs, SameTheirs, TheirsStay
<1>4. config' = config \/ (RenameConfig /\ config' = cmd.prepared.new) \/ (WriteRemainder /\ config' = cmd.rest)
  BY DEF KeyNext, SaveText, TakeKey, RemoveByHand, OperatorSaves, SavePlugin, StartChange, StartBind, StartUnbind, Start,
         BindKey, FailsHere, StartInstall, WriteInstall, CheckConfig, RenameConfig, UndoInstall, Reload, Unbind,
         CheckRemainder, WriteRemainder, ForgetInstall, SaveSetting, KillCommand
<1> QED  BY <1>1, <1>2, <1>3, <1>4

\* A change of a bound key ends with one, unless it was disturbed.
LEMMA ChangeEndsBound ==
    ASSUME KeyInv, KeyNext, cmd.name = "change", cmd.bound, cmd' = NoCommand, ~disturbed'
    PROVE  config'.blocks # <<>>
<1> USE DEF KeyInv
<1>1. cmd # NoCommand /\ cmd \in KeyCommands /\ cmd.plan \in Plans /\ cmd.plan # <<"unbind">>
  BY WhereItIs DEF Planned
<1>2. ~Fails
  <2> SUFFICES ASSUME Fails PROVE FALSE
    OBVIOUS
  <2>1. disturbed' = (disturbed \/ cmd.back) /\ cmd.back
    BY <1>1, FailsLeads, NoneIsThere DEF StartsAt
  <2> QED  BY <2>1
<1>3. Succeeds => Head(cmd.plan) \in {"save", "bind"}
  BY <1>1, SucceedsLeads, NoneIsThere, PlanFacts DEF StartsAt
<1>4. \A p \in Places : cmd' # [cmd EXCEPT !.at = p]  BY <1>1, MovedCommand, NoneIsThere
<1>5. cmd' # cmd /\ disturbed' # TRUE  BY <1>1
<1>6. CASE SaveSetting
  <2>1. Now("save", Places)  BY <1>1, <1>6 DEF SaveSetting, Doing, Now, KeyCommands
  <2>2. ~disturbed /\ config' = config  BY <1>2, <1>6 DEF SaveSetting
  <2>3. config.blocks = <<cmd.prepared.key>>  BY <2>1, <2>2, Zenon DEF Agrees
  <2> QED  BY <2>2, <2>3
<1>7. CASE Reload
  <2>1. Succeeds /\ ~disturbed /\ config' = config /\ cmd.at = "reload"  BY <1>2, <1>7 DEF Reload
  <2>2. Head(cmd.plan) = "bind"  BY <1>3, <1>1, <2>1 DEF Planned, Now, KeyCommands
  <2>3. Adds({"reload"})  BY <1>1, <2>1, <2>2 DEF Adds, Now
  <2>4. config.blocks = <<cmd.prepared.key>>  BY <2>1, <2>3, Zenon DEF Agrees
  <2> QED  BY <2>1, <2>4
<1>8. CASE BindKey
  <2>1. cmd' # [cmd EXCEPT !.at = "record", !.prepared = Prepared(plugin.key, config)]
    <3> DEFINE ready == Prepared(plugin.key, config)
    <3>1. ready \in PreparedOnes /\ "record" \in Places  BY PreparedFile DEF KeyTypes, Places
    <3> HIDE DEF ready
    <3>2. cmd' # [cmd EXCEPT !.at = "record", !.prepared = ready]
      BY <1>1, <3>1, PreparesOn, NoneIsThere, Zenon DEF GoesTo
    <3> QED  BY <3>2, Zenon DEF ready
  <2>2. Removable(config, install.key) /\ config' = config
    BY <1>2, <1>8, <2>1, Zenon DEF BindKey, FailsHere
  <2>3. config \in KeyFiles  BY DEF KeyTypes
  <2> QED  BY <2>2, <2>3, HasBlock
<1>9. CASE Unbind
  <2>1. Head(cmd.plan) = "unbind" /\ cmd.at = "start"  BY <1>9 DEF Unbind, Doing
  <2>2. ~Succeeds  BY <1>3, <2>1
  <2>3. Removable(config, install.key)
        /\ cmd' = [cmd EXCEPT !.at = IF Remainder(config, install) = Missing THEN "remove file" ELSE "check",
                              !.read = config, !.rest = Remainder(config, install)]
    BY <1>2, <1>9, <2>2, Zenon DEF Unbind
  <2> DEFINE rest == Remainder(config, install)
             p == IF rest = Missing THEN "remove file" ELSE "check"
  <2>4. config \in KeyFiles /\ rest \in KeyFiles /\ p \in Places
    <3>1. config \in KeyFiles  BY DEF KeyTypes
    <3> QED  BY <2>3, <3>1, RemainderFile DEF Places
  <2>5. cmd' = [cmd EXCEPT !.at = p, !.read = config, !.rest = rest]  BY <2>3, Zenon
  <2> HIDE DEF rest, p
  <2> DEFINE read == config
  <2>6. read \in KeyFiles /\ cmd' = [cmd EXCEPT !.at = p, !.read = read, !.rest = rest]  BY <2>4, <2>5
  <2> HIDE DEF read
  <2>7. GoesTo(p, cmd.prepared)  BY <1>1, <2>4, <2>6, ReadsOn, Zenon
  <2> QED  BY <2>7, NoneIsThere DEF GoesTo
<1>10. CASE WriteRemainder
  <2>1. config' = cmd.rest /\ Continues("forget")  BY <1>2, <1>10 DEF WriteRemainder
  <2>2. "forget" \in Places /\ Missing \in KeyFiles  BY MissingFile DEF Places
  <2>3. GoesTo("forget", cmd.prepared)  BY <1>1, <2>1, <2>2, ReadsOn, Zenon DEF Continues
  <2> QED  BY <2>3, NoneIsThere DEF GoesTo
<1>11. ASSUME StartInstall \/ WriteInstall \/ CheckConfig \/ RenameConfig \/ UndoInstall
              \/ CheckRemainder \/ ForgetInstall \/ KillCommand
       PROVE  FALSE
  BY <1>2, <1>4, <1>5, <1>11
     DEF StartInstall, WriteInstall, CheckConfig, RenameConfig, UndoInstall, CheckRemainder, ForgetInstall,
         KillCommand, Places
<1>12. ASSUME \/ SaveText \/ (\E k \in Keys : TakeKey(k)) \/ RemoveByHand \/ SavePlugin
              \/ (\E k \in Keys, bound \in BOOLEAN : StartChange(k, bound)) \/ StartBind \/ StartUnbind
       PROVE  FALSE
  BY <1>1, <1>5, <1>12
     DEF SaveText, TakeKey, RemoveByHand, OperatorSaves, SavePlugin, StartChange, StartBind, StartUnbind, Start
<1> QED  BY <1>6, <1>7, <1>8, <1>9, <1>10, <1>11, <1>12 DEF KeyNext
-----------------------------------------------------------------------------
(* The bridge in Claude's settings.                                        *)

\* The operator's lines, or none.
Foreign == TheirLines \cup {NoLine}

\* What the settings, the record and a command may be.
EntrySets == SUBSET {"ours", "theirs"}
HookTables == {NoHooks} \cup UNION {[S -> EntrySets] : S \in SUBSET Events}
SettingsFiles == [line : Foreign \cup {Ours}, hooks : HookTables, missing : BOOLEAN]
WholeRecords == [state : {"whole"}, previous : Foreign, hooks : SUBSET Events, keys : SUBSET Events,
                 table : BOOLEAN]
BridgeRecords == {NoRecord, Torn} \cup WholeRecords
EnableSteps == {"read", "scripts", "before", "edit", "record", "check", "rename", "undo"}
DisableSteps == {"record read", "before", "edit", "check", "rename", "forget"}
BridgeCommands ==
    [name : {"enable", "disable"}, at : EnableSteps \cup DisableSteps, downstream : Foreign,
     before : SettingsFiles, new : SettingsFiles, made : BridgeRecords]
OperatorStates ==
    [line : Foreign, hooks : SUBSET Events, edits : Nat, blind : BOOLEAN, late : BOOLEAN, again : BOOLEAN]

BridgeTypes ==
    /\ settings \in SettingsFiles /\ record \in BridgeRecords /\ script \in Foreign
    /\ command \in {Idle} \cup BridgeCommands
    /\ operator \in OperatorStates

\* The command that runs is at one of the steps.
Running(name, steps) == command # Idle /\ command.name = name /\ command.at \in steps

\* From its write to the rename the record is the command's own, and disable works by it.
Recorded ==
    /\ Running("enable", {"check", "rename"}) => record = command.made
    /\ Running("enable", {"record", "check", "rename"}) => command.made \in WholeRecords
    /\ Running("disable", DisableSteps \ {"record read"}) => command.made = record /\ record \in WholeRecords
    /\ command # Idle => Running("enable", EnableSteps) \/ Running("disable", DisableSteps)

\* Our line is in the settings only with a whole record; enable adds it where it is not, and
\* what disable writes is without it.
LineOurs ==
    /\ settings.line = Ours => record.state = "whole"
    /\ Running("enable", {"record", "check", "rename", "undo"}) => settings.line # Ours
    /\ Running("disable", {"check", "rename"}) => command.new.line # Ours
    /\ Running("disable", {"forget"}) => settings.line # Ours

\* So are our hooks, unless our line was replaced by hand and enabled again.
HooksOurs ==
    ~operator.again =>
      /\ HooksAreRecorded
      /\ Running("enable", {"record", "check", "rename", "undo"}) => Holding(settings.hooks, "ours") = {}
      /\ Running("enable", {"record", "check", "rename"}) => command.made.hooks = Events
      /\ Running("disable", {"check", "rename"}) => Holding(command.new.hooks, "ours") = {}
      /\ Running("disable", {"forget"}) => Holding(settings.hooks, "ours") = {}

\* The command will not notice that the settings changed since they were read.
Unnoticed == command.at = "rename" \/ command.before \in {NoFile, settings}

\* Unless a save fell blind, the operator's line and hooks are in the files, and in what a
\* command that does not notice will write.
TheirsInNew ==
    ~operator.blind =>
      /\ LineKept /\ Holding(settings.hooks, "theirs") = operator.hooks
      /\ Running("enable", {"record", "check", "rename"}) /\ Unnoticed =>
            /\ command.new.line = Ours /\ command.made.previous = settings.line
            /\ Holding(command.new.hooks, "theirs") = Holding(settings.hooks, "theirs")
      /\ Running("disable", {"check", "rename"}) /\ Unnoticed =>
            /\ command.new.line = IF settings.line = Ours THEN record.previous ELSE settings.line
            /\ Holding(command.new.hooks, "theirs") = Holding(settings.hooks, "theirs")

\* The script runs the line the record puts back, unless that changed while scripts were made.
Chain ==
    /\ Running("enable", {"scripts"}) /\ settings.line = Ours => command.downstream = record.previous
    /\ ~operator.late =>
         /\ settings.line = Ours => script = record.previous
         /\ Running("enable", {"before", "edit"}) => settings.line \in {Ours, script}
         /\ Running("enable", {"record", "check", "rename"}) => command.made.previous = script

BridgeI == BridgeTypes /\ Recorded /\ LineOurs /\ HooksOurs /\ TheirsInNew /\ Chain

\* A table of hooks, and the events it holds entries of.
LEMMA HookTable ==
    ASSUME NEW h \in HookTables
    PROVE  /\ EventsOf(h) \subseteq Events
           /\ \A e \in EventsOf(h) : h[e] \in EntrySets
           /\ \A w : Holding(h, w) \subseteq Events
<1>1. CASE h = NoHooks  BY <1>1 DEF EventsOf, Holding
<1>2. CASE h # NoHooks
  <2>1. PICK S \in SUBSET Events : h \in [S -> EntrySets]  BY <1>2 DEF HookTables
  <2> QED  BY <1>2, <2>1 DEF EventsOf, Holding
<1> QED  BY <1>1, <1>2

\* A function on some of the events is a table, and not an absent one.
LEMMA TableMade ==
    ASSUME NEW S \in SUBSET Events, NEW f \in [S -> EntrySets]
    PROVE  f \in HookTables /\ EventsOf(f) = S /\ \A w : Holding(f, w) = {e \in S : w \in f[e]}
<1>1. f \in HookTables  BY DEF HookTables
<1>2. f # NoHooks
  <2>1. "absent" \in DOMAIN NoHooks  BY DEF NoHooks
  <2>2. DOMAIN f = S  OBVIOUS
  <2> QED  BY <2>1, <2>2, EventAssumption
<1>3. EventsOf(f) = S  BY <1>2 DEF EventsOf
<1> QED  BY <1>1, <1>3 DEF Holding
\* Hooks that are absent are a table without events.
LEMMA NoTable ==
    NoHooks \in HookTables /\ EventsOf(NoHooks) = {} /\ \A w : Holding(NoHooks, w) = {}
  BY DEF HookTables, EventsOf, Holding

\* A file, made of its line and its table.
LEMMA FileMade ==
    ASSUME NEW l \in Foreign \cup {Ours}, NEW h \in HookTables
    PROVE  File(l, h) \in SettingsFiles /\ File(l, h).line = l /\ File(l, h).hooks = h
  BY DEF File, SettingsFiles

\* Entries of ours are added, and the others stay.
LEMMA OursAdded ==
    ASSUME NEW h \in HookTables
    PROVE  WithOurs(h) \in HookTables /\ Holding(WithOurs(h), "theirs") = Holding(h, "theirs")
<1> DEFINE had == EventsOf(h)
           entries(e) == (IF e \in had THEN h[e] ELSE {}) \cup (IF e \in Events THEN {"ours"} ELSE {})
<1>1. had \subseteq Events /\ \A e \in had : h[e] \in EntrySets  BY HookTable
<1>2. \A e \in Events : entries(e) \in EntrySets /\ ("theirs" \in entries(e) <=> e \in had /\ "theirs" \in h[e])
  BY <1>1 DEF EntrySets
<1>3. had \cup Events = Events  BY <1>1
<1>4. WithOurs(h) = [e \in Events |-> entries(e)]  BY <1>3 DEF WithOurs
<1>5. Holding(h, "theirs") = {e \in had : "theirs" \in h[e]}  BY DEF Holding
<1> HIDE DEF had, entries
<1>6. WithOurs(h) \in [Events -> EntrySets] /\ \A e \in Events : WithOurs(h)[e] = entries(e)  BY <1>2, <1>4
<1>7. WithOurs(h) \in HookTables /\ Holding(WithOurs(h), "theirs") = {e \in Events : "theirs" \in WithOurs(h)[e]}
  BY <1>6, TableMade
<1> QED  BY <1>1, <1>2, <1>5, <1>6, <1>7

\* Entries of ours go, and the others stay.
LEMMA OursRemoved ==
    ASSUME NEW f \in SettingsFiles, NEW m \in WholeRecords
    PROVE  /\ WithoutOurs(f, m) \in SettingsFiles
           /\ WithoutOurs(f, m).line = IF f.line = Ours THEN m.previous ELSE f.line
           /\ Holding(WithoutOurs(f, m).hooks, "theirs") = Holding(f.hooks, "theirs")
           /\ Holding(WithoutOurs(f, m).hooks, "ours") \subseteq Holding(f.hooks, "ours") \ m.hooks
<1> DEFINE had == EventsOf(f.hooks)
           entries(e) == IF e \in m.hooks THEN f.hooks[e] \ {"ours"} ELSE f.hooks[e]
           less == [e \in had |-> entries(e)]
           kept == {e \in had : ~(e \in m.keys /\ less[e] = {})}
           line == IF f.line = Ours THEN m.previous ELSE f.line
           hooks == IF f.hooks = NoHooks \/ (m.table /\ kept = {}) THEN NoHooks ELSE Restrict(less, kept)
<1>1. WithoutOurs(f, m) = File(line, hooks)  BY DEF WithoutOurs
<1>2. f.hooks \in HookTables /\ line \in Foreign \cup {Ours}  BY DEF SettingsFiles, WholeRecords
<1>3. had \subseteq Events /\ \A e \in had : f.hooks[e] \in EntrySets  BY <1>2, HookTable
<1>4. \A e \in had : /\ entries(e) \in EntrySets /\ less[e] = entries(e)
                     /\ "theirs" \in entries(e) <=> "theirs" \in f.hooks[e]
                     /\ "ours" \in entries(e) <=> "ours" \in f.hooks[e] /\ e \notin m.hooks
  BY <1>3 DEF EntrySets
<1>5. kept \subseteq had /\ \A e \in had : "theirs" \in less[e] \/ "ours" \in less[e] => e \in kept  OBVIOUS
<1>6. \A w : Holding(f.hooks, w) = {e \in had : w \in f.hooks[e]}  BY DEF Holding
<1>7. hooks \in HookTables /\ \A w \in {"ours", "theirs"} : Holding(hooks, w) = {e \in had : w \in less[e]}
  <2>1. CASE f.hooks = NoHooks
    <3>1. had = {} /\ hooks = NoHooks  BY <2>1 DEF EventsOf
    <3> QED  BY <3>1, NoTable
  <2>2. CASE f.hooks # NoHooks /\ m.table /\ kept = {}
    <3>1. hooks = NoHooks  BY <2>2
    <3> HIDE DEF hooks, less, kept, had
    <3> QED  BY <1>5, <2>2, <3>1, NoTable
  <2>3. CASE f.hooks # NoHooks /\ ~(m.table /\ kept = {})
    <3>1. hooks = Restrict(less, kept)  BY <2>3
    <3>2. hooks = [e \in kept |-> less[e]]  BY <3>1 DEF Restrict
    <3> HIDE DEF hooks, less, kept, had, entries
    <3>3. kept \in SUBSET Events /\ hooks \in [kept -> EntrySets] /\ \A e \in kept : hooks[e] = less[e]
      BY <1>3, <1>4, <1>5, <3>2
    <3>4. hooks \in HookTables /\ \A w : Holding(hooks, w) = {e \in kept : w \in hooks[e]}
      BY <3>3, TableMade
    <3> QED  BY <1>5, <3>3, <3>4
  <2> QED  BY <2>1, <2>2, <2>3
<1> HIDE DEF had, entries, less, kept, line, hooks
<1>8. File(line, hooks) \in SettingsFiles /\ File(line, hooks).line = line /\ File(line, hooks).hooks = hooks
  <2>1. hooks \in HookTables /\ line \in Foreign \cup {Ours}  BY <1>2, <1>7
  <2> QED  BY <2>1, FileMade, ZenonT(30)
<1>9. /\ Holding(hooks, "theirs") = {e \in had : "theirs" \in less[e]}
      /\ Holding(hooks, "ours") = {e \in had : "ours" \in less[e]}
      /\ Holding(f.hooks, "theirs") = {e \in had : "theirs" \in f.hooks[e]}
      /\ Holding(f.hooks, "ours") = {e \in had : "ours" \in f.hooks[e]}
  BY <1>6, <1>7, Zenon
<1>10. Holding(hooks, "theirs") = Holding(f.hooks, "theirs")
  <2>1. \A e \in had : "theirs" \in less[e] <=> "theirs" \in f.hooks[e]  BY <1>4
  <2> QED  BY <1>9, <2>1
<1>11. Holding(hooks, "ours") \subseteq Holding(f.hooks, "ours") \ m.hooks
  <2>1. \A e \in had : "ours" \in less[e] => "ours" \in f.hooks[e] /\ e \notin m.hooks  BY <1>4
  <2> QED  BY <1>9, <2>1
<1> QED  BY <1>1, <1>8, <1>10, <1>11 DEF line

\* Each field of a command can be set alone.
LEMMA AtSet ==
    ASSUME NEW c \in BridgeCommands, NEW x \in EnableSteps \cup DisableSteps
    PROVE  LET d == [c EXCEPT !.at = x]
           IN  d \in BridgeCommands /\ d.at = x /\ d.name = c.name /\ d.downstream = c.downstream
               /\ d.before = c.before /\ d.new = c.new /\ d.made = c.made
  BY DEF BridgeCommands

\* The line the status line chains to,
LEMMA DownstreamSet ==
    ASSUME NEW c \in BridgeCommands, NEW x \in Foreign
    PROVE  LET d == [c EXCEPT !.downstream = x]
           IN  d \in BridgeCommands /\ d.downstream = x /\ d.name = c.name /\ d.at = c.at
               /\ d.before = c.before /\ d.new = c.new /\ d.made = c.made
  BY DEF BridgeCommands

\* the text a later check compares with,
LEMMA BeforeSet ==
    ASSUME NEW c \in BridgeCommands, NEW x \in SettingsFiles
    PROVE  LET d == [c EXCEPT !.before = x]
           IN  d \in BridgeCommands /\ d.before = x /\ d.name = c.name /\ d.at = c.at
               /\ d.downstream = c.downstream /\ d.new = c.new /\ d.made = c.made
  BY DEF BridgeCommands

\* the new settings,
LEMMA NewSet ==
    ASSUME NEW c \in BridgeCommands, NEW x \in SettingsFiles
    PROVE  LET d == [c EXCEPT !.new = x]
           IN  d \in BridgeCommands /\ d.new = x /\ d.name = c.name /\ d.at = c.at
               /\ d.downstream = c.downstream /\ d.before = c.before /\ d.made = c.made
  BY DEF BridgeCommands

\* and the record.
LEMMA MadeSet ==
    ASSUME NEW c \in BridgeCommands, NEW x \in BridgeRecords
    PROVE  LET d == [c EXCEPT !.made = x]
           IN  d \in BridgeCommands /\ d.made = x /\ d.name = c.name /\ d.at = c.at
               /\ d.downstream = c.downstream /\ d.before = c.before /\ d.new = c.new
  BY DEF BridgeCommands

\* The command as a step leaves it.
Leads(step, downstream, before, new, prepared) ==
    /\ command' \in BridgeCommands /\ command'.name = command.name /\ command'.at = step
    /\ command'.downstream = downstream /\ command'.before = before
    /\ command'.new = new /\ command'.made = prepared
\* The steps of a command, by the fields they set: none but where it is,
LEMMA LeadsAt ==
    ASSUME command \in BridgeCommands, NEW s \in EnableSteps \cup DisableSteps, Goes(s)
    PROVE  Leads(s, command.downstream, command.before, command.new, command.made)
  BY AtSet, Zenon DEF Goes, Leads
\* the line to chain to,
LEMMA LeadsDownstream ==
    ASSUME command \in BridgeCommands, NEW s \in EnableSteps \cup DisableSteps, NEW x \in Foreign,
           command' = [command EXCEPT !.at = s, !.downstream = x]
    PROVE  Leads(s, x, command.before, command.new, command.made)
<1> DEFINE e == [command EXCEPT !.at = s]
<1>1. e \in BridgeCommands /\ e.at = s /\ e.name = command.name /\ e.downstream = command.downstream
      /\ e.before = command.before /\ e.new = command.new /\ e.made = command.made
  BY AtSet, Zenon
<1>2. command' = [e EXCEPT !.downstream = x]  OBVIOUS
<1> HIDE DEF e
<1>3. LET d == [e EXCEPT !.downstream = x]
      IN  d \in BridgeCommands /\ d.downstream = x /\ d.name = e.name /\ d.at = e.at
          /\ d.before = e.before /\ d.new = e.new /\ d.made = e.made
  BY <1>1, DownstreamSet, Zenon
<1> QED  BY <1>1, <1>2, <1>3, Zenon DEF Leads
\* the text read,
LEMMA LeadsBefore ==
    ASSUME command \in BridgeCommands, NEW s \in EnableSteps \cup DisableSteps, NEW x \in SettingsFiles,
           command' = [command EXCEPT !.at = s, !.before = x]
    PROVE  Leads(s, command.downstream, x, command.new, command.made)
<1> DEFINE e == [command EXCEPT !.at = s]
<1>1. e \in BridgeCommands /\ e.at = s /\ e.name = command.name /\ e.downstream = command.downstream
      /\ e.before = command.before /\ e.new = command.new /\ e.made = command.made
  BY AtSet, Zenon
<1>2. command' = [e EXCEPT !.before = x]  OBVIOUS
<1> HIDE DEF e
<1>3. LET d == [e EXCEPT !.before = x]
      IN  d \in BridgeCommands /\ d.before = x /\ d.name = e.name /\ d.at = e.at
          /\ d.downstream = e.downstream /\ d.new = e.new /\ d.made = e.made
  BY <1>1, BeforeSet, Zenon
<1> QED  BY <1>1, <1>2, <1>3, Zenon DEF Leads
\* the new settings,
LEMMA LeadsNew ==
    ASSUME command \in BridgeCommands, NEW s \in EnableSteps \cup DisableSteps, NEW x \in SettingsFiles,
           command' = [command EXCEPT !.at = s, !.new = x]
    PROVE  Leads(s, command.downstream, command.before, x, command.made)
<1> DEFINE e == [command EXCEPT !.at = s]
<1>1. e \in BridgeCommands /\ e.at = s /\ e.name = command.name /\ e.downstream = command.downstream
      /\ e.before = command.before /\ e.new = command.new /\ e.made = command.made
  BY AtSet, Zenon
<1>2. command' = [e EXCEPT !.new = x]  OBVIOUS
<1> HIDE DEF e
<1>3. LET d == [e EXCEPT !.new = x]
      IN  d \in BridgeCommands /\ d.new = x /\ d.name = e.name /\ d.at = e.at
          /\ d.downstream = e.downstream /\ d.before = e.before /\ d.made = e.made
  BY <1>1, NewSet, Zenon
<1> QED  BY <1>1, <1>2, <1>3, Zenon DEF Leads
\* the record,
LEMMA LeadsMade ==
    ASSUME command \in BridgeCommands, NEW s \in EnableSteps \cup DisableSteps, NEW x \in BridgeRecords,
           command' = [command EXCEPT !.at = s, !.made = x]
    PROVE  Leads(s, command.downstream, command.before, command.new, x)
<1> DEFINE e == [command EXCEPT !.at = s]
<1>1. e \in BridgeCommands /\ e.at = s /\ e.name = command.name /\ e.downstream = command.downstream
      /\ e.before = command.before /\ e.new = command.new /\ e.made = command.made
  BY AtSet, Zenon
<1>2. command' = [e EXCEPT !.made = x]  OBVIOUS
<1> HIDE DEF e
<1>3. LET d == [e EXCEPT !.made = x]
      IN  d \in BridgeCommands /\ d.made = x /\ d.name = e.name /\ d.at = e.at
          /\ d.downstream = e.downstream /\ d.before = e.before /\ d.new = e.new
  BY <1>1, MadeSet, Zenon
<1> QED  BY <1>1, <1>2, <1>3, Zenon DEF Leads
\* or the new settings and their record.
LEMMA LeadsNewAndMade ==
    ASSUME command \in BridgeCommands, NEW s \in EnableSteps \cup DisableSteps, NEW x \in SettingsFiles,
           NEW y \in BridgeRecords,
           command' = [command EXCEPT !.at = s, !.new = x, !.made = y]
    PROVE  Leads(s, command.downstream, command.before, x, y)
<1> DEFINE e == [command EXCEPT !.at = s]
           g == [e EXCEPT !.new = x]
<1>1. e \in BridgeCommands /\ e.at = s /\ e.name = command.name /\ e.downstream = command.downstream
      /\ e.before = command.before /\ e.new = command.new /\ e.made = command.made
  BY AtSet, Zenon
<1>2. command' = [g EXCEPT !.made = y]  OBVIOUS
<1> HIDE DEF e
<1>3. g \in BridgeCommands /\ g.new = x /\ g.name = e.name /\ g.at = e.at /\ g.downstream = e.downstream
      /\ g.before = e.before /\ g.made = e.made
  BY <1>1, NewSet, Zenon
<1> HIDE DEF g
<1>4. LET d == [g EXCEPT !.made = y]
      IN  d \in BridgeCommands /\ d.made = y /\ d.name = g.name /\ d.at = g.at /\ d.downstream = g.downstream
          /\ d.before = g.before /\ d.new = g.new
  BY <1>3, MadeSet, Zenon
<1> QED  BY <1>1, <1>2, <1>3, <1>4, Zenon DEF Leads

\* A command that is there is a whole one.
LEMMA CommandRuns ==
    ASSUME BridgeTypes
    PROVE  /\ command # Idle <=> command.name # "idle"
           /\ command # Idle => command \in BridgeCommands /\ command.name \in {"enable", "disable"}
           /\ \A c \in BridgeCommands : c # Idle
<1>1. Idle.name = "idle"  BY DEF Idle
<1>2. \A c \in BridgeCommands : c.name \in {"enable", "disable"} /\ c.name # "idle"  BY DEF BridgeCommands
<1> QED  BY <1>1, <1>2 DEF BridgeTypes

\* The operator's part, where nothing is between a look and a write.
TheirsAreThere == LineKept /\ Holding(settings.hooks, "theirs") = operator.hooks

\* Of a command that ended only the files matter.
LEMMA BridgeEnds ==
    ASSUME command' = Idle
    PROVE  /\ Recorded'
           /\ LineOurs' <=> (settings'.line = Ours => record'.state = "whole")
           /\ HooksOurs' <=> (operator'.again \/ HooksAreRecorded')
           /\ TheirsInNew' <=> (operator'.blind \/ TheirsAreThere')
           /\ Chain' <=> (operator'.late \/ (settings'.line = Ours => script' = record'.previous))
<1>1. \A n, s : ~Running(n, s)'  BY DEF Running
<1>2. Recorded'  BY <1>1, Zenon DEF Recorded
<1>3. LineOurs' <=> (settings'.line = Ours => record'.state = "whole")  BY <1>1, Zenon DEF LineOurs
<1>4. HooksOurs' <=> (operator'.again \/ HooksAreRecorded')  BY <1>1, Zenon DEF HooksOurs
<1>5. TheirsInNew' <=> (operator'.blind \/ TheirsAreThere')  BY <1>1, Zenon DEF TheirsInNew, TheirsAreThere
<1>6. Chain' <=> (operator'.late \/ (settings'.line = Ours => script' = record'.previous))
  BY <1>1, Zenon DEF Chain
<1> QED  BY <1>2, <1>3, <1>4, <1>5, <1>6

\* What the files say stays where no file changes.
LEMMA FilesStay ==
    ASSUME UNCHANGED <<settings, record, operator>>
    PROVE  (HooksAreRecorded' <=> HooksAreRecorded) /\ (TheirsAreThere' <=> TheirsAreThere)
  BY DEF HooksAreRecorded, TheirsAreThere, LineKept, Holding, EventsOf

\* A command that ends where no file changes.
LEMMA QuietEnd ==
    ASSUME BridgeI, command' = Idle, UNCHANGED <<settings, record, script, operator>>
    PROVE  BridgeI'
<1>1. BridgeTypes'  BY DEF BridgeI, BridgeTypes
<1>2. settings'.line = Ours => record'.state = "whole"  BY DEF BridgeI, LineOurs
<1>3. operator'.again \/ HooksAreRecorded'  BY FilesStay DEF BridgeI, HooksOurs
<1>4. operator'.blind \/ TheirsAreThere'  BY FilesStay DEF BridgeI, TheirsInNew, TheirsAreThere
<1>5. operator'.late \/ (settings'.line = Ours => script' = record'.previous)  BY DEF BridgeI, Chain
<1> QED  BY <1>1, <1>2, <1>3, <1>4, <1>5, BridgeEnds DEF BridgeI

\* What must hold of where a command goes, while no file changes.
LEMMA QuietStep ==
    ASSUME BridgeI, UNCHANGED <<settings, record, script, operator>>,
           command' \in BridgeCommands,
           Running("enable", EnableSteps)' \/ Running("disable", DisableSteps)',
           Running("enable", {"check", "rename"})' => record = command'.made,
           Running("enable", {"record", "check", "rename"})' =>
              /\ command'.made \in WholeRecords
              /\ ~operator.again => command'.made.hooks = Events
              /\ ~operator.late => command'.made.previous = script
              /\ ~operator.blind /\ Unnoticed' =>
                    /\ command'.new.line = Ours /\ command'.made.previous = settings.line
                    /\ Holding(command'.new.hooks, "theirs") = Holding(settings.hooks, "theirs"),
           Running("enable", {"record", "check", "rename", "undo"})' =>
              settings.line # Ours /\ (~operator.again => Holding(settings.hooks, "ours") = {}),
           Running("enable", {"before", "edit"})' /\ ~operator.late => settings.line \in {Ours, script},
           Running("enable", {"scripts"})' /\ settings.line = Ours => command'.downstream = record.previous,
           Running("disable", DisableSteps \ {"record read"})' => command'.made = record /\ record \in WholeRecords,
           Running("disable", {"check", "rename"})' =>
              /\ command'.new.line # Ours
              /\ ~operator.again => Holding(command'.new.hooks, "ours") = {}
              /\ ~operator.blind /\ Unnoticed' =>
                    /\ command'.new.line = IF settings.line = Ours THEN record.previous ELSE settings.line
                    /\ Holding(command'.new.hooks, "theirs") = Holding(settings.hooks, "theirs"),
           Running("disable", {"forget"})' =>
              settings.line # Ours /\ (~operator.again => Holding(settings.hooks, "ours") = {})
    PROVE  BridgeI'
<1>1. BridgeTypes'  BY DEF BridgeI, BridgeTypes
<1>2. Recorded'  BY DEF Recorded
<1>3. LineOurs'  BY DEF BridgeI, LineOurs
<1>4. HooksOurs'
  <2>1. HooksAreRecorded' <=> HooksAreRecorded  BY FilesStay
  <2>2. ~operator.again => HooksAreRecorded  BY DEF BridgeI, HooksOurs
  <2> QED  BY <2>1, <2>2 DEF HooksOurs
<1>5. TheirsInNew'
  <2>1. TheirsAreThere' <=> TheirsAreThere  BY FilesStay
  <2>2. ~operator.blind => TheirsAreThere  BY DEF BridgeI, TheirsInNew, TheirsAreThere
  <2> QED  BY <2>1, <2>2 DEF TheirsInNew, TheirsAreThere
<1>6. Chain'  BY DEF BridgeI, Chain
<1> QED  BY <1>1, <1>2, <1>3, <1>4, <1>5, <1>6 DEF BridgeI
\* A command begins with nothing read.
LEMMA BeginKeeps ==
    ASSUME BridgeI, NEW name \in {"enable", "disable"}, Begin(name)  PROVE BridgeI'
<1> DEFINE step == IF name = "enable" THEN "read" ELSE "record read"
<1>1. UNCHANGED <<settings, record, script, operator>>  BY DEF Begin
<1>2. command' = [name |-> name, at |-> step, downstream |-> NoLine, before |-> NoFile, new |-> NoFile,
                  made |-> NoRecord]
  BY DEF Begin
<1>3. NoFile \in SettingsFiles /\ NoLine \in Foreign /\ NoRecord \in BridgeRecords
      /\ step \in EnableSteps \cup DisableSteps
  BY NoTable DEF NoFile, SettingsFiles, Foreign, BridgeRecords, EnableSteps, DisableSteps
<1>4. (name = "enable" => step = "read") /\ (name = "disable" => step = "record read")  OBVIOUS
<1> HIDE DEF step
<1>5. command' \in BridgeCommands /\ command'.name = name /\ command'.at = step  BY <1>2, <1>3 DEF BridgeCommands
<1>6. command' # Idle  BY <1>5, CommandRuns DEF BridgeI
<1> QED  BY <1>1, <1>4, <1>5, <1>6, QuietStep DEF Running, EnableSteps, DisableSteps
\* Our line chains to what the record holds where ours is there already.
LEMMA ReadDownstreamKeeps ==
    ASSUME BridgeI, ReadDownstream  PROVE BridgeI'
<1>1. UNCHANGED <<settings, record, script, operator>>  BY DEF ReadDownstream
<1>2. /\ command # Idle /\ command \in BridgeCommands /\ command.name = "enable"
      /\ settings.line \in Foreign \cup {Ours} /\ record \in BridgeRecords
  BY CommandRuns DEF BridgeI, BridgeTypes, ReadDownstream, At, SettingsFiles
<1>3. CASE CommandEnds  BY <1>1, <1>3, QuietEnd DEF CommandEnds
<1>4. ASSUME NEW line \in Foreign, command' = [command EXCEPT !.at = "scripts", !.downstream = line],
             settings.line = Ours => line = record.previous
      PROVE  BridgeI'
  <2>1. "scripts" \in EnableSteps \cup DisableSteps  BY DEF EnableSteps
  <2>2. Leads("scripts", line, command.before, command.new, command.made)
    BY <1>2, <1>4, <2>1, LeadsDownstream
  <2>3. command' # Idle  BY <2>2, CommandRuns DEF BridgeI, Leads
  <2> QED  BY <1>1, <1>2, <1>4, <2>2, <2>3, QuietStep DEF Running, Leads, EnableSteps
<1>5. CASE settings.line # Ours /\ command' = [command EXCEPT !.at = "scripts", !.downstream = settings.line]
  BY <1>2, <1>4, <1>5
<1>6. CASE /\ settings.line = Ours /\ record \notin {NoRecord, Torn}
           /\ command' = [command EXCEPT !.at = "scripts", !.downstream = record.previous]
  <2>1. record.previous \in Foreign  BY <1>2, <1>6 DEF BridgeRecords, WholeRecords
  <2> QED  BY <1>4, <1>6, <2>1
<1> QED  BY <1>3, <1>5, <1>6 DEF ReadDownstream
\* The scripts have the operator's line, unless it changed on the way.
LEMMA GenerateScriptsKeeps ==
    ASSUME BridgeI, GenerateScripts  PROVE BridgeI'
<1>1. UNCHANGED <<settings, record>>  BY DEF GenerateScripts
<1>2. command # Idle /\ command \in BridgeCommands /\ command.name = "enable" /\ command.at = "scripts"
  BY CommandRuns DEF BridgeI, GenerateScripts, At
<1>3. CASE CommandEnds /\ UNCHANGED <<script, operator>>  BY <1>1, <1>3, QuietEnd DEF CommandEnds
<1>4. CASE /\ script' = command.downstream
           /\ command' = [command EXCEPT !.at = "before", !.downstream = NoLine]
           /\ operator' = [operator EXCEPT !.late = settings.line \notin {Ours, script'}]
  <2>1. Leads("before", NoLine, command.before, command.new, command.made) /\ command' # Idle
    <3>1. "before" \in EnableSteps \cup DisableSteps /\ NoLine \in Foreign  BY DEF EnableSteps, Foreign
    <3>2. Leads("before", NoLine, command.before, command.new, command.made)
      BY <1>2, <1>4, <3>1, LeadsDownstream
    <3> QED  BY <3>2, CommandRuns DEF BridgeI, Leads
  <2>2. /\ operator'.line = operator.line /\ operator'.hooks = operator.hooks /\ operator'.blind = operator.blind
        /\ operator'.again = operator.again /\ operator'.late = (settings.line \notin {Ours, script'})
        /\ operator' \in OperatorStates
    BY <1>4, Zenon DEF BridgeI, BridgeTypes, OperatorStates
  <2>3. BridgeTypes'
    <3>1. command.downstream \in Foreign  BY <1>2 DEF BridgeCommands
    <3> QED  BY <1>1, <1>4, <2>1, <2>2, <3>1 DEF BridgeI, BridgeTypes, Leads
  <2>4. Recorded'  BY <1>2, <2>1 DEF Recorded, Running, Leads, EnableSteps
  <2>5. LineOurs'  BY <1>1, <1>2, <2>1 DEF BridgeI, LineOurs, Running, Leads
  <2>6. HooksOurs'
    <3>1. ~operator'.again => HooksAreRecorded  BY <2>2 DEF BridgeI, HooksOurs
    <3>2. HooksAreRecorded /\ ~operator'.again => HooksAreRecorded'
      BY <1>1, <2>2 DEF HooksAreRecorded, Holding, EventsOf
    <3> QED  BY <1>2, <2>1, <3>1, <3>2 DEF HooksOurs, Running, Leads
  <2>7. TheirsInNew'
    <3>1. ~operator'.blind => TheirsAreThere  BY <2>2 DEF BridgeI, TheirsInNew, TheirsAreThere
    <3>2. TheirsAreThere => TheirsAreThere'
      BY <1>1, <2>2 DEF TheirsAreThere, LineKept, Holding, EventsOf
    <3> QED  BY <1>2, <2>1, <3>1, <3>2 DEF TheirsInNew, TheirsAreThere, Running, Leads
  <2>8. Chain'
    <3>1. settings.line = Ours => script' = record.previous  BY <1>2, <1>4 DEF BridgeI, Chain, Running
    <3>2. ~operator'.late => settings.line \in {Ours, script'}  BY <2>2
    <3> QED  BY <1>1, <1>2, <2>1, <3>1, <3>2 DEF Chain, Running, Leads
  <2> QED  BY <2>3, <2>4, <2>5, <2>6, <2>7, <2>8 DEF BridgeI
<1> QED  BY <1>3, <1>4 DEF GenerateScripts
\* enable and disable read the settings.
LEMMA ReadBeforeKeeps ==
    ASSUME BridgeI, ReadBefore  PROVE BridgeI'
<1>1. UNCHANGED <<settings, record, script, operator>>  BY DEF ReadBefore
<1>2. /\ command # Idle /\ command \in BridgeCommands /\ command.at = "before"
      /\ settings \in SettingsFiles
  BY CommandRuns DEF BridgeI, BridgeTypes, ReadBefore
<1>3. Leads("edit", command.downstream, settings, command.new, command.made) /\ command' # Idle
  <2>1. "edit" \in EnableSteps \cup DisableSteps /\ command' = [command EXCEPT !.at = "edit", !.before = settings]
    BY DEF EnableSteps, ReadBefore
  <2>2. Leads("edit", command.downstream, settings, command.new, command.made)
    BY <1>2, <2>1, LeadsBefore
  <2> QED  BY <2>2, CommandRuns DEF BridgeI, Leads
<1>4. command.name \in {"enable", "disable"}  BY <1>2, CommandRuns DEF BridgeI
<1>5. command.name = "disable" => command.made = record /\ record \in WholeRecords
  BY <1>2 DEF BridgeI, Recorded, Running, DisableSteps
<1>6. command.name = "enable" /\ ~operator.late => settings.line \in {Ours, script}
  BY <1>2 DEF BridgeI, Chain, Running
<1> QED  BY <1>1, <1>2, <1>3, <1>4, <1>5, <1>6, QuietStep DEF Running, Leads, EnableSteps, DisableSteps
\* A killed command leaves every file.
LEMMA KilledKeeps ==
    ASSUME BridgeI, Killed  PROVE BridgeI'
  BY QuietEnd DEF Killed, CommandEnds
\* disable ends where there is no whole record.
LEMMA ReadRecordKeeps ==
    ASSUME BridgeI, ReadRecord  PROVE BridgeI'
<1>1. UNCHANGED <<settings, record, script, operator>>  BY DEF ReadRecord
<1>2. /\ command # Idle /\ command \in BridgeCommands /\ command.name = "disable" /\ record \in BridgeRecords
  BY CommandRuns DEF BridgeI, BridgeTypes, ReadRecord, At
<1>3. CASE CommandEnds  BY <1>1, <1>3, QuietEnd DEF CommandEnds
<1>4. CASE record \notin {NoRecord, Torn} /\ command' = [command EXCEPT !.at = "before", !.made = record]
  <2>1. "before" \in EnableSteps \cup DisableSteps /\ record \in WholeRecords
    BY <1>2, <1>4 DEF EnableSteps, BridgeRecords
  <2>2. Leads("before", command.downstream, command.before, command.new, record)
    BY <1>2, <1>4, <2>1, LeadsMade
  <2>3. command' # Idle  BY <2>2, CommandRuns DEF BridgeI, Leads
  <2> QED  BY <1>1, <1>2, <2>1, <2>2, <2>3, QuietStep DEF Running, Leads, DisableSteps
<1> QED  BY <1>3, <1>4 DEF ReadRecord
\* What disable will write is the operator's, and nothing of ours the record names.
LEMMA EditDisabledKeeps ==
    ASSUME BridgeI, EditDisabled  PROVE BridgeI'
<1>1. UNCHANGED <<settings, record, script, operator>>  BY DEF EditDisabled
<1>2. /\ command # Idle /\ command \in BridgeCommands /\ command.name = "disable" /\ command.at = "edit"
      /\ settings \in SettingsFiles
  BY CommandRuns DEF BridgeI, BridgeTypes, EditDisabled, At
<1>3. command.made = record /\ record \in WholeRecords  BY <1>2 DEF BridgeI, Recorded, Running, DisableSteps
<1> DEFINE new == WithoutOurs(settings, record)
<1>4. /\ new \in SettingsFiles
      /\ new.line = IF settings.line = Ours THEN record.previous ELSE settings.line
      /\ Holding(new.hooks, "theirs") = Holding(settings.hooks, "theirs")
      /\ Holding(new.hooks, "ours") \subseteq Holding(settings.hooks, "ours") \ record.hooks
  BY <1>2, <1>3, OursRemoved
<1>5. command' = [command EXCEPT !.at = "check", !.new = new]  BY <1>3 DEF EditDisabled
<1> HIDE DEF new
<1>6. Leads("check", command.downstream, command.before, new, command.made) /\ command' # Idle
  <2>1. "check" \in EnableSteps \cup DisableSteps  BY DEF EnableSteps
  <2>2. Leads("check", command.downstream, command.before, new, command.made)
    BY <1>2, <1>4, <1>5, <2>1, LeadsNew
  <2> QED  BY <2>2, CommandRuns DEF BridgeI, Leads
<1>7. new.line # Ours
  <2>1. record.previous \in Foreign  BY <1>3 DEF WholeRecords
  <2>2. Ours \notin Foreign  BY LineAssumption DEF Ours, Foreign, NoLine
  <2> QED  BY <1>4, <2>1, <2>2
<1>8. ~operator.again => Holding(new.hooks, "ours") = {}
  <2>1. ~operator.again /\ Holding(settings.hooks, "ours") # {} => Holding(settings.hooks, "ours") \subseteq record.hooks
    BY DEF BridgeI, HooksOurs, HooksAreRecorded
  <2> QED  BY <1>4, <2>1
<1> QED  BY <1>1, <1>2, <1>3, <1>4, <1>6, <1>7, <1>8, QuietStep DEF Running, Leads, DisableSteps
\* The operator's lines are not ours.
LEMMA NotOurs == Ours \notin Foreign
  BY LineAssumption DEF Ours, Foreign, NoLine

\* A record made of its parts.
LEMMA RecordMade ==
    \A r : \A l \in Foreign, h \in SUBSET Events, k \in SUBSET Events, t \in BOOLEAN :
      r = [state |-> "whole", previous |-> l, hooks |-> h, keys |-> k, table |-> t]
        => r \in WholeRecords /\ r.previous = l /\ r.hooks = h
<1> SUFFICES ASSUME NEW r, NEW l \in Foreign, NEW h \in SUBSET Events, NEW k \in SUBSET Events, NEW t \in BOOLEAN,
                    r = [state |-> "whole", previous |-> l, hooks |-> h, keys |-> k, table |-> t]
             PROVE  r \in WholeRecords /\ r.previous = l /\ r.hooks = h
  BY Zenon
<1>1. r \in WholeRecords
  <2>1. "whole" \in {"whole"}  OBVIOUS
  <2> QED  BY <2>1, Zenon DEF WholeRecords
<1>2. r.previous = l /\ r.hooks = h  BY Zenon
<1> QED  BY <1>1, <1>2
\* What enable will write has the operator's hooks, and its record the operator's line.
LEMMA EditEnabledKeeps ==
    ASSUME BridgeI, EditEnabled  PROVE BridgeI'
<1> DEFINE ours == Holding(settings.hooks, "ours")
<1>1. UNCHANGED <<settings, record, script>>  BY DEF EditEnabled
<1>2. /\ command # Idle /\ command \in BridgeCommands /\ command.name = "enable" /\ command.at = "edit"
      /\ settings \in SettingsFiles
  BY CommandRuns DEF BridgeI, BridgeTypes, EditEnabled, At
<1>3. /\ operator'.line = operator.line /\ operator'.hooks = operator.hooks /\ operator'.blind = operator.blind
      /\ operator'.late = operator.late /\ operator'.again = (operator.again \/ (~AlreadyOurs /\ ours # {}))
      /\ operator' \in OperatorStates
  BY Zenon DEF BridgeI, BridgeTypes, OperatorStates, EditEnabled
<1>4. /\ ~operator'.again => HooksAreRecorded'
      /\ ~operator'.blind => TheirsAreThere'
      /\ ~operator'.late /\ settings.line = Ours => script = record.previous
  <2>1. ~operator'.again => HooksAreRecorded  BY <1>3 DEF BridgeI, HooksOurs
  <2>2. HooksAreRecorded /\ ~operator'.again => HooksAreRecorded'
    BY <1>1, <1>3 DEF HooksAreRecorded, Holding, EventsOf
  <2>3. ~operator'.blind => TheirsAreThere  BY <1>3 DEF BridgeI, TheirsInNew, TheirsAreThere
  <2>4. TheirsAreThere => TheirsAreThere'
    BY <1>1, <1>3 DEF TheirsAreThere, LineKept, Holding, EventsOf
  <2>5. ~operator'.late /\ settings.line = Ours => script = record.previous  BY <1>3 DEF BridgeI, Chain
  <2> QED  BY <2>1, <2>2, <2>3, <2>4, <2>5
<1>5. CASE CommandEnds
  <2>1. BridgeTypes'  BY <1>1, <1>3, <1>5 DEF BridgeI, BridgeTypes, CommandEnds
  <2>2. settings'.line = Ours => record'.state = "whole"  BY <1>1 DEF BridgeI, LineOurs
  <2> QED  BY <1>1, <1>4, <1>5, <2>1, <2>2, BridgeEnds DEF BridgeI, CommandEnds
<1>6. CASE /\ settings.line # Ours /\ ~AlreadyOurs
           /\ command' = [command EXCEPT !.at = "record", !.new = File(Ours, WithOurs(settings.hooks)),
                                         !.made = RecordOf(settings)]
  <2> DEFINE new == File(Ours, WithOurs(settings.hooks))
             mine == RecordOf(settings)
  <2>1. settings.hooks \in HookTables /\ settings.line \in Foreign  BY <1>2, <1>6 DEF SettingsFiles
  <2>2. /\ new \in SettingsFiles /\ new.line = Ours
        /\ Holding(new.hooks, "theirs") = Holding(settings.hooks, "theirs")
    <3>1. WithOurs(settings.hooks) \in HookTables
          /\ Holding(WithOurs(settings.hooks), "theirs") = Holding(settings.hooks, "theirs")
      BY <2>1, OursAdded
    <3> QED  BY <3>1 DEF File, SettingsFiles
  <2>3. mine \in WholeRecords /\ mine.previous = settings.line /\ (ours = {} => mine.hooks = Events)
    <3> DEFINE bare == settings.hooks = NoHooks
               added == Events \ ours
               keys == Events \ EventsOf(settings.hooks)
    <3>1. added \in SUBSET Events /\ keys \in SUBSET Events /\ bare \in BOOLEAN /\ (ours = {} => added = Events)
      OBVIOUS
    <3>2. mine = [state |-> "whole", previous |-> settings.line, hooks |-> added, keys |-> keys, table |-> bare]
      BY DEF RecordOf
    <3> HIDE DEF mine, bare, added, keys
    <3>3. mine \in WholeRecords /\ mine.previous = settings.line /\ mine.hooks = added
      BY <2>1, <3>1, <3>2, RecordMade
    <3> QED  BY <3>1, <3>3
  <2> HIDE DEF new, mine
  <2>4. Leads("record", command.downstream, command.before, new, mine) /\ command' # Idle
    <3>1. "record" \in EnableSteps \cup DisableSteps /\ mine \in BridgeRecords
      BY <2>3 DEF EnableSteps, BridgeRecords
    <3>2. command' = [command EXCEPT !.at = "record", !.new = new, !.made = mine]
      BY <1>6, Zenon DEF new, mine
    <3>3. Leads("record", command.downstream, command.before, new, mine)
      BY <1>2, <2>2, <3>1, <3>2, LeadsNewAndMade
    <3> QED  BY <3>3, CommandRuns DEF BridgeI, Leads
  <2>5. BridgeTypes'  BY <1>1, <1>3, <2>4 DEF BridgeI, BridgeTypes, Leads
  <2>6. Recorded'  BY <1>2, <2>3, <2>4 DEF Recorded, Running, Leads, EnableSteps
  <2>7. LineOurs'  BY <1>1, <1>2, <1>6, <2>4 DEF BridgeI, LineOurs, Running, Leads
  <2>8. HooksOurs'
    <3>1. ~operator'.again => ours = {}  BY <1>3, <1>6
    <3>2. ours = {} => Holding(settings'.hooks, "ours") = {}  BY <1>1 DEF Holding, EventsOf
    <3> HIDE DEF ours
    <3> QED  BY <1>2, <1>4, <2>3, <2>4, <3>1, <3>2 DEF HooksOurs, Running, Leads
  <2>9. TheirsInNew'  BY <1>1, <1>2, <1>4, <2>2, <2>3, <2>4 DEF TheirsInNew, TheirsAreThere, Running, Leads
  <2>10. Chain'
    <3>1. ~operator'.late => settings.line = script
      BY <1>2, <1>3, <1>6 DEF BridgeI, Chain, Running
    <3> QED  BY <1>1, <1>2, <1>4, <2>3, <2>4, <3>1 DEF Chain, Running, Leads
  <2> QED  BY <2>5, <2>6, <2>7, <2>8, <2>9, <2>10 DEF BridgeI
<1> QED  BY <1>5, <1>6 DEF EditEnabled, AlreadyOurs
\* The record is written, or torn while nothing of ours is in the settings.
LEMMA WriteRecordKeeps ==
    ASSUME BridgeI, WriteRecord  PROVE BridgeI'
<1>1. UNCHANGED <<settings, script, operator>>  BY DEF WriteRecord
<1>2. command # Idle /\ command \in BridgeCommands /\ command.name = "enable" /\ command.at = "record"
  BY CommandRuns DEF BridgeI, WriteRecord, At
<1>3. settings.line # Ours /\ command.made \in WholeRecords
  BY <1>2 DEF BridgeI, LineOurs, Recorded, Running
<1>4. ~operator.again => Holding(settings.hooks, "ours") = {} /\ command.made.hooks = Events
  BY <1>2 DEF BridgeI, HooksOurs, Running
<1>5. ~operator'.again => HooksAreRecorded'
  BY <1>1, <1>4 DEF HooksAreRecorded, Holding, EventsOf
<1>6. ~operator'.blind => TheirsAreThere'
  <2>1. ~operator.blind => TheirsAreThere  BY DEF BridgeI, TheirsInNew, TheirsAreThere
  <2> QED  BY <1>1, <1>3, <2>1 DEF TheirsAreThere, LineKept, Holding, EventsOf
<1>7. CASE record' = command.made /\ Goes("check")
  <2>1. Leads("check", command.downstream, command.before, command.new, command.made) /\ command' # Idle
    <3>1. "check" \in EnableSteps \cup DisableSteps  BY DEF EnableSteps
    <3>2. Leads("check", command.downstream, command.before, command.new, command.made)
      BY <1>2, <1>7, <3>1, LeadsAt
    <3> QED  BY <3>2, CommandRuns DEF BridgeI, Leads
  <2>2. BridgeTypes'  BY <1>1, <1>3, <1>7, <2>1 DEF BridgeI, BridgeTypes, BridgeRecords, Leads
  <2>3. Recorded'  BY <1>2, <1>3, <1>7, <2>1 DEF Recorded, Running, Leads, EnableSteps
  <2>4. LineOurs'  BY <1>1, <1>2, <1>3, <2>1 DEF LineOurs, Running, Leads
  <2>5. HooksOurs'
    <3>1. ~operator'.again => Holding(settings'.hooks, "ours") = {}  BY <1>1, <1>4 DEF Holding, EventsOf
    <3> QED  BY <1>1, <1>2, <1>4, <1>5, <2>1, <3>1 DEF HooksOurs, Running, Leads
  <2>6. TheirsInNew'
    <3>1. ~operator.blind /\ command.before \in {NoFile, settings} =>
             /\ command.new.line = Ours /\ command.made.previous = settings.line
             /\ Holding(command.new.hooks, "theirs") = Holding(settings.hooks, "theirs")
      BY <1>2 DEF BridgeI, TheirsInNew, Unnoticed, Running
    <3>2. Unnoticed' => command.before \in {NoFile, settings}  BY <1>1, <2>1 DEF Unnoticed, Leads
    <3> QED  BY <1>1, <1>2, <1>6, <2>1, <3>1, <3>2 DEF TheirsInNew, TheirsAreThere, Running, Leads
  <2>7. Chain'  BY <1>1, <1>2, <1>3, <2>1 DEF BridgeI, Chain, Running, Leads
  <2> QED  BY <2>2, <2>3, <2>4, <2>5, <2>6, <2>7 DEF BridgeI
<1>8. CASE record' \in {record, Torn} /\ CommandEnds
  <2>1. BridgeTypes'  BY <1>1, <1>8 DEF BridgeI, BridgeTypes, BridgeRecords, CommandEnds
  <2> QED  BY <1>1, <1>3, <1>5, <1>6, <1>8, <2>1, BridgeEnds DEF BridgeI, CommandEnds
<1> QED  BY <1>7, <1>8 DEF WriteRecord
\* The write goes on only over the text that was read.
LEMMA CheckKeeps ==
    ASSUME BridgeI, Check  PROVE BridgeI'
<1>1. UNCHANGED <<settings, record, script, operator>>  BY DEF Check
<1>2. command # Idle /\ command \in BridgeCommands /\ command.at = "check" /\ command.name \in {"enable", "disable"}
  BY CommandRuns DEF BridgeI, Check
<1>3. CASE CommandEnds  BY <1>1, <1>3, QuietEnd DEF CommandEnds
<1>4. ASSUME NEW step \in {"rename", "undo"}, Goes(step),
             step = "rename" => command.before \in {NoFile, settings},
             step = "undo" => command.name = "enable"
      PROVE  BridgeI'
  <2>1. Leads(step, command.downstream, command.before, command.new, command.made) /\ command' # Idle
    <3>1. step \in EnableSteps \cup DisableSteps  BY DEF EnableSteps
    <3>2. Leads(step, command.downstream, command.before, command.new, command.made)
      BY <1>2, <1>4, <3>1, LeadsAt
    <3> QED  BY <3>2, CommandRuns DEF BridgeI, Leads
  <2>2. CASE command.name = "enable"
    <3>1. record = command.made /\ command.made \in WholeRecords /\ settings.line # Ours
      BY <1>2, <2>2 DEF BridgeI, Recorded, LineOurs, Running
    <3>2. ~operator.again => Holding(settings.hooks, "ours") = {} /\ command.made.hooks = Events
      BY <1>2, <2>2 DEF BridgeI, HooksOurs, Running
    <3>3. ~operator.late => command.made.previous = script
      BY <1>2, <2>2 DEF BridgeI, Chain, Running
    <3>4. step = "rename" /\ ~operator.blind =>
             /\ command.new.line = Ours /\ command.made.previous = settings.line
             /\ Holding(command.new.hooks, "theirs") = Holding(settings.hooks, "theirs")
      BY <1>2, <1>4, <2>2 DEF BridgeI, TheirsInNew, Unnoticed, Running
    <3> QED  BY <1>1, <1>2, <2>1, <2>2, <3>1, <3>2, <3>3, <3>4, QuietStep DEF Running, Leads, EnableSteps
  <2>3. CASE command.name = "disable"
    <3>1. command.made = record /\ record \in WholeRecords /\ command.new.line # Ours
      BY <1>2, <2>3 DEF BridgeI, Recorded, LineOurs, Running, DisableSteps
    <3>2. ~operator.again => Holding(command.new.hooks, "ours") = {}
      BY <1>2, <2>3 DEF BridgeI, HooksOurs, Running
    <3>3. step = "rename" /\ ~operator.blind =>
             /\ command.new.line = IF settings.line = Ours THEN record.previous ELSE settings.line
             /\ Holding(command.new.hooks, "theirs") = Holding(settings.hooks, "theirs")
      BY <1>2, <1>4, <2>3 DEF BridgeI, TheirsInNew, Unnoticed, Running
    <3> QED  BY <1>1, <1>2, <1>4, <2>1, <2>3, <3>1, <3>2, <3>3, QuietStep DEF Running, Leads, DisableSteps
  <2> QED  BY <1>2, <2>2, <2>3
<1> QED  BY <1>3, <1>4 DEF Check

\* Rename: the new settings take the place of the old, or nothing does.
LEMMA RenameKeeps ==
    ASSUME BridgeI, Rename  PROVE BridgeI'
<1>1. UNCHANGED <<record, script, operator>>  BY DEF Rename
<1>2. command # Idle /\ command \in BridgeCommands /\ command.at = "rename" /\ command.name \in {"enable", "disable"}
      /\ command.new \in SettingsFiles
  BY CommandRuns DEF BridgeI, Rename, BridgeCommands
<1>3. ~operator.blind => TheirsAreThere  BY DEF BridgeI, TheirsInNew, TheirsAreThere
<1>4. ASSUME NEW step \in EnableSteps \cup DisableSteps, Goes(step)
      PROVE  Leads(step, command.downstream, command.before, command.new, command.made) /\ command' # Idle
  <2>1. Leads(step, command.downstream, command.before, command.new, command.made)  BY <1>2, <1>4, LeadsAt
  <2> QED  BY <2>1, CommandRuns DEF BridgeI, Leads
<1>5. CASE command.name = "enable"
  <2>1. record = command.made /\ record \in WholeRecords /\ settings.line # Ours
    BY <1>2, <1>5 DEF BridgeI, Recorded, LineOurs, Running
  <2>2. ~operator.again => Holding(settings.hooks, "ours") = {} /\ record.hooks = Events
    BY <1>2, <1>5, <2>1 DEF BridgeI, HooksOurs, Running
  <2>3. CASE settings' = command.new /\ CommandEnds
    <3>1. BridgeTypes'  BY <1>1, <1>2, <2>3 DEF BridgeI, BridgeTypes, CommandEnds
    <3>2. record'.state = "whole"  BY <1>1, <2>1 DEF WholeRecords
    <3>3. ~operator'.again => HooksAreRecorded'
      <4>1. settings'.hooks \in HookTables  BY <1>2, <2>3 DEF SettingsFiles
      <4>2. Holding(settings'.hooks, "ours") \subseteq Events  BY <4>1, HookTable
      <4> QED  BY <1>1, <2>2, <3>2, <4>2 DEF HooksAreRecorded, Holding, EventsOf
    <3>4. ~operator'.blind => TheirsAreThere'
      <4>1. ~operator.blind =>
               /\ command.new.line = Ours /\ command.made.previous = settings.line
               /\ Holding(command.new.hooks, "theirs") = Holding(settings.hooks, "theirs")
        BY <1>2, <1>5 DEF BridgeI, TheirsInNew, Unnoticed, Running
      <4>2. Holding(settings'.hooks, "theirs") = Holding(command.new.hooks, "theirs")
        BY <2>3 DEF Holding, EventsOf
      <4> QED  BY <1>1, <1>3, <2>1, <2>3, <3>2, <4>1, <4>2 DEF TheirsAreThere, LineKept
    <3>5. ~operator'.late => script' = record'.previous
      BY <1>1, <1>2, <1>5, <2>1 DEF BridgeI, Chain, Running
    <3> QED  BY <2>3, <3>1, <3>2, <3>3, <3>4, <3>5, BridgeEnds DEF BridgeI, CommandEnds
  <2>4. CASE UNCHANGED settings /\ Goes("undo")
    <3>1. Leads("undo", command.downstream, command.before, command.new, command.made) /\ command' # Idle
      BY <1>4, <2>4 DEF EnableSteps
    <3> QED  BY <1>1, <1>5, <2>1, <2>2, <2>4, <3>1, QuietStep DEF Running, Leads, EnableSteps
  <2> QED  BY <1>5, <2>3, <2>4 DEF Rename
<1>6. CASE command.name = "disable"
  <2>1. command.made = record /\ record \in WholeRecords /\ command.new.line # Ours
    BY <1>2, <1>6 DEF BridgeI, Recorded, LineOurs, Running, DisableSteps
  <2>2. ~operator.again => Holding(command.new.hooks, "ours") = {}
    BY <1>2, <1>6 DEF BridgeI, HooksOurs, Running
  <2>3. CASE UNCHANGED settings /\ CommandEnds
    BY <1>1, <2>3, QuietEnd DEF CommandEnds
  <2>4. CASE settings' = command.new /\ Goes("forget")
    <3>1. Leads("forget", command.downstream, command.before, command.new, command.made) /\ command' # Idle
      BY <1>4, <2>4 DEF DisableSteps
    <3>2. \A w : Holding(settings'.hooks, w) = Holding(command.new.hooks, w)
      BY <2>4 DEF Holding, EventsOf
    <3>3. BridgeTypes'  BY <1>1, <1>2, <2>4, <3>1 DEF BridgeI, BridgeTypes, Leads
    <3>4. Recorded'  BY <1>1, <1>6, <2>1, <3>1 DEF Recorded, Running, Leads, DisableSteps
    <3>5. LineOurs'  BY <1>6, <2>1, <2>4, <3>1 DEF LineOurs, Running, Leads
    <3>6. HooksOurs'
      <4>1. ~operator'.again => Holding(settings'.hooks, "ours") = {}  BY <1>1, <2>2, <3>2
      <4>2. ~operator'.again => HooksAreRecorded'  BY <4>1 DEF HooksAreRecorded, Holding, EventsOf
      <4> QED  BY <1>6, <3>1, <4>1, <4>2 DEF HooksOurs, Running, Leads
    <3>7. TheirsInNew'
      <4>1. ~operator.blind =>
               /\ command.new.line = IF settings.line = Ours THEN record.previous ELSE settings.line
               /\ Holding(command.new.hooks, "theirs") = Holding(settings.hooks, "theirs")
        BY <1>2, <1>6 DEF BridgeI, TheirsInNew, Unnoticed, Running
      <4>2. operator.line # Ours  BY NotOurs DEF BridgeI, BridgeTypes, OperatorStates
      <4>3. ~operator'.blind => TheirsAreThere'
        BY <1>1, <1>3, <2>4, <3>2, <4>1, <4>2 DEF TheirsAreThere, LineKept
      <4> QED  BY <1>6, <3>1, <4>3 DEF TheirsInNew, TheirsAreThere, Running, Leads
    <3>8. Chain'  BY <1>6, <2>1, <2>4, <3>1 DEF Chain, Running, Leads
    <3> QED  BY <3>3, <3>4, <3>5, <3>6, <3>7, <3>8 DEF BridgeI
  <2> QED  BY <1>6, <2>3, <2>4 DEF Rename
<1> QED  BY <1>2, <1>5, <1>6

\* The record goes only when nothing of ours is in the settings.
LEMMA DropRecordKeeps ==
    ASSUME BridgeI, DropRecord  PROVE BridgeI'
<1>1. UNCHANGED <<settings, script, operator>> /\ command' = Idle /\ record' \in {NoRecord, record}
  BY DEF DropRecord, CommandEnds
<1>2. command # Idle /\ command \in BridgeCommands /\ command.at \in {"undo", "forget"}
  BY CommandRuns DEF BridgeI, DropRecord
<1>3. Running("enable", {"undo"}) \/ Running("disable", {"forget"})
  BY <1>2 DEF BridgeI, Recorded, Running, EnableSteps, DisableSteps
<1>4. settings.line # Ours /\ (~operator.again => Holding(settings.hooks, "ours") = {})
  BY <1>3 DEF BridgeI, LineOurs, HooksOurs, Running
<1>5. BridgeTypes'  BY <1>1 DEF BridgeI, BridgeTypes, BridgeRecords
<1>6. ~operator'.again => HooksAreRecorded'  BY <1>1, <1>4 DEF HooksAreRecorded, Holding, EventsOf
<1>7. ~operator'.blind => TheirsAreThere'
  <2>1. ~operator.blind => TheirsAreThere  BY DEF BridgeI, TheirsInNew, TheirsAreThere
  <2> QED  BY <1>1, <1>4, <2>1 DEF TheirsAreThere, LineKept, Holding, EventsOf
<1> QED  BY <1>1, <1>4, <1>5, <1>6, <1>7, BridgeEnds DEF BridgeI

\* The operator's part, made of its fields.
LEMMA OperatorMade ==
    \A o : \A l \in Foreign, h \in SUBSET Events, n \in Nat, b \in BOOLEAN, t \in BOOLEAN, a \in BOOLEAN :
      o = [line |-> l, hooks |-> h, edits |-> n, again |-> a, blind |-> b, late |-> t]
        => o \in OperatorStates /\ o.line = l /\ o.hooks = h /\ o.blind = b /\ o.late = t /\ o.again = a
<1> SUFFICES ASSUME NEW o, NEW l \in Foreign, NEW h \in SUBSET Events, NEW n \in Nat, NEW b \in BOOLEAN,
                    NEW t \in BOOLEAN, NEW a \in BOOLEAN,
                    o = [line |-> l, hooks |-> h, edits |-> n, again |-> a, blind |-> b, late |-> t]
             PROVE  o \in OperatorStates /\ o.line = l /\ o.hooks = h /\ o.blind = b /\ o.late = t /\ o.again = a
  BY Zenon
<1>1. o \in OperatorStates  BY Zenon DEF OperatorStates
<1>2. o.line = l /\ o.hooks = h /\ o.blind = b /\ o.late = t /\ o.again = a  BY Zenon
<1> QED  BY <1>1, <1>2

\* A save of the operator's leaves what a command does alone, and the command sees it
\* or the save counts as blind.
LEMMA SavesKeeps ==
    ASSUME BridgeI, NEW new \in SettingsFiles, NEW line \in Foreign, NEW hooks \in SUBSET Events,
           Saves(new, line, hooks),
           new.line = line \/ (new.line = settings.line /\ line = operator.line),
           Holding(new.hooks, "ours") = Holding(settings.hooks, "ours"),
           Holding(settings.hooks, "theirs") = operator.hooks => Holding(new.hooks, "theirs") = hooks
    PROVE  BridgeI'
<1> DEFINE sightless == \/ operator.blind
                        \/ command.name # "idle" /\ command.at = "rename"
                        \/ /\ command.name # "idle" /\ command.at \in {"edit", "record", "check"}
                           /\ command.before \in {NoFile, new}
           tardy == operator.late \/ (command.name = "enable" /\ command.at \notin {"read", "scripts"})
<1>1. UNCHANGED <<record, script, command>> /\ settings' = new  BY DEF Saves
<1>2. /\ operator.edits \in Nat /\ operator.blind \in BOOLEAN /\ operator.late \in BOOLEAN /\ operator.again \in BOOLEAN
      /\ operator.line # Ours /\ line # Ours
  BY NotOurs DEF BridgeI, BridgeTypes, OperatorStates
<1>3. operator.edits + 1 \in Nat /\ sightless \in BOOLEAN /\ tardy \in BOOLEAN  BY <1>2
<1>4. operator' = [line |-> line, hooks |-> hooks, edits |-> operator.edits + 1, again |-> operator.again,
                   blind |-> sightless, late |-> tardy]
  BY DEF Saves
<1>5. /\ ~sightless => ~operator.blind
      /\ ~sightless /\ command # Idle => command.at # "rename"
      /\ ~sightless /\ command # Idle /\ command.at \in {"edit", "record", "check"} => command.before \notin {NoFile, new}
      /\ ~tardy => ~operator.late
      /\ ~tardy /\ command # Idle /\ command.name = "enable" => command.at \in {"read", "scripts"}
  BY CommandRuns DEF BridgeI
<1> HIDE DEF sightless, tardy
<1>6. /\ operator' \in OperatorStates /\ operator'.line = line /\ operator'.hooks = hooks
      /\ operator'.blind = sightless /\ operator'.late = tardy /\ operator'.again = operator.again
  BY <1>2, <1>3, <1>4, OperatorMade
<1>7. Holding(settings'.hooks, "ours") = Holding(settings.hooks, "ours")
      /\ Holding(settings'.hooks, "theirs") = Holding(new.hooks, "theirs")
  BY <1>1 DEF Holding, EventsOf
<1>8. settings'.line = Ours => settings.line = Ours  BY <1>1, <1>2
<1>9. BridgeTypes'  BY <1>1, <1>6 DEF BridgeI, BridgeTypes, OperatorStates
<1>10. Recorded'  BY <1>1 DEF BridgeI, Recorded, Running
<1>11. LineOurs'  BY <1>1, <1>8 DEF BridgeI, LineOurs, Running
<1>12. HooksOurs'
  <2>1. HooksAreRecorded => HooksAreRecorded'  BY <1>1, <1>6, <1>7 DEF HooksAreRecorded
  <2> QED  BY <1>1, <1>6, <1>7, <2>1 DEF BridgeI, HooksOurs, Running
<1>13. TheirsInNew'
  <2>1. ~operator.blind => TheirsAreThere  BY DEF BridgeI, TheirsInNew, TheirsAreThere
  <2>2. TheirsAreThere => TheirsAreThere'  BY <1>1, <1>2, <1>6, <1>7 DEF TheirsAreThere, LineKept
  <2>3. ~operator'.blind => TheirsAreThere'
    BY <1>5, <1>6, <2>1, <2>2
  <2>4. ~operator'.blind /\ command # Idle /\ command.at \in {"record", "check", "rename"} => ~Unnoticed'
    BY <1>1, <1>5, <1>6 DEF Unnoticed
  <2> QED  BY <1>1, <2>3, <2>4 DEF TheirsInNew, TheirsAreThere, Running
<1>14. Chain'  BY <1>1, <1>5, <1>6, <1>8 DEF BridgeI, Chain, Running
<1> QED  BY <1>9, <1>10, <1>11, <1>12, <1>13, <1>14 DEF BridgeI
\* The operator saves a line,
LEMMA SaveLineKeeps ==
    ASSUME BridgeI, NEW l \in TheirLines \cup {NoLine}, SaveLine(l)  PROVE BridgeI'
<1> DEFINE new == File(l, settings.hooks)
<1>1. settings \in SettingsFiles /\ operator.hooks \in SUBSET Events /\ l \in Foreign
  BY DEF BridgeI, BridgeTypes, OperatorStates, Foreign
<1>2. new \in SettingsFiles /\ new.line = l /\ new.hooks = settings.hooks  BY <1>1 DEF File, SettingsFiles
<1>3. Saves(new, l, operator.hooks)  BY DEF SaveLine
<1> HIDE DEF new
<1> QED  BY <1>1, <1>2, <1>3, SavesKeeps
\* or a hook.
LEMMA SaveHookKeeps ==
    ASSUME BridgeI, NEW e \in Events, SaveHook(e)  PROVE BridgeI'
<1> DEFINE had == EventsOf(settings.hooks)
           entries(x) == (IF x \in had THEN settings.hooks[x] ELSE {}) \cup (IF x = e THEN {"theirs"} ELSE {})
           hookTable == [x \in had \cup {e} |-> entries(x)]
           new == File(settings.line, hookTable)
<1>1. /\ settings \in SettingsFiles /\ operator.hooks \in SUBSET Events /\ operator.line \in Foreign
      /\ settings.hooks \in HookTables
  BY DEF BridgeI, BridgeTypes, OperatorStates, SettingsFiles
<1>2. had \subseteq Events /\ \A x \in had : settings.hooks[x] \in EntrySets  BY <1>1, HookTable
<1>3. \A x \in had \cup {e} : /\ entries(x) \in EntrySets /\ hookTable[x] = entries(x)
                              /\ "ours" \in entries(x) <=> x \in had /\ "ours" \in settings.hooks[x]
                              /\ "theirs" \in entries(x) <=> x = e \/ (x \in had /\ "theirs" \in settings.hooks[x])
  BY <1>2 DEF EntrySets
<1>4. \A w : Holding(settings.hooks, w) = {x \in had : w \in settings.hooks[x]}  BY DEF Holding
<1>5. Saves(new, operator.line, operator.hooks \cup {e})  BY DEF SaveHook
<1>6. hookTable = [x \in had \cup {e} |-> entries(x)]  OBVIOUS
<1> HIDE DEF had, entries, hookTable
<1>7. had \cup {e} \in SUBSET Events /\ hookTable \in [had \cup {e} -> EntrySets]  BY <1>2, <1>3, <1>6
<1>8. hookTable \in HookTables /\ \A w : Holding(hookTable, w) = {x \in had \cup {e} : w \in hookTable[x]}  BY <1>7, TableMade
<1>9. new \in SettingsFiles /\ new.line = settings.line /\ new.hooks = hookTable  BY <1>1, <1>8 DEF File, SettingsFiles
<1> HIDE DEF new
<1>10. Holding(hookTable, "ours") = Holding(settings.hooks, "ours")
       /\ Holding(hookTable, "theirs") = Holding(settings.hooks, "theirs") \cup {e}
  <2>1. \A x : x \in Holding(hookTable, "ours") <=> x \in Holding(settings.hooks, "ours")  BY <1>3, <1>4, <1>8
  <2>2. \A x : x \in Holding(hookTable, "theirs") <=> x \in Holding(settings.hooks, "theirs") \cup {e}
    BY <1>3, <1>4, <1>8
  <2> QED  BY <2>1, <2>2
<1> QED  BY <1>1, <1>5, <1>9, <1>10, SavesKeeps

\* The settings as the bridge finds them.
LEMMA BridgeStarts == BridgeInit => BridgeI
<1> SUFFICES ASSUME BridgeInit PROVE BridgeI  OBVIOUS
<1>1. settings \in SettingsFiles /\ settings.line \in Foreign /\ Holding(settings.hooks, "ours") = {}
  <2>1. CASE settings = NoFile
    BY <2>1, NoTable DEF NoFile, SettingsFiles, Foreign
  <2>2. ASSUME NEW l \in TheirLines, settings = File(l, NoHooks)
        PROVE  settings \in SettingsFiles /\ settings.line \in Foreign /\ Holding(settings.hooks, "ours") = {}
    BY <2>2, NoTable DEF File, SettingsFiles, Foreign
  <2>3. ASSUME NEW x \in Events, settings = File(NoLine, [e \in {x} |-> {"theirs"}])
        PROVE  settings \in SettingsFiles /\ settings.line \in Foreign /\ Holding(settings.hooks, "ours") = {}
    <3> DEFINE hookTable == [e \in {x} |-> {"theirs"}]
    <3>1. {x} \in SUBSET Events /\ hookTable \in [{x} -> EntrySets] /\ hookTable[x] = {"theirs"}  BY DEF EntrySets
    <3> HIDE DEF hookTable
    <3>2. hookTable \in HookTables /\ Holding(hookTable, "ours") = {}  BY <3>1, TableMade
    <3>3. settings = File(NoLine, hookTable)  BY <2>3 DEF hookTable
    <3> QED  BY <3>2, <3>3 DEF File, SettingsFiles, Foreign
  <2> QED  BY <2>1, <2>2, <2>3 DEF BridgeInit
<1>2. record = NoRecord /\ script = NoLine /\ command = Idle  BY DEF BridgeInit
<1> DEFINE theirs == Holding(settings.hooks, "theirs")
<1>3. operator = [line |-> settings.line, hooks |-> theirs, edits |-> 0, again |-> FALSE, blind |-> FALSE, late |-> FALSE]
  BY DEF BridgeInit
<1>4. theirs \in SUBSET Events
  <2>1. settings.hooks \in HookTables  BY <1>1 DEF SettingsFiles
  <2> QED  BY <2>1, HookTable
<1> HIDE DEF theirs
<1>5. operator \in OperatorStates /\ operator.line = settings.line /\ operator.hooks = theirs
  BY <1>1, <1>3, <1>4, OperatorMade
<1>6. settings.line # Ours  BY <1>1, NotOurs
<1>7. BridgeTypes  BY <1>1, <1>2, <1>5 DEF BridgeTypes, BridgeRecords, OperatorStates, Foreign
<1>8. \A n, s : ~Running(n, s)  BY <1>2 DEF Running
<1>9. Recorded /\ LineOurs /\ Chain  BY <1>2, <1>6, <1>8, Zenon DEF Recorded, LineOurs, Chain
<1>10. HooksOurs  BY <1>1, <1>8, Zenon DEF HooksOurs, HooksAreRecorded
<1>11. TheirsInNew  BY <1>5, <1>8, Zenon DEF TheirsInNew, LineKept, theirs
<1> QED  BY <1>7, <1>9, <1>10, <1>11 DEF BridgeI
\* Every step keeps the invariant.
LEMMA BridgeSteps == BridgeI /\ [BridgeNext]_bridgeVars => BridgeI'
<1> SUFFICES ASSUME BridgeI, [BridgeNext]_bridgeVars PROVE BridgeI'  OBVIOUS
<1>1. CASE UNCHANGED bridgeVars
  <2>1. UNCHANGED <<settings, record, script, command, operator>>  BY <1>1 DEF bridgeVars
  <2>2. BridgeTypes' /\ Recorded'  BY <2>1 DEF BridgeI, BridgeTypes, Recorded, Running
  <2>3. LineOurs' /\ Chain'  BY <2>1 DEF BridgeI, LineOurs, Chain, Running
  <2>4. HooksOurs'
    <3>1. HooksAreRecorded' <=> HooksAreRecorded  BY <2>1, FilesStay
    <3> QED  BY <2>1, <3>1 DEF BridgeI, HooksOurs, Running, Holding, EventsOf
  <2>5. TheirsInNew'
    <3>1. TheirsAreThere' <=> TheirsAreThere  BY <2>1, FilesStay
    <3> QED  BY <2>1, <3>1 DEF BridgeI, TheirsInNew, TheirsAreThere, Unnoticed, Running, Holding, EventsOf
  <2> QED  BY <2>2, <2>3, <2>4, <2>5 DEF BridgeI
<1>2. CASE \E l \in TheirLines \cup {NoLine} : SaveLine(l)  BY <1>2, SaveLineKeeps
<1>3. CASE \E e \in Events : SaveHook(e)  BY <1>3, SaveHookKeeps
<1>4. CASE \E name \in {"enable", "disable"} : Begin(name)  BY <1>4, BeginKeeps
<1> QED
  BY <1>1, <1>2, <1>3, <1>4, ReadDownstreamKeeps, GenerateScriptsKeeps, ReadBeforeKeeps, EditEnabledKeeps,
     WriteRecordKeeps, CheckKeeps, RenameKeeps, DropRecordKeeps, ReadRecordKeeps, EditDisabledKeeps, KilledKeeps
  DEF BridgeNext
\* The invariant says what the bridge promises.
LEMMA BridgeIsSafe == BridgeI => OperatorsKept /\ Undoable
<1> SUFFICES ASSUME BridgeI PROVE OperatorsKept /\ Undoable  OBVIOUS
<1>1. OperatorsKept  BY DEF BridgeI, TheirsInNew, OperatorsKept
<1>2. settings.line = Ours => record.state = "whole"  BY DEF BridgeI, LineOurs
<1>3. HooksAreRecorded
  <2>1. CASE operator.again  BY <2>1 DEF HooksAreRecorded
  <2>2. CASE ~operator.again  BY <2>2 DEF BridgeI, HooksOurs
  <2> QED  BY <2>1, <2>2
<1>4. Chained  BY DEF BridgeI, Chain, Chained
<1> QED  BY <1>1, <1>2, <1>3, <1>4 DEF Undoable
-----------------------------------------------------------------------------
(* What the doctor says.                                                   *)

\* A Claude that runs.
Processes == [pane : ClaudePanes, session : Sessions, flags : BOOLEAN]
DoctorTypes ==
    /\ claudes \in Seq(Processes)
    /\ told \in [ClaudePanes -> Sessions \cup {NoSession}] /\ routes \in [ClaudePanes -> Sessions \cup {NoSession}]
    /\ tiers \in [Tiers -> {"none", "theirs", "chained", "twice"}]
    /\ installed \in {"yes", "disabled", "broken"} /\ up \in BOOLEAN
    /\ refused \subseteq ClaudePanes
    /\ rendered \in [ClaudePanes -> {"no", "through", "lost", "forgotten"}]

\* A pane has one Claude.
OneEach == \A i, j \in DOMAIN claudes : claudes[i].pane = claudes[j].pane => i = j

\* A render that came to nothing has its reason still: our line does not run there, or the
\* daemon turned it away.
LostInVain ==
    \A p \in ClaudePanes : rendered[p] = "lost" /\ routes[p] # NoSession /\ up =>
        \E i \in DOMAIN claudes :
            /\ claudes[i].pane = p
            /\ ~OursRuns(claudes[i]) \/ (claudes[i].session # routes[p] /\ p \in refused)

DoctorI == DoctorTypes /\ OneEach /\ LostInVain

\* The other panes' Claudes are all of them, and no more.
LEMMA OthersRun ==
    ASSUME DoctorTypes, OneEach, NEW p \in ClaudePanes
    PROVE  LET rest == Others(p) IN
           /\ rest \in Seq(Processes)
           /\ \A i \in DOMAIN rest : rest[i].pane # p
           /\ \A i, j \in DOMAIN rest : rest[i].pane = rest[j].pane => i = j
           /\ \A i \in DOMAIN claudes : claudes[i].pane # p => \E j \in DOMAIN rest : rest[j] = claudes[i]
<1> DEFINE own == {i \in DOMAIN claudes : claudes[i].pane = p}
           k == CHOOSE i \in own : TRUE
           rest == Others(p)
<1>1. claudes \in Seq(Processes) /\ DOMAIN claudes = 1 .. Len(claudes) /\ Len(claudes) \in Nat
  BY DEF DoctorTypes
<1>2. CASE own = {}
  <2>1. rest = claudes  BY <1>2 DEF Others
  <2> QED  BY <1>1, <1>2, <2>1 DEF OneEach
<1>3. CASE own # {}
  <2>1. k \in own  BY <1>3
  <2>2. rest = RemoveAt(claudes, k)  BY <1>3 DEF Others
  <2>3. k \in 1 .. Len(claudes) /\ claudes[k].pane = p  BY <1>1, <2>1
  <2> HIDE DEF own, k, rest
  <2>4. rest \in Seq(Processes) /\ DOMAIN rest = 1 .. Len(claudes) - 1
        /\ \A j \in 1 .. Len(claudes) - 1 : rest[j] = claudes[IF j < k THEN j ELSE j + 1]
    <3>1. /\ RemoveAt(claudes, k) \in Seq(Processes) /\ Len(RemoveAt(claudes, k)) = Len(claudes) - 1
          /\ \A j \in 1 .. Len(claudes) - 1 : RemoveAt(claudes, k)[j] = claudes[IF j < k THEN j ELSE j + 1]
      BY <1>1, <2>3, OneRemoved, ZenonT(30)
    <3>2. rest \in Seq(Processes) /\ Len(rest) = Len(claudes) - 1  BY <2>2, <3>1, Zenon
    <3>3. DOMAIN rest = 1 .. Len(rest)  BY <3>2
    <3> QED  BY <2>2, <3>1, <3>2, <3>3, Zenon
  <2>5. \A i \in DOMAIN claudes : i # k => claudes[i].pane # p  BY <1>1, <2>3 DEF OneEach
  <2>6. \A j \in DOMAIN rest : (IF j < k THEN j ELSE j + 1) \in DOMAIN claudes \ {k}  BY <1>1, <2>3, <2>4
  <2>7. \A i \in DOMAIN rest : rest[i].pane # p  BY <2>4, <2>5, <2>6
  <2>8. ASSUME NEW i \in DOMAIN rest, NEW j \in DOMAIN rest, rest[i].pane = rest[j].pane
        PROVE  i = j
    <3>1. (IF i < k THEN i ELSE i + 1) = (IF j < k THEN j ELSE j + 1)  BY <2>4, <2>6, <2>8 DEF OneEach
    <3> QED  BY <2>3, <2>4, <3>1
  <2>9. ASSUME NEW i \in DOMAIN claudes, claudes[i].pane # p
        PROVE  \E j \in DOMAIN rest : rest[j] = claudes[i]
    <3>1. i # k  BY <2>3, <2>9
    <3>2. CASE i < k
      <4>1. i \in DOMAIN rest  BY <1>1, <2>3, <2>4, <3>2
      <4> QED  BY <2>4, <3>2, <4>1
    <3>3. CASE i > k
      <4>1. i - 1 \in DOMAIN rest /\ ~(i - 1 < k) /\ i - 1 + 1 = i  BY <1>1, <2>3, <2>4, <3>3
      <4> QED  BY <2>4, <4>1
    <3> QED  BY <1>1, <2>3, <3>1, <3>2, <3>3
  <2> QED  BY <2>4, <2>7, <2>8, <2>9 DEF rest
<1> QED  BY <1>2, <1>3

\* A Claude, made of its parts.
LEMMA ProcessMade ==
    \A r : \A p \in ClaudePanes, s \in Sessions, f \in BOOLEAN :
      r = [pane |-> p, session |-> s, flags |-> f] => r \in Processes /\ r.pane = p
<1> SUFFICES ASSUME NEW r, NEW p \in ClaudePanes, NEW s \in Sessions, NEW f \in BOOLEAN,
                    r = [pane |-> p, session |-> s, flags |-> f]
             PROVE  r \in Processes /\ r.pane = p
  BY Zenon
<1> QED  BY Zenon DEF Processes

\* Nothing was rendered since anything changed.
LEMMA UnrenderedKeeps ==
    ASSUME rendered' = Unrendered  PROVE LostInVain'
  BY DEF Unrendered, LostInVain

\* The operator's edits, herdr's news and a restart leave nothing rendered.
LEMMA DoesKeeps ==
    ASSUME DoctorI, EditTier \/ Paste \/ Install \/ DaemonRestarts  PROVE DoctorI'
<1>1. LostInVain'  BY UnrenderedKeeps DEF EditTier, Paste, Install, DaemonRestarts
<1>2. rendered' \in [ClaudePanes -> {"no", "through", "lost", "forgotten"}]
  BY DEF EditTier, Paste, Install, DaemonRestarts, Unrendered
<1>3. claudes' = claudes /\ told' = told /\ (routes' = routes \/ routes' = [p \in ClaudePanes |-> NoSession])
      /\ (refused' = refused \/ refused' = {})
  BY DEF EditTier, Paste, Install, DaemonRestarts, Does
<1>4. up' \in BOOLEAN /\ installed' \in {"yes", "disabled", "broken"}
  BY DEF EditTier, Paste, Install, DaemonRestarts, DoctorI, DoctorTypes
<1>5. tiers' \in [Tiers -> {"none", "theirs", "chained", "twice"}]
  BY DEF EditTier, Paste, Install, DaemonRestarts, DoctorI, DoctorTypes, Tiers
<1>6. DoctorTypes'  BY <1>2, <1>3, <1>4, <1>5 DEF DoctorI, DoctorTypes
<1>7. OneEach'  BY <1>3 DEF DoctorI, OneEach
<1> QED  BY <1>1, <1>6, <1>7 DEF DoctorI

\* The report may take a refusal away, and then the render counts as forgotten.
LEMMA DiagnoseKeeps ==
    ASSUME DoctorI, Diagnose  PROVE DoctorI'
<1>1. UNCHANGED <<tiers, installed, up, claudes, told, routes>>  BY DEF Diagnose
<1>2. refused' \subseteq ClaudePanes  BY DEF Diagnose
<1>3. rendered' \in [ClaudePanes -> {"no", "through", "lost", "forgotten"}]
      /\ \A p \in ClaudePanes : rendered'[p] = IF p \in refused \ refused' THEN "forgotten" ELSE rendered[p]
  BY DEF Diagnose, DoctorI, DoctorTypes
<1>4. DoctorTypes'  BY <1>1, <1>2, <1>3 DEF DoctorI, DoctorTypes
<1>5. OneEach'  BY <1>1 DEF DoctorI, OneEach
<1>6. LostInVain'
  <2> SUFFICES ASSUME NEW p \in ClaudePanes, rendered'[p] = "lost", routes[p] # NoSession, up
               PROVE  \E i \in DOMAIN claudes :
                        claudes[i].pane = p /\ (~OursRuns(claudes[i])' \/ (claudes[i].session # routes[p] /\ p \in refused'))
    BY <1>1 DEF LostInVain
  <2>1. rendered[p] = "lost" /\ p \notin refused \ refused'  BY <1>3
  <2>2. PICK i \in DOMAIN claudes :
           claudes[i].pane = p /\ (~OursRuns(claudes[i]) \/ (claudes[i].session # routes[p] /\ p \in refused))
    BY <2>1 DEF DoctorI, LostInVain
  <2>3. OursRuns(claudes[i])' <=> OursRuns(claudes[i])  BY <1>1 DEF OursRuns
  <2> QED  BY <2>1, <2>2, <2>3
<1> QED  BY <1>4, <1>5, <1>6 DEF DoctorI

\* A question to the daemon changes only what it remembers of the pane.
LEMMA RememberedFacts ==
    ASSUME DoctorTypes, NEW p \in ClaudePanes, NEW session
    PROVE  /\ Remembered(p, session) \subseteq ClaudePanes
           /\ \A q \in ClaudePanes : q # p => (q \in Remembered(p, session) <=> q \in refused)
           /\ up /\ routes[p] # NoSession /\ session # routes[p] => p \in Remembered(p, session)
  BY DEF Remembered, DoctorTypes

\* A render that comes to nothing has a reason.
LEMMA RenderKeeps ==
    ASSUME DoctorI, NEW k \in DOMAIN claudes, Render(claudes[k])  PROVE DoctorI'
<1> DEFINE process == claudes[k]
           o == process.pane
           through == OursRuns(process) /\ Resolves(o, process.session)
<1>1. UNCHANGED <<tiers, installed, up, claudes, told, routes>>  BY DEF Render
<1>2. o \in ClaudePanes
  <2>1. claudes[k] \in Processes  BY DEF DoctorI, DoctorTypes
  <2> QED  BY <2>1 DEF Processes
<1>3. refused' = IF OursRuns(process) THEN Remembered(o, process.session) ELSE refused  BY DEF Render
<1>4. rendered' = [rendered EXCEPT ![o] = IF through THEN "through" ELSE "lost"]  BY DEF Render
<1>5. \A i : OursRuns(claudes[i])' <=> OursRuns(claudes[i])  BY <1>1 DEF OursRuns
<1>6. through <=> OursRuns(process) /\ up /\ routes[o] # NoSession /\ routes[o] = process.session  BY DEF Resolves
<1>7. /\ refused' \subseteq ClaudePanes
      /\ \A q \in ClaudePanes : q # o => (q \in refused' <=> q \in refused)
      /\ OursRuns(process) /\ up /\ routes[o] # NoSession /\ process.session # routes[o] => o \in refused'
  <2>1. CASE OursRuns(process)
    BY <1>2, <1>3, <2>1, RememberedFacts DEF DoctorI
  <2>2. CASE ~OursRuns(process)  BY <1>3, <2>2 DEF DoctorI, DoctorTypes
  <2> QED  BY <2>1, <2>2
<1> HIDE DEF through
<1>8. /\ rendered' \in [ClaudePanes -> {"no", "through", "lost", "forgotten"}]
      /\ \A q \in ClaudePanes : q # o => rendered'[q] = rendered[q]
      /\ rendered'[o] = "lost" => ~through
  BY <1>2, <1>4 DEF DoctorI, DoctorTypes
<1>9. DoctorTypes'  BY <1>1, <1>7, <1>8 DEF DoctorI, DoctorTypes
<1>10. OneEach'  BY <1>1 DEF DoctorI, OneEach
<1>11. LostInVain'
  <2> SUFFICES ASSUME NEW p \in ClaudePanes, rendered'[p] = "lost", routes[p] # NoSession, up
               PROVE  \E i \in DOMAIN claudes :
                        claudes[i].pane = p /\ (~OursRuns(claudes[i]) \/ (claudes[i].session # routes[p] /\ p \in refused'))
    BY <1>1, <1>5 DEF LostInVain
  <2>1. CASE p = o  BY <1>6, <1>7, <1>8, <2>1
  <2>2. CASE p # o
    <3>1. PICK i \in DOMAIN claudes :
             claudes[i].pane = p /\ (~OursRuns(claudes[i]) \/ (claudes[i].session # routes[p] /\ p \in refused))
      BY <1>8, <2>2 DEF DoctorI, LostInVain
    <3> QED  BY <1>7, <2>2, <3>1
  <2> QED  BY <2>1, <2>2
<1> QED  BY <1>9, <1>10, <1>11 DEF DoctorI

\* A hook of a Claude that was turned away is turned away too.
LEMMA AskFromHookKeeps ==
    ASSUME DoctorI, NEW k \in DOMAIN claudes, AskFromHook(claudes[k])  PROVE DoctorI'
<1> DEFINE o == claudes[k].pane
<1>1. UNCHANGED <<tiers, installed, up, claudes, told, routes, rendered>>
      /\ refused' = Remembered(o, claudes[k].session)
  BY DEF AskFromHook
<1>2. o \in ClaudePanes
  <2>1. claudes[k] \in Processes  BY DEF DoctorI, DoctorTypes
  <2> QED  BY <2>1 DEF Processes
<1>3. /\ refused' \subseteq ClaudePanes
      /\ \A q \in ClaudePanes : q # o => (q \in refused' <=> q \in refused)
      /\ up /\ routes[o] # NoSession /\ claudes[k].session # routes[o] => o \in refused'
  BY <1>1, <1>2, RememberedFacts DEF DoctorI
<1>4. DoctorTypes'  BY <1>1, <1>3 DEF DoctorI, DoctorTypes
<1>5. OneEach'  BY <1>1 DEF DoctorI, OneEach
<1>6. LostInVain'
  <2> SUFFICES ASSUME NEW p \in ClaudePanes, rendered[p] = "lost", routes[p] # NoSession, up
               PROVE  \E i \in DOMAIN claudes :
                        claudes[i].pane = p /\ (~OursRuns(claudes[i])' \/ (claudes[i].session # routes[p] /\ p \in refused'))
    BY <1>1 DEF LostInVain
  <2>1. PICK i \in DOMAIN claudes :
           claudes[i].pane = p /\ (~OursRuns(claudes[i]) \/ (claudes[i].session # routes[p] /\ p \in refused))
    BY DEF DoctorI, LostInVain
  <2>2. OursRuns(claudes[i])' <=> OursRuns(claudes[i])  BY <1>1 DEF OursRuns
  <2>3. p = o => i = k  BY <2>1 DEF DoctorI, OneEach
  <2> QED  BY <1>3, <2>1, <2>2, <2>3
<1> QED  BY <1>4, <1>5, <1>6 DEF DoctorI

\* A Claude starts or ends in a pane, and the other panes keep theirs.
LEMMA LaunchKeeps ==
    ASSUME DoctorI, NEW o \in ClaudePanes, Launch(o)  PROVE DoctorI'
<1> DEFINE rest == Others(o)
<1>1. UNCHANGED <<tiers, installed, up, told, routes, refused>> /\ rendered' = [rendered EXCEPT ![o] = "no"]
  BY DEF Launch, Does
<1>2. /\ rest \in Seq(Processes)
      /\ \A i \in DOMAIN rest : rest[i].pane # o
      /\ \A i, j \in DOMAIN rest : rest[i].pane = rest[j].pane => i = j
      /\ \A i \in DOMAIN claudes : claudes[i].pane # o => \E j \in DOMAIN rest : rest[j] = claudes[i]
  BY OthersRun, Zenon DEF DoctorI
<1>3. \/ claudes' = rest
      \/ \E r \in Processes : r.pane = o /\ claudes' = Append(rest, r)
  <2>1. ASSUME NEW s \in Sessions, NEW f \in BOOLEAN, claudes' = Append(rest, [pane |-> o, session |-> s, flags |-> f])
        PROVE  \E r \in Processes : r.pane = o /\ claudes' = Append(rest, r)
    <3> DEFINE r == [pane |-> o, session |-> s, flags |-> f]
    <3>1. r = [pane |-> o, session |-> s, flags |-> f] /\ claudes' = Append(rest, r)  BY <2>1
    <3> HIDE DEF r
    <3>2. r \in Processes /\ r.pane = o  BY <3>1, ProcessMade
    <3> QED  BY <3>1, <3>2
  <2> QED  BY <2>1, Zenon DEF Launch
<1> HIDE DEF rest
<1>4. /\ claudes' \in Seq(Processes)
      /\ \A i, j \in DOMAIN claudes' : claudes'[i].pane = claudes'[j].pane => i = j
      /\ \A i \in DOMAIN claudes : claudes[i].pane # o => \E j \in DOMAIN claudes' : claudes'[j] = claudes[i]
  <2>1. CASE claudes' = rest  BY <1>2, <2>1
  <2>2. ASSUME NEW r \in Processes, r.pane = o, claudes' = Append(rest, r)
        PROVE  /\ claudes' \in Seq(Processes)
               /\ \A i, j \in DOMAIN claudes' : claudes'[i].pane = claudes'[j].pane => i = j
               /\ \A i \in DOMAIN claudes : claudes[i].pane # o => \E j \in DOMAIN claudes' : claudes'[j] = claudes[i]
    <3>1. DOMAIN rest = 1 .. Len(rest) /\ Len(rest) \in Nat  BY <1>2
    <3>2. /\ claudes' \in Seq(Processes) /\ DOMAIN claudes' = 1 .. Len(rest) + 1
          /\ claudes'[Len(rest) + 1] = r /\ \A j \in 1 .. Len(rest) : claudes'[j] = rest[j]
      BY <1>2, <2>2
    <3>3. \A i, j \in DOMAIN claudes' : claudes'[i].pane = claudes'[j].pane => i = j
      BY <1>2, <2>2, <3>1, <3>2
    <3>4. ASSUME NEW i \in DOMAIN claudes, claudes[i].pane # o
          PROVE  \E j \in DOMAIN claudes' : claudes'[j] = claudes[i]
      <4>1. PICK j \in DOMAIN rest : rest[j] = claudes[i]  BY <1>2, <3>4
      <4> QED  BY <3>1, <3>2, <4>1
    <3> QED  BY <3>2, <3>3, <3>4
  <2> QED  BY <1>3, <2>1, <2>2
<1>5. DoctorTypes'  BY <1>1, <1>4 DEF DoctorI, DoctorTypes
<1>6. OneEach'  BY <1>4 DEF OneEach
<1>7. LostInVain'
  <2> SUFFICES ASSUME NEW p \in ClaudePanes, rendered'[p] = "lost", routes[p] # NoSession, up
               PROVE  \E i \in DOMAIN claudes' :
                        claudes'[i].pane = p /\ (~OursRuns(claudes[i])' \/ (claudes'[i].session # routes[p] /\ p \in refused))
    BY <1>1 DEF LostInVain
  <2>1. p # o /\ rendered[p] = "lost"  BY <1>1 DEF DoctorI, DoctorTypes
  <2>2. PICK i \in DOMAIN claudes :
           claudes[i].pane = p /\ (~OursRuns(claudes[i]) \/ (claudes[i].session # routes[p] /\ p \in refused))
    BY <2>1 DEF DoctorI, LostInVain
  <2>3. PICK j \in DOMAIN claudes' : claudes'[j] = claudes[i]  BY <1>4, <2>1, <2>2
  <2>4. OursRuns(claudes[j])' <=> OursRuns(claudes[i])  BY <1>1, <2>3 DEF OursRuns
  <2> QED  BY <2>2, <2>3, <2>4
<1> QED  BY <1>5, <1>6, <1>7 DEF DoctorI

\* herdr names the session of the Claude that runs.
LEMMA TellKeeps ==
    ASSUME DoctorI, NEW o \in ClaudePanes, Tell(o)  PROVE DoctorI'
<1>1. UNCHANGED <<tiers, installed, up, claudes, routes, refused, rendered>>  BY DEF Tell
<1>2. SessionIn(o) \in Sessions \cup {NoSession}
  <2>1. CASE o \in Shown
    <3>1. PICK i \in DOMAIN claudes : claudes[i].pane = o  BY <2>1 DEF Shown
    <3>2. claudes[i] \in Range(claudes)  BY DEF Range
    <3>3. \A r \in Range(claudes) : r \in Processes  BY DEF Range, DoctorI, DoctorTypes
    <3>4. (CHOOSE r \in Range(claudes) : r.pane = o) \in Processes  BY <3>1, <3>2, <3>3
    <3> QED  BY <2>1, <3>4 DEF SessionIn, Processes
  <2>2. CASE o \notin Shown  BY <2>2 DEF SessionIn
  <2> QED  BY <2>1, <2>2
<1>3. DoctorTypes'  BY <1>1, <1>2 DEF Tell, DoctorI, DoctorTypes
<1>4. OneEach' /\ LostInVain'  BY <1>1 DEF DoctorI, OneEach, LostInVain, OursRuns
<1> QED  BY <1>3, <1>4 DEF DoctorI

\* A pane is bound or unbound, and nothing of it was rendered since.
LEMMA ReconcileKeeps ==
    ASSUME DoctorI, NEW o \in ClaudePanes, Reconcile(o)  PROVE DoctorI'
<1>1. UNCHANGED <<tiers, installed, up, claudes, told>>  BY DEF Reconcile
<1>2. /\ routes' \in [ClaudePanes -> Sessions \cup {NoSession}] /\ \A q \in ClaudePanes : q # o => routes'[q] = routes[q]
      /\ rendered' \in [ClaudePanes -> {"no", "through", "lost", "forgotten"}] /\ rendered'[o] = "no"
      /\ \A q \in ClaudePanes : q # o => rendered'[q] = rendered[q]
      /\ refused' \subseteq ClaudePanes /\ \A q \in ClaudePanes : q # o => (q \in refused' <=> q \in refused)
  BY DEF Reconcile, DoctorI, DoctorTypes
<1>3. DoctorTypes'  BY <1>1, <1>2 DEF DoctorI, DoctorTypes
<1>4. OneEach'  BY <1>1 DEF DoctorI, OneEach
<1>5. LostInVain'
  <2> SUFFICES ASSUME NEW p \in ClaudePanes, rendered'[p] = "lost", routes'[p] # NoSession, up
               PROVE  \E i \in DOMAIN claudes :
                        claudes[i].pane = p /\ (~OursRuns(claudes[i])' \/ (claudes[i].session # routes'[p] /\ p \in refused'))
    BY <1>1 DEF LostInVain
  <2>1. p # o  BY <1>2
  <2>2. PICK i \in DOMAIN claudes :
           claudes[i].pane = p /\ (~OursRuns(claudes[i]) \/ (claudes[i].session # routes[p] /\ p \in refused))
    BY <1>2, <2>1 DEF DoctorI, LostInVain
  <2>3. OursRuns(claudes[i])' <=> OursRuns(claudes[i])  BY <1>1 DEF OursRuns
  <2> QED  BY <1>2, <2>1, <2>2, <2>3
<1> QED  BY <1>3, <1>4, <1>5 DEF DoctorI

\* Nothing runs at first.
LEMMA DoctorStarts == DoctorInit => DoctorI
<1> SUFFICES ASSUME DoctorInit PROVE DoctorI  OBVIOUS
<1>1. DoctorTypes  BY DEF DoctorInit, DoctorTypes, Tiers
<1>2. OneEach /\ LostInVain  BY DEF DoctorInit, OneEach, LostInVain
<1> QED  BY <1>1, <1>2 DEF DoctorI

\* Every step keeps the reasons.
LEMMA DoctorSteps == DoctorI /\ [DoctorNext]_doctorVars => DoctorI'
<1> SUFFICES ASSUME DoctorI, [DoctorNext]_doctorVars PROVE DoctorI'  OBVIOUS
<1>1. CASE UNCHANGED doctorVars
  <2>1. DoctorTypes'  BY <1>1 DEF doctorVars, DoctorI, DoctorTypes
  <2>2. OneEach' /\ LostInVain'  BY <1>1 DEF doctorVars, DoctorI, OneEach, LostInVain, OursRuns
  <2> QED  BY <2>1, <2>2 DEF DoctorI
<1>2. CASE \E i \in DOMAIN claudes : Render(claudes[i]) \/ AskFromHook(claudes[i])
  BY <1>2, RenderKeeps, AskFromHookKeeps
<1>3. CASE \E p \in ClaudePanes : Launch(p) \/ Tell(p) \/ Reconcile(p)
  BY <1>3, LaunchKeeps, TellKeeps, ReconcileKeeps
<1> QED  BY <1>1, <1>2, <1>3, DoesKeeps, DiagnoseKeeps DEF DoctorNext

\* The doctor finds the reason.
LEMMA ReasonIsNamed == DoctorI => LossIsNamed
<1> SUFFICES ASSUME DoctorI, NEW p \in ClaudePanes, rendered[p] = "lost", routes[p] # NoSession, OwnArgv(p),
                    up, installed = "yes"
             PROVE  Verdict(p) \notin {"wait", "reporting"}
  BY DEF LossIsNamed
<1>1. PICK i \in DOMAIN claudes :
         claudes[i].pane = p /\ (~OursRuns(claudes[i]) \/ (claudes[i].session # routes[p] /\ p \in refused))
  BY DEF DoctorI, LostInVain
<1>2. p \in refused \/ shadowing_status_line # "none" \/ claudes[i].flags
  <2>1. CASE claudes[i].session # routes[p] /\ p \in refused  BY <2>1
  <2>2. CASE ~OursRuns(claudes[i])
    <3>1. shadowing_status_line = "none" => tiers["local"] = "none" /\ tiers["shared"] = "none"
      BY DEF shadowing_status_line
    <3>2. tiers["local"] = "none" /\ tiers["shared"] = "none" => claudes[i].flags  BY <2>2 DEF OursRuns
    <3> QED  BY <3>1, <3>2
  <2> QED  BY <1>1, <2>1, <2>2
<1>3. claudes[i].flags => argv_shadows(p)
  <2> DEFINE found == {j \in DOMAIN claudes : IsPrefix(p, claudes[j].pane)}
  <2>1. IsPrefix(p, p)
    <3>1. p \in Seq(0 .. 9)  BY PaneAssumption
    <3>2. Len(p) \in Nat  BY <3>1
    <3> QED  BY <3>2 DEF IsPrefix
  <2>2. found = {i}  BY <1>1, <2>1 DEF OwnArgv, DoctorI, OneEach
  <2>3. process_argv_for_pane(p) = i
    <3>1. process_argv_for_pane(p) = IF found = {} THEN 0 ELSE CHOOSE j \in found : \A m \in found : j <= m
      BY DEF process_argv_for_pane
    <3>2. i \in Nat \ {0}  BY DEF DoctorI, DoctorTypes
    <3>3. i <= i  BY <3>2
    <3> HIDE DEF found
    <3> QED  BY <2>2, <3>1, <3>3
  <2>4. i # 0  BY DEF DoctorI, DoctorTypes
  <2> QED  BY <2>3, <2>4 DEF argv_shadows
<1> QED  BY <1>2, <1>3 DEF Verdict
-----------------------------------------------------------------------------
(* The agent of a pane.                                                    *)

\* A process, and where a pane's shell may be known.
PaneProcesses == [parent : Pids \cup {0}, program : Programs \cup {"shell"}]
PaneRuntimes == [pid : SUBSET {Shell}, cwd : SUBSET {"dir"}, generation : Nat]

\* A search under way.
Searches == [pane : PaneIds, shell : Pids, stack : Seq(Pids), visited : SUBSET Pids, candidates : Seq(Pids)]

DetectorTypes ==
    /\ table \in [Pids -> PaneProcesses \cup {Free}]
    /\ generation \in Nat
    /\ runtimes \in [PaneIds -> PaneRuntimes \cup {Unseen}]
    /\ search \in Searches \cup {NoSearch}

\* Ranks in which nobody runs without the one that started it, and before it.
Ranked(rank) ==
    /\ rank \in [Pids -> Nat]
    /\ \A c \in Pids : Runs(c) /\ table[c].parent # 0 =>
          table[c].parent \in Pids /\ Runs(table[c].parent) /\ rank[table[c].parent] < rank[c]

\* The processes found whose children were listed.
Done == search.visited \ Range(search.stack)

\* What was found, as long as no process came or went: a process is listed after whoever
\* started it, and what was passed over runs no agent.
Searching ==
    /\ IsInjective(search.stack) /\ Range(search.stack) \subseteq search.visited
    /\ search.shell \in search.visited /\ search.visited \subseteq Under(search.shell)
    /\ \A q \in Done : Children(q) \subseteq search.visited
    /\ \A q \in search.visited : q # search.shell => table[q].parent \in Done
    /\ \A q \in Done : \A b \in Under(search.shell) : q \in Under(b) => b \in Done
    /\ Range(search.candidates) \subseteq Done
    /\ \A i, j \in DOMAIN search.candidates : i < j => search.candidates[i] \notin Under(search.candidates[j])
    /\ \A q \in Done \ Range(search.candidates) : detect_agent_from_cmdline(q) = {}

DetectorInv == DetectorTypes /\ (\E rank : Ranked(rank)) /\ (search # NoSearch /\ still => Searching)

\* A set with q and its members' children has all that are under q.
LEMMA UnderLeast ==
    ASSUME NEW q, NEW S \in SUBSET Pids, q \in S, \A p \in S : Children(p) \subseteq S
    PROVE  Under(q) \subseteq S
  BY DEF Under

\* A process is under itself, and what it started under whatever it is under itself.
LEMMA UnderGrows ==
    ASSUME NEW q \in Pids
    PROVE  q \in Under(q) /\ \A p \in Under(q) : Children(p) \subseteq Under(q)
<1>1. q \in Under(q)
  BY DEF Under
<1>2. ASSUME NEW p \in Under(q), NEW c \in Children(p) PROVE c \in Under(q)
  <2>1. c \in Pids
    BY <1>2 DEF Children
  <2>2. ASSUME NEW S \in SUBSET Pids, q \in S, \A r \in S : Children(r) \subseteq S PROVE c \in S
    <3>1. p \in S
      BY <2>2 DEF Under
    <3> QED
      BY <1>2, <2>2, <3>1
  <2> QED
    BY <2>1, <2>2 DEF Under
<1> QED
  BY <1>1, <1>2

\* What is under a process is the process or was started by something under it.
LEMMA UnderFrom ==
    ASSUME NEW q \in Pids, NEW c \in Under(q), c # q
    PROVE  Runs(c) /\ table[c].parent \in Under(q)
<1>. DEFINE S == {p \in Under(q) : p = q \/ (Runs(p) /\ table[p].parent \in Under(q))}
<1>1. S \in SUBSET Pids /\ q \in S
  BY UnderGrows DEF Under
<1>2. ASSUME NEW p \in S PROVE Children(p) \subseteq S
  <2>1. p \in Under(q)
    OBVIOUS
  <2>2. Children(p) \subseteq Under(q)
    BY <2>1, UnderGrows
  <2> QED
    BY <2>1, <2>2 DEF Children
<1>. HIDE DEF S
<1>3. Under(q) \subseteq S
  BY <1>1, <1>2, UnderLeast
<1> QED
  BY <1>3 DEF S

\* Nobody is under what is under it.
LEMMA UnderRanked ==
    ASSUME NEW rank, Ranked(rank), DetectorTypes, NEW q \in Pids, NEW c \in Under(q), q \in Under(c)
    PROVE  c = q
<1>1. ASSUME NEW a \in Pids, NEW b \in Under(a) PROVE b = a \/ rank[a] < rank[b]
  <2>. DEFINE S == {p \in Pids : p = a \/ rank[a] < rank[p]}
  <2>1. S \in SUBSET Pids /\ a \in S
    OBVIOUS
  <2>2. ASSUME NEW p \in S, NEW d \in Children(p) PROVE d \in S
    <3>1. p \in Pids /\ d \in Pids /\ Runs(d) /\ table[d].parent = p
      BY DEF Children
    <3>2. rank[p] < rank[d]
      BY <3>1, ShellAssumption DEF Ranked, ShellAssumption
    <3>3. rank[p] \in Nat /\ rank[d] \in Nat /\ rank[a] \in Nat
      BY <3>1 DEF Ranked
    <3> QED
      BY <3>1, <3>2, <3>3
  <2>. HIDE DEF S
  <2>3. Under(a) \subseteq S
    BY <2>1, <2>2, UnderLeast
  <2> QED
    BY <2>3 DEF S
<1>2. c \in Pids
  BY DEF Under
<1>3. rank[c] \in Nat /\ rank[q] \in Nat
  BY <1>2 DEF Ranked
<1> QED
  BY <1>1, <1>2, <1>3

\* The set of what a sequence without its last element holds, and with more at its end.
LEMMA PoppedAndPushed ==
    ASSUME NEW S, NEW stack \in Seq(S), stack # <<>>, IsInjective(stack),
           NEW T, T \cap Range(stack) = {}, NEW n \in Nat, NEW listed \in Bijection(1 .. n, T)
    PROVE  /\ Range(Front(stack) \o listed) = (Range(stack) \ {Last(stack)}) \cup T
           /\ IsInjective(Front(stack) \o listed)
           /\ Last(stack) \in Range(stack)
<1>. DEFINE front == Front(stack)
            k == Len(stack) - 1
            next == front \o listed
<1>1. k \in Nat /\ front \in Seq(S) /\ Len(front) = k /\ Len(stack) = k + 1
      /\ (\A i \in 1 .. k : front[i] = stack[i]) /\ Last(stack) = stack[k + 1]
  <2>1. Len(stack) \in Nat /\ Len(stack) > 0
    OBVIOUS
  <2>2. k \in Nat /\ Len(stack) = k + 1
    BY <2>1
  <2>3. front = SubSeq(stack, 1, k)
    BY DEF Front
  <2>. HIDE DEF k, front
  <2>4. front \in Seq(S) /\ Len(front) = k /\ \A i \in 1 .. k : front[i] = stack[i]
    BY <2>2, <2>3
  <2> QED
    BY <2>2, <2>4 DEF Last
<1>2. listed \in Seq(T) /\ Len(listed) = n /\ IsInjective(listed) /\ DOMAIN listed = 1 .. n
      /\ \A t \in T : \E i \in 1 .. n : listed[i] = t
  BY DEF Bijection, Injection, Surjection
<1>. HIDE DEF k
<1>3. /\ DOMAIN next = 1 .. k + n
      /\ \A i \in 1 .. k : next[i] = stack[i]
      /\ \A i \in 1 .. n : next[k + i] = listed[i]
  <2>1. front \in Seq(S \cup T) /\ listed \in Seq(S \cup T) /\ Len(front) = k /\ Len(listed) = n /\ k \in Nat
    BY <1>1, <1>2
  <2>. HIDE DEF front
  <2>2. /\ Len(front \o listed) = Len(front) + Len(listed) /\ front \o listed \in Seq(S \cup T)
        /\ \A i \in 1 .. Len(front) + Len(listed) :
              (front \o listed)[i] = IF i <= Len(front) THEN front[i] ELSE listed[i - Len(front)]
    BY ONLY <2>1, ConcatProperties
  <2>3. /\ Len(next) = k + n /\ next \in Seq(S \cup T)
        /\ \A i \in 1 .. k + n : next[i] = IF i <= k THEN front[i] ELSE listed[i - k]
    BY <2>1, <2>2
  <2>4. /\ DOMAIN next = 1 .. k + n
        /\ \A i \in 1 .. k : next[i] = front[i]
        /\ \A i \in 1 .. n : next[k + i] = listed[i]
    <3>. HIDE DEF next
    <3> QED
      BY <2>1, <2>3
  <2> QED
    BY <1>1, <2>4
<1>. HIDE DEF next
<1>4. \A i \in 1 .. k + n : i \in 1 .. k \/ (i - k \in 1 .. n /\ next[i] = listed[i - k])
  <2>1. SUFFICES ASSUME NEW i \in 1 .. k + n, ~(i \in 1 .. k) PROVE i - k \in 1 .. n /\ next[i] = listed[i - k]
    OBVIOUS
  <2>2. i - k \in 1 .. n /\ i = k + (i - k)
    BY <1>1, <2>1
  <2> QED
    BY <1>3, <2>2
<1>5. DOMAIN stack = 1 .. k + 1
  BY <1>1
<1>6. \A i \in 1 .. n : listed[i] \in T /\ listed[i] \notin Range(stack)
  BY <1>2
<1>. HIDE DEF front
<1>7. IsInjective(next)
  <2>1. SUFFICES ASSUME NEW i \in 1 .. k + n, NEW j \in 1 .. k + n, next[i] = next[j] PROVE i = j
    BY <1>3 DEF IsInjective
  <2>2. CASE i \in 1 .. k /\ j \in 1 .. k
    <3>1. i \in DOMAIN stack /\ j \in DOMAIN stack /\ stack[i] = stack[j]
      BY <1>1, <1>3, <1>5, <2>1, <2>2
    <3> QED
      BY <3>1 DEF IsInjective
  <2>3. CASE i \in 1 .. k /\ ~(j \in 1 .. k)
    <3>1. stack[i] = listed[j - k] /\ i \in DOMAIN stack /\ j - k \in 1 .. n
      BY <1>1, <1>3, <1>4, <1>5, <2>1, <2>3
    <3> QED
      BY <1>6, <2>3, <3>1 DEF Range
  <2>4. CASE j \in 1 .. k /\ ~(i \in 1 .. k)
    <3>1. stack[j] = listed[i - k] /\ j \in DOMAIN stack /\ i - k \in 1 .. n
      BY <1>1, <1>3, <1>4, <1>5, <2>1, <2>4
    <3> QED
      BY <1>6, <2>4, <3>1 DEF Range
  <2>5. CASE ~(i \in 1 .. k) /\ ~(j \in 1 .. k)
    <3>1. listed[i - k] = listed[j - k] /\ i - k \in 1 .. n /\ j - k \in 1 .. n
      BY <1>4, <2>1, <2>5
    <3>2. i - k = j - k
      BY <1>2, <3>1 DEF IsInjective
    <3> QED
      BY <1>1, <2>1, <3>2
  <2> QED
    BY <1>4, <2>2, <2>3, <2>4, <2>5
<1>8. Last(stack) \in Range(stack)
  BY <1>1, <1>5 DEF Range
<1>9. ASSUME NEW x \in Range(next) PROVE x \in (Range(stack) \ {Last(stack)}) \cup T
  <2>1. PICK i \in 1 .. k + n : x = next[i]
    BY <1>3, <1>9 DEF Range
  <2>2. CASE i \in 1 .. k
    <3>1. x = stack[i] /\ i \in DOMAIN stack /\ k + 1 \in DOMAIN stack /\ i # k + 1
      BY <1>1, <1>3, <1>5, <2>1, <2>2
    <3>2. x # stack[k + 1]
      BY <3>1 DEF IsInjective
    <3> QED
      BY <1>1, <3>1, <3>2 DEF Range
  <2>3. CASE ~(i \in 1 .. k)
    BY <1>4, <1>6, <2>1, <2>3
  <2> QED
    BY <1>4, <2>2, <2>3
<1>10. ASSUME NEW x \in Range(stack), x # Last(stack) PROVE x \in Range(next)
  <2>1. PICK i \in 1 .. k + 1 : x = stack[i]
    BY <1>5, <1>10 DEF Range
  <2>2. i \in 1 .. k /\ i \in 1 .. k + n
    BY <1>1, <1>10, <2>1
  <2> QED
    BY <1>3, <2>1, <2>2 DEF Range
<1>11. ASSUME NEW x \in T PROVE x \in Range(next)
  <2>1. PICK i \in 1 .. n : listed[i] = x
    BY <1>2
  <2>2. k + i \in 1 .. k + n
    BY <1>1, <2>1
  <2> QED
    BY <1>3, <2>1, <2>2 DEF Range
<1> QED
  BY <1>7, <1>8, <1>9, <1>10, <1>11 DEF next, front

\* Nothing is searched for at first, and only the shell runs.
LEMMA DetectorStarts == DetectorInit => DetectorInv
<1> SUFFICES ASSUME DetectorInit PROVE DetectorInv
  OBVIOUS
<1>1. DetectorTypes
  BY ShellAssumption DEF ShellAssumption, DetectorInit, DetectorTypes, PaneProcesses, Init1
<1>2. Ranked([q \in Pids |-> 0])
  BY DEF DetectorInit, Ranked, Runs, Free, Init1
<1>3. search = NoSearch
  BY DEF DetectorInit
<1> QED
  BY <1>1, <1>2, <1>3 DEF DetectorInv

\* As long as the processes stay, so does all that is said of them.
LEMMA TableStays ==
    ASSUME table' = table
    PROVE  /\ \A q : Under(q)' = Under(q)
           /\ \A q : Children(q)' = Children(q)
           /\ \A q : detect_agent_from_cmdline(q)' = detect_agent_from_cmdline(q)
           /\ \A rank : Ranked(rank)' <=> Ranked(rank)
<1>1. \A q : Children(q)' = Children(q)
  BY DEF Children, Runs
<1>2. \A q : Under(q)' = Under(q)
  BY DEF Under, Children, Runs
<1>3. \A q : detect_agent_from_cmdline(q)' = detect_agent_from_cmdline(q)
  BY DEF detect_agent_from_cmdline, Runs
<1>4. \A rank : Ranked(rank)' <=> Ranked(rank)
  BY DEF Ranked, Runs
<1> QED
  BY <1>1, <1>2, <1>3, <1>4

\* A search begins with the shell.
LEMMA SearchBegins ==
    ASSUME DetectorInv, NEW p \in PaneIds, resolve_bind_inputs(p)
    PROVE  DetectorInv'
<1>1. PICK shell \in runtimes[p].pid :
          search' = [pane |-> p, shell |-> shell, stack |-> <<shell>>, visited |-> {shell}, candidates |-> <<>>]
  BY DEF resolve_bind_inputs
<1>2. shell \in Pids
  <2>1. runtimes[p].pid \subseteq {Shell}
    BY DEF DetectorInv, DetectorTypes, PaneRuntimes, Unseen, Known, resolve_bind_inputs
  <2> QED
    BY <1>1, <2>1, ShellAssumption DEF ShellAssumption
<1>3. DetectorTypes' /\ (\E rank : Ranked(rank))'
  <2>1. search' \in Searches
    BY <1>1, <1>2 DEF Searches
  <2>2. DetectorTypes'
    BY <2>1 DEF DetectorInv, DetectorTypes, resolve_bind_inputs
  <2>3. table' = table
    BY DEF resolve_bind_inputs
  <2> QED
    BY <2>2, <2>3, TableStays DEF DetectorInv
<1>4. Searching'
  <2>2. Range(search'.stack) = {shell} /\ IsInjective(search'.stack) /\ Range(search'.candidates) = {}
        /\ DOMAIN search'.candidates = {} /\ search'.visited = {shell} /\ search'.shell = shell
    BY <1>1 DEF Range, IsInjective
  <2>3. Done' = {}
    BY <2>2 DEF Done
  <2>4. shell \in Under(shell)'
    <3>1. table' = table
      BY DEF resolve_bind_inputs
    <3> QED
      BY <1>2, <3>1, UnderGrows, TableStays
  <2> QED
    BY <2>2, <2>3, <2>4 DEF Searching
<1> QED
  BY <1>3, <1>4 DEF DetectorInv

\* What a sequence holds that was added to.
LEMMA OneListed ==
    ASSUME NEW S, NEW s \in Seq(S), NEW x
    PROVE  Range(Append(s, x)) = Range(s) \cup {x}
<1>1. DOMAIN Append(s, x) = DOMAIN s \cup {Len(s) + 1} /\ Append(s, x)[Len(s) + 1] = x
      /\ \A i \in DOMAIN s : Append(s, x)[i] = s[i]
  OBVIOUS
<1> QED
  BY <1>1 DEF Range

\* The next process found is listed, and what it started is found.
LEMMA CollectKeeps ==
    ASSUME DetectorInv, collect_process_tree
    PROVE  DetectorInv' /\ search' # NoSearch
<1>1. /\ table' = table /\ still' = still /\ search # NoSearch /\ search.stack # <<>>
      /\ search \in Searches /\ DetectorTypes
  BY DEF collect_process_tree, DetectorInv, DetectorTypes
<1>2. SUFFICES ASSUME NEW shell, NEW stack, NEW visited, NEW listing, NEW q, NEW new, NEW n,
                      shell = search.shell, stack = search.stack, visited = search.visited,
                      listing = search.candidates, q = Last(stack), new = Children(q) \ visited,
                      n = Cardinality(new)
               PROVE  DetectorInv' /\ search' # NoSearch
  OBVIOUS
<1>3. stack \in Seq(Pids) /\ listing \in Seq(Pids) /\ visited \subseteq Pids /\ shell \in Pids /\ q \in Pids
  <2>1. stack \in Seq(Pids) /\ listing \in Seq(Pids) /\ visited \subseteq Pids /\ shell \in Pids
    BY <1>1, <1>2 DEF Searches
  <2> QED
    BY <1>1, <1>2, <2>1 DEF Last
<1>4. new \subseteq Pids /\ n \in Nat
  <2>1. new \subseteq Pids
    BY <1>2 DEF Children
  <2> QED
    BY <1>2, <2>1, ShellAssumption, FS_Subset, FS_CardinalityType DEF ShellAssumption
<1>5. PICK listed \in Bijection(1 .. n, new) :
          search' = [search EXCEPT !.stack = Front(stack) \o listed, !.visited = visited \cup new,
                                   !.candidates = Append(listing, q)]
  BY <1>2 DEF collect_process_tree, Candidates
<1>6. /\ search'.shell = shell /\ search'.stack = Front(stack) \o listed
      /\ search'.visited = visited \cup new /\ search'.candidates = Append(listing, q)
      /\ search' \in Searches
  <2>1. Front(stack) \o listed \in Seq(Pids)
    <3>1. Front(stack) \in Seq(Pids)
      BY <1>1, <1>2, <1>3 DEF Front
    <3>2. listed \in Seq(Pids)
      BY <1>4 DEF Bijection, Injection
    <3> QED
      BY <3>1, <3>2
  <2>2. Append(listing, q) \in Seq(Pids) /\ visited \cup new \in SUBSET Pids
    BY <1>3, <1>4
  <2> QED
    BY <1>1, <1>2, <1>5, <2>1, <2>2 DEF Searches
<1>7. search' # NoSearch
  BY <1>6 DEF Searches, NoSearch
<1>8. DetectorTypes' /\ (\E rank : Ranked(rank))'
  <2>1. DetectorTypes'
    BY <1>6 DEF DetectorInv, DetectorTypes, collect_process_tree
  <2> QED
    BY <1>1, <2>1, TableStays DEF DetectorInv
<1>9. ASSUME still' = TRUE PROVE Searching'
  <2>1. /\ IsInjective(stack) /\ Range(stack) \subseteq visited
        /\ shell \in visited /\ visited \subseteq Under(shell)
        /\ \A p \in Done : Children(p) \subseteq visited
        /\ \A p \in visited : p # shell => table[p].parent \in Done
        /\ \A p \in Done : \A b \in Under(shell) : p \in Under(b) => b \in Done
        /\ Range(listing) \subseteq Done
        /\ \A i, j \in DOMAIN listing : i < j => listing[i] \notin Under(listing[j])
        /\ \A p \in Done \ Range(listing) : detect_agent_from_cmdline(p) = {}
    BY <1>1, <1>2, <1>9 DEF DetectorInv, Searching
  <2>2. new \cap visited = {}
    BY <1>2
  <2>3. /\ Range(Front(stack) \o listed) = (Range(stack) \ {q}) \cup new
        /\ IsInjective(Front(stack) \o listed)
        /\ q \in Range(stack)
    <3>1. new \cap Range(stack) = {} /\ stack # <<>>
      BY <1>1, <1>2, <2>1
    <3>2. /\ Range(Front(stack) \o listed) = (Range(stack) \ {Last(stack)}) \cup new
          /\ IsInjective(Front(stack) \o listed)
          /\ Last(stack) \in Range(stack)
      BY ONLY <1>3, <1>4, <2>1, <3>1, PoppedAndPushed, listed \in Bijection(1 .. n, new)
    <3> QED
      BY <1>2, <3>2
  <2>4. Done' = Done \cup {q} /\ q \notin Done /\ Done \subseteq visited
    BY <1>2, <1>6, <2>1, <2>2, <2>3 DEF Done
  <2>5. q \in visited
    BY <2>1, <2>3
  <2>6. visited \cup new \subseteq Under(shell)
    <3>1. new \subseteq Children(q) /\ q \in Under(shell)
      BY <1>2, <2>1, <2>5
    <3> QED
      BY <1>3, <2>1, <3>1, UnderGrows
  <2>7. ASSUME NEW p \in Done' PROVE Children(p) \subseteq visited \cup new
    BY <1>2, <2>1, <2>4, <2>7
  <2>8. ASSUME NEW p \in visited \cup new, p # shell PROVE table[p].parent \in Done'
    <3>1. p \in new => table[p].parent = q
      BY <1>2 DEF Children
    <3> QED
      BY <2>1, <2>4, <2>8, <3>1
  <2>9. ASSUME NEW p \in Done', NEW b \in Under(shell), p \in Under(b) PROVE b \in Done'
    <3>1. CASE p \in Done
      BY <2>1, <2>4, <2>9, <3>1
    <3>2. CASE p = q /\ b = q
      BY <2>4, <3>2
    <3>3. CASE p = q /\ b # q
      <4>1. b \in Pids
        BY DEF Under
      <4>2. table[q].parent \in Under(b)
        BY <2>9, <3>3, <4>1, UnderFrom
      <4>3. q # shell
        <5>1. PICK rank : Ranked(rank)
          BY DEF DetectorInv
        <5> QED
          BY <1>1, <1>3, <2>9, <3>3, <5>1, UnderRanked
      <4> QED
        BY <2>1, <2>4, <2>5, <4>2, <4>3
    <3> QED
      BY <2>4, <3>1, <3>2, <3>3
  <2>10. Range(Append(listing, q)) = Range(listing) \cup {q}
    BY <1>3, OneListed
  <2>11. ASSUME NEW i \in DOMAIN Append(listing, q), NEW j \in DOMAIN Append(listing, q), i < j
         PROVE  Append(listing, q)[i] \notin Under(Append(listing, q)[j])
    <3>1. i \in DOMAIN listing /\ Append(listing, q)[i] = listing[i]
      BY <1>3, <2>11
    <3>2. CASE j \in DOMAIN listing
      <4>1. Append(listing, q)[j] = listing[j]
        BY <1>3, <3>2
      <4> QED
        BY <2>1, <2>11, <3>1, <3>2, <4>1
    <3>3. CASE j \notin DOMAIN listing
      <4>1. Append(listing, q)[j] = q
        BY <1>3, <2>11, <3>3
      <4>2. listing[i] \in Done
        BY <2>1, <3>1 DEF Range
      <4>3. q \in Under(shell)
        BY <2>1, <2>5
      <4> QED
        BY <2>1, <2>4, <3>1, <4>1, <4>2, <4>3
    <3> QED
      BY <3>2, <3>3
  <2>12. \A p \in Done' \ Range(Append(listing, q)) : detect_agent_from_cmdline(p)' = {}
    BY <1>1, <2>1, <2>4, <2>10, TableStays
  <2>13. \A p \in Done' : Children(p)' \subseteq visited \cup new
    BY <1>1, <2>7, TableStays
  <2>14. \A p \in Done' : \A b \in Under(shell)' : p \in Under(b)' => b \in Done'
    BY <1>1, <2>9, TableStays
  <2>15. visited \cup new \subseteq Under(shell)'
    BY <1>1, <2>6, TableStays
  <2>16. \A i, j \in DOMAIN Append(listing, q) : i < j => Append(listing, q)[i] \notin Under(Append(listing, q)[j])'
    BY <1>1, <2>11, TableStays
  <2>17. \A p \in visited \cup new : p # shell => table'[p].parent \in Done'
    BY <1>1, <2>8
  <2>18. Range(search'.stack) \subseteq visited \cup new /\ IsInjective(search'.stack)
    BY <1>6, <2>1, <2>3
  <2>19. Range(search'.candidates) \subseteq Done'
    BY <1>6, <2>1, <2>4, <2>10
  <2>20. shell \in visited \cup new
    BY <2>1
  <2>. HIDE DEF Done
  <2> QED
    BY <1>6, <2>12, <2>13, <2>14, <2>15, <2>16, <2>17, <2>18, <2>19, <2>20 DEF Searching
<1> QED
  BY <1>7, <1>8, <1>9 DEF DetectorInv

\* What the head of a listing is asked decides: an agent is the pane's, and else it is passed over.
LEMMA DetectKeeps ==
    ASSUME DetectorInv, detect_agent
    PROVE  DetectorInv'
<1>1. /\ table' = table /\ still' = still /\ search # NoSearch /\ search.stack = <<>>
      /\ search \in Searches
  BY DEF detect_agent, DetectorInv, DetectorTypes
<1>2. CASE search' = NoSearch
  <2>1. DetectorTypes'
    BY <1>2 DEF DetectorInv, DetectorTypes, detect_agent
  <2> QED
    BY <1>1, <1>2, <2>1, TableStays DEF DetectorInv
<1>3. CASE search' # NoSearch
  <2>1. SUFFICES ASSUME NEW shell, NEW listing, NEW rest, shell = search.shell,
                        listing = search.candidates, rest = Tail(listing)
                 PROVE  DetectorInv'
    OBVIOUS
  <2>2. listing # <<>> /\ detect_agent_from_cmdline(Head(listing)) = {} /\ search' = [search EXCEPT !.candidates = rest]
    BY <1>3, <2>1 DEF detect_agent
  <2>3. listing \in Seq(Pids) /\ rest \in Seq(Pids)
    BY <1>1, <2>1, <2>2 DEF Searches
  <2>4. /\ search' \in Searches /\ search'.shell = shell /\ search'.stack = search.stack
        /\ search'.visited = search.visited /\ search'.candidates = rest
    BY <1>1, <2>1, <2>2, <2>3 DEF Searches
  <2>5. DetectorTypes' /\ (\E rank : Ranked(rank))'
    <3>1. DetectorTypes'
      BY <2>4 DEF DetectorInv, DetectorTypes, detect_agent
    <3> QED
      BY <1>1, <3>1, TableStays DEF DetectorInv
  <2>6. ASSUME still' = TRUE PROVE Searching'
    <3>1. Searching
      BY <1>1, <2>6 DEF DetectorInv
    <3>2. DOMAIN rest = 1 .. Len(listing) - 1 /\ DOMAIN listing = 1 .. Len(listing) /\ Len(listing) \in Nat
          /\ \A i \in DOMAIN rest : i + 1 \in DOMAIN listing /\ rest[i] = listing[i + 1]
      BY <2>1, <2>2, <2>3
    <3>3. \A x \in Range(listing) : x = Head(listing) \/ x \in Range(rest)
      <4>1. ASSUME NEW i \in DOMAIN listing, i # 1 PROVE listing[i] \in Range(rest)
        <5>1. i - 1 \in DOMAIN rest /\ rest[i - 1] = listing[i]
          BY <2>1, <2>3, <3>2, <4>1
        <5> QED
          BY <5>1 DEF Range
      <4> QED
        BY <2>3, <4>1 DEF Range
    <3>4. Range(rest) \subseteq Range(listing)
      BY <3>2 DEF Range
    <3>5. Done' = Done
      BY <2>4 DEF Done
    <3>6. \A p \in Done' \ Range(rest) : detect_agent_from_cmdline(p)' = {}
      BY <1>1, <2>1, <2>2, <3>1, <3>3, <3>5, TableStays DEF Searching
    <3>7. \A i, j \in DOMAIN rest : i < j => rest[i] \notin Under(rest[j])'
      <4>1. ASSUME NEW i \in DOMAIN rest, NEW j \in DOMAIN rest, i < j PROVE rest[i] \notin Under(rest[j])
        <5>1. i + 1 \in DOMAIN listing /\ j + 1 \in DOMAIN listing /\ i + 1 < j + 1
          BY <3>2, <4>1
        <5>2. listing[i + 1] \notin Under(listing[j + 1])
          BY <2>1, <3>1, <5>1 DEF Searching
        <5> QED
          BY <3>2, <5>2
      <4> QED
        BY <1>1, <4>1, TableStays
    <3>8. /\ IsInjective(search'.stack) /\ Range(search'.stack) \subseteq search'.visited
          /\ search'.shell \in search'.visited /\ search'.visited \subseteq Under(shell)'
          /\ \A q \in Done' : Children(q)' \subseteq search'.visited
          /\ \A q \in search'.visited : q # shell => table'[q].parent \in Done'
          /\ \A q \in Done' : \A b \in Under(shell)' : q \in Under(b)' => b \in Done'
          /\ Range(rest) \subseteq Done'
      BY <1>1, <2>1, <2>4, <3>1, <3>4, <3>5, TableStays DEF Searching
    <3>. HIDE DEF Done
    <3> QED
      BY <2>4, <3>6, <3>7, <3>8 DEF Searching
  <2> QED
    BY <1>3, <2>5, <2>6 DEF DetectorInv
<1> QED
  BY <1>2, <1>3

\* When the search ends and nothing changed meanwhile, the agent is the outermost one.
LEMMA DetectsOutermost ==
    ASSUME DetectorInv, detect_agent, still = TRUE, search' = NoSearch,
           NEW agents, agents = {q \in Under(search.shell) : detect_agent_from_cmdline(q) # {}}
    PROVE  IF context' = NotAttached THEN agents = {} ELSE {q \in agents : context'.pid \in Under(q)} = {context'.pid}
<1>1. Searching /\ search.stack = <<>> /\ search \in Searches
  BY DEF detect_agent, DetectorInv, DetectorTypes
<1>2. Done = search.visited
  BY <1>1 DEF Done, Range
<1>3. Under(search.shell) \subseteq Done
  <2>1. Done \in SUBSET Pids /\ search.shell \in Done
    BY <1>1, <1>2 DEF Searching, Searches
  <2>2. \A q \in Done : Children(q) \subseteq Done
    BY <1>1, <1>2 DEF Searching
  <2> QED
    BY <2>1, <2>2, UnderLeast
<1>4. \A q \in agents : q \in Range(search.candidates)
  BY <1>1, <1>3 DEF Searching
<1>5. CASE search.candidates = <<>>
  BY <1>4, <1>5 DEF detect_agent, Range
<1>6. CASE search.candidates # <<>>
  <2>1. SUFFICES ASSUME NEW q, q = Head(search.candidates)
                 PROVE  context' # NotAttached /\ {b \in agents : context'.pid \in Under(b)} = {context'.pid}
    OBVIOUS
  <2>2. detect_agent_from_cmdline(q) # {}
    <3>1. [search EXCEPT !.candidates = Tail(@)] # NoSearch
      BY <1>1 DEF Searches, NoSearch
    <3> QED
      BY <1>6, <2>1, <3>1 DEF detect_agent
  <2>3. context' # NotAttached /\ context'.pid = q
    <3>1. \E agent, user : context' = [agent |-> agent, pid |-> q, home |-> for_attach(agent, user), pane |-> search.pane]
      BY <1>6, <2>1, <2>2 DEF detect_agent
    <3> QED
      BY <3>1 DEF NotAttached
  <2>4. search.candidates \in Seq(Pids)
    BY <1>1 DEF Searches
  <2>5. q \in Pids /\ 1 \in DOMAIN search.candidates /\ q = search.candidates[1]
    BY <1>6, <2>1, <2>4
  <2>6. q \in agents
    <3>1. q \in Range(search.candidates)
      BY <2>5 DEF Range
    <3> QED
      BY <1>1, <2>2, <3>1 DEF Searching, Done
  <2>7. ASSUME NEW b \in agents, q \in Under(b) PROVE b = q
    <3>1. PICK j \in DOMAIN search.candidates : search.candidates[j] = b
      BY <1>4 DEF Range
    <3>2. CASE j = 1
      BY <2>5, <3>1, <3>2
    <3>3. CASE j # 1
      <4>1. 1 < j
        BY <2>4, <3>3
      <4> QED
        BY <1>1, <2>5, <2>7, <3>1, <4>1 DEF Searching
    <3> QED
      BY <3>2, <3>3
  <2>8. q \in Under(q)
    BY <2>5, UnderGrows
  <2> QED
    BY <2>3, <2>6, <2>7, <2>8
<1> QED
  BY <1>5, <1>6

\* Processes that come and go have no child before they have begun, nor after they end.
LEMMA ProcessesKeep ==
    ASSUME DetectorInv, NEW q \in Pids,
           (\E new \in Pids : Forks(q, new)) \/ (\E program \in Programs : Execs(q, program)) \/ Exits(q)
    PROVE  DetectorInv'
<1>1. PICK rank : Ranked(rank)
  BY DEF DetectorInv
<1>2. /\ runtimes' = runtimes /\ generation' = generation /\ search' = search /\ still' = FALSE /\ Runs(q)
      /\ table[q] \in PaneProcesses /\ DetectorTypes
  BY DEF Forks, Execs, Exits, Changes, DetectorInv, DetectorTypes, Runs
<1>3. SUFFICES table' \in [Pids -> PaneProcesses \cup {Free}] /\ \E r : Ranked(r)'
  BY <1>2 DEF DetectorInv, DetectorTypes
<1>4. \A p \in PaneProcesses : p # Free
  BY DEF PaneProcesses, Free
<1>5. ASSUME NEW new \in Pids, Forks(q, new) PROVE table' \in [Pids -> PaneProcesses \cup {Free}] /\ \E r : Ranked(r)'
  <2>. DEFINE forked == [parent |-> q, program |-> table[q].program]
              r == [rank EXCEPT ![new] = rank[q] + 1]
  <2>1. table' = [table EXCEPT ![new] = forked] /\ ~Runs(new) /\ new # q
    BY <1>2, <1>5 DEF Forks, Changes
  <2>2. forked \in PaneProcesses /\ forked # Free
    BY <1>2 DEF PaneProcesses, Free
  <2>3. table' \in [Pids -> PaneProcesses \cup {Free}]
    BY <1>2, <2>1, <2>2 DEF DetectorTypes
  <2>4. forked.parent = q
    OBVIOUS
  <2>. HIDE DEF forked
  <2>5. /\ \A c \in Pids : c # new => table'[c] = table[c] /\ (Runs(c)' <=> Runs(c))
        /\ table'[new] = forked /\ Runs(new)'
    BY <1>2, <2>1, <2>2 DEF DetectorTypes, Runs
  <2>6. r \in [Pids -> Nat] /\ r[new] = rank[q] + 1 /\ rank[q] \in Nat /\ \A c \in Pids : c # new => r[c] = rank[c]
    BY <1>1 DEF Ranked
  <2>. HIDE DEF r
  <2>7. ASSUME NEW c \in Pids, NEW p, Runs(c)', p = table'[c].parent, p # 0
        PROVE  p \in Pids /\ Runs(p)' /\ r[p] < r[c]
    <3>1. CASE c = new
      <4>1. p = q /\ r[q] = rank[q] /\ r[c] = rank[q] + 1
        BY <2>1, <2>4, <2>5, <2>6, <2>7, <3>1
      <4>2. Runs(q)'
        BY <1>2, <2>1, <2>5
      <4> QED
        BY <2>6, <4>1, <4>2
    <3>2. CASE c # new
      <4>1. Runs(c) /\ table'[c] = table[c]
        BY <2>5, <2>7, <3>2
      <4>2. p \in Pids /\ Runs(p) /\ rank[p] < rank[c]
        BY <1>1, <2>7, <4>1 DEF Ranked
      <4>3. p # new
        BY <2>1, <4>2
      <4>4. Runs(p)' /\ r[p] = rank[p] /\ r[c] = rank[c]
        BY <2>5, <2>6, <3>2, <4>2, <4>3
      <4> QED
        BY <4>2, <4>4
    <3> QED
      BY <3>1, <3>2
  <2> QED
    <3>1. \A c \in Pids : \A p : Runs(c)' /\ p = table'[c].parent /\ p # 0 => p \in Pids /\ Runs(p)' /\ r[p] < r[c]
      BY <2>7
    <3> QED
      BY <2>3, <2>6, <3>1 DEF Ranked
<1>6. ASSUME NEW program \in Programs, Execs(q, program)
      PROVE  table' \in [Pids -> PaneProcesses \cup {Free}] /\ \E r : Ranked(r)'
  <2>1. table' = [table EXCEPT ![q].program = program]
    BY <1>6 DEF Execs, Changes
  <2>2. [table[q] EXCEPT !.program = program] \in PaneProcesses /\ [table[q] EXCEPT !.program = program].parent = table[q].parent
    BY <1>2 DEF PaneProcesses
  <2>3. table' \in [Pids -> PaneProcesses \cup {Free}]
    BY <1>2, <2>1, <2>2 DEF DetectorTypes
  <2>4. \A c \in Pids : (Runs(c)' <=> Runs(c)) /\ (Runs(c) => table'[c].parent = table[c].parent)
    BY <1>2, <1>4, <2>1, <2>2 DEF DetectorTypes, Runs
  <2> QED
    BY <1>1, <2>3, <2>4 DEF Ranked
<1>7. ASSUME Exits(q) PROVE table' \in [Pids -> PaneProcesses \cup {Free}] /\ \E r : Ranked(r)'
  <2>1. table' = [c \in Pids |-> IF c = q THEN Free
                                 ELSE IF c \in Children(q) THEN [table[c] EXCEPT !.parent = Init1] ELSE table[c]]
    BY <1>7 DEF Exits, Changes
  <2>2. \A c \in Children(q) : /\ table[c] \in PaneProcesses /\ [table[c] EXCEPT !.parent = Init1] \in PaneProcesses
                               /\ [table[c] EXCEPT !.parent = Init1].parent = 0
    BY <1>2 DEF DetectorTypes, PaneProcesses, Init1, Children, Runs
  <2>3. table' \in [Pids -> PaneProcesses \cup {Free}]
    BY <1>2, <2>1, <2>2 DEF DetectorTypes
  <2>4. ASSUME NEW c \in Pids
        PROVE  /\ Runs(c)' <=> Runs(c) /\ c # q
               /\ c \in Children(q) /\ c # q => table'[c].parent = 0
               /\ c \notin Children(q) /\ c # q => table'[c] = table[c]
    <3>1. CASE c = q
      BY <2>1, <3>1 DEF Runs
    <3>2. CASE c # q /\ c \in Children(q)
      <4>1. table'[c] = [table[c] EXCEPT !.parent = Init1]
        BY <2>1, <3>2
      <4> QED
        BY <1>4, <2>2, <3>2, <4>1 DEF Runs, Children
    <3>3. CASE c # q /\ c \notin Children(q)
      BY <2>1, <3>3 DEF Runs
    <3> QED
      BY <3>1, <3>2, <3>3
  <2>5. ASSUME NEW c \in Pids, NEW p, Runs(c)', p = table'[c].parent, p # 0
        PROVE  p \in Pids /\ Runs(p)' /\ rank[p] < rank[c]
    <3>1. Runs(c) /\ table'[c] = table[c] /\ c \notin Children(q)
      BY <2>4, <2>5
    <3>2. p \in Pids /\ Runs(p) /\ rank[p] < rank[c]
      BY <1>1, <2>5, <3>1 DEF Ranked
    <3>3. p # q
      BY <2>5, <3>1 DEF Children
    <3> QED
      BY <2>4, <3>2, <3>3
  <2> QED
    <3>1. \A c \in Pids : \A p : Runs(c)' /\ p = table'[c].parent /\ p # 0 => p \in Pids /\ Runs(p)' /\ rank[p] < rank[c]
      BY <2>5
    <3>2. rank \in [Pids -> Nat]
      BY <1>1 DEF Ranked
    <3>3. Ranked(rank)'
      BY <3>1, <3>2 DEF Ranked
    <3> QED
      BY <2>3, <3>3
<1> QED
  BY <1>5, <1>6, <1>7

\* The registry has what herdr reports of a pane.
LEMMA RegistryKeeps ==
    ASSUME DetectorInv, NEW p \in PaneIds,
           (\E pid \in {{}, {Shell}}, cwd \in {{}, {"dir"}} : upsert_pane(p, pid, cwd)) \/ remove_pane(p)
    PROVE  DetectorInv'
<1>1. table' = table /\ search' = search /\ search = NoSearch
  BY DEF upsert_pane, remove_pane
<1>2. DetectorTypes'
  <2>1. ASSUME NEW pid \in {{}, {Shell}}, NEW cwd \in {{}, {"dir"}}, upsert_pane(p, pid, cwd) PROVE DetectorTypes'
    <3>1. CASE Known(runtimes[p])
      <4>1. runtimes[p] \in PaneRuntimes
        BY <3>1 DEF Known, DetectorInv, DetectorTypes, Unseen
      <4>2. runtimes' = [runtimes EXCEPT ![p].pid = Newest(pid, @), ![p].cwd = Newest(cwd, @)] /\ generation' = generation
        BY <2>1, <3>1 DEF upsert_pane
      <4>. DEFINE first == [runtimes EXCEPT ![p].pid = Newest(pid, @)]
      <4>3. first \in [PaneIds -> PaneRuntimes \cup {Unseen}] /\ first[p] \in PaneRuntimes
        BY <4>1 DEF PaneRuntimes, Newest, DetectorInv, DetectorTypes
      <4>4. runtimes' = [first EXCEPT ![p].cwd = Newest(cwd, @)]
        BY <4>2
      <4>. HIDE DEF first
      <4>5. runtimes' \in [PaneIds -> PaneRuntimes \cup {Unseen}]
        BY <4>3, <4>4 DEF PaneRuntimes, Newest
      <4> QED
        BY <1>1, <4>2, <4>5 DEF DetectorInv, DetectorTypes
    <3>2. CASE ~Known(runtimes[p])
      <4>1. generation' \in Nat /\ runtimes' = [runtimes EXCEPT ![p] = [pid |-> pid, cwd |-> cwd, generation |-> generation']]
        BY <2>1, <3>2 DEF upsert_pane, DetectorInv, DetectorTypes
      <4>2. [pid |-> pid, cwd |-> cwd, generation |-> generation'] \in PaneRuntimes
        BY <4>1 DEF PaneRuntimes
      <4> QED
        BY <1>1, <4>1, <4>2 DEF DetectorInv, DetectorTypes
    <3> QED
      BY <3>1, <3>2
  <2>2. ASSUME remove_pane(p) PROVE DetectorTypes'
    BY <1>1, <2>2 DEF remove_pane, DetectorInv, DetectorTypes
  <2> QED
    BY <2>1, <2>2
<1> QED
  BY <1>1, <1>2, TableStays DEF DetectorInv

\* Every step keeps the detector's invariant.
LEMMA DetectorSteps == DetectorInv /\ [DetectorNext]_detectorVars => DetectorInv'
<1> SUFFICES ASSUME DetectorInv, [DetectorNext]_detectorVars PROVE DetectorInv'
  OBVIOUS
<1>1. ASSUME NEW p \in PaneIds,
             (\E pid \in {{}, {Shell}}, cwd \in {{}, {"dir"}} : upsert_pane(p, pid, cwd)) \/ remove_pane(p)
      PROVE  DetectorInv'
  BY <1>1, RegistryKeeps
<1>2. ASSUME NEW p \in PaneIds, resolve_bind_inputs(p) PROVE DetectorInv'
  BY <1>2, SearchBegins
<1>3. CASE collect_process_tree
  BY <1>3, CollectKeeps
<1>4. CASE detect_agent
  BY <1>4, DetectKeeps
<1>5. ASSUME NEW q \in Pids,
             (\E new \in Pids : Forks(q, new)) \/ (\E program \in Programs : Execs(q, program)) \/ Exits(q)
      PROVE  DetectorInv'
  BY <1>5, ProcessesKeep
<1>6. CASE UNCHANGED detectorVars
  <2>1. /\ table' = table /\ runtimes' = runtimes /\ generation' = generation
        /\ search' = search /\ still' = still
    BY <1>6 DEF detectorVars
  <2>2. DetectorTypes'
    BY <2>1 DEF DetectorInv, DetectorTypes
  <2>3. Searching => Searching'
    BY <2>1, TableStays DEF Searching, Done
  <2> QED
    BY <2>1, <2>2, <2>3, TableStays DEF DetectorInv
<1> QED
  BY <1>1, <1>2, <1>3, <1>4, <1>5, <1>6 DEF DetectorNext

-----------------------------------------------------------------------------
(* Host.                                                                   *)

\* The parts share nothing: a step of the whole is a step of each or leaves it alone.
LEMMA PartsStep ==
    [Next]_allVars => /\ [SingletonNext]_hostVars /\ [SweepNext]_sweepVars
                      /\ [KimiNext]_usageVars /\ [OverlayNext]_overlayVars /\ [KeyNext]_keyVars
                      /\ [BridgeNext]_bridgeVars /\ [DoctorNext]_doctorVars /\ [DetectorNext]_detectorVars
  BY DEF Next, allVars, partsVars, SingletonPart, SweepPart, UsagePart, DetectorPart, BridgePart,
     KeyPart, OverlayPart, DoctorPart

\* A request for the lock reaches the daemon that has it, and a takeover never ends
\* without a daemon, however many claimants ask, wait, give up and die
\* (claim_with, TAKEOVER_TIMEOUT, Drop for Singleton).
THEOREM TakeoverIsSafe == Spec => []HandedOver
<1>1. Init => SingletonInv  BY SingletonInitInv DEF Init
<1>2. SingletonInv /\ [Next]_allVars => SingletonInv'
  BY PartsStep, StepSingletonTypes, StepOneHolder, StepPatience DEF SingletonInv
<1>3. SingletonInv => HandedOver
  <2> SUFFICES ASSUME SingletonInv PROVE HandedOver
    OBVIOUS
  <2> USE DEF SingletonInv, SingletonTypes, OneHolder
  <2>1. ReachesTheHolder  BY DEF ReachesTheHolder, WithLock
  <2>2. SomeoneRuns
    <3> SUFFICES ASSUME ~mishaps.ended, \E c \in Claimants : at[c] # "new" PROVE SomeoneRuns
      BY DEF SomeoneRuns
    <3>1. PICK c \in Claimants : at[c] \in WithLock \cup {"request", "waiting"}
      BY DEF Patience
    <3>2. CASE at[c] \in {"remove", "bind", "request", "waiting"}
      BY <3>2 DEF SomeoneRuns
    <3>3. CASE at[c] \in {"serving", "leaving", "unlock"}
      BY <3>3 DEF Patience, Outlasted, SomeoneRuns
    <3>4. QED  BY <3>1, <3>2, <3>3 DEF WithLock
  <2>3. QED  BY <2>1, <2>2 DEF HandedOver
<1>4. QED  BY <1>1, <1>2, <1>3, PTL DEF Spec

\* Consent that was taken back is not used once the loop has looked, whatever
\* commands ran before and whatever a fetch under way brings home
\* (ConsentReloader, maybe_refresh_usage).
THEOREM ConsentIsRespected == Spec => []ConsentIsHeard
<1>1. Init => ConsentInv  BY ConsentInitInv DEF Init
<1>2. ConsentInv /\ [Next]_allVars => ConsentInv'  BY PartsStep, StepConsent
<1>3. ConsentInv => ConsentIsHeard  BY DEF ConsentInv, ConsentIsHeard
<1>4. QED  BY <1>1, <1>2, <1>3, PTL DEF Spec

\* What a sweep deletes was not written within the retention, whoever sweeps at the
\* same time and whichever file is written, unless it was written after the look
\* (last_write, sweep).
THEOREM SweptIsQuiet == Spec => SweptWasQuiet
<1> DEFINE Kept == Removes /\ ~raced => \A f \in Files : ages[f] > Retention
<1>1. Init => SweepInv  BY SweepInitInv DEF Init
<1>2. SweepInv /\ [Next]_allVars => SweepInv'  BY PartsStep, StepSweep
<1>3. ASSUME SweepInv, [SweepNext]_sweepVars PROVE [Kept]_sweepVars
  <2> USE <1>3 DEF SweepInv, Files
  <2>1. ASSUME NEW s \in Sweepers, RemoveEntry(s) PROVE Kept
    BY <2>1 DEF RemoveEntry
  <2>2. CASE DayPasses \/ BeginWrite \/ WriteTemporary \/ RenameTemporary \/ MakeDirectory
             \/ AppendAttention
    BY <2>2 DEF DayPasses, BeginWrite, WriteTemporary, RenameTemporary, MakeDirectory,
       AppendAttention, Removes
  <2>3. ASSUME NEW s \in Sweepers, Look(s) \/ RemoveDirectory(s) PROVE Kept
    BY <2>3 DEF Look, RemoveDirectory, Removes
  <2>4. QED  BY <2>1, <2>2, <2>3 DEF SweepNext
<1>4. SweepInv /\ [Next]_allVars => [Kept]_sweepVars  BY <1>3, PartsStep
<1>5. QED  BY <1>1, <1>2, <1>4, PTL DEF Spec, SweptWasQuiet

\* A pane's agent is one that no other agent of the pane started, and none is found only where
\* none runs, whatever runs in the pane and in whichever order the children are listed, if no
\* process came or went meanwhile (detect_agent_with_source, collect_process_tree).
THEOREM OutermostIsAttached == Spec => OutermostAttached
<1>. DEFINE AtEnd == search # NoSearch /\ search' = NoSearch /\ still =>
                      LET agents == {q \in Under(search.shell) : detect_agent_from_cmdline(q) # {}}
                      IN  IF context' = NotAttached THEN agents = {}
                          ELSE {q \in agents : context'.pid \in Under(q)} = {context'.pid}
<1>1. Init => DetectorInv  BY DetectorStarts DEF Init
<1>2. DetectorInv /\ [Next]_allVars => DetectorInv'  BY PartsStep, DetectorSteps
<1>3. ASSUME DetectorInv, [DetectorNext]_detectorVars PROVE [AtEnd]_detectorVars
  <2>1. CASE search = NoSearch \/ search' # NoSearch \/ still # TRUE \/ UNCHANGED detectorVars
    BY <2>1
  <2>2. CASE search # NoSearch /\ search' = NoSearch /\ still = TRUE /\ ~UNCHANGED detectorVars
    <3>1. ~collect_process_tree
      BY <1>3, <2>2, CollectKeeps
    <3>2. detect_agent
      BY <1>3, <2>2, <3>1 DEF DetectorNext, upsert_pane, remove_pane, resolve_bind_inputs, Forks, Execs, Exits, Changes
    <3> QED
      BY <1>3, <2>2, <3>2, DetectsOutermost
  <2> QED
    BY <2>1, <2>2
<1>4. DetectorInv /\ [Next]_allVars => [AtEnd]_detectorVars  BY <1>3, PartsStep
<1>5. QED  BY <1>1, <1>2, <1>4, PTL DEF Spec, OutermostAttached

\* A launch that is told of the overlay finds all of its files, though others make them at
\* the same time and may fail; no launch cuts the stream under its watcher; OpenCode never
\* loads a part of the plugin (generate, ensure_bridge_installed, atomic_write).
THEOREM UsedIsWhole == Spec => []WholeWhenUsed
<1>1. Init => OverlayInv  BY OverlayInitInv DEF Init
<1>2. OverlayInv /\ [Next]_allVars => OverlayInv'  BY PartsStep, StepOverlay
<1>3. OverlayInv => WholeWhenUsed
  <2> SUFFICES ASSUME OverlayInv PROVE WholeWhenUsed
    OBVIOUS
  <2>1. LaunchIsWhole  BY DEF OverlayInv, LaunchIsWhole, Scripts
  <2> QED  BY <2>1 DEF OverlayInv, WholeWhenUsed
<1>4. QED  BY <1>1, <1>2, <1>3, PTL DEF Spec

\* A block of ours is in Herdr's configuration only with a record that takes it out again,
\* and when no command runs the key that is bound is the setting's, though a change
\* writes three files, may fail at each of them and goes back (install_binding, unbind,
\* rollback_key_change).
THEOREM KeyIsAgreed == Spec => []KeyAgrees
<1>1. Init => KeyInv  BY KeyStarts DEF Init
<1>2. KeyInv /\ [Next]_allVars => KeyInv'  BY PartsStep, KeySteps
<1>3. KeyInv => KeyAgrees
  <2> SUFFICES ASSUME KeyInv PROVE KeyAgrees
    OBVIOUS
  <2>1. BlockIsRecorded  BY Zenon DEF KeyInv, Blocks, BlockIsRecorded
  <2>2. cmd = NoCommand /\ ~disturbed /\ config.blocks # <<>> => config.blocks = <<plugin.key>>
    BY DEF KeyInv, Agrees
  <2> QED  BY <2>1, <2>2 DEF KeyAgrees
<1> QED  BY <1>1, <1>2, <1>3, PTL DEF Spec

\* No command changes what the operator wrote in the configuration, unless a save falls
\* between the last look and the write, and a change of a bound key that fails
\* once leaves a key bound (RenameConfig's check, rollback_key_change).
THEOREM KeyIsKept == Spec => KeyKept
<1> DEFINE Kept == /\ cmd' # cmd /\ saves' = saves /\ ~lost => TheirsStay
                   /\ cmd.name = "change" /\ cmd.bound /\ cmd' = NoCommand /\ ~disturbed'
                        => config'.blocks # <<>>
<1>1. Init => KeyInv  BY KeyStarts DEF Init
<1>2. KeyInv /\ [Next]_allVars => KeyInv'  BY PartsStep, KeySteps
<1>3. KeyInv /\ [KeyNext]_keyVars => [Kept]_keyVars  BY TheirsStayInStep, ChangeEndsBound
<1>4. KeyInv /\ [Next]_allVars => [Kept]_keyVars  BY <1>3, PartsStep
<1> QED  BY <1>1, <1>2, <1>4, PTL DEF Spec, KeyKept

\* However enable and disable are cut short, fail or repeat, and whenever the operator saves,
\* the operator's status line and hook entries are in the settings, or in the record for the day
\* ours go, unless a save falls between the last look and the rename; and what enable put there
\* has a record that takes it out again, with the line it chains to (enable, disable,
\* write_settings, install_at).
THEOREM InstallCanBeUndone == Spec => [](OperatorsKept /\ Undoable)
<1>1. Init => BridgeI  BY BridgeStarts DEF Init
<1>2. BridgeI /\ [Next]_allVars => BridgeI'  BY PartsStep, BridgeSteps
<1> QED  BY <1>1, <1>2, BridgeIsSafe, PTL DEF Spec

\* A status line that came to nothing has its reason in the doctor's report: the tier, the flags
\* or the refusal, though Claudes start and end, herdr tells of sessions late and the daemon
\* forgets and binds (run, shadowing_status_line, argv_shadows, BridgeRoutes::resolve).
THEOREM LossHasItsName == Spec => []LossIsNamed
<1>1. Init => DoctorI  BY DoctorStarts DEF Init
<1>2. DoctorI /\ [Next]_allVars => DoctorI'  BY PartsStep, DoctorSteps
<1> QED  BY <1>1, <1>2, ReasonIsNamed, PTL DEF Spec

\* All that the commands promise of the files they write, together.
THEOREM InstallsStayClean == Spec => []InstallsAreClean
<1>1. OperatorsKept /\ Undoable /\ WholeWhenUsed /\ KeyAgrees /\ LossIsNamed => InstallsAreClean
  BY DEF InstallsAreClean
<1> QED  BY <1>1, InstallCanBeUndone, UsedIsWhole, KeyIsAgreed, LossHasItsName, PTL
===============================================================================
