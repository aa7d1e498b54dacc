---------------------- MODULE WatcherTranscriptProofs ----------------------
(***************************************************************************)
(* Proofs about WatcherTranscript, for any number of handles and any paths *)
(* and for both kinds of notify backend: types, the two halves of OneTail, *)
(* and, where dropping a watcher waits for its callback, that a stop       *)
(* leaves no tail and that no older handle takes the tail over.            *)
(*                                                                         *)
(* The invariant follows each handle from its start to its drop: which     *)
(* handles there are at each step of the lifecycle thread, which of their  *)
(* readers can still bring a path to the gate, and who may be behind it.   *)
(***************************************************************************)
EXTENDS WatcherTranscript, TLAPS

Starting == {"quiesced", "inlining", "ready"}
Dropping == {"dropping", "reaping"}
Stopping == {"stopping", "stopped"}

\* The handles there are: the registered one, the one being started and the
\* one being dropped.  A displaced handle owns no transcript, a removed one does.
Stages ==
    /\ step = "idle" => leaving = None /\ registered \in {None, spawned}
    /\ step \in Starting \cup {"watching"} =>
         leaving = None /\ registered < spawned /\ spawned \in owns
    /\ step \in Dropping =>
         \/ registered = None /\ leaving = spawned /\ leaving \in owns
         \/ registered = spawned /\ leaving < spawned /\ leaving \notin owns
    /\ step \in Dropping => leaving # None
    /\ step \in Stopping => registered = None /\ leaving = spawned
    /\ registered # None => registered \in owns

\* What can still read a status file, and what it has read.
Readers ==
    /\ notify \subseteq
         IF step = "watching" THEN {registered, spawned}
         ELSE IF step \in Starting THEN {spawned} ELSE {registered}
    /\ \A h \in Handles : polling[h] # "off" =>
         \/ h = registered
         \/ step = "ready" /\ h = spawned
         \/ step \in Dropping /\ h = leaving
    /\ \A h \in Handles : job[<<"poll", h>>] # Idle => polling[h] # "off"
    /\ \A h \in Handles : job[<<"inline", h>>] # Idle => step = "inlining" /\ h = spawned
    /\ \A h \in Handles : job[<<"notify", h>>] # Idle => h <= spawned

\* A handle that was displaced is refused at the gate.
Refused ==
    /\ step \in Starting => registered \notin alive
    /\ step \in Dropping /\ registered # None => leaving \notin alive

\* Where drops wait for callbacks, a callback is of a handle whose watcher has
\* not been dropped.
Callbacks ==
    joined => \A h \in Handles : job[<<"notify", h>>] # Idle =>
         \/ h = registered /\ step \notin {"inlining", "ready"}
         \/ h = spawned /\ step \in Starting \cup {"watching"}
         \/ h = leaving /\ step = "dropping" /\ h \in owns

\* What holds while someone is behind the gate or a tail winds down.
Gated ==
    /\ gate = Op <=> step = "stopped"
    /\ gate \in Jobs => job[gate] # Idle
    /\ gate # Free => tail = NoTail
    /\ "gate" \in ending => gate # Free
    /\ "op" \in ending => step = "dropping"

\* Where drops wait for callbacks, no older handle is behind the gate.
NewestGated ==
    joined /\ gate \in Jobs => gate[2] >= IF step = "watching" THEN registered ELSE spawned

\* A claim stands for a tail.
Claims ==
    /\ gate = Free /\ ~failed /\ tail = NoTail =>
         /\ registered \notin claimed
         /\ step \in Starting \cup {"watching"} => spawned \notin claimed
    /\ \A h \in claimed : h <= spawned

IInv == /\ TypeOK /\ Stages /\ Readers /\ Refused /\ Callbacks /\ Gated
        /\ NewestGated /\ Claims /\ NoZombieWhereJoined

-----------------------------------------------------------------------------
\* The invariant holds before the first start.
LEMMA InitIInv == Init => IInv
<1> SUFFICES ASSUME Init PROVE IInv
  OBVIOUS
<1> USE WatcherAssumption DEF Init, Handles, None, Idle, Free, Op, NoTail
<1>1. TypeOK
  <2>1. job \in [Jobs -> Paths \cup {Idle}]  OBVIOUS
  <2>2. tail \in [path : Paths, by : Handles] \cup {NoTail}  OBVIOUS
  <2>3. polling \in [Handles -> {"off", "run", "told"}]  OBVIOUS
  <2>4. /\ step \in Steps /\ gate \in Jobs \cup {Free, Op} /\ failed \in BOOLEAN  BY DEF Steps
  <2>5. /\ spawned \in 0 .. MaxHandles /\ registered \in 0 .. MaxHandles
        /\ leaving \in 0 .. MaxHandles
    OBVIOUS
  <2>6. QED  BY <2>1, <2>2, <2>3, <2>4, <2>5 DEF TypeOK
<1>2. QED  BY <1>1 DEF IInv, Stages, Readers, Refused, Callbacks, Gated, NewestGated,
     Claims, NoZombieWhereJoined, NoZombie, Starting, Dropping, Stopping, Jobs, Kinds

\* Every step keeps the types: a handle that is dropped is one there is, and a tail
\* that starts has the path its reader brought to the gate.
LEMMA StepTypeOK ==
    TypeOK /\ Stages /\ Gated /\ [Next]_vars => TypeOK'
<1> SUFFICES ASSUME TypeOK, Stages, Gated, [Next]_vars
             PROVE  TypeOK'
  OBVIOUS
<1> USE WatcherAssumption DEF TypeOK, Steps, Stages, Gated, Dropping, Stopping,
       Starting, Handles, None, Idle, Free, Op, NoTail, Jobs, Kinds, handles, tails
<1>1. CASE Spawn  BY <1>1 DEF Spawn
<1>2. CASE Quiesce  BY <1>2 DEF Quiesce
<1>3. CASE InlineRead  BY <1>3 DEF InlineRead, CallbackDrained
<1>4. CASE StartPoll  BY <1>4 DEF StartPoll
<1>5. CASE Insert
  <2>1. CASE registered # None /\ spawned \notin claimed  
    <3>1. /\ tail' = NoTail /\ ending' \subseteq Waiters /\ leaving' = registered
          /\ registered' = spawned /\ spawned \in Handles /\ step' \in Steps
          /\ notify' \subseteq notify /\ alive' \subseteq alive /\ owns' \subseteq owns
          /\ UNCHANGED <<spawned, claimed, polling, job, gate, failed>>
      BY <1>5, <2>1 DEF Insert, Unhook, Waiters
    <3>2. QED  BY <3>1
  <2>2. CASE ~(registered # None /\ spawned \notin claimed)  BY <1>5, <2>2 DEF Insert
  <2>3. QED  BY <2>1, <2>2
<1>6. CASE Remove  BY <1>6 DEF Remove
<1>7. CASE TellPoll  BY <1>7 DEF TellPoll, CallbackDrained
<1>8. CASE Reap
  <2>1. UNCHANGED <<spawned, registered, notify, alive, claimed, owns, polling, job, gate, tails>>
    BY <1>8 DEF Reap
  <2>2. step' \in {"stopping", "idle"} /\ leaving' \in {leaving, None}  BY <1>8 DEF Reap
  <2>3. QED  BY <2>1, <2>2
<1>9. CASE StopTail
  <2>1. /\ step' \in Steps /\ gate' = Op /\ tail' = NoTail /\ ending' \subseteq Waiters
        /\ UNCHANGED <<spawned, handles, claimed, job, failed>>
    BY <1>9 DEF StopTail, Unhook, Waiters
  <2>2. QED  BY <2>1
<1>10. CASE Stopped  BY <1>10 DEF Stopped
<1>11. ASSUME NEW h \in Handles, NotifyFires(h) PROVE TypeOK'
  BY <1>11 DEF NotifyFires
<1>12. ASSUME NEW h \in Handles, PollReads(h) PROVE TypeOK'
  BY <1>12 DEF PollReads
<1>13. ASSUME NEW h \in Handles, PollExits(h) PROVE TypeOK'
  BY <1>13 DEF PollExits
<1>14. ASSUME NEW j \in Jobs, Displaced(j) PROVE TypeOK'
  BY <1>14 DEF Displaced, Arrives, Current
<1>15. ASSUME NEW j \in Jobs, AlreadyRunning(j) PROVE TypeOK'
  BY <1>15 DEF AlreadyRunning, Arrives, Current
<1>16. ASSUME NEW j \in Jobs, Replace(j) PROVE TypeOK'
  <2>1. /\ gate' = j /\ tail' = NoTail /\ ending' \subseteq Waiters
        /\ UNCHANGED <<step, spawned, handles, claimed, job, failed>>
    BY <1>16 DEF Replace, Unhook, Waiters
  <2>2. QED  BY <2>1
<1>17. ASSUME NEW j \in Jobs, TailStarts(j) PROVE TypeOK'
  BY <1>17 DEF TailStarts
<1>18. ASSUME NEW j \in Jobs, TailFails(j) PROVE TypeOK'
  BY <1>18 DEF TailFails
<1>19. ASSUME NEW w \in Waiters, TailExits(w) PROVE TypeOK'
  BY <1>19 DEF TailExits, Waiters
<1>20. CASE UNCHANGED vars  BY <1>20 DEF vars
<1>21. QED  BY <1>1, <1>2, <1>3, <1>4, <1>5, <1>6, <1>7, <1>8, <1>9, <1>10, <1>11,
       <1>12, <1>13, <1>14, <1>15, <1>16, <1>17, <1>18, <1>19, <1>20 DEF Next,
       Lifecycle, GoesOn, Enter, Finish

\* Every step of the lifecycle thread leaves the handles as the next one expects them.
LEMMA StepStages ==
    Stages /\ TypeOK /\ [Next]_vars => Stages'
<1> SUFFICES ASSUME Stages, TypeOK, [Next]_vars
             PROVE  Stages'
  OBVIOUS
<1> USE WatcherAssumption DEF Stages, TypeOK, Steps, Starting, Dropping, Stopping,
       Handles, None, Idle, Free, Op, NoTail, Jobs, Kinds, handles, tails
<1>1. CASE Spawn  BY <1>1 DEF Spawn
<1>2. CASE Quiesce  BY <1>2 DEF Quiesce
<1>3. CASE InlineRead  BY <1>3 DEF InlineRead, CallbackDrained
<1>4. CASE StartPoll  BY <1>4 DEF StartPoll
<1>5. CASE Insert  BY <1>5 DEF Insert, Unhook
<1>6. CASE Remove  BY <1>6 DEF Remove
<1>7. CASE TellPoll  BY <1>7 DEF TellPoll, CallbackDrained
<1>8. CASE Reap  BY <1>8 DEF Reap, CallbackDrained
<1>9. CASE StopTail  BY <1>9 DEF StopTail, Unhook
<1>10. CASE Stopped  BY <1>10 DEF Stopped
<1>11. ASSUME NEW h \in Handles, NotifyFires(h) PROVE Stages'
  BY <1>11 DEF NotifyFires
<1>12. ASSUME NEW h \in Handles, PollReads(h) PROVE Stages'
  BY <1>12 DEF PollReads
<1>13. ASSUME NEW h \in Handles, PollExits(h) PROVE Stages'
  BY <1>13 DEF PollExits
<1>14. ASSUME NEW j \in Jobs, Displaced(j) PROVE Stages'
  BY <1>14 DEF Displaced, Arrives, Current
<1>15. ASSUME NEW j \in Jobs, AlreadyRunning(j) PROVE Stages'
  BY <1>15 DEF AlreadyRunning, Arrives, Current
<1>16. ASSUME NEW j \in Jobs, Replace(j) PROVE Stages'
  BY <1>16 DEF Replace, Arrives, Current, Unhook
<1>17. ASSUME NEW j \in Jobs, TailStarts(j) PROVE Stages'
  BY <1>17 DEF TailStarts
<1>18. ASSUME NEW j \in Jobs, TailFails(j) PROVE Stages'
  BY <1>18 DEF TailFails
<1>19. ASSUME NEW w \in Waiters, TailExits(w) PROVE Stages'
  BY <1>19 DEF TailExits, Waiters
<1>20. CASE UNCHANGED vars  BY <1>20 DEF vars
<1>21. QED  BY <1>1, <1>2, <1>3, <1>4, <1>5, <1>6, <1>7, <1>8, <1>9, <1>10, <1>11,
       <1>12, <1>13, <1>14, <1>15, <1>16, <1>17, <1>18, <1>19, <1>20 DEF Next,
       Lifecycle, GoesOn, Enter, Finish

\* Only the handles there are have a watcher, a poll thread and an inline read: what
\* Quiesce and Insert take away is not given back.
LEMMA StepReaders ==
    Readers /\ TypeOK /\ Stages /\ [Next]_vars => Readers'
<1> SUFFICES ASSUME Readers, TypeOK, Stages, [Next]_vars
             PROVE  Readers'
  OBVIOUS
<1> USE WatcherAssumption DEF Readers, TypeOK, Steps, Stages, Starting, Dropping,
       Stopping, Handles, None, Idle, Free, Op, NoTail, Jobs, Kinds, handles, tails
<1>1. CASE Spawn
  <2>1. /\ step = "idle" /\ step' = "watching" /\ spawned' = spawned + 1
        /\ notify' = notify \cup {spawned'} /\ UNCHANGED <<registered, polling, job>>
    BY <1>1 DEF Spawn
  <2>2. notify' \subseteq {registered', spawned'}  BY <2>1
  <2>3. \A h \in Handles : polling'[h] # "off" => h = registered'  BY <2>1
  <2>4. \A h \in Handles : job'[<<"inline", h>>] = Idle  BY <2>1
  <2>5. \A h \in Handles : job'[<<"notify", h>>] # Idle => h <= spawned'  BY <2>1
  <2>6. QED  BY <2>1, <2>2, <2>3, <2>4, <2>5
<1>2. CASE Quiesce  BY <1>2 DEF Quiesce
<1>3. CASE InlineRead  BY <1>3 DEF InlineRead, CallbackDrained
<1>4. CASE StartPoll  BY <1>4 DEF StartPoll
<1>5. CASE Insert  BY <1>5 DEF Insert, Unhook
<1>6. CASE Remove  BY <1>6 DEF Remove
<1>7. CASE TellPoll  BY <1>7 DEF TellPoll, CallbackDrained
<1>8. CASE Reap  BY <1>8 DEF Reap, CallbackDrained
<1>9. CASE StopTail  BY <1>9 DEF StopTail, Unhook
<1>10. CASE Stopped  BY <1>10 DEF Stopped
<1>11. ASSUME NEW h \in Handles, NotifyFires(h) PROVE Readers'
  BY <1>11 DEF NotifyFires
<1>12. ASSUME NEW h \in Handles, PollReads(h) PROVE Readers'
  BY <1>12 DEF PollReads
<1>13. ASSUME NEW h \in Handles, PollExits(h) PROVE Readers'
  BY <1>13 DEF PollExits
<1>14. ASSUME NEW j \in Jobs, Displaced(j) PROVE Readers'
  BY <1>14 DEF Displaced, Arrives, Current
<1>15. ASSUME NEW j \in Jobs, AlreadyRunning(j) PROVE Readers'
  BY <1>15 DEF AlreadyRunning, Arrives, Current
<1>16. ASSUME NEW j \in Jobs, Replace(j) PROVE Readers'
  BY <1>16 DEF Replace, Arrives, Current, Unhook
<1>17. ASSUME NEW j \in Jobs, TailStarts(j) PROVE Readers'
  BY <1>17 DEF TailStarts
<1>18. ASSUME NEW j \in Jobs, TailFails(j) PROVE Readers'
  BY <1>18 DEF TailFails
<1>19. ASSUME NEW w \in Waiters, TailExits(w) PROVE Readers'
  BY <1>19 DEF TailExits, Waiters
<1>20. CASE UNCHANGED vars  BY <1>20 DEF vars
<1>21. QED  BY <1>1, <1>2, <1>3, <1>4, <1>5, <1>6, <1>7, <1>8, <1>9, <1>10, <1>11,
       <1>12, <1>13, <1>14, <1>15, <1>16, <1>17, <1>18, <1>19, <1>20 DEF Next,
       Lifecycle, GoesOn, Enter, Finish

\* A handle displaced by a start loses its token before anything else is read.
LEMMA StepRefused ==
    Refused /\ TypeOK /\ Stages /\ [Next]_vars => Refused'
<1> SUFFICES ASSUME Refused, TypeOK, Stages, [Next]_vars
             PROVE  Refused'
  OBVIOUS
<1> USE WatcherAssumption DEF Refused, TypeOK, Steps, Stages, Starting, Dropping,
       Stopping, Handles, None, Idle, Free, Op, NoTail, Jobs, Kinds, handles, tails
<1>1. CASE Spawn  BY <1>1 DEF Spawn
<1>2. CASE Quiesce  BY <1>2 DEF Quiesce
<1>3. CASE InlineRead  BY <1>3 DEF InlineRead, CallbackDrained
<1>4. CASE StartPoll  BY <1>4 DEF StartPoll
<1>5. CASE Insert  BY <1>5 DEF Insert, Unhook
<1>6. CASE Remove  BY <1>6 DEF Remove
<1>7. CASE TellPoll  BY <1>7 DEF TellPoll, CallbackDrained
<1>8. CASE Reap  BY <1>8 DEF Reap, CallbackDrained
<1>9. CASE StopTail  BY <1>9 DEF StopTail, Unhook
<1>10. CASE Stopped  BY <1>10 DEF Stopped
<1>11. ASSUME NEW h \in Handles, NotifyFires(h) PROVE Refused'
  BY <1>11 DEF NotifyFires
<1>12. ASSUME NEW h \in Handles, PollReads(h) PROVE Refused'
  BY <1>12 DEF PollReads
<1>13. ASSUME NEW h \in Handles, PollExits(h) PROVE Refused'
  BY <1>13 DEF PollExits
<1>14. ASSUME NEW j \in Jobs, Displaced(j) PROVE Refused'
  BY <1>14 DEF Displaced, Arrives, Current
<1>15. ASSUME NEW j \in Jobs, AlreadyRunning(j) PROVE Refused'
  BY <1>15 DEF AlreadyRunning, Arrives, Current
<1>16. ASSUME NEW j \in Jobs, Replace(j) PROVE Refused'
  BY <1>16 DEF Replace, Arrives, Current, Unhook
<1>17. ASSUME NEW j \in Jobs, TailStarts(j) PROVE Refused'
  BY <1>17 DEF TailStarts
<1>18. ASSUME NEW j \in Jobs, TailFails(j) PROVE Refused'
  BY <1>18 DEF TailFails
<1>19. ASSUME NEW w \in Waiters, TailExits(w) PROVE Refused'
  BY <1>19 DEF TailExits, Waiters
<1>20. CASE UNCHANGED vars  BY <1>20 DEF vars
<1>21. QED  BY <1>1, <1>2, <1>3, <1>4, <1>5, <1>6, <1>7, <1>8, <1>9, <1>10, <1>11,
       <1>12, <1>13, <1>14, <1>15, <1>16, <1>17, <1>18, <1>19, <1>20 DEF Next,
       Lifecycle, GoesOn, Enter, Finish

\* Where drops wait for callbacks, InlineRead and TellPoll wait for those of the handle
\* they drop.
LEMMA StepCallbacks ==
    Callbacks /\ TypeOK /\ Stages /\ Readers /\ [Next]_vars => Callbacks'
<1> SUFFICES ASSUME Callbacks, TypeOK, Stages, Readers, [Next]_vars
             PROVE  Callbacks'
  OBVIOUS
<1> USE WatcherAssumption DEF Callbacks, TypeOK, Steps, Stages, Readers, Starting,
       Dropping, Stopping, Handles, None, Idle, Free, Op, NoTail, Jobs, Kinds,
       handles, tails
<1>1. CASE Spawn  BY <1>1 DEF Spawn
<1>2. CASE Quiesce  BY <1>2 DEF Quiesce
<1>3. CASE InlineRead
  <2>1. step = "quiesced" /\ step' = "inlining" /\ UNCHANGED <<joined, spawned, handles>>
    BY <1>3 DEF InlineRead
  <2>2. ASSUME joined, NEW h \in Handles, job'[<<"notify", h>>] # Idle
        PROVE  h = spawned
    <3>1. job[<<"notify", h>>] # Idle  BY <1>3, <2>2 DEF InlineRead
    <3>2. h = registered => registered # None /\ CallbackDrained(registered)
      BY <1>3 DEF InlineRead
    <3>3. h # registered  BY <2>2, <3>1, <3>2 DEF CallbackDrained
    <3>4. QED  BY <2>1, <2>2, <3>1, <3>3
  <2>3. QED  BY <2>1, <2>2
<1>4. CASE StartPoll  BY <1>4 DEF StartPoll
<1>5. CASE Insert  BY <1>5 DEF Insert, Unhook
<1>6. CASE Remove  BY <1>6 DEF Remove
<1>7. CASE TellPoll  BY <1>7 DEF TellPoll, CallbackDrained
<1>8. CASE Reap  BY <1>8 DEF Reap, CallbackDrained
<1>9. CASE StopTail  BY <1>9 DEF StopTail, Unhook
<1>10. CASE Stopped  BY <1>10 DEF Stopped
<1>11. ASSUME NEW h \in Handles, NotifyFires(h) PROVE Callbacks'
  BY <1>11 DEF NotifyFires
<1>12. ASSUME NEW h \in Handles, PollReads(h) PROVE Callbacks'
  BY <1>12 DEF PollReads
<1>13. ASSUME NEW h \in Handles, PollExits(h) PROVE Callbacks'
  BY <1>13 DEF PollExits
<1>14. ASSUME NEW j \in Jobs, Displaced(j) PROVE Callbacks'
  BY <1>14 DEF Displaced, Arrives, Current
<1>15. ASSUME NEW j \in Jobs, AlreadyRunning(j) PROVE Callbacks'
  BY <1>15 DEF AlreadyRunning, Arrives, Current
<1>16. ASSUME NEW j \in Jobs, Replace(j) PROVE Callbacks'
  BY <1>16 DEF Replace, Arrives, Current, Unhook
<1>17. ASSUME NEW j \in Jobs, TailStarts(j) PROVE Callbacks'
  BY <1>17 DEF TailStarts
<1>18. ASSUME NEW j \in Jobs, TailFails(j) PROVE Callbacks'
  BY <1>18 DEF TailFails
<1>19. ASSUME NEW w \in Waiters, TailExits(w) PROVE Callbacks'
  BY <1>19 DEF TailExits, Waiters
<1>20. CASE UNCHANGED vars  BY <1>20 DEF vars
<1>21. QED  BY <1>1, <1>2, <1>3, <1>4, <1>5, <1>6, <1>7, <1>8, <1>9, <1>10, <1>11,
       <1>12, <1>13, <1>14, <1>15, <1>16, <1>17, <1>18, <1>19, <1>20 DEF Next,
       Lifecycle, GoesOn, Enter, Finish

\* The gate is taken when it is free, together with the old tail, and given back
\* only after that tail has ended.
LEMMA StepGated ==
    Gated /\ TypeOK /\ Stages /\ Readers /\ [Next]_vars => Gated'
<1> SUFFICES ASSUME Gated, TypeOK, Stages, Readers, [Next]_vars
             PROVE  Gated'
  OBVIOUS
<1> USE WatcherAssumption DEF Gated, TypeOK, Steps, Stages, Readers, Dropping,
       Handles, None, Idle, Free, Op, NoTail, Jobs, Kinds, handles, tails
<1>1. CASE Spawn  BY <1>1 DEF Spawn
<1>2. CASE Quiesce  BY <1>2 DEF Quiesce
<1>3. CASE InlineRead
  <2>1. /\ step = "quiesced" /\ step' = "inlining" /\ UNCHANGED <<spawned, handles, gate, tails>>
        /\ \E p \in Paths \cup {Idle} : job' = [job EXCEPT ![<<"inline", spawned>>] = p]
    BY <1>3 DEF InlineRead
  <2>2. gate \in Jobs => gate # <<"inline", spawned>>
    BY <2>1
  <2>3. gate \in Jobs => job'[gate] = job[gate]  BY <2>1, <2>2
  <2>4. QED  BY <2>1, <2>3
<1>4. CASE StartPoll  BY <1>4 DEF StartPoll
<1>5. CASE Insert  BY <1>5 DEF Insert, Unhook
<1>6. CASE Remove  BY <1>6 DEF Remove
<1>7. CASE TellPoll  BY <1>7 DEF TellPoll, CallbackDrained
<1>8. CASE Reap  BY <1>8 DEF Reap, CallbackDrained
<1>9. CASE StopTail  BY <1>9 DEF StopTail, Unhook
<1>10. CASE Stopped  BY <1>10 DEF Stopped
<1>11. ASSUME NEW h \in Handles, NotifyFires(h) PROVE Gated'
  BY <1>11 DEF NotifyFires
<1>12. ASSUME NEW h \in Handles, PollReads(h) PROVE Gated'
  BY <1>12 DEF PollReads
<1>13. ASSUME NEW h \in Handles, PollExits(h) PROVE Gated'
  BY <1>13 DEF PollExits
<1>14. ASSUME NEW j \in Jobs, Displaced(j) PROVE Gated'
  BY <1>14 DEF Displaced, Arrives, Current
<1>15. ASSUME NEW j \in Jobs, AlreadyRunning(j) PROVE Gated'
  BY <1>15 DEF AlreadyRunning, Arrives, Current
<1>16. ASSUME NEW j \in Jobs, Replace(j) PROVE Gated'
  BY <1>16 DEF Replace, Arrives, Current, Unhook
<1>17. ASSUME NEW j \in Jobs, TailStarts(j) PROVE Gated'
  BY <1>17 DEF TailStarts
<1>18. ASSUME NEW j \in Jobs, TailFails(j) PROVE Gated'
  BY <1>18 DEF TailFails
<1>19. ASSUME NEW w \in Waiters, TailExits(w) PROVE Gated'
  BY <1>19 DEF TailExits, Waiters
<1>20. CASE UNCHANGED vars  BY <1>20 DEF vars
<1>21. QED  BY <1>1, <1>2, <1>3, <1>4, <1>5, <1>6, <1>7, <1>8, <1>9, <1>10, <1>11,
       <1>12, <1>13, <1>14, <1>15, <1>16, <1>17, <1>18, <1>19, <1>20 DEF Next,
       Lifecycle, GoesOn, Enter, Finish

\* What is behind the gate came with a current token, and the gate must be free
\* to take a token away.
LEMMA StepNewestGated ==
    NewestGated /\ TypeOK /\ Stages /\ Readers /\ Refused /\ Callbacks /\ Gated /\ [Next]_vars => NewestGated'
<1> SUFFICES ASSUME NewestGated, TypeOK, Stages, Readers, Refused, Callbacks, Gated, [Next]_vars
             PROVE  NewestGated'
  OBVIOUS
<1> USE WatcherAssumption DEF NewestGated, TypeOK, Steps, Stages, Readers, Refused,
       Callbacks, Gated, Starting, Dropping, Stopping, Handles, None, Idle, Free,
       Op, NoTail, Jobs, Kinds, handles, tails
<1>1. CASE Spawn  BY <1>1 DEF Spawn
<1>2. CASE Quiesce  BY <1>2 DEF Quiesce
<1>3. CASE InlineRead  BY <1>3 DEF InlineRead, CallbackDrained
<1>4. CASE StartPoll  BY <1>4 DEF StartPoll
<1>5. CASE Insert  BY <1>5 DEF Insert, Unhook
<1>6. CASE Remove  BY <1>6 DEF Remove
<1>7. CASE TellPoll  BY <1>7 DEF TellPoll, CallbackDrained
<1>8. CASE Reap  BY <1>8 DEF Reap, CallbackDrained
<1>9. CASE StopTail  BY <1>9 DEF StopTail, Unhook
<1>10. CASE Stopped  BY <1>10 DEF Stopped
<1>11. ASSUME NEW h \in Handles, NotifyFires(h) PROVE NewestGated'
  BY <1>11 DEF NotifyFires
<1>12. ASSUME NEW h \in Handles, PollReads(h) PROVE NewestGated'
  BY <1>12 DEF PollReads
<1>13. ASSUME NEW h \in Handles, PollExits(h) PROVE NewestGated'
  BY <1>13 DEF PollExits
<1>14. ASSUME NEW j \in Jobs, Displaced(j) PROVE NewestGated'
  BY <1>14 DEF Displaced, Arrives, Current
<1>15. ASSUME NEW j \in Jobs, AlreadyRunning(j) PROVE NewestGated'
  BY <1>15 DEF AlreadyRunning, Arrives, Current
<1>16. ASSUME NEW j \in Jobs, Replace(j) PROVE NewestGated'
  BY <1>16 DEF Replace, Arrives, Current, Unhook
<1>17. ASSUME NEW j \in Jobs, TailStarts(j) PROVE NewestGated'
  BY <1>17 DEF TailStarts
<1>18. ASSUME NEW j \in Jobs, TailFails(j) PROVE NewestGated'
  BY <1>18 DEF TailFails
<1>19. ASSUME NEW w \in Waiters, TailExits(w) PROVE NewestGated'
  BY <1>19 DEF TailExits, Waiters
<1>20. CASE UNCHANGED vars  BY <1>20 DEF vars
<1>21. QED  BY <1>1, <1>2, <1>3, <1>4, <1>5, <1>6, <1>7, <1>8, <1>9, <1>10, <1>11,
       <1>12, <1>13, <1>14, <1>15, <1>16, <1>17, <1>18, <1>19, <1>20 DEF Next,
       Lifecycle, GoesOn, Enter, Finish

\* A handle that claimed a transcript has a tail until the next attempt: the drop
\* of the handle it displaced does not stop it.
LEMMA StepClaims ==
    Claims /\ TypeOK /\ Stages /\ Readers /\ Gated /\ [Next]_vars => Claims'
<1> SUFFICES ASSUME Claims, TypeOK, Stages, Readers, Gated, [Next]_vars
             PROVE  Claims'
  OBVIOUS
<1> USE WatcherAssumption DEF Claims, TypeOK, Steps, Stages, Readers, Gated,
       Starting, Dropping, Stopping, Handles, None, Idle, Free, Op, NoTail, Jobs,
       Kinds, handles, tails
<1>1. CASE Spawn  BY <1>1 DEF Spawn
<1>2. CASE Quiesce  BY <1>2 DEF Quiesce
<1>3. CASE InlineRead  BY <1>3 DEF InlineRead, CallbackDrained
<1>4. CASE StartPoll  BY <1>4 DEF StartPoll
<1>5. CASE Insert  BY <1>5 DEF Insert, Unhook
<1>6. CASE Remove  BY <1>6 DEF Remove
<1>7. CASE TellPoll  BY <1>7 DEF TellPoll, CallbackDrained
<1>8. CASE Reap  BY <1>8 DEF Reap, CallbackDrained
<1>9. CASE StopTail  BY <1>9 DEF StopTail, Unhook
<1>10. CASE Stopped  BY <1>10 DEF Stopped
<1>11. ASSUME NEW h \in Handles, NotifyFires(h) PROVE Claims'
  BY <1>11 DEF NotifyFires
<1>12. ASSUME NEW h \in Handles, PollReads(h) PROVE Claims'
  BY <1>12 DEF PollReads
<1>13. ASSUME NEW h \in Handles, PollExits(h) PROVE Claims'
  BY <1>13 DEF PollExits
<1>14. ASSUME NEW j \in Jobs, Displaced(j) PROVE Claims'
  BY <1>14 DEF Displaced, Arrives, Current
<1>15. ASSUME NEW j \in Jobs, AlreadyRunning(j) PROVE Claims'
  BY <1>15 DEF AlreadyRunning, Arrives, Current
<1>16. ASSUME NEW j \in Jobs, Replace(j) PROVE Claims'
  BY <1>16 DEF Replace, Arrives, Current, Unhook
<1>17. ASSUME NEW j \in Jobs, TailStarts(j) PROVE Claims'
  BY <1>17 DEF TailStarts
<1>18. ASSUME NEW j \in Jobs, TailFails(j) PROVE Claims'
  BY <1>18 DEF TailFails
<1>19. ASSUME NEW w \in Waiters, TailExits(w) PROVE Claims'
  BY <1>19 DEF TailExits, Waiters
<1>20. CASE UNCHANGED vars  BY <1>20 DEF vars
<1>21. QED  BY <1>1, <1>2, <1>3, <1>4, <1>5, <1>6, <1>7, <1>8, <1>9, <1>10, <1>11,
       <1>12, <1>13, <1>14, <1>15, <1>16, <1>17, <1>18, <1>19, <1>20 DEF Next,
       Lifecycle, GoesOn, Enter, Finish

\* When a stop is through, the removed handle has no reader left, so nothing comes to
\* the gate and no tail starts after the one that was stopped.
LEMMA StepNoZombieWhereJoined ==
    NoZombieWhereJoined /\ TypeOK /\ Stages /\ Readers /\ Callbacks /\ Gated /\ [Next]_vars => NoZombieWhereJoined'
<1> SUFFICES ASSUME NoZombieWhereJoined, TypeOK, Stages, Readers, Callbacks, Gated, [Next]_vars
             PROVE  NoZombieWhereJoined'
  OBVIOUS
<1> USE WatcherAssumption DEF NoZombieWhereJoined, NoZombie, TypeOK, Steps, Stages,
       Readers, Callbacks, Gated, Starting, Dropping, Stopping, Handles, None, Idle,
       Free, Op, NoTail, Jobs, Kinds, handles, tails
<1>1. CASE Spawn  BY <1>1 DEF Spawn
<1>2. CASE Quiesce  BY <1>2 DEF Quiesce
<1>3. CASE InlineRead  BY <1>3 DEF InlineRead, CallbackDrained
<1>4. CASE StartPoll  BY <1>4 DEF StartPoll
<1>5. CASE Insert  BY <1>5 DEF Insert, Unhook
<1>6. CASE Remove  BY <1>6 DEF Remove
<1>7. CASE TellPoll  BY <1>7 DEF TellPoll, CallbackDrained
<1>8. CASE Reap  BY <1>8 DEF Reap, CallbackDrained
<1>9. CASE StopTail  BY <1>9 DEF StopTail, Unhook
<1>10. CASE Stopped  BY <1>10 DEF Stopped
<1>11. ASSUME NEW h \in Handles, NotifyFires(h) PROVE NoZombieWhereJoined'
  BY <1>11 DEF NotifyFires
<1>12. ASSUME NEW h \in Handles, PollReads(h) PROVE NoZombieWhereJoined'
  BY <1>12 DEF PollReads
<1>13. ASSUME NEW h \in Handles, PollExits(h) PROVE NoZombieWhereJoined'
  BY <1>13 DEF PollExits
<1>14. ASSUME NEW j \in Jobs, Displaced(j) PROVE NoZombieWhereJoined'
  BY <1>14 DEF Displaced, Arrives, Current
<1>15. ASSUME NEW j \in Jobs, AlreadyRunning(j) PROVE NoZombieWhereJoined'
  BY <1>15 DEF AlreadyRunning, Arrives, Current
<1>16. ASSUME NEW j \in Jobs, Replace(j) PROVE NoZombieWhereJoined'
  BY <1>16 DEF Replace, Arrives, Current, Unhook
<1>17. ASSUME NEW j \in Jobs, TailStarts(j) PROVE NoZombieWhereJoined'
  BY <1>17 DEF TailStarts
<1>18. ASSUME NEW j \in Jobs, TailFails(j) PROVE NoZombieWhereJoined'
  BY <1>18 DEF TailFails
<1>19. ASSUME NEW w \in Waiters, TailExits(w) PROVE NoZombieWhereJoined'
  BY <1>19 DEF TailExits, Waiters
<1>20. CASE UNCHANGED vars  BY <1>20 DEF vars
<1>21. QED  BY <1>1, <1>2, <1>3, <1>4, <1>5, <1>6, <1>7, <1>8, <1>9, <1>10, <1>11,
       <1>12, <1>13, <1>14, <1>15, <1>16, <1>17, <1>18, <1>19, <1>20 DEF Next,
       Lifecycle, GoesOn, Enter, Finish

-----------------------------------------------------------------------------
\* The invariant holds of every behaviour.
LEMMA Invariance == Spec => []IInv
<1>1. IInv /\ [Next]_vars => IInv'
  BY StepTypeOK, StepStages, StepReaders, StepRefused, StepCallbacks, StepGated,
     StepNewestGated, StepClaims, StepNoZombieWhereJoined DEF IInv
<1>2. QED  BY InitIInv, <1>1, PTL DEF Spec

\* Every variable keeps its type, for any transcripts and any number of restarts.
THEOREM TypeCorrect == Spec => []TypeOK
<1>1. IInv => TypeOK  BY DEF IInv
<1>2. QED  BY Invariance, <1>1, PTL

\* A session keeps the tail its watcher claimed, and a second tail is there only
\* while a restart drops the handle it displaced (insert, stop_with_held_gate).
THEOREM TailIsOne == Spec => []OneTail
<1>1. IInv => OneTail
  BY DEF IInv, TypeOK, Waiters, Gated, Claims, OneTail, ClaimIsKept, BoundedOverlap
<1>2. QED  BY Invariance, <1>1, PTL

\* Where dropping a watcher waits for its callback, a stop leaves no tail behind
\* (TranscriptState::stop); where it does not, the run watcher_zombie shows one.
THEOREM NoZombieAfterJoin == Spec => []NoZombieWhereJoined
<1>1. IInv => NoZombieWhereJoined  BY DEF IInv
<1>2. QED  BY Invariance, <1>1, PTL

\* Where dropping a watcher waits for its callback, no reader of an older handle
\* starts or adopts a tail once a restart has quiesced it (quiesce_existing, and
\* the alive token checked in start_or_replace).
THEOREM NoOlderTail == Spec => NeverOlder
<1> DEFINE Bound  == IF step = "watching" THEN registered ELSE spawned
           Newer  == joined /\ tail'.by # None /\ tail'.by # tail.by => tail'.by >= Bound
<1>1. ASSUME IInv, [Next]_vars PROVE [Newer]_vars
  <2> USE <1>1 DEF IInv, TypeOK
  <2>1. ASSUME UNCHANGED tail PROVE Newer  BY <2>1
  <2>2. ASSUME tail' = NoTail PROVE Newer  BY <2>2 DEF NoTail
  <2>3. ASSUME NEW j \in Jobs, AlreadyRunning(j) PROVE Newer
    <3>1. tail'.by # tail.by => tail'.by = j[2]
      BY <2>3 DEF AlreadyRunning, NoTail
    <3>2. joined => j[2] >= Bound
      <4> SUFFICES ASSUME joined PROVE j[2] >= Bound
        OBVIOUS
      <4>1. j[1] \in Kinds /\ j[2] \in Handles /\ j = <<j[1], j[2]>>
        BY DEF Jobs
      <4>2. job[j] # Idle /\ (j[1] = "inline" \/ j[2] \in alive)
        BY <2>3 DEF AlreadyRunning, Arrives, Current
      <4>3. CASE j[1] = "inline"
        BY <4>1, <4>2, <4>3 DEF Readers, Handles
      <4>4. CASE j[1] = "poll"
        BY <4>1, <4>2, <4>4 DEF Readers, Stages, Refused, Handles, None, Steps, Starting,
           Dropping, Stopping
      <4>5. CASE j[1] = "notify"
        BY <4>1, <4>2, <4>5 DEF Callbacks, Stages, Refused, Handles, None, Steps, Starting,
           Dropping, Stopping
      <4>6. QED  BY <4>1, <4>3, <4>4, <4>5 DEF Kinds
    <3>3. QED  BY <3>1, <3>2
  <2>4. ASSUME NEW j \in Jobs, TailStarts(j) PROVE Newer
    BY <2>4 DEF TailStarts, NewestGated
  <2>5. CASE Lifecycle
    BY <2>1, <2>2, <2>5 DEF Lifecycle, GoesOn, Spawn, Remove, Quiesce, InlineRead, StartPoll,
       Insert, TellPoll, Reap, StopTail, Stopped, Unhook, tails, handles
  <2>6. ASSUME NEW h \in Handles, NotifyFires(h) \/ PollReads(h) \/ PollExits(h) PROVE Newer
    BY <2>1, <2>6 DEF NotifyFires, PollReads, PollExits, tails
  <2>7. ASSUME NEW j \in Jobs, Displaced(j) \/ Replace(j) \/ TailFails(j) PROVE Newer
    BY <2>1, <2>2, <2>7 DEF Displaced, Replace, TailFails, Unhook, tails
  <2>8. ASSUME NEW w \in Waiters, TailExits(w) PROVE Newer
    BY <2>1, <2>8 DEF TailExits
  <2>9. QED
    BY <2>3, <2>4, <2>5, <2>6, <2>7, <2>8 DEF Next, Enter, Finish
<1>2. QED  BY Invariance, <1>1, PTL DEF NeverOlder, Spec
=============================================================================
