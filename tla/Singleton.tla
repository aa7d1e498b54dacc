------------------------------- MODULE Singleton -------------------------------
(***************************************************************************)
(* Which daemon runs (daemon/singleton.rs): a daemon that starts asks the  *)
(* one that holds the lock to leave, and waits for it for a bounded time.  *)
(* Time goes by in ticks; whatever the code does at once or within its     *)
(* polling of a tenth of a second happens before the next tick.            *)
(***************************************************************************)
EXTENDS Naturals, FiniteSets

CONSTANTS Claimants,
          TAKEOVER_TIMEOUT,   \* ticks a claimant waits for the lock
          SlowestShutdown,    \* ticks a daemon may need to leave
          MaxMishaps          \* crashes, broken listeners, stops, lost herdrs

ASSUME ShutdownFits ==
    /\ SlowestShutdown \in Nat /\ TAKEOVER_TIMEOUT \in Nat
    /\ SlowestShutdown < TAKEOVER_TIMEOUT

Nobody == "nobody"

ASSUME ClaimantAssumption == Nobody \notin Claimants

VARIABLES
    at,         \* per claimant, how far it is
    holder,     \* who has the file lock
    control,    \* whose socket is at the control path
    listening,  \* whose listener thread accepts
    asked,      \* daemons with an unread shutdown request
    leaving,    \* daemons whose shutdown flag is set
    left,       \* per claimant, ticks left of its waiting or its leaving
    mishaps     \* how many, and whether one ended a daemon

hostVars == <<at, holder, control, listening, asked, leaving, left, mishaps>>

SingletonInit ==
    /\ at = [c \in Claimants |-> "new"]
    /\ holder = Nobody /\ control = Nobody
    /\ listening = {} /\ asked = {} /\ leaving = {}
    /\ left = [c \in Claimants |-> 0] /\ mishaps = [count |-> 0, ended |-> FALSE]

Moves(c, where) == at' = [at EXCEPT ![c] = where]
-----------------------------------------------------------------------------
(* claim_with.                                                             *)

TryLock(c) ==
    /\ at[c] = "new"
    /\ IF holder = Nobody THEN holder' = c /\ Moves(c, "remove")
       ELSE Moves(c, "request") /\ UNCHANGED holder
    /\ UNCHANGED <<control, listening, asked, leaving, left, mishaps>>

Deadline == TAKEOVER_TIMEOUT

\* request_shutdown: a socket nobody accepts at refuses the connection.
Request(c) ==
    /\ at[c] = "request"
    /\ asked' = asked \cup ({control} \cap listening)
    /\ left' = [left EXCEPT ![c] = Deadline]
    /\ Moves(c, "waiting")
    /\ UNCHANGED <<holder, control, listening, leaving, mishaps>>

\* wait_until: the lock is tried before the deadline is looked at.
Acquire(c) ==
    /\ at[c] = "waiting"
    /\ \/ holder = Nobody /\ holder' = c /\ Moves(c, "remove")
       \/ holder # Nobody /\ left[c] = 0 /\ Moves(c, "gave up") /\ UNCHANGED holder
    /\ UNCHANGED <<control, listening, asked, leaving, left, mishaps>>

RemoveControl(c) ==
    /\ at[c] = "remove"
    /\ control' = Nobody /\ Moves(c, "bind")
    /\ UNCHANGED <<holder, listening, asked, leaving, left, mishaps>>

BindControl(c) ==
    /\ at[c] = "bind"
    /\ control' = c /\ listening' = listening \cup {c} /\ Moves(c, "serving")
    /\ UNCHANGED <<holder, asked, leaving, left, mishaps>>
-----------------------------------------------------------------------------
(* The daemon that holds the lock.                                         *)

\* The listener ends with the flag; a request it has not read goes with it.
Accept(c) ==
    /\ c \in listening \cap asked
    /\ leaving' = leaving \cup {c}
    /\ listening' = listening \ {c} /\ asked' = asked \ {c}
    /\ UNCHANGED <<at, holder, control, left, mishaps>>

\* run_with_options: the loop sees the flag, ends its iteration and joins its threads.
BeginLeaving(c) ==
    /\ at[c] = "serving" /\ c \in leaving
    /\ \E t \in 0..SlowestShutdown : left' = [left EXCEPT ![c] = t]
    /\ Moves(c, "leaving")
    /\ UNCHANGED <<holder, control, listening, asked, leaving, mishaps>>

\* Mutant: the lock is let go of first, and the path cleaned up later.
UnlockFirst(c) ==
    /\ at[c] = "leaving" /\ left[c] = 0
    /\ holder' = (IF holder = c THEN Nobody ELSE holder)
    /\ listening' = listening \ {c} /\ asked' = asked \ {c}
    /\ \/ holder = c /\ UNCHANGED <<at, control>>
       \/ holder # c /\ control' = Nobody /\ Moves(c, "gone")
    /\ UNCHANGED <<leaving, left, mishaps>>

\* Drop for Singleton: the lock is let go of after the socket is removed.
RemoveSocket(c) ==
    /\ at[c] = "leaving" /\ left[c] = 0
    /\ listening' = listening \ {c} /\ asked' = asked \ {c}
    /\ control' = Nobody /\ Moves(c, "unlock")
    /\ UNCHANGED <<holder, leaving, left, mishaps>>

Unlock(c) ==
    /\ at[c] = "unlock"
    /\ holder' = Nobody /\ Moves(c, "gone")
    /\ UNCHANGED <<control, listening, asked, leaving, left, mishaps>>

-----------------------------------------------------------------------------
(* What may happen to it.                                                  *)

Mishap(ends) ==
    /\ mishaps.count < MaxMishaps
    /\ mishaps' = [count |-> mishaps.count + 1, ended |-> mishaps.ended \/ ends]

\* stop, or herdr cannot be reached any more.
Leaves(c) ==
    /\ at[c] = "serving" /\ c \notin leaving /\ Mishap(TRUE)
    /\ leaving' = leaving \cup {c} /\ listening' = listening \ {c} /\ asked' = asked \ {c}
    /\ UNCHANGED <<at, holder, control, left>>

\* Too many open files, say: the thread ends, and the socket with it.
ListenerBreaks(c) ==
    /\ c \in listening /\ Mishap(FALSE)
    /\ listening' = listening \ {c} /\ asked' = asked \ {c}
    /\ UNCHANGED <<at, holder, control, leaving, left>>

\* A kill leaves the path behind, not the lock; a bind that fails lets it go too.
Dies(c) ==
    /\ at[c] \notin {"new", "gone", "gave up"} /\ Mishap(TRUE)
    /\ Moves(c, "gone")
    /\ holder' = (IF holder = c THEN Nobody ELSE holder)
    /\ listening' = listening \ {c} /\ asked' = asked \ {c}
    /\ UNCHANGED <<control, leaving, left>>

Step(c) ==
    \/ Request(c) \/ Acquire(c) \/ RemoveControl(c) \/ BindControl(c)
    \/ Accept(c) \/ BeginLeaving(c) \/ RemoveSocket(c) \/ Unlock(c)

\* Somebody has something to do at once.
Due ==
    \E c \in Claimants :
        \/ at[c] \in {"request", "remove", "bind", "unlock"}
        \/ at[c] = "waiting" /\ (holder = Nobody \/ left[c] = 0)
        \/ c \in listening \cap asked
        \/ at[c] = "serving" /\ c \in leaving
        \/ at[c] = "leaving" /\ left[c] = 0

Tick ==
    /\ ~Due /\ \E c \in Claimants : at[c] \in {"waiting", "leaving"}
    /\ left' = [c \in Claimants |-> IF left[c] > 0 THEN left[c] - 1 ELSE 0]
    /\ UNCHANGED <<at, holder, control, listening, asked, leaving, mishaps>>

SingletonNext ==
    \/ \E c \in Claimants : TryLock(c) \/ Step(c) \/ Leaves(c) \/ ListenerBreaks(c) \/ Dies(c)
    \/ Tick
-----------------------------------------------------------------------------
(* Properties.                                                             *)

\* The socket at the control path is the one of the daemon that holds the lock, so
\* a request reaches who it is meant for, whoever is leaving (Drop for Singleton).
ReachesTheHolder ==
    \A c \in Claimants :
        /\ at[c] = "serving" => holder = c
        /\ c \in listening /\ at[c] = "serving" => control = c

\* A takeover never ends without a daemon: unless it was stopped or died, one runs
\* or is about to, although claimants ask, wait and give up at any moment
\* (TAKEOVER_TIMEOUT; "the alternative failure leaves no daemon").
SomeoneRuns ==
    ~mishaps.ended /\ (\E c \in Claimants : at[c] # "new") =>
        \E c \in Claimants : \/ at[c] \in {"request", "waiting", "remove", "bind"}
                             \/ at[c] = "serving" /\ c \notin leaving

\* A handover keeps both: one daemon, reached by its socket, and never none.
HandedOver == ReachesTheHolder /\ SomeoneRuns
=============================================================================
