------------------------- MODULE NotificationsProofs -------------------------
(***************************************************************************)
(* Proofs about Notifications: a pane is served while it is bound, and no  *)
(* longer; and what is told is right, whatever the lines and the reads.    *)
(*                                                                         *)
(* What keeps the worker from leaving under a bound pane is not written in *)
(* one place: the worker leaves only when it has no registration, and a    *)
(* registration goes only by a stop, which the loop sends only for the     *)
(* pane it unbinds.  So the first invariant says what the queue may hold   *)
(* at each point of a call: at most the call's own command, next to        *)
(* changes.                                                                *)
(*                                                                         *)
(* The second one says how the lines of a source follow each other, and of *)
(* each registration that it is what its lines make of a fresh one: which  *)
(* turns it may still tell of, and which it has told.  That one read of    *)
(* all lines tells the same as several is a relation between the two       *)
(* registrations, kept by every line.                                      *)
(***************************************************************************)
EXTENDS Notifications, SequenceTheorems, WellFoundedInduction, TLAPS

LineTypes == UNION {Types(q) : q \in Providers}
FileLines == [type : LineTypes, turn : Nat, key : {<<>>} \cup (LineTypes \X Nat), id : Nat]

Registrations == {NewRegistration(p, 1, n) : p \in Panes, n \in Int}

RegisterOf(r) == [command |-> "register", reg |-> r]
StopOf(p) == [command |-> "stop", pane |-> p]
Change == [command |-> "changed"]
Commands == {Change} \cup {StopOf(p) : p \in Panes} \cup {RegisterOf(r) : r \in Registrations}

BindCalls == [call : {"register", "send", "await"}, pane : Panes, try : {1, 2}, reg : Registrations]
LoopCalls == {Rest} \cup BindCalls \cup [call : {"stopping"}, pane : Panes]

TypesInv ==
    /\ provider \in Providers
    /\ file \in Seq(FileLines) /\ turns \in Nat
    /\ loop \in LoopCalls
    /\ bound \subseteq Panes /\ unserved \subseteq Panes
    /\ tail \in [Panes -> {None, "watcher", "service"}]
    /\ worker \in {"none", "running", "leaving", "gone"}
    /\ queue \in Seq(Commands)
    /\ acked \in {None, "ok", "other"} \cup Providers
    /\ DOMAIN regs \subseteq Panes

\* Of a queue: it holds changes only, or one command c among changes.
OnlyChanges(q) == \A i \in 1..Len(q) : q[i] = Change
Carries(q, c) ==
    \E k \in 1..Len(q) : q[k] = c /\ \A i \in 1..Len(q) : i # k => q[i] = Change

\* What the queue holds while the loop is in each step of its calls.
Conversation ==
    /\ worker \in {"none", "gone"} => queue = <<>>
    /\ loop.call \in {"rest", "register", "send"} => OnlyChanges(queue) /\ acked = None
    /\ loop.call \in {"send", "await"} => worker # "none"
    /\ loop.call \in {"register", "send", "await"} => loop.reg.pane = loop.pane
    /\ loop.call = "await" =>
         \/ acked = None /\ (worker = "gone" \/ Carries(queue, RegisterOf(loop.reg)))
         \/ acked # None /\ OnlyChanges(queue) /\ loop.pane \in Registered /\ worker = "running"
    /\ loop.call = "stopping" =>
         \/ acked = None /\ (worker = "gone" \/ Carries(queue, StopOf(loop.pane)))
         \/ acked # None /\ OnlyChanges(queue) /\ loop.pane \notin Registered

\* A tail that runs is that of a bound pane or of the call under way.
TailsAreBound ==
    \A p \in Panes : tail[p] # None => p \in bound \/ (loop.call # "rest" /\ loop.pane = p)

\* A tail of the service is that of a registration, or of the one a stop ended.
ServiceTails ==
    \A p \in Panes : tail[p] = "service" =>
        /\ provider = "kimi"
        /\ \/ p \in Registered /\ worker = "running"
           \/ loop.call = "stopping" /\ loop.pane = p /\ acked = "kimi"

IInv == TypesInv /\ Conversation /\ BoundIsServed /\ TailsAreBound /\ ServiceTails
-----------------------------------------------------------------------------
(* Queues.                                                                 *)

\* A queue of changes stays one when a change is put at its end or the first one taken.
LEMMA ChangesOnly ==
    ASSUME NEW q \in Seq(Commands), OnlyChanges(q)
    PROVE  /\ OnlyChanges(Append(q, Change))
           /\ q # <<>> => Head(q) = Change /\ OnlyChanges(Tail(q))
  BY DEF OnlyChanges

\* The command put at the end of changes is the one the queue carries.
LEMMA CarriesNew ==
    ASSUME NEW q \in Seq(Commands), OnlyChanges(q), NEW c \in Commands
    PROVE  Carries(Append(q, c), c)
<1>1. Append(q, c)[Len(q) + 1] = c /\ Len(q) + 1 \in 1..Len(Append(q, c))  OBVIOUS
<1>2. \A i \in 1..Len(Append(q, c)) : i # Len(q) + 1 => Append(q, c)[i] = Change
  BY DEF OnlyChanges
<1> QED  BY <1>1, <1>2 DEF Carries

\* A carried command stays so until it is the first and is taken.
LEMMA CarriesOn ==
    ASSUME NEW q \in Seq(Commands), NEW c \in Commands, c # Change, Carries(q, c)
    PROVE  /\ Carries(Append(q, Change), c)
           /\ q # <<>>
           /\ Head(q) = Change => Carries(Tail(q), c)
           /\ Head(q) # Change => Head(q) = c /\ OnlyChanges(Tail(q))
<1>1. PICK k \in 1..Len(q) : q[k] = c /\ \A i \in 1..Len(q) : i # k => q[i] = Change
  BY DEF Carries
<1>2. q # <<>> /\ Len(q) \in Nat /\ Head(q) = q[1]  BY <1>1
<1>3. Carries(Append(q, Change), c)
  <2>1. k \in 1..Len(Append(q, Change)) /\ Append(q, Change)[k] = c  BY <1>1
  <2>2. \A i \in 1..Len(Append(q, Change)) : i # k => Append(q, Change)[i] = Change
    BY <1>1 DEF Commands
  <2> QED  BY <2>1, <2>2 DEF Carries
<1>4. Len(Tail(q)) = Len(q) - 1 /\ \A i \in 1..Len(Tail(q)) : Tail(q)[i] = q[i + 1]  BY <1>2
<1>5. ASSUME Head(q) = Change PROVE Carries(Tail(q), c)
  <2>1. k # 1 /\ k - 1 \in 1..Len(Tail(q))  BY <1>1, <1>2, <1>4, <1>5
  <2>2. Tail(q)[k - 1] = c  BY <1>1, <1>4, <2>1
  <2>3. \A i \in 1..Len(Tail(q)) : i # k - 1 => Tail(q)[i] = Change  BY <1>1, <1>4
  <2> QED  BY <2>1, <2>2, <2>3 DEF Carries
<1>6. ASSUME Head(q) # Change PROVE Head(q) = c /\ OnlyChanges(Tail(q))
  <2>1. k = 1  BY <1>1, <1>2, <1>6
  <2> QED  BY <1>1, <1>2, <1>4, <2>1 DEF OnlyChanges
<1> QED  BY <1>2, <1>3, <1>5, <1>6
-----------------------------------------------------------------------------
(* Each part of the invariant is kept by every step.                       *)

\* A registration is that of a pane.
LEMMA RegistrationPane ==
    ASSUME NEW r \in Registrations PROVE r.pane \in Panes
  BY DEF Registrations, NewRegistration

\* A command is a change, a stop or a registration, told apart by its name.
LEMMA CommandKinds ==
    ASSUME NEW c \in Commands
    PROVE  /\ c.command \in {"changed", "stop", "register"}
           /\ c.command = "changed" <=> c = Change
           /\ c.command = "stop" => c.pane \in Panes /\ c = StopOf(c.pane)
           /\ c.command = "register" => c.reg \in Registrations /\ c = RegisterOf(c.reg)
<1>1. CASE c = Change  BY <1>1 DEF Change
<1>2. CASE \E p \in Panes : c = StopOf(p)  BY <1>2 DEF StopOf, Change
<1>3. CASE \E r \in Registrations : c = RegisterOf(r)  BY <1>3 DEF RegisterOf, Change
<1> QED  BY <1>1, <1>2, <1>3 DEF Commands

\* The loop rests, or is in a bind's call or a stop's.
LEMMA LoopKinds ==
    ASSUME NEW l \in LoopCalls
    PROVE  /\ l.call \in {"rest", "register", "send", "await", "stopping"}
           /\ l.call \in {"register", "send", "await"} =>
                /\ l \in BindCalls /\ l.pane \in Panes /\ l.reg \in Registrations
           /\ l.call = "stopping" => l.pane \in Panes
<1>1. CASE l = Rest  BY <1>1 DEF Rest
<1>2. CASE l \in BindCalls  BY <1>2 DEF BindCalls
<1>3. CASE l \in [call : {"stopping"}, pane : Panes]  BY <1>3
<1> QED  BY <1>1, <1>2, <1>3 DEF LoopCalls

\* What a bind's call becomes as it goes on.
LEMMA CallGoesOn ==
    ASSUME NEW l \in BindCalls
    PROVE  /\ [l EXCEPT !.call = "send"] \in BindCalls
           /\ [l EXCEPT !.call = "send"].call = "send" /\ [l EXCEPT !.call = "send"].pane = l.pane
           /\ [l EXCEPT !.call = "send"].reg = l.reg
           /\ [l EXCEPT !.call = "await"] \in BindCalls
           /\ [l EXCEPT !.call = "await"].call = "await" /\ [l EXCEPT !.call = "await"].pane = l.pane
           /\ [l EXCEPT !.call = "await"].reg = l.reg
           /\ [l EXCEPT !.call = "register", !.try = 2] \in BindCalls
           /\ [l EXCEPT !.call = "register", !.try = 2].call = "register"
           /\ [l EXCEPT !.call = "register", !.try = 2].pane = l.pane
           /\ [l EXCEPT !.call = "register", !.try = 2].reg = l.reg
  BY DEF BindCalls

\* What becomes of a bind's call that tries again, is sent, or is answered.
LEMMA TriedAgain ==
    ASSUME loop \in BindCalls, TryAgain
    PROVE  \/ loop' = Rest /\ bound' = bound \cup {loop.pane}
           \/ /\ loop'.call = "register" /\ loop'.pane = loop.pane /\ loop'.reg = loop.reg
              /\ bound' = bound
<1>1. CASE loop.try = 1
  <2>1. loop' = [loop EXCEPT !.call = "register", !.try = 2] /\ bound' = bound  BY <1>1 DEF TryAgain
  <2> QED  BY <2>1, CallGoesOn
<1>2. CASE loop.try # 1
  BY <1>2 DEF TryAgain, EndBind
<1> QED  BY <1>1, <1>2

LEMMA Sent ==
    ASSUME loop \in BindCalls, SendRegister, worker # "gone"
    PROVE  loop'.call = "await" /\ loop'.pane = loop.pane /\ loop'.reg = loop.reg /\ bound' = bound
<1>1. loop' = [loop EXCEPT !.call = "await"] /\ bound' = bound  BY DEF SendRegister
<1> QED  BY <1>1, CallGoesOn

LEMMA Answered ==
    ASSUME loop \in BindCalls, AwaitRegister
    PROVE  \/ loop' = Rest /\ bound' = bound \cup {loop.pane}
           \/ /\ loop'.call = "register" /\ loop'.pane = loop.pane /\ loop'.reg = loop.reg
              /\ bound' = bound
<1>1. CASE acked # None /\ EndBind(TRUE)  BY <1>1 DEF EndBind
<1>2. CASE TryAgain  BY <1>2, TriedAgain
<1> QED  BY <1>1, <1>2 DEF AwaitRegister

\* The loop's calls, by the steps that make them.
LEMMA CallsMade ==
    /\ Rest \in LoopCalls /\ BindCalls \subseteq LoopCalls
    /\ \A p \in Panes : [call |-> "stopping", pane |-> p] \in LoopCalls
    /\ \A p \in Panes, n \in Int :
          [call |-> "register", pane |-> p, try |-> 1, reg |-> NewRegistration(p, 1, n)] \in BindCalls
<1>1. \A p \in Panes, n \in Int : NewRegistration(p, 1, n) \in Registrations  BY DEF Registrations
<1> QED  BY <1>1 DEF LoopCalls, BindCalls

\* What is put into the queue is a command.
LEMMA CommandsMade ==
    /\ Change \in Commands
    /\ \A p \in Panes : StopOf(p) \in Commands
    /\ \A r \in Registrations : RegisterOf(r) \in Commands
  BY DEF Commands

\* Every step keeps the types.
LEMMA StepTypes ==
    ASSUME TypesInv, [Next]_vars
    PROVE  TypesInv'
<1>1. ASSUME UNCHANGED vars PROVE TypesInv'
  BY <1>1 DEF TypesInv, source, caller, thread, vars
<1>2. ASSUME NEW type \in Types(provider), Write(type) PROVE TypesInv'
  <2>1. turns' \in Nat /\ [type |-> type, turn |-> turns', key |-> IF type = "approval_request" THEN <<type, turns'>> ELSE <<>>,
              id |-> IF provider = "codex" THEN turns' ELSE NoTurn] \in FileLines
    BY <1>2 DEF TypesInv, Write, FileLines, LineTypes, NoTurn
  <2>2. file' \in Seq(FileLines)  BY <1>2, <2>1 DEF TypesInv, Write
  <2> QED  BY <1>2, <2>1, <2>2 DEF TypesInv, Write, source, caller, thread
<1>3. ASSUME WriteRest PROVE TypesInv'
  BY <1>3 DEF TypesInv, WriteRest, source, caller, thread, vars
<1>4. ASSUME Replace PROVE TypesInv'
  BY <1>4 DEF TypesInv, Replace, source, caller, thread, vars
<1>5. ASSUME WorkerSender PROVE TypesInv'
  <2>1. loop' \in LoopCalls  BY <1>5, LoopKinds, CallGoesOn, CallsMade DEF TypesInv, WorkerSender
  <2>2. DOMAIN NoRegistrations = {}  BY DEF NoRegistrations
  <2>3. queue' = queue \/ queue' = <<>>  BY <1>5 DEF WorkerSender, thread
  <2>4. <<>> \in Seq(Commands)  OBVIOUS
  <2>5. queue' \in Seq(Commands)  BY <2>3, <2>4 DEF TypesInv
  <2>6. DOMAIN regs' \subseteq Panes  BY <1>5, <2>2 DEF TypesInv, WorkerSender, thread
  <2> QED  BY <1>5, <2>1, <2>5, <2>6 DEF TypesInv, WorkerSender, source, thread
<1>6. ASSUME SendRegister PROVE TypesInv'
  <2>1. loop \in BindCalls /\ loop.pane \in Panes /\ RegisterOf(loop.reg) \in Commands
    BY <1>6, LoopKinds, CommandsMade DEF TypesInv, SendRegister
  <2>2. /\ [loop EXCEPT !.call = "await"] \in LoopCalls /\ Rest \in LoopCalls
        /\ [loop EXCEPT !.call = "register", !.try = 2] \in LoopCalls
    BY <1>6, LoopKinds, CallGoesOn, CallsMade DEF TypesInv, SendRegister
  <2>3. loop' \in LoopCalls /\ bound' \subseteq Panes /\ unserved' \subseteq Panes
    BY <1>6, <2>1, <2>2 DEF TypesInv, SendRegister, TryAgain, EndBind
  <2>4. queue' = queue \/ queue' = Append(queue, RegisterOf(loop.reg))  BY <1>6 DEF SendRegister, RegisterOf
  <2>5. queue' \in Seq(Commands)  BY <2>1, <2>4 DEF TypesInv
  <2> QED  BY <1>6, <2>3, <2>5 DEF TypesInv, SendRegister, source
<1>7. ASSUME AwaitRegister PROVE TypesInv'
  <2>1. loop \in BindCalls /\ loop.pane \in Panes
    BY <1>7, LoopKinds DEF TypesInv, AwaitRegister
  <2>2. Rest \in LoopCalls /\ [loop EXCEPT !.call = "register", !.try = 2] \in LoopCalls
    BY <1>7, LoopKinds, CallGoesOn, CallsMade DEF TypesInv, AwaitRegister
  <2>3. loop' \in LoopCalls /\ bound' \subseteq Panes /\ unserved' \subseteq Panes
    BY <1>7, <2>1, <2>2 DEF TypesInv, AwaitRegister, TryAgain, EndBind
  <2> QED  BY <1>7, <2>3 DEF TypesInv, AwaitRegister, source
<1>8. ASSUME AwaitStop PROVE TypesInv'
  <2>1. bound' \subseteq Panes /\ unserved' \subseteq Panes /\ tail' \in [Panes -> {None, "watcher", "service"}]
    BY <1>8 DEF TypesInv, AwaitStop, EndUnbind
  <2> QED  BY <1>8, <2>1, CallsMade DEF TypesInv, AwaitStop, EndUnbind, source
<1>9. ASSUME Reconcile PROVE TypesInv'
  <2>1. DOMAIN regs' \subseteq Panes  BY <1>9 DEF TypesInv, Reconcile, Scan, Registered
  <2> QED  BY <1>9, <2>1 DEF TypesInv, Reconcile, LeaveWhenIdle, source, caller
<1>10. ASSUME TakeRegister PROVE TypesInv'
  <2>1. Head(queue) \in Commands /\ queue' \in Seq(Commands)  BY <1>10 DEF TypesInv, TakeRegister, Command
  <2>2. Head(queue).reg.pane \in Panes
    BY <1>10, <2>1, CommandKinds, RegistrationPane DEF TakeRegister, Command
  <2>3. DOMAIN regs' \subseteq Panes  BY <1>10, <2>2 DEF TypesInv, TakeRegister, Registered
  <2>4. tail' \in [Panes -> {None, "watcher", "service"}]  BY <1>10, <2>2 DEF TypesInv, TakeRegister
  <2> QED  BY <1>10, <2>1, <2>3, <2>4 DEF TypesInv, TakeRegister, source
<1>11. ASSUME TakeStop PROVE TypesInv'
  <2>1. queue' \in Seq(Commands)  BY <1>11 DEF TypesInv, TakeStop, Command
  <2>2. DOMAIN regs' \subseteq Panes  BY <1>11 DEF TypesInv, TakeStop, Registered
  <2> QED  BY <1>11, <2>1, <2>2 DEF TypesInv, TakeStop, LeaveWhenIdle, source, caller
<1>12. ASSUME TakeChanged PROVE TypesInv'
  <2>1. DOMAIN regs' \subseteq Panes  BY <1>12 DEF TypesInv, TakeChanged, Scan, Registered
  <2>2. queue' \in Seq(Commands)  BY <1>12 DEF TypesInv, TakeChanged, Command
  <2> QED  BY <1>12, <2>1, <2>2 DEF TypesInv, TakeChanged, source, caller
<1>13. ASSUME Leave PROVE TypesInv'
  BY <1>13 DEF TypesInv, Leave, source, caller, thread, vars
<1>14. ASSUME Callback PROVE TypesInv'
  <2>1. queue' \in Seq(Commands)  BY <1>14, CommandsMade DEF TypesInv, Callback, Change
  <2> QED  BY <1>14, <2>1 DEF TypesInv, Callback, source, caller
<1>15. ASSUME TimePasses PROVE TypesInv'
  BY <1>15 DEF TypesInv, TimePasses, source, caller, thread, vars
<1>16. ASSUME NEW p \in Panes, Bind(p) PROVE TypesInv'
  <2>1. Length \in Int  BY DEF TypesInv, Length
  <2>2. loop' \in LoopCalls  BY <1>16, <2>1, CallsMade DEF Bind
  <2> QED  BY <1>16, <2>2 DEF TypesInv, Bind, source, thread
<1>17. ASSUME NEW p \in Panes, Unbind(p) PROVE TypesInv'
  <2>1. StopOf(p) \in Commands  BY CommandsMade
  <2>2. queue' = queue \/ queue' = Append(queue, StopOf(p))  BY <1>17 DEF Unbind, StopOf
  <2>3. queue' \in Seq(Commands)  BY <2>1, <2>2 DEF TypesInv
  <2>4. loop' \in LoopCalls  BY <1>17, CallsMade DEF Unbind, EndUnbind
  <2>5. bound' \subseteq Panes /\ unserved' \subseteq Panes /\ tail' \in [Panes -> {None, "watcher", "service"}]
    BY <1>17 DEF TypesInv, Unbind, EndUnbind
  <2> QED  BY <1>17, <2>3, <2>4, <2>5 DEF TypesInv, Unbind, source
<1> QED  BY <1>1, <1>2, <1>3, <1>4, <1>5, <1>6, <1>7, <1>8, <1>9, <1>10, <1>11, <1>12, <1>13, <1>14, <1>15, <1>16, <1>17 DEF Next, Agent, Calls, Worker

\* The command the worker takes is the loop's, which waits for its answer, or a change.
LEMMA CommandTaken ==
    ASSUME TypesInv, Conversation, NEW name \in {"register", "stop", "changed"}, Command(name)
    PROVE  /\ name = "changed" =>
                /\ \A c \in Commands : c # Change /\ Carries(queue, c) => Carries(queue', c)
                /\ OnlyChanges(queue) => OnlyChanges(queue')
           /\ name # "changed" => acked = None /\ OnlyChanges(queue')
           /\ name = "register" => loop.call = "await" /\ Head(queue) = RegisterOf(loop.reg)
           /\ name = "stop" => loop.call = "stopping" /\ Head(queue) = StopOf(loop.pane)
<1>1. /\ queue \in Seq(Commands) /\ queue # <<>> /\ queue' = Tail(queue) /\ worker = "running"
      /\ Head(queue) \in Commands /\ Head(queue).command = name
  BY DEF TypesInv, Command
<1>2. name = "changed" <=> Head(queue) = Change  BY <1>1, CommandKinds
<1>3. name = "changed" => /\ \A c \in Commands : c # Change /\ Carries(queue, c) => Carries(queue', c)
                          /\ OnlyChanges(queue) => OnlyChanges(queue')
  BY <1>1, <1>2, ChangesOnly, CarriesOn
<1>4. ASSUME name # "changed"
      PROVE  /\ loop.call = "await" => RegisterOf(loop.reg) \in Commands /\ RegisterOf(loop.reg) # Change
             /\ loop.call = "stopping" => StopOf(loop.pane) \in Commands /\ StopOf(loop.pane) # Change
  BY LoopKinds, CommandsMade DEF TypesInv, RegisterOf, StopOf, Change
<1>5. ASSUME name # "changed"
      PROVE  /\ acked = None
             /\ \/ loop.call = "await" /\ Carries(queue, RegisterOf(loop.reg))
                \/ loop.call = "stopping" /\ Carries(queue, StopOf(loop.pane))
  <2>1. ~OnlyChanges(queue)  BY <1>1, <1>2, <1>5, ChangesOnly
  <2> QED  BY <1>1, <2>1, LoopKinds DEF Conversation, TypesInv
<1>6. ASSUME name # "changed"
      PROVE  /\ OnlyChanges(queue')
             /\ \/ loop.call = "await" /\ Head(queue) = RegisterOf(loop.reg)
                \/ loop.call = "stopping" /\ Head(queue) = StopOf(loop.pane)
  BY <1>1, <1>2, <1>4, <1>5, <1>6, CarriesOn
<1>7. (name = "register" => loop.call = "await") /\ (name = "stop" => loop.call = "stopping")
  BY <1>1, <1>6 DEF RegisterOf, StopOf
<1> QED  BY <1>3, <1>5, <1>6, <1>7

\* Every step keeps what the queue holds.
LEMMA StepConversation ==
    ASSUME TypesInv, Conversation, [Next]_vars
    PROVE  Conversation'
<1>1. ASSUME UNCHANGED vars PROVE Conversation'
  BY <1>1 DEF Conversation, Registered, source, caller, thread, vars
<1>2. ASSUME NEW type \in Types(provider), Write(type) PROVE Conversation'
  BY <1>2 DEF Conversation, Registered, Write, source, caller, thread, vars
<1>3. ASSUME WriteRest PROVE Conversation'
  BY <1>3 DEF Conversation, Registered, WriteRest, source, caller, thread, vars
<1>4. ASSUME Replace PROVE Conversation'
  BY <1>4 DEF Conversation, Registered, Replace, source, caller, thread, vars
<1>5. ASSUME WorkerSender PROVE Conversation'
  <2>1. loop'.call = "send" /\ loop'.pane = loop.pane /\ loop'.reg = loop.reg /\ loop.call = "register"
    BY <1>5, LoopKinds, CallGoesOn DEF TypesInv, WorkerSender
  <2>2. OnlyChanges(<<>>)  BY DEF OnlyChanges
  <2>3. OnlyChanges(queue') /\ acked' = None /\ worker' = "running"
    BY <1>5, <2>1, <2>2 DEF TypesInv, WorkerSender, Conversation, thread
  <2> QED  BY <2>1, <2>3 DEF Conversation
<1>6. ASSUME SendRegister PROVE Conversation'
  <2>1. loop.call = "send" /\ loop.reg \in Registrations /\ OnlyChanges(queue) /\ acked = None /\ loop.reg.pane = loop.pane
    BY <1>6, LoopKinds, CallGoesOn DEF TypesInv, SendRegister, Conversation
  <2>2. loop \in BindCalls  BY <2>1, LoopKinds DEF TypesInv
  <2>3. CASE worker = "gone"
    <3>1. loop' = Rest \/ (loop'.call = "register" /\ loop'.pane = loop.pane /\ loop'.reg = loop.reg)
      <4>1. TryAgain  BY <1>6, <2>3 DEF SendRegister
      <4> QED  BY <4>1, <2>2, TriedAgain
    <3> QED  BY <1>6, <2>1, <2>3, <3>1 DEF SendRegister, Conversation, Rest
  <2>4. CASE worker # "gone"
    <3>1. loop'.call = "await" /\ loop'.pane = loop.pane /\ loop'.reg = loop.reg
      BY <1>6, <2>2, <2>4, Sent
    <3>2. queue' = Append(queue, RegisterOf(loop.reg))  BY <1>6, <2>4 DEF SendRegister, RegisterOf
    <3>3. Carries(queue', RegisterOf(loop.reg))  BY <2>1, <3>2, CarriesNew, CommandsMade DEF TypesInv
    <3> QED  BY <1>6, <2>1, <2>4, <3>1, <3>3 DEF SendRegister, Conversation
  <2> QED  BY <2>3, <2>4
<1>7. ASSUME AwaitRegister PROVE Conversation'
  <2>1. loop.call = "await" /\ loop.reg.pane = loop.pane  BY <1>7 DEF AwaitRegister, Conversation
  <2>2. loop \in BindCalls  BY <2>1, LoopKinds DEF TypesInv
  <2>3. loop' = Rest \/ (loop'.call = "register" /\ loop'.pane = loop.pane /\ loop'.reg = loop.reg)
    BY <1>7, <2>2, Answered
  <2>4. OnlyChanges(<<>>)  BY DEF OnlyChanges
  <2>5. OnlyChanges(queue)  BY <1>7, <2>1, <2>4 DEF AwaitRegister, Conversation
  <2> QED  BY <1>7, <2>1, <2>3, <2>5 DEF AwaitRegister, Conversation, Rest
<1>8. ASSUME AwaitStop PROVE Conversation'
  <2>1. OnlyChanges(<<>>)  BY DEF OnlyChanges
  <2>2. OnlyChanges(queue)  BY <1>8, <2>1 DEF AwaitStop, Conversation
  <2> QED  BY <1>8, <2>2 DEF AwaitStop, EndUnbind, Conversation, Rest
<1>9. ASSUME Reconcile PROVE Conversation'
  BY <1>9 DEF Conversation, Registered, Reconcile, Scan, LeaveWhenIdle, source, caller, thread, vars
<1>10. ASSUME TakeRegister PROVE Conversation'
  <2>1. acked = None /\ OnlyChanges(queue') /\ loop.call = "await" /\ Head(queue) = RegisterOf(loop.reg)
    BY <1>10, CommandTaken DEF TakeRegister
  <2>2. Head(queue).reg = loop.reg /\ loop.reg.pane = loop.pane  BY <2>1 DEF RegisterOf, Conversation
  <2>3. loop.pane \in DOMAIN regs'  BY <1>10, <2>2 DEF TakeRegister
  <2> QED  BY <1>10, <2>1, <2>2, <2>3 DEF TakeRegister, Command, Conversation, Registered, None
<1>11. ASSUME TakeStop PROVE Conversation'
  <2>1. acked = None /\ OnlyChanges(queue') /\ loop.call = "stopping" /\ Head(queue) = StopOf(loop.pane)
    BY <1>11, CommandTaken DEF TakeStop
  <2>2. Head(queue).pane = loop.pane  BY <2>1 DEF StopOf
  <2>3. loop.pane \notin DOMAIN regs' /\ acked' # None
    BY <1>11, <2>2, NotificationAssumption DEF TakeStop, TypesInv, None
  <2> QED  BY <1>11, <2>1, <2>3 DEF TakeStop, Command, LeaveWhenIdle, caller, Conversation, Registered
<1>12. ASSUME TakeChanged PROVE Conversation'
  <2>1. /\ \A c \in Commands : c # Change /\ Carries(queue, c) => Carries(queue', c)
        /\ OnlyChanges(queue) => OnlyChanges(queue')
    BY <1>12, CommandTaken DEF TakeChanged
  <2>2. /\ loop.call = "await" => RegisterOf(loop.reg) \in Commands /\ RegisterOf(loop.reg) # Change
        /\ loop.call = "stopping" => StopOf(loop.pane) \in Commands /\ StopOf(loop.pane) # Change
    BY LoopKinds, CommandsMade DEF TypesInv, RegisterOf, StopOf, Change
  <2>3. DOMAIN regs' = DOMAIN regs  BY <1>12 DEF TakeChanged, Scan, Registered
  <2> QED  BY <1>12, <2>1, <2>2, <2>3 DEF TakeChanged, Command, caller, Conversation, Registered
<1>13. ASSUME Leave PROVE Conversation'
  <2>1. OnlyChanges(<<>>)  BY DEF OnlyChanges
  <2>2. loop.call \in {"rest", "register", "send", "await", "stopping"}  BY LoopKinds DEF TypesInv
  <2> QED  BY <1>13, <2>1, <2>2 DEF Leave, caller, Conversation, Registered
<1>14. ASSUME Callback PROVE Conversation'
  <2>1. \/ queue' = queue
        \/ queue' = Append(queue, Change) /\ worker \in {"running", "leaving"}
    BY <1>14 DEF Callback, Change
  <2>2. /\ loop.call = "await" => RegisterOf(loop.reg) \in Commands /\ RegisterOf(loop.reg) # Change
        /\ loop.call = "stopping" => StopOf(loop.pane) \in Commands /\ StopOf(loop.pane) # Change
    BY LoopKinds, CommandsMade DEF TypesInv, RegisterOf, StopOf, Change
  <2>3. /\ \A c \in Commands : c # Change /\ Carries(queue, c) => Carries(queue', c)
        /\ OnlyChanges(queue) => OnlyChanges(queue')
    BY ZenonT(30), <2>1, CarriesOn, ChangesOnly DEF TypesInv
  <2> QED  BY <1>14, <2>1, <2>2, <2>3 DEF Callback, caller, Conversation, Registered
<1>15. ASSUME TimePasses PROVE Conversation'
  BY <1>15 DEF Conversation, Registered, TimePasses, source, caller, thread, vars
<1>16. ASSUME NEW p \in Panes, Bind(p) PROVE Conversation'
  <2>1. loop.call = "rest" /\ loop'.call = "register" /\ loop'.pane = p /\ loop'.reg.pane = p
    BY <1>16 DEF Bind, Rest, NewRegistration
  <2> QED  BY <1>16, <2>1 DEF Bind, thread, Conversation
<1>17. ASSUME NEW p \in Panes, Unbind(p) PROVE Conversation'
  <2>1. loop.call = "rest" /\ OnlyChanges(queue) /\ acked = None  BY <1>17 DEF Unbind, Rest, Conversation
  <2>2. CASE worker \in {"none", "gone"}
    BY <1>17, <2>1, <2>2 DEF Unbind, EndUnbind, Conversation, Rest
  <2>3. CASE worker \notin {"none", "gone"}
    <3>1. queue' = Append(queue, StopOf(p)) /\ loop'.call = "stopping" /\ loop'.pane = p
      BY <1>17, <2>3 DEF Unbind, StopOf
    <3>2. Carries(queue', StopOf(p))  BY <2>1, <3>1, CarriesNew, CommandsMade DEF TypesInv
    <3> QED  BY <1>17, <2>1, <2>3, <3>1, <3>2 DEF Unbind, Conversation
  <2> QED  BY <2>2, <2>3
<1> QED  BY <1>1, <1>2, <1>3, <1>4, <1>5, <1>6, <1>7, <1>8, <1>9, <1>10, <1>11, <1>12, <1>13, <1>14, <1>15, <1>16, <1>17 DEF Next, Agent, Calls, Worker

\* Every step keeps bound panes served.
LEMMA StepServed ==
    ASSUME TypesInv, Conversation, BoundIsServed, [Next]_vars
    PROVE  BoundIsServed'
<1>1. ASSUME UNCHANGED vars PROVE BoundIsServed'
  BY <1>1 DEF BoundIsServed, Conversation, Registered, source, caller, thread, vars
<1>2. ASSUME NEW type \in Types(provider), Write(type) PROVE BoundIsServed'
  BY <1>2 DEF BoundIsServed, Conversation, Registered, Write, source, caller, thread, vars
<1>3. ASSUME WriteRest PROVE BoundIsServed'
  BY <1>3 DEF BoundIsServed, Conversation, Registered, WriteRest, source, caller, thread, vars
<1>4. ASSUME Replace PROVE BoundIsServed'
  BY <1>4 DEF BoundIsServed, Conversation, Registered, Replace, source, caller, thread, vars
<1>5. ASSUME WorkerSender PROVE BoundIsServed'
  BY <1>5 DEF BoundIsServed, Conversation, Registered, WorkerSender, source, caller, thread, vars
<1>6. ASSUME SendRegister PROVE BoundIsServed'
  BY <1>6 DEF BoundIsServed, Conversation, Registered, SendRegister, TryAgain, EndBind, source, caller, thread, vars
<1>7. ASSUME AwaitRegister PROVE BoundIsServed'
  BY <1>7 DEF BoundIsServed, Conversation, Registered, AwaitRegister, TryAgain, EndBind, source, caller, thread, vars
<1>8. ASSUME AwaitStop PROVE BoundIsServed'
  BY <1>8 DEF BoundIsServed, Conversation, Registered, AwaitStop, EndUnbind, source, caller, thread, vars
<1>9. ASSUME Reconcile PROVE BoundIsServed'
  BY <1>9 DEF BoundIsServed, Conversation, Registered, Reconcile, Scan, LeaveWhenIdle, source, caller, thread, vars
<1>10. ASSUME TakeRegister PROVE BoundIsServed'
  BY <1>10 DEF BoundIsServed, Conversation, Registered, TakeRegister, Command, source, caller, thread, vars
<1>11. ASSUME TakeStop PROVE BoundIsServed'
  <2>1. loop.call = "stopping" /\ Head(queue) = StopOf(loop.pane)  BY <1>11, CommandTaken DEF TakeStop
  <2>2. Head(queue).pane = loop.pane  BY <2>1 DEF StopOf
  <2>3. DOMAIN regs' = Registered \ {loop.pane}  BY <1>11, <2>2 DEF TakeStop
  <2> QED  BY <1>11, <2>1, <2>3 DEF TakeStop, LeaveWhenIdle, caller, BoundIsServed, Registered
<1>12. ASSUME TakeChanged PROVE BoundIsServed'
  BY <1>12 DEF BoundIsServed, Conversation, Registered, TakeChanged, Command, Scan, source, caller, thread, vars
<1>13. ASSUME Leave PROVE BoundIsServed'
  BY <1>13 DEF BoundIsServed, Conversation, Registered, Leave, source, caller, thread, vars
<1>14. ASSUME Callback PROVE BoundIsServed'
  BY <1>14 DEF BoundIsServed, Conversation, Registered, Callback, source, caller, thread, vars
<1>15. ASSUME TimePasses PROVE BoundIsServed'
  BY <1>15 DEF BoundIsServed, Conversation, Registered, TimePasses, source, caller, thread, vars
<1>16. ASSUME NEW p \in Panes, Bind(p) PROVE BoundIsServed'
  <2>1. loop.call = "rest"  BY <1>16 DEF Bind, Rest
  <2> QED  BY <1>16, <2>1 DEF Bind, thread, BoundIsServed, Registered
<1>17. ASSUME NEW p \in Panes, Unbind(p) PROVE BoundIsServed'
  <2>1. loop.call = "rest"  BY <1>17 DEF Unbind, Rest
  <2>2. UNCHANGED <<worker, regs>>  BY <1>17 DEF Unbind
  <2>3. CASE worker \in {"none", "gone"}
    BY <1>17, <2>1, <2>2, <2>3 DEF Unbind, EndUnbind, BoundIsServed, Registered
  <2>4. CASE worker \notin {"none", "gone"}
    <3>1. loop'.call = "stopping" /\ loop'.pane = p /\ UNCHANGED <<bound, unserved>>
      BY <1>17, <2>4 DEF Unbind
    <3> QED  BY <2>1, <2>2, <3>1 DEF BoundIsServed, Registered
  <2> QED  BY <2>3, <2>4
<1> QED  BY <1>1, <1>2, <1>3, <1>4, <1>5, <1>6, <1>7, <1>8, <1>9, <1>10, <1>11, <1>12, <1>13, <1>14, <1>15, <1>16, <1>17 DEF Next, Agent, Calls, Worker

\* Every step keeps tails those of panes bound or being bound.
LEMMA StepTails ==
    ASSUME TypesInv, Conversation, ServiceTails, TailsAreBound, [Next]_vars
    PROVE  TailsAreBound'
<1>1. ASSUME UNCHANGED vars PROVE TailsAreBound'
  BY <1>1 DEF TypesInv, TailsAreBound, source, caller, thread, vars
<1>2. ASSUME NEW type \in Types(provider), Write(type) PROVE TailsAreBound'
  BY <1>2 DEF TypesInv, TailsAreBound, Write, source, caller, thread, vars
<1>3. ASSUME WriteRest PROVE TailsAreBound'
  BY <1>3 DEF TypesInv, TailsAreBound, WriteRest, source, caller, thread, vars
<1>4. ASSUME Replace PROVE TailsAreBound'
  BY <1>4 DEF TypesInv, TailsAreBound, Replace, source, caller, thread, vars
<1>5. ASSUME WorkerSender PROVE TailsAreBound'
  BY <1>5 DEF TypesInv, TailsAreBound, WorkerSender, source, caller, thread, vars
<1>6. ASSUME SendRegister PROVE TailsAreBound'
  <2>1. loop.call # "rest" /\ loop.pane \in Panes /\ tail' = tail  BY <1>6, LoopKinds DEF TypesInv, SendRegister
  <2>2. \/ loop' = Rest /\ bound' = bound \cup {loop.pane}
        \/ loop'.call # "rest" /\ loop'.pane = loop.pane /\ bound' = bound
    <3>1. loop.call = "send" /\ loop \in BindCalls  BY <1>6, LoopKinds DEF TypesInv, SendRegister
    <3>2. CASE worker = "gone"
      <4>1. TryAgain  BY <1>6, <3>2 DEF SendRegister
      <4> QED  BY <3>1, <4>1, TriedAgain
    <3>3. CASE worker # "gone"  BY <1>6, <3>1, <3>3, Sent
    <3> QED  BY <3>2, <3>3
  <2> QED  BY <2>1, <2>2 DEF TailsAreBound
<1>7. ASSUME AwaitRegister PROVE TailsAreBound'
  <2>1. loop.call # "rest" /\ loop.pane \in Panes /\ tail' = tail  BY <1>7, LoopKinds DEF TypesInv, AwaitRegister
  <2>2. \/ loop' = Rest /\ bound' = bound \cup {loop.pane}
        \/ loop'.call # "rest" /\ loop'.pane = loop.pane /\ bound' = bound
    <3>1. loop \in BindCalls  BY <1>7, LoopKinds DEF TypesInv, AwaitRegister
    <3> QED  BY <1>7, <3>1, Answered
  <2> QED  BY <2>1, <2>2 DEF TailsAreBound
<1>8. ASSUME AwaitStop PROVE TailsAreBound'
  <2>1. loop.call = "stopping" /\ loop.pane \in Panes  BY <1>8, LoopKinds DEF TypesInv, AwaitStop
  <2>2. /\ loop' = Rest /\ bound' = bound \ {loop.pane}
        /\ tail' = [tail EXCEPT ![loop.pane] = IF acked \in {None, "kimi"} \/ @ = "watcher" THEN None ELSE @]
    BY <1>8 DEF AwaitStop, EndUnbind
  <2>3. tail'[loop.pane] = None
    <3>1. SUFFICES ASSUME tail[loop.pane] = "service" PROVE acked \in {None, "kimi"}
      BY <2>1, <2>2 DEF TypesInv
    <3> QED  BY <2>1, <3>1 DEF ServiceTails, Conversation
  <2>4. \A q \in Panes : q # loop.pane => tail'[q] = tail[q]  BY <2>2 DEF TypesInv
  <2> QED  BY <2>1, <2>2, <2>3, <2>4 DEF TailsAreBound
<1>9. ASSUME Reconcile PROVE TailsAreBound'
  BY <1>9 DEF TypesInv, TailsAreBound, Reconcile, Scan, LeaveWhenIdle, source, caller, thread, vars
<1>10. ASSUME TakeRegister PROVE TailsAreBound'
  <2>1. loop.call = "await" /\ Head(queue) = RegisterOf(loop.reg)  BY <1>10, CommandTaken DEF TakeRegister
  <2>2. Head(queue).reg = loop.reg /\ loop.reg.pane = loop.pane  BY <2>1 DEF RegisterOf, Conversation
  <2>3. \A q \in Panes : q # loop.pane => tail'[q] = tail[q]  BY <1>10, <2>2 DEF TakeRegister, TypesInv
  <2> QED  BY <1>10, <2>1, <2>3 DEF TakeRegister, TailsAreBound
<1>11. ASSUME TakeStop PROVE TailsAreBound'
  BY <1>11 DEF TypesInv, TailsAreBound, TakeStop, Command, LeaveWhenIdle, source, caller, thread, vars
<1>12. ASSUME TakeChanged PROVE TailsAreBound'
  BY <1>12 DEF TypesInv, TailsAreBound, TakeChanged, Command, Scan, source, caller, thread, vars
<1>13. ASSUME Leave PROVE TailsAreBound'
  BY <1>13 DEF TypesInv, TailsAreBound, Leave, source, caller, thread, vars
<1>14. ASSUME Callback PROVE TailsAreBound'
  BY <1>14 DEF TypesInv, TailsAreBound, Callback, source, caller, thread, vars
<1>15. ASSUME TimePasses PROVE TailsAreBound'
  BY <1>15 DEF TypesInv, TailsAreBound, TimePasses, source, caller, thread, vars
<1>16. ASSUME NEW p \in Panes, Bind(p) PROVE TailsAreBound'
  <2>1. loop.call = "rest" /\ loop'.call = "register" /\ loop'.pane = p  BY <1>16 DEF Bind, Rest
  <2>2. bound' = bound /\ \A q \in Panes : q # p => tail'[q] = tail[q]  BY <1>16 DEF Bind, TypesInv
  <2> QED  BY <2>1, <2>2 DEF TailsAreBound
<1>17. ASSUME NEW p \in Panes, Unbind(p) PROVE TailsAreBound'
  <2>1. loop.call = "rest"  BY <1>17 DEF Unbind, Rest
  <2>2. CASE worker \in {"none", "gone"}
    BY <1>17, <2>1, <2>2 DEF Unbind, EndUnbind, TypesInv, TailsAreBound, Rest
  <2>3. CASE worker \notin {"none", "gone"}
    BY <1>17, <2>1, <2>3 DEF Unbind, TailsAreBound
  <2> QED  BY <2>2, <2>3
<1> QED  BY <1>1, <1>2, <1>3, <1>4, <1>5, <1>6, <1>7, <1>8, <1>9, <1>10, <1>11, <1>12, <1>13, <1>14, <1>15, <1>16, <1>17 DEF Next, Agent, Calls, Worker

\* Every step keeps the tails of the service.
LEMMA StepService ==
    ASSUME TypesInv, Conversation, ServiceTails, [Next]_vars
    PROVE  ServiceTails'
<1>1. ASSUME UNCHANGED vars PROVE ServiceTails'
  BY <1>1 DEF TypesInv, ServiceTails, Registered, Conversation, source, caller, thread, vars
<1>2. ASSUME NEW type \in Types(provider), Write(type) PROVE ServiceTails'
  BY <1>2 DEF TypesInv, ServiceTails, Registered, Conversation, Write, source, caller, thread, vars
<1>3. ASSUME WriteRest PROVE ServiceTails'
  BY <1>3 DEF TypesInv, ServiceTails, Registered, Conversation, WriteRest, source, caller, thread, vars
<1>4. ASSUME Replace PROVE ServiceTails'
  BY <1>4 DEF TypesInv, ServiceTails, Registered, Conversation, Replace, source, caller, thread, vars
<1>5. ASSUME WorkerSender PROVE ServiceTails'
  BY <1>5 DEF TypesInv, ServiceTails, Registered, Conversation, WorkerSender, source, caller, thread, vars
<1>6. ASSUME SendRegister PROVE ServiceTails'
  BY <1>6 DEF TypesInv, ServiceTails, Registered, Conversation, SendRegister, TryAgain, EndBind, source, caller, thread, vars
<1>7. ASSUME AwaitRegister PROVE ServiceTails'
  BY <1>7 DEF TypesInv, ServiceTails, Registered, Conversation, AwaitRegister, TryAgain, EndBind, source, caller, thread, vars
<1>8. ASSUME AwaitStop PROVE ServiceTails'
  <2>1. loop.call = "stopping" /\ loop.pane \in Panes  BY <1>8, LoopKinds DEF TypesInv, AwaitStop
  <2>2. tail' = [tail EXCEPT ![loop.pane] = IF acked \in {None, "kimi"} \/ @ = "watcher" THEN None ELSE @]
    BY <1>8 DEF AwaitStop, EndUnbind
  <2>3. tail'[loop.pane] # "service"
    <3>1. SUFFICES ASSUME tail[loop.pane] = "service" PROVE acked \in {None, "kimi"}
      BY <2>1, <2>2 DEF TypesInv, None
    <3> QED  BY <2>1, <3>1 DEF ServiceTails, Conversation
  <2>4. \A q \in Panes : q # loop.pane => tail'[q] = tail[q]  BY <2>2 DEF TypesInv
  <2>5. UNCHANGED <<provider, worker, regs>>  BY <1>8 DEF AwaitStop, source
  <2> QED  BY <2>1, <2>3, <2>4, <2>5 DEF ServiceTails, Registered
<1>9. ASSUME Reconcile PROVE ServiceTails'
  BY <1>9 DEF TypesInv, ServiceTails, Registered, Conversation, Reconcile, Scan, LeaveWhenIdle, source, caller, thread, vars
<1>10. ASSUME TakeRegister PROVE ServiceTails'
  <2>1. loop.call = "await" /\ Head(queue) = RegisterOf(loop.reg)  BY <1>10, CommandTaken DEF TakeRegister
  <2>2. Head(queue).reg = loop.reg /\ loop.reg.pane = loop.pane  BY <2>1 DEF RegisterOf, Conversation
  <2>3. DOMAIN regs' = DOMAIN regs \cup {loop.pane} /\ worker = "running" /\ UNCHANGED <<provider, worker>>
    BY <1>10, <2>2 DEF TakeRegister, Registered, Command, source
  <2>4. \A q \in Panes : tail'[q] = IF q = loop.pane /\ provider = "kimi" THEN "service" ELSE tail[q]
    BY <1>10, <2>2 DEF TakeRegister, TypesInv
  <2> QED  BY <2>1, <2>3, <2>4 DEF ServiceTails, Registered
<1>11. ASSUME TakeStop PROVE ServiceTails'
  <2>1. loop.call = "stopping" /\ Head(queue) = StopOf(loop.pane) /\ acked = None
    BY <1>11, CommandTaken DEF TakeStop
  <2>2. Head(queue).pane = loop.pane  BY <2>1 DEF StopOf
  <2>3. DOMAIN regs' = DOMAIN regs \ {loop.pane} /\ (loop.pane \in DOMAIN regs => acked' = provider)
    BY <1>11, <2>2 DEF TakeStop, Registered
  <2>4. UNCHANGED <<provider, tail, loop>>  BY <1>11 DEF TakeStop, source, caller
  <2>5. worker' = IF DOMAIN regs \ {loop.pane} = {} THEN "leaving" ELSE worker
    BY <1>11, <2>2 DEF TakeStop, LeaveWhenIdle, Registered
  <2> QED  BY <2>1, <2>3, <2>4, <2>5 DEF ServiceTails, Registered, None
<1>12. ASSUME TakeChanged PROVE ServiceTails'
  BY <1>12 DEF TypesInv, ServiceTails, Registered, Conversation, TakeChanged, Command, Scan, source, caller, thread, vars
<1>13. ASSUME Leave PROVE ServiceTails'
  BY <1>13 DEF TypesInv, ServiceTails, Registered, Conversation, Leave, source, caller, thread, vars
<1>14. ASSUME Callback PROVE ServiceTails'
  BY <1>14 DEF TypesInv, ServiceTails, Registered, Conversation, Callback, source, caller, thread, vars
<1>15. ASSUME TimePasses PROVE ServiceTails'
  BY <1>15 DEF TypesInv, ServiceTails, Registered, Conversation, TimePasses, source, caller, thread, vars
<1>16. ASSUME NEW p \in Panes, Bind(p) PROVE ServiceTails'
  <2>1. loop.call = "rest" /\ UNCHANGED <<provider, worker, regs>>  BY <1>16 DEF Bind, Rest, source, thread
  <2>2. \A q \in Panes : tail'[q] = IF q = p THEN "watcher" ELSE tail[q]  BY <1>16 DEF Bind, TypesInv
  <2> QED  BY <2>1, <2>2 DEF ServiceTails, Registered
<1>17. ASSUME NEW p \in Panes, Unbind(p) PROVE ServiceTails'
  <2>1. loop.call = "rest" /\ UNCHANGED <<provider, worker, regs>>  BY <1>17 DEF Unbind, Rest, source
  <2>2. \A q \in Panes : tail'[q] \in {None, tail[q]}  BY <1>17 DEF Unbind, EndUnbind, TypesInv
  <2> QED  BY <2>1, <2>2 DEF ServiceTails, Registered, None
<1> QED  BY <1>1, <1>2, <1>3, <1>4, <1>5, <1>6, <1>7, <1>8, <1>9, <1>10, <1>11, <1>12, <1>13, <1>14, <1>15, <1>16, <1>17 DEF Next, Agent, Calls, Worker

-----------------------------------------------------------------------------
(* The theorem.                                                            *)

\* The invariant holds in the initial states.
LEMMA InitInv == Init => IInv
<1> SUFFICES ASSUME Init PROVE IInv  OBVIOUS
<1>1. DOMAIN regs = {}  BY DEF Init, NoRegistrations
<1>2. <<>> \in Seq(FileLines) /\ <<>> \in Seq(Commands)  OBVIOUS
<1>3. TypesInv  BY <1>1, <1>2, CallsMade DEF Init, TypesInv
<1>4. OnlyChanges(<<>>)  BY DEF OnlyChanges
<1>5. Conversation  BY <1>4 DEF Init, Conversation, Rest
<1>6. BoundIsServed /\ TailsAreBound /\ ServiceTails
  BY DEF Init, BoundIsServed, TailsAreBound, ServiceTails, None
<1> QED  BY <1>3, <1>5, <1>6 DEF IInv

\* A bound pane is registered with a worker that runs, although the worker leaves by
\* itself and a call may meet one that is leaving, and a pane that is not bound has no
\* transcript tail, whoever it belonged to (agent/notification.rs register and stop,
\* worker_loop; agents/sidecar.rs).
THEOREM PanesAreServed == Spec => []ServedWhileBound
<1>1. IInv /\ [Next]_vars => IInv'
  BY StepTypes, StepConversation, StepServed, StepTails, StepService DEF IInv
<1>2. IInv => ServedWhileBound
  BY DEF IInv, ServedWhileBound, NoTailLeft, TailsAreBound, Rest
<1> QED  BY InitInv, <1>1, <1>2, PTL DEF Spec

\* A set of numbers has a least one.
LEMMA LeastOf ==
    ASSUME NEW S \in SUBSET Nat, S # {}
    PROVE  \E m \in S : \A k \in S : m <= k
<1>. DEFINE R == OpToRel(<, Nat)
<1>1. IsWellFoundedOn(R, Nat)
  BY NatLessThanWellFounded
<1>2. \A x, y \in Nat : x < y => <<x, y>> \in R
  BY DEF OpToRel
<1>. HIDE DEF R
<1>3. PICK m \in S : \A k \in S : ~(<<k, m>> \in R)
  BY <1>1, WFMin
<1>4. ASSUME NEW k \in S PROVE m <= k
  <2>1. k \in Nat /\ m \in Nat
    OBVIOUS
  <2>2. ~(k < m)
    BY <1>2, <1>3, <2>1, Zenon
  <2> QED
    BY <2>1, <2>2
<1> QED
  BY <1>4

\* Numbers from 0 on, each with the next one, are all of them.
LEMMA AllNumbers ==
    ASSUME NEW S \in SUBSET Nat, 0 \in S, \A n \in S : n + 1 \in S
    PROVE  S = Nat
<1>1. SUFFICES ASSUME Nat \ S # {} PROVE FALSE
  OBVIOUS
<1>2. PICK m \in Nat \ S : \A k \in Nat \ S : m <= k
  BY <1>1, LeastOf
<1>3. m # 0 /\ m - 1 \in S
  BY <1>2
<1> QED
  BY <1>2, <1>3


\* A registration's parts, and what it tells.
Fields == {"pane", "generation", "cursor", "partial", "active", "turn", "body", "pending", "read", "keys", "out"}
Reasons == {"turn-complete", "agent-error", "approval-requested", "question-requested"}
Notes == [reason : Reasons, turn : Nat, ends : BOOLEAN, body : Nat]

\* A registration whose parts have their kinds.
Shaped(r) ==
    /\ DOMAIN r = Fields
    /\ r.partial \in BOOLEAN /\ r.active \in BOOLEAN /\ r.body \in Nat /\ r.read \in Nat
    /\ r.pending \in Seq(FileLines) /\ r.out \in Seq(Notes)

\* A notification of a line.
Noticed(prov, l, sig) ==
    /\ sig.reason \in Reasons /\ sig.of = l.turn /\ sig.id = l.id
    /\ sig.needsTurn \in BOOLEAN /\ sig.endsTurn \in BOOLEAN /\ sig.body \in {NoText, l.turn}
    /\ prov = "opencode" => sig.key = <<>> /\ sig.needsTurn = sig.endsTurn
    /\ prov = "claude" /\ sig.endsTurn =>
         \/ sig.reason = "agent-error" /\ sig.body = l.turn
         \/ sig.reason = "turn-complete" /\ sig.needsTurn /\ l.type = "Stop"
    /\ prov = "codex" /\ sig.endsTurn => l.type = "task_complete" /\ sig.body = l.turn

\* A line of this provider's.
LineOf(prov, l) ==
    /\ l \in FileLines /\ l.type \in Types(prov)
    /\ prov # "codex" => l.id = NoTurn
    /\ l.key # <<>> => l.type = "approval_request"

\* What a line is classified as.
Signals(prov, l, sig) ==
    \/ sig.signal = "Irrelevant" /\ l.type \notin Starts
    \/ sig.signal = "TurnStarted" /\ sig.id = l.id /\ l.type \in Starts
    \/ sig.signal = "AssistantText" /\ prov = "opencode" /\ sig.text = l.turn /\ l.type \notin Starts
    \/ sig.signal = "StatusIdle" /\ prov = "opencode" /\ sig.line = l /\ l.type \notin Starts
    \/ sig.signal = "TurnEnded" /\ prov = "codex" /\ l.type \notin Starts
    \/ sig.signal = "Notification" /\ l.type \notin Starts /\ Noticed(prov, l, sig)

\* What becomes of a line of Codex's,
LEMMA ClassifiedCodex ==
    ASSUME NEW l, LineOf("codex", l)
    PROVE  Signals("codex", l, classify_codex(l))
<1>1. l.turn \in Nat
  BY DEF LineOf, FileLines
<1>2. CASE l.type = "task_started"
  BY <1>2 DEF classify_codex, TurnStarted, Signals, Starts
<1>3. CASE l.type = "task_complete"
  <2>. DEFINE key == IF l.id = NoTurn THEN <<>> ELSE <<"turn", l.id>>
              note == Notice("turn-complete", l, key, FALSE, TRUE)
              sig == [note EXCEPT !.body = l.turn]
  <2>1. classify_codex(l) = sig
    BY <1>3 DEF classify_codex
  <2>. HIDE DEF key
  <2>2. /\ sig.signal = "Notification" /\ sig.reason = "turn-complete" /\ sig.of = l.turn /\ sig.id = l.id
        /\ sig.needsTurn = FALSE /\ sig.endsTurn = TRUE /\ sig.body = l.turn
    BY DEF Notice
  <2>. HIDE DEF sig
  <2>3. Noticed("codex", l, sig)
    BY <1>3, <2>2 DEF Noticed, Reasons
  <2> QED
    BY <1>3, <2>1, <2>2, <2>3 DEF Signals, Starts
<1>4. CASE l.type = "turn_aborted"
  BY <1>4 DEF classify_codex, Signals, Starts
<1>5. ASSUME NEW reason \in Reasons, l.type \notin Starts, classify_codex(l) = Notice(reason, l, l.key, FALSE, FALSE)
      PROVE  Signals("codex", l, classify_codex(l))
  <2>. DEFINE sig == Notice(reason, l, l.key, FALSE, FALSE)
  <2>1. /\ sig.signal = "Notification" /\ sig.reason = reason /\ sig.of = l.turn /\ sig.id = l.id
        /\ sig.needsTurn = FALSE /\ sig.endsTurn = FALSE /\ sig.body = NoText
    BY DEF Notice
  <2>. HIDE DEF sig
  <2>2. Noticed("codex", l, sig)
    BY <1>5, <2>1 DEF Noticed
  <2> QED
    BY <1>5, <2>1, <2>2 DEF Signals, sig
<1>6. CASE l.type = "approval_request"
  <2>1. classify_codex(l) = Notice("approval-requested", l, l.key, FALSE, FALSE)
    BY <1>6 DEF classify_codex
  <2> QED
    BY <1>5, <1>6, <2>1 DEF Starts, Reasons
<1>7. CASE l.type \in {"request_user_input", "elicitation_request"}
  <2>1. classify_codex(l) = Notice("question-requested", l, l.key, FALSE, FALSE)
    BY <1>7 DEF classify_codex
  <2> QED
    BY <1>5, <1>7, <2>1 DEF Starts, Reasons
<1>8. CASE l.type \in {"other", "oversize"}
  <2>1. classify_codex(l).signal = "Irrelevant"
    BY <1>8 DEF classify_codex, Irrelevant
  <2>2. l.type \notin Starts
    BY <1>8 DEF Starts
  <2> QED
    BY <2>1, <2>2 DEF Signals
<1> QED
  BY <1>2, <1>3, <1>4, <1>6, <1>7, <1>8, TypesAssumption DEF LineOf, TypesAssumption

\* of Claude's,
LEMMA ClassifiedClaude ==
    ASSUME NEW l, LineOf("claude", l)
    PROVE  Signals("claude", l, classify_claude(l))
<1>1. l.turn \in Nat /\ l.key = <<>>
  BY TypesAssumption DEF LineOf, FileLines, TypesAssumption
<1>2. CASE l.type = "UserPromptSubmit"
  BY <1>2 DEF classify_claude, TurnStarted, Signals, Starts
<1>3. CASE l.type = "Stop"
  <2>. DEFINE sig == Notice("turn-complete", l, l.key, TRUE, TRUE)
  <2>1. classify_claude(l) = sig
    BY <1>3 DEF classify_claude
  <2>2. /\ sig.signal = "Notification" /\ sig.reason = "turn-complete" /\ sig.of = l.turn /\ sig.id = l.id
        /\ sig.needsTurn = TRUE /\ sig.endsTurn = TRUE /\ sig.body = NoText
    BY DEF Notice
  <2>. HIDE DEF sig
  <2>3. Noticed("claude", l, sig)
    BY <1>3, <2>2 DEF Noticed, Reasons
  <2> QED
    BY <1>3, <2>1, <2>2, <2>3 DEF Signals, Starts
<1>4. CASE l.type = "StopFailure"
  <2>. DEFINE note == Notice("agent-error", l, l.key, FALSE, TRUE)
              sig == [note EXCEPT !.body = l.turn]
  <2>1. classify_claude(l) = sig
    BY <1>4 DEF classify_claude
  <2>2. /\ sig.signal = "Notification" /\ sig.reason = "agent-error" /\ sig.of = l.turn /\ sig.id = l.id
        /\ sig.needsTurn = FALSE /\ sig.endsTurn = TRUE /\ sig.body = l.turn
    BY DEF Notice
  <2>. HIDE DEF sig
  <2>3. Noticed("claude", l, sig)
    BY <1>4, <2>2 DEF Noticed, Reasons
  <2> QED
    BY <1>4, <2>1, <2>2, <2>3 DEF Signals, Starts
<1>5. ASSUME NEW reason \in Reasons, l.type \notin Starts, classify_claude(l) = Notice(reason, l, l.key, FALSE, FALSE)
      PROVE  Signals("claude", l, classify_claude(l))
  <2>. DEFINE sig == Notice(reason, l, l.key, FALSE, FALSE)
  <2>1. /\ sig.signal = "Notification" /\ sig.reason = reason /\ sig.of = l.turn /\ sig.id = l.id
        /\ sig.needsTurn = FALSE /\ sig.endsTurn = FALSE /\ sig.body = NoText
    BY DEF Notice
  <2>. HIDE DEF sig
  <2>2. Noticed("claude", l, sig)
    BY <1>5, <2>1 DEF Noticed
  <2> QED
    BY <1>5, <2>1, <2>2 DEF Signals, sig
<1>6. CASE l.type = "PermissionRequest"
  <2>1. classify_claude(l) = Notice("approval-requested", l, l.key, FALSE, FALSE)
    BY <1>6 DEF classify_claude
  <2> QED
    BY <1>5, <1>6, <2>1 DEF Starts, Reasons
<1>7. CASE l.type = "AskUserQuestion"
  <2>1. classify_claude(l) = Notice("question-requested", l, l.key, FALSE, FALSE)
    BY <1>7 DEF classify_claude
  <2> QED
    BY <1>5, <1>7, <2>1 DEF Starts, Reasons
<1>8. CASE l.type \in {"other", "oversize"}
  <2>1. classify_claude(l).signal = "Irrelevant"
    BY <1>8 DEF classify_claude, Irrelevant
  <2>2. l.type \notin Starts
    BY <1>8 DEF Starts
  <2> QED
    BY <2>1, <2>2 DEF Signals
<1> QED
  BY <1>2, <1>3, <1>4, <1>6, <1>7, <1>8, TypesAssumption DEF LineOf, TypesAssumption

\* and of OpenCode's.
LEMMA ClassifiedOpenCode ==
    ASSUME NEW l, LineOf("opencode", l)
    PROVE  Signals("opencode", l, classify_opencode(l))
<1>1. l.turn \in Nat /\ l.key = <<>>
  BY TypesAssumption DEF LineOf, FileLines, TypesAssumption
<1>2. CASE l.type = "status busy"
  BY <1>2 DEF classify_opencode, TurnStarted, Signals, Starts
<1>3. CASE l.type = "status idle"
  BY <1>3 DEF classify_opencode, Signals, Starts
<1>4. CASE l.type = "assistant.text"
  BY <1>4 DEF classify_opencode, Text, Signals, Starts
<1>5. CASE l.type = "session.idle"
  <2>. DEFINE sig == Notice("turn-complete", l, <<>>, TRUE, TRUE)
  <2>1. classify_opencode(l) = sig
    BY <1>5 DEF classify_opencode
  <2>2. /\ sig.signal = "Notification" /\ sig.reason = "turn-complete" /\ sig.of = l.turn /\ sig.id = l.id
        /\ sig.needsTurn = TRUE /\ sig.endsTurn = TRUE /\ sig.body = NoText /\ sig.key = <<>>
    BY DEF Notice
  <2>. HIDE DEF sig
  <2>3. Noticed("opencode", l, sig)
    BY <1>5, <2>2 DEF Noticed, Reasons
  <2> QED
    BY <1>5, <2>1, <2>2, <2>3 DEF Signals, Starts
<1>6. CASE l.type = "session.error"
  <2>. DEFINE note == Notice("agent-error", l, l.key, TRUE, TRUE)
              sig == [note EXCEPT !.body = l.turn]
  <2>1. classify_opencode(l) = sig
    BY <1>6 DEF classify_opencode
  <2>2. /\ sig.signal = "Notification" /\ sig.reason = "agent-error" /\ sig.of = l.turn /\ sig.id = l.id
        /\ sig.needsTurn = TRUE /\ sig.endsTurn = TRUE /\ sig.body = l.turn /\ sig.key = <<>>
    BY <1>1 DEF Notice
  <2>. HIDE DEF sig
  <2>3. Noticed("opencode", l, sig)
    BY <1>6, <2>2 DEF Noticed, Reasons
  <2> QED
    BY <1>6, <2>1, <2>2, <2>3 DEF Signals, Starts
<1>7. ASSUME NEW reason \in Reasons, l.type \notin Starts, classify_opencode(l) = Notice(reason, l, l.key, FALSE, FALSE)
      PROVE  Signals("opencode", l, classify_opencode(l))
  <2>. DEFINE sig == Notice(reason, l, l.key, FALSE, FALSE)
  <2>1. /\ sig.signal = "Notification" /\ sig.reason = reason /\ sig.of = l.turn /\ sig.id = l.id
        /\ sig.needsTurn = FALSE /\ sig.endsTurn = FALSE /\ sig.body = NoText /\ sig.key = <<>>
    BY <1>1 DEF Notice
  <2>. HIDE DEF sig
  <2>2. Noticed("opencode", l, sig)
    BY <1>7, <2>1 DEF Noticed
  <2> QED
    BY <1>7, <2>1, <2>2 DEF Signals, sig
<1>8. CASE l.type = "permission.asked"
  <2>1. classify_opencode(l) = Notice("approval-requested", l, l.key, FALSE, FALSE)
    BY <1>8 DEF classify_opencode
  <2> QED
    BY <1>7, <1>8, <2>1 DEF Starts, Reasons
<1>9. CASE l.type = "question.asked"
  <2>1. classify_opencode(l) = Notice("question-requested", l, l.key, FALSE, FALSE)
    BY <1>9 DEF classify_opencode
  <2> QED
    BY <1>7, <1>9, <2>1 DEF Starts, Reasons
<1>10. CASE l.type \in {"other", "oversize"}
  <2>1. classify_opencode(l).signal = "Irrelevant"
    BY <1>10 DEF classify_opencode, Irrelevant
  <2>2. l.type \notin Starts
    BY <1>10 DEF Starts
  <2> QED
    BY <2>1, <2>2 DEF Signals
<1> QED
  BY <1>2, <1>3, <1>4, <1>5, <1>6, <1>8, <1>9, <1>10, TypesAssumption DEF LineOf, TypesAssumption

\* What each provider's line is classified as.
LEMMA Classified ==
    ASSUME NEW prov \in {"codex", "claude", "opencode"}, NEW l, LineOf(prov, l)
    PROVE  Signals(prov, l, classify(prov, l))
<1>1. CASE prov = "codex"
  BY <1>1, ClassifiedCodex DEF classify
<1>2. CASE prov = "claude"
  BY <1>2, ClassifiedClaude DEF classify
<1>3. CASE prov = "opencode"
  BY <1>3, ClassifiedOpenCode DEF classify
<1> QED
  BY <1>1, <1>2, <1>3

\* The keys remembered once key is.
Remembered(keys, key) ==
    IF key = <<>> THEN keys ELSE Append(IF Len(keys) = RecentKeys THEN Tail(keys) ELSE keys, key)

\* The words of a notification.
Worded(r, sig, ans) ==
    FirstText(<<sig.body, claude_hook_body(r, sig, ans), IF sig.endsTurn THEN r.body ELSE NoText>>)

\* What is told of a notification.
Note(r, sig, ans) ==
    [reason |-> sig.reason, turn |-> sig.of, ends |-> sig.endsTurn, body |-> Worded(r, sig, ans)]

\* What q keeps of r, which tells nothing.
Alike(r, q) ==
    q.active = r.active /\ q.turn = r.turn /\ q.body = r.body /\ q.pending = r.pending

\* ... and q is keyed and has told as r.
Same(r, q) == Alike(r, q) /\ q.keys = r.keys /\ q.out = r.out

\* q follows no turn.
Ended(q) == q.active = FALSE /\ q.turn = NoTurn /\ q.body = NoText /\ q.pending = <<>>

\* What becomes of r when it is notified.
Notified(r, q, sig, ans) ==
    /\ Shaped(q) /\ q.cursor = r.cursor /\ q.partial = r.partial
    /\ Suppressed(r, sig) => Same(r, q)
    /\ ~Suppressed(r, sig) =>
         /\ sig.endsTurn => Ended(q)
         /\ ~sig.endsTurn => Alike(r, q)
         /\ Known(r, sig.key) => q.keys = r.keys /\ q.out = r.out
         /\ ~Known(r, sig.key) => /\ q.keys = Remembered(r.keys, sig.key)
                                  /\ q.out = Append(r.out, Note(r, sig, ans))

\* The first text of three.
LEMMA FirstOfThree ==
    ASSUME NEW a \in Nat, NEW b \in Nat, NEW c \in Nat
    PROVE  FirstText(<<a, b, c>>) = IF a # NoText THEN a ELSE IF b # NoText THEN b ELSE c
<1>. DEFINE ts == <<a, b, c>>
            First(i) == i \in DOMAIN ts /\ ts[i] # NoText /\ \A j \in 1..(i - 1) : ts[j] = NoText
<1>1. DOMAIN ts = {1, 2, 3} /\ ts[1] = a /\ ts[2] = b /\ ts[3] = c
  OBVIOUS
<1>. DEFINE k == CHOOSE i \in DOMAIN ts : ts[i] # NoText /\ \A j \in 1..(i - 1) : ts[j] = NoText
<1>2. FirstText(ts) = IF \E i \in DOMAIN ts : ts[i] # NoText THEN ts[k] ELSE NoText
  BY DEF FirstText
<1>3. ASSUME NEW m \in DOMAIN ts, First(m) PROVE First(k)
  BY <1>3
<1>. HIDE DEF k, ts
<1>4. CASE a # NoText
  <2>1. First(1)
    BY <1>1, <1>4
  <2>2. First(k)
    BY <1>1, <1>3, <2>1
  <2>3. k = 1
    BY <1>1, <1>4, <2>2
  <2> QED
    BY <1>1, <1>2, <1>4, <2>3 DEF ts
<1>5. CASE a = NoText /\ b # NoText
  <2>1. First(2)
    BY <1>1, <1>5
  <2>2. First(k)
    BY <1>1, <1>3, <2>1
  <2>3. k = 2
    BY <1>1, <1>5, <2>2
  <2> QED
    BY <1>1, <1>2, <1>5, <2>3 DEF ts
<1>6. CASE a = NoText /\ b = NoText /\ c # NoText
  <2>1. First(3)
    BY <1>1, <1>6
  <2>2. First(k)
    BY <1>1, <1>3, <2>1
  <2>3. k = 3
    BY <1>1, <1>6, <2>2
  <2> QED
    BY <1>1, <1>2, <1>6, <2>3 DEF ts
<1>7. CASE a = NoText /\ b = NoText /\ c = NoText
  BY <1>1, <1>2, <1>7 DEF ts
<1> QED
  BY <1>4, <1>5, <1>6, <1>7

\* The words are those of the signal, of Claude's answer, or the text in hand.
LEMMA WordsOf ==
    ASSUME NEW r, Shaped(r), NEW sig, sig.body \in Nat, NEW ans \in Seq(Nat)
    PROVE  /\ Worded(r, sig, ans) \in Nat
           /\ sig.body # NoText => Worded(r, sig, ans) = sig.body
           /\ Worded(r, sig, ans) # NoText =>
                \/ Worded(r, sig, ans) = sig.body
                \/ ans # <<>> /\ Worded(r, sig, ans) = ans[Len(ans)]
                \/ Worded(r, sig, ans) = r.body
<1>. DEFINE hook == claude_hook_body(r, sig, ans)
            held == IF sig.endsTurn THEN r.body ELSE NoText
<1>1. r.read \in Nat /\ r.body \in Nat
  BY DEF Shaped
<1>2. hook \in Nat /\ (hook # NoText => ans # <<>> /\ hook = ans[Len(ans)])
  <2>1. CASE Len(ans) > r.read
    <3>1. ans # <<>> /\ Len(ans) \in 1 .. Len(ans)
      BY <1>1, <2>1
    <3>2. Last(ans) = ans[Len(ans)] /\ ans[Len(ans)] \in Nat
      BY <3>1 DEF Last
    <3> QED
      BY <3>1, <3>2 DEF claude_hook_body, NoText
  <2>2. CASE ~(Len(ans) > r.read)
    BY <2>2 DEF claude_hook_body, NoText
  <2> QED
    BY <2>1, <2>2
<1>3. held \in Nat /\ (held # NoText => held = r.body)
  BY <1>1 DEF NoText
<1>4. Worded(r, sig, ans) = FirstText(<<sig.body, hook, held>>)
  BY DEF Worded
<1>. HIDE DEF hook, held
<1>5. Worded(r, sig, ans) = IF sig.body # NoText THEN sig.body ELSE IF hook # NoText THEN hook ELSE held
  BY <1>2, <1>3, <1>4, FirstOfThree
<1> QED
  BY <1>2, <1>3, <1>5

\* A notification ends the turn or leaves it, and tells at most itself.
LEMMA NotifyEffect ==
    ASSUME NEW r, Shaped(r), NEW sig, NEW ans \in Seq(Nat), sig.reason \in Reasons, sig.of \in Nat,
           sig.body \in Nat, sig.endsTurn \in BOOLEAN
    PROVE  Notified(r, notify(r, sig, ans), sig, ans)
<1>. DEFINE ended == [r EXCEPT !.active = FALSE, !.turn = NoTurn, !.pending = <<>>, !.body = NoText]
            here == IF sig.endsTurn THEN ended ELSE r
            read == [here EXCEPT !.read = IF sig.reason \in {"turn-complete", "agent-error"} THEN Len(ans) ELSE @]
            kept == [read EXCEPT !.keys = Remembered(read.keys, sig.key)]
            note == Note(r, sig, ans)
            grown == [kept EXCEPT !.out = Append(read.out, note)]
<1>1. /\ Shaped(here) /\ here.cursor = r.cursor /\ here.partial = r.partial /\ here.keys = r.keys /\ here.out = r.out
      /\ sig.endsTurn => Ended(here)
      /\ ~sig.endsTurn => here = r
  <2>1. CASE sig.endsTurn
    BY <2>1 DEF Shaped, Fields, Ended, NoTurn, NoText
  <2>2. CASE ~sig.endsTurn
    BY <2>2
  <2> QED
    BY <2>1, <2>2
<1>. HIDE DEF here
<1>2. Len(ans) \in Nat
  OBVIOUS
<1>3. Shaped(read) /\ read.cursor = here.cursor /\ read.partial = here.partial /\ Same(here, read)
  BY <1>1, <1>2 DEF Shaped, Fields, Same, Alike
<1>. HIDE DEF read
<1>4. /\ kept.cursor = read.cursor /\ kept.partial = read.partial /\ Alike(read, kept) /\ kept.out = read.out
      /\ kept.keys = Remembered(read.keys, sig.key) /\ Shaped(kept)
  BY <1>3 DEF Shaped, Fields, Alike
<1>5. remember_dedupe_key(read, sig.key) = kept
  <2>1. CASE sig.key = <<>>
    <3>1. kept = [read EXCEPT !.keys = read.keys]
      BY <2>1 DEF Remembered
    <3>2. kept = read
      BY <3>1, <1>1 DEF read, Shaped, Fields
    <3> QED
      BY <2>1, <3>2 DEF remember_dedupe_key
  <2>2. CASE sig.key # <<>>
    BY <2>2 DEF remember_dedupe_key, Remembered
  <2> QED
    BY <2>1, <2>2
<1>6. note \in Notes
  BY WordsOf DEF Note, Notes
<1>. HIDE DEF kept, note
<1>7. /\ grown.cursor = kept.cursor /\ grown.partial = kept.partial /\ Alike(kept, grown) /\ grown.keys = kept.keys
      /\ grown.out = Append(read.out, note)
  BY <1>4 DEF Shaped, Fields, Alike
<1>8. Shaped(grown)
  <2>1. Append(read.out, note) \in Seq(Notes)
    BY <1>3, <1>6 DEF Shaped
  <2> QED
    BY <1>4, <2>1 DEF Shaped, Fields
<1>9. notify(r, sig, ans) = IF Suppressed(r, sig) THEN r ELSE IF Known(r, sig.key) THEN read ELSE grown
  <2>1. notify(r, sig, ans) =
          IF Suppressed(r, sig) THEN r
          ELSE IF Known(r, sig.key) THEN read
          ELSE [remember_dedupe_key(read, sig.key) EXCEPT !.out = Append(@, note)]
    BY DEF notify, here, read, note, Note, Worded
  <2>2. [remember_dedupe_key(read, sig.key) EXCEPT !.out = Append(@, note)] = grown
    BY <1>4, <1>5
  <2> QED
    BY <2>1, <2>2
<1>. HIDE DEF grown
<1>10. CASE Suppressed(r, sig)
  BY <1>9, <1>10 DEF Notified, Same, Alike
<1>11. CASE ~Suppressed(r, sig) /\ Known(r, sig.key)
  <2>1. notify(r, sig, ans) = read
    BY <1>9, <1>11
  <2>2. sig.endsTurn => Ended(read)
    BY <1>1, <1>3 DEF Same, Alike, Ended
  <2>3. ~sig.endsTurn => Alike(r, read)
    BY <1>1, <1>3 DEF Same, Alike
  <2>4. read.keys = r.keys /\ read.out = r.out /\ read.cursor = r.cursor /\ read.partial = r.partial
    BY <1>1, <1>3 DEF Same
  <2> QED
    BY <1>3, <1>11, <2>1, <2>2, <2>3, <2>4 DEF Notified
<1>12. CASE ~Suppressed(r, sig) /\ ~Known(r, sig.key)
  <2>1. notify(r, sig, ans) = grown
    BY <1>9, <1>12
  <2>2. sig.endsTurn => Ended(grown)
    BY <1>1, <1>3, <1>4, <1>7 DEF Same, Alike, Ended
  <2>3. ~sig.endsTurn => Alike(r, grown)
    BY <1>1, <1>3, <1>4, <1>7 DEF Same, Alike
  <2>4. grown.keys = Remembered(r.keys, sig.key) /\ grown.out = Append(r.out, note) /\ grown.cursor = r.cursor /\ grown.partial = r.partial
    BY <1>1, <1>3, <1>4, <1>7 DEF Same
  <2> QED
    BY <1>8, <1>12, <2>1, <2>2, <2>3, <2>4 DEF Notified, note
<1> QED
  BY <1>10, <1>11, <1>12

\* An idle status is held back in a turn.
Held(r) == r.active = TRUE /\ r.pending # <<>>

\* What the idle status held back tells, in the words b or none.
Completed(r, b, note, ans) ==
    \E w \in Nat : /\ note = [reason |-> "turn-complete", turn |-> r.pending[1].turn, ends |-> TRUE, body |-> w]
                   /\ ans = <<>> /\ w # NoText => w = b

\* What becomes of r when the idle status is settled, its text being b.
Settled(r, q, b, ans) ==
    /\ q.pending = <<>> /\ q.keys = r.keys
    /\ Held(r) => Ended(q) /\ \E note \in Notes : Completed(r, b, note, ans) /\ q.out = Append(r.out, note)
    /\ ~Held(r) => q.active = r.active /\ q.turn = r.turn /\ q.body = b /\ q.out = r.out

\* An idle status held back is told in a turn, and dropped in none.
LEMMA FlushEffect ==
    ASSUME NEW r, Shaped(r), r.turn = NoTurn \/ r.pending = <<>>, NEW ans \in Seq(Nat),
           NEW q, q = flush_pending_opencode_idle(r, ans)
    PROVE  Shaped(q) /\ q.cursor = r.cursor /\ q.partial = r.partial /\ Settled(r, q, r.body, ans)
<1>1. CASE r.pending = <<>>
  BY <1>1 DEF flush_pending_opencode_idle, Settled, Held
<1>2. CASE r.pending # <<>>
  <2>. DEFINE x == [r EXCEPT !.pending = <<>>]
              l == r.pending[1]
              sig == opencode_completion(l)
  <2>1. l \in FileLines
    BY <1>2 DEF Shaped
  <2>2. l.turn \in Nat
    BY <2>1 DEF FileLines
  <2>3. /\ sig.reason = "turn-complete" /\ sig.of = l.turn /\ sig.body = NoText /\ sig.endsTurn = TRUE
        /\ sig.needsTurn = TRUE /\ sig.key = <<>>
    BY DEF opencode_completion, Notice
  <2>4. /\ x.cursor = r.cursor /\ x.partial = r.partial /\ x.active = r.active /\ x.turn = r.turn /\ x.body = r.body
        /\ x.pending = <<>> /\ x.keys = r.keys /\ x.out = r.out /\ x.read = r.read /\ Shaped(x)
    BY DEF Shaped, Fields
  <2>5. q = notify(x, sig, ans)
    BY <1>2 DEF flush_pending_opencode_idle
  <2>. HIDE DEF x, sig
  <2>6. sig.body \in Nat /\ sig.reason \in Reasons /\ sig.endsTurn \in BOOLEAN
    <3>1. sig.endsTurn \in BOOLEAN
      BY <2>3, Zenon
    <3> QED
      BY <2>3, <3>1 DEF Reasons, NoText
  <2>7. Notified(x, q, sig, ans)
    BY <2>2, <2>3, <2>4, <2>5, <2>6, NotifyEffect
  <2>8. Suppressed(x, sig) <=> ~x.active
    BY <1>2, <2>3, <2>4 DEF Suppressed
  <2>9. ~Known(x, sig.key) /\ Remembered(x.keys, sig.key) = x.keys
    BY <2>3 DEF Known, Remembered
  <2>10. CASE ~r.active
    <3>1. Same(x, q)
      BY <2>4, <2>7, <2>8, <2>10 DEF Notified
    <3> QED
      BY <2>4, <2>7, <2>10, <3>1 DEF Notified, Same, Alike, Settled, Held
  <2>11. CASE r.active
    <3>. DEFINE note == Note(x, sig, ans)
    <3>1. Ended(q) /\ q.keys = x.keys /\ q.out = Append(x.out, note)
      BY <2>3, <2>4, <2>7, <2>8, <2>9, <2>11 DEF Notified
    <3>2. /\ Worded(x, sig, ans) \in Nat
          /\ ans = <<>> /\ Worded(x, sig, ans) # NoText => Worded(x, sig, ans) = r.body
      BY <2>3, <2>4, <2>6, WordsOf
    <3>3. note = [reason |-> "turn-complete", turn |-> l.turn, ends |-> TRUE, body |-> Worded(x, sig, ans)]
      BY <2>3 DEF Note
    <3>4. note \in Notes
      BY <2>2, <3>2, <3>3 DEF Notes, Reasons
    <3>5. Completed(r, r.body, note, ans)
      BY <3>2, <3>3 DEF Completed
    <3>. HIDE DEF note
    <3>6. q.pending = <<>>
      BY <3>1 DEF Ended
    <3>7. \E nt \in Notes : Completed(r, r.body, nt, ans) /\ q.out = Append(r.out, nt)
      BY <2>4, <3>1, <3>4, <3>5
    <3>8. Held(r)
      BY <1>2, <2>11 DEF Held, Shaped
    <3>9. Settled(r, q, r.body, ans)
      BY <2>4, <3>1, <3>6, <3>7, <3>8 DEF Settled
    <3> QED
      BY <2>4, <2>7, <3>9 DEF Notified
  <2> QED
    BY <2>10, <2>11 DEF Shaped
<1> QED
  BY <1>1, <1>2

\* What a notification makes of r, its place aside.
Heard(r, q, sig, ans) ==
    /\ Suppressed(r, sig) => Same(r, q)
    /\ ~Suppressed(r, sig) =>
         /\ sig.endsTurn => Ended(q)
         /\ ~sig.endsTurn => Alike(r, q)
         /\ Known(r, sig.key) => q.keys = r.keys /\ q.out = r.out
         /\ ~Known(r, sig.key) => /\ q.keys = Remembered(r.keys, sig.key)
                                  /\ q.out = Append(r.out, Note(r, sig, ans))

\* A turn has begun, and settled what the last one left open.
Begun(r, q, sig, ans) ==
    /\ q.active = TRUE /\ q.turn = sig.id /\ q.body = NoText /\ q.pending = <<>> /\ q.keys = r.keys
    /\ Held(r) => \E note \in Notes : Completed(r, r.body, note, ans) /\ q.out = Append(r.out, note)
    /\ ~Held(r) => q.out = r.out

\* What a signal makes of r.
Applied(r, q, sig, ans) ==
    /\ sig.signal = "Irrelevant" => Same(r, q)
    /\ sig.signal = "TurnStarted" => Begun(r, q, sig, ans)
    /\ sig.signal = "AssistantText" => Settled(r, q, sig.text, ans)
    /\ sig.signal = "StatusIdle" => /\ q.pending = <<sig.line>>
                                    /\ q.active = r.active /\ q.turn = r.turn /\ q.body = r.body
                                    /\ q.keys = r.keys /\ q.out = r.out
    /\ sig.signal = "TurnEnded" => Ended(q) /\ q.keys = r.keys /\ q.out = r.out
    /\ sig.signal = "Notification" => Heard(r, q, sig, ans)

\* What the second half of line l makes of r.
Taken(prov, l, r, q, ans) ==
    /\ r.partial = FALSE \/ l.type = "oversize" => Same(r, q)
    /\ r.partial = TRUE /\ l.type # "oversize" => Applied(r, q, classify(prov, l), ans)

\* A signal leaves a registration a registration.
LEMMA SignalEffect ==
    ASSUME NEW prov \in {"codex", "claude", "opencode"}, NEW l, LineOf(prov, l), NEW sig, Signals(prov, l, sig),
           NEW r, Shaped(r), r.turn = NoTurn \/ r.pending = <<>>, NEW ans \in Seq(Nat),
           NEW q, q = apply_signal(r, sig, ans)
    PROVE  Shaped(q) /\ q.cursor = r.cursor /\ q.partial = r.partial /\ Applied(r, q, sig, ans)
<1>0. l \in FileLines /\ l.turn \in Nat
  BY DEF LineOf, FileLines
<1>1. CASE sig.signal = "Irrelevant"
  <2>1. q = r
    BY <1>1 DEF apply_signal
  <2> QED
    BY <1>1, <2>1 DEF Applied, Same, Alike
<1>2. CASE sig.signal = "TurnStarted"
  <2>. DEFINE f == flush_pending_opencode_idle(r, ans)
  <2>1. Shaped(f) /\ f.cursor = r.cursor /\ f.partial = r.partial /\ Settled(r, f, r.body, ans)
    BY FlushEffect
  <2>2. q = [f EXCEPT !.active = TRUE, !.turn = sig.id, !.body = NoText]
    BY <1>2 DEF apply_signal, turn_begins
  <2>. HIDE DEF f
  <2>3. /\ Shaped(q) /\ q.cursor = f.cursor /\ q.partial = f.partial /\ q.active = TRUE /\ q.turn = sig.id
        /\ q.body = NoText /\ q.pending = f.pending /\ q.keys = f.keys /\ q.out = f.out
    BY <2>1, <2>2 DEF Shaped, Fields, NoText
  <2>4. Begun(r, q, sig, ans)
    BY <2>1, <2>3 DEF Begun, Settled
  <2> QED
    BY <1>2, <2>1, <2>3, <2>4 DEF Applied
<1>3. CASE sig.signal = "AssistantText"
  <2>. DEFINE x == [r EXCEPT !.body = sig.text]
  <2>1. q = flush_pending_opencode_idle(x, ans) /\ sig.text \in Nat
    BY <1>0, <1>3 DEF apply_signal, Signals
  <2>2. /\ Shaped(x) /\ x.cursor = r.cursor /\ x.partial = r.partial /\ x.active = r.active /\ x.turn = r.turn
        /\ x.body = sig.text /\ x.pending = r.pending /\ x.keys = r.keys /\ x.out = r.out
    BY <2>1 DEF Shaped, Fields
  <2>. HIDE DEF x
  <2>3. Shaped(q) /\ q.cursor = x.cursor /\ q.partial = x.partial /\ Settled(x, q, x.body, ans)
    BY <2>1, <2>2, FlushEffect
  <2>4. Settled(r, q, sig.text, ans)
    BY <2>2, <2>3 DEF Settled, Held, Completed
  <2> QED
    BY <1>3, <2>2, <2>3, <2>4 DEF Applied
<1>4. CASE sig.signal = "StatusIdle"
  <2>1. q = [r EXCEPT !.pending = <<sig.line>>] /\ sig.line = l
    BY <1>4 DEF apply_signal, Signals
  <2>2. <<l>> \in Seq(FileLines)
    BY <1>0
  <2>3. /\ Shaped(q) /\ q.cursor = r.cursor /\ q.partial = r.partial /\ q.active = r.active /\ q.turn = r.turn
        /\ q.body = r.body /\ q.pending = <<sig.line>> /\ q.keys = r.keys /\ q.out = r.out
    BY <2>1, <2>2 DEF Shaped, Fields
  <2> QED
    BY <1>4, <2>3 DEF Applied
<1>5. CASE sig.signal = "TurnEnded"
  <2>1. q = [r EXCEPT !.active = FALSE, !.turn = NoTurn, !.body = NoText, !.pending = <<>>]
    BY <1>5 DEF apply_signal
  <2>2. Shaped(q) /\ q.cursor = r.cursor /\ q.partial = r.partial /\ Ended(q) /\ q.keys = r.keys /\ q.out = r.out
    BY <2>1 DEF Shaped, Fields, Ended, NoText
  <2> QED
    BY <1>5, <2>2 DEF Applied
<1>6. CASE sig.signal = "Notification"
  <2>1. q = notify(r, sig, ans)
    BY <1>6 DEF apply_signal
  <2>2. Noticed(prov, l, sig)
    BY <1>6 DEF Signals
  <2>3. sig.reason \in Reasons /\ sig.of \in Nat /\ sig.body \in Nat /\ sig.endsTurn \in BOOLEAN
    BY <1>0, <2>2 DEF Noticed, NoText
  <2>4. Notified(r, q, sig, ans)
    BY <2>1, <2>3, NotifyEffect
  <2>5. Heard(r, q, sig, ans)
    BY <2>4 DEF Notified, Heard
  <2> QED
    BY <1>6, <2>4, <2>5 DEF Notified, Applied
<1> QED
  BY <1>1, <1>2, <1>3, <1>4, <1>5, <1>6 DEF Signals

\* What is applied to a registration is applied to one that differs in its place only.
LEMMA SameApplied ==
    ASSUME NEW r, NEW x, Same(r, x), x.read = r.read, NEW q, NEW sig, NEW ans, Applied(x, q, sig, ans)
    PROVE  Applied(r, q, sig, ans)
<1>1. Suppressed(r, sig) <=> Suppressed(x, sig)
  BY DEF Same, Alike, Suppressed
<1>2. Known(r, sig.key) <=> Known(x, sig.key)
  BY DEF Same, Known
<1>3. Note(r, sig, ans) = Note(x, sig, ans)
  BY DEF Same, Alike, Note, Worded, claude_hook_body
<1>4. Held(r) <=> Held(x)
  BY DEF Same, Alike, Held
<1>5. \A b, note : Completed(x, b, note, ans) => Completed(r, b, note, ans)
  BY DEF Same, Alike, Completed
<1>6. ASSUME sig.signal = "Notification" PROVE Heard(r, q, sig, ans)
  <2>1. Heard(x, q, sig, ans)
    BY <1>6 DEF Applied
  <2> QED
    BY <1>1, <1>2, <1>3, <2>1 DEF Heard, Same, Alike
<1>7. ASSUME sig.signal = "TurnStarted" PROVE Begun(r, q, sig, ans)
  <2>1. Begun(x, q, sig, ans)
    BY <1>7 DEF Applied
  <2> QED
    BY <1>4, <1>5, <2>1 DEF Begun, Same, Alike
<1>8. ASSUME sig.signal = "AssistantText" PROVE Settled(r, q, sig.text, ans)
  <2>1. Settled(x, q, sig.text, ans)
    BY <1>8 DEF Applied
  <2> QED
    BY <1>4, <1>5, <2>1 DEF Settled, Same, Alike
<1>9. /\ sig.signal = "Irrelevant" => Same(r, q)
      /\ sig.signal = "StatusIdle" => /\ q.pending = <<sig.line>>
                                      /\ q.active = r.active /\ q.turn = r.turn /\ q.body = r.body
                                      /\ q.keys = r.keys /\ q.out = r.out
      /\ sig.signal = "TurnEnded" => Ended(q) /\ q.keys = r.keys /\ q.out = r.out
  BY DEF Applied, Same, Alike
<1> QED
  BY <1>6, <1>7, <1>8, <1>9 DEF Applied

\* A registration at another place.
LEMMA Placed ==
    ASSUME NEW r, Shaped(r), NEW n \in Nat, NEW b \in BOOLEAN
    PROVE  LET x == [r EXCEPT !.cursor = n, !.partial = b]
           IN  Shaped(x) /\ x.cursor = n /\ x.partial = b /\ Same(r, x) /\ x.read = r.read
  BY DEF Shaped, Fields, Same, Alike

\* A half begins a line, or ends the line it is of.
Begins(n) == n % 2 = 1
Line(n) == n \div 2

\* The first half of a line read, and the second.
ReadFirst(r, q, n) == Shaped(q) /\ q.cursor = n /\ q.partial = TRUE /\ Same(r, q)
ReadSecond(prov, l, r, q, n, ans) ==
    Shaped(q) /\ q.cursor = n /\ q.partial = FALSE /\ Taken(prov, l, r, q, ans)

\* The first half begins a line.
LEMMA FirstHalf ==
    ASSUME NEW prov, NEW F, NEW n \in Nat, Begins(n), NEW r, Shaped(r), NEW ans,
           NEW q, q = read_half(prov, r, F, n, ans)
    PROVE  ReadFirst(r, q, n)
<1>1. q = [[r EXCEPT !.cursor = n] EXCEPT !.partial = TRUE]
  BY DEF read_half, Begins
<1>2. q = [r EXCEPT !.cursor = n, !.partial = TRUE]
  BY <1>1
<1>. DEFINE x == [r EXCEPT !.cursor = n, !.partial = TRUE]
<1>3. Shaped(x) /\ x.cursor = n /\ x.partial = TRUE /\ Same(r, x)
  BY DEF Shaped, Fields, Same, Alike
<1> QED
  BY <1>2, <1>3 DEF ReadFirst

\* The second ends it, and it is read or not.
LEMMA SecondHalf ==
    ASSUME NEW prov \in {"codex", "claude", "opencode"}, NEW F, NEW n \in Nat, ~Begins(n), NEW r, Shaped(r),
           r.turn = NoTurn \/ r.pending = <<>>, NEW ans \in Seq(Nat), NEW l, l = F[Line(n)], LineOf(prov, l),
           NEW q, q = read_half(prov, r, F, n, ans)
    PROVE  ReadSecond(prov, l, r, q, n, ans)
<1>. DEFINE taken == [r EXCEPT !.cursor = n, !.partial = FALSE]
<1>1. Shaped(taken) /\ taken.cursor = n /\ taken.partial = FALSE /\ Same(r, taken) /\ taken.read = r.read
  BY Placed
<1>2. q = IF ~r.partial \/ l.type = "oversize" THEN taken ELSE apply_signal(taken, classify(prov, l), ans)
  <2>. DEFINE here == [r EXCEPT !.cursor = n]
  <2>1. q = finish_line(prov, here, l, ans)
    BY DEF read_half, Begins, Line
  <2>2. [here EXCEPT !.partial = FALSE] = taken /\ here.partial = r.partial
    BY DEF Shaped, Fields
  <2>. HIDE DEF here, taken
  <2> QED
    BY <2>1, <2>2 DEF finish_line
<1>. HIDE DEF taken
<1>3. taken.turn = NoTurn \/ taken.pending = <<>>
  BY <1>1 DEF Same, Alike
<1>4. CASE ~r.partial \/ l.type = "oversize"
  <2>1. q = taken
    BY <1>2, <1>4
  <2>2. r.partial = FALSE \/ l.type = "oversize"
    BY <1>4 DEF Shaped
  <2>3. Taken(prov, l, r, q, ans)
    BY <1>1, <2>1, <2>2 DEF Taken
  <2> QED
    BY <1>1, <2>1, <2>3 DEF ReadSecond
<1>5. CASE r.partial /\ l.type # "oversize"
  <2>1. q = apply_signal(taken, classify(prov, l), ans)
    BY <1>2, <1>5
  <2>2. Signals(prov, l, classify(prov, l))
    BY Classified
  <2>3. Shaped(q) /\ q.cursor = taken.cursor /\ q.partial = taken.partial /\ Applied(taken, q, classify(prov, l), ans)
    BY <1>1, <1>3, <2>1, <2>2, SignalEffect
  <2>4. Applied(r, q, classify(prov, l), ans)
    BY <1>1, <2>3, SameApplied
  <2>5. r.partial = TRUE
    BY <1>5 DEF Shaped
  <2>6. Taken(prov, l, r, q, ans)
    BY <1>5, <2>4, <2>5 DEF Taken
  <2> QED
    BY <1>1, <2>3, <2>6 DEF ReadSecond
<1> QED
  BY <1>4, <1>5

-----------------------------------------------------------------------------
(* Reading a source.                                                       *)

\* What the agent writes, T turns begun and A answered: turns in order, each
\* begun by its first line and, by Codex, completed at most once.
Written(prov, F, T, A) ==
    /\ F \in Seq(FileLines) /\ T \in Nat /\ A \in Seq(Nat)
    /\ \A i \in 1..Len(F) : /\ LineOf(prov, F[i]) /\ F[i].turn \in Nat /\ F[i].turn <= T
                            /\ F[i].type = "Stop" => A # <<>> /\ F[i].turn <= A[Len(A)]
    /\ \A i, j \in 1..Len(F) : i < j =>
         /\ F[i].turn <= F[j].turn
         /\ F[j].type \in Starts => F[i].turn < F[j].turn
         /\ F[i].type = "task_complete" /\ F[j].type = "task_complete" => F[i].turn < F[j].turn
    /\ \A i \in 1..Len(F) - 1 : F[i + 1].type \notin Starts => F[i + 1].turn = F[i].turn
    /\ F # <<>> => F[Len(F)].turn = T

\* What is open in OpenCode's registration is of the turn of the line read last, m.
Current(F, r, m) ==
    /\ m \in 1..Len(F)
    /\ r.pending # <<>> => r.pending[1].turn = F[m].turn /\ F[m].type \notin Starts
    /\ r.active = TRUE /\ r.body # NoText => r.body = F[m].turn

\* A registration that has read F up to half n.
Sound(prov, F, r, n) ==
    /\ Shaped(r) /\ r.cursor = n
    /\ prov = "opencode" => r.turn = NoTurn
    /\ prov # "opencode" => r.body = NoText /\ r.pending = <<>>
    /\ prov = "opencode" /\ (r.active = TRUE \/ r.pending # <<>>) =>
         Current(F, r, Line(n)) /\ (Begins(n) => r.partial = TRUE)

\* The half before the one that ends a line began it.
LEMMA Halves ==
    ASSUME NEW n \in Nat, n > 0
    PROVE  /\ Line(n) \in Nat
           /\ Begins(n) => ~Begins(n - 1) /\ Line(n - 1) = Line(n)
           /\ ~Begins(n) => Begins(n - 1) /\ Line(n - 1) = Line(n) - 1 /\ Line(n) >= 1
           /\ \A k \in Nat : n <= 2 * k => Line(n) <= k
  BY DEF Begins, Line

\* A line of this provider's, as it is known to the readers of F.
LEMMA LineRead ==
    ASSUME NEW prov \in {"codex", "claude", "opencode"}, NEW F, NEW T, NEW A, Written(prov, F, T, A),
           NEW m \in 1..Len(F)
    PROVE  /\ LineOf(prov, F[m]) /\ Signals(prov, F[m], classify(prov, F[m]))
           /\ F[m].type = "oversize" => F[m].type \notin Starts
           /\ F[m].turn \in Nat /\ F[m].turn <= T
           /\ m > 1 /\ F[m].type \notin Starts => F[m].turn = F[m - 1].turn
<1>1. LineOf(prov, F[m])
  BY DEF Written
<1>2. F[m].turn \in Nat /\ F[m].turn <= T
  BY DEF Written
<1>3. ASSUME m > 1, F[m].type \notin Starts PROVE F[m].turn = F[m - 1].turn
  <2>1. m - 1 \in 1..Len(F) - 1 /\ (m - 1) + 1 = m
    BY <1>3 DEF Written
  <2>2. \A i \in 1..Len(F) - 1 : F[i + 1].type \notin Starts => F[i + 1].turn = F[i].turn
    BY DEF Written
  <2> QED
    BY <1>3, <2>1, <2>2
<1>4. F[m].type = "oversize" => F[m].type \notin Starts
  BY DEF Starts
<1> QED
  BY <1>1, <1>2, <1>3, <1>4, Classified

\* A line of another provider than OpenCode holds nothing back, nor keeps a text.
LEMMA PlainTaken ==
    ASSUME NEW prov \in {"codex", "claude"}, NEW l, Signals(prov, l, classify(prov, l)), NEW ans,
           NEW r, r.body = NoText, r.pending = <<>>, NEW q, Taken(prov, l, r, q, ans)
    PROVE  q.body = NoText /\ q.pending = <<>>
<1>. DEFINE sig == classify(prov, l)
<1>1. CASE Same(r, q)
  BY <1>1 DEF Same, Alike
<1>2. CASE Applied(r, q, sig, ans)
  <2>1. sig.signal \in {"Irrelevant", "TurnStarted", "TurnEnded", "Notification"}
    BY DEF Signals
  <2>. HIDE DEF sig
  <2>2. sig.signal = "Irrelevant" => q.body = NoText /\ q.pending = <<>>
    BY <1>2 DEF Applied, Same, Alike
  <2>3. sig.signal = "TurnStarted" => q.body = NoText /\ q.pending = <<>>
    BY <1>2 DEF Applied, Begun
  <2>4. sig.signal = "TurnEnded" => q.body = NoText /\ q.pending = <<>>
    BY <1>2 DEF Applied, Ended
  <2>5. sig.signal = "Notification" => q.body = NoText /\ q.pending = <<>>
    BY <1>2 DEF Applied, Heard, Ended, Same, Alike
  <2> QED
    BY <2>1, <2>2, <2>3, <2>4, <2>5
<1>3. Same(r, q) \/ Applied(r, q, sig, ans)
  BY DEF Taken
<1> QED
  BY <1>1, <1>2, <1>3

\* A line of OpenCode's leaves open what is of its turn.
LEMMA OpenTaken ==
    ASSUME NEW F, NEW T, NEW A, Written("opencode", F, T, A), NEW m \in 1..Len(F), NEW ans,
           NEW r, Shaped(r), r.turn = NoTurn,
           r.active = TRUE \/ r.pending # <<>> => Current(F, r, m - 1) /\ r.partial = TRUE,
           NEW q, Shaped(q), Taken("opencode", F[m], r, q, ans)
    PROVE  q.turn = NoTurn /\ (q.active = TRUE \/ q.pending # <<>> => Current(F, q, m))
<1>. DEFINE l == F[m]
            sig == classify("opencode", l)
            Open(x) == x.active = TRUE \/ x.pending # <<>>
<1>1. /\ LineOf("opencode", l) /\ Signals("opencode", l, sig) /\ l.turn \in Nat
      /\ l.type = "oversize" => l.type \notin Starts
      /\ m > 1 /\ l.type \notin Starts => l.turn = F[m - 1].turn
  BY LineRead
<1>2. ASSUME l.type \notin Starts, Open(r) PROVE
             /\ r.pending # <<>> => r.pending[1].turn = l.turn
             /\ r.active = TRUE /\ r.body # NoText => r.body = l.turn
  <2>1. m - 1 \in 1..Len(F) /\ m > 1
    BY <1>2 DEF Current
  <2> QED
    BY <1>1, <1>2, <2>1 DEF Current
<1>3. ASSUME Alike(r, q), l.type \notin Starts PROVE q.turn = NoTurn /\ (Open(q) => Current(F, q, m))
  <2>1. Open(q) => Open(r)
    BY <1>3 DEF Alike
  <2> QED
    BY <1>2, <1>3, <2>1 DEF Alike, Current
<1>4. ASSUME Ended(q) PROVE q.turn = NoTurn /\ ~Open(q)
  BY <1>4 DEF Ended
<1>5. CASE r.partial = FALSE \/ l.type = "oversize"
  <2>1. Same(r, q)
    BY <1>5 DEF Taken
  <2>2. CASE l.type \notin Starts
    BY <1>3, <2>1, <2>2 DEF Same
  <2>3. CASE l.type \in Starts
    <3>1. ~Open(r)
      BY <1>1, <1>5, <2>3
    <3> QED
      BY <2>1, <3>1 DEF Same, Alike
  <2> QED
    BY <2>2, <2>3
<1>6. CASE r.partial = TRUE /\ l.type # "oversize"
  <2>1. Applied(r, q, sig, ans)
    BY <1>6 DEF Taken
  <2>2. ASSUME sig.signal = "Irrelevant", l.type \notin Starts PROVE q.turn = NoTurn /\ (Open(q) => Current(F, q, m))
    BY <1>3, <2>1, <2>2 DEF Applied, Same
  <2>3. ASSUME sig.signal = "TurnStarted", sig.id = l.id PROVE q.turn = NoTurn /\ (Open(q) => Current(F, q, m))
    <3>1. Begun(r, q, sig, ans)
      BY <2>1, <2>3 DEF Applied
    <3>2. l.id = NoTurn
      BY <1>1 DEF LineOf
    <3> QED
      BY <2>3, <3>1, <3>2 DEF Begun, Current
  <2>4. ASSUME sig.signal = "AssistantText", sig.text = l.turn, l.type \notin Starts
        PROVE  q.turn = NoTurn /\ (Open(q) => Current(F, q, m))
    <3>1. Settled(r, q, l.turn, ans)
      BY <2>1, <2>4 DEF Applied
    <3>2. CASE Held(r)
      <4>1. Ended(q)
        BY <3>1, <3>2 DEF Settled
      <4> QED
        BY <1>4, <4>1
    <3>3. CASE ~Held(r)
      BY <3>1, <3>3 DEF Settled, Current
    <3> QED
      BY <3>2, <3>3
  <2>5. ASSUME sig.signal = "StatusIdle", sig.line = l, l.type \notin Starts
        PROVE  q.turn = NoTurn /\ (Open(q) => Current(F, q, m))
    <3>1. q.pending = <<l>> /\ q.active = r.active /\ q.turn = r.turn /\ q.body = r.body
      BY <2>1, <2>5 DEF Applied
    <3>2. q.pending[1].turn = l.turn
      BY <3>1
    <3>3. q.active = TRUE /\ q.body # NoText => q.body = l.turn
      BY <1>2, <2>5, <3>1
    <3> QED
      BY <2>5, <3>1, <3>2, <3>3 DEF Current
  <2>6. ASSUME sig.signal = "Notification", l.type \notin Starts
        PROVE  q.turn = NoTurn /\ (Open(q) => Current(F, q, m))
    <3>1. Heard(r, q, sig, ans)
      BY <2>1, <2>6 DEF Applied
    <3>2. Ended(q) \/ Alike(r, q)
      BY <3>1 DEF Heard, Same
    <3> QED
      BY <1>3, <1>4, <2>6, <3>2
  <2>7. \/ sig.signal = "Irrelevant" /\ l.type \notin Starts
        \/ sig.signal = "TurnStarted" /\ sig.id = l.id
        \/ sig.signal = "AssistantText" /\ sig.text = l.turn /\ l.type \notin Starts
        \/ sig.signal = "StatusIdle" /\ sig.line = l /\ l.type \notin Starts
        \/ sig.signal = "Notification" /\ l.type \notin Starts
    BY <1>1 DEF Signals
  <2>. HIDE DEF l, sig
  <2> QED
    BY <2>2, <2>3, <2>4, <2>5, <2>6, <2>7
<1>7. r.partial \in BOOLEAN
  BY DEF Shaped
<1> QED
  BY <1>5, <1>6, <1>7 DEF Open

\* q is what half n of F makes of r.
Stepped(prov, F, n, r, q, ans) ==
    /\ Sound(prov, F, q, n)
    /\ Begins(n) => q.partial = TRUE /\ Same(r, q)
    /\ ~Begins(n) => q.partial = FALSE /\ Taken(prov, F[Line(n)], r, q, ans) /\ Line(n) \in 1..Len(F)

\* What is open stays of the turn of the line read last, as the halves are read.
LEMMA SoundStep ==
    ASSUME NEW prov \in {"codex", "claude", "opencode"}, NEW F, NEW T, NEW A, Written(prov, F, T, A),
           NEW n \in Nat, n > 0, n <= 2 * Len(F), NEW r, Sound(prov, F, r, n - 1), NEW ans \in Seq(Nat),
           NEW q, q = read_half(prov, r, F, n, ans)
    PROVE  Stepped(prov, F, n, r, q, ans)
<1>0. Len(F) \in Nat
  BY DEF Written
<1>1. /\ Line(n) \in Nat /\ Line(n) <= Len(F)
      /\ Begins(n) => ~Begins(n - 1) /\ Line(n - 1) = Line(n)
      /\ ~Begins(n) => Begins(n - 1) /\ Line(n - 1) = Line(n) - 1 /\ Line(n) >= 1
  BY <1>0, Halves
<1>2. Shaped(r) /\ (r.turn = NoTurn \/ r.pending = <<>>)
  BY DEF Sound
<1>3. CASE Begins(n)
  <2>1. ReadFirst(r, q, n)
    BY <1>2, <1>3, FirstHalf, Zenon
  <2> QED
    BY <1>1, <1>3, <2>1 DEF ReadFirst, Stepped, Sound, Same, Alike, Current
<1>4. CASE ~Begins(n)
  <2>. DEFINE m == Line(n)
  <2>1. m \in 1..Len(F)
    BY <1>0, <1>1, <1>4
  <2>2. LineOf(prov, F[m])
    BY <2>1, LineRead
  <2>3. Shaped(q) /\ q.cursor = n /\ q.partial = FALSE /\ Taken(prov, F[m], r, q, ans)
    <3>1. ReadSecond(prov, F[m], r, q, n, ans)
      BY <1>2, <1>4, <2>2, SecondHalf, Zenon
    <3> QED
      BY <3>1 DEF ReadSecond
  <2>. HIDE DEF m
  <2>4. CASE prov # "opencode"
    <3>1. Signals(prov, F[m], classify(prov, F[m]))
      BY <2>2, Classified
    <3>2. q.body = NoText /\ q.pending = <<>>
      BY <2>3, <2>4, <3>1, PlainTaken DEF Sound
    <3> QED
      BY <1>4, <2>1, <2>3, <2>4, <3>2 DEF Stepped, Sound, m
  <2>5. CASE prov = "opencode"
    <3>1. r.turn = NoTurn /\ (r.active = TRUE \/ r.pending # <<>> => Current(F, r, m - 1) /\ r.partial = TRUE)
      BY <1>1, <1>4, <2>5 DEF Sound, m
    <3>2. q.turn = NoTurn /\ (q.active = TRUE \/ q.pending # <<>> => Current(F, q, m))
      BY <1>2, <2>1, <2>3, <2>5, <3>1, OpenTaken
    <3> QED
      BY <1>4, <2>1, <2>3, <2>5, <3>2 DEF Stepped, Sound, m
  <2> QED
    BY <2>4, <2>5
<1> QED
  BY <1>3, <1>4

-----------------------------------------------------------------------------
(* One read and many.                                                      *)

\* The turns whose end is told in h.
Turns(h) == {h[i].turn : i \in {k \in DOMAIN h : h[k].ends}}

\* One more after the second of two sequences is one more after both.
LEMMA LastOfBoth ==
    ASSUME NEW s \in Seq(Notes), NEW o \in Seq(Notes), NEW note
    PROVE  s \o Append(o, note) = Append(s \o o, note)
OBVIOUS

\* One notification more tells its turn, if it ends one.
LEMMA OneMore ==
    ASSUME NEW s \in Seq(Notes), NEW o \in Seq(Notes), NEW note
    PROVE  /\ note.ends => Turns(s \o Append(o, note)) = Turns(s \o o) \cup {note.turn}
           /\ ~note.ends => Turns(s \o Append(o, note)) = Turns(s \o o)
<1>. DEFINE h == s \o o
            k == Append(h, note)
<1>1. h \in Seq(Notes)
  OBVIOUS
<1>2. s \o Append(o, note) = k
  BY LastOfBoth
<1>. HIDE DEF h
<1>3. DOMAIN k = DOMAIN h \cup {Len(h) + 1} /\ Len(h) + 1 \notin DOMAIN h /\ k[Len(h) + 1] = note
  BY <1>1
<1>4. \A i \in DOMAIN h : k[i] = h[i]
  BY <1>1
<1>. DEFINE e == Len(h) + 1
<1>. HIDE DEF k, e
<1>5. note.ends => Turns(k) = Turns(h) \cup {note.turn}
  BY <1>3, <1>4 DEF Turns, e
<1>6. ~note.ends => Turns(k) = Turns(h)
  BY <1>3, <1>4 DEF Turns, e
<1> QED
  BY <1>2, <1>5, <1>6 DEF h, k

\* What settling a held-back idle status tells, and what a notification does.
Drained(r) == IF Held(r) THEN {r.pending[1].turn} ELSE {}
Spoken(r, sig) == IF ~Suppressed(r, sig) /\ ~Known(r, sig.key) /\ sig.endsTurn THEN {sig.of} ELSE {}
Gain(r, sig) ==
    IF sig.signal \in {"TurnStarted", "AssistantText"} THEN Drained(r)
    ELSE IF sig.signal = "Notification" THEN Spoken(r, sig) ELSE {}

\* The turns told are those told before and those of the signal.
LEMMA Gains ==
    ASSUME NEW s \in Seq(Notes), NEW r, Shaped(r), NEW q, NEW sig, NEW ans, Applied(r, q, sig, ans),
           sig.signal \in {"Irrelevant", "TurnStarted", "AssistantText", "StatusIdle", "TurnEnded", "Notification"}
    PROVE  Turns(s \o q.out) = Turns(s \o r.out) \cup Gain(r, sig)
<1>0. r.out \in Seq(Notes)
  BY DEF Shaped
<1>1. ASSUME q.out = r.out, Gain(r, sig) = {} PROVE Turns(s \o q.out) = Turns(s \o r.out) \cup Gain(r, sig)
  BY <1>1
<1>2. ASSUME Held(r), NEW b, NEW note, Completed(r, b, note, ans), q.out = Append(r.out, note), Gain(r, sig) = Drained(r)
      PROVE  Turns(s \o q.out) = Turns(s \o r.out) \cup Gain(r, sig)
  <2>1. note.ends = TRUE /\ note.turn = r.pending[1].turn
    BY <1>2 DEF Completed
  <2>2. Turns(s \o Append(r.out, note)) = Turns(s \o r.out) \cup {note.turn}
    BY <1>0, <2>1, OneMore
  <2> QED
    BY <1>2, <2>1, <2>2 DEF Drained
<1>3. CASE sig.signal \in {"Irrelevant", "StatusIdle", "TurnEnded"}
  BY <1>1, <1>3 DEF Applied, Same, Gain
<1>4. CASE sig.signal = "TurnStarted"
  <2>1. Gain(r, sig) = Drained(r) /\ Begun(r, q, sig, ans)
    BY <1>4 DEF Gain, Applied
  <2>2. CASE Held(r)
    <3>1. PICK note \in Notes : Completed(r, r.body, note, ans) /\ q.out = Append(r.out, note)
      BY <2>1, <2>2 DEF Begun
    <3> QED
      BY <1>2, <2>1, <2>2, <3>1
  <2>3. CASE ~Held(r)
    BY <1>1, <2>1, <2>3 DEF Begun, Drained
  <2> QED
    BY <2>2, <2>3
<1>5. CASE sig.signal = "AssistantText"
  <2>1. Gain(r, sig) = Drained(r) /\ Settled(r, q, sig.text, ans)
    BY <1>5 DEF Gain, Applied
  <2>2. CASE Held(r)
    <3>1. PICK note \in Notes : Completed(r, sig.text, note, ans) /\ q.out = Append(r.out, note)
      BY <2>1, <2>2 DEF Settled
    <3> QED
      BY <1>2, <2>1, <2>2, <3>1
  <2>3. CASE ~Held(r)
    BY <1>1, <2>1, <2>3 DEF Settled, Drained
  <2> QED
    BY <2>2, <2>3
<1>6. CASE sig.signal = "Notification"
  <2>1. Gain(r, sig) = Spoken(r, sig) /\ Heard(r, q, sig, ans)
    BY <1>6 DEF Gain, Applied
  <2>2. CASE Suppressed(r, sig) \/ Known(r, sig.key)
    BY <1>1, <2>1, <2>2 DEF Heard, Same, Spoken
  <2>3. CASE ~Suppressed(r, sig) /\ ~Known(r, sig.key)
    <3>. DEFINE note == Note(r, sig, ans)
    <3>1. q.out = Append(r.out, note)
      BY <2>1, <2>3 DEF Heard
    <3>2. note.ends = sig.endsTurn /\ note.turn = sig.of
      BY DEF Note
    <3>. HIDE DEF note
    <3>3. CASE sig.endsTurn
      <4>0. note.ends => Turns(s \o Append(r.out, note)) = Turns(s \o r.out) \cup {note.turn}
        BY <1>0, OneMore
      <4>1. Turns(s \o Append(r.out, note)) = Turns(s \o r.out) \cup {note.turn}
        BY <3>2, <3>3, <4>0
      <4>2. Spoken(r, sig) = {sig.of}
        BY <2>3, <3>3 DEF Spoken
      <4> QED
        BY <2>1, <3>1, <3>2, <4>1, <4>2
    <3>4. CASE ~sig.endsTurn
      <4>1. Turns(s \o Append(r.out, note)) = Turns(s \o r.out)
        BY <1>0, <3>2, <3>4, OneMore
      <4>2. Spoken(r, sig) = {}
        BY <3>4 DEF Spoken
      <4> QED
        BY <2>1, <3>1, <4>1, <4>2
    <3> QED
      BY <3>3, <3>4
  <2> QED
    BY <2>2, <2>3
<1> QED
  BY <1>3, <1>4, <1>5, <1>6

\* r read the source in several reads, v in one, with the same turns told of it by s and
\* r: they are in the same state, or r has settled the idle status that v still holds back.
Equal(r, v, s) ==
    /\ r.active = v.active /\ (r.active = TRUE => r.pending = v.pending)
    /\ Turns(s \o r.out) = Turns(v.out)
Ahead(r, v, s) ==
    /\ r.active = FALSE /\ Held(v) /\ r.turn = NoTurn
    /\ Turns(s \o r.out) = Turns(v.out) \cup {v.pending[1].turn}
Rel(prov, r, v, s) ==
    /\ r.keys = v.keys /\ r.turn = v.turn
    /\ Equal(r, v, s) \/ (prov = "opencode" /\ Ahead(r, v, s))

\* One line leaves the two related.
LEMMA RelApplied ==
    ASSUME NEW prov \in {"codex", "claude", "opencode"}, NEW l, LineOf(prov, l), NEW sig, Signals(prov, l, sig),
           NEW s \in Seq(Notes), NEW r, Shaped(r), NEW v, Shaped(v), Rel(prov, r, v, s),
           prov = "opencode" => v.turn = NoTurn,
           l.type \notin Starts /\ v.pending # <<>> => v.pending[1].turn = l.turn,
           NEW a, NEW b, NEW q, Applied(r, q, sig, a), NEW w, Applied(v, w, sig, b)
    PROVE  Rel(prov, q, w, s)
<1>. DEFINE before == Turns(s \o r.out)
            alone == Turns(v.out)
            after == Turns(s \o q.out)
            then == Turns(w.out)
<1>1. sig.signal \in {"Irrelevant", "TurnStarted", "AssistantText", "StatusIdle", "TurnEnded", "Notification"}
  BY DEF Signals
<1>2. after = before \cup Gain(r, sig)
  BY <1>1, Gains
<1>3. then = alone \cup Gain(v, sig)
  <2>. DEFINE e == <<>>
  <2>1. e \in Seq(Notes) /\ e = <<>>
    OBVIOUS
  <2>. HIDE DEF e
  <2>2. Turns(e \o w.out) = Turns(e \o v.out) \cup Gain(v, sig)
    <3>1. ASSUME NEW u \in Seq(Notes) PROVE Turns(u \o w.out) = Turns(u \o v.out) \cup Gain(v, sig)
      BY <1>1, Gains
    <3> QED
      BY <2>1, <3>1
  <2>3. v.out \in Seq(Notes)
    BY DEF Shaped
  <2>4. w.out \in Seq(Notes) \/ w.out = v.out \/ \E note : w.out = Append(v.out, note)
    <3>1. sig.signal \in {"Irrelevant", "StatusIdle", "TurnEnded"} => w.out = v.out
      BY DEF Applied, Same
    <3>2. sig.signal = "TurnStarted" => w.out = v.out \/ \E note : w.out = Append(v.out, note)
      BY DEF Applied, Begun
    <3>3. sig.signal = "AssistantText" => w.out = v.out \/ \E note : w.out = Append(v.out, note)
      BY DEF Applied, Settled
    <3>4. sig.signal = "Notification" => w.out = v.out \/ \E note : w.out = Append(v.out, note)
      BY DEF Applied, Heard, Same
    <3> QED
      BY <1>1, <3>1, <3>2, <3>3, <3>4
  <2>5. e \o w.out = w.out /\ e \o v.out = v.out
    BY <2>1, <2>3, <2>4
  <2> QED
    BY <2>2, <2>5
<1>4. r.keys = v.keys /\ r.turn = v.turn
  BY DEF Rel
<1>. HIDE DEF before, alone, after, then
<1>5. CASE Equal(r, v, s)
  <2>1. r.active = v.active /\ (r.active = TRUE => r.pending = v.pending) /\ before = alone
    BY <1>5 DEF Equal, before, alone
  <2>2. Held(r) <=> Held(v)
    BY <2>1 DEF Held
  <2>3. Drained(r) = Drained(v)
    BY <2>1, <2>2 DEF Drained, Held
  <2>4. (Suppressed(r, sig) <=> Suppressed(v, sig)) /\ (Known(r, sig.key) <=> Known(v, sig.key))
    BY <1>4, <2>1 DEF Suppressed, Known
  <2>5. Spoken(r, sig) = Spoken(v, sig)
    BY <2>4 DEF Spoken
  <2>6. after = then
    BY <1>2, <1>3, <2>1, <2>3, <2>5 DEF Gain
  <2>7. /\ q.keys = w.keys /\ q.turn = w.turn
        /\ q.active = w.active /\ (q.active = TRUE => q.pending = w.pending)
    <3>1. CASE sig.signal = "Irrelevant"
      BY <1>4, <2>1, <3>1 DEF Applied, Same, Alike
    <3>2. CASE sig.signal = "TurnStarted"
      BY <1>4, <3>2 DEF Applied, Begun
    <3>3. CASE sig.signal = "AssistantText"
      <4>1. Settled(r, q, sig.text, a) /\ Settled(v, w, sig.text, b)
        BY <3>3 DEF Applied
      <4>2. CASE Held(r)
        BY <1>4, <2>2, <4>1, <4>2 DEF Settled, Ended
      <4>3. CASE ~Held(r)
        BY <1>4, <2>1, <2>2, <4>1, <4>3 DEF Settled
      <4> QED
        BY <4>2, <4>3
    <3>4. CASE sig.signal = "StatusIdle"
      BY <1>4, <2>1, <3>4 DEF Applied
    <3>5. CASE sig.signal = "TurnEnded"
      BY <1>4, <3>5 DEF Applied, Ended
    <3>6. CASE sig.signal = "Notification"
      <4>1. Heard(r, q, sig, a) /\ Heard(v, w, sig, b)
        BY <3>6 DEF Applied
      <4>2. CASE Suppressed(r, sig)
        BY <1>4, <2>1, <2>4, <4>1, <4>2 DEF Heard, Same, Alike
      <4>3. CASE ~Suppressed(r, sig)
        <5>1. q.keys = w.keys
          BY <1>4, <2>4, <4>1, <4>3 DEF Heard
        <5>2. CASE sig.endsTurn
          BY <2>4, <4>1, <4>3, <5>1, <5>2 DEF Heard, Ended
        <5>3. CASE ~sig.endsTurn
          BY <1>4, <2>1, <2>4, <4>1, <4>3, <5>1, <5>3 DEF Heard, Alike
        <5> QED
          BY <5>2, <5>3
      <4> QED
        BY <4>2, <4>3
    <3> QED
      BY <1>1, <3>1, <3>2, <3>3, <3>4, <3>5, <3>6
  <2> QED
    BY <2>6, <2>7 DEF Rel, Equal, after, then
<1>6. CASE prov = "opencode" /\ Ahead(r, v, s)
  <2>. DEFINE d == v.pending[1].turn
  <2>1. /\ r.active = FALSE /\ v.active = TRUE /\ v.pending # <<>> /\ Held(v) /\ ~Held(r)
        /\ r.turn = NoTurn /\ v.turn = NoTurn /\ before = alone \cup {d}
    BY <1>6 DEF Ahead, Held, before, alone
  <2>2. l.type \notin Starts => d = l.turn
    BY <2>1
  <2>. HIDE DEF d
  <2>3. Drained(r) = {} /\ Drained(v) = {d}
    BY <2>1 DEF Drained, d
  <2>4. CASE sig.signal = "Irrelevant"
    <3>1. Same(r, q) /\ Same(v, w)
      BY <2>4 DEF Applied
    <3>2. after = then \cup {d}
      BY <1>2, <1>3, <2>1, <2>4 DEF Gain
    <3>3. Ahead(q, w, s)
      BY <2>1, <3>1, <3>2 DEF Ahead, Held, Same, Alike, d, after, then
    <3> QED
      BY <1>4, <1>6, <3>1, <3>3 DEF Rel, Same, Alike
  <2>5. CASE sig.signal = "TurnStarted"
    <3>1. Begun(r, q, sig, a) /\ Begun(v, w, sig, b)
      BY <2>5 DEF Applied
    <3>2. after = then
      BY <1>2, <1>3, <2>1, <2>3, <2>5 DEF Gain
    <3>3. q.active = w.active /\ q.pending = w.pending /\ q.keys = w.keys /\ q.turn = w.turn
      BY <1>4, <3>1 DEF Begun
    <3> QED
      BY <3>2, <3>3 DEF Rel, Equal, after, then
  <2>6. CASE sig.signal = "AssistantText"
    <3>1. Settled(r, q, sig.text, a) /\ Settled(v, w, sig.text, b)
      BY <2>6 DEF Applied
    <3>2. after = then
      BY <1>2, <1>3, <2>1, <2>3, <2>6 DEF Gain
    <3>3. q.active = FALSE /\ q.turn = NoTurn
      BY <2>1, <3>1 DEF Settled
    <3>4. w.active = FALSE /\ w.turn = NoTurn
      BY <2>1, <3>1 DEF Settled, Ended
    <3>5. q.keys = w.keys
      BY <1>4, <3>1 DEF Settled
    <3> QED
      BY <3>2, <3>3, <3>4, <3>5 DEF Rel, Equal, after, then
  <2>7. CASE sig.signal = "StatusIdle"
    <3>1. /\ w.pending = <<l>> /\ l.type \notin Starts
          /\ w.active = v.active /\ w.turn = v.turn /\ w.keys = v.keys /\ w.out = v.out
          /\ q.active = r.active /\ q.turn = r.turn /\ q.keys = r.keys /\ q.out = r.out
      BY <2>7 DEF Applied, Signals
    <3>2. w.pending[1].turn = d /\ w.pending # <<>>
      BY <2>2, <3>1
    <3>3. after = then \cup {d}
      BY <1>2, <1>3, <2>1, <2>7 DEF Gain
    <3>4. Ahead(q, w, s)
      BY <2>1, <3>1, <3>2, <3>3 DEF Ahead, Held, after, then
    <3> QED
      BY <1>4, <1>6, <3>1, <3>4 DEF Rel
  <2>8. CASE sig.signal = "TurnEnded"
    BY <1>6, <2>8 DEF Signals
  <2>9. CASE sig.signal = "Notification"
    <3>1. Heard(r, q, sig, a) /\ Heard(v, w, sig, b) /\ Noticed(prov, l, sig) /\ l.type \notin Starts
      BY <2>9 DEF Applied, Signals
    <3>2. sig.key = <<>> /\ sig.needsTurn = sig.endsTurn /\ sig.of = l.turn
      BY <1>6, <3>1 DEF Noticed
    <3>3. ~Known(r, sig.key) /\ ~Known(v, sig.key) /\ \A keys : Remembered(keys, sig.key) = keys
      BY <3>2 DEF Known, Remembered
    <3>4. ~Suppressed(v, sig) /\ (Suppressed(r, sig) <=> sig.needsTurn)
      BY <2>1 DEF Suppressed
    <3>5. CASE sig.endsTurn
      <4>1. Suppressed(r, sig)
        BY <3>2, <3>4, <3>5
      <4>2. Same(r, q) /\ Ended(w) /\ w.keys = v.keys
        BY <3>1, <3>3, <3>4, <3>5, <4>1 DEF Heard
      <4>3. Spoken(r, sig) = {} /\ Spoken(v, sig) = {d}
        BY <2>2, <3>1, <3>2, <3>3, <3>4, <3>5, <4>1 DEF Spoken
      <4>4. after = then
        BY <1>2, <1>3, <2>1, <2>9, <4>3 DEF Gain
      <4> QED
        BY <1>4, <2>1, <4>2, <4>4 DEF Rel, Equal, Same, Alike, Ended, after, then
    <3>6. CASE ~sig.endsTurn
      <4>1. ~Suppressed(r, sig)
        BY <3>2, <3>4, <3>6
      <4>2. Alike(r, q) /\ Alike(v, w) /\ q.keys = r.keys /\ w.keys = v.keys
        BY <3>1, <3>3, <3>4, <3>6, <4>1 DEF Heard
      <4>3. Spoken(r, sig) = {} /\ Spoken(v, sig) = {}
        BY <3>6 DEF Spoken
      <4>4. after = then \cup {d}
        BY <1>2, <1>3, <2>1, <2>9, <4>3 DEF Gain
      <4>5. Ahead(q, w, s)
        BY <2>1, <4>2, <4>4 DEF Ahead, Held, Alike, d, after, then
      <4> QED
        BY <1>4, <1>6, <4>2, <4>5 DEF Rel, Alike
    <3> QED
      BY <3>5, <3>6
  <2> QED
    BY <1>1, <2>4, <2>5, <2>6, <2>7, <2>8, <2>9
<1> QED
  BY <1>5, <1>6 DEF Rel

\* What is kept leaves the two related.
LEMMA RelSame ==
    ASSUME NEW prov, NEW s, NEW r, NEW v, Rel(prov, r, v, s), NEW q, Same(r, q), NEW w, Same(v, w)
    PROVE  Rel(prov, q, w, s)
<1>1. CASE Equal(r, v, s)
  BY <1>1 DEF Rel, Equal, Same, Alike
<1>2. CASE prov = "opencode" /\ Ahead(r, v, s)
  BY <1>2 DEF Rel, Ahead, Held, Same, Alike
<1> QED
  BY <1>1, <1>2 DEF Rel

\* One half read leaves the two related.
LEMMA RelStep ==
    ASSUME NEW prov \in {"codex", "claude", "opencode"}, NEW F, NEW T, NEW A, Written(prov, F, T, A),
           NEW n \in Nat, n > 0, n <= 2 * Len(F), NEW s \in Seq(Notes),
           NEW r, Sound(prov, F, r, n - 1), NEW v, Sound(prov, F, v, n - 1),
           Rel(prov, r, v, s), r.partial = v.partial,
           NEW a \in Seq(Nat), NEW b \in Seq(Nat),
           NEW q, q = read_half(prov, r, F, n, a), NEW w, w = read_half(prov, v, F, n, b)
    PROVE  Rel(prov, q, w, s) /\ q.partial = w.partial
<1>1. /\ Begins(n) => q.partial = TRUE /\ Same(r, q)
      /\ ~Begins(n) => q.partial = FALSE /\ Taken(prov, F[Line(n)], r, q, a) /\ Line(n) \in 1..Len(F)
  <2>1. Stepped(prov, F, n, r, q, a)
    BY SoundStep, Zenon
  <2> QED
    BY <2>1 DEF Stepped
<1>2. /\ Begins(n) => w.partial = TRUE /\ Same(v, w)
      /\ ~Begins(n) => w.partial = FALSE /\ Taken(prov, F[Line(n)], v, w, b)
  <2>1. Stepped(prov, F, n, v, w, b)
    BY SoundStep, Zenon
  <2> QED
    BY <2>1 DEF Stepped
<1>3. q.partial = w.partial
  BY <1>1, <1>2
<1>4. CASE Begins(n)
  BY <1>1, <1>2, <1>3, <1>4, RelSame
<1>5. CASE ~Begins(n)
  <2>. DEFINE m == Line(n)
              l == F[m]
  <2>1. m \in 1..Len(F)
    BY <1>1, <1>5
  <2>2. LineOf(prov, l) /\ Signals(prov, l, classify(prov, l)) /\ (m > 1 /\ l.type \notin Starts => l.turn = F[m - 1].turn)
    BY <2>1, LineRead
  <2>3. l.type \notin Starts /\ v.pending # <<>> => v.pending[1].turn = l.turn
    <3>1. SUFFICES ASSUME l.type \notin Starts, v.pending # <<>> PROVE v.pending[1].turn = l.turn
      OBVIOUS
    <3>2. Line(n - 1) = m - 1 /\ Begins(n - 1)
      BY <1>5, Halves
    <3>3. Current(F, v, m - 1)
      BY <3>1, <3>2 DEF Sound
    <3>4. m > 1
      BY <2>1, <3>3 DEF Current
    <3> QED
      BY <2>2, <3>1, <3>3, <3>4 DEF Current
  <2>4. Shaped(r) /\ Shaped(v) /\ (prov = "opencode" => v.turn = NoTurn)
    BY DEF Sound
  <2>5. Taken(prov, l, r, q, a) /\ Taken(prov, l, v, w, b)
    BY <1>1, <1>2, <1>5
  <2>. HIDE DEF l
  <2>6. CASE r.partial = FALSE \/ l.type = "oversize"
    <3>1. Same(r, q) /\ Same(v, w)
      BY <2>5, <2>6 DEF Taken
    <3> QED
      BY <1>3, <3>1, RelSame
  <2>7. CASE r.partial = TRUE /\ l.type # "oversize"
    <3>1. Applied(r, q, classify(prov, l), a) /\ Applied(v, w, classify(prov, l), b)
      BY <2>5, <2>7 DEF Taken
    <3> QED
      BY <1>3, <2>2, <2>3, <2>4, <3>1, RelApplied
  <2> QED
    BY <2>4, <2>6, <2>7 DEF Shaped
<1> QED
  BY <1>4, <1>5

\* q is r when the idle status it held back is settled.
Drain(prov, F, n, r, q, ans) == Sound(prov, F, q, n) /\ Settled(r, q, r.body, ans) /\ q.partial = r.partial

\* Settling the idle status held back leaves nothing open but the turn.
LEMMA SoundFlush ==
    ASSUME NEW prov \in {"codex", "claude", "opencode"}, NEW F, NEW n \in Nat, NEW r, Sound(prov, F, r, n),
           NEW ans \in Seq(Nat), NEW q, q = flush_pending_opencode_idle(r, ans)
    PROVE  Drain(prov, F, n, r, q, ans)
<1>1. Shaped(r) /\ (r.turn = NoTurn \/ r.pending = <<>>)
  BY DEF Sound
<1>2. Shaped(q) /\ q.cursor = r.cursor /\ q.partial = r.partial /\ Settled(r, q, r.body, ans)
  BY <1>1, FlushEffect
<1>3. CASE Held(r)
  BY <1>2, <1>3 DEF Drain, Sound, Settled, Held, Ended
<1>4. CASE ~Held(r)
  <2>1. q.active = r.active /\ q.turn = r.turn /\ q.body = r.body /\ q.pending = <<>>
    BY <1>2, <1>4 DEF Settled
  <2> QED
    BY <1>2, <2>1 DEF Drain, Sound, Current
<1> QED
  BY <1>3, <1>4

\* What is held back is settled by the end of each of several reads.
LEMMA RelFlush ==
    ASSUME NEW prov \in {"codex", "claude", "opencode"}, NEW F, NEW n \in Nat, NEW s \in Seq(Notes),
           NEW r, Sound(prov, F, r, n), NEW v, Rel(prov, r, v, s),
           NEW ans, NEW q, Settled(r, q, r.body, ans)
    PROVE  Rel(prov, q, v, s)
<1>0. r.out \in Seq(Notes)
  BY DEF Sound, Shaped
<1>1. CASE Held(r)
  <2>1. PICK note \in Notes : Completed(r, r.body, note, ans) /\ q.out = Append(r.out, note)
    BY <1>1 DEF Settled
  <2>2. note.ends = TRUE /\ note.turn = r.pending[1].turn
    BY <2>1 DEF Completed
  <2>3. Turns(s \o q.out) = Turns(s \o r.out) \cup {note.turn}
    BY <1>0, <2>1, <2>2, OneMore
  <2>4. prov = "opencode" /\ r.turn = NoTurn /\ Equal(r, v, s)
    BY <1>1 DEF Sound, Held, Rel, Ahead
  <2>5. q.active = FALSE /\ q.turn = NoTurn /\ q.keys = r.keys
    BY <1>1 DEF Settled, Ended
  <2>6. Held(v) /\ v.pending[1].turn = note.turn
    BY <1>1, <2>2, <2>4 DEF Held, Equal
  <2>7. Ahead(q, v, s)
    BY <2>3, <2>4, <2>5, <2>6 DEF Ahead, Equal
  <2> QED
    BY <2>4, <2>5, <2>7 DEF Rel
<1>2. CASE ~Held(r)
  <2>1. q.active = r.active /\ q.turn = r.turn /\ q.keys = r.keys /\ q.out = r.out /\ q.pending = <<>>
    BY <1>2 DEF Settled
  <2>2. r.active = TRUE => r.pending = <<>>
    BY <1>2 DEF Held
  <2>3. Equal(r, v, s) => Equal(q, v, s)
    BY <2>1, <2>2 DEF Equal
  <2>4. Ahead(r, v, s) => Ahead(q, v, s)
    BY <2>1 DEF Ahead
  <2> QED
    BY <2>1, <2>3, <2>4 DEF Rel
<1> QED
  BY <1>1, <1>2

\* What s and r tell of turns, f does.
Agree(s, r, f) == Turns(f.out) = Turns(s \o r.out)

\* At the end of a read the turns told are those one read would tell.
LEMMA RelWhole ==
    ASSUME NEW prov, NEW s \in Seq(Notes), NEW r, r.pending = <<>>, NEW v, Shaped(v), Rel(prov, r, v, s),
           NEW b, NEW ans, NEW f, Settled(v, f, b, ans)
    PROVE  Agree(s, r, f)
<1>0. v.out \in Seq(Notes)
  BY DEF Shaped
<1>1. CASE Held(v)
  <2>1. PICK note \in Notes : Completed(v, b, note, ans) /\ f.out = Append(v.out, note)
    BY <1>1 DEF Settled
  <2>2. note.ends = TRUE /\ note.turn = v.pending[1].turn
    BY <2>1 DEF Completed
  <2>. DEFINE e == <<>>
  <2>3. e \in Seq(Notes) /\ e \o v.out = v.out /\ e \o Append(v.out, note) = Append(v.out, note)
    BY <1>0
  <2>. HIDE DEF e
  <2>4. Turns(e \o Append(v.out, note)) = Turns(e \o v.out) \cup {note.turn}
    <3>1. ASSUME NEW u \in Seq(Notes) PROVE Turns(u \o Append(v.out, note)) = Turns(u \o v.out) \cup {note.turn}
      BY <1>0, <2>2, OneMore
    <3> QED
      BY <2>3, <3>1
  <2>5. ~Equal(r, v, s)
    BY <1>1 DEF Equal, Held
  <2>6. Turns(s \o r.out) = Turns(v.out) \cup {v.pending[1].turn}
    BY <2>5 DEF Rel, Ahead
  <2> QED
    BY <2>1, <2>2, <2>3, <2>4, <2>6 DEF Agree
<1>2. CASE ~Held(v)
  <2>1. f.out = v.out
    BY <1>2 DEF Settled
  <2>2. Equal(r, v, s)
    BY <1>2 DEF Rel, Ahead
  <2> QED
    BY <2>1, <2>2 DEF Equal, Agree
<1> QED
  BY <1>1, <1>2

-----------------------------------------------------------------------------
(* A turn's end is told once, in its own words.                            *)

\* A notification that counts, and the turns of those of h.
Counts(prov, note) == note.ends = TRUE /\ ~(prov = "claude" /\ note.reason = "agent-error")
Heads(prov, h) == {h[i].turn : i \in {k \in DOMAIN h : Counts(prov, h[k])}}
Single(prov, h) ==
    \A i, j \in DOMAIN h : Counts(prov, h[i]) /\ Counts(prov, h[j]) /\ i # j => h[i].turn # h[j].turn

\* It has no words, or those of its turn or a later one.
OwnNote(note) == note.ends = TRUE /\ note.body # NoText => note.body >= note.turn
Own(h) == \A i \in DOMAIN h : OwnNote(h[i])

\* k is h with note at its end.
Grown(prov, h, note, k) ==
    /\ Counts(prov, note) => Heads(prov, k) = Heads(prov, h) \cup {note.turn}
    /\ ~Counts(prov, note) => Heads(prov, k) = Heads(prov, h)
    /\ Single(prov, h) /\ (Counts(prov, note) => note.turn \notin Heads(prov, h)) => Single(prov, k)
    /\ Own(h) /\ OwnNote(note) => Own(k)

\* One notification more.
LEMMA OneMoreCounts ==
    ASSUME NEW prov, NEW h \in Seq(Notes), NEW note, NEW k, k = Append(h, note)
    PROVE  Grown(prov, h, note, k)
<1>. DEFINE e == Len(h) + 1
<1>1. DOMAIN k = DOMAIN h \cup {e} /\ e \notin DOMAIN h /\ k[e] = note
  OBVIOUS
<1>2. \A i \in DOMAIN h : k[i] = h[i]
  OBVIOUS
<1>. HIDE DEF e
<1>3. Counts(prov, note) => Heads(prov, k) = Heads(prov, h) \cup {note.turn}
  BY <1>1, <1>2 DEF Heads
<1>4. ~Counts(prov, note) => Heads(prov, k) = Heads(prov, h)
  BY <1>1, <1>2 DEF Heads
<1>5. ASSUME Single(prov, h), Counts(prov, note) => note.turn \notin Heads(prov, h) PROVE Single(prov, k)
  <2>1. SUFFICES ASSUME NEW i \in DOMAIN k, NEW j \in DOMAIN k, Counts(prov, k[i]), Counts(prov, k[j]), i # j
                 PROVE  k[i].turn # k[j].turn
    BY DEF Single
  <2>2. CASE i \in DOMAIN h /\ j \in DOMAIN h
    BY <1>2, <1>5, <2>1, <2>2 DEF Single
  <2>3. CASE i = e /\ j \in DOMAIN h
    BY <1>1, <1>2, <1>5, <2>1, <2>3 DEF Heads
  <2>4. CASE j = e /\ i \in DOMAIN h
    BY <1>1, <1>2, <1>5, <2>1, <2>4 DEF Heads
  <2> QED
    BY <1>1, <2>1, <2>2, <2>3, <2>4
<1>6. Own(h) /\ OwnNote(note) => Own(k)
  BY <1>1, <1>2 DEF Own
<1> QED
  BY <1>3, <1>4, <1>5, <1>6 DEF Grown

\* A turn d told is before those yet to be told of by r, which has read F's first k lines.
Later(F, T, k, r, d) ==
    /\ d <= T
    /\ r.active = TRUE \/ (F # <<>> /\ F[Len(F)].type \in Starts) => d < T
    /\ \A m \in 1..Len(F) : m > k =>
         /\ d <= F[m].turn
         /\ r.active = TRUE \/ F[m].type \in Starts \cup {"task_complete"} => d < F[m].turn
    /\ Held(r) => d < r.pending[1].turn

Fresh(prov, F, T, k, r, h) == Single(prov, h) /\ \A d \in Heads(prov, h) : Later(F, T, k, r, d)

\* A turn told stays so when nothing is opened.
LEMMA LaterKept ==
    ASSUME NEW F, NEW T, NEW k \in Nat, NEW r, NEW d, Later(F, T, k, r, d), NEW j \in Nat, k <= j, Len(F) \in Nat,
           NEW q, q.active = TRUE => r.active = TRUE, Held(q) => q.pending = r.pending
    PROVE  Later(F, T, j, q, d)
<1>1. Held(q) => Held(r)
  BY DEF Held
<1>2. \A m \in 1..Len(F) : m > j => m > k
  OBVIOUS
<1> QED
  BY <1>1, <1>2 DEF Later

\* A turn before that of line m is before all that follows it.
LEMMA LaterNow ==
    ASSUME NEW prov, NEW F, NEW T, NEW A, Written(prov, F, T, A), NEW m \in 1..Len(F), NEW d \in Nat, d < F[m].turn,
           NEW q, Held(q) => q.pending[1].turn = F[m].turn
    PROVE  Later(F, T, m, q, d)
<1>1. F[m].turn \in Nat /\ F[m].turn <= T /\ T \in Nat
  BY DEF Written
<1>2. ASSUME NEW j \in 1..Len(F), j > m PROVE F[m].turn <= F[j].turn /\ F[j].turn \in Nat
  BY <1>2 DEF Written
<1>3. d < T
  BY <1>1
<1>4. ASSUME NEW j \in 1..Len(F), j > m PROVE d <= F[j].turn /\ d < F[j].turn
  BY <1>1, <1>2, <1>4
<1> QED
  BY <1>1, <1>3, <1>4 DEF Later

\* The turn of line m, told with it, is before all that follows.
LEMMA LaterTold ==
    ASSUME NEW prov \in {"codex", "claude", "opencode"}, NEW F, NEW T, NEW A, Written(prov, F, T, A),
           NEW m \in 1..Len(F), F[m].type \notin Starts, prov = "codex" => F[m].type = "task_complete",
           NEW q, q.active = FALSE
    PROVE  Later(F, T, m, q, F[m].turn)
<1>0. Len(F) \in Nat
  BY DEF Written
<1>1. F[m].turn \in Nat /\ F[m].turn <= T /\ T \in Nat
  BY DEF Written
<1>2. ASSUME NEW j \in 1..Len(F), j > m
      PROVE  /\ F[m].turn <= F[j].turn
             /\ F[j].type \in Starts => F[m].turn < F[j].turn
             /\ F[j].type = "task_complete" => F[m].turn < F[j].turn
  <2>1. /\ F[m].turn <= F[j].turn
        /\ F[j].type \in Starts => F[m].turn < F[j].turn
        /\ F[m].type = "task_complete" /\ F[j].type = "task_complete" => F[m].turn < F[j].turn
    BY <1>2 DEF Written
  <2>2. F[j].type = "task_complete" => prov = "codex"
    <3>1. LineOf(prov, F[j])
      BY DEF Written
    <3>2. "task_complete" \notin Types("claude") /\ "task_complete" \notin Types("opencode")
      BY TypesAssumption DEF TypesAssumption
    <3> QED
      BY <3>1, <3>2 DEF LineOf
  <2> QED
    BY <2>1, <2>2
<1>3. ASSUME F # <<>>, F[Len(F)].type \in Starts PROVE F[m].turn < T
  <2>1. Len(F) \in 1..Len(F) /\ Len(F) > m
    BY <1>0, <1>3
  <2>2. F[Len(F)].turn = T
    BY <1>3 DEF Written
  <2> QED
    BY <1>2, <1>3, <2>1, <2>2
<1> QED
  BY <1>1, <1>2, <1>3 DEF Later, Held

\* One line read tells of one turn at most, which was not told before.
LEMMA ToldApplied ==
    ASSUME NEW prov \in {"codex", "claude", "opencode"}, NEW F, NEW T, NEW A, Written(prov, F, T, A),
           prov # "claude" => A = <<>>, NEW m \in 1..Len(F), NEW sig, sig = classify(prov, F[m]),
           NEW r, Shaped(r), prov # "opencode" => r.body = NoText /\ r.pending = <<>>,
           prov = "opencode" /\ (r.active = TRUE \/ r.pending # <<>>) => Current(F, r, m - 1),
           NEW s \in Seq(Notes), NEW h, h = s \o r.out, Fresh(prov, F, T, m - 1, r, h), Own(h),
           NEW q, Applied(r, q, sig, A), NEW g, g = s \o q.out
    PROVE  Fresh(prov, F, T, m, q, g) /\ Own(g)
<1>. DEFINE l == F[m]
<1>1. /\ Len(F) \in Nat /\ T \in Nat /\ A \in Seq(Nat) /\ m \in Nat /\ m - 1 \in Nat /\ m - 1 <= m /\ m > m - 1
      /\ l.turn \in Nat
  BY DEF Written
<1>2. /\ LineOf(prov, l) /\ Signals(prov, l, sig)
      /\ m > 1 /\ l.type \notin Starts => l.turn = F[m - 1].turn
  BY LineRead
<1>3. r.out \in Seq(Notes) /\ h \in Seq(Notes) /\ s \in Seq(Notes)
  BY DEF Shaped
<1>4. \A d \in Heads(prov, h) : d \in Nat
  <2>1. \A i \in DOMAIN h : h[i].turn \in Nat
    <3>1. \A i \in DOMAIN h : h[i] \in Notes
      BY <1>3
    <3> QED
      BY <3>1 DEF Notes
  <2> QED
    BY <2>1 DEF Heads
<1>5. ASSUME NEW d \in Heads(prov, h)
      PROVE  /\ Later(F, T, m - 1, r, d)
             /\ r.active = TRUE \/ l.type \in Starts \cup {"task_complete"} => d < l.turn
             /\ Held(r) => d < r.pending[1].turn
  <2>1. Later(F, T, m - 1, r, d)
    BY DEF Fresh
  <2> QED
    BY <1>1, <2>1 DEF Later
<1>6. ASSUME Held(r)
      PROVE  /\ prov = "opencode" /\ A = <<>> /\ m - 1 \in 1..Len(F) /\ m > 1 /\ r.pending[1].turn = F[m - 1].turn
             /\ F[m - 1].type \notin Starts /\ (r.body # NoText => r.body = F[m - 1].turn)
             /\ F[m - 1].turn \in Nat /\ (l.type \in Starts => F[m - 1].turn < l.turn)
  <2>1. prov = "opencode" /\ Current(F, r, m - 1)
    BY <1>6 DEF Held
  <2>2. m - 1 \in 1..Len(F) /\ m > 1
    BY <1>1, <2>1 DEF Current
  <2>3. F[m - 1].turn \in Nat /\ (l.type \in Starts => F[m - 1].turn < l.turn)
    BY <1>1, <2>2 DEF Written
  <2> QED
    BY <1>6, <2>1, <2>2, <2>3 DEF Current, Held
<1>. HIDE DEF l
<1>7. ASSUME q.out = r.out, \A d \in Heads(prov, h) : Later(F, T, m, q, d) PROVE Fresh(prov, F, T, m, q, g) /\ Own(g)
  BY <1>7 DEF Fresh
<1>8. ASSUME q.active = TRUE => r.active = TRUE, Held(q) => q.pending = r.pending
      PROVE  \A d \in Heads(prov, h) : Later(F, T, m, q, d)
  <2>1. SUFFICES ASSUME NEW d \in Heads(prov, h) PROVE Later(F, T, m, q, d)
    OBVIOUS
  <2> QED
    BY <1>1, <1>5, <1>8, LaterKept
<1>9. ASSUME \A d \in Heads(prov, h) : d < l.turn, Held(q) => q.pending[1].turn = l.turn
      PROVE  \A d \in Heads(prov, h) : Later(F, T, m, q, d)
  <2>1. SUFFICES ASSUME NEW d \in Heads(prov, h) PROVE Later(F, T, m, q, d)
    OBVIOUS
  <2> QED
    BY <1>4, <1>9, LaterNow DEF l
<1>10. ASSUME NEW note, q.out = Append(r.out, note), OwnNote(note), Counts(prov, note) => note.turn \notin Heads(prov, h),
              \A d \in Heads(prov, h) : Later(F, T, m, q, d), Counts(prov, note) => Later(F, T, m, q, note.turn)
       PROVE  Fresh(prov, F, T, m, q, g) /\ Own(g)
  <2>1. g = Append(h, note)
    <3>1. s \o Append(r.out, note) = Append(s \o r.out, note)
      BY ONLY <1>3, LastOfBoth
    <3> QED
      BY <1>10, <3>1
  <2>2. /\ Counts(prov, note) => Heads(prov, g) = Heads(prov, h) \cup {note.turn}
        /\ ~Counts(prov, note) => Heads(prov, g) = Heads(prov, h)
        /\ Single(prov, h) /\ (Counts(prov, note) => note.turn \notin Heads(prov, h)) => Single(prov, g)
        /\ Own(h) /\ OwnNote(note) => Own(g)
    <3>1. Grown(prov, h, note, g)
      BY <1>3, <2>1, OneMoreCounts, Zenon
    <3> QED
      BY <3>1 DEF Grown
  <2>3. \A d \in Heads(prov, g) : Later(F, T, m, q, d)
    BY <1>10, <2>2
  <2> QED
    BY <1>10, <2>2, <2>3 DEF Fresh
<1>11. CASE sig.signal = "Irrelevant"
  <2>1. Same(r, q)
    BY <1>11 DEF Applied
  <2> QED
    BY <1>7, <1>8, <2>1 DEF Same, Alike
<1>12. CASE sig.signal = "TurnStarted"
  <2>1. Begun(r, q, sig, A) /\ l.type \in Starts
    BY <1>2, <1>12 DEF Applied, Signals
  <2>2. \A d \in Heads(prov, h) : d < l.turn
    BY <1>5, <2>1
  <2>3. ~Held(q)
    BY <2>1 DEF Begun, Held
  <2>4. \A d \in Heads(prov, h) : Later(F, T, m, q, d)
    BY <1>9, <2>2, <2>3
  <2>5. CASE Held(r)
    <3>1. PICK note \in Notes : Completed(r, r.body, note, A) /\ q.out = Append(r.out, note)
      BY <2>1, <2>5 DEF Begun
    <3>2. PICK w \in Nat : /\ note = [reason |-> "turn-complete", turn |-> r.pending[1].turn, ends |-> TRUE, body |-> w]
                           /\ A = <<>> /\ w # NoText => w = r.body
      BY <3>1 DEF Completed
    <3>3. note.turn = F[m - 1].turn /\ note.body = w
      BY <1>6, <2>5, <3>2
    <3>4. OwnNote(note)
      BY <1>6, <2>5, <3>2, <3>3 DEF OwnNote
    <3>5. note.turn \notin Heads(prov, h)
      <4>1. SUFFICES ASSUME note.turn \in Heads(prov, h) PROVE FALSE
        OBVIOUS
      <4>2. note.turn < r.pending[1].turn /\ note.turn \in Nat
        BY <1>4, <1>5, <2>5, <4>1
      <4> QED
        BY <1>6, <2>5, <3>3, <4>2
    <3>6. Later(F, T, m, q, note.turn)
      <4>1. note.turn \in Nat /\ note.turn < F[m].turn
        BY <1>6, <2>1, <2>5, <3>3 DEF l
      <4> QED
        BY <2>3, <4>1, LaterNow
    <3> QED
      BY <1>10, <2>4, <3>1, <3>4, <3>5, <3>6
  <2>6. CASE ~Held(r)
    BY <1>7, <2>1, <2>4, <2>6 DEF Begun
  <2> QED
    BY <2>5, <2>6
<1>13. CASE sig.signal = "AssistantText"
  <2>1. Settled(r, q, sig.text, A) /\ l.type \notin Starts /\ sig.text = l.turn /\ prov = "opencode"
    BY <1>2, <1>13 DEF Applied, Signals
  <2>2. CASE Held(r)
    <3>1. PICK note \in Notes : Completed(r, sig.text, note, A) /\ q.out = Append(r.out, note)
      BY <2>1, <2>2 DEF Settled
    <3>2. PICK w \in Nat : /\ note = [reason |-> "turn-complete", turn |-> r.pending[1].turn, ends |-> TRUE, body |-> w]
                           /\ A = <<>> /\ w # NoText => w = sig.text
      BY <3>1 DEF Completed
    <3>3. note.turn = F[m - 1].turn /\ note.body = w /\ note.turn = l.turn
      BY <1>2, <1>6, <2>1, <2>2, <3>2
    <3>4. OwnNote(note)
      BY <1>1, <1>6, <2>1, <2>2, <3>2, <3>3 DEF OwnNote
    <3>5. note.turn \notin Heads(prov, h)
      <4>1. SUFFICES ASSUME note.turn \in Heads(prov, h) PROVE FALSE
        OBVIOUS
      <4>2. note.turn < r.pending[1].turn /\ note.turn \in Nat
        BY <1>4, <1>5, <2>2, <4>1
      <4> QED
        BY <1>6, <2>2, <3>3, <4>2
    <3>6. q.active = FALSE
      BY <2>1, <2>2 DEF Settled, Ended
    <3>7. Later(F, T, m, q, note.turn)
      BY <2>1, <3>3, <3>6, LaterTold DEF l
    <3>8. \A d \in Heads(prov, h) : Later(F, T, m, q, d)
      BY <1>8, <3>6 DEF Held
    <3> QED
      BY <1>10, <3>1, <3>4, <3>5, <3>7, <3>8
  <2>3. CASE ~Held(r)
    BY <1>7, <1>8, <2>1, <2>3 DEF Settled, Held
  <2> QED
    BY <2>2, <2>3
<1>14. CASE sig.signal = "StatusIdle"
  <2>1. /\ q.pending = <<l>> /\ q.active = r.active /\ q.out = r.out
    BY <1>2, <1>14 DEF Applied, Signals
  <2>2. q.pending[1].turn = l.turn
    BY <2>1
  <2>3. CASE r.active = TRUE
    <3>1. \A d \in Heads(prov, h) : d < l.turn
      BY <1>5, <2>3
    <3> QED
      BY <1>7, <1>9, <2>1, <2>2, <3>1
  <2>4. CASE r.active # TRUE
    <3>1. ~Held(q)
      BY <2>1, <2>4 DEF Held
    <3> QED
      BY <1>7, <1>8, <2>1, <3>1
  <2> QED
    BY <2>3, <2>4
<1>15. CASE sig.signal = "TurnEnded"
  <2>1. q.active = FALSE /\ q.out = r.out
    BY <1>15 DEF Applied, Ended
  <2> QED
    BY <1>7, <1>8, <2>1 DEF Held
<1>16. CASE sig.signal = "Notification"
  <2>1. Heard(r, q, sig, A) /\ Noticed(prov, l, sig) /\ l.type \notin Starts
    BY <1>2, <1>16 DEF Applied, Signals
  <2>2. (q.active = TRUE => r.active = TRUE) /\ (Held(q) => q.pending = r.pending)
    <3>1. Alike(r, q) \/ Ended(q)
      BY <2>1 DEF Heard, Same, Noticed
    <3> QED
      BY <3>1 DEF Alike, Ended, Held
  <2>3. \A d \in Heads(prov, h) : Later(F, T, m, q, d)
    BY <1>8, <2>2
  <2>4. CASE Suppressed(r, sig) \/ Known(r, sig.key)
    <3>1. q.out = r.out
      BY <2>1, <2>4 DEF Heard, Same
    <3> QED
      BY <1>7, <2>3, <3>1
  <2>5. CASE ~Suppressed(r, sig) /\ ~Known(r, sig.key)
    <3>. DEFINE note == Note(r, sig, A)
    <3>1. q.out = Append(r.out, note)
      BY <2>1, <2>5 DEF Heard
    <3>2. note.ends = sig.endsTurn /\ note.turn = sig.of /\ note.reason = sig.reason /\ note.body = Worded(r, sig, A)
      BY DEF Note
    <3>3. sig.of = l.turn /\ sig.body \in Nat /\ sig.body \in {NoText, l.turn}
      BY <1>1, <2>1 DEF Noticed, NoText
    <3>4. /\ Worded(r, sig, A) \in Nat
          /\ sig.body # NoText => Worded(r, sig, A) = sig.body
          /\ Worded(r, sig, A) # NoText =>
               \/ Worded(r, sig, A) = sig.body
               \/ A # <<>> /\ Worded(r, sig, A) = A[Len(A)]
               \/ Worded(r, sig, A) = r.body
      BY <1>1, <3>3, WordsOf
    <3>. HIDE DEF note
    <3>5. CASE ~sig.endsTurn
      <4>1. note.ends # TRUE
        BY <3>2, <3>5
      <4> QED
        BY <1>10, <2>3, <3>1, <4>1 DEF OwnNote, Counts
    <3>6. CASE sig.endsTurn
      <4>1. Ended(q) /\ q.active = FALSE
        BY <2>1, <2>5, <3>6 DEF Heard, Ended
      <4>2. prov = "codex" => l.type = "task_complete" /\ sig.body = l.turn
        BY <2>1, <3>6 DEF Noticed
      <4>3. prov = "opencode" => r.active = TRUE
        <5>1. prov = "opencode" => sig.needsTurn
          BY <2>1, <3>6 DEF Noticed
        <5> QED
          BY <2>5, <5>1 DEF Suppressed, Shaped
      <4>4. prov = "claude" => \/ sig.reason = "agent-error" /\ sig.body = l.turn
                               \/ sig.reason = "turn-complete" /\ r.active = TRUE /\ l.type = "Stop"
        <5>1. prov = "claude" => \/ sig.reason = "agent-error" /\ sig.body = l.turn
                                 \/ sig.reason = "turn-complete" /\ sig.needsTurn /\ l.type = "Stop"
          BY <2>1, <3>6 DEF Noticed
        <5> QED
          BY <2>5, <5>1 DEF Suppressed, Shaped
      <4>5. Counts(prov, note) => r.active = TRUE \/ l.type = "task_complete"
        BY <3>2, <4>2, <4>3, <4>4 DEF Counts
      <4>6. Counts(prov, note) => note.turn \notin Heads(prov, h)
        <5>1. SUFFICES ASSUME Counts(prov, note), note.turn \in Heads(prov, h) PROVE FALSE
          OBVIOUS
        <5>2. note.turn < l.turn
          BY <1>5, <4>5, <5>1
        <5> QED
          BY <1>1, <3>2, <3>3, <5>2
      <4>7. Later(F, T, m, q, note.turn)
        BY <2>1, <3>2, <3>3, <4>1, <4>2, LaterTold DEF l
      <4>8. OwnNote(note)
        <5>1. SUFFICES ASSUME Worded(r, sig, A) # NoText, sig.body = NoText, l.turn # NoText
                       PROVE  Worded(r, sig, A) >= l.turn
          BY <1>1, <3>2, <3>3, <3>4 DEF OwnNote, NoText
        <5>2. CASE prov = "codex"
          BY <4>2, <5>1, <5>2
        <5>3. CASE prov = "claude"
          <6>1. l.type = "Stop" /\ r.body = NoText
            BY <4>4, <5>1, <5>3
          <6>2. l.turn <= A[Len(A)]
            BY <6>1 DEF Written, l
          <6>3. A # <<>> /\ Worded(r, sig, A) = A[Len(A)]
            BY <3>4, <5>1, <6>1
          <6>4. A[Len(A)] \in Nat
            BY <1>1, <6>3
          <6> QED
            BY <1>1, <6>2, <6>3, <6>4
        <5>4. CASE prov = "opencode"
          <6>1. A = <<>> /\ r.active = TRUE /\ Current(F, r, m - 1)
            BY <4>3, <5>4
          <6>2. Worded(r, sig, A) = r.body /\ r.body # NoText
            BY <3>4, <5>1, <6>1
          <6>3. r.body = F[m - 1].turn /\ m - 1 \in 1..Len(F)
            BY <6>1, <6>2 DEF Current
          <6>4. l.turn = F[m - 1].turn
            BY <1>1, <1>2, <2>1, <6>3
          <6> QED
            BY <1>1, <6>2, <6>3, <6>4
        <5> QED
          BY <5>2, <5>3, <5>4
      <4> QED
        BY <1>10, <2>3, <3>1, <4>6, <4>7, <4>8
    <3> QED
      BY <3>5, <3>6
  <2> QED
    BY <2>4, <2>5
<1> QED
  BY <1>2, <1>11, <1>12, <1>13, <1>14, <1>15, <1>16 DEF Signals

\* What is told is right.
Telling(prov, F, T, k, r, h) == Fresh(prov, F, T, k, r, h) /\ Own(h)

\* Settling what is held back tells of a turn that was not told before.
LEMMA ToldFlush ==
    ASSUME NEW prov \in {"codex", "claude", "opencode"}, NEW F, NEW T, NEW A, Written(prov, F, T, A),
           prov # "claude" => A = <<>>, NEW n \in Nat, NEW r, Sound(prov, F, r, n),
           NEW s \in Seq(Notes), NEW h, h = s \o r.out, Fresh(prov, F, T, Line(n), r, h), Own(h),
           NEW q, Settled(r, q, r.body, A), NEW g, g = s \o q.out
    PROVE  Telling(prov, F, T, Line(n), q, g)
<1>. DEFINE k == Line(n)
<1>1. Len(F) \in Nat /\ k \in Nat
  <2>1. F \in Seq(FileLines)
    BY DEF Written
  <2>2. k \in Nat
    BY DEF Line
  <2> QED
    BY <2>1, <2>2
<1>. HIDE DEF k
<1>2. r.out \in Seq(Notes) /\ h \in Seq(Notes)
  BY DEF Sound, Shaped
<1>3. ASSUME NEW d \in Heads(prov, h) PROVE Later(F, T, k, r, d)
  BY DEF Fresh, k
<1>4. ASSUME q.active = TRUE => r.active = TRUE, Held(q) => q.pending = r.pending
      PROVE  \A d \in Heads(prov, h) : Later(F, T, k, q, d)
  <2>1. SUFFICES ASSUME NEW d \in Heads(prov, h) PROVE Later(F, T, k, q, d)
    OBVIOUS
  <2>2. k <= k
    BY <1>1
  <2> QED
    BY <1>1, <1>3, <1>4, <2>2, LaterKept
<1>5. CASE ~Held(r)
  <2>1. q.out = r.out /\ q.active = r.active /\ q.pending = <<>>
    BY <1>5 DEF Settled
  <2>2. \A d \in Heads(prov, h) : Later(F, T, k, q, d)
    BY <1>4, <2>1 DEF Held
  <2> QED
    BY <2>1, <2>2 DEF Fresh, Telling, k
<1>6. CASE Held(r)
  <2>1. PICK note \in Notes : Completed(r, r.body, note, A) /\ q.out = Append(r.out, note)
    BY <1>6 DEF Settled
  <2>2. PICK w \in Nat : /\ note = [reason |-> "turn-complete", turn |-> r.pending[1].turn, ends |-> TRUE, body |-> w]
                         /\ A = <<>> /\ w # NoText => w = r.body
    BY <2>1 DEF Completed
  <2>3. prov = "opencode" /\ Current(F, r, k) /\ A = <<>> /\ r.active = TRUE /\ r.pending # <<>>
    BY <1>6 DEF Sound, Held, k
  <2>4. /\ k \in 1..Len(F) /\ note.turn = F[k].turn /\ note.turn = r.pending[1].turn /\ note.body = w
        /\ F[k].type \notin Starts /\ (w # NoText => w = F[k].turn)
    BY <2>2, <2>3 DEF Current
  <2>5. F[k].turn \in Nat
    BY <2>4 DEF Written
  <2>6. OwnNote(note)
    BY <2>4, <2>5 DEF OwnNote
  <2>7. note.turn \notin Heads(prov, h)
    <3>1. SUFFICES ASSUME note.turn \in Heads(prov, h) PROVE FALSE
      OBVIOUS
    <3>2. note.turn < r.pending[1].turn
      BY <1>3, <1>6, <3>1 DEF Later
    <3> QED
      BY <2>4, <2>5, <3>2
  <2>8. q.active = FALSE
    BY <1>6 DEF Settled, Ended
  <2>9. Later(F, T, k, q, note.turn)
    BY <2>3, <2>4, <2>8, LaterTold
  <2>10. \A d \in Heads(prov, h) : Later(F, T, k, q, d)
    BY <1>4, <2>8 DEF Held
  <2>11. g = Append(h, note)
    <3>1. s \o Append(r.out, note) = Append(s \o r.out, note)
      BY <1>2, LastOfBoth
    <3> QED
      BY <2>1, <3>1
  <2>12. Grown(prov, h, note, g)
    BY <1>2, <2>11, OneMoreCounts, Zenon
  <2>13. Counts(prov, note)
    BY <2>2, <2>3 DEF Counts
  <2> QED
    BY <2>6, <2>7, <2>9, <2>10, <2>12, <2>13 DEF Fresh, Grown, Telling, k
<1> QED
  BY <1>5, <1>6

\* A registration in the midst of reading: what s and r tell is right.
Reading(prov, F, T, s, r, n) ==
    /\ Sound(prov, F, r, n)
    /\ Fresh(prov, F, T, Line(n), r, s \o r.out)
    /\ Own(s \o r.out)

\* One half read leaves it so.
LEMMA ReadingStep ==
    ASSUME NEW prov \in {"codex", "claude", "opencode"}, NEW F, NEW T, NEW A, Written(prov, F, T, A),
           prov # "claude" => A = <<>>, NEW n \in Nat, n > 0, n <= 2 * Len(F), NEW s \in Seq(Notes),
           NEW r, Reading(prov, F, T, s, r, n - 1), NEW q, q = read_half(prov, r, F, n, A)
    PROVE  Reading(prov, F, T, s, q, n)
<1>. DEFINE k == Line(n)
            h == s \o r.out
            g == s \o q.out
<1>0. /\ Len(F) \in Nat /\ A \in Seq(Nat) /\ k \in Nat
      /\ Begins(n) => Line(n - 1) = k
      /\ ~Begins(n) => Line(n - 1) = k - 1 /\ Begins(n - 1)
  BY Halves DEF Written
<1>1. Sound(prov, F, r, n - 1) /\ Fresh(prov, F, T, Line(n - 1), r, h) /\ Own(h)
  BY DEF Reading
<1>2. Stepped(prov, F, n, r, q, A)
  BY <1>0, <1>1, SoundStep, Zenon
<1>3. /\ Sound(prov, F, q, n)
      /\ Begins(n) => Same(r, q)
      /\ ~Begins(n) => Taken(prov, F[k], r, q, A) /\ k \in 1..Len(F)
  BY <1>2 DEF Stepped
<1>. HIDE DEF k, h, g
<1>4. ASSUME Same(r, q), NEW j \in Nat, j <= k, Fresh(prov, F, T, j, r, h) PROVE Fresh(prov, F, T, k, q, g) /\ Own(g)
  <2>1. g = h
    BY <1>4 DEF Same, g, h
  <2>2. (q.active = TRUE => r.active = TRUE) /\ (Held(q) => q.pending = r.pending)
    BY <1>4 DEF Same, Alike
  <2>3. ASSUME NEW d \in Heads(prov, h) PROVE Later(F, T, k, q, d)
    <3>1. Later(F, T, j, r, d)
      BY <1>4 DEF Fresh
    <3> QED
      BY <1>0, <1>4, <2>2, <3>1, LaterKept
  <2> QED
    BY <1>1, <1>4, <2>1, <2>3 DEF Fresh
<1>5. CASE Begins(n)
  <2>1. k <= k /\ Fresh(prov, F, T, k, r, h)
    BY <1>0, <1>1, <1>5
  <2>2. Fresh(prov, F, T, k, q, g) /\ Own(g)
    BY <1>0, <1>3, <1>4, <1>5, <2>1
  <2> QED
    BY <1>3, <2>2 DEF Reading, k, g
<1>6. CASE ~Begins(n)
  <2>1. k \in 1..Len(F) /\ Fresh(prov, F, T, k - 1, r, h) /\ k - 1 \in Nat /\ k - 1 <= k
    BY <1>0, <1>1, <1>3, <1>6
  <2>2. CASE Same(r, q)
    BY <1>3, <1>4, <2>1, <2>2 DEF Reading, k, g
  <2>3. CASE Applied(r, q, classify(prov, F[k]), A)
    <3>1. Shaped(r) /\ (prov # "opencode" => r.body = NoText /\ r.pending = <<>>)
      BY <1>1 DEF Sound
    <3>2. prov = "opencode" /\ (r.active = TRUE \/ r.pending # <<>>) => Current(F, r, k - 1)
      BY <1>0, <1>1, <1>6 DEF Sound
    <3>3. Fresh(prov, F, T, k, q, g) /\ Own(g)
      BY <1>1, <2>1, <2>3, <3>1, <3>2, ToldApplied DEF g, h
    <3> QED
      BY <1>3, <3>3 DEF Reading, k, g
  <2>4. r.partial = FALSE \/ r.partial = TRUE
    BY <1>1 DEF Sound, Shaped
  <2> QED
    BY <1>3, <1>6, <2>2, <2>3, <2>4 DEF Taken
<1> QED
  BY <1>5, <1>6

-----------------------------------------------------------------------------
(* A scan.                                                                 *)

\* What holds of the first half, and of each half when of the one before, holds of all.
LEMMA EveryHalf ==
    ASSUME NEW c \in Nat, NEW e \in Nat, c <= e, NEW S \in SUBSET Nat, c \in S,
           \A n \in S : c <= n /\ n < e => n + 1 \in S
    PROVE  \A n \in c..e : n \in S
<1>. DEFINE U == {k \in Nat : c + k <= e => c + k \in S}
<1>1. 0 \in U
  OBVIOUS
<1>2. ASSUME NEW k \in U PROVE k + 1 \in U
  <2>1. SUFFICES ASSUME c + (k + 1) <= e PROVE c + (k + 1) \in S
    OBVIOUS
  <2>2. c + k \in S /\ c <= c + k /\ c + k < e /\ (c + k) + 1 = c + (k + 1)
    BY <2>1
  <2> QED
    BY <2>2
<1>3. U = Nat
  <2>1. U \subseteq Nat
    OBVIOUS
  <2>. HIDE DEF U
  <2> QED
    BY <1>1, <1>2, <2>1, AllNumbers
<1>4. ASSUME NEW n \in c..e PROVE n \in S
  <2>1. n - c \in U /\ c + (n - c) = n /\ n <= e
    BY <1>3
  <2> QED
    BY <2>1
<1> QED
  BY <1>4

\* The registrations of one read from half c to half e, with what was answered at each.
Reads(prov, F, V, ans, c, e) ==
    \A k \in c + 1 .. e : ans[k] \in Seq(Nat) /\ V[k] = read_half(prov, V[k - 1], F, k, ans[k])

\* A was answered at each half.
Always(A) == [k \in Nat |-> A]

\* One read from half c to half e, of what is answered when it reads.
Scanned(prov, F, r, c, e, A) ==
    \E V : /\ V[c] = r /\ Reads(prov, F, V, Always(A), c, e)
           /\ scan_source(prov, r, F, e, A) = flush_pending_opencode_idle(V[e], A)

\* A scan reads to the end, and settles what is held back.
LEMMA ScanReads ==
    ASSUME NEW prov, NEW F, NEW r, NEW c \in Nat, r.cursor = c, NEW e \in Nat, c < e, NEW A \in Seq(Nat)
    PROVE  Scanned(prov, F, r, c, e, A)
<1>. DEFINE Body(u, n) == IF n = c THEN r ELSE read_half(prov, u[n - 1], F, n, A)
            Good(u, n) == u = [i \in c..n |-> u[i]] /\ \A i \in c..n : u[i] = Body(u, i)
            S == {n \in Nat : \E u : Good(u, n)}
<1>1. c \in S
  <2>. DEFINE u == [i \in c..c |-> r]
  <2>1. Good(u, c)
    OBVIOUS
  <2>. HIDE DEF Good
  <2> QED
    BY <2>1
<1>2. ASSUME NEW n \in S, c <= n, n < e PROVE n + 1 \in S
  <2>1. PICK u : Good(u, n)
    <3>. HIDE DEF Good
    <3> QED
      OBVIOUS
  <2>. DEFINE x == Body(u, n + 1)
              t == [i \in c..n + 1 |-> IF i <= n THEN u[i] ELSE x]
  <2>2. \A i \in c..n : t[i] = u[i]
    BY <1>2
  <2>3. t[n + 1] = x /\ n + 1 # c /\ n \in c..n /\ (n + 1) - 1 = n
    BY <1>2
  <2>4. t[n + 1] = Body(t, n + 1)
    BY <2>2, <2>3
  <2>5. ASSUME NEW i \in c..n PROVE t[i] = Body(t, i)
    <3>1. i # c => i - 1 \in c..n
      BY <1>2
    <3>2. t[i] = u[i] /\ u[i] = Body(u, i)
      BY <2>1, <2>2
    <3> QED
      BY <2>2, <3>1, <3>2
  <2>6. t = [i \in c..n + 1 |-> t[i]]
    OBVIOUS
  <2>. HIDE DEF t, x
  <2>7. \A i \in c..n + 1 : t[i] = Body(t, i)
    <3>1. \A i \in c..n + 1 : i \in c..n \/ i = n + 1
      BY <1>2
    <3> QED
      BY <2>4, <2>5, <3>1
  <2>8. Good(t, n + 1)
    BY <2>6, <2>7
  <2>. HIDE DEF Good
  <2> QED
    BY <2>8
<1>3. PICK u : Good(u, e)
  <2>. HIDE DEF Good
  <2>1. S \subseteq Nat /\ e \in c..e
    OBVIOUS
  <2>. HIDE DEF S
  <2>2. e \in S
    <3>1. \A n \in S : c <= n /\ n < e => n + 1 \in S
      BY <1>2
    <3>2. S \in SUBSET Nat /\ c <= e
      BY <2>1
    <3>3. \A n \in c..e : n \in S
      BY <1>1, <3>1, <3>2, EveryHalf
    <3> QED
      BY <2>1, <3>3
  <2> QED
    BY <2>2 DEF S
<1>4. u = [n \in c..e |-> Body(u, n)]
  BY <1>3
<1>. DEFINE V == CHOOSE f : f = [n \in c..e |-> Body(f, n)]
<1>5. V = [n \in c..e |-> Body(V, n)]
  <2>1. \E f : f = [n \in c..e |-> Body(f, n)]
    BY <1>4
  <2> QED
    BY <2>1
<1>6. scan_source(prov, r, F, e, A) = flush_pending_opencode_idle(V[e], A)
  BY DEF scan_source
<1>. HIDE DEF V
<1>7. V[c] = r
  BY <1>5
<1>8. Reads(prov, F, V, Always(A), c, e)
  <2>1. SUFFICES ASSUME NEW k \in c + 1 .. e PROVE V[k] = read_half(prov, V[k - 1], F, k, A)
    BY DEF Reads, Always
  <2>2. k \in c..e /\ k # c
    OBVIOUS
  <2> QED
    BY <1>5, <2>2
<1> QED
  BY <1>6, <1>7, <1>8 DEF Scanned

-----------------------------------------------------------------------------
(* Between scans.                                                          *)

\* What a registration keeps when what it tells is sent.
Emptied(q) == [q EXCEPT !.out = <<>>]

\* How far into the source of L halves r has read, in lines; nothing, of a source replaced.
Through(r, L) == IF r.cursor > L THEN 0 ELSE Line(r.cursor)

\* A registration that is not reading, with what it told, s.
Resting(prov, F, T, L, s, r) ==
    /\ Shaped(r) /\ r.cursor \in Nat /\ r.out = <<>> /\ r.pending = <<>>
    /\ s \in Seq(Notes) /\ Own(s) /\ Fresh(prov, F, T, Through(r, L), r, s)
    /\ r.cursor <= L => Sound(prov, F, r, r.cursor)
    /\ r.cursor > L => prov = "claude" /\ r.body = NoText

\* What is sent leaves the registration as it was.
LEMMA EmptiedEffect ==
    ASSUME NEW q, Shaped(q)
    PROVE  /\ Shaped(Emptied(q)) /\ Alike(q, Emptied(q)) /\ Emptied(q).out = <<>>
           /\ Emptied(q).cursor = q.cursor /\ Emptied(q).keys = q.keys /\ Emptied(q).partial = q.partial
<1>. DEFINE r == Emptied(q)
<1>1. <<>> \in Seq(Notes)
  OBVIOUS
<1>2. /\ DOMAIN r = Fields /\ r.out = <<>>
      /\ r.active = q.active /\ r.turn = q.turn /\ r.body = q.body /\ r.pending = q.pending
      /\ r.cursor = q.cursor /\ r.keys = q.keys /\ r.partial = q.partial /\ r.read = q.read
  BY DEF Shaped, Fields, Emptied
<1>. HIDE DEF r
<1> QED
  BY <1>1, <1>2 DEF Shaped, Alike, r

\* Sound and what was told do not look at what is still to be sent.
LEMMA EmptiedSound ==
    ASSUME NEW prov, NEW F, NEW T, NEW n, NEW q, Sound(prov, F, q, n), NEW k, NEW h, Fresh(prov, F, T, k, q, h)
    PROVE  Sound(prov, F, Emptied(q), n) /\ Fresh(prov, F, T, k, Emptied(q), h)
<1>. DEFINE r == Emptied(q)
<1>1. /\ Shaped(r) /\ Alike(q, r) /\ r.cursor = q.cursor /\ r.partial = q.partial
  BY EmptiedEffect DEF Sound
<1>. HIDE DEF r
<1>2. Sound(prov, F, r, n)
  BY <1>1 DEF Sound, Alike, Current
<1>3. Held(r) => Held(q)
  BY <1>1 DEF Alike, Held
<1>4. ASSUME NEW d, Later(F, T, k, q, d) PROVE Later(F, T, k, r, d)
  BY <1>1, <1>3, <1>4 DEF Alike, Later
<1> QED
  BY <1>2, <1>4 DEF Fresh, r

\* What a scan's end leaves at rest.
LEMMA Rested ==
    ASSUME NEW prov, NEW F, NEW T, NEW L \in Nat, NEW q, Sound(prov, F, q, L), q.pending = <<>>,
           NEW h \in Seq(Notes), Fresh(prov, F, T, Line(L), q, h), Own(h)
    PROVE  Resting(prov, F, T, L, h, Emptied(q))
<1>. DEFINE r == Emptied(q)
<1>1. Shaped(r) /\ r.out = <<>> /\ r.cursor = L /\ r.pending = <<>>
  BY EmptiedEffect DEF Alike, Sound
<1>2. Sound(prov, F, r, L) /\ Fresh(prov, F, T, Line(L), r, h)
  BY EmptiedSound
<1>. HIDE DEF r
<1>3. Through(r, L) = Line(L)
  BY <1>1 DEF Through
<1> QED
  BY <1>1, <1>2, <1>3 DEF Resting, r

\* A scan tells what is right, and leaves the registration at rest.
LEMMA ScanResting ==
    ASSUME NEW prov \in {"codex", "claude", "opencode"}, NEW F, NEW T, NEW A, Written(prov, F, T, A),
           prov # "claude" => A = <<>>, NEW L \in Nat, L <= 2 * Len(F), NEW s, NEW r, Resting(prov, F, T, L, s, r),
           NEW q, q = scan_source(prov, r, F, L, A)
    PROVE  Resting(prov, F, T, L, s \o q.out, Emptied(q))
<1>. DEFINE c == r.cursor
<1>1. /\ Shaped(r) /\ c \in Nat /\ r.out = <<>> /\ r.pending = <<>> /\ s \in Seq(Notes) /\ s \o <<>> = s
      /\ Own(s) /\ Fresh(prov, F, T, Through(r, L), r, s) /\ Len(F) \in Nat /\ A \in Seq(Nat)
  BY DEF Resting, Written
<1>2. CASE L < c
  <2>1. /\ q = [r EXCEPT !.cursor = L, !.partial = FALSE, !.active = FALSE,
                         !.turn = NoTurn, !.pending = <<>>, !.read = 0]
        /\ prov = "claude" /\ r.body = NoText
    BY <1>1, <1>2 DEF scan_source, Resting
  <2>2. /\ DOMAIN q = Fields /\ q.cursor = L /\ q.partial = FALSE /\ q.active = FALSE /\ q.pending = <<>>
        /\ q.body = NoText /\ q.out = <<>> /\ q.read = 0 /\ q.turn = NoTurn
    BY <1>1, <2>1 DEF Shaped, Fields
  <2>3. <<>> \in Seq(FileLines) /\ <<>> \in Seq(Notes)
    OBVIOUS
  <2>4. Shaped(q)
    <3>1. q.pending \in Seq(FileLines) /\ q.out \in Seq(Notes)
      BY <2>2, <2>3
    <3>2. q.partial \in BOOLEAN /\ q.active \in BOOLEAN
      BY <2>2, Zenon
    <3>3. q.body \in Nat /\ q.read \in Nat
      BY <2>2 DEF NoText
    <3> QED
      BY <2>2, <3>1, <3>2, <3>3 DEF Shaped
  <2>5. Sound(prov, F, q, L)
    BY <2>1, <2>2, <2>4 DEF Sound
  <2>6. Through(r, L) = 0
    BY <1>1, <1>2 DEF Through
  <2>7. Line(L) \in Nat /\ 0 <= Line(L)
    BY DEF Line
  <2>8. ASSUME NEW d \in Heads(prov, s) PROVE Later(F, T, Line(L), q, d)
    <3>1. Later(F, T, 0, r, d)
      BY <1>1, <2>6 DEF Fresh
    <3>2. ~Held(q) /\ q.active # TRUE
      BY <2>2 DEF Held
    <3> QED
      BY <1>1, <2>7, <3>1, <3>2, LaterKept
  <2>9. Fresh(prov, F, T, Line(L), q, s)
    BY <1>1, <2>8 DEF Fresh
  <2>10. s \o q.out = s
    BY <1>1, <2>2
  <2> QED
    BY <1>1, <2>2, <2>5, <2>9, <2>10, Rested
<1>3. CASE L = c
  <2>1. q = r
    BY <1>3 DEF scan_source
  <2>2. Sound(prov, F, r, L) /\ Through(r, L) = Line(L)
    BY <1>1, <1>3 DEF Resting, Through
  <2>3. s \o q.out = s /\ q.pending = <<>>
    BY <1>1, <2>1
  <2> QED
    BY <1>1, <2>1, <2>2, <2>3, Rested
<1>4. CASE L > c
  <2>1. PICK V : /\ V[c] = r /\ Reads(prov, F, V, Always(A), c, L)
                 /\ q = flush_pending_opencode_idle(V[L], A)
    <3>1. Scanned(prov, F, r, c, L, A)
      BY <1>1, <1>4, ScanReads
    <3> QED
      BY <3>1 DEF Scanned
  <2>. DEFINE S == {n \in Nat : n <= L => Reading(prov, F, T, s, V[n], n)}
  <2>2. c \in S
    <3>1. Through(r, L) = Line(c) /\ Sound(prov, F, r, c)
      BY <1>1, <1>4 DEF Through, Resting
    <3> QED
      BY <1>1, <2>1, <3>1 DEF Reading
  <2>3. ASSUME NEW n \in S, c <= n, n < L PROVE n + 1 \in S
    <3>1. n \in Nat /\ Reading(prov, F, T, s, V[n], n)
      BY <1>1, <2>3
    <3>. HIDE DEF S
    <3>3. n + 1 \in Nat /\ n + 1 > 0 /\ n + 1 <= 2 * Len(F) /\ (n + 1) - 1 = n /\ n + 1 \in c + 1 .. L
      BY <1>1, <2>3, <3>1
    <3>2. V[n + 1] = read_half(prov, V[n], F, n + 1, A)
      BY <2>1, <3>3 DEF Reads, Always
    <3>. USE DEF S
    <3>4. Reading(prov, F, T, s, V[n + 1], n + 1)
      BY <1>1, <3>1, <3>2, <3>3, ReadingStep
    <3> QED
      BY <3>3, <3>4
  <2>4. Reading(prov, F, T, s, V[L], L)
    <3>1. \A n \in S : c <= n /\ n < L => n + 1 \in S
      BY <2>3
    <3>2. S \in SUBSET Nat /\ c <= L /\ L \in c..L
      BY <1>1, <1>4
    <3>. HIDE DEF S
    <3>3. \A n \in c..L : n \in S
      BY <1>1, <2>2, <3>1, <3>2, EveryHalf
    <3>4. L \in S
      BY <3>2, <3>3
    <3> QED
      BY <3>4 DEF S
  <2>. DEFINE v == V[L]
  <2>5. Sound(prov, F, v, L) /\ Fresh(prov, F, T, Line(L), v, s \o v.out) /\ Own(s \o v.out)
    BY <2>4 DEF Reading
  <2>6. Sound(prov, F, q, L) /\ Settled(v, q, v.body, A)
    <3>1. q = flush_pending_opencode_idle(v, A)
      BY <2>1
    <3>. HIDE DEF v
    <3>2. Drain(prov, F, L, v, q, A)
      BY <1>1, <2>5, <3>1, SoundFlush, Zenon
    <3> QED
      BY <3>2 DEF Drain
  <2>. HIDE DEF v
  <2>7. Fresh(prov, F, T, Line(L), q, s \o q.out) /\ Own(s \o q.out)
    <3>1. Telling(prov, F, T, Line(L), q, s \o q.out)
      BY <1>1, <2>5, <2>6, ToldFlush
    <3> QED
      BY <3>1 DEF Telling
  <2>8. q.pending = <<>> /\ q.out \in Seq(Notes) /\ Shaped(q) /\ q.cursor = L
    BY <2>6 DEF Settled, Sound, Shaped, Ended
  <2>9. s \o q.out \in Seq(Notes)
    BY <1>1, <2>8
  <2> QED
    BY <2>6, <2>7, <2>8, <2>9, Rested
<1> QED
  BY <1>1, <1>2, <1>3, <1>4

\* v, which read all in one go, has come to half n as r did in several.
Matches(prov, F, n, s, r, v) == Sound(prov, F, v, n) /\ Rel(prov, r, v, s) /\ r.partial = v.partial

\* r, that registered p at half from, and told s, is where one read would be.
Caught(prov, F, p, from, s, r) ==
    /\ from \in Nat /\ from <= r.cursor
    /\ \A V, ans : V[from] = NewRegistration(p, 1, from) /\ Reads(prov, F, V, ans, from, r.cursor) =>
         Matches(prov, F, r.cursor, s, r, V[r.cursor])

\* What is sent is told, not forgotten.
LEMMA RelEmptied ==
    ASSUME NEW prov, NEW F, NEW n, NEW s \in Seq(Notes), NEW q, Shaped(q), NEW v, Matches(prov, F, n, s, q, v)
    PROVE  Matches(prov, F, n, s \o q.out, Emptied(q), v)
<1>. DEFINE r == Emptied(q)
            h == s \o q.out
<1>1. /\ Alike(q, r) /\ r.out = <<>> /\ r.keys = q.keys /\ r.partial = q.partial
  BY EmptiedEffect
<1>2. q.out \in Seq(Notes) /\ h \in Seq(Notes)
  BY DEF Shaped
<1>. HIDE DEF r
<1>3. h \o r.out = h
  BY <1>1, <1>2
<1>4. Turns(h \o r.out) = Turns(s \o q.out)
  BY <1>3
<1>. HIDE DEF h
<1>5. Equal(q, v, s) => Equal(r, v, h)
  BY <1>1, <1>4 DEF Alike, Equal
<1>6. Ahead(q, v, s) => Ahead(r, v, h)
  BY <1>1, <1>4 DEF Alike, Ahead
<1>7. r.keys = v.keys /\ r.turn = v.turn
  BY <1>1 DEF Matches, Rel, Alike
<1>8. Rel(prov, r, v, h)
  BY <1>5, <1>6, <1>7 DEF Matches, Rel
<1> QED
  BY <1>1, <1>8 DEF Matches, r, h

\* One half read by each.
LEMMA MatchStep ==
    ASSUME NEW prov \in {"codex", "claude", "opencode"}, NEW F, NEW T, NEW A, Written(prov, F, T, A),
           NEW n \in Nat, n > 0, n <= 2 * Len(F), NEW s \in Seq(Notes),
           NEW r, Sound(prov, F, r, n - 1), NEW v, Matches(prov, F, n - 1, s, r, v),
           NEW a \in Seq(Nat), NEW b \in Seq(Nat),
           NEW q, q = read_half(prov, r, F, n, a), NEW w, w = read_half(prov, v, F, n, b)
    PROVE  Sound(prov, F, q, n) /\ Matches(prov, F, n, s, q, w)
<1>1. Sound(prov, F, v, n - 1) /\ Rel(prov, r, v, s) /\ r.partial = v.partial
  BY DEF Matches
<1>2. Stepped(prov, F, n, r, q, a)
  BY SoundStep, Zenon
<1>3. Stepped(prov, F, n, v, w, b)
  BY <1>1, SoundStep, Zenon
<1>4. Rel(prov, q, w, s) /\ q.partial = w.partial
  BY <1>1, RelStep
<1> QED
  BY <1>2, <1>3, <1>4 DEF Stepped, Matches

\* What is read is sound.
LEMMA ReadsSound ==
    ASSUME NEW prov \in {"codex", "claude", "opencode"}, NEW F, NEW T, NEW A, Written(prov, F, T, A),
           NEW c \in Nat, NEW e \in Nat, c < e, e <= 2 * Len(F),
           NEW V, Sound(prov, F, V[c], c), Reads(prov, F, V, Always(A), c, e)
    PROVE  Sound(prov, F, V[e], e)
<1>. DEFINE S == {n \in Nat : n <= e => Sound(prov, F, V[n], n)}
<1>1. c \in S /\ Len(F) \in Nat /\ A \in Seq(Nat)
  BY DEF Written
<1>2. ASSUME NEW n \in S, c <= n, n < e PROVE n + 1 \in S
  <2>1. n \in Nat /\ Sound(prov, F, V[n], n)
    BY <1>2
  <2>. HIDE DEF S
  <2>2. n + 1 \in Nat /\ n + 1 > 0 /\ n + 1 <= 2 * Len(F) /\ (n + 1) - 1 = n /\ n + 1 \in c + 1 .. e
    BY <1>1, <1>2, <2>1
  <2>3. V[n + 1] = read_half(prov, V[n], F, n + 1, A)
    BY <2>2 DEF Reads, Always
  <2>4. Stepped(prov, F, n + 1, V[n], V[n + 1], A)
    BY <1>1, <2>1, <2>2, <2>3, SoundStep
  <2> QED
    BY <2>2, <2>4 DEF Stepped, S
<1>3. \A n \in S : c <= n /\ n < e => n + 1 \in S
  BY <1>2
<1>4. S \in SUBSET Nat /\ c <= e /\ e \in c..e
  OBVIOUS
<1>. HIDE DEF S
<1>5. e \in S
  <2>1. \A n \in c..e : n \in S
    BY <1>1, <1>3, <1>4, EveryHalf
  <2> QED
    BY <1>4, <2>1
<1> QED
  BY <1>5 DEF S

\* A scan reads to the end.
LEMMA ScanEnds ==
    ASSUME NEW prov \in {"codex", "claude", "opencode"}, NEW F, NEW T, NEW A, Written(prov, F, T, A),
           NEW L \in Nat, L <= 2 * Len(F), NEW s, NEW r, Resting(prov, F, T, L, s, r), r.cursor <= L,
           NEW q, q = scan_source(prov, r, F, L, A)
    PROVE  Emptied(q).cursor <= L
<1>. DEFINE c == r.cursor
<1>1. Shaped(r) /\ c \in Nat /\ Sound(prov, F, r, c) /\ A \in Seq(Nat)
  BY DEF Resting, Written
<1>2. CASE L = c
  <2>1. q = r
    BY <1>2 DEF scan_source
  <2> QED
    BY <1>1, <1>2, <2>1, EmptiedEffect
<1>3. CASE L > c
  <2>1. PICK V : /\ V[c] = r /\ Reads(prov, F, V, Always(A), c, L)
                 /\ q = flush_pending_opencode_idle(V[L], A)
    <3>1. Scanned(prov, F, r, c, L, A)
      BY <1>1, <1>3, ScanReads
    <3> QED
      BY <3>1 DEF Scanned
  <2>. DEFINE v == V[L]
  <2>2. Sound(prov, F, v, L)
    <3>1. c < L /\ Sound(prov, F, V[c], c)
      BY <1>1, <1>3, <2>1
    <3> QED
      BY <1>1, <2>1, <3>1, ReadsSound
  <2>3. q = flush_pending_opencode_idle(v, A)
    BY <2>1
  <2>. HIDE DEF v
  <2>4. Drain(prov, F, L, v, q, A)
    BY <1>1, <2>2, <2>3, SoundFlush, Zenon
  <2> QED
    BY <2>4, EmptiedEffect DEF Drain, Sound
<1> QED
  BY <1>1, <1>2, <1>3

\* A scan keeps up with the one read.
LEMMA ScanCaught ==
    ASSUME NEW prov \in {"codex", "claude", "opencode"}, NEW F, NEW T, NEW A, Written(prov, F, T, A),
           NEW L \in Nat, L <= 2 * Len(F), NEW s, NEW r, Resting(prov, F, T, L, s, r), r.cursor <= L,
           NEW p, NEW from, Caught(prov, F, p, from, s, r),
           NEW q, q = scan_source(prov, r, F, L, A)
    PROVE  Caught(prov, F, p, from, s \o q.out, Emptied(q))
<1>. DEFINE c == r.cursor
<1>1. /\ Shaped(r) /\ c \in Nat /\ s \in Seq(Notes) /\ Sound(prov, F, r, c) /\ from \in Nat /\ from <= c
      /\ Len(F) \in Nat /\ A \in Seq(Nat)
  BY DEF Resting, Written, Caught
<1>2. CASE L = c
  <2>1. q = r
    BY <1>2 DEF scan_source
  <2>2. Emptied(q).cursor = c
    BY <1>1, <2>1, EmptiedEffect
  <2>3. ASSUME NEW V, NEW ans, V[from] = NewRegistration(p, 1, from), Reads(prov, F, V, ans, from, c)
        PROVE  Matches(prov, F, c, s \o q.out, Emptied(q), V[c])
    <3>1. Matches(prov, F, c, s, r, V[c])
      BY <2>3 DEF Caught
    <3> QED
      BY <1>1, <2>1, <3>1, RelEmptied
  <2> QED
    BY <1>1, <2>2, <2>3 DEF Caught
<1>3. CASE L > c
  <2>1. PICK V : /\ V[c] = r /\ Reads(prov, F, V, Always(A), c, L)
                 /\ q = flush_pending_opencode_idle(V[L], A)
    <3>1. Scanned(prov, F, r, c, L, A)
      BY <1>1, <1>3, ScanReads
    <3> QED
      BY <3>1 DEF Scanned
  <2>2. SUFFICES ASSUME NEW W, NEW ans, W[from] = NewRegistration(p, 1, from), Reads(prov, F, W, ans, from, L)
                 PROVE  Sound(prov, F, V[L], L) /\ Matches(prov, F, L, s, V[L], W[L])
    <3>. DEFINE v == V[L]
    <3>1. q = flush_pending_opencode_idle(v, A)
      BY <2>1
    <3>2. ASSUME NEW W, NEW ans, W[from] = NewRegistration(p, 1, from), Reads(prov, F, W, ans, from, L)
          PROVE  Sound(prov, F, v, L) /\ Matches(prov, F, L, s, v, W[L])
      BY <2>2, <3>2
    <3>3. ASSUME Sound(prov, F, v, L)
          PROVE  Sound(prov, F, q, L) /\ Settled(v, q, v.body, A) /\ q.partial = v.partial
      <4>. HIDE DEF v
      <4>1. Drain(prov, F, L, v, q, A)
        BY <1>1, <3>1, <3>3, SoundFlush, Zenon
      <4> QED
        BY <4>1 DEF Drain
    <3>4. Emptied(q).cursor = L
      <4>1. Sound(prov, F, v, L)
        <5>1. c < L /\ Sound(prov, F, V[c], c)
          BY <1>1, <1>3, <2>1
        <5> QED
          BY <1>1, <2>1, <5>1, ReadsSound
      <4> QED
        BY <3>3, <4>1, EmptiedEffect DEF Sound
    <3>5. ASSUME NEW W, NEW ans, W[from] = NewRegistration(p, 1, from), Reads(prov, F, W, ans, from, L)
          PROVE  Matches(prov, F, L, s \o q.out, Emptied(q), W[L])
      <4>1. Sound(prov, F, v, L) /\ Matches(prov, F, L, s, v, W[L])
        BY <3>2, <3>5
      <4>2. Sound(prov, F, q, L) /\ Settled(v, q, v.body, A) /\ q.partial = v.partial
        BY <3>3, <4>1
      <4>. HIDE DEF v
      <4>3. Rel(prov, q, W[L], s)
        BY <1>1, <4>1, <4>2, RelFlush DEF Matches
      <4>4. Matches(prov, F, L, s, q, W[L]) /\ Shaped(q)
        BY <4>1, <4>2, <4>3 DEF Matches, Sound
      <4> QED
        BY <1>1, <4>4, RelEmptied
    <3> QED
      BY <1>1, <1>3, <3>4, <3>5 DEF Caught
  <2>. DEFINE S == {n \in Nat : n <= L => Sound(prov, F, V[n], n) /\ Matches(prov, F, n, s, V[n], W[n])}
  <2>3. c \in S
    <3>1. \A k \in from + 1 .. c : k \in from + 1 .. L
      BY <1>1, <1>3
    <3>2. Reads(prov, F, W, ans, from, c)
      BY <2>2, <3>1 DEF Reads
    <3>3. Matches(prov, F, c, s, r, W[c])
      BY <2>2, <3>2 DEF Caught
    <3> QED
      BY <1>1, <2>1, <3>3
  <2>4. ASSUME NEW n \in S, c <= n, n < L PROVE n + 1 \in S
    <3>1. n \in Nat /\ Sound(prov, F, V[n], n) /\ Matches(prov, F, n, s, V[n], W[n])
      BY <1>1, <2>4
    <3>. HIDE DEF S
    <3>2. /\ n + 1 \in Nat /\ n + 1 > 0 /\ n + 1 <= 2 * Len(F) /\ (n + 1) - 1 = n
          /\ n + 1 \in c + 1 .. L /\ n + 1 \in from + 1 .. L
      BY <1>1, <2>4, <3>1
    <3>3. V[n + 1] = read_half(prov, V[n], F, n + 1, A)
      BY <2>1, <3>2 DEF Reads, Always
    <3>4. ans[n + 1] \in Seq(Nat) /\ W[n + 1] = read_half(prov, W[n], F, n + 1, ans[n + 1])
      BY <2>2, <3>2 DEF Reads
    <3>5. Sound(prov, F, V[n + 1], n + 1) /\ Matches(prov, F, n + 1, s, V[n + 1], W[n + 1])
      BY <1>1, <3>1, <3>2, <3>3, <3>4, MatchStep
    <3> QED
      BY <3>2, <3>5 DEF S
  <2>5. L \in S
    <3>1. \A n \in S : c <= n /\ n < L => n + 1 \in S
      BY <2>4
    <3>2. S \in SUBSET Nat /\ c <= L /\ L \in c..L
      BY <1>1, <1>3
    <3>. HIDE DEF S
    <3>3. \A n \in c..L : n \in S
      BY <1>1, <2>3, <3>1, <3>2, EveryHalf
    <3> QED
      BY <3>2, <3>3
  <2> QED
    BY <2>5
<1> QED
  BY <1>1, <1>2, <1>3

\* v begins at half c, with nothing read.
Fallow(v, c) ==
    /\ Shaped(v) /\ v.cursor = c /\ v.out = <<>> /\ v.pending = <<>> /\ v.active = FALSE
    /\ v.turn = NoTurn /\ v.body = NoText
    /\ \A prov, F : Sound(prov, F, v, c)

\* So does a new registration.
LEMMA NewIsFallow ==
    ASSUME NEW p, NEW c \in Nat, NEW v, v = NewRegistration(p, 1, c)
    PROVE  Fallow(v, c)
<1>1. /\ DOMAIN v = Fields /\ v.cursor = c /\ v.out = <<>> /\ v.pending = <<>> /\ v.active = FALSE
      /\ v.turn = NoTurn /\ v.body = NoText /\ v.partial = FALSE /\ v.keys = <<>> /\ v.read = 0
  BY DEF NewRegistration, Fields
<1>2. v.pending \in Seq(FileLines) /\ v.out \in Seq(Notes)
  <2>1. <<>> \in Seq(FileLines) /\ <<>> \in Seq(Notes)
    OBVIOUS
  <2> QED
    BY <1>1, <2>1
<1>3. v.partial \in BOOLEAN /\ v.active \in BOOLEAN
  BY <1>1, Zenon
<1>4. v.body \in Nat /\ v.read \in Nat
  BY <1>1 DEF NoText
<1>5. Shaped(v)
  BY <1>1, <1>2, <1>3, <1>4 DEF Shaped
<1> QED
  BY <1>1, <1>5 DEF Sound, Fallow

\* What one read from where p registered tells of turns is what was told of them.
LEMMA WholeTold ==
    ASSUME NEW prov \in {"codex", "claude", "opencode"}, NEW F, NEW T, NEW A, Written(prov, F, T, A),
           NEW L, NEW s, NEW r, Resting(prov, F, T, L, s, r),
           NEW p, NEW from, Caught(prov, F, p, from, s, r),
           NEW w, w = scan_source(prov, NewRegistration(p, 1, from), F, r.cursor, A)
    PROVE  Turns(s) = Turns(w.out)
<1>. DEFINE c == r.cursor
            v == NewRegistration(p, 1, from)
<1>1. /\ c \in Nat /\ s \in Seq(Notes) /\ r.out = <<>> /\ r.pending = <<>> /\ s \o r.out = s /\ A \in Seq(Nat)
      /\ from \in Nat /\ from <= c
  BY DEF Resting, Caught, Written
<1>2. v.cursor = from /\ v.out = <<>> /\ v.active = FALSE
  <2>. HIDE DEF v
  <2>1. v = NewRegistration(p, 1, from)
    BY DEF v
  <2> QED
    <3>1. Fallow(v, from)
      BY <1>1, <2>1, NewIsFallow, Zenon
    <3> QED
      BY <3>1 DEF Fallow
<1>3. CASE c = from
  <2>1. w = v
    <3>1. w = scan_source(prov, v, F, c, A)
      OBVIOUS
    <3>. HIDE DEF v
    <3> QED
      BY <1>1, <1>2, <1>3, <3>1 DEF scan_source
  <2>. DEFINE V == [k \in Nat |-> v]
  <2>2. V[from] = v /\ V[c] = v
    BY <1>1
  <2>3. Reads(prov, F, V, V, from, c)
    BY <1>1, <1>3 DEF Reads
  <2>4. Matches(prov, F, c, s, r, V[c])
    BY <2>2, <2>3 DEF Caught
  <2>5. Rel(prov, r, v, s)
    BY <2>2, <2>4 DEF Matches
  <2>. HIDE DEF v
  <2>6. Equal(r, v, s)
    BY <1>2, <2>5 DEF Rel, Ahead, Held
  <2> QED
    BY <1>1, <2>1, <2>6 DEF Equal
<1>4. CASE c # from
  <2>1. PICK V : /\ V[from] = v /\ Reads(prov, F, V, Always(A), from, c)
                 /\ w = flush_pending_opencode_idle(V[c], A)
    <3>1. from < c
      BY <1>1, <1>4
    <3>2. Scanned(prov, F, v, from, c, A)
      <4>. HIDE DEF v
      <4> QED
        BY <1>1, <1>2, <3>1, ScanReads
    <3> QED
      BY <3>2 DEF Scanned
  <2>2. Matches(prov, F, c, s, r, V[c])
    BY <2>1 DEF Caught
  <2>. DEFINE e == V[c]
  <2>3. Sound(prov, F, e, c) /\ Rel(prov, r, e, s) /\ w = flush_pending_opencode_idle(e, A)
    BY <2>1, <2>2 DEF Matches
  <2>. HIDE DEF e
  <2>4. Settled(e, w, e.body, A) /\ Shaped(e)
    <3>1. Drain(prov, F, c, e, w, A)
      BY <1>1, <2>3, SoundFlush, Zenon
    <3> QED
      BY <2>3, <3>1 DEF Drain, Sound
  <2>5. Turns(w.out) = Turns(s \o r.out)
    <3>1. Agree(s, r, w)
      BY <1>1, <2>3, <2>4, RelWhole, Zenon
    <3> QED
      BY <3>1 DEF Agree
  <2> QED
    BY <1>1, <2>5
<1> QED
  BY <1>3, <1>4

-----------------------------------------------------------------------------
(* The source changes.                                                     *)

\* G is F with one line more; T turns were begun, and U are now.
Longer(F, T, G, U) ==
    \E l : /\ G = Append(F, l) /\ l.turn = U
           /\ U = IF l.type \in Starts THEN T + 1 ELSE T
           /\ l.type = "task_complete" => F # <<>> /\ F[Len(F)].type \in Starts

\* What is before the new line is as it was.
LEMMA LongerLines ==
    ASSUME NEW F, F \in Seq(FileLines), NEW T \in Nat, NEW G, NEW U, Longer(F, T, G, U)
    PROVE  /\ Len(F) \in Nat /\ Len(G) = Len(F) + 1 /\ U \in Nat /\ T <= U /\ G[Len(F) + 1].turn = U
           /\ \A i \in 1..Len(F) : G[i] = F[i]
           /\ G[Len(F) + 1].type \in Starts => T < U
           /\ G[Len(F) + 1].type = "task_complete" => F # <<>> /\ F[Len(F)].type \in Starts
<1>1. PICK l : /\ G = Append(F, l) /\ l.turn = U
               /\ U = IF l.type \in Starts THEN T + 1 ELSE T
               /\ l.type = "task_complete" => F # <<>> /\ F[Len(F)].type \in Starts
  BY DEF Longer
<1>2. Len(G) = Len(F) + 1 /\ G[Len(F) + 1] = l /\ \A i \in 1..Len(F) : G[i] = F[i]
  BY <1>1
<1>3. U \in Nat /\ T <= U /\ (l.type \in Starts => T < U)
  BY <1>1
<1> QED
  BY <1>1, <1>2, <1>3

\* A turn told is before what one line more is of.
LEMMA LaterLonger ==
    ASSUME NEW prov, NEW F, NEW T, NEW A, Written(prov, F, T, A), NEW G, NEW U, Longer(F, T, G, U),
           NEW k \in Nat, NEW r, ~Held(r), NEW d \in Nat, Later(F, T, k, r, d)
    PROVE  Later(G, U, k, r, d)
<1>0. F \in Seq(FileLines) /\ T \in Nat
  BY DEF Written
<1>. DEFINE e == Len(F) + 1
<1>1. /\ Len(F) \in Nat /\ Len(G) = e /\ U \in Nat /\ T <= U /\ G[e].turn = U
      /\ \A i \in 1..Len(F) : G[i] = F[i]
      /\ G[e].type \in Starts => T < U
      /\ G[e].type = "task_complete" => F # <<>> /\ F[Len(F)].type \in Starts
  BY <1>0, LongerLines
<1>2. e \in Nat /\ \A i \in 1..e : i \in 1..Len(F) \/ i = e
  BY <1>1
<1>. HIDE DEF e
<1>3. /\ d <= T
      /\ r.active = TRUE \/ (F # <<>> /\ F[Len(F)].type \in Starts) => d < T
      /\ \A m \in 1..Len(F) : m > k =>
           /\ d <= F[m].turn
           /\ r.active = TRUE \/ F[m].type \in Starts \cup {"task_complete"} => d < F[m].turn
  BY DEF Later
<1>4. d <= U /\ (r.active = TRUE \/ G[e].type \in Starts \cup {"task_complete"} => d < U)
  BY <1>0, <1>1, <1>3
<1>5. ASSUME NEW m \in 1..e, m > k
      PROVE  /\ d <= G[m].turn
             /\ r.active = TRUE \/ G[m].type \in Starts \cup {"task_complete"} => d < G[m].turn
  <2>1. CASE m = e
    BY <1>1, <1>4, <2>1
  <2>2. CASE m \in 1..Len(F)
    BY <1>1, <1>3, <1>5, <2>2
  <2> QED
    BY <1>2, <2>1, <2>2
<1>6. r.active = TRUE \/ (G # <<>> /\ G[Len(G)].type \in Starts) => d < U
  BY <1>1, <1>4
<1> QED
  BY <1>1, <1>4, <1>5, <1>6 DEF Later

\* What is open stays so.
LEMMA SoundLonger ==
    ASSUME NEW prov, NEW F, NEW T, NEW A, Written(prov, F, T, A), NEW G, NEW U, Longer(F, T, G, U),
           NEW n, NEW r, Sound(prov, F, r, n)
    PROVE  Sound(prov, G, r, n)
<1>1. /\ Len(F) \in Nat /\ Len(G) = Len(F) + 1
      /\ \A i \in 1..Len(F) : G[i] = F[i]
  BY LongerLines DEF Written
<1>2. \A i \in 1..Len(F) : i \in 1..Len(G)
  BY <1>1
<1>3. ASSUME NEW m, Current(F, r, m) PROVE Current(G, r, m)
  BY <1>1, <1>2, <1>3 DEF Current
<1> QED
  BY <1>3 DEF Sound

\* One read of what there was makes what it made.
LEMMA ReadsLonger ==
    ASSUME NEW prov, NEW F, NEW T, NEW A, Written(prov, F, T, A), NEW G, NEW U, Longer(F, T, G, U),
           NEW V, NEW ans, NEW c \in Nat, NEW e \in Nat, e <= 2 * Len(F), Reads(prov, G, V, ans, c, e)
    PROVE  Reads(prov, F, V, ans, c, e)
<1>1. /\ Len(F) \in Nat /\ Len(G) = Len(F) + 1
      /\ \A i \in 1..Len(F) : G[i] = F[i]
  BY LongerLines DEF Written
<1>2. SUFFICES ASSUME NEW k \in c + 1 .. e
               PROVE  read_half(prov, V[k - 1], G, k, ans[k]) = read_half(prov, V[k - 1], F, k, ans[k])
  BY DEF Reads
<1>3. k % 2 # 1 => k \div 2 \in 1..Len(F)
  BY <1>1
<1>4. k % 2 # 1 => G[k \div 2] = F[k \div 2]
  BY <1>1, <1>3
<1>. DEFINE m == k \div 2
            o == k % 2
<1>5. o # 1 => G[m] = F[m]
  BY <1>4
<1>6. /\ read_half(prov, V[k - 1], G, k, ans[k]) =
           IF o = 1 THEN [V[k - 1] EXCEPT !.cursor = k, !.partial = TRUE]
           ELSE finish_line(prov, [V[k - 1] EXCEPT !.cursor = k], G[m], ans[k])
      /\ read_half(prov, V[k - 1], F, k, ans[k]) =
           IF o = 1 THEN [V[k - 1] EXCEPT !.cursor = k, !.partial = TRUE]
           ELSE finish_line(prov, [V[k - 1] EXCEPT !.cursor = k], F[m], ans[k])
  BY DEF read_half
<1>. HIDE DEF m, o
<1> QED
  BY <1>5, <1>6

\* A registration at rest stays so when a line is written,
LEMMA RestingLonger ==
    ASSUME NEW prov, NEW F, NEW T, NEW A, Written(prov, F, T, A), NEW G, NEW U, Longer(F, T, G, U),
           NEW L \in Nat, NEW s, NEW r, Resting(prov, F, T, L, s, r)
    PROVE  Resting(prov, G, U, L, s, r)
<1>1. r.cursor \in Nat /\ s \in Seq(Notes) /\ r.pending = <<>> /\ Fresh(prov, F, T, Through(r, L), r, s)
  BY DEF Resting
<1>2. Through(r, L) \in Nat /\ ~Held(r)
  BY <1>1 DEF Through, Held, Line
<1>3. ASSUME NEW d \in Heads(prov, s) PROVE d \in Nat
  <2>1. \A i \in DOMAIN s : s[i] \in Notes
    BY <1>1
  <2>2. \A i \in DOMAIN s : s[i].turn \in Nat
    BY <2>1 DEF Notes
  <2> QED
    BY <1>3, <2>2 DEF Heads
<1>4. ASSUME NEW d \in Heads(prov, s) PROVE Later(G, U, Through(r, L), r, d)
  <2>1. Later(F, T, Through(r, L), r, d) /\ d \in Nat
    BY <1>1, <1>3 DEF Fresh
  <2> QED
    BY <1>2, <2>1, LaterLonger
<1>5. Fresh(prov, G, U, Through(r, L), r, s)
  BY <1>1, <1>4 DEF Fresh
<1>6. Sound(prov, F, r, r.cursor) => Sound(prov, G, r, r.cursor)
  BY SoundLonger
<1> QED
  BY <1>5, <1>6 DEF Resting

\* and when more halves are.
LEMMA RestingOn ==
    ASSUME NEW prov, NEW F, F \in Seq(FileLines), NEW T, NEW L \in Nat, NEW s, NEW r, Resting(prov, F, T, L, s, r),
           NEW M \in Nat, L <= M
    PROVE  Resting(prov, F, T, M, s, r)
<1>1. /\ r.cursor \in Nat /\ s \in Seq(Notes) /\ r.pending = <<>> /\ Fresh(prov, F, T, Through(r, L), r, s)
      /\ Len(F) \in Nat /\ Shaped(r)
  BY DEF Resting
<1>2. Line(r.cursor) \in Nat
  BY <1>1 DEF Line
<1>3. Through(r, L) \in Nat /\ Through(r, M) \in Nat /\ Through(r, L) <= Through(r, M)
  BY <1>1, <1>2 DEF Through
<1>4. ASSUME NEW d \in Heads(prov, s) PROVE Later(F, T, Through(r, M), r, d)
  <2>1. Later(F, T, Through(r, L), r, d)
    BY <1>1 DEF Fresh
  <2> QED
    BY <1>1, <1>3, <2>1, LaterKept
<1>5. Fresh(prov, F, T, Through(r, M), r, s)
  BY <1>1, <1>4 DEF Fresh
<1>6. r.cursor <= M => Sound(prov, F, r, r.cursor)
  <2>1. CASE r.cursor <= L
    BY <2>1 DEF Resting
  <2>2. CASE r.cursor > L
    <3>1. prov = "claude" /\ r.body = NoText
      BY <2>2 DEF Resting
    <3> QED
      BY <1>1, <3>1 DEF Sound
  <2> QED
    BY <1>1, <2>1, <2>2
<1>7. r.cursor > M => prov = "claude" /\ r.body = NoText
  BY <1>1 DEF Resting
<1> QED
  BY <1>5, <1>6, <1>7 DEF Resting

\* The registrations of a source that is replaced are at rest.
LEMMA RestingReplaced ==
    ASSUME NEW F, NEW T, NEW L \in Nat, NEW s, NEW r, Resting("claude", F, T, L, s, r)
    PROVE  Resting("claude", <<>>, T, 0, s, r)
<1>. DEFINE G == <<>>
<1>0. G = <<>> /\ Len(G) = 0
  OBVIOUS
<1>. HIDE DEF G
<1>1. /\ r.cursor \in Nat /\ s \in Seq(Notes) /\ r.pending = <<>> /\ Fresh("claude", F, T, Through(r, L), r, s)
      /\ Shaped(r)
  BY DEF Resting
<1>2. r.body = NoText
  BY <1>1 DEF Resting, Sound
<1>3. \A n : r.cursor = n => Sound("claude", G, r, n)
  BY <1>1, <1>2 DEF Sound
<1>4. ASSUME NEW d \in Heads("claude", s) PROVE Later(G, T, Through(r, 0), r, d)
  <2>1. Later(F, T, Through(r, L), r, d)
    BY <1>1 DEF Fresh
  <2>2. ~Held(r)
    BY <1>1 DEF Held
  <2> QED
    BY <1>0, <2>1, <2>2 DEF Later
<1>5. Fresh("claude", G, T, Through(r, 0), r, s)
  BY <1>1, <1>4 DEF Fresh
<1>6. Resting("claude", G, T, 0, s, r)
  BY <1>2, <1>3, <1>5 DEF Resting
<1> QED
  BY <1>6 DEF G

\* Nothing told is right.
LEMMA NothingTold ==
    ASSUME NEW prov
    PROVE  Heads(prov, <<>>) = {} /\ Single(prov, <<>>) /\ Own(<<>>)
<1>. DEFINE s == <<>>
<1>1. DOMAIN s = {}
  OBVIOUS
<1>. HIDE DEF s
<1>2. Heads(prov, s) = {} /\ Single(prov, s) /\ Own(s)
  BY <1>1 DEF Heads, Single, Own
<1> QED
  BY <1>2 DEF s

\* A new registration is at rest,
LEMMA RestingNew ==
    ASSUME NEW prov, NEW F, NEW T, NEW L \in Nat, NEW p, NEW c \in Nat, c > L => prov = "claude",
           NEW v, v = NewRegistration(p, 1, c)
    PROVE  Resting(prov, F, T, L, <<>>, v)
<1>1. Fallow(v, c)
  BY NewIsFallow, Zenon
<1>. DEFINE s == <<>>
<1>2. s \in Seq(Notes) /\ DOMAIN s = {}
  OBVIOUS
<1>. HIDE DEF s
<1>3. Fresh(prov, F, T, Through(v, L), v, s) /\ Own(s)
  BY <1>2 DEF Fresh, Heads, Single, Own
<1>4. Resting(prov, F, T, L, s, v)
  BY <1>1, <1>2, <1>3 DEF Resting, Fallow
<1> QED
  BY <1>4 DEF s

\* and where one read would be.
LEMMA CaughtNew ==
    ASSUME NEW prov, NEW F, NEW p, NEW c \in Nat, NEW v, v = NewRegistration(p, 1, c)
    PROVE  Caught(prov, F, p, c, <<>>, v)
<1>1. Fallow(v, c)
  BY NewIsFallow, Zenon
<1>. DEFINE s == <<>>
<1>2. v.cursor = c /\ v.out = <<>> /\ s \o v.out = <<>>
  BY <1>1 DEF Fallow
<1>3. Turns(s \o v.out) = Turns(v.out)
  BY <1>2
<1>. HIDE DEF s
<1>4. Equal(v, v, s)
  BY <1>3 DEF Equal
<1>5. Matches(prov, F, c, s, v, v)
  BY <1>1, <1>4 DEF Matches, Rel, Fallow
<1>6. Caught(prov, F, p, c, s, v)
  BY <1>2, <1>5 DEF Caught
<1> QED
  BY <1>6 DEF s

\* A registration keeps up with one read when a line is written.
LEMMA CaughtLonger ==
    ASSUME NEW prov, NEW F, NEW T, NEW A, Written(prov, F, T, A), NEW G, NEW U, Longer(F, T, G, U),
           NEW p, NEW from, NEW s, NEW r, r.cursor \in Nat, r.cursor <= 2 * Len(F), Caught(prov, F, p, from, s, r)
    PROVE  Caught(prov, G, p, from, s, r)
<1>1. from \in Nat /\ from <= r.cursor
  BY DEF Caught
<1>2. ASSUME NEW V, NEW ans, V[from] = NewRegistration(p, 1, from), Reads(prov, G, V, ans, from, r.cursor)
      PROVE  Matches(prov, G, r.cursor, s, r, V[r.cursor])
  <2>1. Reads(prov, F, V, ans, from, r.cursor)
    BY <1>1, <1>2, ReadsLonger
  <2>2. Matches(prov, F, r.cursor, s, r, V[r.cursor])
    BY <1>2, <2>1 DEF Caught
  <2> QED
    BY <2>2, SoundLonger DEF Matches
<1> QED
  BY <1>1, <1>2 DEF Caught

-----------------------------------------------------------------------------
(* The invariant.                                                          *)

\* The source is what the agent has written.
SourceInv ==
    /\ half \in BOOLEAN /\ (half => file # <<>>)
    /\ Written(provider, file, turns, answers)
    /\ provider # "claude" => answers = <<>> /\ ~replaced /\ (turns > 0 => file # <<>>)

\* A call registers a pane that is not served, from where its source ended; what is served is
\* bound, or is by the call, and a worker that leaves serves none.
Bindings ==
    /\ loop.call \in {"register", "send", "await"} =>
         /\ loop.pane \notin bound
         /\ \E n \in Nat : loop.reg = NewRegistration(loop.pane, 1, n) /\ (~replaced => n <= Length)
    /\ \A p \in Registered : p \in bound \/ (loop.call = "await" /\ acked # None /\ loop.pane = p)
    /\ worker # "running" => Registered = {}

\* What was told is right, and so is what is yet to be told.
Reports ==
    /\ told \in [Panes -> [from : Nat, sent : Seq(Notes)]]
    /\ \A p \in Panes : Single(provider, told[p].sent) /\ Own(told[p].sent)
    /\ \A p \in Registered : provider # "kimi" =>
         /\ Resting(provider, file, turns, Length, told[p].sent, regs[p])
         /\ ~replaced => /\ regs[p].cursor <= Length
                         /\ Caught(provider, file, p, told[p].from, told[p].sent, regs[p])

\* The halves written.
LEMMA Halved ==
    ASSUME SourceInv
    PROVE  Length \in Nat /\ Length <= 2 * Len(file) /\ Len(file) \in Nat /\ file \in Seq(FileLines) /\ turns \in Nat
<1>1. Len(file) \in Nat /\ (file # <<>> => Len(file) > 0) /\ file \in Seq(FileLines) /\ turns \in Nat
  BY DEF SourceInv, Written
<1>2. half => Len(file) > 0
  BY <1>1 DEF SourceInv
<1> QED
  BY <1>1, <1>2 DEF Length

\* The agent writes one line more.
LEMMA WriteEffect ==
    ASSUME TypesInv, SourceInv, NEW type \in Types(provider), Write(type)
    PROVE  /\ provider \in {"codex", "claude", "opencode"} /\ provider' = provider /\ replaced' = replaced
           /\ Longer(file, turns, file', turns') /\ Written(provider, file', turns', answers')
           /\ half' \in BOOLEAN /\ file' # <<>>
           /\ provider # "claude" => answers' = <<>>
           /\ Length <= Length' /\ Length' \in Nat
<1>. DEFINE k == IF type \in Starts THEN turns + 1 ELSE turns
            l == [type |-> type, turn |-> k, key |-> IF type = "approval_request" THEN <<type, k>> ELSE <<>>,
                  id |-> IF provider = "codex" THEN k ELSE NoTurn]
<1>1. /\ provider # "kimi" /\ ~half /\ MayWrite(type) /\ turns' = k /\ file' = Append(file, l)
      /\ answers' = IF type = "Stop" THEN Append(answers, k) ELSE answers
      /\ half' \in BOOLEAN /\ UNCHANGED <<provider, replaced>>
  BY DEF Write
<1>2. provider \in {"codex", "claude", "opencode"} /\ provider \in Providers
  BY <1>1, NotificationAssumption DEF TypesInv, NotificationAssumption
<1>3. /\ Written(provider, file, turns, answers) /\ file \in Seq(FileLines) /\ turns \in Nat /\ answers \in Seq(Nat)
      /\ Len(file) \in Nat
  <2>1. Written(provider, file, turns, answers)
    BY DEF SourceInv
  <2>2. file \in Seq(FileLines) /\ turns \in Nat /\ answers \in Seq(Nat)
    BY <2>1 DEF Written
  <2> QED
    BY <2>1, <2>2
<1>4. k \in Nat /\ turns <= k /\ (type \in Starts => turns < k) /\ (type \notin Starts => turns = k)
  BY <1>3
<1>. HIDE DEF k
<1>5. /\ l.type = type /\ l.turn = k /\ l.id = (IF provider = "codex" THEN k ELSE NoTurn)
      /\ l.key = IF type = "approval_request" THEN <<type, k>> ELSE <<>>
  OBVIOUS
<1>6. l \in FileLines
  BY <1>2, <1>4 DEF FileLines, LineTypes, NoTurn
<1>7. LineOf(provider, l)
  BY <1>5, <1>6 DEF LineOf
<1>. HIDE DEF l
<1>8. type = "task_complete" => file # <<>> /\ file[Len(file)].type \in Starts
  <2>1. SUFFICES ASSUME type = "task_complete" PROVE file # <<>> /\ file[Len(file)].type \in Starts
    OBVIOUS
  <2>2. turns > 0 /\ (file # <<>> => Last(file).type \in Starts)
    BY <1>1, <2>1 DEF MayWrite
  <2>3. provider = "codex"
    <3>1. provider = "claude" => type # "task_complete"
      BY TypesAssumption DEF TypesAssumption
    <3>2. provider = "opencode" => type # "task_complete"
      BY TypesAssumption DEF TypesAssumption
    <3> QED
      BY <1>2, <2>1, <3>1, <3>2
  <2>4. file # <<>>
    BY <2>2, <2>3 DEF SourceInv
  <2> QED
    BY <2>2, <2>4 DEF Last
<1>9. Longer(file, turns, file', turns')
  BY <1>1, <1>3, <1>4, <1>5, <1>8 DEF Longer, k
<1>10. answers' \in Seq(Nat) /\ (provider # "claude" => answers' = <<>>)
  <2>1. type = "Stop" => provider = "claude"
    BY <1>2, TypesAssumption DEF TypesAssumption
  <2> QED
    BY <1>1, <1>3, <1>4, <2>1 DEF SourceInv
<1>. DEFINE F == file
            G == file'
            e == Len(F) + 1
<1>11. /\ G \in Seq(FileLines) /\ Len(G) = e /\ G[e] = l /\ e \in Nat /\ G # <<>>
       /\ \A i \in 1..Len(F) : G[i] = F[i]
       /\ \A i \in 1..e : i \in 1..Len(F) \/ i = e
       /\ \A i \in 1..Len(F) : i < e
       /\ F # <<>> => Len(F) \in 1..Len(F) /\ F[Len(F)].turn = turns
  <2>1. F # <<>> => F[Len(F)].turn = turns
    BY <1>3 DEF Written
  <2> QED
    BY <1>1, <1>3, <1>6, <2>1
<1>12. ASSUME NEW i \in 1..Len(F)
       PROVE  /\ LineOf(provider, F[i]) /\ F[i].turn \in Nat /\ F[i].turn <= turns
              /\ F[i].type = "Stop" => answers # <<>> /\ F[i].turn <= answers[Len(answers)]
  BY <1>3 DEF Written
<1>13. ASSUME NEW i \in 1..Len(F), NEW j \in 1..Len(F), i < j
       PROVE  /\ F[i].turn <= F[j].turn
              /\ F[j].type \in Starts => F[i].turn < F[j].turn
              /\ F[i].type = "task_complete" /\ F[j].type = "task_complete" => F[i].turn < F[j].turn
  BY <1>3, <1>13 DEF Written
<1>14. ASSUME NEW i \in 1..Len(F) - 1, F[i + 1].type \notin Starts PROVE F[i + 1].turn = F[i].turn
  <2>1. \A n \in 1..Len(F) - 1 : F[n + 1].type \notin Starts => F[n + 1].turn = F[n].turn
    BY <1>3 DEF Written
  <2> QED
    BY <1>14, <2>1
<1>. HIDE DEF F, G, e
<1>15. type = "Stop" => answers' # <<>> /\ answers'[Len(answers')] = k
  <2>1. ASSUME NEW a \in Seq(Nat), NEW b, b = Append(a, k) PROVE b # <<>> /\ b[Len(b)] = k
    <3>1. Len(b) = Len(a) + 1 /\ Len(a) \in Nat
      BY <1>4, <2>1
    <3>2. b[Len(a) + 1] = k
      BY <1>4, <2>1, <3>1
    <3> QED
      BY <2>1, <3>1, <3>2
  <2> QED
    BY <1>1, <1>3, <2>1
<1>16. ASSUME NEW i \in 1..e
       PROVE  /\ LineOf(provider, G[i]) /\ G[i].turn \in Nat /\ G[i].turn <= k
              /\ G[i].type = "Stop" => answers' # <<>> /\ G[i].turn <= answers'[Len(answers')]
  <2>1. CASE i = e
    BY <1>4, <1>5, <1>7, <1>11, <1>15, <2>1
  <2>2. CASE i \in 1..Len(F)
    <3>1. G[i] = F[i] /\ LineOf(provider, F[i]) /\ F[i].turn \in Nat /\ F[i].turn <= turns
      BY <1>11, <1>12, <2>2
    <3>2. F[i].turn <= k
      BY <1>3, <1>4, <3>1
    <3>3. F[i].type = "Stop" => answers' # <<>> /\ F[i].turn <= answers'[Len(answers')]
      <4>1. CASE type = "Stop"
        BY <1>15, <3>2, <4>1
      <4>2. CASE type # "Stop"
        BY <1>1, <1>12, <2>2, <4>2
      <4> QED
        BY <4>1, <4>2
    <3> QED
      BY <3>1, <3>2, <3>3
  <2> QED
    BY <1>11, <2>1, <2>2
<1>17. ASSUME NEW i \in 1..e, NEW j \in 1..e, i < j
       PROVE  /\ G[i].turn <= G[j].turn
              /\ G[j].type \in Starts => G[i].turn < G[j].turn
              /\ G[i].type = "task_complete" /\ G[j].type = "task_complete" => G[i].turn < G[j].turn
  <2>1. i \in 1..Len(F)
    BY <1>11, <1>17
  <2>2. G[i] = F[i] /\ F[i].turn \in Nat /\ F[i].turn <= turns
    BY <1>11, <1>12, <2>1
  <2>3. CASE j \in 1..Len(F)
    BY <1>11, <1>13, <1>17, <2>1, <2>2, <2>3
  <2>4. CASE j = e
    <3>1. G[j].turn = k /\ G[j].type = type
      BY <1>5, <1>11, <2>4
    <3>2. F[i].turn <= k /\ (type \in Starts => F[i].turn < k)
      BY <1>3, <1>4, <2>2
    <3>3. F[i].type = "task_complete" /\ type = "task_complete" => F[i].turn < k
      <4>1. SUFFICES ASSUME F[i].type = "task_complete", type = "task_complete" PROVE F[i].turn < k
        OBVIOUS
      <4>2. F # <<>> /\ F[Len(F)].type \in Starts /\ Len(F) \in 1..Len(F) /\ F[Len(F)].turn = turns
        BY <1>8, <1>11, <4>1 DEF F
      <4>3. i # Len(F)
        BY <4>1, <4>2 DEF Starts
      <4>4. i < Len(F)
        BY <2>1, <4>2, <4>3
      <4>5. F[i].turn < turns
        BY <1>13, <2>1, <4>2, <4>4
      <4> QED
        BY <1>3, <1>4, <2>2, <4>5
    <3> QED
      BY <2>2, <3>1, <3>2, <3>3
  <2> QED
    BY <1>11, <2>3, <2>4
<1>18. ASSUME NEW i \in 1..e - 1, G[i + 1].type \notin Starts PROVE G[i + 1].turn = G[i].turn
  <2>1. i \in 1..Len(F) /\ e = Len(F) + 1
    BY <1>3, <1>18 DEF e, F
  <2>2. CASE i = Len(F)
    <3>1. G[i + 1].type = type /\ G[i + 1].turn = k
      BY <1>5, <1>11, <2>1, <2>2
    <3>2. G[i].turn = turns
      BY <1>11, <2>1, <2>2
    <3> QED
      BY <1>4, <1>18, <3>1, <3>2
  <2>3. CASE i # Len(F)
    <3>1. i \in 1..Len(F) - 1 /\ i + 1 \in 1..Len(F)
      BY <1>3, <2>1, <2>3 DEF F
    <3>2. G[i + 1] = F[i + 1] /\ G[i] = F[i]
      BY <1>11, <2>1, <3>1
    <3> QED
      BY <1>14, <1>18, <3>1, <3>2
  <2> QED
    BY <2>2, <2>3
<1>19. G[Len(G)].turn = k
  BY <1>5, <1>11
<1>20. Written(provider, G, k, answers')
  BY <1>4, <1>10, <1>11, <1>16, <1>17, <1>18, <1>19 DEF Written
<1>21. Written(provider, file', turns', answers') /\ file' # <<>>
  BY <1>1, <1>11, <1>20 DEF G
<1>22. Length <= Length' /\ Length' \in Nat
  <2>1. Len(file') = Len(file) + 1 /\ Len(file) \in Nat
    BY <1>3, <1>11 DEF F, G, e
  <2>2. Length = 2 * Len(file) /\ Length' = 2 * Len(file') - IF half' THEN 1 ELSE 0
    BY <1>1, <1>3 DEF Length
  <2> QED
    BY <2>1, <2>2
<1> QED
  BY <1>1, <1>2, <1>9, <1>10, <1>21, <1>22

\* Every step keeps the source.
LEMMA StepSource ==
    ASSUME TypesInv, SourceInv, [Next]_vars
    PROVE  SourceInv'
<1>1. ASSUME UNCHANGED source PROVE SourceInv'
  BY <1>1 DEF SourceInv, source
<1>2. ASSUME NEW type \in Types(provider), Write(type) PROVE SourceInv'
  BY <1>2, WriteEffect DEF SourceInv
<1>3. ASSUME WriteRest PROVE SourceInv'
  BY <1>3 DEF SourceInv, WriteRest
<1>4. ASSUME Replace PROVE SourceInv'
  <2>1. provider = "claude" /\ ~half /\ file' = <<>> /\ UNCHANGED <<provider, half, turns, answers>>
    BY <1>4 DEF Replace
  <2>. DEFINE G == <<>>
  <2>2. G \in Seq(FileLines) /\ Len(G) = 0 /\ G = <<>>
    OBVIOUS
  <2>. HIDE DEF G
  <2>3. Written("claude", G, turns, answers)
    BY <2>1, <2>2 DEF SourceInv, Written
  <2> QED
    BY <2>1, <2>2, <2>3 DEF SourceInv
<1> QED
  BY <1>1, <1>2, <1>3, <1>4 DEF Next, Agent, Calls, Worker, vars, WorkerSender, SendRegister, AwaitRegister, AwaitStop,
     Reconcile, TakeRegister, TakeStop, TakeChanged, Leave, Callback, TimePasses, Bind, Unbind

\* Every step keeps who is bound, and from where.
LEMMA StepBindings ==
    ASSUME TypesInv, Conversation, SourceInv, Bindings, [Next]_vars
    PROVE  Bindings'
<1>. DEFINE NewCall == loop.call \in {"register", "send", "await"} =>
               /\ loop.pane \notin bound
               /\ \E n \in Nat : loop.reg = NewRegistration(loop.pane, 1, n) /\ (~replaced => n <= Length)
            Served == \A p \in Registered : p \in bound \/ (loop.call = "await" /\ acked # None /\ loop.pane = p)
            Idle == worker # "running" => Registered = {}
<1>0. NewCall /\ Served /\ Idle
  BY DEF Bindings
<1>1. ASSUME UNCHANGED caller, worker' = worker, regs' = regs, acked' = acked,
             ~replaced' => ~replaced /\ Length <= Length' /\ Length \in Nat /\ Length' \in Nat
      PROVE  Bindings'
  <2>1. NewCall'
    <3>1. SUFFICES ASSUME loop.call \in {"register", "send", "await"}
                   PROVE  /\ loop.pane \notin bound
                          /\ \E n \in Nat : loop.reg = NewRegistration(loop.pane, 1, n) /\ (~replaced' => n <= Length')
      BY <1>1 DEF caller
    <3>2. PICK n \in Nat : loop.reg = NewRegistration(loop.pane, 1, n) /\ (~replaced => n <= Length)
      BY <1>0, <3>1
    <3>3. ~replaced' => n <= Length'
      BY <1>1, <3>2
    <3> QED
      BY <1>0, <3>1, <3>2, <3>3
  <2> QED
    BY <1>0, <1>1, <2>1 DEF Bindings, caller, Registered
<1>2. ASSUME NEW type \in Types(provider), Write(type) PROVE Bindings'
  <2>1. replaced' = replaced /\ Length <= Length' /\ Length' \in Nat
    BY <1>2, WriteEffect
  <2>2. UNCHANGED caller /\ worker' = worker /\ regs' = regs /\ acked' = acked
    BY <1>2 DEF Write, thread
  <2> QED
    BY <1>1, <2>1, <2>2, Halved
<1>3. ASSUME WriteRest PROVE Bindings'
  <2>1. /\ half /\ half' = FALSE /\ file' = file /\ replaced' = replaced
        /\ UNCHANGED caller /\ worker' = worker /\ regs' = regs /\ acked' = acked
    BY <1>3 DEF WriteRest, thread
  <2>2. Length <= Length' /\ Length \in Nat /\ Length' \in Nat
    BY <2>1, Halved DEF Length
  <2> QED
    BY <1>1, <2>1, <2>2
<1>4. ASSUME Replace PROVE Bindings'
  BY <1>1, <1>4 DEF Replace
<1>5. ASSUME UNCHANGED source PROVE Length' = Length /\ replaced' = replaced
  BY <1>5 DEF source, Length
<1>6. ASSUME UNCHANGED source, UNCHANGED caller, acked' = acked, DOMAIN regs' = DOMAIN regs, worker' # "running" => Registered = {}
      PROVE  Bindings'
  BY <1>0, <1>5, <1>6 DEF Bindings, caller, Registered
<1>7. ASSUME UNCHANGED vars PROVE Bindings'
  BY <1>0, <1>6, <1>7 DEF vars, thread
<1>8. ASSUME UNCHANGED source, UNCHANGED bound, UNCHANGED regs, worker' = worker, acked = None,
             loop \in BindCalls, loop'.call \in {"send", "await", "register"}, loop'.pane = loop.pane, loop'.reg = loop.reg
      PROVE  Bindings'
  <2>1. NewCall'
    <3>1. loop.call \in {"register", "send", "await"}
      BY <1>8 DEF BindCalls
    <3> QED
      BY <1>0, <1>5, <1>8, <3>1
  <2> QED
    BY <1>0, <1>8, <2>1 DEF Bindings, Registered
<1>9. ASSUME UNCHANGED source, UNCHANGED regs, worker' = worker, loop' = Rest, bound' = bound \cup {loop.pane}
      PROVE  Bindings'
  BY <1>0, <1>9 DEF Bindings, Registered, Rest
<1>10. ASSUME WorkerSender PROVE Bindings'
  <2>1. /\ loop.call = "register" /\ loop \in BindCalls /\ loop'.call = "send" /\ loop'.pane = loop.pane /\ loop'.reg = loop.reg
        /\ UNCHANGED source /\ UNCHANGED bound
    BY <1>10, LoopKinds, CallGoesOn DEF TypesInv, WorkerSender
  <2>2. NewCall'
    BY <1>0, <1>5, <2>1
  <2>3. worker' = "running" /\ (Registered' = Registered \/ Registered' = {})
    BY <1>10 DEF WorkerSender, thread, Registered, NoRegistrations
  <2>4. Served'
    BY <1>0, <2>1, <2>3
  <2> QED
    BY <2>2, <2>3, <2>4 DEF Bindings
<1>11. ASSUME SendRegister PROVE Bindings'
  <2>1. /\ loop.call = "send" /\ loop \in BindCalls /\ acked = None
        /\ UNCHANGED source /\ UNCHANGED regs /\ worker' = worker
    BY <1>11, LoopKinds DEF TypesInv, SendRegister, Conversation
  <2>2. CASE worker = "gone"
    <3>1. TryAgain
      BY <1>11, <2>2 DEF SendRegister
    <3>2. \/ loop' = Rest /\ bound' = bound \cup {loop.pane}
          \/ loop'.call = "register" /\ loop'.pane = loop.pane /\ loop'.reg = loop.reg /\ bound' = bound
      BY <2>1, <3>1, TriedAgain
    <3> QED
      BY <1>8, <1>9, <2>1, <3>2
  <2>3. CASE worker # "gone"
    <3>1. loop'.call = "await" /\ loop'.pane = loop.pane /\ loop'.reg = loop.reg /\ bound' = bound
      BY <1>11, <2>1, <2>3, Sent
    <3> QED
      BY <1>8, <2>1, <3>1
  <2> QED
    BY <2>2, <2>3
<1>12. ASSUME AwaitRegister PROVE Bindings'
  <2>1. /\ loop.call = "await" /\ loop \in BindCalls
        /\ UNCHANGED source /\ UNCHANGED regs /\ worker' = worker
    BY <1>12, LoopKinds DEF TypesInv, AwaitRegister
  <2>2. CASE acked # None
    <3>1. loop' = Rest /\ bound' = bound \cup {loop.pane}
      BY <1>12, <2>2 DEF AwaitRegister, EndBind
    <3> QED
      BY <1>9, <2>1, <3>1
  <2>3. CASE acked = None
    <3>1. \/ loop' = Rest /\ bound' = bound \cup {loop.pane}
          \/ loop'.call = "register" /\ loop'.pane = loop.pane /\ loop'.reg = loop.reg /\ bound' = bound
      BY <1>12, <2>1, Answered
    <3> QED
      BY <1>8, <1>9, <2>1, <2>3, <3>1
  <2> QED
    BY <2>2, <2>3
<1>13. ASSUME AwaitStop PROVE Bindings'
  <2>1. /\ loop.call = "stopping" /\ (acked # None \/ worker = "gone")
        /\ UNCHANGED regs /\ worker' = worker /\ loop' = Rest /\ bound' = bound \ {loop.pane}
    BY <1>13 DEF AwaitStop, EndUnbind
  <2>2. loop.pane \notin Registered
    BY <1>0, <2>1 DEF Conversation
  <2> QED
    BY <1>0, <2>1, <2>2 DEF Bindings, Registered, Rest
<1>14. ASSUME NEW p \in Panes, Bind(p) PROVE Bindings'
  <2>1. /\ p \notin bound /\ loop.call = "rest" /\ loop'.call = "register" /\ loop'.pane = p
        /\ loop'.reg = NewRegistration(p, 1, Length)
        /\ UNCHANGED source /\ UNCHANGED bound /\ UNCHANGED regs /\ worker' = worker
    BY <1>14 DEF Bind, Rest, thread
  <2>2. NewCall'
    BY <1>5, <2>1, Halved
  <2> QED
    BY <1>0, <2>1, <2>2 DEF Bindings, Registered
<1>15. ASSUME NEW p \in Panes, Unbind(p) PROVE Bindings'
  <2>1. loop.call = "rest" /\ UNCHANGED regs /\ worker' = worker
    BY <1>15 DEF Unbind, Rest
  <2>2. CASE worker \in {"none", "gone"}
    <3>1. loop' = Rest /\ Registered = {}
      BY <1>0, <1>15, <2>2 DEF Unbind, EndUnbind
    <3> QED
      BY <1>0, <2>1, <3>1 DEF Bindings, Registered, Rest
  <2>3. CASE worker \notin {"none", "gone"}
    <3>1. loop'.call = "stopping" /\ bound' = bound
      BY <1>15, <2>3 DEF Unbind
    <3> QED
      BY <1>0, <2>1, <3>1 DEF Bindings, Registered
  <2> QED
    BY <2>2, <2>3
<1>16. ASSUME Reconcile PROVE Bindings'
  <2>1. DOMAIN regs' = DOMAIN regs /\ UNCHANGED source /\ UNCHANGED caller /\ acked' = acked
    BY <1>16 DEF Reconcile, Scan, Registered
  <2>2. worker' # "running" => Registered = {}
    BY <1>16 DEF Reconcile, LeaveWhenIdle
  <2> QED
    BY <1>6, <2>1, <2>2
<1>17. ASSUME TakeRegister PROVE Bindings'
  <2>1. loop.call = "await" /\ Head(queue) = RegisterOf(loop.reg)
    BY <1>17, CommandTaken DEF TakeRegister
  <2>2. Head(queue).reg = loop.reg /\ loop.reg.pane = loop.pane
    BY <2>1 DEF RegisterOf, Conversation
  <2>3. /\ Registered' = Registered \cup {loop.pane} /\ acked' = "ok" /\ worker' = worker /\ worker = "running"
        /\ UNCHANGED source /\ UNCHANGED loop /\ UNCHANGED bound
    BY <1>17, <2>2 DEF TakeRegister, Registered, Command
  <2>4. NewCall'
    BY <1>0, <1>5, <2>1, <2>3
  <2>5. Served'
    BY <1>0, <2>1, <2>3 DEF None
  <2> QED
    BY <2>3, <2>4, <2>5 DEF Bindings
<1>18. ASSUME TakeStop PROVE Bindings'
  <2>1. loop.call = "stopping"
    BY <1>18, CommandTaken DEF TakeStop
  <2>2. Registered' \subseteq Registered /\ UNCHANGED source /\ UNCHANGED caller /\ worker = "running"
    BY <1>18 DEF TakeStop, Registered, Command
  <2>3. worker' # "running" => Registered' = {}
    BY <1>18 DEF TakeStop, LeaveWhenIdle, Registered, Command
  <2> QED
    BY <1>0, <2>1, <2>2, <2>3 DEF Bindings, caller
<1>19. ASSUME TakeChanged PROVE Bindings'
  <2>1. /\ DOMAIN regs' = DOMAIN regs /\ UNCHANGED source /\ UNCHANGED caller /\ acked' = acked
        /\ worker' = worker /\ worker = "running"
    BY <1>19 DEF TakeChanged, Scan, Registered, Command
  <2> QED
    BY <1>6, <2>1
<1>20. ASSUME Leave PROVE Bindings'
  <2>1. regs' = regs /\ UNCHANGED source /\ UNCHANGED caller /\ acked' = acked /\ worker = "leaving"
    BY <1>20 DEF Leave
  <2> QED
    BY <1>0, <1>6, <2>1
<1>21. ASSUME Callback PROVE Bindings'
  BY <1>0, <1>6, <1>21 DEF Callback
<1>22. ASSUME TimePasses PROVE Bindings'
  BY <1>0, <1>6, <1>22 DEF TimePasses
<1> QED
  BY <1>2, <1>3, <1>4, <1>7, <1>10, <1>11, <1>12, <1>13, <1>14, <1>15, <1>16, <1>17, <1>18, <1>19, <1>20, <1>21, <1>22
     DEF Next, Agent, Calls, Worker

\* A scan tells what is right.
LEMMA ScanReports ==
    ASSUME TypesInv, SourceInv, Reports, UNCHANGED source, provider # "kimi", Scan
    PROVE  Reports'
<1>1. /\ provider \in {"codex", "claude", "opencode"} /\ Written(provider, file, turns, answers)
      /\ provider # "claude" => answers = <<>>
      /\ Registered \subseteq Panes
  BY NotificationAssumption DEF NotificationAssumption, TypesInv, SourceInv, Registered
<1>2. Length \in Nat /\ Length <= 2 * Len(file)
  BY Halved
<1>3. /\ provider' = provider /\ file' = file /\ turns' = turns /\ replaced' = replaced /\ Length' = Length
  BY DEF source, Length
<1>. DEFINE q(p) == scan_source(provider, regs[p], file, Length, answers)
<1>4. /\ Registered' = Registered
      /\ \A p \in Registered : regs'[p] = Emptied(q(p))
      /\ told' = [p \in Panes |-> IF p \notin Registered THEN told[p] ELSE [told[p] EXCEPT !.sent = @ \o q(p).out]]
  BY DEF Scan, Registered, Emptied
<1>5. told \in [Panes -> [from : Nat, sent : Seq(Notes)]]
  BY DEF Reports
<1>6. ASSUME NEW p \in Registered
      PROVE  Resting(provider, file, turns, Length, told[p].sent \o q(p).out, Emptied(q(p)))
  <2>. DEFINE s == told[p].sent
              r == regs[p]
              w == q(p)
  <2>1. Resting(provider, file, turns, Length, s, r) /\ w = scan_source(provider, r, file, Length, answers)
    BY <1>1 DEF Reports
  <2>. HIDE DEF s, r, w
  <2>2. Resting(provider, file, turns, Length, s \o w.out, Emptied(w))
    BY <1>1, <1>2, <2>1, ScanResting
  <2> QED
    BY <2>2 DEF s, w
<1>7. ASSUME NEW p \in Registered, ~replaced
      PROVE  /\ Emptied(q(p)).cursor <= Length
             /\ Caught(provider, file, p, told[p].from, told[p].sent \o q(p).out, Emptied(q(p)))
  <2>. DEFINE s == told[p].sent
              r == regs[p]
              w == q(p)
              from == told[p].from
  <2>1. /\ Resting(provider, file, turns, Length, s, r) /\ w = scan_source(provider, r, file, Length, answers)
        /\ r.cursor <= Length /\ Caught(provider, file, p, from, s, r)
    BY <1>1, <1>7 DEF Reports
  <2>. HIDE DEF s, r, w, from
  <2>2. Caught(provider, file, p, from, s \o w.out, Emptied(w))
    BY <1>1, <1>2, <2>1, ScanCaught
  <2>3. Emptied(w).cursor <= Length
    BY <1>1, <1>2, <2>1, ScanEnds
  <2> QED
    BY <2>2, <2>3 DEF s, w, from
<1>. HIDE DEF q
<1>8. ASSUME NEW p \in Registered
      PROVE  /\ told'[p].sent = told[p].sent \o q(p).out /\ told'[p].from = told[p].from
             /\ told'[p] \in [from : Nat, sent : Seq(Notes)]
             /\ Single(provider, told'[p].sent) /\ Own(told'[p].sent)
  <2>. DEFINE t == told[p]
              o == q(p).out
  <2>1. t \in [from : Nat, sent : Seq(Notes)] /\ p \in Panes
    BY <1>1, <1>5
  <2>2. told'[p] = [t EXCEPT !.sent = @ \o o]
    BY <1>4, <2>1
  <2>3. t.sent \o o \in Seq(Notes) /\ Own(t.sent \o o) /\ Single(provider, t.sent \o o)
    BY <1>6 DEF Resting, Fresh
  <2>. HIDE DEF t, o
  <2>4. told'[p].sent = t.sent \o o /\ told'[p].from = t.from /\ told'[p] \in [from : Nat, sent : Seq(Notes)]
    BY <2>1, <2>2, <2>3
  <2> QED
    BY <2>3, <2>4 DEF t, o
<1>9. told' \in [Panes -> [from : Nat, sent : Seq(Notes)]]
  <2>1. ASSUME NEW p \in Panes PROVE told'[p] \in [from : Nat, sent : Seq(Notes)]
    BY <1>4, <1>5, <1>8
  <2>2. told' = [p \in Panes |-> told'[p]]
    BY <1>4
  <2> QED
    BY <2>1, <2>2
<1>10. ASSUME NEW p \in Panes PROVE Single(provider, told'[p].sent) /\ Own(told'[p].sent)
  <2>1. CASE p \in Registered
    BY <1>8, <2>1
  <2>2. CASE p \notin Registered
    BY <1>4, <2>2 DEF Reports
  <2> QED
    BY <2>1, <2>2
<1>11. ASSUME NEW p \in Registered
       PROVE  /\ Resting(provider, file, turns, Length, told'[p].sent, regs'[p])
              /\ ~replaced => /\ regs'[p].cursor <= Length
                              /\ Caught(provider, file, p, told'[p].from, told'[p].sent, regs'[p])
  BY <1>4, <1>6, <1>7, <1>8
<1> QED
  BY <1>3, <1>4, <1>9, <1>10, <1>11 DEF Reports

\* The registrations are as they were, and the source is longer.
LEMMA LongerReports ==
    ASSUME Reports, regs' = regs, told' = told, provider' = provider,
           \A p \in Registered : provider # "kimi" =>
               /\ Resting(provider, file', turns', Length', told[p].sent, regs[p])
               /\ ~replaced' => /\ regs[p].cursor <= Length'
                                /\ Caught(provider, file', p, told[p].from, told[p].sent, regs[p])
    PROVE  Reports'
  BY DEF Reports, Registered

\* Every step keeps what is told right.
LEMMA StepReports ==
    ASSUME TypesInv, Conversation, SourceInv, Bindings, Reports, [Next]_vars
    PROVE  Reports'
<1>0. /\ provider # "kimi" => provider \in {"codex", "claude", "opencode"}
      /\ Written(provider, file, turns, answers) /\ Registered \subseteq Panes
      /\ Length \in Nat /\ Length <= 2 * Len(file) /\ Len(file) \in Nat /\ file \in Seq(FileLines)
  BY NotificationAssumption, Halved DEF NotificationAssumption, TypesInv, SourceInv, Registered
<1>1. ASSUME UNCHANGED source PROVE /\ provider' = provider /\ file' = file /\ turns' = turns /\ Length' = Length
                                    /\ replaced' = replaced
  BY <1>1 DEF source, Length
<1>2. ASSUME UNCHANGED source, told' = told, Registered' \subseteq Registered, \A p \in Registered' : regs'[p] = regs[p]
      PROVE  Reports'
  BY <1>1, <1>2 DEF Reports
<1>3. ASSUME UNCHANGED source, told' = told, regs' = regs PROVE Reports'
  BY <1>2, <1>3 DEF Registered
<1>4. ASSUME NEW type \in Types(provider), Write(type) PROVE Reports'
  <2>1. /\ provider \in {"codex", "claude", "opencode"} /\ provider' = provider /\ replaced' = replaced
        /\ Longer(file, turns, file', turns') /\ Written(provider, file', turns', answers')
        /\ Length <= Length' /\ Length' \in Nat
    BY <1>4, WriteEffect
  <2>2. regs' = regs /\ told' = told
    BY <1>4 DEF Write, thread
  <2>3. ASSUME NEW p \in Registered PROVE Resting(provider, file', turns', Length', told[p].sent, regs[p])
    <3>1. Resting(provider, file, turns, Length, told[p].sent, regs[p])
      BY <2>1 DEF Reports
    <3>2. Resting(provider, file', turns', Length, told[p].sent, regs[p])
      BY <1>0, <2>1, <3>1, RestingLonger
    <3>3. file' \in Seq(FileLines)
      BY <2>1 DEF Written
    <3> QED
      BY <1>0, <2>1, <3>2, <3>3, RestingOn
  <2>4. ASSUME NEW p \in Registered, ~replaced
        PROVE  regs[p].cursor <= Length' /\ Caught(provider, file', p, told[p].from, told[p].sent, regs[p])
    <3>1. /\ regs[p].cursor \in Nat /\ regs[p].cursor <= Length
          /\ Caught(provider, file, p, told[p].from, told[p].sent, regs[p])
      BY <2>1, <2>4 DEF Reports, Resting
    <3>2. regs[p].cursor <= 2 * Len(file) /\ regs[p].cursor <= Length'
      BY <1>0, <2>1, <3>1
    <3> QED
      BY <1>0, <2>1, <3>1, <3>2, CaughtLonger
  <2> QED
    BY <2>1, <2>2, <2>3, <2>4, LongerReports
<1>5. ASSUME WriteRest PROVE Reports'
  <2>1. /\ half /\ half' = FALSE /\ file' = file /\ replaced' = replaced /\ turns' = turns /\ provider' = provider
        /\ regs' = regs /\ told' = told
    BY <1>5 DEF WriteRest, thread
  <2>2. Length <= Length' /\ Length' \in Nat
    BY <1>0, <2>1 DEF Length
  <2>3. ASSUME NEW p \in Registered, provider # "kimi" PROVE Resting(provider, file', turns', Length', told[p].sent, regs[p])
    <3>1. Resting(provider, file, turns, Length, told[p].sent, regs[p])
      BY <2>3 DEF Reports
    <3> QED
      BY <1>0, <2>1, <2>2, <3>1, RestingOn
  <2>4. ASSUME NEW p \in Registered, ~replaced, provider # "kimi"
        PROVE  regs[p].cursor <= Length' /\ Caught(provider, file', p, told[p].from, told[p].sent, regs[p])
    <3>1. /\ regs[p].cursor \in Nat /\ regs[p].cursor <= Length
          /\ Caught(provider, file, p, told[p].from, told[p].sent, regs[p])
      BY <2>4 DEF Reports, Resting
    <3> QED
      BY <1>0, <2>1, <2>2, <3>1
  <2> QED
    BY <2>1, <2>3, <2>4, LongerReports
<1>6. ASSUME Replace PROVE Reports'
  <2>1. /\ provider = "claude" /\ ~half /\ half' = half /\ file' = <<>> /\ replaced' = TRUE /\ turns' = turns
        /\ provider' = provider /\ regs' = regs /\ told' = told
    BY <1>6 DEF Replace
  <2>2. Length' = 0
    <3>1. Len(file') = 0
      BY <2>1
    <3> QED
      BY <2>1, <3>1 DEF Length
  <2>3. ASSUME NEW p \in Registered PROVE Resting(provider, file', turns', Length', told[p].sent, regs[p])
    <3>1. Resting("claude", file, turns, Length, told[p].sent, regs[p])
      BY <2>1 DEF Reports
    <3>2. Resting("claude", <<>>, turns, 0, told[p].sent, regs[p])
      BY <1>0, <3>1, RestingReplaced
    <3> QED
      BY <2>1, <2>2, <3>2
  <2> QED
    BY <2>1, <2>3, LongerReports
<1>7. ASSUME UNCHANGED vars PROVE Reports'
  BY <1>3, <1>7 DEF vars, thread
<1>8. ASSUME NEW p \in Panes, p \notin Registered, told' = [told EXCEPT ![p] = NotTold], regs' = regs, UNCHANGED source
      PROVE  Reports'
  <2>1. NotTold.sent = <<>> /\ NotTold \in [from : Nat, sent : Seq(Notes)]
    <3>. DEFINE e == <<>>
    <3>1. e \in Seq(Notes) /\ e = <<>>
      OBVIOUS
    <3>. HIDE DEF e
    <3> QED
      BY <3>1 DEF NotTold
  <2>2. told \in [Panes -> [from : Nat, sent : Seq(Notes)]]
    BY DEF Reports
  <2>3. told' \in [Panes -> [from : Nat, sent : Seq(Notes)]]
    BY <1>8, <2>1, <2>2
  <2>4. \A o \in Panes : o # p => told'[o] = told[o]
    BY <1>8, <2>2
  <2>5. told'[p].sent = <<>>
    BY <1>8, <2>1, <2>2
  <2>6. Single(provider, <<>>) /\ Own(<<>>)
    BY NothingTold
  <2>7. ASSUME NEW o \in Panes PROVE Single(provider, told'[o].sent) /\ Own(told'[o].sent)
    BY <2>4, <2>5, <2>6 DEF Reports
  <2>8. ASSUME NEW o \in Registered, provider # "kimi"
        PROVE  /\ Resting(provider, file, turns, Length, told'[o].sent, regs[o])
               /\ ~replaced => /\ regs[o].cursor <= Length
                               /\ Caught(provider, file, o, told'[o].from, told'[o].sent, regs[o])
    <3>1. told'[o] = told[o]
      BY <1>0, <1>8, <2>4
    <3> QED
      BY <2>8, <3>1 DEF Reports
  <2> QED
    BY <1>1, <1>8, <2>3, <2>7, <2>8 DEF Reports, Registered
<1>9. ASSUME WorkerSender PROVE Reports'
  <2>1. told' = told /\ UNCHANGED source /\ (regs' = regs \/ Registered' = {})
    BY <1>9 DEF WorkerSender, thread, Registered, NoRegistrations
  <2> QED
    BY <1>2, <1>3, <2>1
<1>10. ASSUME AwaitStop PROVE Reports'
  <2>1. /\ loop.call = "stopping" /\ (acked # None \/ worker = "gone") /\ loop.pane \in Panes
        /\ regs' = regs /\ told' = [told EXCEPT ![loop.pane] = NotTold] /\ UNCHANGED source
    BY <1>10, LoopKinds DEF AwaitStop, EndUnbind, TypesInv
  <2>2. loop.pane \notin Registered
    BY <2>1 DEF Conversation, Bindings
  <2> QED
    BY <1>8, <2>1, <2>2
<1>11. ASSUME NEW p \in Panes, Unbind(p) PROVE Reports'
  <2>1. regs' = regs /\ UNCHANGED source
    BY <1>11 DEF Unbind
  <2>2. CASE worker \in {"none", "gone"}
    <3>1. told' = [told EXCEPT ![p] = NotTold] /\ Registered = {}
      BY <1>11, <2>2 DEF Unbind, EndUnbind, Bindings
    <3> QED
      BY <1>8, <2>1, <3>1
  <2>3. CASE worker \notin {"none", "gone"}
    BY <1>3, <1>11, <2>1, <2>3 DEF Unbind
  <2> QED
    BY <2>2, <2>3
<1>12. ASSUME Reconcile PROVE Reports'
  <2>1. UNCHANGED source
    BY <1>12 DEF Reconcile
  <2>2. CASE provider = "kimi"
    BY <1>3, <1>12, <2>1, <2>2 DEF Reconcile
  <2>3. CASE provider # "kimi"
    BY <1>12, <2>1, <2>3, ScanReports DEF Reconcile
  <2> QED
    BY <2>2, <2>3
<1>13. ASSUME TakeChanged PROVE Reports'
  <2>1. UNCHANGED source
    BY <1>13 DEF TakeChanged
  <2>2. CASE provider = "kimi"
    BY <1>3, <1>13, <2>1, <2>2 DEF TakeChanged
  <2>3. CASE provider # "kimi"
    BY <1>13, <2>1, <2>3, ScanReports DEF TakeChanged
  <2> QED
    BY <2>2, <2>3
<1>14. ASSUME TakeStop PROVE Reports'
  <2>1. told' = told /\ UNCHANGED source /\ Registered' \subseteq Registered /\ \A p \in Registered' : regs'[p] = regs[p]
    BY <1>14 DEF TakeStop, Registered
  <2> QED
    BY <1>2, <2>1
<1>15. ASSUME TakeRegister PROVE Reports'
  <2>. DEFINE p == loop.pane
              v == loop.reg
  <2>1. loop.call = "await" /\ Head(queue) = RegisterOf(v) /\ acked = None
    BY <1>15, CommandTaken DEF TakeRegister
  <2>2. Head(queue).reg = v /\ v.pane = p /\ p \in Panes
    BY <2>1, LoopKinds DEF RegisterOf, Conversation, TypesInv
  <2>3. p \notin Registered
    BY <2>1 DEF Bindings
  <2>4. PICK n \in Nat : v = NewRegistration(p, 1, n) /\ (~replaced => n <= Length)
    BY <2>1 DEF Bindings
  <2>5. v.cursor = n
    BY <2>4 DEF NewRegistration
  <2>6. /\ UNCHANGED source /\ Registered' = Registered \cup {p} /\ regs'[p] = v
        /\ \A o \in Registered : regs'[o] = regs[o]
        /\ told' = [told EXCEPT ![p] = [from |-> n, sent |-> <<>>]]
    BY <1>15, <2>2, <2>3, <2>5 DEF TakeRegister, Registered
  <2>. HIDE DEF p, v
  <2>. DEFINE t == [from |-> n, sent |-> <<>>]
  <2>7. t.sent = <<>> /\ t.from = n /\ t \in [from : Nat, sent : Seq(Notes)]
    <3>. DEFINE e == <<>>
    <3>1. e \in Seq(Notes) /\ e = <<>>
      OBVIOUS
    <3>. HIDE DEF e
    <3> QED
      BY <3>1
  <2>8. told' = [told EXCEPT ![p] = t]
    BY <2>6
  <2>. HIDE DEF t
  <2>9. told \in [Panes -> [from : Nat, sent : Seq(Notes)]]
    BY DEF Reports
  <2>10. told' \in [Panes -> [from : Nat, sent : Seq(Notes)]]
    BY <2>7, <2>8, <2>9
  <2>11. told'[p] = t /\ \A o \in Panes : o # p => told'[o] = told[o]
    BY <2>2, <2>8, <2>9
  <2>12. Single(provider, <<>>) /\ Own(<<>>)
    BY NothingTold
  <2>13. ASSUME NEW o \in Panes PROVE Single(provider, told'[o].sent) /\ Own(told'[o].sent)
    BY <2>7, <2>11, <2>12 DEF Reports
  <2>14. ASSUME provider # "kimi"
         PROVE  /\ Resting(provider, file, turns, Length, <<>>, v)
                /\ ~replaced => v.cursor <= Length /\ Caught(provider, file, p, n, <<>>, v)
    <3>1. n > Length => provider = "claude"
      BY <1>0, <2>4 DEF SourceInv
    <3>2. Resting(provider, file, turns, Length, <<>>, v)
      BY <1>0, <2>4, <3>1, RestingNew
    <3>3. Caught(provider, file, p, n, <<>>, v)
      BY <2>4, CaughtNew
    <3> QED
      BY <2>4, <2>5, <3>2, <3>3
  <2>15. ASSUME NEW o \in Registered', provider # "kimi"
         PROVE  /\ Resting(provider, file, turns, Length, told'[o].sent, regs'[o])
                /\ ~replaced => /\ regs'[o].cursor <= Length
                                /\ Caught(provider, file, o, told'[o].from, told'[o].sent, regs'[o])
    <3>1. CASE o = p
      BY <2>6, <2>7, <2>11, <2>14, <2>15, <3>1
    <3>2. CASE o \in Registered
      <4>1. o # p /\ o \in Panes /\ regs'[o] = regs[o]
        BY <1>0, <2>3, <2>6, <3>2 DEF p
      <4>2. told'[o] = told[o]
        BY <2>11, <4>1
      <4> QED
        BY <2>15, <3>2, <4>1, <4>2 DEF Reports
    <3> QED
      BY <2>6, <2>15, <3>1, <3>2
  <2> QED
    BY <1>1, <2>6, <2>10, <2>13, <2>15 DEF Reports
<1>16. ASSUME SendRegister \/ AwaitRegister \/ Leave \/ Callback \/ TimePasses PROVE Reports'
  BY <1>3, <1>16 DEF SendRegister, AwaitRegister, Leave, Callback, TimePasses
<1>17. ASSUME NEW p \in Panes, Bind(p) PROVE Reports'
  BY <1>3, <1>17 DEF Bind, thread
<1> QED
  BY <1>4, <1>5, <1>6, <1>7, <1>9, <1>10, <1>11, <1>12, <1>13, <1>14, <1>15, <1>16, <1>17 DEF Next, Agent, Calls, Worker

\* What is told is right in the initial states.
LEMMA InitReports == Init => SourceInv /\ Bindings /\ Reports
<1> SUFFICES ASSUME Init PROVE SourceInv /\ Bindings /\ Reports
  OBVIOUS
<1>1. Registered = {} /\ loop.call = "rest"
  BY DEF Init, Registered, NoRegistrations, Rest
<1>. DEFINE e == <<>>
<1>2. e \in Seq(FileLines) /\ e \in Seq(Nat) /\ e \in Seq(Notes) /\ Len(e) = 0 /\ e = <<>>
  OBVIOUS
<1>3. SourceInv
  <2>1. file = e /\ answers = e /\ turns = 0 /\ half = FALSE /\ replaced = FALSE
    BY DEF Init
  <2>. HIDE DEF e
  <2>2. Written(provider, file, turns, answers)
    BY <1>2, <2>1 DEF Written
  <2>3. half \in BOOLEAN /\ ~half /\ ~replaced
    BY <2>1, Zenon
  <2>4. ~(turns > 0) /\ answers = <<>>
    BY <1>2, <2>1
  <2> QED
    BY <2>2, <2>3, <2>4 DEF SourceInv
<1>4. Bindings
  BY <1>1 DEF Bindings, Init
<1>5. Reports
  <2>1. told = [p \in Panes |-> NotTold] /\ NotTold = [from |-> 0, sent |-> e]
    BY DEF Init, NotTold
  <2>. HIDE DEF e
  <2>2. NotTold \in [from : Nat, sent : Seq(Notes)] /\ NotTold.sent = e
    BY <1>2, <2>1
  <2>3. told \in [Panes -> [from : Nat, sent : Seq(Notes)]] /\ \A p \in Panes : told[p].sent = e
    BY <2>1, <2>2
  <2>4. Single(provider, e) /\ Own(e)
    BY NothingTold DEF e
  <2> QED
    BY <1>1, <2>3, <2>4 DEF Reports
<1> QED
  BY <1>3, <1>4, <1>5

\* What a correct report says: each turn's end once, as one read would, in its own words.
LEMMA ReportsAreRight ==
    ASSUME TypesInv, SourceInv, Reports
    PROVE  ToldRight
<1>0. \A p \in Panes : told[p].sent \in Seq(Notes) /\ Single(provider, told[p].sent) /\ Own(told[p].sent)
  BY DEF Reports
<1>1. ASSUME NEW p \in Panes PROVE \A i \in DOMAIN told[p].sent : told[p].sent[i].ends \in BOOLEAN
  <2>1. \A i \in DOMAIN told[p].sent : told[p].sent[i] \in Notes
    BY <1>0
  <2> QED
    BY <2>1 DEF Notes
<1>2. OnePerTurn
  <2>1. SUFFICES ASSUME NEW p \in Panes, NEW i \in Counted(p), NEW j \in Counted(p), i # j
                 PROVE  told[p].sent[i].turn # told[p].sent[j].turn
    BY DEF OnePerTurn
  <2>2. /\ i \in DOMAIN told[p].sent /\ Counts(provider, told[p].sent[i])
        /\ j \in DOMAIN told[p].sent /\ Counts(provider, told[p].sent[j])
    BY <1>1 DEF Counted, Ends, Counts
  <2> QED
    BY <1>0, <2>1, <2>2 DEF Single
<1>3. OwnText
  <2>1. SUFFICES ASSUME NEW p \in Panes, NEW i \in Ends(p), told[p].sent[i].body # NoText
                 PROVE  told[p].sent[i].body >= told[p].sent[i].turn
    BY DEF OwnText
  <2>2. i \in DOMAIN told[p].sent /\ told[p].sent[i].ends = TRUE
    BY <1>1 DEF Ends
  <2> QED
    BY <1>0, <2>1, <2>2 DEF Own, OwnNote
<1>4. AnyReads
  <2>1. SUFFICES ASSUME NEW p \in Registered, provider # "kimi", ~replaced
                 PROVE  {told[p].sent[i].turn : i \in Ends(p)} = Whole(p)
    BY DEF AnyReads
  <2>. DEFINE s == told[p].sent
              r == regs[p]
              w == scan_source(provider, NewRegistration(p, 1, told[p].from), file, r.cursor, answers)
  <2>2. /\ provider \in {"codex", "claude", "opencode"} /\ Written(provider, file, turns, answers)
    BY <2>1, NotificationAssumption DEF NotificationAssumption, TypesInv, SourceInv
  <2>3. /\ Resting(provider, file, turns, Length, s, r) /\ Caught(provider, file, p, told[p].from, s, r)
    BY <2>1 DEF Reports
  <2>4. {s[i].turn : i \in Ends(p)} = Turns(s)
    BY DEF Ends, Turns
  <2>5. Whole(p) = Turns(w.out)
    BY DEF Whole, Turns
  <2>. HIDE DEF s, r, w
  <2>6. Turns(s) = Turns(w.out)
    <3>1. w = scan_source(provider, NewRegistration(p, 1, told[p].from), file, r.cursor, answers)
      BY DEF w, r
    <3> QED
      BY <2>2, <2>3, <3>1, WholeTold
  <2> QED
    BY <2>4, <2>5, <2>6 DEF s
<1> QED
  BY <1>2, <1>3, <1>4 DEF ToldRight

\* A turn's end is told at most once, however it was written, cut into reads and read again;
\* which turns are told is what one read would tell; and a notification has its own turn's
\* words (agent/notification.rs scan_source, apply_signal, notification_body).
THEOREM TellsRight == Spec => []ToldRight
<1>1. Init => IInv /\ SourceInv /\ Bindings /\ Reports
  BY InitInv, InitReports
<1>2. IInv /\ SourceInv /\ Bindings /\ Reports /\ [Next]_vars => IInv' /\ SourceInv' /\ Bindings' /\ Reports'
  <2>1. IInv /\ [Next]_vars => IInv'
    BY StepTypes, StepConversation, StepServed, StepTails, StepService DEF IInv
  <2> QED
    BY <2>1, StepSource, StepBindings, StepReports DEF IInv
<1>3. IInv /\ SourceInv /\ Bindings /\ Reports => ToldRight
  BY ReportsAreRight DEF IInv
<1> QED
  BY <1>1, <1>2, <1>3, PTL DEF Spec
=============================================================================
