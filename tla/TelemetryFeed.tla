--------------------------- MODULE TelemetryFeed ---------------------------
(***************************************************************************)
(* The path of one pane card from the daemon's telemetry store to an open  *)
(* sidebar: the store and its bounded subscriber channels                  *)
(* (daemon/store.rs), one server worker per connection                     *)
(* (daemon/state_server.rs), the stream thread that reads the socket and   *)
(* reconnects (sidebar/state_stream.rs), and the fold and connection state *)
(* of the interface thread (sidebar/reducer.rs, sidebar/tui.rs).           *)
(*                                                                         *)
(* A card is the number of the store change that wrote it, 0 when the pane *)
(* has none, so two cards are equal exactly when they are the same write.  *)
(* A sidebar has at most one connection at a time: its stream thread       *)
(* subscribes again only after it has read the end of the previous         *)
(* stream, which exists only once the server's worker has returned.        *)
(***************************************************************************)
EXTENDS Naturals, Sequences

CONSTANTS
    Panes,       \* pane ids
    Sidebars,    \* sidebar processes
    Buffer,      \* capacity of a subscriber channel (SUBSCRIBER_BUFFER)
    WireCap,     \* lines a socket holds before a write blocks
    InboxBound,  \* bound: events waiting in a sidebar's unbounded channel
    HistoryBound \* bound: store states after which nothing is written or started

ASSUME FeedAssumption ==
    /\ Buffer \in Nat \ {0}
    /\ WireCap \in Nat \ {0}
    /\ InboxBound \in Nat
    /\ HistoryBound \in Nat

VARIABLES
    \* the daemon: process state, cards, sequence number, registered subscribers
    up, panes, seq, subs,
    \* each connection: channel, server worker, line being written, socket
    chan, worker, outgoing, wire,
    \* each sidebar's stream thread: reader, `disconnected` flag, event channel
    link, gone, inbox,
    \* each sidebar's interface: process state, folded state, lost_at
    ui, view, lastSeq, lost,
    \* history: every state the store has had, and which of them is in `view`
    past, shown

daemon  == <<up, panes, seq, subs, past>>
conn    == <<chan, worker, outgoing, wire>>
stream  == <<link, gone, inbox>>
screen  == <<ui, view, lastSeq, lost, shown>>
vars    == <<daemon, conn, stream, screen>>

NoCards == [p \in Panes |-> 0]
Now     == Len(past)

Line  == {"hello", "delta"}
\* Mutant: the snapshot is taken before the change that is being committed.
HelloTooEarly ==
    LET before == IF Now > 1 THEN Now - 1 ELSE 1
    IN  [kind |-> "hello", seq |-> seq, panes |-> past[before], stamp |-> before]
Hello == [kind |-> "hello", seq |-> seq, panes |-> panes, stamp |-> Now]
Delta(p, card) ==
    [kind |-> "delta", seq |-> seq + 1, pane |-> p, card |-> card, stamp |-> Now + 1]
Partial      == [kind |-> "partial"]        \* a line cut off before its end
Disconnected == [kind |-> "disconnected"]
Reconnected  == [kind |-> "reconnected"]

Init ==
    /\ up = "down" /\ panes = NoCards /\ seq = 0 /\ subs = {}
    /\ chan     = [s \in Sidebars |-> <<>>]
    /\ worker   = [s \in Sidebars |-> "none"]
    /\ outgoing = [s \in Sidebars |-> <<>>]
    /\ wire     = [s \in Sidebars |-> <<>>]
    /\ link     = [s \in Sidebars |-> "none"]
    /\ gone     = [s \in Sidebars |-> FALSE]
    /\ inbox    = [s \in Sidebars |-> <<>>]
    /\ ui       = [s \in Sidebars |-> "off"]
    /\ view     = [s \in Sidebars |-> NoCards]
    /\ lastSeq  = [s \in Sidebars |-> 0]
    /\ lost     = [s \in Sidebars |-> FALSE]
    /\ past     = <<NoCards>>
    /\ shown    = [s \in Sidebars |-> 0]

-----------------------------------------------------------------------------
(* The store.                                                              *)

\* Mutant: a full subscriber misses the update and stays registered.
BroadcastKeepsFull(update) ==
    /\ subs' = subs
    /\ chan' = [s \in Sidebars |->
                  IF s \in subs /\ Len(chan[s]) < Buffer
                  THEN Append(chan[s], update) ELSE chan[s]]

\* A subscriber whose channel is full is dropped with the update it missed.
Broadcast(update) ==
    /\ subs' = {s \in subs : Len(chan[s]) < Buffer}
    /\ chan' = [s \in Sidebars |->
                  IF s \in subs /\ Len(chan[s]) < Buffer
                  THEN Append(chan[s], update) ELSE chan[s]]

Commit(p, card) ==
    /\ up # "down"
    /\ Now < HistoryBound
    /\ panes' = [panes EXCEPT ![p] = card]
    /\ seq' = seq + 1
    /\ past' = Append(past, panes')
    /\ Broadcast(Delta(p, card))
    /\ UNCHANGED <<up, worker, outgoing, wire, stream, screen>>

\* mutate_creating: the bind path may bring a card into being.
SetAgent(p) == Commit(p, Now + 1)

\* Swaps the card for a fresh one and always counts as a change.
ReplaceSession(p) == Commit(p, Now + 1)

\* mutate_existing: a late event never brings a removed card back.
Record(p) == panes[p] # 0 /\ Commit(p, Now + 1)

Remove(p) == panes[p] # 0 /\ Commit(p, 0)

-----------------------------------------------------------------------------
(* The daemon's life.                                                      *)

Start ==
    /\ up = "down"
    /\ Now < HistoryBound
    /\ up' = "up"
    /\ seq' = 0
    /\ UNCHANGED <<panes, subs, past, conn, stream, screen>>

Stop ==
    /\ up = "up"
    /\ up' = "stopping"
    /\ UNCHANGED <<panes, seq, subs, past, conn, stream, screen>>

\* The store dies with its process; the file system forgets the sockets.
Vanish ==
    /\ up' = "down"
    /\ panes' = NoCards
    /\ past' = Append(past, NoCards)
    /\ subs' = {}
    /\ chan' = [s \in Sidebars |-> <<>>]
    /\ worker' = [s \in Sidebars |-> "none"]
    /\ outgoing' = [s \in Sidebars |-> <<>>]
    /\ UNCHANGED <<seq, stream, screen>>

\* Dropping the server joins its accept thread, which joins every worker; a
\* connection still in the backlog is closed unanswered.
Exit ==
    /\ up = "stopping"
    /\ \A s \in Sidebars : worker[s] \in {"none", "queued"}
    /\ Vanish
    /\ UNCHANGED wire

\* Killed: a line being written may have reached its socket in part.
Crash ==
    /\ up # "down"
    /\ Vanish
    /\ \E cut \in SUBSET {s \in Sidebars : outgoing[s] # <<>> /\ link[s] = "attached"} :
         wire' = [s \in Sidebars |->
                    IF s \in cut THEN Append(wire[s], Partial) ELSE wire[s]]

-----------------------------------------------------------------------------
(* A connection's worker: the accept loop, then handle_connection.         *)

\* The accept loop ends with the shutdown flag; a spawned worker does not.
Accept(s) ==
    /\ up = "up"
    /\ worker[s] = "queued"
    /\ worker' = [worker EXCEPT ![s] = "accepted"]
    /\ UNCHANGED <<daemon, chan, outgoing, wire, stream, screen>>

\* subscribe_full registers and takes the snapshot under one lock.
Subscribe(s) ==
    /\ worker[s] = "accepted"
    /\ worker' = [worker EXCEPT ![s] = "serving"]
    /\ subs' = subs \cup {s}
    /\ chan' = [chan EXCEPT ![s] = <<>>]
    /\ outgoing' = [outgoing EXCEPT ![s] = <<Hello>>]
    /\ UNCHANGED <<up, panes, seq, past, wire, stream, screen>>

Receive(s) ==
    /\ worker[s] = "serving"
    /\ outgoing[s] = <<>>
    /\ chan[s] # <<>>
    /\ outgoing' = [outgoing EXCEPT ![s] = <<Head(chan[s])>>]
    /\ chan' = [chan EXCEPT ![s] = Tail(@)]
    /\ UNCHANGED <<daemon, worker, wire, stream, screen>>

WriteLine(s) ==
    /\ worker[s] = "serving"
    /\ outgoing[s] # <<>>
    /\ link[s] = "attached"
    /\ Len(wire[s]) < WireCap
    /\ wire' = [wire EXCEPT ![s] = Append(@, Head(outgoing[s]))]
    /\ outgoing' = [outgoing EXCEPT ![s] = <<>>]
    /\ UNCHANGED <<daemon, chan, worker, stream, screen>>

\* Mutant: the result of a write is not looked at.
WriteFailureIgnored(s) ==
    /\ worker[s] = "serving"
    /\ outgoing[s] # <<>>
    /\ link[s] # "attached" \/ Len(wire[s]) >= WireCap
    /\ outgoing' = [outgoing EXCEPT ![s] = <<>>]
    /\ UNCHANGED <<daemon, chan, worker, wire, stream, screen>>

\* The peer is gone, or the 500 ms write timeout ran out with a part written.
WriteFails(s) ==
    /\ worker[s] = "serving"
    /\ outgoing[s] # <<>>
    /\ link[s] # "attached" \/ Len(wire[s]) >= WireCap
    /\ worker' = [worker EXCEPT ![s] = "leaving"]
    /\ outgoing' = [outgoing EXCEPT ![s] = <<>>]
    /\ \/ UNCHANGED wire
       \/ link[s] = "attached" /\ wire' = [wire EXCEPT ![s] = Append(@, Partial)]
    /\ UNCHANGED <<daemon, chan, stream, screen>>

\* Mutants: the loop does not end for one of its three reasons.
EndLoopUnless(s, reason) ==
    /\ worker[s] = "serving"
    /\ outgoing[s] = <<>>
    /\ \/ reason # "shutdown" /\ up = "stopping"
       \/ reason # "dropped" /\ chan[s] = <<>> /\ s \notin subs
       \/ /\ reason # "heartbeat"
          /\ chan[s] = <<>> /\ (link[s] # "attached" \/ Len(wire[s]) >= WireCap)
    /\ worker' = [worker EXCEPT ![s] = "leaving"]
    /\ UNCHANGED <<daemon, chan, outgoing, wire, stream, screen>>
EndLoopNotOnShutdown(s) == EndLoopUnless(s, "shutdown")
EndLoopNotWhenDropped(s) == EndLoopUnless(s, "dropped")
\* The shutdown flag, a channel whose sender the store dropped, or a
\* heartbeat that cannot be written ends the loop.
EndLoop(s) ==
    /\ worker[s] = "serving"
    /\ outgoing[s] = <<>>
    /\ \/ up = "stopping"
       \/ chan[s] = <<>> /\ s \notin subs
       \/ chan[s] = <<>> /\ (link[s] # "attached" \/ Len(wire[s]) >= WireCap)
    /\ worker' = [worker EXCEPT ![s] = "leaving"]
    /\ UNCHANGED <<daemon, chan, outgoing, wire, stream, screen>>

\* unsubscribe, then the worker returns and the connection closes.
Unsubscribe(s) ==
    /\ worker[s] = "leaving"
    /\ worker' = [worker EXCEPT ![s] = "none"]
    /\ subs' = subs \ {s}
    /\ chan' = [chan EXCEPT ![s] = <<>>]
    /\ UNCHANGED <<up, panes, seq, past, outgoing, wire, stream, screen>>

-----------------------------------------------------------------------------
(* A sidebar's stream thread, StateStream::start.                          *)

\* A last line without its end is delivered like any other, but only at the
\* end of the stream. The first line after a break announces the recovery.
ReadLine(s) ==
    /\ link[s] = "attached"
    /\ wire[s] # <<>>
    /\ Head(wire[s]) = Partial => worker[s] = "none"
    /\ Len(inbox[s]) < InboxBound
    /\ wire' = [wire EXCEPT ![s] = Tail(@)]
    /\ inbox' = [inbox EXCEPT ![s] =
                   @ \o (IF gone[s] THEN <<Reconnected>> ELSE <<>>) \o <<Head(wire[s])>>]
    /\ gone' = [gone EXCEPT ![s] = FALSE]
    /\ UNCHANGED <<daemon, chan, worker, outgoing, link, screen>>

ReadEnd(s) ==
    /\ link[s] = "attached"
    /\ wire[s] = <<>>
    /\ worker[s] = "none"
    /\ Len(inbox[s]) < InboxBound
    /\ link' = [link EXCEPT ![s] = "seeking"]
    /\ inbox' = [inbox EXCEPT ![s] = IF gone[s] THEN @ ELSE Append(@, Disconnected)]
    /\ gone' = [gone EXCEPT ![s] = TRUE]
    /\ UNCHANGED <<daemon, conn, screen>>

Resubscribe(s) ==
    /\ link[s] = "seeking"
    /\ up # "down"
    /\ link' = [link EXCEPT ![s] = "attached"]
    /\ worker' = [worker EXCEPT ![s] = "queued"]
    /\ wire' = [wire EXCEPT ![s] = <<>>]
    /\ UNCHANGED <<daemon, chan, outgoing, gone, inbox, screen>>

-----------------------------------------------------------------------------
(* The interface thread: run() and apply_line.                             *)

Launch(s) ==
    /\ ui[s] = "off"
    /\ worker[s] = "none"
    /\ up # "down"
    /\ ui' = [ui EXCEPT ![s] = "running"]
    /\ link' = [link EXCEPT ![s] = "attached"]
    /\ worker' = [worker EXCEPT ![s] = "queued"]
    /\ wire' = [wire EXCEPT ![s] = <<>>]
    /\ gone' = [gone EXCEPT ![s] = FALSE]
    /\ UNCHANGED <<daemon, chan, outgoing, inbox, view, lastSeq, lost, shown>>

\* Mutant: the snapshot is merged into the cards on screen.
ApplyHelloMerges(s, line) ==
    /\ line.kind = "hello"
    /\ view' = [view EXCEPT ![s] =
                  [p \in Panes |-> IF line.panes[p] # 0 THEN line.panes[p] ELSE @[p]]]
    /\ lastSeq' = [lastSeq EXCEPT ![s] = line.seq]
    /\ shown' = [shown EXCEPT ![s] = line.stamp]
    /\ UNCHANGED <<ui, lost>>

ApplyHello(s, line) ==
    /\ line.kind = "hello"
    /\ view' = [view EXCEPT ![s] = line.panes]
    /\ lastSeq' = [lastSeq EXCEPT ![s] = line.seq]
    /\ shown' = [shown EXCEPT ![s] = line.stamp]
    /\ UNCHANGED <<ui, lost>>

ApplyDelta(s, line) ==
    /\ line.kind = "delta"
    /\ IF line.seq <= lastSeq[s]
       THEN UNCHANGED <<view, lastSeq, shown>>
       ELSE /\ view' = [view EXCEPT ![s][line.pane] = line.card]
            /\ lastSeq' = [lastSeq EXCEPT ![s] = line.seq]
            /\ shown' = [shown EXCEPT ![s] = line.stamp]
    /\ UNCHANGED <<ui, lost>>

\* A line that does not parse ends the sidebar with its error on the screen.
ApplyPartial(s, line) ==
    /\ line = Partial
    /\ ui' = [ui EXCEPT ![s] = "halted"]
    /\ UNCHANGED <<view, lastSeq, lost, shown>>

ApplyLink(s, event) ==
    /\ event \in {Disconnected, Reconnected}
    /\ lost' = [lost EXCEPT ![s] = (event = Disconnected)]
    /\ UNCHANGED <<ui, view, lastSeq, shown>>

Apply(s) ==
    /\ ui[s] = "running"
    /\ inbox[s] # <<>>
    /\ \/ ApplyHello(s, Head(inbox[s]))
       \/ ApplyDelta(s, Head(inbox[s]))
       \/ ApplyPartial(s, Head(inbox[s]))
       \/ ApplyLink(s, Head(inbox[s]))
    /\ inbox' = [inbox EXCEPT ![s] = Tail(@)]
    /\ UNCHANGED <<daemon, conn, link, gone>>

\* RECONNECT_FOR has passed since lost_at and no event is waiting.
GiveUp(s) ==
    /\ ui[s] = "running"
    /\ lost[s]
    /\ inbox[s] = <<>>
    /\ ui' = [ui EXCEPT ![s] = "halted"]
    /\ UNCHANGED <<daemon, conn, stream, view, lastSeq, lost, shown>>

\* The user quits, or dismisses the message: the stream is dropped with the
\* process, and the server's worker finds out when it next writes.
Close(s) ==
    /\ ui[s] \in {"running", "halted"}
    /\ ui' = [ui EXCEPT ![s] = "off"]
    /\ link' = [link EXCEPT ![s] = "none"]
    /\ inbox' = [inbox EXCEPT ![s] = <<>>]
    /\ wire' = [wire EXCEPT ![s] = <<>>]
    /\ view' = [view EXCEPT ![s] = NoCards]
    /\ lastSeq' = [lastSeq EXCEPT ![s] = 0]
    /\ lost' = [lost EXCEPT ![s] = FALSE]
    /\ shown' = [shown EXCEPT ![s] = 0]
    /\ UNCHANGED <<daemon, chan, worker, outgoing, gone>>

-----------------------------------------------------------------------------
ServerStep(s) ==
    \/ Accept(s) \/ Subscribe(s)
    \/ Receive(s) \/ WriteLine(s) \/ WriteFails(s) \/ EndLoop(s)
    \/ Unsubscribe(s)
StreamStep(s) == ReadLine(s) \/ ReadEnd(s) \/ Resubscribe(s)

Next ==
    \/ \E p \in Panes : SetAgent(p) \/ ReplaceSession(p) \/ Record(p) \/ Remove(p)
    \/ Start \/ Stop \/ Exit \/ Crash
    \/ \E s \in Sidebars :
         ServerStep(s) \/ StreamStep(s) \/ Launch(s) \/ Apply(s) \/ GiveUp(s) \/ Close(s)

Spec == Init /\ [][Next]_vars

\* Threads run; a daemon told to stop stops. Nothing makes a daemon start, a
\* write happen, or a socket time out while its reader keeps up.
Fairness ==
    /\ WF_vars(Exit)
    /\ \A s \in Sidebars :
         WF_vars(ServerStep(s)) /\ WF_vars(StreamStep(s)) /\ WF_vars(Apply(s))

FairSpec == Spec /\ Fairness

-----------------------------------------------------------------------------
(* Properties.                                                             *)

Event == {"hello", "delta", "partial", "disconnected", "reconnected"}

\* Every variable has its type; the channel and the line being written stay
\* within one buffer and one line.
TypeOK ==
    /\ up \in {"down", "up", "stopping"}
    /\ panes \in [Panes -> Nat] /\ seq \in Nat /\ subs \subseteq Sidebars
    /\ worker \in [Sidebars -> {"none", "queued", "accepted", "serving", "leaving"}]
    /\ link \in [Sidebars -> {"none", "attached", "seeking"}]
    /\ ui \in [Sidebars -> {"off", "running", "halted"}]
    /\ gone \in [Sidebars -> BOOLEAN] /\ lost \in [Sidebars -> BOOLEAN]
    /\ view \in [Sidebars -> [Panes -> Nat]]
    /\ lastSeq \in [Sidebars -> Nat] /\ shown \in [Sidebars -> Nat]
    /\ past \in Seq([Panes -> Nat]) /\ past # <<>>
    /\ \A s \in Sidebars :
         /\ Len(chan[s]) <= Buffer /\ Len(outgoing[s]) <= 1
         /\ \A q \in {chan[s], outgoing[s], wire[s], inbox[s]} :
              \A i \in DOMAIN q : q[i].kind \in Event

\* The cards on an open sidebar are a state the store really had, every pane
\* from the same moment: no delta is ever missing from the middle, whatever was
\* dropped, cut off or restarted on the way (broadcast's drop-on-full,
\* subscribe_full's single lock, apply_line's fold).
ViewIsConsistent ==
    \A s \in Sidebars :
        ui[s] = "running" =>
            view[s] = IF shown[s] = 0 THEN NoCards ELSE past[shown[s]]

\* A sidebar that the store still counts as a subscriber and a worker still
\* serves, with nothing left between the two, shows the store's present state
\* under its sequence number. A dropped update must therefore cost the
\* subscription, a failed write the connection (broadcast, handle_connection).
SubscribedMeansCurrent ==
    \A s \in subs :
        (/\ ui[s] = "running" /\ worker[s] = "serving"
         /\ inbox[s] \o wire[s] \o outgoing[s] \o chan[s] = <<>>) =>
            view[s] = panes /\ lastSeq[s] = seq

\* While a sidebar stays open its screen never moves to an older state, not
\* even over a daemon restart, where the sequence number itself starts again.
NeverGoesBack ==
    [][\A s \in Sidebars : ui[s] = "running" /\ ui'[s] = "running"
            => shown[s] <= shown'[s]]_vars

\* The reconnection notice is cleared only by a line of the new stream: in the
\* event channel every Reconnected is directly followed by the line that
\* proved it (state_stream.rs, "Announce reconnection only once a line proves
\* the replacement feed is readable").
ReconnectedWithProof ==
    \A s \in Sidebars : \A i \in DOMAIN inbox[s] :
        inbox[s][i] = Reconnected =>
            i < Len(inbox[s]) /\ inbox[s][i + 1].kind \in {"hello", "partial"}

\* What a sidebar shows implements the abstract card feed.
Cards == INSTANCE CardFeed WITH past <- past, shown <- shown, view <- view
CardFeedSpec == Cards!Spec

\* If the daemon stays up and a sidebar stays open, the sidebar ends up showing
\* the store's state, however often it was dropped as a slow subscriber.
Converges ==
    \A s \in Sidebars :
        <>[](up = "up" /\ ui[s] = "running") => <>[](view[s] = panes)

\* The shutdown that a takeover waits for completes: no worker, blocked on a
\* full socket or waiting on its channel, keeps the daemon from exiting; and a
\* closed sidebar does not stay registered with the store.
WindsDown ==
    /\ up = "stopping" ~> up = "down"
    /\ \A s \in Sidebars : ui[s] = "off" ~> s \notin subs

\* README: a sidebar whose daemon goes away keeps its cards, shows the notice
\* and resubscribes; it stops only after the notice has been up for a minute.
RidesOutDisconnect ==
    [][\A s \in Sidebars : ui[s] = "running" /\ ui'[s] = "halted" => lost[s]]_vars
=============================================================================
