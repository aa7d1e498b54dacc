------------------------------ MODULE CardFeed ------------------------------
(***************************************************************************)
(* What a sidebar is promised: it shows a state the daemon really had, all *)
(* panes from the same moment, and time on its screen does not run         *)
(* backwards while it stays open.                                          *)
(***************************************************************************)
EXTENDS Naturals, Sequences

CONSTANTS Panes, Sidebars

VARIABLES past,   \* every state of the cards so far, oldest first
          shown,  \* per sidebar, the state on its screen; 0 before the first
          view    \* per sidebar, the cards on its screen

vars == <<past, shown, view>>

NoCards == [p \in Panes |-> 0]

Init ==
    /\ past = <<NoCards>>
    /\ shown = [s \in Sidebars |-> 0]
    /\ view = [s \in Sidebars |-> NoCards]

\* One pane changes, or a daemon ends and takes every card with it.
Publish ==
    /\ \/ past' = Append(past, NoCards)
       \/ \E p \in Panes, card \in {0, Len(past) + 1} :
            past' = Append(past, [past[Len(past)] EXCEPT ![p] = card])
    /\ UNCHANGED <<shown, view>>

Refresh(s) ==
    /\ \E moment \in 1..Len(past) :
         /\ shown[s] <= moment
         /\ shown' = [shown EXCEPT ![s] = moment]
         /\ view' = [view EXCEPT ![s] = past[moment]]
    /\ UNCHANGED past

Clear(s) ==
    /\ shown' = [shown EXCEPT ![s] = 0]
    /\ view' = [view EXCEPT ![s] = NoCards]
    /\ UNCHANGED past

Next == Publish \/ \E s \in Sidebars : Refresh(s) \/ Clear(s)

Spec == Init /\ [][Next]_vars
=============================================================================
