------------------------------ MODULE SidebarCards ------------------------------
(***************************************************************************)
(* The list of cards (sidebar/tui.rs with select.rs, layout.rs and the     *)
(* geometry of view.rs): the daemon's lines change the panes, each turn of *)
(* the loop draws what changed and takes one key or mouse event, which     *)
(* means what the last frame showed.                                       *)
(***************************************************************************)
EXTENDS Integers, Sequences, FiniteSets, SequencesExt

CONSTANTS
    Cards, NoCard,
    Calls, NoCall,    \* toolUseIds, which are unique within a pane only
    RingLimit,        \* calls kept
    Body,             \* lines of an expanded card above its traces
    TraceLines,       \* trace_lines
    Heights,          \* of the frame
    MaxUpdates        \* model bound

ASSUME CardAssumption ==
    /\ Body \in Nat /\ TraceLines \in Nat /\ Heights \subseteq Nat
    /\ NoCard \notin Cards /\ NoCall \notin Calls

VARIABLES
    panes,     \* in the order they are sorted: card, idle, ring of calls with whether settled
    it,        \* Interaction: cursor, focus, toggled, offset, follow
    hideIdle,
    shown,     \* last_rendered: cards, rows, total; and the viewport
    frame,     \* the height of the terminal
    detail,    \* the open trace
    turn,      \* "drain" or "input"
    dirty,
    updates

cardVars == <<panes, it, hideIdle, shown, frame, detail, turn, dirty, updates>>

Least(a, b) == IF a < b THEN a ELSE b
Most(a, b) == IF a > b THEN a ELSE b
-----------------------------------------------------------------------------
(* What is drawn.                                                          *)

\* The k-th least of a set of numbers.
Nth(S, k) == CHOOSE n \in S : Cardinality({m \in S : m < n}) = k - 1

\* Newest first, each id once: a newer call of an id hides the older ones.
Newest(ring) ==
    LET kept == {i \in DOMAIN ring : \A j \in DOMAIN ring : ring[j].id = ring[i].id => j <= i}
    IN  [k \in 1 .. Cardinality(kept) |-> ring[Nth(kept, Cardinality(kept) + 1 - k)]]

CanonicalCall(ring, id) ==
    LET of == {i \in DOMAIN ring : ring[i].id = id} IN ring[CHOOSE i \in of : \A j \in of : j <= i]

Visible ==
    LET kept == {i \in DOMAIN panes : ~(hideIdle /\ panes[i].idle)}
    IN  [k \in 1 .. Cardinality(kept) |-> panes[Nth(kept, k)]]
HiddenIdle == hideIdle /\ \E i \in DOMAIN panes : panes[i].idle

\* The traces of an expanded card: all of them in focus, else those of the window.
Traces(p) == IF p.card \in it.toggled THEN Newest(p.ring) ELSE <<>>
Window(p, cursor, focus) ==
    IF focus # NoCall /\ cursor = p.card THEN Len(Traces(p)) ELSE Least(TraceLines, Len(Traces(p)))

\* Three lines, or the body, the header of the traces, their rows and the count of the rest.
Height(p, cursor, focus) ==
    IF p.card \notin it.toggled THEN 3
    ELSE Body + 1 + Window(p, cursor, focus) + (IF Window(p, cursor, focus) < Len(Traces(p)) THEN 1 ELSE 0)

\* Where cards of these heights start, a rule between any two.
Starts(heights) ==
    LET start[i \in DOMAIN heights] == IF i = 1 THEN 0 ELSE start[i - 1] + heights[i - 1] + 1 IN start

\* render, for a cursor and a focus.
Render(cursor, focus) ==
    LET cards == Visible
        heights == [i \in DOMAIN cards |-> Height(cards[i], cursor, focus)]
        starts == Starts(heights)
        rows(i) == {k \in 1 .. Window(cards[i], cursor, focus) : Traces(cards[i])[k].settled}
    IN  [cards |-> [i \in DOMAIN cards |-> [card |-> cards[i].card, start |-> starts[i], height |-> heights[i]]],
         rows |-> UNION {{[card |-> cards[i].card, id |-> Traces(cards[i])[k].id, line |-> starts[i] + Body + k] :
                            k \in rows(i)} : i \in DOMAIN cards},
         total |-> IF cards = <<>> THEN (IF HiddenIdle THEN 0 ELSE 1)
                   ELSE starts[Len(cards)] + heights[Len(cards)]]

RowsOf(out, card) == {r \in out.rows : r.card = card}
RowAt(rows, k) == CHOOSE r \in rows : Cardinality({q \in rows : q.line < r.line}) = k
PlaceIn(rows, id) ==
    IF \E r \in rows : r.id = id
    THEN LET r == CHOOSE r \in rows : r.id = id IN Cardinality({q \in rows : q.line < r.line})
    ELSE 0
CardsOf(out) == {out.cards[i].card : i \in DOMAIN out.cards}
IndexOf(out, card) ==
    IF card \in CardsOf(out) THEN CHOOSE i \in DOMAIN out.cards : out.cards[i].card = card ELSE 1

\* follow_span: the row in focus, else the card; no span without a card.
NoSpan == [start |-> 0, height |-> 0]
FollowSpan(out, cursor, focus) ==
    IF \E r \in RowsOf(out, cursor) : r.id = focus
    THEN [start |-> (CHOOSE r \in RowsOf(out, cursor) : r.id = focus).line, height |-> 1]
    ELSE IF cursor \in CardsOf(out)
         THEN LET s == out.cards[IndexOf(out, cursor)] IN [start |-> s.start, height |-> s.height]
         ELSE NoSpan
-----------------------------------------------------------------------------
(* layout.rs                                                               *)

ClampScroll(offset, total, view) == Least(offset, Most(total - view, 0))

EnsureVisible(offset, span, view, total) ==
    IF view = 0 THEN 0
    ELSE IF span.height > view THEN ClampScroll(span.start, total, view)
    ELSE ClampScroll(IF span.start < offset THEN span.start
                     ELSE IF span.start + span.height > offset + view THEN span.start + span.height - view
                     ELSE offset, total, view)

Reanchor(offset, old, new, view, total) == ClampScroll(Most(new.start + offset - old.start, 0), total, view)
-----------------------------------------------------------------------------
(* One turn of the loop.                                                   *)

\* reconcile_cursor: a card gone leaves the cursor to the one now in its place.
CursorOn(out, at) ==
    IF it.cursor \in CardsOf(out) THEN it.cursor
    ELSE IF out.cards = <<>> THEN NoCard
    ELSE out.cards[Least(at, Len(out.cards))].card

\* Mutant: a focus whose card has no row left stays.
FocusKept(out, cursor) ==
    LET now == RowsOf(out, cursor) IN
    IF it.focus = NoCall \/ it.cursor # cursor \/ cursor = NoCard THEN NoCall
    ELSE IF now = {} \/ \E r \in now : r.id = it.focus THEN it.focus
    ELSE RowAt(now, Least(PlaceIn(RowsOf(shown, cursor), it.focus), Cardinality(now) - 1)).id

\* reconcile_trace_focus: the row, or the one now in its place on the same card.
FocusOn(out, cursor) ==
    LET now == RowsOf(out, cursor) IN
    IF it.focus = NoCall \/ it.cursor # cursor \/ cursor = NoCard \/ now = {} THEN NoCall
    ELSE IF \E r \in now : r.id = it.focus THEN it.focus
    ELSE RowAt(now, Least(PlaceIn(RowsOf(shown, cursor), it.focus), Cardinality(now) - 1)).id

\* The scroll follows what the operator selects, and else stays with what it showed.
Present(cursor, focus, out) ==
    LET view == Most(frame - (IF HiddenIdle THEN 2 ELSE 1), 0)
        old == FollowSpan(shown, it.cursor, it.focus)
        new == FollowSpan(out, cursor, focus)
    IN  /\ shown' = [cards |-> out.cards, rows |-> out.rows, total |-> out.total, view |-> view]
        /\ it' = [cursor |-> cursor, focus |-> focus, follow |-> it.follow,
                  toggled |-> it.toggled \cap {panes[i].card : i \in DOMAIN panes},
                  offset |-> IF new = NoSpan THEN 0
                             ELSE IF it.follow \/ cursor # it.cursor THEN EnsureVisible(it.offset, new, view, out.total)
                             ELSE Reanchor(it.offset, IF old = NoSpan THEN new ELSE old, new, view, out.total)]

Reconcile(seen, cursor) ==
    LET focus == FocusOn(seen, cursor) IN Present(cursor, focus, Render(cursor, focus))

Draw ==
    /\ turn = "drain" /\ dirty
    /\ LET seen == Render(it.cursor, it.focus)
       IN  Reconcile(seen, CursorOn(seen, IndexOf(shown, it.cursor)))
    /\ turn' = "input" /\ dirty' = FALSE
    /\ UNCHANGED <<panes, hideIdle, frame, detail, updates>>

Undrawn == turn = "drain" /\ ~dirty /\ turn' = "input" /\ UNCHANGED <<panes, it, hideIdle, shown, frame, detail, dirty, updates>>

\* The daemon's lines that arrived since the last turn.
Update(to) ==
    /\ turn = "drain" /\ updates < MaxUpdates
    /\ panes' = to /\ dirty' = TRUE /\ updates' = updates + 1
    /\ UNCHANGED <<it, hideIdle, shown, frame, detail, turn>>

Bound == {panes[i].card : i \in DOMAIN panes}
Bind(c) == c \notin Bound /\ \E i \in 1 .. Len(panes) + 1 :
              Update(InsertAt(panes, i, [card |-> c, idle |-> FALSE, ring |-> <<>>]))
Unbind(i) == Update(RemoveAt(panes, i))
TurnIdle(i) == Update([panes EXCEPT ![i].idle = ~@])
Moves(i) == i > 1 /\ Update([panes EXCEPT ![i] = panes[i - 1], ![i - 1] = panes[i]])
Called(i, id, settled) ==
    Update([panes EXCEPT ![i].ring =
              LET all == Append(@, [id |-> id, settled |-> settled])
              IN  IF Len(all) > RingLimit THEN Tail(all) ELSE all])

Wire == \/ \E c \in Cards : Bind(c)
        \/ \E i \in DOMAIN panes : Unbind(i) \/ TurnIdle(i) \/ Moves(i)
        \/ \E i \in DOMAIN panes, id \in Calls, settled \in BOOLEAN : Called(i, id, settled)
-----------------------------------------------------------------------------
(* Keys and the mouse, on the frame that was drawn.                        *)

Input(next) ==
    /\ turn = "input" /\ turn' = "drain" /\ dirty' = TRUE
    /\ it' = next /\ UNCHANGED <<panes, shown, frame, updates>>

Step(at, delta, len) == Most(Least(at + delta, len), 1)

MoveCursor(delta) ==
    /\ it.focus = NoCall /\ detail = NoCall
    /\ Input([it EXCEPT !.follow = TRUE,
                 !.cursor = IF shown.cards = <<>> THEN NoCard
                            ELSE shown.cards[Step(IndexOf(shown, it.cursor), delta, Len(shown.cards))].card])
    /\ UNCHANGED <<hideIdle, detail>>

MoveFocus(delta) ==
    LET rows == RowsOf(shown, it.cursor) IN
    /\ it.focus # NoCall /\ detail = NoCall
    /\ Input([it EXCEPT !.follow = TRUE,
                 !.focus = IF rows = {} THEN @
                           ELSE RowAt(rows, Step(PlaceIn(rows, it.focus) + 1, delta, Cardinality(rows)) - 1).id])
    /\ UNCHANGED <<hideIdle, detail>>

Toggle(S, c) == IF c \in S THEN S \ {c} ELSE S \cup {c}

ToggleCard ==
    /\ it.focus = NoCall /\ detail = NoCall
    /\ Input([it EXCEPT !.follow = TRUE, !.toggled = IF it.cursor = NoCard THEN @ ELSE Toggle(@, it.cursor)])
    /\ UNCHANGED <<hideIdle, detail>>

ToggleIdle ==
    /\ detail = NoCall /\ hideIdle' = ~hideIdle /\ Input([it EXCEPT !.follow = TRUE]) /\ UNCHANGED detail

RingOf(card) == panes[CHOOSE i \in DOMAIN panes : panes[i].card = card].ring

\* newest_selectable_id, which may be outside of the rows that are drawn.
Selectable(ring) == {k \in DOMAIN Newest(ring) : Newest(ring)[k].settled}
EnterTraces ==
    /\ turn = "input" /\ detail = NoCall /\ it.focus = NoCall /\ it.cursor # NoCard /\ it.cursor \in it.toggled
    /\ LET ring == RingOf(it.cursor) IN
       /\ Selectable(ring) # {}
       /\ Input([it EXCEPT !.follow = TRUE,
                    !.focus = Newest(ring)[CHOOSE k \in Selectable(ring) : \A j \in Selectable(ring) : k <= j].id])
    /\ UNCHANGED <<hideIdle, detail>>

LeaveTraces == it.focus # NoCall /\ detail = NoCall /\ Input([it EXCEPT !.focus = NoCall]) /\ UNCHANGED <<hideIdle, detail>>

Scrolled(offset) == [it EXCEPT !.offset = offset, !.follow = @ /\ offset = it.offset]
Scroll(lines) ==
    /\ detail = NoCall /\ shown.view > 0
    /\ Input(Scrolled(IF lines < 0 THEN Most(it.offset + lines, 0) ELSE ClampScroll(it.offset + lines, shown.total, shown.view)))
    /\ UNCHANGED <<hideIdle, detail>>

\* resolve_open_trace
OpenTrace ==
    /\ turn = "input" /\ it.focus # NoCall /\ detail = NoCall
    /\ CanonicalCall(RingOf(it.cursor), it.focus).settled
    /\ detail' = it.focus /\ Input(it) /\ UNCHANGED hideIdle

CloseTrace == detail # NoCall /\ detail' = NoCall /\ Input(it) /\ UNCHANGED hideIdle

\* apply_mouse: a row selects itself, a header toggles its card, a body only selects.
Click(row) ==
    /\ detail = NoCall /\ row < shown.view
    /\ LET line == it.offset + row
           rows == {r \in shown.rows : r.line = line}
           hit == {i \in DOMAIN shown.cards : shown.cards[i].start <= line /\ line < shown.cards[i].start + shown.cards[i].height}
       IN  \/ \E r \in rows :
                /\ <<it.cursor, it.focus>> # <<r.card, r.id>>
                /\ Input([it EXCEPT !.cursor = r.card, !.focus = r.id, !.follow = TRUE])
           \/ rows = {} /\ \E i \in hit :
                LET s == shown.cards[i] IN
                IF line = s.start
                THEN Input([it EXCEPT !.cursor = s.card, !.focus = NoCall, !.follow = TRUE, !.toggled = Toggle(@, s.card)])
                ELSE Input([it EXCEPT !.cursor = s.card, !.follow = FALSE,
                               !.focus = IF it.cursor = s.card THEN @ ELSE NoCall])
    /\ UNCHANGED <<hideIdle, detail>>

Resize ==
    /\ turn = "input" /\ frame' \in Heights /\ turn' = "drain" /\ dirty' = TRUE
    /\ UNCHANGED <<panes, it, hideIdle, shown, detail, updates>>

\* The wait for input runs out.
Idles == turn = "input" /\ turn' = "drain" /\ UNCHANGED <<panes, it, hideIdle, shown, frame, detail, dirty, updates>>

CardInit ==
    /\ panes = <<>> /\ hideIdle \in BOOLEAN /\ detail = NoCall /\ updates = 0
    /\ it = [cursor |-> NoCard, focus |-> NoCall, toggled |-> {}, offset |-> 0, follow |-> TRUE]
    /\ shown = [cards |-> <<>>, rows |-> {}, total |-> 0, view |-> 0]
    /\ frame \in Heights /\ turn = "drain" /\ dirty = TRUE

CardNext ==
    \/ Wire \/ Draw \/ Undrawn \/ Resize \/ Idles
    \/ \E delta \in {-1, 1} : MoveCursor(delta) \/ MoveFocus(delta)
    \/ ToggleCard \/ ToggleIdle \/ EnterTraces \/ LeaveTraces \/ OpenTrace \/ CloseTrace
    \/ \E lines \in {-1, 1} : Scroll(lines)
    \/ \E row \in 0 .. shown.view : Click(row)
-----------------------------------------------------------------------------
\* What the next key or click acts on is on the screen, whatever the daemon and the
\* operator did in between: the cursor on a card that is drawn, the focus on a row of that
\* card, every row one that opens, and the followed one inside of the viewport
\* (reconcile_cursor, reconcile_trace_focus, resolve_open_trace, ensure_visible).
FocusIsShown ==
    turn = "input" =>
      /\ it.cursor = NoCard <=> shown.cards = <<>>
      /\ it.cursor # NoCard => it.cursor \in CardsOf(shown)
      /\ it.focus # NoCall => \E r \in RowsOf(shown, it.cursor) : r.id = it.focus
      /\ \A r \in shown.rows : CanonicalCall(RingOf(r.card), r.id).settled
      /\ it.offset <= Most(shown.total - shown.view, 0)
      /\ it.follow /\ it.cursor # NoCard /\ shown.view > 0 =>
           LET s == FollowSpan(shown, it.cursor, it.focus) IN
           /\ it.offset <= s.start /\ s.start < it.offset + shown.view
           /\ s.height <= shown.view => s.start + s.height <= it.offset + shown.view
=============================================================================
