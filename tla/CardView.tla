------------------------------- MODULE CardView -------------------------------
(***************************************************************************)
(* How wide a card's lines, the pinned lines and a panel's lines are, and  *)
(* what a gauge shows (sidebar/view.rs with format.rs, bars.rs and         *)
(* dialog.rs).  A text is its cells and whether its characters take two of *)
(* them; a line is the cells of its spans; numbers are what is shown of    *)
(* them.  A step draws one line of a frame of one width.                   *)
(***************************************************************************)
EXTENDS Integers, Sequences, FiniteSets, SequencesExt

CONSTANTS
    ShownIds,    \* the ids of three panes, by their characters
    Widths,      \* of frames, from MIN_WIDTH on
    TextCells,   \* how long names, tasks, arguments may be
    Counts,      \* of calls
    Percents     \* reported

\* At most eight characters, by which two panes differ.
ASSUME IdsTell == \A p, q \in DOMAIN ShownIds : Len(ShownIds[p]) <= 8 /\ (ShownIds[p] = ShownIds[q] => p = q)

VARIABLES
    width,
    line         \* what is drawn: kind, spans, and more to judge it by

viewVars == <<width, line>>

Texts == [cells : TextCells, wide : BOOLEAN]
NoText == [cells |-> 0, wide |-> FALSE]
Max2(a, b) == IF a > b THEN a ELSE b
Min2(a, b) == IF a < b THEN a ELSE b
Total(cells) == FoldLeft(LAMBDA sum, c : sum + c, 0, cells)
-----------------------------------------------------------------------------
(* format.rs                                                               *)

\* The ellipsis takes a cell, a two-cell character that would cross it is left out, and
\* below two cells nothing is shown.
Truncate(text, cells) ==
    CASE text.cells <= cells -> text.cells
      [] text.cells > cells /\ cells < 2 -> 0
      [] OTHER -> IF text.wide THEN 2 * ((cells - 1) \div 2) + 1 ELSE cells

\* The cells a count takes, floored within each of its ranges.
Digits(n) == IF n < 10 THEN 1 ELSE IF n < 100 THEN 2 ELSE IF n < 1000 THEN 3 ELSE 4
CountCells(n) ==
    CASE n < 10000 -> Digits(n)
      [] n \in 10000 .. 999999 -> Digits(n \div 1000) + 1
      [] n \in 10000000 .. 99999999 -> 3
      [] OTHER -> 4

Missing == IF width >= 44 THEN {28, 31} ELSE {1}     \* unavailable, unbridged
PercentCells(p) == IF p > 100 THEN 4 ELSE Digits(p) + 1
-----------------------------------------------------------------------------
(* bars.rs                                                                 *)

GaugeCells(pct, value, max, cells) ==
    LET raw == Min2((Min2(pct, 100) * cells + 50) \div 100, cells)
        some == IF value > 0 /\ raw = 0 THEN 1 ELSE raw
    IN  IF value < max /\ some = cells THEN cells - 1 ELSE some

ToolBars(counts, cells) ==
    LET max == FoldLeft(Max2, 0, counts) IN
    [i \in DOMAIN counts |->
       IF counts[i] = 0 \/ max = 0 THEN 0
       ELSE Min2(Max2((counts[i] * cells + max \div 2) \div max, 1), cells)]

\* Mutant: what rounding assigned too much stays.
JarRounded(counts, inner) ==
    LET total == Max2(Total(counts), 1)
    IN  [i \in DOMAIN counts |-> (counts[i] * inner * 2 + total) \div (total * 2)]

\* jar_cells: rounded shares, and the first tool takes what rounding left over or, as far as
\* it can, what it assigned too much; the next ones take the rest.
JarCells(counts, inner) ==
    LET total == Max2(Total(counts), 1)
        cells == [i \in DOMAIN counts |-> (counts[i] * inner * 2 + total) \div (total * 2)]
        over == Total(cells) - inner
        before(i) == Total(SubSeq(cells, 1, i - 1))
    IN  [i \in DOMAIN counts |->
           IF over < 0 THEN (IF i = 1 THEN cells[1] - over ELSE cells[i])
           ELSE cells[i] - Min2(cells[i], Max2(over - before(i), 0))]
-----------------------------------------------------------------------------
(* A card's lines (view.rs).                                               *)

Gauge(beside) == Max2(Min2(14, width - beside), 6)

Justify(left, right) == left \o <<Max2(width - Total(left) - Total(right), 1)>> \o right

\* The mark is one cell, whatever the configuration says.
Header(name, label) ==
    Justify(<<2, 1, 1, Truncate(name, Max2(width - 16, 3))>>, IF width >= 40 THEN <<1, 1 + label>> ELSE <<1>>)

\* With neither, the agent's name as it is, which is not cut off.
TaskLine(cwd, task, agent) ==
    LET place == Truncate(cwd, Max2((width * 4) \div 10, 6)) IN
    CASE cwd # NoText /\ task # NoText -> <<2, place, 3, Truncate(task, Max2(width - 2 - place - 3, 0))>>
      [] cwd # NoText /\ task = NoText -> <<2, Truncate(cwd, width - 2)>>
      [] cwd = NoText /\ task # NoText -> <<2, Truncate(task, width - 2)>>
      [] OTHER -> <<2, agent>>

MetricsLine(left, calls) == Justify(<<2>> \o left, <<CountCells(calls), 6>>)

\* label_row: each span is cut to what is left of the body.
LabelRow(body) ==
    FoldLeft(LAMBDA row, text : LET left == width - Total(row) IN
                IF left <= 0 THEN row ELSE Append(row, Truncate(text, left)), <<8>>, body)
Plain(cells) == [cells |-> cells, wide |-> FALSE]

\* detail: parts while they fit, then one that is cut, if two cells are left for it.
Detail(parts) ==
    LET budget == width - 2
        add(done, cells) ==
            LET sep == IF done.row = <<2>> THEN 0 ELSE 3
                left == budget - (Total(done.row) - 2) - sep
            IN  CASE done.cut -> done
                  [] ~done.cut /\ cells <= left -> [done EXCEPT !.row = @ \o <<sep, cells>>]
                  [] OTHER -> [cut |-> TRUE, row |-> IF left >= 2 THEN done.row \o <<sep, Truncate(Plain(cells), left)>> ELSE done.row]
    IN  FoldLeft(add, [cut |-> FALSE, row |-> <<2>>], parts).row

BarRow(calls, on) == <<2, 11, 4, 1, on>>     \* pad(name, 11), and the count in four cells
BarCells == Min2(8, Max2(width - 18, 1))

\* jar_rows: names while the legend fits, one at least, and the count of the others fits too.
LegendCells(shown, omitted) ==
    Total([i \in DOMAIN shown |-> shown[i].name.cells + 1 + CountCells(shown[i].n)])
    + (IF omitted > 0 THEN 6 + CountCells(omitted) ELSE 0)
    + 3 * (Len(shown) + (IF omitted > 0 THEN 1 ELSE 0) - 1)

LegendShown(tools) ==
    LET inner == width - 2
        fits(k) == LegendCells(SubSeq(tools, 1, k), Len(tools) - k) <= inner
        grown == {k \in 1 .. Min2(4, Len(tools)) : \A j \in 1 .. k : fits(j)}
    IN  SubSeq(tools, 1, IF grown = {} THEN 1 ELSE CHOOSE k \in grown : \A j \in grown : j <= k)

\* legend_spans: the suffix's cells are held back before any name, the count's before its name.
Legend(shown, omitted) ==
    LET inner == width - 2
        suffix == 6 + CountCells(omitted)
        names == Max2(inner - (IF omitted > 0 THEN suffix + 3 ELSE 0), 0)
        push(row, text, budget) == Append(row, Truncate(text, Max2(budget - (Total(row) - 2), 0)))
        entry(row, tool) ==
            LET spaced == IF row = <<2>> THEN row ELSE push(row, Plain(3), names)
                named == push(spaced, tool.name, names - 1 - CountCells(tool.n))
            IN  push(named, Plain(1 + CountCells(tool.n)), names)
        entries == FoldLeft(entry, <<2>>, shown)
    IN  IF omitted > 0 THEN push(push(entries, Plain(3), inner), Plain(suffix), inner) ELSE entries

TraceRow(args, age) ==
    LET budget == width - 11 - age
        shown == IF budget >= 2 THEN Truncate(args, budget) ELSE 0
    IN  <<2, 2, 6, shown, Max2(width - 10 - shown - age, 1), age>>

\* footer: hints are dropped from the right until they fit.
Hints(zone) ==
    CASE zone = "cards" -> <<8, 10, 6, 6>>
      [] zone = "descendable" -> <<8, 10, 8, 6, 6>>
      [] OTHER -> <<8, 8, 6, 6, 6>>
Footer(zone) ==
    LET cost(keep) == 3 + Total(SubSeq(Hints(zone), 1, keep)) + 3 * Max2(keep - 1, 0)
        keeps == {keep \in 0 .. Len(Hints(zone)) : cost(keep) <= width}
    IN  <<cost(CHOOSE keep \in keeps : \A other \in keeps : other <= keep)>>

ConfigNotice(problems) ==
    LET n == Min2(Digits(problems), 3) IN
    <<IF width >= 51 THEN 48 + n ELSE IF width >= 25 THEN 22 + n ELSE 8 + n>>
StaleNotice(ours, daemon) ==
    LET full == 9 + daemon + 16 + ours + 12
        short == 2 + ours + 3 + daemon + 8
        bare == ours + 1 + daemon
    IN  <<IF full <= width THEN full ELSE IF short <= width THEN short
          ELSE IF bare <= width THEN bare ELSE Truncate(Plain(5), width)>>
-----------------------------------------------------------------------------
(* The name of a card's place (view.rs, cwd_labels): the last parts of its *)
(* directory, as few as tell it from the others', and part of the pane's   *)
(* id where other panes are in the same directory.                         *)

LastOf(seq, n) == SubSeq(seq, Len(seq) - Min2(n, Len(seq)) + 1, Len(seq))

\* A round: who shares a label with a pane of another directory shows one part more.
Label(naming, p) == LastOf(naming.places[p], naming.depth[p])
Deeper(naming) ==
    LET crowded(p) == \E q \in DOMAIN naming.places :
                         Label(naming, q) = Label(naming, p) /\ naming.places[q] # naming.places[p]
    IN  [p \in DOMAIN naming.places |-> naming.depth[p] +
            (IF crowded(p) /\ naming.depth[p] < Len(naming.places[p]) THEN 1 ELSE 0)]

\* The fewest characters, from two on, by which the ids of those with the same label differ.
Handle(ids, p) ==
    LET tells(k) == Cardinality({LastOf(ShownIds[q], k) : q \in ids}) = Cardinality(ids)
    IN  LastOf(ShownIds[p], CHOOSE k \in 2 .. 8 : tells(k) /\ \A j \in 2 .. k - 1 : ~tells(j))

cwd_labels(naming) ==
    LET same(p) == {q \in DOMAIN naming.places : Label(naming, q) = Label(naming, p)}
    IN  [p \in DOMAIN naming.places |->
            [parts |-> Label(naming, p), handle |-> IF same(p) = {p} THEN <<>> ELSE Handle(same(p), p)]]
-----------------------------------------------------------------------------
(* A panel's lines (dialog.rs): framed to the panel's width, notes wrapped *)
(* at spaces and long words broken.                                        *)

PanelWidth == Min2(width, 60)
Framed(text) == LET inner == Truncate(text, PanelWidth - 2) IN <<1, inner + (PanelWidth - 2 - inner), 1>>

\* wrap_verbatim_line: pieces of one word, of which the last goes on as a line.
Pieces(word, cells) ==
    LET piece == IF word.wide THEN 2 * (cells \div 2) ELSE cells
        full == IF word.cells <= cells THEN 0 ELSE (word.cells - 1) \div piece
    IN  [i \in 1 .. full |-> piece] \o <<word.cells - full * piece>>

Wrap(words, cells) ==
    LET add(lines, word) ==
            LET open == IF lines = <<>> THEN 0 ELSE Last(lines)
                next == IF open = 0 THEN word.cells ELSE open + 1 + word.cells
                kept == IF lines = <<>> THEN <<>> ELSE Front(lines)
            IN  IF next <= cells THEN Append(kept, next)
                ELSE (IF open = 0 THEN kept ELSE lines) \o Pieces(word, cells)
    IN  FoldLeft(add, <<>>, words)
-----------------------------------------------------------------------------
Blank == [kind |-> "blank", spans |-> <<>>]
ViewInit == width \in Widths /\ line = Blank

\* What the line has to be: "fits" its width, "fills" it, or shows "all" of need cells.
Drawn(kind, spans, need) == line' = [kind |-> kind, spans |-> spans, need |-> need] /\ UNCHANGED width
Fits(spans) == Drawn("fits", spans, 0)

DrawHeader == \E name \in Texts, label \in {4, 5, 7, 8, 9} : Fits(Header(name, label))
\* claude, codex, kimi, opencode and unknown.
DrawTask ==
    \E cwd, task \in Texts \cup {NoText}, agent \in {4, 5, 6, 7, 8} : Fits(TaskLine(cwd, task, agent))
DrawMetrics ==
    \E n \in Counts : \/ \E p \in Percents : Fits(MetricsLine(<<Gauge(26), 1 + PercentCells(p)>>, n))
                      \/ \E cells \in Missing : Fits(MetricsLine(<<cells>>, n))
\* plan_usage_rows: the percentage, and when the window resets or that it ended.
DrawUsage ==
    \E p \in Percents, rest \in {8} \cup {10 + age : age \in 2 .. 4} :
       LET status == 1 + PercentCells(p) + rest
       IN  Drawn("all", LabelRow(<<Plain(Gauge(27)), Plain(status)>>), 8 + Gauge(27) + status)
DrawContext ==
    \/ \E p \in Percents : Drawn("all", LabelRow(<<Plain(Gauge(13)), Plain(1 + PercentCells(p))>>),
                                8 + Gauge(13) + 1 + PercentCells(p))
    \/ \E cells \in Missing : Drawn("all", LabelRow(<<Plain(cells)>>), 8 + cells)
DrawDetail == \E used, left, window \in 1 .. 6 : Fits(Detail(<<used + 5, left + 5, window>>))

Ranked == \* ranked_tools: most called first; the first name decides what is cut
    {[i \in 1 .. k |-> [name |-> IF i = 1 THEN name ELSE Plain(4), n |-> counts[i]]] :
        k \in {1, 2, 5}, name \in Texts, counts \in {c \in [1 .. 5 -> Counts \ {0}] : \A i \in 1 .. 4 : c[i] >= c[i + 1]}}
CountsOf(tools) == [i \in DOMAIN tools |-> tools[i].n]
DrawBars == \E tools \in Ranked : \E i \in 1 .. Min2(4, Len(tools)) :
               Fits(BarRow(tools[i].n, ToolBars(CountsOf(tools), BarCells)[i]))
DrawBand == \E tools \in Ranked : Drawn("fills", <<2>> \o JarCells(CountsOf(LegendShown(tools)), width - 2), width)
DrawLegend == \E tools \in Ranked : LET shown == LegendShown(tools) IN Fits(Legend(shown, Len(tools) - Len(shown)))
DrawTrace == \E args \in Texts, age \in 1 .. 4 : Drawn("fills", TraceRow(args, age), width)
DrawPinned == \/ \E zone \in {"cards", "descendable", "traces"} : Fits(Footer(zone))
              \/ \E problems \in Counts : Fits(ConfigNotice(problems))
              \/ \E ours, daemon \in TextCells : Fits(StaleNotice(ours, daemon))
\* The title of a panel's upper edge; the lower one has none.
Edge(title) ==
    LET label == IF title = 0 THEN 0 ELSE title + 2
    IN  <<1, label + Max2(PanelWidth - 2 - label, 0), 1>>

DrawPanel == \/ \E title \in {0, 4, 6, 7, 8, 11, 19} : Drawn("fills", Edge(title), PanelWidth)
             \/ \E text \in Texts : Drawn("fills", Framed(text), PanelWidth)
             \/ \E one, two, three \in Texts : \E i \in DOMAIN Wrap(<<one, two, three>>, PanelWidth - 4) :
                   Drawn("fills", Framed(Plain(2 + Wrap(<<one, two, three>>, PanelWidth - 4)[i])), PanelWidth)
DrawGauge == \E value, max \in Counts, cells \in {6, 8, 14} :
    /\ value <= max /\ max > 0
    /\ Drawn("gauge", <<GaugeCells((value * 100 + max \div 2) \div max, value, max, cells)>>,
            [value |-> value, max |-> max, cells |-> cells])

\* The directories of the panes that have one, named round by round; the frame's width is
\* no matter.
Directories == UNION {[1 .. n -> {"x", "y"}] : n \in 0 .. 3}
DrawPlaces ==
    /\ \A w \in Widths : w <= width
    /\ \E some \in SUBSET DOMAIN ShownIds : \E places \in [some -> Directories] :
          Drawn("naming", <<>>, [places |-> places, depth |-> [p \in some |-> 1]])

Deepen ==
    /\ line.kind = "naming" /\ Deeper(line.need) # line.need.depth
    /\ line' = [line EXCEPT !.need.depth = Deeper(line.need)] /\ UNCHANGED width
Name ==
    /\ line.kind = "naming" /\ Deeper(line.need) = line.need.depth
    /\ line' = [kind |-> "places", spans |-> <<>>,
                need |-> [places |-> line.need.places, labels |-> cwd_labels(line.need)]]
    /\ UNCHANGED width

Cleared == line # Blank /\ line' = Blank /\ UNCHANGED width

ViewNext ==
    \/ /\ line = Blank
       /\ \/ DrawHeader \/ DrawTask \/ DrawMetrics \/ DrawUsage \/ DrawContext \/ DrawDetail
          \/ DrawBars \/ DrawBand \/ DrawLegend \/ DrawTrace \/ DrawPinned \/ DrawPanel \/ DrawGauge
          \/ DrawPlaces
    \/ Deepen \/ Name \/ Cleared
-----------------------------------------------------------------------------
\* No line is wider than its frame, for all the widths, texts and numbers; the band, the
\* trace rows and a panel's lines are exactly as wide; a label's gauge and number are never
\* cut (view.rs, whose budgets are counted by hand line by line).
LinesFit ==
    /\ line.kind = "fits" => Total(line.spans) <= width
    /\ line.kind = "fills" => Total(line.spans) = line.need
    /\ line.kind = "all" => Total(line.spans) = line.need /\ line.need <= width

\* A gauge is empty only for nothing and full only for all of it, and is never shorter for
\* more (bars.rs gauge_cells).
GaugesTell ==
    line.kind = "gauge" =>
      LET on == line.spans[1]
          of == line.need
      IN  /\ on = 0 <=> of.value = 0
          /\ on = of.cells <=> of.value = of.max
          /\ \A less \in {n \in Counts : n <= of.value} :
               GaugeCells((less * 100 + of.max \div 2) \div of.max, less, of.max, of.cells) <= on

\* No two cards are named alike; a name is as short as tells its directory from the others',
\* and has part of the pane's id only if another pane is in the same one (view.rs
\* cwd_labels, where every round changes what the next one compares).
PlacesTell ==
    line.kind = "places" =>
      LET places == line.need.places
          labels == line.need.labels
      IN  \A p \in DOMAIN places :
            /\ \A q \in DOMAIN places \ {p} : labels[p] # labels[q]
            /\ IsSuffix(labels[p].parts, places[p])
            /\ labels[p].handle # <<>> <=> \E q \in DOMAIN places \ {p} : places[q] = places[p]
            /\ Len(labels[p].parts) > 1 =>
                  \E q \in DOMAIN places : places[q] # places[p] /\ IsSuffix(Tail(labels[p].parts), places[q])

\* What is drawn has its place and tells what it stands for.
DrawnRight == LinesFit /\ GaugesTell /\ PlacesTell
=============================================================================
