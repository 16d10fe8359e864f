------------------------------ MODULE PdfLines ------------------------------
(***************************************************************************)
(* The lines of a printed page in reading order, from the pieces of text   *)
(* that pdf.js finds on it, in whatever order they were painted            *)
(* (pdf-text.ts, groupTextLines): rows, the gutters between columns, and   *)
(* the columns read one after the other between lines that cross them.     *)
(*                                                                         *)
(* A piece is [x, y, width, height, text, blank]; y grows upwards.         *)
(***************************************************************************)
EXTENDS Integers, Sequences, FiniteSets, FiniteSetsExt, SequencesExt, Orders

CONSTANTS
    Pieces,             \* what may stand on the page
    GUTTER_MIN_LINES    \* how many rows a gutter needs on either side

ASSUME PdfLinesAssumption == GUTTER_MIN_LINES \in Nat \ {0}

VARIABLE items          \* the pieces found so far

COLUMN_MIN_WIDTH == 5   \* a fifth
GUTTER_QUORUM_RATIO == 4 \* a quarter

Right(i) == i.x + i.width
Glyphs(row) == {i \in row : ~i.blank}
Highest(a, b) == Max({a.height, b.height})

\* The rows from the top down, each within half a line of its first piece.
AllRows ==
    LET down == InOrder(items, LAMBDA a, b :
                    \/ a.y > b.y
                    \/ a.y = b.y /\ a.x < b.x
                    \/ a.y = b.y /\ a.x = b.x /\ ~a.blank /\ b.blank)
        groups == FoldLeft(LAMBDA rows, i :
                    IF rows # <<>> /\ 2 * Apart(Head(Last(rows)).y, i.y) <= Highest(Head(Last(rows)), i)
                    THEN Front(rows) \o <<Append(Last(rows), i)>> ELSE Append(rows, <<i>>), <<>>, down)
    IN [r \in DOMAIN groups |-> ToSet(groups[r])]
Rows == SelectSeq(AllRows, LAMBDA row : Glyphs(row) # {})

-----------------------------------------------------------------------------
(* Gutters. *)

\* The gaps of row r that are wider than the row is high.
WideGaps(rows, r) ==
    LET glyphs == Glyphs(rows[r])
        RightOf(i) == Max({Right(j) : j \in {j \in glyphs : j.x < i.x}})
    IN {[row |-> r, start |-> RightOf(i), end |-> i.x] :
            i \in {i \in glyphs : (\E j \in glyphs : j.x < i.x) /\ i.x - RightOf(i) > Max({j.height : j \in glyphs})}}

\* The widest stretch of the most gaps in each run of gaps that overlap, from left to right.
CandidateBands(gaps) ==
    LET edges == {g.start : g \in gaps} \cup {g.end : g \in gaps}
        Count(x) == Cardinality({g \in gaps : g.start <= x /\ x < g.end})
        Holds(a, b, Wanted(_)) == \A x \in {x \in edges : a <= x /\ x < b} : Wanted(Count(x))
        Runs(from, to, Wanted(_)) ==
            {<<a, b>> \in {e \in edges \X edges : from <= e[1] /\ e[1] < e[2] /\ e[2] <= to} :
                /\ Holds(a, b, Wanted)
                /\ \A c \in {x \in edges : from <= x /\ x < a} : ~Holds(c, b, Wanted)
                /\ \A d \in {x \in edges : b < x /\ x <= to} : ~Holds(a, d, Wanted)}
        Best(run) ==
            LET peak == Max({Count(x) : x \in {x \in edges : run[1] <= x /\ x < run[2]}})
                highest == Runs(run[1], run[2], LAMBDA n : n = peak)
            IN [peak |-> peak, band |-> CHOOSE b \in highest : \A c \in highest : c[2] - c[1] < b[2] - b[1] \/ (c[2] - c[1] = b[2] - b[1] /\ b[1] <= c[1])]
        bests == {Best(run) : run \in Runs(Min(edges), Max(edges), LAMBDA n : n > 0)}
    IN InOrder({[start |-> b.band[1], end |-> b.band[2]] : b \in {b \in bests : b.peak >= GUTTER_MIN_LINES}}, LAMBDA a, b : a.start < b.start)

Crosses(i, band) == i.x < band.end /\ Right(i) > band.start

\* Enough rows stand on either side of the band, and few cross it.
Carried(rows, band) ==
    LET crossing == {r \in DOMAIN rows : \E i \in Glyphs(rows[r]) : Crosses(i, band)}
        before == {r \in DOMAIN rows \ crossing : \E i \in Glyphs(rows[r]) : Right(i) <= band.start}
        after == {r \in DOMAIN rows \ crossing : \E i \in Glyphs(rows[r]) : i.x >= band.end}
        flanking == Cardinality(before \cap after)
    IN /\ Cardinality(before) >= GUTTER_MIN_LINES /\ Cardinality(after) >= GUTTER_MIN_LINES
       /\ crossing = {} \/ GUTTER_QUORUM_RATIO * flanking >= flanking + Cardinality(crossing)

FindGutters(rows) ==
    LET gaps == UNION {WideGaps(rows, r) : r \in DOMAIN rows}
        glyphs == UNION {Glyphs(rows[r]) : r \in DOMAIN rows}
        left == Min({i.x : i \in glyphs})
        right == Max({Right(i) : i \in glyphs})
        Wide(n) == COLUMN_MIN_WIDTH * n >= right - left
        Take(gutters, band) ==
            LET edge == IF gutters = <<>> THEN left ELSE Last(gutters).end IN
            IF Wide(band.start - edge) /\ Wide(right - band.end) /\ Carried(rows, band) THEN Append(gutters, band) ELSE gutters
    IN IF Cardinality(gaps) < GUTTER_MIN_LINES THEN <<>> ELSE FoldLeft(Take, <<>>, CandidateBands(gaps))

-----------------------------------------------------------------------------
(* Columns. *)

ColumnOf(i, gutters) == Cardinality({g \in DOMAIN gutters : \A h \in 1..g : i.x >= gutters[h].end})
SpansGutter(row, gutters) == \E i \in Glyphs(row), g \in ToSet(gutters) : Crosses(i, g)

\* What stands in the columns so far, read column by column.
Flush(reading) == [ordered |-> reading.ordered \o FlattenSeq(reading.block), block |-> [c \in DOMAIN reading.block |-> <<>>]]
\* As if the columns were only read at a line that crosses them.
EndUnread(reading) == reading
EndOfPage(reading) == Flush(reading)

\* A row's part in each column joins what that column holds.
IntoColumns(reading, row, gutters) ==
    LET Part(c) == {i \in row : ColumnOf(i, gutters) = c - 1} IN
    [reading EXCEPT !.block = [c \in DOMAIN @ |-> IF Glyphs(Part(c)) = {} THEN @[c] ELSE Append(@[c], Part(c))]]

ColumnOrder(rows, gutters) ==
    LET Place(reading, row) ==
            IF SpansGutter(row, gutters) THEN LET read == Flush(reading) IN [read EXCEPT !.ordered = Append(@, row)]
            ELSE IntoColumns(reading, row, gutters)
    IN EndOfPage(FoldLeft(Place, [ordered |-> <<>>, block |-> [c \in 1..(Len(gutters) + 1) |-> <<>>]], rows)).ordered

-----------------------------------------------------------------------------
(* Lines. *)

\* The pieces of a line from left to right, without the ones that embolden the piece before them.
WithoutOverstrikes(row) ==
    LET across == InOrder(row, LAMBDA a, b : a.x < b.x \/ (a.x = b.x /\ ~a.blank /\ b.blank))
        Keep(kept, i) ==
            LET glyphs == SelectSeq(kept, LAMBDA k : ~k.blank) IN
            IF glyphs # <<>> /\ i.text = Last(glyphs).text /\ 4 * (i.x - Last(glyphs).x) <= Highest(i, Last(glyphs))
            THEN kept ELSE Append(kept, i)
    IN FoldLeft(Keep, <<>>, across)

BuildLine(pieces) ==
    LET glyphs == Glyphs(ToSet(pieces))
        x == Min({i.x : i \in glyphs})
        y == Min({i.y : i \in glyphs})
    IN [words |-> SelectSeq(pieces, LAMBDA i : ~i.blank), x |-> x, y |-> y,
        width |-> Max({Right(i) : i \in glyphs}) - x, height |-> Max({i.y + i.height : i \in glyphs}) - y]

GuttersOf(rows) == IF rows = <<>> THEN <<>> ELSE FindGutters(rows)
GroupTextLines(rows, gutters) ==
    LET ordered == IF gutters = <<>> THEN rows ELSE ColumnOrder(rows, gutters) IN
    [l \in DOMAIN ordered |-> BuildLine(WithoutOverstrikes(ordered[l]))]

-----------------------------------------------------------------------------
LinesInit == items = {}
FindPiece == \E i \in Pieces \ items : items' = items \cup {i}

-----------------------------------------------------------------------------
(* What the order promises. *)

\* Every word of the page is on one line, and the lines are read as the page is laid out: what stands above
\* a line that crosses the columns before it, what stands below after it, and between two such lines the
\* left column whole before the right one.
ReadInOrder(rows, gutters, lines) ==
    LET On(i) == {l \in DOMAIN lines : i \in ToSet(lines[l].words)}
        Row(i) == CHOOSE r \in DOMAIN rows : i \in rows[r]
        Spanning(r) == SpansGutter(rows[r], gutters)
        words == {i \in items : ~i.blank /\ On(i) # {}}
    IN /\ \A i \in Glyphs(items) : Cardinality(On(i)) = 1 \/ (\E j \in words : j.text = i.text /\ 4 * Apart(i.x, j.x) <= Highest(i, j) /\ Row(i) = Row(j))
       /\ \A i, j \in words : gutters # <<>> /\ Row(i) <= Row(j) /\ i # j =>
            IF \E r \in Row(i)..Row(j) : Spanning(r) THEN Min(On(i)) <= Min(On(j))
            ELSE LET left == ColumnOf(i, gutters) right == ColumnOf(j, gutters) IN
                 left # right => (left < right <=> Min(On(i)) < Min(On(j)))
EveryWordIsReadInOrder ==
    \A rows \in {Rows} : \A gutters \in {GuttersOf(rows)} : ReadInOrder(rows, gutters, GroupTextLines(rows, gutters))
=============================================================================
