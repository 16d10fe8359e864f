----------------------------- MODULE MarginNotes -----------------------------
(***************************************************************************)
(* How the ink of one page is grouped into margin notes (margin-notes.ts,  *)
(* clusterStrokes), while the page is drawn on and erased between syncs.   *)
(*                                                                         *)
(* Lengths are in twentieths of a line of handwriting. A note's name is    *)
(* the oldest of the strokes it is made of, and a link in the user's vault *)
(* lives as long as that name.                                             *)
(***************************************************************************)
EXTENDS Integers, Sequences, FiniteSets, FiniteSetsExt, SequencesExt, Orders, Absent

CONSTANTS
    Shapes,         \* the boxes a stroke may have, None for one without points
    Columns,        \* where the printed text may stand, None where there is no text
    MaxStrokes      \* how many strokes are drawn at most

VARIABLES
    ink,            \* the box of each stroke of the page; the ids are in drawing order
    lastId,         \* the id of the newest stroke
    column,         \* the printed column of the page, or None
    printed         \* the notes of the digest as the last sync wrote it

marginVars == <<ink, lastId, column, printed>>

VERTICAL_TOLERANCE == 11
VERTICAL_OVERLAP == 10
MAX_LINE_STROKE == 50
HORIZONTAL_TOLERANCE == 60
FRAGMENT_MAX_HEIGHT == 8
FRAGMENT_MAX_WIDTH == 6
FRAGMENT_SLIVER_MAX_HEIGHT == 14
FRAGMENT_MAX_GAP == 10
MARGIN_BLOCK_LEFT == 80
LineHeight == 20

Height(b) == b.bottom - b.top
GapBetween(low1, high1, low2, high2) == Max({0, low1 - high2, low2 - high1})
GapX(a, b) == GapBetween(a.left, a.right, b.left, b.right)
GapY(a, b) == GapBetween(a.top, a.bottom, b.top, b.bottom)

Hull(boxes) ==
    [left |-> Min({b.left : b \in boxes}), right |-> Max({b.right : b \in boxes}),
     top |-> Min({b.top : b \in boxes}), bottom |-> Max({b.bottom : b \in boxes})]

Inked == {i \in DOMAIN ink : ink[i] # None}
BoxOf(strokes) == Hull({ink[i] : i \in strokes})

-----------------------------------------------------------------------------
(* Strokes that touch. *)

SameLine(a, b) ==
    LET tallest == Max({Height(a), Height(b)}) IN
    \/ Apart(a.top + a.bottom, b.top + b.bottom) <= 2 * VERTICAL_TOLERANCE
    \/ /\ tallest <= MAX_LINE_STROKE
       /\ Min({a.bottom, b.bottom}) - Max({a.top, b.top}) >= VERTICAL_OVERLAP

Joins(a, b) == SameLine(a, b) /\ GapX(a, b) <= HORIZONTAL_TOLERANCE

\* The root of n in a forest of parents.
Find(parent, n) == LET root[m \in DOMAIN parent] == IF parent[m] = m THEN m ELSE root[parent[m]] IN root[n]

\* As if the link were made from the node itself and not from its root.
UniteHere(parent, a, b) == [parent EXCEPT ![a] = Find(parent, b)]
Unite(parent, a, b) == [parent EXCEPT ![Find(parent, a)] = Find(parent, b)]

\* The groups of nodes that union-find leaves when every related pair has been united, in order.
Grouped(nodes, Related(_, _)) ==
    LET order == InOrder({p \in nodes \X nodes : p[1] < p[2]}, LAMBDA p, q : p[1] < q[1] \/ (p[1] = q[1] /\ p[2] < q[2]))
        forest == FoldLeft(LAMBDA parent, p : IF Related(p[1], p[2]) THEN Unite(parent, p[1], p[2]) ELSE parent,
                           [n \in nodes |-> n], order)
    IN {{m \in nodes : Find(forest, m) = Find(forest, n)} : n \in nodes}

LinkedComponents == Grouped(Inked, LAMBDA a, b : Joins(ink[a], ink[b]))

-----------------------------------------------------------------------------
(* Specks belong to the note beside them, and do not name it. *)

IsFragment(b) ==
    \/ Height(b) < FRAGMENT_MAX_HEIGHT
    \/ b.right - b.left < FRAGMENT_MAX_WIDTH /\ Height(b) <= FRAGMENT_SLIVER_MAX_HEIGHT

\* The square of the distance of two boxes.
BoxGap(a, b) == GapX(a, b) * GapX(a, b) + GapY(a, b) * GapY(a, b)

HostsAmong(components) ==
    LET whole == {c \in components : ~IsFragment(BoxOf(c))} IN IF whole = {} THEN components ELSE whole
Hosts == HostsAmong(LinkedComponents)

\* The host a fragment is folded into, the earlier of two as near as each other, or None.
HostOf(fragment, hosts) ==
    LET gap == [h \in hosts |-> BoxGap(BoxOf(fragment), BoxOf(h))]
        near == {h \in hosts : gap[h] <= FRAGMENT_MAX_GAP * FRAGMENT_MAX_GAP}
        nearest == {h \in near : \A g \in near : gap[h] <= gap[g]}
    IN IF near = {} THEN None ELSE CHOOSE h \in nearest : \A g \in nearest : Min(h) <= Min(g)

\* The name of a line, from the strokes it is made of and those it has taken in.
SmallestOfAll(host, absorbed) == Min(host \cup absorbed)
AnchorStrokeId(host, absorbed) == Min(host)

LineOf(host, absorbed) ==
    [hosts |-> {host}, strokes |-> host \cup absorbed, bounds |-> BoxOf(host \cup absorbed), name |-> AnchorStrokeId(host, absorbed)]

AbsorbFragments ==
    LET components == LinkedComponents
        hosts == HostsAmong(components)
        hostOf == [f \in components \ hosts |-> HostOf(f, hosts)]
    IN {LineOf(h, UNION {f \in DOMAIN hostOf : hostOf[f] = h}) : h \in hosts}
        \cup {LineOf(f, {}) : f \in {f \in DOMAIN hostOf : hostOf[f] = None}}

-----------------------------------------------------------------------------
(* Lines that stand in the margin as a block. *)

Reaches(b) == b.right > column.right \/ b.left < column.left

StacksInMargin(a, b) ==
    LET tallest == Max({Height(a), Height(b)}) IN
    /\ Reaches(a) /\ Reaches(b)
    /\ tallest <= MAX_LINE_STROKE
    /\ 5 * GapY(a, b) <= 4 * tallest
    /\ Apart(a.left, b.left) <= MARGIN_BLOCK_LEFT
    /\ Min({a.right, b.right}) > Max({a.left, b.left})

Together(lines) ==
    [hosts |-> UNION {l.hosts : l \in lines}, strokes |-> UNION {l.strokes : l \in lines},
     bounds |-> Hull({l.bounds : l \in lines}), name |-> Min({l.name : l \in lines})]

MarginBlocks(lines) ==
    LET at == InOrder(lines, LAMBDA k, l : Min(k.strokes) < Min(l.strokes)) IN
    {Together({at[i] : i \in g}) : g \in Grouped(DOMAIN at, LAMBDA a, b : StacksInMargin(at[a].bounds, at[b].bounds))}

ClusterStrokes == IF column = None THEN AbsorbFragments ELSE MarginBlocks(AbsorbFragments)

\* As if a note were held against the last note of the row.
StartsBelow(row, c) == c.bounds.top < Last(row).bounds.top + LineHeight
StartsBeside(row, c) == c.bounds.top < Head(row).bounds.top + LineHeight

\* The rows of the page in reading order, each from left to right once it is complete.
InReadingOrder ==
    LET down == InOrder(ClusterStrokes, LAMBDA c, d :
                    \/ c.bounds.top < d.bounds.top
                    \/ c.bounds.top = d.bounds.top /\ c.bounds.left < d.bounds.left
                    \/ c.bounds.top = d.bounds.top /\ c.bounds.left = d.bounds.left /\ Min(c.strokes) < Min(d.strokes))
        rows == FoldLeft(LAMBDA taken, c :
                    IF taken # <<>> /\ StartsBeside(Last(taken), c) THEN Front(taken) \o <<Append(Last(taken), c)>>
                    ELSE Append(taken, <<c>>), <<>>, down)
    IN [r \in DOMAIN rows |-> [rowTop |-> Head(rows[r]).bounds.top,
                               notes |-> SortSeq(rows[r], LAMBDA c, d : c.bounds.left < d.bounds.left)]]

-----------------------------------------------------------------------------
(* The page between two syncs. *)

MarginInit == ink = <<>> /\ lastId = 0 /\ column \in Columns /\ printed = {}

DrawStroke ==
    /\ lastId < MaxStrokes
    /\ \E box \in Shapes : ink' = [i \in DOMAIN ink \cup {lastId + 1} |-> IF i \in DOMAIN ink THEN ink[i] ELSE box]
    /\ lastId' = lastId + 1
    /\ UNCHANGED <<column, printed>>

EraseStroke ==
    /\ \E i \in DOMAIN ink : ink' = [j \in DOMAIN ink \ {i} |-> ink[j]]
    /\ UNCHANGED <<lastId, column, printed>>

\* A sync writes the notes of the page.
PrintNotes ==
    /\ printed' = ClusterStrokes
    /\ UNCHANGED <<ink, lastId, column>>

MarginNext == DrawStroke \/ EraseStroke \/ PrintNotes

-----------------------------------------------------------------------------
(* What the grouping promises. *)

\* Two strokes that touch on one line are in one note, however the strokes between them were taken: a
\* link that overwrote an earlier one would cut a word in two and print its half as a note of its own.
TouchingInkIsOneNote ==
    LET notes == ClusterStrokes IN
    \A a, b \in Inked : a < b /\ Joins(ink[a], ink[b]) => \E n \in notes : {a, b} \subseteq n.strokes

\* The notes printed as one row begin within a line of each other: a page of notes, each a little lower
\* than the one before, is not read as one long row.
RowsAreLevel ==
    \A r \in ToSet(InReadingOrder) : \A n \in ToSet(r.notes) : n.bounds.top - r.rowTop \in 0..(LineHeight - 1)

\* Drawing on a page does not rename the notes that are there: while no printed stroke was erased and no
\* speck has grown into a line, the note that holds the unchanged lines of a printed note bears a name the
\* digest had before, though specks have come to it or gone to a nearer line.
StillThere(n) == \A h \in n.hosts : h \in Hosts /\ ~IsFragment(BoxOf(h))
OnlyAdded ==
    LET specks == UNION {n.strokes \ UNION n.hosts : n \in printed} IN
    UNION {n.strokes : n \in printed} \subseteq DOMAIN ink /\ \A m \in printed' : UNION m.hosts \cap specks = {}
NamesStay ==
    [][printed' # printed /\ OnlyAdded =>
        \A n \in printed, m \in printed' :
            UNION n.hosts \subseteq m.strokes /\ StillThere(n) => \E k \in printed : k.name = m.name]_marginVars
\* The notes of a page are the words as they were drawn, and its rows the rows.
GroupedAsDrawn == TouchingInkIsOneNote /\ RowsAreLevel
=============================================================================
