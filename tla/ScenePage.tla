------------------------------ MODULE ScenePage ------------------------------
(***************************************************************************)
(* A page as it is read from its .rm file (rm-parser.ts) and as it is cut  *)
(* into the parts that are transcribed (llm-transcript.ts).                *)
(*                                                                         *)
(* A page's file is a sequence of blocks. What cannot be read of a block   *)
(* is the set of its fields that are garbled or cut off (bad). Boxes and   *)
(* heights are in tenths of a pixel.                                       *)
(***************************************************************************)
EXTENDS TypedText, Orders

CONSTANTS
    FileBlocks,     \* the blocks a page may have, in the order the tablet writes them
    MaxBlocks,      \* how many of them a page has at most
    MaxBad,         \* how many of those are damaged at most
    MAX_INK_PARTS   \* how many pieces of ink a page is cut into at most

VARIABLE file       \* the page's file: the blocks it has, with the fields of each that cannot be read

\* In the order they are read. Of the fields a stroke or a highlight cannot be read without, the first and the
\* last stand for all.
Fields(type) ==
    CASE type = "layerDef"   -> <<"tree_id">>
      [] type = "layerNames" -> <<"node_id", "label", "visible", "anchor_id", "origin_x">>
      [] type = "lineDef"    -> <<"item_id", "points", "color tag", "color word">>
      [] type = "glyphDef"   -> <<"item_id", "rectangles", "color tag", "color word">>
      [] type = "textDef"    -> <<"items", "style map", "position", "width">>
      [] type = "imageTable" -> <<"first", "second">>
      [] type = "imageDef"   -> <<"item_id", "key", "vertices">>
      [] type = "sceneInfo"  -> <<"paper_size">>

\* A field alone is garbled, or all that follows is cut off. (A colour word has no wrong values: bad, it is cut off.)
Damage(type) ==
    {{f} : f \in ToSet(Fields(type))} \cup {ToSet(SubSeq(Fields(type), k, Len(Fields(type)))) : k \in DOMAIN Fields(type)}

\* The blocks of a file, in order.
Blocks == LET ks == SelectSeq([k \in DOMAIN FileBlocks |-> k], LAMBDA k : k \in DOMAIN file)
          IN [i \in DOMAIN ks |-> [body |-> FileBlocks[ks[i]], bad |-> file[ks[i]]]]

Legible(b, fields) == b.bad \cap fields = {}

-----------------------------------------------------------------------------
(* Reading the blocks: a block that cannot be read is left out. *)

parseLayerDefBody(b) == Legible(b, {"tree_id"})

\* Visibility and anchor are read as far as they go.
parseLayerNameBody(b) == Legible(b, {"node_id", "label"})
VisibleOf(b) == IF Legible(b, {"visible"}) THEN b.body.visible ELSE None
AnchorOf(b) == IF Legible(b, {"anchor_id", "origin_x"}) THEN b.body.anchor ELSE None

\* The true colour at the end is optional: where its tag is not found there is none. Where it is, the word must
\* follow, and a body that is cut off inside it throws.
readColorRgba(b) == ~Legible(b, {"color tag"}) \/ Legible(b, {"color word"})

parseStrokeBody(b) == Legible(b, {"item_id", "points"}) /\ ~b.body.deleted /\ readColorRgba(b)
parseGlyphBody(b) == Legible(b, {"item_id", "rectangles"}) /\ ~b.body.deleted /\ readColorRgba(b)
parseImageBody(b) == Legible(b, {"item_id", "key", "vertices"})

\* A text without its place or its width is no text; one whose styles cannot be read is plain.
parseRootTextBody(b) ==
    IF ~Legible(b, {"items", "position", "width"}) THEN None
    ELSE IF Legible(b, {"style map"}) THEN b.body.text ELSE [b.body.text EXCEPT !.styles = <<>>]

\* The table is read up to the entry that fails.
parseImageTableBody(b) ==
    {b.body.names[i] : i \in {i \in DOMAIN b.body.names : \A j \in 1..i : Legible(b, {Fields("imageTable")[j]})}}

parseSceneInfoBody(b) == IF Legible(b, {"paper_size"}) THEN b.body.paper ELSE None

-----------------------------------------------------------------------------
(* The page. *)

OfType(blocks, type) == SelectSeq(blocks, LAMBDA b : b.body.type = type)
LastOr(s, default) == IF s = <<>> THEN default ELSE Last(s)
LastRead(blocks, id, Field(_)) ==
    LastOr(SelectSeq([k \in DOMAIN blocks |-> IF parseLayerNameBody(blocks[k]) /\ blocks[k].body.id = id
                                               THEN Field(blocks[k]) ELSE None], LAMBDA v : v # None), None)

SENTINEL_ANCHOR_TOP == -1
SENTINEL_ANCHOR_BOTTOM == -2

\* Where the ink of an anchored node is drawn: beside its character, at either end of the text, or, when
\* the character is gone, at the top. Without a text it stays where it is.
AnchorY(anchor, layout) ==
    LET here == {p.y : p \in {p \in layout.yOfChar : p.id = anchor}} IN
    IF anchor = SENTINEL_ANCHOR_BOTTOM THEN layout.bottomY ELSE IF here = {} THEN layout.topY ELSE CHOOSE y \in here : TRUE

Moved(box, y) == [box EXCEPT !.top = @ + y, !.bottom = @ + y]

placeAnchoredNodes(text, anchor) == IF anchor = None \/ text = None THEN 0 ELSE AnchorY(anchor, LayoutText(text))

ReadPage(blocks, text) ==
    LET layers == {b.body.id : b \in {b \in ToSet(OfType(blocks, "layerDef")) : parseLayerDefBody(b)}}
        names == OfType(blocks, "layerNames")
        files == UNION {parseImageTableBody(b) : b \in ToSet(OfType(blocks, "imageTable"))}
        Height(layer) == placeAnchoredNodes(text, LastRead(names, layer, AnchorOf))
    IN [text |-> text,
        visible |-> [l \in layers |-> LastRead(names, l, VisibleOf)],
        strokes |-> {[id |-> b.body.id, layer |-> b.body.layer, box |-> Moved(b.body.box, Height(b.body.layer))] :
                        b \in {b \in ToSet(OfType(blocks, "lineDef")) : parseStrokeBody(b) /\ b.body.layer \in layers}},
        highlights |-> {b.body.id : b \in {b \in ToSet(OfType(blocks, "glyphDef")) : parseGlyphBody(b)}},
        images |-> {b.body.id : b \in {b \in ToSet(OfType(blocks, "imageDef")) : parseImageBody(b) /\ b.body.key \in files}},
        paperSize |-> LastOr(SelectSeq([k \in DOMAIN OfType(blocks, "sceneInfo") |-> parseSceneInfoBody(OfType(blocks, "sceneInfo")[k])],
                                       LAMBDA p : p # None), None)]

TextOf(texts) == IF texts = <<>> THEN None ELSE parseRootTextBody(Last(texts))
parseRmV6(blocks) == ReadPage(blocks, TextOf(OfType(blocks, "textDef")))

-----------------------------------------------------------------------------
(* The parts of a page that are transcribed one by one. *)

TALL_ASPECT == 3
MERGE_ASPECT == 2
GAP_PX == 2000
PAD == 20

\* The frame of the ink, padded by the widest stroke.
InkBounds(strokes) ==
    [width |-> Max({s.box.right : s \in strokes}) - Min({s.box.left : s \in strokes}) + 2 * PAD,
     height |-> Max({s.box.bottom : s \in strokes}) - Min({s.box.top : s \in strokes}) + 2 * PAD]

\* As if only the stroke above were looked at.
ReachOfThePrevious(strokes, s) ==
    LET above == {t \in strokes : t.box.top < s.box.top} IN (CHOOSE t \in above : \A u \in above : u.box.top <= t.box.top).box.bottom
\* How far down the ink reaches that begins above a stroke.
Reach(strokes, s) == Max({t.box.bottom : t \in {t \in strokes : t.box.top < s.box.top}})

\* The blocks of writing, top to bottom: one ends where a band below it is blank.
InkBlocks(strokes) ==
    LET top == Min({s.box.top : s \in strokes})
        starts == {s.box.top : s \in {s \in strokes : s.box.top = top \/ s.box.top - Reach(strokes, s) > GAP_PX}}
        BlockAt(y) == {s \in strokes : s.box.top >= y /\ ~\E z \in starts : y < z /\ z <= s.box.top}
    IN [k \in 1..Cardinality(starts) |-> BlockAt(InOrder(starts, <)[k])]

Span(strokes) == Max({s.box.bottom : s \in strokes}) - Min({s.box.top : s \in strokes})

splitTallInk(strokes) ==
    IF strokes = {} \/ InkBounds(strokes).height <= InkBounds(strokes).width * TALL_ASPECT THEN <<strokes>>
    ELSE FoldLeft(LAMBDA merged, block :
            IF merged # <<>> /\ Span(Last(merged) \cup block) <= InkBounds(strokes).width * MERGE_ASPECT
            THEN Front(merged) \o <<Last(merged) \cup block>> ELSE Append(merged, block), <<>>, InkBlocks(strokes))

Ink(strokes) == [kind |-> "ink", strokes |-> strokes, lines |-> <<>>]
Typed(lines) == [kind |-> "typed", strokes |-> {}, lines |-> lines]

InkPartsOf(strokes, splitTall) ==
    LET Inks(blocks) == [k \in DOMAIN blocks |-> Ink(blocks[k])] IN
    IF splitTall THEN Inks(splitTallInk(strokes)) ELSE <<Ink(strokes)>>
InkParts(parts) == SelectSeq(parts, LAMBDA p : p.kind = "ink")

\* The lines that wait to be printed above the next ink, or at the end.
FlushLines(parts, pending) == IF pending = <<>> THEN parts ELSE Append(parts, Typed(pending))

\* As if the lines below the last ink were never printed.
EndUnprinted(parts, pending) == IF parts = <<>> THEN FlushLines(parts, pending) ELSE parts
EndOfParts(parts, pending) == FlushLines(parts, pending)

\* The lines of a page that say something.
TypedLines(page) == IF page.text = None THEN <<>>
                    ELSE SelectSeq(LayoutText(page.text).lines, LAMBDA l : \E c \in ToSet(l.text) : c.char # " ")

\* The ink between two lines: a stroke stands below the lines above its middle.
Slot(lines, s) == Cardinality({l \in DOMAIN lines : lines[l].y * 2 < s.box.top + s.box.bottom})

\* The ink above, between and below the lines, each piece before the lines that stand below it.
CutAtLines(page, lines, splitTall) ==
    LET SlotAt(i) == {s \in page.strokes : Slot(lines, s) = i}
        Add(state, i) ==
            LET flushed == IF SlotAt(i) = {} THEN state
                           ELSE [parts |-> FlushLines(state.parts, state.pending) \o InkPartsOf(SlotAt(i), splitTall), pending |-> <<>>]
            IN IF i < Len(lines) THEN [flushed EXCEPT !.pending = Append(@, lines[i + 1])] ELSE flushed
        End(last) == EndOfParts(last.parts, last.pending)
    IN End(FoldLeft(Add, [parts |-> <<>>, pending |-> <<>>], [i \in 1..(Len(lines) + 1) |-> i - 1]))

splitAtTypedText(page, lines, splitTall) ==
    LET Unless(parts, otherwise) == IF Len(InkParts(parts)) > MAX_INK_PARTS THEN otherwise ELSE parts
        whole == <<Ink(page.strokes)>>
    IN IF lines = <<>> THEN Unless(InkPartsOf(page.strokes, splitTall), whole)
       ELSE Unless(CutAtLines(page, lines, splitTall), Append(whole, Typed(lines)))

-----------------------------------------------------------------------------
(* Writing the page. *)

\* A page begins with its layers.
SceneInit == file = [k \in {k \in DOMAIN FileBlocks : FileBlocks[k].type = "layerDef"} |-> {}]

WriteBlock ==
    \E k \in DOMAIN FileBlocks \ DOMAIN file :
        /\ Cardinality(DOMAIN file) < MaxBlocks
        /\ file' = [j \in DOMAIN file \cup {k} |-> IF j = k THEN {} ELSE file[j]]

\* A block of the file can no longer be read, or not all of it.
DamageBlock ==
    \E k \in DOMAIN file : \E bad \in Damage(FileBlocks[k].type) :
        /\ Cardinality({j \in DOMAIN file : file[j] # {}}) < MaxBad
        /\ file' = [file EXCEPT ![k] = bad]

SceneNext == WriteBlock \/ DamageBlock

-----------------------------------------------------------------------------
(* What the reading promises. *)

\* One damaged block costs the page no more than itself: every stroke, highlight and picture of another
\* block is read as if the file were whole, and lies where it would lie; only the ink of a layer whose own
\* definition is gone goes with it, only ink anchored to the text moves with the damage to the text or to its
\* anchor, and only the pictures of a damaged table are lost. A colour that is not there costs nothing
\* else (one that is cut off in its middle costs its stroke or highlight, as any other damage to their blocks
\* may), and a lost anchor does not show a hidden layer.
OneBadBlockCostsItself(blocks, read, whole) ==
    LET BeyondColor(b) == b.bad \notin {{}, {"color tag"}, {"color tag", "color word"}}
        damaged == {b.body : b \in {b \in ToSet(blocks) : BeyondColor(b)}}
        Damaged(type, id) == \E b \in damaged : b.type = type /\ b.id = id
        Unseen(l) == \E b \in ToSet(blocks) :
                        b.body.type = "layerNames" /\ b.body.id = l /\ ~Legible(b, {"node_id", "label", "visible"})
        AnchoredLayer(layer) == \E b \in ToSet(blocks) : b.body.type = "layerNames" /\ b.body.id = layer /\ b.body.anchor # None
    IN /\ \A s \in whole.strokes : s \in read.strokes
            \/ Damaged("lineDef", s.id) \/ Damaged("layerDef", s.layer)
            \/ /\ AnchoredLayer(s.layer)
               /\ Damaged("layerNames", s.layer) \/ \E b \in damaged : b.type = "textDef"
               /\ \E t \in read.strokes : t.id = s.id
       /\ \A h \in whole.highlights : h \in read.highlights \/ Damaged("glyphDef", h)
       /\ \A i \in whole.images : i \in read.images \/ Damaged("imageDef", i) \/ \E b \in damaged : b.type = "imageTable"
       /\ \A l \in DOMAIN whole.visible : l \in DOMAIN read.visible \/ Damaged("layerDef", l)
       /\ \A l \in DOMAIN read.visible : read.visible[l] # whole.visible[l] => Unseen(l)
       /\ read.text # whole.text => \E b \in damaged : b.type = "textDef"

\* However a page is cut, nothing on it is read twice or not at all: every stroke is in one part, every typed
\* line in one, in order, and unless the page is read whole each stroke after the lines above it and before
\* the others. No piece reaches into the ink of the next, and a page is never cut into more than MAX_INK_PARTS.
PartsAreWhole(page, lines, parts) ==
        LET LinesBefore(k) == FlattenSeq([j \in 1..(k - 1) |-> parts[j].lines])
            wholePage == Len(InkParts(parts)) = 1 /\ parts[1].kind = "ink" /\ parts[1].strokes = page.strokes
        IN /\ \A s \in page.strokes : Cardinality({k \in DOMAIN parts : s \in parts[k].strokes}) = 1
           /\ LinesBefore(Len(parts) + 1) = lines
           /\ Len(InkParts(parts)) <= MAX_INK_PARTS
           /\ wholePage \/ \A k \in DOMAIN parts : \A s \in parts[k].strokes :
                    ToSet(LinesBefore(k)) = {l \in ToSet(lines) : l.y * 2 < s.box.top + s.box.bottom}
           /\ \A k \in 1..(Len(parts) - 1) : parts[k].kind = "ink" /\ parts[k + 1].kind = "ink" =>
                    \A s \in parts[k].strokes, t \in parts[k + 1].strokes : s.box.bottom + GAP_PX < t.box.top

\* Nothing on a page is lost but what is damaged: not where its file is read, not where it is cut for a backend.
NothingElseIsLost ==
    \A blocks \in {Blocks} : \A read \in {parseRmV6(blocks)} :
        /\ OneBadBlockCostsItself(blocks, read, parseRmV6([k \in DOMAIN blocks |-> [blocks[k] EXCEPT !.bad = {}]]))
        /\ \A lines \in {TypedLines(read)}, splitTall \in BOOLEAN : PartsAreWhole(read, lines, splitAtTypedText(read, lines, splitTall))
=============================================================================
