------------------------------ MODULE TypedText ------------------------------
(***************************************************************************)
(* Where the characters of a page's typed text stand (text-layout.ts), as  *)
(* text is typed, deleted and styled on the tablet. Ink that hangs from a  *)
(* character is drawn at the height found here.                            *)
(*                                                                         *)
(* A text is its runs of characters and the styles of its paragraphs, each *)
(* under the id of the line break before it. Lengths are in tenths of a    *)
(* pixel; every character is one unit wide.                                *)
(***************************************************************************)
EXTENDS Integers, Sequences, FiniteSets, FiniteSetsExt, SequencesExt, Absent

CONSTANTS
    RunTexts,       \* what may be typed in one go
    Styles,         \* the styles a paragraph may be given
    TextWidth,      \* how many characters a line holds
    MaxRuns         \* how many runs are typed at most

VARIABLE typed      \* the text of the page: runs, styles and the next free id

BREAK == "break"
PARAGRAPH_GAP_PX == 240
TEXT_TOP_PX == 338
LIST_INDENT == 1
LIST_STYLE == 4
PLAIN_STYLE == 1
FIRST_PARAGRAPH_STYLE_KEY == 0
LeadingPx(style) == IF style = 3 THEN 581 ELSE 455
SpaceAbovePx(style) == CASE style = 2 -> 282 [] style = 3 -> 344 [] OTHER -> 0

StyleAt(text, key) == IF key \in DOMAIN text.styles THEN text.styles[key] ELSE PLAIN_STYLE

\* The characters that were not deleted, with their ids.
LiveCharacters(text) ==
    LET live == SelectSeq(text.runs, LAMBDA r : ~r.deleted) IN
    FlattenSeq([k \in DOMAIN live |-> [i \in DOMAIN live[k].text |-> [id |-> live[k].id + i - 1, char |-> live[k].text[i]]]])

-----------------------------------------------------------------------------
(* Lines of a paragraph. *)

\* A space stands alone, and a slash ends what may be broken after it.
BreakChunks(paragraph) ==
    FoldLeft(LAMBDA chunks, c :
        IF chunks # <<>> /\ c.char # " " /\ Last(Last(chunks)).char \notin {" ", "/"}
        THEN Front(chunks) \o <<Append(Last(chunks), c)>> ELSE Append(chunks, <<c>>), <<>>, paragraph)

TrimEnd(line) ==
    LET written == {i \in DOMAIN line : line[i].char # " "} IN
    IF written = {} THEN <<>> ELSE SubSeq(line, 1, Max(written))

\* As if a line were as long as what is drawn of it.
DrawnLength(line) == Len(TrimEnd(line))
LineLength(line) == Len(line)

BreakIntoLines(paragraph, width) ==
    LET Pushed(state) == Append(state.lines, [text |-> TrimEnd(state.line), length |-> LineLength(state.line)])
        Take(state, chunk) ==
            IF chunk[1].char # " " /\ TrimEnd(state.line) # <<>> /\ Len(TrimEnd(state.line \o chunk)) > width
            THEN [lines |-> Pushed(state), line |-> chunk] ELSE [state EXCEPT !.line = @ \o chunk]
    IN Pushed(FoldLeft(Take, [lines |-> <<>>, line |-> <<>>], BreakChunks(paragraph)))

-----------------------------------------------------------------------------
(* The layout of a text. *)

\* The first character of each paragraph, by place; a text that ends in a break has none after it.
ParagraphStarts(characters) ==
    {1} \cup {i + 1 : i \in {i \in DOMAIN characters : characters[i].char = BREAK}}

EndOf(characters, start) ==
    LET breaks == {i \in start..Len(characters) : characters[i].char = BREAK} IN
    IF breaks = {} THEN Len(characters) ELSE Min(breaks) - 1

FirstY(text) == TEXT_TOP_PX + SpaceAbovePx(StyleAt(text, FIRST_PARAGRAPH_STYLE_KEY))

\* The layout with the paragraph that begins at a place added to it.
FlushParagraph(text, characters, layout, start) ==
    LET key == IF start = 1 THEN FIRST_PARAGRAPH_STYLE_KEY ELSE characters[start - 1].id
        style == StyleAt(text, key)
        end == EndOf(characters, start)
        width == TextWidth - (IF style = LIST_STYLE THEN LIST_INDENT ELSE 0)
        top == IF start = 1 THEN layout.y ELSE layout.y + LeadingPx(style) + PARAGRAPH_GAP_PX + SpaceAbovePx(style)
        HeightOf(l) == top + (l - 1) * LeadingPx(style)
        Before(wrapped, l) == FoldSet(LAMBDA j, sum : sum + wrapped[j].length, 0, 1..(l - 1))
        CharsOn(from, l, length) ==
            {[id |-> characters[i].id, y |-> HeightOf(l)] : i \in {i \in from..(from + length - 1) : i <= end}}
        BreakAt(y) == IF end < Len(characters) THEN {[id |-> characters[end + 1].id, y |-> y]} ELSE {}
        WithLines(wrapped) ==
            [y |-> HeightOf(Len(wrapped)), bottomY |-> HeightOf(Len(wrapped)),
             lines |-> layout.lines \o [l \in DOMAIN wrapped |-> [text |-> wrapped[l].text, y |-> HeightOf(l)]],
             yOfChar |-> layout.yOfChar \cup BreakAt(HeightOf(Len(wrapped)))
                \cup UNION {CharsOn(start + Before(wrapped, l), l, wrapped[l].length) : l \in DOMAIN wrapped}]
    IN WithLines(BreakIntoLines(SubSeq(characters, start, end), width))

LayoutText(text) ==
    LET characters == LiveCharacters(text)
        starts == {s \in ParagraphStarts(characters) : s <= Len(characters)}
        inOrder == SelectSeq([s \in DOMAIN characters |-> s], LAMBDA s : s \in starts)
        empty == [y |-> FirstY(text), bottomY |-> FirstY(text), lines |-> <<>>, yOfChar |-> {}]
        Finish(laid) == [lines |-> laid.lines, yOfChar |-> laid.yOfChar, bottomY |-> laid.bottomY,
                         topY |-> IF laid.lines = <<>> THEN FirstY(text) ELSE laid.lines[1].y]
    IN Finish(FoldLeft(LAMBDA layout, s : FlushParagraph(text, characters, layout, s), empty, inOrder))

-----------------------------------------------------------------------------
(* Typing on the tablet. *)

TypedInit == typed = [runs |-> <<>>, styles |-> <<>>, next |-> 1]

\* Text is typed after, before or between what is there, as a run of its own.
TypeRun ==
    \E t \in RunTexts, at \in {1, Len(typed.runs) + 1} :
        /\ Len(typed.runs) < MaxRuns
        /\ typed' = [typed EXCEPT !.runs = InsertAt(@, at, [id |-> typed.next, text |-> t, deleted |-> FALSE]), !.next = @ + Len(t)]

DeleteRun ==
    \E k \in DOMAIN typed.runs : ~typed.runs[k].deleted /\ typed' = [typed EXCEPT !.runs[k].deleted = TRUE]

SetStyle ==
    \E style \in Styles, c \in {[id |-> FIRST_PARAGRAPH_STYLE_KEY, char |-> BREAK]} \cup ToSet(LiveCharacters(typed)) :
        /\ c.char = BREAK
        /\ DOMAIN typed.styles = {}
        /\ typed' = [typed EXCEPT !.styles = [k \in {c.id} |-> style]]

TypedNext == TypeRun \/ DeleteRun \/ SetStyle

-----------------------------------------------------------------------------
(* What the layout promises. *)

\* Every character hangs at the height of the line it is drawn on, and a line break at the height of the
\* last line of its paragraph: spaces at the end of a line are not drawn, but they are counted, or all
\* that hangs from a later character of the paragraph would be drawn a line off.
StandOnTheirLines(layout, characters) ==
       /\ \A l \in ToSet(layout.lines) : \A c \in ToSet(l.text) : [id |-> c.id, y |-> l.y] \in layout.yOfChar
       /\ \A c \in ToSet(characters) : Cardinality({p \in layout.yOfChar : p.id = c.id}) = 1
       /\ \A k, m \in DOMAIN characters : k < m =>
            \A p, q \in layout.yOfChar : p.id = characters[k].id /\ q.id = characters[m].id => p.y <= q.y
CharactersStandOnTheirLines == StandOnTheirLines(LayoutText(typed), LiveCharacters(typed))
=============================================================================
