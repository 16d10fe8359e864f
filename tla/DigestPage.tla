----------------------------- MODULE DigestPage -----------------------------
(***************************************************************************)
(* The digest of one page of a PDF while it is marked and written on       *)
(* between syncs: recorded highlights, marker and pen marks become quotes, *)
(* the rest of the ink becomes notes beside them (digest-pipeline.ts,      *)
(* ink-marks.ts, digest-anchoring.ts, digest-builder.ts).                  *)
(*                                                                         *)
(* Each piece of ink that is no mark is a note of its own here: how        *)
(* strokes are grouped into notes is MarginNotes. Distances are vertical,  *)
(* in half lines; a name is the id of a stroke, which digestId hashes.     *)
(***************************************************************************)
EXTENDS PdfText, Orders

CONSTANTS
    Marks,          \* what may be drawn: [tool, words, colour, shape, top, bottom]
    MaxDrawn        \* how much is drawn at most

VARIABLES
    readable,       \* the page's text could be read
    drawn,          \* what is drawn, by id
    newest,         \* the newest id
    written         \* what was drawn when the last sync wrote the digest

pageVars == <<page, readable, drawn, newest, written>>

PrintedLine == 2
HEADING_TOLERANCE == 1
HIGHLIGHT_TOLERANCE == 3

\* Where a line stands on the page.
DepthOf(i) == FoldSet(LAMBDA j, sum : sum + PrintedLine * page[j].drop, 0, 2..i)
Beside(t1, b1, t2, b2) == Max({0, t1 - b2, t2 - b1})

Earliest(S, Better(_, _)) == CHOOSE x \in S : \A y \in S : ~Better(y, x)

-----------------------------------------------------------------------------
(* Quotes. *)

FirstOf(words) == CHOOSE p \in words : \A q \in words : p[1] < q[1] \/ (p[1] = q[1] /\ p[2] <= q[2])
LastOf(words) == CHOOSE p \in words : \A q \in words : q[1] < p[1] \/ (p[1] = q[1] /\ q[2] <= p[2])

Place(m) ==
    [id |-> m.id, fromInk |-> m.fromInk, tool |-> m.tool, words |-> m.words,
     sentence |-> IF readable THEN UNION {ToSet(q.sentence) : q \in QuoteForRects(m.words)} ELSE m.words,
     top |-> DepthOf(FirstOf(m.words)[1]), bottom |-> DepthOf(LastOf(m.words)[1]) + 1]

IdsOf(ink, tool) == InOrder({i \in DOMAIN ink : ink[i].tool = tool}, LAMBDA a, b : a < b)

\* A stroke that goes on where the one above it left the line, in the same colour.
IsWrappedContinuation(above, below) ==
    LET upper == LastOf(above.words)
        lower == FirstOf(below.words)
    IN above.colour = below.colour /\ lower[1] = upper[1] + 1 /\ upper[2] = Len(page[upper[1]].words) /\ lower[2] = 1

\* The recorded highlights, those that wrap onto the next line taken as one under the first one's id.
MergeMarkerStrokes(ink) ==
    LET Depth(i) == DepthOf(FirstOf(ink[i].words)[1])
        sorted == InOrder({i \in DOMAIN ink : ink[i].tool = "highlight"},
                          LAMBDA a, b : Depth(a) < Depth(b) \/ (Depth(a) = Depth(b) /\ a < b))
        Add(groups, i) ==
            IF groups # <<>> /\ IsWrappedContinuation(ink[Last(Last(groups))], ink[i])
            THEN Front(groups) \o <<Append(Last(groups), i)>> ELSE Append(groups, <<i>>)
        groups == IF readable THEN FoldLeft(Add, <<>>, sorted) ELSE [k \in DOMAIN sorted |-> <<sorted[k]>>]
    IN [g \in DOMAIN groups |-> [id |-> Head(groups[g]), fromInk |-> FALSE, tool |-> "marker",
                                  words |-> UNION {ink[i].words : i \in ToSet(groups[g])}]]

\* A stroke wide enough, flat under a line of text or closed around some.
ReadsAsMark(m) == m.shape \in {"flat", "loop"}
IsPenMark(m) == readable /\ ReadsAsMark(m) /\ m.words # {}

Placed(ink) ==
    LET pens == SelectSeq(IdsOf(ink, "pen"), LAMBDA i : IsPenMark(ink[i]))
        markers == SelectSeq(IdsOf(ink, "marker"), LAMBDA i : readable /\ ink[i].words # {})
        InkMarks(ids) == [k \in DOMAIN ids |-> [id |-> ids[k], fromInk |-> TRUE, tool |-> ink[ids[k]].tool, words |-> ink[ids[k]].words]]
        PlaceAll(marks) == [k \in DOMAIN marks |-> Place(marks[k])]
    IN PlaceAll(MergeMarkerStrokes(ink) \o InkMarks(pens) \o InkMarks(markers))

Handwriting == {i \in DOMAIN drawn : drawn[i].tool = "pen" /\ ~IsPenMark(drawn[i])}

CoversSameSentence(s, t) == s # {} /\ t # {} /\ (s \subseteq t \/ t \subseteq s)

\* As if a mark went to the first quote that shares its sentence.
GoesToFirst(groups, item) ==
    {Min({0} \cup {g \in DOMAIN groups : \E m \in ToSet(groups[g]) : CoversSameSentence(m.sentence, item.sentence)})} \ {0}
Matching(groups, item) == {g \in DOMAIN groups : \E m \in ToSet(groups[g]) : CoversSameSentence(m.sentence, item.sentence)}

\* The groups of marks that share a sentence; one that spans several groups makes them one.
Gather(groups, item) ==
    LET same == Matching(groups, item)
        others == InOrder(DOMAIN groups \ same, LAMBDA a, b : a < b)
        rest == InOrder(same \ {Min(same)}, LAMBDA a, b : a < b)
        whole == groups[Min(same)] \o <<item>> \o FlattenSeq([k \in DOMAIN rest |-> groups[rest[k]]])
        before == Cardinality({g \in DOMAIN groups \ same : g < Min(same)})
        kept == [k \in DOMAIN others |-> groups[others[k]]]
    IN IF same = {} THEN Append(groups, <<item>>)
       ELSE SubSeq(kept, 1, before) \o <<whole>> \o SubSeq(kept, before + 1, Len(kept))

\* The topmost of the marks, of two as high the earlier.
Topmost(members) == LET k == Earliest(DOMAIN members, LAMBDA a, b : members[a].top < members[b].top \/ (members[a].top = members[b].top /\ a < b)) IN members[k]

\* As if the topmost mark named the quote, whether the device recorded it or not.
TopmostSurvives(members) == Topmost(members)
Survivor(members) ==
    LET recorded == SelectSeq(members, LAMBDA m : ~m.fromInk) IN Topmost(IF recorded = <<>> THEN members ELSE recorded)

Longest(members) == CHOOSE m \in ToSet(members) : \A n \in ToSet(members) : Cardinality(n.sentence) <= Cardinality(m.sentence)

Quote(members) ==
    LET survivor == Survivor(members) IN
    [id |-> survivor.id, top |-> survivor.top, members |-> {m.id : m \in ToSet(members)},
     sentence |-> Longest(members).sentence, marked |-> {m.words : m \in ToSet(members)},
     tool |-> IF \E m \in ToSet(members) : m.tool = "marker" THEN "marker" ELSE "pen"]

MergeBySentence(placed) ==
    LET Quotes(groups) == [g \in DOMAIN groups |-> Quote(groups[g])] IN Quotes(FoldLeft(Gather, <<>>, placed))

-----------------------------------------------------------------------------
(* Notes. *)

\* The heading, the mark or the line a note stands by.
ResolveAnchor(note, placed) ==
    LET DepthGap(h) == Apart(2 * DepthOf(h), note.top + note.bottom)
        headings == {h \in FontSizeHeadings : DepthGap(h) <= 2 * HEADING_TOLERANCE * PrintedLine}
        Gap(k) == Beside(note.top, note.bottom, placed[k].top, placed[k].bottom)
        marks == {k \in DOMAIN placed : Gap(k) <= HIGHLIGHT_TOLERANCE * PrintedLine}
    IN IF ~readable THEN [kind |-> "page"]
       ELSE IF headings # {} THEN [kind |-> "heading", at |-> Earliest(headings, LAMBDA a, b : DepthGap(a) < DepthGap(b) \/ (DepthGap(a) = DepthGap(b) /\ a < b))]
       ELSE IF marks # {} THEN [kind |-> "highlight", at |-> placed[Earliest(marks, LAMBDA a, b : Gap(a) < Gap(b) \/ (Gap(a) = Gap(b) /\ a < b))].id]
       ELSE [kind |-> "line"]

\* The line nearest to a height: what comes where in the reading of the page.
ReadingIndex(y) ==
    LET Gap(i) == Beside(y, y, DepthOf(i), DepthOf(i) + 1) IN
    Earliest(DOMAIN page, LAMBDA a, b : Gap(a) < Gap(b) \/ (Gap(a) = Gap(b) /\ a < b))

Rank(y) == IF readable THEN ReadingIndex(y) ELSE y

\* The last heading that stands before a height, or None.
SectionAt(y) ==
    LET above == {h \in FontSizeHeadings : h < Rank(y) \/ (h = Rank(y) /\ DepthOf(h) <= y)} IN
    IF ~readable \/ above = {} THEN None ELSE Max(above)

\* As if a note kept to the mark it was drawn by, whether that mark is printed or not.
PrintedUnder(quotes, id) == {q \in ToSet(quotes) : q.id = id}
SurvivorOf(quotes, id) == {q \in ToSet(quotes) : id \in q.members}

\* The entries of the page: its quotes with the notes beside them, and the notes that stand alone.
Assemble(quotes, anchor) ==
    LET HostsOf(n) == IF anchor[n].kind = "highlight" THEN {q.id : q \in SurvivorOf(quotes, anchor[n].at)} ELSE {}
        SectionOf(n) == IF anchor[n].kind = "heading" THEN anchor[n].at ELSE SectionAt(drawn[n].top)
        alone == InOrder({n \in Handwriting : HostsOf(n) = {}}, LAMBDA a, b : drawn[a].top < drawn[b].top \/ (drawn[a].top = drawn[b].top /\ a < b))
    IN [k \in DOMAIN quotes |->
            [kind |-> "quote", id |-> quotes[k].id, quote |-> quotes[k], top |-> quotes[k].top, rank |-> Rank(quotes[k].top),
             section |-> SectionAt(quotes[k].top), notes |-> {n \in Handwriting : HostsOf(n) = {quotes[k].id}}]]
        \o [k \in DOMAIN alone |->
            [kind |-> "note", id |-> alone[k], top |-> drawn[alone[k]].top, rank |-> Rank(drawn[alone[k]].top),
             section |-> SectionOf(alone[k]), notes |-> {alone[k]}]]

Anchors(placed) == [n \in Handwriting |-> ResolveAnchor(drawn[n], placed)]
Entries(placed) == Assemble(MergeBySentence(placed), Anchors(placed))

-----------------------------------------------------------------------------
(* The order they are printed in. *)

\* The order the entries of a page are read in.
ReadBefore(entries, a, b) ==
    \/ entries[a].rank < entries[b].rank
    \/ entries[a].rank = entries[b].rank /\ entries[a].top < entries[b].top
    \/ entries[a].rank = entries[b].rank /\ entries[a].top = entries[b].top /\ a < b

\* A section has the place of its first entry.
PrintedBefore(entries, a, b) ==
    LET First(s) == Earliest({k \in DOMAIN entries : entries[k].section = s}, LAMBDA x, y : ReadBefore(entries, x, y)) IN
    IF entries[a].section = entries[b].section THEN ReadBefore(entries, a, b)
    ELSE ReadBefore(entries, First(entries[a].section), First(entries[b].section))

AsPrinted(entries) ==
    LET order == InOrder(DOMAIN entries, LAMBDA a, b : PrintedBefore(entries, a, b)) IN
    [k \in DOMAIN order |-> entries[order[k]]]

-----------------------------------------------------------------------------
(* The page between two syncs. *)

DigestInitOn(pages) ==
    /\ page \in pages /\ readable \in BOOLEAN
    /\ drawn = <<>> /\ newest = 0 /\ written = <<>>

DrawMark ==
    /\ newest < MaxDrawn
    /\ \E m \in Marks : drawn' = [i \in DOMAIN drawn \cup {newest + 1} |-> IF i \in DOMAIN drawn THEN drawn[i] ELSE m]
    /\ newest' = newest + 1
    /\ UNCHANGED <<page, readable, written>>

EraseMark ==
    /\ \E i \in DOMAIN drawn : drawn' = [j \in DOMAIN drawn \ {i} |-> drawn[j]]
    /\ UNCHANGED <<page, readable, newest, written>>

WriteDigest ==
    /\ written' = drawn
    /\ UNCHANGED <<page, readable, drawn, newest>>

PageNext == DrawMark \/ EraseMark \/ WriteDigest

-----------------------------------------------------------------------------
(* What a digest promises. *)

\* No sentence is printed twice: no quote of the page is the whole or a part of another one.
NoQuoteInsideAnother(quotes) ==
    \A k, l \in DOMAIN quotes : k # l => ~CoversSameSentence(quotes[k].sentence, quotes[l].sentence)

\* Every note is printed once, and a note drawn beside a mark stands under the quote that mark is part of,
\* though the quote bears another mark's name.
NotesStayWithTheirMark(entries, anchor) ==
    LET Under(n) == {k \in DOMAIN entries : n \in entries[k].notes} IN
    \A n \in Handwriting :
        /\ Cardinality(Under(n)) = 1
        /\ anchor[n].kind = "highlight" =>
            \A k \in Under(n) : entries[k].kind = "quote" /\ anchor[n].at \in entries[k].quote.members

\* A section is printed in one piece, also when a note just above its heading is put in it and a mark
\* further down is not.
SectionsInOnePiece(entries) ==
    \A k, m \in DOMAIN entries : \A l \in k..m : entries[k].section = entries[m].section => entries[l].section = entries[k].section

\* What is drawn over a page does not rename its quotes: while nothing was erased and no highlight was
\* added, the quotes that hold a recorded one bear names they had before.
RecordedIds(ink) == {i \in DOMAIN ink : ink[i].tool = "highlight"}
QuotesOf(ink) == ToSet(MergeBySentence(Placed(ink)))
QuotesKeepTheirNames ==
    [][written' # written /\ DOMAIN written \subseteq DOMAIN written' /\ RecordedIds(written') \subseteq DOMAIN written =>
        {q.id : q \in {q \in QuotesOf(written') : q.members \cap RecordedIds(written') # {}}} \subseteq {q.id : q \in QuotesOf(written)}]_pageVars

\* Every sentence and every note of a page is printed once, where it belongs, whatever is drawn on it or erased.
EachOnceInItsPlace ==
    \A placed \in {Placed(drawn)} :
        /\ NoQuoteInsideAnother(MergeBySentence(placed))
        /\ \A entries \in {Entries(placed)} : NotesStayWithTheirMark(entries, Anchors(placed)) /\ SectionsInOnePiece(AsPrinted(entries))
=============================================================================
