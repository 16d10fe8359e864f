------------------------------- MODULE PdfText -------------------------------
(***************************************************************************)
(* The sentence a mark on a printed page stands in (pdf-text.ts,           *)
(* quoteForRects), read a few lines at a time around the mark.             *)
(*                                                                         *)
(* A page is its lines in reading order. A word is "word", a "stop" that   *)
(* ends a sentence because a capital follows it, or an "abbr", whose full  *)
(* stop ends a sentence only where the text read so far ends. A line may   *)
(* break its last word with a hyphen. What the device recorded of a        *)
(* highlight's text is taken to be the words it lies on.                   *)
(***************************************************************************)
EXTENDS Integers, Sequences, FiniteSets, FiniteSetsExt, SequencesExt, Absent

CONSTANTS
    Lines,          \* the lines a page may be made of
    MaxLines,       \* how many lines a page has at most
    MAX_SENTENCE_REACH

ASSUME PdfTextAssumption == MAX_SENTENCE_REACH \in Nat \ {0}

VARIABLE page       \* per line: its words, whether it ends in a hyphen, its height, its distance from the line above

-----------------------------------------------------------------------------
(* Lines that belong together. *)

Heights == {page[i].height : i \in DOMAIN page}
CharsOf(h) == FoldSet(LAMBDA i, sum : sum + Len(page[i].words), 0, {i \in DOMAIN page : page[i].height = h})

\* The height most of the page's text has, the first of two that have as much.
BodyTextSize ==
    LET chars == [h \in Heights |-> CharsOf(h)]
        most == {i \in DOMAIN page : \A h \in Heights : chars[h] <= chars[page[i].height]} IN
    IF page = <<>> THEN None ELSE page[Min(most)].height

\* A distance the lower quarter of the body's lines keep from the line above.
BodyLineSpacing ==
    LET Beneath(body) == {i \in 2..Len(page) : page[i].drop > 0 /\ page[i].height = body /\ page[i - 1].height = body}
        Rank(i, lines) == Cardinality({j \in lines : page[j].drop < page[i].drop \/ (page[j].drop = page[i].drop /\ j < i)})
        LowerQuarter(lines) ==
            IF lines = {} THEN None ELSE page[CHOOSE i \in lines : Rank(i, lines) = (Cardinality(lines) - 1) \div 4].drop
    IN LowerQuarter(Beneath(BodyTextSize))

\* Line i does not go on from the one above it.
Separated(i) ==
    \/ page[i - 1].height # page[i].height
    \/ \E spacing \in {BodyLineSpacing} \ {None} : 2 * page[i].drop > 3 * spacing

JoinsAbove(i) == i > 1 /\ ~Separated(i)
\* As if a paragraph went on until the page ends.
JoinsAnyBelow(i) == i < Len(page)
JoinsBelow(i) == i < Len(page) /\ ~Separated(i + 1)

-----------------------------------------------------------------------------
(* Sentences in a text of some of the lines. *)

\* The words of the lines as <<line, word>>; the halves of a hyphenated word follow each other.
JoinLines(from, to) ==
    FlattenSeq([k \in 1..(to - from + 1) |-> [w \in DOMAIN page[from + k - 1].words |-> <<from + k - 1, w>>]])

WordAt(p) == page[p[1]].words[p[2]]
\* The word at p is the second half of the one before it in the text.
Halved(text, k) == k \in 2..Len(text) /\ text[k][2] = 1 /\ page[text[k][1] - 1].hyphen

IsSentenceEnd(text, k) == WordAt(text[k]) = "stop" \/ (WordAt(text[k]) # "word" /\ k = Len(text))

ExpandToWords(text, start, end) ==
    [start |-> IF Halved(text, start) THEN start - 1 ELSE start, end |-> IF Halved(text, end + 1) THEN end + 1 ELSE end]

SentenceAround(text, start, end) ==
    LET before == {k \in 1..(start - 1) : IsSentenceEnd(text, k)}
        after == {k \in end..Len(text) : IsSentenceEnd(text, k)}
    IN [start |-> IF before = {} THEN 1 ELSE Max(before) + 1, end |-> IF after = {} THEN Len(text) ELSE Min(after)]

\* What a window of lines makes of a mark from the word p to the word q.
ReadText(from, to, p, q) ==
    LET Marked(text) == ExpandToWords(text, CHOOSE k \in DOMAIN text : text[k] = p, CHOOSE k \in DOMAIN text : text[k] = q)
        Read(text, mark) == [text |-> text, mark |-> mark, bounds |-> SentenceAround(text, mark.start, mark.end)]
        ReadLines(text) == Read(text, Marked(text))
    IN ReadLines(JoinLines(from, to))

\* The sentence a window of lines has around the mark, and the mark itself.
QuoteIn(r) == [sentence |-> SubSeq(r.text, r.bounds.start, r.bounds.end), marked |-> SubSeq(r.text, r.mark.start, r.mark.end)]
EndsIn(r) == r.bounds.end < Len(r.text)

\* Up while the sentence has no beginning; a sentence out of reach is quoted from the next line only.
ReachUp(nearFrom, nearTo, p, q) ==
    LET up[from \in 1..nearFrom] ==
            IF ~JoinsAbove(from) \/ ReadText(from, nearTo, p, q).bounds.start # 1 THEN from
            ELSE IF p[1] - from = MAX_SENTENCE_REACH THEN nearFrom ELSE up[from - 1]
    IN up[nearFrom]

\* Down while the sentence has no end.
ReachDown(from, nearTo, p, q) ==
    LET down[to \in nearTo..Len(page)] ==
            IF ~JoinsBelow(to) \/ EndsIn(ReadText(from, to, p, q)) THEN to
            ELSE IF to - q[1] = MAX_SENTENCE_REACH THEN nearTo ELSE down[to + 1]
    IN down[nearTo]

\* One run of lines that a mark lies on, from the word p to the word q.
QuoteForPassage(p, q) ==
    LET nearFrom == IF JoinsAbove(p[1]) THEN p[1] - 1 ELSE p[1]
        nearTo == IF JoinsBelow(q[1]) THEN q[1] + 1 ELSE q[1]
        QuoteFrom(from) == QuoteIn(ReadText(from, ReachDown(from, nearTo, p, q), p, q))
    IN QuoteFrom(ReachUp(nearFrom, nearTo, p, q))

\* The runs of consecutive lines among those that are marked, as <<first word, last word>> each.
Passages(words) ==
    LET marked == {p[1] : p \in words}
        Start(l) == l - 1 \notin marked
        End(l) == Min({m \in marked : m >= l /\ m + 1 \notin marked})
        On(l) == {p[2] : p \in {p \in words : p[1] = l}}
    IN {<<<<l, Min(On(l))>>, <<End(l), Max(On(End(l)))>>>> : l \in {l \in marked : Start(l)}}

\* The quotes of a mark, one for each passage.
QuoteForRects(words) == {QuoteForPassage(w[1], w[2]) : w \in Passages(words)}

\* The lines set larger than the text of the page, the first of each run: the headings of a PDF without an outline.
FontSizeHeadings ==
    LET Count(h) == Cardinality({i \in DOMAIN page : page[i].height = h})
        modal == CHOOSE h \in Heights : \A g \in Heights : Count(g) < Count(h) \/ (Count(g) = Count(h) /\ h <= g)
    IN {i \in DOMAIN page : 10 * page[i].height >= 11 * modal /\ ~(i > 1 /\ page[i - 1].height = page[i].height)}

-----------------------------------------------------------------------------
TextInit == page = <<>>
AddLine == Len(page) < MaxLines /\ \E line \in Lines : page' = Append(page, line)

-----------------------------------------------------------------------------
(* What a quote promises. *)

\* The sentence in the whole of its paragraph.
ParagraphSentence(p, q) ==
    LET first == Min({i \in 1..p[1] : \A j \in (i + 1)..p[1] : ~Separated(j)})
        last == Max({i \in q[1]..Len(page) : \A j \in (q[1] + 1)..i : ~Separated(j)})
    IN QuoteIn(ReadText(first, last, p, q)).sentence

\* A mark is quoted with the whole sentence it stands in and nothing more, as long as the sentence begins
\* and ends within reach: not cut where a few lines were read, not run on into a heading or another
\* paragraph, so that two marks in one sentence have one quote.
QuoteIsTheSentence ==
    LET WithinReach(sentence, l) == l - Head(sentence)[1] < MAX_SENTENCE_REACH /\ Last(sentence)[1] - l < MAX_SENTENCE_REACH
    IN \A l \in DOMAIN page : \A a, b \in DOMAIN page[l].words : a <= b =>
        \A sentence \in {ParagraphSentence(<<l, a>>, <<l, b>>)} :
            WithinReach(sentence, l) => QuoteForPassage(<<l, a>>, <<l, b>>).sentence = sentence
=============================================================================
