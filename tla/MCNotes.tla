------------------------------- MODULE MCNotes -------------------------------
(***************************************************************************)
(* What becomes of a page in its note, one part at a time: how its file,   *)
(* its typed text, the lines of its print, the sentences of a highlight,   *)
(* the margin notes and the page of a digest are read; the transcript of a *)
(* notebook; the division of a document between digest and transcript; and *)
(* the frontmatter properties of the note.                                 *)
(***************************************************************************)
EXTENDS MarginNotes, PdfLines, DigestPage, ScenePage, Transcripts, NoteProperties, DigestedNote

CONSTANTS p1, p2, p3, b1, off, s1, s2, s3, added1, added2

VARIABLE part

readingVars == <<marginVars, items, pageVars, typed, file>>
AllVars == <<part, readingVars, transcriptVars, propertyVars, documentVars>>

Box(left, right, top, bottom) == [left |-> left, right |-> right, top |-> top, bottom |-> bottom]

\* Words of a line, one further down, a row apart to the right, specks beside and below, a bar and a dot.
SomeShapes ==
    {None, Box(0, 40, 0, 16), Box(60, 110, 4, 20), Box(50, 54, 2, 6), Box(44, 47, 22, 30), Box(0, 50, 30, 48), Box(62, 100, 26, 44)}
SomeColumns == {None, [left |-> 150, right |-> 400]}

Piece(x, width, y, text) == [x |-> x, width |-> width, y |-> y, height |-> 4, text |-> text, blank |-> text = " "]

\* Two columns under a title, a line across both, a doubled piece and a blank one in the gutter.
SomePieces ==
    {Piece(0, 30, 100, "title"), Piece(0, 12, 90, "a"), Piece(1, 12, 90, "a"), Piece(18, 12, 90, "b"), Piece(0, 12, 85, "c"),
     Piece(18, 12, 84, "d"), Piece(0, 12, 80, "e"), Piece(13, 5, 80, " "), Piece(18, 12, 80, "f"), Piece(0, 28, 75, "wide"),
     Piece(0, 5, 70, "g"), Piece(8, 5, 70, "k"), Piece(18, 12, 70, "h")}

Line(words, hyphen, height, drop) == [words |-> words, hyphen |-> hyphen, height |-> height, drop |-> drop]
SomeLines ==
    {Line(<<"word">>, FALSE, 2, 1), Line(<<"word">>, TRUE, 2, 1), Line(<<"stop", "word">>, FALSE, 2, 1),
     Line(<<"stop", "abbr">>, FALSE, 2, 2), Line(<<"word">>, FALSE, 3, 1)}

\* A page with two sentences in one line, one over two lines, and a heading.
SomePages ==
    {<<Line(<<"word", "stop", "word">>, FALSE, 2, 1), Line(<<"stop", "word">>, FALSE, 2, 1),
       Line(<<"word">>, FALSE, 3, 2), Line(<<"word", "stop">>, FALSE, 2, 1)>>}

Mark(tool, words, colour, shape, top, bottom) ==
    [tool |-> tool, words |-> words, colour |-> colour, shape |-> shape, top |-> top, bottom |-> bottom]
Words(l, from, to) == {<<l, w>> : w \in from..to}
SomeMarks ==
    {Mark("highlight", Words(1, 1, 1), "y", "", 0, 0), Mark("highlight", Words(1, 3, 3), "y", "", 0, 0),
     Mark("highlight", Words(2, 1, 1), "y", "", 0, 0), Mark("highlight", Words(4, 1, 2), "g", "", 0, 0),
     Mark("marker", Words(2, 1, 2), "g", "", 0, 0), Mark("pen", Words(1, 2, 3), "k", "loop", 0, 1),
     Mark("pen", {}, "k", "flat", 2, 3),
     Mark("pen", {}, "k", "open", 9, 11)}

SomeRuns == {<<"a", "b">>, <<"c">>, <<" ">>, <<"/", "d">>, <<BREAK>>, <<"e", " ", "f", " ">>}

\* Two paragraphs, one of them a heading, with a deleted character between two others.
Run(id, text, deleted) == [id |-> id, text |-> text, deleted |-> deleted]
SomeText == [runs |-> <<Run(1, <<"a", "b", " ">>, FALSE), Run(4, <<BREAK>>, FALSE), Run(5, <<"c", " ">>, FALSE),
                        Run(7, <<"d">>, TRUE), Run(8, <<"e", "f">>, FALSE)>>,
             styles |-> [k \in {4} |-> 3], next |-> 10]

Node(id, visible, anchor) == [type |-> "layerNames", id |-> id, visible |-> visible, anchor |-> anchor]
Stroke(id, layer, box) == [type |-> "lineDef", id |-> id, layer |-> layer, deleted |-> id = "erased", box |-> box]

\* A hidden layer of short and very long strokes, and one anchored to a character, to a deleted one or to the end.
SomeBlocks ==
    <<[type |-> "sceneInfo", id |-> "info", paper |-> "big"], [type |-> "textDef", id |-> "text", text |-> SomeText],
      [type |-> "imageTable", id |-> "table", names |-> <<"k1", "k2">>],
      [type |-> "layerDef", id |-> "L1"], [type |-> "layerDef", id |-> "L2"],
      Node("L1", FALSE, None), Node("L2", TRUE, 5), Node("L2", None, 7), Node("L2", TRUE, SENTINEL_ANCHOR_BOTTOM),
      [type |-> "imageDef", id |-> "I2", key |-> "k2"], [type |-> "glyphDef", id |-> "G", deleted |-> FALSE],
      Stroke("S1", "L1", Box(0, 100, 0, 100)), Stroke("S2", "L1", Box(0, 50, 200, 9000)),
      Stroke("S3", "L1", Box(20, 80, 900, 1000)), Stroke("S4", "L1", Box(0, 50, 4000, 4100)),
      Stroke("S7", "L1", Box(0, 50, 12000, 12100)), Stroke("erased", "L1", Box(0, 50, 0, 50)),
      Stroke("S5", "L2", Box(0, 300, 0, 400)), Stroke("S6", "L2", Box(0, 300, 700, 720))>>

TwoPages == <<p1, p2>>

\* A tag whose every character is one no tag may have is no tag in the vault.
SomeTagNames == [t \in DeviceTags |-> IF t = "?" THEN "" ELSE t]

\* A PDF of three pages, the first in two columns, and two pages that can be added to it.
Heading(onPage, inColumn, atDepth) == [source |-> onPage, column |-> inColumn, depth |-> atDepth]
SomeSources == [p \in Sheets |-> CASE p = s1 -> 1 [] p = s2 -> 2 [] p = s3 -> 3 [] OTHER -> None]
SomeOrders == {<<s1, added1, s2, s3>>, <<added1, added2, s2, s1>>}
SomeOutline == {Heading(1, 1, 4), Heading(1, 2, 2), Heading(2, None, 4), Heading(3, None, None), Heading(None, 1, 2)}
AtTheTop == <<1, 0>>
SomePlaces == {<<1, 2>>, <<1, 4>>, <<1, 5>>, <<2, 4>>}

Sheet(marked, drawnAt, isTyped) == [marks |-> marked, ink |-> drawnAt, typed |-> isTyped]
Nothing == Sheet({}, {}, FALSE)
SomeContents ==
    {[p \in Sheets |-> Nothing]}
    \cup {[p \in Sheets |-> CASE p = s1 -> Sheet({}, {<<1, 2>>}, FALSE) [] p = s2 -> Sheet({<<1, 2>>}, {}, isTyped)
                              [] p = added1 -> Sheet({}, {<<1, 2>>}, isTyped) [] OTHER -> Nothing] : isTyped \in BOOLEAN}

\* Only the part that runs moves, or has more than one initial state; the print has no lines in advance
\* unless it is the page of a digest.
MCInit ==
    /\ part \in {"margin", "lines", "text", "digest", "typed", "file", "transcript", "properties", "document"}
    /\ MarginInit /\ LinesInit /\ TypedInit /\ SceneInit /\ TranscriptInit /\ PropertiesInit /\ DocumentInit
    /\ IF part = "digest" THEN DigestInitOn(SomePages) ELSE DigestInitOn({<<>>})
    /\ part # "margin" => column = None
    /\ part # "digest" => readable
    /\ part # "transcript" => backend = b1
    /\ part # "document" => kind = "notebook" /\ marginNotes /\ sheets = <<s1, added1, s2, s3>> /\ contents = [p \in Sheets |-> Nothing]

MCNext ==
    \/ /\ \/ part = "margin" /\ MarginNext /\ UNCHANGED <<items, pageVars, typed, file>>
          \/ part = "lines" /\ FindPiece /\ UNCHANGED <<marginVars, pageVars, typed, file>>
          \/ part = "text" /\ AddLine /\ UNCHANGED <<marginVars, items, readable, drawn, newest, written, typed, file>>
          \/ part = "digest" /\ PageNext /\ UNCHANGED <<marginVars, items, typed, file>>
          \/ part = "typed" /\ TypedNext /\ UNCHANGED <<marginVars, items, pageVars, file>>
          \/ part = "file" /\ SceneNext /\ UNCHANGED <<marginVars, items, pageVars, typed>>
       /\ UNCHANGED <<part, transcriptVars, propertyVars, documentVars>>
    \/ part = "transcript" /\ TranscriptNext /\ UNCHANGED <<part, readingVars, propertyVars, documentVars>>
    \/ part = "properties" /\ PropertiesNext /\ UNCHANGED <<part, readingVars, transcriptVars, documentVars>>
    \/ part = "document" /\ DocumentNext /\ UNCHANGED <<part, readingVars, transcriptVars, propertyVars>>

MCSpec == MCInit /\ [][MCNext]_AllVars

-----------------------------------------------------------------------------

\* A page of print, of typed text or of both is read as its lines stand, and a sentence as its words do; and
\* nothing on it is lost but what is damaged.
PageIsReadAsPrinted == EveryWordIsReadInOrder /\ CharactersStandOnTheirLines /\ QuoteIsTheSentence /\ NothingElseIsLost

\* A link to an entry of a digest goes on working while the user only adds to the page.
LinksToEntriesHold == NamesStay /\ QuotesKeepTheirNames
=============================================================================
