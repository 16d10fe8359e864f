---------------------------- MODULE DigestedNote ----------------------------
(***************************************************************************)
(* How the pages of one document are divided between the digest and the    *)
(* transcript of its note: by a sync, which builds both, and by a          *)
(* re-transcription, which has only the note to tell what the digest holds *)
(* (sync-engine.ts, digest-pipeline.ts, digest-builder.ts, note-builder.ts)*)
(*                                                                         *)
(* What a single page's entries are is in DigestPage, which text a page's  *)
(* ink keeps in Transcripts. Here every mark and every piece of ink is     *)
(* known by its place: the column, and the depth in half lines. Numbers    *)
(* are those of the pages in the embedded render.                          *)
(***************************************************************************)
EXTENDS Naturals, FiniteSets, Sequences, SequencesExt, FiniteSetsExt, Absent

CONSTANTS
    Sheets,         \* page ids, used and to come
    SourceOf,       \* the page of the PDF each of them shows, None for one added on the tablet
    StartSheets,    \* the orders of pages there may be at the start
    StartContents,  \* what they may hold at the start
    Places,         \* where something can be drawn
    Outline,        \* the headings the PDF lists: page, column and depth, each None where the list names none
    TwoColumned,    \* pages of the PDF in two columns
    Scanned,        \* pages of the PDF without readable text
    TitlePlace,     \* where typed text has its heading
    DocChanges      \* how often the user does something

VARIABLES
    kind,           \* "pdf" (or an EPUB's PDF) or "notebook"
    sheets,         \* the document's pages, in order
    contents,       \* of each page: its marks, its ink, whether it is typed text
    marginNotes,    \* the switch "Your notes on PDFs"
    dnote,          \* the note, or None
    asked,          \* the last command and the ink it sent to the backend, for the digest and for the transcript
    current,        \* nothing has changed since the last sync
    docChanges

documentVars == <<kind, sheets, contents, marginNotes, dnote, asked, current, docChanges>>

-----------------------------------------------------------------------------
(* The pages of the document. *)

InDocument == ToSet(sheets)
NumberOf(p) == CHOOSE i \in DOMAIN sheets : sheets[i] = p
IsAdded(p) == kind = "pdf" /\ SourceOf[p] = None
SourceIndex(p) == IF kind = "pdf" THEN SourceOf[p] ELSE NumberOf(p)

\* isDocumentText decides for a notebook; of a PDF the digest gets every page.
Digested(p) == kind = "pdf" \/ contents[p].typed
BlankSheet(p) == contents[p].marks = {} /\ contents[p].ink = {} /\ ~contents[p].typed
InkOn(pages) == UNION {{p} \X contents[p].ink : p \in pages}
QuotesOn(pages) == UNION {{p} \X contents[p].marks : p \in pages}

\* addedPagePlaces: added pages are told by the printed page before them, at the front by the first one,
\* and by their turn if there are several.
AddedPlace(p) ==
    LET kept == {j \in DOMAIN sheets : ~IsAdded(sheets[j])}
        before == {j \in kept : j < NumberOf(p)}
        after == {j \in kept : j > NumberOf(p)}
        first == IF before = {} THEN 1 ELSE Max(before) + 1
        last == IF after = {} THEN Len(sheets) ELSE Min(after) - 1
    IN [relation |-> IF before = {} THEN "before" ELSE "after",
        source |-> IF kept = {} THEN 1 ELSE SourceOf[sheets[IF before = {} THEN Min(kept) ELSE Max(before)]],
        nth |-> IF first = last THEN None ELSE NumberOf(p) - first + 1]

-----------------------------------------------------------------------------
(* Sections. *)

\* A PDF that does not open has neither lines nor headings; an added page has no print.
Lined(p, opened) ==
    IF kind = "pdf" THEN opened /\ ~IsAdded(p) /\ SourceOf[p] \notin Scanned ELSE contents[p].typed

\* outlineTarget, orderHeadings: a heading without a column is in the first one, without a depth at the top.
Destination(h) == [source |-> h.source, at |-> IF h.depth = None THEN <<1, 0>> ELSE <<IF h.column = None THEN 1 ELSE h.column, h.depth>>]

\* outlineHeadings: a heading whose page is not found is passed over.
OutlineHeadings == {Destination(h) : h \in {g \in Outline : g.source # None}}

Headings(opened) ==
    IF kind = "pdf" THEN IF opened THEN OutlineHeadings ELSE {}
    ELSE {[source |-> NumberOf(p), at |-> TitlePlace] : p \in {q \in InDocument : contents[q].typed}}

\* pageRank: the line of print nearest to a place, the columns one after the other; without lines its depth.
RankOn(p, at, opened) ==
    IF Lined(p, opened)
    THEN (IF kind = "pdf" /\ SourceOf[p] \in TwoColumned THEN 100 * at[1] ELSE 0) + at[2] \div 2
    ELSE at[2]

\* As if what is higher on the page came first, also across columns.
HigherComesFirst(p, h, at, opened) == h.at[2] <= at[2]
OpensBefore(p, h, at, opened) ==
    \/ RankOn(p, h.at, opened) < RankOn(p, at, opened)
    \/ RankOn(p, h.at, opened) = RankOn(p, at, opened) /\ h.at[2] <= at[2]

\* sectionAt: the last heading before a place on its own page, by the order of reading; with none there, the
\* lowest heading of the last earlier page that has one.
SectionOf(p, at, opened) ==
    LET own == {h \in Headings(opened) : h.source = SourceIndex(p) /\ OpensBefore(p, h, at, opened)}
        earlier == {h \in Headings(opened) : h.source < SourceIndex(p)}
        Later(g, h) == RankOn(p, g.at, opened) > RankOn(p, h.at, opened) \/ (RankOn(p, g.at, opened) = RankOn(p, h.at, opened) /\ g.at[2] > h.at[2])
        Below(g, h) == g.source > h.source \/ (g.source = h.source /\ g.at[2] > h.at[2])
    IN IF own # {} THEN CHOOSE h \in own : \A g \in own : ~Later(g, h)
       ELSE IF earlier # {} THEN CHOOSE h \in earlier : \A g \in earlier : ~Below(g, h)
       ELSE None

\* sectionFields: where the page with the heading stands in the render, if it still does.
LinkTo(h) ==
    IF h = None THEN None
    ELSE LET at == {i \in DOMAIN sheets : ~IsAdded(sheets[i]) /\ SourceIndex(sheets[i]) = h.source} IN
         IF at = {} THEN None ELSE Max(at)

-----------------------------------------------------------------------------
(* The digest. *)

\* buildPage returns no page when there is nothing to print for it.
IsCovered(p) ==
    IF IsAdded(p) THEN marginNotes /\ (contents[p].ink # {} \/ contents[p].typed)
    ELSE contents[p].marks # {} \/ (marginNotes /\ contents[p].ink # {})

EntryOf(p, what, at, opened) ==
    LET level == {h \in Headings(opened) : h.source = SourceIndex(p) /\ h.at[2] \div 2 = at[2] \div 2 /\ h.at[1] = at[1]}
        section == IF what = "note" /\ level # {} /\ Lined(p, opened) THEN CHOOSE h \in level : TRUE ELSE SectionOf(p, at, opened)
    IN [what |-> what, at |-> at, section |-> section, link |-> LinkTo(section)]

EntriesOf(p, opened) ==
    IF IsAdded(p) THEN {[what |-> "page", at |-> None, section |-> None, link |-> None]}
    ELSE {EntryOf(p, "mark", at, opened) : at \in contents[p].marks}
         \cup {EntryOf(p, "note", at, opened) : at \in IF marginNotes THEN contents[p].ink ELSE {}}

\* buildDigest: the pages that have entries, by their number.
DigestOf(opened) ==
    [i \in {j \in DOMAIN sheets : Digested(sheets[j]) /\ IsCovered(sheets[j])} |->
        [page |-> sheets[i], place |-> IF IsAdded(sheets[i]) THEN AddedPlace(sheets[i]) ELSE None,
         entries |-> EntriesOf(sheets[i], opened)]]

\* readDigestPages: whatever page a link in the digest goes to.
PagesLinkedFrom(digest) ==
    DOMAIN digest \cup (UNION {{e.link : e \in digest[i].entries} : i \in DOMAIN digest} \ {None})

-----------------------------------------------------------------------------
(* The transcript. *)

\* splitForTranscript: a page the digest never saw is transcribed; one it found nothing on is named as typed
\* text in a notebook, and left out in a PDF; a digest that failed leaves every page to the transcript.
LeftToTranscript(built) ==
    LET digests == built /\ \E p \in InDocument : Digested(p) IN
    [i \in {j \in DOMAIN sheets : digests /\ Digested(sheets[j]) => ~IsCovered(sheets[j]) /\ kind = "notebook"} |->
        IF digests /\ Digested(sheets[i]) THEN "typed" ELSE "ink"]

PagesOf(split, what) == {sheets[i] : i \in {j \in DOMAIN split : split[j] = what}}

\* None of the pages, one of them or all.
SomeOf(S) == {{}, S} \cup {{p} : p \in S}

\* runOcr: a result per page with ink, or None when the backend that is asked has none (it is off or throws).
Readings(split) ==
    {[i \in DOMAIN split |-> [page |-> sheets[i],
        status |-> IF split[i] = "typed" THEN "typed" ELSE IF contents[sheets[i]].ink = {} THEN "skipped"
                   ELSE IF sheets[i] \in failed THEN "failed" ELSE "ok"]] : failed \in SomeOf(PagesOf(split, "ink"))}
    \cup (IF PagesOf(split, "ink") = {} THEN {} ELSE {None})

\* renderTranscript: a document of one page has no footnotes.
SaysNothing(transcript) ==
    transcript = None \/ \A i \in DOMAIN transcript : Len(sheets) = 1 /\ transcript[i].status = "skipped"

\* layerTexts, unitLayer, withTextLayer: the words laid over the render are those of the pages that were read,
\* if there is a reader; a PDF's render gets none.
LayersOf(transcript) ==
    IF kind = "pdf" \/ transcript = None THEN {{}}
    ELSE {{}, {i \in DOMAIN transcript : transcript[i].status = "ok"}}

\* With a digest, quotes of the other pages stand in the transcript, under their page's heading.
FoldedIn(digest, transcript) ==
    IF digest = <<>> \/ transcript = None THEN {} ELSE QuotesOn({p \in InDocument : ~Digested(p)})

HasSections(note) == note.digest # <<>> \/ note.highlights # {} \/ ~SaysNothing(note.transcript)

-----------------------------------------------------------------------------
(* The two commands. *)

\* buildUnitDigest, splitForTranscript and writeUnit. emptyBlockReport refuses a note without sections that
\* nothing explains when the one in the vault has some. A document that has not changed is not due.
SyncDocument ==
    ~current /\ \E built, opened \in BOOLEAN : \E digests \in {\E p \in InDocument : Digested(p)} :
      \E digest \in {IF built /\ digests THEN DigestOf(opened) ELSE <<>>}, split \in {LeftToTranscript(built)} :
        /\ ~built \/ ~opened => digests
        /\ \E transcript \in Readings(split) : \E layer \in LayersOf(transcript) :
            LET note == [digest |-> digest, transcript |-> transcript, layer |-> layer, by |-> "sync", failed |-> ~built,
                         highlights |-> IF digest = <<>> THEN QuotesOn(InDocument) ELSE {}, folded |-> FoldedIn(digest, transcript)]
                refused == ~HasSections(note) /\ built /\ transcript # None
                           /\ dnote # None /\ (dnote # None => HasSections(dnote)) /\ \E p \in InDocument : ~BlankSheet(p)
            IN /\ dnote' = IF refused THEN dnote ELSE note
               /\ current' = ~refused
        /\ asked' = [by |-> "sync", digest |-> IF built /\ marginNotes THEN InkOn({p \in InDocument : Digested(p)}) ELSE {},
                     transcript |-> InkOn(PagesOf(split, "ink"))]
    /\ UNCHANGED <<kind, sheets, contents, marginNotes, docChanges>>

\* reTranscribeRow: a PDF's note with a digest is refused, and what a notebook's digest covers is read off its
\* links. A page that cannot be read keeps the text under its number (keepEarlierText).
ReTranscribeDocument ==
    /\ dnote # None
    /\ kind = "pdf" => dnote.digest = <<>>
    /\ LET covered == PagesLinkedFrom(dnote.digest)
           Typed(i) == kind = "notebook" /\ contents[sheets[i]].typed
           split == [i \in {j \in DOMAIN sheets : ~(Typed(j) /\ j \in covered)} |-> IF Typed(i) THEN "typed" ELSE "ink"]
       IN /\ \E reading \in Readings(split) : \E layer \in LayersOf(reading) :
                LET HadText(i) == dnote.transcript # None /\ i \in DOMAIN dnote.transcript /\ dnote.transcript[i].status = "ok"
                    transcript == IF reading = None THEN None
                                  ELSE [i \in DOMAIN reading |-> IF reading[i].status = "failed" /\ HadText(i) THEN dnote.transcript[i] ELSE reading[i]]
                    unread == reading = None \/ ((\E i \in DOMAIN reading : reading[i].status = "failed") /\ ~\E i \in DOMAIN reading : reading[i].status = "ok")
                    unchanged == unread \/ (SaysNothing(transcript) /\ SaysNothing(dnote.transcript))
                IN dnote' = IF unchanged THEN dnote
                            ELSE [dnote EXCEPT !.transcript = transcript, !.layer = layer, !.by = "reTranscribe",
                                               !.folded = FoldedIn(dnote.digest, transcript)]
          /\ asked' = [by |-> "reTranscribe", digest |-> {}, transcript |-> InkOn(PagesOf(split, "ink"))]
    /\ UNCHANGED <<kind, sheets, contents, marginNotes, current, docChanges>>

-----------------------------------------------------------------------------
(* The user. *)

AskedNothing == [by |-> "sync", digest |-> {}, transcript |-> {}]
DocumentChanged == docChanges > 0 /\ docChanges' = docChanges - 1 /\ current' = FALSE /\ asked' = AskedNothing /\ UNCHANGED <<kind, dnote>>

DrawOnSheet(p, at) ==
    /\ DocumentChanged
    /\ \/ at \notin contents[p].ink /\ contents' = [contents EXCEPT ![p].ink = @ \cup {at}]
       \/ at \notin contents[p].marks /\ ~IsAdded(p) /\ contents' = [contents EXCEPT ![p].marks = @ \cup {at}]
    /\ UNCHANGED <<sheets, marginNotes>>

\* On a page of a notebook, or on one added to a PDF.
TypeOnSheet(p) ==
    /\ DocumentChanged
    /\ kind = "notebook" \/ IsAdded(p)
    /\ ~contents[p].typed /\ contents' = [contents EXCEPT ![p].typed = TRUE]
    /\ UNCHANGED <<sheets, marginNotes>>

AddSheet(p, i) ==
    /\ DocumentChanged
    /\ p \notin InDocument /\ SourceOf[p] = None
    /\ sheets' = InsertAt(sheets, i, p)
    /\ UNCHANGED <<contents, marginNotes>>

RemoveSheet(i) ==
    /\ DocumentChanged
    /\ Len(sheets) > 1 /\ sheets' = RemoveAt(sheets, i)
    /\ UNCHANGED <<contents, marginNotes>>

MoveSheet(i, j) ==
    /\ DocumentChanged
    /\ i # j /\ sheets' = InsertAt(RemoveAt(sheets, i), j, sheets[i])
    /\ UNCHANGED <<contents, marginNotes>>

SwitchNotes ==
    /\ DocumentChanged
    /\ marginNotes' = ~marginNotes
    /\ UNCHANGED <<sheets, contents>>

DocumentInit ==
    /\ kind \in {"pdf", "notebook"} /\ marginNotes \in BOOLEAN
    /\ sheets \in StartSheets /\ contents \in StartContents
    /\ kind = "pdf" => \A p \in Sheets : contents[p].typed => SourceOf[p] = None
    /\ dnote = None /\ asked = AskedNothing /\ current = FALSE
    /\ docChanges = DocChanges

DocumentNext ==
    \/ SyncDocument \/ ReTranscribeDocument \/ SwitchNotes
    \/ \E p \in InDocument : TypeOnSheet(p) \/ \E at \in Places : DrawOnSheet(p, at)
    \/ \E p \in Sheets, i \in 1..(Len(sheets) + 1) : AddSheet(p, i)
    \/ \E i \in DOMAIN sheets : RemoveSheet(i) \/ \E j \in DOMAIN sheets : MoveSheet(i, j)

-----------------------------------------------------------------------------
(* What a note promises of its document. *)

\* No ink is sent twice by one command, and a sync sends what the switch allows: the ink on pages of typed or
\* printed text only with it on, and all other ink always. Only a digest that failed leaves it to the transcript.
InkIsReadOnce ==
    /\ asked.digest \cap asked.transcript = {}
    /\ current /\ asked.by = "sync" =>
        asked.digest \cup asked.transcript =
            InkOn({p \in InDocument : marginNotes \/ ~Digested(p) \/ dnote.failed})

\* After a sync, and after a re-transcription of an unchanged notebook, every page that has something on it is
\* in the digest or in the transcript and never in both, whatever part of either failed. Excepted are the pages
\* whose ink the switch keeps out of a PDF's note.
EveryPageStandsOnce ==
    current /\ dnote.transcript # None =>
        LET inDigest == {dnote.digest[i].page : i \in DOMAIN dnote.digest}
            inTranscript == {dnote.transcript[i].page : i \in DOMAIN dnote.transcript}
        IN /\ inDigest \cap inTranscript = {}
           /\ dnote.by = "sync" => \A p \in InDocument \ (inDigest \cup inTranscript) :
                kind = "pdf" /\ contents[p].marks = {} /\ (marginNotes => BlankSheet(p))

\* "A quote belongs in exactly one place": the digest, the list of highlights or the transcript.
QuotesStandOnce ==
    current =>
        LET inDigest == UNION {{<<dnote.digest[i].page, e.at>> : e \in {e \in dnote.digest[i].entries : e.what = "mark"}} : i \in DOMAIN dnote.digest}
        IN /\ inDigest \cup dnote.highlights \cup dnote.folded = QuotesOn(InDocument)
           /\ inDigest \cap (dnote.highlights \cup dnote.folded) = {} /\ dnote.highlights \cap dnote.folded = {}

\* Two pages added to a PDF are never called by the same name, and the name says where they stand.
AddedPagesAreTold ==
    current => \A i, j \in DOMAIN dnote.digest :
        LET a == dnote.digest[i]
            b == dnote.digest[j] IN
        a.place # None /\ i < j =>
            IF b.place # None THEN a.place # b.place ELSE a.place.relation = "before" \/ a.place.source # SourceOf[b.page]

\* A quote or note stands under the last heading before it in the order of reading, where its own page has one
\* before it, and otherwise under one of the last earlier page that has any; and the heading's link leads to
\* the page it is on now.
SectionsAreOpen ==
    current => \A i \in DOMAIN dnote.digest : \A e \in dnote.digest[i].entries :
        LET p == dnote.digest[i].page
            Line(at) == <<IF kind = "pdf" /\ SourceOf[p] \in TwoColumned THEN at[1] ELSE 1, at[2] \div 2>>
            Before(a, b) == Line(a)[1] < Line(b)[1] \/ (Line(a)[1] = Line(b)[1] /\ Line(a)[2] < Line(b)[2])
        IN e.section # None =>
            /\ e.link # None => SourceIndex(sheets[e.link]) = e.section.source
            /\ e.section.source = SourceIndex(p) /\ SourceIndex(p) \notin Scanned =>
                   /\ ~Before(e.at, e.section.at)
                   /\ ~\E h \in Headings(TRUE) : h.source = SourceIndex(p) /\ Before(e.section.at, h.at) /\ Before(h.at, e.at)
            /\ e.section.source # SourceIndex(p) =>
                   ~\E h \in Headings(TRUE) : e.section.source < h.source /\ h.source < SourceIndex(p)

\* The words laid over a page of the render are those of its own text.
LayerIsOfThePage == dnote # None => \A i \in dnote.layer : dnote.transcript # None /\ dnote.transcript[i].status = "ok"

\* A page, its ink and its quotes are told once in the note, and where they stand. Quotes that are to stand in
\* a transcript the backend never gave are lost (QuotesStandOnce).
DocumentIsToldOnce ==
    /\ InkIsReadOnce /\ EveryPageStandsOnce /\ AddedPagesAreTold /\ SectionsAreOpen /\ LayerIsOfThePage
    /\ current /\ dnote.transcript # None => QuotesStandOnce
=============================================================================
