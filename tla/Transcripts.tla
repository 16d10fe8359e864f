----------------------------- MODULE Transcripts -----------------------------
(***************************************************************************)
(* The transcript of one synced notebook: which page's handwriting stands  *)
(* under which heading of the note, and what the index remembers so that a *)
(* page whose ink has not moved is not read, and paid for, again           *)
(* (sync-engine.ts, transcript-store.ts, note-builder.ts).                 *)
(*                                                                         *)
(* The note names pages by their ordinal; the index row keeps, per page id,*)
(* the hash of the ink that was read and the ordinal it was written under. *)
(* The text itself is only in the note, so every reuse goes id -> ordinal  *)
(* -> section. The tablet inserts, removes and moves pages meanwhile.      *)
(***************************************************************************)
EXTENDS Naturals, Sequences, Absent

CONSTANTS
    PageIds,            \* page ids of the notebook, used and to come
    StartOrder,         \* the pages it has at the start, in order
    Anchored,           \* pages whose layout depends on the renderer (typed text, anchored ink)
    Faint,              \* pages on which a backend finds no text
    Backends,           \* the fingerprints of the backends one can choose
    Off,                \* the backend that reads nothing
    FailsAfterShuffle,  \* may pages fail in a re-transcription of a note whose pages moved since?
    Changes             \* how often the user, the tablet and the plugin's updates do something

ASSUME TranscriptAssumption == Off \in Backends /\ Anchored \cup Faint \subseteq PageIds /\ Changes \in Nat

VARIABLES
    tablet,     \* order of the pages, ink version and blankness of each, version of the document
    trow,       \* the note's index row, or None
    tnote,      \* the note's transcript, or None
    sent,       \* the pages the last command sent to the backend
    backend,    \* the backend chosen
    renderer,   \* RENDER_VERSION of the installed plugin
    changes     \* changes of the world left

transcriptVars == <<tablet, trow, tnote, sent, backend, renderer, changes>>

\* One page's text: whose ink it is, of which version and layout, and who read it.
Text(p) == [page |-> p, ink |-> tablet.ink[p], layout |-> IF p \in Anchored THEN renderer ELSE None, by |-> backend]
Failed == [page |-> None]   \* the callout "Could not read this page"
Silent == [page |-> Off]    \* a page named in "No text on page N"
User == "user"

Pages == {tablet.order[l] : l \in DOMAIN tablet.order}
LabelOf(p) == CHOOSE l \in DOMAIN tablet.order : tablet.order[l] = p
IsText(section) == section \notin {Failed, Silent}

\* transcriptSections: only a transcript with page headings can be taken apart.
Read(note) == IF note.kind = "headed" THEN {l \in DOMAIN note.sections : IsText(note.sections[l])} ELSE {}

\* blockEditedIn: the block in the vault is not the one the row was saved with.
BlockEdited == trow # None /\ tnote # None /\ trow.block # [kind |-> tnote.kind, sections |-> tnote.sections]

-----------------------------------------------------------------------------
(* One reading: what is sent, what comes back, and what a note is made of. *)

\* reusablePageTranscripts / reusableTranscripts: everything else is read again.
Reusable(p) ==
    /\ trow # None /\ trow.with = backend /\ tnote # None
    /\ p \notin Anchored \/ trow.layout = renderer
    /\ p \in DOMAIN trow.store
    /\ trow.store[p].hash = tablet.ink[p]
    /\ trow.store[p].label \in Read(tnote)

\* As if the text were looked for under the ordinal the page has now.
ReusedByLabel ==
    [p \in {q \in Pages : Reusable(q) /\ LabelOf(q) \in Read(tnote)} |-> tnote.sections[LabelOf(p)]]

Reused == [p \in {q \in Pages : Reusable(q)} |-> tnote.sections[trow.store[p].label]]

\* What a backend may answer for the pages sent: a result per page, one text for all of them (an
\* answer that is not one per page), or nothing at all (it threw, is unreachable, or is Off).
Answers(pages, mayFail) ==
    IF backend = Off THEN {[kind |-> "nothing"]}
    ELSE {[kind |-> "pages", of |-> f] :
             f \in {g \in [pages -> {"ok", "skipped"} \cup IF mayFail THEN {"failed"} ELSE {}] :
                       \A p \in pages : IF tablet.blank[p] \/ p \in Faint THEN g[p] = "skipped" ELSE g[p] # "skipped"}}
         \cup (IF mayFail THEN {[kind |-> "text"], [kind |-> "nothing"]} ELSE {})

Section(status, p) == CASE status = "ok" -> Text(p) [] status = "skipped" -> Silent [] OTHER -> Failed

\* runOcr, with degraded: a result that cannot be split by page fails the pages sent when others are
\* kept, and is the whole transcript when none is. `read` is what may be stored (storablePages).
RunOcr(kept, answer) ==
    LET asked == Pages \ DOMAIN kept
        perPage == asked = {} \/ answer.kind = "pages"
        status(p) == IF perPage THEN answer.of[p] ELSE "failed" IN
    IF perPage \/ DOMAIN kept # {}
    THEN [pages |-> [p \in Pages |-> IF p \in DOMAIN kept THEN kept[p] ELSE Section(status(p), p)],
          text |-> FALSE,
          read |-> DOMAIN kept \cup {p \in asked : status(p) = "ok"},
          warned |-> \E p \in asked : status(p) = "failed"]
    ELSE [pages |-> None, text |-> answer.kind = "text", read |-> {}, warned |-> answer.kind = "text"]

\* renderTranscript: a heading per page, the bare text of a single page, or text without pages.
Transcript(pages, text, by) ==
    IF pages = None THEN [kind |-> IF text THEN "flat" ELSE "none", sections |-> <<>>, by |-> by]
    ELSE [kind |-> IF Len(tablet.order) > 1 THEN "headed"
                   ELSE IF pages[tablet.order[1]] = Silent THEN "none" ELSE "body",
          sections |-> [l \in DOMAIN tablet.order |-> pages[tablet.order[l]]], by |-> by]

\* As if only what was read just now were remembered.
StoredFresh(read) ==
    [p \in read \ DOMAIN Reused |-> [hash |-> tablet.ink[p], label |-> LabelOf(p)]]

\* storedPages
Stored(read) == [p \in read |-> [hash |-> tablet.ink[p], label |-> LabelOf(p)]]

\* One thing the world does: it is counted.
Change == changes > 0 /\ changes' = changes - 1

Block(note) == [kind |-> note.kind, sections |-> note.sections]

-----------------------------------------------------------------------------
(* The commands. *)

\* planUnits: a unit is due when it is new, changed, rendered by an older plugin, or its note is gone.
Due == IF trow = None \/ tnote = None THEN TRUE ELSE trow.ver # tablet.ver \/ trow.layout # renderer

\* reusableTranscript: only the render is out of date, so the whole transcript stays as it is.
KeepsTranscript ==
    /\ trow # None /\ tnote # None
    /\ trow.ver = tablet.ver /\ trow.layout # renderer
    /\ Pages \cap Anchored = {} /\ tnote.kind # "none"

KeepTranscript ==
    /\ Due /\ ~BlockEdited /\ KeepsTranscript
    /\ trow' = [trow EXCEPT !.layout = renderer]
    /\ sent' = {}
    /\ UNCHANGED <<tablet, tnote, backend, renderer, changes>>

\* emptyBlockReport: a block that would lose its only section to a reading that found nothing.
Refused(ocr, note) ==
    /\ note.kind = "none" /\ ocr.pages # None
    /\ tnote # None /\ trow # None /\ tnote.kind # "none"
    /\ \E p \in Pages : ~tablet.blank[p]

\* writeUnit with runOcr, the note first and the row after it: `saved` is FALSE when the app dies
\* between the two.
SyncUnit ==
    /\ Due /\ ~BlockEdited /\ ~KeepsTranscript
    /\ \E kept \in {Reused} : \E answer \in Answers(Pages \ DOMAIN kept, TRUE) : \E ocr \in {RunOcr(kept, answer)}, saved \in BOOLEAN :
        LET note == Transcript(ocr.pages, ocr.text, IF saved THEN "sync" ELSE "unsaved")
            stores == Len(tablet.order) > 1 IN
        /\ IF saved THEN UNCHANGED changes ELSE trow # None /\ Change
        /\ sent' = Pages \ DOMAIN kept
        /\ IF Refused(ocr, note) THEN UNCHANGED <<trow, tnote>>
           ELSE /\ tnote' = note
                /\ trow' = IF ~saved THEN trow
                           ELSE [ver |-> tablet.ver, layout |-> renderer, block |-> Block(note),
                                 with |-> IF stores THEN backend ELSE None,
                                 store |-> IF stores THEN Stored(ocr.read) ELSE <<>>]
    /\ UNCHANGED <<tablet, backend, renderer>>

\* The ordinals in the note, and those in the row, are still those of the tablet.
InPlace ==
    /\ Len(tablet.order) = IF tnote.kind = "none" THEN Len(tablet.order) ELSE Len(tnote.sections)
    /\ \A l \in Read(tnote) : tnote.sections[l].page = tablet.order[l]
    /\ \A p \in DOMAIN trow.store : p \in Pages /\ LabelOf(p) = trow.store[p].label

\* As if a failed page lost what the note has for it.
KeepNothing(pages) == pages

\* keepEarlierText: a failed page keeps what the note has under its ordinal.
KeepEarlier(pages) ==
    [p \in Pages |-> IF pages[p] = Failed /\ LabelOf(p) \in Read(tnote) THEN tnote.sections[LabelOf(p)] ELSE pages[p]]

\* unreadPageCount > 0 and not readAnything: the note is left as it was.
ReadNothing(ocr) ==
    IF ocr.pages = None THEN ~ocr.text
    ELSE /\ \E p \in Pages : ocr.pages[p] = Failed
         /\ ~\E p \in Pages : IsText(ocr.pages[p])

\* reTranscribeRow, behind both commands (reTranscribeIsUseful hides them from a backend that reads
\* nothing). The row keeps its entry hash and render version, and its old store after a warning; a page
\* can fail `silent`ly, by an answer that is no answer.
ReTranscribe ==
    /\ trow # None /\ tnote # None /\ backend # Off
    /\ \E answer \in Answers(Pages, FailsAfterShuffle \/ InPlace) : \E ocr \in {RunOcr(<<>>, answer)}, saved, silent \in BOOLEAN :
        LET note == Transcript(IF ocr.pages = None THEN None ELSE KeepEarlier(ocr.pages), ocr.text,
                               IF saved THEN "reTranscribe" ELSE "unsaved")
            stores == Len(tablet.order) > 1 /\ (silent \/ ~ocr.warned) IN
        /\ silent => ocr.warned
        /\ IF saved THEN UNCHANGED changes ELSE Change
        /\ sent' = Pages
        /\ IF ReadNothing(ocr) \/ (note.kind = "none" /\ tnote.kind = "none") THEN UNCHANGED <<trow, tnote>>
           ELSE /\ tnote' = note
                /\ trow' = IF ~saved THEN trow
                           ELSE [trow EXCEPT !.block = Block(note),
                                             !.with = IF stores THEN backend ELSE @,
                                             !.store = IF stores THEN Stored(ocr.read) ELSE @]
    /\ UNCHANGED <<tablet, backend, renderer>>

-----------------------------------------------------------------------------
(* The tablet, the user and the plugin's updates. *)

Without(order, p) == SelectSeq(order, LAMBDA q : q # p)
InsertedAt(order, p, l) == SubSeq(order, 1, l - 1) \o <<p>> \o SubSeq(order, l, Len(order))

OnTablet(order, ink, blank) ==
    /\ tablet' = [order |-> order, ink |-> ink, blank |-> blank, ver |-> tablet.ver + 1,
                  used |-> tablet.used \cup {order[l] : l \in DOMAIN order}]
    /\ sent' = {} /\ UNCHANGED <<trow, tnote, backend, renderer>>

Draw(p) == Change /\ OnTablet(tablet.order, [tablet.ink EXCEPT ![p] = @ + 1], [tablet.blank EXCEPT ![p] = FALSE])
Erase(p) == Change /\ OnTablet(tablet.order, [tablet.ink EXCEPT ![p] = @ + 1], [tablet.blank EXCEPT ![p] = TRUE])

Insert(p, l) ==
    /\ Change /\ p \notin tablet.used
    /\ OnTablet(InsertedAt(tablet.order, p, l), tablet.ink, tablet.blank)

RemovePage(p) == Change /\ Len(tablet.order) > 1 /\ OnTablet(Without(tablet.order, p), tablet.ink, tablet.blank)

Move(p, l) ==
    /\ Change /\ LabelOf(p) # l
    /\ OnTablet(InsertedAt(Without(tablet.order, p), p, l), tablet.ink, tablet.blank)

\* The user rewrites the text of one page in the note, or deletes the note.
EditSection(l) ==
    /\ Change /\ tnote # None
    /\ l \in Read(tnote) /\ tnote.sections[l].by # User
    /\ tnote' = [tnote EXCEPT !.sections[l].by = User, !.by = User]
    /\ sent' = {} /\ UNCHANGED <<tablet, trow, backend, renderer>>

DeleteNote ==
    /\ Change /\ tnote # None
    /\ tnote' = None
    /\ sent' = {} /\ UNCHANGED <<tablet, trow, backend, renderer>>

ChooseBackend(b) ==
    /\ Change /\ b # backend
    /\ backend' = b
    /\ sent' = {} /\ UNCHANGED <<tablet, trow, tnote, renderer>>

\* A new plugin version raises RENDER_VERSION; invalidateRenders has the same effect on the row.
UpdatePlugin ==
    /\ Change
    /\ renderer' = renderer + 1
    /\ sent' = {} /\ UNCHANGED <<tablet, trow, tnote, backend>>

-----------------------------------------------------------------------------

TranscriptInit ==
    /\ tablet = [order |-> StartOrder, ink |-> [p \in PageIds |-> 1], blank |-> [p \in PageIds |-> FALSE], ver |-> 1,
                 used |-> {StartOrder[l] : l \in DOMAIN StartOrder}]
    /\ trow = None /\ tnote = None /\ sent = {}
    /\ backend \in Backends \ {Off}
    /\ renderer = 1
    /\ changes = Changes

World ==
    \/ \E p \in Pages : Draw(p) \/ Erase(p) \/ RemovePage(p)
    \/ \E p \in Pages, l \in DOMAIN tablet.order : Move(p, l)
    \/ \E p \in PageIds, l \in 1..(Len(tablet.order) + 1) : Insert(p, l)
    \/ \E l \in 1..Len(tablet.order) : EditSection(l)
    \/ DeleteNote
    \/ \E b \in Backends : ChooseBackend(b)
    \/ UpdatePlugin

TranscriptNext == KeepTranscript \/ SyncUnit \/ ReTranscribe \/ World

-----------------------------------------------------------------------------
(* Properties. *)

ByCommand == tnote' # tnote /\ tnote' # None /\ tnote'.by # User

\* "A wrong transcript is undetectable, permanent, and lands in the user's own notes": whatever a
\* command writes under page N's heading was read from the page that is page N on the tablet now; and
\* what a sync writes is what the chosen backend read from that page's present ink, in its present
\* layout, however often it was carried over from earlier notes.
TextIsOfItsPage ==
    [][ByCommand =>
        \A l \in Read(tnote') :
            LET text == tnote'.sections[l]
                p == tablet.order[l] IN
            /\ text.page = p
            /\ tnote'.by = "sync" /\ text.by # User =>
                   /\ text.ink = tablet.ink[p] /\ text.by = backend
                   /\ p \in Anchored => text.layout = renderer]_transcriptVars

\* A re-transcription never makes a note worse: a page that had text under its heading does not end
\* as one that could not be read.
NeverWorse ==
    [][ByCommand /\ tnote'.by = "reTranscribe" /\ tnote # None /\ tnote'.kind = "headed" =>
        \A l \in Read(tnote) :
            \A m \in DOMAIN tnote'.sections :
                tablet.order[m] = tnote.sections[l].page => tnote'.sections[m] # Failed]_transcriptVars

\* What was paid for once is not paid for again: a sync after a sync sends no page whose text stands
\* in the note, read by the same backend from the same ink.
PaidOnce ==
    [][ByCommand /\ tnote'.by = "sync" /\ tnote # None /\ tnote.by = "sync" =>
        \A l \in Read(tnote) :
            LET text == tnote.sections[l] IN
            text.page \in Pages /\ text.by = backend /\ text.ink = tablet.ink[text.page]
                /\ (text.page \in Anchored => trow.layout = renderer) => text.page \notin sent']_transcriptVars
\* The text under a heading is of that page, it is not lost to a failure, and it is not paid for twice.
TranscriptIsTrue == TextIsOfItsPage /\ NeverWorse /\ PaidOnce
=============================================================================
