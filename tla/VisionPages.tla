----------------------------- MODULE VisionPages -----------------------------
(***************************************************************************)
(* A call of macOS Vision: whole pages first, in batches of which several  *)
(* run at once, then the writing no line was returned for, each patch an   *)
(* image of its own, and what the user typed in between                    *)
(* (vision-ocr-backend.ts, vision-ocr-runtime.ts, concurrency.ts).         *)
(*                                                                         *)
(* A box is [left, right, bottom, top], counted from the bottom of the     *)
(* page as Vision does; heights of lines are doubled, to stay whole.       *)
(***************************************************************************)
EXTENDS Integers, Sequences, FiniteSets, SequencesExt, Absent

CONSTANTS
    VisionUnits,    \* sequences of pages: their patches of writing, the boxes Vision may see there, their typed lines
    CropWords,      \* what may be read of a patch by itself, sequences of words
    AlikeWords,     \* pairs of words that count as one line
    BatchSize,
    MaxProcesses,   \* maxParallelism
    MostUnreadable  \* bound on unreadable

VARIABLES
    vunit,      \* the pages
    ready,      \* availability, once probed: of the session
    layerOnly,  \* readLayer rather than recognize
    stage,      \* "off", "pages", "patches" or "over"
    images,     \* what is handed to Vision: <<page, patch>>, a whole page being patch 0
    outcome,    \* per image: None, or what was read of it
    linesRead,      \* of each page, the lines it has so far, or None if it could not be read
    unreadable, \* unreadableInkRegions
    visionResult

visionVars == <<vunit, ready, layerOnly, stage, images, outcome, linesRead, unreadable, visionResult>>

Sheaf == DOMAIN vunit

-----------------------------------------------------------------------------
(* One page's lines. *)

LineAt(says, y, from) == [says |-> says, y |-> y, from |-> from]
Middle(box) == box.bottom + box.top

\* As if what is recovered were put after the page.
AppendLine(read, line) == Append(read, line)

\* insertLine: ahead of the first line that sits lower.
InsertLine(read, line) ==
    LET lower == {i \in DOMAIN read : read[i].y < line.y}
        at == IF lower = {} THEN Len(read) + 1 ELSE CHOOSE i \in lower : \A j \in lower : i <= j IN
    InsertAt(read, at, line)

SameLine(a, b) == a = b \/ {a, b} \in AlikeWords

\* Below this share of its height (tenths), a patch under a line is not read.
COVERAGE_FRACTION == 3
IsCovered(patch, box) ==
    LET Least(m, n) == IF m < n THEN m ELSE n
        Most(m, n) == IF m < n THEN n ELSE m IN
    /\ Least(patch.right, box.right) > Most(patch.left, box.left)
    /\ 10 * (Least(patch.top, box.top) - Most(patch.bottom, box.bottom)) > COVERAGE_FRACTION * (patch.top - patch.bottom)

uncoveredClusters(page, boxes) == {k \in DOMAIN page.patches : ~\E b \in boxes : IsCovered(page.patches[k], b)}

\* A line is not added beside one like it.
Rescue(read, words, y) ==
    FoldLeft(LAMBDA done, says : IF \E i \in DOMAIN done : SameLine(done[i].says, says) THEN done
                                 ELSE InsertLine(done, LineAt(says, y, "patch")), read, words)

\* Typed text was on no image: it is added whatever it resembles. Without ink the page has no frame.
InsertTypedText(read, page) ==
    FoldLeft(LAMBDA done, typed : InsertLine(done, LineAt(typed.says, IF page.patches = <<>> THEN 0 ELSE typed.y, "typed")),
             read, SelectSeq(page.typed, LAMBDA typed : ~typed.blank))

-----------------------------------------------------------------------------
(* A call. *)

\* The probe is made once and its answer kept.
Begin(onlyLayer) ==
    /\ stage = "off"
    /\ \E answer \in IF ready = None THEN BOOLEAN ELSE {ready} :
        /\ ready' = answer
        /\ stage' = IF answer THEN "pages" ELSE "over"
        /\ visionResult' = IF answer THEN None ELSE [status |-> "unavailable", pages |-> IF onlyLayer THEN [p \in Sheaf |-> None] ELSE None]
        /\ images' = IF answer THEN [p \in Sheaf |-> <<p, 0>>] ELSE <<>>
    /\ layerOnly' = onlyLayer
    /\ outcome' = [i \in DOMAIN images' |-> None] /\ linesRead' = [p \in Sheaf |-> None]
    /\ UNCHANGED <<vunit, unreadable>>

Batch(b) == {i \in DOMAIN images : (b - 1) * BatchSize < i /\ i <= b * BatchSize}
Waits(b) == Batch(b) # {} /\ \A i \in Batch(b) : outcome[i] = None

\* mapWithConcurrency: the batches are begun in their order.
Runs(b) == stage \in {"pages", "patches"} /\ Waits(b) /\ Cardinality({c \in 1..(b - 1) : Waits(c)}) < MaxProcesses

Bad == [bad |-> TRUE, read |-> <<>>]
Readings(image) == {Bad} \cup {[bad |-> FALSE, read |-> r] : r \in IF image[2] = 0 THEN vunit[image[1]].seen ELSE CropWords}

BatchReads(b) ==
    /\ Runs(b)
    /\ \E answers \in [Batch(b) -> UNION {Readings(images[i]) : i \in Batch(b)}] :
        /\ \A i \in Batch(b) : answers[i] \in Readings(images[i])
        /\ outcome' = [i \in DOMAIN images |-> IF i \in Batch(b) THEN answers[i] ELSE outcome[i]]
    /\ UNCHANGED <<vunit, ready, layerOnly, stage, images, linesRead, unreadable, visionResult>>

\* The process could not be run, or took too long: the whole call is given up, whatever was read.
BatchThrows(b) ==
    /\ Runs(b)
    /\ stage' = "over"
    /\ visionResult' = [status |-> "failed", pages |-> IF layerOnly THEN [p \in Sheaf |-> None] ELSE None]
    /\ UNCHANGED <<vunit, ready, layerOnly, images, outcome, linesRead, unreadable>>

AllAnswered == \A i \in DOMAIN images : outcome[i] # None

AsLines(read) == [i \in DOMAIN read |-> LineAt(read[i].says, Middle(read[i]), "page")]

\* The patches of all pages are read in one call more.
Missed == [p \in Sheaf |-> IF outcome[p].bad THEN {} ELSE uncoveredClusters(vunit[p], ToSet(outcome[p].read))]
InOrderOfPages(missed) ==
    FlattenSeq([p \in Sheaf |-> SetToSortSeq({<<p, k>> : k \in missed[p]}, LAMBDA a, b : a[2] < b[2])])

PagesAreRead ==
    /\ stage = "pages" /\ AllAnswered
    /\ linesRead' = [p \in Sheaf |-> IF outcome[p].bad THEN None ELSE AsLines(outcome[p].read)]
    /\ IF layerOnly
       THEN /\ stage' = "over" /\ visionResult' = [status |-> "layer", pages |-> linesRead']
            /\ UNCHANGED <<images, outcome>>
       ELSE /\ stage' = "patches" /\ images' = InOrderOfPages(Missed)
            /\ outcome' = [i \in DOMAIN images' |-> None] /\ UNCHANGED visionResult
    /\ UNCHANGED <<vunit, ready, layerOnly, unreadable>>

WordsOf(i) == outcome[i].read

\* As if the patches were taken to come one from each page.
WithPatchesByTurn(p) == IF p \in DOMAIN images THEN Rescue(linesRead[p], WordsOf(p), Middle(vunit[p].patches[1])) ELSE linesRead[p]

\* rescue: each patch into the page it was cut from.
WithPatches(p) ==
    FoldLeft(LAMBDA read, i : IF images[i][1] = p THEN Rescue(read, WordsOf(i), Middle(vunit[p].patches[images[i][2]])) ELSE read,
             linesRead[p], [i \in DOMAIN images |-> i])

StatusOfPage(read) == IF read = None THEN "failed" ELSE IF read = <<>> THEN "skipped" ELSE "ok"
StatusOfUnit(statuses) == IF "ok" \in statuses THEN "ok" ELSE IF "failed" \in statuses THEN "failed" ELSE "skipped"

PatchesAreRead ==
    /\ stage = "patches" /\ AllAnswered
    /\ linesRead' = [p \in Sheaf |-> IF linesRead[p] = None THEN None ELSE InsertTypedText(WithPatches(p), vunit[p])]
    /\ unreadable' = unreadable + Cardinality({i \in DOMAIN images : WordsOf(i) = <<>>})
    /\ stage' = "over"
    /\ visionResult' = [status |-> StatusOfUnit({StatusOfPage(linesRead'[p]) : p \in Sheaf}), pages |-> linesRead']
    /\ UNCHANGED <<vunit, ready, layerOnly, images, outcome>>

\* The run goes on with its next unit, or another run begins: what is cached stays, what is counted starts over.
NextUnit ==
    /\ stage = "over"
    /\ \E counted \in {unreadable, 0} : counted <= MostUnreadable /\ unreadable' = counted
    /\ stage' = "off" /\ visionResult' = None /\ images' = <<>> /\ outcome' = <<>> /\ linesRead' = <<>>
    /\ UNCHANGED <<vunit, ready, layerOnly>>

VisionInit ==
    /\ vunit \in VisionUnits /\ ready = None /\ layerOnly = FALSE /\ stage = "off"
    /\ images = <<>> /\ outcome = <<>> /\ linesRead = <<>> /\ unreadable = 0 /\ visionResult = None

VisionNext ==
    \/ \E onlyLayer \in BOOLEAN : Begin(onlyLayer)
    \/ \E b \in 1..Len(images) : BatchReads(b) \/ BatchThrows(b)
    \/ PagesAreRead \/ PatchesAreRead \/ NextUnit

-----------------------------------------------------------------------------
(* Properties. *)

From(read, origin) == SelectSeq(read, LAMBDA line : line.from = origin)

\* Two readings and the typed text are put together from images that finish in any order. Vision's own lines
\* stand as it put them, and every typed line stands too, once; a recovered line stands beside none like it;
\* whatever was read of a patch is on the page it was cut from, itself or in a line like it; and a page Vision
\* read downwards is read downwards still, for a line in the wrong place is wrong twice.
VisionReadsThePage ==
    visionResult # None /\ visionResult.status = "ok" =>
        \A p \in Sheaf : visionResult.pages[p] # None =>
            LET read == visionResult.pages[p]
                seen == From(read, "page")
                recovered == {i \in DOMAIN read : read[i].from = "patch"}
                Downwards(s) == \A i, j \in DOMAIN s : i < j => s[i].y >= s[j].y IN
            /\ \E answer \in vunit[p].seen : seen = AsLines(answer)
            /\ [i \in DOMAIN From(read, "typed") |-> From(read, "typed")[i].says]
               = [i \in DOMAIN SelectSeq(vunit[p].typed, LAMBDA t : ~t.blank) |-> SelectSeq(vunit[p].typed, LAMBDA t : ~t.blank)[i].says]
            /\ \A i \in recovered : \A j \in DOMAIN read :
                   i # j /\ read[j].from # "typed" => ~SameLine(read[i].says, read[j].says)
            /\ \A i \in DOMAIN images : images[i][1] = p =>
                   \A k \in DOMAIN WordsOf(i) : \E j \in DOMAIN read : read[j].from # "typed" /\ SameLine(read[j].says, WordsOf(i)[k])
            /\ \A i \in recovered : \E k \in DOMAIN images :
                   images[k][1] = p /\ \E w \in DOMAIN WordsOf(k) : WordsOf(k)[w] = read[i].says
            /\ Downwards(seen) => Downwards(read)
=============================================================================
