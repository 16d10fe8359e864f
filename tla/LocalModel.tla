----------------------------- MODULE LocalModel -----------------------------
(***************************************************************************)
(* The model a vault downloads and runs on its own machine: the downloader *)
(* (local-model-fetch, local-model-download), the state read off the disk  *)
(* (local-model-store, local-model-runtime), the card with its buttons     *)
(* (local-register, local-model-card) and the runs over pages              *)
(* (local-ocr-runtime).  All vaults of a machine share one directory, and  *)
(* a lock file that holds nothing but a time.                              *)
(*                                                                         *)
(* A file is the sequence of its chunks: the published one is 1, 2, .., n, *)
(* a chunk the server got wrong is 0.  None is a file that is not there.   *)
(***************************************************************************)
EXTENDS Absent, Integers, Sequences, FiniteSets

CONSTANTS
    Ladder,                 \* the generations this build pins, most accurate first
    Fits,                   \* those this machine has the memory for
    Chunks,                 \* the length of each artefact: engine, model and mmproj
    Vaults, Fetches,        \* the vaults; the fetchers that may be alive at once
    ModelOps, ModelChanges, \* what the user and the environment do, and how often
    MAX_FRUITLESS_ATTEMPTS

VARIABLES
    dirs,                   \* one directory per generation
    engine,                 \* the program and its archive, shared by the generations
    fetch,                  \* the downloads, also those nobody looks at any more
    download,               \* per vault, the one its card is about
    picked,                 \* per vault, the generation picked in the settings
    reading,                \* per vault, the transcription of a sync
    broken,                 \* per vault, whether the engine failed in this session
    spending,
    doubt                   \* history: per generation, the files to be hashed that nobody waits for

modelVars == <<dirs, engine, fetch, download, picked, reading, broken, spending, doubt>>

Gens == {Ladder[i] : i \in 1..Len(Ladder)}
ModelFiles == {"model", "mmproj"}
Published(f) == [i \in 1..Chunks[f] |-> i]
Size(content) == IF content = None THEN -1 ELSE Len(content)
OnDisk(content) == IF content = None THEN 0 ELSE Len(content)

First(S) == Ladder[CHOOSE i \in 1..Len(Ladder) : Ladder[i] \in S /\ \A j \in 1..(i - 1) : Ladder[j] \notin S]

Charge(op) == op \in ModelOps /\ spending < ModelChanges /\ spending' = spending + 1

-----------------------------------------------------------------------------
(* What the disk says. *)

Complete(g) == \A f \in ModelFiles : Size(dirs[g].files[f]) = Chunks[f]
HasPart(g) == \E f \in ModelFiles : dirs[g].parts[f] # None

LocalModelState(g) ==
    LET d == dirs[g] IN
    CASE d.corrupt -> "corrupt"
      [] ~d.corrupt /\ d.verified /\ Complete(g) -> IF engine.program THEN "ready" ELSE "removed"
      [] ~d.corrupt /\ ~(d.verified /\ Complete(g)) /\ HasPart(g) ->
            IF d.lock = "fresh" THEN "downloading" ELSE "partial"
      [] OTHER -> IF (\A f \in ModelFiles : d.files[f] # None) /\ ~d.verified THEN "verifying" ELSE "absent"

\* A held lock with no part in sight is taken for a transcription.
IsLocalModelBusy(g) == dirs[g].lock = "fresh" /\ ~HasPart(g) /\ engine.part = None

ChooseGeneration(wish) ==
    LET installed == {g \in Fits : Complete(g)} IN
    CASE wish \in installed -> wish
      [] wish \notin installed /\ installed # {} -> First(installed)
      [] installed = {} /\ wish \in Fits -> wish
      [] OTHER -> IF Fits # {} THEN First(Fits) ELSE Ladder[Len(Ladder)]

InUse(v) == ChooseGeneration(picked[v])

\* The model the ready card offers: the pick that is not there yet, or a better one.
Offered(v) ==
    LET g == InUse(v)  best == First(Fits) IN
    IF picked[v] \in Fits \ {g} /\ ~Complete(picked[v]) THEN {picked[v]}
    ELSE IF Fits # {} /\ First({best, g}) # g /\ ~Complete(best) THEN {best} ELSE {}

-----------------------------------------------------------------------------
(* The downloader. *)

NoFetch == [owner |-> None, gen |-> None, file |-> "engine", step |-> "idle", offset |-> 0, next |-> 0,
         mismatched |-> FALSE, fruitless |-> 0, mark |-> 0, cancelled |-> FALSE, failure |-> "none"]

Live(k) == fetch[k].step \notin {"idle", "done", "failed"}
FetchEnded(k) == fetch[k].step \in {"done", "failed"}

PartFile(h) == IF h.file = "engine" THEN engine.part ELSE dirs[h.gen].parts[h.file]
TargetOf(h) == IF h.file = "engine" THEN engine.archive ELSE dirs[h.gen].files[h.file]

\* Writes the part and the target of the artefact in hand.
WriteBeside(h, part, target, e) ==
    IF h.file = "engine"
    THEN engine' = [e EXCEPT !.part = part, !.archive = target] /\ UNCHANGED dirs
    ELSE dirs' = [dirs EXCEPT ![h.gen].parts[h.file] = part, ![h.gen].files[h.file] = target] /\ engine' = e

WriteArtefact(h, part, target) == WriteBeside(h, part, target, engine)

PlanResume(part, total) ==
    IF Size(part) <= 0 \/ Size(part) > total THEN "fresh"
    ELSE IF Size(part) = total THEN "complete" ELSE "resume"

Appends(status) == status = 206

PlanNetworkRetry(fruitless) == IF fruitless >= MAX_FRUITLESS_ATTEMPTS THEN "give-up" ELSE "retry"

\* A downloader that takes the second file as it comes.
SecondTimeLucky(matched, before) == IF matched \/ before THEN "verified" ELSE "retry"

VerificationOutcome(matched, before) == IF matched THEN "verified" ELSE IF before THEN "corrupt" ELSE "retry"

\* The next attempt at the artefact in hand.  A complete part is only renamed; a cancelled download
\* opens no request any more.
Attempt(k, h, e) ==
    LET part == PartFile(h)
        plan == PlanResume(part, Chunks[h.file])
        offset == IF plan = "resume" THEN Len(part) ELSE 0 IN
    IF plan = "complete" THEN
         /\ WriteBeside(h, None, part, e)
         /\ fetch' = [fetch EXCEPT ![k] = [h EXCEPT !.step = "verify"]]
    ELSE IF h.cancelled THEN
         /\ fetch' = [fetch EXCEPT ![k] = [h EXCEPT !.step = "failed", !.failure = "cancelled"]]
         /\ dirs' = [dirs EXCEPT ![h.gen].lock = "none"]
         /\ engine' = e
    ELSE /\ fetch' = [fetch EXCEPT ![k] = [h EXCEPT !.step = "ask", !.offset = offset,
                                                    !.mark = OnDisk(part)]]
         /\ engine' = e
         /\ UNCHANGED dirs

Artefact(h, f) == [h EXCEPT !.file = f, !.mismatched = FALSE, !.fruitless = 0]

\* However it ends, the lock goes, whoever wrote it last.
End(k, h, how, d) ==
    /\ fetch' = [fetch EXCEPT ![k] = [h EXCEPT !.step = IF how = "done" THEN "done" ELSE "failed", !.failure = how]]
    /\ dirs' = [d EXCEPT ![h.gen].lock = "none"]

\* On to the files that are not there at full size: one that is, is not looked into.
MissingAfter(h) ==
    LET missing == {f \in (IF h.file = "engine" THEN ModelFiles ELSE {"mmproj"} \ {h.file}) :
                        Size(dirs[h.gen].files[f]) # Chunks[f]} IN
    IF "model" \in missing THEN "model" ELSE IF missing # {} THEN "mmproj" ELSE "nothing"

GoOn(k, h, e) ==
    IF MissingAfter(h) = "nothing"
    THEN /\ End(k, h, "done", [dirs EXCEPT ![h.gen].parts = [f \in ModelFiles |-> None], ![h.gen].verified = TRUE])
         /\ engine' = e
    ELSE Attempt(k, Artefact(h, MissingAfter(h)), e)

\* A count that takes an attempt that lost nothing for one that gained something.
FruitlessUnlessLost(h, part) == IF OnDisk(part) >= h.mark THEN 0 ELSE h.fruitless + 1

\* Progress is read off the disk; any of it resets the count.
Fruitless(h, part) == IF OnDisk(part) > h.mark THEN 0 ELSE h.fruitless + 1

AttemptFailed(k, h, part) ==
    LET fruitless == Fruitless(h, part) IN
    IF h.cancelled THEN End(k, h, "cancelled", dirs)
    ELSE IF PlanNetworkRetry(fruitless) = "give-up" THEN End(k, h, "network", dirs)
    ELSE fetch' = [fetch EXCEPT ![k] = [h EXCEPT !.step = "pause", !.fruitless = fruitless]] /\ UNCHANGED dirs

\* The server answers: the range it was asked for, or the whole file.
Answered(k, status) ==
    LET h == fetch[k]
        kept == IF Appends(status) /\ PartFile(h) # None THEN PartFile(h) ELSE <<>> IN
    /\ h.step = "ask"
    /\ status = 206 => h.offset > 0
    /\ IF status = 200 /\ h.offset > 0 THEN Charge("ignored") ELSE UNCHANGED spending
    /\ WriteArtefact(h, kept, TargetOf(h))
    /\ fetch' = [fetch EXCEPT ![k].step = "stream", ![k].next = IF status = 206 THEN h.offset + 1 ELSE 1]
    /\ UNCHANGED <<download, picked, reading, broken>>

\* It does not, or answers with an error.
Unanswered(k) ==
    /\ fetch[k].step = "ask"
    /\ AttemptFailed(k, fetch[k], PartFile(fetch[k]))
    /\ UNCHANGED <<engine, download, picked, reading, broken, spending>>

\* A chunk arrives.  The first one after a cancel ends the stream.
Chunk(k, chunk) ==
    LET h == fetch[k]  part == PartFile(h) IN
    /\ h.step = "stream" /\ h.next <= Chunks[h.file]
    /\ IF h.cancelled
       THEN End(k, h, "cancelled", dirs) /\ UNCHANGED <<engine, spending>>
       ELSE /\ chunk \in {h.next, 0}
            /\ IF chunk = 0 THEN Charge("wrong") ELSE UNCHANGED spending
            /\ WriteArtefact(h, IF part = None THEN None ELSE Append(part, chunk), TargetOf(h))
            /\ fetch' = [fetch EXCEPT ![k].next = @ + 1]
    /\ UNCHANGED <<download, picked, reading, broken>>

Dropped(k) ==
    /\ fetch[k].step = "stream" /\ fetch[k].next <= Chunks[fetch[k].file]
    /\ AttemptFailed(k, fetch[k], PartFile(fetch[k]))
    /\ UNCHANGED <<engine, download, picked, reading, broken, spending>>

\* The body has ended: a part of the right length takes the place of the file.
StreamEnds(k) ==
    LET h == fetch[k]  part == PartFile(h) IN
    /\ h.step = "stream" /\ h.next > Chunks[h.file]
    /\ IF Size(part) = Chunks[h.file]
       THEN WriteArtefact(h, None, part) /\ fetch' = [fetch EXCEPT ![k].step = "verify"]
       ELSE AttemptFailed(k, h, part) /\ UNCHANGED engine
    /\ UNCHANGED <<download, picked, reading, broken, spending>>

Retry(k) ==
    LET h == fetch[k] IN
    /\ h.step = "pause"
    /\ IF h.cancelled THEN End(k, h, "cancelled", dirs) /\ UNCHANGED engine ELSE Attempt(k, h, engine)
    /\ UNCHANGED <<download, picked, reading, broken, spending>>

\* The hash of the file that was fetched: twice wrong is the end of it.
Verify(k) ==
    LET h == fetch[k]
        outcome == VerificationOutcome(TargetOf(h) = Published(h.file), h.mismatched)
        emptied == [h EXCEPT !.mismatched = TRUE, !.fruitless = 0] IN
    /\ h.step = "verify"
    /\ CASE TargetOf(h) = None -> End(k, h, "network", dirs) /\ UNCHANGED engine
         [] TargetOf(h) # None /\ outcome = "verified" ->
                IF h.file = "engine"
                THEN fetch' = [fetch EXCEPT ![k].step = "extract"] /\ UNCHANGED <<dirs, engine>>
                ELSE GoOn(k, h, engine)
         [] TargetOf(h) # None /\ outcome = "corrupt" ->
                /\ End(k, h, "corrupt", IF h.file = "engine" THEN dirs ELSE [dirs EXCEPT ![h.gen].corrupt = TRUE])
                /\ UNCHANGED engine
         [] OTHER ->
                /\ WriteArtefact(h, PartFile(h), None)
                /\ fetch' = [fetch EXCEPT ![k] = [emptied EXCEPT !.step = "again"]]
    /\ UNCHANGED <<download, picked, reading, broken, spending>>

\* The second download after a first mismatch, from zero.
Again(k) ==
    /\ fetch[k].step = "again"
    /\ Attempt(k, fetch[k], engine)
    /\ UNCHANGED <<download, picked, reading, broken, spending>>

\* tar unpacks the engine; the archive goes, and the files of the model follow.
Extract(k) ==
    LET h == fetch[k] IN
    /\ h.step = "extract"
    /\ \/ /\ Charge("extract")
          /\ End(k, h, "extract", dirs)
          /\ UNCHANGED engine
       \/ GoOn(k, h, [engine EXCEPT !.program = TRUE, !.archive = None]) /\ UNCHANGED spending
    /\ UNCHANGED <<download, picked, reading, broken>>

FetchStep(k) ==
    \/ \E status \in {200, 206} : Answered(k, status)
    \/ \E chunk \in 0..2 : Chunk(k, chunk)
    \/ Unanswered(k) \/ Dropped(k) \/ StreamEnds(k) \/ Retry(k) \/ Verify(k) \/ Again(k) \/ Extract(k)

-----------------------------------------------------------------------------
(* The card. *)

\* What the vault's own download is doing, as the card reads it.
Progress(v) ==
    IF download[v] = None THEN "none"
    ELSE LET h == fetch[download[v]] IN
         CASE h.step \in {"ask", "stream", "pause", "again"} -> "downloading"
           [] h.step \in {"verify", "extract"} -> "verifying"
           [] h.step = "failed" /\ h.failure # "cancelled" -> h.failure
           [] OTHER -> "none"

Shown(v) == IF Progress(v) = "none" THEN InUse(v) ELSE fetch[download[v]].gen

Card(v) ==
    LET state == LocalModelState(InUse(v)) IN
    IF Progress(v) # "none" THEN (IF Progress(v) = "extract" THEN "runtime-failed" ELSE Progress(v))
    ELSE CASE state = "downloading" -> "foreign-download"
           [] state = "partial" -> "paused"
           [] state = "ready" /\ broken[v] -> "runtime-failed"
           [] OTHER -> state

Buttons(card) ==
    CASE card = "absent" -> {"download"}
      [] card = "downloading" -> {"cancel"}
      [] card = "paused" -> {"resume", "discard"}
      [] card \in {"out-of-disk", "network"} -> {"resume"}
      [] card = "ready" -> {"delete", "update"}
      [] card = "corrupt" -> {"delete"}
      [] card \in {"removed", "runtime-failed"} -> {"retry-runtime"}
      [] OTHER -> {}

\* Drawing a card that says ready throws away the parts beside the model.
DrawCard(v) ==
    /\ Card(v) = "ready" /\ HasPart(InUse(v))
    /\ dirs' = [dirs EXCEPT ![InUse(v)].parts = [f \in ModelFiles |-> None]]
    /\ UNCHANGED <<engine, fetch, download, picked, reading, broken, spending>>

Press(v, button) == Charge("press") /\ button \in Buttons(Card(v))

\* Starts a fetch, unless the vault's own one is still going or a transcription seems to hold the lock.
BeginDownload(v, g, k) ==
    LET h == [NoFetch EXCEPT !.owner = v, !.gen = g] IN
    /\ ~IsLocalModelBusy(InUse(v))
    /\ ~Live(k) /\ \A w \in Vaults \ {v} : download[w] # k
    /\ IF download[v] = None THEN TRUE ELSE FetchEnded(download[v])
    /\ download' = [download EXCEPT ![v] = k]
    /\ broken' = [broken EXCEPT ![v] = FALSE]
    /\ \/ /\ "full" \in ModelOps
          /\ End(k, h, "out-of-disk", dirs)
          /\ UNCHANGED engine
       \/ LET part == engine.part
              plan == PlanResume(part, Chunks["engine"])
              begun == [h EXCEPT !.offset = IF plan = "resume" THEN Len(part) ELSE 0,
                                 !.mark = OnDisk(part),
                                 !.step = IF plan = "complete" THEN "verify" ELSE "ask"] IN
          /\ dirs' = [dirs EXCEPT ![g].lock = "fresh"]
          /\ engine' = IF plan = "complete" THEN [engine EXCEPT !.part = None, !.archive = part] ELSE engine
          /\ fetch' = [fetch EXCEPT ![k] = begun]
    /\ UNCHANGED <<picked, reading>>

Download(v, k) ==
    /\ \/ \E button \in {"download", "resume", "retry-runtime"} : Press(v, button) /\ BeginDownload(v, Shown(v), k)
       \/ Press(v, "update") /\ \E g \in Offered(v) : BeginDownload(v, g, k)

\* The vault lets go of its download at once; the stream finds out at its next chunk.
LetGo(v) ==
    /\ fetch' = IF download[v] # None /\ Live(download[v])
                THEN [fetch EXCEPT ![download[v]].cancelled = TRUE] ELSE fetch
    /\ download' = [download EXCEPT ![v] = None]

Cancel(v) ==
    /\ Press(v, "cancel")
    /\ LetGo(v)
    /\ UNCHANGED <<dirs, engine, picked, reading, broken>>

Discard(v) ==
    /\ Press(v, "discard")
    /\ dirs' = [dirs EXCEPT ![InUse(v)].files = [f \in ModelFiles |-> None], ![InUse(v)].parts = [f \in ModelFiles |-> None]]
    /\ download' = [download EXCEPT ![v] = None]
    /\ UNCHANGED <<engine, fetch, picked, reading, broken>>

NoDir == [files |-> [f \in ModelFiles |-> None], parts |-> [f \in ModelFiles |-> None],
          verified |-> FALSE, corrupt |-> FALSE, lock |-> "none"]
NoEngine == [program |-> FALSE, archive |-> None, part |-> None]

\* Another complete model this machine can run keeps the engine, and the selection.
Delete(v) ==
    LET g == Shown(v)
        others == {o \in Fits \ {g} : Complete(o)} IN
    /\ Press(v, "delete")
    /\ dirs' = [dirs EXCEPT ![g] = NoDir]
    /\ engine' = IF others # {} THEN engine ELSE NoEngine
    /\ picked' = IF others = {} \/ picked[v] = g THEN [picked EXCEPT ![v] = None] ELSE picked
    /\ download' = [download EXCEPT ![v] = None]
    /\ broken' = IF others # {} THEN broken ELSE [broken EXCEPT ![v] = FALSE]
    /\ UNCHANGED <<fetch, reading>>

Pick(v, g) ==
    /\ Charge("pick")
    /\ Card(v) \in {"ready", "absent"} /\ g \in Fits
    /\ picked' = [picked EXCEPT ![v] = IF g = ChooseGeneration(None) THEN None ELSE g]
    /\ UNCHANGED <<dirs, engine, fetch, download, reading, broken>>

\* The plugin is reloaded: the download is asked to stop and forgotten.
Reload(v) ==
    /\ Charge("reload")
    /\ LetGo(v)
    /\ broken' = [broken EXCEPT ![v] = FALSE]
    /\ reading' = [reading EXCEPT ![v] = None]
    /\ UNCHANGED <<dirs, engine, picked>>

-----------------------------------------------------------------------------
(* A sync that reads pages with the model. *)

\* The adapter of a sync: only over a model that is ready while nothing seems to transcribe.
StartTranscription(v) ==
    LET g == InUse(v) IN
    /\ reading[v] = None
    /\ LocalModelState(g) = "ready" /\ ~IsLocalModelBusy(g)
    /\ reading' = [reading EXCEPT ![v] = [gen |-> g, page |-> FALSE]]
    /\ UNCHANGED <<dirs, engine, fetch, download, picked, broken, spending>>

StartPage(v) ==
    /\ reading[v] # None /\ ~reading[v].page
    /\ IF engine.program
       THEN /\ reading' = [reading EXCEPT ![v].page = TRUE]
            /\ dirs' = [dirs EXCEPT ![reading[v].gen].lock = "fresh"]
            /\ UNCHANGED broken
       ELSE /\ reading' = [reading EXCEPT ![v] = None]
            /\ broken' = [broken EXCEPT ![v] = TRUE]
            /\ UNCHANGED dirs
    /\ UNCHANGED <<engine, fetch, download, picked, spending>>

\* A page that was read, or failed, leaves the run going; an engine that does not run ends it.
EndPage(v) ==
    /\ reading[v] # None /\ reading[v].page
    /\ dirs' = [dirs EXCEPT ![reading[v].gen].lock = "none"]
    /\ \/ engine.program /\ reading' = [reading EXCEPT ![v].page = FALSE] /\ UNCHANGED <<broken, spending>>
       \/ /\ IF engine.program THEN Charge("engine") ELSE UNCHANGED spending
          /\ reading' = [reading EXCEPT ![v] = None]
          /\ broken' = [broken EXCEPT ![v] = TRUE]
    /\ UNCHANGED <<engine, fetch, download, picked>>

EndTranscription(v) ==
    /\ reading[v] # None /\ ~reading[v].page
    /\ reading' = [reading EXCEPT ![v] = None]
    /\ UNCHANGED <<dirs, engine, fetch, download, picked, broken, spending>>

-----------------------------------------------------------------------------
(* The lock and the world. *)

AtTheLock(g) == {k \in Fetches : Live(k) /\ fetch[k].gen = g}
                \cup {v \in Vaults : reading[v] # None /\ reading[v].page /\ reading[v].gen = g}

\* Whoever works on a directory renews its lock; a lock nobody renews goes stale.
Heartbeat(g) ==
    /\ IF AtTheLock(g) # {} THEN dirs[g].lock # "fresh" ELSE dirs[g].lock = "fresh"
    /\ dirs' = [dirs EXCEPT ![g].lock = IF AtTheLock(g) # {} THEN "fresh" ELSE "stale"]
    /\ UNCHANGED <<engine, fetch, download, picked, reading, broken, spending>>

\* From outside: a virus scanner takes the engine, somebody a file of the model.
LoseFile ==
    /\ \/ Charge("antivirus") /\ engine' = [engine EXCEPT !.program = FALSE] /\ UNCHANGED dirs
       \/ /\ Charge("lose")
          /\ \E g \in Gens, f \in ModelFiles : dirs' = [dirs EXCEPT ![g].files[f] = None]
          /\ UNCHANGED engine
    /\ UNCHANGED <<fetch, download, picked, reading, broken>>

\* Obsidian is closed, or dies.
QuitObsidian ==
    /\ Charge("crash")
    /\ fetch' = [k \in Fetches |-> NoFetch]
    /\ download' = [v \in Vaults |-> None]
    /\ reading' = [v \in Vaults |-> None]
    /\ broken' = [v \in Vaults |-> FALSE]
    /\ UNCHANGED <<dirs, engine, picked>>

-----------------------------------------------------------------------------
(* History: which hashes a reading does not wait for. *)

AtWork(g) == {k \in Fetches : Live(k) /\ fetch[k].gen = g}
Unhashed(g) == {f \in ModelFiles : \E k \in AtWork(g) : fetch[k].step = "verify" /\ fetch[k].file = f}

\* A file that takes its place while the marker stands, or for which another download writes the marker, is in
\* doubt until its hash has been taken; so is one whose hash was not taken because Obsidian quit.
DoubtAfter ==
    [g \in Gens |->
        IF \E k \in AtWork(g) : fetch'[k].step = "idle" THEN doubt[g] \cup Unhashed(g)
        ELSE (doubt[g] \ (Unhashed(g) \ Unhashed(g)')) \cup (IF dirs'[g].verified THEN Unhashed(g)' ELSE {})]

ModelInit ==
    /\ dirs = [g \in Gens |-> NoDir]
    /\ engine = NoEngine
    /\ fetch = [k \in Fetches |-> NoFetch]
    /\ download = [v \in Vaults |-> None]
    /\ picked = [v \in Vaults |-> None]
    /\ reading = [v \in Vaults |-> None]
    /\ broken = [v \in Vaults |-> FALSE]
    /\ spending = 0
    /\ doubt = [g \in Gens |-> {}]

ModelStep ==
    \/ \E k \in Fetches : FetchStep(k)
    \/ \E v \in Vaults : \/ \E k \in Fetches : Download(v, k)
                         \/ DrawCard(v) \/ Cancel(v) \/ Discard(v) \/ Delete(v) \/ Reload(v)
                         \/ \E g \in Gens : Pick(v, g)
                         \/ StartTranscription(v) \/ StartPage(v) \/ EndPage(v) \/ EndTranscription(v)
    \/ \E g \in Gens : Heartbeat(g)
    \/ LoseFile \/ QuitObsidian

ModelNext == ModelStep /\ doubt' = DoubtAfter

\* A fetcher goes on, or its connection fails and it pauses or ends.
FetchGoesOn(k) == FetchStep(k) /\ doubt' = DoubtAfter

ModelSpec == ModelInit /\ [][ModelNext]_modelVars

-----------------------------------------------------------------------------
(* Properties. *)

Content(f) == {None} \cup UNION {[1..n -> 0..Chunks[f]] : n \in 0..(2 * Chunks[f])}

\* The shape of the state.
ModelTypeOK ==
    /\ \A g \in Gens : /\ \A f \in ModelFiles : dirs[g].files[f] \in Content(f) /\ dirs[g].parts[f] \in Content(f)
                       /\ dirs[g].verified \in BOOLEAN /\ dirs[g].corrupt \in BOOLEAN
                       /\ dirs[g].lock \in {"none", "fresh", "stale"}
    /\ engine.program \in BOOLEAN
    /\ \A k \in Fetches : fetch[k].fruitless \in 0..MAX_FRUITLESS_ATTEMPTS
    /\ \A v \in Vaults : download[v] \in Fetches \cup {None} /\ picked[v] \in Gens \cup {None}

\* Whenever a sync takes the model up, its files are the published ones, through dropped connections, ignored
\* ranges, wrong bytes, pauses, reloads, quits, files that go missing and other vaults at work in the same
\* directory.  Except for files in doubt: nothing takes the marker away when a file is
\* fetched anew under it, and a file of the full size is not looked into (local-model-fetch.ts:217, :402).
OnlyPublishedRuns ==
    [][\A v \in Vaults : reading[v] = None /\ reading'[v] # None =>
          \A f \in ModelFiles \ doubt[reading'[v].gen] : dirs[reading'[v].gen].files[f] = Published(f)]_modelVars

\* "Anything that ever worked costs a button press" (local-model-download.ts:207): a complete model, verified
\* and with the published bytes, loses a file only when the user deletes it, somebody else takes it, or a
\* download that another one has overtaken puts its own file there.
WorkingModelStays ==
    [][\A g \in Gens : dirs[g].verified /\ ~dirs[g].corrupt /\ (\A f \in ModelFiles : dirs[g].files[f] = Published(f)) =>
          \/ dirs'[g].files = dirs[g].files
          \/ \E v \in Vaults : Delete(v)
          \/ LoseFile
          \/ \E k \in AtWork(g) : (\E j \in Fetches \ {k} : fetch[j].gen = g) /\ FetchStep(k)]_modelVars

\* The model that runs is the published one, and is not fetched again for nothing.
ModelIsWhole == OnlyPublishedRuns /\ WorkingModelStays

\* "A flaky connection finishes and a dead one gives up" (local-model-fetch.ts:232): a download comes to an
\* end, however often the connection drops, as long as the server does not ignore its ranges for ever.
DownloadEnds == \A k \in Fetches : Live(k) ~> ~Live(k)

\* The card promises that model and program are "each checked against a published SHA-256 before it runs"
\* (local-model-card.ts:169).
EachCheckedBeforeItRuns ==
    [][\A v \in Vaults : reading[v] = None /\ reading'[v] # None =>
          \A f \in ModelFiles : dirs[reading'[v].gen].files[f] = Published(f)]_modelVars

\* "Two concurrent runs are 27 GB, so a sync that finds the lock held does not start" (local-ocr-runtime.ts:178),
\* and of a genuine race the loser "loses within one heartbeat" (local-model-runtime.ts:129): one page at a time
\* is read on a machine.
OneRunOnTheMachine == Cardinality({v \in Vaults : reading[v] # None /\ reading[v].page}) <= 1
=============================================================================
