----------------------------- MODULE DigestRetry -----------------------------
(***************************************************************************)
(* The margin notes of one PDF, read by the chosen backend into the digest *)
(* of its note, and the retry the index row keeps when some were lost      *)
(* (sync-engine.ts, digest-pipeline.ts). An unchanged document is not read *)
(* again, so what was lost comes back only through that retry: at once     *)
(* with another backend or by "Sync now", after an hour by itself when the *)
(* failure may pass.                                                       *)
(***************************************************************************)
EXTENDS Naturals, Sequences, FiniteSets, Absent

CONSTANTS
    Readers,        \* the fingerprints of the backends that read
    OffReader,      \* transcription is switched off
    NotReady,       \* a backend that cannot run yet
    MostNotes,      \* how many margin notes the document may come to have
    Verdicts,       \* what each reader makes of each note while it answers, one function per world
    DigestChanges   \* how often the user, the tablet and the server do something

ASSUME DigestAssumption == MostNotes \in Nat \ {0} /\ DigestChanges \in Nat

VARIABLES
    pdf,        \* version of the document and number of its margin notes
    drow,       \* the note's row, or None
    lines,      \* what the note shows for each margin note, or None without a note
    reader,     \* the backend chosen
    server,     \* "up" or "down"
    waited,     \* an hour has passed since the row's retry was written
    looked,     \* legacyOcrLossesMarked: "no", "yes", or "in vain" under a backend that reads nothing
    verdict,    \* one of Verdicts
    digestChanges

digestVars == <<pdf, drow, lines, reader, server, waited, looked, verdict, digestChanges>>

ReadsNothing == reader \in {OffReader, NotReady}

\* A line of the digest is the text of the note, or "Handwriting that could not be transcribed":
\* lost to a failure, found to hold no words, never looked at, or lost by an old version.
Unread(ls) == {n \in DOMAIN ls : ls[n] \in {"lost", "wordless", "off", "old"}}
LinesEdited == drow # None /\ lines # None /\ drow.block # lines

-----------------------------------------------------------------------------

\* recognize for one note: lost to a dead server or to what this reader cannot do with it.
LineOf(n) ==
    CASE reader = OffReader -> "off"
      [] reader = NotReady \/ server = "down" -> "lost"
      [] verdict[reader][n] = "read" -> "read"
      [] verdict[reader][n] = "wordless" -> "wordless"
      [] OTHER -> "lost"

Built == [n \in 1..pdf.notes |-> LineOf(n)]

\* ocrRetryable: a failure that passes on its own, or everything refused and nothing read.
Retryable ==
    /\ reader # NotReady
    /\ \/ server = "down"
       \/ /\ \A n \in 1..pdf.notes : verdict[reader][n] # "read"
          /\ \A n \in 1..pdf.notes : LineOf(n) = "lost" => verdict[reader][n] = "refused"

\* As it once was: what a backend that is not ready lost kept the old retry, or none.
RetryKept ==
    IF ReadsNothing THEN (IF drow = None THEN None ELSE drow.retry)
    ELSE IF \E n \in DOMAIN Built : Built[n] = "lost" THEN [with |-> reader, retryable |-> Retryable] ELSE None

\* buildUnitDigest: the retry that goes with the lines just built.
NextRetry ==
    IF \E n \in DOMAIN Built : Built[n] = "lost" THEN [with |-> reader, retryable |-> Retryable]
    ELSE IF ReadsNothing /\ drow # None THEN drow.retry ELSE None

\* ocrRetryDue
RetryDue(manual) ==
    IF drow = None THEN FALSE
    ELSE IF drow.retry = None \/ ReadsNothing THEN FALSE
    ELSE drow.retry.with # reader \/ (drow.retry.retryable /\ (manual \/ waited))

DigestDue(manual) ==
    IF drow = None \/ lines = None THEN TRUE ELSE drow.ver # pdf.ver \/ drow.stale \/ RetryDue(manual)

\* digestWouldLose: an unchanged document whose digest lost more than the note shows.
WouldLose ==
    /\ drow # None /\ lines # None
    /\ drow.ver = pdf.ver
    /\ \E n \in DOMAIN Built : Built[n] = "lost"
    /\ Cardinality(Unread(Built)) > Cardinality(Unread(lines))

Spend == digestChanges > 0 /\ digestChanges' = digestChanges - 1

\* A digest built and written, or the note kept for what it has (keepNote).
ReadDigest(manual) ==
    /\ looked # "no" /\ DigestDue(manual) /\ ~LinesEdited
    /\ LET retry == NextRetry IN
       IF WouldLose
       THEN drow' = [drow EXCEPT !.stale = FALSE, !.retry = retry] /\ UNCHANGED lines
       ELSE /\ lines' = Built
            /\ drow' = [ver |-> pdf.ver, stale |-> FALSE, retry |-> retry, block |-> Built]
    /\ waited' = FALSE
    /\ UNCHANGED <<pdf, reader, server, looked, verdict, digestChanges>>

\* The build threw: a changed document's note is written without its digest, any other is kept as it
\* is, and due as before.
BuildThrows ==
    /\ looked # "no" /\ DigestDue(TRUE) /\ ~LinesEdited /\ Spend
    /\ IF drow # None /\ lines # None /\ drow.ver = pdf.ver THEN UNCHANGED <<drow, lines>>
       ELSE /\ lines' = <<>>
            /\ drow' = [ver |-> pdf.ver, stale |-> FALSE, block |-> <<>>,
                        retry |-> IF drow = None THEN None ELSE drow.retry]
    /\ UNCHANGED <<pdf, reader, server, waited, looked, verdict>>

AutoRead == ReadDigest(FALSE)
SyncNow == ReadDigest(TRUE)

\* The first run of a version that keeps retries looks for notes an older one lost (markLegacyOcrLosses).
LookBack ==
    /\ looked = "no"
    /\ looked' = IF ReadsNothing THEN "in vain" ELSE "yes"
    /\ IF ReadsNothing \/ drow = None \/ lines = None \/ LinesEdited THEN UNCHANGED drow
       ELSE drow' = IF drow.retry = None /\ Unread(lines) # {}
                    THEN [drow EXCEPT !.retry = [with |-> "legacy", retryable |-> FALSE]] ELSE drow
    /\ UNCHANGED <<pdf, lines, reader, server, waited, verdict, digestChanges>>

-----------------------------------------------------------------------------
(* The tablet, the user, the server and the clock. *)

PdfChanges ==
    /\ Spend
    /\ \E n \in {pdf.notes, pdf.notes + 1} : n <= MostNotes /\ pdf' = [ver |-> pdf.ver + 1, notes |-> n]
    /\ UNCHANGED <<drow, lines, reader, server, waited, looked, verdict>>

ChooseReader ==
    /\ Spend
    /\ reader' \in (Readers \cup {OffReader, NotReady}) \ {reader}
    /\ UNCHANGED <<pdf, drow, lines, server, waited, looked, verdict>>

\* invalidateRenders / invalidateRows: a switch of settings, or "Re-transcribe" of a digest note.
Invalidate ==
    /\ Spend /\ drow # None
    /\ drow' = [drow EXCEPT !.stale = TRUE]
    /\ UNCHANGED <<pdf, lines, reader, server, waited, looked, verdict>>

EditLine ==
    /\ Spend /\ lines # None
    /\ \E n \in DOMAIN lines : lines' = [lines EXCEPT ![n] = "mine"]
    /\ UNCHANGED <<pdf, drow, reader, server, waited, looked, verdict>>

DeleteDigestNote ==
    /\ Spend /\ lines # None
    /\ lines' = None
    /\ UNCHANGED <<pdf, drow, reader, server, waited, looked, verdict>>

ServerTurns ==
    /\ Spend
    /\ server' = IF server = "up" THEN "down" ELSE "up"
    /\ UNCHANGED <<pdf, drow, lines, reader, waited, looked, verdict>>

HourPasses ==
    /\ ~waited /\ waited' = TRUE
    /\ UNCHANGED <<pdf, drow, lines, reader, server, looked, verdict, digestChanges>>

-----------------------------------------------------------------------------

\* A vault that is new to the plugin, or one whose note an older version wrote, with a note lost.
DigestInit ==
    /\ pdf = [ver |-> 1, notes |-> 1]
    /\ reader \in Readers \cup {OffReader, NotReady}
    /\ server \in {"up", "down"}
    /\ waited = FALSE
    /\ verdict \in Verdicts
    /\ digestChanges = DigestChanges
    /\ \/ drow = None /\ lines = None /\ looked = "yes"
       \/ /\ lines = <<"old">> /\ looked = "no"
          /\ drow = [ver |-> 1, stale |-> FALSE, retry |-> None, block |-> <<"old">>]

DigestWorld ==
    \/ PdfChanges \/ ChooseReader \/ Invalidate \/ EditLine \/ DeleteDigestNote \/ ServerTurns
    \/ HourPasses

DigestNext == AutoRead \/ SyncNow \/ BuildThrows \/ LookBack \/ DigestWorld

-----------------------------------------------------------------------------
(* Properties. *)

Steady == server = "up" /\ reader \in Readers

\* No more lines of an unedited note are lost than the chosen backend itself fails on.
LossesExplained ==
    \/ LinesEdited
    \/ /\ drow # None /\ lines # None
       /\ Cardinality({n \in DOMAIN lines : lines[n] \in {"lost"} \cup IF looked = "in vain" THEN {} ELSE {"old"}})
              <= Cardinality({n \in 1..pdf.notes : verdict[reader][n] # "read"})

\* Handwriting lost to a server that was off, a backend that was not ready or one that refused it is
\* read in the end, with nobody pressing a button and the document unchanged: once some backend is
\* chosen that answers, an auto-sync reads again every note it can read -- unless the user edited the
\* note. What an older version lost is excepted when it was looked for while nothing could be read.
LostNotesAreRead == <>[]Steady => <>[](Steady => LossesExplained)
=============================================================================
