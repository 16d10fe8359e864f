------------------------------ MODULE RunStatus ------------------------------
(***************************************************************************)
(* What a run counts and what the status item shows of it: the pre-scan    *)
(* that measures the work before any of it is done, the ticker that counts *)
(* pages as they are read, the stop that may be asked for at any time, and *)
(* what is shown beside it by those who hold no lock: a send of a paper to *)
(* the tablet, a background sync whose tablet does not answer, and a scan  *)
(* for tags that reads the tablet's files from the settings                *)
(* (sync-engine.ts, status-model.ts, main.ts, zotero-plugin.ts,            *)
(* device-api.ts, settings-tab.ts).                                        *)
(*                                                                         *)
(* A sync and a re-transcription count alike. Numbers stand for documents; *)
(* what is in the notes is in SyncEngine and Transcripts, who may run at   *)
(* all in RunControl.                                                      *)
(***************************************************************************)
EXTENDS Naturals, FiniteSets, Sequences, FiniteSetsExt, Absent

CONSTANTS
    Work,               \* of each document, the pages of each of its notes
    SCAN_PARALLELISM,
    StatusMoves         \* how often the user or the clock does something

VARIABLES
    runStage,           \* off, listing, scanning, working, or ending: the outcome is shown, the lock still held
    stopAsked,          \* stopRequested
    spared,             \* notes a run leaves alone: edited by hand, or a digest's that is kept
    toScan, scanOpen, checked, scanStopped,
    measured,           \* of each document, what the scan made of it, and its steps
    toWork, plan,       \* the documents to come, and the steps of the notes to come of the one that is open
    noteOpen,           \* a note is being written
    runDone, unitDone, unitTotal, runTotal,
    item,               \* the status item; its bar is also lastBar
    sending, probing, scanningTags,
    reported, surprised, leftBusy,  \* history: documents said to be unreadable; the count could not hold; why the item is left busy
    statusMoves

scanVars == <<toScan, scanOpen, checked, scanStopped, measured>>
barVars == <<runDone, unitDone, unitTotal, runTotal>>
workVars == <<toWork, plan, noteOpen, barVars>>
besideVars == <<sending, probing, scanningTags>>
othersVars == <<besideVars, leftBusy, statusMoves>>
statusVars == <<runStage, stopAsked, spared, scanVars, workVars, item, reported, surprised, othersVars>>

Documents == DOMAIN Work
StepsOf(d) == [u \in DOMAIN Work[d] |-> IF <<d, u>> \in spared THEN 0 ELSE Work[d][u]]
Unmeasured == [how |-> "unmeasured", steps |-> <<>>]
Total(steps) == MapThenSumSet(LAMBDA u : steps[u], DOMAIN steps)

-----------------------------------------------------------------------------
(* The item. *)

\* statusView: the item offers to stop while it is busy and no stop is pending.
View(state, says, bar, asked) == [state |-> state, says |-> says, bar |-> bar, offers |-> state = "busy" /\ ~asked]

Shows(state, says) == item' = View(state, says, None, stopAsked) /\ leftBusy' = "not"

\* progressStatus, for the pre-scan: no bar; a pending stop outranks it and keeps the bar there is.
ShowsScan == item' = (IF stopAsked THEN View("busy", "stopping", item.bar, TRUE) ELSE View("busy", "checking", None, FALSE)) /\ leftBusy' = "not"

\* emit: nothing is said of a run without work.
ShowsWork ==
    /\ item' = IF runTotal' = 0 THEN item
               ELSE IF stopAsked THEN View("busy", "stopping", item.bar, TRUE)
               ELSE View("busy", "working", Min({100, (runDone' * 100) \div runTotal'}), FALSE)
    /\ leftBusy' = IF runTotal' = 0 THEN leftBusy ELSE "not"

-----------------------------------------------------------------------------
(* The run. *)

StartRun ==
    /\ runStage = "off" /\ runStage' = "listing"
    /\ stopAsked' = FALSE
    /\ item' = View("busy", "starting", None, FALSE) /\ leftBusy' = "not"
    /\ reported' = [d \in Documents |-> 0] /\ surprised' = FALSE
    /\ UNCHANGED <<spared, scanVars, workVars, besideVars>>

\* The listing: every document is a candidate.
List ==
    /\ runStage = "listing" /\ runStage' = "scanning"
    /\ toScan' = Documents /\ scanOpen' = {} /\ checked' = 0 /\ scanStopped' = FALSE
    /\ measured' = [d \in Documents |-> Unmeasured]
    /\ ShowsScan
    /\ UNCHANGED <<stopAsked, spared, workVars, besideVars, reported, surprised, statusMoves>>

\* mapWithConcurrency takes the documents in order; one that is taken after a stop is not looked at.
ScanBegins ==
    /\ runStage = "scanning" /\ toScan # {} /\ Cardinality(scanOpen) < SCAN_PARALLELISM
    /\ LET d == Min(toScan) IN
        /\ toScan' = toScan \ {d}
        /\ IF stopAsked THEN scanStopped' = TRUE /\ UNCHANGED <<scanOpen, item, leftBusy>>
           ELSE scanOpen' = scanOpen \cup {d} /\ ShowsScan /\ UNCHANGED scanStopped
    /\ UNCHANGED <<runStage, stopAsked, spared, checked, measured, workVars, besideVars, reported, surprised, statusMoves>>

\* Its content cannot be read; or its steps are counted; or anything else fails, which is left to the run.
ScanEnds(d, found) ==
    /\ runStage = "scanning" /\ d \in scanOpen
    /\ scanOpen' = scanOpen \ {d} /\ checked' = checked + 1
    /\ measured' = [measured EXCEPT ![d] = [how |-> found, steps |-> IF found = "counted" THEN StepsOf(d) ELSE <<>>]]
    /\ ShowsScan
    /\ UNCHANGED <<runStage, stopAsked, spared, toScan, scanStopped, workVars, besideVars, reported, surprised, statusMoves>>

Workload(docs) == MapThenSumSet(LAMBDA d : Total(measured[d].steps), docs)

Outcome(state) == runStage' = "ending" /\ Shows(state, "outcome")

\* What the scan could not read is reported, and not tried again.
ScanIsOver ==
    /\ runStage = "scanning" /\ toScan = {} /\ scanOpen = {}
    /\ IF scanStopped THEN Outcome("stopped") /\ UNCHANGED <<workVars, reported>>
       ELSE /\ runStage' = "working" /\ toWork' = Documents /\ plan' = <<>> /\ noteOpen' = FALSE
            /\ runDone' = 0 /\ unitDone' = 0 /\ unitTotal' = 0 /\ runTotal' = Workload(Documents)
            /\ reported' = [d \in Documents |-> IF measured[d].how = "unreadable" THEN 1 ELSE 0]
            /\ UNCHANGED <<item, leftBusy>>
    /\ UNCHANGED <<stopAsked, spared, scanVars, besideVars, surprised, statusMoves>>

AtRest == runStage = "working" /\ ~noteOpen

\* Its notes are planned anew. One that was measured may fail now; one that could not be may do well.
OpenDocument(reads) ==
    /\ AtRest /\ plan = <<>> /\ toWork # {} /\ ~stopAsked
    /\ LET d == Min(toWork) IN
        /\ toWork' = toWork \ {d}
        /\ IF measured[d].how = "unreadable" THEN reads /\ UNCHANGED <<plan, reported, surprised>>
           ELSE IF reads THEN /\ plan' = StepsOf(d) /\ UNCHANGED reported
                              /\ surprised' = (surprised \/ measured[d].steps # StepsOf(d))
           ELSE reported' = [reported EXCEPT ![d] = @ + 1] /\ surprised' = TRUE /\ UNCHANGED plan
    /\ UNCHANGED <<runStage, stopAsked, spared, scanVars, noteOpen, barVars, item, besideVars, leftBusy, statusMoves>>

\* start, for a note that is to be written; one that is spared is passed over in silence.
BeginNote ==
    /\ AtRest /\ plan # <<>> /\ ~stopAsked
    /\ plan' = Tail(plan)
    /\ IF Head(plan) = 0 THEN UNCHANGED <<noteOpen, barVars, item, leftBusy>>
       ELSE noteOpen' = TRUE /\ unitDone' = 0 /\ unitTotal' = Head(plan) /\ UNCHANGED <<runDone, runTotal>> /\ ShowsWork
    /\ UNCHANGED <<runStage, stopAsked, spared, scanVars, toWork, besideVars, reported, surprised, statusMoves>>

CountPage == unitDone < unitTotal /\ unitDone' = unitDone + 1

PageRead ==
    /\ runStage = "working" /\ noteOpen /\ CountPage
    /\ runDone' = runDone + 1 /\ UNCHANGED <<unitTotal, runTotal>> /\ ShowsWork
    /\ UNCHANGED <<runStage, stopAsked, spared, scanVars, toWork, plan, noteOpen, besideVars, reported, surprised, statusMoves>>

\* finish: written, kept, refused or not rendered, a note counts for all of its pages.
FinishNote ==
    /\ runStage = "working" /\ noteOpen /\ noteOpen' = FALSE
    /\ runDone' = runDone + unitTotal - unitDone /\ unitDone' = unitTotal
    /\ UNCHANGED <<unitTotal, runTotal>> /\ ShowsWork
    /\ UNCHANGED <<runStage, stopAsked, spared, scanVars, toWork, plan, besideVars, reported, surprised, statusMoves>>

\* A stop is looked for before a document and before a note; after the last of them it comes too late.
FinishedRun ==
    /\ AtRest
    /\ IF plan = <<>> /\ toWork = {} THEN Outcome("ok") ELSE stopAsked /\ Outcome("stopped")
    /\ UNCHANGED <<stopAsked, spared, scanVars, workVars, besideVars, reported, surprised, statusMoves>>

FailRun ==
    /\ runStage \in {"listing", "scanning", "working"} /\ Outcome("failed")
    /\ UNCHANGED <<stopAsked, spared, scanVars, workVars, besideVars, reported, surprised, statusMoves>>

\* The session is closed, the highlights are pushed, and the lock is let go of; a sync whose session cannot be
\* closed lets go of it too, and leaves the flag as it is.
LetGo ==
    /\ runStage = "ending" /\ runStage' = "off" /\ stopAsked' \in {FALSE, stopAsked}
    /\ UNCHANGED <<spared, scanVars, workVars, item, reported, surprised, othersVars>>

-----------------------------------------------------------------------------
(* The others. *)

Moves == statusMoves > 0 /\ statusMoves' = statusMoves - 1
RunGoesOn == UNCHANGED <<runStage, spared, scanVars, workVars, reported, surprised>>

RunNow == Moves /\ StartRun

\* requestStop: said at once, and without a bar. After the outcome was shown it stays.
AskToStop ==
    /\ Moves /\ runStage # "off" /\ ~stopAsked
    /\ stopAsked' = TRUE
    /\ item' = View("busy", "stopping", None, TRUE)
    /\ leftBusy' = IF runStage = "ending" THEN "stopped late" ELSE "not"
    /\ RunGoesOn /\ UNCHANGED besideVars

\* The user edits a note, or takes the edit back.
EditNote(n) ==
    /\ Moves /\ runStage # "off"
    /\ spared' = IF n \in spared THEN spared \ {n} ELSE spared \cup {n}
    /\ UNCHANGED <<runStage, stopAsked, scanVars, workVars, item, reported, surprised, besideVars, leftBusy>>

StartSend ==
    /\ Moves /\ ~sending /\ sending' = TRUE
    /\ UNCHANGED stopAsked /\ Shows("busy", "sending")
    /\ RunGoesOn /\ UNCHANGED <<probing, scanningTags>>

\* A send that fails raises a notice and leaves the item as it is.
EndSend ==
    /\ sending /\ sending' = FALSE
    /\ UNCHANGED stopAsked
    /\ \/ \E state \in {"ok", "stopped"} : Shows(state, "outcome")
       \/ UNCHANGED item /\ leftBusy' = IF item.says = "sending" THEN "send failed" ELSE leftBusy
    /\ RunGoesOn /\ UNCHANGED <<probing, scanningTags, statusMoves>>

\* A background sync asks whether the tablet is there, when no run is on; one may have begun at the answer.
StartProbe ==
    /\ Moves /\ ~probing /\ runStage = "off" /\ probing' = TRUE
    /\ UNCHANGED <<stopAsked, item, leftBusy, sending, scanningTags>> /\ RunGoesOn

Asleep ==
    /\ probing /\ probing' = FALSE
    /\ UNCHANGED stopAsked /\ Shows("asleep", "asleep")
    /\ RunGoesOn /\ UNCHANGED <<sending, scanningTags, statusMoves>>

\* scanTags opens the source as a run does, takes no lock, and says nothing of its own, neither first nor last.
StartTagScan ==
    /\ Moves /\ ~scanningTags /\ scanningTags' = TRUE
    /\ UNCHANGED <<stopAsked, item, leftBusy, sending, probing>> /\ RunGoesOn

EndTagScan ==
    /\ scanningTags /\ scanningTags' = FALSE
    /\ UNCHANGED <<stopAsked, item, leftBusy, sending, probing, statusMoves>> /\ RunGoesOn

\* report: whoever opens the tablet says how many of its files have been read, whatever the item said before.
ReportFiles ==
    /\ \/ runStage = "listing" /\ leftBusy' = "not"
       \/ scanningTags /\ leftBusy' = "tags read"
    /\ item' = View("busy", "reading", None, stopAsked)
    /\ UNCHANGED <<stopAsked, besideVars, statusMoves>> /\ RunGoesOn

-----------------------------------------------------------------------------

StatusInit ==
    /\ runStage = "off" /\ stopAsked = FALSE /\ spared = {}
    /\ toScan = {} /\ scanOpen = {} /\ checked = 0 /\ scanStopped = FALSE /\ measured = [d \in Documents |-> Unmeasured]
    /\ toWork = {} /\ plan = <<>> /\ noteOpen = FALSE /\ runDone = 0 /\ unitDone = 0 /\ unitTotal = 0 /\ runTotal = 0
    /\ item = [state |-> "hidden", says |-> "nothing", bar |-> None, offers |-> FALSE]
    /\ sending = FALSE /\ probing = FALSE /\ scanningTags = FALSE
    /\ reported = [d \in Documents |-> 0] /\ surprised = FALSE /\ leftBusy = "not"
    /\ statusMoves = StatusMoves

StatusNext ==
    \/ RunNow \/ List \/ ScanBegins \/ ScanIsOver \/ BeginNote \/ PageRead \/ FinishNote \/ FinishedRun \/ FailRun \/ LetGo
    \/ \E d \in Documents, found \in {"unreadable", "unmeasured", "counted"} : ScanEnds(d, found)
    \/ \E reads \in BOOLEAN : OpenDocument(reads)
    \/ AskToStop \/ StartSend \/ EndSend \/ StartProbe \/ Asleep \/ StartTagScan \/ ReportFiles \/ EndTagScan
    \/ \E d \in Documents : \E u \in DOMAIN Work[d] : EditNote(<<d, u>>)

StatusSpec == StatusInit /\ [][StatusNext]_statusVars

-----------------------------------------------------------------------------
(* What is shown and reported. *)

\* "`done` only ever grows, and a unit contributes exactly the steps the scan counted for it": at every moment
\* what is done and what is to come add up to the total, unless a document could not be measured or read after
\* all, or a note was edited in between.
BarAddsUp ==
    ~surprised /\ runStage = "working" => runDone + (unitTotal - unitDone) + Total(plan) + Workload(toWork) = runTotal

\* However wrong the count, the bar is never past full, a page never counts beyond its note, the scan never
\* says more than it has checked, and a document that cannot be read is reported once.
CountsStayInBounds ==
    /\ item.bar # None => item.bar <= 100
    /\ unitDone <= unitTotal
    /\ checked + Cardinality(scanOpen) + Cardinality(toScan) <= Cardinality(Documents)
    /\ \A d \in Documents : reported[d] <= 1

\* "An icon stuck on the spinner": the item spins only while a run or a send is under way, and offers to stop
\* only then. Three ways it is left spinning are known: a stop that is confirmed after the outcome was shown, a
\* send that fails, and a scan for tags that read the tablet's files, which nothing is said after.
SpinnerMeansWork ==
    /\ item.state = "busy" => runStage \in {"listing", "scanning", "working"} \/ sending \/ leftBusy # "not"
    /\ item.offers => runStage # "off" \/ sending \/ leftBusy \in {"send failed", "tags read"}

\* After a stop was asked for, no tick of a run is shown; and a run that was not asked to stop never says it was.
\* The files still read while the tablet is opened are announced all the same ("reading", not among the ticks).
StopIsSaid ==
    /\ stopAsked => item.says \notin {"starting", "checking", "working"}
    /\ item.says = "stopping" => stopAsked \/ leftBusy = "stopped late"


\* What main.ts says of the message about the tablet's files: "Only while a run is on screen." The scan for tags
\* opens the same tablet with the same message and is no run.
FilesAreReadInARun == item.says = "reading" => runStage # "off"
=============================================================================
