----------------------------- MODULE RunControl -----------------------------
(***************************************************************************)
(* One Obsidian, and everything in it that may want to run at the same     *)
(* time (src/main.ts): Sync now, the background sync, the two re-          *)
(* transcribe commands, the frontmatter toggle, the Readwise push of a     *)
(* tick whose tablet is asleep.  All of them share one index, data.        *)
(* syncIndex, one lock, `syncing`, and one flag, `stopRequested`.  A       *)
(* process here is one such activation, from the event that launches it to *)
(* its end; a step of it is what runs between two awaits.                  *)
(***************************************************************************)
EXTENDS Integers, FiniteSets

CONSTANTS
    Flows,          \* activations; each is used once
    Kinds,          \* what this instance launches, among AllKinds
    UserOps,        \* what its user does, among AllUserOps
    Units,          \* bound: notes one run reaches
    Changes         \* user actions that change the index outside any run

AllKinds == {"sync", "auto", "all", "note", "pass"}
AllUserOps == {"stop", "dialog", "setting", "unload"}

ASSUME RunControlAssumption == Kinds \subseteq AllKinds /\ UserOps \subseteq AllUserOps /\ Units \in Nat \ {0}

VARIABLES
    syncing, stopRequested,
    kind, pc,
    index,          \* data.syncIndex, as the set of facts it records
    held,           \* the run's own copy of it
    left,           \* notes the run has still to reach
    loaded, timer, live,    \* the plugin, its autoSyncIntervalTimer (0: null), the intervals armed
    dialog,         \* the activation a Stop dialog was opened over, if one is open
    stopped,        \* runs that ended because shouldStop() said so
    asked, meant,   \* history: runs in flight when a stop was requested; runs it was meant for
    leftTaken       \* history: the activation whose end was refused, gone with the lock still taken

jobVars == <<kind, pc, index, held, left>>
timerVars == <<loaded, timer, live>>
stopVars == <<dialog, stopped, asked, meant>>
historyVars == <<stopVars, leftTaken>>
vars == <<syncing, stopRequested, jobVars, timerVars, historyVars>>

LockedPCs == {"licence", "opening", "confirming", "running", "unopened", "closing", "pushing", "lonePush"}
PCs == {"new", "probing", "gating", "asking", "done"} \cup LockedPCs
Locked(f) == pc[f] \in LockedPCs
Holders == {f \in Flows : Locked(f)}
\* In whose hand the lock is.
Hands == Holders \cup leftTaken

Facts == Changes \cup (Flows \X (1 .. Units))

At(f, label) == pc[f] = label
Goto(f, label) == pc' = [pc EXCEPT ![f] = label]

-----------------------------------------------------------------------------
(* The lock. *)

\* Where a run that has just taken the lock goes; runSyncNow and the re-transcribes clear the flag.
\* Mutant: the flag is cleared only when a run ends.
EnterKeepingFlag(f, k) ==
    \/ k \in {"sync", "note", "pass"} /\ Goto(f, "licence") /\ UNCHANGED stopRequested
    \/ Goto(f, "opening") /\ UNCHANGED stopRequested
Enter(f, k) ==
    \/ /\ k \in {"sync", "note", "pass"} /\ Goto(f, "licence")
       /\ stopRequested' = (k # "note" /\ stopRequested)
    \/ Goto(f, "opening") /\ stopRequested' = (k = "pass" /\ stopRequested)

\* Mutant: the lock was looked at earlier, and is only written here.
ClaimUnread(f, k) == syncing' = TRUE /\ Enter(f, k)

\* claimRun: the test and the set in one synchronous step; refused, the activation ends.
Claim(f, k) ==
    IF syncing THEN Goto(f, "done") /\ UNCHANGED <<syncing, stopRequested>>
    ELSE syncing' = TRUE /\ Enter(f, k)

Release(f) == syncing' = FALSE /\ Goto(f, "done")

\* rearmAutoSyncInterval: the interval armed before goes first.
NewTimer == CHOOSE i \in 1 .. Cardinality(live) + 1 : i \notin live
Rearm == live' = (live \ {timer}) \cup {NewTimer} /\ timer' = NewTimer
\* With auto-sync off (no interval since the setting last changed) there is nothing to arm.
RearmAfterRun == IF timer = 0 THEN UNCHANGED <<timer, live>> ELSE Rearm

-----------------------------------------------------------------------------
(* Launching. *)

\* A command, a toggle, or (kind "auto") the launch timer or a tick of an armed interval.
Launch(f, k) ==
    /\ At(f, "new") /\ k \in Kinds
    /\ loaded \/ (k = "auto" /\ live # {})
    /\ kind' = [kind EXCEPT ![f] = k]
    /\ IF k \in {"auto", "all"}
       THEN /\ Goto(f, IF syncing THEN "done" ELSE IF k = "auto" THEN "probing" ELSE "asking")
            /\ UNCHANGED <<syncing, stopRequested>>
       ELSE Claim(f, k)
    /\ UNCHANGED <<index, held, left, timerVars, historyVars>>

\* Mutant: the sleeping tablet's push trusts the look at the lock from before the probe.
ProbedAnyway(f) ==
    /\ At(f, "probing")
    /\ \/ Goto(f, "gating") /\ UNCHANGED syncing
       \/ Goto(f, "done") /\ UNCHANGED syncing
       \/ syncing' = TRUE /\ Goto(f, "lonePush")
    /\ UNCHANGED <<stopRequested, kind, index, held, left, timerVars, historyVars>>

\* triggerAutoSync after its probe: gated, or the tablet is asleep and only Readwise is pushed.
Probed(f) ==
    /\ At(f, "probing")
    /\ \/ Goto(f, "gating") /\ UNCHANGED syncing
       \/ Goto(f, "done") /\ UNCHANGED syncing
       \/ IF syncing THEN Goto(f, "done") /\ UNCHANGED syncing ELSE syncing' = TRUE /\ Goto(f, "lonePush")
    /\ UNCHANGED <<stopRequested, kind, index, held, left, timerVars, historyVars>>

\* The licence and money gates, and only then the lock.
Gated(f) ==
    /\ At(f, "gating")
    /\ Claim(f, "auto") \/ (Goto(f, "done") /\ UNCHANGED <<syncing, stopRequested>>)
    /\ UNCHANGED <<kind, index, held, left, timerVars, historyVars>>

\* The re-transcribe-all dialog, answered: yes takes the lock, if it is still free.
Answered(f) ==
    /\ At(f, "asking")
    /\ Claim(f, "all") \/ (Goto(f, "done") /\ UNCHANGED <<syncing, stopRequested>>)
    /\ UNCHANGED <<kind, index, held, left, timerVars, historyVars>>

-----------------------------------------------------------------------------
(* With the lock. *)

\* refreshLicence is back: runSyncNow begins, and begins by clearing the flag.
Refreshed(f) ==
    /\ At(f, "licence") /\ Goto(f, "opening")
    /\ stopRequested' = (kind[f] # "sync" /\ stopRequested)
    /\ UNCHANGED <<syncing, kind, index, held, left, timerVars, historyVars>>

\* The licence could not be saved: a sync is over before it began, the others end without a session.
RefreshFailed(f) ==
    /\ At(f, "licence")
    /\ IF kind[f] = "sync" THEN Release(f) ELSE Goto(f, "unopened") /\ UNCHANGED syncing
    /\ UNCHANGED <<stopRequested, kind, index, held, left, timerVars, historyVars>>

\* openSource: the run gets the index as it is now, or there is no run.
Opened(f) ==
    /\ At(f, "opening")
    /\ \/ /\ Goto(f, IF kind[f] = "note" THEN "confirming" ELSE "running")
          /\ held' = [held EXCEPT ![f] = index]
          /\ left' = [left EXCEPT ![f] = IF kind[f] = "note" THEN 1 ELSE Units]
       \/ Goto(f, "unopened") /\ UNCHANGED <<held, left>>
    /\ UNCHANGED <<syncing, stopRequested, kind, index, timerVars, historyVars>>

\* reTranscribeNote asks with the lock in its hand.
Confirmed(f) ==
    /\ At(f, "confirming")
    /\ Goto(f, "running") \/ Goto(f, "closing")
    /\ UNCHANGED <<syncing, stopRequested, kind, index, held, left, timerVars, historyVars>>

\* The frontmatter passes never ask shouldStop().
Stopping(f) == stopRequested /\ kind[f] # "pass"

\* One note, and the checkpoint of the run's whole index after it.
RunUnit(f) ==
    /\ At(f, "running") /\ left[f] > 0 /\ ~Stopping(f)
    /\ held' = [held EXCEPT ![f] = held[f] \cup {<<f, left[f]>>}]
    /\ index' = held'[f]
    /\ left' = [left EXCEPT ![f] = left[f] - 1]
    /\ UNCHANGED <<syncing, stopRequested, kind, pc, timerVars, historyVars>>

\* stopHere, which saves too.
StopRun(f) ==
    /\ At(f, "running") /\ left[f] > 0 /\ Stopping(f)
    /\ Goto(f, "closing") /\ stopped' = stopped \cup {f}
    /\ index' = held[f]
    /\ UNCHANGED <<syncing, stopRequested, kind, held, left, timerVars, dialog, asked, meant, leftTaken>>

\* The run's result becomes data.syncIndex; one that threw, or had nothing to do, leaves it as it is.
EndRun(f) ==
    /\ At(f, "running") /\ Goto(f, "closing")
    /\ \/ left[f] = 0 /\ index' = held[f]
       \/ UNCHANGED index
    /\ UNCHANGED <<syncing, stopRequested, kind, held, left, timerVars, historyVars>>

IsSync(f) == kind[f] \in {"sync", "auto"}

\* The finally of a run, with a session to close or without one.
AtEnd(f) == At(f, "closing") \/ At(f, "unopened")

\* session.close of a sync: its Readwise push, unless a stop was asked for; then the end of runSyncNow.
CloseSync(f) ==
    /\ AtEnd(f) /\ IsSync(f)
    /\ IF stopRequested
       THEN Release(f) /\ stopRequested' = FALSE /\ RearmAfterRun /\ UNCHANGED loaded
       ELSE Goto(f, "pushing") /\ UNCHANGED <<syncing, stopRequested, timerVars>>
    /\ UNCHANGED <<kind, index, held, left, historyVars>>

\* Mutant: no finally.
PushedLocked(f) ==
    /\ At(f, "pushing") /\ Goto(f, "done") /\ stopRequested' = FALSE /\ RearmAfterRun
    /\ UNCHANGED <<syncing, kind, index, held, left, loaded, historyVars>>

Pushed(f) ==
    /\ At(f, "pushing") /\ Release(f) /\ stopRequested' = FALSE /\ RearmAfterRun
    /\ UNCHANGED <<kind, index, held, left, loaded, historyVars>>

\* session.close of the others.  A re-transcribe that left digests to read goes on as a Sync now: the
\* lock it lets go of is taken again in the same breath.
CloseOther(f) ==
    /\ AtEnd(f) /\ ~IsSync(f)
    /\ \/ /\ Release(f) /\ UNCHANGED kind
          /\ stopRequested' = (kind[f] = "pass" /\ stopRequested)
       \/ /\ At(f, "closing") /\ kind[f] # "pass" /\ f \notin stopped
          /\ Goto(f, "licence") \/ Goto(f, "opening")
          /\ kind' = [kind EXCEPT ![f] = "sync"]
          /\ stopRequested' = FALSE /\ UNCHANGED syncing
    /\ UNCHANGED <<index, held, left, timerVars, historyVars>>

\* The tablet's session saves its hashes when it is closed, and the frontmatter pass its rows before that; where
\* the save is refused, nothing that stands after it in the finally is done.  A sync's caller lets go of the
\* lock all the same, with the flag as it is; no other has a caller who does.
CloseRefused(f) ==
    /\ At(f, "closing") \/ (At(f, "unopened") /\ kind[f] = "pass")
    /\ IF IsSync(f) THEN Release(f) /\ UNCHANGED leftTaken
       ELSE Goto(f, "done") /\ leftTaken' = leftTaken \cup {f} /\ UNCHANGED syncing
    /\ UNCHANGED <<stopRequested, kind, index, held, left, timerVars, stopVars>>

PushedAlone(f) ==
    /\ At(f, "lonePush") /\ Release(f)
    /\ UNCHANGED <<stopRequested, kind, index, held, left, timerVars, historyVars>>

-----------------------------------------------------------------------------
(* The user. *)

\* requestStop from the command, which only shows while something runs.
StopCommand ==
    /\ "stop" \in UserOps /\ loaded /\ syncing /\ stopRequested' = TRUE
    /\ asked' = asked \cup Holders /\ meant' = meant \cup Holders
    /\ UNCHANGED <<syncing, jobVars, timerVars, dialog, stopped, leftTaken>>

\* confirmStop, from the status bar, before its dialog.  (Over a lock left taken it asks for nobody's stop, as
\* the command does.)
OpenStopDialog ==
    /\ "dialog" \in UserOps /\ loaded /\ syncing /\ ~stopRequested /\ dialog = {} /\ dialog' = Holders
    /\ UNCHANGED <<syncing, stopRequested, jobVars, timerVars, stopped, asked, meant, leftTaken>>

\* And after it: requestStop does nothing when nothing is running.
ConfirmStop ==
    /\ dialog # {} /\ dialog' = {}
    /\ stopRequested' = (stopRequested \/ syncing)
    /\ asked' = asked \cup Holders /\ meant' = meant \cup dialog
    /\ UNCHANGED <<syncing, jobVars, timerVars, stopped, leftTaken>>

\* Mutant: the index is changed whatever runs.
ChangeAnyway(c) ==
    /\ loaded /\ c \notin index /\ index' = index \cup {c}
    /\ UNCHANGED <<syncing, stopRequested, kind, pc, held, left, timerVars, historyVars>>

\* onVaultRename, pushBookAgain: nothing while a run has the index in its hand.
ChangeIndex(c) ==
    /\ loaded /\ ~syncing /\ c \notin index
    /\ index' = index \cup {c}
    /\ UNCHANGED <<syncing, stopRequested, kind, pc, held, left, timerVars, historyVars>>

\* A change of the auto-sync settings re-arms the interval, or disarms it.
SetAutoSync ==
    /\ "setting" \in UserOps /\ loaded
    /\ Rearm \/ (live' = live \ {timer} /\ timer' = 0)
    /\ UNCHANGED <<syncing, stopRequested, jobVars, loaded, historyVars>>

\* onunload clears the interval it knows of; what is running runs on.
Unload ==
    /\ "unload" \in UserOps /\ loaded /\ loaded' = FALSE /\ live' = live \ {timer}
    /\ UNCHANGED <<syncing, stopRequested, jobVars, timer, historyVars>>
-----------------------------------------------------------------------------
Init ==
    /\ syncing = FALSE /\ stopRequested = FALSE
    /\ kind = [f \in Flows |-> "none"] /\ pc = [f \in Flows |-> "new"]
    /\ index = {} /\ held = [f \in Flows |-> {}] /\ left = [f \in Flows |-> 0]
    /\ loaded = TRUE /\ timer = 1 /\ live = {1}
    /\ dialog = {} /\ stopped = {} /\ asked = {} /\ meant = {} /\ leftTaken = {}

Step(f) == \/ Probed(f) \/ Gated(f) \/ Refreshed(f) \/ RefreshFailed(f) \/ Opened(f)
           \/ RunUnit(f) \/ StopRun(f) \/ EndRun(f)
           \/ CloseSync(f) \/ CloseOther(f) \/ CloseRefused(f) \/ Pushed(f) \/ PushedAlone(f)

User == \/ StopCommand \/ OpenStopDialog \/ ConfirmStop \/ SetAutoSync \/ Unload
        \/ \E c \in Changes : ChangeIndex(c)
        \/ \E f \in Flows : Answered(f) \/ Confirmed(f)

Next == (\E f \in Flows : Step(f) \/ \E k \in Kinds : Launch(f, k)) \/ User

Spec == Init /\ [][Next]_vars
\* Every await of a step is answered or times out; a dialog may stay open for ever.
FairSpec == Spec /\ \A f \in Flows : WF_vars(Step(f))
-----------------------------------------------------------------------------
(* Properties. *)

TypeOK ==
    /\ syncing \in BOOLEAN /\ stopRequested \in BOOLEAN /\ loaded \in BOOLEAN
    /\ kind \in [Flows -> AllKinds \cup {"none"}] /\ pc \in [Flows -> PCs]
    /\ index \subseteq Facts /\ held \in [Flows -> SUBSET Facts] /\ left \in [Flows -> 0 .. Units]
    /\ timer \in Nat /\ live \subseteq Nat
    /\ dialog \subseteq Flows /\ stopped \subseteq Flows /\ asked \subseteq Flows /\ meant \subseteq Flows
    /\ leftTaken \subseteq Flows

\* Whatever is launched while whatever waits, no two runs, re-transcribes, frontmatter passes or pushes are
\* inside the lock at once, and it is taken exactly while one is inside or one is gone without letting go of it:
\* a re-transcription or a pass whose session could not be closed, whom nobody ever gets in after (claimRun).
OneRunAtATime ==
    /\ \A f, g \in Hands : f = g
    /\ Holders \cap leftTaken = {}
    /\ syncing <=> Hands # {}

\* What claimRun says of its lock: "Whoever claims it releases it."
ClaimIsReleased == syncing => Holders # {}

\* Nothing recorded in the index is ever lost to a run that saves a copy taken before it: neither a
\* note's new path, nor a book to push again, nor another run's rows (onVaultRename, pushBookAgain).
NothingForgotten == [][index \subseteq index']_vars

\* The activations together are one writer at a time of an index that only learns: what is inside the
\* lock is the abstract specification's writer, whatever it is and however it got there (claimRun,
\* triggerAutoSync's own taking of the lock, setFrontmatterEnabled's).
Index == INSTANCE OneWriter WITH Writers <- Flows, writer <- Holders
IsOneWriter == Index!Spec

\* A run stops early only if a stop was requested while that very run was in flight -- a flag left over
\* from an earlier one "must not carry over and kill the next one" -- and then it pushes nothing.
StopsAreAsked == stopped \subseteq asked /\ \A f \in stopped : pc[f] # "pushing"

\* However often runs and settings re-arm it, there is one interval at most, and it is the one onunload
\* knows of (rearmAutoSyncInterval).
OneInterval == live \subseteq {timer}

\* The lock is not held for ever, except by a dialog nobody answers, or by one whose session could not be closed.
LockIsFreed == []<>(~syncing \/ leftTaken # {} \/ \E f \in Flows : pc[f] = "confirming")
=============================================================================
