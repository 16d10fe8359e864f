-------------------------- MODULE RunControlProofs --------------------------
(***************************************************************************)
(* What RunControl guarantees for any number of activations, of any kinds, *)
(* with any behaviour of the user.                                         *)
(***************************************************************************)
EXTENDS RunControl, FiniteSetTheorems, TLAPS

\* However often runs and settings re-arm the interval, at most one is ever armed, the one onunload
\* would clear (rearmAutoSyncInterval).
THEOREM AtMostOneInterval == Spec => []OneInterval
<1>1. Init => OneInterval
  BY DEF Init, OneInterval
<1>2. OneInterval /\ [Next]_vars => OneInterval'
  <2> SUFFICES ASSUME OneInterval, [Next]_vars PROVE OneInterval'
    OBVIOUS
  <2>1. CASE UNCHANGED timerVars
    BY <2>1 DEF OneInterval, timerVars
  <2>2. CASE RearmAfterRun \/ Rearm
    BY <2>2 DEF OneInterval, Rearm, RearmAfterRun
  <2>3. CASE SetAutoSync \/ Unload
    BY <2>2, <2>3 DEF SetAutoSync, Unload, OneInterval
  <2>4. ASSUME NEW f \in Flows, Step(f) \/ \E k \in Kinds : Launch(f, k) PROVE OneInterval'
    BY <2>1, <2>2, <2>4
       DEF Step, Launch, Probed, Gated, Refreshed, RefreshFailed, Opened, RunUnit, StopRun, EndRun, CloseSync, AtEnd, CloseOther, CloseRefused, Pushed, PushedAlone
  <2>5. CASE User
    BY <2>1, <2>3, <2>5 DEF User, StopCommand, OpenStopDialog, ConfirmStop, ChangeIndex, Answered, Confirmed
  <2>6. CASE UNCHANGED vars
    BY <2>1, <2>6 DEF vars
  <2> QED BY <2>4, <2>5, <2>6 DEF Next
<1> QED BY <1>1, <1>2, PTL DEF Spec

\* A number is free for the next interval.
LEMMA FreshTimer == ASSUME OneInterval PROVE NewTimer \in Nat /\ NewTimer \notin live
<1>1. IsFiniteSet(live)
  BY FS_Singleton, FS_Subset DEF OneInterval
<1>2. Cardinality(live) \in Nat
  BY <1>1, FS_CardinalityType
<1>3. \E i \in 1 .. Cardinality(live) + 1 : i \notin live
  <2>1. SUFFICES ASSUME 1 .. Cardinality(live) + 1 \subseteq live PROVE FALSE
    OBVIOUS
  <2>2. Cardinality(1 .. Cardinality(live) + 1) = Cardinality(live) + 1
    BY <1>2, FS_Interval
  <2>3. Cardinality(1 .. Cardinality(live) + 1) <= Cardinality(live)
    BY <1>1, <2>1, FS_Subset
  <2> QED BY <1>2, <2>2, <2>3
<1> QED BY <1>2, <1>3 DEF NewTimer

-----------------------------------------------------------------------------
LEMMA LaunchTyped == ASSUME TypeOK, NEW f \in Flows, NEW k \in Kinds, Launch(f, k) PROVE TypeOK'
<1>1. k \in AllKinds
  BY RunControlAssumption
<1>2. /\ kind' = [kind EXCEPT ![f] = k]
      /\ syncing' \in BOOLEAN /\ stopRequested' \in BOOLEAN
      /\ \E p \in PCs : pc' = [pc EXCEPT ![f] = p]
      /\ UNCHANGED <<index, held, left, timerVars, historyVars>>
  BY DEF TypeOK, Launch, Claim, Enter, Goto, PCs, LockedPCs
<1> QED BY <1>1, <1>2 DEF TypeOK, timerVars, historyVars, stopVars

LEMMA ClaimTyped == ASSUME TypeOK, NEW f \in Flows, NEW k, Claim(f, k)
                    PROVE  pc' \in [Flows -> PCs] /\ syncing' \in BOOLEAN /\ stopRequested' \in BOOLEAN
  BY DEF TypeOK, Claim, Enter, Goto, PCs, LockedPCs

LEMMA RearmTyped == ASSUME TypeOK, OneInterval, Rearm \/ RearmAfterRun PROVE live' \subseteq Nat /\ timer' \in Nat
  BY FreshTimer DEF TypeOK, Rearm, RearmAfterRun

LEMMA GotoTyped == ASSUME TypeOK, NEW f \in Flows, NEW label \in PCs, Goto(f, label) PROVE pc' \in [Flows -> PCs]
  BY DEF TypeOK, Goto

LEMMA StepTyped == ASSUME TypeOK, OneInterval, NEW f \in Flows, Step(f) PROVE TypeOK'
<1> USE DEF historyVars, stopVars, timerVars
<1>1. {"new", "probing", "gating", "asking", "done", "licence", "opening", "confirming", "running", "unopened", "closing", "pushing", "lonePush"} = PCs
  BY DEF PCs, LockedPCs
<1>2. CASE Probed(f)
  BY <1>1, <1>2, GotoTyped DEF TypeOK, Probed
<1>3. CASE Gated(f)
  BY <1>1, <1>3, ClaimTyped, GotoTyped DEF TypeOK, Gated
<1>4. CASE Refreshed(f)
  BY <1>1, <1>4, GotoTyped DEF TypeOK, Refreshed
<1>5. CASE Opened(f)
  <2>1. pc' \in [Flows -> PCs]
    BY <1>1, <1>5, GotoTyped DEF Opened
  <2>2. held' \in [Flows -> SUBSET Facts] /\ left' \in [Flows -> 0 .. Units]
    BY <1>5, RunControlAssumption DEF TypeOK, Opened
  <2> QED BY <1>5, <2>1, <2>2 DEF TypeOK, Opened
<1>6. CASE RunUnit(f)
  <2>1. left[f] \in 1 .. Units /\ <<f, left[f]>> \in Facts
    BY <1>6, RunControlAssumption DEF TypeOK, RunUnit, Facts
  <2>2. held' \in [Flows -> SUBSET Facts] /\ left' \in [Flows -> 0 .. Units]
    BY <1>6, <2>1, RunControlAssumption DEF TypeOK, RunUnit
  <2> QED BY <1>6, <2>2 DEF TypeOK, RunUnit
<1>7. CASE StopRun(f)
  BY <1>1, <1>7, GotoTyped DEF TypeOK, StopRun
<1>8. CASE EndRun(f)
  BY <1>1, <1>8, GotoTyped DEF TypeOK, EndRun
<1>9. CASE CloseSync(f)
  BY <1>1, <1>9, GotoTyped, RearmTyped DEF TypeOK, CloseSync, AtEnd, Release
<1>10. CASE CloseOther(f)
  <2>1. "sync" \in AllKinds
    BY DEF AllKinds
  <2>2. pc' \in [Flows -> PCs] /\ syncing' \in BOOLEAN
    BY <1>1, <1>10, GotoTyped DEF TypeOK, CloseOther, Release
  <2>3. kind' \in [Flows -> AllKinds \cup {"none"}] /\ stopRequested' \in BOOLEAN
    BY <1>10, <2>1 DEF TypeOK, CloseOther
  <2> QED BY <1>10, <2>2, <2>3 DEF TypeOK, CloseOther
<1>11. CASE Pushed(f)
  BY <1>1, <1>11, GotoTyped, RearmTyped DEF TypeOK, Pushed, Release
<1>12. CASE PushedAlone(f)
  BY <1>1, <1>12, GotoTyped DEF TypeOK, PushedAlone, Release
<1>13. CASE RefreshFailed(f)
  BY <1>1, <1>13, GotoTyped DEF TypeOK, RefreshFailed, Release
<1>14. CASE CloseRefused(f)
  <2>1. Goto(f, "done") /\ (syncing' = FALSE \/ syncing' = syncing) /\ leftTaken' \in {leftTaken, leftTaken \cup {f}}
    BY <1>14 DEF CloseRefused, Release
  <2>2. pc' \in [Flows -> PCs] /\ syncing' \in BOOLEAN /\ leftTaken' \subseteq Flows
    BY <1>1, <2>1, GotoTyped DEF TypeOK
  <2> QED BY <1>14, <2>2 DEF TypeOK, CloseRefused
<1> QED BY <1>2, <1>3, <1>4, <1>5, <1>6, <1>7, <1>8, <1>9, <1>10, <1>11, <1>12, <1>13, <1>14 DEF Step

LEMMA UserTyped == ASSUME TypeOK, OneInterval, User PROVE TypeOK'
<1> USE DEF historyVars, stopVars, timerVars, jobVars
<1>1. CASE StopCommand \/ OpenStopDialog \/ ConfirmStop
  BY <1>1 DEF TypeOK, StopCommand, OpenStopDialog, ConfirmStop, Holders
<1>2. CASE SetAutoSync \/ Unload
  <2>0. Rearm \/ (live' = live \ {timer} /\ timer' \in {0, timer})
    BY <1>2, Zenon DEF SetAutoSync, Unload
  <2>1. live' \subseteq Nat /\ timer' \in Nat
    <3>1. CASE Rearm
      BY <3>1, RearmTyped
    <3>2. CASE live' = live \ {timer} /\ timer' \in {0, timer}
      BY <3>2 DEF TypeOK
    <3> QED BY <2>0, <3>1, <3>2
  <2>2. loaded' \in BOOLEAN /\ UNCHANGED <<syncing, stopRequested, jobVars, historyVars>>
    BY <1>2 DEF TypeOK, SetAutoSync, Unload
  <2> QED BY <2>1, <2>2 DEF TypeOK
<1>3. ASSUME NEW c \in Changes, ChangeIndex(c) PROVE TypeOK'
  BY <1>3 DEF TypeOK, ChangeIndex, Facts
<1>4. ASSUME NEW f \in Flows, Answered(f) \/ Confirmed(f) PROVE TypeOK'
  <2>1. {"done", "running", "closing"} \subseteq PCs
    BY DEF PCs, LockedPCs
  <2> QED BY <1>4, <2>1, ClaimTyped, GotoTyped DEF TypeOK, Answered, Confirmed
<1> QED BY <1>1, <1>2, <1>3, <1>4 DEF User

\* Every reachable state is well typed, with the number of notes a run has left never below zero.
THEOREM TypeCorrect == Spec => []TypeOK
<1>1. Init => TypeOK
  <2> SUFFICES ASSUME Init PROVE TypeOK
    OBVIOUS
  <2>1. kind \in [Flows -> AllKinds \cup {"none"}] /\ pc \in [Flows -> PCs]
    BY DEF Init, PCs
  <2>2. held \in [Flows -> SUBSET Facts] /\ left \in [Flows -> 0 .. Units]
    BY RunControlAssumption DEF Init
  <2>3. index = {} /\ dialog = {} /\ stopped = {} /\ asked = {} /\ meant = {} /\ leftTaken = {} /\ timer = 1 /\ live = {1}
    BY DEF Init
  <2>4. syncing \in BOOLEAN /\ stopRequested \in BOOLEAN /\ loaded \in BOOLEAN
    BY Zenon DEF Init
  <2> QED BY <2>1, <2>2, <2>3, <2>4 DEF TypeOK
<1>2. TypeOK /\ OneInterval /\ [Next]_vars => TypeOK'
  <2>1. TypeOK /\ UNCHANGED vars => TypeOK'
    BY DEF TypeOK, vars, jobVars, timerVars, historyVars, stopVars
  <2> QED BY <2>1, LaunchTyped, StepTyped, UserTyped DEF Next
<1> QED BY <1>1, <1>2, AtMostOneInterval, PTL DEF Spec

-----------------------------------------------------------------------------
(* The lock.  Every step either leaves the lock alone or is one of four moves of one activation. *)

Moves(f) == \E label \in PCs : Goto(f, label) /\ (label \in LockedPCs <=> Locked(f)) /\ UNCHANGED <<syncing, leftTaken>>
Takes(f) == \E label \in LockedPCs : Goto(f, label) /\ syncing = FALSE /\ syncing' = TRUE /\ UNCHANGED leftTaken
Frees(f) == Goto(f, "done") /\ Locked(f) /\ syncing' = FALSE /\ UNCHANGED leftTaken
Leaves(f) == Goto(f, "done") /\ Locked(f) /\ UNCHANGED syncing /\ leftTaken' = leftTaken \cup {f}

LockMove(f) == Moves(f) \/ Takes(f) \/ Frees(f) \/ Leaves(f)
LockAlone == UNCHANGED <<pc, syncing, leftTaken>>

LEMMA MoverAlone == ASSUME TypeOK, NEW f \in Flows, NEW label \in PCs, Goto(f, label)
                    PROVE  /\ label \in LockedPCs => Holders' = Holders \cup {f}
                           /\ label \notin LockedPCs => Holders' = Holders \ {f}
  BY DEF TypeOK, Goto, Holders, Locked

\* Who is inside after each of the four, and that the lock stays in one hand at most.
LEMMA HoldersMove == ASSUME TypeOK, OneRunAtATime, NEW f \in Flows
                     PROVE  /\ Moves(f) => Holders' = Holders
                            /\ Takes(f) => Holders = {} /\ Holders' = {f}
                            /\ Frees(f) \/ Leaves(f) => Holders = {f} /\ Holders' = {}
<1>1. ASSUME Moves(f) PROVE Holders' = Holders
  <2>1. PICK label \in PCs : Goto(f, label) /\ (label \in LockedPCs <=> Locked(f))
    BY <1>1 DEF Moves
  <2>2. f \in Holders <=> Locked(f)
    BY DEF Holders
  <2> QED BY <2>1, <2>2, MoverAlone
<1>2. ASSUME Takes(f) PROVE Holders = {} /\ Holders' = {f}
  <2>1. PICK label \in LockedPCs : Goto(f, label)
    BY <1>2 DEF Takes
  <2>2. Holders = {}
    BY <1>2 DEF Takes, OneRunAtATime, Hands
  <2> QED BY <2>1, <2>2, MoverAlone DEF PCs
<1>3. ASSUME Frees(f) \/ Leaves(f) PROVE Holders = {f} /\ Holders' = {}
  <2>1. Goto(f, "done") /\ Locked(f) /\ "done" \in PCs \ LockedPCs
    BY <1>3 DEF Frees, Leaves, PCs, LockedPCs
  <2>2. Holders = {f}
    BY <2>1 DEF OneRunAtATime, Hands, Holders
  <2> QED BY <2>1, <2>2, MoverAlone
<1> QED BY <1>1, <1>2, <1>3

LEMMA LockMoves == ASSUME TypeOK, OneRunAtATime, NEW f \in Flows, LockMove(f) PROVE OneRunAtATime'
<1>1. CASE Moves(f)
  BY <1>1, HoldersMove DEF Moves, OneRunAtATime, Hands
<1>2. CASE Takes(f)
  <2>1. Hands = {} /\ leftTaken' = {} /\ syncing' = TRUE
    BY <1>2 DEF Takes, OneRunAtATime, Hands
  <2> QED BY <1>2, <2>1, HoldersMove DEF OneRunAtATime, Hands
<1>3. CASE Frees(f) \/ Leaves(f)
  <2>1. Holders = {f} /\ Holders' = {} /\ leftTaken = {} /\ syncing
    BY <1>3, HoldersMove DEF OneRunAtATime, Hands
  <2>2. (syncing' = FALSE /\ leftTaken' = {}) \/ (syncing' = syncing /\ leftTaken' = {f})
    BY <1>3, <2>1 DEF Frees, Leaves
  <2> QED BY <2>1, <2>2 DEF OneRunAtATime, Hands
<1> QED BY <1>1, <1>2, <1>3 DEF LockMove

LEMMA ClaimMoves == ASSUME TypeOK, NEW f \in Flows, NEW k, ~Locked(f), Claim(f, k), UNCHANGED leftTaken PROVE Moves(f) \/ Takes(f)
<1>1. {"licence", "opening"} \subseteq LockedPCs /\ "done" \in PCs /\ "done" \notin LockedPCs
  BY DEF PCs, LockedPCs
<1>2. CASE syncing
  BY <1>1, <1>2 DEF Claim, Moves
<1>3. CASE ~syncing
  <2>1. syncing = FALSE
    BY <1>3 DEF TypeOK
  <2>2. (Goto(f, "licence") \/ Goto(f, "opening")) /\ syncing' = TRUE
    BY <1>3 DEF Claim, Enter
  <2> QED BY <1>1, <2>1, <2>2 DEF Takes
<1> QED BY <1>2, <1>3

LEMMA LaunchMoves == ASSUME TypeOK, NEW f \in Flows, NEW k, Launch(f, k) PROVE LockMove(f)
<1>1. ~Locked(f) /\ UNCHANGED leftTaken
  BY DEF Launch, At, Locked, LockedPCs, historyVars
<1>2. CASE k \in {"auto", "all"}
  <2>1. \E label \in {"done", "probing", "asking"} : Goto(f, label) /\ UNCHANGED syncing
    BY <1>2 DEF Launch
  <2> QED BY <1>1, <2>1 DEF LockMove, Moves, PCs, LockedPCs
<1>3. CASE k \notin {"auto", "all"}
  BY <1>1, <1>3, ClaimMoves DEF Launch, LockMove
<1> QED BY <1>2, <1>3

LEMMA StepMoves == ASSUME TypeOK, NEW f \in Flows, Step(f) PROVE LockMove(f) \/ LockAlone
<1> USE DEF LockMove
<1>1. CASE Probed(f)
  <2>1. ~Locked(f) /\ UNCHANGED leftTaken
    BY <1>1 DEF Probed, At, Locked, LockedPCs, historyVars
  <2>2. \/ \E label \in {"gating", "done"} : Goto(f, label) /\ UNCHANGED syncing
        \/ ~syncing /\ syncing' = TRUE /\ Goto(f, "lonePush")
    BY <1>1 DEF Probed
  <2>3. ~syncing => syncing = FALSE
    BY DEF TypeOK
  <2> QED BY <2>1, <2>2, <2>3 DEF Moves, Takes, PCs, LockedPCs
<1>2. CASE Gated(f)
  <2>1. ~Locked(f) /\ UNCHANGED leftTaken
    BY <1>2 DEF Gated, At, Locked, LockedPCs, historyVars
  <2>2. Claim(f, "auto") \/ (Goto(f, "done") /\ UNCHANGED syncing)
    BY <1>2 DEF Gated
  <2> QED BY <2>1, <2>2, ClaimMoves DEF Moves, PCs, LockedPCs
<1>3. CASE Refreshed(f) \/ Opened(f) \/ StopRun(f) \/ EndRun(f)
  <2>1. Locked(f) /\ UNCHANGED leftTaken
    BY <1>3 DEF Refreshed, Opened, StopRun, EndRun, At, Locked, LockedPCs, historyVars
  <2>2. \E label \in {"opening", "confirming", "running", "unopened", "closing"} : Goto(f, label) /\ UNCHANGED syncing
    BY <1>3 DEF Refreshed, Opened, StopRun, EndRun
  <2> QED BY <2>1, <2>2 DEF Moves, PCs, LockedPCs
<1>4. CASE RunUnit(f)
  BY <1>4 DEF RunUnit, LockAlone, historyVars
<1>5. CASE RefreshFailed(f) \/ CloseSync(f) \/ CloseOther(f) \/ Pushed(f) \/ PushedAlone(f)
  <2>1. Locked(f) /\ UNCHANGED leftTaken
    BY <1>5 DEF RefreshFailed, CloseSync, CloseOther, AtEnd, Pushed, PushedAlone, At, Locked, LockedPCs, historyVars
  <2>2. \/ Goto(f, "done") /\ syncing' = FALSE
        \/ \E label \in {"pushing", "licence", "opening", "unopened"} : Goto(f, label) /\ UNCHANGED syncing
    BY <1>5, Zenon DEF RefreshFailed, CloseSync, CloseOther, Pushed, PushedAlone, Release
  <2> QED BY <2>1, <2>2 DEF Moves, Frees, PCs, LockedPCs
<1>6. CASE CloseRefused(f)
  <2>1. Locked(f)
    BY <1>6 DEF CloseRefused, At, Locked, LockedPCs
  <2> QED BY <1>6, <2>1 DEF CloseRefused, Release, Frees, Leaves
<1> QED BY <1>1, <1>2, <1>3, <1>4, <1>5, <1>6 DEF Step

LEMMA UserMoves == ASSUME TypeOK, User PROVE LockAlone \/ \E f \in Flows : LockMove(f)
<1>1. ASSUME NEW f \in Flows, Answered(f) PROVE LockMove(f)
  <2>1. ~Locked(f) /\ UNCHANGED leftTaken
    BY <1>1 DEF Answered, At, Locked, LockedPCs, historyVars
  <2>2. Claim(f, "all") \/ (Goto(f, "done") /\ UNCHANGED syncing)
    BY <1>1 DEF Answered
  <2> QED BY <2>1, <2>2, ClaimMoves DEF LockMove, Moves, PCs, LockedPCs
<1>2. ASSUME NEW f \in Flows, Confirmed(f) PROVE LockMove(f)
  BY <1>2 DEF Confirmed, At, Locked, LockMove, Moves, PCs, LockedPCs, historyVars
<1>3. CASE StopCommand \/ OpenStopDialog \/ ConfirmStop \/ (\E c \in Changes : ChangeIndex(c)) \/ SetAutoSync \/ Unload
  BY <1>3 DEF StopCommand, OpenStopDialog, ConfirmStop, ChangeIndex, SetAutoSync, Unload, jobVars, historyVars, LockAlone
<1> QED BY <1>1, <1>2, <1>3 DEF User

LEMMA NextMoves == ASSUME TypeOK, [Next]_vars PROVE LockAlone \/ \E f \in Flows : LockMove(f)
<1>1. UNCHANGED vars => LockAlone
  BY DEF vars, jobVars, historyVars, LockAlone
<1> QED BY <1>1, LaunchMoves, StepMoves, UserMoves DEF Next

\* For any number of activations of any kind, however they interleave and whatever is refused them: at most
\* one is inside the lock; it is taken while one is; and when none is, it is free, unless a re-transcription or
\* a frontmatter pass whose end was refused has left it taken, after which nobody is ever inside again
\* (claimRun, and the finally of each holder).
THEOREM LockIsExclusive == Spec => []OneRunAtATime
<1>1. Init => OneRunAtATime
  BY DEF Init, OneRunAtATime, Hands, Holders, Locked, LockedPCs
<1>2. TypeOK /\ OneRunAtATime /\ [Next]_vars => OneRunAtATime'
  <2> SUFFICES ASSUME TypeOK, OneRunAtATime, [Next]_vars PROVE OneRunAtATime'
    OBVIOUS
  <2>1. LockAlone => OneRunAtATime'
    BY DEF LockAlone, OneRunAtATime, Hands, Holders, Locked
  <2> QED BY <2>1, NextMoves, LockMoves
<1> QED BY <1>1, <1>2, TypeCorrect, PTL DEF Spec

-----------------------------------------------------------------------------
(* The index.  A run works on a copy for minutes: the lock is what keeps the copy complete. *)

HeldIsComplete == \A f \in Flows : pc[f] \in {"confirming", "running"} => index \subseteq held[f]

LEMMA IndexStep == ASSUME TypeOK, OneRunAtATime, HeldIsComplete, NEW f \in Flows, Step(f)
                   PROVE  HeldIsComplete' /\ index \subseteq index'
<1> USE DEF HeldIsComplete, At, Goto, TypeOK
<1>1. CASE Opened(f)
  BY <1>1 DEF Opened
<1>2. CASE RunUnit(f)
  <2>1. Locked(f) /\ \A g \in Flows : pc[g] \in {"confirming", "running"} => g = f
    BY <1>2 DEF RunUnit, OneRunAtATime, Hands, Holders, Locked, LockedPCs
  <2>2. index' = held'[f] /\ held'[f] = held[f] \cup {<<f, left[f]>>} /\ pc[f] = "running" /\ pc' = pc
    BY <1>2 DEF RunUnit
  <2> QED BY <2>1, <2>2
<1>3. CASE StopRun(f) \/ EndRun(f)
  <2>1. \A g \in Flows : pc[g] \in {"confirming", "running"} => g = f
    BY <1>3 DEF StopRun, EndRun, OneRunAtATime, Hands, Holders, Locked, LockedPCs
  <2>2. pc[f] = "running" /\ pc' = [pc EXCEPT ![f] = "closing"] /\ (index' = held[f] \/ index' = index)
    BY <1>3 DEF StopRun, EndRun
  <2> QED BY <2>1, <2>2
<1>4. CASE Probed(f) \/ Gated(f) \/ Refreshed(f) \/ RefreshFailed(f) \/ CloseSync(f) \/ CloseOther(f) \/ CloseRefused(f) \/ Pushed(f) \/ PushedAlone(f)
  <2>1. /\ \E label \in PCs \ {"confirming", "running"} : pc' = [pc EXCEPT ![f] = label]
        /\ UNCHANGED <<index, held>>
    BY <1>4 DEF Probed, Gated, Refreshed, RefreshFailed, CloseSync, AtEnd, CloseOther, CloseRefused, Pushed, PushedAlone, Claim, Enter, Release, PCs, LockedPCs
  <2> QED BY <2>1
<1> QED BY <1>1, <1>2, <1>3, <1>4 DEF Step

LEMMA IndexOther == ASSUME TypeOK, OneRunAtATime, HeldIsComplete,
                           User \/ (\E f \in Flows, k \in Kinds : Launch(f, k)) \/ UNCHANGED vars
                    PROVE  HeldIsComplete' /\ index \subseteq index'
<1> USE DEF HeldIsComplete, At, Goto, TypeOK
<1>1. ASSUME NEW f \in Flows, NEW k, Launch(f, k) PROVE HeldIsComplete' /\ index \subseteq index'
  <2>1. /\ \E label \in PCs \ {"confirming", "running"} : pc' = [pc EXCEPT ![f] = label]
        /\ UNCHANGED <<index, held>>
    BY <1>1 DEF Launch, Claim, Enter, PCs, LockedPCs
  <2> QED BY <2>1
<1>2. ASSUME NEW f \in Flows, Answered(f) \/ Confirmed(f) PROVE HeldIsComplete' /\ index \subseteq index'
  <2>1. /\ \E label \in PCs : pc' = [pc EXCEPT ![f] = label] /\ (label \in {"confirming", "running"} => pc[f] = "confirming")
        /\ UNCHANGED <<index, held>>
    BY <1>2 DEF Answered, Confirmed, Claim, Enter, PCs, LockedPCs
  <2> QED BY <2>1
<1>3. ASSUME NEW c \in Changes, ChangeIndex(c) PROVE HeldIsComplete' /\ index \subseteq index'
  <2>1. \A f \in Flows : pc[f] \notin {"confirming", "running"}
    BY <1>3 DEF ChangeIndex, OneRunAtATime, Hands, Holders, Locked, LockedPCs
  <2> QED BY <1>3, <2>1 DEF ChangeIndex
<1>4. CASE StopCommand \/ OpenStopDialog \/ ConfirmStop \/ SetAutoSync \/ Unload \/ UNCHANGED vars
  BY <1>4 DEF StopCommand, OpenStopDialog, ConfirmStop, SetAutoSync, Unload, vars, jobVars
<1> QED BY <1>1, <1>2, <1>3, <1>4 DEF User

\* The copy of the index a run works on never lacks what the index knows.
LEMMA CopiesAreComplete == Spec => []HeldIsComplete
<1>1. Init => HeldIsComplete
  BY DEF Init, HeldIsComplete
<1>2. TypeOK /\ OneRunAtATime /\ HeldIsComplete /\ [Next]_vars => HeldIsComplete'
  BY IndexStep, IndexOther DEF Next
<1> QED BY <1>1, <1>2, TypeCorrect, LockIsExclusive, PTL DEF Spec

\* What is once recorded in data.syncIndex stays recorded: no run ever saves a copy that lacks another
\* run's notes, a renamed note's path or a book to push again (checkpoints, onVaultRename, pushBookAgain).
THEOREM NothingIsForgotten == Spec => NothingForgotten
<1>1. TypeOK /\ OneRunAtATime /\ HeldIsComplete /\ [Next]_vars => index \subseteq index'
  BY IndexStep, IndexOther DEF Next
<1> QED BY <1>1, TypeCorrect, LockIsExclusive, CopiesAreComplete, PTL DEF Spec, NothingForgotten

-----------------------------------------------------------------------------
(* The stop.  The flag outlives a run only where the next one clears it before it looks. *)

\* Where a run that heeds the flag may find it set: not before runSyncNow has cleared it.
Heeding(f) == Locked(f) /\ kind[f] # "pass" /\ pc[f] # "lonePush" /\ ~(pc[f] = "licence" /\ kind[f] = "sync")

FlagIsAsked ==
    \A f \in Flows : /\ stopRequested /\ Heeding(f) => f \in asked
                     /\ f \in stopped => f \in asked /\ (pc[f] = "done" \/ (pc[f] = "closing" /\ stopRequested))

LEMMA EnterFlag == ASSUME TypeOK, OneRunAtATime, FlagIsAsked, NEW f \in Flows, pc[f] \in {"new", "gating", "asking"}, NEW k,
                          Claim(f, k), kind' = kind \/ kind' = [kind EXCEPT ![f] = k], k \in {"auto", "all"} \/ kind'[f] = k,
                          UNCHANGED <<stopped, asked>>
                   PROVE  FlagIsAsked'
<1> USE DEF TypeOK, Goto, Heeding, Locked, FlagIsAsked
<1>1. f \notin stopped
  OBVIOUS
<1>2. CASE syncing
  <2>1. pc' = [pc EXCEPT ![f] = "done"] /\ stopRequested' = stopRequested
    BY <1>2 DEF Claim
  <2> QED BY <1>1, <2>1 DEF LockedPCs
<1>3. CASE ~syncing
  <2>1. \A g \in Flows : ~Locked(g)
    BY <1>3 DEF OneRunAtATime, Hands, Holders
  <2>2. /\ pc' = [pc EXCEPT ![f] = "licence"] \/ pc' = [pc EXCEPT ![f] = "opening"]
        /\ stopRequested' => k = "pass" \/ (k = "sync" /\ pc'[f] = "licence")
    BY <1>3, RunControlAssumption DEF Claim, Enter
  <2>3. \A g \in stopped : pc'[g] = "done"
    BY <1>1, <2>1, <2>2 DEF LockedPCs
  <2>4. \A g \in Flows : Heeding(g)' => g = f
    BY <2>1, <2>2
  <2> QED BY <2>2, <2>3, <2>4
<1> QED BY <1>2, <1>3

\* A step of a run with the lock: the others have nothing the flag could reach.
LEMMA HolderAlone == ASSUME TypeOK, OneRunAtATime, FlagIsAsked, NEW f \in Flows, Locked(f)
                     PROVE  \A g \in Flows : g # f => ~Locked(g) /\ (g \in stopped => pc[g] = "done")
  BY DEF OneRunAtATime, Hands, Holders, FlagIsAsked, Locked, LockedPCs

LEMMA FlagStep == ASSUME TypeOK, OneRunAtATime, FlagIsAsked, NEW f \in Flows, Step(f) PROVE FlagIsAsked'
<1> USE DEF At, Goto, TypeOK
<1>1. CASE Probed(f)
  BY <1>1 DEF Probed, FlagIsAsked, Heeding, Locked, LockedPCs, historyVars, stopVars
<1>2. CASE Gated(f)
  <2>1. CASE Claim(f, "auto")
    BY <1>2, <2>1, EnterFlag DEF Gated, historyVars, stopVars
  <2>2. CASE pc' = [pc EXCEPT ![f] = "done"] /\ UNCHANGED stopRequested
    BY <1>2, <2>2 DEF Gated, FlagIsAsked, Heeding, Locked, LockedPCs, historyVars, stopVars
  <2> QED BY <1>2, <2>1, <2>2 DEF Gated
<1>3. CASE Refreshed(f) \/ Opened(f) \/ RunUnit(f) \/ EndRun(f) \/ StopRun(f)
  <2>1. /\ Locked(f) /\ pc[f] # "lonePush" /\ pc[f] # "closing" /\ kind' = kind /\ asked' = asked
        /\ \A g \in Flows : g # f => pc'[g] = pc[g]
        /\ stopRequested' => stopRequested /\ ~(pc[f] = "licence" /\ kind[f] = "sync")
        /\ stopped' = stopped \/ (/\ stopped' = stopped \cup {f} /\ pc'[f] = "closing"
                                 /\ stopRequested /\ stopRequested' = stopRequested /\ Heeding(f))
    <3>1. CASE StopRun(f)
      BY <3>1 DEF StopRun, Stopping, Heeding, Locked, LockedPCs
    <3>2. CASE Refreshed(f)
      BY <3>2 DEF Refreshed, Locked, LockedPCs, historyVars, stopVars
    <3>3. CASE Opened(f) \/ RunUnit(f) \/ EndRun(f)
      BY <3>3 DEF Opened, RunUnit, EndRun, Locked, LockedPCs, historyVars, stopVars
    <3> QED BY <1>3, <3>1, <3>2, <3>3
  <2>2. f \notin stopped
    BY <2>1 DEF FlagIsAsked, Locked, LockedPCs
  <2>3. \A g \in Flows : g # f => ~Locked(g) /\ (g \in stopped => pc[g] = "done")
    BY <2>1, HolderAlone
  <2>4. \A g \in Flows : g # f => ~Heeding(g)' /\ pc'[g] = pc[g]
    BY <2>1, <2>3 DEF Heeding, Locked
  <2> QED BY <2>1, <2>2, <2>3, <2>4 DEF FlagIsAsked, Heeding
<1>4. CASE CloseSync(f) \/ CloseOther(f) \/ CloseRefused(f) \/ Pushed(f) \/ PushedAlone(f)
  <2>1. Locked(f) /\ stopped' = stopped /\ asked' = asked
    BY <1>4 DEF CloseSync, AtEnd, CloseOther, CloseRefused, Pushed, PushedAlone, Locked, LockedPCs, historyVars, stopVars
  <2>2. \/ pc' = [pc EXCEPT ![f] = "done"] /\ kind' = kind
        \/ stopRequested' = FALSE /\ f \notin stopped /\ \E label \in PCs : pc' = [pc EXCEPT ![f] = label]
    BY <1>4 DEF CloseSync, AtEnd, CloseOther, CloseRefused, Pushed, PushedAlone, Release, PCs, LockedPCs, FlagIsAsked
  <2>3. \A g \in Flows : g # f => ~Locked(g) /\ (g \in stopped => pc[g] = "done")
    BY <2>1, HolderAlone
  <2>4. \A g \in Flows : g # f => ~Heeding(g)' /\ pc'[g] = pc[g]
    BY <2>2, <2>3 DEF Heeding, Locked
  <2> QED BY <2>1, <2>2, <2>3, <2>4 DEF FlagIsAsked, Heeding, Locked, LockedPCs
<1>5. CASE RefreshFailed(f)
  <2>1. /\ Locked(f) /\ pc[f] = "licence" /\ kind' = kind /\ asked' = asked /\ stopped' = stopped
        /\ stopRequested' = stopRequested
        /\ \/ pc' = [pc EXCEPT ![f] = "done"]
           \/ kind[f] # "sync" /\ pc' = [pc EXCEPT ![f] = "unopened"]
    BY <1>5 DEF RefreshFailed, Release, Locked, LockedPCs, historyVars, stopVars
  <2>2. f \notin stopped
    BY <2>1 DEF FlagIsAsked
  <2>3. \A g \in Flows : g # f => ~Locked(g) /\ (g \in stopped => pc[g] = "done")
    BY <2>1, HolderAlone
  <2>4. \A g \in Flows : g # f => ~Heeding(g)' /\ pc'[g] = pc[g]
    BY <2>1, <2>3 DEF Heeding, Locked
  <2> QED BY <2>1, <2>2, <2>3, <2>4 DEF FlagIsAsked, Heeding, Locked, LockedPCs
<1> QED BY <1>1, <1>2, <1>3, <1>4, <1>5 DEF Step

LEMMA FlagOther == ASSUME TypeOK, OneRunAtATime, FlagIsAsked,
                          User \/ (\E f \in Flows, k \in Kinds : Launch(f, k)) \/ UNCHANGED vars
                   PROVE  FlagIsAsked'
<1> USE DEF At, Goto, TypeOK
<1>1. ASSUME NEW f \in Flows, NEW k \in Kinds, Launch(f, k) PROVE FlagIsAsked'
  <2>1. CASE k \in {"auto", "all"}
    BY <1>1, <2>1 DEF Launch, FlagIsAsked, Heeding, Locked, LockedPCs, historyVars, stopVars
  <2>2. CASE k \notin {"auto", "all"}
    <3>1. /\ pc[f] = "new" /\ Claim(f, k) /\ kind' = [kind EXCEPT ![f] = k] /\ UNCHANGED <<stopped, asked>>
      BY <1>1, <2>2 DEF Launch, historyVars, stopVars
    <3>2. kind'[f] = k
      BY <3>1
    <3> QED BY <3>1, <3>2, EnterFlag
  <2> QED BY <2>1, <2>2
<1>2. ASSUME NEW f \in Flows, Answered(f) PROVE FlagIsAsked'
  <2>1. CASE Claim(f, "all")
    BY <1>2, <2>1, EnterFlag DEF Answered, historyVars, stopVars
  <2>2. CASE pc' = [pc EXCEPT ![f] = "done"] /\ UNCHANGED stopRequested
    BY <1>2, <2>2 DEF Answered, FlagIsAsked, Heeding, Locked, LockedPCs, historyVars, stopVars
  <2> QED BY <1>2, <2>1, <2>2 DEF Answered
<1>3. ASSUME NEW f \in Flows, Confirmed(f) PROVE FlagIsAsked'
  BY <1>3 DEF Confirmed, FlagIsAsked, Heeding, Locked, LockedPCs, historyVars, stopVars
<1>4. CASE StopCommand \/ ConfirmStop
  <2>1. /\ UNCHANGED <<pc, kind, stopped>> /\ asked' = asked \cup Holders
        /\ stopRequested => stopRequested'
    BY <1>4 DEF StopCommand, ConfirmStop, jobVars
  <2> QED BY <2>1 DEF FlagIsAsked, Heeding, Holders, Locked
<1>5. CASE OpenStopDialog \/ SetAutoSync \/ Unload \/ (\E c \in Changes : ChangeIndex(c)) \/ UNCHANGED vars
  <2>1. UNCHANGED <<pc, kind, stopped, asked, stopRequested>>
    BY <1>5 DEF OpenStopDialog, SetAutoSync, Unload, ChangeIndex, vars, jobVars, historyVars, stopVars
  <2> QED BY <2>1 DEF FlagIsAsked, Heeding, Locked
<1> QED BY <1>1, <1>2, <1>3, <1>4, <1>5 DEF User

\* No run is cut short by a stop that was requested while another was in flight, or while none was, and
\* one that was cut short pushes nothing to Readwise (the resets of stopRequested, runSyncNow's finally).
THEOREM StopsWereAsked == Spec => []StopsAreAsked
<1>1. Init => FlagIsAsked
  BY DEF Init, FlagIsAsked, Heeding, Locked, LockedPCs
<1>2. TypeOK /\ OneRunAtATime /\ FlagIsAsked /\ [Next]_vars => FlagIsAsked'
  BY FlagStep, FlagOther DEF Next
<1>3. TypeOK /\ FlagIsAsked => StopsAreAsked
  BY DEF TypeOK, FlagIsAsked, StopsAreAsked
<1> QED BY <1>1, <1>2, <1>3, TypeCorrect, LockIsExclusive, PTL DEF Spec

-----------------------------------------------------------------------------
(* The abstract writer.  Its four actions are what the moves of an activation look like from outside. *)

\* The lock and the index never change in one step.
LEMMA LockOrIndex == ASSUME [Next]_vars PROVE UNCHANGED index \/ UNCHANGED <<syncing, leftTaken>>
<1>1. ASSUME NEW f \in Flows, Step(f) PROVE UNCHANGED index \/ UNCHANGED <<syncing, leftTaken>>
  BY <1>1 DEF Step, Probed, Gated, Refreshed, RefreshFailed, Opened, RunUnit, StopRun, EndRun, CloseSync, AtEnd, CloseOther, CloseRefused, Pushed, PushedAlone, historyVars
<1>2. ASSUME NEW f \in Flows, NEW k \in Kinds, Launch(f, k) PROVE UNCHANGED index
  BY <1>2 DEF Launch
<1>3. CASE User
  BY <1>3 DEF User, StopCommand, OpenStopDialog, ConfirmStop, ChangeIndex, SetAutoSync, Unload, Answered, Confirmed, jobVars, historyVars
<1> QED BY <1>1, <1>2, <1>3 DEF Next, vars, jobVars, historyVars

\* A step that leaves the lock with whoever has it is the holder's, or happens between two of them.
LEMMA SameHolder == ASSUME TypeOK, OneRunAtATime, Holders' = Holders, index \subseteq index' PROVE Index!Next
<1>1. CASE Holders = {}
  BY <1>1 DEF Index!Next, Index!Between
<1>2. ASSUME NEW g \in Holders PROVE Index!Next
  <2>1. g \in Flows /\ Holders = {g}
    BY <1>2 DEF OneRunAtATime, Hands, Holders
  <2> QED BY <2>1 DEF Index!Next, Index!Record
<1> QED BY <1>1, <1>2

\* Whatever the activations do, in any number and order, what the rest of the plugin sees of them is one
\* writer at a time of an index that only learns: the lock, the flag, the dialogs and the timers of
\* main.ts implement the abstract specification.
THEOREM ImplementsOneWriter == Spec => IsOneWriter
<1>1. Init => Index!Init
  BY DEF Init, Index!Init, Holders, Locked, LockedPCs
<1>2. TypeOK /\ OneRunAtATime /\ HeldIsComplete /\ [Next]_vars => [Index!Next]_<<Holders, index>>
  <2> SUFFICES ASSUME TypeOK, OneRunAtATime, HeldIsComplete, [Next]_vars PROVE Index!Next
    OBVIOUS
  <2>1. index \subseteq index' /\ (UNCHANGED index \/ UNCHANGED <<syncing, leftTaken>>)
    BY IndexStep, IndexOther, LockOrIndex DEF Next
  <2>2. LockAlone \/ \E f \in Flows : LockMove(f)
    BY NextMoves
  <2>3. CASE LockAlone
    BY <2>1, <2>3, SameHolder DEF LockAlone, Holders, Locked
  <2>4. ASSUME NEW f \in Flows, Moves(f) PROVE Index!Next
    BY <2>1, <2>4, HoldersMove, SameHolder
  <2>5. ASSUME NEW f \in Flows, Takes(f) PROVE Index!Next
    <3>1. UNCHANGED index
      BY <2>1, <2>5 DEF Takes
    <3> QED BY <3>1, <2>5, HoldersMove DEF Index!Next, Index!Begin
  <2>6. ASSUME NEW f \in Flows, Frees(f) \/ Leaves(f) PROVE Index!Next
    <3>1. UNCHANGED index
      BY <2>1, <2>6 DEF Frees, Leaves, OneRunAtATime, Hands, Holders
    <3> QED BY <3>1, <2>6, HoldersMove DEF Index!Next, Index!Finish
  <2> QED BY <2>2, <2>3, <2>4, <2>5, <2>6 DEF LockMove
<1> QED BY <1>1, <1>2, TypeCorrect, LockIsExclusive, CopiesAreComplete, PTL DEF Spec, IsOneWriter, Index!Spec
=============================================================================
