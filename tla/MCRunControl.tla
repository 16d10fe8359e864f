---------------------------- MODULE MCRunControl ----------------------------
(***************************************************************************)
(* Two activations over the one lock, and beside them what a run counts    *)
(* and shows while it goes on.                                             *)
(***************************************************************************)
EXTENDS RunControl, RunStatus

CONSTANTS f1, f2, c

VARIABLE part

AllVars == <<part, vars, statusVars>>
OnlyControl == UNCHANGED <<part, statusVars>>

\* A document of two notes, one of them of two pages, and a document of one note.
SomeWork == <<<<2, 1>>, <<1>>>>

MCInit == part \in {"control", "status"} /\ Init /\ StatusInit
MCNext ==
    \/ part = "control" /\ Next /\ OnlyControl
    \/ part = "status" /\ StatusNext /\ UNCHANGED <<part, vars>>

\* Every await of a step is answered or times out; a dialog may stay open for ever.
MCSpec == MCInit /\ [][MCNext]_AllVars /\ \A f \in Flows : WF_AllVars(part = "control" /\ Step(f) /\ OnlyControl)
=============================================================================
