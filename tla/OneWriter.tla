----------------------------- MODULE OneWriter ------------------------------
(***************************************************************************)
(* What everything that shares data.syncIndex may rely on, without a lock, *)
(* a flag or a dialog in sight: one writer at a time, and an index that    *)
(* only ever learns.  A writer begins, records what it likes and finishes; *)
(* the user's own changes come between two writers.                        *)
(***************************************************************************)
CONSTANTS Writers
VARIABLES
    writer,     \* the one there is, as a set
    index       \* the facts recorded

Begin(w) == writer = {} /\ writer' = {w} /\ UNCHANGED index
Record(w) == writer = {w} /\ UNCHANGED writer /\ index \subseteq index'
Finish(w) == writer = {w} /\ writer' = {} /\ UNCHANGED index
Between == writer = {} /\ UNCHANGED writer /\ index \subseteq index'

Init == writer = {} /\ index = {}
Next == Between \/ \E w \in Writers : Begin(w) \/ Record(w) \/ Finish(w)
Spec == Init /\ [][Next]_<<writer, index>>
=============================================================================
