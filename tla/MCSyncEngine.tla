---------------------------- MODULE MCSyncEngine ----------------------------
(***************************************************************************)
(* TLC instances of SyncEngine: values for the constants that a cfg cannot *)
(* write, and a sentence of the documentation that the code does not keep. *)
(***************************************************************************)
EXTENDS SyncEngine

CONSTANTS d1, d2, p1, a, b, F, G

OneName == [d \in Docs |-> "Notes"]
NoTags == [pg \in Pages |-> {}]

Entry(tags, pageTags) == [live |-> TRUE, ver |-> 1, ink |-> [pg \in Pages |-> 1],
                          tags |-> tags, pageTags |-> pageTags, inherited |-> {}]

\* Every document under tag a; under both tags; under a with its pages under b.
Tagged == {[d \in Docs |-> Entry({a}, NoTags)]}
TwiceTagged == {[d \in Docs |-> Entry({a, b}, NoTags)]}
PageTagged == {[d \in Docs |-> Entry({a}, [pg \in Pages |-> {b}])]}
AnyTagged == Tagged \cup PageTagged

\* Both tags go to one folder, or to two.
SameFolder == {[t \in Tags |-> F]}
TwoFolders == {[t \in Tags |-> IF t = a THEN F ELSE G]}

\* A note the user already keeps under the name the first sync would choose.
Taken == {[folder |-> F, title |-> "Notes", page |-> NoPage, suffix |-> 1]}

-----------------------------------------------------------------------------
(* What the documentation promises, where a run shows that the code differs. *)

\* "Everything already written is kept, and the next sync carries on from where it left off"
\* (CHANGELOG.md:1271): after a stopped run the next one leaves no unit of the open document behind.
StoppedRunIsCarriedOn == GateSound
=============================================================================
