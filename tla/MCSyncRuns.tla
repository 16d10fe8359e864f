----------------------------- MODULE MCSyncRuns -----------------------------
(***************************************************************************)
(* Three instances of SyncEngine in one run: the notes of a document the   *)
(* user edits, renames and deletes; a notebook whose tags and whose folder *)
(* mapping change; and the tagged pages of a PDF, which all bear the hash  *)
(* of their document.                                                      *)
(***************************************************************************)
EXTENDS MCSyncEngine

VARIABLE part

OfNotebook == INSTANCE SyncEngine WITH
    PdfDocs <- {}, Folders <- {F, G}, Copies <- 2, InitDevices <- Tagged, OwnFiles <- Taken,
    Ops <- {"draw", "tag", "map", "folderTag", "trash", "delete"}, MidRun <- {"draw", "map", "trash"}

OfPages == INSTANCE SyncEngine WITH
    PdfDocs <- Docs, Folders <- {F, G}, Copies <- 2, InitDevices <- PageTagged,
    Ops <- {"draw", "erase", "pageTag", "trash", "invalidate"}, MidRun <- {"draw", "pageTag"}

AllVars == <<part, vars>>
MCInit == (part = "vault" /\ Init) \/ (part = "notebook" /\ OfNotebook!Init) \/ (part = "pages" /\ OfPages!Init)
MCNext ==
    /\ (part = "vault" /\ Next) \/ (part = "notebook" /\ OfNotebook!Next) \/ (part = "pages" /\ OfPages!Next)
    /\ UNCHANGED part
MCSpec == MCInit /\ [][MCNext]_AllVars

\* Two notebooks that can be stopped, in a run of its own, for it states fairness.
StopInit == part = "stop" /\ Init
StopNext == part = "stop" /\ Next /\ UNCHANGED part
StopRun == Run /\ UNCHANGED part
StopSpec == StopInit /\ [][StopNext]_AllVars /\ WF_AllVars(StopRun)

-----------------------------------------------------------------------------

\* Every hash in the index is that of the content its note shows, of a page as of a notebook.
HashesAreTrue == (part = "notebook" => OfNotebook!HashesHonest) /\ (part = "pages" => OfPages!HashesHonest)

\* A run that finds nothing to do leaves nothing undone, whether a tag, a mapping, a page or a page's tag has
\* changed.
NothingIsPassedBy == (part = "notebook" => OfNotebook!GateSound) /\ (part = "pages" => OfPages!GateSound)
=============================================================================
