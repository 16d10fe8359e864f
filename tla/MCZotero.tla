------------------------------ MODULE MCZotero ------------------------------
(***************************************************************************)
(* The four records of a document's Zotero link, each with its own part of *)
(* the library: one of them lives in a behaviour, the others rest.         *)
(***************************************************************************)
EXTENDS ZoteroMarks, ZoteroPages, ZoteroRender, ZoteroLinks, TLC

VARIABLE part

AllVars == <<part, markVars, pageVars, renderVars, storeVars>>
MarksRest == MarksInit /\ page[NumMarks] = 1 /\ ~faulty /\ \A m, n \in Marks : tablet[m] = tablet[n] /\ tablet[m] = CHOOSE v \in Here : v["color"] = v["text"]
PagesRest == PagesInit /\ ~lossy /\ paper = CHOOSE p \in Parents : TRUE
RenderRest == RenderInit /\ ~lossyUpload

MCInit ==
  \/ part = "marks" /\ MarksInit /\ PagesRest /\ RenderRest /\ LinksInit
  \/ part = "pages" /\ MarksRest /\ PagesInit /\ RenderRest /\ LinksInit
  \/ part = "render" /\ MarksRest /\ PagesRest /\ RenderInit /\ LinksInit
  \/ part = "links" /\ MarksRest /\ PagesRest /\ RenderRest /\ LinksInit

MCNext ==
  \/ part = "marks" /\ MarksNext /\ UNCHANGED <<part, pageVars, renderVars, storeVars>>
  \/ part = "pages" /\ PagesNext /\ UNCHANGED <<part, markVars, renderVars, storeVars>>
  \/ part = "render" /\ RenderNext /\ UNCHANGED <<part, markVars, pageVars, storeVars>>
  \/ part = "links" /\ LinksNext /\ UNCHANGED <<part, markVars, pageVars, renderVars>>

MCSpec == MCInit /\ [][MCNext]_AllVars

-----------------------------------------------------------------------------

\* executeWriteBack, addRender: nothing of ours is made twice in Zotero: one
\* annotation for a mark, one render under a paper, through failed requests;
\* for the render through lost answers and crashes too, or through a start
\* over, but not through all of these together.
OneOfEach == OneEach /\ OneRender

\* executeWriteBack, syncNotes: after a pass that met no failure the annotations mirror
\* the marks, and the notes the pages.
ZoteroMirrorsTheTablet == MirrorsTheTablet /\ NotesMirrorThePages

\* What the user has written into an annotation or a note of ours stands.
UsersWordsStand == UserEditsKept /\ EditedNotesStand

\* A paper is sent once, and what is known of its document is not forgotten.
PapersAreKnown == SentOnce /\ LinksRemembered

Symmetry == Permutations(Values)
=============================================================================
