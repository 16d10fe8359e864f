---------------------------- MODULE ZoteroPages ----------------------------
(***************************************************************************)
(* The pages the reader added to a PDF, as notes under its paper in        *)
(* Zotero: planNotes, executeNotes and writeAddedPages, while the user     *)
(* edits, trashes and restores notes, moves the PDF to another paper and   *)
(* trashes papers between any two requests.                                *)
(*                                                                         *)
(* The added pages are numbered in page order and all follow one printed   *)
(* page, so that the title of a note is its page's rank among them.        *)
(***************************************************************************)
EXTENDS Absent, Naturals, FiniteSets, FiniteSetsExt

CONSTANTS NumAdded,     \* the pages that may be added
          Texts,        \* what the transcription of a page may say
          Parents,
          NoteKeys,     \* bounds the notes in Zotero: 1 .. n
          NoteChanges   \* bounds what the user does

Added == 1 .. NumAdded
ByUser == "by user"
Blank == "blank"        \* a page with nothing on it
Unread == "unread"      \* a page whose handwriting could not be read

Bodies == [title : Added, text : Texts \cup {ByUser}]
NoteItems == [paper : Parents, body : Bodies, live : BOOLEAN, fresh : BOOLEAN]
NoteRecords == [key : NoteKeys, paper : Parents, body : [title : Added, text : Texts], edited : BOOLEAN, deleted : BOOLEAN]

ASSUME PagesAssumption ==
  /\ NumAdded \in Nat /\ NoteChanges \in Nat
  /\ IsFiniteSet(NoteKeys) /\ NoteKeys = 1 .. Cardinality(NoteKeys)
  /\ {ByUser, Blank, Unread, None} \cap Texts = {} /\ None \notin {Blank, Unread}
  /\ None \notin Parents /\ None \notin NoteKeys /\ None \notin NoteItems /\ None \notin NoteRecords

VARIABLES
  lossy,       \* TRUE in the histories with crashes and lost answers
  said,        \* of each added page: its text, or None while there is none
  paper,       \* the paper the PDF hangs under, or None
  trashed,     \* the papers in Zotero's trash
  again,       \* TRUE when the user deleted the vault note since
  notes,       \* our notes in Zotero, by key, or None
  link,        \* link.notes of data.json
  doing,       \* "idle" or "noting"
  copy,        \* the pass's own link.notes
  work,        \* what is left of the NotesPlan
  missed,      \* TRUE when a request of the pass failed or conflicted
  settled,     \* TRUE while nothing changed since a pass that did all of it
  noteChanges

pageVars == <<lossy, said, paper, trashed, again, notes, link, doing, copy, work,
              missed, settled, noteChanges>>
theWorld == <<lossy, said, paper, trashed, noteChanges>>

NoWork == [trashes |-> {}, creates |-> {}, patches |-> {}]

PagesInit ==
  /\ lossy \in BOOLEAN
  /\ said \in [Added -> Texts]
  /\ paper \in Parents
  /\ trashed = {}
  /\ again = FALSE
  /\ notes = [k \in NoteKeys |-> None]
  /\ link = [m \in Added |-> None]
  /\ doing = "idle"
  /\ copy = link
  /\ work = NoWork
  /\ missed = FALSE /\ settled = FALSE
  /\ noteChanges = 0

-----------------------------------------------------------------------------
(* The reader and the user.                                                 *)

ChangeSomething ==
  /\ noteChanges < NoteChanges
  /\ noteChanges' = noteChanges + 1
  /\ settled' = FALSE
  /\ UNCHANGED <<lossy, link, doing, copy, work, missed>>

WritePage(m, t) ==
  /\ ChangeSomething
  /\ said[m] # t
  /\ said' = [said EXCEPT ![m] = t]
  /\ UNCHANGED <<paper, trashed, again, notes>>

MovePdf(p) ==
  /\ ChangeSomething
  /\ p # paper
  /\ paper' = p
  /\ UNCHANGED <<said, trashed, again, notes>>

TrashPaper(p) ==
  /\ ChangeSomething
  /\ trashed' = IF p \in trashed THEN trashed \ {p} ELSE trashed \cup {p}
  /\ UNCHANGED <<said, paper, again, notes>>

DeleteVaultNote ==
  /\ ChangeSomething
  /\ again' = TRUE
  /\ UNCHANGED <<said, paper, trashed, notes>>

\* What the user does to a note shows in its version while a pass is at work.
Changed(k, r) == [notes EXCEPT ![k] = [r EXCEPT !.fresh = (doing = "idle")]]
IsLive(k) == notes[k] # None /\ notes[k].live

ChangeNote(k) ==
  /\ ChangeSomething
  /\ notes[k] # None
  /\ \E r \in {[notes[k] EXCEPT !.body.text = ByUser], [notes[k] EXCEPT !.live = ~@]} :
       notes' = Changed(k, r)
  /\ UNCHANGED <<said, paper, trashed, again>>

\* A tag or a relation: the version moves, the body stays.
TagNote(k) ==
  /\ ChangeSomething
  /\ IsLive(k)
  /\ notes' = Changed(k, notes[k])
  /\ UNCHANGED <<said, paper, trashed, again>>

-----------------------------------------------------------------------------
(* planNotes.                                                               *)

BodyOf(m) == [title |-> Cardinality({n \in Added : n <= m /\ said[n] # None}), text |-> said[m]]
Ours(k, p, b) == [key |-> k, paper |-> p, body |-> b, edited |-> FALSE, deleted |-> FALSE]
Flagged(r, flag) == IF flag = "edited" THEN [r EXCEPT !.edited = TRUE] ELSE [r EXCEPT !.deleted = TRUE]

\* A note a sync may still refresh, move or trash.
MayTouch(r) == r # None /\ ~r.deleted /\ ~r.edited
FormerPapers == {link[m].paper : m \in {m \in Added : MayTouch(link[m])}}
Listed == {k \in NoteKeys : IsLive(k) /\ notes[k].paper \in FormerPapers \cup {paper}}

\* What a unit speaks for: the pages it covers that could be read.
Writable(scope) == {m \in scope : said[m] \in Texts}

\* Records of pages this unit does not write.
Leftover(scope) == {m \in Added \ Writable(scope) : MayTouch(link[m])}

\* The note of a page: the recorded one, or one that nobody holds, under this
\* paper and under the title this sync writes.
Unheld == Listed \ {link[m].key : m \in {m \in Added : link[m] # None}}
AdoptedBy(m) ==
  LET c == {k \in Unheld : notes[k].paper = paper /\ notes[k].body.title = BodyOf(m).title} IN
  IF link[m] # None \/ c = {} THEN None ELSE Min(c)
KnownOf(m) ==
  IF link[m] # None /\ ~link[m].deleted /\ link[m].key \in Listed THEN link[m].key ELSE AdoptedBy(m)
EditedByUser(m) == link[m].key \in Listed /\ notes[link[m].key].body # link[m].body

\* Deleted on the tablet, covered, and no page that could not be read.
Trashes(scope) ==
  {m \in Leftover(scope) : link[m].key \in Listed /\ ~EditedByUser(m)
                           /\ m \in scope /\ said[m] # Unread}

PlanOf(scope) ==
  LET left == Leftover(scope)
      mine == {m \in Writable(scope) :
                 \/ link[m] = None
                 \/ ~link[m].edited /\ (link[m].deleted => again)}
      lost == {m \in left : link[m].key \notin Listed}
              \cup {m \in mine : link[m] # None /\ ~link[m].deleted /\ KnownOf(m) = None /\ ~again}
      edited == {m \in left \cup mine : MayTouch(link[m]) /\ EditedByUser(m)}
      moves == {m \in left \ (Trashes(scope) \cup lost \cup edited) : notes[link[m].key].paper # paper}
      writes == mine \ (lost \cup edited)
      known == {m \in writes : KnownOf(m) # None}
      same(m) == notes[KnownOf(m)].body = BodyOf(m) /\ notes[KnownOf(m)].paper = paper IN
  [trashes |-> Trashes(scope),
   creates |-> {[page |-> m, paper |-> paper, body |-> BodyOf(m)] : m \in writes \ known},
   patches |-> {[page |-> m, record |-> Ours(KnownOf(m), paper, BodyOf(m))] : m \in {m \in known : ~same(m)}}
               \cup {[page |-> m, record |-> [link[m] EXCEPT !.paper = paper]] : m \in moves},
   records |-> [m \in Added |->
      CASE m \in lost -> Flagged(link[m], "deleted")
        [] m \in edited -> Flagged(link[m], "edited")
        [] m \in known /\ same(m) -> Ours(KnownOf(m), paper, BodyOf(m))
        [] OTHER -> link[m]]]

\* writeAddedPages.  Nothing at all without a parent item, while the paper is
\* in the trash, with nothing to write and nothing to keep up, or without the
\* access to notes that would tell a note that is there from one that is not.
BeginNotes(scope, access) ==
  /\ doing = "idle" /\ access
  /\ paper # None /\ paper \notin trashed
  /\ Writable(scope) # {} \/ \E m \in Added : MayTouch(link[m])
  /\ LET p == PlanOf(scope) IN
     /\ work' = [trashes |-> p.trashes, creates |-> p.creates, patches |-> p.patches]
     /\ copy' = p.records
  /\ doing' = "noting"
  /\ again' = FALSE
  /\ settled' = (scope = Added)
  /\ UNCHANGED <<theWorld, notes, link, missed>>

-----------------------------------------------------------------------------
(* executeNotes: trashes, creates, patches, then the record.                *)

Ends == IF lossy THEN {"done", "error", "lost"} ELSE {"done", "error"}
StopNoting == work' = NoWork /\ missed' = TRUE /\ UNCHANGED copy
Conflict(m, r) == copy' = [copy EXCEPT ![m] = Flagged(r, "edited")] /\ missed' = TRUE
\* Trashing and patching without the version.
AsReadEver(k) == notes[k].live
AsRead(k) == notes[k].fresh /\ notes[k].live

TrashNote(m, o) ==
  LET k == link[m].key
      landed == [notes EXCEPT ![k].live = FALSE] IN
  /\ doing = "noting" /\ m \in work.trashes /\ o \in Ends
  /\ IF o = "done"
     THEN /\ work' = [work EXCEPT !.trashes = @ \ {m}]
          /\ IF AsRead(k)
             THEN notes' = landed /\ copy' = [copy EXCEPT ![m] = Flagged(link[m], "deleted")] /\ UNCHANGED missed
             ELSE Conflict(m, copy[m]) /\ UNCHANGED notes
     ELSE notes' = (IF (o = "lost" /\ AsRead(k)) THEN landed ELSE notes) /\ StopNoting
  /\ UNCHANGED <<theWorld, again, link, doing, settled>>

\* Zotero may refuse any of the notes; the rest get the next free keys.
UsedKeys == {k \in NoteKeys : notes[k] # None}
NewKeyOf(c, landed) ==
  Cardinality(UsedKeys) + Cardinality({d \in landed : d.page <= c.page})
WithNew(landed) ==
  [k \in NoteKeys |-> IF \E c \in landed : NewKeyOf(c, landed) = k
     THEN LET c == CHOOSE c \in landed : NewKeyOf(c, landed) = k IN
          [paper |-> c.paper, body |-> c.body, live |-> TRUE, fresh |-> TRUE]
     ELSE notes[k]]

\* Recording what was sent without the key it got.
RecordedUnkeyed(landed) ==
  [m \in Added |-> IF \E c \in landed : c.page = m
     THEN LET c == CHOOSE c \in landed : c.page = m IN Ours(1, c.paper, c.body)
     ELSE copy[m]]
Recorded(landed) ==
  [m \in Added |-> IF \E c \in landed : c.page = m
     THEN LET c == CHOOSE c \in landed : c.page = m IN Ours(NewKeyOf(c, landed), c.paper, c.body)
     ELSE copy[m]]

CreateNotes(landed, o) ==
  /\ doing = "noting" /\ work.trashes = {} /\ work.creates # {} /\ o \in Ends
  /\ Cardinality(UsedKeys) + Cardinality(landed) <= Cardinality(NoteKeys)
  /\ o = "error" => landed = {}
  /\ notes' = WithNew(landed)
  /\ IF o = "done"
     THEN /\ copy' = Recorded(landed)
          /\ work' = [work EXCEPT !.creates = {}]
          /\ missed' = (missed \/ landed # work.creates)
     ELSE StopNoting
  /\ UNCHANGED <<theWorld, again, link, doing, settled>>

PatchNote(p, o) ==
  LET k == p.record.key
      landed == [notes EXCEPT ![k].body = p.record.body, ![k].paper = p.record.paper] IN
  /\ doing = "noting" /\ work.trashes = {} /\ work.creates = {} /\ p \in work.patches /\ o \in Ends
  /\ IF o = "done"
     THEN /\ work' = [work EXCEPT !.patches = @ \ {p}]
          /\ IF AsRead(k)
             THEN notes' = landed /\ copy' = [copy EXCEPT ![p.page] = p.record] /\ UNCHANGED missed
             ELSE /\ Conflict(p.page, IF link[p.page] = None THEN p.record ELSE link[p.page])
                  /\ UNCHANGED notes
     ELSE notes' = (IF (o = "lost" /\ AsRead(k)) THEN landed ELSE notes) /\ StopNoting
  /\ UNCHANGED <<theWorld, again, link, doing, settled>>

\* Ending with requests left to make.
EndNotingUnfinished ==
  /\ doing' = "idle" /\ missed' = FALSE
  /\ notes' = [k \in NoteKeys |-> IF notes[k] = None THEN None ELSE [notes[k] EXCEPT !.fresh = TRUE]]
  /\ UNCHANGED work
  /\ copy' = link'

EndNoting ==
  /\ doing' = "idle" /\ work' = NoWork /\ missed' = FALSE
  /\ notes' = [k \in NoteKeys |-> IF notes[k] = None THEN None ELSE [notes[k] EXCEPT !.fresh = TRUE]]
  /\ copy' = link'

SaveNotes ==
  /\ doing = "noting" /\ work = NoWork
  /\ link' = copy
  /\ settled' = (settled /\ ~missed)
  /\ EndNoting
  /\ UNCHANGED <<theWorld, again>>

\* A library that refuses writes throws past the record; Obsidian may quit.
LoseNotes ==
  /\ lossy /\ doing = "noting"
  /\ link' = link
  /\ settled' = FALSE
  /\ EndNoting
  /\ UNCHANGED <<theWorld, again>>

NotingNext ==
  \/ \E s \in {Added} \cup {{m} : m \in Added}, a \in BOOLEAN : BeginNotes(s, a)
  \/ \E o \in {"done", "error", "lost"} :
       \/ \E m \in Added : TrashNote(m, o)
       \/ \E cs \in SUBSET work.creates : CreateNotes(cs, o)
       \/ \E p \in work.patches : PatchNote(p, o)
  \/ SaveNotes

PagesNext ==
  \/ \E m \in Added, t \in Texts \cup {Blank, Unread, None} : WritePage(m, t)
  \/ \E p \in Parents : MovePdf(p) \/ TrashPaper(p)
  \/ MovePdf(None) \/ DeleteVaultNote
  \/ \E k \in NoteKeys : ChangeNote(k) \/ TagNote(k)
  \/ NotingNext \/ LoseNotes

-----------------------------------------------------------------------------
PagesTypeOK ==
  /\ said \in [Added -> Texts \cup {Blank, Unread, None}]
  /\ paper \in Parents \cup {None} /\ trashed \subseteq Parents
  /\ \A k \in NoteKeys : notes[k] # None => notes[k].body \in Bodies /\ notes[k].paper \in Parents
  /\ \A m \in Added : {link[m], copy[m]} \subseteq NoteRecords \cup {None}
  /\ doing \in {"idle", "noting"} /\ (doing = "idle" => work = NoWork)

\* planNotes, executeNotes: a note of ours that the user edited is never
\* written, moved or trashed again, by whatever passes, whether the edit
\* comes before the pass reads or between its read and its request.
EditedNotesStand ==
  [][noteChanges' = noteChanges => \A k \in NoteKeys :
       (\E m \in Added : link[m] # None /\ link[m].key = k) /\ IsLive(k) /\ notes[k].body.text = ByUser =>
          notes'[k].body = notes[k].body /\ notes'[k].paper = notes[k].paper /\ notes'[k].live]_pageVars

\* After a pass over the document that met no failure, and until something
\* changes, the paper shows every added page that could be read, once, under
\* its title of now, in the notes the user left alone; every other note of
\* ours hangs there too, and none of a page that is gone.
NotesMirrorThePages ==
  /\ settled /\ doing = "idle" => \A m \in Added :
       /\ said[m] \in Texts => link[m] # None
       /\ MayTouch(link[m]) =>
            /\ IsLive(link[m].key) /\ notes[link[m].key].paper = paper
            /\ said[m] \in Texts => notes[link[m].key].body = BodyOf(m)
            /\ said[m] # None
  /\ \A m, n \in Added : link[m] # None /\ link[n] # None /\ m # n => link[m].key # link[n].key
=============================================================================
