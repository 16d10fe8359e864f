----------------------------- MODULE SyncEngine -----------------------------
(***************************************************************************)
(* One vault, one tablet, and the sync run that keeps the vault's notes in *)
(* step with the tablet's tagged notebooks and pages (src/sync-engine.ts,  *)
(* runSync).  A unit is one note the sync is to keep: a notebook under one *)
(* mapped tag, or one page under one mapped tag.  The run remembers what   *)
(* it wrote in an index of rows, one per unit, saved to data.json after    *)
(* every note; between two of its steps the tablet, the user and a crash   *)
(* may each do something.                                                  *)
(*                                                                         *)
(* Hashes are version numbers: every change on the tablet takes the next   *)
(* value of a clock, so two hashes are equal exactly when they name the    *)
(* same content, and the root hash never returns to an earlier value.      *)
(***************************************************************************)
EXTENDS Integers, Sequences

CONSTANTS
    Docs,           \* documents on the tablet
    PdfDocs,        \* those backed by a source PDF: their pages carry the document's hash
    Pages,          \* page ids (each document may have each of them)
    NoPage,         \* the page of a unit that covers the whole notebook
    Tags,
    Folders,        \* vault folders
    NoFolder,       \* "this tag is not mapped"
    Title,          \* [Docs -> names], two documents may share one
    Copies,         \* bound on the numeric file-name suffixes the model has paths for
    InitDevices,    \* the tablet contents a behaviour may start from
    InitMappings,   \* the tag mappings a behaviour may start from
    OwnFiles,       \* paths already holding a file of the user's own
    Ops,            \* the environment operations of this instance
    MidRun,         \* those that may also happen while a run is in progress
    Changes         \* bound: environment operations per behaviour

OpNames == {"draw", "erase", "tag", "pageTag", "folderTag", "trash", "map", "invalidate",
            "edit", "undo", "unfence", "delete", "rename",
            "stop", "crash", "unreadable", "fail", "keep"}

Suffixes == (1 .. Copies + 1) \cup Tags \cup Docs

\* A note's place: the folder, the base name (title and page) and the disambiguating suffix.
Paths == [folder : Folders, title : {Title[d] : d \in Docs}, page : Pages \cup {NoPage}, suffix : Suffixes]

\* A sync key: notebookSyncKey when page = NoPage, pageSyncKey otherwise.
Units == [doc : Docs, page : Pages \cup {NoPage}, tag : Tags]

DocEntry == [live : BOOLEAN, ver : Nat, ink : [Pages -> Nat], tags : SUBSET Tags,
             pageTags : [Pages -> SUBSET Tags], inherited : SUBSET Tags]

Mapping == [Tags -> Folders \cup {NoFolder}]

ASSUME ConstantsAssumption ==
    /\ PdfDocs \subseteq Docs
    /\ Docs # {} /\ NoPage \notin Pages /\ NoFolder \notin Folders
    /\ DOMAIN Title = Docs
    /\ Copies \in Nat /\ Changes \in Nat
    /\ InitDevices \subseteq [Docs -> DocEntry]
    /\ \A start \in InitDevices, d \in Docs : start[d].ver <= 1
    /\ InitMappings \subseteq Mapping
    /\ OwnFiles \subseteq Paths
    /\ Ops \subseteq OpNames /\ MidRun \subseteq Ops

\* What buildManagedBlock renders a unit to: the ink of the pages it covers.
Block == [doc : Docs, page : Pages \cup {NoPage}, ink : [Pages -> Nat]]

\* "written": the block on disk is one a run wrote; "edited": changed by hand inside the block
\* (block is what it was before); "plain": a file without a fence.  own: user's words outside it.
Note == [kind : {"written", "edited", "plain"}, block : Block, own : BOOLEAN]

Row == [status : {"active", "orphaned"}, entryHash : Nat, pageHash : Nat, path : Paths,
        folder : Folders, block : Block, stale : BOOLEAN]

\* A unit the run will reach: source is the row it overwrites (another unit's on a tag rename).
Planned == [unit : Units, source : Units, edited : BOOLEAN]

VARIABLES
    device,     \* the tablet
    clock,      \* the version the tablet's next change takes minus one: the root hash
    mapping,    \* the tag -> folder settings
    vault,      \* path -> note, for the paths that hold a file
    index,      \* data.syncIndex: root hash, mappings and rows of the last save
    phase,      \* where the run is
    rows, order,            \* the run's working rows and their insertion order
    runRoot, router,        \* root hash and mappings the run started with
    listed, unreadable,     \* the listing, and the documents the pre-scan could not read
    todo, doc, pending,     \* documents left, the open one, its units left
    untouched,              \* units deliberately left alone this round
    landing,                \* the note written whose row is not saved yet
    stop,                   \* shouldStop()
    budget                  \* environment operations left

tabletVars == <<device, clock>>
runVars == <<rows, order, runRoot, router, listed, unreadable, todo, doc, pending, untouched, landing>>
vars == <<device, clock, mapping, vault, index, phase, runVars, stop, budget>>

-----------------------------------------------------------------------------
(* Helpers on partial functions. *)

Put(f, k, v) == [x \in DOMAIN f \cup {k} |-> IF x = k THEN v ELSE f[x]]
Drop(f, k) == [x \in DOMAIN f \ {k} |-> f[x]]
NoRows == [u \in {} |-> 0]

\* s without x, which it holds at most once.
Without(s, x) ==
    IF \E i \in 1 .. Len(s) : s[i] = x
    THEN LET i == CHOOSE j \in 1 .. Len(s) : s[j] = x
         IN SubSeq(s, 1, i - 1) \o SubSeq(s, i + 1, Len(s))
    ELSE s

-----------------------------------------------------------------------------
(* Reading a document. *)

LivePages(e) == {pg \in Pages : e.ink[pg] > 0}

\* Mutant: tags with no folder are routed too.
MappedToAll(m, T) == T
MappedTo(m, T) == {t \in T : m[t] # NoFolder}

\* mappedTags: the document's own and inherited tags, and each live page's, that resolve to a folder.
NotebookTags(m, e) == MappedTo(m, e.tags \cup e.inherited)
PageTags(m, e, pg) == IF pg \in LivePages(e) THEN MappedTo(m, e.pageTags[pg]) ELSE {}
TagsAt(m, e, pg) == IF pg = NoPage THEN NotebookTags(m, e) ELSE PageTags(m, e, pg)

\* mapped.page as mappedTags builds it, before the live-page filter of planUnits.
HasMappedTag(m, e) == NotebookTags(m, e) # {} \/ \E pg \in Pages : MappedTo(m, e.pageTags[pg]) # {}

BlockOf(d, e, pg) == [doc |-> d, page |-> pg,
                      ink |-> [x \in Pages |-> IF pg \in {NoPage, x} THEN e.ink[x] ELSE 0]]

PageContentHash(d, e, pg) == IF d \in PdfDocs THEN e.ver ELSE e.ink[pg]

-----------------------------------------------------------------------------
(* Questions about the rows. *)

ActiveAt(rs, d, pg) == {u \in DOMAIN rs : u.doc = d /\ u.page = pg /\ rs[u].status = "active"}
ActiveOf(rs, d) == {u \in DOMAIN rs : u.doc = d /\ rs[u].status = "active"}

\* findEntryHash: the hash of the document's first row in insertion order, 0 when it has none.
FindEntryHash(rs, ord, d) ==
    LET mine == {i \in 1 .. Len(ord) : ord[i].doc = d}
    IN IF mine = {} THEN 0 ELSE rs[ord[CHOOSE i \in mine : \A j \in mine : i <= j]].entryHash

\* Mutant: only active rows are protected.
IsActiveBlockEdited(v, row) ==
    /\ row.status = "active" /\ row.path \in DOMAIN v
    /\ \/ v[row.path].kind = "edited"
       \/ v[row.path].kind = "written" /\ v[row.path].block # row.block

\* isBlockEdited: the block on disk is not the one this row was written with.
IsBlockEdited(v, row) ==
    /\ row.path \in DOMAIN v
    /\ \/ v[row.path].kind = "edited"
       \/ v[row.path].kind = "written" /\ v[row.path].block # row.block

IsRetargeted(m, u, row) ==
    /\ row.status = "active"
    /\ m[u.tag] # NoFolder
    /\ row.folder # m[u.tag]
    /\ row.path.folder = row.folder

HasMissingActiveNote(v, rs) == \E u \in DOMAIN rs : rs[u].status = "active" /\ rs[u].path \notin DOMAIN v

StaleRender(row) == row.status = "active" /\ row.stale

\* The level-1 gate of runSync: nothing to look at, the run returns the index it was given.
UpToDate ==
    /\ index.root = clock
    /\ index.mappings = mapping
    /\ \A u \in DOMAIN index.rows : ~StaleRender(index.rows[u])
    /\ ~HasMissingActiveNote(vault, index.rows)

\* Mutant: the document's hash is not compared.
NeedsDocumentOpenByRows(d) ==
    \/ NotebookTags(router, listed[d]) # {u.tag : u \in ActiveAt(rows, d, NoPage)}
    \/ \E u \in ActiveOf(rows, d) : StaleRender(rows[u]) \/ rows[u].path \notin DOMAIN vault

\* needsDocumentOpen, the level-2 gate.
NeedsDocumentOpen(d) ==
    LET e == listed[d]
        mine == {u \in DOMAIN rows : u.doc = d}
    IN \/ FindEntryHash(rows, order, d) # e.ver
       \/ NotebookTags(router, e) # {u.tag : u \in ActiveAt(rows, d, NoPage)}
       \/ \E u \in mine : IsRetargeted(router, u, rows[u]) \/ StaleRender(rows[u])
       \/ \E u \in ActiveOf(rows, d) : rows[u].path \notin DOMAIN vault

-----------------------------------------------------------------------------
(* planUnits: every unit of a document that is reached this round. *)

\* diffUnitTags: exactly one tag gone and one new is a rename of the row that lost its tag.
Removed(d, pg) == {u \in ActiveAt(rows, d, pg) : u.tag \notin TagsAt(router, listed[d], pg)}
Added(d, pg) == TagsAt(router, listed[d], pg) \ {u.tag : u \in ActiveAt(rows, d, pg)}
IsRename(d, pg) == /\ \E u \in Removed(d, pg) : Removed(d, pg) = {u}
                   /\ \E t \in Added(d, pg) : Added(d, pg) = {t}

OrphanedBy(d) == {u \in ActiveOf(rows, d) : u \in Removed(d, u.page) /\ ~IsRename(d, u.page)}

SourceOf(u) ==
    IF IsRename(u.doc, u.page) /\ u.tag \in Added(u.doc, u.page)
    THEN CHOOSE r \in Removed(u.doc, u.page) : TRUE
    ELSE u

\* The level-3 check: this note is current, leave it alone.
IsCurrent(u) ==
    /\ SourceOf(u) = u
    /\ u \in DOMAIN rows
    /\ rows[u].status = "active"
    /\ ~IsRetargeted(router, u, rows[u])
    /\ ~StaleRender(rows[u])
    /\ rows[u].path \in DOMAIN vault
    /\ IF u.page = NoPage THEN rows[u].entryHash = listed[u.doc].ver
       ELSE rows[u].pageHash = PageContentHash(u.doc, listed[u.doc], u.page)

UnitsOf(m, d, e) == {u \in Units : u.doc = d /\ u.tag \in TagsAt(m, e, u.page)}

PlanUnits(d) ==
    {[unit |-> u, source |-> SourceOf(u),
      edited |-> SourceOf(u) \in DOMAIN rows /\ IsBlockEdited(vault, rows[SourceOf(u)])] :
        u \in {x \in UnitsOf(router, d, listed[d]) : ~IsCurrent(x)}}

-----------------------------------------------------------------------------
(* Where a note lands. *)

PathOf(folder, u, s) == [folder |-> folder, title |-> Title[u.doc], page |-> u.page, suffix |-> s]

\* resolveFreePath: plain name, then the tag, then the document, then numbers; the first one free.
SuffixRank(u, s) == CASE s = 1 -> 0 [] s = u.tag -> 1 [] s = u.doc -> 2 [] OTHER -> 1 + s
SuffixesFor(u) == (1 .. Copies + 1) \cup {u.tag, u.doc}

\* Mutant: the plain name, whatever lies there.
IsPlainPath(folder, u, p) == p = PathOf(folder, u, 1)

IsFreePath(folder, u, p) ==
    \E s \in SuffixesFor(u) :
        /\ p = PathOf(folder, u, s)
        /\ p \notin DOMAIN vault
        /\ \A r \in SuffixesFor(u) :
              SuffixRank(u, r) < SuffixRank(u, s) => PathOf(folder, u, r) \in DOMAIN vault

\* resolveWriter: a renamed or re-targeted note moves, a known one is overwritten in place.
Moves(pl) == pl.source # pl.unit \/ (pl.unit \in DOMAIN rows /\ IsRetargeted(router, pl.unit, rows[pl.unit]))

\* Mutant: only an active row's note is overwritten in place.
IsFreshTarget(pl, p) ==
    LET folder == router[pl.unit.tag]
    IN IF pl.unit \in DOMAIN rows /\ rows[pl.unit].status = "active" THEN p = rows[pl.unit].path
       ELSE IsFreePath(folder, pl.unit, p)

IsTarget(pl, p) ==
    LET folder == router[pl.unit.tag]
        plain == PathOf(folder, pl.unit, 1)
    IN IF Moves(pl)
       THEN IF plain = rows[pl.source].path THEN p = plain ELSE IsFreePath(folder, pl.unit, p)
       ELSE IF pl.unit \in DOMAIN rows THEN p = rows[pl.unit].path
       ELSE IsFreePath(folder, pl.unit, p)

\* The vault after moveNote's move: the old file, if it is still there, now lies at p.
Moved(pl, p) ==
    LET from == rows[pl.source].path
    IN IF Moves(pl) /\ from # p /\ from \in DOMAIN vault THEN Put(Drop(vault, from), p, vault[from]) ELSE vault

\* writeNoteAt: a fresh block over whatever block is there, the words outside it carried over.
WrittenNote(v, p, b) == [kind |-> "written", block |-> b, own |-> p \in DOMAIN v /\ v[p].own]

-----------------------------------------------------------------------------
(* The environment. *)

\* data.json with other rows under the root and mappings it has: what every save but a run's last does.
WithRows(rs, ord) == [root |-> index.root, mappings |-> index.mappings, rows |-> rs, order |-> ord]

Spend(op) ==
    /\ op \in Ops /\ (phase # "idle" => op \in MidRun)
    /\ budget > 0 /\ budget' = budget - 1

TabletChange(d, e) ==
    /\ device' = [device EXCEPT ![d] = e]
    /\ clock' = clock + 1
    /\ UNCHANGED <<mapping, vault, index, phase, runVars, stop>>

\* What changes a document changes its hash.
DocumentChange(d, e) == TabletChange(d, [e EXCEPT !.ver = clock + 1])

Toggle(S, x) == IF x \in S THEN S \ {x} ELSE S \cup {x}

Draw(d, pg) == /\ Spend("draw")
               /\ DocumentChange(d, [device[d] EXCEPT !.ink = [device[d].ink EXCEPT ![pg] = clock + 1]])
ErasePage(d, pg) == /\ Spend("erase") /\ device[d].ink[pg] > 0
                    /\ DocumentChange(d, [device[d] EXCEPT !.ink = [device[d].ink EXCEPT ![pg] = 0]])
TagDoc(d, t) == /\ Spend("tag")
                /\ DocumentChange(d, [device[d] EXCEPT !.tags = Toggle(@, t)])
TagPage(d, pg, t) == /\ Spend("pageTag")
                     /\ DocumentChange(d, [device[d] EXCEPT !.pageTags = [device[d].pageTags EXCEPT ![pg] = Toggle(@, t)]])
\* A folder's tag changes the collection's hash, not the document's.
TagFolder(d, t) == /\ Spend("folderTag")
                   /\ TabletChange(d, [device[d] EXCEPT !.inherited = Toggle(@, t)])
\* A document put in the trash, or restored from it, keeps the hash it had.
Trash(d) == /\ Spend("trash")
            /\ TabletChange(d, [device[d] EXCEPT !.live = ~@])

SetMapping(t, f) ==
    /\ Spend("map") /\ mapping[t] # f
    /\ mapping' = [mapping EXCEPT ![t] = f]
    /\ UNCHANGED <<tabletVars, vault, index, phase, runVars, stop>>

\* invalidateRenders, or a plugin update with a new RENDER_VERSION: every active note is due.
InvalidateRenders ==
    /\ phase = "idle" /\ Spend("invalidate")
    /\ index' = WithRows([u \in DOMAIN index.rows |-> IF index.rows[u].status = "active" THEN [index.rows[u] EXCEPT !.stale = TRUE]
                                              ELSE index.rows[u]], index.order)
    /\ UNCHANGED <<tabletVars, mapping, vault, phase, runVars, stop>>

VaultChange(v) == /\ vault' = v
                  /\ UNCHANGED <<tabletVars, mapping, phase, runVars, stop>>

EditBlock(p) == /\ Spend("edit") /\ vault[p].kind = "written"
                /\ VaultChange([vault EXCEPT ![p] = [vault[p] EXCEPT !.kind = "edited"]]) /\ UNCHANGED index
UndoEdit(p) == /\ Spend("undo") /\ vault[p].kind = "edited"
               /\ VaultChange([vault EXCEPT ![p] = [vault[p] EXCEPT !.kind = "written"]]) /\ UNCHANGED index
\* Removing the fence leaves a file that is the user's from top to bottom.
RemoveFence(p) == /\ Spend("unfence") /\ vault[p].kind # "plain"
                  /\ VaultChange([vault EXCEPT ![p] = [kind |-> "plain", block |-> vault[p].block, own |-> TRUE]]) /\ UNCHANGED index
DeleteNote(p) == Spend("delete") /\ VaultChange(Drop(vault, p)) /\ UNCHANGED index

\* onVaultRename: the rows follow the file, except while a run holds the lock.
RemapRows(rs, p, q) == [u \in DOMAIN rs |-> IF rs[u].path = p THEN [rs[u] EXCEPT !.path = q] ELSE rs[u]]
RenameNote(p, q) ==
    /\ Spend("rename") /\ q \notin DOMAIN vault
    /\ VaultChange(Put(Drop(vault, p), q, vault[p]))
    /\ index' = IF phase = "idle" THEN WithRows(RemapRows(index.rows, p, q), index.order) ELSE index

RequestStop == /\ phase # "idle" /\ ~stop /\ Spend("stop") /\ stop' = TRUE
               /\ UNCHANGED <<tabletVars, mapping, vault, index, phase, runVars>>

-----------------------------------------------------------------------------
(* The run. *)

ForgetRun ==
    /\ phase' = "idle" /\ stop' = FALSE
    /\ rows' = NoRows /\ order' = <<>> /\ runRoot' = 0 /\ router' = [t \in Tags |-> NoFolder]
    /\ listed' = [d \in {} |-> 0] /\ unreadable' = {} /\ todo' = {} /\ doc' = {}
    /\ pending' = {} /\ untouched' = {} /\ landing' = {}

\* A run that finds nothing moved returns at the level-1 gate.
SkipRun == phase = "idle" /\ UpToDate /\ UNCHANGED vars

StartRun ==
    /\ phase = "idle" /\ ~UpToDate
    /\ phase' = "listing"
    /\ runRoot' = clock /\ router' = mapping
    /\ rows' = index.rows /\ order' = index.order
    /\ UNCHANGED <<tabletVars, mapping, vault, index, listed, unreadable, todo, doc, pending, untouched, landing, stop, budget>>

\* listItems, the trash filter and the pre-scan, which may fail to read a document it has to open.
ListItems ==
    /\ phase = "listing"
    /\ listed' = device
    /\ todo' = {d \in Docs : device[d].live}
    /\ \/ unreadable' = {} /\ UNCHANGED budget
       \/ Spend("unreadable") /\ \E d \in todo' : unreadable' = {d}
    /\ phase' = "docs"
    /\ UNCHANGED <<tabletVars, mapping, vault, index, rows, order, runRoot, router, doc, pending, untouched, landing, stop>>

\* Mutant: a stopped run saves the root and the mappings it started with.
StopAsDone ==
    /\ stop
    /\ \/ phase = "docs" /\ todo # {}
       \/ phase = "units" /\ pending # {}
    /\ index' = [root |-> runRoot, mappings |-> router, rows |-> rows, order |-> order]
    /\ ForgetRun
    /\ UNCHANGED <<tabletVars, mapping, vault, budget>>

\* stopHere: between two documents or two units, the rows so far under the previous root.
StopHere ==
    /\ stop
    /\ \/ phase = "docs" /\ todo # {}
       \/ phase = "units" /\ pending # {}
    /\ index' = WithRows(rows, order)
    /\ ForgetRun
    /\ UNCHANGED <<tabletVars, mapping, vault, budget>>

\* A document not opened: unreadable in the pre-scan, past the level-2 gate, or with nothing to do.
PassOver(d) ==
    /\ phase = "docs" /\ d \in todo /\ ~stop
    /\ \/ d \in unreadable
       \/ ~NeedsDocumentOpen(d)
       \/ ~HasMappedTag(router, listed[d]) /\ ActiveOf(rows, d) = {}
    /\ todo' = todo \ {d}
    /\ UNCHANGED <<tabletVars, mapping, vault, index, phase, rows, order, runRoot, router, listed, unreadable, doc, pending, untouched, landing, stop, budget>>

\* Opening a document: its plan, and the rows whose tag is gone orphaned at once.
OpenDocument(d) ==
    /\ phase = "docs" /\ d \in todo /\ ~stop
    /\ d \notin unreadable /\ NeedsDocumentOpen(d)
    /\ HasMappedTag(router, listed[d]) \/ ActiveOf(rows, d) # {}
    /\ pending' = PlanUnits(d)
    /\ rows' = [u \in DOMAIN rows |-> IF u \in OrphanedBy(d) THEN [rows[u] EXCEPT !.status = "orphaned"] ELSE rows[u]]
    /\ phase' = "units" /\ doc' = {d} /\ todo' = todo \ {d}
    /\ UNCHANGED <<tabletVars, mapping, vault, index, order, runRoot, router, listed, unreadable, untouched, landing, stop, budget>>

\* Notebook units come before page units.
IsNext(pl) == /\ phase = "units" /\ pl \in pending /\ ~stop
              /\ pl.unit.page # NoPage => \A x \in pending : x.unit.page # NoPage

LeaveAlone(pl, key) == /\ pending' = pending \ {pl} /\ untouched' = untouched \cup {key}
                       /\ UNCHANGED <<tabletVars, mapping, vault, index, phase, order, runRoot, router, listed, unreadable, todo, doc, landing, stop>>

SkipEdited(pl) == IsNext(pl) /\ pl.edited /\ LeaveAlone(pl, pl.source) /\ UNCHANGED <<rows, budget>>

\* An empty notebook never renders; any unit may fail to render, or render to nothing.
Renders(pl) == pl.unit.page # NoPage \/ LivePages(listed[pl.unit.doc]) # {}
FailUnit(pl) == /\ IsNext(pl) /\ ~pl.edited
                /\ IF Renders(pl) THEN Spend("fail") ELSE UNCHANGED budget
                /\ LeaveAlone(pl, pl.unit) /\ UNCHANGED rows

\* keepNote: a digest that lost readings is not written over one that has them.  The row becomes
\* current, unless the build threw: then it stays as it is, and due.
KeepNote(pl) ==
    /\ IsNext(pl) /\ ~pl.edited /\ Renders(pl) /\ Spend("keep")
    /\ ~Moves(pl) /\ pl.unit \in DOMAIN rows
    /\ rows[pl.unit].entryHash = listed[pl.unit.doc].ver
    /\ rows[pl.unit].path \in DOMAIN vault /\ vault[rows[pl.unit].path].kind # "plain"
    /\ rows' \in {rows, [rows EXCEPT ![pl.unit].stale = FALSE]}
    /\ LeaveAlone(pl, pl.unit)

\* writeUnit up to the note on disk: the row still says what it said before.
WriteNote(pl, p) ==
    /\ IsNext(pl) /\ ~pl.edited /\ Renders(pl)
    /\ IsTarget(pl, p)
    /\ LET fresh == BlockOf(pl.unit.doc, listed[pl.unit.doc], pl.unit.page)
           v == Moved(pl, p)
       IN /\ vault' = Put(v, p, WrittenNote(v, p, fresh))
          /\ landing' = {[unit |-> pl.unit, source |-> pl.source, path |-> p, block |-> fresh]}
    /\ pending' = pending \ {pl} /\ phase' = "written"
    /\ UNCHANGED <<tabletVars, mapping, index, rows, order, runRoot, router, listed, unreadable, todo, doc, untouched, stop, budget>>

\* Mutant: the hash the tablet has by now.
RowForNow(l) ==
    LET e == device[l.unit.doc]
    IN [status |-> "active", entryHash |-> e.ver,
        pageHash |-> IF l.unit.page = NoPage THEN 0 ELSE PageContentHash(l.unit.doc, e, l.unit.page),
        path |-> l.path, folder |-> router[l.unit.tag], block |-> l.block, stale |-> FALSE]

RowFor(l) ==
    LET e == listed[l.unit.doc]
    IN [status |-> "active", entryHash |-> e.ver,
        pageHash |-> IF l.unit.page = NoPage THEN 0 ELSE PageContentHash(l.unit.doc, e, l.unit.page),
        path |-> l.path, folder |-> router[l.unit.tag], block |-> l.block, stale |-> FALSE]

\* consumeRename, the new row, and the checkpoint after every note.
SaveRow(l) ==
    /\ phase = "written" /\ l \in landing
    /\ LET kept == IF l.source # l.unit THEN Drop(rows, l.source) ELSE rows
           left == IF l.source # l.unit THEN Without(order, l.source) ELSE order
       IN /\ rows' = Put(kept, l.unit, RowFor(l))
          /\ order' = IF l.unit \in DOMAIN kept THEN left ELSE Append(left, l.unit)
    /\ index' = WithRows(rows', order')
    /\ phase' = "units" /\ landing' = {}
    /\ UNCHANGED <<tabletVars, mapping, vault, runRoot, router, listed, unreadable, todo, doc, pending, untouched, stop, budget>>

\* The end of a document: rows not left alone take its hash, and a second checkpoint.
CloseDocument(d) ==
    /\ phase = "units" /\ pending = {} /\ d \in doc
    /\ rows' = [u \in DOMAIN rows |-> IF u.doc = d /\ u \notin untouched
                                      THEN [rows[u] EXCEPT !.entryHash = listed[d].ver] ELSE rows[u]]
    /\ index' = WithRows(rows', order)
    /\ phase' = "docs" /\ doc' = {}
    /\ UNCHANGED <<tabletVars, mapping, vault, order, runRoot, router, listed, unreadable, todo, pending, untouched, landing, stop, budget>>

\* Mutant: a document that could not be read counts as gone.
SweptUnread == [u \in DOMAIN rows |-> IF rows[u].status = "active" /\ (~listed[u.doc].live \/ u.doc \in unreadable)
                                      THEN [rows[u] EXCEPT !.status = "orphaned", !.entryHash = 0] ELSE rows[u]]
\* The orphan sweep over documents that are gone, and the only save of the new root and mappings.
SweptRows == [u \in DOMAIN rows |-> IF rows[u].status = "active" /\ ~listed[u.doc].live
                                    THEN [rows[u] EXCEPT !.status = "orphaned", !.entryHash = 0] ELSE rows[u]]
\* Mutant: the root hash is asked for at the end.
FinishRunLate ==
    /\ phase = "docs" /\ todo = {}
    /\ index' = [root |-> clock, mappings |-> router, rows |-> SweptRows, order |-> order]
    /\ ForgetRun
    /\ UNCHANGED <<tabletVars, mapping, vault, budget>>

\* The final save: the root and the mappings of the run's start, never those of its end.
FinishRun ==
    /\ phase = "docs" /\ todo = {}
    /\ index' = [root |-> runRoot, mappings |-> router, rows |-> SweptRows, order |-> order]
    /\ ForgetRun
    /\ UNCHANGED <<tabletVars, mapping, vault, budget>>

\* Obsidian quits, or anything in the run throws: what was not saved is gone.
Abort == /\ phase # "idle" /\ Spend("crash") /\ ForgetRun
         /\ UNCHANGED <<tabletVars, mapping, vault, index>>

-----------------------------------------------------------------------------
(* The specification. *)

EmptyBlock == [doc |-> CHOOSE d \in Docs : TRUE, page |-> NoPage, ink |-> [pg \in Pages |-> 0]]

Init ==
    /\ device \in InitDevices /\ clock = 1
    /\ mapping \in InitMappings
    /\ vault = [p \in OwnFiles |-> [kind |-> "plain", block |-> EmptyBlock, own |-> TRUE]]
    /\ index = [root |-> 0, mappings |-> [t \in Tags |-> NoFolder], rows |-> NoRows, order |-> <<>>]
    /\ phase = "idle" /\ stop = FALSE
    /\ rows = NoRows /\ order = <<>> /\ runRoot = 0 /\ router = [t \in Tags |-> NoFolder]
    /\ listed = [d \in {} |-> 0] /\ unreadable = {} /\ todo = {} /\ doc = {}
    /\ pending = {} /\ untouched = {} /\ landing = {}
    /\ budget = Changes

Tablet == \E d \in Docs :
    \/ Trash(d)
    \/ \E pg \in Pages : Draw(d, pg) \/ ErasePage(d, pg) \/ \E t \in Tags : TagPage(d, pg, t)
    \/ \E t \in Tags : TagDoc(d, t) \/ TagFolder(d, t)

User ==
    \/ InvalidateRenders \/ RequestStop
    \/ \E t \in Tags, f \in Folders \cup {NoFolder} : SetMapping(t, f)
    \/ \E p \in DOMAIN vault : \/ EditBlock(p) \/ UndoEdit(p) \/ RemoveFence(p) \/ DeleteNote(p)
                               \/ \E q \in Paths : RenameNote(p, q)

\* The steps a scheduled plugin takes by itself; a failure, a stop and a crash are not among them.
Run ==
    \/ StartRun \/ ListItems \/ StopHere \/ FinishRun
    \/ \E d \in Docs : PassOver(d) \/ OpenDocument(d) \/ CloseDocument(d)
    \/ \E pl \in pending : SkipEdited(pl) \/ FailUnit(pl) \/ KeepNote(pl) \/ \E p \in Paths : WriteNote(pl, p)
    \/ \E l \in landing : SaveRow(l)

Next == SkipRun \/ Run \/ Tablet \/ User \/ Abort

Spec == Init /\ [][Next]_vars
FairSpec == Spec /\ WF_vars(Run)
-----------------------------------------------------------------------------
(* Properties. *)

RowTable(rs) == DOMAIN rs \subseteq Units /\ \A u \in DOMAIN rs : rs[u] \in Row

\* Every variable has its type; an open unit's tag is mapped to a folder.
TypeOK ==
    /\ device \in [Docs -> DocEntry] /\ clock \in Nat
    /\ mapping \in Mapping
    /\ DOMAIN vault \subseteq Paths /\ \A p \in DOMAIN vault : vault[p] \in Note
    /\ index = [root |-> index.root, mappings |-> index.mappings, rows |-> index.rows, order |-> index.order]
    /\ index.root \in Nat /\ index.mappings \in Mapping /\ RowTable(index.rows) /\ index.order \in Seq(Units)
    /\ phase \in {"idle", "listing", "docs", "units", "written"}
    /\ RowTable(rows) /\ order \in Seq(Units)
    /\ runRoot \in Nat /\ router \in Mapping
    /\ phase \in {"docs", "units", "written"} => listed \in [Docs -> DocEntry]
    /\ unreadable \subseteq Docs /\ todo \subseteq Docs /\ doc \subseteq Docs
    /\ pending \subseteq Planned /\ untouched \subseteq Units
    /\ landing \subseteq [unit : Units, source : Units, path : Paths, block : Block]
    /\ \A pl \in pending : phase \in {"units", "written"} /\ router[pl.unit.tag] \in Folders
    /\ \A l \in landing : phase = "written" /\ router[l.unit.tag] \in Folders
    /\ stop \in BOOLEAN /\ budget \in Nat

\* The step that puts a note on disk, the only one of a run that touches the vault.
WriteStep == landing = {} /\ landing' # {}

EditsSurvive == \A p \in DOMAIN vault : vault[p].kind = "edited" => p \in DOMAIN vault' /\ vault'[p] = vault[p]
WordsSurvive == \A p \in DOMAIN vault : vault[p].own =>
                    \E q \in DOMAIN vault' : vault'[q].own /\ (q = p \/ q \notin DOMAIN vault)

\* A note the user corrected inside the managed block is never overwritten or moved, and no write or
\* move of the run ever drops the words the user keeps outside it (isBlockEdited, writeNoteAt, moveNote).
UserWordsKept == [][WriteStep => EditsSurvive /\ WordsSurvive]_vars

\* Two active rows never name one file (rowForNotePath relies on it).
ActivePathsDistinct ==
    \A u, w \in DOMAIN index.rows :
        index.rows[u].status = "active" /\ index.rows[w].status = "active" /\ index.rows[u].path = index.rows[w].path => u = w

\* A row never carries a hash newer than what its note was rendered from, so no gate that compares
\* hashes ever takes an outdated note for a current one (entryHash, pageHash).
HashesHonest ==
    \A u \in DOMAIN index.rows :
        LET row == index.rows[u] IN
        row.status = "active" =>
            /\ u.page = NoPage /\ row.entryHash = device[u.doc].ver => row.block = BlockOf(u.doc, device[u.doc], NoPage)
            /\ u.page # NoPage /\ row.pageHash = PageContentHash(u.doc, device[u.doc], u.page)
                   => row.block = BlockOf(u.doc, device[u.doc], u.page)

\* The units the tablet and the settings ask for now (an empty notebook cannot be rendered).
Wanted == {u \in Units : /\ device[u.doc].live
                         /\ u.tag \in TagsAt(mapping, device[u.doc], u.page)
                         /\ LivePages(device[u.doc]) # {}}
Gone == {u \in Units : ~device[u.doc].live \/ u.tag \notin TagsAt(mapping, device[u.doc], u.page)}

\* A note the user edited stays as it is, and with it the row it was written for.
Frozen(u) == u \in DOMAIN index.rows /\ IsBlockEdited(vault, index.rows[u])

Mirrored ==
    /\ \A u \in Wanted :
          \/ \E w \in Units : w.doc = u.doc /\ w.page = u.page /\ Frozen(w)
          \/ /\ u \in DOMAIN index.rows /\ index.rows[u].status = "active"
             /\ index.rows[u].path \in DOMAIN vault
             /\ index.rows[u].block = BlockOf(u.doc, device[u.doc], u.page)
             /\ ~IsRetargeted(mapping, u, index.rows[u])
    /\ \A u \in DOMAIN index.rows : index.rows[u].status = "active" => u \notin Gone \/ Frozen(u)

\* When the level-1 gate says there is nothing to do, there is nothing to do: every wanted unit has
\* its note, rendered from what the tablet holds, or one the user edited; no other row is active.
GateSound == phase = "idle" /\ UpToDate => Mirrored

\* A row is orphaned only for a tag or a document that the run's own listing no longer has -- never
\* because the run was stopped, failed to read something, or had not got there yet.
OrphanedForAReason ==
    [][\A u \in DOMAIN index.rows \cap DOMAIN index'.rows :
          index.rows[u].status = "active" /\ index'.rows[u].status = "orphaned"
          => ~listed[u.doc].live \/ u.tag \notin TagsAt(router, listed[u.doc], u.page)]_vars

\* Once the tablet and the user leave things alone, the runs come to rest, and what they leave behind
\* mirrors the tablet: no note keeps a document due for ever, no unit is forgotten (runSync's gates).
Converges == <>[](phase = "idle" /\ UpToDate /\ Mirrored)

Strays == {p \in DOMAIN vault : vault[p].kind # "plain" /\ \A u \in DOMAIN index.rows : index.rows[u].path # p}

\* Between runs every file the plugin wrote has its row.  One without is never written again: the next
\* sync takes a second name beside it (the duplicate bug the checkpoint after every note closes).
NoStrays == phase = "idle" => Strays = {}
=============================================================================
