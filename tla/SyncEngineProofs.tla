-------------------------- MODULE SyncEngineProofs --------------------------
(***************************************************************************)
(* What SyncEngine guarantees for every tablet, vault, mapping and bound:  *)
(* its types, why a row is ever orphaned, what of the user's a write       *)
(* leaves alone, which hashes and files the rows may name, and when a run  *)
(* may end before it began.                                                *)
(***************************************************************************)
EXTENDS SyncEngine, SequenceTheorems, FiniteSetTheorems, WellFoundedInduction, TLAPS

LEMMA BlockType == ASSUME NEW d \in Docs, NEW e \in DocEntry, NEW pg \in Pages \cup {NoPage}
                   PROVE  BlockOf(d, e, pg) \in Block
  BY DEF BlockOf, Block, DocEntry

LEMMA WithoutType == ASSUME NEW S, NEW s \in Seq(S), NEW x PROVE Without(s, x) \in Seq(S)
<1>1. CASE \E i \in 1 .. Len(s) : s[i] = x
  <2> DEFINE i == CHOOSE j \in 1 .. Len(s) : s[j] = x
  <2>1. i \in 1 .. Len(s)
    BY <1>1
  <2>2. SubSeq(s, 1, i - 1) \in Seq(S) /\ SubSeq(s, i + 1, Len(s)) \in Seq(S)
    <3>1. \A j \in 1 .. i - 1 : s[j] \in S
      BY <2>1
    <3>2. \A j \in i + 1 .. Len(s) : s[j] \in S
      BY <2>1
    <3> HIDE DEF i
    <3>3. SubSeq(s, 1, i - 1) \in Seq(S)
      BY <2>1, <3>1, SubSeqProperties
    <3>4. SubSeq(s, i + 1, Len(s)) \in Seq(S)
      BY <2>1, <3>2, SubSeqProperties
    <3> QED BY <3>3, <3>4
  <2>3. Without(s, x) = SubSeq(s, 1, i - 1) \o SubSeq(s, i + 1, Len(s))
    BY <1>1 DEF Without
  <2> QED BY <2>2, <2>3
<1>2. CASE ~ \E i \in 1 .. Len(s) : s[i] = x
  BY <1>2 DEF Without
<1> QED BY <1>1, <1>2

LEMMA PutRows == ASSUME NEW rs, RowTable(rs), NEW u \in Units, NEW r \in Row
                 PROVE  RowTable(Put(rs, u, r))
  BY DEF RowTable, Put

LEMMA DropRows == ASSUME NEW rs, RowTable(rs), NEW u PROVE RowTable(Drop(rs, u))
  BY DEF RowTable, Drop

LEMMA EntryChanges == ASSUME NEW e \in DocEntry
                      PROVE  /\ \A n \in Nat : [e EXCEPT !.ver = n] \in DocEntry
                             /\ \A x \in BOOLEAN : [e EXCEPT !.live = x] \in DocEntry
                             /\ \A x \in [Pages -> Nat] : [e EXCEPT !.ink = x] \in DocEntry
                             /\ \A x \in SUBSET Tags : [e EXCEPT !.tags = x] \in DocEntry
                             /\ \A x \in [Pages -> SUBSET Tags] : [e EXCEPT !.pageTags = x] \in DocEntry
                             /\ \A x \in SUBSET Tags : [e EXCEPT !.inherited = x] \in DocEntry
  BY Zenon DEF DocEntry

\* A change to one thing of a document leaves the others.
LEMMA EntryKeeps == ASSUME NEW e \in DocEntry, NEW x
                    PROVE  /\ LET f == [e EXCEPT !.ver = x] IN f.ver = x /\ f.ink = e.ink /\ f.pageTags = e.pageTags
                           /\ LET f == [e EXCEPT !.live = x] IN f.ver = e.ver /\ f.ink = e.ink /\ f.pageTags = e.pageTags
                           /\ LET f == [e EXCEPT !.inherited = x] IN f.ver = e.ver /\ f.ink = e.ink /\ f.pageTags = e.pageTags
                           /\ [e EXCEPT !.ink = x].pageTags = e.pageTags
                           /\ [e EXCEPT !.tags = x].pageTags = e.pageTags
<1>1. LET f == [e EXCEPT !.ver = x] IN f.ver = x /\ f.ink = e.ink /\ f.pageTags = e.pageTags
  BY DEF DocEntry
<1>2. LET f == [e EXCEPT !.live = x] IN f.ver = e.ver /\ f.ink = e.ink /\ f.pageTags = e.pageTags
  BY DEF DocEntry
<1>3. LET f == [e EXCEPT !.inherited = x] IN f.ver = e.ver /\ f.ink = e.ink /\ f.pageTags = e.pageTags
  BY DEF DocEntry
<1>4. [e EXCEPT !.ink = x].pageTags = e.pageTags
  BY DEF DocEntry
<1>5. [e EXCEPT !.tags = x].pageTags = e.pageTags
  BY DEF DocEntry
<1> QED BY <1>1, <1>2, <1>3, <1>4, <1>5

LEMMA NoteChanges == ASSUME NEW n \in Note, NEW k \in {"written", "edited", "plain"}
                     PROVE  [n EXCEPT !.kind = k] \in Note
  BY Zenon DEF Note

LEMMA RowChanges == ASSUME NEW r \in Row
                    PROVE  /\ \A x \in BOOLEAN : [r EXCEPT !.stale = x] \in Row
                           /\ \A x \in {"active", "orphaned"} : [r EXCEPT !.status = x] \in Row
                           /\ \A x \in Nat : [r EXCEPT !.entryHash = x] \in Row
                           /\ \A x \in Paths : [r EXCEPT !.path = x] \in Row
  BY Zenon DEF Row

LEMMA InitTyped == ASSUME Init PROVE TypeOK
<1>1. EmptyBlock \in Block
  BY ConstantsAssumption DEF EmptyBlock, Block
<1>2. RowTable(rows) /\ RowTable(index.rows)
  BY DEF Init, RowTable, NoRows
<1>3. DOMAIN vault \subseteq Paths /\ \A p \in DOMAIN vault : vault[p] \in Note
  BY <1>1, ConstantsAssumption DEF Init, Note
<1>4. device \in [Docs -> DocEntry] /\ mapping \in Mapping /\ router \in Mapping /\ index.mappings \in Mapping
  BY ConstantsAssumption DEF Init, Mapping
<1>5. /\ index = [root |-> index.root, mappings |-> index.mappings, rows |-> index.rows, order |-> index.order]
      /\ index.root \in Nat /\ index.order \in Seq(Units) /\ order \in Seq(Units)
  BY DEF Init
<1> QED BY <1>2, <1>3, <1>4, <1>5, ConstantsAssumption DEF Init, TypeOK

-----------------------------------------------------------------------------
LEMMA TabletTyped == ASSUME TypeOK, Tablet PROVE TypeOK'
<1>1. ASSUME NEW d \in Docs, NEW e \in DocEntry, TabletChange(d, e), NEW op, Spend(op) PROVE TypeOK'
  <2>1. device' \in [Docs -> DocEntry] /\ clock' \in Nat /\ budget' \in Nat
    BY <1>1 DEF TypeOK, TabletChange, Spend
  <2> QED BY <1>1, <2>1 DEF TypeOK, RowTable, TabletChange, runVars
<1>2. ASSUME NEW d \in Docs, NEW e \in DocEntry, DocumentChange(d, e), NEW op, Spend(op) PROVE TypeOK'
  <2>1. clock + 1 \in Nat
    BY DEF TypeOK
  <2> QED BY <1>1, <1>2, <2>1, EntryChanges DEF DocumentChange
<1>3. \A d \in Docs : device[d] \in DocEntry
  BY DEF TypeOK
<1>4. \A d \in Docs, t \in Tags : Toggle(device[d].tags, t) \in SUBSET Tags /\ Toggle(device[d].inherited, t) \in SUBSET Tags
  BY <1>3 DEF Toggle, DocEntry
<1>5. \A d \in Docs, pg \in Pages, n \in Nat : [device[d].ink EXCEPT ![pg] = n] \in [Pages -> Nat]
  BY <1>3 DEF DocEntry
<1>6. \A d \in Docs, pg \in Pages, t \in Tags :
         [device[d].pageTags EXCEPT ![pg] = Toggle(@, t)] \in [Pages -> SUBSET Tags]
  BY <1>3 DEF Toggle, DocEntry
<1>7. ASSUME NEW d \in Docs, Trash(d) PROVE TypeOK'
  <2>1. (~device[d].live) \in BOOLEAN
    OBVIOUS
  <2> QED BY <1>1, <1>3, <1>7, <2>1, EntryChanges DEF Trash
<1>8. ASSUME NEW d \in Docs, NEW pg \in Pages, Draw(d, pg) PROVE TypeOK'
  <2>1. clock + 1 \in Nat
    BY DEF TypeOK
  <2> QED BY <1>2, <1>3, <1>5, <1>8, <2>1, EntryChanges DEF Draw
<1>9. ASSUME NEW d \in Docs, NEW pg \in Pages, ErasePage(d, pg) PROVE TypeOK'
  BY <1>2, <1>3, <1>5, <1>9, EntryChanges DEF ErasePage
<1>10. ASSUME NEW d \in Docs, NEW pg \in Pages, NEW t \in Tags, TagPage(d, pg, t) PROVE TypeOK'
  BY <1>2, <1>3, <1>6, <1>10, EntryChanges DEF TagPage
<1>11. ASSUME NEW d \in Docs, NEW t \in Tags, TagDoc(d, t) PROVE TypeOK'
  BY <1>2, <1>3, <1>4, <1>11, EntryChanges DEF TagDoc
<1>12. ASSUME NEW d \in Docs, NEW t \in Tags, TagFolder(d, t) PROVE TypeOK'
  BY <1>1, <1>3, <1>4, <1>12, EntryChanges DEF TagFolder
<1> QED BY <1>7, <1>8, <1>9, <1>10, <1>11, <1>12 DEF Tablet

-----------------------------------------------------------------------------
LEMMA VaultTyped == ASSUME TypeOK, NEW v, VaultChange(v), UNCHANGED index, NEW op, Spend(op),
                           DOMAIN v \subseteq Paths, \A p \in DOMAIN v : v[p] \in Note
                    PROVE  TypeOK'
  BY DEF TypeOK, RowTable, VaultChange, Spend, tabletVars, runVars

LEMMA IndexTyped == ASSUME TypeOK, NEW rs, RowTable(rs), NEW ord \in Seq(Units), index' = WithRows(rs, ord)
                    PROVE  /\ index' = [root |-> index'.root, mappings |-> index'.mappings, rows |-> index'.rows, order |-> index'.order]
                           /\ index'.root \in Nat /\ index'.mappings \in Mapping /\ RowTable(index'.rows) /\ index'.order \in Seq(Units)
  BY DEF TypeOK, WithRows

LEMMA UserTyped == ASSUME TypeOK, User PROVE TypeOK'
<1>0. \A p \in DOMAIN vault : vault[p] \in Note
  BY DEF TypeOK
<1>1. CASE InvalidateRenders
  <2>1. RowTable([u \in DOMAIN index.rows |-> IF index.rows[u].status = "active"
                                              THEN [index.rows[u] EXCEPT !.stale = TRUE] ELSE index.rows[u]])
    BY RowChanges DEF TypeOK, RowTable
  <2>2. index.order \in Seq(Units)
    BY DEF TypeOK
  <2>3. /\ index' = [root |-> index'.root, mappings |-> index'.mappings, rows |-> index'.rows, order |-> index'.order]
        /\ index'.root \in Nat /\ index'.mappings \in Mapping /\ RowTable(index'.rows) /\ index'.order \in Seq(Units)
    BY <1>1, <2>1, <2>2, IndexTyped DEF InvalidateRenders
  <2>4. Spend("invalidate") /\ UNCHANGED <<tabletVars, mapping, vault, phase, runVars, stop>>
    BY <1>1, Zenon DEF InvalidateRenders
  <2> QED BY <2>3, <2>4 DEF TypeOK, RowTable, Spend, tabletVars, runVars
<1>2. CASE RequestStop
  BY <1>2 DEF TypeOK, RowTable, RequestStop, Spend, tabletVars, runVars
<1>3. ASSUME NEW t \in Tags, NEW f \in Folders \cup {NoFolder}, SetMapping(t, f) PROVE TypeOK'
  <2>1. mapping' \in Mapping
    BY <1>3 DEF TypeOK, SetMapping, Mapping
  <2> QED BY <1>3, <2>1 DEF TypeOK, RowTable, SetMapping, Spend, tabletVars, runVars
<1>4. ASSUME NEW p \in DOMAIN vault, NEW n \in Note, VaultChange([vault EXCEPT ![p] = n]), UNCHANGED index,
             NEW op, Spend(op)
      PROVE  TypeOK'
  <2>1. DOMAIN [vault EXCEPT ![p] = n] \subseteq Paths /\ \A q \in DOMAIN [vault EXCEPT ![p] = n] : [vault EXCEPT ![p] = n][q] \in Note
    BY <1>4 DEF TypeOK
  <2> QED BY <1>4, <2>1, VaultTyped
<1>5. ASSUME NEW p \in DOMAIN vault, EditBlock(p) PROVE TypeOK'
  BY <1>0, <1>4, <1>5, NoteChanges DEF EditBlock
<1>6. ASSUME NEW p \in DOMAIN vault, UndoEdit(p) PROVE TypeOK'
  BY <1>0, <1>4, <1>6, NoteChanges DEF UndoEdit
<1>7. ASSUME NEW p \in DOMAIN vault, RemoveFence(p) PROVE TypeOK'
  <2>1. [kind |-> "plain", block |-> vault[p].block, own |-> TRUE] \in Note
    BY <1>0 DEF Note
  <2> QED BY <1>4, <1>7, <2>1 DEF RemoveFence
<1>8. ASSUME NEW p \in DOMAIN vault, DeleteNote(p) PROVE TypeOK'
  <2>1. DOMAIN Drop(vault, p) \subseteq Paths /\ \A q \in DOMAIN Drop(vault, p) : Drop(vault, p)[q] \in Note
    BY DEF TypeOK, Drop
  <2> QED BY <1>8, <2>1, VaultTyped DEF DeleteNote
<1>9. ASSUME NEW p \in DOMAIN vault, NEW q \in Paths, RenameNote(p, q) PROVE TypeOK'
  <2>1. RowTable(RemapRows(index.rows, p, q))
    BY RowChanges DEF TypeOK, RowTable, RemapRows
  <2>2. DOMAIN vault' \subseteq Paths /\ \A r \in DOMAIN vault' : vault'[r] \in Note
    BY <1>9 DEF TypeOK, RenameNote, VaultChange, Put, Drop
  <2>3. /\ index' = [root |-> index'.root, mappings |-> index'.mappings, rows |-> index'.rows, order |-> index'.order]
        /\ index'.root \in Nat /\ index'.mappings \in Mapping /\ RowTable(index'.rows) /\ index'.order \in Seq(Units)
    <3>1. CASE phase = "idle"
      BY <1>9, <2>1, <3>1, IndexTyped DEF RenameNote, TypeOK
    <3>2. CASE phase # "idle"
      BY <1>9, <3>2 DEF RenameNote, TypeOK
    <3> QED BY <3>1, <3>2
  <2> QED BY <1>9, <2>2, <2>3, SMTT(30) DEF TypeOK, RowTable, RenameNote, VaultChange, Spend, tabletVars, runVars
<1> QED BY <1>1, <1>2, <1>3, <1>5, <1>6, <1>7, <1>8, <1>9 DEF User

-----------------------------------------------------------------------------
LEMMA TagsAtMapped == ASSUME NEW m \in Mapping, NEW e \in DocEntry, NEW pg, NEW t \in TagsAt(m, e, pg)
                      PROVE  t \in Tags /\ m[t] \in Folders
<1>1. \A T \in SUBSET Tags : \A x \in MappedTo(m, T) : x \in Tags /\ m[x] \in Folders
  BY DEF MappedTo, Mapping
<1>2. e.tags \in SUBSET Tags /\ e.inherited \in SUBSET Tags /\ e.pageTags \in [Pages -> SUBSET Tags]
  BY DEF DocEntry
<1>3. \/ t \in MappedTo(m, e.tags \cup e.inherited)
      \/ pg \in Pages /\ t \in MappedTo(m, e.pageTags[pg])
  BY DEF TagsAt, NotebookTags, PageTags, LivePages
<1> QED BY <1>1, <1>2, <1>3

LEMMA PlanTyped == ASSUME TypeOK, phase = "docs", NEW d \in Docs
                   PROVE  /\ PlanUnits(d) \subseteq Planned
                          /\ \A pl \in PlanUnits(d) : router[pl.unit.tag] \in Folders
<1> SUFFICES ASSUME NEW pl \in PlanUnits(d) PROVE pl \in Planned /\ router[pl.unit.tag] \in Folders
  OBVIOUS
<1>1. PICK u \in UnitsOf(router, d, listed[d]) :
         pl = [unit |-> u, source |-> SourceOf(u),
               edited |-> SourceOf(u) \in DOMAIN rows /\ IsBlockEdited(vault, rows[SourceOf(u)])]
  BY Zenon DEF PlanUnits
<1>0. u \in Units /\ u.doc = d /\ u.tag \in TagsAt(router, listed[d], u.page)
  BY DEF UnitsOf
<1>2. router[u.tag] \in Folders
  BY <1>0, TagsAtMapped DEF TypeOK
<1>3. SourceOf(u) \in Units
  <2>1. CASE IsRename(u.doc, u.page) /\ u.tag \in Added(u.doc, u.page)
    <3>1. SourceOf(u) \in Removed(u.doc, u.page)
      BY <2>1 DEF SourceOf, IsRename
    <3> QED BY <3>1 DEF Removed, ActiveAt, TypeOK, RowTable
  <2>2. CASE ~(IsRename(u.doc, u.page) /\ u.tag \in Added(u.doc, u.page))
    BY <1>0, <2>2 DEF SourceOf
  <2> QED BY <2>1, <2>2
<1>4. (SourceOf(u) \in DOMAIN rows /\ IsBlockEdited(vault, rows[SourceOf(u)])) \in BOOLEAN
  OBVIOUS
<1>5. pl \in Planned
  BY <1>0, <1>1, <1>3, <1>4, Zenon DEF Planned
<1> QED BY <1>1, <1>2, <1>5

\* What a run leaves when it ends is what it started from.
LEMMA ForgetTyped == ASSUME ForgetRun
                     PROVE  /\ phase' = "idle" /\ stop' \in BOOLEAN
                            /\ RowTable(rows') /\ order' \in Seq(Units) /\ runRoot' \in Nat /\ router' \in Mapping
                            /\ unreadable' = {} /\ todo' = {} /\ doc' = {} /\ pending' = {} /\ untouched' = {} /\ landing' = {}
<1>1. RowTable(NoRows) /\ <<>> \in Seq(Units) /\ [t \in Tags |-> NoFolder] \in Mapping
  BY DEF RowTable, NoRows, Mapping
<1>2. /\ phase' = "idle" /\ stop' = FALSE /\ rows' = NoRows /\ order' = <<>> /\ runRoot' = 0
      /\ router' = [t \in Tags |-> NoFolder]
      /\ unreadable' = {} /\ todo' = {} /\ doc' = {} /\ pending' = {} /\ untouched' = {} /\ landing' = {}
  BY Zenon DEF ForgetRun
<1> QED BY <1>1, <1>2

LEMMA RunTyped == ASSUME TypeOK, Run PROVE TypeOK'
<1>1. CASE StartRun
  BY <1>1 DEF TypeOK, RowTable, StartRun, tabletVars
<1>2. CASE ListItems
  BY <1>2 DEF TypeOK, RowTable, ListItems, Spend, tabletVars
<1>3. ASSUME ForgetRun, UNCHANGED <<tabletVars, mapping, vault>>, budget' \in Nat,
             /\ index' = [root |-> index'.root, mappings |-> index'.mappings, rows |-> index'.rows, order |-> index'.order]
             /\ index'.root \in Nat /\ index'.mappings \in Mapping /\ RowTable(index'.rows) /\ index'.order \in Seq(Units)
      PROVE  TypeOK'
  <2>1. /\ device' = device /\ clock' = clock /\ mapping' = mapping /\ vault' = vault
    BY <1>3 DEF tabletVars
  <2> QED BY <1>3, <2>1, ForgetTyped DEF TypeOK
<1>4. CASE StopHere
  <2>1. RowTable(rows) /\ order \in Seq(Units) /\ budget \in Nat
    BY DEF TypeOK
  <2> QED BY <1>3, <1>4, <2>1, IndexTyped DEF StopHere
<1>5. CASE FinishRun
  <2>1. RowTable(SweptRows) /\ order \in Seq(Units) /\ runRoot \in Nat /\ router \in Mapping /\ budget \in Nat
    BY RowChanges DEF TypeOK, RowTable, SweptRows
  <2> QED BY <1>3, <1>5, <2>1 DEF FinishRun
<1>6. ASSUME NEW d \in Docs, PassOver(d) PROVE TypeOK'
  BY <1>6 DEF TypeOK, RowTable, PassOver, tabletVars
<1>7. ASSUME NEW d \in Docs, OpenDocument(d) PROVE TypeOK'
  <2>1. RowTable(rows')
    BY <1>7, RowChanges DEF TypeOK, RowTable, OpenDocument
  <2>2. pending' \subseteq Planned /\ \A pl \in pending' : router[pl.unit.tag] \in Folders
    BY <1>7, PlanTyped DEF OpenDocument
  <2>3. /\ phase = "docs" /\ phase' = "units" /\ doc' = {d} /\ todo' = todo \ {d}
        /\ UNCHANGED <<tabletVars, mapping, vault, index, order, runRoot, router, listed, unreadable, untouched, landing, stop, budget>>
    BY <1>7, Zenon DEF OpenDocument
  <2> QED BY <2>1, <2>2, <2>3 DEF TypeOK, RowTable, tabletVars
<1>8. ASSUME NEW d \in Docs, CloseDocument(d) PROVE TypeOK'
  <2>1. listed[d].ver \in Nat
    BY <1>8 DEF TypeOK, CloseDocument, DocEntry
  <2>2. RowTable(rows')
    BY <1>8, <2>1, RowChanges DEF TypeOK, RowTable, CloseDocument
  <2>3. /\ pending = {} /\ index' = WithRows(rows', order) /\ phase = "units" /\ phase' = "docs" /\ doc' = {}
        /\ UNCHANGED <<tabletVars, mapping, vault, order, runRoot, router, listed, unreadable, todo, pending, untouched, landing, stop, budget>>
    BY <1>8, Zenon DEF CloseDocument
  <2>4. order \in Seq(Units)
    BY DEF TypeOK
  <2>5. /\ index' = [root |-> index'.root, mappings |-> index'.mappings, rows |-> index'.rows, order |-> index'.order]
        /\ index'.root \in Nat /\ index'.mappings \in Mapping /\ RowTable(index'.rows) /\ index'.order \in Seq(Units)
    BY <2>2, <2>3, <2>4, IndexTyped
  <2> QED BY <2>2, <2>3, <2>5 DEF TypeOK, RowTable, tabletVars
<1>9. ASSUME NEW pl \in pending, SkipEdited(pl) PROVE TypeOK'
  <2>1. pl.source \in Units
    BY DEF TypeOK, Planned
  <2> QED BY <1>9, <2>1 DEF TypeOK, RowTable, SkipEdited, IsNext, LeaveAlone, tabletVars
<1>10. ASSUME NEW pl \in pending, FailUnit(pl) PROVE TypeOK'
  <2>1. pl.unit \in Units
    BY DEF TypeOK, Planned
  <2> QED BY <1>10, <2>1 DEF TypeOK, RowTable, FailUnit, IsNext, LeaveAlone, Spend, tabletVars
<1>11. ASSUME NEW pl \in pending, KeepNote(pl) PROVE TypeOK'
  <2>1. pl.unit \in Units
    BY DEF TypeOK, Planned
  <2>2. RowTable(rows')
    <3>1. \A u \in DOMAIN rows : [rows[u] EXCEPT !.stale = FALSE] \in Row
      BY RowChanges DEF TypeOK, RowTable
    <3>2. pl.unit \in DOMAIN rows /\ rows' \in {rows, [rows EXCEPT ![pl.unit].stale = FALSE]}
      BY <1>11, Zenon DEF KeepNote
    <3>3. CASE rows' = rows
      BY <3>3 DEF TypeOK, RowTable
    <3>4. CASE rows' = [rows EXCEPT ![pl.unit].stale = FALSE]
      <4>1. rows' = [rows EXCEPT ![pl.unit] = [rows[pl.unit] EXCEPT !.stale = FALSE]]
        BY <3>4, Zenon
      <4> QED BY <3>1, <3>2, <4>1 DEF TypeOK, RowTable
    <3> QED BY <3>2, <3>3, <3>4
  <2>3. /\ Spend("keep") /\ phase = "units"
        /\ LeaveAlone(pl, pl.unit)
    BY <1>11, Zenon DEF KeepNote, IsNext
  <2> QED BY <2>1, <2>2, <2>3 DEF TypeOK, RowTable, LeaveAlone, Spend, tabletVars
<1>12. ASSUME NEW pl \in pending, NEW p \in Paths, WriteNote(pl, p) PROVE TypeOK'
  <2> DEFINE b == BlockOf(pl.unit.doc, listed[pl.unit.doc], pl.unit.page)
             v == Moved(pl, p)
  <2>1. pl.unit \in Units /\ pl.source \in Units /\ router[pl.unit.tag] \in Folders
    BY DEF TypeOK, Planned
  <2>2. b \in Block
    <3>1. listed[pl.unit.doc] \in DocEntry
      BY <1>12, <2>1 DEF TypeOK, WriteNote, IsNext, Units
    <3> QED BY <2>1, <3>1, BlockType DEF Units
  <2>3. DOMAIN v \subseteq Paths /\ \A q \in DOMAIN v : v[q] \in Note
    BY DEF TypeOK, Moved, Put, Drop
  <2>4. WrittenNote(v, p, b) \in Note
    <3>1. (p \in DOMAIN v /\ v[p].own) \in BOOLEAN
      OBVIOUS
    <3> HIDE DEF v, b
    <3> QED BY <2>2, <3>1 DEF WrittenNote, Note
  <2>5. /\ vault' = Put(v, p, WrittenNote(v, p, b))
        /\ landing' = {[unit |-> pl.unit, source |-> pl.source, path |-> p, block |-> b]}
        /\ pending' = pending \ {pl} /\ phase = "units" /\ phase' = "written"
        /\ UNCHANGED <<tabletVars, mapping, index, rows, order, runRoot, router, listed, unreadable, todo, doc, untouched, stop, budget>>
    BY <1>12, Zenon DEF WriteNote, IsNext
  <2> HIDE DEF v, b
  <2>6. DOMAIN vault' \subseteq Paths /\ \A q \in DOMAIN vault' : vault'[q] \in Note
    BY <2>3, <2>4, <2>5 DEF Put
  <2>7. landing' \subseteq [unit : Units, source : Units, path : Paths, block : Block]
    BY <2>1, <2>2, <2>5
  <2> QED BY <2>1, <2>5, <2>6, <2>7 DEF TypeOK, RowTable, tabletVars
<1>13. ASSUME NEW l \in landing, SaveRow(l) PROVE TypeOK'
  <2>1. l.unit \in Units /\ l.path \in Paths /\ l.block \in Block /\ router[l.unit.tag] \in Folders
    BY DEF TypeOK
  <2>2. RowFor(l) \in Row
    <3>1. listed \in [Docs -> DocEntry]
      BY <1>13 DEF TypeOK, SaveRow
    <3>2. listed[l.unit.doc].ver \in Nat /\ listed[l.unit.doc].ink \in [Pages -> Nat]
      BY <2>1, <3>1 DEF Units, DocEntry
    <3>3. l.unit.page = NoPage \/ PageContentHash(l.unit.doc, listed[l.unit.doc], l.unit.page) \in Nat
      BY <2>1, <3>2 DEF Units, PageContentHash
    <3> QED BY <2>1, <3>2, <3>3 DEF RowFor, Row
  <2> DEFINE kept == IF l.source # l.unit THEN Drop(rows, l.source) ELSE rows
             left == IF l.source # l.unit THEN Without(order, l.source) ELSE order
  <2>3. RowTable(kept) /\ left \in Seq(Units)
    BY DropRows, WithoutType DEF TypeOK
  <2>4. /\ rows' = Put(kept, l.unit, RowFor(l))
        /\ order' = IF l.unit \in DOMAIN kept THEN left ELSE Append(left, l.unit)
        /\ index' = WithRows(rows', order')
        /\ phase = "written" /\ phase' = "units" /\ landing' = {}
        /\ UNCHANGED <<tabletVars, mapping, vault, runRoot, router, listed, unreadable, todo, doc, pending, untouched, stop, budget>>
    BY <1>13, Zenon DEF SaveRow
  <2> HIDE DEF kept, left
  <2>5. RowTable(rows') /\ order' \in Seq(Units)
    BY <2>1, <2>2, <2>3, <2>4, PutRows
  <2>6. /\ index' = [root |-> index'.root, mappings |-> index'.mappings, rows |-> index'.rows, order |-> index'.order]
        /\ index'.root \in Nat /\ index'.mappings \in Mapping /\ RowTable(index'.rows) /\ index'.order \in Seq(Units)
    BY <2>4, <2>5, IndexTyped
  <2> QED BY <2>4, <2>5, <2>6 DEF TypeOK, RowTable, tabletVars
<1> QED BY <1>1, <1>2, <1>4, <1>5, <1>6, <1>7, <1>8, <1>9, <1>10, <1>11, <1>12, <1>13 DEF Run

LEMMA AbortTyped == ASSUME TypeOK, Abort PROVE TypeOK'
<1>1. ForgetRun /\ UNCHANGED <<device, clock, mapping, vault, index>> /\ budget' \in Nat
  BY DEF Abort, Spend, tabletVars, TypeOK
<1> QED BY <1>1, ForgetTyped DEF TypeOK

LEMMA StillTyped == ASSUME TypeOK, UNCHANGED vars PROVE TypeOK'
  BY DEF TypeOK, RowTable, vars, runVars

\* Every reachable state is well typed, for every tablet, vault, mapping and bound: no operation of a
\* run, of the tablet or of the user leaves a row, a note or a plan of the wrong shape, and a unit the
\* run has open is always one whose tag is mapped to a folder.
THEOREM TypeCorrect == Spec => []TypeOK
<1>1. TypeOK /\ [Next]_vars => TypeOK'
  BY RunTyped, TabletTyped, UserTyped, AbortTyped, StillTyped DEF Next, SkipRun
<1> QED BY <1>1, InitTyped, PTL DEF Spec

-----------------------------------------------------------------------------
(* OrphanedForAReason.  The property speaks of the saved rows, but a row is orphaned in the run's     *)
(* working rows and saved by a later step: the invariant ties the two together in between.            *)

LEMMA RowStatus == ASSUME NEW r \in Row
                   PROVE  /\ \A x : [r EXCEPT !.stale = x].status = r.status
                          /\ \A x : [r EXCEPT !.entryHash = x].status = r.status
                          /\ \A x : [r EXCEPT !.path = x].status = r.status
                          /\ \A x : [r EXCEPT !.status = x].status = x
  BY Zenon DEF Row

Reason(u) == ~listed[u.doc].live \/ u.tag \notin TagsAt(router, listed[u.doc], u.page)

\* No row of rs is orphaned that base has as active, unless there is a reason.
Justified(base, rs) == \A u \in DOMAIN base \cap DOMAIN rs :
                          base[u].status = "active" /\ rs[u].status = "orphaned" => Reason(u)

RunOrphans == /\ phase = "listing" => rows = index.rows
              /\ phase \in {"docs", "units", "written"} => Justified(index.rows, rows)

OrphanStep == Justified(index.rows, index'.rows)

LEMMA NothingOrphaned == ASSUME NEW rs, RowTable(rs) PROVE Justified(rs, rs)
  BY DEF Justified, RowTable

\* A step that leaves the run, its rows and the index alone.
LEMMA QuietStep == ASSUME TypeOK, RunOrphans, UNCHANGED <<index, phase, rows, listed, router>>
                   PROVE  RunOrphans' /\ OrphanStep
<1>1. OrphanStep
  BY NothingOrphaned DEF TypeOK, OrphanStep
<1>2. \A u : Reason(u)' <=> Reason(u)
  BY DEF Reason, TagsAt, NotebookTags, PageTags, MappedTo, LivePages
<1> QED BY <1>1, <1>2 DEF RunOrphans, Justified

\* While no run has its rows in hand, a step that changes no row's status is harmless.
LEMMA IdleStep == ASSUME TypeOK, phase = "idle", phase' = "idle", DOMAIN index'.rows = DOMAIN index.rows,
                         \A u \in DOMAIN index.rows : index'.rows[u].status = index.rows[u].status
                  PROVE  RunOrphans' /\ OrphanStep
  BY DEF RunOrphans, OrphanStep, Justified, RowTable

LEMMA OutsideStep == ASSUME TypeOK, RunOrphans, Tablet \/ User \/ SkipRun \/ UNCHANGED vars
                     PROVE  RunOrphans' /\ OrphanStep
<1>1. CASE Tablet
  BY <1>1, QuietStep DEF Tablet, Trash, Draw, ErasePage, TagPage, TagDoc, TagFolder, DocumentChange, TabletChange, runVars
<1>2. CASE SkipRun \/ UNCHANGED vars
  BY <1>2, QuietStep DEF SkipRun, vars, runVars
<1>3. CASE RequestStop \/ \E t \in Tags, f \in Folders \cup {NoFolder} : SetMapping(t, f)
  BY <1>3, QuietStep DEF RequestStop, SetMapping, tabletVars, runVars
<1>4. CASE \E p \in DOMAIN vault : EditBlock(p) \/ UndoEdit(p) \/ RemoveFence(p) \/ DeleteNote(p)
  BY <1>4, QuietStep DEF EditBlock, UndoEdit, RemoveFence, DeleteNote, VaultChange, runVars
<1>5. CASE InvalidateRenders
  <2>1. /\ phase = "idle" /\ phase' = "idle"
        /\ index'.rows = [u \in DOMAIN index.rows |-> IF index.rows[u].status = "active"
                                                      THEN [index.rows[u] EXCEPT !.stale = TRUE] ELSE index.rows[u]]
    BY <1>5, Zenon DEF InvalidateRenders, WithRows
  <2>2. \A u \in DOMAIN index.rows : index'.rows[u].status = index.rows[u].status
    BY <2>1, RowStatus DEF TypeOK, RowTable
  <2> QED BY <2>1, <2>2, IdleStep
<1>6. ASSUME NEW p, NEW q, RenameNote(p, q) PROVE RunOrphans' /\ OrphanStep
  <2>1. CASE phase # "idle"
    BY <1>6, <2>1, QuietStep DEF RenameNote, VaultChange, runVars
  <2>2. CASE phase = "idle"
    <3>1. phase' = "idle" /\ index'.rows = RemapRows(index.rows, p, q)
      BY <1>6, <2>2 DEF RenameNote, VaultChange, WithRows
    <3>2. \A u \in DOMAIN index.rows : index'.rows[u].status = index.rows[u].status
      BY <3>1, RowStatus DEF TypeOK, RowTable, RemapRows
    <3>3. DOMAIN index'.rows = DOMAIN index.rows
      BY <3>1 DEF RemapRows
    <3> QED BY <2>2, <3>1, <3>2, <3>3, IdleStep
  <2> QED BY <2>1, <2>2
<1> QED BY <1>1, <1>2, <1>3, <1>4, <1>5, <1>6 DEF User

InHand == phase \in {"docs", "units", "written"}

\* What a run in progress makes of its rows: none becomes orphaned without a reason, none starts orphaned.
Follows(rs) == \A u \in DOMAIN rs : rs[u].status = "orphaned" => u \in DOMAIN rows /\ (rows[u].status = "orphaned" \/ Reason(u))

LEMMA FollowsJustified == ASSUME TypeOK, RunOrphans, InHand, NEW rs, Follows(rs) PROVE Justified(index.rows, rs)
  BY DEF RunOrphans, InHand, Follows, Justified, TypeOK, RowTable

\* A step inside a run that touches the listing and the router no more, and saves its rows or does not.
LEMMA RowsStep == ASSUME TypeOK, RunOrphans, InHand, InHand', Follows(rows'), UNCHANGED <<listed, router>>,
                         index' = index \/ index'.rows = rows'
                  PROVE  RunOrphans' /\ OrphanStep
<1>1. Justified(index.rows, rows')
  BY FollowsJustified
<1>2. OrphanStep
  BY <1>1, NothingOrphaned DEF OrphanStep, TypeOK
<1>3. \A u : Reason(u)' <=> Reason(u)
  BY DEF Reason, TagsAt, NotebookTags, PageTags, MappedTo, LivePages
<1>4. Justified(index.rows, rows)'
  BY <1>1, <1>3 DEF Justified
<1> QED BY <1>4, <1>2 DEF RunOrphans, InHand

LEMMA SameRowsFollow == ASSUME TypeOK PROVE Follows(rows)
  BY DEF Follows

\* The last save of a run, complete or stopped.
LEMMA LastSave == ASSUME TypeOK, RunOrphans, InHand, Follows(index'.rows), phase' = "idle" PROVE RunOrphans' /\ OrphanStep
  BY FollowsJustified DEF OrphanStep, RunOrphans

LEMMA RunOrphansStep == ASSUME TypeOK, RunOrphans, Run PROVE RunOrphans' /\ OrphanStep
<1>1. CASE StartRun
  BY <1>1, NothingOrphaned DEF StartRun, RunOrphans, OrphanStep, TypeOK
<1>2. CASE ListItems
  <2>1. /\ phase = "listing" /\ phase' = "docs" /\ index' = index /\ rows' = rows
    BY <1>2, Zenon DEF ListItems
  <2>2. Justified(index.rows, rows)'
    BY <2>1 DEF RunOrphans, Justified
  <2> QED BY <2>1, <2>2, NothingOrphaned DEF RunOrphans, OrphanStep, TypeOK
<1>3. CASE StopHere
  BY <1>3, LastSave, SameRowsFollow DEF StopHere, InHand, WithRows, ForgetRun
<1>4. CASE FinishRun
  <2>1. Follows(SweptRows)
    BY RowStatus DEF Follows, SweptRows, Reason, TypeOK, RowTable
  <2>2. phase = "docs" /\ phase' = "idle" /\ index'.rows = SweptRows
    BY <1>4, Zenon DEF FinishRun, ForgetRun
  <2> QED BY <2>1, <2>2, LastSave DEF InHand
<1>5. ASSUME NEW d \in Docs, PassOver(d) PROVE RunOrphans' /\ OrphanStep
  BY <1>5, RowsStep, SameRowsFollow DEF PassOver, InHand
<1>6. ASSUME NEW d \in Docs, OpenDocument(d) PROVE RunOrphans' /\ OrphanStep
  <2>1. /\ rows' = [u \in DOMAIN rows |-> IF u \in OrphanedBy(d) THEN [rows[u] EXCEPT !.status = "orphaned"] ELSE rows[u]]
        /\ phase = "docs" /\ phase' = "units" /\ UNCHANGED <<index, listed, router>>
    BY <1>6, Zenon DEF OpenDocument
  <2>2. \A u \in OrphanedBy(d) : Reason(u)
    BY DEF OrphanedBy, ActiveOf, Removed, Reason
  <2>3. Follows(rows')
    BY <2>1, <2>2, RowStatus DEF Follows, TypeOK, RowTable
  <2> QED BY <2>1, <2>3, RowsStep DEF InHand
<1>7. ASSUME NEW d \in Docs, CloseDocument(d) PROVE RunOrphans' /\ OrphanStep
  <2>1. /\ rows' = [u \in DOMAIN rows |-> IF u.doc = d /\ u \notin untouched
                                          THEN [rows[u] EXCEPT !.entryHash = listed[d].ver] ELSE rows[u]]
        /\ phase = "units" /\ phase' = "docs" /\ index'.rows = rows' /\ UNCHANGED <<listed, router>>
    BY <1>7, Zenon DEF CloseDocument, WithRows
  <2>2. Follows(rows')
    BY <2>1, RowStatus DEF Follows, TypeOK, RowTable
  <2> QED BY <2>1, <2>2, RowsStep DEF InHand
<1>8. ASSUME NEW pl \in pending, SkipEdited(pl) \/ FailUnit(pl) \/ \E p \in Paths : WriteNote(pl, p)
      PROVE  RunOrphans' /\ OrphanStep
  <2>1. InHand /\ InHand' /\ UNCHANGED <<rows, index, listed, router>>
    BY <1>8, Zenon DEF SkipEdited, FailUnit, WriteNote, LeaveAlone, IsNext, InHand
  <2> QED BY <2>1, RowsStep, SameRowsFollow
<1>9. ASSUME NEW pl \in pending, KeepNote(pl) PROVE RunOrphans' /\ OrphanStep
  <2>1. /\ rows' \in {rows, [rows EXCEPT ![pl.unit].stale = FALSE]}
        /\ InHand /\ InHand' /\ UNCHANGED <<index, listed, router>>
    BY <1>9, Zenon DEF KeepNote, LeaveAlone, IsNext, InHand
  <2>2. CASE rows' = [rows EXCEPT ![pl.unit].stale = FALSE]
    <3>1. rows' = [rows EXCEPT ![pl.unit] = [rows[pl.unit] EXCEPT !.stale = FALSE]]
      BY <2>2, Zenon
    <3>2. Follows(rows')
      BY <3>1, RowStatus DEF Follows, TypeOK, RowTable
    <3> QED BY <2>1, <3>2, RowsStep
  <2> QED BY <2>1, <2>2, RowsStep, SameRowsFollow
<1>10. ASSUME NEW l \in landing, SaveRow(l) PROVE RunOrphans' /\ OrphanStep
  <2> DEFINE kept == IF l.source # l.unit THEN Drop(rows, l.source) ELSE rows
  <2>1. /\ rows' = Put(kept, l.unit, RowFor(l))
        /\ phase = "written" /\ phase' = "units" /\ index'.rows = rows' /\ UNCHANGED <<listed, router>>
    BY <1>10, Zenon DEF SaveRow, WithRows
  <2>2. RowFor(l).status = "active"
    BY DEF RowFor
  <2>3. Follows(rows')
    BY <2>1, <2>2 DEF Follows, Put, Drop
  <2> QED BY <2>1, <2>3, RowsStep DEF InHand
<1> QED BY <1>1, <1>2, <1>3, <1>4, <1>5, <1>6, <1>7, <1>8, <1>9, <1>10 DEF Run

LEMMA AbortOrphans == ASSUME TypeOK, RunOrphans, Abort PROVE RunOrphans' /\ OrphanStep
  BY NothingOrphaned DEF Abort, ForgetRun, RunOrphans, OrphanStep, TypeOK

\* A row goes from active to orphaned only for a tag or a document the run's own listing no longer has,
\* whatever else happened: a run stopped half-way, a crash, a document that could not be read, a note
\* that failed to render, a tag added on the tablet while the run was at work (planUnits, the sweep).
THEOREM OrphansJustified == Spec => OrphanedForAReason
<1>1. Init => RunOrphans
  BY DEF Init, RunOrphans
<1>2. TypeOK /\ RunOrphans /\ [Next]_vars => RunOrphans' /\ OrphanStep
  BY RunOrphansStep, OutsideStep, AbortOrphans DEF Next
<1>3. OrphanStep <=> \A u \in DOMAIN index.rows \cap DOMAIN index'.rows :
                       index.rows[u].status = "active" /\ index'.rows[u].status = "orphaned"
                       => ~listed[u.doc].live \/ u.tag \notin TagsAt(router, listed[u.doc], u.page)
  BY DEF OrphanStep, Justified, Reason
<1> QED BY <1>1, <1>2, <1>3, TypeCorrect, PTL DEF Spec, OrphanedForAReason

-----------------------------------------------------------------------------
(* The user's words.  What a write may touch is decided when the document is opened, and written      *)
(* later: the invariants say what of that decision still holds when its turn comes.                   *)

\* A unit that takes over another's row has that row to take over, and nobody else takes it.
SourcesKnown ==
    /\ \A pl \in pending : pl.source # pl.unit => pl.source \in DOMAIN rows
    /\ \A pl, other \in pending : pl.source # pl.unit /\ other.source = pl.source => other = pl
    /\ \A l \in landing, pl \in pending : l.source # l.unit => pl.source # l.source

Unedited(p) == p \in DOMAIN vault => vault[p].kind # "edited"

\* The notes the run is going to overwrite or move are still free of edits inside their block.
UneditedTargets ==
    /\ \A pl \in pending : ~pl.edited /\ pl.source \in DOMAIN rows => Unedited(rows[pl.source].path)
    /\ \A l \in landing : Unedited(l.path)

NoNewEdits == \A q \in DOMAIN vault' : vault'[q].kind = "edited" => q \in DOMAIN vault /\ vault[q].kind = "edited"

LEMMA OneTakesOver == ASSUME TypeOK, phase = "docs", NEW d \in Docs,
                             NEW pl \in PlanUnits(d), NEW other \in PlanUnits(d)
                      PROVE  /\ pl.source # pl.unit => pl.source \in DOMAIN rows
                             /\ pl.source # pl.unit /\ other.source = pl.source => other = pl
                             /\ ~pl.edited /\ pl.source \in DOMAIN rows => Unedited(rows[pl.source].path)
<1>1. \A x \in PlanUnits(d) : \E u \in UnitsOf(router, d, listed[d]) :
         x = [unit |-> u, source |-> SourceOf(u),
              edited |-> SourceOf(u) \in DOMAIN rows /\ IsBlockEdited(vault, rows[SourceOf(u)])]
  BY Zenon DEF PlanUnits
<1>2. PICK u \in UnitsOf(router, d, listed[d]) :
         pl = [unit |-> u, source |-> SourceOf(u),
               edited |-> SourceOf(u) \in DOMAIN rows /\ IsBlockEdited(vault, rows[SourceOf(u)])]
  BY <1>1
<1>3. PICK w \in UnitsOf(router, d, listed[d]) :
         other = [unit |-> w, source |-> SourceOf(w),
                  edited |-> SourceOf(w) \in DOMAIN rows /\ IsBlockEdited(vault, rows[SourceOf(w)])]
  BY <1>1
<1>4. \A x \in UnitsOf(router, d, listed[d]) : x \in Units /\ x.doc = d /\ x.tag \in TagsAt(router, listed[d], x.page)
  BY DEF UnitsOf
<1>5. ASSUME NEW x \in UnitsOf(router, d, listed[d]), SourceOf(x) # x
      PROVE  /\ IsRename(d, x.page) /\ x.tag \in Added(d, x.page)
             /\ SourceOf(x) \in DOMAIN rows /\ SourceOf(x).page = x.page
             /\ SourceOf(x).tag \notin TagsAt(router, listed[d], x.page)
  <2>1. IsRename(d, x.page) /\ x.tag \in Added(d, x.page) /\ SourceOf(x) \in Removed(d, x.page)
    BY <1>4, <1>5 DEF SourceOf, IsRename
  <2> QED BY <2>1 DEF Removed, ActiveAt
<1>6. SourceOf(u) # u /\ SourceOf(w) = SourceOf(u) => w = u
  <2>1. SUFFICES ASSUME SourceOf(u) # u, SourceOf(w) = SourceOf(u) PROVE w = u
    OBVIOUS
  <2>2. SourceOf(w) # w
    BY <1>4, <1>5, <2>1
  <2>3. w.page = u.page /\ w.tag \in Added(d, u.page) /\ u.tag \in Added(d, u.page) /\ IsRename(d, u.page)
    BY <1>5, <2>1, <2>2
  <2>4. w.tag = u.tag
    BY <2>3 DEF IsRename
  <2> QED BY <1>4, <2>3, <2>4 DEF Units
<1>7. pl.unit = u /\ pl.source = SourceOf(u) /\ other.source = SourceOf(w)
  BY <1>2, <1>3
<1>8. pl.source # pl.unit /\ other.source = pl.source => other = pl
  BY <1>2, <1>3, <1>6, <1>7, Zenon
<1>9. ~pl.edited /\ pl.source \in DOMAIN rows => ~IsBlockEdited(vault, rows[pl.source])
  BY <1>2, <1>7, Zenon
<1> QED BY <1>5, <1>7, <1>8, <1>9 DEF IsBlockEdited, Unedited

\* Outside a document there is nothing planned.
LEMMA NothingPlanned == ASSUME pending' = {}, landing' = {} PROVE SourcesKnown' /\ UneditedTargets'
  BY DEF SourcesKnown, UneditedTargets

\* Inside one, a plan that only shrinks stays safe while the rows stay and the user edits nothing.
LEMMA PlanShrinks == ASSUME SourcesKnown, pending' \subseteq pending, landing' = landing, DOMAIN rows' = DOMAIN rows
                     PROVE  SourcesKnown'
  BY DEF SourcesKnown

LEMMA TargetsShrink == ASSUME UneditedTargets, NoNewEdits, pending' \subseteq pending, landing' = landing,
                              DOMAIN rows' = DOMAIN rows, \A u \in DOMAIN rows : rows'[u].path = rows[u].path
                       PROVE  UneditedTargets'
  BY DEF UneditedTargets, Unedited, NoNewEdits

LEMMA RowPath == ASSUME NEW r \in Row
                 PROVE  /\ \A x : [r EXCEPT !.stale = x].path = r.path
                        /\ \A x : [r EXCEPT !.entryHash = x].path = r.path
                        /\ \A x : [r EXCEPT !.status = x].path = r.path
  BY Zenon DEF Row

\* The phases in which there is no plan.
LEMMA PlanPhases == ASSUME TypeOK
                    PROVE  /\ phase \notin {"units", "written"} => pending = {}
                           /\ phase # "written" => landing = {}
  BY DEF TypeOK

LEMMA RunSources == ASSUME TypeOK, SourcesKnown, Run PROVE SourcesKnown'
<1>1. CASE StartRun \/ ListItems \/ (\E d \in Docs : PassOver(d) \/ CloseDocument(d))
  <2>1. pending' = pending /\ landing' = landing /\ pending = {} /\ landing = {}
    BY <1>1, PlanPhases, Zenon DEF StartRun, ListItems, PassOver, CloseDocument
  <2> QED BY <2>1, NothingPlanned
<1>2. CASE StopHere \/ FinishRun
  BY <1>2, NothingPlanned DEF StopHere, FinishRun, ForgetRun
<1>3. ASSUME NEW d \in Docs, OpenDocument(d) PROVE SourcesKnown'
  <2>1. /\ pending' = PlanUnits(d) /\ DOMAIN rows' = DOMAIN rows /\ phase = "docs" /\ landing' = landing
    BY <1>3, Zenon DEF OpenDocument
  <2>2. landing' = {}
    BY <2>1, PlanPhases
  <2> QED BY <2>1, <2>2, OneTakesOver DEF SourcesKnown
<1>4. ASSUME NEW pl \in pending, SkipEdited(pl) \/ FailUnit(pl) PROVE SourcesKnown'
  BY <1>4, PlanShrinks DEF SkipEdited, FailUnit, LeaveAlone
<1>5. ASSUME NEW pl \in pending, KeepNote(pl) PROVE SourcesKnown'
  BY <1>5, PlanShrinks, Zenon DEF KeepNote, LeaveAlone
<1>6. ASSUME NEW pl \in pending, NEW p, WriteNote(pl, p) PROVE SourcesKnown'
  <2>1. /\ \E b : landing' = {[unit |-> pl.unit, source |-> pl.source, path |-> p, block |-> b]}
        /\ pending' = pending \ {pl} /\ rows' = rows
    BY <1>6, Zenon DEF WriteNote
  <2>2. \A l \in landing' : l.unit = pl.unit /\ l.source = pl.source
    BY <2>1
  <2> QED BY <2>1, <2>2 DEF SourcesKnown
<1>7. ASSUME NEW l \in landing, SaveRow(l) PROVE SourcesKnown'
  <2>1. /\ pending' = pending /\ landing' = {}
        /\ rows' = Put(IF l.source # l.unit THEN Drop(rows, l.source) ELSE rows, l.unit, RowFor(l))
    BY <1>7, Zenon DEF SaveRow
  <2>2. \A pl \in pending : pl.source # pl.unit => pl.source \in DOMAIN rows'
    BY <2>1 DEF SourcesKnown, Put, Drop
  <2> QED BY <2>1, <2>2 DEF SourcesKnown
<1> QED BY <1>1, <1>2, <1>3, <1>4, <1>5, <1>6, <1>7 DEF Run

LEMMA OutsideSources == ASSUME TypeOK, SourcesKnown, Tablet \/ User \/ Abort \/ SkipRun \/ UNCHANGED vars PROVE SourcesKnown'
<1>1. CASE UNCHANGED runVars
  BY <1>1, PlanShrinks DEF runVars
<1>2. CASE Abort
  BY <1>2, NothingPlanned DEF Abort, ForgetRun
<1>3. Tablet \/ User \/ SkipRun \/ UNCHANGED vars => UNCHANGED runVars
  BY DEF Tablet, Trash, Draw, ErasePage, TagPage, TagDoc, TagFolder, DocumentChange, TabletChange, SkipRun, vars,
         User, InvalidateRenders, RequestStop, SetMapping, EditBlock, UndoEdit, RemoveFence, DeleteNote, RenameNote, VaultChange
<1> QED BY <1>1, <1>2, <1>3

-----------------------------------------------------------------------------
(* What one write does to the files of the vault. *)

\* A write either takes a path nobody has, or overwrites in place the note of the row it replaces.
LEMMA Target == ASSUME TypeOK, SourcesKnown, NEW pl \in pending, NEW p \in Paths, IsTarget(pl, p), ~pl.edited
                PROVE  /\ p \in DOMAIN vault => pl.source \in DOMAIN rows /\ p = rows[pl.source].path
                       /\ Moves(pl) => pl.source \in DOMAIN rows
<1>1. Moves(pl) => pl.source \in DOMAIN rows
  BY DEF Moves, SourcesKnown
<1>2. ~Moves(pl) => pl.source = pl.unit
  BY DEF Moves
<1> QED BY <1>1, <1>2 DEF IsTarget, IsFreePath

LEMMA WriteKeepsWords == ASSUME TypeOK, SourcesKnown, NEW pl \in pending, NEW p \in Paths, WriteNote(pl, p)
                         PROVE  WordsSurvive
<1> DEFINE b == BlockOf(pl.unit.doc, listed[pl.unit.doc], pl.unit.page)
           v == Moved(pl, p)
           from == rows[pl.source].path
<1>1. vault' = Put(v, p, WrittenNote(v, p, b)) /\ IsTarget(pl, p) /\ ~pl.edited
  BY Zenon DEF WriteNote, IsNext
<1>2. SUFFICES ASSUME NEW q \in DOMAIN vault, vault[q].own
               PROVE  \E r \in DOMAIN vault' : vault'[r].own /\ (r = q \/ r \notin DOMAIN vault)
  BY DEF WordsSurvive
<1>3. WrittenNote(v, p, b).own <=> p \in DOMAIN v /\ v[p].own
  BY DEF WrittenNote
<1>4. DOMAIN vault' = DOMAIN v \cup {p} /\ vault'[p].own = (p \in DOMAIN v /\ v[p].own)
      /\ \A r \in DOMAIN v : r # p => vault'[r] = v[r]
  BY <1>1, <1>3 DEF Put, WrittenNote
<1>5. CASE Moves(pl) /\ from # p /\ from \in DOMAIN vault
  <2>1. p \notin DOMAIN vault
    BY <1>1, <1>5, Target
  <2>2. v = Put(Drop(vault, from), p, vault[from])
    BY <1>5 DEF Moved
  <2>3. CASE q = from
    BY <1>2, <1>4, <2>1, <2>2, <2>3 DEF Put, Drop
  <2>4. CASE q # from
    BY <1>2, <1>4, <2>1, <2>2, <2>4 DEF Put, Drop
  <2> QED BY <2>3, <2>4
<1>6. CASE ~(Moves(pl) /\ from # p /\ from \in DOMAIN vault)
  <2>1. v = vault
    BY <1>6 DEF Moved
  <2> HIDE DEF v
  <2> QED BY <1>2, <1>4, <2>1
<1> QED BY <1>5, <1>6

LEMMA WriteKeepsEdits == ASSUME TypeOK, SourcesKnown, UneditedTargets, NEW pl \in pending, NEW p \in Paths, WriteNote(pl, p)
                         PROVE  EditsSurvive /\ NoNewEdits /\ Unedited(p)'
<1> DEFINE b == BlockOf(pl.unit.doc, listed[pl.unit.doc], pl.unit.page)
           v == Moved(pl, p)
           from == rows[pl.source].path
<1>1. vault' = Put(v, p, WrittenNote(v, p, b)) /\ IsTarget(pl, p) /\ ~pl.edited
  BY Zenon DEF WriteNote, IsNext
<1>2. WrittenNote(v, p, b).kind = "written"
  BY DEF WrittenNote
<1>3. p \in DOMAIN vault => vault[p].kind # "edited"
  BY <1>1, Target DEF UneditedTargets, Unedited
<1>4. Moves(pl) /\ from \in DOMAIN vault => vault[from].kind # "edited"
  BY <1>1, Target DEF UneditedTargets, Unedited
<1>5. vault'[p].kind = "written" /\ DOMAIN vault' = DOMAIN v \cup {p} /\ \A r \in DOMAIN v : r # p => vault'[r] = v[r]
  BY <1>1, <1>2 DEF Put
<1>6. \A r \in DOMAIN v : r # p => r \in DOMAIN vault /\ v[r] = vault[r]
  BY DEF Moved, Put, Drop
<1>7. \A r \in DOMAIN vault : r \in DOMAIN v \/ (Moves(pl) /\ r = from)
  BY DEF Moved, Put, Drop
<1> HIDE DEF v, b, from
<1>8. EditsSurvive
  BY <1>3, <1>4, <1>5, <1>6, <1>7 DEF EditsSurvive
<1> QED BY <1>5, <1>6, <1>8 DEF NoNewEdits, Unedited

NoMidRunEdits == MidRun \cap {"edit", "rename"} = {}

LEMMA SaveKeepsTargets == ASSUME TypeOK, SourcesKnown, UneditedTargets, NEW l \in landing, SaveRow(l)
                          PROVE  UneditedTargets'
<1>1. /\ pending' = pending /\ landing' = {} /\ vault' = vault
      /\ rows' = Put(IF l.source # l.unit THEN Drop(rows, l.source) ELSE rows, l.unit, RowFor(l))
  BY Zenon DEF SaveRow
<1>2. RowFor(l).path = l.path
  BY DEF RowFor
<1>3. \A u \in DOMAIN rows' : IF u = l.unit THEN rows'[u].path = l.path ELSE u \in DOMAIN rows /\ rows'[u] = rows[u]
  BY <1>1, <1>2 DEF Put, Drop
<1> QED BY <1>1, <1>3 DEF UneditedTargets, Unedited

LEMMA RunTargets == ASSUME TypeOK, SourcesKnown, UneditedTargets, Run PROVE UneditedTargets'
<1>1. CASE StartRun \/ ListItems \/ (\E d \in Docs : PassOver(d) \/ CloseDocument(d))
  <2>1. pending' = pending /\ landing' = landing /\ pending = {} /\ landing = {}
    BY <1>1, PlanPhases, Zenon DEF StartRun, ListItems, PassOver, CloseDocument
  <2> QED BY <2>1, NothingPlanned
<1>2. CASE StopHere \/ FinishRun
  BY <1>2, NothingPlanned DEF StopHere, FinishRun, ForgetRun
<1>3. ASSUME NEW d \in Docs, OpenDocument(d) PROVE UneditedTargets'
  <2>1. /\ pending' = PlanUnits(d) /\ phase = "docs" /\ landing' = landing /\ vault' = vault
        /\ rows' = [u \in DOMAIN rows |-> IF u \in OrphanedBy(d) THEN [rows[u] EXCEPT !.status = "orphaned"] ELSE rows[u]]
    BY <1>3, Zenon DEF OpenDocument, tabletVars
  <2>2. landing' = {}
    BY <2>1, PlanPhases
  <2>3. \A u \in DOMAIN rows : rows'[u].path = rows[u].path
    BY <2>1, RowPath DEF TypeOK, RowTable
  <2>4. DOMAIN rows' = DOMAIN rows
    BY <2>1
  <2>5. \A pl \in PlanUnits(d) : ~pl.edited /\ pl.source \in DOMAIN rows => Unedited(rows[pl.source].path)
    BY <2>1, OneTakesOver
  <2> QED BY <2>1, <2>2, <2>3, <2>4, <2>5 DEF UneditedTargets, Unedited
<1>4. ASSUME NEW pl \in pending, SkipEdited(pl) \/ FailUnit(pl) PROVE UneditedTargets'
  BY <1>4, TargetsShrink DEF SkipEdited, FailUnit, LeaveAlone, NoNewEdits
<1>5. ASSUME NEW pl \in pending, KeepNote(pl) PROVE UneditedTargets'
  <2>1. /\ rows' \in {rows, [rows EXCEPT ![pl.unit].stale = FALSE]}
        /\ pending' = pending \ {pl} /\ landing' = landing /\ vault' = vault
    BY <1>5, Zenon DEF KeepNote, LeaveAlone
  <2>2. DOMAIN rows' = DOMAIN rows /\ \A u \in DOMAIN rows : rows'[u].path = rows[u].path
    <3>1. CASE rows' = [rows EXCEPT ![pl.unit].stale = FALSE]
      <4>1. rows' = [rows EXCEPT ![pl.unit] = [rows[pl.unit] EXCEPT !.stale = FALSE]]
        BY <3>1, Zenon
      <4> QED BY <4>1, RowPath DEF TypeOK, RowTable
    <3> QED BY <2>1, <3>1
  <2> QED BY <2>1, <2>2, TargetsShrink DEF NoNewEdits
<1>6. ASSUME NEW pl \in pending, NEW p \in Paths, WriteNote(pl, p) PROVE UneditedTargets'
  <2>1. NoNewEdits /\ Unedited(p)'
    BY <1>6, WriteKeepsEdits
  <2>2. /\ \E b : landing' = {[unit |-> pl.unit, source |-> pl.source, path |-> p, block |-> b]}
        /\ pending' = pending \ {pl} /\ rows' = rows
    BY <1>6, Zenon DEF WriteNote
  <2>3. \A l \in landing' : l.path = p
    BY <2>2
  <2> QED BY <2>1, <2>2, <2>3 DEF UneditedTargets, Unedited, NoNewEdits
<1>7. ASSUME NEW l \in landing, SaveRow(l) PROVE UneditedTargets'
  BY <1>7, SaveKeepsTargets
<1> QED BY <1>1, <1>2, <1>3, <1>4, <1>5, <1>6, <1>7 DEF Run

LEMMA OutsideTargets == ASSUME NoMidRunEdits, TypeOK, UneditedTargets, Tablet \/ User \/ Abort \/ SkipRun \/ UNCHANGED vars
                        PROVE  UneditedTargets'
<1>1. CASE UNCHANGED runVars /\ NoNewEdits
  BY <1>1, TargetsShrink DEF runVars
<1>2. CASE UNCHANGED runVars /\ phase = "idle"
  BY <1>2, PlanPhases, NothingPlanned DEF runVars
<1>3. CASE Abort
  BY <1>3, NothingPlanned DEF Abort, ForgetRun
<1>4. CASE Tablet
  BY <1>4, <1>1 DEF Tablet, Trash, Draw, ErasePage, TagPage, TagDoc, TagFolder, DocumentChange, TabletChange, NoNewEdits
<1>5. CASE SkipRun \/ UNCHANGED vars
  BY <1>5, <1>1 DEF SkipRun, vars, NoNewEdits
<1>6. CASE InvalidateRenders \/ RequestStop \/ \E t \in Tags, f \in Folders \cup {NoFolder} : SetMapping(t, f)
  BY <1>6, <1>1 DEF InvalidateRenders, RequestStop, SetMapping, NoNewEdits
<1>7. ASSUME NEW p \in DOMAIN vault, EditBlock(p) \/ \E q \in Paths : RenameNote(p, q) PROVE UneditedTargets'
  BY <1>7, <1>2 DEF NoMidRunEdits, EditBlock, RenameNote, Spend, VaultChange
<1>8. ASSUME NEW p \in DOMAIN vault, UndoEdit(p) \/ RemoveFence(p) PROVE UneditedTargets'
  <2> DEFINE undone == [vault[p] EXCEPT !.kind = "written"]
             plain == [kind |-> "plain", block |-> vault[p].block, own |-> TRUE]
  <2>0. undone.kind # "edited" /\ plain.kind # "edited"
    <3>1. \A r \in Note : [r EXCEPT !.kind = "written"].kind = "written"
      BY Zenon DEF Note
    <3>2. vault[p] \in Note
      BY DEF TypeOK
    <3>3. undone.kind = "written"
      BY <3>1, <3>2, Zenon
    <3> QED BY <3>3
  <2>1. vault' = [vault EXCEPT ![p] = undone] \/ vault' = [vault EXCEPT ![p] = plain]
    BY <1>8, Zenon DEF UndoEdit, RemoveFence, VaultChange
  <2> HIDE DEF undone, plain
  <2>2. NoNewEdits
    BY <2>0, <2>1 DEF NoNewEdits
  <2>3. UNCHANGED runVars
    BY <1>8, Zenon DEF UndoEdit, RemoveFence, VaultChange
  <2> QED BY <1>1, <2>2, <2>3
<1>9. ASSUME NEW p \in DOMAIN vault, DeleteNote(p) PROVE UneditedTargets'
  BY <1>9, <1>1 DEF DeleteNote, VaultChange, Drop, NoNewEdits
<1> QED BY <1>3, <1>4, <1>5, <1>6, <1>7, <1>8, <1>9 DEF User

\* Only WriteNote is a WriteStep.
LEMMA OnlyWrites == ASSUME TypeOK, [Next]_vars, WriteStep
                    PROVE  \E pl \in pending, p \in Paths : WriteNote(pl, p)
<1>1. UNCHANGED landing \/ landing' = {} => FALSE
  BY DEF WriteStep
<1>2. Tablet \/ User \/ SkipRun \/ UNCHANGED vars => UNCHANGED landing
  BY ZenonT(40) DEF Tablet, Trash, Draw, ErasePage, TagPage, TagDoc, TagFolder, DocumentChange, TabletChange, SkipRun, vars, runVars,
         User, InvalidateRenders, RequestStop, SetMapping, EditBlock, UndoEdit, RemoveFence, DeleteNote, RenameNote, VaultChange
<1>3. Abort \/ StopHere \/ FinishRun => landing' = {}
  BY DEF Abort, StopHere, FinishRun, ForgetRun
<1>4. StartRun \/ ListItems \/ (\E d \in Docs : PassOver(d) \/ OpenDocument(d) \/ CloseDocument(d)) => UNCHANGED landing
  BY Zenon DEF StartRun, ListItems, PassOver, OpenDocument, CloseDocument
<1>5. \A pl \in pending : SkipEdited(pl) \/ FailUnit(pl) \/ KeepNote(pl) => UNCHANGED landing
  BY Zenon DEF SkipEdited, FailUnit, KeepNote, LeaveAlone
<1>6. \A l \in landing : SaveRow(l) => landing' = {}
  BY Zenon DEF SaveRow
<1> QED BY <1>1, <1>2, <1>3, <1>4, <1>5, <1>6 DEF Next, Run

\* No write or move of a run ever loses the words a user keeps outside the managed block: whatever the
\* user, the tablet and a crash do meanwhile, they are there afterwards, at the same path or at one that
\* was free (writeNoteAt, moveNote).
THEOREM OwnWordsKept == Spec => [][WriteStep => WordsSurvive]_vars
<1>1. Init => SourcesKnown
  BY DEF Init, SourcesKnown
<1>2. TypeOK /\ SourcesKnown /\ [Next]_vars => SourcesKnown'
  BY RunSources, OutsideSources DEF Next
<1>3. TypeOK /\ SourcesKnown /\ [Next]_vars => (WriteStep => WordsSurvive)
  BY OnlyWrites, WriteKeepsWords
<1> QED BY <1>1, <1>2, <1>3, TypeCorrect, PTL DEF Spec

\* As long as the user edits and renames notes only between runs, no run overwrites or moves a note
\* edited inside its managed block, nor loses the words outside it.  The condition is needed: the edit
\* is looked for when the document is opened (isBlockEdited in planUnits) and not again at the write.
THEOREM EditsAndWordsKept == ASSUME NoMidRunEdits PROVE Spec => UserWordsKept
<1>1. Init => SourcesKnown /\ UneditedTargets
  BY DEF Init, SourcesKnown, UneditedTargets
<1>2. TypeOK /\ SourcesKnown /\ UneditedTargets /\ [Next]_vars => SourcesKnown' /\ UneditedTargets'
  BY RunSources, OutsideSources, RunTargets, OutsideTargets DEF Next
<1>3. TypeOK /\ SourcesKnown /\ UneditedTargets /\ [Next]_vars => (WriteStep => EditsSurvive /\ WordsSurvive)
  BY OnlyWrites, WriteKeepsWords, WriteKeepsEdits
<1> QED BY <1>1, <1>2, <1>3, TypeCorrect, PTL DEF Spec, UserWordsKept

-----------------------------------------------------------------------------
(* The places of the notes.  Outside the write of a note the run's rows name the files the saved rows *)
(* name; a write gives one of them a file nobody else has.                                            *)

SamePaths(rs, ss) == DOMAIN rs = DOMAIN ss /\ \A u \in DOMAIN rs : rs[u].path = ss[u].path

RowsTrackIndex == phase # "idle" => SamePaths(rows, index.rows)

\* A note renamed while a run is at work is not followed, and a crash loses the row of the note just written.
NotesAreFollowed == "crash" \notin Ops /\ "rename" \notin MidRun

\* A step that moves no file and no row.
Steady ==
    /\ RowsTrackIndex'
    /\ SamePaths(index'.rows, index.rows)
    /\ DOMAIN vault' = DOMAIN vault /\ \A p \in DOMAIN vault : vault'[p].kind # "plain" => vault[p].kind # "plain"
    /\ phase' = "written" <=> phase = "written"
    /\ phase = "written" => landing' = landing /\ rows' = rows

LEMMA PathsAreSame == /\ \A rs : SamePaths(rs, rs)
                      /\ \A rs, ss : SamePaths(rs, ss) => SamePaths(ss, rs)
                      /\ \A rs, ss, ts : SamePaths(rs, ss) /\ SamePaths(ss, ts) => SamePaths(rs, ts)
  BY DEF SamePaths

LEMMA SavedPaths == ASSUME NEW rs, NEW ord, index' = WithRows(rs, ord) PROVE index'.rows = rs
  BY DEF WithRows

LEMMA StartSteady == ASSUME StartRun \/ ListItems \/ \E d \in Docs : PassOver(d), RowsTrackIndex PROVE Steady
<1>1. /\ UNCHANGED <<index, vault>> /\ phase # "written" /\ phase' # "written"
      /\ rows' = index.rows \/ (rows' = rows /\ phase # "idle")
  BY Zenon DEF StartRun, ListItems, PassOver
<1> QED BY <1>1 DEF Steady, RowsTrackIndex, SamePaths

LEMMA EndSteady == ASSUME TypeOK, StopHere \/ FinishRun, RowsTrackIndex PROVE Steady
<1>0. /\ index' = WithRows(rows, order) \/ index' = [root |-> runRoot, mappings |-> router, rows |-> SweptRows, order |-> order]
      /\ vault' = vault /\ phase' = "idle" /\ phase \in {"docs", "units"}
  BY Zenon DEF StopHere, FinishRun, ForgetRun
<1>1. index'.rows \in {rows, SweptRows} /\ vault' = vault /\ phase' = "idle" /\ phase \in {"docs", "units"}
  BY <1>0, SavedPaths
<1>2. SamePaths(SweptRows, rows)
  <2>1. \A u \in DOMAIN rows : [rows[u] EXCEPT !.status = "orphaned", !.entryHash = 0].path = rows[u].path
    BY DEF TypeOK, RowTable, Row
  <2> QED BY <2>1 DEF SweptRows, SamePaths
<1>3. SamePaths(index'.rows, index.rows)
  BY <1>1, <1>2, PathsAreSame DEF RowsTrackIndex
<1> QED BY <1>1, <1>3 DEF Steady, RowsTrackIndex

\* The rows the run works on keep their paths, and are saved or not.
LEMMA RunSteady == ASSUME RowsTrackIndex, SamePaths(rows', rows), phase \in {"docs", "units"}, phase' \in {"docs", "units"},
                          vault' = vault, index' = index \/ index'.rows = rows'
                   PROVE  Steady
<1>1. SamePaths(rows', index.rows)
  BY PathsAreSame DEF RowsTrackIndex
<1>2. SamePaths(rows', index'.rows) /\ SamePaths(index'.rows, index.rows)
  BY <1>1, PathsAreSame
<1> QED BY <1>2 DEF Steady, RowsTrackIndex

LEMMA DocumentSteady == ASSUME TypeOK, RowsTrackIndex, NEW d \in Docs, OpenDocument(d) \/ CloseDocument(d) PROVE Steady
<1>1. CASE OpenDocument(d)
  <2>1. /\ rows' = [u \in DOMAIN rows |-> IF u \in OrphanedBy(d) THEN [rows[u] EXCEPT !.status = "orphaned"] ELSE rows[u]]
        /\ phase = "docs" /\ phase' = "units" /\ UNCHANGED <<index, vault>>
    BY <1>1, Zenon DEF OpenDocument
  <2>2. SamePaths(rows', rows)
    BY <2>1, RowPath DEF TypeOK, RowTable, SamePaths
  <2> QED BY <2>1, <2>2, RunSteady
<1>2. CASE CloseDocument(d)
  <2>1. /\ rows' = [u \in DOMAIN rows |-> IF u.doc = d /\ u \notin untouched
                                          THEN [rows[u] EXCEPT !.entryHash = listed[d].ver] ELSE rows[u]]
        /\ phase = "units" /\ phase' = "docs" /\ index' = WithRows(rows', order) /\ vault' = vault
    BY <1>2, Zenon DEF CloseDocument
  <2>2. SamePaths(rows', rows)
    BY <2>1, RowPath DEF TypeOK, RowTable, SamePaths
  <2>3. index'.rows = rows'
    BY <2>1, SavedPaths
  <2> QED BY <2>1, <2>2, <2>3, RunSteady
<1> QED BY <1>1, <1>2

LEMMA UnitSteady == ASSUME TypeOK, RowsTrackIndex, NEW pl \in pending, SkipEdited(pl) \/ FailUnit(pl) \/ KeepNote(pl) PROVE Steady
<1>1. /\ phase = "units" /\ phase' = "units" /\ UNCHANGED <<index, vault>>
      /\ rows' \in {rows, [rows EXCEPT ![pl.unit].stale = FALSE]}
      /\ KeepNote(pl) => pl.unit \in DOMAIN rows
      /\ rows' = rows \/ KeepNote(pl)
  BY Zenon DEF SkipEdited, FailUnit, KeepNote, LeaveAlone, IsNext
<1>2. SamePaths(rows', rows)
  <2>1. CASE rows' = rows
    BY <2>1, PathsAreSame
  <2>2. CASE rows' = [rows EXCEPT ![pl.unit].stale = FALSE] /\ pl.unit \in DOMAIN rows
    <3>1. rows' = [rows EXCEPT ![pl.unit] = [rows[pl.unit] EXCEPT !.stale = FALSE]]
      BY <2>2, Zenon
    <3> QED BY <2>2, <3>1, RowPath DEF TypeOK, RowTable, SamePaths
  <2> QED BY <1>1, <2>1, <2>2
<1> QED BY <1>1, <1>2, RunSteady

\* The tablet, the settings and the user inside a note.
LEMMA StillSteady == ASSUME RowsTrackIndex, UNCHANGED <<runVars, phase>>, SamePaths(index'.rows, index.rows),
                            DOMAIN vault' = DOMAIN vault,
                            \A p \in DOMAIN vault : vault'[p].kind # "plain" => vault[p].kind # "plain"
                     PROVE  Steady
<1>1. rows' = rows /\ landing' = landing /\ phase' = phase
  BY DEF runVars
<1>2. phase # "idle" => SamePaths(rows', index'.rows)
  BY <1>1, PathsAreSame DEF RowsTrackIndex
<1> QED BY <1>1, <1>2 DEF Steady, RowsTrackIndex

LEMMA OutsideSteady == ASSUME TypeOK, RowsTrackIndex, Tablet \/ User \/ SkipRun \/ UNCHANGED vars
                       PROVE  \/ Steady
                              \/ \E p \in DOMAIN vault : DeleteNote(p) \/ \E q \in Paths : RenameNote(p, q)
<1>1. CASE Tablet
  BY <1>1, StillSteady, PathsAreSame
     DEF Tablet, Trash, Draw, ErasePage, TagPage, TagDoc, TagFolder, DocumentChange, TabletChange
<1>2. CASE SkipRun \/ UNCHANGED vars
  BY <1>2, StillSteady, PathsAreSame DEF SkipRun, vars
<1>3. CASE RequestStop \/ \E t \in Tags, f \in Folders \cup {NoFolder} : SetMapping(t, f)
  BY <1>3, StillSteady, PathsAreSame DEF RequestStop, SetMapping
<1>4. CASE InvalidateRenders
  <2>1. /\ UNCHANGED <<runVars, phase, vault>>
        /\ index'.rows = [u \in DOMAIN index.rows |-> IF index.rows[u].status = "active"
                                                      THEN [index.rows[u] EXCEPT !.stale = TRUE] ELSE index.rows[u]]
    BY <1>4, Zenon DEF InvalidateRenders, WithRows
  <2>2. SamePaths(index'.rows, index.rows)
    BY <2>1, RowPath DEF TypeOK, RowTable, SamePaths
  <2> QED BY <2>1, <2>2, StillSteady
<1>5. ASSUME NEW p \in DOMAIN vault, NEW n, VaultChange([vault EXCEPT ![p] = n]), UNCHANGED index,
             n.kind # "plain" => vault[p].kind # "plain"
      PROVE  Steady
  <2>1. DOMAIN vault' = DOMAIN vault /\ \A q \in DOMAIN vault : vault'[q] = IF q = p THEN n ELSE vault[q]
    BY <1>5 DEF VaultChange
  <2>2. UNCHANGED <<runVars, phase, index>>
    BY <1>5 DEF VaultChange
  <2> QED BY <1>5, <2>1, <2>2, StillSteady, PathsAreSame
<1>6. ASSUME NEW p \in DOMAIN vault, EditBlock(p) \/ UndoEdit(p) \/ RemoveFence(p) PROVE Steady
  <2>1. vault[p].kind # "plain"
    BY <1>6 DEF EditBlock, UndoEdit, RemoveFence
  <2> QED BY <1>5, <1>6, <2>1 DEF EditBlock, UndoEdit, RemoveFence
<1> QED BY <1>1, <1>2, <1>3, <1>4, <1>6 DEF User

\* Files and rows move in no other step.
LEMMA WhatMovesFiles == ASSUME NotesAreFollowed, TypeOK, RowsTrackIndex, [Next]_vars
                        PROVE  \/ Steady
                               \/ \E pl \in pending, p \in Paths : WriteNote(pl, p)
                               \/ \E l \in landing : SaveRow(l)
                               \/ \E p \in DOMAIN vault : DeleteNote(p) \/ \E q \in Paths : RenameNote(p, q)
<1>1. ~Abort
  BY DEF Abort, Spend, NotesAreFollowed
<1> QED BY <1>1, StartSteady, EndSteady, DocumentSteady, UnitSteady, OutsideSteady DEF Next, Run

-----------------------------------------------------------------------------
\* Two rows, active or not, never name one file, and every row's file is there, but for the one a write is moving.
PathsApart(rs) == \A u, w \in DOMAIN rs : rs[u].path = rs[w].path => u = w

NotesInPlace ==
    /\ RowsTrackIndex
    /\ PathsApart(index.rows)
    /\ phase # "written" => \A u \in DOMAIN index.rows : index.rows[u].path \in DOMAIN vault
    /\ phase = "written" => \A l \in landing :
          /\ l.path \in DOMAIN vault
          /\ \A u \in DOMAIN rows \ {l.source, l.unit} : rows[u].path \in DOMAIN vault /\ rows[u].path # l.path

\* Where nobody deletes a note; see NotesAreFollowed.
NotesStay == NotesAreFollowed /\ "delete" \notin Ops

LEMMA SteadyPlaces == ASSUME NotesInPlace, Steady PROVE NotesInPlace'
<1>1. PathsApart(index'.rows)
  BY DEF NotesInPlace, PathsApart, Steady, SamePaths
<1>2. phase' # "written" => \A u \in DOMAIN index'.rows : index'.rows[u].path \in DOMAIN vault'
  BY DEF NotesInPlace, Steady, SamePaths
<1> QED BY <1>1, <1>2 DEF NotesInPlace, Steady

\* Where the files are after a write: as before, but for the file moved and the file written.
LEMMA WriteFiles == ASSUME TypeOK, SourcesKnown, NEW pl \in pending, NEW p \in Paths, WriteNote(pl, p)
                    PROVE  /\ phase = "units" /\ phase' = "written" /\ rows' = rows /\ index' = index
                           /\ \A l \in landing' : l.unit = pl.unit /\ l.source = pl.source /\ l.path = p
                           /\ IsTarget(pl, p) /\ ~pl.edited
                           /\ DOMAIN vault' = DOMAIN Moved(pl, p) \cup {p}
                           /\ \A r \in DOMAIN Moved(pl, p) \ {p} : r \in DOMAIN vault /\ vault'[r] = vault[r]
                           /\ \A r \in DOMAIN vault \ DOMAIN Moved(pl, p) :
                                 Moves(pl) /\ pl.source \in DOMAIN rows /\ r = rows[pl.source].path
                           /\ Moves(pl) /\ pl.source \in DOMAIN rows /\ rows[pl.source].path # p
                                 => rows[pl.source].path \notin DOMAIN Moved(pl, p)
<1> DEFINE b == BlockOf(pl.unit.doc, listed[pl.unit.doc], pl.unit.page)
           v == Moved(pl, p)
           n == WrittenNote(v, p, b)
<1>1. /\ vault' = Put(v, p, n) /\ IsTarget(pl, p) /\ ~pl.edited
      /\ landing' = {[unit |-> pl.unit, source |-> pl.source, path |-> p, block |-> b]}
      /\ phase = "units" /\ phase' = "written" /\ rows' = rows /\ index' = index
  BY Zenon DEF WriteNote, IsNext
<1>2. Moves(pl) => pl.source \in DOMAIN rows
  BY <1>1, Target
<1>3. /\ \A r \in DOMAIN v \ {p} : r \in DOMAIN vault /\ v[r] = vault[r]
      /\ \A r \in DOMAIN vault \ DOMAIN v : Moves(pl) /\ r = rows[pl.source].path
      /\ Moves(pl) /\ rows[pl.source].path # p => rows[pl.source].path \notin DOMAIN v
  BY DEF Moved, Put, Drop
<1> HIDE DEF v, n, b
<1>4. DOMAIN vault' = DOMAIN v \cup {p} /\ \A r \in DOMAIN v \ {p} : vault'[r] = v[r]
  BY <1>1 DEF Put
<1>5. \A l \in landing' : l.unit = pl.unit /\ l.source = pl.source /\ l.path = p
  BY <1>1
<1> QED BY <1>1, <1>2, <1>3, <1>4, <1>5 DEF v

LEMMA WritePlaces == ASSUME TypeOK, SourcesKnown, NotesInPlace, NEW pl \in pending, NEW p \in Paths, WriteNote(pl, p)
                     PROVE  NotesInPlace'
<1>1. /\ phase = "units" /\ phase' = "written" /\ rows' = rows /\ index' = index
      /\ \A l \in landing' : l.unit = pl.unit /\ l.source = pl.source /\ l.path = p
  BY WriteFiles
<1>2. SamePaths(rows, index.rows) /\ PathsApart(rows) /\ \A u \in DOMAIN rows : rows[u].path \in DOMAIN vault
  BY <1>1 DEF NotesInPlace, RowsTrackIndex, SamePaths, PathsApart
<1>3. p \in DOMAIN vault => pl.source \in DOMAIN rows /\ p = rows[pl.source].path
  <2>1. IsTarget(pl, p) /\ ~pl.edited
    BY WriteFiles
  <2> QED BY <2>1, Target
<1>a. /\ DOMAIN vault' = DOMAIN Moved(pl, p) \cup {p}
      /\ \A r \in DOMAIN vault \ DOMAIN Moved(pl, p) : pl.source \in DOMAIN rows /\ r = rows[pl.source].path
  BY WriteFiles
<1>4. ASSUME NEW u \in DOMAIN rows \ {pl.source, pl.unit} PROVE rows[u].path \in DOMAIN vault' /\ rows[u].path # p
  <2>1. rows[u].path # p
    BY <1>2, <1>3, <1>4 DEF PathsApart
  <2>2. pl.source \in DOMAIN rows => rows[u].path # rows[pl.source].path
    BY <1>2, <1>4 DEF PathsApart
  <2> QED BY <1>a, <1>2, <2>1, <2>2
<1>5. p \in DOMAIN vault'
  BY <1>a
<1> QED BY <1>1, <1>2, <1>4, <1>5 DEF NotesInPlace, RowsTrackIndex

LEMMA SavedRows == ASSUME NEW l \in landing, SaveRow(l)
                   PROVE  /\ phase = "written" /\ phase' = "units" /\ vault' = vault /\ index'.rows = rows'
                          /\ l.unit \in DOMAIN rows' /\ rows'[l.unit].path = l.path
                          /\ \A u \in DOMAIN rows' \ {l.unit} : u \in DOMAIN rows \ {l.source, l.unit} /\ rows'[u] = rows[u]
                          /\ \A u \in DOMAIN rows \ {l.source, l.unit} : u \in DOMAIN rows' /\ rows'[u] = rows[u]
<1>1. /\ rows' = Put(IF l.source # l.unit THEN Drop(rows, l.source) ELSE rows, l.unit, RowFor(l))
      /\ phase = "written" /\ phase' = "units" /\ vault' = vault /\ index' = WithRows(rows', order')
  BY Zenon DEF SaveRow
<1>2. RowFor(l).path = l.path
  BY DEF RowFor
<1> QED BY <1>1, <1>2, SavedPaths DEF Put, Drop

LEMMA SavePlaces == ASSUME NotesInPlace, NEW l \in landing, SaveRow(l) PROVE NotesInPlace'
<1>1. /\ phase = "written" /\ phase' = "units" /\ vault' = vault /\ index'.rows = rows'
      /\ l.unit \in DOMAIN rows' /\ rows'[l.unit].path = l.path
      /\ \A u \in DOMAIN rows' \ {l.unit} : u \in DOMAIN rows \ {l.source, l.unit} /\ rows'[u] = rows[u]
  BY SavedRows
<1>2. /\ l.path \in DOMAIN vault
      /\ \A u \in DOMAIN rows \ {l.source, l.unit} : rows[u].path \in DOMAIN vault /\ rows[u].path # l.path
  BY <1>1 DEF NotesInPlace
<1>3. PathsApart(rows)
  BY <1>1 DEF NotesInPlace, RowsTrackIndex, SamePaths, PathsApart
<1>4. PathsApart(rows')
  BY <1>1, <1>2, <1>3 DEF PathsApart
<1> QED BY <1>1, <1>2, <1>4, PathsAreSame DEF NotesInPlace, RowsTrackIndex

\* Between runs the rows follow the file a user renames, to a path that was free.
LEMMA RenamePlaces == ASSUME NotesStay, TypeOK, NotesInPlace, NEW p \in DOMAIN vault, NEW q \in Paths, RenameNote(p, q)
                      PROVE  NotesInPlace'
<1>1. phase = "idle" /\ phase' = "idle"
  BY DEF RenameNote, Spend, VaultChange, NotesStay, NotesAreFollowed
<1>2. /\ q \notin DOMAIN vault /\ index'.rows = RemapRows(index.rows, p, q)
      /\ DOMAIN vault' = (DOMAIN vault \ {p}) \cup {q}
  BY <1>1 DEF RenameNote, VaultChange, Put, Drop, WithRows
<1>3. /\ DOMAIN index'.rows = DOMAIN index.rows
      /\ \A u \in DOMAIN index.rows : index'.rows[u].path = IF index.rows[u].path = p THEN q ELSE index.rows[u].path
  <2>1. \A u \in DOMAIN index.rows : [index.rows[u] EXCEPT !.path = q].path = q
    BY DEF TypeOK, RowTable, Row
  <2> QED BY <1>2, <2>1 DEF RemapRows
<1> QED BY <1>1, <1>2, <1>3 DEF NotesInPlace, PathsApart, RowsTrackIndex

\* note-rename.ts, "two active rows on one path" (rowForNotePath relies on there being none): as long as no note is
\* deleted, none is renamed under a run and no run is cut off, two rows never name one file, whatever tags, mappings,
\* titles and documents come and go.  resolveFreePath asks the vault and not the rows: a deleted note's name is given
\* to another document's, and the row of the first is written over it.
THEOREM OneRowPerFile == ASSUME NotesStay PROVE Spec => []ActivePathsDistinct
<1>1. Init => NotesInPlace /\ SourcesKnown
  BY DEF Init, NotesInPlace, RowsTrackIndex, PathsApart, SourcesKnown, NoRows
<1>2. TypeOK /\ SourcesKnown /\ [Next]_vars => SourcesKnown'
  BY RunSources, OutsideSources DEF Next
<1>3. TypeOK /\ SourcesKnown /\ NotesInPlace /\ [Next]_vars => NotesInPlace'
  <2> SUFFICES ASSUME TypeOK, SourcesKnown, NotesInPlace, [Next]_vars PROVE NotesInPlace'
    OBVIOUS
  <2>1. \A p \in DOMAIN vault : ~DeleteNote(p)
    BY DEF DeleteNote, Spend, NotesStay
  <2>2. RowsTrackIndex /\ NotesAreFollowed
    BY DEF NotesInPlace, NotesStay
  <2> QED BY <2>1, <2>2, WhatMovesFiles, SteadyPlaces, WritePlaces, SavePlaces, RenamePlaces
<1>4. NotesInPlace => ActivePathsDistinct
  BY DEF NotesInPlace, PathsApart, ActivePathsDistinct
<1> QED BY <1>1, <1>2, <1>3, <1>4, TypeCorrect, PTL DEF Spec

-----------------------------------------------------------------------------
(* The files of the vault.  A note with a managed block has its row, or is the one whose row is about *)
(* to be saved -- unless a tag rename lands on a tag its notebook or page was kept under before: then  *)
(* the row of the earlier note is replaced, and that note stays behind without one.                   *)

NeverReturns == \A l \in landing : l.source # l.unit => l.unit \notin DOMAIN rows

FilesKnown ==
    /\ phase # "written" => \A p \in DOMAIN vault : vault[p].kind # "plain" =>
                               \E u \in DOMAIN index.rows : index.rows[u].path = p
    /\ phase = "written" => \A l \in landing : \A p \in DOMAIN vault \ {l.path} : vault[p].kind # "plain" =>
                               \E u \in DOMAIN rows \ {l.source, l.unit} : rows[u].path = p

LEMMA SteadyFiles == ASSUME FilesKnown, Steady PROVE FilesKnown'
<1>1. CASE phase = "written"
  <2>1. phase' = "written" /\ landing' = landing /\ rows' = rows
    BY <1>1 DEF Steady
  <2> QED BY <1>1, <2>1 DEF FilesKnown, Steady
<1>2. CASE phase # "written"
  <2>1. phase' # "written" /\ SamePaths(index'.rows, index.rows)
    BY <1>2 DEF Steady
  <2>2. ASSUME NEW p \in DOMAIN vault', vault'[p].kind # "plain" PROVE \E u \in DOMAIN index'.rows : index'.rows[u].path = p
    <3>1. PICK u \in DOMAIN index.rows : index.rows[u].path = p
      BY <1>2, <2>2 DEF FilesKnown, Steady
    <3> QED BY <2>1, <3>1 DEF SamePaths
  <2> QED BY <2>1, <2>2 DEF FilesKnown
<1> QED BY <1>1, <1>2

\* The file a write leaves the name of is the one it moves; the one it overwrites is its row's own.
LEMMA WriteFilesKnown == ASSUME TypeOK, SourcesKnown, RowsTrackIndex, FilesKnown, NEW pl \in pending, NEW p \in Paths,
                                WriteNote(pl, p), NeverReturns'
                         PROVE  FilesKnown'
<1>1. /\ phase = "units" /\ phase' = "written" /\ rows' = rows
      /\ \A l \in landing' : l.unit = pl.unit /\ l.source = pl.source /\ l.path = p
      /\ IsTarget(pl, p) /\ ~pl.edited
  BY WriteFiles
<1>2. /\ DOMAIN vault' = DOMAIN Moved(pl, p) \cup {p}
      /\ \A r \in DOMAIN Moved(pl, p) \ {p} : r \in DOMAIN vault /\ vault'[r] = vault[r]
      /\ Moves(pl) /\ pl.source \in DOMAIN rows /\ rows[pl.source].path # p => rows[pl.source].path \notin DOMAIN Moved(pl, p)
  BY WriteFiles, ZenonT(40)
<1>3. \E l \in landing' : l.unit = pl.unit /\ l.source = pl.source
  BY Zenon DEF WriteNote
<1>4. pl.source # pl.unit => pl.unit \notin DOMAIN rows
  BY <1>1, <1>3 DEF NeverReturns
<1>5. Moves(pl) => pl.source \in DOMAIN rows
  BY <1>1, Target
<1>6. ASSUME NEW r \in DOMAIN vault' \ {p}, vault'[r].kind # "plain"
      PROVE  \E u \in DOMAIN rows \ {pl.source, pl.unit} : rows[u].path = r
  <2>1. r \in DOMAIN Moved(pl, p) /\ r \in DOMAIN vault /\ vault[r].kind # "plain"
    BY <1>2, <1>6
  <2>2. PICK u \in DOMAIN rows : rows[u].path = r
    BY <1>1, <2>1 DEF FilesKnown, RowsTrackIndex, SamePaths
  <2>3. CASE Moves(pl)
    <3>1. u # pl.source
      BY <1>2, <1>5, <1>6, <2>1, <2>2, <2>3
    <3>2. u # pl.unit
      BY <1>4, <2>2, <3>1
    <3> QED BY <2>2, <3>1, <3>2
  <2>4. CASE ~Moves(pl)
    <3>1. pl.source = pl.unit
      BY <2>4 DEF Moves
    <3>2. pl.unit \in DOMAIN rows => p = rows[pl.unit].path
      BY <1>1, <2>4 DEF IsTarget
    <3> QED BY <1>6, <2>2, <3>1, <3>2
  <2> QED BY <2>3, <2>4
<1> QED BY <1>1, <1>6 DEF FilesKnown

LEMMA SaveFilesKnown == ASSUME FilesKnown, NEW l \in landing, SaveRow(l) PROVE FilesKnown'
<1>1. /\ phase = "written" /\ phase' = "units" /\ vault' = vault /\ index'.rows = rows'
      /\ l.unit \in DOMAIN rows' /\ rows'[l.unit].path = l.path
      /\ \A u \in DOMAIN rows \ {l.source, l.unit} : u \in DOMAIN rows' /\ rows'[u] = rows[u]
  BY SavedRows
<1>2. ASSUME NEW p \in DOMAIN vault, vault[p].kind # "plain" PROVE \E u \in DOMAIN rows' : rows'[u].path = p
  <2>1. CASE p = l.path
    BY <1>1, <2>1
  <2>2. CASE p # l.path
    <3>1. PICK u \in DOMAIN rows \ {l.source, l.unit} : rows[u].path = p
      BY <1>1, <1>2, <2>2 DEF FilesKnown
    <3> QED BY <1>1, <3>1
  <2> QED BY <2>1, <2>2
<1> QED BY <1>1, <1>2 DEF FilesKnown

LEMMA UserFilesKnown == ASSUME NotesAreFollowed, TypeOK, FilesKnown, RowsTrackIndex, NEW p \in DOMAIN vault,
                               DeleteNote(p) \/ \E q \in Paths : RenameNote(p, q)
                        PROVE  FilesKnown' /\ RowsTrackIndex'
<1>1. CASE DeleteNote(p)
  <2>1. UNCHANGED <<index, phase, rows, landing>> /\ vault' = Drop(vault, p)
    BY <1>1 DEF DeleteNote, VaultChange, runVars
  <2>2. \A r \in DOMAIN vault' : r \in DOMAIN vault /\ vault'[r] = vault[r]
    BY <2>1 DEF Drop
  <2> QED BY <2>1, <2>2 DEF FilesKnown, RowsTrackIndex
<1>2. ASSUME NEW q \in Paths, RenameNote(p, q) PROVE FilesKnown' /\ RowsTrackIndex'
  <2>1. phase = "idle" /\ phase' = "idle"
    BY <1>2 DEF RenameNote, Spend, VaultChange, NotesAreFollowed
  <2>2. index'.rows = RemapRows(index.rows, p, q) /\ vault' = Put(Drop(vault, p), q, vault[p])
    BY <1>2, <2>1 DEF RenameNote, VaultChange, WithRows
  <2>3. /\ DOMAIN index'.rows = DOMAIN index.rows
        /\ \A u \in DOMAIN index.rows : index'.rows[u].path = IF index.rows[u].path = p THEN q ELSE index.rows[u].path
    <3>1. \A u \in DOMAIN index.rows : [index.rows[u] EXCEPT !.path = q].path = q
      BY DEF TypeOK, RowTable, Row
    <3> QED BY <2>2, <3>1 DEF RemapRows
  <2>4. ASSUME NEW r \in DOMAIN vault', vault'[r].kind # "plain" PROVE \E u \in DOMAIN index'.rows : index'.rows[u].path = r
    <3> DEFINE old == IF r = q THEN p ELSE r
    <3>1. old \in DOMAIN vault /\ vault[old].kind # "plain" /\ (r # q => r # p)
      BY <2>2, <2>4 DEF Put, Drop
    <3>2. PICK u \in DOMAIN index.rows : index.rows[u].path = old
      BY <2>1, <3>1 DEF FilesKnown
    <3> QED BY <2>3, <3>1, <3>2
  <2> QED BY <2>1, <2>4 DEF FilesKnown, RowsTrackIndex
<1> QED BY <1>1, <1>2

LEMMA WritesTrack == ASSUME TypeOK, SourcesKnown, RowsTrackIndex,
                            (\E pl \in pending, p \in Paths : WriteNote(pl, p)) \/ \E l \in landing : SaveRow(l)
                     PROVE  RowsTrackIndex'
<1>1. CASE \E pl \in pending, p \in Paths : WriteNote(pl, p)
  <2>1. phase = "units" /\ rows' = rows /\ index' = index
    BY <1>1, WriteFiles
  <2> QED BY <2>1 DEF RowsTrackIndex
<1>2. CASE \E l \in landing : SaveRow(l)
  BY <1>2, SavedRows, PathsAreSame DEF RowsTrackIndex
<1> QED BY <1>1, <1>2

\* sync-engine.ts, the checkpoint after every note: however notes are tagged, moved to another folder, renamed or
\* deleted between runs, deleted or stopped under one, between runs no note with a managed block is without its row,
\* so none is ever written a second time beside itself.  Cut off between a note and its row (NotesAreFollowed), or
\* back at an earlier tag (NeverReturns), a run does leave one.
THEOREM NotesHaveRows == ASSUME NotesAreFollowed PROVE Spec /\ []NeverReturns => []NoStrays
<1>1. Init => RowsTrackIndex /\ FilesKnown /\ SourcesKnown
  BY DEF Init, RowsTrackIndex, FilesKnown, SourcesKnown
<1>2. TypeOK /\ SourcesKnown /\ [Next]_vars => SourcesKnown'
  BY RunSources, OutsideSources DEF Next
<1>3. /\ TypeOK /\ SourcesKnown /\ RowsTrackIndex /\ FilesKnown /\ NeverReturns' /\ [Next]_vars
      => RowsTrackIndex' /\ FilesKnown'
  <2> SUFFICES ASSUME TypeOK, SourcesKnown, RowsTrackIndex, FilesKnown, NeverReturns', [Next]_vars
               PROVE  RowsTrackIndex' /\ FilesKnown'
    OBVIOUS
  <2>1. CASE Steady
    BY <2>1, SteadyFiles DEF Steady
  <2>2. CASE \E pl \in pending, p \in Paths : WriteNote(pl, p)
    BY <2>2, WriteFilesKnown, WritesTrack
  <2>3. CASE \E l \in landing : SaveRow(l)
    BY <2>3, SaveFilesKnown, WritesTrack
  <2>4. CASE \E p \in DOMAIN vault : DeleteNote(p) \/ \E q \in Paths : RenameNote(p, q)
    BY <2>4, UserFilesKnown
  <2> QED BY <2>1, <2>2, <2>3, <2>4, WhatMovesFiles
<1>4. FilesKnown => NoStrays
  BY DEF FilesKnown, NoStrays, Strays
<1> QED BY <1>1, <1>2, <1>3, <1>4, TypeCorrect, PTL DEF Spec

\* Where there is one tag, no note is ever renamed from one to another.
LEMMA OneTag == ASSUME \A s, t \in Tags : s = t, TypeOK, SourcesKnown, NEW d \in Docs, phase = "docs",
                       NEW pl \in PlanUnits(d)
                PROVE  pl.source = pl.unit
<1>1. PICK u \in UnitsOf(router, d, listed[d]) :
         pl = [unit |-> u, source |-> SourceOf(u),
               edited |-> SourceOf(u) \in DOMAIN rows /\ IsBlockEdited(vault, rows[SourceOf(u)])]
  BY Zenon DEF PlanUnits
<1>2. u \in Units /\ u.doc = d /\ u.tag \in TagsAt(router, listed[d], u.page)
  BY DEF UnitsOf
<1>3. Removed(d, u.page) = {}
  <2>1. \A r \in Removed(d, u.page) : r \in Units /\ r.tag \notin TagsAt(router, listed[d], u.page)
    BY DEF Removed, ActiveAt, TypeOK, RowTable
  <2> QED BY <1>2, <2>1 DEF Units
<1>4. SourceOf(u) = u
  BY <1>2, <1>3 DEF SourceOf, IsRename
<1> QED BY <1>1, <1>4

\* With one tag every unit keeps its own row.
OwnSources == (\A pl \in pending : pl.source = pl.unit) /\ (\A l \in landing : l.source = l.unit)

LEMMA OneTagOneRow == ASSUME \A s, t \in Tags : s = t PROVE Spec => []OwnSources
<1>1. Init => OwnSources /\ SourcesKnown
  BY DEF Init, SourcesKnown, OwnSources
<1>2. TypeOK /\ SourcesKnown /\ [Next]_vars => SourcesKnown'
  BY RunSources, OutsideSources DEF Next
<1>3. TypeOK /\ SourcesKnown /\ OwnSources /\ [Next]_vars => OwnSources'
  <2> SUFFICES ASSUME TypeOK, SourcesKnown, OwnSources, [Next]_vars PROVE OwnSources'
    OBVIOUS
  <2>1. ASSUME NEW d \in Docs, OpenDocument(d) PROVE OwnSources'
    <3>1. pending' = PlanUnits(d) /\ landing' = landing /\ phase = "docs"
      BY <2>1, Zenon DEF OpenDocument
    <3> QED BY <3>1, OneTag DEF OwnSources
  <2>2. ASSUME NEW pl \in pending, NEW p, WriteNote(pl, p) PROVE OwnSources'
    <3>1. /\ pending' = pending \ {pl}
          /\ \E b : landing' = {[unit |-> pl.unit, source |-> pl.source, path |-> p, block |-> b]}
      BY <2>2, Zenon DEF WriteNote
    <3>2. \A l \in landing' : l.unit = pl.unit /\ l.source = pl.source
      BY <3>1
    <3> QED BY <3>1, <3>2 DEF OwnSources
  <2>3. CASE pending' \subseteq pending /\ landing' \subseteq landing
    BY <2>3 DEF OwnSources
  <2>4. Tablet \/ User \/ SkipRun \/ UNCHANGED vars => UNCHANGED <<pending, landing>>
    BY ZenonT(40) DEF Tablet, Trash, Draw, ErasePage, TagPage, TagDoc, TagFolder, DocumentChange, TabletChange, SkipRun, vars, runVars,
           User, InvalidateRenders, RequestStop, SetMapping, EditBlock, UndoEdit, RemoveFence, DeleteNote, RenameNote, VaultChange
  <2>5. Abort \/ StopHere \/ FinishRun => pending' = {} /\ landing' = {}
    BY DEF Abort, StopHere, FinishRun, ForgetRun
  <2>6. StartRun \/ ListItems \/ (\E d \in Docs : PassOver(d) \/ CloseDocument(d)) => UNCHANGED <<pending, landing>>
    BY Zenon DEF StartRun, ListItems, PassOver, CloseDocument
  <2>7. \A pl \in pending : SkipEdited(pl) \/ FailUnit(pl) \/ KeepNote(pl) => pending' \subseteq pending /\ landing' = landing
    BY DEF SkipEdited, FailUnit, KeepNote, LeaveAlone
  <2>8. \A l \in landing : SaveRow(l) => pending' = pending /\ landing' = {}
    BY Zenon DEF SaveRow
  <2> QED BY <2>1, <2>2, <2>3, <2>4, <2>5, <2>6, <2>7, <2>8 DEF Next, Run
<1> QED BY <1>1, <1>2, <1>3, TypeCorrect, PTL DEF Spec

\* With one tag there is no earlier one to come back to.
THEOREM NotesOfOneTagHaveRows == ASSUME NotesAreFollowed, \A s, t \in Tags : s = t PROVE Spec => []NoStrays
<1>1. OwnSources => NeverReturns
  BY DEF OwnSources, NeverReturns
<1> QED BY <1>1, OneTagOneRow, NotesHaveRows, PTL

-----------------------------------------------------------------------------
(* The hashes.  What a row says of its note must hold of the tablet as it is, and of the listing the  *)
(* run works from, for a row that is not written takes the listing's hash when its document closes.   *)

\* This row's hash is that of this document only if its note shows what the document holds.
Shows(row, u, e) ==
    /\ u.page = NoPage /\ row.entryHash = e.ver => row.block = BlockOf(u.doc, e, NoPage)
    /\ u.page # NoPage /\ row.pageHash = PageContentHash(u.doc, e, u.page) => row.block = BlockOf(u.doc, e, u.page)

Faithful(rs, docs) == \A u \in DOMAIN rs : rs[u].status = "active" => Shows(rs[u], u, docs[u.doc])

\* The block that shows one page, drawn on at this time.
PageBlock(u, n) == [doc |-> u.doc, page |-> u.page, ink |-> [x \in Pages |-> IF x = u.page THEN n ELSE 0]]

\* No row knows a hash the tablet has not had; a page's own hash says what is on it.
Known(rs, now) ==
    \A u \in DOMAIN rs :
        /\ rs[u].entryHash <= now
        /\ u.page # NoPage => IF u.doc \in PdfDocs THEN rs[u].pageHash <= now
                              ELSE rs[u].block = PageBlock(u, rs[u].pageHash)

\* When a document closes, each of its notes shows the document, or is left alone.
Covered ==
    \A d \in doc, u \in DOMAIN rows :
        u.doc = d /\ u.page = NoPage /\ rows[u].status = "active" =>
            \/ u \in untouched
            \/ \E pl \in pending : pl.source = u
            \/ \E l \in landing : l.source = u
            \/ rows[u].block = BlockOf(d, listed[d], NoPage)

Listing ==
    /\ \A d \in Docs : listed[d].ver <= clock /\ (listed[d].ver = device[d].ver => listed[d].ink = device[d].ink)
    /\ Faithful(rows, listed)
    /\ \A l \in landing : l.block = BlockOf(l.unit.doc, listed[l.unit.doc], l.unit.page) /\ \A x \in landing : x = l
    /\ Covered

HashesKnown ==
    /\ \A d \in Docs : device[d].ver <= clock
    /\ Known(index.rows, clock) /\ Known(rows, clock)
    /\ Faithful(index.rows, device) /\ Faithful(rows, device)
    /\ phase \notin {"units", "written"} => doc = {}
    /\ InHand => Listing

\* Rows that say of their notes what others said, or say nothing any more.
SameHashes(rs, ss) ==
    /\ DOMAIN rs = DOMAIN ss
    /\ \A u \in DOMAIN rs : /\ rs[u].entryHash = ss[u].entryHash /\ rs[u].pageHash = ss[u].pageHash
                            /\ rs[u].block = ss[u].block
                            /\ rs[u].status = "active" => ss[u].status = "active"

LEMMA HashesAreSame == ASSUME NEW rs, NEW ss, SameHashes(rs, ss)
                       PROVE  /\ \A docs : Faithful(ss, docs) => Faithful(rs, docs)
                              /\ \A now : Known(ss, now) => Known(rs, now)
<1>1. ASSUME NEW docs, Faithful(ss, docs) PROVE Faithful(rs, docs)
  BY <1>1 DEF SameHashes, Faithful, Shows
<1>2. ASSUME NEW now, Known(ss, now) PROVE Known(rs, now)
  BY <1>2 DEF SameHashes, Known
<1> QED BY <1>1, <1>2

LEMMA RowHashes == ASSUME NEW r \in Row
                   PROVE  /\ \A x : /\ [r EXCEPT !.stale = x].entryHash = r.entryHash /\ [r EXCEPT !.stale = x].pageHash = r.pageHash
                                    /\ [r EXCEPT !.stale = x].block = r.block /\ [r EXCEPT !.stale = x].status = r.status
                          /\ \A x : /\ [r EXCEPT !.path = x].entryHash = r.entryHash /\ [r EXCEPT !.path = x].pageHash = r.pageHash
                                    /\ [r EXCEPT !.path = x].block = r.block /\ [r EXCEPT !.path = x].status = r.status
                          /\ \A x : /\ [r EXCEPT !.status = x].entryHash = r.entryHash /\ [r EXCEPT !.status = x].pageHash = r.pageHash
                                    /\ [r EXCEPT !.status = x].block = r.block /\ [r EXCEPT !.status = x].status = x
                          /\ \A x : /\ [r EXCEPT !.entryHash = x].entryHash = x /\ [r EXCEPT !.entryHash = x].pageHash = r.pageHash
                                    /\ [r EXCEPT !.entryHash = x].block = r.block /\ [r EXCEPT !.entryHash = x].status = r.status
  BY Zenon DEF Row

LEMMA NoRowsKnown == (\A docs : Faithful(NoRows, docs)) /\ \A now : Known(NoRows, now)
  BY DEF NoRows, Faithful, Known

\* A block shows nothing of a document but its ink.
LEMMA SameInk == ASSUME NEW e, NEW f, e.ver = f.ver, e.ink = f.ink
                 PROVE  /\ \A d, pg : BlockOf(d, e, pg) = BlockOf(d, f, pg) /\ PageContentHash(d, e, pg) = PageContentHash(d, f, pg)
                        /\ \A row, u : Shows(row, u, e) <=> Shows(row, u, f)
<1>1. \A d, pg : BlockOf(d, e, pg) = BlockOf(d, f, pg) /\ PageContentHash(d, e, pg) = PageContentHash(d, f, pg)
  BY DEF BlockOf, PageContentHash
<1> QED BY <1>1 DEF Shows

\* A document that changed has a hash no row knows; a page that did not has kept its own.
LEMMA NewHash == ASSUME NEW rs, RowTable(rs), NEW now \in Nat, Known(rs, now), NEW u \in DOMAIN rs, NEW e \in DocEntry,
                        e.ver = now + 1
                 PROVE  Shows(rs[u], u, e)
<1>1. u \in Units /\ rs[u].entryHash \in Nat /\ rs[u].pageHash \in Nat
  BY DEF RowTable, Row
<1>2. rs[u].entryHash # e.ver
  BY <1>1 DEF Known
<1>3. u.page # NoPage /\ rs[u].pageHash = PageContentHash(u.doc, e, u.page) => rs[u].block = BlockOf(u.doc, e, u.page)
  <2>1. CASE u.doc \in PdfDocs
    BY <1>1, <2>1 DEF Known, PageContentHash
  <2>2. CASE u.doc \notin PdfDocs
    <3>1. SUFFICES ASSUME u.page # NoPage, rs[u].pageHash = e.ink[u.page] PROVE rs[u].block = BlockOf(u.doc, e, u.page)
      BY <2>2 DEF PageContentHash
    <3>2. rs[u].block = PageBlock(u, e.ink[u.page])
      BY <2>2, <3>1 DEF Known
    <3> QED BY <3>1, <3>2 DEF PageBlock, BlockOf
  <2> QED BY <2>1, <2>2
<1> QED BY <1>2, <1>3 DEF Shows

LEMMA TabletFaithful == ASSUME TypeOK, NEW d \in Docs, NEW e \in DocEntry, device' = [device EXCEPT ![d] = e],
                               e.ver = clock + 1 \/ (e.ver = device[d].ver /\ e.ink = device[d].ink),
                               NEW rs, RowTable(rs), Known(rs, clock), Faithful(rs, device)
                        PROVE  Faithful(rs, device')
<1>1. SUFFICES ASSUME NEW u \in DOMAIN rs, rs[u].status = "active" PROVE Shows(rs[u], u, device'[u.doc])
  BY DEF Faithful
<1>2. u.doc \in Docs /\ device'[u.doc] = IF u.doc = d THEN e ELSE device[u.doc]
  BY DEF TypeOK, RowTable, Units
<1>3. Shows(rs[u], u, device[u.doc])
  BY <1>1 DEF Faithful
<1>4. e.ver = clock + 1 => Shows(rs[u], u, e)
  BY NewHash DEF TypeOK
<1>5. u.doc = d /\ e.ver = device[d].ver /\ e.ink = device[d].ink => Shows(rs[u], u, e)
  BY <1>3, SameInk
<1> QED BY <1>2, <1>3, <1>4, <1>5

LEMMA KnownLater == ASSUME NEW rs, RowTable(rs), NEW now \in Nat, Known(rs, now) PROVE Known(rs, now + 1)
<1>1. \A u \in DOMAIN rs : rs[u].entryHash \in Nat /\ rs[u].pageHash \in Nat
  BY DEF RowTable, Row
<1> QED BY <1>1 DEF Known

LEMMA TabletHashes == ASSUME TypeOK, HashesKnown, NEW d \in Docs, NEW e \in DocEntry, TabletChange(d, e),
                             e.ver = clock + 1 \/ (e.ver = device[d].ver /\ e.ink = device[d].ink)
                      PROVE  HashesKnown'
<1>1. /\ device' = [device EXCEPT ![d] = e] /\ clock' = clock + 1
      /\ UNCHANGED <<index, phase, rows, listed, doc, pending, untouched, landing>>
  BY Zenon DEF TabletChange, runVars
<1>2. clock \in Nat /\ device \in [Docs -> DocEntry] /\ RowTable(index.rows) /\ RowTable(rows)
  BY DEF TypeOK
<1>3. \A x \in Docs : device[x].ver \in Nat
  BY <1>2 DEF DocEntry
<1>4. \A x \in Docs : device'[x] = IF x = d THEN e ELSE device[x]
  BY <1>1, <1>2
<1>5. \A x \in Docs : device'[x].ver <= clock'
  BY <1>1, <1>2, <1>3, <1>4 DEF HashesKnown
<1>6. Known(index.rows, clock') /\ Known(rows, clock')
  BY <1>1, <1>2, KnownLater DEF HashesKnown
<1>7. Faithful(index.rows, device') /\ Faithful(rows, device')
  BY <1>1, <1>2, TabletFaithful DEF HashesKnown
<1>8. InHand' => Listing'
  <2>1. SUFFICES ASSUME InHand PROVE Listing'
    BY <1>1 DEF InHand
  <2>2. Listing /\ listed \in [Docs -> DocEntry]
    BY <2>1 DEF HashesKnown, InHand, TypeOK
  <2>3. ASSUME NEW x \in Docs
        PROVE  listed[x].ver <= clock' /\ (listed[x].ver = device'[x].ver => listed[x].ink = device'[x].ink)
    <3>1. listed[x].ver \in Nat /\ listed[x].ver <= clock /\ (listed[x].ver = device[x].ver => listed[x].ink = device[x].ink)
      BY <2>2 DEF Listing, DocEntry
    <3> QED BY <1>1, <1>2, <1>3, <1>4, <3>1
  <2>4. Covered'
    BY <1>1, <2>2 DEF Listing, Covered
  <2> QED BY <1>1, <2>2, <2>3, <2>4 DEF Listing
<1> QED BY <1>1, <1>5, <1>6, <1>7, <1>8 DEF HashesKnown

LEMMA AllTabletHashes == ASSUME TypeOK, HashesKnown, Tablet PROVE HashesKnown'
<1>1. clock + 1 \in Nat /\ \A d \in Docs : device[d] \in DocEntry
  BY DEF TypeOK
<1>2. ASSUME NEW d \in Docs, NEW e \in DocEntry, DocumentChange(d, e) PROVE HashesKnown'
  <2> DEFINE f == [e EXCEPT !.ver = clock + 1]
  <2>1. f \in DocEntry /\ f.ver = clock + 1
    <3>1. e \in DocEntry
      BY <1>1
    <3>2. f \in DocEntry
      BY <1>1, <3>1, EntryChanges
    <3>3. f.ver = clock + 1
      BY <3>1, EntryKeeps
    <3> QED BY <3>2, <3>3
  <2>2. TabletChange(d, f)
    BY <1>2 DEF DocumentChange
  <2> HIDE DEF f
  <2> QED BY <2>1, <2>2, TabletHashes
<1>3. ASSUME NEW d \in Docs, NEW x \in SUBSET Tags, TabletChange(d, [device[d] EXCEPT !.inherited = x]) PROVE HashesKnown'
  <2> DEFINE f == [device[d] EXCEPT !.inherited = x]
  <2>1. f \in DocEntry /\ f.ver = device[d].ver /\ f.ink = device[d].ink
    <3>1. device[d] \in DocEntry
      BY <1>1
    <3>2. f \in DocEntry
      BY <3>1, EntryChanges
    <3>3. f.ver = device[d].ver /\ f.ink = device[d].ink
      BY <3>1, EntryKeeps
    <3> QED BY <3>2, <3>3
  <2>2. TabletChange(d, f)
    BY <1>3
  <2> HIDE DEF f
  <2> QED BY <2>1, <2>2, TabletHashes
<1>4. ASSUME NEW d \in Docs, NEW x \in BOOLEAN, TabletChange(d, [device[d] EXCEPT !.live = x]) PROVE HashesKnown'
  <2> DEFINE f == [device[d] EXCEPT !.live = x]
  <2>1. f \in DocEntry /\ f.ver = device[d].ver /\ f.ink = device[d].ink
    <3>1. device[d] \in DocEntry
      BY <1>1
    <3>2. f \in DocEntry
      BY <3>1, EntryChanges
    <3>3. f.ver = device[d].ver /\ f.ink = device[d].ink
      BY <3>1, EntryKeeps
    <3> QED BY <3>2, <3>3
  <2>2. TabletChange(d, f)
    BY <1>4
  <2> HIDE DEF f
  <2> QED BY <2>1, <2>2, TabletHashes
<1>5. \A d \in Docs, t \in Tags : Toggle(device[d].tags, t) \in SUBSET Tags /\ Toggle(device[d].inherited, t) \in SUBSET Tags
  BY <1>1 DEF Toggle, DocEntry
<1>6. \A d \in Docs, pg \in Pages, n \in Nat : [device[d].ink EXCEPT ![pg] = n] \in [Pages -> Nat]
  BY <1>1 DEF DocEntry
<1>7. \A d \in Docs, pg \in Pages, t \in Tags : [device[d].pageTags EXCEPT ![pg] = Toggle(@, t)] \in [Pages -> SUBSET Tags]
  BY <1>1 DEF Toggle, DocEntry
<1>8. ASSUME NEW d \in Docs, NEW pg \in Pages, Draw(d, pg) \/ ErasePage(d, pg) PROVE HashesKnown'
  BY <1>1, <1>2, <1>6, <1>8, EntryChanges DEF Draw, ErasePage
<1>9. ASSUME NEW d \in Docs, NEW pg \in Pages, NEW t \in Tags, TagPage(d, pg, t) PROVE HashesKnown'
  BY <1>1, <1>2, <1>7, <1>9, EntryChanges DEF TagPage
<1>10. ASSUME NEW d \in Docs, NEW t \in Tags, TagDoc(d, t) PROVE HashesKnown'
  BY <1>1, <1>2, <1>5, <1>10, EntryChanges DEF TagDoc
<1>11. ASSUME NEW d \in Docs, NEW t \in Tags, TagFolder(d, t) PROVE HashesKnown'
  BY <1>3, <1>5, <1>11 DEF TagFolder
<1>12. ASSUME NEW d \in Docs, Trash(d) PROVE HashesKnown'
  BY <1>4, <1>12 DEF Trash
<1> QED BY <1>8, <1>9, <1>10, <1>11, <1>12 DEF Tablet

\* A step that reads no tablet and saves no row.
LEMMA QuietHashes == ASSUME HashesKnown, UNCHANGED <<device, clock, index, phase, rows, listed, doc, pending, untouched, landing>>
                     PROVE  HashesKnown'
BY DEF HashesKnown, InHand, Listing, Covered

\* While no run is at work.
LEMMA IdleHashes == ASSUME HashesKnown, UNCHANGED <<device, clock, phase, rows, doc>>, phase = "idle", SameHashes(index'.rows, index.rows)
                    PROVE  HashesKnown'
<1>1. Known(index'.rows, clock) /\ Faithful(index'.rows, device)
  BY HashesAreSame DEF HashesKnown
<1> QED BY <1>1 DEF HashesKnown, InHand

LEMMA UserHashes == ASSUME TypeOK, HashesKnown, User \/ SkipRun \/ UNCHANGED vars PROVE HashesKnown'
<1>1. CASE SkipRun \/ UNCHANGED vars
  BY <1>1, QuietHashes DEF SkipRun, vars, runVars
<1>2. CASE RequestStop \/ \E t \in Tags, f \in Folders \cup {NoFolder} : SetMapping(t, f)
  BY <1>2, QuietHashes DEF RequestStop, SetMapping, tabletVars, runVars
<1>3. CASE \E p \in DOMAIN vault : EditBlock(p) \/ UndoEdit(p) \/ RemoveFence(p) \/ DeleteNote(p)
  BY <1>3, QuietHashes DEF EditBlock, UndoEdit, RemoveFence, DeleteNote, VaultChange, tabletVars, runVars
<1>4. CASE InvalidateRenders
  <2>1. /\ UNCHANGED <<device, clock, phase, rows, doc>> /\ phase = "idle"
        /\ index'.rows = [u \in DOMAIN index.rows |-> IF index.rows[u].status = "active"
                                                      THEN [index.rows[u] EXCEPT !.stale = TRUE] ELSE index.rows[u]]
    BY <1>4, Zenon DEF InvalidateRenders, WithRows, tabletVars, runVars
  <2>2. SameHashes(index'.rows, index.rows)
    BY <2>1, RowHashes DEF TypeOK, RowTable, SameHashes
  <2> QED BY <2>1, <2>2, IdleHashes
<1>5. ASSUME NEW p \in DOMAIN vault, NEW q \in Paths, RenameNote(p, q) PROVE HashesKnown'
  <2>1. CASE phase # "idle"
    BY <1>5, <2>1, QuietHashes DEF RenameNote, VaultChange, tabletVars, runVars
  <2>2. CASE phase = "idle"
    <3>1. /\ UNCHANGED <<device, clock, phase, rows, doc>>
          /\ index'.rows = RemapRows(index.rows, p, q)
      BY <1>5, <2>2 DEF RenameNote, VaultChange, WithRows, tabletVars, runVars
    <3>2. SameHashes(index'.rows, index.rows)
      BY <3>1, RowHashes DEF TypeOK, RowTable, SameHashes, RemapRows
    <3> QED BY <2>2, <3>1, <3>2, IdleHashes
  <2> QED BY <2>1, <2>2
<1> QED BY <1>1, <1>2, <1>3, <1>4, <1>5 DEF User

\* A run that ends keeps the rows it had, those of the last save, or those it swept.
LEMMA EndHashes == ASSUME TypeOK, HashesKnown, StopHere \/ FinishRun \/ Abort PROVE HashesKnown'
<1>1. /\ UNCHANGED <<device, clock>> /\ phase' = "idle" /\ rows' = NoRows /\ doc' = {}
      /\ index'.rows \in {rows, index.rows, SweptRows}
  BY DEF StopHere, FinishRun, Abort, ForgetRun, WithRows, tabletVars
<1>2. Known(SweptRows, clock) /\ Faithful(SweptRows, device)
  <2>1. \A u \in DOMAIN rows : LET swept == [rows[u] EXCEPT !.status = "orphaned", !.entryHash = 0]
                               IN /\ swept.status = "orphaned" /\ swept.entryHash = 0 /\ swept.pageHash = rows[u].pageHash
                                  /\ swept.block = rows[u].block
    BY DEF TypeOK, RowTable, Row
  <2>2. Known(rows, clock) /\ Faithful(rows, device) /\ clock \in Nat
    BY DEF HashesKnown, TypeOK
  <2>3. DOMAIN SweptRows = DOMAIN rows
    BY DEF SweptRows
  <2>4. \A u \in DOMAIN rows : /\ SweptRows[u].entryHash \in {0, rows[u].entryHash}
                               /\ SweptRows[u].pageHash = rows[u].pageHash /\ SweptRows[u].block = rows[u].block
                               /\ SweptRows[u].status = "active" => SweptRows[u] = rows[u]
    BY <2>1 DEF SweptRows
  <2>5. Faithful(SweptRows, device)
    BY <2>2, <2>3, <2>4 DEF Faithful
  <2>6. Known(SweptRows, clock)
    BY <2>2, <2>3, <2>4 DEF Known
  <2> QED BY <2>5, <2>6
<1> QED BY <1>1, <1>2, NoRowsKnown DEF HashesKnown, InHand

LEMMA StartHashes == ASSUME TypeOK, HashesKnown, StartRun \/ ListItems PROVE HashesKnown'
<1>1. CASE StartRun
  <2>1. /\ phase = "idle" /\ phase' = "listing" /\ rows' = index.rows /\ UNCHANGED <<device, clock, index, doc>>
    BY <1>1, Zenon DEF StartRun, tabletVars
  <2> QED BY <2>1 DEF HashesKnown, InHand
<1>2. CASE ListItems
  <2>1. /\ phase = "listing" /\ phase' = "docs" /\ listed' = device /\ UNCHANGED <<device, clock, index, rows, doc, landing>>
    BY <1>2, Zenon DEF ListItems, tabletVars
  <2>2. doc = {} /\ landing = {}
    BY <2>1, PlanPhases DEF HashesKnown
  <2> QED BY <2>1, <2>2 DEF HashesKnown, Listing, Covered
<1> QED BY <1>1, <1>2

LEMMA PassOverHashes == ASSUME TypeOK, HashesKnown, NEW d \in Docs, PassOver(d) PROVE HashesKnown'
<1>1. UNCHANGED <<device, clock, index, phase, rows, listed, doc, pending, untouched, landing>>
  BY Zenon DEF PassOver, tabletVars
<1> QED BY <1>1, QuietHashes

\* Every note of the document that opens is current, planned, or about to be taken over by one that is planned.
LEMMA OpenCovers == ASSUME TypeOK, HashesKnown, NEW d \in Docs, phase = "docs", NEW u \in DOMAIN rows,
                           u.doc = d, u.page = NoPage, rows[u].status = "active", u \notin OrphanedBy(d)
                    PROVE  rows[u].block = BlockOf(d, listed[d], NoPage) \/ \E pl \in PlanUnits(d) : pl.source = u
<1>1. u \in Units /\ u \in ActiveAt(rows, d, NoPage) /\ u \in ActiveOf(rows, d)
  BY DEF TypeOK, RowTable, ActiveAt, ActiveOf
<1>2. ASSUME NEW w \in UnitsOf(router, d, listed[d]), SourceOf(w) = u, ~IsCurrent(w)
      PROVE  \E pl \in PlanUnits(d) : pl.source = u
  <2> DEFINE pl == [unit |-> w, source |-> SourceOf(w),
                    edited |-> SourceOf(w) \in DOMAIN rows /\ IsBlockEdited(vault, rows[SourceOf(w)])]
  <2>1. pl \in PlanUnits(d) /\ pl.source = u
    BY <1>2 DEF PlanUnits
  <2> QED BY <2>1
<1>3. CASE u \in Removed(d, NoPage)
  <2>1. IsRename(d, NoPage)
    BY <1>1, <1>3 DEF OrphanedBy
  <2>2. PICK t \in Added(d, NoPage) : Added(d, NoPage) = {t}
    BY <2>1 DEF IsRename
  <2>3. Removed(d, NoPage) = {u}
    BY <1>3, <2>1 DEF IsRename
  <2> DEFINE w == [doc |-> d, page |-> NoPage, tag |-> t]
  <2>4. t \in TagsAt(router, listed[d], NoPage) /\ t \in Tags
    BY <2>2, TagsAtMapped DEF Added, TypeOK
  <2>5. w \in UnitsOf(router, d, listed[d]) /\ w.doc = d /\ w.page = NoPage /\ w.tag = t
    BY <2>4 DEF UnitsOf, Units
  <2>6. SourceOf(w) = u
    BY <2>1, <2>2, <2>3, <2>5 DEF SourceOf
  <2>7. u.tag # t
    BY <1>3, <2>4 DEF Removed
  <2>8. ~IsCurrent(w)
    BY <2>5, <2>6, <2>7 DEF IsCurrent
  <2> HIDE DEF w
  <2> QED BY <1>2, <2>5, <2>6, <2>8
<1>4. CASE u \notin Removed(d, NoPage)
  <2>1. u.tag \in TagsAt(router, listed[d], NoPage)
    BY <1>1, <1>4 DEF Removed
  <2>2. u \in UnitsOf(router, d, listed[d])
    BY <1>1, <2>1 DEF UnitsOf
  <2>3. SourceOf(u) = u
    BY <1>1 DEF SourceOf, Added
  <2>4. IsCurrent(u) => rows[u].entryHash = listed[d].ver
    BY DEF IsCurrent
  <2>5. Shows(rows[u], u, listed[d])
    BY DEF HashesKnown, InHand, Listing, Faithful
  <2> QED BY <1>2, <2>2, <2>3, <2>4, <2>5 DEF Shows
<1> QED BY <1>3, <1>4

LEMMA OpenHashes == ASSUME TypeOK, HashesKnown, NEW d \in Docs, OpenDocument(d) PROVE HashesKnown'
<1>1. /\ rows' = [u \in DOMAIN rows |-> IF u \in OrphanedBy(d) THEN [rows[u] EXCEPT !.status = "orphaned"] ELSE rows[u]]
      /\ pending' = PlanUnits(d) /\ doc' = {d} /\ phase = "docs" /\ phase' = "units"
      /\ UNCHANGED <<device, clock, index, listed, untouched, landing>>
  BY Zenon DEF OpenDocument, tabletVars
<1>2. SameHashes(rows', rows) /\ \A u \in DOMAIN rows : rows'[u].status = "active" => u \notin OrphanedBy(d)
  BY <1>1, RowHashes DEF TypeOK, RowTable, SameHashes
<1>3. Known(rows', clock) /\ Faithful(rows', device) /\ Faithful(rows', listed)
  BY <1>1, <1>2, HashesAreSame DEF HashesKnown, InHand, Listing
<1>4. Covered'
  <2>1. SUFFICES ASSUME NEW u \in DOMAIN rows', u.doc = d, u.page = NoPage, rows'[u].status = "active"
                 PROVE  rows'[u].block = BlockOf(d, listed[d], NoPage) \/ \E pl \in PlanUnits(d) : pl.source = u
    BY <1>1 DEF Covered
  <2>2. u \in DOMAIN rows /\ rows[u].status = "active" /\ u \notin OrphanedBy(d) /\ rows'[u].block = rows[u].block
    BY <1>2, <2>1 DEF SameHashes
  <2> QED BY <1>1, <2>1, <2>2, OpenCovers
<1>5. Listing'
  BY <1>1, <1>3, <1>4 DEF HashesKnown, InHand, Listing
<1> QED BY <1>1, <1>3, <1>5 DEF HashesKnown

LEMMA CloseHashes == ASSUME TypeOK, HashesKnown, NEW d \in Docs, CloseDocument(d) PROVE HashesKnown'
<1>1. /\ rows' = [u \in DOMAIN rows |-> IF u.doc = d /\ u \notin untouched
                                        THEN [rows[u] EXCEPT !.entryHash = listed[d].ver] ELSE rows[u]]
      /\ pending = {} /\ d \in doc /\ doc' = {} /\ phase = "units" /\ phase' = "docs"
      /\ index' = WithRows(rows', order) /\ UNCHANGED <<device, clock, listed, landing>>
  BY Zenon DEF CloseDocument, tabletVars
<1>2. index'.rows = rows'
  BY <1>1, SavedPaths
<1>3. Listing /\ landing = {}
  BY <1>1, PlanPhases DEF HashesKnown, InHand
<1>4. /\ DOMAIN rows' = DOMAIN rows
      /\ \A u \in DOMAIN rows : /\ rows'[u].pageHash = rows[u].pageHash /\ rows'[u].block = rows[u].block
                                /\ rows'[u].status = rows[u].status
                                /\ rows'[u].entryHash = IF u.doc = d /\ u \notin untouched THEN listed[d].ver ELSE rows[u].entryHash
  BY <1>1, RowHashes DEF TypeOK, RowTable
<1>5. \A u \in DOMAIN rows : u.doc = d /\ u.page = NoPage /\ rows[u].status = "active" /\ u \notin untouched
                                => rows[u].block = BlockOf(d, listed[d], NoPage)
  BY <1>1, <1>3 DEF Listing, Covered
<1>6. listed[d].ver <= clock /\ (listed[d].ver = device[d].ver => BlockOf(d, device[d], NoPage) = BlockOf(d, listed[d], NoPage))
  BY <1>3, SameInk DEF Listing
<1>7. Known(rows', clock)
  BY <1>4, <1>6 DEF HashesKnown, Known
<1>8. Faithful(rows', listed)
  <2>1. Faithful(rows, listed)
    BY <1>3 DEF Listing
  <2>2. SUFFICES ASSUME NEW u \in DOMAIN rows, rows[u].status = "active" PROVE Shows(rows'[u], u, listed[u.doc])
    BY <1>4 DEF Faithful
  <2>3. Shows(rows[u], u, listed[u.doc])
    BY <2>1, <2>2 DEF Faithful
  <2> QED BY <1>4, <1>5, <2>2, <2>3 DEF Shows
<1>9. Faithful(rows', device)
  <2>1. SUFFICES ASSUME NEW u \in DOMAIN rows, rows[u].status = "active" PROVE Shows(rows'[u], u, device[u.doc])
    BY <1>4 DEF Faithful
  <2>2. Shows(rows[u], u, device[u.doc])
    BY <2>1 DEF HashesKnown, Faithful
  <2> QED BY <1>4, <1>5, <1>6, <2>1, <2>2 DEF Shows
<1>10. Listing'
  BY <1>1, <1>3, <1>8 DEF Listing, Covered
<1> QED BY <1>1, <1>2, <1>7, <1>8, <1>9, <1>10 DEF HashesKnown

\* A unit that fails leaves its own row alone, and not the row it was to take over.
OwnRowFails == \A pl \in pending : FailUnit(pl) => pl.source = pl.unit \/ pl.source.page # NoPage

LEMMA UnitHashes == ASSUME TypeOK, HashesKnown, OwnRowFails, NEW pl \in pending,
                           SkipEdited(pl) \/ FailUnit(pl) \/ KeepNote(pl)
                    PROVE  HashesKnown'
<1>1. /\ pending' = pending \ {pl} /\ \E key \in {pl.source, pl.unit} :
            untouched' = untouched \cup {key} /\ (key = pl.source \/ pl.source.page # NoPage)
      /\ rows' \in {rows, [rows EXCEPT ![pl.unit].stale = FALSE]} /\ (rows' = rows \/ pl.unit \in DOMAIN rows)
      /\ phase = "units" /\ UNCHANGED <<device, clock, index, phase, listed, doc, landing>>
  <2>1. KeepNote(pl) => pl.source = pl.unit
    BY DEF KeepNote, Moves
  <2>2. FailUnit(pl) => pl.source = pl.unit \/ pl.source.page # NoPage
    BY DEF OwnRowFails
  <2> QED BY <2>1, <2>2 DEF SkipEdited, FailUnit, KeepNote, LeaveAlone, IsNext, tabletVars
<1>2. SameHashes(rows', rows)
  <2>1. CASE rows' = rows
    BY <2>1 DEF SameHashes
  <2>2. CASE rows' = [rows EXCEPT ![pl.unit].stale = FALSE] /\ pl.unit \in DOMAIN rows
    <3>1. rows' = [rows EXCEPT ![pl.unit] = [rows[pl.unit] EXCEPT !.stale = FALSE]]
      BY <2>2, Zenon
    <3> QED BY <2>2, <3>1, RowHashes DEF TypeOK, RowTable, SameHashes
  <2> QED BY <1>1, <2>1, <2>2
<1>3. Known(rows', clock) /\ Faithful(rows', device) /\ Faithful(rows', listed)
  BY <1>1, <1>2, HashesAreSame DEF HashesKnown, InHand, Listing
<1>4. Covered'
  <2>1. SUFFICES ASSUME NEW d \in doc, NEW u \in DOMAIN rows, u.doc = d, u.page = NoPage, rows[u].status = "active"
                 PROVE  \/ u \in untouched'
                        \/ \E x \in pending' : x.source = u
                        \/ \E l \in landing : l.source = u
                        \/ rows[u].block = BlockOf(d, listed[d], NoPage)
    BY <1>1, <1>2 DEF Covered, SameHashes
  <2>2. \/ u \in untouched
        \/ \E x \in pending : x.source = u
        \/ \E l \in landing : l.source = u
        \/ rows[u].block = BlockOf(d, listed[d], NoPage)
    BY <1>1, <2>1 DEF HashesKnown, InHand, Listing, Covered
  <2>3. pl.source = u => u \in untouched'
    BY <1>1, <2>1
  <2> QED BY <1>1, <2>2, <2>3
<1> QED BY <1>1, <1>3, <1>4 DEF HashesKnown, InHand, Listing

LEMMA WriteHashes == ASSUME TypeOK, HashesKnown, NEW pl \in pending, NEW p, WriteNote(pl, p) PROVE HashesKnown'
<1> DEFINE b == BlockOf(pl.unit.doc, listed[pl.unit.doc], pl.unit.page)
<1>1. /\ landing' = {[unit |-> pl.unit, source |-> pl.source, path |-> p, block |-> b]}
      /\ pending' = pending \ {pl} /\ phase = "units" /\ phase' = "written"
      /\ UNCHANGED <<device, clock, index, rows, listed, doc, untouched>>
  BY Zenon DEF WriteNote, IsNext, tabletVars
<1> DEFINE l == [unit |-> pl.unit, source |-> pl.source, path |-> p, block |-> b]
<1>2. l \in landing' /\ l.source = pl.source /\ landing = {}
  BY <1>1, PlanPhases
<1>3. \A x \in landing' : x.unit = pl.unit /\ x.block = b /\ \A y \in landing' : y = x
  BY <1>1
<1>4. Covered'
  BY <1>1, <1>2 DEF HashesKnown, InHand, Listing, Covered
<1>5. Listing'
  BY <1>1, <1>3, <1>4 DEF HashesKnown, InHand, Listing
<1> QED BY <1>1, <1>5 DEF HashesKnown

\* The new row has the hashes of the listing its block was rendered from.
LEMMA NewRow == ASSUME TypeOK, Listing, phase = "written", NEW l \in landing
                PROVE  /\ Shows(RowFor(l), l.unit, listed[l.unit.doc]) /\ Shows(RowFor(l), l.unit, device[l.unit.doc])
                       /\ RowFor(l).entryHash <= clock /\ RowFor(l).block = BlockOf(l.unit.doc, listed[l.unit.doc], l.unit.page)
                       /\ l.unit.page # NoPage =>
                             IF l.unit.doc \in PdfDocs THEN RowFor(l).pageHash <= clock
                             ELSE RowFor(l).block = PageBlock(l.unit, RowFor(l).pageHash)
<1> DEFINE u == l.unit
           e == listed[u.doc]
           f == device[u.doc]
<1>1. u \in Units /\ u.doc \in Docs /\ u.page \in Pages \cup {NoPage} /\ e \in DocEntry /\ f \in DocEntry
  BY DEF TypeOK, Units
<1>2. e.ver <= clock /\ (e.ver = f.ver => e.ink = f.ink)
  BY <1>1 DEF Listing
<1>3. /\ RowFor(l).entryHash = e.ver /\ RowFor(l).block = BlockOf(u.doc, e, u.page)
      /\ u.page # NoPage => RowFor(l).pageHash = PageContentHash(u.doc, e, u.page)
  BY DEF Listing, RowFor
<1>4. u.page # NoPage /\ u.doc \notin PdfDocs => RowFor(l).block = PageBlock(u, RowFor(l).pageHash)
  BY <1>1, <1>3 DEF PageContentHash, PageBlock, BlockOf
<1>5. u.page # NoPage /\ u.doc \in PdfDocs => RowFor(l).pageHash = e.ver
  BY <1>3 DEF PageContentHash
<1> HIDE DEF e, f, u
<1>6. Shows(RowFor(l), u, e)
  BY <1>3 DEF Shows
<1>7. u.page = NoPage /\ e.ver = f.ver => BlockOf(u.doc, e, u.page) = BlockOf(u.doc, f, u.page)
  BY <1>2, SameInk
<1>8. u.page # NoPage /\ PageContentHash(u.doc, e, u.page) = PageContentHash(u.doc, f, u.page)
         => BlockOf(u.doc, e, u.page) = BlockOf(u.doc, f, u.page)
  <2>1. CASE u.doc \in PdfDocs
    BY <1>2, <2>1, SameInk DEF PageContentHash
  <2>2. CASE u.doc \notin PdfDocs
    BY <1>1, <2>2 DEF PageContentHash, BlockOf
  <2> QED BY <2>1, <2>2
<1>9. Shows(RowFor(l), u, f)
  BY <1>3, <1>7, <1>8 DEF Shows
<1> QED BY <1>2, <1>3, <1>4, <1>5, <1>6, <1>9 DEF e, f, u

LEMMA SaveHashes == ASSUME TypeOK, HashesKnown, NEW l \in landing, SaveRow(l) PROVE HashesKnown'
<1>1. /\ rows' = Put(IF l.source # l.unit THEN Drop(rows, l.source) ELSE rows, l.unit, RowFor(l))
      /\ phase = "written" /\ phase' = "units" /\ index' = WithRows(rows', order') /\ landing' = {}
      /\ UNCHANGED <<device, clock, listed, doc, pending, untouched>>
  BY Zenon DEF SaveRow, tabletVars
<1>2. index'.rows = rows'
  BY <1>1, SavedPaths
<1>3. Listing
  BY <1>1 DEF HashesKnown, InHand
<1> DEFINE r == RowFor(l)
<1> HIDE DEF r
<1>4. /\ l.unit \in DOMAIN rows' /\ rows'[l.unit] = r
      /\ \A u \in DOMAIN rows' \ {l.unit} : u \in DOMAIN rows /\ u # l.source /\ rows'[u] = rows[u]
  BY <1>1 DEF Put, Drop, r
<1>5. /\ Shows(r, l.unit, listed[l.unit.doc]) /\ Shows(r, l.unit, device[l.unit.doc])
      /\ r.entryHash <= clock /\ r.block = BlockOf(l.unit.doc, listed[l.unit.doc], l.unit.page)
      /\ l.unit.page # NoPage => IF l.unit.doc \in PdfDocs THEN r.pageHash <= clock
                                 ELSE r.block = PageBlock(l.unit, r.pageHash)
  BY <1>1, <1>3, NewRow DEF r
<1>6. Known(rows', clock)
  BY <1>4, <1>5 DEF HashesKnown, Known
<1>7. Faithful(rows', listed) /\ Faithful(rows', device)
  BY <1>3, <1>4, <1>5 DEF HashesKnown, Listing, Faithful
<1>8. \A x \in landing : x = l
  BY <1>3 DEF Listing
<1> QED BY <1>1, <1>2, <1>3, <1>4, <1>5, <1>6, <1>7, <1>8 DEF HashesKnown, InHand, Listing, Covered

\* A failed unit may not be one that a tag rename gives to another tag's note: there the row of the note, and not the
\* unit, counts as written when the document closes.
RenamesRender == [][OwnRowFails]_vars

\* sync-engine.ts, entryHash and pageHash ("the hash the note was rendered from"): an active row that names the hash of
\* what the tablet holds has a note that shows it, whatever was drawn, tagged, mapped or thrown away while the run was
\* at work, however it was stopped or cut off -- so a gate that compares hashes takes no outdated note for a current one.
THEOREM HashesAreHonest == Spec /\ RenamesRender => []HashesHonest
<1>1. Init => HashesKnown
  <2> SUFFICES ASSUME Init PROVE HashesKnown
    OBVIOUS
  <2>1. /\ device \in InitDevices /\ clock = 1 /\ phase = "idle" /\ doc = {} /\ rows = NoRows /\ index.rows = NoRows
    BY DEF Init
  <2>2. \A d \in Docs : device[d].ver <= clock
    BY <2>1, ConstantsAssumption
  <2> QED BY <2>1, <2>2, NoRowsKnown DEF HashesKnown, InHand
<1>2. TypeOK /\ HashesKnown /\ [Next]_vars /\ [OwnRowFails]_vars => HashesKnown'
  <2> SUFFICES ASSUME TypeOK, HashesKnown, [Next]_vars, OwnRowFails \/ UNCHANGED vars PROVE HashesKnown'
    OBVIOUS
  <2>1. CASE UNCHANGED vars
    BY <2>1, UserHashes
  <2>2. CASE Next /\ OwnRowFails
    <3>1. CASE Run
      <4>1. ASSUME NEW pl \in pending, SkipEdited(pl) \/ FailUnit(pl) \/ KeepNote(pl) \/ \E p \in Paths : WriteNote(pl, p)
            PROVE  HashesKnown'
        BY <2>2, <4>1, UnitHashes, WriteHashes
      <4>2. ASSUME NEW d \in Docs, PassOver(d) \/ OpenDocument(d) \/ CloseDocument(d) PROVE HashesKnown'
        BY <4>2, PassOverHashes, OpenHashes, CloseHashes
      <4> QED BY <3>1, <4>1, <4>2, StartHashes, EndHashes, SaveHashes DEF Run
    <3> QED BY <2>2, <3>1, AllTabletHashes, UserHashes, EndHashes DEF Next
  <2> QED BY <2>1, <2>2
<1>3. TypeOK /\ HashesKnown => HashesHonest
  <2>1. TypeOK => \A u \in DOMAIN index.rows : u \in Units /\ u.doc \in Docs
    BY DEF TypeOK, RowTable, Units
  <2> QED BY <2>1 DEF HashesKnown, Faithful, Shows, HashesHonest
<1> QED BY <1>1, <1>2, <1>3, TypeCorrect, PTL DEF Spec, RenamesRender

\* With one tag no note is ever given to another.
THEOREM HashesOfOneTagAreHonest == ASSUME \A s, t \in Tags : s = t PROVE Spec => []HashesHonest
<1>1. OwnSources => OwnRowFails
  BY DEF OwnSources, OwnRowFails
<1> QED BY <1>1, OneTagOneRow, HashesAreHonest, PTL DEF RenamesRender

-----------------------------------------------------------------------------
(* GateSound.  An index that agrees with the tablet's root hash was saved by a run that reached every *)
(* document.  The invariant says what such a run knows of the documents behind it, what the rows      *)
(* remember of a document between two runs, and what is still to come of the document in hand.        *)

\* No run is cut short, and no unit left out of one for a reason of its own.
RunsComplete == Ops \cap {"stop", "crash", "unreadable", "fail", "keep", "rename"} = {}

\* No page is ever tagged by itself, or the folders of the tags stay what they are.
NoPageTags == "pageTag" \notin Ops /\ \A start \in InitDevices, d \in Docs, pg \in Pages : start[d].pageTags[pg] = {}
PagesKeepFolders == NoPageTags \/ "map" \notin Ops

\* There is no document without a hash.
DocsHaveHashes == \A start \in InitDevices, d \in Docs : start[d].ver = 1

\* The active rows of a document's page, or of the document, are of these tags, and none is missing.
Held(rs, d, pg, T) == (\A u \in ActiveAt(rs, d, pg) : u.tag \in T) /\ \A t \in T : \E u \in ActiveAt(rs, d, pg) : u.tag = t

\* A document's pages have the notes that these folders ask for, each of what is on its page.
PagesAgree(rs, m, d, e) ==
    \A pg \in Pages : /\ Held(rs, d, pg, PageTags(m, e, pg))
                      /\ \A u \in ActiveAt(rs, d, pg) : rs[u].pageHash = PageContentHash(d, e, pg)

\* So has the document, and they are in their folders: unless it is empty, when none can be rendered.
Complete(rs, m, d, e) ==
    /\ \A u \in ActiveAt(rs, d, NoPage) : u.tag \in NotebookTags(m, e)
    /\ PagesAgree(rs, m, d, e)
    /\ LivePages(e) # {} => /\ Held(rs, d, NoPage, NotebookTags(m, e))
                            /\ \A u \in ActiveAt(rs, d, NoPage) : rs[u].entryHash = e.ver
                            /\ \A u \in ActiveOf(rs, d) : ~IsRetargeted(m, u, rs[u])

\* What one row with the document's hash says of the document's others; a swept document has no active ones.
Remembers(rs, m, d, e) ==
    /\ \A w \in DOMAIN rs : w.doc = d => rs[w].entryHash <= e.ver
    /\ (\E w \in DOMAIN rs : w.doc = d /\ rs[w].entryHash = e.ver) =>
         /\ \A u \in ActiveAt(rs, d, NoPage) : rs[u].entryHash = e.ver \/ LivePages(e) = {}
         /\ PagesAgree(rs, m, d, e) \/ ActiveOf(rs, d) = {}

\* The order names rows, each once.
Ordered(rs, ord) ==
    /\ \A i \in 1 .. Len(ord) : ord[i] \in DOMAIN rs
    /\ \A i, j \in 1 .. Len(ord) : ord[i] = ord[j] => i = j

\* A unit's note is what this run would make of it.
Done(u) ==
    /\ u \in DOMAIN rows /\ rows[u].status = "active" /\ ~IsRetargeted(router, u, rows[u])
    /\ IF u.page = NoPage THEN rows[u].entryHash = listed[u.doc].ver
       ELSE rows[u].pageHash = PageContentHash(u.doc, listed[u.doc], u.page)

\* A unit is wanted, and takes over no row that is.
Asked(d, x) ==
    /\ x.unit \in UnitsOf(router, d, listed[d])
    /\ x.source # x.unit => /\ x.source.doc = d /\ x.source.page = x.unit.page
                            /\ x.source.tag \notin TagsAt(router, listed[d], x.source.page)

\* Of the open document: what is wanted is made, in the making or still planned, or it is empty; what is not
\* wanted is about to be taken over.
OpenIsPlanned ==
    \A d \in doc :
        /\ \A u \in UnitsOf(router, d, listed[d]) :
              \/ \E pl \in pending : pl.unit = u
              \/ \E l \in landing : l.unit = u
              \/ u.page = NoPage /\ LivePages(listed[d]) = {}
              \/ Done(u)
        /\ \A w \in ActiveOf(rows, d) :
              \/ w.tag \in TagsAt(router, listed[d], w.page)
              \/ \E pl \in pending : pl.source = w
              \/ \E l \in landing : l.source = w
        /\ \A x \in pending \cup landing : Asked(d, x)
        /\ d \notin todo /\ listed[d].live

\* The listing is of the tablet as it was, or as it is.
ListingKnown ==
    /\ runRoot = clock => listed = device
    /\ \A d \in Docs : /\ 1 <= listed[d].ver /\ listed[d].ver <= device[d].ver
                       /\ listed[d].ver = device[d].ver => listed[d].ink = device[d].ink /\ listed[d].pageTags = device[d].pageTags

\* Of the documents that are not open, the rows tell; those behind the run are complete.
RowsTell ==
    /\ \A d \in Docs \ doc : Remembers(rows, router, d, listed[d])
    /\ \A w \in DOMAIN rows : rows[w].entryHash <= listed[w.doc].ver
    /\ \A d \in Docs : listed[d].live /\ d \notin todo /\ d \notin doc => Complete(rows, router, d, listed[d])

NothingLeftOut ==
    /\ unreadable = {} /\ todo \subseteq {d \in Docs : listed[d].live}
    /\ \A u \in untouched : LivePages(listed[u.doc]) = {}
    /\ \A l, x \in landing : l = x

Numbered ==
    /\ stop = FALSE /\ index.root <= clock /\ runRoot <= clock
    /\ \A d \in Docs : 1 <= device[d].ver /\ device[d].ver <= clock

PagesUntagged == NoPageTags => \A d \in Docs, pg \in Pages : device[d].pageTags[pg] = {} /\ (InHand => listed[d].pageTags[pg] = {})

\* Between runs: what the rows remember is true of the tablet, and if its root hash is that of the last run,
\* nothing was left to do.
AtRest ==
    /\ \A d \in Docs : Remembers(index.rows, mapping, d, device[d])
    /\ index.root = clock =>
          \A d \in Docs : IF device[d].live THEN Complete(index.rows, index.mappings, d, device[d]) ELSE ActiveOf(index.rows, d) = {}

OneOpen ==
    /\ phase \in {"units", "written"} => \E d \in Docs : doc = {d}
    /\ phase \notin {"units", "written"} => doc = {}
    /\ phase \in {"idle", "listing"} => untouched = {}

\* The invariant: nothing was left undone by the run before, and this one leaves nothing undone.
GateKnows ==
    /\ Numbered /\ PagesUntagged /\ OneOpen
    /\ "map" \notin Ops /\ phase # "idle" => router = mapping
    /\ Ordered(index.rows, index.order) /\ Ordered(rows, order)
    /\ phase = "idle" => AtRest
    /\ phase = "listing" => \A d \in Docs : Remembers(rows, router, d, device[d])
    /\ InHand => ListingKnown /\ RowsTell /\ NothingLeftOut /\ OpenIsPlanned

\* A document whose rows are all orphaned while its pages are tagged again.
Forgot(d) == ActiveOf(rows, d) = {} /\ \E pg \in Pages : PageTags(router, listed[d], pg) # {}

\* Nothing planned is left alone for an edit of the user's.
NothingHeldBack == \A pl \in pending : ~pl.edited

Noticed == \A d \in Docs : PassOver(d) => ~Forgot(d)
ReturnsAreNoticed == [][Noticed]_vars

-----------------------------------------------------------------------------
\* Every set of numbers that is not empty has a least.
LEMMA HasLeast == ASSUME NEW S \in SUBSET Nat, S # {} PROVE \E x \in S : \A y \in S : x <= y
<1> DEFINE T == {0 .. n : n \in S}
           W == FiniteSubsetsOf(Nat)
           R == StrictSubsetOrdering(Nat)
<1>1. T \subseteq W /\ T # {}
  <2>1. \A n \in S : 0 .. n \subseteq Nat /\ IsFiniteSet(0 .. n)
    BY FS_Interval
  <2> QED BY <2>1 DEF FiniteSubsetsOf
<1>2. IsWellFoundedOn(R, W)
  BY FS_StrictSubsetOrderingWellFounded
<1>3. \E c \in T : \A t \in T : <<t, c>> \notin R
  <2> HIDE DEF T, W, R
  <2> QED BY <1>1, <1>2, WFMin
<1>4. PICK x \in S : \A t \in T : <<t, 0 .. x>> \notin R
  BY <1>3
<1>5. \A y \in S : x <= y
  <2> SUFFICES ASSUME NEW y \in S, y < x PROVE FALSE
    OBVIOUS
  <2>1. 0 .. y \in T /\ 0 .. y \subseteq Nat /\ 0 .. x \subseteq Nat
    OBVIOUS
  <2>2. 0 .. y \subseteq 0 .. x /\ x \in 0 .. x /\ x \notin 0 .. y
    OBVIOUS
  <2>3. <<0 .. y, 0 .. x>> \in R
    BY <2>1, <2>2 DEF StrictSubsetOrdering
  <2> QED BY <1>4, <2>1, <2>3
<1> QED BY <1>5

\* Rows of one document that say the same but for how they are rendered.
SameRow(r, s) == /\ r.status = s.status /\ r.entryHash = s.entryHash /\ r.pageHash = s.pageHash
                 /\ r.folder = s.folder /\ r.path = s.path
SameRowsOf(rs, ss, d) == /\ \A u \in DOMAIN rs : u.doc = d => u \in DOMAIN ss /\ SameRow(rs[u], ss[u])
                         /\ \A u \in DOMAIN ss : u.doc = d => u \in DOMAIN rs

LEMMA SameRowsKnow == ASSUME NEW rs, NEW ss, NEW d, SameRowsOf(rs, ss, d), NEW m, NEW e
                      PROVE  /\ PagesAgree(ss, m, d, e) => PagesAgree(rs, m, d, e)
                             /\ Complete(ss, m, d, e) => Complete(rs, m, d, e)
                             /\ Remembers(ss, m, d, e) => Remembers(rs, m, d, e)
                             /\ ActiveOf(rs, d) = ActiveOf(ss, d)
<1>1. /\ \A pg : ActiveAt(rs, d, pg) = ActiveAt(ss, d, pg)
      /\ ActiveOf(rs, d) = ActiveOf(ss, d)
  BY DEF SameRowsOf, SameRow, ActiveAt, ActiveOf
<1>2. \A pg, u : u \in ActiveAt(rs, d, pg) => rs[u].entryHash = ss[u].entryHash /\ rs[u].pageHash = ss[u].pageHash
  BY DEF SameRowsOf, SameRow, ActiveAt
<1>3. \A u \in ActiveOf(rs, d) : IsRetargeted(m, u, rs[u]) <=> IsRetargeted(m, u, ss[u])
  BY DEF SameRowsOf, SameRow, ActiveOf, IsRetargeted
<1>4. \A pg, T : Held(ss, d, pg, T) => Held(rs, d, pg, T)
  BY <1>1 DEF Held
<1>5. PagesAgree(ss, m, d, e) => PagesAgree(rs, m, d, e)
  BY <1>1, <1>2, <1>4 DEF PagesAgree
<1>6. Complete(ss, m, d, e) => Complete(rs, m, d, e)
  BY <1>1, <1>2, <1>3, <1>4, <1>5 DEF Complete
<1>7. Remembers(ss, m, d, e) => Remembers(rs, m, d, e)
  <2>1. (\E w \in DOMAIN rs : w.doc = d /\ rs[w].entryHash = e.ver) => \E w \in DOMAIN ss : w.doc = d /\ ss[w].entryHash = e.ver
    BY DEF SameRowsOf, SameRow
  <2>2. (\A w \in DOMAIN ss : w.doc = d => ss[w].entryHash <= e.ver) => \A w \in DOMAIN rs : w.doc = d => rs[w].entryHash <= e.ver
    BY DEF SameRowsOf, SameRow
  <2> QED BY <1>1, <1>2, <1>5, <2>1, <2>2 DEF Remembers
<1> QED BY <1>1, <1>5, <1>6, <1>7

\* Pages show their ink and their tags, whatever else changes of the document.
LEMMA SamePages == ASSUME NEW e, NEW f, e.ver = f.ver, e.ink = f.ink, e.pageTags = f.pageTags, NEW rs, NEW m, NEW d
                   PROVE  /\ PagesAgree(rs, m, d, e) => PagesAgree(rs, m, d, f)
                          /\ Remembers(rs, m, d, e) => Remembers(rs, m, d, f)
<1>1. /\ LivePages(e) = LivePages(f) /\ \A pg : PageTags(m, e, pg) = PageTags(m, f, pg)
      /\ \A pg : PageContentHash(d, e, pg) = PageContentHash(d, f, pg)
  BY DEF LivePages, PageTags, PageContentHash
<1>2. PagesAgree(rs, m, d, e) => PagesAgree(rs, m, d, f)
  BY <1>1 DEF PagesAgree
<1> QED BY <1>1, <1>2 DEF Remembers

\* Where no page is tagged its folder does not matter.
LEMMA NoTagNoFolder == ASSUME NEW e, \A pg \in Pages : e.pageTags[pg] = {}, NEW rs, NEW m, NEW n, NEW d
                       PROVE  /\ \A pg \in Pages : PageTags(m, e, pg) = {}
                              /\ Remembers(rs, m, d, e) => Remembers(rs, n, d, e)
<1>1. \A pg \in Pages : PageTags(m, e, pg) = {} /\ PageTags(n, e, pg) = {}
  BY DEF PageTags, MappedTo
<1>2. PagesAgree(rs, m, d, e) => PagesAgree(rs, n, d, e)
  BY <1>1 DEF PagesAgree
<1> QED BY <1>1, <1>2 DEF Remembers

\* A document with a hash no row has is remembered by none.
LEMMA NewIsUnknown == ASSUME NEW rs, NEW m, NEW d, NEW e, \A w \in DOMAIN rs : w.doc = d => rs[w].entryHash < e.ver,
                             RowTable(rs), e.ver \in Nat
                      PROVE  Remembers(rs, m, d, e)
<1>1. \A w \in DOMAIN rs : rs[w].entryHash \in Nat
  BY DEF RowTable, Row
<1> QED BY <1>1 DEF Remembers

\* Going through a run changes nothing of what was before it.
LEMMA InRunStep == ASSUME GateKnows, InHand, InHand', UNCHANGED <<device, clock, mapping, router, listed, runRoot, stop>>,
                          index'.root = index.root, Ordered(index.rows, index.order)', Ordered(rows, order)', OneOpen',
                          RowsTell', NothingLeftOut', OpenIsPlanned'
                   PROVE  GateKnows'
<1>1. phase # "idle" /\ phase' # "idle" /\ phase' # "listing" /\ InHand
  BY DEF InHand
<1>2. Numbered' /\ PagesUntagged' /\ ListingKnown'
  BY <1>1 DEF GateKnows, Numbered, PagesUntagged, ListingKnown
<1> QED BY <1>1, <1>2 DEF GateKnows

\* Where a run is, and what it has in hand.
runKnowledge == <<rows, order, router, listed, unreadable, todo, doc, pending, untouched, landing>>

LEMMA SameRunKnows == ASSUME UNCHANGED runKnowledge
                      PROVE  (RowsTell' <=> RowsTell) /\ (NothingLeftOut' <=> NothingLeftOut) /\ (OpenIsPlanned' <=> OpenIsPlanned)
<1>1. UNCHANGED <<rows, order, router, listed, unreadable, todo, doc, pending, untouched, landing>>
  BY DEF runKnowledge
<1>2. (RowsTell' <=> RowsTell) /\ (NothingLeftOut' <=> NothingLeftOut)
  BY <1>1 DEF RowsTell, NothingLeftOut
<1>3. (\A u : Done(u)' <=> Done(u)) /\ \A d, x : Asked(d, x)' <=> Asked(d, x)
  BY <1>1 DEF Done, Asked
<1>4. OpenIsPlanned' <=> OpenIsPlanned
  BY <1>1, <1>3 DEF OpenIsPlanned
<1> QED BY <1>2, <1>4

LEMMA TabletGate == ASSUME TypeOK, GateKnows, NEW d \in Docs, NEW e \in DocEntry, TabletChange(d, e),
                           e.ver = clock + 1 \/ (e.ver = device[d].ver /\ e.ink = device[d].ink /\ e.pageTags = device[d].pageTags),
                           NoPageTags => e.pageTags = device[d].pageTags
                    PROVE  GateKnows'
<1>1. /\ device' = [device EXCEPT ![d] = e] /\ clock' = clock + 1
      /\ UNCHANGED <<mapping, index, phase, rows, order, runRoot, router, listed, unreadable, todo, doc, pending, untouched, landing, stop>>
  BY Zenon DEF TabletChange, runVars
<1>2. clock \in Nat /\ device \in [Docs -> DocEntry] /\ RowTable(index.rows) /\ RowTable(rows) /\ index.root \in Nat /\ runRoot \in Nat
  BY DEF TypeOK
<1>3. \A x \in Docs : /\ device[x].ver \in Nat /\ 1 <= device[x].ver /\ device[x].ver <= clock
                      /\ device'[x] = IF x = d THEN e ELSE device[x]
  BY <1>1, <1>2 DEF DocEntry, GateKnows, Numbered
<1>4. Numbered' /\ index'.root # clock' /\ runRoot' # clock'
  BY <1>1, <1>2, <1>3 DEF GateKnows, Numbered
<1>5. PagesUntagged'
  BY <1>1, <1>3 DEF GateKnows, PagesUntagged, InHand
<1>6. ASSUME NEW x \in Docs, NEW rs, RowTable(rs), NEW m, Remembers(rs, m, x, device[x]) PROVE Remembers(rs, m, x, device'[x])
  <2>1. CASE x = d /\ e.ver = clock + 1
    <3>1. \A w \in DOMAIN rs : w.doc = x => rs[w].entryHash \in Nat /\ rs[w].entryHash <= device[x].ver
      BY <1>6 DEF Remembers, RowTable, Row
    <3> QED BY <1>2, <1>3, <1>6, <2>1, <3>1, NewIsUnknown
  <2>2. CASE x = d /\ e.ver # clock + 1
    BY <1>3, <1>6, <2>2, SamePages
  <2> QED BY <1>3, <1>6, <2>1, <2>2
<1>7. AtRest \/ phase # "idle"
  BY DEF GateKnows
<1>8. phase = "idle" => AtRest'
  BY <1>1, <1>2, <1>4, <1>6, <1>7 DEF AtRest
<1>9. phase = "listing" => \A x \in Docs : Remembers(rows, router, x, device'[x])
  BY <1>2, <1>6 DEF GateKnows
<1>10. InHand => ListingKnown'
  <2>1. SUFFICES ASSUME InHand PROVE ListingKnown'
    OBVIOUS
  <2>2. ListingKnown /\ listed \in [Docs -> DocEntry]
    BY <2>1 DEF GateKnows, InHand, TypeOK
  <2>3. ASSUME NEW x \in Docs
        PROVE  /\ 1 <= listed[x].ver /\ listed[x].ver <= device'[x].ver
               /\ listed[x].ver = device'[x].ver => listed[x].ink = device'[x].ink /\ listed[x].pageTags = device'[x].pageTags
    <3>1. /\ listed[x].ver \in Nat /\ 1 <= listed[x].ver /\ listed[x].ver <= device[x].ver
          /\ listed[x].ver = device[x].ver => listed[x].ink = device[x].ink /\ listed[x].pageTags = device[x].pageTags
      BY <2>2 DEF ListingKnown, DocEntry
    <3> QED BY <1>2, <1>3, <3>1
  <2> QED BY <1>1, <1>4, <2>3 DEF ListingKnown
<1>11. InHand => RowsTell' /\ NothingLeftOut' /\ OpenIsPlanned'
  BY <1>1, SameRunKnows DEF GateKnows, runKnowledge
<1>12. InHand' <=> InHand
  BY <1>1 DEF InHand
<1>13. OneOpen' /\ Ordered(index.rows, index.order)' /\ Ordered(rows, order)' /\ ("map" \notin Ops /\ phase # "idle" => router = mapping)'
  BY <1>1 DEF GateKnows, OneOpen
<1> QED BY <1>1, <1>4, <1>5, <1>8, <1>9, <1>10, <1>11, <1>12, <1>13 DEF GateKnows

LEMMA AllTabletGate == ASSUME TypeOK, GateKnows, Tablet PROVE GateKnows'
<1>1. clock + 1 \in Nat /\ \A d \in Docs : device[d] \in DocEntry
  BY DEF TypeOK
<1>2. ASSUME NEW d \in Docs, NEW e \in DocEntry, DocumentChange(d, e), NoPageTags => e.pageTags = device[d].pageTags PROVE GateKnows'
  <2> DEFINE f == [e EXCEPT !.ver = clock + 1]
  <2>1. f \in DocEntry /\ f.ver = clock + 1 /\ f.pageTags = e.pageTags
    <3>1. e \in DocEntry
      BY <1>1
    <3>2. f \in DocEntry
      BY <1>1, <3>1, EntryChanges
    <3>3. f.ver = clock + 1 /\ f.pageTags = e.pageTags
      BY <3>1, EntryKeeps
    <3> QED BY <3>2, <3>3
  <2>2. TabletChange(d, f)
    BY <1>2 DEF DocumentChange
  <2> HIDE DEF f
  <2> QED BY <1>2, <2>1, <2>2, TabletGate
<1>3. ASSUME NEW d \in Docs, NEW x \in SUBSET Tags, TabletChange(d, [device[d] EXCEPT !.inherited = x]) PROVE GateKnows'
  <2> DEFINE f == [device[d] EXCEPT !.inherited = x]
  <2>1. f \in DocEntry /\ f.ver = device[d].ver /\ f.ink = device[d].ink /\ f.pageTags = device[d].pageTags
    <3>1. device[d] \in DocEntry
      BY <1>1
    <3>2. f \in DocEntry
      BY <3>1, EntryChanges
    <3>3. f.ver = device[d].ver /\ f.ink = device[d].ink /\ f.pageTags = device[d].pageTags
      BY <3>1, EntryKeeps
    <3> QED BY <3>2, <3>3
  <2>2. TabletChange(d, f)
    BY <1>3
  <2> HIDE DEF f
  <2> QED BY <2>1, <2>2, TabletGate
<1>4. ASSUME NEW d \in Docs, NEW x \in BOOLEAN, TabletChange(d, [device[d] EXCEPT !.live = x]) PROVE GateKnows'
  <2> DEFINE f == [device[d] EXCEPT !.live = x]
  <2>1. f \in DocEntry /\ f.ver = device[d].ver /\ f.ink = device[d].ink /\ f.pageTags = device[d].pageTags
    <3>1. device[d] \in DocEntry
      BY <1>1
    <3>2. f \in DocEntry
      BY <3>1, EntryChanges
    <3>3. f.ver = device[d].ver /\ f.ink = device[d].ink /\ f.pageTags = device[d].pageTags
      BY <3>1, EntryKeeps
    <3> QED BY <3>2, <3>3
  <2>2. TabletChange(d, f)
    BY <1>4
  <2> HIDE DEF f
  <2> QED BY <2>1, <2>2, TabletGate
<1>5. \A d \in Docs, t \in Tags : Toggle(device[d].tags, t) \in SUBSET Tags /\ Toggle(device[d].inherited, t) \in SUBSET Tags
  BY <1>1 DEF Toggle, DocEntry
<1>6. \A d \in Docs, pg \in Pages, n \in Nat : [device[d].ink EXCEPT ![pg] = n] \in [Pages -> Nat]
  BY <1>1 DEF DocEntry
<1>7. \A d \in Docs, pg \in Pages, t \in Tags : [device[d].pageTags EXCEPT ![pg] = Toggle(@, t)] \in [Pages -> SUBSET Tags]
  BY <1>1 DEF Toggle, DocEntry
<1>8. ASSUME NEW d \in Docs, NEW x \in [Pages -> Nat], DocumentChange(d, [device[d] EXCEPT !.ink = x]) PROVE GateKnows'
  <2> DEFINE f == [device[d] EXCEPT !.ink = x]
  <2>1. f \in DocEntry /\ f.pageTags = device[d].pageTags
    <3>1. device[d] \in DocEntry
      BY <1>1
    <3>2. f \in DocEntry
      BY <3>1, EntryChanges
    <3>3. f.pageTags = device[d].pageTags
      BY <3>1, EntryKeeps
    <3> QED BY <3>2, <3>3
  <2>2. DocumentChange(d, f)
    BY <1>8
  <2> HIDE DEF f
  <2> QED BY <1>2, <2>1, <2>2
<1>9. ASSUME NEW d \in Docs, NEW pg \in Pages, Draw(d, pg) \/ ErasePage(d, pg) PROVE GateKnows'
  BY <1>1, <1>6, <1>8, <1>9 DEF Draw, ErasePage
<1>10. ASSUME NEW d \in Docs, NEW pg \in Pages, NEW t \in Tags, TagPage(d, pg, t) PROVE GateKnows'
  <2>1. ~NoPageTags
    BY <1>10 DEF TagPage, Spend, NoPageTags
  <2> QED BY <1>1, <1>2, <1>7, <1>10, <2>1, EntryChanges DEF TagPage
<1>11. ASSUME NEW d \in Docs, NEW t \in Tags, TagDoc(d, t) PROVE GateKnows'
  <2> DEFINE f == [device[d] EXCEPT !.tags = Toggle(@, t)]
  <2>1. f \in DocEntry /\ f.pageTags = device[d].pageTags
    <3>1. device[d] \in DocEntry
      BY <1>1
    <3>2. f \in DocEntry
      BY <1>5, <3>1, EntryChanges
    <3>3. f.pageTags = device[d].pageTags
      BY <3>1, EntryKeeps
    <3> QED BY <3>2, <3>3
  <2>2. DocumentChange(d, f)
    BY <1>11 DEF TagDoc
  <2> HIDE DEF f
  <2> QED BY <1>2, <2>1, <2>2
<1>12. ASSUME NEW d \in Docs, NEW t \in Tags, TagFolder(d, t) PROVE GateKnows'
  BY <1>3, <1>5, <1>12 DEF TagFolder
<1>13. ASSUME NEW d \in Docs, Trash(d) PROVE GateKnows'
  BY <1>4, <1>13 DEF Trash
<1> QED BY <1>9, <1>10, <1>11, <1>12, <1>13 DEF Tablet

\* A step that touches nothing the gate looks at but the files.
LEMMA QuietGate == ASSUME GateKnows, UNCHANGED <<device, clock, mapping, index, phase, runVars, stop>> PROVE GateKnows'
<1>1. UNCHANGED <<device, clock, mapping, index, phase, rows, order, runRoot, router, listed, unreadable, todo, doc, pending, untouched, landing, stop>>
  BY DEF runVars
<1>2. Numbered' /\ PagesUntagged' /\ OneOpen'
  BY <1>1 DEF GateKnows, Numbered, PagesUntagged, OneOpen, InHand
<1>3. InHand => ListingKnown' /\ RowsTell' /\ NothingLeftOut' /\ OpenIsPlanned'
  BY <1>1, SameRunKnows DEF GateKnows, ListingKnown, runKnowledge
<1>4. (InHand' <=> InHand) /\ (phase = "idle" => AtRest')
  BY <1>1 DEF GateKnows, InHand, AtRest
<1> QED BY <1>1, <1>2, <1>3, <1>4 DEF GateKnows

LEMMA UserGate == ASSUME RunsComplete, PagesKeepFolders, TypeOK, GateKnows, User \/ SkipRun \/ UNCHANGED vars PROVE GateKnows'
<1>1. CASE SkipRun \/ UNCHANGED vars
  BY <1>1, QuietGate DEF SkipRun, vars
<1>2. CASE \E p \in DOMAIN vault : EditBlock(p) \/ UndoEdit(p) \/ RemoveFence(p) \/ DeleteNote(p)
  BY <1>2, QuietGate DEF EditBlock, UndoEdit, RemoveFence, DeleteNote, VaultChange, tabletVars
<1>3. ~RequestStop /\ ~ \E p \in DOMAIN vault, q \in Paths : RenameNote(p, q)
  BY DEF RunsComplete, RequestStop, RenameNote, Spend
<1>4. CASE InvalidateRenders
  <2>1. /\ UNCHANGED <<device, clock, mapping, phase, rows, order, runRoot, router, doc, untouched, stop>> /\ phase = "idle"
        /\ index'.root = index.root /\ index'.mappings = index.mappings /\ index'.order = index.order
        /\ index'.rows = [u \in DOMAIN index.rows |-> IF index.rows[u].status = "active"
                                                      THEN [index.rows[u] EXCEPT !.stale = TRUE] ELSE index.rows[u]]
    BY <1>4, Zenon DEF InvalidateRenders, WithRows, tabletVars, runVars
  <2>2. \A r \in Row : SameRow([r EXCEPT !.stale = TRUE], r)
    BY Zenon DEF Row, SameRow
  <2>3. \A d : SameRowsOf(index'.rows, index.rows, d)
    BY <2>1, <2>2 DEF TypeOK, RowTable, SameRowsOf, SameRow
  <2>4. AtRest /\ ~InHand /\ ~InHand'
    BY <2>1 DEF GateKnows, InHand
  <2>5. AtRest'
    <3>1. \A d, m, e : /\ Remembers(index.rows, m, d, e) => Remembers(index'.rows, m, d, e)
                       /\ Complete(index.rows, m, d, e) => Complete(index'.rows, m, d, e)
                       /\ ActiveOf(index'.rows, d) = ActiveOf(index.rows, d)
      BY <2>3, SameRowsKnow
    <3> QED BY <2>1, <2>4, <3>1 DEF AtRest
  <2>6. Numbered' /\ PagesUntagged' /\ OneOpen'
    BY <2>1, <2>4 DEF GateKnows, Numbered, PagesUntagged, OneOpen
  <2>7. Ordered(index.rows, index.order)'
    BY <2>1 DEF GateKnows, Ordered
  <2> QED BY <2>1, <2>4, <2>5, <2>6, <2>7 DEF GateKnows
<1>5. ASSUME NEW t \in Tags, NEW f \in Folders \cup {NoFolder}, SetMapping(t, f) PROVE GateKnows'
  <2>1. "map" \in Ops /\ NoPageTags
    BY <1>5 DEF SetMapping, Spend, PagesKeepFolders
  <2>2. UNCHANGED <<device, clock, index, phase, rows, order, runRoot, router, listed, unreadable, todo, doc, pending, untouched, landing, stop>>
    BY <1>5, Zenon DEF SetMapping, tabletVars, runVars
  <2>3. \A d \in Docs, pg \in Pages : device[d].pageTags[pg] = {}
    BY <2>1 DEF GateKnows, PagesUntagged
  <2>4. phase = "idle" => AtRest'
    BY <2>2, <2>3, NoTagNoFolder DEF GateKnows, AtRest
  <2>5. Numbered' /\ PagesUntagged' /\ OneOpen'
    BY <2>2 DEF GateKnows, Numbered, PagesUntagged, OneOpen, InHand
  <2>6. InHand => ListingKnown' /\ RowsTell' /\ NothingLeftOut' /\ OpenIsPlanned'
    BY <2>2, SameRunKnows DEF GateKnows, ListingKnown, runKnowledge
  <2>7. InHand' <=> InHand
    BY <2>2 DEF InHand
  <2> QED BY <2>1, <2>2, <2>4, <2>5, <2>6, <2>7 DEF GateKnows
<1> QED BY <1>1, <1>2, <1>3, <1>4, <1>5 DEF User

LEMMA StartGate == ASSUME TypeOK, GateKnows, StartRun PROVE GateKnows'
<1>1. /\ phase = "idle" /\ phase' = "listing" /\ runRoot' = clock /\ router' = mapping /\ rows' = index.rows /\ order' = index.order
      /\ UNCHANGED <<device, clock, mapping, index, doc, untouched, stop>>
  BY Zenon DEF StartRun, tabletVars
<1>2. AtRest /\ clock \in Nat
  BY <1>1 DEF GateKnows, TypeOK
<1>3. Numbered' /\ PagesUntagged' /\ OneOpen'
  BY <1>1, <1>2 DEF GateKnows, Numbered, PagesUntagged, OneOpen, InHand
<1>4. (\A d \in Docs : Remembers(rows, router, d, device[d]))'
  BY <1>1, <1>2 DEF AtRest
<1> QED BY <1>1, <1>3, <1>4 DEF GateKnows, InHand

LEMMA ListGate == ASSUME RunsComplete, TypeOK, GateKnows, ListItems PROVE GateKnows'
<1>1. /\ phase = "listing" /\ phase' = "docs" /\ listed' = device /\ todo' = {d \in Docs : device[d].live}
      /\ unreadable' = {} \/ Spend("unreadable")
      /\ UNCHANGED <<device, clock, mapping, index, rows, order, runRoot, router, doc, pending, untouched, landing, stop>>
  BY Zenon DEF ListItems, tabletVars
<1>2. unreadable' = {} /\ doc = {} /\ landing = {} /\ untouched = {}
  BY <1>1, PlanPhases DEF GateKnows, OneOpen, RunsComplete, Spend
<1>3. Numbered' /\ PagesUntagged' /\ OneOpen'
  BY <1>1, <1>2 DEF GateKnows, Numbered, PagesUntagged, OneOpen, InHand
<1>4. ListingKnown'
  <2>1. \A d \in Docs : 1 <= device[d].ver /\ device[d].ver \in Nat
    BY DEF GateKnows, Numbered, TypeOK, DocEntry
  <2> QED BY <1>1, <2>1 DEF ListingKnown
<1>5. RowsTell'
  <2>1. \A d \in Docs : Remembers(rows, router, d, device[d])
    BY <1>1 DEF GateKnows
  <2>2. \A w \in DOMAIN rows : w.doc \in Docs
    BY DEF TypeOK, RowTable, Units
  <2>3. \A w \in DOMAIN rows : rows[w].entryHash <= device[w.doc].ver
    BY <2>1, <2>2 DEF Remembers
  <2> QED BY <1>1, <2>1, <2>3 DEF RowsTell
<1>6. NothingLeftOut' /\ OpenIsPlanned'
  BY <1>1, <1>2 DEF NothingLeftOut, OpenIsPlanned
<1> QED BY <1>1, <1>3, <1>4, <1>5, <1>6 DEF GateKnows

\* A document's hash among its rows is found at the first of them in the order.
LEMMA HashIsOfARow == ASSUME NEW rs, NEW ord, Len(ord) \in Nat, Ordered(rs, ord), NEW d, FindEntryHash(rs, ord, d) # 0
                      PROVE  \E w \in DOMAIN rs : w.doc = d /\ rs[w].entryHash = FindEntryHash(rs, ord, d)
<1> DEFINE mine == {i \in 1 .. Len(ord) : ord[i].doc = d}
           first == CHOOSE i \in mine : \A j \in mine : i <= j
<1>1. FindEntryHash(rs, ord, d) = IF mine = {} THEN 0 ELSE rs[ord[first]].entryHash
  BY DEF FindEntryHash
<1>2. mine # {} /\ mine \in SUBSET Nat
  <2>1. mine # {}
    <3> HIDE DEF mine
    <3> QED BY <1>1
  <2> QED BY <2>1
<1>3. \E i \in mine : \A j \in mine : i <= j
  <2> HIDE DEF mine
  <2> QED BY <1>2, HasLeast
<1>4. first \in mine
  BY <1>3
<1> HIDE DEF first
<1>5. ord[first] \in DOMAIN rs /\ ord[first].doc = d
  BY <1>4 DEF Ordered
<1> QED BY <1>1, <1>2, <1>5

\* A document that is not opened is complete.
LEMMA PassedIsComplete == ASSUME TypeOK, GateKnows, NEW d \in Docs, PassOver(d), NoPageTags \/ ~Forgot(d)
                          PROVE  Complete(rows, router, d, listed[d])
<1> DEFINE e == listed[d]
<1> SUFFICES Complete(rows, router, d, e)
  OBVIOUS
<1>1. /\ phase = "docs" /\ d \in todo
      /\ d \in unreadable \/ ~NeedsDocumentOpen(d) \/ (~HasMappedTag(router, e) /\ ActiveOf(rows, d) = {})
  BY Zenon DEF PassOver
<1>2. doc = {} /\ unreadable = {} /\ RowsTell /\ ListingKnown /\ InHand /\ e \in DocEntry
  BY <1>1 DEF GateKnows, OneOpen, InHand, NothingLeftOut, TypeOK
<1>3. CASE ~HasMappedTag(router, e) /\ ActiveOf(rows, d) = {}
  <2>1. NotebookTags(router, e) = {} /\ \A pg \in Pages : PageTags(router, e, pg) = {}
    BY <1>3 DEF HasMappedTag, PageTags
  <2>2. \A pg : ActiveAt(rows, d, pg) = {}
    BY <1>3 DEF ActiveAt, ActiveOf
  <2> HIDE DEF e
  <2> QED BY <1>3, <2>1, <2>2 DEF Complete, PagesAgree, Held
<1>4. CASE ~NeedsDocumentOpen(d)
  <2>1. /\ FindEntryHash(rows, order, d) = e.ver
        /\ NotebookTags(router, e) = {u.tag : u \in ActiveAt(rows, d, NoPage)}
        /\ \A u \in DOMAIN rows : u.doc = d => ~IsRetargeted(router, u, rows[u])
    BY <1>4 DEF NeedsDocumentOpen
  <2>2. e.ver # 0 /\ Len(order) \in Nat /\ Ordered(rows, order)
    BY <1>2, LenProperties DEF ListingKnown, GateKnows, TypeOK, DocEntry
  <2>3. \E w \in DOMAIN rows : w.doc = d /\ rows[w].entryHash = e.ver
    BY <2>1, <2>2, HashIsOfARow
  <2>4. Remembers(rows, router, d, e)
    BY <1>2 DEF RowsTell
  <2>5. /\ \A u \in ActiveAt(rows, d, NoPage) : rows[u].entryHash = e.ver \/ LivePages(e) = {}
        /\ PagesAgree(rows, router, d, e) \/ ActiveOf(rows, d) = {}
    BY <2>3, <2>4 DEF Remembers
  <2>6. PagesAgree(rows, router, d, e)
    <3>1. SUFFICES ASSUME ActiveOf(rows, d) = {} PROVE PagesAgree(rows, router, d, e)
      BY <2>5
    <3>2. \A pg \in Pages : PageTags(router, e, pg) = {}
      <4>1. CASE NoPageTags
        BY <1>2, <4>1 DEF GateKnows, PagesUntagged, PageTags, MappedTo
      <4>2. CASE ~Forgot(d)
        BY <3>1, <4>2 DEF Forgot
      <4> QED BY <4>1, <4>2
    <3>3. \A pg : ActiveAt(rows, d, pg) = {}
      BY <3>1 DEF ActiveAt, ActiveOf
    <3> HIDE DEF e
    <3> QED BY <3>2, <3>3 DEF PagesAgree, Held
  <2>7. Held(rows, d, NoPage, NotebookTags(router, e))
    BY <2>1 DEF Held
  <2>8. \A u \in ActiveOf(rows, d) : ~IsRetargeted(router, u, rows[u])
    BY <2>1 DEF ActiveOf
  <2> HIDE DEF e
  <2>9. \A u \in ActiveAt(rows, d, NoPage) : u.tag \in NotebookTags(router, e)
    BY <2>7 DEF Held
  <2> QED BY <2>5, <2>6, <2>7, <2>8, <2>9 DEF Complete
<1> QED BY <1>1, <1>2, <1>3, <1>4

LEMMA PassOverGate == ASSUME TypeOK, GateKnows, NEW d \in Docs, PassOver(d), NoPageTags \/ ~Forgot(d) PROVE GateKnows'
<1>1. /\ phase = "docs" /\ todo' = todo \ {d}
      /\ UNCHANGED <<device, clock, mapping, index, phase, rows, order, runRoot, router, listed, unreadable, doc, pending, untouched, landing, stop>>
  BY Zenon DEF PassOver, tabletVars
<1>2. InHand /\ InHand' /\ doc = {}
  BY <1>1 DEF InHand, GateKnows, OneOpen
<1>3. Complete(rows, router, d, listed[d])
  BY PassedIsComplete
<1>4. RowsTell'
  BY <1>1, <1>2, <1>3 DEF GateKnows, RowsTell
<1>5. OpenIsPlanned' /\ NothingLeftOut'
  BY <1>1, <1>2 DEF GateKnows, OpenIsPlanned, NothingLeftOut
<1>6. OneOpen' /\ Ordered(index.rows, index.order)' /\ Ordered(rows, order)'
  BY <1>1 DEF GateKnows, OneOpen
<1> QED BY <1>1, <1>2, <1>4, <1>5, <1>6, InRunStep

LEMMA FinishGate == ASSUME PagesKeepFolders, TypeOK, GateKnows, FinishRun PROVE GateKnows'
<1>1. /\ phase = "docs" /\ todo = {} /\ phase' = "idle"
      /\ index'.root = runRoot /\ index'.mappings = router /\ index'.rows = SweptRows /\ index'.order = order
      /\ rows' = NoRows /\ order' = <<>> /\ runRoot' = 0 /\ doc' = {} /\ untouched' = {} /\ stop' = FALSE
      /\ UNCHANGED <<device, clock, mapping>>
  BY DEF FinishRun, ForgetRun, tabletVars
<1>2. InHand /\ ~InHand' /\ RowsTell /\ ListingKnown /\ doc = {} /\ clock \in Nat
  BY <1>1 DEF InHand, GateKnows, OneOpen, TypeOK
<1>3. \A d \in Docs : device[d] \in DocEntry /\ listed[d] \in DocEntry /\ RowTable(rows)
  BY <1>2 DEF TypeOK, InHand
<1>4. /\ DOMAIN SweptRows = DOMAIN rows
      /\ \A u \in DOMAIN rows :
            IF rows[u].status = "active" /\ ~listed[u.doc].live THEN SweptRows[u].status = "orphaned" /\ SweptRows[u].entryHash = 0
            ELSE SweptRows[u] = rows[u]
  <2>1. \A u \in DOMAIN rows : LET swept == [rows[u] EXCEPT !.status = "orphaned", !.entryHash = 0]
                               IN swept.status = "orphaned" /\ swept.entryHash = 0
    BY DEF TypeOK, RowTable, Row
  <2> QED BY <2>1 DEF SweptRows
<1>5. ASSUME NEW d \in Docs, listed[d].live PROVE SameRowsOf(SweptRows, rows, d)
  BY <1>4, <1>5 DEF SameRowsOf, SameRow
<1>6. ASSUME NEW d \in Docs, ~listed[d].live PROVE ActiveOf(SweptRows, d) = {} /\ \A pg : ActiveAt(SweptRows, d, pg) = {}
  BY <1>4, <1>6 DEF ActiveOf, ActiveAt
<1>7. ASSUME NEW d \in Docs PROVE Remembers(SweptRows, mapping, d, device[d])
  <2>1. listed[d].ver \in Nat /\ device[d].ver \in Nat /\ 1 <= listed[d].ver /\ listed[d].ver <= device[d].ver
    BY <1>2, <1>3 DEF ListingKnown, DocEntry
  <2>2. \A w \in DOMAIN rows : w.doc = d => rows[w].entryHash \in Nat /\ rows[w].entryHash <= listed[d].ver
    BY <1>2, <1>3 DEF RowsTell, RowTable, Row
  <2>3. \A w \in DOMAIN SweptRows : w.doc = d => SweptRows[w].entryHash \in {0, rows[w].entryHash}
    BY <1>4
  <2>4. \A w \in DOMAIN SweptRows : w.doc = d => SweptRows[w].entryHash <= device[d].ver
    BY <1>4, <2>1, <2>2, <2>3
  <2>5. CASE listed[d].ver # device[d].ver
    <3>1. \A w \in DOMAIN SweptRows : w.doc = d => SweptRows[w].entryHash # device[d].ver
      BY <1>4, <2>1, <2>2, <2>3, <2>5
    <3> QED BY <2>4, <3>1 DEF Remembers
  <2>6. CASE listed[d].ver = device[d].ver
    <3>1. CASE ~listed[d].live
      BY <1>6, <2>4, <3>1 DEF Remembers
    <3>2. CASE listed[d].live
      <4>1. Remembers(SweptRows, router, d, listed[d])
        BY <1>2, <1>5, <3>2, SameRowsKnow DEF RowsTell
      <4>2. Remembers(SweptRows, router, d, device[d])
        BY <1>2, <2>6, <4>1, SamePages DEF ListingKnown
      <4>3. CASE NoPageTags
        BY <4>2, <4>3, NoTagNoFolder DEF GateKnows, PagesUntagged
      <4>4. CASE "map" \notin Ops
        BY <1>1, <4>2, <4>4 DEF GateKnows
      <4> QED BY <4>3, <4>4 DEF PagesKeepFolders
    <3> QED BY <3>1, <3>2
  <2> QED BY <2>5, <2>6
<1>8. ASSUME NEW d \in Docs, runRoot = clock
      PROVE  IF device[d].live THEN Complete(SweptRows, router, d, device[d]) ELSE ActiveOf(SweptRows, d) = {}
  <2>1. listed = device
    BY <1>2, <1>8 DEF ListingKnown
  <2>2. CASE device[d].live
    <3>1. Complete(rows, router, d, listed[d])
      BY <1>1, <1>2, <2>1, <2>2 DEF RowsTell
    <3> QED BY <1>5, <2>1, <2>2, <3>1, SameRowsKnow
  <2>3. CASE ~device[d].live
    BY <1>6, <2>1, <2>3
  <2> QED BY <2>2, <2>3
<1>9. AtRest'
  BY <1>1, <1>7, <1>8 DEF AtRest
<1>10. Numbered' /\ PagesUntagged' /\ OneOpen'
  BY <1>1, <1>2 DEF GateKnows, Numbered, PagesUntagged, OneOpen
<1>11. Ordered(index.rows, index.order)' /\ Ordered(rows, order)'
  BY <1>1, <1>4 DEF GateKnows, Ordered
<1> QED BY <1>1, <1>2, <1>9, <1>10, <1>11 DEF GateKnows

\* A unit that is planned is wanted, and what it takes over is not; what is wanted is planned or as it should be.
LEMMA PlannedAreAsked == ASSUME TypeOK, NEW d \in Docs, NEW pl \in PlanUnits(d) PROVE Asked(d, pl)
<1>1. PICK u \in UnitsOf(router, d, listed[d]) :
         pl = [unit |-> u, source |-> SourceOf(u),
               edited |-> SourceOf(u) \in DOMAIN rows /\ IsBlockEdited(vault, rows[SourceOf(u)])]
  BY Zenon DEF PlanUnits
<1>2. u.doc = d /\ pl.unit = u /\ pl.source = SourceOf(u)
  BY <1>1 DEF UnitsOf
<1>3. SUFFICES ASSUME SourceOf(u) # u
               PROVE  /\ SourceOf(u).doc = d /\ SourceOf(u).page = u.page
                      /\ SourceOf(u).tag \notin TagsAt(router, listed[d], SourceOf(u).page)
  BY <1>1, <1>2 DEF Asked
<1>4. SourceOf(u) \in Removed(d, u.page)
  BY <1>2, <1>3 DEF SourceOf, IsRename
<1> QED BY <1>4 DEF Removed, ActiveAt

LEMMA WantedIsPlanned == ASSUME NEW d \in Docs, NEW u \in UnitsOf(router, d, listed[d])
                         PROVE  (\E pl \in PlanUnits(d) : pl.unit = u) \/ (IsCurrent(u) /\ Done(u) /\ u \notin OrphanedBy(d))
<1>1. CASE ~IsCurrent(u)
  <2> DEFINE pl == [unit |-> u, source |-> SourceOf(u),
                    edited |-> SourceOf(u) \in DOMAIN rows /\ IsBlockEdited(vault, rows[SourceOf(u)])]
  <2>1. pl \in PlanUnits(d) /\ pl.unit = u
    BY <1>1 DEF PlanUnits
  <2> QED BY <2>1
<1>2. CASE IsCurrent(u)
  <2>1. Done(u)
    BY <1>2 DEF IsCurrent, Done
  <2>2. u \notin OrphanedBy(d)
    BY DEF OrphanedBy, Removed, UnitsOf
  <2> QED BY <1>2, <2>1, <2>2
<1> QED BY <1>1, <1>2

\* An active row whose tag is gone is orphaned at once, or the one a new tag takes over.
LEMMA UnwantedIsTaken == ASSUME TypeOK, phase = "docs", NEW d \in Docs, NEW w \in ActiveOf(rows, d), w \notin OrphanedBy(d),
                                w.tag \notin TagsAt(router, listed[d], w.page)
                         PROVE  \E pl \in PlanUnits(d) : pl.source = w
<1>1. w \in Units /\ w.doc = d /\ w.page \in Pages \cup {NoPage} /\ w \in Removed(d, w.page)
  BY DEF ActiveOf, TypeOK, RowTable, Units, Removed, ActiveAt
<1>2. IsRename(d, w.page)
  BY <1>1 DEF OrphanedBy
<1>3. PICK t \in Added(d, w.page) : Added(d, w.page) = {t}
  BY <1>2 DEF IsRename
<1>4. Removed(d, w.page) = {w}
  BY <1>1, <1>2 DEF IsRename
<1> DEFINE u == [doc |-> d, page |-> w.page, tag |-> t]
<1>5. t \in TagsAt(router, listed[d], w.page) /\ t \in Tags
  BY <1>3, TagsAtMapped DEF Added, TypeOK
<1>6. u \in UnitsOf(router, d, listed[d]) /\ u.doc = d /\ u.page = w.page /\ u.tag = t
  BY <1>1, <1>5 DEF UnitsOf, Units
<1>7. SourceOf(u) = w
  BY <1>2, <1>3, <1>4, <1>6 DEF SourceOf
<1>8. ~IsCurrent(u)
  BY <1>5, <1>6, <1>7 DEF IsCurrent
<1> HIDE DEF u
<1> DEFINE pl == [unit |-> u, source |-> SourceOf(u),
                  edited |-> SourceOf(u) \in DOMAIN rows /\ IsBlockEdited(vault, rows[SourceOf(u)])]
<1>9. pl \in PlanUnits(d) /\ pl.source = w
  BY <1>6, <1>7, <1>8 DEF PlanUnits
<1> QED BY <1>9

LEMMA OpenGate == ASSUME TypeOK, GateKnows, NEW d \in Docs, OpenDocument(d) PROVE GateKnows'
<1>1. /\ rows' = [u \in DOMAIN rows |-> IF u \in OrphanedBy(d) THEN [rows[u] EXCEPT !.status = "orphaned"] ELSE rows[u]]
      /\ pending' = PlanUnits(d) /\ doc' = {d} /\ todo' = todo \ {d} /\ phase = "docs" /\ phase' = "units" /\ d \in todo
      /\ UNCHANGED <<device, clock, mapping, index, order, runRoot, router, listed, unreadable, untouched, landing, stop>>
  BY Zenon DEF OpenDocument, tabletVars
<1>2. InHand /\ InHand' /\ doc = {} /\ landing = {} /\ RowsTell /\ NothingLeftOut /\ listed[d].live
  BY <1>1, PlanPhases DEF InHand, GateKnows, OneOpen, NothingLeftOut
<1>3. /\ DOMAIN rows' = DOMAIN rows
      /\ \A u \in DOMAIN rows : /\ rows'[u].entryHash = rows[u].entryHash
                                /\ u \notin OrphanedBy(d) => rows'[u] = rows[u]
                                /\ u \in OrphanedBy(d) => rows'[u].status = "orphaned"
  BY <1>1, RowHashes DEF TypeOK, RowTable
<1>4. \A u \in OrphanedBy(d) : u.doc = d
  BY DEF OrphanedBy, ActiveOf
<1>5. ASSUME NEW x \in Docs, x # d PROVE SameRowsOf(rows', rows, x)
  BY <1>3, <1>4, <1>5 DEF SameRowsOf, SameRow
<1>6. RowsTell'
  <2>1. \A x \in Docs \ {d} : Remembers(rows', router, x, listed[x])
    BY <1>2, <1>5, SameRowsKnow DEF RowsTell
  <2>2. \A w \in DOMAIN rows' : rows'[w].entryHash <= listed[w.doc].ver
    BY <1>2, <1>3 DEF RowsTell
  <2>3. ASSUME NEW x \in Docs, listed[x].live, x \notin todo', x \notin doc' PROVE Complete(rows', router, x, listed[x])
    <3>1. x # d /\ Complete(rows, router, x, listed[x])
      BY <1>1, <1>2, <2>3 DEF RowsTell
    <3> QED BY <1>5, <3>1, SameRowsKnow
  <2> QED BY <1>1, <2>1, <2>2, <2>3 DEF RowsTell
<1>7. NothingLeftOut'
  BY <1>1, <1>2 DEF NothingLeftOut
<1>8. OpenIsPlanned'
  <2>1. ASSUME NEW u \in UnitsOf(router, d, listed[d]) PROVE (\E pl \in PlanUnits(d) : pl.unit = u) \/ Done(u)'
    <3>1. SUFFICES ASSUME Done(u), u \notin OrphanedBy(d) PROVE Done(u)'
      BY WantedIsPlanned
    <3> QED BY <1>1, <1>3, <3>1 DEF Done
  <2>2. ASSUME NEW w \in ActiveOf(rows', d), w.tag \notin TagsAt(router, listed[d], w.page)
        PROVE  \E pl \in PlanUnits(d) : pl.source = w
    <3>1. w \in ActiveOf(rows, d) /\ w \notin OrphanedBy(d)
      BY <1>3, <2>2 DEF ActiveOf
    <3> QED BY <1>1, <2>2, <3>1, UnwantedIsTaken
  <2>3. \A x \in PlanUnits(d) : Asked(d, x)'
    BY <1>1, PlannedAreAsked DEF Asked
  <2> QED BY <1>1, <1>2, <2>1, <2>2, <2>3 DEF OpenIsPlanned
<1>9. OneOpen' /\ Ordered(index.rows, index.order)' /\ Ordered(rows, order)'
  BY <1>1, <1>3 DEF GateKnows, OneOpen, Ordered
<1> QED BY <1>1, <1>2, <1>6, <1>7, <1>8, <1>9, InRunStep

\* The document in hand.
LEMMA InUnits == ASSUME GateKnows, phase \in {"units", "written"}
                 PROVE  \E d \in Docs : /\ doc = {d} /\ InHand /\ RowsTell /\ NothingLeftOut /\ OpenIsPlanned
                                        /\ \A x \in pending \cup landing : Asked(d, x) /\ x.unit.doc = d /\ x.unit.tag \in TagsAt(router, listed[d], x.unit.page)
<1>1. PICK d \in Docs : doc = {d}
  BY DEF GateKnows, OneOpen
<1>2. InHand /\ RowsTell /\ NothingLeftOut /\ OpenIsPlanned
  BY DEF GateKnows, InHand
<1>3. \A x \in pending \cup landing : Asked(d, x)
  BY <1>1, <1>2 DEF OpenIsPlanned
<1> QED BY <1>1, <1>2, <1>3 DEF Asked, UnitsOf

\* Units that are skipped: with nothing edited, and nothing but an empty notebook failing, only those of one.
LEMMA SkipGate == ASSUME RunsComplete, NothingHeldBack, OwnRowFails, TypeOK, GateKnows, NEW pl \in pending,
                         SkipEdited(pl) \/ FailUnit(pl) \/ KeepNote(pl)
                  PROVE  GateKnows'
<1>1. FailUnit(pl) /\ ~Renders(pl)
  BY DEF NothingHeldBack, SkipEdited, FailUnit, KeepNote, RunsComplete, Spend
<1>2. /\ pending' = pending \ {pl} /\ untouched' = untouched \cup {pl.unit} /\ rows' = rows /\ phase = "units"
      /\ UNCHANGED <<device, clock, mapping, index, phase, order, runRoot, router, listed, unreadable, todo, doc, landing, stop>>
  BY <1>1, Zenon DEF FailUnit, LeaveAlone, IsNext, tabletVars
<1>3. PICK d \in Docs : /\ doc = {d} /\ InHand /\ RowsTell /\ NothingLeftOut /\ OpenIsPlanned
                        /\ \A x \in pending \cup landing : Asked(d, x) /\ x.unit.doc = d /\ x.unit.tag \in TagsAt(router, listed[d], x.unit.page)
  BY <1>2, InUnits
<1>4. pl.unit.page = NoPage /\ LivePages(listed[d]) = {} /\ pl.unit.doc = d
  BY <1>1, <1>3 DEF Renders
<1>5. pl.source = pl.unit
  <2>1. pl.source = pl.unit \/ pl.source.page # NoPage
    BY <1>1 DEF OwnRowFails
  <2>2. pl.source # pl.unit => pl.source.page = pl.unit.page
    BY <1>3 DEF Asked
  <2> QED BY <1>4, <2>1, <2>2
<1>6. RowsTell' /\ NothingLeftOut'
  BY <1>2, <1>3, <1>4 DEF RowsTell, NothingLeftOut
<1>7. OpenIsPlanned'
  <2>1. ASSUME NEW u \in UnitsOf(router, d, listed[d])
        PROVE  \/ \E x \in pending' : x.unit = u
               \/ \E l \in landing : l.unit = u
               \/ u.page = NoPage /\ LivePages(listed[d]) = {}
               \/ Done(u)
    BY <1>2, <1>3, <1>4 DEF OpenIsPlanned
  <2>2. ASSUME NEW w \in ActiveOf(rows, d)
        PROVE  \/ w.tag \in TagsAt(router, listed[d], w.page)
               \/ \E x \in pending' : x.source = w
               \/ \E l \in landing : l.source = w
    BY <1>2, <1>3, <1>5 DEF OpenIsPlanned
  <2>3. \A u : Done(u)' <=> Done(u)
    BY <1>2 DEF Done
  <2>4. \A x \in pending' \cup landing : Asked(d, x)'
    BY <1>2, <1>3 DEF Asked
  <2>5. d \notin todo /\ listed[d].live
    BY <1>3 DEF OpenIsPlanned
  <2> QED BY <1>2, <1>3, <2>1, <2>2, <2>3, <2>4, <2>5 DEF OpenIsPlanned
<1>8. OneOpen' /\ Ordered(index.rows, index.order)' /\ Ordered(rows, order)' /\ InHand'
  BY <1>2, <1>3 DEF GateKnows, OneOpen, InHand
<1> QED BY <1>2, <1>3, <1>6, <1>7, <1>8, InRunStep

LEMMA WriteGate == ASSUME TypeOK, GateKnows, NEW pl \in pending, NEW p, WriteNote(pl, p) PROVE GateKnows'
<1> DEFINE b == BlockOf(pl.unit.doc, listed[pl.unit.doc], pl.unit.page)
           l == [unit |-> pl.unit, source |-> pl.source, path |-> p, block |-> b]
<1>1. /\ landing' = {l} /\ pending' = pending \ {pl} /\ phase = "units" /\ phase' = "written"
      /\ UNCHANGED <<device, clock, mapping, index, rows, order, runRoot, router, listed, unreadable, todo, doc, untouched, stop>>
  BY Zenon DEF WriteNote, IsNext, tabletVars
<1>2. l.unit = pl.unit /\ l.source = pl.source /\ landing = {}
  BY <1>1, PlanPhases
<1>3. PICK d \in Docs : /\ doc = {d} /\ InHand /\ RowsTell /\ NothingLeftOut /\ OpenIsPlanned
                        /\ \A x \in pending \cup landing : Asked(d, x) /\ x.unit.doc = d /\ x.unit.tag \in TagsAt(router, listed[d], x.unit.page)
  BY <1>1, InUnits
<1> HIDE DEF l
<1>4. RowsTell' /\ NothingLeftOut'
  BY <1>1, <1>3 DEF RowsTell, NothingLeftOut
<1>5. OpenIsPlanned'
  <2>1. ASSUME NEW u \in UnitsOf(router, d, listed[d])
        PROVE  \/ \E x \in pending' : x.unit = u
               \/ \E x \in landing' : x.unit = u
               \/ u.page = NoPage /\ LivePages(listed[d]) = {}
               \/ Done(u)
    BY <1>1, <1>2, <1>3 DEF OpenIsPlanned
  <2>2. ASSUME NEW w \in ActiveOf(rows, d)
        PROVE  \/ w.tag \in TagsAt(router, listed[d], w.page)
               \/ \E x \in pending' : x.source = w
               \/ \E x \in landing' : x.source = w
    BY <1>1, <1>2, <1>3 DEF OpenIsPlanned
  <2>3. \A u : Done(u)' <=> Done(u)
    BY <1>1 DEF Done
  <2>4. \A x \in pending' \cup landing' : Asked(d, x)'
    BY <1>1, <1>2, <1>3 DEF Asked
  <2>5. d \notin todo /\ listed[d].live
    BY <1>3 DEF OpenIsPlanned
  <2> QED BY <1>1, <1>3, <2>1, <2>2, <2>3, <2>4, <2>5 DEF OpenIsPlanned
<1>6. OneOpen' /\ Ordered(index.rows, index.order)' /\ Ordered(rows, order)' /\ InHand'
  BY <1>1, <1>3 DEF GateKnows, OneOpen, InHand
<1> QED BY <1>1, <1>3, <1>4, <1>5, <1>6, InRunStep

\* An order stays one when a row leaves it, and when one that was not there is put at its end.
LEMMA OrderWithout == ASSUME NEW rs, NEW ord \in Seq(Units), Ordered(rs, ord), NEW x PROVE Ordered(Drop(rs, x), Without(ord, x))
<1>0. Len(ord) \in Nat /\ DOMAIN Drop(rs, x) = DOMAIN rs \ {x}
  BY LenProperties DEF Drop
<1>1. CASE \E i \in 1 .. Len(ord) : ord[i] = x
  <2> DEFINE i == CHOOSE j \in 1 .. Len(ord) : ord[j] = x
             front == SubSeq(ord, 1, i - 1)
             back == SubSeq(ord, i + 1, Len(ord))
  <2>1. i \in 1 .. Len(ord) /\ ord[i] = x
    BY <1>1
  <2>2. Without(ord, x) = front \o back
    BY <1>1 DEF Without
  <2> HIDE DEF i
  <2>3. i \in Int /\ i - 1 \in Int /\ i + 1 \in Int /\ Len(ord) \in Int
    BY <1>0, <2>1
  <2>4. (\A k \in 1 .. i - 1 : ord[k] \in Units) /\ \A k \in i + 1 .. Len(ord) : ord[k] \in Units
    BY <1>0, <2>1
  <2>5. front \in Seq(Units) /\ Len(front) = i - 1 /\ \A k \in 1 .. i - 1 : front[k] = ord[k]
    <3>1. /\ front \in Seq(Units) /\ Len(front) = IF 1 <= i - 1 THEN i - 1 - 1 + 1 ELSE 0
          /\ \A k \in 1 .. i - 1 - 1 + 1 : front[k] = ord[1 + k - 1]
      BY <2>3, <2>4, SubSeqProperties
    <3>2. i - 1 - 1 + 1 = i - 1 /\ \A k \in 1 .. i - 1 : 1 + k - 1 = k
      BY <2>3
    <3> HIDE DEF front
    <3> QED BY <2>1, <2>3, <3>1, <3>2
  <2>6. back \in Seq(Units) /\ Len(back) = Len(ord) - i /\ \A k \in 1 .. Len(ord) - i : back[k] = ord[i + k]
    <3>1. /\ back \in Seq(Units) /\ Len(back) = IF i + 1 <= Len(ord) THEN Len(ord) - (i + 1) + 1 ELSE 0
          /\ \A k \in 1 .. Len(ord) - (i + 1) + 1 : back[k] = ord[(i + 1) + k - 1]
      BY <2>3, <2>4, SubSeqProperties
    <3>2. Len(ord) - (i + 1) + 1 = Len(ord) - i /\ \A k \in 1 .. Len(ord) - i : (i + 1) + k - 1 = i + k
      BY <2>3
    <3> HIDE DEF back
    <3>3. Len(back) = Len(ord) - i
      <4>1. CASE i + 1 <= Len(ord)
        BY <3>1, <3>2, <4>1
      <4>2. CASE ~(i + 1 <= Len(ord))
        <5>1. Len(ord) = i
          BY <2>1, <2>3, <4>2
        <5>2. Len(back) = 0
          BY <3>1, <4>2
        <5> QED BY <2>3, <5>1, <5>2
      <4> QED BY <4>1, <4>2
    <3>4. \A k \in 1 .. Len(ord) - i : back[k] = ord[i + k]
      BY <3>1, <3>2
    <3> QED BY <3>1, <3>3, <3>4
  <2> HIDE DEF front, back
  <2> DEFINE rest == front \o back
  <2>7. /\ Len(rest) = Len(ord) - 1
        /\ \A k \in 1 .. Len(rest) : rest[k] = IF k <= Len(front) THEN front[k] ELSE back[k - Len(front)]
    <3>1. /\ Len(rest) = Len(front) + Len(back)
          /\ \A k \in 1 .. Len(front) + Len(back) : rest[k] = IF k <= Len(front) THEN front[k] ELSE back[k - Len(front)]
      BY <2>5, <2>6, ConcatProperties
    <3> HIDE DEF rest
    <3>2. Len(front) + Len(back) = Len(ord) - 1
      BY <2>3, <2>5, <2>6
    <3> QED BY <3>1, <3>2
  <2> HIDE DEF rest
  <2>8. ASSUME NEW k \in 1 .. Len(rest)
        PROVE  LET m == IF k < i THEN k ELSE k + 1 IN m \in 1 .. Len(ord) /\ m # i /\ rest[k] = ord[m]
    <3>1. CASE k < i
      <4>1. k <= Len(front) /\ k \in 1 .. i - 1 /\ k \in 1 .. Len(ord)
        BY <1>0, <2>1, <2>5, <2>7, <2>8, <3>1
      <4> QED BY <2>5, <2>7, <3>1, <4>1, SMTT(30)
    <3>2. CASE ~(k < i)
      <4>1. ~(k <= Len(front)) /\ k - Len(front) \in 1 .. Len(ord) - i /\ i + (k - Len(front)) = k + 1 /\ k + 1 \in 1 .. Len(ord) /\ k + 1 # i
        BY <1>0, <2>1, <2>5, <2>7, <2>8, <3>2, SMTT(30)
      <4> QED BY <2>6, <2>7, <3>2, <4>1
    <3> QED BY <3>1, <3>2
  <2>9. ASSUME NEW k \in 1 .. Len(rest) PROVE rest[k] \in DOMAIN rs /\ rest[k] # x
    BY <2>1, <2>8 DEF Ordered
  <2>10. ASSUME NEW k \in 1 .. Len(rest), NEW n \in 1 .. Len(rest), rest[k] = rest[n] PROVE k = n
    <3>1. PICK a \in 1 .. Len(ord) : a = (IF k < i THEN k ELSE k + 1) /\ rest[k] = ord[a]
      BY <2>8
    <3>2. PICK b \in 1 .. Len(ord) : b = (IF n < i THEN n ELSE n + 1) /\ rest[n] = ord[b]
      BY <2>8
    <3>3. a = b
      BY <2>10, <3>1, <3>2 DEF Ordered
    <3> QED BY <1>0, <2>1, <2>7, <3>1, <3>2, <3>3
  <2>11. Ordered(Drop(rs, x), rest)
    BY <1>0, <2>9, <2>10 DEF Ordered
  <2> QED BY <2>2, <2>11 DEF rest
<1>2. CASE ~ \E i \in 1 .. Len(ord) : ord[i] = x
  <2>1. Without(ord, x) = ord
    BY <1>2 DEF Without
  <2> QED BY <1>0, <1>2, <2>1 DEF Ordered
<1> QED BY <1>1, <1>2

LEMMA OrderWith == ASSUME NEW rs, NEW ord \in Seq(Units), Ordered(rs, ord), NEW u \in Units, NEW r
                   PROVE  Ordered(Put(rs, u, r), IF u \in DOMAIN rs THEN ord ELSE Append(ord, u))
<1>0. Len(ord) \in Nat /\ DOMAIN Put(rs, u, r) = DOMAIN rs \cup {u}
  BY LenProperties DEF Put
<1>1. CASE u \in DOMAIN rs
  BY <1>0, <1>1 DEF Ordered
<1>2. CASE u \notin DOMAIN rs
  <2> DEFINE longer == Append(ord, u)
  <2>1. Len(longer) = Len(ord) + 1 /\ \A i \in 1 .. Len(ord) : longer[i] = ord[i]
    BY AppendProperties
  <2>2. longer[Len(ord) + 1] = u
    BY AppendProperties
  <2> HIDE DEF longer
  <2>3. \A i \in 1 .. Len(longer) : i \in 1 .. Len(ord) \/ i = Len(ord) + 1
    BY <1>0, <2>1
  <2>4. \A i \in 1 .. Len(ord) : ord[i] # u
    BY <1>2 DEF Ordered
  <2>5. Ordered(Put(rs, u, r), longer)
    <3>1. \A i \in 1 .. Len(longer) : longer[i] \in DOMAIN rs \cup {u}
      BY <2>1, <2>2, <2>3 DEF Ordered
    <3>2. \A i, j \in 1 .. Len(longer) : longer[i] = longer[j] => i = j
      BY <2>1, <2>2, <2>3, <2>4 DEF Ordered
    <3> QED BY <1>0, <3>1, <3>2 DEF Ordered
  <2> QED BY <1>2, <2>5 DEF longer
<1> QED BY <1>1, <1>2

LEMMA SaveGate == ASSUME TypeOK, GateKnows, NEW l \in landing, SaveRow(l) PROVE GateKnows'
<1> DEFINE kept == IF l.source # l.unit THEN Drop(rows, l.source) ELSE rows
           left == IF l.source # l.unit THEN Without(order, l.source) ELSE order
           r == RowFor(l)
<1>1. /\ rows' = Put(kept, l.unit, r) /\ order' = IF l.unit \in DOMAIN kept THEN left ELSE Append(left, l.unit)
      /\ phase = "written" /\ phase' = "units" /\ index' = WithRows(rows', order') /\ landing' = {}
      /\ UNCHANGED <<device, clock, mapping, runRoot, router, listed, unreadable, todo, doc, pending, untouched, stop>>
  BY Zenon DEF SaveRow, tabletVars
<1>2. index'.rows = rows' /\ index'.order = order' /\ index'.root = index.root
  BY <1>1 DEF WithRows
<1>3. PICK d \in Docs : /\ doc = {d} /\ InHand /\ RowsTell /\ NothingLeftOut /\ OpenIsPlanned
                        /\ \A x \in pending \cup landing : Asked(d, x) /\ x.unit.doc = d /\ x.unit.tag \in TagsAt(router, listed[d], x.unit.page)
  BY <1>1, InUnits
<1>4. /\ l.unit \in Units /\ l.unit.doc = d /\ l.unit.tag \in TagsAt(router, listed[d], l.unit.page) /\ Asked(d, l)
      /\ \A x \in landing : x = l
  BY <1>3 DEF TypeOK, NothingLeftOut
<1>5. /\ r.status = "active" /\ r.entryHash = listed[d].ver /\ r.folder = router[l.unit.tag]
      /\ l.unit.page # NoPage => r.pageHash = PageContentHash(d, listed[d], l.unit.page)
  BY <1>4 DEF RowFor
<1> HIDE DEF r
<1>6. /\ l.unit \in DOMAIN rows' /\ rows'[l.unit] = r
      /\ \A u \in DOMAIN rows' \ {l.unit} : u \in DOMAIN rows /\ u # l.source /\ rows'[u] = rows[u]
      /\ \A u \in DOMAIN rows \ {l.source, l.unit} : u \in DOMAIN rows'
  BY <1>1 DEF Put, Drop
<1>7. Ordered(rows', order')
  <2>1. Ordered(kept, left) /\ left \in Seq(Units)
    BY OrderWithout, WithoutType DEF GateKnows, TypeOK
  <2> HIDE DEF kept, left
  <2> QED BY <1>1, <1>4, <2>1, OrderWith
<1> HIDE DEF kept, left
<1>8. ASSUME NEW x \in Docs, x # d PROVE SameRowsOf(rows', rows, x)
  <2>1. l.source # l.unit => l.source.doc = d
    BY <1>4 DEF Asked
  <2> QED BY <1>4, <1>6, <1>8, <2>1 DEF SameRowsOf, SameRow
<1>9. RowsTell'
  <2>1. \A x \in Docs \ {d} : Remembers(rows', router, x, listed[x])
    BY <1>3, <1>8, SameRowsKnow DEF RowsTell
  <2>2. listed[d].ver <= listed[d].ver
    <3>1. listed[d].ver \in Nat
      BY <1>3 DEF TypeOK, InHand, DocEntry
    <3> QED BY <3>1
  <2>3. \A w \in DOMAIN rows' : rows'[w].entryHash <= listed[w.doc].ver
    BY <1>3, <1>4, <1>5, <1>6, <2>2 DEF RowsTell
  <2>4. ASSUME NEW x \in Docs, listed[x].live, x \notin todo, x # d PROVE Complete(rows', router, x, listed[x])
    <3>1. Complete(rows, router, x, listed[x])
      BY <1>3, <2>4 DEF RowsTell
    <3> QED BY <1>8, <2>4, <3>1, SameRowsKnow
  <2> QED BY <1>1, <1>3, <2>1, <2>3, <2>4 DEF RowsTell
<1>10. NothingLeftOut'
  BY <1>1, <1>3 DEF NothingLeftOut
<1>11. OpenIsPlanned'
  <2>1. Done(l.unit)'
    BY <1>1, <1>4, <1>5, <1>6 DEF Done, IsRetargeted
  <2>2. ASSUME NEW u \in UnitsOf(router, d, listed[d])
        PROVE  \/ \E x \in pending : x.unit = u
               \/ u.page = NoPage /\ LivePages(listed[d]) = {}
               \/ Done(u)'
    <3>1. CASE u = l.unit
      BY <2>1, <3>1
    <3>2. CASE u # l.unit
      <4>1. \/ \E x \in pending : x.unit = u
            \/ u.page = NoPage /\ LivePages(listed[d]) = {}
            \/ Done(u)
        BY <1>3, <1>4, <3>2 DEF OpenIsPlanned
      <4>2. ~(l.source # l.unit /\ u = l.source)
        BY <1>4 DEF Asked, UnitsOf
      <4>3. Done(u) => Done(u)'
        BY <1>1, <1>6, <3>2, <4>2 DEF Done
      <4> QED BY <4>1, <4>3
    <3> QED BY <3>1, <3>2
  <2>3. ASSUME NEW w \in ActiveOf(rows', d)
        PROVE  w.tag \in TagsAt(router, listed[d], w.page) \/ \E x \in pending : x.source = w
    <3>1. CASE w = l.unit
      BY <1>4, <3>1
    <3>2. CASE w # l.unit
      <4>1. w \in ActiveOf(rows, d) /\ w # l.source
        BY <1>6, <3>2 DEF ActiveOf
      <4> QED BY <1>3, <1>4, <4>1 DEF OpenIsPlanned
    <3> QED BY <3>1, <3>2
  <2>4. \A x \in pending : Asked(d, x)'
    BY <1>1, <1>3 DEF Asked
  <2>5. d \notin todo /\ listed[d].live
    BY <1>3 DEF OpenIsPlanned
  <2> QED BY <1>1, <1>3, <2>2, <2>3, <2>4, <2>5 DEF OpenIsPlanned
<1>12. OneOpen' /\ InHand'
  BY <1>1, <1>3 DEF OneOpen, InHand
<1> QED BY <1>1, <1>2, <1>3, <1>7, <1>9, <1>10, <1>11, <1>12, InRunStep

\* A document that closes is complete, and each of its rows may say so.
LEMMA CloseGate == ASSUME TypeOK, GateKnows, NEW d \in Docs, CloseDocument(d) PROVE GateKnows'
<1> DEFINE e == listed[d]
<1>1. /\ rows' = [u \in DOMAIN rows |-> IF u.doc = d /\ u \notin untouched
                                        THEN [rows[u] EXCEPT !.entryHash = e.ver] ELSE rows[u]]
      /\ pending = {} /\ d \in doc /\ doc' = {} /\ phase = "units" /\ phase' = "docs" /\ index' = WithRows(rows', order)
      /\ UNCHANGED <<device, clock, mapping, order, runRoot, router, listed, unreadable, todo, pending, untouched, landing, stop>>
  BY Zenon DEF CloseDocument, tabletVars
<1>2. index'.rows = rows' /\ index'.order = order' /\ index'.root = index.root
  BY <1>1 DEF WithRows
<1>3. doc = {d} /\ InHand /\ InHand' /\ RowsTell /\ NothingLeftOut /\ OpenIsPlanned /\ landing = {}
  <2>1. \E x \in Docs : doc = {x} /\ InHand /\ RowsTell /\ NothingLeftOut /\ OpenIsPlanned
    BY <1>1, InUnits
  <2> QED BY <1>1, <2>1, PlanPhases DEF InHand
<1>4. /\ DOMAIN rows' = DOMAIN rows
      /\ \A u \in DOMAIN rows : /\ rows'[u].pageHash = rows[u].pageHash /\ rows'[u].status = rows[u].status
                                /\ rows'[u].folder = rows[u].folder /\ rows'[u].path = rows[u].path
                                /\ rows'[u].entryHash = IF u.doc = d /\ u \notin untouched THEN e.ver ELSE rows[u].entryHash
  <2>1. \A u \in DOMAIN rows : LET closed == [rows[u] EXCEPT !.entryHash = e.ver]
                               IN /\ closed.pageHash = rows[u].pageHash /\ closed.status = rows[u].status /\ closed.entryHash = e.ver
                                  /\ closed.folder = rows[u].folder /\ closed.path = rows[u].path
    BY DEF TypeOK, RowTable, Row
  <2> HIDE DEF e
  <2> QED BY <1>1, <2>1
<1>5. ASSUME NEW x \in Docs, x # d PROVE SameRowsOf(rows', rows, x)
  BY <1>4, <1>5 DEF SameRowsOf, SameRow
<1>6. /\ \A u \in UnitsOf(router, d, e) : (u.page = NoPage /\ LivePages(e) = {}) \/ Done(u)
      /\ \A w \in ActiveOf(rows, d) : w.tag \in TagsAt(router, e, w.page)
      /\ \A u \in untouched : u.doc = d => LivePages(e) = {}
      /\ d \notin todo /\ e.live
  BY <1>1, <1>3 DEF OpenIsPlanned, NothingLeftOut
<1>7. e \in DocEntry /\ e.ver \in Nat /\ e.ver <= e.ver /\ router \in Mapping
  <2>1. e \in DocEntry /\ router \in Mapping
    BY <1>3 DEF TypeOK, InHand
  <2> HIDE DEF e
  <2> QED BY <2>1 DEF DocEntry
<1>8. \A u \in DOMAIN rows : u \in Units
  BY DEF TypeOK, RowTable
<1>9. \A w \in ActiveOf(rows, d) : w \in UnitsOf(router, d, e)
  BY <1>6, <1>8 DEF ActiveOf, UnitsOf
<1>11. (\A pg : ActiveAt(rows', d, pg) = ActiveAt(rows, d, pg)) /\ ActiveOf(rows', d) = ActiveOf(rows, d)
  BY <1>4 DEF ActiveAt, ActiveOf
<1> HIDE DEF e
<1> DEFINE Made(u) == /\ u \in DOMAIN rows /\ rows[u].status = "active" /\ ~IsRetargeted(router, u, rows[u])
                      /\ u.page # NoPage => rows[u].pageHash = PageContentHash(d, e, u.page)
<1>m. \A u \in UnitsOf(router, d, e) : u.page # NoPage \/ LivePages(e) # {} => Made(u)
  <2> SUFFICES ASSUME NEW u \in UnitsOf(router, d, e), u.page # NoPage \/ LivePages(e) # {} PROVE Made(u)
    OBVIOUS
  <2>1. Done(u)
    BY ONLY <1>6, u \in UnitsOf(router, d, e), u.page # NoPage \/ LivePages(e) # {}
  <2>2. u.doc = d
    BY DEF UnitsOf
  <2> QED BY <2>1, <2>2 DEF Done, e
<1> HIDE DEF Made
<1>12. ASSUME NEW pg \in Pages \cup {NoPage}, pg # NoPage \/ LivePages(e) # {}, NEW t \in TagsAt(router, e, pg)
       PROVE  \E u \in ActiveAt(rows, d, pg) : u.tag = t
  <2> DEFINE u == [doc |-> d, page |-> pg, tag |-> t]
  <2>1. t \in Tags
    BY <1>7, TagsAtMapped
  <2>2. u \in UnitsOf(router, d, e) /\ u.page = pg /\ u.tag = t /\ u.doc = d
    BY <1>12, <2>1 DEF UnitsOf, Units
  <2> HIDE DEF u
  <2>3. Made(u)
    BY <1>m, <1>12, <2>2
  <2> QED BY <2>2, <2>3 DEF ActiveAt, Made
<1>13. \A pg : \A u \in ActiveAt(rows, d, pg) : u \in UnitsOf(router, d, e) /\ u.page = pg /\ u.doc = d /\ u.tag \in TagsAt(router, e, pg) /\ u \in DOMAIN rows
  BY <1>6, <1>9 DEF ActiveAt, ActiveOf
<1>14. PagesAgree(rows', router, d, e)
  <2>1. SUFFICES ASSUME NEW pg \in Pages
                 PROVE  /\ \A u \in ActiveAt(rows, d, pg) : u.tag \in PageTags(router, e, pg)
                        /\ \A t \in PageTags(router, e, pg) : \E u \in ActiveAt(rows, d, pg) : u.tag = t
                        /\ \A u \in ActiveAt(rows, d, pg) : rows'[u].pageHash = PageContentHash(d, e, pg)
    BY <1>11 DEF PagesAgree, Held
  <2>2. pg # NoPage /\ TagsAt(router, e, pg) = PageTags(router, e, pg)
    BY ConstantsAssumption DEF TagsAt
  <2>3. \A u \in ActiveAt(rows, d, pg) : u.tag \in PageTags(router, e, pg)
    BY <1>13, <2>2
  <2>4. \A t \in PageTags(router, e, pg) : \E u \in ActiveAt(rows, d, pg) : u.tag = t
    BY <1>12, <2>2
  <2>5. ASSUME NEW u \in ActiveAt(rows, d, pg) PROVE rows'[u].pageHash = PageContentHash(d, e, pg)
    <3>1. u \in UnitsOf(router, d, e) /\ u.page = pg /\ u \in DOMAIN rows
      BY <1>13
    <3>2. Made(u)
      BY <1>m, <2>2, <3>1
    <3> QED BY <1>4, <2>2, <3>1, <3>2 DEF Made
  <2> QED BY <2>3, <2>4, <2>5
<1>15. Held(rows', d, NoPage, NotebookTags(router, e)) \/ LivePages(e) = {}
  <2>1. TagsAt(router, e, NoPage) = NotebookTags(router, e)
    BY DEF TagsAt
  <2> QED BY <1>11, <1>12, <1>13, <2>1 DEF Held
<1>16. \A u \in ActiveAt(rows', d, NoPage) : u.tag \in NotebookTags(router, e)
  BY <1>11, <1>13 DEF TagsAt
<1>17. \A u \in ActiveAt(rows', d, NoPage) : rows'[u].entryHash = e.ver \/ LivePages(e) = {}
  BY <1>4, <1>6, <1>11, <1>13
<1>18. LivePages(e) # {} => \A u \in ActiveOf(rows', d) : ~IsRetargeted(router, u, rows'[u])
  <2>1. SUFFICES ASSUME LivePages(e) # {}, NEW u \in ActiveOf(rows, d) PROVE ~IsRetargeted(router, u, rows'[u])
    BY <1>11
  <2>2. u \in DOMAIN rows /\ ~IsRetargeted(router, u, rows[u])
    <3>1. Made(u)
      BY <1>m, <1>9, <2>1
    <3> QED BY <3>1 DEF Made
  <2> QED BY <1>4, <2>2 DEF IsRetargeted
<1>19. Complete(rows', router, d, e)
  BY <1>14, <1>15, <1>16, <1>17, <1>18 DEF Complete
<1>20. \A w \in DOMAIN rows' : rows'[w].entryHash <= listed[w.doc].ver
  BY <1>3, <1>4, <1>7 DEF RowsTell, e
<1>21. Remembers(rows', router, d, e)
  BY <1>14, <1>17, <1>20 DEF Remembers, e
<1>22. RowsTell'
  <2>1. \A x \in Docs : Remembers(rows', router, x, listed[x])
    BY <1>3, <1>5, <1>21, SameRowsKnow DEF RowsTell, e
  <2>2. ASSUME NEW x \in Docs, listed[x].live, x \notin todo PROVE Complete(rows', router, x, listed[x])
    <3>1. CASE x = d
      BY <1>19, <3>1 DEF e
    <3>2. CASE x # d
      <4>1. Complete(rows, router, x, listed[x])
        BY <1>3, <2>2, <3>2 DEF RowsTell
      <4> QED BY <1>5, <3>2, <4>1, SameRowsKnow
    <3> QED BY <3>1, <3>2
  <2> QED BY <1>1, <1>20, <2>1, <2>2 DEF RowsTell
<1>23. NothingLeftOut' /\ OpenIsPlanned' /\ OneOpen'
  BY <1>1, <1>3 DEF NothingLeftOut, OpenIsPlanned, OneOpen
<1>24. Ordered(rows', order')
  BY <1>1, <1>4 DEF GateKnows, Ordered
<1> QED BY <1>1, <1>2, <1>3, <1>22, <1>23, <1>24, InRunStep

\* Before the first run there is no row, and no root hash but that of nothing.
LEMMA InitGate == ASSUME DocsHaveHashes, Init PROVE GateKnows
<1>1. /\ device \in InitDevices /\ clock = 1 /\ index.root = 0 /\ index.rows = NoRows /\ index.order = <<>> /\ phase = "idle"
      /\ rows = NoRows /\ order = <<>> /\ runRoot = 0 /\ doc = {} /\ untouched = {} /\ stop = FALSE
  BY DEF Init
<1>2. \A d \in Docs : device[d].ver = 1
  BY <1>1 DEF DocsHaveHashes
<1>3. Numbered /\ OneOpen /\ ~InHand
  BY <1>1, <1>2 DEF Numbered, OneOpen, InHand
<1>4. PagesUntagged
  BY <1>1, <1>3 DEF PagesUntagged, NoPageTags
<1>5. Ordered(index.rows, index.order) /\ Ordered(rows, order)
  <2>1. Len(<<>>) = 0
    OBVIOUS
  <2> QED BY <1>1, <2>1 DEF Ordered
<1>6. AtRest
  BY <1>1 DEF AtRest, Remembers, NoRows
<1> QED BY <1>1, <1>3, <1>4, <1>5, <1>6 DEF GateKnows

\* What the index knows, seen through the gate.
LEMMA KnownIsMirrored == ASSUME TypeOK, GateKnows, HashesHonest PROVE GateSound
<1> SUFFICES ASSUME phase = "idle", UpToDate PROVE Mirrored
  BY DEF GateSound
<1>1. \A u \in DOMAIN index.rows : u \in Units /\ u.doc \in Docs /\ u.page \in Pages \cup {NoPage}
  BY DEF TypeOK, RowTable, Units
<1>2. ASSUME NEW d \in Docs
      PROVE  IF device[d].live THEN Complete(index.rows, mapping, d, device[d]) ELSE ActiveOf(index.rows, d) = {}
  BY DEF GateKnows, AtRest, UpToDate
<1>3. \A u \in DOMAIN index.rows : index.rows[u].status = "active" => index.rows[u].path \in DOMAIN vault
  BY DEF UpToDate, HasMissingActiveNote
<1>4. ASSUME NEW u \in Wanted
      PROVE  /\ u \in DOMAIN index.rows /\ index.rows[u].status = "active"
             /\ index.rows[u].block = BlockOf(u.doc, device[u.doc], u.page)
             /\ ~IsRetargeted(mapping, u, index.rows[u])
  <2> DEFINE d == u.doc
             e == device[d]
  <2>1. /\ u \in Units /\ d \in Docs /\ u.page \in Pages \cup {NoPage}
        /\ u.tag \in TagsAt(mapping, e, u.page) /\ LivePages(e) # {} /\ Complete(index.rows, mapping, d, e)
    BY <1>2 DEF Wanted, Units
  <2> HIDE DEF d, e
  <2>2. Held(index.rows, d, u.page, TagsAt(mapping, e, u.page))
    <3>1. CASE u.page = NoPage
      BY <2>1, <3>1 DEF Complete, TagsAt
    <3>2. CASE u.page # NoPage
      BY <2>1, <3>2 DEF Complete, PagesAgree, TagsAt
    <3> QED BY <3>1, <3>2
  <2>3. PICK w \in ActiveAt(index.rows, d, u.page) : w.tag = u.tag
    BY <2>1, <2>2 DEF Held
  <2>4. w \in DOMAIN index.rows /\ w.doc = u.doc /\ w.page = u.page /\ index.rows[w].status = "active"
    BY <2>3 DEF ActiveAt, d
  <2>5. w = u
    BY <1>1, <2>1, <2>3, <2>4 DEF Units
  <2>6. u \in ActiveAt(index.rows, d, u.page) /\ u \in ActiveOf(index.rows, d)
    BY <2>3, <2>5 DEF ActiveAt, ActiveOf
  <2>7. ~IsRetargeted(mapping, u, index.rows[u])
    BY <2>1, <2>6 DEF Complete
  <2>8. index.rows[u].block = BlockOf(u.doc, device[u.doc], u.page)
    <3>1. CASE u.page = NoPage
      <4>1. index.rows[u].entryHash = e.ver
        BY <2>1, <2>6, <3>1 DEF Complete
      <4> QED BY <2>4, <2>5, <3>1, <4>1 DEF HashesHonest, d, e
    <3>2. CASE u.page # NoPage
      <4>1. index.rows[u].pageHash = PageContentHash(d, e, u.page)
        BY <2>1, <2>6, <3>2 DEF Complete, PagesAgree
      <4> QED BY <2>4, <2>5, <3>2, <4>1 DEF HashesHonest, d, e
    <3> QED BY <3>1, <3>2
  <2> QED BY <2>4, <2>5, <2>7, <2>8
<1>5. ASSUME NEW u \in DOMAIN index.rows, index.rows[u].status = "active" PROVE u \notin Gone
  <2> DEFINE d == u.doc
             e == device[d]
  <2>1. d \in Docs /\ u.page \in Pages \cup {NoPage} /\ u \in ActiveOf(index.rows, d) /\ u \in ActiveAt(index.rows, d, u.page)
    BY <1>1, <1>5 DEF ActiveOf, ActiveAt
  <2>2. e.live /\ Complete(index.rows, mapping, d, e)
    BY <1>2, <2>1
  <2> HIDE DEF d, e
  <2>3. u.tag \in TagsAt(mapping, e, u.page)
    <3>1. CASE u.page = NoPage
      BY <2>1, <2>2, <3>1 DEF Complete, TagsAt
    <3>2. CASE u.page # NoPage
      BY <2>1, <2>2, <3>2 DEF Complete, PagesAgree, Held, TagsAt
    <3> QED BY <3>1, <3>2
  <2> QED BY <2>2, <2>3 DEF Gone, d, e
<1>6. \A u \in Wanted : u \in Units
  BY DEF Wanted
<1> QED BY <1>3, <1>4, <1>5, <1>6 DEF Mirrored

\* sync-engine.ts, runSync's level-1 gate ("nothing changed on the tablet since the last run"): whenever it lets a run go
\* home at once, every tagged page and document has its note, made of what the tablet holds and in its folder, and no
\* other note is kept up.  So for every tablet and vault, and whatever was drawn, tagged or thrown away while a run was
\* reading -- as long as runs end by themselves and leave no unit out, and no document comes back unnoticed.
THEOREM GateIsSound == ASSUME RunsComplete, PagesKeepFolders, DocsHaveHashes
                       PROVE  Spec /\ RenamesRender /\ ReturnsAreNoticed /\ []NothingHeldBack => []GateSound
<1>1. Init => GateKnows
  BY InitGate
<1>2. TypeOK /\ GateKnows /\ NothingHeldBack /\ [Next]_vars /\ [OwnRowFails]_vars /\ [Noticed]_vars => GateKnows'
  <2> SUFFICES ASSUME TypeOK, GateKnows, NothingHeldBack, [Next]_vars, OwnRowFails \/ UNCHANGED vars, Noticed \/ UNCHANGED vars
               PROVE  GateKnows'
    OBVIOUS
  <2>1. CASE UNCHANGED vars
    BY <2>1, UserGate
  <2>2. CASE Next /\ OwnRowFails /\ Noticed
    <3>1. CASE Run
      <4>1. ~StopHere
        BY DEF StopHere, GateKnows, Numbered
      <4>2. ASSUME NEW pl \in pending, SkipEdited(pl) \/ FailUnit(pl) \/ KeepNote(pl) \/ \E p \in Paths : WriteNote(pl, p)
            PROVE  GateKnows'
        BY <2>2, <4>2, SkipGate, WriteGate
      <4>3. ASSUME NEW d \in Docs, PassOver(d) PROVE GateKnows'
        <5>1. ~Forgot(d)
          BY <2>2, <4>3 DEF Noticed
        <5> QED BY <4>3, <5>1, PassOverGate
      <4>4. ASSUME NEW d \in Docs, OpenDocument(d) \/ CloseDocument(d) PROVE GateKnows'
        BY <4>4, OpenGate, CloseGate
      <4> QED BY <3>1, <4>1, <4>2, <4>3, <4>4, StartGate, ListGate, FinishGate, SaveGate DEF Run
    <3>2. ~Abort
      BY DEF RunsComplete, Abort, Spend
    <3> QED BY <2>2, <3>1, <3>2, AllTabletGate, UserGate DEF Next
  <2> QED BY <2>1, <2>2
<1>3. TypeOK /\ GateKnows /\ HashesHonest => GateSound
  BY KnownIsMirrored
<1> QED BY <1>1, <1>2, <1>3, TypeCorrect, HashesAreHonest, PTL DEF Spec, RenamesRender, ReturnsAreNoticed

\* The same of a tablet whose pages are not tagged by themselves: there a document that comes back is always noticed, by
\* the tags of its notes (needsDocumentOpen), and the settings may move them meanwhile.
THEOREM GateOfNotebooksIsSound == ASSUME RunsComplete, NoPageTags, DocsHaveHashes
                                  PROVE  Spec /\ RenamesRender /\ []NothingHeldBack => []GateSound
<1>1. Init => GateKnows
  BY InitGate
<1>2. TypeOK /\ GateKnows /\ NothingHeldBack /\ [Next]_vars /\ [OwnRowFails]_vars => GateKnows'
  <2> SUFFICES ASSUME TypeOK, GateKnows, NothingHeldBack, [Next]_vars, OwnRowFails \/ UNCHANGED vars
               PROVE  GateKnows'
    OBVIOUS
  <2>0. PagesKeepFolders
    BY DEF PagesKeepFolders
  <2>1. CASE UNCHANGED vars
    BY <2>0, <2>1, UserGate
  <2>2. CASE Next /\ OwnRowFails
    <3>1. CASE Run
      <4>1. ~StopHere
        BY DEF StopHere, GateKnows, Numbered
      <4>2. ASSUME NEW pl \in pending, SkipEdited(pl) \/ FailUnit(pl) \/ KeepNote(pl) \/ \E p \in Paths : WriteNote(pl, p)
            PROVE  GateKnows'
        BY <2>2, <4>2, SkipGate, WriteGate
      <4>3. ASSUME NEW d \in Docs, PassOver(d) \/ OpenDocument(d) \/ CloseDocument(d) PROVE GateKnows'
        BY <4>3, PassOverGate, OpenGate, CloseGate
      <4> QED BY <2>0, <3>1, <4>1, <4>2, <4>3, StartGate, ListGate, FinishGate, SaveGate DEF Run
    <3>2. ~Abort
      BY DEF RunsComplete, Abort, Spend
    <3> QED BY <2>0, <2>2, <3>1, <3>2, AllTabletGate, UserGate DEF Next
  <2> QED BY <2>1, <2>2
<1>3. TypeOK /\ GateKnows /\ HashesHonest => GateSound
  BY KnownIsMirrored
<1> QED BY <1>1, <1>2, <1>3, TypeCorrect, HashesAreHonest, PTL DEF Spec, RenamesRender
=============================================================================
