-------------------------- MODULE ZoteroPagesProofs -------------------------
(***************************************************************************)
(* What the notes of the added pages guarantee, for every number of pages, *)
(* every set of texts, papers and notes, and everything the user does: the *)
(* notes mirror the pages, one each, and a note the user wrote into        *)
(* stands. Numbering is as in the proofs of the marks.                     *)
(***************************************************************************)
EXTENDS ZoteroPages, ZoteroMarksProofs

PagesSpec == PagesInit /\ [][PagesNext]_pageVars

OurBodies == [title : Added, text : Texts]
Creations == [page : Added, paper : Parents, body : OurBodies]
NotePatches == [page : Added, record : NoteRecords]
Works == [trashes : SUBSET Added, creates : SUBSET Creations, patches : SUBSET NotePatches]

PagesTypes ==
  /\ lossy \in BOOLEAN /\ again \in BOOLEAN /\ missed \in BOOLEAN /\ settled \in BOOLEAN
  /\ said \in [Added -> Texts \cup {Blank, Unread, None}]
  /\ paper \in Parents \cup {None}
  /\ notes \in [NoteKeys -> NoteItems \cup {None}]
  /\ link \in [Added -> NoteRecords \cup {None}] /\ copy \in [Added -> NoteRecords \cup {None}]
  /\ doing \in {"idle", "noting"} /\ work \in Works
  /\ doing = "idle" => work = NoWork /\ copy = link /\ ~missed

\* Notes are numbered as they are made.
NotesInOrder == \E n \in 0 .. Cardinality(NoteKeys) : UsedKeys = 1 .. n

\* The notes a page has to do with: on record, in the pass's own record, or to be patched.
HasNote(m, k) ==
  \/ link[m] # None /\ link[m].key = k
  \/ copy[m] # None /\ copy[m].key = k
  \/ \E p \in work.patches : p.page = m /\ p.record.key = k
NotesApart == \A m, n \in Added, k \in NoteKeys : HasNote(m, k) /\ HasNote(n, k) => m = n
NotesMade == \A m \in Added, k \in NoteKeys : HasNote(m, k) => k \in UsedKeys

\* One piece of work for a page, which is not done yet.
IsCreated(m) == \E c \in work.creates : c.page = m
IsPatched(m) == \E p \in work.patches : p.page = m
IsDue(m) == m \in work.trashes \/ IsCreated(m) \/ IsPatched(m)
WorkApart ==
  /\ \A c, d \in work.creates : c.page = d.page => c = d
  /\ \A p, q \in work.patches : p.page = q.page => p = q
  /\ \A m \in Added : ~(IsCreated(m) /\ IsPatched(m)) /\ (m \in work.trashes => ~IsCreated(m) /\ ~IsPatched(m))
  /\ \A m \in Added : IsDue(m) => copy[m] = link[m]

\* What a pass is to trash or to patch the user has not written into, or its version shows.
NotTheirs(k) == notes[k].fresh => notes[k].body.text # ByUser
ReadAsOurs ==
  /\ \A m \in work.trashes : link[m] # None /\ NotTheirs(link[m].key)
  /\ \A p \in work.patches : link[p.page] # None => p.record.key = link[p.page].key /\ NotTheirs(p.record.key)

Shows(m, r) ==
  /\ said[m] \in Texts => r # None
  /\ MayTouch(r) =>
       /\ IsLive(r.key) /\ notes[r.key].paper = paper
       /\ said[m] \in Texts => notes[r.key].body = BodyOf(m)
       /\ said[m] # None

\* While nothing has changed since a pass over the whole document began and no request of it failed
OnItsWay ==
  settled /\ ~missed =>
    /\ \A m \in Added : IsDue(m) \/ Shows(m, copy[m])
    /\ \A m \in work.trashes : said[m] \notin Texts
    /\ \A c \in work.creates : c.paper = paper /\ c.body = BodyOf(c.page) /\ said[c.page] # None
    /\ \A p \in work.patches : /\ p.record.paper = paper /\ said[p.page] # None
                               /\ said[p.page] \in Texts => p.record.body = BodyOf(p.page)

PagesInv == /\ PagesTypes /\ NotesInOrder /\ NotesApart /\ NotesMade /\ WorkApart /\ ReadAsOurs /\ OnItsWay

LEMMA NoteParts ==
  /\ \A r \in NoteRecords : /\ r.key \in NoteKeys /\ r.paper \in Parents /\ r.body \in OurBodies /\ r.body.text # ByUser /\ r # None
                            /\ r.edited \in BOOLEAN /\ r.deleted \in BOOLEAN
  /\ \A r \in NoteRecords : /\ Flagged(r, "edited") \in NoteRecords /\ Flagged(r, "edited").key = r.key /\ Flagged(r, "edited").edited
                            /\ Flagged(r, "deleted") \in NoteRecords /\ Flagged(r, "deleted").key = r.key /\ Flagged(r, "deleted").deleted
  /\ \A r \in NoteRecords, p \in Parents : /\ [r EXCEPT !.paper = p] \in NoteRecords /\ [r EXCEPT !.paper = p].key = r.key
                                          /\ [r EXCEPT !.paper = p].paper = p
  /\ \A k \in NoteKeys, p \in Parents, b \in OurBodies :
        Ours(k, p, b) \in NoteRecords /\ Ours(k, p, b).key = k /\ Ours(k, p, b).paper = p /\ Ours(k, p, b).body = b
<1>1. \A r \in NoteRecords : /\ r.key \in NoteKeys /\ r.paper \in Parents /\ r.body \in OurBodies /\ r.body.text # ByUser /\ r # None
                            /\ r.edited \in BOOLEAN /\ r.deleted \in BOOLEAN
  BY PagesAssumption DEF NoteRecords, OurBodies
<1>2. \A r \in NoteRecords : /\ Flagged(r, "edited") \in NoteRecords /\ Flagged(r, "edited").key = r.key /\ Flagged(r, "edited").edited
                            /\ Flagged(r, "deleted") \in NoteRecords /\ Flagged(r, "deleted").key = r.key /\ Flagged(r, "deleted").deleted
  BY DEF NoteRecords, Flagged
<1>3. \A r \in NoteRecords, p \in Parents : /\ [r EXCEPT !.paper = p] \in NoteRecords /\ [r EXCEPT !.paper = p].key = r.key
                                          /\ [r EXCEPT !.paper = p].paper = p
  BY DEF NoteRecords
<1>4. \A k \in NoteKeys, p \in Parents, b \in OurBodies :
        Ours(k, p, b) \in NoteRecords /\ Ours(k, p, b).key = k /\ Ours(k, p, b).paper = p /\ Ours(k, p, b).body = b
  BY DEF NoteRecords, OurBodies, Ours
<1> QED BY <1>1, <1>2, <1>3, <1>4

LEMMA NotePieces == ASSUME PagesTypes, NEW k \in UsedKeys
  PROVE  k \in NoteKeys /\ notes[k] # None /\ notes[k] \in NoteItems /\ notes[k].paper \in Parents /\ notes[k].body \in Bodies
         /\ notes[k].live \in BOOLEAN /\ notes[k].fresh \in BOOLEAN
  BY DEF UsedKeys, PagesTypes, NoteItems

\* The title of a page that is there is its rank among those, which no other page shares.
LEMMA Titles ==
  ASSUME PagesTypes
  PROVE  /\ \A m \in Added : said[m] # None => BodyOf(m).title \in Added /\ BodyOf(m).text = said[m]
         /\ \A m \in Added : said[m] \in Texts => BodyOf(m) \in OurBodies
         /\ \A m, n \in Added : said[m] # None /\ said[n] # None /\ BodyOf(m).title = BodyOf(n).title => m = n
<1> DEFINE there == {n \in Added : said[n] # None}
           at == [n \in there |-> n]
<1>1. IsFiniteSet(Added) /\ Cardinality(Added) = NumAdded /\ NumAdded \in Nat /\ Added \subseteq Nat
  BY PagesAssumption, FS_Interval DEF Added
<1>2. IsFiniteSet(there) /\ Cardinality(there) \in Nat /\ Cardinality(there) <= NumAdded
  <2>1. there \in SUBSET Added
    OBVIOUS
  <2> HIDE DEF there
  <2> QED BY <1>1, <2>1, FS_Subset, FS_CardinalityType
<1>3. at \in [there -> Nat] /\ \A a, b \in there : at[a] = at[b] => a = b
  BY <1>1
<1>4. \A m \in there : BodyOf(m).title = Rank(there, at, m) /\ BodyOf(m).text = said[m]
  <2>1. \A m \in there : {b \in there : at[b] <= at[m]} = {n \in Added : n <= m /\ said[n] # None}
    OBVIOUS
  <2> HIDE DEF there, at
  <2> QED BY <2>1 DEF BodyOf, Rank
<1>5. /\ \A a \in there : Rank(there, at, a) \in 1 .. Cardinality(there)
      /\ \A a, b \in there : Rank(there, at, a) = Rank(there, at, b) => a = b
  <2>1. IsFiniteSet(there)
    BY <1>2
  <2> HIDE DEF there, at
  <2> QED BY ONLY <1>3, <2>1, Ranks
<1>6. \A m \in there : BodyOf(m).title \in Added
  <2> HIDE DEF there, at
  <2> QED BY <1>1, <1>2, <1>4, <1>5 DEF Added
<1>7. \A m \in Added : said[m] \in Texts => BodyOf(m) \in OurBodies
  <2> SUFFICES ASSUME NEW m \in Added, said[m] \in Texts PROVE BodyOf(m) \in OurBodies
    OBVIOUS
  <2>1. m \in there
    BY PagesAssumption
  <2>2. BodyOf(m).title \in Added
    BY <1>6, <2>1
  <2> QED BY <2>2 DEF BodyOf, OurBodies
<1> QED
  <2>1. \A m \in Added : said[m] # None <=> m \in there
    OBVIOUS
  <2> HIDE DEF there, at
  <2> QED BY <1>4, <1>5, <1>6, <1>7, <2>1

LEMMA PagesStart == PagesInit => PagesInv
<1> SUFFICES ASSUME PagesInit PROVE PagesInv
  OBVIOUS
<1>1. NoWork \in Works /\ NoWork.trashes = {} /\ NoWork.creates = {} /\ NoWork.patches = {}
  BY DEF NoWork, Works
<1>2. UsedKeys = {} /\ UsedKeys = 1 .. 0 /\ 0 \in 0 .. Cardinality(NoteKeys)
  BY PagesAssumption, FS_CardinalityType DEF PagesInit, UsedKeys
<1>3. PagesTypes
  BY <1>1 DEF PagesInit, PagesTypes
<1>4. \A m \in Added : link[m] = None /\ copy[m] = None
  BY DEF PagesInit
<1>5. work = NoWork /\ settled = FALSE
  BY DEF PagesInit
<1> QED BY <1>1, <1>2, <1>3, <1>4, <1>5
        DEF PagesInv, NotesInOrder, NotesApart, NotesMade, WorkApart, ReadAsOurs, OnItsWay, HasNote, IsDue, IsCreated, IsPatched

\* The reader and the user, but for the notes themselves.
LEMMA PagesElsewhere ==
  ASSUME PagesInv, UNCHANGED <<lossy, notes, link, doing, copy, work, missed>>, settled' = FALSE,
         said' \in [Added -> Texts \cup {Blank, Unread, None}], paper' \in Parents \cup {None}, again' \in BOOLEAN
  PROVE  PagesInv'
<1>1. PagesTypes'
  BY DEF PagesInv, PagesTypes
<1>2. UsedKeys' = UsedKeys /\ (\A m, k : HasNote(m, k)' = HasNote(m, k)) /\ \A k : NotTheirs(k)' = NotTheirs(k)
  BY DEF UsedKeys, HasNote, NotTheirs
<1>3. \A m : IsCreated(m)' = IsCreated(m) /\ IsPatched(m)' = IsPatched(m) /\ IsDue(m)' = IsDue(m)
  BY DEF IsCreated, IsPatched, IsDue
<1> QED BY <1>1, <1>2, <1>3 DEF PagesInv, NotesInOrder, NotesApart, NotesMade, WorkApart, ReadAsOurs, OnItsWay

\* The user at a note: its version moves while a pass is at work.
LEMMA UserAtNote ==
  ASSUME PagesInv, UNCHANGED <<lossy, link, doing, copy, work, missed, said, paper, again>>, settled' = FALSE,
         NEW k \in UsedKeys, NEW r \in NoteItems, notes' = Changed(k, r)
  PROVE  PagesInv'
<1> DEFINE i == [r EXCEPT !.fresh = (doing = "idle")]
<1>1. i \in NoteItems /\ i.fresh = (doing = "idle") /\ i # None
  BY PagesAssumption DEF NoteItems
<1>2. notes' = [notes EXCEPT ![k] = i]
  BY DEF Changed
<1> HIDE DEF i
<1>3. k \in NoteKeys /\ notes'[k] = i /\ (\A j \in NoteKeys \ {k} : notes'[j] = notes[j]) /\ notes' \in [NoteKeys -> NoteItems \cup {None}]
  BY <1>1, <1>2, NotePieces DEF PagesInv, PagesTypes
<1>4. PagesTypes'
  BY <1>3 DEF PagesInv, PagesTypes
<1>5. UsedKeys' = UsedKeys
  BY <1>1, <1>3 DEF UsedKeys
<1>6. \A m, j : HasNote(m, j)' = HasNote(m, j)
  BY DEF HasNote
<1>7. \A m : IsCreated(m)' = IsCreated(m) /\ IsPatched(m)' = IsPatched(m) /\ IsDue(m)' = IsDue(m)
  BY DEF IsCreated, IsPatched, IsDue
<1>8. ReadAsOurs'
  <2>1. CASE doing = "idle"
    <3>1. work.trashes = {} /\ work.patches = {}
      BY <2>1 DEF PagesInv, PagesTypes, NoWork
    <3> QED BY <3>1 DEF ReadAsOurs
  <2>2. CASE doing # "idle"
    <3>1. \A j \in NoteKeys : NotTheirs(j) => NotTheirs(j)'
      BY <1>1, <1>3, <2>2 DEF NotTheirs
    <3>2. \A m \in work.trashes : link[m] # None /\ link[m].key \in NoteKeys
      BY NoteParts DEF PagesInv, PagesTypes, Works, ReadAsOurs
    <3>3. \A p \in work.patches : p.record.key \in NoteKeys
      BY NoteParts DEF PagesInv, PagesTypes, Works, NotePatches
    <3>4. \A m \in work.trashes : link[m] # None /\ NotTheirs(link[m].key)'
      BY <3>1, <3>2 DEF PagesInv, ReadAsOurs
    <3>5. \A p \in work.patches : link[p.page] # None => p.record.key = link[p.page].key /\ NotTheirs(p.record.key)'
      BY <3>1, <3>3 DEF PagesInv, ReadAsOurs
    <3> QED BY <3>4, <3>5 DEF ReadAsOurs
  <2> QED BY <2>1, <2>2
<1> QED BY <1>4, <1>5, <1>6, <1>7, <1>8 DEF PagesInv, NotesInOrder, NotesApart, NotesMade, WorkApart, OnItsWay

LEMMA UserAtNoteStep == ASSUME PagesInv, NEW k \in NoteKeys, ChangeNote(k) \/ TagNote(k) PROVE PagesInv'
<1>1. k \in UsedKeys /\ settled' = FALSE /\ UNCHANGED <<lossy, link, doing, copy, work, missed, said, paper, again>>
  BY DEF ChangeNote, TagNote, ChangeSomething, IsLive, UsedKeys
<1>2. notes[k] \in NoteItems /\ notes[k].live \in BOOLEAN /\ notes[k].body \in Bodies
  BY <1>1, NotePieces DEF PagesInv
<1>3. [notes[k] EXCEPT !.live = ~@] \in NoteItems /\ [notes[k] EXCEPT !.body.text = ByUser] \in NoteItems
  BY <1>2 DEF NoteItems, Bodies
<1>4. \E r \in NoteItems : notes' = Changed(k, r)
  BY <1>2, <1>3 DEF ChangeNote, TagNote
<1> QED BY <1>1, <1>4, UserAtNote

\* The note a page is known by: on its record, or one under its title that is on nobody's; no two the same.
LEMMA KnownNotes ==
  ASSUME PagesInv
  PROVE  /\ \A m \in Added : KnownOf(m) # None =>
              /\ KnownOf(m) \in Listed /\ KnownOf(m) \in UsedKeys /\ KnownOf(m) \in NoteKeys /\ IsLive(KnownOf(m))
              /\ \/ link[m] # None /\ ~link[m].deleted /\ KnownOf(m) = link[m].key
                 \/ link[m] = None /\ KnownOf(m) \in Unheld /\ notes[KnownOf(m)].body.title = BodyOf(m).title
         /\ \A m, n \in Added : said[m] # None /\ said[n] # None /\ KnownOf(m) # None /\ KnownOf(m) = KnownOf(n) => m = n
         /\ \A m \in Added : link[m] # None /\ ~link[m].deleted /\ link[m].key \in Listed => KnownOf(m) = link[m].key
<1>1. ASSUME NEW m \in Added, KnownOf(m) # None
      PROVE  /\ KnownOf(m) \in Listed
             /\ \/ link[m] # None /\ ~link[m].deleted /\ KnownOf(m) = link[m].key
                \/ link[m] = None /\ KnownOf(m) \in Unheld /\ notes[KnownOf(m)].body.title = BodyOf(m).title
  <2>1. CASE link[m] # None /\ ~link[m].deleted /\ link[m].key \in Listed
    BY <2>1 DEF KnownOf
  <2>2. CASE ~(link[m] # None /\ ~link[m].deleted /\ link[m].key \in Listed)
    <3> DEFINE c == {k \in Unheld : notes[k].paper = paper /\ notes[k].body.title = BodyOf(m).title}
    <3>1. link[m] = None /\ c # {} /\ KnownOf(m) = Min(c)
      BY <1>1, <2>2 DEF KnownOf, AdoptedBy
    <3>2. c \in SUBSET Nat
      <4>1. NoteKeys \subseteq Nat
        BY PagesAssumption, FS_CardinalityType
      <4> QED BY <4>1 DEF Unheld, Listed
    <3>3. KnownOf(m) \in c
      BY <3>1, <3>2, LeastIn
    <3> QED BY <3>1, <3>3 DEF Unheld
  <2> QED BY <2>1, <2>2
<1>2. \A k \in Listed : k \in NoteKeys /\ k \in UsedKeys /\ IsLive(k)
  BY DEF Listed, UsedKeys, IsLive
<1>3. ASSUME NEW m \in Added, NEW n \in Added, said[m] # None, said[n] # None, KnownOf(m) # None, KnownOf(m) = KnownOf(n) PROVE m = n
  <2>1. CASE link[m] # None /\ link[n] # None
    <3>1. HasNote(m, KnownOf(m)) /\ HasNote(n, KnownOf(m)) /\ KnownOf(m) \in NoteKeys
      BY <1>1, <1>2, <1>3, <2>1 DEF HasNote
    <3> QED BY <3>1 DEF PagesInv, NotesApart
  <2>2. CASE link[m] = None /\ link[n] = None
    <3>1. BodyOf(m).title = BodyOf(n).title
      BY <1>1, <1>3, <2>2
    <3> QED BY <1>3, <3>1, Titles DEF PagesInv
  <2>3. CASE link[m] = None /\ link[n] # None
    BY <1>1, <1>3, <2>3 DEF Unheld
  <2>4. CASE link[m] # None /\ link[n] = None
    BY <1>1, <1>3, <2>4 DEF Unheld
  <2> QED BY <2>1, <2>2, <2>3, <2>4
<1>4. \A m \in Added : link[m] # None /\ ~link[m].deleted /\ link[m].key \in Listed => KnownOf(m) = link[m].key
  BY DEF KnownOf
<1> QED BY <1>1, <1>2, <1>3, <1>4

\* A page whose note is known and that the unit writes: to be patched, or as it should be.
Refreshes(m, scope) ==
  /\ m \in Writable(scope) /\ KnownOf(m) # None
  /\ link[m] # None => ~link[m].edited /\ KnownOf(m) = link[m].key /\ notes[link[m].key].body = link[m].body
\* A page the unit does not write, whose note hangs under another paper.
Moves(m, scope) ==
  /\ m \in Leftover(scope) /\ m \notin Trashes(scope) /\ link[m].key \in Listed
  /\ notes[link[m].key].body = link[m].body /\ notes[link[m].key].paper # paper

NotesPlanIs(p, scope) ==
  /\ p.trashes \in SUBSET Added /\ p.creates \in SUBSET Creations /\ p.patches \in SUBSET NotePatches
  /\ p.records \in [Added -> NoteRecords \cup {None}]
  /\ p.trashes = Trashes(scope) /\ \A m \in p.trashes : p.records[m] = link[m]
  /\ \A c \in p.creates : /\ c.page \in Writable(scope) /\ c.paper = paper /\ c.body = BodyOf(c.page) /\ p.records[c.page] = link[c.page]
                          /\ KnownOf(c.page) = None
  /\ \A q \in p.patches : /\ p.records[q.page] = link[q.page]
                          /\ \/ Refreshes(q.page, scope) /\ q.record = Ours(KnownOf(q.page), paper, BodyOf(q.page))
                             \/ Moves(q.page, scope) /\ q.record = [link[q.page] EXCEPT !.paper = paper]
  /\ \A m \in Added :
       \/ m \in p.trashes \/ (\E c \in p.creates : c.page = m) \/ (\E q \in p.patches : q.page = m)
       \/ link[m] # None /\ p.records[m] \in {Flagged(link[m], "deleted"), Flagged(link[m], "edited")}
       \/ /\ Refreshes(m, scope) /\ notes[KnownOf(m)].body = BodyOf(m) /\ notes[KnownOf(m)].paper = paper
          /\ p.records[m] = Ours(KnownOf(m), paper, BodyOf(m))
       \/ /\ p.records[m] = link[m] /\ (m \in Writable(scope) => link[m] # None)
          /\ MayTouch(link[m]) => m \notin Writable(scope) /\ link[m].key \in Listed /\ notes[link[m].key].paper = paper
                                  /\ ~EditedByUser(m)

LEMMA NotesPlanFacts ==
  ASSUME PagesInv, paper # None, NEW scope \in SUBSET Added
  PROVE  NotesPlanIs(PlanOf(scope), scope)
<1> DEFINE left == Leftover(scope)
           ours == {m \in Writable(scope) : link[m] = None \/ (~link[m].edited /\ (link[m].deleted => again))}
           lost == {m \in left : link[m].key \notin Listed}
                   \cup {m \in ours : link[m] # None /\ ~link[m].deleted /\ KnownOf(m) = None /\ ~again}
           edited == {m \in left \cup ours : MayTouch(link[m]) /\ EditedByUser(m)}
           moves == {m \in left \ (Trashes(scope) \cup lost \cup edited) : notes[link[m].key].paper # paper}
           writes == ours \ (lost \cup edited)
           known == {m \in writes : KnownOf(m) # None}
           same(m) == notes[KnownOf(m)].body = BodyOf(m) /\ notes[KnownOf(m)].paper = paper
           createOf(m) == [page |-> m, paper |-> paper, body |-> BodyOf(m)]
           patchOf(m) == [page |-> m, record |-> Ours(KnownOf(m), paper, BodyOf(m))]
           moveOf(m) == [page |-> m, record |-> [link[m] EXCEPT !.paper = paper]]
           creates == {createOf(m) : m \in writes \ known}
           toPatch == {m \in known : ~same(m)}
           patches == {patchOf(m) : m \in toPatch} \cup {moveOf(m) : m \in moves}
           records == [m \in Added |->
              CASE m \in lost -> Flagged(link[m], "deleted")
                [] m \in edited -> Flagged(link[m], "edited")
                [] m \in known /\ same(m) -> Ours(KnownOf(m), paper, BodyOf(m))
                [] OTHER -> link[m]]
<1>1. PlanOf(scope) = [trashes |-> Trashes(scope), creates |-> creates, patches |-> patches, records |-> records]
  BY DEF PlanOf
<1>2. PagesTypes /\ paper \in Parents /\ \A m \in Added : link[m] \in NoteRecords \cup {None}
  BY DEF PagesInv, PagesTypes
<1>3. /\ Writable(scope) \subseteq Added /\ \A m \in Writable(scope) : said[m] \in Texts /\ said[m] # None
      /\ left \subseteq Added /\ \A m \in left : m \notin Writable(scope) /\ MayTouch(link[m]) /\ link[m] # None
      /\ Trashes(scope) \subseteq left /\ \A m \in Trashes(scope) : link[m].key \in Listed /\ ~EditedByUser(m)
  BY PagesAssumption DEF Writable, Leftover, Trashes, MayTouch
<1>4. \A m \in Added : link[m] # None /\ link[m].key \in Listed /\ ~EditedByUser(m) => notes[link[m].key].body = link[m].body
  BY DEF EditedByUser
<1>5. \A m \in known : Refreshes(m, scope) /\ KnownOf(m) \in NoteKeys
  <2> SUFFICES ASSUME NEW m \in known PROVE Refreshes(m, scope) /\ KnownOf(m) \in NoteKeys
    OBVIOUS
  <2>1. m \in Writable(scope) /\ m \in Added /\ KnownOf(m) # None /\ (link[m] # None => ~link[m].edited)
    BY <1>3
  <2>2. /\ KnownOf(m) \in NoteKeys /\ KnownOf(m) \in Listed
        /\ link[m] # None => ~link[m].deleted /\ KnownOf(m) = link[m].key
    BY <2>1, KnownNotes
  <2>3. link[m] # None => ~EditedByUser(m)
    BY <2>1, <2>2 DEF MayTouch
  <2> QED BY <1>4, <2>1, <2>2, <2>3 DEF Refreshes
<1>6. \A m \in moves : Moves(m, scope)
  BY <1>3, <1>4 DEF Moves
<1> HIDE DEF left, same
<1>7. \A m \in writes \ known : /\ m \in Writable(scope) /\ m \in Added /\ KnownOf(m) = None
                                /\ createOf(m) \in Creations /\ createOf(m).page = m /\ createOf(m).paper = paper /\ createOf(m).body = BodyOf(m)
  BY <1>2, <1>3, Titles DEF Creations
<1>8. \A m \in known : /\ m \in Added /\ Ours(KnownOf(m), paper, BodyOf(m)) \in NoteRecords /\ patchOf(m) \in NotePatches
                       /\ patchOf(m).page = m /\ patchOf(m).record = Ours(KnownOf(m), paper, BodyOf(m))
  <2> SUFFICES ASSUME NEW m \in known PROVE m \in Added /\ Ours(KnownOf(m), paper, BodyOf(m)) \in NoteRecords
    BY DEF NotePatches
  <2>1. m \in Added /\ said[m] \in Texts /\ KnownOf(m) \in NoteKeys
    BY <1>3, <1>5
  <2>2. BodyOf(m) \in OurBodies
    BY <1>2, <2>1, Titles
  <2> QED BY <1>2, <2>1, <2>2, NoteParts
<1>9. \A m \in moves : /\ m \in Added /\ moveOf(m) \in NotePatches /\ moveOf(m).page = m /\ moveOf(m).record = [link[m] EXCEPT !.paper = paper]
  <2> SUFFICES ASSUME NEW m \in moves PROVE m \in Added /\ [link[m] EXCEPT !.paper = paper] \in NoteRecords
    BY DEF NotePatches
  <2> QED BY <1>2, <1>3, NoteParts
<1> HIDE DEF createOf, patchOf, moveOf
<1>10. ASSUME NEW m \in Added
       PROVE  /\ m \in lost => records[m] = Flagged(link[m], "deleted") /\ link[m] # None
              /\ m \in edited /\ m \notin lost => records[m] = Flagged(link[m], "edited") /\ link[m] # None
              /\ m \in known /\ same(m) => records[m] = Ours(KnownOf(m), paper, BodyOf(m))
              /\ m \notin lost /\ m \notin edited /\ ~(m \in known /\ same(m)) => records[m] = link[m]
  <2>1. m \in known => m \notin lost /\ m \notin edited
    OBVIOUS
  <2>2. records[m] = CASE m \in lost -> Flagged(link[m], "deleted")
                [] m \in edited -> Flagged(link[m], "edited")
                [] m \in known /\ same(m) -> Ours(KnownOf(m), paper, BodyOf(m))
                [] OTHER -> link[m]
    OBVIOUS
  <2>3. m \in edited => m \notin lost
    <3>1. m \in edited => link[m].key \in Listed /\ link[m] # None /\ ~link[m].deleted
      BY DEF MayTouch, EditedByUser
    <3>2. m \in edited => KnownOf(m) = link[m].key /\ KnownOf(m) # None
      BY <1>2, <3>1, KnownNotes, PagesAssumption, NoteParts DEF Listed
    <3> QED BY <3>1, <3>2
  <2>4. m \in lost \cup edited => link[m] # None
    BY <1>3 DEF MayTouch
  <2> HIDE DEF lost, edited, known, records
  <2> QED BY <2>1, <2>2, <2>3, <2>4
<1>11. \A m \in Added : records[m] \in NoteRecords \cup {None}
  <2> SUFFICES ASSUME NEW m \in Added PROVE records[m] \in NoteRecords \cup {None}
    OBVIOUS
  <2> HIDE DEF lost, edited, known, records
  <2> QED BY <1>2, <1>8, <1>10, NoteParts
<1>12. /\ \A m \in writes \ known : m \notin lost /\ m \notin edited /\ m \notin known
       /\ \A m \in toPatch : m \in known /\ m \notin lost /\ m \notin edited /\ ~same(m)
       /\ \A m \in moves : m \notin lost /\ m \notin edited /\ m \notin known
  BY <1>3
<1>13. Trashes(scope) \in SUBSET Added /\ creates \in SUBSET Creations /\ patches \in SUBSET NotePatches /\ records \in [Added -> NoteRecords \cup {None}]
  <2>1. records \in [Added -> NoteRecords \cup {None}]
    BY <1>11
  <2> HIDE DEF lost, edited, moves, writes, known, toPatch, records
  <2>2. creates \in SUBSET Creations
    BY <1>7
  <2>3. patches \in SUBSET NotePatches
    BY <1>8, <1>9, <1>12, ZenonT(40)
  <2> QED BY <1>3, <2>1, <2>2, <2>3
<1>14. \A m \in Trashes(scope) : records[m] = link[m]
  <2> SUFFICES ASSUME NEW m \in Trashes(scope) PROVE m \in Added /\ m \notin lost /\ m \notin edited /\ m \notin known
    BY <1>10
  <2> QED BY <1>3 DEF left
<1>15. \A c \in creates : /\ c.page \in Writable(scope) /\ c.paper = paper /\ c.body = BodyOf(c.page) /\ records[c.page] = link[c.page]
                          /\ KnownOf(c.page) = None
  <2> HIDE DEF lost, edited, moves, writes, known, toPatch, records
  <2>1. \A m \in writes \ known : records[m] = link[m]
    BY <1>7, <1>10, <1>12
  <2> QED BY <1>7, <2>1
<1>16. \A q \in patches : /\ records[q.page] = link[q.page]
                          /\ \/ Refreshes(q.page, scope) /\ q.record = Ours(KnownOf(q.page), paper, BodyOf(q.page))
                             \/ Moves(q.page, scope) /\ q.record = [link[q.page] EXCEPT !.paper = paper]
  <2> HIDE DEF lost, edited, moves, writes, known, toPatch, records
  <2>1. \A m \in toPatch : records[m] = link[m]
    BY <1>8, <1>10, <1>12
  <2>2. \A m \in moves : records[m] = link[m]
    BY <1>9, <1>10, <1>12
  <2> SUFFICES ASSUME NEW q \in patches
               PROVE  /\ records[q.page] = link[q.page]
                      /\ \/ Refreshes(q.page, scope) /\ q.record = Ours(KnownOf(q.page), paper, BodyOf(q.page))
                         \/ Moves(q.page, scope) /\ q.record = [link[q.page] EXCEPT !.paper = paper]
    OBVIOUS
  <2>3. CASE \E m \in toPatch : q = patchOf(m)
    BY <1>5, <1>8, <1>12, <2>1, <2>3
  <2>4. CASE \E m \in moves : q = moveOf(m)
    <3>1. PICK m \in moves : q = moveOf(m)
      BY <2>4
    <3>2. q.page = m /\ q.record = [link[m] EXCEPT !.paper = paper]
      BY <1>9, <3>1
    <3> QED BY <1>6, <2>2, <3>1, <3>2
  <2> QED BY <2>3, <2>4
<1>17. \A m \in Added :
       \/ m \in Trashes(scope) \/ (\E c \in creates : c.page = m) \/ (\E q \in patches : q.page = m)
       \/ link[m] # None /\ records[m] \in {Flagged(link[m], "deleted"), Flagged(link[m], "edited")}
       \/ /\ Refreshes(m, scope) /\ notes[KnownOf(m)].body = BodyOf(m) /\ notes[KnownOf(m)].paper = paper
          /\ records[m] = Ours(KnownOf(m), paper, BodyOf(m))
       \/ /\ records[m] = link[m] /\ (m \in Writable(scope) => link[m] # None)
          /\ MayTouch(link[m]) => m \notin Writable(scope) /\ link[m].key \in Listed /\ notes[link[m].key].paper = paper
                                  /\ ~EditedByUser(m)
  <2> SUFFICES ASSUME NEW m \in Added, m \notin Trashes(scope), ~\E c \in creates : c.page = m, ~\E q \in patches : q.page = m
               PROVE  \/ link[m] # None /\ records[m] \in {Flagged(link[m], "deleted"), Flagged(link[m], "edited")}
                      \/ /\ Refreshes(m, scope) /\ notes[KnownOf(m)].body = BodyOf(m) /\ notes[KnownOf(m)].paper = paper
                         /\ records[m] = Ours(KnownOf(m), paper, BodyOf(m))
                      \/ /\ records[m] = link[m] /\ (m \in Writable(scope) => link[m] # None)
                         /\ MayTouch(link[m]) => m \notin Writable(scope) /\ link[m].key \in Listed /\ notes[link[m].key].paper = paper
                                                 /\ ~EditedByUser(m)
    OBVIOUS
  <2>1. m \notin writes \ known /\ m \notin toPatch /\ m \notin moves
    <3> HIDE DEF lost, edited, moves, writes, known, toPatch, records
    <3>1. m \notin writes \ known
      BY <1>7, Zenon
    <3>2. m \notin toPatch
      BY <1>8, <1>12, Zenon
    <3>3. m \notin moves
      BY <1>9, Zenon
    <3> QED BY <3>1, <3>2, <3>3
  <2>2. CASE m \in lost
    BY <1>10, <2>2
  <2>3. CASE m \in edited /\ m \notin lost
    BY <1>10, <2>3
  <2>4. CASE m \in known /\ m \notin lost /\ m \notin edited
    BY <1>5, <1>10, <2>1, <2>4 DEF same
  <2>5. CASE m \notin known /\ m \notin lost /\ m \notin edited
    <3>1. m \notin writes /\ m \notin ours
      BY <2>1, <2>5
    <3>2. records[m] = link[m]
      BY <1>10, <2>5
    <3>3. m \in Writable(scope) => link[m] # None /\ ~MayTouch(link[m])
      BY <3>1 DEF MayTouch
    <3>4. CASE m \notin Writable(scope) /\ MayTouch(link[m])
      <4>1. m \in left
        BY <3>4 DEF left, Leftover
      <4>2. link[m].key \in Listed /\ ~EditedByUser(m)
        BY <2>5, <3>4, <4>1
      <4>3. notes[link[m].key].paper = paper
        BY <2>1, <2>5, <4>1
      <4> QED BY <3>2, <3>4, <4>2, <4>3
    <3> QED BY <3>2, <3>3, <3>4
  <2> QED BY <2>2, <2>3, <2>4, <2>5
<1> QED
  <2> DEFINE p == PlanOf(scope)
  <2> HIDE DEF creates, patches, records, p
  <2>1. p.trashes = Trashes(scope) /\ p.creates = creates /\ p.patches = patches /\ p.records = records
    BY <1>1 DEF p
  <2> QED BY <1>13, <1>14, <1>15, <1>16, <1>17, <2>1 DEF NotesPlanIs, p

LEMMA NothingToNote ==
  /\ NoWork \in Works /\ NoWork.trashes = {} /\ NoWork.creates = {} /\ NoWork.patches = {}
  /\ work = NoWork => \A m : ~IsCreated(m) /\ ~IsPatched(m) /\ ~IsDue(m)
  /\ work' = NoWork => \A m : ~IsCreated(m)' /\ ~IsPatched(m)' /\ ~IsDue(m)'
  BY DEF NoWork, Works, IsCreated, IsPatched, IsDue

LEMMA BeginNotesStep ==
  ASSUME PagesInv, NEW scope \in SUBSET Added, NEW access, BeginNotes(scope, access)
  PROVE  PagesInv'
<1> DEFINE p == PlanOf(scope)
<1>1. /\ doing = "idle" /\ copy = link /\ ~missed /\ work = NoWork /\ paper # None
      /\ work' = [trashes |-> p.trashes, creates |-> p.creates, patches |-> p.patches] /\ copy' = p.records
      /\ doing' = "noting" /\ again' = FALSE /\ settled' = (scope = Added)
      /\ UNCHANGED <<lossy, said, paper, notes, link, missed>>
  BY DEF BeginNotes, theWorld, PagesInv, PagesTypes
<1>2. NotesPlanIs(p, scope)
  BY <1>1, NotesPlanFacts
<1> HIDE DEF p
<1>3. /\ p.trashes \in SUBSET Added /\ p.creates \in SUBSET Creations /\ p.patches \in SUBSET NotePatches
      /\ p.records \in [Added -> NoteRecords \cup {None}]
  BY <1>2 DEF NotesPlanIs
<1>4. work' \in Works /\ work'.trashes = p.trashes /\ work'.creates = p.creates /\ work'.patches = p.patches
  BY <1>1, <1>3 DEF Works
<1>5. PagesTypes'
  BY <1>1, <1>3, <1>4 DEF PagesInv, PagesTypes
<1>6. UsedKeys' = UsedKeys
  BY <1>1 DEF UsedKeys
<1>7. PagesTypes /\ paper \in Parents /\ \A m \in Added : link[m] \in NoteRecords \cup {None}
  BY <1>1 DEF PagesInv, PagesTypes
<1>8. \A m : m \in Writable(scope) => m \in Added /\ said[m] \in Texts /\ said[m] # None
  BY PagesAssumption DEF Writable
<1>9. ASSUME NEW m, Refreshes(m, scope)
      PROVE  /\ m \in Added /\ said[m] \in Texts /\ KnownOf(m) \in NoteKeys /\ KnownOf(m) \in UsedKeys /\ IsLive(KnownOf(m))
             /\ Ours(KnownOf(m), paper, BodyOf(m)) \in NoteRecords /\ Ours(KnownOf(m), paper, BodyOf(m)).key = KnownOf(m)
             /\ Ours(KnownOf(m), paper, BodyOf(m)).paper = paper /\ Ours(KnownOf(m), paper, BodyOf(m)).body = BodyOf(m)
             /\ KnownOf(m) # None
  <2>1. m \in Added /\ said[m] \in Texts /\ KnownOf(m) # None
    BY <1>8, <1>9 DEF Refreshes
  <2>2. BodyOf(m) \in OurBodies /\ KnownOf(m) \in NoteKeys
    BY <1>7, <2>1, Titles, KnownNotes
  <2>3. /\ Ours(KnownOf(m), paper, BodyOf(m)) \in NoteRecords /\ Ours(KnownOf(m), paper, BodyOf(m)).key = KnownOf(m)
        /\ Ours(KnownOf(m), paper, BodyOf(m)).paper = paper /\ Ours(KnownOf(m), paper, BodyOf(m)).body = BodyOf(m)
    BY <1>7, <2>2, NoteParts
  <2> QED BY <2>1, <2>3, KnownNotes
<1>10. ASSUME NEW m, Moves(m, scope)
       PROVE  /\ m \in Added /\ link[m] \in NoteRecords /\ [link[m] EXCEPT !.paper = paper].key = link[m].key
              /\ [link[m] EXCEPT !.paper = paper].paper = paper /\ (said[m] \notin Texts \/ m \notin scope)
  <2>1. m \in Added /\ link[m] # None /\ m \notin Writable(scope)
    BY <1>10 DEF Moves, Leftover, MayTouch
  <2> QED BY <1>7, <2>1, NoteParts DEF Writable
\* A page has to do with the note on its record, or the one it is known by.
<1>11. ASSUME NEW m \in Added, NEW k \in NoteKeys, HasNote(m, k)'
       PROVE  (link[m] # None /\ link[m].key = k) \/ (KnownOf(m) # None /\ said[m] # None /\ KnownOf(m) = k)
  <2>1. CASE link[m] # None /\ link[m].key = k
    BY <2>1
  <2>2. CASE p.records[m] # None /\ p.records[m].key = k
    <3>1. CASE p.records[m] = link[m]
      BY <2>2, <3>1
    <3>2. CASE link[m] # None /\ p.records[m] \in {Flagged(link[m], "deleted"), Flagged(link[m], "edited")}
      BY <1>7, <2>2, <3>2, NoteParts
    <3>3. CASE Refreshes(m, scope) /\ p.records[m] = Ours(KnownOf(m), paper, BodyOf(m))
      BY <1>9, <2>2, <3>3, PagesAssumption
    <3>4. \/ m \in p.trashes \/ (\E c \in p.creates : c.page = m) \/ (\E q \in p.patches : q.page = m)
          \/ link[m] # None /\ p.records[m] \in {Flagged(link[m], "deleted"), Flagged(link[m], "edited")}
          \/ Refreshes(m, scope) /\ p.records[m] = Ours(KnownOf(m), paper, BodyOf(m))
          \/ p.records[m] = link[m]
      BY <1>2, Zenon DEF NotesPlanIs
    <3>5. m \in p.trashes \/ (\E c \in p.creates : c.page = m) \/ (\E q \in p.patches : q.page = m) => p.records[m] = link[m]
      BY <1>2, ZenonT(40) DEF NotesPlanIs
    <3> QED BY <3>1, <3>2, <3>3, <3>4, <3>5
  <2>3. ASSUME NEW q \in p.patches, q.page = m, q.record.key = k
        PROVE  (link[m] # None /\ link[m].key = k) \/ (KnownOf(m) # None /\ said[m] # None /\ KnownOf(m) = k)
    <3>1. CASE Refreshes(m, scope) /\ q.record = Ours(KnownOf(m), paper, BodyOf(m))
      BY <1>9, <2>3, <3>1, PagesAssumption
    <3>2. CASE Moves(m, scope) /\ q.record = [link[m] EXCEPT !.paper = paper]
      BY <1>10, <2>3, <3>2, NoteParts
    <3> QED BY <1>2, <2>3, <3>1, <3>2 DEF NotesPlanIs
  <2> QED BY <1>1, <1>4, <1>11, <2>1, <2>2, <2>3 DEF HasNote
<1>12. ASSUME NEW m \in Added, link[m] # None PROVE HasNote(m, link[m].key) /\ link[m].key \in NoteKeys
  BY <1>7, <1>12, NoteParts DEF HasNote
<1>13. NotesApart'
  <2> SUFFICES ASSUME NEW m \in Added, NEW n \in Added, NEW k \in NoteKeys, HasNote(m, k)', HasNote(n, k)' PROVE m = n
    BY DEF NotesApart
  <2>1. CASE link[m] # None /\ link[m].key = k /\ link[n] # None /\ link[n].key = k
    BY <1>12, <2>1 DEF PagesInv, NotesApart
  <2>2. ASSUME NEW a \in Added, NEW b \in Added, link[a] # None, link[a].key = k, KnownOf(b) # None, said[b] # None, KnownOf(b) = k PROVE a = b
    <3>1. link[b] # None /\ link[b].key = k
      BY <2>2, KnownNotes DEF Unheld
    <3> QED BY <1>12, <2>2, <3>1 DEF PagesInv, NotesApart
  <2>3. CASE KnownOf(m) # None /\ said[m] # None /\ KnownOf(m) = k /\ KnownOf(n) # None /\ said[n] # None /\ KnownOf(n) = k
    BY <2>3, KnownNotes
  <2> QED BY <1>11, <2>1, <2>2, <2>3
<1>14. NotesMade'
  <2> SUFFICES ASSUME NEW m \in Added, NEW k \in NoteKeys, HasNote(m, k)' PROVE k \in UsedKeys
    BY <1>6 DEF NotesMade
  <2>1. CASE link[m] # None /\ link[m].key = k
    BY <1>12, <2>1 DEF PagesInv, NotesMade
  <2> QED BY <1>11, <2>1, KnownNotes
<1>15. WorkApart'
  <2>1. \A c, d \in p.creates : c.page = d.page => c = d
    BY <1>2, <1>3 DEF NotesPlanIs, Creations
  <2>2. ASSUME NEW q \in p.patches, NEW r \in p.patches, q.page = r.page PROVE q.record = r.record
    <3>1. ~(Refreshes(q.page, scope) /\ Moves(q.page, scope))
      BY DEF Refreshes, Moves, Leftover
    <3>2. \/ Refreshes(q.page, scope) /\ q.record = Ours(KnownOf(q.page), paper, BodyOf(q.page))
          \/ Moves(q.page, scope) /\ q.record = [link[q.page] EXCEPT !.paper = paper]
      BY <1>2 DEF NotesPlanIs
    <3>3. \/ Refreshes(q.page, scope) /\ r.record = Ours(KnownOf(q.page), paper, BodyOf(q.page))
          \/ Moves(q.page, scope) /\ r.record = [link[q.page] EXCEPT !.paper = paper]
      <4>1. \/ Refreshes(r.page, scope) /\ r.record = Ours(KnownOf(r.page), paper, BodyOf(r.page))
            \/ Moves(r.page, scope) /\ r.record = [link[r.page] EXCEPT !.paper = paper]
        BY <1>2 DEF NotesPlanIs
      <4> QED BY <2>2, <4>1
    <3> QED BY <3>1, <3>2, <3>3
  <2>3. \A q, r \in p.patches : q.page = r.page => q = r
    BY <1>3, <2>2 DEF NotePatches
  <2>4. ASSUME NEW c \in p.creates, NEW q \in p.patches, c.page = q.page PROVE FALSE
    <3>1. c.page \in Writable(scope) /\ KnownOf(c.page) = None
      BY <1>2 DEF NotesPlanIs
    <3>2. ~Moves(c.page, scope) /\ ~Refreshes(c.page, scope)
      BY <3>1 DEF Refreshes, Moves, Leftover
    <3> QED BY <1>2, <2>4, <3>2, ZenonT(40) DEF NotesPlanIs
  <2>5. ASSUME NEW m \in p.trashes PROVE (\A c \in p.creates : c.page # m) /\ (\A q \in p.patches : q.page # m)
    <3>1. m \in Trashes(scope) /\ m \notin Writable(scope)
      BY <1>2 DEF NotesPlanIs, Trashes, Leftover
    <3>2. ~Moves(m, scope) /\ ~Refreshes(m, scope)
      BY <3>1 DEF Refreshes, Moves
    <3> QED BY <1>2, <3>1, <3>2, ZenonT(40) DEF NotesPlanIs
  <2>6. \A m \in Added : m \in p.trashes \/ (\E c \in p.creates : c.page = m) \/ (\E q \in p.patches : q.page = m) => p.records[m] = link[m]
    BY <1>2, ZenonT(40) DEF NotesPlanIs
  <2> QED BY <1>1, <1>4, <2>1, <2>3, <2>4, <2>5, <2>6 DEF WorkApart, IsDue, IsCreated, IsPatched
<1>16. ReadAsOurs'
  <2>1. ASSUME NEW m \in p.trashes PROVE link[m] # None /\ notes[link[m].key].body.text # ByUser
    <3>1. m \in Added /\ link[m] # None /\ link[m].key \in Listed /\ ~EditedByUser(m)
      BY <1>2 DEF NotesPlanIs, Trashes, Leftover, MayTouch
    <3> QED BY <1>7, <3>1, NoteParts DEF EditedByUser
  <2>2. ASSUME NEW q \in p.patches, link[q.page] # None PROVE q.record.key = link[q.page].key /\ notes[q.record.key].body.text # ByUser
    <3>1. q.page \in Added /\ link[q.page] \in NoteRecords
      BY <1>3, <1>7, <2>2 DEF NotePatches
    <3>2. CASE Refreshes(q.page, scope) /\ q.record = Ours(KnownOf(q.page), paper, BodyOf(q.page))
      <4>1. q.record.key = link[q.page].key /\ notes[link[q.page].key].body = link[q.page].body
        BY <1>9, <2>2, <3>2 DEF Refreshes
      <4> QED BY <3>1, <4>1, NoteParts
    <3>3. CASE Moves(q.page, scope) /\ q.record = [link[q.page] EXCEPT !.paper = paper]
      <4>1. q.record.key = link[q.page].key /\ notes[link[q.page].key].body = link[q.page].body
        BY <1>10, <3>3 DEF Moves
      <4> QED BY <3>1, <4>1, NoteParts
    <3> QED BY <1>2, <3>2, <3>3 DEF NotesPlanIs
  <2> QED BY <1>1, <1>4, <2>1, <2>2 DEF ReadAsOurs, NotTheirs
<1>17. OnItsWay'
  <2> SUFFICES ASSUME scope = Added PROVE OnItsWay'
    BY <1>1 DEF OnItsWay
  <2>1. \A m \in Added : m \in Writable(scope) <=> said[m] \in Texts
    BY DEF Writable
  \* A page that is gone from the document has no note to keep, unless there is none of it or the user wrote into it.
  <2>2. ASSUME NEW m \in Added, MayTouch(link[m]), m \notin Writable(scope), m \notin Trashes(scope), link[m].key \in Listed, ~EditedByUser(m)
        PROVE  said[m] # None
    BY <2>2, PagesAssumption DEF Trashes, Leftover
  <2>3. ASSUME NEW m \in Added, m \notin p.trashes, ~\E c \in p.creates : c.page = m, ~\E q \in p.patches : q.page = m
        PROVE  Shows(m, copy[m])'
    <3>1. CASE link[m] # None /\ p.records[m] \in {Flagged(link[m], "deleted"), Flagged(link[m], "edited")}
      <4>1. p.records[m] # None /\ ~MayTouch(p.records[m])
        BY <1>7, <3>1, NoteParts DEF MayTouch
      <4> QED BY <1>1, <4>1 DEF Shows, MayTouch
    <3>2. CASE /\ Refreshes(m, scope) /\ notes[KnownOf(m)].body = BodyOf(m) /\ notes[KnownOf(m)].paper = paper
               /\ p.records[m] = Ours(KnownOf(m), paper, BodyOf(m))
      <4>1. p.records[m] # None /\ p.records[m].key = KnownOf(m) /\ IsLive(KnownOf(m)) /\ said[m] # None
        BY <1>8, <1>9, <3>2, NoteParts DEF Refreshes
      <4>2. BodyOf(m)' = BodyOf(m)
        BY <1>1 DEF BodyOf
      <4> QED BY <1>1, <3>2, <4>1, <4>2 DEF Shows, IsLive
    <3>3. CASE /\ p.records[m] = link[m] /\ (m \in Writable(scope) => link[m] # None)
               /\ MayTouch(link[m]) => m \notin Writable(scope) /\ link[m].key \in Listed /\ notes[link[m].key].paper = paper
                                       /\ ~EditedByUser(m)
      <4>1. MayTouch(link[m]) => said[m] \notin Texts /\ said[m] # None /\ IsLive(link[m].key) /\ notes[link[m].key].paper = paper
        <5>1. p.trashes = Trashes(scope)
          BY <1>2 DEF NotesPlanIs
        <5> QED BY <2>1, <2>2, <2>3, <3>3, <5>1 DEF Listed
      <4> QED BY <1>1, <2>1, <3>3, <4>1 DEF Shows, IsLive, MayTouch
    <3> QED BY <1>2, <2>3, <3>1, <3>2, <3>3 DEF NotesPlanIs
  <2>4. \A m \in p.trashes : said[m] \notin Texts
    BY <1>2, <2>1 DEF NotesPlanIs, Trashes, Leftover
  <2>5. \A c \in p.creates : c.paper = paper /\ c.body = BodyOf(c.page) /\ said[c.page] # None
    BY <1>2, <1>8 DEF NotesPlanIs
  <2>6. ASSUME NEW q \in p.patches
        PROVE  q.record.paper = paper /\ said[q.page] # None /\ (said[q.page] \in Texts => q.record.body = BodyOf(q.page))
    <3>1. CASE Refreshes(q.page, scope) /\ q.record = Ours(KnownOf(q.page), paper, BodyOf(q.page))
      BY <1>9, <3>1, PagesAssumption
    <3>2. CASE Moves(q.page, scope) /\ q.record = [link[q.page] EXCEPT !.paper = paper]
      <4>1. q.page \in Added /\ q.record.paper = paper /\ said[q.page] \notin Texts
        BY <1>10, <3>2
      <4>2. /\ MayTouch(link[q.page]) /\ q.page \notin Writable(scope) /\ q.page \notin Trashes(scope) /\ link[q.page].key \in Listed
            /\ notes[link[q.page].key].body = link[q.page].body
        BY <3>2 DEF Moves, Leftover
      <4>3. said[q.page] # None
        BY <2>2, <4>1, <4>2 DEF EditedByUser
      <4> QED BY <4>1, <4>3
    <3> QED BY <1>2, <3>1, <3>2 DEF NotesPlanIs
  <2>7. \A m : BodyOf(m)' = BodyOf(m)
    BY <1>1 DEF BodyOf
  <2> QED BY <1>1, <1>4, <2>3, <2>4, <2>5, <2>6, <2>7 DEF OnItsWay, IsDue, IsCreated, IsPatched
<1>18. NotesInOrder'
  BY <1>6 DEF PagesInv, NotesInOrder
<1> QED BY <1>5, <1>13, <1>14, <1>15, <1>16, <1>17, <1>18 DEF PagesInv

\* A page's work, done or given up.
LEMMA NotesGoOn ==
  ASSUME PagesInv, doing = "noting", UNCHANGED <<lossy, said, paper, again, link, doing, settled>>, missed' \in BOOLEAN,
         work' \in Works, work'.trashes \subseteq work.trashes, work'.creates \subseteq work.creates, work'.patches \subseteq work.patches,
         copy' \in [Added -> NoteRecords \cup {None}],
         \A m \in Added : copy'[m] = copy[m] \/ (~IsDue(m)' /\ copy'[m] # None /\ HasNote(m, copy'[m].key)),
         notes' \in [NoteKeys -> NoteItems \cup {None}], \A k \in NoteKeys : (notes'[k] = None) = (notes[k] = None),
         \A k \in NoteKeys : NotTheirs(k) => NotTheirs(k)'
  PROVE  PagesTypes' /\ NotesInOrder' /\ NotesApart' /\ NotesMade' /\ WorkApart' /\ ReadAsOurs'
<1>1. PagesTypes'
  BY DEF PagesInv, PagesTypes
<1>2. UsedKeys' = UsedKeys
  BY DEF UsedKeys
<1>3. \A m \in Added, k \in NoteKeys : HasNote(m, k)' => HasNote(m, k)
  BY DEF HasNote
<1>4. \A m \in Added : (IsCreated(m)' => IsCreated(m)) /\ (IsPatched(m)' => IsPatched(m)) /\ (IsDue(m)' => IsDue(m))
  BY DEF IsDue, IsCreated, IsPatched
<1>5. NotesApart' /\ NotesMade' /\ NotesInOrder'
  BY <1>2, <1>3 DEF PagesInv, NotesApart, NotesMade, NotesInOrder
<1>6. WorkApart'
  <2>1. \A m \in Added : IsDue(m)' => copy'[m] = link'[m]
    BY <1>4 DEF PagesInv, WorkApart
  <2>2. \A m \in Added : ~(IsCreated(m) /\ IsPatched(m))' /\ (m \in work'.trashes => ~IsCreated(m)' /\ ~IsPatched(m)')
    BY <1>4 DEF PagesInv, WorkApart
  <2>3. /\ \A c, d \in work'.creates : c.page = d.page => c = d
        /\ \A p, q \in work'.patches : p.page = q.page => p = q
    BY DEF PagesInv, WorkApart
  <2> QED BY <2>1, <2>2, <2>3 DEF WorkApart
<1>7. ReadAsOurs'
  <2>1. \A m \in work.trashes : link[m] # None /\ link[m].key \in NoteKeys
    BY NoteParts DEF PagesInv, PagesTypes, Works, ReadAsOurs
  <2>2. \A p \in work.patches : p.record.key \in NoteKeys
    BY NoteParts DEF PagesInv, PagesTypes, Works, NotePatches
  <2>3. \A m \in work'.trashes : link[m] # None /\ NotTheirs(link[m].key)'
    BY <2>1 DEF PagesInv, ReadAsOurs
  <2>4. \A p \in work'.patches : link[p.page] # None => p.record.key = link[p.page].key /\ NotTheirs(p.record.key)'
    BY <2>2 DEF PagesInv, ReadAsOurs
  <2> QED BY <2>3, <2>4 DEF ReadAsOurs
<1> QED BY <1>1, <1>5, <1>6, <1>7

\* The work with one piece less.
LEMMA WorkLess ==
  ASSUME PagesTypes, NEW m, NEW p
  PROVE  /\ [work EXCEPT !.trashes = @ \ {m}] \in Works /\ [work EXCEPT !.trashes = @ \ {m}].trashes = work.trashes \ {m}
         /\ [work EXCEPT !.trashes = @ \ {m}].creates = work.creates /\ [work EXCEPT !.trashes = @ \ {m}].patches = work.patches
         /\ [work EXCEPT !.creates = {}] \in Works /\ [work EXCEPT !.creates = {}].trashes = work.trashes
         /\ [work EXCEPT !.creates = {}].creates = {} /\ [work EXCEPT !.creates = {}].patches = work.patches
         /\ [work EXCEPT !.patches = @ \ {p}] \in Works /\ [work EXCEPT !.patches = @ \ {p}].trashes = work.trashes
         /\ [work EXCEPT !.patches = @ \ {p}].creates = work.creates /\ [work EXCEPT !.patches = @ \ {p}].patches = work.patches \ {p}
  BY DEF PagesTypes, Works

\* The notes the work of a page is about.
LEMMA WorkNotes ==
  ASSUME PagesInv
  PROVE  /\ \A m \in work.trashes : /\ m \in Added /\ link[m] \in NoteRecords /\ link[m].key \in NoteKeys /\ link[m].key \in UsedKeys
                                   /\ HasNote(m, link[m].key) /\ copy[m] = link[m] /\ ~IsPatched(m) /\ ~IsCreated(m)
         /\ \A p \in work.patches : /\ p.page \in Added /\ p.record \in NoteRecords /\ p.record.key \in NoteKeys /\ p.record.key \in UsedKeys
                                   /\ HasNote(p.page, p.record.key) /\ copy[p.page] = link[p.page]
         /\ \A m \in Added : copy[m] # None => copy[m] \in NoteRecords /\ copy[m].key \in NoteKeys /\ copy[m].key \in UsedKeys /\ HasNote(m, copy[m].key)
         /\ \A m \in Added : link[m] # None => link[m] \in NoteRecords /\ link[m].key \in NoteKeys /\ link[m].key \in UsedKeys /\ HasNote(m, link[m].key)
<1>1. \A m \in Added : copy[m] # None => copy[m] \in NoteRecords /\ copy[m].key \in NoteKeys /\ copy[m].key \in UsedKeys /\ HasNote(m, copy[m].key)
  BY NoteParts DEF PagesInv, PagesTypes, NotesMade, HasNote
<1>2. \A m \in Added : link[m] # None => link[m] \in NoteRecords /\ link[m].key \in NoteKeys /\ link[m].key \in UsedKeys /\ HasNote(m, link[m].key)
  BY NoteParts DEF PagesInv, PagesTypes, NotesMade, HasNote
<1>3. \A m \in work.trashes : m \in Added /\ link[m] # None /\ copy[m] = link[m] /\ ~IsPatched(m) /\ ~IsCreated(m)
  BY DEF PagesInv, PagesTypes, Works, ReadAsOurs, WorkApart, IsDue
<1>4. ASSUME NEW p \in work.patches
      PROVE  /\ p.page \in Added /\ p.record \in NoteRecords /\ p.record.key \in NoteKeys /\ p.record.key \in UsedKeys
             /\ HasNote(p.page, p.record.key) /\ copy[p.page] = link[p.page]
  <2>1. p.page \in Added /\ p.record \in NoteRecords /\ p.record.key \in NoteKeys /\ IsDue(p.page)
    BY NoteParts DEF PagesInv, PagesTypes, Works, NotePatches, IsDue, IsPatched
  <2>2. HasNote(p.page, p.record.key)
    BY DEF HasNote
  <2> QED BY <2>1, <2>2 DEF PagesInv, NotesMade, WorkApart
<1> QED BY <1>1, <1>2, <1>3, <1>4

\* What the other pages show is not touched with the note of one.
LEMMA OthersShow ==
  ASSUME PagesInv, UNCHANGED <<said, paper>>, NEW m \in Added, NEW k \in NoteKeys, HasNote(m, k), \A j \in NoteKeys \ {k} : notes'[j] = notes[j],
         NEW n \in Added \ {m}, Shows(n, copy[n]), copy'[n] = copy[n]
  PROVE  Shows(n, copy[n])'
<1>1. BodyOf(n)' = BodyOf(n)
  BY DEF BodyOf
<1>2. CASE copy[n] = None
  BY <1>2 DEF Shows, MayTouch
<1>3. CASE copy[n] # None
  <2>1. copy[n].key \in NoteKeys \ {k}
    BY <1>3, WorkNotes DEF PagesInv, NotesApart
  <2>2. notes'[copy[n].key] = notes[copy[n].key]
    BY <2>1
  <2> QED BY <1>1, <2>2 DEF Shows, IsLive, MayTouch
<1> QED BY <1>2, <1>3

LEMMA TrashNoteStep == ASSUME PagesInv, NEW m \in Added, NEW o, TrashNote(m, o) PROVE PagesInv'
<1> DEFINE k == link[m].key
           i == [notes[k] EXCEPT !.live = FALSE]
<1>1. doing = "noting" /\ m \in work.trashes /\ UNCHANGED <<lossy, said, paper, again, link, doing, settled>>
  BY DEF TrashNote, theWorld
<1>2. link[m] \in NoteRecords /\ k \in NoteKeys /\ k \in UsedKeys /\ HasNote(m, k) /\ copy[m] = link[m] /\ ~IsPatched(m) /\ ~IsCreated(m)
  BY <1>1, WorkNotes
<1>3. notes[k] \in NoteItems
  BY <1>2, NotePieces DEF PagesInv
<1>4. i \in NoteItems /\ i # None /\ i.body = notes[k].body /\ i.fresh = notes[k].fresh /\ i.paper = notes[k].paper
  BY <1>3, PagesAssumption DEF NoteItems
<1>5. notes' = notes \/ notes' = [notes EXCEPT ![k] = i]
  BY DEF TrashNote
<1> HIDE DEF i
<1>6. /\ notes' \in [NoteKeys -> NoteItems \cup {None}] /\ (\A j \in NoteKeys \ {k} : notes'[j] = notes[j])
      /\ \A j \in NoteKeys : (notes'[j] = None) = (notes[j] = None)
      /\ \A j \in NoteKeys : NotTheirs(j) => NotTheirs(j)'
  <2>1. notes \in [NoteKeys -> NoteItems \cup {None}]
    BY DEF PagesInv, PagesTypes
  <2>2. notes[k] # None
    BY <1>2 DEF UsedKeys
  <2>3. \A j \in NoteKeys : notes'[j] = notes[j] \/ (j = k /\ notes'[j] = i)
    BY <1>5, <2>1
  <2> QED BY <1>2, <1>4, <1>5, <2>1, <2>2, <2>3 DEF NotTheirs
<1>7. \/ /\ work' = [work EXCEPT !.trashes = @ \ {m}]
         /\ \/ copy' = [copy EXCEPT ![m] = Flagged(link[m], "deleted")] /\ missed' = missed
            \/ copy' = [copy EXCEPT ![m] = Flagged(link[m], "edited")] /\ missed' = TRUE
      \/ work' = NoWork /\ missed' = TRUE /\ copy' = copy
  BY <1>2 DEF TrashNote, StopNoting, Conflict
<1>8. /\ work' \in Works /\ work'.trashes \subseteq work.trashes /\ work'.creates \subseteq work.creates /\ work'.patches \subseteq work.patches
      /\ missed' \in BOOLEAN /\ copy' \in [Added -> NoteRecords \cup {None}] /\ ~IsDue(m)'
  <2>1. copy \in [Added -> NoteRecords \cup {None}] /\ PagesTypes /\ missed \in BOOLEAN
    BY DEF PagesInv, PagesTypes
  <2>5. Flagged(link[m], "deleted") \in NoteRecords /\ Flagged(link[m], "edited") \in NoteRecords
    BY <1>2, NoteParts
  <2>2. copy' \in [Added -> NoteRecords \cup {None}] /\ missed' \in BOOLEAN
    BY <1>2, <1>7, <2>1, <2>5
  <2>3. CASE work' = NoWork
    BY <2>2, <2>3, NothingToNote
  <2>4. CASE work' = [work EXCEPT !.trashes = @ \ {m}]
    <3>1. work' \in Works /\ work'.trashes = work.trashes \ {m} /\ work'.creates = work.creates /\ work'.patches = work.patches
      BY <2>1, <2>4, WorkLess
    <3> QED BY <1>2, <2>2, <3>1 DEF IsDue, IsCreated, IsPatched
  <2> QED BY <1>7, <2>3, <2>4
<1>9. \A n \in Added : copy'[n] = copy[n] \/ (~IsDue(n)' /\ copy'[n] # None /\ HasNote(n, copy'[n].key))
  <2>1. copy \in [Added -> NoteRecords \cup {None}]
    BY DEF PagesInv, PagesTypes
  <2>2. \A n \in Added : copy'[n] = copy[n] \/ (n = m /\ copy'[n] \in {Flagged(link[m], "deleted"), Flagged(link[m], "edited")})
    BY <1>7, <2>1
  <2> QED BY <1>2, <1>8, <2>2, NoteParts
<1>10. OnItsWay'
  <2> SUFFICES ASSUME settled, ~missed' PROVE OnItsWay'
    BY <1>1 DEF OnItsWay
  <2>1. work' = [work EXCEPT !.trashes = @ \ {m}] /\ copy' = [copy EXCEPT ![m] = Flagged(link[m], "deleted")] /\ ~missed
    BY <1>7
  <2>2. work'.trashes = work.trashes \ {m} /\ work'.creates = work.creates /\ work'.patches = work.patches
    BY <2>1, WorkLess DEF PagesInv
  <2>3. copy'[m] = Flagged(link[m], "deleted") /\ \A n \in Added \ {m} : copy'[n] = copy[n]
    BY <2>1 DEF PagesInv, PagesTypes
  <2>4. Shows(m, copy[m])'
    BY <1>2, <2>3, NoteParts DEF Shows, MayTouch
  <2>5. ASSUME NEW n \in Added \ {m}, ~IsDue(n)' PROVE Shows(n, copy[n])'
    <3>1. Shows(n, copy[n])
      <4>1. ~IsDue(n)
        BY <2>2, <2>5 DEF IsDue, IsCreated, IsPatched
      <4> QED BY <2>1, <4>1 DEF PagesInv, OnItsWay
    <3> HIDE DEF k
    <3> QED BY <1>1, <1>2, <1>6, <2>3, <3>1, OthersShow
  <2>6. \A n : BodyOf(n)' = BodyOf(n)
    BY <1>1 DEF BodyOf
  <2> QED BY <1>1, <2>1, <2>2, <2>4, <2>5, <2>6 DEF PagesInv, OnItsWay
<1> QED BY <1>1, <1>6, <1>8, <1>9, <1>10, NotesGoOn DEF PagesInv

LEMMA PatchNoteStep == ASSUME PagesInv, NEW p \in work.patches, NEW o, PatchNote(p, o) PROVE PagesInv'
<1> DEFINE k == p.record.key
           m == p.page
           i == [notes[k] EXCEPT !.body = p.record.body, !.paper = p.record.paper]
<1>1. doing = "noting" /\ work.trashes = {} /\ work.creates = {} /\ UNCHANGED <<lossy, said, paper, again, link, doing, settled>>
  BY DEF PatchNote, theWorld
<1>2. /\ m \in Added /\ p.record \in NoteRecords /\ k \in NoteKeys /\ k \in UsedKeys /\ HasNote(m, k) /\ copy[m] = link[m]
      /\ link[m] # None => link[m] \in NoteRecords /\ HasNote(m, link[m].key)
  <2>1. /\ m \in Added /\ p.record \in NoteRecords /\ k \in NoteKeys /\ k \in UsedKeys /\ HasNote(m, k) /\ copy[m] = link[m]
    BY WorkNotes
  <2>2. link[m] # None => link[m] \in NoteRecords /\ HasNote(m, link[m].key)
    <3> HIDE DEF m
    <3> QED BY <2>1, WorkNotes
  <2> QED BY <2>1, <2>2
<1>3. notes[k] \in NoteItems /\ p.record.body \in OurBodies /\ p.record.paper \in Parents /\ p.record.body.text # ByUser
  BY <1>2, NotePieces, NoteParts DEF PagesInv
<1>4. i \in NoteItems /\ i # None /\ i.body = p.record.body /\ i.fresh = notes[k].fresh /\ i.paper = p.record.paper /\ i.live = notes[k].live
  <2>1. p.record.body \in Bodies
    BY <1>3 DEF OurBodies, Bodies
  <2> QED BY <1>3, <2>1, PagesAssumption DEF NoteItems
<1>5. notes' = notes \/ notes' = [notes EXCEPT ![k] = i]
  BY DEF PatchNote
<1> HIDE DEF i
<1>6. /\ notes' \in [NoteKeys -> NoteItems \cup {None}] /\ (\A j \in NoteKeys \ {k} : notes'[j] = notes[j])
      /\ \A j \in NoteKeys : (notes'[j] = None) = (notes[j] = None)
      /\ \A j \in NoteKeys : NotTheirs(j) => NotTheirs(j)'
  <2>1. notes \in [NoteKeys -> NoteItems \cup {None}]
    BY DEF PagesInv, PagesTypes
  <2>2. notes[k] # None
    BY <1>2 DEF UsedKeys
  <2>3. \A j \in NoteKeys : notes'[j] = notes[j] \/ (j = k /\ notes'[j] = i)
    BY <1>5, <2>1
  <2> QED BY <1>2, <1>3, <1>4, <1>5, <2>1, <2>2, <2>3 DEF NotTheirs
<1> DEFINE was == IF link[m] = None THEN p.record ELSE link[m]
<1>7. \/ /\ work' = [work EXCEPT !.patches = @ \ {p}]
         /\ \/ /\ copy' = [copy EXCEPT ![m] = p.record] /\ missed' = missed
               /\ notes' = [notes EXCEPT ![k] = i] /\ notes[k].live
            \/ copy' = [copy EXCEPT ![m] = Flagged(was, "edited")] /\ missed' = TRUE
      \/ work' = NoWork /\ missed' = TRUE /\ copy' = copy
  BY DEF PatchNote, StopNoting, Conflict, AsRead, i
<1>8. was \in NoteRecords /\ HasNote(m, was.key) /\ Flagged(was, "edited") \in NoteRecords /\ Flagged(was, "edited").key = was.key
  BY <1>2, NoteParts
<1> HIDE DEF was
<1>9. /\ work' \in Works /\ work'.trashes \subseteq work.trashes /\ work'.creates \subseteq work.creates /\ work'.patches \subseteq work.patches
      /\ missed' \in BOOLEAN /\ copy' \in [Added -> NoteRecords \cup {None}] /\ ~IsDue(m)'
  <2>1. copy \in [Added -> NoteRecords \cup {None}] /\ PagesTypes /\ missed \in BOOLEAN
    BY DEF PagesInv, PagesTypes
  <2>2. copy' \in [Added -> NoteRecords \cup {None}] /\ missed' \in BOOLEAN
    BY <1>2, <1>7, <1>8, <2>1
  <2>3. CASE work' = NoWork
    BY <2>2, <2>3, NothingToNote
  <2>4. CASE work' = [work EXCEPT !.patches = @ \ {p}]
    <3>1. work' \in Works /\ work'.trashes = work.trashes /\ work'.creates = work.creates /\ work'.patches = work.patches \ {p}
      BY <2>1, <2>4, WorkLess
    <3>2. \A q \in work'.patches : q.page # m
      BY <3>1 DEF PagesInv, WorkApart
    <3> QED BY <1>1, <2>2, <3>1, <3>2 DEF IsDue, IsCreated, IsPatched
  <2> QED BY <1>7, <2>3, <2>4
<1>10. \A n \in Added : copy'[n] = copy[n] \/ (~IsDue(n)' /\ copy'[n] # None /\ HasNote(n, copy'[n].key))
  <2>1. copy \in [Added -> NoteRecords \cup {None}]
    BY DEF PagesInv, PagesTypes
  <2>2. \A n \in Added : copy'[n] = copy[n] \/ (n = m /\ copy'[n] \in {p.record, Flagged(was, "edited")})
    BY <1>7, <2>1
  <2>3. p.record # None /\ Flagged(was, "edited") # None
    BY <1>2, <1>8, NoteParts
  <2> QED BY <1>2, <1>8, <1>9, <2>2, <2>3
<1>11. OnItsWay'
  <2> SUFFICES ASSUME settled, ~missed' PROVE OnItsWay'
    BY <1>1 DEF OnItsWay
  <2>1. /\ work' = [work EXCEPT !.patches = @ \ {p}] /\ copy' = [copy EXCEPT ![m] = p.record] /\ ~missed
        /\ notes' = [notes EXCEPT ![k] = i] /\ notes[k].live
    BY <1>7
  <2>2. work'.trashes = work.trashes /\ work'.creates = work.creates /\ work'.patches = work.patches \ {p}
    BY <2>1, WorkLess DEF PagesInv
  <2>3. copy'[m] = p.record /\ \A n \in Added \ {m} : copy'[n] = copy[n]
    BY <1>2, <2>1 DEF PagesInv, PagesTypes
  <2>4. Shows(m, copy[m])'
    <3>1. p.record.paper = paper /\ said[m] # None /\ (said[m] \in Texts => p.record.body = BodyOf(m)) /\ p.record # None
      BY <1>2, <2>1, NoteParts DEF PagesInv, OnItsWay
    <3>2. notes'[k] = i
      BY <1>2, <2>1 DEF PagesInv, PagesTypes
    <3>3. BodyOf(m)' = BodyOf(m)
      BY <1>1 DEF BodyOf
    <3> QED BY <1>1, <1>4, <2>1, <2>3, <3>1, <3>2, <3>3 DEF Shows, IsLive
  <2>5. ASSUME NEW n \in Added \ {m}, ~IsDue(n)' PROVE Shows(n, copy[n])'
    <3>1. Shows(n, copy[n])
      <4>1. ~IsDue(n)
        BY <2>2, <2>5 DEF IsDue, IsCreated, IsPatched
      <4> QED BY <2>1, <4>1 DEF PagesInv, OnItsWay
    <3> HIDE DEF k, m
    <3> QED BY <1>1, <1>2, <1>6, <2>3, <3>1, OthersShow
  <2>6. \A n : BodyOf(n)' = BodyOf(n)
    BY <1>1 DEF BodyOf
  <2> QED BY <1>1, <2>1, <2>2, <2>4, <2>5, <2>6 DEF PagesInv, OnItsWay
<1> QED BY <1>1, <1>6, <1>9, <1>10, <1>11, NotesGoOn DEF PagesInv

NoteOf(c) == [paper |-> c.paper, body |-> c.body, live |-> TRUE, fresh |-> TRUE]
\* The notes a request made: numbered on, each of its own page.
NotesNumbered(at, landed) ==
  /\ at \in [NoteKeys -> NoteItems \cup {None}]
  /\ \A c \in landed : NewKeyOf(c, landed) \in NoteKeys /\ NewKeyOf(c, landed) \notin UsedKeys /\ at[NewKeyOf(c, landed)] = NoteOf(c)
  /\ \A c, d \in landed : NewKeyOf(c, landed) = NewKeyOf(d, landed) => c = d
  /\ \A k \in UsedKeys : at[k] = notes[k]
  /\ \E n \in 0 .. Cardinality(NoteKeys) : {k \in NoteKeys : at[k] # None} = 1 .. n

LEMMA NotesLand ==
  ASSUME PagesInv, NEW landed \in SUBSET work.creates, Cardinality(UsedKeys) + Cardinality(landed) <= Cardinality(NoteKeys)
  PROVE  NotesNumbered(WithNew(landed), landed)
<1> DEFINE base == Cardinality(UsedKeys)
           size == Cardinality(landed)
           at == [c \in landed |-> c.page]
           rank(c) == Rank(landed, at, c)
<1>1. \A c \in landed : c \in Creations /\ c.page \in Added /\ NoteOf(c) \in NoteItems /\ NoteOf(c) # None
  <2> SUFFICES ASSUME NEW c \in landed PROVE c \in Creations /\ c.page \in Added /\ NoteOf(c) \in NoteItems
    BY PagesAssumption
  <2>1. c \in Creations
    BY DEF PagesInv, PagesTypes, Works
  <2>2. c.page \in Added /\ c.paper \in Parents /\ c.body \in Bodies
    BY <2>1 DEF Creations, OurBodies, Bodies
  <2> QED BY <2>1, <2>2 DEF NoteItems, NoteOf
<1>2. \A c, d \in landed : c.page = d.page => c = d
  BY DEF PagesInv, WorkApart
<1>3. IsFiniteSet(landed) /\ size \in Nat
  <2>1. IsFiniteSet(Added)
    BY PagesAssumption, FS_Interval DEF Added
  <2>2. at \in Injection(landed, Added)
    BY <1>1, <1>2 DEF Injection, IsInjective
  <2> HIDE DEF at
  <2> QED BY <2>1, <2>2, FS_Injection, FS_CardinalityType
<1>4. base \in Nat /\ UsedKeys = 1 .. base /\ Cardinality(NoteKeys) \in Nat /\ NoteKeys = 1 .. Cardinality(NoteKeys)
  <2>1. Cardinality(NoteKeys) \in Nat /\ NoteKeys = 1 .. Cardinality(NoteKeys)
    BY PagesAssumption, FS_CardinalityType
  <2>2. PICK n \in 0 .. Cardinality(NoteKeys) : UsedKeys = 1 .. n
    BY DEF PagesInv, NotesInOrder
  <2>3. n \in Nat /\ Cardinality(1 .. n) = n
    BY <2>1, <2>2, FS_Interval
  <2> QED BY <2>1, <2>2, <2>3
<1>5. at \in [landed -> Nat] /\ \A a, b \in landed : at[a] = at[b] => a = b
  BY <1>1, <1>2 DEF Added
<1>6. \A c \in landed : NewKeyOf(c, landed) = base + rank(c)
  <2>1. \A c \in landed : {d \in landed : at[d] <= at[c]} = {d \in landed : d.page <= c.page}
    OBVIOUS
  <2> QED BY <2>1 DEF Rank, NewKeyOf
<1> HIDE DEF at
<1>7. /\ \A c \in landed : rank(c) \in 1 .. size
      /\ \A c, d \in landed : rank(c) = rank(d) => c = d
      /\ \A n \in 1 .. size : \E c \in landed : rank(c) = n
  <2>1. IsFiniteSet(landed)
    BY <1>3
  <2> QED BY ONLY <1>5, <2>1, Ranks DEF rank, size
<1> HIDE DEF rank, base, size
<1>8. base + size <= Cardinality(NoteKeys)
  BY DEF base, size
<1>9. \A c \in landed : NewKeyOf(c, landed) \in base + 1 .. base + size
  BY <1>3, <1>4, <1>6, <1>7
<1>10. \A c, d \in landed : NewKeyOf(c, landed) = NewKeyOf(d, landed) => c = d
  <2> SUFFICES ASSUME NEW c \in landed, NEW d \in landed, NewKeyOf(c, landed) = NewKeyOf(d, landed) PROVE rank(c) = rank(d)
    BY <1>7
  <2>1. rank(c) \in Nat /\ rank(d) \in Nat
    BY <1>3, <1>7
  <2> QED BY <1>4, <1>6, <2>1
<1>11. \A k \in base + 1 .. base + size : \E c \in landed : NewKeyOf(c, landed) = k
  <2> SUFFICES ASSUME NEW k \in base + 1 .. base + size PROVE \E c \in landed : NewKeyOf(c, landed) = k
    OBVIOUS
  <2>1. k - base \in 1 .. size
    BY <1>3, <1>4
  <2>2. PICK c \in landed : rank(c) = k - base
    BY <1>7, <2>1
  <2> QED BY <1>3, <1>4, <1>6, <2>2
<1>12. \A k \in NoteKeys : IF \E c \in landed : NewKeyOf(c, landed) = k
                          THEN \E c \in landed : NewKeyOf(c, landed) = k /\ WithNew(landed)[k] = NoteOf(c)
                          ELSE WithNew(landed)[k] = notes[k]
  <2> SUFFICES ASSUME NEW k \in NoteKeys
               PROVE IF \E c \in landed : NewKeyOf(c, landed) = k
                     THEN \E c \in landed : NewKeyOf(c, landed) = k /\ WithNew(landed)[k] = NoteOf(c)
                     ELSE WithNew(landed)[k] = notes[k]
    OBVIOUS
  <2> DEFINE c == CHOOSE c \in landed : NewKeyOf(c, landed) = k
  <2>1. WithNew(landed)[k] = IF \E d \in landed : NewKeyOf(d, landed) = k THEN NoteOf(c) ELSE notes[k]
    BY DEF WithNew, NoteOf
  <2>2. (\E d \in landed : NewKeyOf(d, landed) = k) => c \in landed /\ NewKeyOf(c, landed) = k
    OBVIOUS
  <2> HIDE DEF c
  <2> QED BY <2>1, <2>2
<1>13. WithNew(landed) \in [NoteKeys -> NoteItems \cup {None}]
  <2>1. \A k \in NoteKeys : WithNew(landed)[k] \in NoteItems \cup {None}
    BY <1>1, <1>12 DEF PagesInv, PagesTypes
  <2> QED BY <2>1 DEF WithNew
<1>14. \A c \in landed : NewKeyOf(c, landed) \in NoteKeys /\ NewKeyOf(c, landed) \notin UsedKeys
  BY <1>3, <1>4, <1>8, <1>9
<1>15. \A c \in landed : WithNew(landed)[NewKeyOf(c, landed)] = NoteOf(c)
  BY <1>10, <1>12, <1>14
<1>16. \A k \in UsedKeys : WithNew(landed)[k] = notes[k]
  BY <1>12, <1>14 DEF UsedKeys
<1>17. {k \in NoteKeys : WithNew(landed)[k] # None} = 1 .. base + size
  <2>1. \A k \in NoteKeys : k \in UsedKeys <=> notes[k] # None
    BY DEF UsedKeys
  <2>2. \A k \in NoteKeys : WithNew(landed)[k] # None <=> k \in UsedKeys \/ \E c \in landed : NewKeyOf(c, landed) = k
    BY <1>1, <1>12, <1>14, <2>1
  <2>3. \A k \in NoteKeys : (\E c \in landed : NewKeyOf(c, landed) = k) <=> k \in base + 1 .. base + size
    BY <1>9, <1>11
  <2>4. \A k \in NoteKeys : WithNew(landed)[k] # None <=> k \in 1 .. base + size
    BY <1>3, <1>4, <2>2, <2>3
  <2>5. 1 .. base + size \subseteq NoteKeys
    BY <1>3, <1>4, <1>8
  <2> QED BY <2>4, <2>5
<1>18. base + size \in 0 .. Cardinality(NoteKeys)
  BY <1>3, <1>4, <1>8
<1> QED BY <1>10, <1>13, <1>14, <1>15, <1>16, <1>17, <1>18 DEF NotesNumbered

LEMMA CreateNotesStep == ASSUME PagesInv, NEW landed \in SUBSET work.creates, NEW o, CreateNotes(landed, o) PROVE PagesInv'
<1> DEFINE key(c) == NewKeyOf(c, landed)
           new(c) == Ours(key(c), c.paper, c.body)
<1>1. /\ doing = "noting" /\ work.trashes = {} /\ UNCHANGED <<lossy, said, paper, again, link, doing, settled>>
      /\ notes' = WithNew(landed) /\ Cardinality(UsedKeys) + Cardinality(landed) <= Cardinality(NoteKeys)
  BY DEF CreateNotes, theWorld
<1>2. \/ work' = [work EXCEPT !.creates = {}] /\ copy' = Recorded(landed) /\ missed' = (missed \/ landed # work.creates)
      \/ work' = NoWork /\ missed' = TRUE /\ copy' = copy
  BY DEF CreateNotes, StopNoting
<1>3. /\ notes' \in [NoteKeys -> NoteItems \cup {None}]
      /\ \A c \in landed : key(c) \in NoteKeys /\ key(c) \notin UsedKeys /\ notes'[key(c)] = NoteOf(c)
      /\ \A c, d \in landed : key(c) = key(d) => c = d
      /\ \A k \in UsedKeys : notes'[k] = notes[k]
      /\ NotesInOrder'
  <2>1. NotesNumbered(WithNew(landed), landed)
    BY <1>1, NotesLand
  <2> QED BY <1>1, <2>1 DEF NotesNumbered, NotesInOrder, UsedKeys
<1>4. \A c \in landed : /\ c.page \in Added /\ IsCreated(c.page) /\ NoteOf(c) # None /\ NoteOf(c).live /\ NoteOf(c).paper = c.paper /\ NoteOf(c).body = c.body
                        /\ new(c) \in NoteRecords /\ new(c).key = key(c) /\ new(c) # None
  <2> SUFFICES ASSUME NEW c \in landed
               PROVE /\ c.page \in Added /\ IsCreated(c.page) /\ NoteOf(c) \in NoteItems /\ NoteOf(c).live /\ NoteOf(c).paper = c.paper /\ NoteOf(c).body = c.body
                     /\ new(c) \in NoteRecords /\ new(c).key = key(c) /\ new(c) # None
    BY PagesAssumption
  <2>1. c \in Creations
    BY DEF PagesInv, PagesTypes, Works
  <2>2. c.page \in Added /\ c.paper \in Parents /\ c.body \in OurBodies /\ c.body \in Bodies
    BY <2>1 DEF Creations, OurBodies, Bodies
  <2>3. new(c) \in NoteRecords /\ new(c).key = key(c)
    BY <1>3, <2>2, NoteParts
  <2>4. new(c) # None
    BY <2>3, NoteParts
  <2>5. NoteOf(c) \in NoteItems /\ NoteOf(c).live /\ NoteOf(c).paper = c.paper /\ NoteOf(c).body = c.body
    BY <2>2 DEF NoteOf, NoteItems
  <2> QED BY <2>2, <2>3, <2>4, <2>5 DEF IsCreated
<1>5. \A m \in Added : IF \E c \in landed : c.page = m
                      THEN \E c \in landed : c.page = m /\ Recorded(landed)[m] = new(c)
                      ELSE Recorded(landed)[m] = copy[m]
  <2> SUFFICES ASSUME NEW m \in Added
               PROVE IF \E c \in landed : c.page = m
                     THEN \E c \in landed : c.page = m /\ Recorded(landed)[m] = new(c)
                     ELSE Recorded(landed)[m] = copy[m]
    OBVIOUS
  <2> DEFINE c == CHOOSE c \in landed : c.page = m
  <2>1. Recorded(landed)[m] = IF \E d \in landed : d.page = m THEN new(c) ELSE copy[m]
    BY DEF Recorded
  <2>2. (\E d \in landed : d.page = m) => c \in landed /\ c.page = m
    OBVIOUS
  <2> HIDE DEF c, new
  <2> QED BY <2>1, <2>2
<1> HIDE DEF key, new
<1>6. /\ work' \in Works /\ work'.trashes = {} /\ work'.creates = {} /\ work'.patches \subseteq work.patches
      /\ missed' \in BOOLEAN /\ copy' \in [Added -> NoteRecords \cup {None}]
      /\ \A m \in Added : copy'[m] = copy[m] \/ \E c \in landed : c.page = m /\ copy'[m] = new(c)
  <2>1. copy \in [Added -> NoteRecords \cup {None}] /\ PagesTypes /\ missed \in BOOLEAN
    BY DEF PagesInv, PagesTypes
  <2>2. CASE work' = NoWork /\ missed' = TRUE /\ copy' = copy
    BY <2>1, <2>2, NothingToNote
  <2>3. CASE work' = [work EXCEPT !.creates = {}] /\ copy' = Recorded(landed) /\ missed' = (missed \/ landed # work.creates)
    <3>1. work' \in Works /\ work'.trashes = work.trashes /\ work'.creates = {} /\ work'.patches = work.patches
      BY <2>1, <2>3, WorkLess
    <3>2. \A m \in Added : copy'[m] \in NoteRecords \cup {None}
      BY <1>4, <1>5, <2>1, <2>3
    <3>3. copy' \in [Added -> NoteRecords \cup {None}]
      BY <2>3, <3>2 DEF Recorded
    <3> QED BY <1>1, <1>5, <2>1, <2>3, <3>1, <3>3
  <2> QED BY <1>2, <2>2, <2>3
<1>7. PagesTypes'
  BY <1>1, <1>3, <1>6 DEF PagesInv, PagesTypes
<1>8. \A m \in Added, k \in NoteKeys : HasNote(m, k)' => HasNote(m, k) \/ \E c \in landed : c.page = m /\ k = key(c)
  BY <1>1, <1>4, <1>6 DEF HasNote
<1>9. \A m \in Added, k \in NoteKeys : HasNote(m, k) => k \in UsedKeys
  BY DEF PagesInv, NotesMade
<1>10. NotesApart'
  <2> SUFFICES ASSUME NEW m \in Added, NEW n \in Added, NEW k \in NoteKeys, HasNote(m, k)', HasNote(n, k)' PROVE m = n
    BY DEF NotesApart
  <2>1. CASE k \in UsedKeys
    BY <1>3, <1>8, <2>1 DEF PagesInv, NotesApart
  <2>2. CASE k \notin UsedKeys
    BY <1>3, <1>8, <1>9, <2>2
  <2> QED BY <2>1, <2>2
<1>11. \A k \in UsedKeys : k \in UsedKeys'
  BY <1>3 DEF UsedKeys
<1>12. NotesMade'
  <2> SUFFICES ASSUME NEW m \in Added, NEW k \in NoteKeys, HasNote(m, k)' PROVE k \in UsedKeys'
    BY DEF NotesMade
  <2>1. \A c \in landed : key(c) \in UsedKeys'
    BY <1>3, <1>4 DEF UsedKeys
  <2> QED BY <1>8, <1>9, <1>11, <2>1
<1>13. \A m \in Added : /\ ~IsCreated(m)' /\ (IsPatched(m)' => IsPatched(m) /\ ~IsCreated(m)) /\ m \notin work'.trashes
                       /\ (IsDue(m)' => IsPatched(m) /\ ~IsCreated(m))
  BY <1>6 DEF IsDue, IsCreated, IsPatched, PagesInv, WorkApart
<1>14. WorkApart'
  <2>1. \A m \in Added : IsDue(m)' => copy'[m] = link'[m]
    <3> SUFFICES ASSUME NEW m \in Added, IsDue(m)' PROVE copy'[m] = copy[m] /\ copy[m] = link[m]
      BY <1>1
    <3>1. IsDue(m) /\ ~IsCreated(m)
      BY <1>13 DEF IsDue
    <3> QED BY <1>4, <1>6, <3>1 DEF PagesInv, WorkApart
  <2>2. /\ \A c, d \in work'.creates : c.page = d.page => c = d
        /\ \A p, q \in work'.patches : p.page = q.page => p = q
    BY <1>6 DEF PagesInv, WorkApart
  <2> QED BY <1>13, <2>1, <2>2 DEF WorkApart
<1>15. ReadAsOurs'
  <2>1. \A p \in work'.patches : p \in work.patches /\ notes'[p.record.key] = notes[p.record.key]
    BY <1>3, <1>6, WorkNotes
  <2>2. \A p \in work'.patches : link[p.page] # None => p.record.key = link[p.page].key /\ NotTheirs(p.record.key)'
    BY <2>1 DEF PagesInv, ReadAsOurs, NotTheirs
  <2> QED BY <1>1, <1>6, <2>2 DEF ReadAsOurs
<1>16. OnItsWay'
  <2> SUFFICES ASSUME settled, ~missed' PROVE OnItsWay'
    BY <1>1 DEF OnItsWay
  <2>1. work' = [work EXCEPT !.creates = {}] /\ copy' = Recorded(landed) /\ ~missed /\ landed = work.creates
    BY <1>2 DEF PagesInv, PagesTypes
  <2>2. work'.patches = work.patches
    BY <2>1, WorkLess DEF PagesInv
  <2>3. \A m : BodyOf(m)' = BodyOf(m)
    BY <1>1 DEF BodyOf
  <2>4. ASSUME NEW n \in Added, IsCreated(n) PROVE Shows(n, copy[n])'
    <3>1. PICK c \in landed : c.page = n /\ copy'[n] = new(c)
      BY <1>5, <2>1, <2>4 DEF IsCreated
    <3>2. c.paper = paper /\ c.body = BodyOf(n) /\ said[n] # None
      BY <2>1, <3>1 DEF PagesInv, OnItsWay
    <3>3. notes'[new(c).key] = NoteOf(c) /\ new(c) # None
      BY <1>3, <1>4
    <3> QED BY <1>1, <1>4, <2>3, <3>1, <3>2, <3>3 DEF Shows, IsLive
  <2>5. ASSUME NEW n \in Added, ~IsCreated(n), ~IsDue(n)' PROVE Shows(n, copy[n])'
    <3>1. Shows(n, copy[n]) /\ copy'[n] = copy[n]
      <4>1. ~IsDue(n)
        BY <1>1, <2>2, <2>5 DEF IsDue, IsPatched
      <4>2. copy'[n] = copy[n]
        BY <1>4, <1>6, <2>5
      <4> QED BY <2>1, <4>1, <4>2 DEF PagesInv, OnItsWay
    <3>2. CASE copy[n] = None
      BY <1>1, <3>1, <3>2 DEF Shows, MayTouch
    <3>3. CASE copy[n] # None
      <4>1. notes'[copy[n].key] = notes[copy[n].key]
        BY <1>3, <3>3, WorkNotes
      <4> QED BY <1>1, <2>3, <3>1, <4>1 DEF Shows, IsLive, MayTouch
    <3> QED BY <3>2, <3>3
  <2>6. \A p \in work'.patches : /\ p.record.paper = paper /\ said[p.page] # None
                                 /\ said[p.page] \in Texts => p.record.body = BodyOf(p.page)
    BY <2>1, <2>2 DEF PagesInv, OnItsWay
  <2> QED BY <1>1, <1>6, <2>3, <2>4, <2>5, <2>6 DEF OnItsWay
<1> QED BY <1>3, <1>7, <1>10, <1>12, <1>14, <1>15, <1>16 DEF PagesInv

\* Between two passes: the record is the pass's own or the one before it, and every version is read anew.
LEMMA NotingEnds ==
  ASSUME PagesInv, doing = "noting", EndNoting, UNCHANGED <<lossy, said, paper, again>>,
         \/ link' = copy /\ work = NoWork /\ settled' = (settled /\ ~missed)
         \/ link' = link /\ settled' = FALSE
  PROVE  PagesInv'
<1>1. /\ work' = NoWork /\ work' \in Works /\ work'.trashes = {} /\ work'.creates = {} /\ work'.patches = {}
      /\ copy' = link' /\ doing' = "idle" /\ missed' = FALSE
  BY NothingToNote DEF EndNoting
<1>2. /\ notes' \in [NoteKeys -> NoteItems \cup {None}]
      /\ \A k \in NoteKeys : (notes'[k] = None) = (notes[k] = None)
      /\ \A k \in UsedKeys : notes'[k].body = notes[k].body /\ notes'[k].paper = notes[k].paper /\ notes'[k].live = notes[k].live
  <2>1. \A k \in NoteKeys : notes'[k] = IF notes[k] = None THEN None ELSE [notes[k] EXCEPT !.fresh = TRUE]
    BY DEF EndNoting
  <2>2. \A k \in UsedKeys : /\ [notes[k] EXCEPT !.fresh = TRUE] \in NoteItems
                           /\ [notes[k] EXCEPT !.fresh = TRUE].body = notes[k].body /\ [notes[k] EXCEPT !.fresh = TRUE].paper = notes[k].paper
                           /\ [notes[k] EXCEPT !.fresh = TRUE].live = notes[k].live
    BY NotePieces DEF PagesInv, NoteItems
  <2>3. \A k \in NoteKeys : k \in UsedKeys <=> notes[k] # None
    BY DEF UsedKeys
  <2>4. \A k \in NoteKeys : (notes'[k] = None) = (notes[k] = None)
    <3>1. \A k \in UsedKeys : [notes[k] EXCEPT !.fresh = TRUE] # None
      BY <2>2, PagesAssumption
    <3>2. \A k \in NoteKeys : (notes'[k] = None) <=> (notes[k] = None)
      BY <2>1, <2>3, <3>1
    <3> QED BY <3>2
  <2>5. \A k \in NoteKeys : notes'[k] \in NoteItems \cup {None}
    BY <2>1, <2>2, <2>3, ZenonT(40)
  <2>6. notes' \in [NoteKeys -> NoteItems \cup {None}]
    BY <2>5 DEF EndNoting
  <2> QED BY <2>1, <2>2, <2>3, <2>4, <2>6 DEF UsedKeys
<1>3. (link' = copy \/ link' = link) /\ link' \in [Added -> NoteRecords \cup {None}] /\ settled' \in BOOLEAN
  BY DEF PagesInv, PagesTypes
<1>4. PagesTypes'
  BY <1>1, <1>2, <1>3 DEF PagesInv, PagesTypes
<1>5. UsedKeys' = UsedKeys
  BY <1>2 DEF UsedKeys
<1>6. \A m \in Added, k \in NoteKeys : HasNote(m, k)' => HasNote(m, k)
  BY <1>1, <1>3 DEF HasNote
<1>7. NotesInOrder' /\ NotesApart' /\ NotesMade'
  BY <1>5, <1>6 DEF PagesInv, NotesInOrder, NotesApart, NotesMade
<1>8. \A m : ~IsCreated(m)' /\ ~IsPatched(m)' /\ ~IsDue(m)'
  BY <1>1, NothingToNote
<1>9. WorkApart' /\ ReadAsOurs'
  BY <1>1, <1>8 DEF WorkApart, ReadAsOurs
<1>10. OnItsWay'
  <2> SUFFICES ASSUME settled, ~missed, link' = copy, work = NoWork, NEW m \in Added PROVE Shows(m, copy[m])'
    BY <1>1 DEF OnItsWay
  <2>1. Shows(m, copy[m]) /\ copy'[m] = copy[m]
    BY <1>1, NothingToNote DEF PagesInv, OnItsWay
  <2>2. BodyOf(m)' = BodyOf(m)
    BY DEF BodyOf
  <2>3. CASE copy[m] = None
    BY <2>1, <2>3 DEF Shows, MayTouch
  <2>4. CASE copy[m] # None
    <3>1. copy[m].key \in UsedKeys /\ copy[m].key \in NoteKeys
      BY <2>4, WorkNotes
    <3>3. IsLive(copy[m].key) => IsLive(copy[m].key)'
      <4>1. notes'[copy[m].key] # None
        BY <1>5, <3>1 DEF UsedKeys
      <4>2. notes'[copy[m].key].live = notes[copy[m].key].live
        BY <1>2, <3>1
      <4> QED BY <2>1, <4>1, <4>2 DEF IsLive
    <3>2. /\ (IsLive(copy[m].key) => IsLive(copy[m].key)') /\ notes'[copy[m].key].paper = notes[copy[m].key].paper
          /\ notes'[copy[m].key].body = notes[copy[m].key].body
      BY <1>2, <3>1, <3>3
    <3> QED BY <2>1, <2>2, <3>2 DEF Shows, MayTouch
  <2> QED BY <2>3, <2>4
<1> QED BY <1>4, <1>7, <1>9, <1>10 DEF PagesInv

LEMMA PagesStep == PagesInv /\ [PagesNext]_pageVars => PagesInv'
<1> SUFFICES ASSUME PagesInv, [PagesNext]_pageVars PROVE PagesInv'
  OBVIOUS
<1>1. CASE \/ \E m \in Added, t \in Texts \cup {Blank, Unread, None} : WritePage(m, t)
           \/ \E p \in Parents : MovePdf(p) \/ TrashPaper(p)
           \/ MovePdf(None) \/ DeleteVaultNote
  <2>1. /\ said' \in [Added -> Texts \cup {Blank, Unread, None}] /\ paper' \in Parents \cup {None} /\ again' \in BOOLEAN
        /\ settled' = FALSE /\ UNCHANGED <<lossy, notes, link, doing, copy, work, missed>>
    BY <1>1, ZenonT(40) DEF PagesInv, PagesTypes, WritePage, MovePdf, TrashPaper, DeleteVaultNote, ChangeSomething
  <2> QED BY <2>1, PagesElsewhere
<1>2. CASE \E k \in NoteKeys : ChangeNote(k) \/ TagNote(k)
  BY <1>2, UserAtNoteStep
<1>3. CASE \E s \in {Added} \cup {{m} : m \in Added}, a \in BOOLEAN : BeginNotes(s, a)
  <2>1. \A s \in {Added} \cup {{m} : m \in Added} : s \in SUBSET Added
    OBVIOUS
  <2> QED BY <1>3, <2>1, BeginNotesStep
<1>4. CASE \E o \in {"done", "error", "lost"}, m \in Added : TrashNote(m, o)
  BY <1>4, TrashNoteStep
<1>5. CASE \E o \in {"done", "error", "lost"}, cs \in SUBSET work.creates : CreateNotes(cs, o)
  BY <1>5, CreateNotesStep
<1>6. CASE \E o \in {"done", "error", "lost"}, p \in work.patches : PatchNote(p, o)
  BY <1>6, PatchNoteStep
<1>7. CASE SaveNotes
  BY <1>7, NotingEnds DEF SaveNotes, theWorld
<1>8. CASE LoseNotes
  BY <1>8, NotingEnds DEF LoseNotes, theWorld
<1>9. CASE UNCHANGED pageVars
  <2>1. UNCHANGED <<lossy, said, paper, again, notes, link, doing, copy, work, missed, settled>>
    BY <1>9 DEF pageVars
  <2>2. PagesTypes' /\ NotesInOrder' /\ NotesApart' /\ NotesMade'
    BY <2>1 DEF PagesInv, PagesTypes, NotesInOrder, UsedKeys, NotesApart, NotesMade, HasNote
  <2>3. WorkApart' /\ ReadAsOurs'
    BY <2>1 DEF PagesInv, WorkApart, IsDue, IsCreated, IsPatched, ReadAsOurs, NotTheirs
  <2>4. OnItsWay'
    BY <2>1 DEF PagesInv, OnItsWay, IsDue, IsCreated, IsPatched, Shows, MayTouch, IsLive, BodyOf
  <2> QED BY <2>2, <2>3, <2>4 DEF PagesInv
<1> QED BY <1>1, <1>2, <1>3, <1>4, <1>5, <1>6, <1>7, <1>8, <1>9 DEF PagesNext, NotingNext

\* What planNotes and executeNotes keep between the added pages, their records and the notes, whatever the user does.
THEOREM PagesInvariant == PagesSpec => []PagesInv
  BY PagesStart, PagesStep, PTL DEF PagesSpec

\* planNotes, executeNotes: for any pages, texts, papers and number of notes, whatever the user does between the requests, after a
\* pass over the document that met no failure the paper shows every page that could be read, once and under its title of now.
THEOREM NotesMirrorTheAddedPages == PagesSpec => []NotesMirrorThePages
<1>1. PagesInv => NotesMirrorThePages
  <2> SUFFICES ASSUME PagesInv PROVE NotesMirrorThePages
    OBVIOUS
  <2>1. ASSUME settled, doing = "idle", NEW m \in Added PROVE Shows(m, link[m])
    <3>1. copy = link /\ ~missed /\ work = NoWork
      BY <2>1 DEF PagesInv, PagesTypes
    <3> QED BY <2>1, <3>1, NothingToNote DEF PagesInv, OnItsWay
  <2>2. \A m, n \in Added : link[m] # None /\ link[n] # None /\ m # n => link[m].key # link[n].key
    BY WorkNotes DEF PagesInv, NotesApart
  <2> QED BY <2>1, <2>2 DEF NotesMirrorThePages, Shows
<1> QED BY <1>1, PagesInvariant, PTL

LEMMA NoteChangesCounted == PagesSpec => [](noteChanges \in Nat)
<1>1. PagesInit => noteChanges \in Nat
  BY DEF PagesInit
<1>2. noteChanges \in Nat /\ [PagesNext]_pageVars => (noteChanges \in Nat)'
  <2> SUFFICES ASSUME noteChanges \in Nat, [PagesNext]_pageVars, noteChanges' # noteChanges PROVE noteChanges' = noteChanges + 1
    OBVIOUS
  <2> QED BY DEF PagesNext, NotingNext, pageVars, theWorld, ChangeSomething, WritePage, MovePdf, TrashPaper, DeleteVaultNote, ChangeNote,
                 TagNote, BeginNotes, TrashNote, CreateNotes, PatchNote, SaveNotes, LoseNotes
<1> QED BY <1>1, <1>2, PTL DEF PagesSpec

\* What a step of a pass leaves of a note on record that the user wrote into.
KeptNotes ==
  noteChanges' = noteChanges => \A k \in NoteKeys :
    (\E m \in Added : link[m] # None /\ link[m].key = k) /\ IsLive(k) /\ notes[k].body.text = ByUser =>
       notes'[k].body = notes[k].body /\ notes'[k].paper = notes[k].paper /\ notes'[k].live

LEMMA TrashKeepsNotes == ASSUME PagesInv, NEW m \in Added, NEW o, TrashNote(m, o) PROVE KeptNotes
<1>1. m \in work.trashes /\ link[m].key \in NoteKeys /\ link[m].key \in UsedKeys /\ NotTheirs(link[m].key)
  BY WorkNotes DEF TrashNote, PagesInv, ReadAsOurs
<1>2. \A k \in NoteKeys : notes'[k] = notes[k] \/ (k = link[m].key /\ AsRead(k))
  BY <1>1 DEF TrashNote, PagesInv, PagesTypes
<1> QED BY <1>1, <1>2 DEF KeptNotes, AsRead, NotTheirs, IsLive

LEMMA PatchKeepsNotes == ASSUME PagesInv, NEW p \in work.patches, NEW o, PatchNote(p, o) PROVE KeptNotes
<1>1. p.page \in Added /\ p.record.key \in NoteKeys /\ HasNote(p.page, p.record.key)
  BY WorkNotes
<1>2. \A k \in NoteKeys : notes'[k] = notes[k] \/ (k = p.record.key /\ AsRead(k))
  BY <1>1 DEF PatchNote, PagesInv, PagesTypes
<1>3. ASSUME NEW n \in Added, link[n] # None, link[n].key = p.record.key PROVE NotTheirs(p.record.key)
  <2>1. n = p.page
    BY <1>1, <1>3, WorkNotes DEF PagesInv, NotesApart
  <2> QED BY <1>3, <2>1 DEF PagesInv, ReadAsOurs
<1> QED BY <1>2, <1>3 DEF KeptNotes, AsRead, NotTheirs, IsLive

LEMMA CreateKeepsNotes == ASSUME PagesInv, NEW landed \in SUBSET work.creates, NEW o, CreateNotes(landed, o) PROVE KeptNotes
<1>1. NotesNumbered(WithNew(landed), landed) /\ notes' = WithNew(landed)
  BY NotesLand DEF CreateNotes
<1>2. \A k \in UsedKeys : notes'[k] = notes[k]
  BY <1>1 DEF NotesNumbered
<1> QED BY <1>2 DEF KeptNotes, IsLive, UsedKeys

LEMMA EndKeepsNotes == ASSUME PagesInv, EndNoting PROVE KeptNotes
<1> SUFFICES ASSUME NEW k \in UsedKeys, IsLive(k)
             PROVE  notes'[k].body = notes[k].body /\ notes'[k].paper = notes[k].paper /\ notes'[k].live
  BY DEF KeptNotes, IsLive, UsedKeys
<1>1. notes'[k] = [notes[k] EXCEPT !.fresh = TRUE] /\ notes[k] \in NoteItems /\ notes[k].live
  BY NotePieces DEF EndNoting, PagesInv, UsedKeys, IsLive
<1> QED BY <1>1 DEF NoteItems

\* A note of ours that the user wrote into is never written, moved or trashed again by a pass, for any pages and notes,
\* whether they wrote before the pass read the note or between its read and its request.
THEOREM EditedNotesAreKept == PagesSpec => EditedNotesStand
<1>1. PagesInv /\ noteChanges \in Nat /\ [PagesNext]_pageVars => [KeptNotes]_pageVars
  <2> SUFFICES ASSUME PagesInv, noteChanges \in Nat, PagesNext PROVE KeptNotes
    OBVIOUS
  <2>1. CASE \E m \in Added, o \in {"done", "error", "lost"} : TrashNote(m, o)
    BY <2>1, TrashKeepsNotes
  <2>2. CASE \E cs \in SUBSET work.creates, o \in {"done", "error", "lost"} : CreateNotes(cs, o)
    BY <2>2, CreateKeepsNotes
  <2>3. CASE \E p \in work.patches, o \in {"done", "error", "lost"} : PatchNote(p, o)
    BY <2>3, PatchKeepsNotes
  <2>4. CASE EndNoting
    BY <2>4, EndKeepsNotes
  <2>5. CASE notes' = notes
    BY <2>5 DEF KeptNotes, IsLive
  <2>6. CASE noteChanges' = noteChanges + 1
    BY <2>6 DEF KeptNotes
  <2>7. \/ notes' = notes \/ noteChanges' = noteChanges + 1 \/ EndNoting
        \/ \E m \in Added, o \in {"done", "error", "lost"} : TrashNote(m, o)
        \/ \E cs \in SUBSET work.creates, o \in {"done", "error", "lost"} : CreateNotes(cs, o)
        \/ \E p \in work.patches, o \in {"done", "error", "lost"} : PatchNote(p, o)
    BY DEF PagesNext, NotingNext, theWorld, ChangeSomething, WritePage, MovePdf, TrashPaper, DeleteVaultNote, ChangeNote,
           TagNote, BeginNotes, SaveNotes, LoseNotes
  <2> QED BY <2>1, <2>2, <2>3, <2>4, <2>5, <2>6, <2>7
<1> QED BY <1>1, PagesInvariant, NoteChangesCounted, PTL DEF PagesSpec, EditedNotesStand, KeptNotes
=============================================================================
