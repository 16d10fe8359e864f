---------------------------- MODULE ZoteroMarks ----------------------------
(***************************************************************************)
(* What the reader marked on a PDF, as annotations in Zotero: the plan     *)
(* (planWriteBack), its execution (executeWriteBack) over one or two       *)
(* connections, and the record in data.json, while the user edits, trashes *)
(* and restores annotations between any two requests.                      *)
(*                                                                         *)
(* One linked document.  Its marks are numbered in reading order.  Zotero  *)
(* is one library both connections show; an item's version is whether it   *)
(* changed since the pass read it.                                         *)
(***************************************************************************)
EXTENDS Absent, Naturals, Sequences, FiniteSets, FiniteSetsExt

CONSTANTS NumMarks,
          Values,         \* what the tablet may say in a field
          MaxItems,       \* bounds the annotations in Zotero
          MarkChanges     \* bounds what the user does

Marks == 1 .. NumMarks
Fields == {"text", "color"}
Theirs == "theirs"        \* what the user puts into a field
Erased == None
Here == [Fields -> Values]
Keys == 1 .. MaxItems
Annotations ==
  [page : {1, 2}, f : [Fields -> Values \cup {Theirs}], live : BOOLEAN, back : BOOLEAN, fresh : BOOLEAN]
Records == [key : Keys, written : [Fields -> Values], edited : SUBSET Fields, deleted : BOOLEAN]

ASSUME MarksAssumption ==
  /\ {NumMarks, MaxItems, MarkChanges} \subseteq Nat
  /\ {None, Theirs} \cap Values = {}
  /\ None \notin Nat /\ None \notin Here /\ None \notin Annotations /\ None \notin Records

VARIABLES
  page,       \* [Marks -> {1, 2}]: the page a mark is on
  faulty,     \* TRUE in the histories with crashes and lost answers
  tablet,     \* what each mark says, or Erased
  due,        \* TRUE when the next sync writes the document's note
  startOver,  \* TRUE when the user deleted the note since
  items,      \* the annotations of ours in Zotero, by key, or None
  stored,     \* link.annotations of data.json
  pass,       \* "idle" or "writing"
  mine,       \* the pass's own copy of link.annotations
  plan,       \* what is left of the WriteBackPlan
  digest,     \* what the pass was given: the marks, or Erased
  incomplete, \* TRUE when a request of the pass failed or conflicted
  unwritten,  \* TRUE when the last pass said so: "The next sync tries again."
  mirrored,   \* TRUE while nothing changed since a pass that wrote all
  removed,    \* the marks whose recorded annotation the user trashed
  changes

markVars == <<page, faulty, tablet, due, startOver, items, stored, pass, mine,
              plan, digest, incomplete, unwritten, mirrored, removed, changes>>

NoPlan == [trashes |-> {}, creates |-> {}, patches |-> {}]

MarksInit ==
  /\ page \in {p \in [Marks -> {1, 2}] : p[1] = 1}
  /\ faulty \in BOOLEAN
  /\ tablet \in [Marks -> {v \in Here : v["color"] = v["text"]}]
  /\ due = TRUE /\ startOver = FALSE
  /\ items = [k \in Keys |-> None]
  /\ stored = [m \in Marks |-> None]
  /\ pass = "idle"
  /\ mine = stored
  /\ plan = NoPlan
  /\ digest = [m \in Marks |-> Erased]
  /\ incomplete = FALSE /\ unwritten = FALSE /\ mirrored = FALSE
  /\ removed = {}
  /\ changes = 0

-----------------------------------------------------------------------------
(* The reader and the user.                                                 *)

ChangeMark ==
  /\ changes < MarkChanges
  /\ changes' = changes + 1
  /\ mirrored' = FALSE

MarkOnTablet(m, v) ==
  /\ ChangeMark
  /\ v # tablet[m]
  /\ tablet' = [tablet EXCEPT ![m] = v]
  /\ due' = TRUE
  /\ UNCHANGED <<page, faulty, startOver, items, stored, pass, mine, plan, digest,
                 incomplete, unwritten, removed>>

\* Another page changes, or the render's revision: the note is written anew.
TouchDocument ==
  /\ pass = "idle"
  /\ due' = TRUE
  /\ UNCHANGED <<page, faulty, tablet, startOver, items, stored, pass, mine, plan, digest,
                 incomplete, unwritten, mirrored, removed, changes>>

DeleteTheNote ==
  /\ ChangeMark
  /\ startOver' = TRUE /\ due' = TRUE
  /\ UNCHANGED <<page, faulty, tablet, items, stored, pass, mine, plan, digest,
                 incomplete, unwritten, removed>>

Live(k) == items[k] # None /\ items[k].live
Edited(k, f) == [items EXCEPT ![k].f[f] = Theirs, ![k].fresh = (pass = "idle")]

EditInZotero(k, f) ==
  /\ ChangeMark
  /\ Live(k)
  /\ items' = Edited(k, f)
  /\ UNCHANGED <<page, faulty, tablet, due, startOver, stored, pass, mine, plan,
                 digest, incomplete, unwritten, removed>>

TrashInZotero(k) ==
  /\ ChangeMark
  /\ Live(k)
  /\ items' = [items EXCEPT ![k].live = FALSE, ![k].fresh = (pass = "idle")]
  /\ removed' = removed \cup {m \in Marks : stored[m] # None /\ stored[m].key = k}
  /\ UNCHANGED <<page, faulty, tablet, due, startOver, stored, pass, mine, plan,
                 digest, incomplete, unwritten>>

RestoreInZotero(k) ==
  /\ ChangeMark
  /\ items[k] # None /\ ~items[k].live
  /\ items' = [items EXCEPT ![k].live = TRUE, ![k].fresh = (pass = "idle"), ![k].back = TRUE]
  /\ UNCHANGED <<page, faulty, tablet, due, startOver, stored, pass, mine, plan,
                 digest, incomplete, unwritten, removed>>

-----------------------------------------------------------------------------
(* planWriteBack, over the digest d, the entries of it that have a place on *)
(* the page, the pages it covered, and what stands in Zotero now.           *)

Existing == {k \in Keys : Live(k)}
Record(k, w, e, d) == [key |-> k, written |-> w, edited |-> e, deleted |-> d]
\* Dropping the record of an annotation that is gone.
AsDeletedForgotten(r) == None
AsDeleted(r) == Record(r.key, r.written, {}, TRUE)
TheirsIn(r, k) == {f \in Fields : r.written[f] # None /\ items[k].f[f] # r.written[f]}

\* Erased on the tablet: written once, on a covered page, in the digest no more.
ErasedMarks(d, covered) ==
  {m \in Marks : stored[m] # None /\ ~stored[m].deleted /\ d[m] = Erased /\ page[m] \in covered}

\* Re-adoption without the page or the type: text alone.
AdoptableByText(m, v, taken) ==
  {k \in Existing \ taken : items[k].f["text"] = v["text"]}

Adoptable(m, v, taken) ==
  {k \in Existing \ taken : items[k].page = page[m] /\ items[k].f["text"] = v["text"]}

\* The annotation of each entry, in reading order, none claimed twice.
ClaimOf(d, m, taken) ==
  IF stored[m] = None \/ stored[m].deleted
  THEN LET c == Adoptable(m, d[m], taken) IN IF c = {} THEN None ELSE Min(c)
  ELSE IF stored[m].key \in Existing THEN stored[m].key ELSE None

MayClaim(m, entries, again) == m \in entries /\ ~(stored[m] # None /\ stored[m].deleted /\ ~again)

ClaimsOf(d, entries, again) ==
  LET held == {stored[m].key : m \in {m \in Marks : stored[m] # None}}
      claims[n \in 0 .. NumMarks] ==
        IF n = 0 THEN [m \in Marks |-> None]
        ELSE [claims[n - 1] EXCEPT ![n] =
                IF MayClaim(n, entries, again)
                THEN ClaimOf(d, n, held \cup {claims[n - 1][i] : i \in 1 .. n - 1}) ELSE None] IN
  claims[NumMarks]

\* The fields that are the user's: for good once, and newly where Zotero does
\* not say what we last wrote.
Surrendered(m, k) ==
  IF stored[m] = None THEN {} ELSE stored[m].edited \cup TheirsIn(stored[m], k)

Refreshed(m, v, k) ==
  LET e == Surrendered(m, k) IN
  Record(k, [f \in Fields |-> IF f \notin e THEN v[f]
                              ELSE stored[m].written[f]], e, FALSE)
ToPatch(m, v, k) == {f \in Fields \ Surrendered(m, k) : items[k].f[f] # v[f]}

\* Everything the plan decides, as the marks of each kind.
Decisions(d, entries, covered, again) ==
  LET claim == ClaimsOf(d, entries, again)
      erased == ErasedMarks(d, covered)
      kept == {m \in erased : stored[m].key \in Existing
                              /\ Surrendered(m, stored[m].key) # {}}
      known == {m \in entries : claim[m] # None}
      vanished == {m \in entries : claim[m] = None /\ stored[m] # None /\ ~again}
      gone == {m \in erased : stored[m].key \notin Existing} IN
  [trashes |-> {m \in erased : stored[m].key \in Existing} \ kept,
   creates |-> (entries \ known) \ vanished,
   patches |-> {[mark |-> m, fields |-> ToPatch(m, d[m], claim[m]),
                 record |-> Refreshed(m, d[m], claim[m])] :
                 m \in {m \in known : ToPatch(m, d[m], claim[m]) # {}}},
   records |-> [m \in Marks |->
     CASE m \in vanished \cup gone -> AsDeleted(stored[m])
       [] m \in kept -> [stored[m] EXCEPT !.edited = Surrendered(m, stored[m].key)]
       [] m \in known /\ ToPatch(m, d[m], claim[m]) = {} -> Refreshed(m, d[m], claim[m])
       [] OTHER -> stored[m]]]

\* A unit of the document: all of it, one page, or a digest that failed.
Scopes == {{1, 2}, {1}, {}}

\* The pass of one written note: identify, ownAnnotations, planWriteBack.
BeginWriteBack(covered, placed) ==
  /\ pass = "idle" /\ due
  /\ LET d == [m \in Marks |-> IF page[m] \in covered THEN tablet[m] ELSE Erased]
         entries == IF placed THEN {m \in Marks : d[m] # Erased} ELSE {}
         p == Decisions(d, entries, covered, startOver) IN
     /\ digest' = d
     /\ plan' = [trashes |-> p.trashes, creates |-> p.creates, patches |-> p.patches]
     /\ mine' = p.records
     /\ mirrored' = (placed /\ covered = {1, 2})
  /\ pass' = "writing"
  /\ due' = FALSE /\ startOver' = FALSE
  /\ removed' = IF startOver THEN {} ELSE removed
  /\ UNCHANGED <<page, faulty, tablet, items, stored, incomplete, unwritten, changes>>

-----------------------------------------------------------------------------
(* executeWriteBack: the trashes, the creates in one request, the patches,  *)
(* then the record.  What a request comes to:                               *)
(*   done    it landed and was answered                                     *)
(*   error   it did not land                                                *)
(*   lost    it landed, and the answer never came                           *)
(*   again   the desktop took it too late, and zotero.org took it again     *)

Outcomes == IF faulty THEN {"done", "error", "lost", "again"} ELSE {"done", "error"}

GiveUp == plan' = NoPlan /\ incomplete' = TRUE /\ UNCHANGED mine

\* A change under the version read.
Untouched(k) == items[k].fresh /\ items[k].live

Trash(m, o) ==
  LET k == stored[m].key IN
  /\ pass = "writing" /\ m \in plan.trashes
  /\ o \in Outcomes \ {"again"}
  /\ CASE o = "done" /\ ~Untouched(k) ->
            /\ plan' = [plan EXCEPT !.trashes = @ \ {m}]
            /\ incomplete' = TRUE
            /\ UNCHANGED <<items, mine>>
       [] o = "done" /\ Untouched(k) ->
            /\ plan' = [plan EXCEPT !.trashes = @ \ {m}]
            /\ items' = [items EXCEPT ![k].live = FALSE]
            /\ mine' = [mine EXCEPT ![m] = AsDeleted(stored[m])]
            /\ UNCHANGED incomplete
       [] o = "lost" /\ Untouched(k) ->
            items' = [items EXCEPT ![k].live = FALSE] /\ GiveUp
       [] OTHER -> GiveUp /\ UNCHANGED items
  /\ UNCHANGED <<page, faulty, tablet, due, startOver, stored, pass, digest,
                 unwritten, mirrored, removed, changes>>

Used == {k \in Keys : items[k] # None}
KeyOf(ms, base, m) == base + Cardinality({n \in ms : n <= m})
Item(m) == [page |-> page[m], f |-> digest[m], live |-> TRUE, back |-> FALSE, fresh |-> TRUE]
Landed(ms, base) ==
  [k \in Keys |-> IF \E m \in ms : KeyOf(ms, base, m) = k
                  THEN Item(CHOOSE m \in ms : KeyOf(ms, base, m) = k)
                  ELSE items[k]]
LandedTwice(first, second, base) ==
  [k \in Keys |-> IF k > base + Cardinality(first)
                  THEN Landed(second, base + Cardinality(first))[k]
                  ELSE Landed(first, base)[k]]
\* Taking the keys only when Zotero took every item.
CreatedAllOrNone(ms, base) ==
  [m \in Marks |-> IF ms = plan.creates /\ m \in ms THEN Record(KeyOf(ms, base, m), digest[m], {}, FALSE)
                   ELSE mine[m]]
Created(ms, base) ==
  [m \in Marks |-> IF m \in ms THEN Record(KeyOf(ms, base, m), digest[m], {}, FALSE)
                   ELSE mine[m]]

\* Zotero may refuse any of them: one it refused has no key.  A later batch
\* of fifty that fails loses the keys of the batches before it.
Create(landed, o) ==
  LET base == Cardinality(Used) IN
  /\ pass = "writing" /\ plan.trashes = {} /\ plan.creates # {}
  /\ landed \subseteq plan.creates
  /\ o \in Outcomes
  /\ CASE o = "done" ->
            /\ base + Cardinality(landed) <= MaxItems
            /\ items' = Landed(landed, base)
            /\ mine' = Created(landed, base)
            /\ plan' = [plan EXCEPT !.creates = {}]
            /\ incomplete' = (incomplete \/ landed # plan.creates)
       [] o = "lost" ->
            /\ base + Cardinality(landed) <= MaxItems
            /\ items' = Landed(landed, base)
            /\ GiveUp
       [] o = "again" ->
            /\ base + 2 * Cardinality(landed) <= MaxItems
            /\ items' = LandedTwice(landed, landed, base)
            /\ mine' = Created(landed, base + Cardinality(landed))
            /\ plan' = [plan EXCEPT !.creates = {}]
            /\ incomplete' = (incomplete \/ landed # plan.creates)
       [] OTHER -> landed = {} /\ GiveUp /\ UNCHANGED items
  /\ UNCHANGED <<page, faulty, tablet, due, startOver, stored, pass, digest,
                 unwritten, mirrored, removed, changes>>

\* Patching without the version.
Unconditional(p) == TRUE
Matches(p) == Untouched(p.record.key)

Written(p) ==
  [items EXCEPT ![p.record.key].f =
     [f \in Fields |-> IF f \in p.fields THEN digest[p.mark][f] ELSE @[f]]]

\* A conflict is the user's edit: the fields it was about are theirs.
Patch(p, o) ==
  /\ pass = "writing" /\ plan.trashes = {} /\ plan.creates = {} /\ p \in plan.patches
  /\ o \in Outcomes \ {"again"}
  /\ CASE o = "done" /\ ~Matches(p) ->
            /\ plan' = [plan EXCEPT !.patches = @ \ {p}]
            /\ mine' = [mine EXCEPT ![p.mark] =
                          [p.record EXCEPT !.edited = @ \cup p.fields]]
            /\ incomplete' = TRUE
            /\ UNCHANGED items
       [] o = "done" /\ Matches(p) ->
            /\ plan' = [plan EXCEPT !.patches = @ \ {p}]
            /\ items' = Written(p)
            /\ mine' = [mine EXCEPT ![p.mark] = p.record]
            /\ UNCHANGED incomplete
       [] o = "lost" /\ Matches(p) -> items' = Written(p) /\ GiveUp
       [] OTHER -> GiveUp /\ UNCHANGED items
  /\ UNCHANGED <<page, faulty, tablet, due, startOver, stored, pass, digest,
                 unwritten, mirrored, removed, changes>>

\* Between two passes nothing of one is left: every version is read anew.
EndPass ==
  /\ pass' = "idle"
  /\ plan' = NoPlan
  /\ digest' = [m \in Marks |-> Erased]
  /\ incomplete' = FALSE
  /\ items' = [k \in Keys |-> IF items[k] = None THEN None ELSE [items[k] EXCEPT !.fresh = TRUE]]

\* saveLinks with what landed, and the row of the note, which is up to date
\* whatever became of the write-back.
SaveLink ==
  /\ pass = "writing" /\ plan = NoPlan
  /\ EndPass
  /\ stored' = mine
  /\ unwritten' = incomplete
  /\ mirrored' = (mirrored /\ ~incomplete)
  /\ UNCHANGED <<page, faulty, tablet, due, startOver, mine, removed, changes>>

\* A library that refuses writes: the pass throws, nothing is recorded.
RefuseWrites ==
  /\ faulty /\ pass = "writing" /\ plan # NoPlan
  /\ EndPass
  /\ mine' = stored
  /\ unwritten' = TRUE /\ mirrored' = FALSE
  /\ UNCHANGED <<page, faulty, tablet, due, startOver, stored, removed, changes>>

\* Obsidian quits: neither the record nor the row of the note is kept.
Quit ==
  /\ faulty /\ pass = "writing"
  /\ EndPass
  /\ mine' = stored
  /\ due' = TRUE /\ mirrored' = FALSE
  /\ UNCHANGED <<page, faulty, tablet, startOver, stored, unwritten, removed, changes>>

WritingNext ==
  \/ \E c \in Scopes, b \in BOOLEAN : BeginWriteBack(c, b)
  \/ \E o \in {"done", "error", "lost", "again"} :
       \/ \E m \in Marks : Trash(m, o)
       \/ \E ms \in SUBSET Marks : Create(ms, o)
       \/ \E p \in plan.patches : Patch(p, o)
  \/ SaveLink

MarksNext ==
  \/ \E m \in Marks, v \in Here \cup {Erased} : MarkOnTablet(m, v)
  \/ DeleteTheNote \/ TouchDocument
  \/ \E k \in Keys : \/ \E f \in Fields : EditInZotero(k, f)
                     \/ TrashInZotero(k)
                     \/ RestoreInZotero(k)
  \/ WritingNext
  \/ RefuseWrites
  \/ Quit

-----------------------------------------------------------------------------
MarksTypeOK ==
  /\ tablet \in [Marks -> Here \cup {Erased}] /\ digest \in [Marks -> Here \cup {Erased}]
  /\ \A k \in Keys : items[k] = None \/ items[k].f \in [Fields -> Values \cup {Theirs}]
  /\ \A m \in Marks : stored[m] \in Records \cup {None} /\ mine[m] \in Records \cup {None}
  /\ pass \in {"idle", "writing"}
  /\ plan.trashes \cup plan.creates \subseteq Marks
  /\ pass = "idle" => plan = NoPlan
  /\ changes \in 0 .. MarkChanges

\* planWriteBack, executeWriteBack: what the user put into a field of an
\* annotation the plugin has a record of is never written over, and such an
\* annotation is never trashed, whenever the edit comes: before the pass
\* reads, between its read and its request, or long before a later pass.
UserEditsKept ==
  [][changes' = changes =>
       \A k \in Keys : items[k] # None /\ (\E m \in Marks : stored[m] # None /\ stored[m].key = k) =>
         /\ \A f \in Fields : items[k].f[f] = Theirs => items'[k].f[f] = Theirs
         /\ (\E f \in Fields : items[k].f[f] = Theirs) => items'[k].live = items[k].live]_markVars

\* An annotation the user trashed in Zotero is never planned again, however
\* many passes, failures and restarts later, unless the note was deleted too.
DeletedIsNotRemade ==
  [][pass = "idle" /\ pass' = "writing" => \A m \in removed' : m \notin plan'.creates]_markVars

\* After a pass that covered the document and met no failure, Zotero shows
\* what the tablet shows: each mark once, in every field the user has not
\* taken over, unless they removed it; and nothing of ours that was erased.
MirrorsTheTablet ==
  mirrored /\ pass = "idle" => \A m \in Marks :
    IF tablet[m] = Erased
    THEN stored[m] # None => stored[m].deleted \/ stored[m].edited # {} \/ ~Live(stored[m].key)
    ELSE /\ stored[m] # None
         /\ ~stored[m].deleted =>
              /\ Live(stored[m].key) /\ items[stored[m].key].page = page[m]
              /\ \A f \in Fields \ stored[m].edited : items[stored[m].key].f[f] = tablet[m][f]

\* Two annotations of one mark are never made: one record names one
\* annotation, and while no answer is lost whatever is in the library is
\* recorded, but for what the user brought back from the trash.
OneEach ==
  /\ \A m, n \in Marks : stored[m] # None /\ stored[n] # None /\ m # n => stored[m].key # stored[n].key
  /\ ~faulty => \A k \in Existing : items[k].back \/ \E m \in Marks :
       \E r \in {mine[m], stored[m]} : r # None /\ r.key = k

\* zoteroSkipNotice: "was not written back - The next sync tries again."
SkippedIsTriedAgain == unwritten ~> pass = "writing"
=============================================================================
