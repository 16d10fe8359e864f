-------------------------- MODULE ZoteroMarksProofs -------------------------
(***************************************************************************)
(* What the write-back of the marks guarantees, for every number of marks, *)
(* every set of values, every number of annotations and of things the user *)
(* does: the annotations mirror the marks, one each, the user's words      *)
(* stand, and what the user deleted is not planned again.                  *)
(***************************************************************************)
EXTENDS ZoteroMarks, FiniteSetTheorems, WellFoundedInduction, TLAPS

(* The least of a set, numbering one, and going through one in order.       *)

\* How many of L come up to a, by a measure.
Rank(L, at, a) == Cardinality({b \in L : at[b] <= at[a]})

LEMMA LeastIn == ASSUME NEW S \in SUBSET Nat, S # {} PROVE Min(S) \in S /\ \A y \in S : Min(S) <= y
<1> DEFINE T == {0 .. n : n \in S}
<1>1. T \subseteq FiniteSubsetsOf(Nat) /\ T # {}
  <2>1. \A n \in S : 0 .. n \subseteq Nat /\ IsFiniteSet(0 .. n)
    BY FS_Interval
  <2> QED BY <2>1 DEF FiniteSubsetsOf
<1>2. IsWellFoundedOn(StrictSubsetOrdering(Nat), FiniteSubsetsOf(Nat))
  BY FS_StrictSubsetOrderingWellFounded
<1>3. PICK b \in T : \A c \in T : <<c, b>> \notin StrictSubsetOrdering(Nat)
  BY <1>1, <1>2, WFMin
<1>4. PICK x \in S : b = 0 .. x
  BY <1>3
<1>5. \A y \in S : x <= y
  <2> SUFFICES ASSUME NEW y \in S, y < x PROVE FALSE
    OBVIOUS
  <2>1. 0 .. y \in T /\ 0 .. y \subseteq Nat /\ 0 .. x \subseteq Nat
    OBVIOUS
  <2>2. 0 .. y \subseteq 0 .. x /\ x \in 0 .. x /\ x \notin 0 .. y
    OBVIOUS
  <2> QED BY <1>3, <1>4, <2>1, <2>2 DEF StrictSubsetOrdering
<1> QED BY <1>5 DEF Min

\* Numbering a finite set by a measure no two of it share gives every number up to its size, once.
LEMMA Ranks ==
  ASSUME NEW L, IsFiniteSet(L), NEW at \in [L -> Nat], \A a, b \in L : at[a] = at[b] => a = b
  PROVE  /\ \A a \in L : Rank(L, at, a) \in 1 .. Cardinality(L)
         /\ \A a, b \in L : Rank(L, at, a) = Rank(L, at, b) => a = b
         /\ \A n \in 1 .. Cardinality(L) : \E a \in L : Rank(L, at, a) = n
<1> DEFINE upTo(a) == {b \in L : at[b] <= at[a]}
           rank == [a \in L |-> Cardinality(upTo(a))]
<1>1. Cardinality(L) \in Nat
  BY FS_CardinalityType
<1>2. \A a \in L : a \in upTo(a) /\ upTo(a) \subseteq L /\ IsFiniteSet(upTo(a))
  BY FS_Subset
<1>3. \A a \in L : Cardinality(upTo(a)) \in 1 .. Cardinality(L)
  <2> SUFFICES ASSUME NEW a \in L PROVE Cardinality(upTo(a)) \in 1 .. Cardinality(L)
    OBVIOUS
  <2>1. Cardinality(upTo(a)) \in Nat /\ Cardinality(upTo(a)) <= Cardinality(L)
    BY <1>2, FS_Subset, FS_CardinalityType
  <2>2. Cardinality(upTo(a)) # 0
    BY <1>2, FS_EmptySet
  <2> QED BY <1>1, <2>1, <2>2
<1>4. \A a, b \in L : Cardinality(upTo(a)) = Cardinality(upTo(b)) => a = b
  <2> SUFFICES ASSUME NEW a \in L, NEW b \in L, Cardinality(upTo(a)) = Cardinality(upTo(b)), at[a] < at[b] PROVE FALSE
    OBVIOUS
  <2>1. upTo(a) \subseteq upTo(b) /\ b \in upTo(b) /\ b \notin upTo(a)
    OBVIOUS
  <2>2. IsFiniteSet(upTo(b))
    BY <1>2
  <2> HIDE DEF upTo
  <2> QED BY <2>1, <2>2, FS_Subset
<1>5. rank \in Injection(L, 1 .. Cardinality(L))
  BY <1>3, <1>4 DEF Injection, IsInjective
<1>6. Cardinality(1 .. Cardinality(L)) = Cardinality(L) /\ IsFiniteSet(1 .. Cardinality(L))
  BY <1>1, FS_Interval
<1>7. rank \in Surjection(L, 1 .. Cardinality(L))
  BY <1>5, <1>6, FS_Injection DEF Surjection
<1>8. \A n \in 1 .. Cardinality(L) : \E a \in L : Cardinality(upTo(a)) = n
  BY <1>7 DEF Surjection
<1> QED BY <1>3, <1>4, <1>8 DEF Rank

\* What is worked out one number after the other can be.
Stepwise(N, C) == [1 .. N -> [C -> C]]
GoesBy(N, C, c0, next, f) ==
  f \in [0 .. N -> C] /\ f[0] = c0 /\ \A n \in 1 .. N : f[n] = next[n][f[n - 1]]
LEMMA OneByOne ==
  ASSUME NEW N \in Nat, NEW C, NEW c0 \in C, NEW next \in Stepwise(N, C)
  PROVE  \E f : GoesBy(N, C, c0, next, f)
<1> USE DEF GoesBy, Stepwise
<1> DEFINE Reached(k) == \E f \in [0 .. k -> C] : f[0] = c0 /\ \A n \in 1 .. k : f[n] = next[n][f[n - 1]]
           Missed == {k \in 0 .. N : ~Reached(k)}
<1>1. SUFFICES ASSUME Missed # {} PROVE FALSE
  <2>1. ASSUME Missed = {} PROVE Reached(N)
    <3>1. N \in 0 .. N
      OBVIOUS
    <3> HIDE DEF Reached
    <3> QED BY <2>1, <3>1
  <2> QED BY <2>1
<1> DEFINE k == Min(Missed)
<1>2. k \in Missed /\ \A j \in Missed : k <= j
  <2>1. Missed \in SUBSET Nat
    OBVIOUS
  <2> HIDE DEF Missed
  <2> QED BY <1>1, <2>1, LeastIn
<1> HIDE DEF k
<1>3. k # 0
  <2>1. [n \in 0 .. 0 |-> c0] \in [0 .. 0 -> C] /\ [n \in 0 .. 0 |-> c0][0] = c0 /\ 1 .. 0 = {}
    OBVIOUS
  <2>2. Reached(0)
    BY <2>1
  <2> QED BY <1>2, <2>2, ZenonT(40)
<1>4. Reached(k - 1) /\ k \in 1 .. N
  BY <1>2, <1>3
<1>5. PICK f \in [0 .. k - 1 -> C] : f[0] = c0 /\ \A n \in 1 .. k - 1 : f[n] = next[n][f[n - 1]]
  BY <1>4
<1> DEFINE g == [n \in 0 .. k |-> IF n < k THEN f[n] ELSE next[k][f[k - 1]]]
<1>6. f[k - 1] \in C /\ next[k] \in [C -> C] /\ next[k][f[k - 1]] \in C
  BY <1>4, <1>5
<1>7. g \in [0 .. k -> C] /\ g[0] = c0
  BY <1>4, <1>5, <1>6
<1>8. \A n \in 1 .. k : g[n] = next[n][g[n - 1]]
  BY <1>4, <1>5
<1> QED BY <1>2, <1>7, <1>8

-----------------------------------------------------------------------------
(* The inductive invariant of the write-back.                               *)

MarksSpec == MarksInit /\ [][MarksNext]_markVars

MarkPatches == [mark : Marks, fields : SUBSET Fields, record : Records]
Plans == [trashes : SUBSET Marks, creates : SUBSET Marks, patches : SUBSET MarkPatches]

MarksTypes ==
  /\ page \in [Marks -> {1, 2}] /\ faulty \in BOOLEAN
  /\ tablet \in [Marks -> Here \cup {Erased}] /\ digest \in [Marks -> Here \cup {Erased}]
  /\ startOver \in BOOLEAN /\ incomplete \in BOOLEAN /\ mirrored \in BOOLEAN
  /\ items \in [Keys -> Annotations \cup {None}]
  /\ stored \in [Marks -> Records \cup {None}] /\ mine \in [Marks -> Records \cup {None}]
  /\ pass \in {"idle", "writing"} /\ plan \in Plans /\ removed \subseteq Marks
  /\ pass = "idle" => plan = NoPlan /\ mine = stored /\ ~incomplete

\* Annotations are numbered as they are made.
KeysInOrder == \E n \in 0 .. MaxItems : Used = 1 .. n

\* The annotation a mark has to do with: on record, in the pass's own record, or to be patched.
Names(m, k) ==
  \/ stored[m] # None /\ stored[m].key = k
  \/ mine[m] # None /\ mine[m].key = k
  \/ \E p \in plan.patches : p.mark = m /\ p.record.key = k
NamedOnce == \A m, n \in Marks, k \in Keys : Names(m, k) /\ Names(n, k) => m = n
NamedIsMade == \A m \in Marks, k \in Keys : Names(m, k) => items[k] # None /\ items[k].page = page[m]

OnRecord(k) == \E m \in Marks : stored[m] # None /\ stored[m].key = k
InPatches(m) == \E p \in plan.patches : p.mark = m
DueMark(m) == m \in plan.trashes \/ m \in plan.creates \/ InPatches(m)

\* One piece of work for a mark, which is not done yet.
PlanApart ==
  /\ \A p, q \in plan.patches : p.mark = q.mark => p = q
  /\ \A p \in plan.patches : ~p.record.deleted
  /\ \A m \in Marks : ~(m \in plan.trashes /\ m \in plan.creates) /\ (InPatches(m) => m \notin plan.trashes \cup plan.creates)
  /\ \A m \in Marks : DueMark(m) => mine[m] = stored[m]
  /\ \A m \in Marks : m \in plan.creates \/ InPatches(m) => digest[m] # Erased

\* What is to be trashed or patched the user has left alone, or its version shows.
HandsOff ==
  /\ \A m \in plan.trashes : stored[m] # None /\
        (items[stored[m].key].fresh => \A f \in Fields : items[stored[m].key].f[f] # Theirs)
  /\ \A p \in plan.patches : OnRecord(p.record.key) /\ items[p.record.key].fresh =>
        \A f \in p.fields : items[p.record.key].f[f] # Theirs

RemovedKnown == \A m \in Marks : (m \in removed => stored[m] # None) /\ (stored[m] # None => mine[m] # None)

\* An annotation whose record says deleted, or is about to be given up, is not there, but for the user.
GoneOrBack(k) == Live(k) => items[k].back
DeletedAreGone ==
  /\ \A m \in Marks : \A r \in {stored[m], mine[m]} : r # None /\ r.deleted => GoneOrBack(r.key)
  /\ \A m \in plan.creates : stored[m] # None => GoneOrBack(stored[m].key)
  /\ \A p \in plan.patches : stored[p.mark] # None /\ stored[p.mark].key # p.record.key => GoneOrBack(stored[p.mark].key)
NoneUnknown ==
  ~faulty => \A k \in Existing : items[k].back \/ \E m \in Marks : mine[m] # None /\ mine[m].key = k

ShowsMark(m, r) ==
    IF tablet[m] = Erased
    THEN r # None => r.deleted \/ r.edited # {} \/ ~Live(r.key)
    ELSE /\ r # None
         /\ ~r.deleted => Live(r.key) /\ \A f \in Fields \ r.edited : items[r.key].f[f] = tablet[m][f]
MirrorsToBe ==
  mirrored /\ ~incomplete =>
    /\ pass = "writing" => digest = tablet
    /\ \A m \in Marks : DueMark(m) \/ ShowsMark(m, mine[m])
    /\ \A m \in plan.trashes : tablet[m] = Erased
    /\ \A p \in plan.patches : /\ Live(p.record.key)
                               /\ \A f \in Fields \ (p.record.edited \cup p.fields) : items[p.record.key].f[f] = tablet[p.mark][f]

MarksInv == /\ MarksTypes /\ KeysInOrder /\ NamedOnce /\ NamedIsMade /\ PlanApart /\ HandsOff
            /\ RemovedKnown /\ DeletedAreGone /\ NoneUnknown /\ MirrorsToBe

Claims == [Marks -> Keys \cup {None}]
HeldKeys == {stored[m].key : m \in {m \in Marks : stored[m] # None}}
Before(c, n) == {c[i] : i \in 1 .. n - 1}
ClaimIn(d, entries, again, n, c) ==
  IF MayClaim(n, entries, again) THEN ClaimOf(d, n, HeldKeys \cup Before(c, n)) ELSE None

LEMMA ClaimType == ASSUME NEW d, NEW m, NEW taken PROVE ClaimOf(d, m, taken) \in Existing \cup {None}
<1> DEFINE c == Adoptable(m, d[m], taken)
<1>1. c \subseteq Existing /\ c \in SUBSET Nat
  BY MarksAssumption DEF Adoptable, Existing, Keys
<1>2. c # {} => Min(c) \in c
  BY <1>1, LeastIn
<1> QED BY <1>1, <1>2 DEF ClaimOf

\* Each mark claims beside what the marks before it claimed.
LEMMA ClaimsInTurn ==
  ASSUME NEW d, NEW entries, NEW again
  PROVE  /\ ClaimsOf(d, entries, again) \in Claims
         /\ \A n \in Marks : ClaimsOf(d, entries, again)[n] = ClaimIn(d, entries, again, n, ClaimsOf(d, entries, again))
<1> DEFINE In(n, c) == ClaimIn(d, entries, again, n, c)
           next == [n \in 1 .. NumMarks |-> [c \in Claims |-> [c EXCEPT ![n] = In(n, c)]]]
           first == [m \in Marks |-> None]
           Rule(f) == f = [n \in 0 .. NumMarks |-> IF n = 0 THEN first ELSE [f[n - 1] EXCEPT ![n] = In(n, f[n - 1])]]
           f == CHOOSE f : Rule(f)
<1> HIDE DEF Rule, f
<1>1. \A n, c : In(n, c) \in Keys \cup {None}
  BY ClaimType DEF ClaimIn, Existing
<1>2. next \in [1 .. NumMarks -> [Claims -> Claims]] /\ first \in Claims /\ NumMarks \in Nat
  <2> HIDE DEF In
  <2> QED BY <1>1, MarksAssumption DEF Claims, Marks
<1>3. \E g : Rule(g)
  <2> HIDE DEF In
  <2>1. PICK g \in [0 .. NumMarks -> Claims] : g[0] = first /\ \A n \in 1 .. NumMarks : g[n] = next[n][g[n - 1]]
    <3>1. next \in Stepwise(NumMarks, Claims)
      BY <1>2 DEF Stepwise
    <3> HIDE DEF next, first
    <3>2. \E g : GoesBy(NumMarks, Claims, first, next, g)
      BY <1>2, <3>1, OneByOne
    <3> QED BY <3>2 DEF GoesBy
  <2>2. \A n \in 1 .. NumMarks : g[n] = [g[n - 1] EXCEPT ![n] = In(n, g[n - 1])]
    <3> SUFFICES ASSUME NEW n \in 1 .. NumMarks PROVE g[n] = [g[n - 1] EXCEPT ![n] = In(n, g[n - 1])]
      OBVIOUS
    <3>1. g[n - 1] \in Claims
      BY <1>2, <2>1
    <3>2. next[n][g[n - 1]] = [g[n - 1] EXCEPT ![n] = In(n, g[n - 1])]
      BY <3>1
    <3> QED BY <2>1, <3>2
  <2>3. g = [n \in 0 .. NumMarks |-> IF n = 0 THEN first ELSE [g[n - 1] EXCEPT ![n] = In(n, g[n - 1])]]
    <3> DEFINE h == [n \in 0 .. NumMarks |-> IF n = 0 THEN first ELSE [g[n - 1] EXCEPT ![n] = In(n, g[n - 1])]]
    <3>1. \A n \in 0 .. NumMarks : g[n] = h[n]
      <4> SUFFICES ASSUME NEW n \in 0 .. NumMarks PROVE g[n] = h[n]
        OBVIOUS
      <4>1. CASE n = 0
        <5> HIDE DEF first
        <5> QED BY <2>1, <4>1
      <4>2. CASE n # 0
        <5>1. n \in 1 .. NumMarks
          BY <1>2, <4>2
        <5> QED BY <2>2, <4>2, <5>1
      <4> QED BY <4>1, <4>2
    <3>2. g = [n \in 0 .. NumMarks |-> g[n]]
      BY <2>1
    <3> QED BY <3>1, <3>2
  <2> QED BY <2>3 DEF Rule
<1>4. Rule(f)
  BY <1>3 DEF f
<1>5. ClaimsOf(d, entries, again) = f[NumMarks]
  BY DEF ClaimsOf, ClaimIn, HeldKeys, Before, f, Rule
<1> HIDE DEF f
<1>6. /\ f[0] = first /\ \A n \in 1 .. NumMarks : f[n] = [f[n - 1] EXCEPT ![n] = In(n, f[n - 1])]
  <2> HIDE DEF In, first
  <2>1. f = [n \in 0 .. NumMarks |-> IF n = 0 THEN first ELSE [f[n - 1] EXCEPT ![n] = In(n, f[n - 1])]]
    BY <1>4 DEF Rule
  <2>2. 0 \in 0 .. NumMarks /\ \A n \in 1 .. NumMarks : n \in 0 .. NumMarks /\ n # 0
    BY <1>2
  <2> QED BY <2>1, <2>2
<1>7. \A n \in 0 .. NumMarks : f[n] \in Claims
  <2> DEFINE Bad == {n \in 0 .. NumMarks : f[n] \notin Claims}
  <2>1. SUFFICES ASSUME Bad # {} PROVE FALSE
    OBVIOUS
  <2>2. PICK n \in Bad : \A k \in Bad : n <= k
    <3>1. Bad \in SUBSET Nat
      OBVIOUS
    <3> HIDE DEF Bad
    <3> QED BY <2>1, <3>1, LeastIn
  <2>3. n # 0
    <3> HIDE DEF first
    <3> QED BY <1>2, <1>6, <2>2
  <2>4. n \in 1 .. NumMarks /\ n - 1 \in 0 .. NumMarks /\ n - 1 \notin Bad
    BY <1>2, <2>2, <2>3
  <2>5. f[n - 1] \in Claims
    BY <2>4
  <2>6. f[n] = [f[n - 1] EXCEPT ![n] = In(n, f[n - 1])]
    BY <1>6, <2>4
  <2> HIDE DEF In
  <2> QED BY <1>1, <2>2, <2>5, <2>6 DEF Claims
\* What is claimed once stays.
<1>8. ASSUME NEW i \in Marks, NEW j \in i .. NumMarks PROVE f[j][i] = f[i][i]
  <2> DEFINE Bad == {k \in i .. NumMarks : f[k][i] # f[i][i]}
  <2>1. SUFFICES ASSUME Bad # {} PROVE FALSE
    OBVIOUS
  <2>2. PICK n \in Bad : \A k \in Bad : n <= k
    <3>1. Bad \in SUBSET Nat
      BY DEF Marks
    <3> HIDE DEF Bad
    <3> QED BY <2>1, <3>1, LeastIn
  <2>3. n # i /\ n \in 1 .. NumMarks /\ n - 1 \in i .. NumMarks /\ n - 1 \notin Bad
    BY <1>2, <2>2 DEF Marks
  <2>4. f[n - 1][i] = f[i][i] /\ f[n - 1] \in Claims
    BY <1>7, <2>3 DEF Marks
  <2>5. f[n] = [f[n - 1] EXCEPT ![n] = In(n, f[n - 1])]
    BY <1>6, <2>3
  <2> HIDE DEF In
  <2> QED BY <2>2, <2>3, <2>4, <2>5 DEF Claims
<1>9. ASSUME NEW n \in Marks PROVE f[NumMarks][n] = In(n, f[NumMarks])
  <2>1. n \in 1 .. NumMarks /\ n - 1 \in 0 .. NumMarks
    BY <1>2 DEF Marks
  <2>2. f[n] = [f[n - 1] EXCEPT ![n] = In(n, f[n - 1])] /\ f[n - 1] \in Claims
    BY <1>6, <1>7, <2>1
  <2>3. f[n][n] = In(n, f[n - 1])
    <3> HIDE DEF In
    <3> QED BY <2>2 DEF Claims
  <2>4. f[NumMarks][n] = f[n][n]
    BY <1>2, <1>8, <2>1
  <2>5. \A i \in 1 .. n - 1 : f[n - 1][i] = f[NumMarks][i]
    <3> SUFFICES ASSUME NEW i \in 1 .. n - 1 PROVE f[n - 1][i] = f[NumMarks][i]
      OBVIOUS
    <3>1. i \in Marks /\ n - 1 \in i .. NumMarks /\ NumMarks \in i .. NumMarks
      BY <1>2, <2>1 DEF Marks
    <3> QED BY <1>8, <3>1
  <2>6. Before(f[n - 1], n) = Before(f[NumMarks], n)
    BY <2>5 DEF Before
  <2> QED BY <2>3, <2>4, <2>6 DEF ClaimIn
<1> QED
  <2>1. f[NumMarks] \in Claims
    BY <1>2, <1>7
  <2> QED BY <1>5, <1>9, <2>1

LEMMA RecordParts ==
  /\ \A r \in Records : /\ r.key \in Keys /\ r.written \in [Fields -> Values] /\ r.edited \subseteq Fields /\ r.deleted \in BOOLEAN
                        /\ r # None /\ \A f \in Fields : r.written[f] # None /\ r.written[f] # Theirs
  /\ \A k \in Keys, w \in [Fields -> Values], e \in SUBSET Fields, b \in BOOLEAN :
        /\ Record(k, w, e, b) \in Records
        /\ Record(k, w, e, b).key = k /\ Record(k, w, e, b).edited = e /\ Record(k, w, e, b).deleted = b
  /\ \A r \in Records, e \in SUBSET Fields : /\ [r EXCEPT !.edited = e] \in Records /\ [r EXCEPT !.edited = e].key = r.key
                                           /\ [r EXCEPT !.edited = e].deleted = r.deleted /\ [r EXCEPT !.edited = e].edited = e
  /\ \A r \in Records : AsDeleted(r) \in Records /\ AsDeleted(r).key = r.key /\ AsDeleted(r).deleted
<1>1. \A r \in Records : /\ r.key \in Keys /\ r.written \in [Fields -> Values] /\ r.edited \subseteq Fields /\ r.deleted \in BOOLEAN
                        /\ r # None /\ \A f \in Fields : r.written[f] # None /\ r.written[f] # Theirs
  BY MarksAssumption DEF Records
<1>2. \A k \in Keys, w \in [Fields -> Values], e \in SUBSET Fields, b \in BOOLEAN :
        /\ Record(k, w, e, b) \in Records
        /\ Record(k, w, e, b).key = k /\ Record(k, w, e, b).edited = e /\ Record(k, w, e, b).deleted = b
  BY DEF Record, Records
<1>3. \A r \in Records, e \in SUBSET Fields : /\ [r EXCEPT !.edited = e] \in Records /\ [r EXCEPT !.edited = e].key = r.key
                                           /\ [r EXCEPT !.edited = e].deleted = r.deleted /\ [r EXCEPT !.edited = e].edited = e
  BY DEF Records
<1>4. \A r \in Records : AsDeleted(r) \in Records /\ AsDeleted(r).key = r.key /\ AsDeleted(r).deleted
  BY <1>1 DEF AsDeleted, Record, Records
<1> QED BY <1>1, <1>2, <1>3, <1>4

LEMMA ItemParts == ASSUME MarksTypes, NEW k \in Keys, items[k] # None
  PROVE items[k] \in Annotations /\ items[k].page \in {1, 2} /\ items[k].f \in [Fields -> Values \cup {Theirs}]
        /\ items[k].live \in BOOLEAN /\ items[k].back \in BOOLEAN /\ items[k].fresh \in BOOLEAN
  BY DEF MarksTypes, Annotations

\* What a mark may claim: its own annotation while it is there, or one that nobody has; no two the same.
LEMMA ClaimFacts ==
  ASSUME MarksInv, NEW d, NEW entries, NEW again
  PROVE  LET c == ClaimsOf(d, entries, again) IN
         /\ \A m \in Marks : c[m] # None =>
              /\ m \in entries /\ c[m] \in Existing /\ c[m] \in Keys /\ items[c[m]].page = page[m]
              /\ stored[m] # None /\ stored[m].deleted => again
              /\ \/ stored[m] # None /\ ~stored[m].deleted /\ c[m] = stored[m].key
                 \/ (stored[m] = None \/ stored[m].deleted) /\ c[m] \notin HeldKeys
         /\ \A m, n \in Marks : c[m] # None /\ c[m] = c[n] => m = n
         /\ \A m \in Marks : m \in entries /\ c[m] = None /\ stored[m] # None /\ ~stored[m].deleted => stored[m].key \notin Existing
<1> DEFINE c == ClaimsOf(d, entries, again)
<1>1. c \in Claims /\ \A n \in Marks : c[n] = ClaimIn(d, entries, again, n, c)
  BY ClaimsInTurn
<1> HIDE DEF c
<1>2. ASSUME NEW m \in Marks, c[m] # None
      PROVE  /\ m \in entries /\ c[m] \in Existing /\ c[m] \in Keys /\ items[c[m]].page = page[m]
             /\ stored[m] # None /\ stored[m].deleted => again
             /\ \/ stored[m] # None /\ ~stored[m].deleted /\ c[m] = stored[m].key
                \/ (stored[m] = None \/ stored[m].deleted) /\ c[m] \notin HeldKeys /\ \A i \in 1 .. m - 1 : c[m] # c[i]
  <2>1. MayClaim(m, entries, again) /\ c[m] = ClaimOf(d, m, HeldKeys \cup Before(c, m))
    BY <1>1, <1>2 DEF ClaimIn
  <2>2. c[m] \in Existing /\ c[m] \in Keys
    BY <1>2, <2>1, ClaimType DEF Existing
  <2>3. CASE stored[m] = None \/ stored[m].deleted
    <3> DEFINE a == Adoptable(m, d[m], HeldKeys \cup Before(c, m))
    <3>1. a # {} /\ c[m] = Min(a)
      BY <1>2, <2>1, <2>3 DEF ClaimOf
    <3>2. a \in SUBSET Nat
      BY MarksAssumption DEF Adoptable, Existing, Keys
    <3>3. c[m] \in a
      BY <3>1, <3>2, LeastIn
    <3> QED BY <2>1, <2>2, <2>3, <3>3 DEF Adoptable, MayClaim, Before
  <2>4. CASE ~(stored[m] = None \/ stored[m].deleted)
    <3>1. c[m] = stored[m].key
      BY <1>2, <2>1, <2>4 DEF ClaimOf
    <3>2. items[c[m]].page = page[m]
      BY <2>2, <2>4, <3>1 DEF MarksInv, NamedIsMade, Names
    <3> QED BY <2>1, <2>2, <2>4, <3>1, <3>2 DEF MayClaim
  <2> QED BY <2>3, <2>4
<1>3. ASSUME NEW m \in Marks, NEW n \in Marks, c[m] # None, c[m] = c[n], m # n PROVE FALSE
  <2>1. stored[m] # None /\ ~stored[m].deleted /\ c[m] = stored[m].key => c[m] \in HeldKeys
    BY DEF HeldKeys
  <2>2. stored[n] # None /\ ~stored[n].deleted /\ c[n] = stored[n].key => c[n] \in HeldKeys
    BY DEF HeldKeys
  <2>3. CASE c[m] \in HeldKeys
    <3>1. stored[m] # None /\ stored[n] # None /\ stored[m].key = stored[n].key /\ stored[m].key \in Keys
      BY <1>2, <1>3, <2>3
    <3> QED BY <1>3, <3>1 DEF MarksInv, NamedOnce, Names
  <2>4. CASE c[m] \notin HeldKeys
    <3>1. (\A i \in 1 .. m - 1 : c[m] # c[i]) /\ (\A i \in 1 .. n - 1 : c[n] # c[i])
      BY <1>2, <1>3, <2>1, <2>2, <2>4
    <3>2. m \in 1 .. n - 1 \/ n \in 1 .. m - 1
      BY <1>3, MarksAssumption DEF Marks
    <3> QED BY <1>3, <3>1, <3>2
  <2> QED BY <2>3, <2>4
<1>4. ASSUME NEW m \in Marks, m \in entries, c[m] = None, stored[m] # None, ~stored[m].deleted PROVE stored[m].key \notin Existing
  <2>1. MayClaim(m, entries, again)
    BY <1>4 DEF MayClaim
  <2>2. ClaimOf(d, m, HeldKeys \cup Before(c, m)) = None
    BY <1>1, <1>4, <2>1 DEF ClaimIn
  <2>3. stored[m].key \in Keys /\ stored[m].key # None
    BY <1>4, RecordParts, MarksAssumption DEF MarksInv, MarksTypes, Keys
  <2> QED BY <1>4, <2>2, <2>3 DEF ClaimOf
<1> QED BY <1>2, <1>3, <1>4 DEF c

\* What is the user's, and what a record becomes.
LEMMA RefreshedParts ==
  ASSUME MarksTypes, NEW m \in Marks, NEW v \in Here, NEW k \in Keys
  PROVE  /\ Surrendered(m, k) \subseteq Fields /\ ToPatch(m, v, k) \subseteq Fields
         /\ Refreshed(m, v, k) \in Records /\ Refreshed(m, v, k).key = k /\ ~Refreshed(m, v, k).deleted
         /\ Refreshed(m, v, k).edited = Surrendered(m, k)
<1>1. Surrendered(m, k) \subseteq Fields
  BY RecordParts DEF Surrendered, TheirsIn, MarksTypes
<1>2. \A f \in Surrendered(m, k) : stored[m] # None /\ stored[m].written \in [Fields -> Values]
  BY RecordParts DEF Surrendered, MarksTypes
<1> DEFINE w == [f \in Fields |-> IF f \notin Surrendered(m, k) THEN v[f] ELSE stored[m].written[f]]
<1>3. w \in [Fields -> Values]
  BY <1>1, <1>2 DEF Here
<1>4. Refreshed(m, v, k) = Record(k, w, Surrendered(m, k), FALSE)
  BY DEF Refreshed
<1> HIDE DEF w
<1>5. FALSE \in BOOLEAN /\ Surrendered(m, k) \in SUBSET Fields
  BY <1>1
<1>6. /\ Record(k, w, Surrendered(m, k), FALSE) \in Records /\ Record(k, w, Surrendered(m, k), FALSE).key = k
      /\ Record(k, w, Surrendered(m, k), FALSE).edited = Surrendered(m, k) /\ Record(k, w, Surrendered(m, k), FALSE).deleted = FALSE
  BY <1>3, <1>5 DEF Record, Records
<1>7. ToPatch(m, v, k) \subseteq Fields
  BY DEF ToPatch
<1> QED BY <1>1, <1>4, <1>6, <1>7

\* What a plan is made of, mark by mark.
PlanIs(p, c, d, entries, covered, again) ==
  /\ p.trashes \in SUBSET Marks /\ p.creates \in SUBSET Marks
  /\ p.patches \in SUBSET MarkPatches /\ p.records \in [Marks -> Records \cup {None}]
  /\ \A m \in p.trashes : /\ m \in ErasedMarks(d, covered) /\ stored[m].key \in Existing
                          /\ Surrendered(m, stored[m].key) = {} /\ p.records[m] = stored[m]
  /\ \A m \in p.creates : m \in entries /\ c[m] = None /\ (stored[m] # None => again) /\ p.records[m] = stored[m]
  /\ \A q \in p.patches : /\ q.mark \in entries /\ c[q.mark] # None /\ q.fields = ToPatch(q.mark, d[q.mark], c[q.mark])
                          /\ q.record = Refreshed(q.mark, d[q.mark], c[q.mark]) /\ p.records[q.mark] = stored[q.mark]
  /\ \A m \in Marks :
       \/ m \in p.trashes \/ m \in p.creates \/ (\E q \in p.patches : q.mark = m)
       \/ m \notin entries /\ p.records[m] = stored[m] /\ m \notin ErasedMarks(d, covered)
       \/ /\ stored[m] # None /\ p.records[m] = AsDeleted(stored[m])
          /\ stored[m].key \notin Existing \/ stored[m].deleted
       \/ m \in ErasedMarks(d, covered) /\ Surrendered(m, stored[m].key) # {}
          /\ p.records[m] = [stored[m] EXCEPT !.edited = Surrendered(m, stored[m].key)]
       \/ m \in entries /\ c[m] # None /\ ToPatch(m, d[m], c[m]) = {} /\ p.records[m] = Refreshed(m, d[m], c[m])

LEMMA PlanFacts ==
  ASSUME MarksInv, NEW covered, NEW d \in [Marks -> Here \cup {Erased}], NEW entries \in SUBSET Marks, NEW again \in BOOLEAN,
         \A m \in entries : d[m] # Erased
  PROVE  PlanIs(Decisions(d, entries, covered, again), ClaimsOf(d, entries, again), d, entries, covered, again)
<1> DEFINE c == ClaimsOf(d, entries, again)
           erased == ErasedMarks(d, covered)
           kept == {m \in erased : stored[m].key \in Existing /\ Surrendered(m, stored[m].key) # {}}
           known == {m \in entries : c[m] # None}
           vanished == {m \in entries : c[m] = None /\ stored[m] # None /\ ~again}
           gone == {m \in erased : stored[m].key \notin Existing}
           same == {m \in known : ToPatch(m, d[m], c[m]) = {}}
           patchOf(m) == [mark |-> m, fields |-> ToPatch(m, d[m], c[m]), record |-> Refreshed(m, d[m], c[m])]
           trashes == {m \in erased : stored[m].key \in Existing} \ kept
           creates == (entries \ known) \ vanished
           patches == {patchOf(m) : m \in known \ same}
           records == [m \in Marks |->
              CASE m \in vanished \cup gone -> AsDeleted(stored[m])
                [] m \in kept -> [stored[m] EXCEPT !.edited = Surrendered(m, stored[m].key)]
                [] m \in known /\ ToPatch(m, d[m], c[m]) = {} -> Refreshed(m, d[m], c[m])
                [] OTHER -> stored[m]]
<1>1. Decisions(d, entries, covered, again) = [trashes |-> trashes, creates |-> creates, patches |-> patches, records |-> records]
  <2>1. known \ same = {m \in known : ToPatch(m, d[m], c[m]) # {}}
    OBVIOUS
  <2> QED BY <2>1 DEF Decisions
<1>2. /\ \A m \in Marks : c[m] # None => c[m] \in Keys /\ (d[m] \in Here \/ m \notin entries)
      /\ erased \subseteq Marks /\ \A m \in erased : stored[m] # None /\ ~stored[m].deleted /\ m \notin entries /\ stored[m] \in Records
  BY ClaimFacts DEF ErasedMarks, MarksInv, MarksTypes
<1>3. \A m \in known : /\ m \in Marks /\ patchOf(m) \in MarkPatches /\ Refreshed(m, d[m], c[m]) \in Records
                       /\ patchOf(m).mark = m /\ patchOf(m).fields = ToPatch(m, d[m], c[m]) /\ patchOf(m).record = Refreshed(m, d[m], c[m])
  <2> SUFFICES ASSUME NEW m \in known PROVE patchOf(m) \in MarkPatches /\ Refreshed(m, d[m], c[m]) \in Records
    OBVIOUS
  <2>1. m \in Marks /\ c[m] \in Keys /\ d[m] \in Here
    BY <1>2, ClaimFacts
  <2> QED BY <2>1, RefreshedParts DEF MarkPatches, MarksInv
<1> HIDE DEF c, erased, patchOf
<1>4. \A m \in Marks : records[m] \in Records \cup {None}
  <2> SUFFICES ASSUME NEW m \in Marks PROVE records[m] \in Records \cup {None}
    OBVIOUS
  <2>1. stored[m] \in Records \cup {None}
    BY DEF MarksInv, MarksTypes
  <2>2. CASE m \in vanished \cup gone
    BY <1>2, <2>1, <2>2, RecordParts
  <2>3. CASE m \in kept
    <3>1. Surrendered(m, stored[m].key) \subseteq Fields
      BY <1>2, <2>3, RecordParts DEF Surrendered, TheirsIn
    <3> QED BY <1>2, <2>3, <3>1, RecordParts
  <2>4. CASE m \in known /\ ToPatch(m, d[m], c[m]) = {} /\ m \notin vanished \cup gone \cup kept
    BY <1>3, <2>4
  <2> QED BY <2>1, <2>2, <2>3, <2>4
<1>5. trashes \in SUBSET Marks /\ creates \in SUBSET Marks /\ patches \in SUBSET MarkPatches /\ records \in [Marks -> Records \cup {None}]
  BY <1>2, <1>3, <1>4, SMTT(30)
<1>6. \A m \in trashes : m \in erased /\ stored[m].key \in Existing /\ Surrendered(m, stored[m].key) = {} /\ records[m] = stored[m]
  BY <1>2
<1>7. \A m \in creates : m \in entries /\ c[m] = None /\ (stored[m] # None => again) /\ records[m] = stored[m]
  BY <1>2
<1>8. \A q \in patches : /\ q.mark \in entries /\ c[q.mark] # None /\ q.fields = ToPatch(q.mark, d[q.mark], c[q.mark])
                         /\ q.record = Refreshed(q.mark, d[q.mark], c[q.mark]) /\ records[q.mark] = stored[q.mark]
  <2> SUFFICES ASSUME NEW q \in patches
               PROVE  /\ q.mark \in entries /\ c[q.mark] # None /\ q.fields = ToPatch(q.mark, d[q.mark], c[q.mark])
                      /\ q.record = Refreshed(q.mark, d[q.mark], c[q.mark]) /\ records[q.mark] = stored[q.mark]
    OBVIOUS
  <2>1. PICK m \in known \ same : q = patchOf(m)
    OBVIOUS
  <2>2. records[m] = stored[m]
    BY <1>2, <1>3
  <2> QED BY <1>3, <2>1, <2>2
<1>9. \A m \in Marks :
        \/ m \in trashes \/ m \in creates \/ (\E q \in patches : q.mark = m)
        \/ m \notin entries /\ records[m] = stored[m] /\ m \notin erased
        \/ /\ stored[m] # None /\ records[m] = AsDeleted(stored[m])
           /\ stored[m].key \notin Existing \/ stored[m].deleted
        \/ m \in erased /\ Surrendered(m, stored[m].key) # {}
           /\ records[m] = [stored[m] EXCEPT !.edited = Surrendered(m, stored[m].key)]
        \/ m \in entries /\ c[m] # None /\ ToPatch(m, d[m], c[m]) = {} /\ records[m] = Refreshed(m, d[m], c[m])
  <2> SUFFICES ASSUME NEW m \in Marks, m \notin trashes, m \notin creates, ~\E q \in patches : q.mark = m
               PROVE \/ m \notin entries /\ records[m] = stored[m] /\ m \notin erased
                     \/ /\ stored[m] # None /\ records[m] = AsDeleted(stored[m])
                        /\ stored[m].key \notin Existing \/ stored[m].deleted
                     \/ m \in erased /\ Surrendered(m, stored[m].key) # {}
                        /\ records[m] = [stored[m] EXCEPT !.edited = Surrendered(m, stored[m].key)]
                     \/ m \in entries /\ c[m] # None /\ ToPatch(m, d[m], c[m]) = {} /\ records[m] = Refreshed(m, d[m], c[m])
    OBVIOUS
  <2>1. m \notin known \ same
    BY <1>3
  <2>2. CASE m \in vanished \cup gone
    <3>1. records[m] = AsDeleted(stored[m])
      BY <1>2, <2>2
    <3>2. m \in vanished => stored[m].key \notin Existing \/ stored[m].deleted
      BY ClaimFacts DEF c
    <3> QED BY <1>2, <2>2, <3>1, <3>2
  <2>3. CASE m \in kept /\ m \notin vanished \cup gone
    BY <2>3
  <2>4. CASE m \in known /\ ToPatch(m, d[m], c[m]) = {} /\ m \notin vanished \cup gone \cup kept
    BY <2>4
  <2>5. CASE m \notin vanished \cup gone \cup kept \cup known
    BY <2>5
  <2> QED BY <2>1, <2>2, <2>3, <2>4, <2>5
<1> QED
  <2> DEFINE p == Decisions(d, entries, covered, again)
  <2> HIDE DEF kept, known, vanished, gone, same, trashes, creates, patches, records, p
  <2>1. p.trashes = trashes /\ p.creates = creates /\ p.patches = patches /\ p.records = records
    BY <1>1 DEF p
  <2> QED BY <1>5, <1>6, <1>7, <1>8, <1>9, <2>1, ZenonT(40) DEF c, erased, p, PlanIs

LEMMA BeginStep ==
  ASSUME MarksInv, NEW covered \in Scopes, NEW placed \in BOOLEAN, BeginWriteBack(covered, placed)
  PROVE  MarksInv'
<1> DEFINE d == [m \in Marks |-> IF page[m] \in covered THEN tablet[m] ELSE Erased]
           entries == IF placed THEN {m \in Marks : d[m] # Erased} ELSE {}
           p == Decisions(d, entries, covered, startOver)
           c == ClaimsOf(d, entries, startOver)
<1>1. /\ pass = "idle" /\ mine = stored /\ plan = NoPlan /\ ~incomplete
      /\ digest' = d /\ plan' = [trashes |-> p.trashes, creates |-> p.creates, patches |-> p.patches] /\ mine' = p.records
      /\ mirrored' = (placed /\ covered = {1, 2}) /\ pass' = "writing" /\ startOver' = FALSE
      /\ removed' = (IF startOver THEN {} ELSE removed)
      /\ UNCHANGED <<page, faulty, tablet, items, stored, incomplete>>
  BY DEF BeginWriteBack, MarksInv, MarksTypes
<1>2. /\ d \in [Marks -> Here \cup {Erased}] /\ entries \in SUBSET Marks /\ startOver \in BOOLEAN
      /\ \A m \in entries : d[m] # Erased /\ d[m] \in Here
  BY DEF MarksInv, MarksTypes
<1> HIDE DEF d, entries
<1>3. /\ p.trashes \in SUBSET Marks /\ p.creates \in SUBSET Marks
      /\ p.patches \in SUBSET MarkPatches /\ p.records \in [Marks -> Records \cup {None}]
      /\ \A m \in p.trashes : /\ m \in ErasedMarks(d, covered) /\ stored[m].key \in Existing
                              /\ Surrendered(m, stored[m].key) = {} /\ p.records[m] = stored[m]
      /\ \A m \in p.creates : m \in entries /\ c[m] = None /\ (stored[m] # None => startOver) /\ p.records[m] = stored[m]
      /\ \A q \in p.patches : /\ q.mark \in entries /\ c[q.mark] # None /\ q.fields = ToPatch(q.mark, d[q.mark], c[q.mark])
                              /\ q.record = Refreshed(q.mark, d[q.mark], c[q.mark]) /\ p.records[q.mark] = stored[q.mark]
      /\ \A m \in Marks :
              \/ m \in p.trashes \/ m \in p.creates \/ (\E q \in p.patches : q.mark = m)
              \/ m \notin entries /\ p.records[m] = stored[m] /\ m \notin ErasedMarks(d, covered)
              \/ /\ stored[m] # None /\ p.records[m] = AsDeleted(stored[m])
                 /\ stored[m].key \notin Existing \/ stored[m].deleted
              \/ m \in ErasedMarks(d, covered) /\ Surrendered(m, stored[m].key) # {}
                 /\ p.records[m] = [stored[m] EXCEPT !.edited = Surrendered(m, stored[m].key)]
              \/ m \in entries /\ c[m] # None /\ ToPatch(m, d[m], c[m]) = {} /\ p.records[m] = Refreshed(m, d[m], c[m])
  <2>1. \A m \in entries : d[m] # Erased
    BY <1>2
  <2>2. PlanIs(p, c, d, entries, covered, startOver)
    BY <1>2, <2>1, PlanFacts
  <2> QED BY <2>2 DEF PlanIs
<1>4. /\ \A m \in Marks : c[m] # None =>
              /\ m \in entries /\ c[m] \in Existing /\ c[m] \in Keys /\ items[c[m]].page = page[m]
              /\ stored[m] # None /\ stored[m].deleted => startOver
              /\ \/ stored[m] # None /\ ~stored[m].deleted /\ c[m] = stored[m].key
                 \/ (stored[m] = None \/ stored[m].deleted) /\ c[m] \notin HeldKeys
      /\ \A m, n \in Marks : c[m] # None /\ c[m] = c[n] => m = n
      /\ \A m \in Marks : m \in entries /\ c[m] = None /\ stored[m] # None /\ ~stored[m].deleted => stored[m].key \notin Existing
  BY ClaimFacts
<1>5. \A m \in ErasedMarks(d, covered) : m \in Marks /\ stored[m] # None /\ ~stored[m].deleted /\ m \notin entries /\ d[m] = Erased
                                        /\ stored[m] \in Records
  BY <1>2 DEF ErasedMarks, MarksInv, MarksTypes
<1> HIDE DEF p, c
<1>6. plan' \in Plans /\ plan'.trashes = p.trashes /\ plan'.creates = p.creates /\ plan'.patches = p.patches
  BY <1>1, <1>3 DEF Plans
<1>7. MarksTypes'
  BY <1>1, <1>2, <1>3, <1>6 DEF MarksInv, MarksTypes
<1>8. Used' = Used /\ Existing' = Existing /\ HeldKeys' = HeldKeys /\ \A k \in Keys : Live(k)' = Live(k)
  BY <1>1 DEF Used, Existing, HeldKeys, Live
<1>9. KeysInOrder'
  BY <1>8 DEF MarksInv, KeysInOrder
\* The record a mark gets is of the annotation it had or claims.
<1>10. \A m \in Marks : p.records[m] # None =>
         p.records[m] \in Records /\ ((stored[m] # None /\ p.records[m].key = stored[m].key) \/ (c[m] # None /\ p.records[m].key = c[m]))
  <2> SUFFICES ASSUME NEW m \in Marks, p.records[m] # None
               PROVE (stored[m] # None /\ p.records[m].key = stored[m].key) \/ (c[m] # None /\ p.records[m].key = c[m])
    BY <1>3
  <2>1. stored[m] # None => stored[m] \in Records
    BY DEF MarksInv, MarksTypes
  <2>2. CASE p.records[m] = stored[m]
    BY <2>2
  <2>3. CASE stored[m] # None /\ p.records[m] = AsDeleted(stored[m])
    BY <2>1, <2>3, RecordParts
  <2>4. CASE stored[m] # None /\ p.records[m] = [stored[m] EXCEPT !.edited = Surrendered(m, stored[m].key)]
    BY <2>1, <2>4 DEF Records
  <2>5. CASE m \in entries /\ c[m] # None /\ p.records[m] = Refreshed(m, d[m], c[m])
    BY <1>2, <1>4, <2>5, RefreshedParts DEF MarksInv
  <2> QED BY <1>3, <1>5, <2>2, <2>3, <2>4, <2>5
<1>11. \A q \in p.patches : /\ q.mark \in Marks /\ q.mark \in entries /\ c[q.mark] # None /\ q.record.key = c[q.mark] /\ ~q.record.deleted
                           /\ q.record.edited = Surrendered(q.mark, c[q.mark]) /\ q.fields = ToPatch(q.mark, d[q.mark], c[q.mark])
  <2> SUFFICES ASSUME NEW q \in p.patches
               PROVE  /\ q.mark \in Marks /\ q.record.key = c[q.mark] /\ ~q.record.deleted
                      /\ q.record.edited = Surrendered(q.mark, c[q.mark])
    BY <1>3
  <2>1. q.mark \in entries /\ q.mark \in Marks /\ c[q.mark] \in Keys /\ d[q.mark] \in Here
    BY <1>2, <1>3, <1>4
  <2> QED BY <1>3, <2>1, RefreshedParts DEF MarksInv
<1>12. \A m \in Marks, k \in Keys : Names(m, k)' => (stored[m] # None /\ stored[m].key = k) \/ (c[m] # None /\ c[m] = k)
  BY <1>1, <1>6, <1>10, <1>11 DEF Names
<1>13. NamedOnce'
  <2> SUFFICES ASSUME NEW m \in Marks, NEW n \in Marks, NEW k \in Keys, Names(m, k)', Names(n, k)', m # n PROVE FALSE
    BY DEF NamedOnce
  <2>1. stored[m] # None /\ stored[m].key = k => k \in HeldKeys
    BY DEF HeldKeys
  <2>2. stored[n] # None /\ stored[n].key = k => k \in HeldKeys
    BY DEF HeldKeys
  <2>3. ~(stored[m] # None /\ stored[m].key = k /\ stored[n] # None /\ stored[n].key = k)
    BY DEF MarksInv, NamedOnce, Names
  <2> QED BY <1>4, <1>12, <2>1, <2>2, <2>3
<1>14. NamedIsMade'
  <2> SUFFICES ASSUME NEW m \in Marks, NEW k \in Keys, Names(m, k)' PROVE items[k] # None /\ items[k].page = page[m]
    BY <1>1 DEF NamedIsMade
  <2>1. CASE stored[m] # None /\ stored[m].key = k
    BY <2>1 DEF MarksInv, NamedIsMade, Names
  <2>2. CASE c[m] # None /\ c[m] = k
    BY <1>4, <2>2 DEF Existing, Live
  <2> QED BY <1>12, <2>1, <2>2
<1>15. PlanApart'
  <2>1. \A q, r \in p.patches : q.mark = r.mark => q = r
    BY <1>3 DEF MarkPatches
  <2>2. \A m \in p.trashes : m \notin p.creates /\ \A q \in p.patches : q.mark # m
    BY <1>3, <1>5
  <2>3. \A m \in p.creates : \A q \in p.patches : q.mark # m
    BY <1>3
  <2>4. \A m \in Marks : m \in p.trashes \/ m \in p.creates \/ (\E q \in p.patches : q.mark = m) => p.records[m] = stored[m]
    BY <1>3
  <2>5. \A m \in Marks : m \in p.creates \/ (\E q \in p.patches : q.mark = m) => d[m] # Erased
    BY <1>2, <1>3
  <2> QED BY <1>1, <1>6, <1>11, <2>1, <2>2, <2>3, <2>4, <2>5 DEF PlanApart, InPatches, DueMark
<1>16. HandsOff'
  <2>1. ASSUME NEW m \in p.trashes
        PROVE  stored[m] # None /\ \A f \in Fields : items[stored[m].key].f[f] # Theirs
    <3>1. stored[m] # None /\ stored[m] \in Records /\ Surrendered(m, stored[m].key) = {}
      BY <1>3, <1>5
    <3>2. \A f \in Fields : items[stored[m].key].f[f] = stored[m].written[f]
      BY <3>1, RecordParts DEF Surrendered, TheirsIn
    <3> QED BY <3>1, <3>2, RecordParts
  <2>2. ASSUME NEW q \in p.patches, OnRecord(q.record.key), NEW f \in q.fields
        PROVE  items[q.record.key].f[f] # Theirs
    <3> DEFINE m == q.mark
    <3>1. m \in Marks /\ c[m] # None /\ q.record.key = c[m] /\ q.fields = ToPatch(m, d[m], c[m])
      BY <1>11
    <3>2. c[m] \in HeldKeys
      BY <2>2, <3>1 DEF OnRecord, HeldKeys
    <3>3. stored[m] # None /\ stored[m].key = c[m] /\ stored[m] \in Records
      BY <1>4, <3>1, <3>2 DEF MarksInv, MarksTypes
    <3>4. f \in Fields /\ f \notin Surrendered(m, c[m])
      BY <2>2, <3>1 DEF ToPatch
    <3>5. items[c[m]].f[f] = stored[m].written[f]
      BY <3>3, <3>4, RecordParts DEF Surrendered, TheirsIn
    <3> QED BY <3>1, <3>3, <3>4, <3>5, RecordParts
  <2>3. \A k \in Keys : OnRecord(k)' = OnRecord(k)
    BY <1>1 DEF OnRecord
  <2>4. \A q \in p.patches : q.record.key \in Keys
    BY <1>3, RecordParts DEF MarkPatches
  <2> QED BY <1>1, <1>6, <2>1, <2>2, <2>3, <2>4 DEF HandsOff
<1>17. RemovedKnown'
  <2> SUFFICES ASSUME NEW m \in Marks PROVE (m \in removed' => stored[m] # None) /\ (stored[m] # None => p.records[m] # None)
    BY <1>1 DEF RemovedKnown
  <2>1. stored[m] # None => stored[m] \in Records
    BY DEF MarksInv, MarksTypes
  <2>2. stored[m] # None => p.records[m] # None
    <3>1. CASE p.records[m] = AsDeleted(stored[m]) /\ stored[m] # None
      BY <2>1, <3>1, RecordParts
    <3>2. CASE p.records[m] = [stored[m] EXCEPT !.edited = Surrendered(m, stored[m].key)] /\ stored[m] # None /\ m \in ErasedMarks(d, covered)
      <4>1. Surrendered(m, stored[m].key) \in SUBSET Fields
        BY <2>1, <3>2, RecordParts DEF Surrendered, TheirsIn
      <4>2. p.records[m] \in Records
        BY <2>1, <3>2, <4>1 DEF Records
      <4> QED BY <4>2, RecordParts
    <3>3. CASE m \in entries /\ c[m] # None /\ p.records[m] = Refreshed(m, d[m], c[m])
      BY <1>2, <1>4, <3>3, RefreshedParts, RecordParts DEF MarksInv
    <3> QED BY <1>3, <1>5, <3>1, <3>2, <3>3
  <2> QED BY <1>1, <2>2 DEF MarksInv, RemovedKnown
<1>18. DeletedAreGone'
  <2>1. ASSUME NEW m \in Marks, p.records[m] # None, p.records[m].deleted PROVE GoneOrBack(p.records[m].key)
    <3>1. stored[m] # None => stored[m] \in Records
      BY DEF MarksInv, MarksTypes
    <3>2. CASE p.records[m] = stored[m]
      BY <2>1, <3>2 DEF MarksInv, DeletedAreGone
    <3>3. CASE stored[m] # None /\ p.records[m] = AsDeleted(stored[m]) /\ (stored[m].key \notin Existing \/ stored[m].deleted)
      <4>1. p.records[m].key = stored[m].key /\ stored[m].key \in Keys
        BY <3>1, <3>3, RecordParts
      <4>2. CASE stored[m].key \notin Existing
        BY <4>1, <4>2 DEF GoneOrBack, Existing
      <4>3. CASE stored[m].deleted
        BY <3>3, <4>1, <4>3 DEF MarksInv, DeletedAreGone
      <4> QED BY <3>3, <4>2, <4>3
    <3>4. CASE stored[m] # None /\ ~stored[m].deleted /\ p.records[m] = [stored[m] EXCEPT !.edited = Surrendered(m, stored[m].key)]
      BY <2>1, <3>1, <3>4 DEF Records
    <3>5. CASE m \in entries /\ c[m] # None /\ p.records[m] = Refreshed(m, d[m], c[m])
      BY <1>2, <1>4, <2>1, <3>5, RefreshedParts DEF MarksInv
    <3> QED BY <1>3, <1>5, <3>2, <3>3, <3>4, <3>5
  <2>2. ASSUME NEW m \in p.creates, stored[m] # None PROVE GoneOrBack(stored[m].key)
    <3>1. m \in Marks /\ m \in entries /\ c[m] = None /\ stored[m].key \in Keys
      BY <1>3, <2>2, RecordParts DEF MarksInv, MarksTypes
    <3>2. CASE stored[m].deleted
      BY <2>2, <3>1, <3>2 DEF MarksInv, DeletedAreGone
    <3>3. CASE ~stored[m].deleted
      BY <1>4, <2>2, <3>1, <3>3 DEF GoneOrBack, Existing
    <3> QED BY <3>2, <3>3
  <2>3. ASSUME NEW q \in p.patches, stored[q.mark] # None, stored[q.mark].key # q.record.key PROVE GoneOrBack(stored[q.mark].key)
    <3>1. q.mark \in Marks /\ c[q.mark] # None /\ q.record.key = c[q.mark]
      BY <1>11
    <3>2. stored[q.mark].deleted
      BY <1>4, <2>3, <3>1
    <3> QED BY <2>3, <3>1, <3>2 DEF MarksInv, DeletedAreGone
  <2>4. ASSUME NEW m \in Marks, stored[m] # None, stored[m].deleted PROVE GoneOrBack(stored[m].key)
    BY <2>4 DEF MarksInv, DeletedAreGone
  <2>5. \A k : GoneOrBack(k)' = GoneOrBack(k)
    BY <1>1 DEF GoneOrBack, Live
  <2> QED BY <1>1, <1>6, <2>1, <2>2, <2>3, <2>4, <2>5 DEF DeletedAreGone
<1>19. NoneUnknown'
  <2> SUFFICES ASSUME ~faulty, NEW k \in Existing, ~items[k].back
               PROVE  \E m \in Marks : p.records[m] # None /\ p.records[m].key = k
    BY <1>1, <1>8 DEF NoneUnknown
  <2>1. PICK m \in Marks : stored[m] # None /\ stored[m].key = k /\ k \in Keys /\ Live(k)
    BY <1>1 DEF MarksInv, NoneUnknown, Existing
  <2>2. ~stored[m].deleted
    BY <2>1 DEF MarksInv, DeletedAreGone, GoneOrBack
  <2>3. p.records[m] # None
    BY <1>1, <1>17, <2>1 DEF RemovedKnown
  <2>4. p.records[m].key = stored[m].key \/ (c[m] # None /\ p.records[m].key = c[m] /\ c[m] = stored[m].key)
    BY <1>4, <1>10, <2>1, <2>2, <2>3
  <2> QED BY <2>1, <2>3, <2>4
<1>20. MirrorsToBe'
  <2> SUFFICES ASSUME mirrored'
               PROVE  /\ d = tablet
                      /\ \A m \in Marks : DueMark(m)' \/ ShowsMark(m, mine[m])'
                      /\ \A m \in p.trashes : tablet[m] = Erased
                      /\ \A q \in p.patches : /\ Live(q.record.key)'
                                             /\ \A f \in Fields \ (q.record.edited \cup q.fields) : items[q.record.key].f[f] = tablet[q.mark][f]
    BY <1>1, <1>6 DEF MirrorsToBe
  <2>1. placed /\ covered = {1, 2} /\ tablet \in [Marks -> Here \cup {Erased}] /\ page \in [Marks -> {1, 2}]
    BY <1>1 DEF MarksInv, MarksTypes
  <2>2. d = tablet
    BY <2>1 DEF d
  <2>3. entries = {m \in Marks : tablet[m] # Erased}
    BY <2>1, <2>2 DEF entries
  <2>4. \A k : Live(k)' = Live(k)
    BY <1>1 DEF Live
  <2>5. ASSUME NEW m \in Marks, m \notin p.trashes, m \notin p.creates, ~\E q \in p.patches : q.mark = m PROVE ShowsMark(m, mine[m])'
    <3>1. stored[m] # None => stored[m] \in Records
      BY DEF MarksInv, MarksTypes
    <3>2. CASE m \notin entries /\ p.records[m] = stored[m] /\ m \notin ErasedMarks(d, covered)
      <4>1. stored[m] = None \/ stored[m].deleted
        BY <2>1, <2>2, <2>3, <3>2 DEF ErasedMarks
      <4> QED BY <1>1, <2>3, <3>2, <4>1 DEF ShowsMark
    <3>3. CASE stored[m] # None /\ p.records[m] = AsDeleted(stored[m])
      <4>1. p.records[m] # None /\ p.records[m].deleted
        BY <3>1, <3>3, RecordParts
      <4> QED BY <1>1, <4>1 DEF ShowsMark
    <3>4. CASE m \in ErasedMarks(d, covered) /\ Surrendered(m, stored[m].key) # {}
               /\ p.records[m] = [stored[m] EXCEPT !.edited = Surrendered(m, stored[m].key)]
      <4>1. p.records[m].edited # {} /\ tablet[m] = Erased
        BY <1>5, <2>2, <3>1, <3>4 DEF Records
      <4> QED BY <1>1, <4>1 DEF ShowsMark
    <3>5. CASE m \in entries /\ c[m] # None /\ ToPatch(m, d[m], c[m]) = {} /\ p.records[m] = Refreshed(m, d[m], c[m])
      <4>1. c[m] \in Keys /\ Live(c[m]) /\ d[m] \in Here /\ tablet[m] # Erased
        BY <1>2, <1>4, <2>3, <3>5 DEF Existing
      <4>2. /\ p.records[m] \in Records /\ p.records[m].key = c[m] /\ p.records[m].edited = Surrendered(m, c[m])
        BY <3>5, <4>1, RefreshedParts DEF MarksInv
      <4>3. \A f \in Fields \ Surrendered(m, c[m]) : items[c[m]].f[f] = d[m][f]
        BY <3>5 DEF ToPatch
      <4>4. p.records[m] # None
        BY <4>2, RecordParts
      <4> QED BY <1>1, <2>2, <2>4, <4>1, <4>2, <4>3, <4>4 DEF ShowsMark
    <3> QED BY <1>3, <2>5, <3>2, <3>3, <3>4, <3>5
  <2>6. \A m \in Marks : DueMark(m)' \/ ShowsMark(m, mine[m])'
    BY <1>6, <2>5 DEF DueMark, InPatches
  <2>7. ASSUME NEW q \in p.patches
        PROVE  /\ Live(q.record.key)'
               /\ \A f \in Fields \ (q.record.edited \cup q.fields) : items[q.record.key].f[f] = tablet[q.mark][f]
    <3>1. q.mark \in Marks /\ q.mark \in entries /\ c[q.mark] # None /\ q.record.key = c[q.mark]
          /\ q.record.edited = Surrendered(q.mark, c[q.mark]) /\ q.fields = ToPatch(q.mark, d[q.mark], c[q.mark])
      BY <1>11
    <3>2. Live(c[q.mark])
      BY <1>4, <3>1 DEF Existing
    <3>3. \A f \in Fields \ (Surrendered(q.mark, c[q.mark]) \cup q.fields) : items[c[q.mark]].f[f] = d[q.mark][f]
      BY <3>1 DEF ToPatch
    <3> QED BY <2>2, <2>4, <3>1, <3>2, <3>3
  <2> QED BY <1>3, <1>5, <2>2, <2>6, <2>7
<1> QED BY <1>7, <1>9, <1>13, <1>14, <1>15, <1>16, <1>17, <1>18, <1>19, <1>20 DEF MarksInv

LEMMA MarksStart == MarksInit => MarksInv
<1> SUFFICES ASSUME MarksInit PROVE MarksInv
  OBVIOUS
<1>1. NoPlan \in Plans /\ NoPlan.trashes = {} /\ NoPlan.creates = {} /\ NoPlan.patches = {}
  BY DEF NoPlan, Plans
<1>2. page \in [Marks -> {1, 2}] /\ tablet \in [Marks -> Here \cup {Erased}]
  BY DEF MarksInit
<1>3. MarksTypes
  BY <1>1, <1>2 DEF MarksInit, MarksTypes
<1>4. Used = {} /\ Used = 1 .. 0 /\ 0 \in 0 .. MaxItems /\ Existing = {}
  BY MarksAssumption DEF MarksInit, Used, Existing, Live
<1>5. \A m \in Marks : stored[m] = None /\ mine[m] = None
  BY DEF MarksInit
<1>6. plan = NoPlan /\ removed = {} /\ mirrored = FALSE
  BY DEF MarksInit
<1>7. \A m \in Marks : ~InPatches(m) /\ \A k : ~Names(m, k)
  BY <1>1, <1>5, <1>6 DEF InPatches, Names
<1> QED BY <1>1, <1>3, <1>4, <1>5, <1>6, <1>7
        DEF MarksInv, KeysInOrder, NamedOnce, NamedIsMade, PlanApart, HandsOff, RemovedKnown, DeletedAreGone, NoneUnknown, MirrorsToBe, DueMark

\* The tablet and the note: nothing of the library, the records or the plan.
LEMMA TabletChanges ==
  ASSUME MarksInv, UNCHANGED <<page, faulty, items, stored, pass, mine, plan, digest, incomplete, removed>>,
         tablet' \in [Marks -> Here \cup {Erased}], startOver' \in BOOLEAN, mirrored' \in BOOLEAN,
         mirrored' => mirrored /\ tablet' = tablet
  PROVE  MarksInv'
<1>1. /\ Used' = Used /\ Existing' = Existing /\ (\A k : Live(k)' = Live(k)) /\ (\A k : OnRecord(k)' = OnRecord(k))
      /\ (\A m, k : Names(m, k)' = Names(m, k)) /\ (\A m : InPatches(m)' = InPatches(m))
  BY DEF Used, Existing, Live, OnRecord, Names, InPatches
<1>2. (\A m : DueMark(m)' = DueMark(m)) /\ (\A k : GoneOrBack(k)' = GoneOrBack(k))
  BY <1>1 DEF DueMark, GoneOrBack
<1>3. MarksTypes'
  BY DEF MarksInv, MarksTypes
<1>4. MirrorsToBe'
  BY <1>1, <1>2 DEF MarksInv, MirrorsToBe, ShowsMark
<1> QED BY <1>1, <1>2, <1>3, <1>4
        DEF MarksInv, KeysInOrder, NamedOnce, NamedIsMade, PlanApart, HandsOff, RemovedKnown, DeletedAreGone, NoneUnknown

\* The user at an annotation: its version moves while a pass is at work.
LEMMA UserAtItem ==
  ASSUME MarksInv, UNCHANGED <<page, faulty, tablet, startOver, stored, pass, mine, plan, digest, incomplete>>, mirrored' = FALSE,
         NEW k \in Used, NEW i \in Annotations, items' = [items EXCEPT ![k] = i],
         i.page = items[k].page, i.fresh = (pass = "idle"), items[k].back => i.back, i.live => items[k].live \/ i.back,
         removed' \subseteq Marks, \A m \in removed' : stored[m] # None
  PROVE  MarksInv'
<1>1. k \in Keys /\ items[k] # None /\ i # None /\ items'[k] = i /\ \A j \in Keys \ {k} : items'[j] = items[j]
  BY MarksAssumption DEF Used, MarksInv, MarksTypes
<1>2. Used' = Used
  BY <1>1 DEF Used
<1>3. MarksTypes'
  BY <1>1 DEF MarksInv, MarksTypes
<1>4. /\ (\A j : OnRecord(j)' = OnRecord(j)) /\ (\A m, j : Names(m, j)' = Names(m, j)) /\ (\A m : InPatches(m)' = InPatches(m))
  BY DEF OnRecord, Names, InPatches
<1>5. (\A m : DueMark(m)' = DueMark(m)) /\ \A j \in Keys : GoneOrBack(j) => GoneOrBack(j)'
  BY <1>1, <1>4 DEF DueMark, GoneOrBack, Live
<1>6. NamedIsMade'
  BY <1>1, <1>4 DEF MarksInv, NamedIsMade
<1>7. HandsOff'
  <2>1. CASE pass = "idle"
    BY <2>1 DEF MarksInv, MarksTypes, NoPlan, HandsOff
  <2>2. CASE pass # "idle"
    <3>1. \A m \in plan.trashes : stored[m] # None /\ stored[m].key \in Keys
      BY RecordParts DEF MarksInv, MarksTypes, HandsOff, Plans
    <3>2. \A p \in plan.patches : p.record.key \in Keys
      BY RecordParts DEF MarksInv, MarksTypes, Plans, MarkPatches
    <3>3. \A j \in Keys : items'[j].fresh => items[j].fresh /\ items'[j] = items[j]
      <4>1. i.fresh = FALSE
        BY <2>2
      <4> QED BY <1>1, <4>1
    <3>4. \A m \in plan.trashes : stored[m] # None /\ (items'[stored[m].key].fresh => \A f \in Fields : items'[stored[m].key].f[f] # Theirs)
      BY <3>1, <3>3 DEF MarksInv, HandsOff
    <3>5. \A p \in plan.patches : OnRecord(p.record.key) /\ items'[p.record.key].fresh => \A f \in p.fields : items'[p.record.key].f[f] # Theirs
      BY <3>2, <3>3 DEF MarksInv, HandsOff
    <3> QED BY <1>4, <3>4, <3>5 DEF HandsOff
  <2> QED BY <2>1, <2>2
<1>8. DeletedAreGone'
  <2>1. \A m \in Marks : (stored[m] # None => stored[m].key \in Keys) /\ (mine[m] # None => mine[m].key \in Keys)
    BY RecordParts DEF MarksInv, MarksTypes
  <2>2. plan.creates \subseteq Marks /\ \A p \in plan.patches : p.mark \in Marks
    BY DEF MarksInv, MarksTypes, Plans, MarkPatches
  <2> QED BY <1>5, <2>1, <2>2 DEF MarksInv, DeletedAreGone
<1>9. NoneUnknown'
  <2> SUFFICES ASSUME ~faulty, NEW j \in Keys, Live(j)', ~items'[j].back PROVE \E m \in Marks : mine[m] # None /\ mine[m].key = j
    BY DEF NoneUnknown, Existing
  <2>1. Live(j) /\ ~items[j].back
    BY <1>1 DEF Live
  <2> QED BY <2>1 DEF MarksInv, NoneUnknown, Existing
<1> QED BY <1>2, <1>3, <1>4, <1>5, <1>6, <1>7, <1>8, <1>9 DEF MarksInv, KeysInOrder, NamedOnce, PlanApart, RemovedKnown, MirrorsToBe

LEMMA UserStep ==
  ASSUME MarksInv, NEW k \in Keys, NEW f \in Fields, EditInZotero(k, f) \/ TrashInZotero(k) \/ RestoreInZotero(k)
  PROVE  MarksInv'
<1>1. k \in Used /\ items[k] \in Annotations /\ mirrored' = FALSE
      /\ UNCHANGED <<page, faulty, tablet, startOver, stored, pass, mine, plan, digest, incomplete>>
  BY DEF EditInZotero, TrashInZotero, RestoreInZotero, ChangeMark, Used, Live, MarksInv, MarksTypes
<1>2. PICK i \in Annotations :
        /\ items' = [items EXCEPT ![k] = i] /\ i.page = items[k].page /\ i.fresh = (pass = "idle")
        /\ items[k].back => i.back
        /\ i.live => items[k].live \/ i.back
  <2>1. CASE EditInZotero(k, f)
    <3> DEFINE i == [items[k] EXCEPT !.f = [items[k].f EXCEPT ![f] = Theirs], !.fresh = (pass = "idle")]
    <3>1. i \in Annotations /\ i.page = items[k].page /\ i.fresh = (pass = "idle") /\ i.back = items[k].back /\ i.live = items[k].live
      BY <1>1 DEF Annotations
    <3>2. items' = [items EXCEPT ![k] = i]
      BY <1>1, <2>1 DEF EditInZotero, Edited, MarksInv, MarksTypes
    <3> QED BY <3>1, <3>2
  <2>2. CASE TrashInZotero(k)
    <3> DEFINE i == [items[k] EXCEPT !.live = FALSE, !.fresh = (pass = "idle")]
    <3>1. i \in Annotations /\ i.page = items[k].page /\ i.fresh = (pass = "idle") /\ i.back = items[k].back /\ i.live = FALSE
      BY <1>1 DEF Annotations
    <3>2. items' = [items EXCEPT ![k] = i]
      BY <1>1, <2>2 DEF TrashInZotero
    <3> QED BY <3>1, <3>2
  <2>3. CASE RestoreInZotero(k)
    <3> DEFINE i == [items[k] EXCEPT !.live = TRUE, !.fresh = (pass = "idle"), !.back = TRUE]
    <3>1. i \in Annotations /\ i.page = items[k].page /\ i.fresh = (pass = "idle") /\ i.back = TRUE
      BY <1>1 DEF Annotations
    <3>2. items' = [items EXCEPT ![k] = i]
      BY <1>1, <2>3 DEF RestoreInZotero
    <3> QED BY <3>1, <3>2
  <2> QED BY <2>1, <2>2, <2>3
<1>3. removed' \subseteq Marks /\ \A m \in removed' : stored[m] # None
  BY DEF EditInZotero, TrashInZotero, RestoreInZotero, MarksInv, MarksTypes, RemovedKnown
<1> QED BY <1>1, <1>2, <1>3, UserAtItem

\* Work that comes to nothing: a conflict, or the end of the requests.
LEMMA Unplanned ==
  ASSUME MarksInv, pass = "writing",
         UNCHANGED <<page, faulty, tablet, startOver, items, stored, pass, digest, mirrored, removed>>,
         plan' \in Plans, plan'.trashes \subseteq plan.trashes, plan'.creates \subseteq plan.creates, plan'.patches \subseteq plan.patches,
         incomplete' = TRUE, mine' \in [Marks -> Records \cup {None}],
         \A m \in Marks : \/ mine'[m] = mine[m]
                         \/ /\ ~DueMark(m)'
                            /\ \E p \in plan.patches : p.mark = m /\ mine'[m] # None /\ mine'[m].key = p.record.key /\ mine'[m].deleted = p.record.deleted
  PROVE  MarksInv'
<1>1. /\ Used' = Used /\ Existing' = Existing /\ (\A k : Live(k)' = Live(k)) /\ (\A k : OnRecord(k)' = OnRecord(k))
      /\ (\A m : InPatches(m)' => InPatches(m)) /\ (\A k : GoneOrBack(k)' = GoneOrBack(k))
  BY DEF Used, Existing, Live, OnRecord, InPatches, GoneOrBack
<1>2. \A m \in Marks : \A k : Names(m, k)' => Names(m, k)
  BY DEF Names
<1>3. \A m \in Marks : DueMark(m)' => DueMark(m)
  BY <1>1 DEF DueMark
<1>4. MarksTypes'
  BY DEF MarksInv, MarksTypes
<1>5. PlanApart'
  <2>1. \A m \in Marks : DueMark(m)' => mine'[m] = stored[m]
    BY <1>3 DEF MarksInv, PlanApart
  <2> QED BY <1>1, <2>1 DEF MarksInv, PlanApart, InPatches
<1>6. HandsOff'
  BY <1>1 DEF MarksInv, HandsOff
<1>7. DeletedAreGone'
  BY <1>1 DEF MarksInv, DeletedAreGone, PlanApart
<1>8. NoneUnknown'
  <2> SUFFICES ASSUME ~faulty, NEW k \in Existing, ~items[k].back PROVE \E m \in Marks : mine'[m] # None /\ mine'[m].key = k
    BY <1>1 DEF NoneUnknown
  <2>1. PICK m \in Marks : mine[m] # None /\ mine[m].key = k
    BY DEF MarksInv, NoneUnknown
  <2>2. CASE mine'[m] # mine[m]
    <3>1. PICK p \in plan.patches : p.mark = m /\ mine'[m] # None /\ mine'[m].key = p.record.key
      BY <2>2
    <3>2. mine[m] = stored[m]
      BY <3>1 DEF MarksInv, PlanApart, DueMark, InPatches
    <3>3. ~GoneOrBack(k)
      BY DEF GoneOrBack, Existing
    <3>4. p.record.key = k
      BY <2>1, <3>1, <3>2, <3>3 DEF MarksInv, DeletedAreGone
    <3> QED BY <3>1, <3>4
  <2> QED BY <2>1, <2>2
<1> QED BY <1>1, <1>2, <1>4, <1>5, <1>6, <1>7, <1>8 DEF MarksInv, KeysInOrder, NamedOnce, NamedIsMade, RemovedKnown, MirrorsToBe

\* Giving up leaves no plan.
LEMMA NothingPlanned ==
  /\ NoPlan \in Plans /\ NoPlan.trashes = {} /\ NoPlan.creates = {} /\ NoPlan.patches = {}
  /\ plan = NoPlan => \A m : ~InPatches(m) /\ ~DueMark(m)
  /\ plan' = NoPlan => \A m : ~InPatches(m)' /\ ~DueMark(m)'
  BY DEF NoPlan, Plans, InPatches, DueMark

\* A plan with one piece of work less.
LEMMA PlanLess ==
  ASSUME MarksTypes, NEW m, NEW p
  PROVE  /\ [plan EXCEPT !.trashes = @ \ {m}] \in Plans /\ [plan EXCEPT !.trashes = @ \ {m}].trashes = plan.trashes \ {m}
         /\ [plan EXCEPT !.trashes = @ \ {m}].creates = plan.creates /\ [plan EXCEPT !.trashes = @ \ {m}].patches = plan.patches
         /\ [plan EXCEPT !.creates = {}] \in Plans /\ [plan EXCEPT !.creates = {}].trashes = plan.trashes
         /\ [plan EXCEPT !.creates = {}].creates = {} /\ [plan EXCEPT !.creates = {}].patches = plan.patches
         /\ [plan EXCEPT !.patches = @ \ {p}] \in Plans /\ [plan EXCEPT !.patches = @ \ {p}].trashes = plan.trashes
         /\ [plan EXCEPT !.patches = @ \ {p}].creates = plan.creates /\ [plan EXCEPT !.patches = @ \ {p}].patches = plan.patches \ {p}
  BY DEF MarksTypes, Plans

\* What a mark is due keeps to its own annotation.
LEMMA DueNames ==
  ASSUME MarksInv
  PROVE  /\ \A m \in plan.trashes : /\ m \in Marks /\ stored[m] \in Records /\ stored[m].key \in Keys /\ stored[m].key \in Used
                                   /\ Names(m, stored[m].key) /\ mine[m] = stored[m] /\ ~InPatches(m) /\ m \notin plan.creates
         /\ \A p \in plan.patches : /\ p.mark \in Marks /\ p.record \in Records /\ p.record.key \in Keys /\ p.record.key \in Used
                                   /\ Names(p.mark, p.record.key) /\ mine[p.mark] = stored[p.mark] /\ p.fields \subseteq Fields
                                   /\ p.mark \notin plan.trashes /\ p.mark \notin plan.creates /\ digest[p.mark] \in Here /\ ~p.record.deleted
         /\ \A m \in Marks : mine[m] # None => mine[m] \in Records /\ mine[m].key \in Keys /\ Names(m, mine[m].key)
         /\ \A m \in Marks : stored[m] # None => stored[m] \in Records /\ stored[m].key \in Keys /\ Names(m, stored[m].key)
<1>1. ASSUME NEW m \in plan.trashes
      PROVE  /\ m \in Marks /\ stored[m] \in Records /\ stored[m].key \in Keys /\ stored[m].key \in Used
             /\ Names(m, stored[m].key) /\ mine[m] = stored[m] /\ ~InPatches(m) /\ m \notin plan.creates
  <2>1. m \in Marks /\ stored[m] \in Records /\ stored[m].key \in Keys
    BY RecordParts DEF MarksInv, MarksTypes, Plans, HandsOff
  <2>2. Names(m, stored[m].key)
    BY <2>1, RecordParts DEF Names
  <2> QED BY <2>1, <2>2 DEF MarksInv, PlanApart, DueMark, NamedIsMade, Used
<1>2. ASSUME NEW p \in plan.patches
      PROVE  /\ p.mark \in Marks /\ p.record \in Records /\ p.record.key \in Keys /\ p.record.key \in Used
             /\ Names(p.mark, p.record.key) /\ mine[p.mark] = stored[p.mark] /\ p.fields \subseteq Fields
             /\ p.mark \notin plan.trashes /\ p.mark \notin plan.creates /\ digest[p.mark] \in Here /\ ~p.record.deleted
  <2>1. p.mark \in Marks /\ p.record \in Records /\ p.record.key \in Keys /\ p.fields \subseteq Fields
    BY RecordParts DEF MarksInv, MarksTypes, Plans, MarkPatches
  <2>2. Names(p.mark, p.record.key) /\ InPatches(p.mark)
    BY DEF Names, InPatches
  <2>3. digest[p.mark] \in Here
    BY <2>1, <2>2 DEF MarksInv, MarksTypes, PlanApart
  <2> QED BY <2>1, <2>2, <2>3 DEF MarksInv, PlanApart, DueMark, NamedIsMade, Used
<1>3. \A m \in Marks : mine[m] # None => mine[m] \in Records /\ mine[m].key \in Keys /\ Names(m, mine[m].key)
  BY RecordParts DEF MarksInv, MarksTypes, Names
<1>4. \A m \in Marks : stored[m] # None => stored[m] \in Records /\ stored[m].key \in Keys /\ Names(m, stored[m].key)
  BY RecordParts DEF MarksInv, MarksTypes, Names
<1> QED BY <1>1, <1>2, <1>3, <1>4

\* An annotation is trashed: recorded so, or not.
LEMMA ItemTrashed ==
  ASSUME MarksInv, pass = "writing", NEW m \in plan.trashes, NEW k, k = stored[m].key,
         UNCHANGED <<page, faulty, tablet, startOver, stored, pass, digest, mirrored, removed>>,
         items' = [items EXCEPT ![k].live = FALSE],
         \/ /\ plan' = [plan EXCEPT !.trashes = @ \ {m}]
            /\ mine' = [mine EXCEPT ![m] = AsDeleted(stored[m])] /\ UNCHANGED incomplete
         \/ GiveUp
  PROVE  MarksInv'
<1> DEFINE i == [items[k] EXCEPT !.live = FALSE]
<1>1. m \in Marks /\ stored[m] \in Records /\ k \in Keys /\ k \in Used /\ Names(m, k) /\ mine[m] = stored[m] /\ ~InPatches(m) /\ m \notin plan.creates
  BY DueNames
<1>2. items[k] \in Annotations
  BY <1>1 DEF Used, MarksInv, MarksTypes
<1>3. i \in Annotations /\ i.page = items[k].page /\ i.f = items[k].f /\ i.back = items[k].back /\ i.fresh = items[k].fresh /\ i.live = FALSE /\ i # None
  BY <1>2, MarksAssumption DEF Annotations
<1>4. items' = [items EXCEPT ![k] = i]
  OBVIOUS
<1> HIDE DEF i
<1>5. /\ items' \in [Keys -> Annotations \cup {None}] /\ items'[k] = i /\ (\A j \in Keys \ {k} : items'[j] = items[j])
      /\ Used' = Used /\ ~Live(k)' /\ (\A j \in Keys \ {k} : Live(j)' = Live(j))
      /\ \A j \in Keys : items'[j].f = items[j].f /\ items'[j].fresh = items[j].fresh /\ items'[j].page = items[j].page /\ items'[j].back = items[j].back
  <2>1. items \in [Keys -> Annotations \cup {None}]
    BY DEF MarksInv, MarksTypes
  <2>2. items' \in [Keys -> Annotations \cup {None}] /\ items'[k] = i /\ (\A j \in Keys \ {k} : items'[j] = items[j])
    BY <1>1, <1>3, <1>4, <2>1
  <2>3. \A j \in Keys : (items'[j] = None) = (items[j] = None)
    BY <1>1, <1>3, <2>2 DEF Used
  <2>4. Used' = Used
    BY <2>3 DEF Used
  <2>5. ~Live(k)' /\ (\A j \in Keys \ {k} : Live(j)' = Live(j))
    BY <1>3, <2>2 DEF Live
  <2>6. \A j \in Keys : items'[j].f = items[j].f /\ items'[j].fresh = items[j].fresh /\ items'[j].page = items[j].page /\ items'[j].back = items[j].back
    BY <1>3, <2>2
  <2> QED BY <2>2, <2>4, <2>5, <2>6
<1>6. AsDeleted(stored[m]) \in Records /\ AsDeleted(stored[m]).key = k /\ AsDeleted(stored[m]).deleted /\ AsDeleted(stored[m]) # None
  BY <1>1, RecordParts
<1>7. /\ plan' \in Plans /\ plan'.trashes \subseteq plan.trashes /\ plan'.creates \subseteq plan.creates /\ plan'.patches \subseteq plan.patches
      /\ mine' \in [Marks -> Records \cup {None}] /\ incomplete' \in BOOLEAN
      /\ \A n \in Marks : mine'[n] = mine[n] \/ (n = m /\ mine'[n] = AsDeleted(stored[m]) /\ m \notin plan'.trashes)
  <2>1. mine \in [Marks -> Records \cup {None}] /\ incomplete \in BOOLEAN /\ MarksTypes
    BY DEF MarksInv, MarksTypes
  <2>2. CASE GiveUp
    <3>1. plan' = NoPlan /\ incomplete' = TRUE /\ mine' = mine
      BY <2>2 DEF GiveUp
    <3> QED BY <2>1, <3>1, NothingPlanned
  <2>3. CASE ~GiveUp
    <3>1. plan' = [plan EXCEPT !.trashes = @ \ {m}] /\ mine' = [mine EXCEPT ![m] = AsDeleted(stored[m])] /\ incomplete' = incomplete
      BY <2>3
    <3>2. plan' \in Plans /\ plan'.trashes = plan.trashes \ {m} /\ plan'.creates = plan.creates /\ plan'.patches = plan.patches
      BY <2>1, <3>1, PlanLess
    <3> QED BY <1>1, <1>6, <2>1, <3>1, <3>2
  <2> QED BY <2>2, <2>3
<1>8. MarksTypes'
  BY <1>5, <1>7 DEF MarksInv, MarksTypes
<1>9. \A n \in Marks : \A j : Names(n, j)' => Names(n, j)
  BY <1>1, <1>6, <1>7 DEF Names
<1>10. \A n \in Marks : (InPatches(n)' => InPatches(n)) /\ (DueMark(n)' => DueMark(n)) /\ (n = m /\ mine'[m] # mine[m] => ~DueMark(m)')
  BY <1>1, <1>7 DEF InPatches, DueMark
<1>11. \A n \in Marks \ {m} : \A j \in Keys : Names(n, j) => j # k
  BY <1>1 DEF MarksInv, NamedOnce
<1>12. PlanApart'
  <2>1. \A n \in Marks : DueMark(n)' => mine'[n] = stored[n]
    BY <1>7, <1>10 DEF MarksInv, PlanApart
  <2> QED BY <1>7, <1>10, <2>1 DEF MarksInv, PlanApart, InPatches
<1>13. HandsOff'
  <2>1. \A n \in plan.trashes : stored[n].key \in Keys
    BY DueNames
  <2>2. \A p \in plan.patches : p.record.key \in Keys
    BY DueNames
  <2>3. \A j : OnRecord(j)' = OnRecord(j)
    BY DEF OnRecord
  <2>4. HandsOff
    BY DEF MarksInv
  <2>5. ASSUME NEW n \in plan'.trashes
        PROVE  stored[n] # None /\ (items'[stored[n].key].fresh => \A f \in Fields : items'[stored[n].key].f[f] # Theirs)
    <3>1. n \in plan.trashes /\ stored[n].key \in Keys
      BY <1>7, <2>1
    <3>2. items'[stored[n].key].fresh = items[stored[n].key].fresh /\ items'[stored[n].key].f = items[stored[n].key].f
      BY <1>5, <3>1
    <3> QED BY <2>4, <3>1, <3>2 DEF HandsOff
  <2>6. ASSUME NEW p \in plan'.patches, OnRecord(p.record.key), items'[p.record.key].fresh, NEW f \in p.fields
        PROVE  items'[p.record.key].f[f] # Theirs
    <3>1. p \in plan.patches /\ p.record.key \in Keys
      BY <1>7, <2>2
    <3>2. items'[p.record.key].fresh = items[p.record.key].fresh /\ items'[p.record.key].f = items[p.record.key].f
      BY <1>5, <3>1
    <3> QED BY <2>4, <2>6, <3>1, <3>2 DEF HandsOff
  <2>7. \A n \in plan'.trashes : stored'[n] = stored[n]
    OBVIOUS
  <2> QED BY <2>3, <2>5, <2>6, <2>7 DEF HandsOff
<1>14. NamedIsMade'
  <2> SUFFICES ASSUME NEW n \in Marks, NEW j \in Keys, Names(n, j)' PROVE items'[j] # None /\ items'[j].page = page[n]
    BY DEF NamedIsMade
  <2>1. items[j] # None /\ items[j].page = page[n]
    BY <1>9 DEF MarksInv, NamedIsMade
  <2>2. CASE j = k
    BY <1>3, <1>5, <2>1, <2>2
  <2>3. CASE j # k
    BY <1>5, <2>1, <2>3
  <2> QED BY <2>2, <2>3
<1>15. \A j \in Keys : GoneOrBack(j) => GoneOrBack(j)'
  BY <1>5 DEF GoneOrBack
<1>16. DeletedAreGone'
  <2>1. GoneOrBack(k)'
    BY <1>5 DEF GoneOrBack
  <2>2. \A n \in Marks : mine'[n] # None /\ mine'[n].deleted => GoneOrBack(mine[n].key)'
    BY <1>6, <1>7, <1>15, <2>1, DueNames DEF MarksInv, DeletedAreGone
  <2>3. \A n \in Marks : stored[n] # None /\ stored[n].deleted => GoneOrBack(stored[n].key)'
    BY <1>15, DueNames DEF MarksInv, DeletedAreGone
  <2>4. \A n \in plan'.creates : stored[n] # None => GoneOrBack(stored[n].key)'
    BY <1>7, <1>15, DueNames DEF MarksInv, MarksTypes, Plans, DeletedAreGone
  <2>5. \A p \in plan'.patches : stored[p.mark] # None /\ stored[p.mark].key # p.record.key => GoneOrBack(stored[p.mark].key)'
    BY <1>7, <1>15, DueNames DEF MarksInv, DeletedAreGone
  <2> QED BY <2>2, <2>3, <2>4, <2>5 DEF DeletedAreGone
<1>17. NoneUnknown'
  <2> SUFFICES ASSUME ~faulty, NEW j \in Keys, Live(j)', ~items'[j].back PROVE \E n \in Marks : mine'[n] # None /\ mine'[n].key = j
    BY DEF NoneUnknown, Existing
  <2>1. j # k /\ Live(j) /\ ~items[j].back
    BY <1>5
  <2>2. PICK n \in Marks : mine[n] # None /\ mine[n].key = j
    BY <2>1 DEF MarksInv, NoneUnknown, Existing
  <2>3. n # m
    BY <1>1, <2>1, <2>2
  <2> QED BY <1>7, <2>2, <2>3
<1>18. MirrorsToBe'
  <2> SUFFICES ASSUME mirrored, ~incomplete' PROVE MirrorsToBe'
    BY DEF MirrorsToBe
  <2>1. /\ plan' = [plan EXCEPT !.trashes = @ \ {m}] /\ mine'[m] = AsDeleted(stored[m]) /\ ~incomplete
        /\ \A n \in Marks \ {m} : mine'[n] = mine[n]
    BY <1>1 DEF GiveUp, MarksInv, MarksTypes
  <2>2. plan'.trashes = plan.trashes \ {m} /\ plan'.creates = plan.creates /\ plan'.patches = plan.patches
    BY <2>1, PlanLess DEF MarksInv
  <2>3. ShowsMark(m, mine[m])'
    BY <1>6, <2>1 DEF ShowsMark
  <2>4. ASSUME NEW n \in Marks \ {m}, ~DueMark(n)' PROVE ShowsMark(n, mine[n])'
    <3>1. ShowsMark(n, mine[n]) /\ mine'[n] = mine[n]
      BY <2>1, <2>2, <2>4 DEF MarksInv, MirrorsToBe, DueMark, InPatches
    <3>2. CASE mine[n] = None
      BY <3>1, <3>2 DEF ShowsMark
    <3>3. CASE mine[n] # None
      <4>1. mine[n].key \in Keys /\ mine[n].key # k
        BY <1>11, <3>3, DueNames
      <4>2. items'[mine[n].key] = items[mine[n].key]
        BY <1>5, <4>1
      <4>3. Live(mine[n].key)' = Live(mine[n].key)
        BY <3>1, <4>2 DEF Live
      <4>4. mine'[n] = mine[n] /\ tablet' = tablet
        BY <3>1
      <4>5. CASE tablet[n] = Erased
        BY <3>1, <4>3, <4>4, <4>5 DEF ShowsMark
      <4>6. CASE tablet[n] # Erased
        <5>1. /\ mine[n] # None
              /\ ~mine[n].deleted => Live(mine[n].key) /\ \A f \in Fields \ mine[n].edited : items[mine[n].key].f[f] = tablet[n][f]
          BY <3>1, <4>6 DEF ShowsMark
        <5>2. ~mine[n].deleted => \A f \in Fields \ mine[n].edited : items'[mine[n].key].f[f] = tablet[n][f]
          BY <4>2, <5>1
        <5>3. /\ mine'[n] # None
              /\ ~mine'[n].deleted => Live(mine[n].key)' /\ \A f \in Fields \ mine[n].edited : items'[mine[n].key].f[f] = tablet[n][f]
          BY <4>3, <4>4, <5>1, <5>2
        <5> QED BY <4>4, <4>6, <5>3 DEF ShowsMark, Live
      <4> QED BY <4>5, <4>6
    <3> QED BY <3>2, <3>3
  <2>5. ASSUME NEW p \in plan.patches
        PROVE  /\ Live(p.record.key)'
               /\ \A f \in Fields \ (p.record.edited \cup p.fields) : items'[p.record.key].f[f] = tablet[p.mark][f]
    <3>1. p.mark \in Marks \ {m} /\ p.record.key \in Keys /\ Names(p.mark, p.record.key)
      BY <1>1, DueNames DEF InPatches
    <3>2. p.record.key # k
      BY <1>11, <3>1
    <3> QED BY <1>5, <2>1, <3>1, <3>2, SMTT(30) DEF MarksInv, MirrorsToBe
  <2> QED BY <2>1, <2>2, <2>3, <2>4, <2>5 DEF MarksInv, MirrorsToBe
<1> QED BY <1>3, <1>5, <1>7, <1>8, <1>9, <1>12, <1>13, <1>14, <1>16, <1>17, <1>18, <1>6, SMTT(60) DEF MarksInv, KeysInOrder, NamedOnce, RemovedKnown

\* An annotation is patched: recorded so, or not.
LEMMA ItemPatched ==
  ASSUME MarksInv, pass = "writing", NEW p \in plan.patches, NEW k, k = p.record.key, NEW m, m = p.mark,
         UNCHANGED <<page, faulty, tablet, startOver, stored, pass, digest, mirrored, removed>>,
         plan.trashes = {}, plan.creates = {}, items' = Written(p), items[k].live,
         \/ /\ plan' = [plan EXCEPT !.patches = @ \ {p}]
            /\ mine' = [mine EXCEPT ![m] = p.record] /\ UNCHANGED incomplete
         \/ GiveUp
  PROVE  MarksInv'
<1> DEFINE g == [f \in Fields |-> IF f \in p.fields THEN digest[m][f] ELSE items[k].f[f]]
           i == [items[k] EXCEPT !.f = g]
<1>1. /\ m \in Marks /\ p.record \in Records /\ k \in Keys /\ k \in Used /\ Names(m, k) /\ mine[m] = stored[m] /\ p.fields \subseteq Fields
      /\ digest[m] \in Here /\ ~p.record.deleted /\ p.record # None
  BY DueNames, RecordParts
<1>2. items[k] \in Annotations /\ items[k].f \in [Fields -> Values \cup {Theirs}]
  BY <1>1, ItemParts DEF Used, MarksInv
<1>3. g \in [Fields -> Values \cup {Theirs}]
  BY <1>1, <1>2 DEF Here
<1>4. items' = [items EXCEPT ![k] = i]
  BY <1>1 DEF Written, MarksInv, MarksTypes
<1>5. \A f \in Fields : g[f] = IF f \in p.fields THEN digest[m][f] ELSE items[k].f[f]
  OBVIOUS
<1> HIDE DEF g
<1>6. i \in Annotations /\ i.page = items[k].page /\ i.f = g /\ i.back = items[k].back /\ i.fresh = items[k].fresh /\ i.live = items[k].live /\ i # None
  BY <1>2, <1>3, MarksAssumption DEF Annotations
<1> HIDE DEF i
<1>7. items' \in [Keys -> Annotations \cup {None}] /\ items'[k] = i /\ (\A j \in Keys \ {k} : items'[j] = items[j])
  BY <1>1, <1>4, <1>6 DEF MarksInv, MarksTypes
<1>8. /\ Used' = Used /\ Live(k) /\ \A j \in Keys : Live(j)' = Live(j)
      /\ \A j \in Keys : items'[j].fresh = items[j].fresh /\ items'[j].page = items[j].page /\ items'[j].back = items[j].back
      /\ \A j \in Keys : (items[j] = None) = (items'[j] = None)
  BY <1>1, <1>6, <1>7, ZenonT(40) DEF Used, Live
<1>9. /\ plan' \in Plans /\ plan'.trashes = {} /\ plan'.creates = {} /\ plan'.patches \subseteq plan.patches
      /\ mine' \in [Marks -> Records \cup {None}] /\ incomplete' \in BOOLEAN
      /\ \A n \in Marks : mine'[n] = mine[n] \/ (n = m /\ mine'[n] = p.record)
      /\ p \notin plan'.patches
  <2>1. mine \in [Marks -> Records \cup {None}] /\ incomplete \in BOOLEAN /\ MarksTypes
    BY DEF MarksInv, MarksTypes
  <2>2. CASE GiveUp
    <3>1. plan' = NoPlan /\ incomplete' = TRUE /\ mine' = mine
      BY <2>2 DEF GiveUp
    <3> QED BY <2>1, <3>1, NothingPlanned
  <2>3. CASE ~GiveUp
    <3>1. plan' = [plan EXCEPT !.patches = @ \ {p}] /\ mine' = [mine EXCEPT ![m] = p.record] /\ incomplete' = incomplete
      BY <2>3
    <3>2. plan' \in Plans /\ plan'.trashes = plan.trashes /\ plan'.creates = plan.creates /\ plan'.patches = plan.patches \ {p}
      BY <2>1, <3>1, PlanLess
    <3> QED BY <1>1, <2>1, <3>1, <3>2
  <2> QED BY <2>2, <2>3
<1>10. MarksTypes'
  BY <1>7, <1>9 DEF MarksInv, MarksTypes
<1>11. \A n \in Marks : \A j : Names(n, j)' => Names(n, j)
  BY <1>1, <1>9 DEF Names
<1>12. \A q \in plan'.patches : q \in plan.patches /\ q # p /\ q.mark # m
  BY <1>9 DEF MarksInv, PlanApart
<1>13. \A n \in Marks : (InPatches(n)' => InPatches(n) /\ n # m) /\ (DueMark(n)' => DueMark(n) /\ n # m)
  BY <1>9, <1>12 DEF InPatches, DueMark
<1>14. \A n \in Marks \ {m} : \A j \in Keys : Names(n, j) => j # k
  BY <1>1 DEF MarksInv, NamedOnce
<1>15. PlanApart'
  <2>1. \A n \in Marks : DueMark(n)' => mine'[n] = stored[n]
    BY <1>9, <1>13 DEF MarksInv, PlanApart
  <2> QED BY <1>9, <1>12, <1>13, <2>1 DEF MarksInv, PlanApart
<1>16. HandsOff'
  <2>1. \A q \in plan'.patches : q.record.key \in Keys \ {k}
    BY <1>12, <1>14, DueNames
  <2>2. \A j : OnRecord(j)' = OnRecord(j)
    BY DEF OnRecord
  <2> QED BY <1>7, <1>9, <1>12, <2>1, <2>2 DEF MarksInv, HandsOff
<1>17. NamedIsMade'
  BY <1>8, <1>11 DEF MarksInv, NamedIsMade
<1>18. \A j \in Keys : GoneOrBack(j) => GoneOrBack(j)'
  BY <1>8 DEF GoneOrBack
<1>19. DeletedAreGone'
  <2>1. \A n \in Marks : mine'[n] # None /\ mine'[n].deleted => GoneOrBack(mine[n].key)' /\ mine'[n] = mine[n]
    <3> SUFFICES ASSUME NEW n \in Marks, mine'[n] # None, mine'[n].deleted PROVE GoneOrBack(mine[n].key)' /\ mine'[n] = mine[n]
      OBVIOUS
    <3>1. mine'[n] = mine[n] /\ mine[n].key \in Keys
      BY <1>1, <1>9, DueNames
    <3>2. GoneOrBack(mine[n].key)
      BY <3>1 DEF MarksInv, DeletedAreGone
    <3> QED BY <1>18, <3>1, <3>2
  <2>2. \A n \in Marks : stored[n] # None /\ stored[n].deleted => GoneOrBack(stored[n].key)'
    BY <1>18, DueNames DEF MarksInv, DeletedAreGone
  <2>3. \A q \in plan'.patches : stored[q.mark] # None /\ stored[q.mark].key # q.record.key => GoneOrBack(stored[q.mark].key)'
    BY <1>12, <1>18, DueNames DEF MarksInv, DeletedAreGone
  <2> QED BY <1>9, <2>1, <2>2, <2>3 DEF DeletedAreGone
<1>20. NoneUnknown'
  <2> SUFFICES ASSUME ~faulty, NEW j \in Keys, Live(j)', ~items'[j].back PROVE \E n \in Marks : mine'[n] # None /\ mine'[n].key = j
    BY DEF NoneUnknown, Existing
  <2>1. Live(j) /\ ~items[j].back /\ ~GoneOrBack(j)
    BY <1>8 DEF GoneOrBack
  <2>2. PICK n \in Marks : mine[n] # None /\ mine[n].key = j
    BY <2>1 DEF MarksInv, NoneUnknown, Existing
  <2>3. CASE n = m
    <3>1. stored[m] # None /\ stored[m].key = j
      BY <1>1, <2>2, <2>3
    <3>2. j = k
      BY <2>1, <3>1 DEF MarksInv, DeletedAreGone
    <3> QED BY <1>1, <1>9, <2>2, <2>3, <3>2
  <2> QED BY <1>9, <2>2, <2>3
<1>21. MirrorsToBe'
  <2> SUFFICES ASSUME mirrored, ~incomplete' PROVE MirrorsToBe'
    BY DEF MirrorsToBe
  <2>1. plan'.patches = plan.patches \ {p} /\ mine' = [mine EXCEPT ![m] = p.record] /\ ~incomplete
    BY PlanLess DEF GiveUp, MarksInv, MarksTypes
  <2>2. mine'[m] = p.record /\ \A n \in Marks \ {m} : mine'[n] = mine[n]
    BY <1>1, <2>1 DEF MarksInv, MarksTypes
  <2>3. digest = tablet /\ Live(k) /\ \A f \in Fields \ (p.record.edited \cup p.fields) : items[k].f[f] = tablet[m][f]
    BY <2>1 DEF MarksInv, MirrorsToBe
  <2>4. ShowsMark(m, mine[m])'
    <3>1. tablet[m] # Erased
      BY <1>1, <2>3, MarksAssumption DEF Erased
    <3>2. \A f \in Fields \ p.record.edited : g[f] = tablet[m][f]
      BY <1>5, <2>3
    <3>3. items'[p.record.key].f = g /\ items'[p.record.key] # None /\ items'[p.record.key].live
      BY <1>6, <1>7
    <3> QED BY <1>1, <2>2, <3>1, <3>2, <3>3 DEF ShowsMark, Live
  <2>5. ASSUME NEW n \in Marks \ {m}, ~DueMark(n)' PROVE ShowsMark(n, mine[n])'
    <3>1. ShowsMark(n, mine[n]) /\ mine'[n] = mine[n]
      <4>1. ~DueMark(n)
        BY <1>9, <2>1, <2>5 DEF DueMark, InPatches
      <4> QED BY <2>1, <2>2, <4>1 DEF MarksInv, MirrorsToBe
    <3>2. CASE mine[n] = None
      BY <3>1, <3>2 DEF ShowsMark
    <3>3. CASE mine[n] # None
      <4>1. mine[n].key \in Keys /\ mine[n].key # k
        BY <1>14, <3>3, DueNames
      <4>2. items'[mine[n].key] = items[mine[n].key]
        BY <1>7, <4>1
      <4> QED BY <3>1, <4>2 DEF ShowsMark, Live
    <3> QED BY <3>2, <3>3
  <2>6. ASSUME NEW q \in plan'.patches
        PROVE  /\ Live(q.record.key)'
               /\ \A f \in Fields \ (q.record.edited \cup q.fields) : items'[q.record.key].f[f] = tablet[q.mark][f]
    <3>1. q.record.key \in Keys \ {k} /\ q \in plan.patches
      BY <1>12, <1>14, DueNames
    <3>2. items'[q.record.key] = items[q.record.key]
      BY <1>7, <3>1
    <3> QED BY <2>1, <3>1, <3>2 DEF MarksInv, MirrorsToBe, Live
  <2> QED BY <1>9, <2>3, <2>4, <2>5, <2>6 DEF MirrorsToBe
<1> QED BY <1>8, <1>10, <1>11, <1>15, <1>16, <1>17, <1>19, <1>20, <1>21, <1>1, <1>9 DEF MarksInv, KeysInOrder, NamedOnce, RemovedKnown

LEMMA TrashStep ==
  ASSUME MarksInv, NEW m \in Marks, NEW o, Trash(m, o)
  PROVE  MarksInv'
<1> DEFINE k == stored[m].key
<1>1. /\ pass = "writing" /\ m \in plan.trashes
      /\ UNCHANGED <<page, faulty, tablet, startOver, stored, pass, digest, mirrored, removed>>
  BY DEF Trash
<1>2. \/ /\ plan' = [plan EXCEPT !.trashes = @ \ {m}] /\ incomplete' = TRUE /\ UNCHANGED <<items, mine>>
      \/ /\ items' = [items EXCEPT ![k].live = FALSE]
         /\ \/ /\ plan' = [plan EXCEPT !.trashes = @ \ {m}]
               /\ mine' = [mine EXCEPT ![m] = AsDeleted(stored[m])] /\ UNCHANGED incomplete
            \/ GiveUp
      \/ GiveUp /\ UNCHANGED items
  BY DEF Trash
<1>3. CASE /\ plan' = [plan EXCEPT !.trashes = @ \ {m}] /\ incomplete' = TRUE /\ UNCHANGED <<items, mine>>
  <2>1. plan' \in Plans /\ plan'.trashes \subseteq plan.trashes /\ plan'.creates \subseteq plan.creates /\ plan'.patches \subseteq plan.patches
    BY <1>3, PlanLess DEF MarksInv
  <2>2. mine' \in [Marks -> Records \cup {None}]
    BY <1>3 DEF MarksInv, MarksTypes
  <2> QED BY <1>1, <1>3, <2>1, <2>2, Unplanned
<1>4. CASE /\ items' = [items EXCEPT ![k].live = FALSE]
           /\ \/ /\ plan' = [plan EXCEPT !.trashes = @ \ {m}]
                 /\ mine' = [mine EXCEPT ![m] = AsDeleted(stored[m])] /\ UNCHANGED incomplete
              \/ GiveUp
  BY <1>1, <1>4, ItemTrashed
<1>5. CASE GiveUp /\ UNCHANGED items
  <2>1. plan' \in Plans /\ plan'.trashes \subseteq plan.trashes /\ plan'.creates \subseteq plan.creates /\ plan'.patches \subseteq plan.patches
    BY <1>5, NothingPlanned DEF GiveUp
  <2>2. mine' \in [Marks -> Records \cup {None}] /\ mine' = mine /\ incomplete' = TRUE
    BY <1>5 DEF GiveUp, MarksInv, MarksTypes
  <2> QED BY <1>1, <1>5, <2>1, <2>2, Unplanned
<1> QED BY <1>2, <1>3, <1>4, <1>5

LEMMA PatchStep ==
  ASSUME MarksInv, NEW p \in plan.patches, NEW o, Patch(p, o)
  PROVE  MarksInv'
<1> DEFINE r == [p.record EXCEPT !.edited = @ \cup p.fields]
<1>1. /\ pass = "writing" /\ plan.trashes = {} /\ plan.creates = {}
      /\ UNCHANGED <<page, faulty, tablet, startOver, stored, pass, digest, mirrored, removed>>
  BY DEF Patch
<1>2. \/ /\ plan' = [plan EXCEPT !.patches = @ \ {p}] /\ mine' = [mine EXCEPT ![p.mark] = r] /\ incomplete' = TRUE /\ UNCHANGED items
      \/ /\ Matches(p) /\ items' = Written(p)
         /\ \/ /\ plan' = [plan EXCEPT !.patches = @ \ {p}]
               /\ mine' = [mine EXCEPT ![p.mark] = p.record] /\ UNCHANGED incomplete
            \/ GiveUp
      \/ GiveUp /\ UNCHANGED items
  BY DEF Patch
<1>3. CASE /\ plan' = [plan EXCEPT !.patches = @ \ {p}] /\ mine' = [mine EXCEPT ![p.mark] = r] /\ incomplete' = TRUE /\ UNCHANGED items
  <2>1. p.mark \in Marks /\ p.record \in Records /\ p.fields \subseteq Fields /\ ~p.record.deleted
    BY DueNames
  <2>2. r \in Records /\ r.key = p.record.key /\ r.deleted = p.record.deleted /\ r # None
    <3> DEFINE e == p.record.edited \cup p.fields
    <3>1. e \in SUBSET Fields
      BY <2>1, RecordParts
    <3>2. r = [p.record EXCEPT !.edited = e]
      BY <2>1 DEF Records
    <3> HIDE DEF r, e
    <3>3. r \in Records /\ r.key = p.record.key /\ r.deleted = p.record.deleted
      BY <2>1, <3>1, <3>2, RecordParts
    <3> QED BY <3>3, RecordParts
  <2>3. /\ plan' \in Plans /\ plan'.trashes = {} /\ plan'.creates = {} /\ plan'.patches = plan.patches \ {p}
    BY <1>1, <1>3, PlanLess DEF MarksInv
  <2> HIDE DEF r
  <2>4. mine' \in [Marks -> Records \cup {None}] /\ mine'[p.mark] = r /\ \A n \in Marks \ {p.mark} : mine'[n] = mine[n]
    BY <1>3, <2>1, <2>2 DEF MarksInv, MarksTypes
  <2>5. ~DueMark(p.mark)'
    <3>1. \A q \in plan'.patches : q.mark # p.mark
      BY <2>3 DEF MarksInv, PlanApart
    <3> QED BY <2>3, <3>1 DEF DueMark, InPatches
  <2>6. \A n \in Marks : \/ mine'[n] = mine[n]
                         \/ /\ ~DueMark(n)'
                            /\ \E q \in plan.patches : q.mark = n /\ mine'[n] # None /\ mine'[n].key = q.record.key /\ mine'[n].deleted = q.record.deleted
    BY <2>1, <2>2, <2>4, <2>5
  <2> QED BY <1>1, <1>3, <2>3, <2>4, <2>6, Unplanned
<1>4. CASE /\ Matches(p) /\ items' = Written(p)
           /\ \/ /\ plan' = [plan EXCEPT !.patches = @ \ {p}]
                 /\ mine' = [mine EXCEPT ![p.mark] = p.record] /\ UNCHANGED incomplete
              \/ GiveUp
  <2>1. items[p.record.key].live
    BY <1>4 DEF Matches, Untouched
  <2> QED BY <1>1, <1>4, <2>1, ItemPatched
<1>5. CASE GiveUp /\ UNCHANGED items
  <2>1. plan' \in Plans /\ plan'.trashes \subseteq plan.trashes /\ plan'.creates \subseteq plan.creates /\ plan'.patches \subseteq plan.patches
    BY <1>5, NothingPlanned DEF GiveUp
  <2>2. mine' \in [Marks -> Records \cup {None}] /\ mine' = mine /\ incomplete' = TRUE
    BY <1>5 DEF GiveUp, MarksInv, MarksTypes
  <2> QED BY <1>1, <1>5, <2>1, <2>2, Unplanned
<1> QED BY <1>2, <1>3, <1>4, <1>5

LEMMA ItemIs ==
  ASSUME MarksInv, NEW m \in Marks, digest[m] \in Here
  PROVE  /\ Item(m) \in Annotations /\ Item(m) # None /\ Item(m).page = page[m] /\ Item(m).f = digest[m]
         /\ Item(m).live /\ ~Item(m).back /\ Item(m).fresh
<1>1. digest[m] \in [Fields -> Values \cup {Theirs}] /\ page[m] \in {1, 2}
  BY DEF Here, MarksInv, MarksTypes
<1>2. Item(m) \in Annotations
  BY <1>1 DEF Item, Annotations
<1> QED BY <1>2, MarksAssumption DEF Item

\* The annotations a request made: numbered on, each of its own mark.
NumberedOn(at, ms, base) ==
  /\ at \in [Keys -> Annotations \cup {None}]
  /\ \A m \in ms : /\ KeyOf(ms, base, m) \in base + 1 .. base + Cardinality(ms) /\ KeyOf(ms, base, m) \in Keys
                   /\ at[KeyOf(ms, base, m)] = Item(m)
  /\ \A m, n \in ms : KeyOf(ms, base, m) = KeyOf(ms, base, n) => m = n
  /\ \A k \in base + 1 .. base + Cardinality(ms) : k \in Keys /\ \E m \in ms : KeyOf(ms, base, m) = k
  /\ \A k \in Keys : k \notin base + 1 .. base + Cardinality(ms) => at[k] = items[k]

LEMMA LandedInOrder ==
  ASSUME MarksInv, NEW ms \in SUBSET Marks, NEW base \in Nat, base + Cardinality(ms) <= MaxItems, \A m \in ms : digest[m] \in Here
  PROVE  NumberedOn(Landed(ms, base), ms, base) /\ Cardinality(ms) \in Nat
<1> DEFINE rank(m) == Cardinality({n \in ms : n <= m})
           at == [m \in ms |-> m]
<1>1. IsFiniteSet(ms) /\ Cardinality(ms) \in Nat /\ MaxItems \in Nat /\ ms \subseteq Nat
  <2>1. IsFiniteSet(Marks) /\ MaxItems \in Nat /\ Marks \subseteq Nat
    BY MarksAssumption, FS_Interval, SMTT(30) DEF Marks
  <2>2. IsFiniteSet(ms)
    BY <2>1, FS_Subset
  <2> QED BY <2>1, <2>2, FS_CardinalityType
<1>2. at \in [ms -> Nat] /\ \A a, b \in ms : at[a] = at[b] => a = b
  BY <1>1
<1>3. \A m \in ms : Rank(ms, at, m) = rank(m)
  <2>1. \A m \in ms : {n \in ms : at[n] <= at[m]} = {n \in ms : n <= m}
    OBVIOUS
  <2> QED BY <2>1 DEF Rank
<1> HIDE DEF at, rank
<1>4. /\ \A m \in ms : rank(m) \in 1 .. Cardinality(ms)
      /\ \A m, n \in ms : rank(m) = rank(n) => m = n
      /\ \A k \in 1 .. Cardinality(ms) : \E m \in ms : rank(m) = k
  <2>1. /\ \A a \in ms : Rank(ms, at, a) \in 1 .. Cardinality(ms)
        /\ \A a, b \in ms : Rank(ms, at, a) = Rank(ms, at, b) => a = b
        /\ \A n \in 1 .. Cardinality(ms) : \E a \in ms : Rank(ms, at, a) = n
    <3>1. IsFiniteSet(ms)
      BY <1>1
    <3> QED BY ONLY <1>2, <3>1, Ranks
  <2> QED BY <1>3, <2>1
<1>5. \A m \in ms : KeyOf(ms, base, m) = base + rank(m)
  BY DEF KeyOf, rank
<1>6. \A m \in ms : KeyOf(ms, base, m) \in base + 1 .. base + Cardinality(ms) /\ KeyOf(ms, base, m) \in Keys
  BY <1>1, <1>4, <1>5 DEF Keys
<1>7. \A m, n \in ms : KeyOf(ms, base, m) = KeyOf(ms, base, n) => m = n
  <2> SUFFICES ASSUME NEW m \in ms, NEW n \in ms, KeyOf(ms, base, m) = KeyOf(ms, base, n) PROVE rank(m) = rank(n)
    BY <1>4
  <2>1. rank(m) \in Nat /\ rank(n) \in Nat
    BY <1>4
  <2> QED BY <1>5, <2>1
<1>8. \A k \in base + 1 .. base + Cardinality(ms) : k \in Keys /\ \E m \in ms : KeyOf(ms, base, m) = k
  <2> SUFFICES ASSUME NEW k \in base + 1 .. base + Cardinality(ms) PROVE k \in Keys /\ \E m \in ms : KeyOf(ms, base, m) = k
    OBVIOUS
  <2>1. k - base \in 1 .. Cardinality(ms) /\ k \in Keys
    BY <1>1 DEF Keys
  <2>2. PICK m \in ms : rank(m) = k - base
    BY <1>4, <2>1
  <2> QED BY <1>5, <2>1, <2>2
<1>9. \A k \in Keys : IF \E m \in ms : KeyOf(ms, base, m) = k
                      THEN \E m \in ms : KeyOf(ms, base, m) = k /\ Landed(ms, base)[k] = Item(m)
                      ELSE Landed(ms, base)[k] = items[k]
  <2> SUFFICES ASSUME NEW k \in Keys PROVE IF \E m \in ms : KeyOf(ms, base, m) = k
                      THEN \E m \in ms : KeyOf(ms, base, m) = k /\ Landed(ms, base)[k] = Item(m)
                      ELSE Landed(ms, base)[k] = items[k]
    OBVIOUS
  <2> DEFINE c == CHOOSE m \in ms : KeyOf(ms, base, m) = k
  <2>1. Landed(ms, base)[k] = IF \E m \in ms : KeyOf(ms, base, m) = k THEN Item(c) ELSE items[k]
    BY DEF Landed
  <2>2. (\E m \in ms : KeyOf(ms, base, m) = k) => c \in ms /\ KeyOf(ms, base, c) = k
    OBVIOUS
  <2> HIDE DEF c
  <2> QED BY <2>1, <2>2
<1>10. \A k \in Keys : Landed(ms, base)[k] \in Annotations \cup {None}
  <2>1. items \in [Keys -> Annotations \cup {None}]
    BY DEF MarksInv, MarksTypes
  <2> QED BY <1>9, <2>1, ItemIs
<1>11. Landed(ms, base) \in [Keys -> Annotations \cup {None}]
  BY <1>10 DEF Landed
<1>12. \A m \in ms : Landed(ms, base)[KeyOf(ms, base, m)] = Item(m)
  BY <1>6, <1>7, <1>9
<1>13. \A k \in Keys : k \notin base + 1 .. base + Cardinality(ms) => Landed(ms, base)[k] = items[k]
  BY <1>6, <1>9
<1> QED BY <1>1, <1>6, <1>7, <1>8, <1>11, <1>12, <1>13 DEF NumberedOn

\* New annotations beside the old ones, each on record as its mark's, or on nobody's.
MadeAs(ms, key) ==
  /\ items' \in [Keys -> Annotations \cup {None}] /\ KeysInOrder'
  /\ \A k \in Used : k \in Used' /\ items'[k] = items[k]
  /\ key \in [ms -> Keys] /\ \A m \in ms : key[m] \notin Used /\ items'[key[m]] = Item(m)
  /\ \A m, n \in ms : key[m] = key[n] => m = n
  /\ ~faulty => \A k \in Used' : k \in Used \/ \E m \in ms : key[m] = k
  /\ \/ /\ plan' = [plan EXCEPT !.creates = {}] /\ incomplete' = (incomplete \/ ms # plan.creates)
        /\ mine' = [m \in Marks |-> IF m \in ms THEN Record(key[m], digest[m], {}, FALSE) ELSE mine[m]]
     \/ GiveUp /\ faulty

LEMMA ItemsMade ==
  ASSUME MarksInv, pass = "writing", plan.trashes = {}, NEW ms \in SUBSET plan.creates,
         UNCHANGED <<page, faulty, tablet, startOver, stored, pass, digest, mirrored, removed>>,
         NEW key, MadeAs(ms, key)
  PROVE  MarksInv'
<1> USE DEF MadeAs
<1> DEFINE new(m) == Record(key[m], digest[m], {}, FALSE)
<1>1. \A m \in ms : /\ m \in Marks /\ m \in plan.creates /\ digest[m] \in Here /\ key[m] \in Keys /\ mine[m] = stored[m] /\ ~InPatches(m)
  BY DEF MarksInv, MarksTypes, Plans, PlanApart, DueMark
<1>2. \A m \in ms : /\ new(m) \in Records /\ new(m).key = key[m] /\ new(m).edited = {} /\ ~new(m).deleted /\ new(m) # None
  <2> SUFFICES ASSUME NEW m \in ms PROVE new(m) \in Records /\ new(m).key = key[m] /\ new(m).edited = {} /\ ~new(m).deleted
    BY RecordParts
  <2>1. key[m] \in Keys /\ digest[m] \in [Fields -> Values]
    BY <1>1 DEF Here
  <2>2. {} \in SUBSET Fields /\ FALSE \in BOOLEAN
    OBVIOUS
  <2>3. /\ Record(key[m], digest[m], {}, FALSE) \in Records /\ Record(key[m], digest[m], {}, FALSE).key = key[m]
        /\ Record(key[m], digest[m], {}, FALSE).edited = {} /\ Record(key[m], digest[m], {}, FALSE).deleted = FALSE
    BY <2>1, <2>2 DEF Record, Records
  <2> QED BY <2>3
<1> HIDE DEF new
<1>3. \A m \in ms : /\ Item(m).page = page[m] /\ Item(m).f = digest[m] /\ Item(m).live /\ Item(m) # None
  BY <1>1, ItemIs
<1>4. /\ plan' \in Plans /\ plan'.trashes = {} /\ plan'.creates = {} /\ plan'.patches \subseteq plan.patches
      /\ mine' \in [Marks -> Records \cup {None}] /\ incomplete' \in BOOLEAN
      /\ \A n \in Marks : mine'[n] = mine[n] \/ (n \in ms /\ mine'[n] = new(n))
  <2>1. mine \in [Marks -> Records \cup {None}] /\ incomplete \in BOOLEAN /\ MarksTypes
    BY DEF MarksInv, MarksTypes
  <2>2. CASE GiveUp
    <3>1. plan' = NoPlan /\ incomplete' = TRUE /\ mine' = mine
      BY <2>2 DEF GiveUp
    <3> QED BY <2>1, <3>1, NothingPlanned
  <2>3. CASE ~GiveUp
    <3>1. plan' = [plan EXCEPT !.creates = {}] /\ mine' = [m \in Marks |-> IF m \in ms THEN new(m) ELSE mine[m]] /\ incomplete' \in BOOLEAN
      BY <2>3, <2>1 DEF new
    <3>2. plan' \in Plans /\ plan'.trashes = plan.trashes /\ plan'.creates = {} /\ plan'.patches = plan.patches
      BY <2>1, <3>1, PlanLess
    <3> QED BY <1>2, <2>1, <3>1, <3>2
  <2> QED BY <2>2, <2>3
<1>5. MarksTypes'
  BY <1>4 DEF MarksInv, MarksTypes
<1>6. \A n \in Marks : \A k \in Keys : Names(n, k)' => Names(n, k) \/ (n \in ms /\ k = key[n])
  BY <1>2, <1>4 DEF Names
<1>7. \A n \in Marks : \A k \in Keys : Names(n, k) => k \in Used
  BY DEF MarksInv, NamedIsMade, Used
<1>8. NamedOnce'
  <2> SUFFICES ASSUME NEW m \in Marks, NEW n \in Marks, NEW k \in Keys, Names(m, k)', Names(n, k)' PROVE m = n
    BY DEF NamedOnce
  <2>1. Names(m, k) \/ (m \in ms /\ k = key[m])
    BY <1>6
  <2>2. Names(n, k) \/ (n \in ms /\ k = key[n])
    BY <1>6
  <2>3. CASE k \in Used
    BY <2>1, <2>2, <2>3 DEF MarksInv, NamedOnce
  <2>4. CASE k \notin Used
    BY <1>7, <2>1, <2>2, <2>4
  <2> QED BY <2>3, <2>4
<1>9. NamedIsMade'
  <2> SUFFICES ASSUME NEW n \in Marks, NEW k \in Keys, Names(n, k)' PROVE items'[k] # None /\ items'[k].page = page[n]
    BY DEF NamedIsMade
  <2>1. CASE Names(n, k)
    BY <1>7, <2>1 DEF MarksInv, NamedIsMade
  <2>2. CASE n \in ms /\ k = key[n]
    BY <1>3, <2>2
  <2> QED BY <1>6, <2>1, <2>2
<1>10. \A n \in Marks : (InPatches(n)' => InPatches(n)) /\ (DueMark(n)' => DueMark(n) /\ n \notin ms)
  BY <1>1, <1>4 DEF InPatches, DueMark
<1>11. PlanApart'
  <2>1. \A n \in Marks : DueMark(n)' => mine'[n] = stored[n]
    BY <1>4, <1>10 DEF MarksInv, PlanApart
  <2> QED BY <1>4, <1>10, <2>1 DEF MarksInv, PlanApart
<1>12. HandsOff'
  <2>1. \A q \in plan'.patches : items'[q.record.key] = items[q.record.key] /\ q \in plan.patches
    BY <1>4, DueNames
  <2>2. \A j : OnRecord(j)' = OnRecord(j)
    BY DEF OnRecord
  <2> QED BY <1>4, <2>1, <2>2 DEF MarksInv, HandsOff
<1>13. \A k \in Used : GoneOrBack(k)' = GoneOrBack(k)
  BY DEF GoneOrBack, Live
<1>14. \A n \in Marks : (stored[n] # None => stored[n].key \in Used) /\ (mine[n] # None => mine[n].key \in Used)
  BY <1>7, DueNames
<1>15. DeletedAreGone'
  <2>1. \A n \in Marks : mine'[n] # None /\ mine'[n].deleted => GoneOrBack(mine[n].key)' /\ mine'[n] = mine[n]
    <3> SUFFICES ASSUME NEW n \in Marks, mine'[n] # None, mine'[n].deleted PROVE GoneOrBack(mine[n].key)' /\ mine'[n] = mine[n]
      OBVIOUS
    <3>1. mine'[n] = mine[n] /\ mine[n].key \in Used
      BY <1>2, <1>4, <1>14
    <3>2. GoneOrBack(mine[n].key)
      BY <3>1 DEF MarksInv, DeletedAreGone
    <3>3. items'[mine[n].key] = items[mine[n].key]
      BY <3>1
    <3> QED BY <3>1, <3>2, <3>3 DEF GoneOrBack, Live
  <2>2. \A n \in Marks : stored[n] # None /\ stored[n].deleted => GoneOrBack(stored[n].key)'
    BY <1>13, <1>14 DEF MarksInv, DeletedAreGone
  <2>3. \A q \in plan'.patches : stored[q.mark] # None /\ stored[q.mark].key # q.record.key => GoneOrBack(stored[q.mark].key)'
    BY <1>4, <1>13, <1>14, DueNames DEF MarksInv, DeletedAreGone
  <2> QED BY <1>4, <2>1, <2>2, <2>3 DEF DeletedAreGone
<1>16. NoneUnknown'
  <2> SUFFICES ASSUME ~faulty, NEW j \in Keys, Live(j)', ~items'[j].back PROVE \E n \in Marks : mine'[n] # None /\ mine'[n].key = j
    BY DEF NoneUnknown, Existing
  <2>1. mine' = [m \in Marks |-> IF m \in ms THEN new(m) ELSE mine[m]]
    BY DEF new
  <2>2. CASE j \in Used
    <3>1. Live(j) /\ ~items[j].back /\ ~GoneOrBack(j)
      BY <2>2 DEF GoneOrBack, Live
    <3>2. PICK n \in Marks : mine[n] # None /\ mine[n].key = j
      BY <3>1 DEF MarksInv, NoneUnknown, Existing
    <3>3. n \notin ms
      BY <1>1, <3>1, <3>2 DEF MarksInv, DeletedAreGone
    <3> QED BY <2>1, <3>2, <3>3
  <2>3. CASE j \notin Used
    <3>1. j \in Used'
      BY DEF Live, Used
    <3>2. PICK m \in ms : key[m] = j
      BY <2>3, <3>1
    <3> QED BY <1>1, <1>2, <2>1, <3>2
  <2> QED BY <2>2, <2>3
<1>17. MirrorsToBe'
  <2> SUFFICES ASSUME mirrored, ~incomplete' PROVE MirrorsToBe'
    BY DEF MirrorsToBe
  <2>1. /\ plan' = [plan EXCEPT !.creates = {}] /\ ~incomplete /\ ms = plan.creates
        /\ mine' = [m \in Marks |-> IF m \in ms THEN new(m) ELSE mine[m]]
    BY DEF GiveUp, MarksInv, MarksTypes, new
  <2>2. plan'.trashes = plan.trashes /\ plan'.creates = {} /\ plan'.patches = plan.patches
    BY <2>1, PlanLess DEF MarksInv
  <2>3. digest = tablet
    BY <2>1 DEF MarksInv, MirrorsToBe
  <2>4. ASSUME NEW m \in ms PROVE ShowsMark(m, mine[m])'
    <3>1. tablet[m] # Erased /\ mine'[m] = new(m)
      BY <1>1, <2>1, <2>3, MarksAssumption DEF Erased
    <3>2. items'[new(m).key] = Item(m)
      BY <1>2
    <3> QED BY <1>2, <1>3, <2>3, <3>1, <3>2 DEF ShowsMark, Live
  <2>5. ASSUME NEW n \in Marks \ ms, ~DueMark(n)' PROVE ShowsMark(n, mine[n])'
    <3>1. ShowsMark(n, mine[n]) /\ mine'[n] = mine[n]
      <4>1. ~DueMark(n)
        BY <2>1, <2>2, <2>5 DEF DueMark, InPatches
      <4> QED BY <2>1, <4>1 DEF MarksInv, MirrorsToBe
    <3>2. CASE mine[n] = None
      BY <3>1, <3>2 DEF ShowsMark
    <3>3. CASE mine[n] # None
      <4>1. items'[mine[n].key] = items[mine[n].key]
        BY <1>14, <3>3
      <4> QED BY <3>1, <4>1 DEF ShowsMark, Live
    <3> QED BY <3>2, <3>3
  <2>6. ASSUME NEW q \in plan'.patches
        PROVE  /\ Live(q.record.key)'
               /\ \A f \in Fields \ (q.record.edited \cup q.fields) : items'[q.record.key].f[f] = tablet[q.mark][f]
    <3>1. q.record.key \in Used /\ q \in plan.patches
      BY <1>4, DueNames
    <3>2. items'[q.record.key] = items[q.record.key]
      BY <3>1
    <3> QED BY <2>1, <3>1, <3>2 DEF MarksInv, MirrorsToBe, Live
  <2> QED BY <1>4, <2>3, <2>4, <2>5, <2>6 DEF MirrorsToBe
<1>18. RemovedKnown'
  BY <1>2, <1>4 DEF MarksInv, RemovedKnown
<1> QED BY <1>5, <1>8, <1>9, <1>11, <1>12, <1>15, <1>16, <1>17, <1>18 DEF MarksInv

LEMMA CreateStep ==
  ASSUME MarksInv, NEW landed \in SUBSET Marks, NEW o, Create(landed, o)
  PROVE  MarksInv'
<1> DEFINE base == Cardinality(Used)
           c == Cardinality(landed)
<1>1. /\ pass = "writing" /\ plan.trashes = {} /\ plan.creates # {} /\ landed \in SUBSET plan.creates
      /\ UNCHANGED <<page, faulty, tablet, startOver, stored, pass, digest, mirrored, removed>>
      /\ o \in {"lost", "again"} => faulty
  BY DEF Create, Outcomes
<1>2. base \in 0 .. MaxItems /\ base \in Nat /\ Used = 1 .. base /\ MaxItems \in Nat
  <2>1. PICK n \in 0 .. MaxItems : Used = 1 .. n
    BY DEF MarksInv, KeysInOrder
  <2>2. Cardinality(1 .. n) = n /\ MaxItems \in Nat
    BY <2>1, MarksAssumption, FS_Interval
  <2> QED BY <2>1, <2>2
<1>3. \A m \in landed : digest[m] \in Here /\ m \in Marks
  BY <1>1 DEF MarksInv, MarksTypes, PlanApart
<1>4. c \in Nat
  <2>1. IsFiniteSet(Marks)
    BY MarksAssumption, FS_Interval DEF Marks
  <2> QED BY <2>1, FS_Subset, FS_CardinalityType
<1> DEFINE First == Landed(landed, base)
           Second == Landed(landed, base + c)
           Again == LandedTwice(landed, landed, base)
           key(b) == [m \in landed |-> KeyOf(landed, b, m)]
           Done(b) == /\ plan' = [plan EXCEPT !.creates = {}] /\ incomplete' = (incomplete \/ landed # plan.creates)
                      /\ mine' = [m \in Marks |-> IF m \in landed THEN Record(key(b)[m], digest[m], {}, FALSE) ELSE mine[m]]
<1>5. \/ base + c <= MaxItems /\ items' = First /\ (Done(base) \/ (GiveUp /\ faulty))
      \/ base + 2 * c <= MaxItems /\ items' = Again /\ Done(base + c) /\ faulty
      \/ UNCHANGED items /\ GiveUp
  <2>1. \A b : Created(landed, b) = [m \in Marks |-> IF m \in landed THEN Record(key(b)[m], digest[m], {}, FALSE) ELSE mine[m]]
    BY Zenon DEF Created
  <2> HIDE DEF key
  <2>2. CASE o = "done"
    BY <2>1, <2>2 DEF Create
  <2>3. CASE o = "lost" \/ o = "again"
    BY <1>1, <2>1, <2>3 DEF Create
  <2>4. CASE o \notin {"done", "lost", "again"}
    BY <2>4 DEF Create
  <2> QED BY <2>2, <2>3, <2>4
<1> HIDE DEF base, c
<1>6. CASE base + c <= MaxItems /\ items' = First /\ (Done(base) \/ (GiveUp /\ faulty))
  <2>1. NumberedOn(First, landed, base)
    BY <1>2, <1>3, <1>6, LandedInOrder DEF c
  <2> HIDE DEF First
  <2>2. /\ items' \in [Keys -> Annotations \cup {None}]
        /\ \A m \in landed : /\ KeyOf(landed, base, m) \in base + 1 .. base + c /\ KeyOf(landed, base, m) \in Keys
                             /\ items'[KeyOf(landed, base, m)] = Item(m) /\ Item(m) # None
        /\ \A m, n \in landed : KeyOf(landed, base, m) = KeyOf(landed, base, n) => m = n
        /\ \A k \in base + 1 .. base + c : k \in Keys /\ \E m \in landed : KeyOf(landed, base, m) = k
        /\ \A k \in Keys : k \notin base + 1 .. base + c => items'[k] = items[k]
    BY <1>3, <1>6, <2>1, ItemIs DEF NumberedOn, c
  <2>3. Used' = 1 .. base + c /\ base + c \in 0 .. MaxItems
    BY <1>2, <1>4, <1>6, <2>2 DEF Used, Keys
  <2>4. KeysInOrder'
    BY <2>3 DEF KeysInOrder
  <2>5. \A k \in Used : k \in Used' /\ items'[k] = items[k]
    BY <1>2, <1>4, <2>2, <2>3 DEF Used
  <2>6. /\ key(base) \in [landed -> Keys] /\ \A m \in landed : key(base)[m] \notin Used /\ items'[key(base)[m]] = Item(m)
        /\ \A m, n \in landed : key(base)[m] = key(base)[n] => m = n
    BY <1>2, <1>4, <2>2
  <2>7. \A k \in Used' : k \in Used \/ \E m \in landed : key(base)[m] = k
    BY <1>2, <1>4, <2>2, <2>3
  <2>8. Done(base) \/ (GiveUp /\ faulty)
    BY <1>6
  <2>9. MadeAs(landed, key(base))
    <3> HIDE DEF key
    <3> QED BY <2>2, <2>4, <2>5, <2>6, <2>7, <2>8 DEF MadeAs
  <2> HIDE DEF key
  <2> QED BY <1>1, <2>9, ItemsMade
<1>7. CASE base + 2 * c <= MaxItems /\ items' = Again /\ Done(base + c) /\ faulty
  <2>1. NumberedOn(First, landed, base)
    BY <1>2, <1>3, <1>4, <1>7, LandedInOrder DEF c
  <2>2. NumberedOn(Second, landed, base + c)
    <3>1. base + c \in Nat /\ base + c + Cardinality(landed) <= MaxItems
      BY <1>2, <1>4, <1>7 DEF c
    <3> QED BY <1>3, <3>1, LandedInOrder
  <2>3. Again = [k \in Keys |-> IF k > base + c THEN Second[k] ELSE First[k]]
    BY DEF LandedTwice, c
  <2> HIDE DEF First, Second, Again
  <2>4. items' \in [Keys -> Annotations \cup {None}] /\ \A k \in Keys : items'[k] = IF k > base + c THEN Second[k] ELSE First[k]
    BY <1>7, <2>1, <2>2, <2>3 DEF NumberedOn
  <2>5. /\ \A m \in landed : KeyOf(landed, base + c, m) \in base + c + 1 .. base + c + c /\ KeyOf(landed, base + c, m) \in Keys
        /\ \A m, n \in landed : KeyOf(landed, base + c, m) = KeyOf(landed, base + c, n) => m = n
        /\ \A m \in landed : Second[KeyOf(landed, base + c, m)] = Item(m)
    BY <2>2 DEF NumberedOn, c
  <2>6. \A k \in Keys : k > base + c => (k \in base + c + 1 .. base + c + c /\ Second[k] # None) \/ (k \notin base + c + 1 .. base + c + c /\ Second[k] = items[k])
    BY <1>2, <1>3, <1>4, <2>2, ItemIs DEF NumberedOn, c
  <2>7. \A k \in Keys : (k \in base + 1 .. base + c /\ First[k] # None) \/ (k \notin base + 1 .. base + c /\ First[k] = items[k])
    BY <1>2, <1>3, <1>4, <2>1, ItemIs DEF NumberedOn, c
  <2>8. Used' = 1 .. base + 2 * c /\ base + 2 * c \in 0 .. MaxItems
    <3>1. \A k \in Keys : (items[k] # None) <=> k <= base
      BY <1>2 DEF Used, Keys
    <3>2. base + 2 * c = base + c + c /\ base + 2 * c \in 0 .. MaxItems
      BY <1>2, <1>4, <1>7
    <3>3. \A k \in Keys : (items'[k] # None) <=> k <= base + 2 * c
      <4> SUFFICES ASSUME NEW k \in Keys PROVE (items'[k] # None) <=> k <= base + 2 * c
        OBVIOUS
      <4>1. k \in Nat /\ k >= 1
        BY DEF Keys
      <4>2. CASE k > base + c
        BY <1>2, <1>4, <2>4, <2>6, <3>1, <3>2, <4>1, <4>2, SMTT(30)
      <4>3. CASE k <= base + c
        BY <1>2, <1>4, <2>4, <2>7, <3>1, <3>2, <4>1, <4>3
      <4> QED BY <1>2, <1>4, <4>1, <4>2, <4>3
    <3> QED BY <1>2, <3>2, <3>3 DEF Used, Keys
  <2>9. KeysInOrder'
    BY <2>8 DEF KeysInOrder
  <2>10. \A k \in Used : k \in Used' /\ items'[k] = items[k]
    BY <1>2, <1>4, <2>4, <2>7, <2>8 DEF Used, Keys
  <2>11. /\ key(base + c) \in [landed -> Keys] /\ \A m \in landed : key(base + c)[m] \notin Used /\ items'[key(base + c)[m]] = Item(m)
         /\ \A m, n \in landed : key(base + c)[m] = key(base + c)[n] => m = n
    BY <1>2, <1>4, <2>4, <2>5
  <2> HIDE DEF key
  <2>12. MadeAs(landed, key(base + c))
    BY <1>7, <2>4, <2>9, <2>10, <2>11 DEF MadeAs
  <2> QED BY <1>1, <2>12, ItemsMade
<1>8. CASE UNCHANGED items /\ GiveUp
  <2>1. plan' \in Plans /\ plan'.trashes \subseteq plan.trashes /\ plan'.creates \subseteq plan.creates /\ plan'.patches \subseteq plan.patches
    BY <1>8, NothingPlanned DEF GiveUp
  <2>2. mine' \in [Marks -> Records \cup {None}] /\ mine' = mine /\ incomplete' = TRUE
    BY <1>8 DEF GiveUp, MarksInv, MarksTypes
  <2> QED BY <1>1, <1>8, <2>1, <2>2, Unplanned
<1> QED BY <1>5, <1>6, <1>7, <1>8

\* Between two passes: the record is the pass's own or the one before it, and every version is read anew.
LEMMA PassEnds ==
  ASSUME MarksInv, pass = "writing", EndPass, UNCHANGED <<page, faulty, tablet, startOver, removed>>,
         \/ stored' = mine /\ mine' = mine /\ plan = NoPlan /\ mirrored' = (mirrored /\ ~incomplete)
         \/ stored' = stored /\ mine' = stored /\ mirrored' = FALSE /\ faulty
  PROVE  MarksInv'
<1>1. plan' = NoPlan /\ plan' \in Plans /\ plan'.trashes = {} /\ plan'.creates = {} /\ plan'.patches = {}
  BY NothingPlanned DEF EndPass
<1>2. \A k \in Keys : IF items[k] = None THEN items'[k] = None
                      ELSE /\ items'[k] \in Annotations /\ items'[k] # None
                           /\ items'[k].page = items[k].page /\ items'[k].f = items[k].f /\ items'[k].live = items[k].live
                           /\ items'[k].back = items[k].back
  <2> SUFFICES ASSUME NEW k \in Keys, items[k] # None
               PROVE  /\ items'[k] \in Annotations /\ items'[k].page = items[k].page /\ items'[k].f = items[k].f
                      /\ items'[k].live = items[k].live /\ items'[k].back = items[k].back
    BY MarksAssumption DEF EndPass
  <2>1. items'[k] = [items[k] EXCEPT !.fresh = TRUE] /\ items[k] \in Annotations
    BY ItemParts DEF EndPass, MarksInv
  <2> QED BY <2>1 DEF Annotations
<1>3. items' \in [Keys -> Annotations \cup {None}]
  <2>1. items' = [k \in Keys |-> items'[k]]
    BY DEF EndPass
  <2> HIDE DEF EndPass
  <2> QED BY <1>2, <2>1
<1>4. digest' \in [Marks -> Here \cup {Erased}] /\ pass' = "idle" /\ incomplete' = FALSE
  BY DEF EndPass
<1>5. stored' \in [Marks -> Records \cup {None}] /\ mine' = stored' /\ (stored' = stored \/ stored' = mine) /\ mirrored' \in BOOLEAN
  BY DEF MarksInv, MarksTypes
<1>6. MarksTypes'
  BY <1>1, <1>3, <1>4, <1>5 DEF MarksInv, MarksTypes
<1>7. Used' = Used /\ \A k \in Keys : Live(k)' = Live(k) /\ GoneOrBack(k)' = GoneOrBack(k)
  BY <1>2 DEF Used, Live, GoneOrBack
<1>8. \A m \in Marks, k \in Keys : Names(m, k)' => Names(m, k)
  BY <1>1, <1>5 DEF Names
<1>9. NamedOnce' /\ NamedIsMade' /\ KeysInOrder'
  <2>1. NamedOnce'
    BY <1>8 DEF MarksInv, NamedOnce
  <2>2. NamedIsMade'
    BY <1>2, <1>8 DEF MarksInv, NamedIsMade
  <2> QED BY <1>7, <2>1, <2>2 DEF MarksInv, KeysInOrder
<1>10. \A m : ~InPatches(m)' /\ ~DueMark(m)'
  BY <1>1 DEF InPatches, DueMark
<1>11. PlanApart' /\ HandsOff'
  BY <1>1, <1>10 DEF PlanApart, HandsOff
<1>12. RemovedKnown'
  BY <1>5 DEF MarksInv, RemovedKnown
<1>13. DeletedAreGone'
  <2>1. \A m \in Marks : stored'[m] # None => stored'[m].key \in Keys
    BY <1>5, DueNames
  <2>3. ASSUME NEW m \in Marks, stored'[m] # None, stored'[m].deleted, NEW k \in Keys, k = stored'[m].key PROVE GoneOrBack(k)'
    <3>1. GoneOrBack(k)
      BY <1>5, <2>3 DEF MarksInv, DeletedAreGone
    <3> QED BY <1>7, <3>1
  <2>4. ASSUME NEW m \in Marks, stored'[m] # None, stored'[m].deleted PROVE GoneOrBack(stored[m].key)'
    BY <2>1, <2>3, <2>4
  <2> QED BY <1>1, <1>5, <2>4 DEF DeletedAreGone
<1>14. NoneUnknown'
  <2> SUFFICES ASSUME ~faulty, NEW j \in Keys, Live(j)', ~items'[j].back PROVE \E n \in Marks : mine'[n] # None /\ mine'[n].key = j
    BY DEF NoneUnknown, Existing
  <2>1. Live(j) /\ ~items[j].back /\ mine' = mine
    BY <1>2, <1>7 DEF Live
  <2> QED BY <2>1 DEF MarksInv, NoneUnknown, Existing
<1>15. MirrorsToBe'
  <2> SUFFICES ASSUME mirrored, ~incomplete, plan = NoPlan, mine' = mine PROVE \A m \in Marks : ShowsMark(m, mine[m])'
    BY <1>1, <1>4 DEF MirrorsToBe
  <2> TAKE m \in Marks
  <2>1. ShowsMark(m, mine[m])
    BY NothingPlanned DEF MarksInv, MirrorsToBe
  <2>2. CASE mine[m] = None
    BY <2>1, <2>2 DEF ShowsMark
  <2>3. CASE mine[m] # None
    <3>1. mine[m].key \in Keys
      BY <2>3, DueNames
    <3>2. Live(mine[m].key)' = Live(mine[m].key) /\ (Live(mine[m].key) => items'[mine[m].key].f = items[mine[m].key].f)
      BY <1>2, <3>1 DEF Live
    <3> QED BY <2>1, <3>2 DEF ShowsMark
  <2> QED BY <2>2, <2>3
<1> QED BY <1>6, <1>9, <1>11, <1>12, <1>13, <1>14, <1>15 DEF MarksInv

LEMMA MarksStep == MarksInv /\ [MarksNext]_markVars => MarksInv'
<1> SUFFICES ASSUME MarksInv, [MarksNext]_markVars PROVE MarksInv'
  OBVIOUS
<1>1. CASE \E m \in Marks, v \in Here \cup {Erased} : MarkOnTablet(m, v)
  <2>1. PICK m \in Marks, v \in Here \cup {Erased} : MarkOnTablet(m, v)
    BY <1>1
  <2>2. tablet' \in [Marks -> Here \cup {Erased}] /\ startOver' \in BOOLEAN /\ mirrored' = FALSE
        /\ UNCHANGED <<page, faulty, items, stored, pass, mine, plan, digest, incomplete, removed>>
    BY <2>1 DEF MarkOnTablet, ChangeMark, MarksInv, MarksTypes
  <2> QED BY <2>2, TabletChanges
<1>2. CASE DeleteTheNote \/ TouchDocument
  <2>1. tablet' \in [Marks -> Here \cup {Erased}] /\ tablet' = tablet
        /\ UNCHANGED <<page, faulty, items, stored, pass, mine, plan, digest, incomplete, removed>>
    BY <1>2 DEF DeleteTheNote, TouchDocument, ChangeMark, MarksInv, MarksTypes
  <2>2. startOver' \in BOOLEAN /\ mirrored' \in BOOLEAN /\ (mirrored' => mirrored)
    <3>1. CASE DeleteTheNote
      BY <3>1 DEF DeleteTheNote, ChangeMark
    <3>2. CASE TouchDocument
      BY <3>2 DEF TouchDocument, MarksInv, MarksTypes
    <3> QED BY <1>2, <3>1, <3>2
  <2> QED BY <2>1, <2>2, TabletChanges
<1>3. CASE \E k \in Keys : (\E f \in Fields : EditInZotero(k, f)) \/ TrashInZotero(k) \/ RestoreInZotero(k)
  <2>1. "text" \in Fields
    BY DEF Fields
  <2> QED BY <1>3, <2>1, UserStep
<1>4. CASE \E c \in Scopes, b \in BOOLEAN : BeginWriteBack(c, b)
  BY <1>4, BeginStep
<1>5. CASE \E o \in {"done", "error", "lost", "again"}, m \in Marks : Trash(m, o)
  BY <1>5, TrashStep
<1>6. CASE \E o \in {"done", "error", "lost", "again"}, ms \in SUBSET Marks : Create(ms, o)
  BY <1>6, CreateStep
<1>7. CASE \E o \in {"done", "error", "lost", "again"}, p \in plan.patches : Patch(p, o)
  BY <1>7, PatchStep
<1>8. CASE SaveLink
  <2>1. EndPass /\ stored' = mine /\ mine' = mine /\ plan = NoPlan /\ mirrored' = (mirrored /\ ~incomplete)
        /\ pass = "writing" /\ UNCHANGED <<page, faulty, tablet, startOver, removed>>
    BY <1>8 DEF SaveLink
  <2> QED BY <2>1, PassEnds
<1>9. CASE RefuseWrites
  BY <1>9, PassEnds DEF RefuseWrites
<1>10. CASE Quit
  BY <1>10, PassEnds DEF Quit
<1>11. CASE UNCHANGED markVars
  <2>1. tablet' \in [Marks -> Here \cup {Erased}] /\ startOver' \in BOOLEAN /\ mirrored' \in BOOLEAN /\ tablet' = tablet /\ mirrored' = mirrored
        /\ UNCHANGED <<page, faulty, items, stored, pass, mine, plan, digest, incomplete, removed>>
    BY <1>11 DEF markVars, MarksInv, MarksTypes
  <2> QED BY <2>1, TabletChanges
<1> QED BY <1>1, <1>2, <1>3, <1>4, <1>5, <1>6, <1>7, <1>8, <1>9, <1>10, <1>11 DEF MarksNext, WritingNext

\* What planWriteBack and executeWriteBack keep between the marks, their records and the library, whatever the user does.
THEOREM MarksInvariant == MarksSpec => []MarksInv
  BY MarksStart, MarksStep, PTL DEF MarksSpec

\* planWriteBack, executeWriteBack: for any marks, values, numbers of annotations and of things the user does,
\* after a pass that covered the document and met no failure the annotations say what the tablet says.
THEOREM AnnotationsMirrorTheMarks == MarksSpec => []MirrorsTheTablet
<1>1. MarksInv => MirrorsTheTablet
  <2> SUFFICES ASSUME MarksInv, mirrored, pass = "idle", NEW m \in Marks
               PROVE  IF tablet[m] = Erased
                      THEN stored[m] # None => stored[m].deleted \/ stored[m].edited # {} \/ ~Live(stored[m].key)
                      ELSE /\ stored[m] # None
                           /\ ~stored[m].deleted =>
                                /\ Live(stored[m].key) /\ items[stored[m].key].page = page[m]
                                /\ \A f \in Fields \ stored[m].edited : items[stored[m].key].f[f] = tablet[m][f]
    BY DEF MirrorsTheTablet
  <2>1. mine = stored /\ plan = NoPlan /\ ~incomplete
    BY DEF MarksInv, MarksTypes
  <2>2. ShowsMark(m, stored[m])
    BY <2>1, NothingPlanned DEF MarksInv, MirrorsToBe
  <2>3. stored[m] # None => items[stored[m].key].page = page[m]
    BY DueNames DEF MarksInv, NamedIsMade
  <2> QED BY <2>2, <2>3 DEF ShowsMark
<1> QED BY <1>1, MarksInvariant, PTL

\* executeWriteBack: while no answer is lost no mark has two annotations, and none of ours is on nobody's record.
THEOREM MarksOneEach == MarksSpec => []OneEach
<1>1. MarksInv => OneEach
  <2> SUFFICES ASSUME MarksInv PROVE OneEach
    OBVIOUS
  <2>1. \A m, n \in Marks : stored[m] # None /\ stored[n] # None /\ m # n => stored[m].key # stored[n].key
    BY DueNames DEF MarksInv, NamedOnce
  <2>2. ~faulty => \A k \in Existing : items[k].back \/ \E m \in Marks : \E r \in {mine[m], stored[m]} : r # None /\ r.key = k
    BY DEF MarksInv, NoneUnknown
  <2> QED BY <2>1, <2>2 DEF OneEach
<1> QED BY <1>1, MarksInvariant, PTL

LEMMA ChangesCounted == MarksSpec => [](changes \in Nat)
<1>1. MarksInit => changes \in Nat
  BY DEF MarksInit
<1>2. changes \in Nat /\ [MarksNext]_markVars => (changes \in Nat)'
  <2> SUFFICES ASSUME changes \in Nat, [MarksNext]_markVars, changes' # changes PROVE changes' = changes + 1
    OBVIOUS
  <2> QED BY ZenonT(40) DEF MarksNext, WritingNext, markVars, ChangeMark, MarkOnTablet, DeleteTheNote, TouchDocument, EditInZotero, TrashInZotero,
                 RestoreInZotero, BeginWriteBack, Trash, Create, Patch, SaveLink, RefuseWrites, Quit
<1> QED BY <1>1, <1>2, PTL DEF MarksSpec

\* What a step of the pass leaves of an annotation that is on record.
KeptWords ==
  changes' = changes =>
    \A k \in Keys : items[k] # None /\ (\E m \in Marks : stored[m] # None /\ stored[m].key = k) =>
      /\ \A f \in Fields : items[k].f[f] = Theirs => items'[k].f[f] = Theirs
      /\ (\E f \in Fields : items[k].f[f] = Theirs) => items'[k].live = items[k].live

LEMMA TrashKeepsWords == ASSUME MarksInv, NEW m \in Marks, NEW o, Trash(m, o) PROVE KeptWords
<1>1. m \in plan.trashes /\ stored[m].key \in Keys /\ stored[m].key \in Used
  BY DueNames DEF Trash
<1>2. CASE items' = items
  BY <1>2 DEF KeptWords
<1>3. CASE Untouched(stored[m].key) /\ items' = [items EXCEPT ![stored[m].key].live = FALSE]
  <2> DEFINE i == [items[stored[m].key] EXCEPT !.live = FALSE]
  <2>1. items[stored[m].key] \in Annotations
    BY <1>1, ItemParts DEF Used, MarksInv
  <2>2. i.f = items[stored[m].key].f
    BY <2>1 DEF Annotations
  <2>3. items' = [items EXCEPT ![stored[m].key] = i]
    BY <1>3
  <2> HIDE DEF i
  <2>4. items'[stored[m].key] = i /\ \A j \in Keys \ {stored[m].key} : items'[j] = items[j]
    BY <1>1, <2>3 DEF MarksInv, MarksTypes
  <2>5. \A f \in Fields : items[stored[m].key].f[f] # Theirs
    BY <1>1, <1>3 DEF Untouched, MarksInv, HandsOff
  <2> QED BY <2>2, <2>4, <2>5 DEF KeptWords
<1> QED BY <1>2, <1>3 DEF Trash

LEMMA CreateKeepsWords == ASSUME MarksInv, NEW landed \in SUBSET Marks, NEW o, Create(landed, o) PROVE KeptWords
<1> DEFINE base == Cardinality(Used)
           c == Cardinality(landed)
<1>1. base \in Nat /\ Used = 1 .. base
  <2>1. PICK n \in 0 .. MaxItems : Used = 1 .. n
    BY DEF MarksInv, KeysInOrder
  <2>2. Cardinality(1 .. n) = n /\ n \in Nat
    BY <2>1, MarksAssumption, FS_Interval
  <2> QED BY <2>1, <2>2
<1>2. \A m \in landed : digest[m] \in Here
  BY DEF Create, MarksInv, MarksTypes, PlanApart
<1>3. c \in Nat /\ MaxItems \in Nat
  <2>1. IsFiniteSet(Marks) /\ MaxItems \in Nat
    BY MarksAssumption, FS_Interval DEF Marks
  <2> QED BY <2>1, FS_Subset, FS_CardinalityType
<1>4. \/ UNCHANGED items
      \/ base + c <= MaxItems /\ items' = Landed(landed, base)
      \/ base + 2 * c <= MaxItems /\ items' = LandedTwice(landed, landed, base)
  BY DEF Create
<1> HIDE DEF base
<1>5. ASSUME base + c <= MaxItems PROVE \A k \in Used : Landed(landed, base)[k] = items[k]
  <2>1. NumberedOn(Landed(landed, base), landed, base)
    BY <1>1, <1>2, <1>5, LandedInOrder
  <2> HIDE DEF c
  <2> QED BY <1>1, <1>3, <2>1 DEF NumberedOn, Used
<1>6. ASSUME items' = LandedTwice(landed, landed, base), base + c <= MaxItems PROVE \A k \in Used : items'[k] = items[k]
  <2>1. \A k \in Keys : k <= base + c => items'[k] = Landed(landed, base)[k]
    BY <1>1, <1>3, <1>6 DEF LandedTwice, Keys
  <2> HIDE DEF c
  <2> QED BY <1>1, <1>3, <1>5, <1>6, <2>1 DEF Used
<1>7. \A k \in Used : items'[k] = items[k]
  <2> HIDE DEF c
  <2> QED BY <1>1, <1>3, <1>4, <1>5, <1>6
<1> QED BY <1>7 DEF KeptWords, Used

LEMMA PatchKeepsWords == ASSUME MarksInv, NEW p \in plan.patches, NEW o, Patch(p, o) PROVE KeptWords
<1>1. CASE items' = items
  BY <1>1 DEF KeptWords
<1>2. CASE Matches(p) /\ items' = Written(p)
  <2> DEFINE k == p.record.key
             g == [f \in Fields |-> IF f \in p.fields THEN digest[p.mark][f] ELSE items[k].f[f]]
             i == [items[k] EXCEPT !.f = g]
  <2>1. k \in Keys /\ k \in Used
    BY DueNames
  <2>2. items[k] \in Annotations
    BY <2>1, ItemParts DEF Used, MarksInv
  <2>3. items' = [items EXCEPT ![k] = i]
    BY <1>2, <2>1 DEF Written, MarksInv, MarksTypes
  <2>4. \A f \in Fields : f \notin p.fields => g[f] = items[k].f[f]
    OBVIOUS
  <2> HIDE DEF g
  <2>5. i.f = g /\ i.live = items[k].live
    BY <2>2 DEF Annotations
  <2> HIDE DEF i
  <2>6. items'[k] = i /\ \A j \in Keys \ {k} : items'[j] = items[j]
    BY <2>1, <2>3 DEF MarksInv, MarksTypes
  <2>7. OnRecord(k) => \A f \in p.fields : items[k].f[f] # Theirs
    BY <1>2 DEF Matches, Untouched, MarksInv, HandsOff
  <2> QED BY <2>4, <2>5, <2>6, <2>7 DEF KeptWords, OnRecord
<1> QED BY <1>1, <1>2 DEF Patch

LEMMA EndKeepsWords == ASSUME MarksInv, EndPass PROVE KeptWords
<1> SUFFICES ASSUME NEW k \in Keys, items[k] # None PROVE items'[k].f = items[k].f /\ items'[k].live = items[k].live
  BY DEF KeptWords
<1>1. items'[k] = [items[k] EXCEPT !.fresh = TRUE] /\ items[k] \in Annotations
  BY ItemParts DEF EndPass, MarksInv
<1> QED BY <1>1 DEF Annotations

\* What the user put into a field of an annotation on record is never written over, and such an annotation
\* is never trashed: for any marks, values and requests, whenever the edit comes.
THEOREM UsersEditsAreKept == MarksSpec => UserEditsKept
<1>1. MarksInv /\ changes \in Nat /\ [MarksNext]_markVars => [KeptWords]_markVars
  <2> SUFFICES ASSUME MarksInv, changes \in Nat, MarksNext PROVE KeptWords
    OBVIOUS
  <2>1. CASE \E m \in Marks, o \in {"done", "error", "lost", "again"} : Trash(m, o)
    BY <2>1, TrashKeepsWords
  <2>2. CASE \E ms \in SUBSET Marks, o \in {"done", "error", "lost", "again"} : Create(ms, o)
    BY <2>2, CreateKeepsWords
  <2>3. CASE \E p \in plan.patches, o \in {"done", "error", "lost", "again"} : Patch(p, o)
    BY <2>3, PatchKeepsWords
  <2>4. CASE EndPass
    BY <2>4, EndKeepsWords
  <2>5. CASE items' = items \/ changes' = changes + 1
    BY <2>5 DEF KeptWords
  <2>6. \/ items' = items \/ changes' = changes + 1 \/ EndPass
        \/ \E m \in Marks, o \in {"done", "error", "lost", "again"} : Trash(m, o)
        \/ \E ms \in SUBSET Marks, o \in {"done", "error", "lost", "again"} : Create(ms, o)
        \/ \E p \in plan.patches, o \in {"done", "error", "lost", "again"} : Patch(p, o)
    BY DEF MarksNext, WritingNext, ChangeMark, MarkOnTablet, DeleteTheNote, TouchDocument, EditInZotero, TrashInZotero,
           RestoreInZotero, BeginWriteBack, SaveLink, RefuseWrites, Quit
  <2> QED BY <2>1, <2>2, <2>3, <2>4, <2>5, <2>6
<1> QED BY <1>1, MarksInvariant, ChangesCounted, PTL DEF MarksSpec, UserEditsKept, KeptWords

\* An annotation the user trashed is never planned again, whatever the pass reads and however it went before.
THEOREM TrashedIsNotPlanned == MarksSpec => DeletedIsNotRemade
<1> DEFINE A == pass = "idle" /\ pass' = "writing" => \A m \in removed' : m \notin plan'.creates
<1>1. MarksInv /\ [MarksNext]_markVars => [A]_markVars
  <2> SUFFICES ASSUME MarksInv, MarksNext, pass = "idle", pass' = "writing", NEW m \in removed', m \in plan'.creates PROVE FALSE
    OBVIOUS
  <2>1. PICK covered \in Scopes, placed \in BOOLEAN : BeginWriteBack(covered, placed)
    BY DEF MarksNext, WritingNext, MarkOnTablet, DeleteTheNote, TouchDocument, EditInZotero, TrashInZotero,
           RestoreInZotero, Trash, Create, Patch, SaveLink, RefuseWrites, Quit, EndPass
  <2> DEFINE d == [n \in Marks |-> IF page[n] \in covered THEN tablet[n] ELSE Erased]
             entries == IF placed THEN {n \in Marks : d[n] # Erased} ELSE {}
             p == Decisions(d, entries, covered, startOver)
             c == ClaimsOf(d, entries, startOver)
  <2>2. d \in [Marks -> Here \cup {Erased}] /\ entries \in SUBSET Marks /\ startOver \in BOOLEAN
    BY DEF MarksInv, MarksTypes
  <2>3. \A n \in entries : d[n] # Erased
    OBVIOUS
  <2>4. m \in p.creates /\ removed' = (IF startOver THEN {} ELSE removed)
    BY <2>1 DEF BeginWriteBack
  <2> HIDE DEF d, entries
  <2>5. PlanIs(p, c, d, entries, covered, startOver)
    BY <2>2, <2>3, PlanFacts
  <2> HIDE DEF p, c
  <2>6. m \in Marks /\ (stored[m] # None => startOver)
    BY <2>4, <2>5 DEF PlanIs
  <2>7. ~startOver /\ stored[m] # None
    BY <2>4, <2>6 DEF MarksInv, RemovedKnown
  <2> QED BY <2>6, <2>7
<1> QED BY <1>1, MarksInvariant, PTL DEF MarksSpec, DeletedIsNotRemade
=============================================================================
