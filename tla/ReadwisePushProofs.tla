------------------------- MODULE ReadwisePushProofs -------------------------
(***************************************************************************)
(* What ReadwisePush guarantees for any documents, marks, texts, tokens,   *)
(* accounts and batch size, whatever fails, crashes or is lost: its types, *)
(* and that a book deleted in Readwise is not opened again.                *)
(***************************************************************************)
EXTENDS MCReadwisePush, TLAPS

-----------------------------------------------------------------------------
(* The shapes of the data. *)

LEMMA DataParts == ASSUME NEW D \in Data
                   PROVE  /\ D.books \in [Docs -> Book] /\ D.due \subseteq Docs /\ D.clash \in BOOLEAN /\ D.recording \in BOOLEAN
                          /\ D.account \in Tokens \cup {None} /\ D.before \in Tokens \cup {None}
  BY DEF Data

LEMMA DataChanges == ASSUME NEW D \in Data, NEW bs \in [Docs -> Book]
                     PROVE  /\ \A x \in SUBSET Docs : /\ [D EXCEPT !.due = x] \in Data
                                                      /\ [D EXCEPT !.books = bs, !.due = x] \in Data
                                                      /\ \A r \in BOOLEAN : [D EXCEPT !.recording = r, !.due = x] \in Data
                            /\ [D EXCEPT !.books = bs] \in Data
                            /\ \A t \in Tokens \cup {None} : [D EXCEPT !.books = bs, !.account = t] \in Data
                            /\ \A c \in BOOLEAN : /\ [D EXCEPT !.clash = c] \in Data
                                                  /\ \A t \in Tokens \cup {None} : [D EXCEPT !.clash = c, !.account = t] \in Data
  BY DEF Data

LEMMA DataRestarts == ASSUME NEW D \in Data, NEW bs \in [Docs -> Book], NEW t \in Tokens \cup {None}, NEW u \in Tokens \cup {None}
                      PROVE  /\ [D EXCEPT !.books = bs, !.account = t, !.before = u, !.clash = FALSE, !.recording = FALSE] \in Data
                             /\ [D EXCEPT !.books = bs, !.recording = FALSE, !.clash = FALSE, !.before = u, !.account = t] \in Data
  BY DEF Data

LEMMA BookParts == ASSUME NEW b \in Book
                   PROVE  /\ b.highlights \in [Keys -> Highlight] /\ b.bookId \in BookIds \cup {None}
                          /\ b.named \in BOOLEAN /\ b.deleted \in BOOLEAN /\ b.shown \in {"ours", "theirs", "owed"}
  BY DEF Book

LEMMA BookChanges == ASSUME NEW b \in Book, NEW hl \in [Keys -> Highlight], NEW s \in {"ours", "theirs", "owed"}, NEW id \in BookIds \cup {None}
                     PROVE  /\ [b EXCEPT !.highlights = hl] \in Book
                            /\ [b EXCEPT !.shown = s] \in Book
                            /\ [b EXCEPT !.named = TRUE, !.highlights = hl] \in Book
                            /\ [b EXCEPT !.deleted = TRUE, !.highlights = hl] \in Book
                            /\ [b EXCEPT !.bookId = id, !.shown = s, !.highlights = hl] \in Book
  BY DEF Book

LEMMA HighlightTypes == ASSUME NEW r \in Highlight
                        PROVE  /\ Settled(r) \in Highlight /\ Erased(r) \in Highlight /\ Absent \in Highlight
                               /\ \A t \in Texts : Wanting(r, t) \in Highlight
                               /\ \A t \in Texts : [Settled(r) EXCEPT !.pushed = t] \in Highlight
                               /\ \A t \in Texts : [r EXCEPT !.rejected = t] \in Highlight
  BY DEF Highlight, Settled, Erased, Absent, Wanting

LEMMA NoBookType == NoBook \in Book
<1>1. Absent \in Highlight
  BY DEF Absent, Highlight
<1>2. [k \in Keys |-> Absent] \in [Keys -> Highlight]
  BY <1>1
<1> QED BY <1>2 DEF NoBook, Book

LEMMA ForgetType == ASSUME NEW bs \in [Docs -> Book], NEW D PROVE ForgetBooks(bs, D) \in [Docs -> Book]
  BY NoBookType DEF ForgetBooks

LEMMA RecordType == ASSUME NEW b \in Book, NEW m \in [Keys -> Texts \cup {None}], NEW scope, NEW unread
                    PROVE  RecordUnit(b, m, scope, unread) \in Book
<1> DEFINE hl == [k \in Keys |-> IF k \notin scope \/ (m[k] # None /\ k \in unread) THEN b.highlights[k]
                                 ELSE IF m[k] # None THEN Wanting(b.highlights[k], m[k])
                                 ELSE Erased(b.highlights[k])]
<1>1. b.highlights \in [Keys -> Highlight]
  BY BookParts
<1>2. ASSUME NEW k \in Keys PROVE hl[k] \in Highlight
  <2>1. b.highlights[k] \in Highlight
    BY <1>1
  <2>2. m[k] # None => m[k] \in Texts
    OBVIOUS
  <2> QED BY <2>1, <2>2, HighlightTypes
<1>3. hl \in [Keys -> Highlight]
  BY <1>2
<1> HIDE DEF hl
<1>4. [b EXCEPT !.named = TRUE, !.highlights = hl] \in Book
  BY <1>3, BookChanges
<1> QED BY <1>4 DEF RecordUnit, hl

LEMMA ListingType == ASSUME NEW bs \in [Docs -> Book], NEW a PROVE ReadListing(a, bs) \in [Docs -> Book]
<1>1. ASSUME NEW d \in Docs PROVE ReadListing(a, bs)[d] \in Book
  <2> DEFINE b == bs[d]
             hl == [k \in Keys |-> IF b.highlights[k].pushed # None THEN Settled(b.highlights[k]) ELSE Absent]
  <2>1. b \in Book
    OBVIOUS
  <2>2. hl \in [Keys -> Highlight]
    BY <2>1, BookParts, HighlightTypes
  <2> HIDE DEF hl
  <2>3. /\ [b EXCEPT !.deleted = TRUE, !.highlights = hl] \in Book
        /\ [b EXCEPT !.shown = "theirs"] \in Book /\ [b EXCEPT !.shown = "ours"] \in Book
    BY <2>1, <2>2, BookChanges
  <2> QED BY <2>1, <2>3 DEF ReadListing, hl
<1> QED BY <1>1 DEF ReadListing

LEMMA ChangedAt == ASSUME NEW bs \in [Docs -> Book], NEW d \in Docs, NEW b \in Book
                   PROVE  [bs EXCEPT ![d] = b] \in [Docs -> Book]
  OBVIOUS

LEMMA HighlightChange == ASSUME NEW bs \in [Docs -> Book], NEW d \in Docs, NEW k \in Keys, NEW r \in Highlight
                         PROVE  WithHighlight(bs, d, k, r) \in [Docs -> Book]
<1> DEFINE hl == [bs[d].highlights EXCEPT ![k] = r]
<1>1. bs[d] \in Book /\ hl \in [Keys -> Highlight]
  BY BookParts
<1>2. [bs[d] EXCEPT !.highlights = hl] \in Book
  BY <1>1, BookChanges
<1> QED BY <1>2, ChangedAt DEF WithHighlight

LEMMA ShelfChanges == ASSUME NEW s \in Shelf, NEW x \in [Keys -> Texts \cup {None}], NEW b \in BOOLEAN, NEW c \in BOOLEAN
                      PROVE  /\ [s EXCEPT !.there = b, !.texts = x, !.theirs = c] \in Shelf
                             /\ [s EXCEPT !.theirs = c] \in Shelf /\ [s EXCEPT !.texts = x] \in Shelf
                             /\ [s EXCEPT !.theirs = c].there = s.there /\ [s EXCEPT !.texts = x].there = s.there
  BY DEF Shelf

LEMMA ShelfParts == ASSUME NEW s \in Shelf
                    PROVE  s.texts \in [Keys -> Texts \cup {None}] /\ s.copy \in Nat /\ s.there \in BOOLEAN
  BY DEF Shelf

LEMMA ReadwiseChange == ASSUME NEW R \in [Accounts -> [Docs -> Shelf]], NEW a \in Accounts, NEW d \in Docs, NEW s \in Shelf
                        PROVE  [R EXCEPT ![a] = [R[a] EXCEPT ![d] = s]] \in [Accounts -> [Docs -> Shelf]]
  OBVIOUS

LEMMA PushAccount == ASSUME TypeOK, pc \in PushPCs PROVE fingerprint \in Tokens /\ Account \in Accounts
  BY PushAssumption DEF TypeOK, Account

\* What is to be sent are texts of marks.
Sendable(B) == B \subseteq Docs \X Keys /\ \A m \in B : Live(data.books[m[1]]) /\ Want(m[1], m[2]) \in Texts

LEMMA WantOf == ASSUME NEW B, Sendable(B), NEW d \in Docs, NEW k \in Among(B, d)
                PROVE  Live(data.books[d]) /\ Want(d, k) \in Texts
<1>1. <<d, k>> \in B
  BY DEF Among
<1> QED BY <1>1 DEF Sendable

LEMMA ShelvedType == ASSUME TypeOK, pc \in PushPCs, NEW B, Sendable(B)
                     PROVE  Shelved(B) \in [Accounts -> [Docs -> Shelf]]
<1> DEFINE new(d) == LET s == readwise[Account][d] IN
                     IF Among(B, d) = {} THEN s
                     ELSE [there |-> TRUE, copy |-> IF s.there THEN s.copy ELSE s.copy + 1, theirs |-> FALSE,
                           texts |-> [k \in Keys |-> IF k \in Among(B, d) THEN Want(d, k) ELSE s.texts[k]]]
<1>1. ASSUME NEW d \in Docs PROVE new(d) \in Shelf
  <2> DEFINE s == readwise[Account][d]
             x == [k \in Keys |-> IF k \in Among(B, d) THEN Want(d, k) ELSE s.texts[k]]
  <2>1. s \in Shelf /\ s.copy \in Nat /\ s.texts \in [Keys -> Texts \cup {None}]
    BY PushAccount, ShelfParts DEF TypeOK
  <2>2. x \in [Keys -> Texts \cup {None}]
    BY <2>1, WantOf
  <2> HIDE DEF x
  <2>3. [there |-> TRUE, copy |-> IF s.there THEN s.copy ELSE s.copy + 1, theirs |-> FALSE, texts |-> x] \in Shelf
    BY <2>1, <2>2 DEF Shelf
  <2> QED BY <2>1, <2>3 DEF x
<1>2. [d \in Docs |-> new(d)] \in [Docs -> Shelf]
  BY <1>1
<1>3. Shelved(B) = [readwise EXCEPT ![Account] = [d \in Docs |-> new(d)]]
  BY DEF Shelved
<1> HIDE DEF new
<1> QED BY <1>2, <1>3, PushAccount DEF TypeOK

LEMMA LandedType == ASSUME TypeOK, pc \in PushPCs, NEW B, Sendable(B), NEW readable \in BOOLEAN
                    PROVE  Landed(B, readable) \in [Docs -> Book]
<1>1. ASSUME NEW d \in Docs PROVE Landed(B, readable)[d] \in Book
  <2> DEFINE b == data.books[d]
             s == Shelved(B)[Account][d]
             hl == [k \in Keys |-> IF k \in Among(B, d) THEN [Settled(b.highlights[k]) EXCEPT !.pushed = Want(d, k)]
                                   ELSE b.highlights[k]]
             id == IF b.bookId # None \/ ~readable THEN b.bookId ELSE <<Account, s.copy>>
             shown == IF b.shown = "ours" THEN b.shown ELSE "owed"
  <2>1. b \in Book
    BY DataParts DEF TypeOK
  <2>2. b.highlights \in [Keys -> Highlight] /\ b.bookId \in BookIds \cup {None} /\ shown \in {"ours", "theirs", "owed"}
    BY <2>1, BookParts
  <2>3. hl \in [Keys -> Highlight]
    BY <2>2, WantOf, HighlightTypes
  <2>4. s \in Shelf /\ s.copy \in Nat
    BY ShelvedType, PushAccount, ShelfParts
  <2>5. id \in BookIds \cup {None}
    BY <2>2, <2>4, PushAccount DEF BookIds
  <2>6. Landed(B, readable)[d] = IF Among(B, d) = {} THEN b ELSE [b EXCEPT !.bookId = id, !.shown = shown, !.highlights = hl]
    BY DEF Landed
  <2> HIDE DEF b, hl, id, shown, s
  <2>7. [b EXCEPT !.bookId = id, !.shown = shown, !.highlights = hl] \in Book
    BY <2>1, <2>2, <2>3, <2>5, BookChanges
  <2> QED BY <2>1, <2>6, <2>7
<1> QED BY <1>1 DEF Landed

LEMMA SetAsideType == ASSUME TypeOK, NEW B, Sendable(B) PROVE SetAside(B) \in [Docs -> Book]
<1>1. ASSUME NEW d \in Docs PROVE SetAside(B)[d] \in Book
  <2> DEFINE b == data.books[d]
             hl == [k \in Keys |-> IF <<d, k>> \in B THEN [b.highlights[k] EXCEPT !.rejected = Want(d, k)] ELSE b.highlights[k]]
  <2>1. b \in Book /\ b.highlights \in [Keys -> Highlight]
    BY DataParts, BookParts DEF TypeOK
  <2>2. ASSUME NEW k \in Keys PROVE hl[k] \in Highlight
    <3>1. <<d, k>> \in B => Want(d, k) \in Texts
      BY DEF Sendable
    <3> QED BY <2>1, <3>1, HighlightTypes
  <2>3. hl \in [Keys -> Highlight]
    BY <2>2
  <2>4. SetAside(B)[d] = [b EXCEPT !.highlights = hl]
    BY DEF SetAside
  <2> HIDE DEF b, hl
  <2> QED BY <2>1, <2>3, <2>4, BookChanges
<1> QED BY <1>1 DEF SetAside

-----------------------------------------------------------------------------
(* The invariant: what is about to be sent, and what the listing found. *)

SendPCs == {"deletes", "texts", "resend"}

\* A push has texts to send, each once, of books that live.
Sending ==
    /\ pc # "resend" => batch = {}
    /\ toSend \cap batch = {}
    /\ pc \in {"texts", "resend"} => Sendable(toSend \cup batch)

\* While it sends, the books it knows are there, or were deleted after it listed them.
ListingHolds ==
    pc \in SendPCs =>
        \A d \in Docs : Live(data.books[d]) /\ data.books[d].bookId # None /\ d \notin late => readwise[Account][d].there

Inv == TypeOK /\ Sending /\ ListingHolds

LEMMA NotSending == ASSUME Inv, pc' \notin SendPCs, batch' = {}
                    PROVE  Sending' /\ ListingHolds'
  BY DEF SendPCs, Sending, ListingHolds

\* A step that leaves the push and its books alone.
LEMMA BooksAlone == ASSUME Inv, data'.books = data.books, UNCHANGED <<pc, fingerprint, toSend, batch>>,
                           \A d \in Docs : pc \in SendPCs /\ d \notin late' =>
                                d \notin late /\ (readwise[Account][d].there => readwise'[Account][d].there)
                    PROVE  Sending' /\ ListingHolds'
<1>1. Account' = Account
  BY DEF Account
<1>2. Sending'
  BY DEF Inv, Sending, Sendable, Want
<1>3. ListingHolds'
  <2> SUFFICES ASSUME pc \in SendPCs, NEW d \in Docs, Live(data.books[d]), data.books[d].bookId # None, d \notin late'
               PROVE  readwise'[Account][d].there
    BY <1>1 DEF ListingHolds
  <2> QED BY DEF Inv, ListingHolds
<1> QED BY <1>2, <1>3

LEMMA UserKeeps == ASSUME Inv
                   PROVE  /\ \A d \in Docs, k \in Keys, t \in Texts \cup {None} : Mark(d, k, t) => Inv'
                          /\ \A d \in Docs, a \in Accounts : DeleteBook(a, d) \/ RenameBook(a, d) => Inv'
                          /\ SwitchPush => Inv'
                          /\ \A t \in Tokens \cup {None} : StoreToken(t) => Inv'
<1>1. ASSUME NEW d \in Docs, NEW k \in Keys, NEW t \in Texts \cup {None}, Mark(d, k, t) PROVE Inv'
  <2>1. tablet' \in [Docs -> [Keys -> Texts \cup {None}]]
    BY <1>1 DEF Mark, Inv, TypeOK
  <2>2. data.due \cup {d} \in SUBSET Docs /\ saved.due \cup {d} \in SUBSET Docs /\ data.books \in [Docs -> Book] /\ saved.books \in [Docs -> Book]
    BY DataParts DEF Inv, TypeOK
  <2>3. data' \in Data /\ saved' \in Data
    BY <1>1, <2>2 DEF Mark, Inv, TypeOK, Data
  <2>4. TypeOK'
    BY <1>1, <2>1, <2>3 DEF Mark, Spend, Inv, TypeOK, pushVars, historyVars
  <2>5. data'.books = data.books
    BY <1>1 DEF Mark, Inv, TypeOK, Data
  <2>6. Sending' /\ ListingHolds'
    BY <1>1, <2>5, BooksAlone DEF Mark, pushVars
  <2> QED BY <2>4, <2>6 DEF Inv
<1>2. ASSUME NEW d \in Docs, NEW a \in Accounts, DeleteBook(a, d) PROVE Inv'
  <2> DEFINE s == [readwise[a][d] EXCEPT !.there = FALSE, !.texts = [k \in Keys |-> None], !.theirs = FALSE]
  <2>1. readwise[a][d] \in Shelf /\ [k \in Keys |-> None] \in [Keys -> Texts \cup {None}]
    BY DEF Inv, TypeOK
  <2>2. s \in Shelf
    BY <2>1, ShelfChanges
  <2>3. readwise' = [readwise EXCEPT ![a] = [readwise[a] EXCEPT ![d] = s]]
    BY <1>2 DEF DeleteBook
  <2> HIDE DEF s
  <2>4. readwise' \in [Accounts -> [Docs -> Shelf]]
    BY <2>2, <2>3, ReadwiseChange DEF Inv, TypeOK
  <2>5. TypeOK'
    BY <1>2, <2>4 DEF DeleteBook, Spend, Inv, TypeOK, pushVars, worldVars
  <2>6. \A e \in Docs : pc \in SendPCs /\ e \notin late' => e \notin late /\ readwise'[Account][e] = readwise[Account][e]
    <3> SUFFICES ASSUME pc \in SendPCs, NEW e \in Docs, e \notin late'
                 PROVE  e \notin late /\ readwise'[Account][e] = readwise[Account][e]
      OBVIOUS
    <3>1. Account \in Accounts
      BY PushAccount DEF Inv, SendPCs, PushPCs
    <3>2. e # d /\ e \notin late
      BY <1>2 DEF DeleteBook
    <3> QED BY <2>3, <3>1, <3>2 DEF Inv, TypeOK
  <2>7. Sending' /\ ListingHolds'
    BY <1>2, <2>6, BooksAlone DEF DeleteBook, pushVars
  <2> QED BY <2>5, <2>7 DEF Inv
<1>3. ASSUME NEW d \in Docs, NEW a \in Accounts, RenameBook(a, d) PROVE Inv'
  <2> DEFINE s == [readwise[a][d] EXCEPT !.theirs = TRUE]
  <2> readwise[a][d] \in Shelf /\ readwise[a][d].texts \in [Keys -> Texts \cup {None}]
    BY ShelfParts DEF Inv, TypeOK
  <2>1. s \in Shelf /\ s.there = readwise[a][d].there
    BY ShelfChanges
  <2>2. readwise' = [readwise EXCEPT ![a] = [readwise[a] EXCEPT ![d] = s]]
    BY <1>3 DEF RenameBook
  <2> HIDE DEF s
  <2>3. readwise' \in [Accounts -> [Docs -> Shelf]]
    BY <2>1, <2>2, ReadwiseChange DEF Inv, TypeOK
  <2>4. TypeOK'
    BY <1>3, <2>3 DEF RenameBook, Spend, Inv, TypeOK, pushVars, worldVars
  <2>5. \A e \in Docs : pc \in SendPCs => readwise'[Account][e].there = readwise[Account][e].there
    <3> SUFFICES ASSUME pc \in SendPCs, NEW e \in Docs PROVE readwise'[Account][e].there = readwise[Account][e].there
      OBVIOUS
    <3>1. Account \in Accounts
      BY PushAccount DEF Inv, SendPCs, PushPCs
    <3> QED BY <2>1, <2>2, <3>1 DEF Inv, TypeOK
  <2>6. Sending' /\ ListingHolds'
    BY <1>3, <2>5, BooksAlone DEF RenameBook, pushVars
  <2> QED BY <2>4, <2>6 DEF Inv
<1>4. ASSUME SwitchPush PROVE Inv'
  <2>1. TypeOK'
    BY <1>4 DEF SwitchPush, Spend, Inv, TypeOK, pushVars, historyVars
  <2>2. Sending' /\ ListingHolds'
    BY <1>4, BooksAlone DEF SwitchPush, pushVars
  <2> QED BY <2>1, <2>2 DEF Inv
<1>5. ASSUME NEW t \in Tokens \cup {None}, StoreToken(t) PROVE Inv'
  <2>1. TypeOK'
    BY <1>5 DEF StoreToken, ChangeToken, Spend, Inv, TypeOK, pushVars, historyVars
  <2>2. Sending' /\ ListingHolds'
    BY <1>5, BooksAlone DEF StoreToken, ChangeToken, pushVars
  <2> QED BY <2>1, <2>2 DEF Inv
<1> QED BY <1>1, <1>2, <1>3, <1>4, <1>5

LEMMA DroppedType == ASSUME TypeOK, NEW D \in SUBSET Docs PROVE NowDropped(D) \subseteq Accounts \X Docs
  BY DEF TypeOK, NowDropped

LEMMA ForgettingKeeps == ASSUME Inv
                         PROVE  (\E d \in Docs : PushBookAgain(d)) \/ StartOver => Inv'
<1>1. ASSUME NEW d \in Docs, PushBookAgain(d) PROVE Inv'
  <2>1. data.books \in [Docs -> Book] /\ data.due \cup {d} \in SUBSET Docs
    BY DataParts DEF Inv, TypeOK
  <2>2. data' \in Data
    BY <1>1, <2>1, ForgetType, DataChanges DEF PushBookAgain, Inv, TypeOK
  <2>3. dropped' \subseteq Accounts \X Docs
    BY <1>1, DroppedType DEF PushBookAgain, Inv
  <2> /\ saved' = data' /\ budget > 0 /\ budget' = budget - 1
      /\ UNCHANGED <<worldVars, readwise, pc, recorder, pushVars, late, named>>
    BY <1>1 DEF PushBookAgain, Spend
  <2>4. TypeOK'
    BY <2>2, <2>3 DEF Inv, TypeOK, pushVars, worldVars
  <2>5. Sending' /\ ListingHolds'
    BY <1>1, NotSending DEF PushBookAgain, pushVars, SendPCs, Inv, Sending
  <2> QED BY <2>4, <2>5 DEF Inv
<1>2. ASSUME StartOver PROVE Inv'
  <2>1. data.books \in [Docs -> Book]
    BY DataParts DEF Inv, TypeOK
  <2>2. data' \in Data
    BY <1>2, <2>1, ForgetType, DataRestarts DEF StartOver, Inv, TypeOK
  <2>3. dropped' \subseteq Accounts \X Docs
    BY <1>2, DroppedType DEF StartOver, Inv
  <2>4. TypeOK'
    BY <1>2, <2>2, <2>3 DEF StartOver, Spend, Inv, TypeOK, pushVars, worldVars
  <2>5. Sending' /\ ListingHolds'
    BY <1>2, NotSending DEF StartOver, pushVars, SendPCs, Inv, Sending
  <2> QED BY <2>4, <2>5 DEF Inv
<1> QED BY <1>1, <1>2

\* A step after which no push sends keeps the invariant when it keeps the types.
LEMMA QuietStep == ASSUME Inv, pc' \notin SendPCs, batch' = {}, TypeOK'
                   PROVE  Inv'
  BY NotSending DEF Inv

LEMMA BeginsTyped == ASSUME Inv, pc \notin PushPCs, BeginPush \/ NoPush
                     PROVE  /\ pc' \in {"idle", "account"} /\ batch' = {}
                            /\ toSend' \subseteq Docs \X Keys /\ toName' \subseteq Docs /\ late' \subseteq Docs
                            /\ recorder' \in BOOLEAN /\ fingerprint' \in Tokens \cup {None} /\ (pc' \in PushPCs => fingerprint' # None)
  BY DEF Inv, TypeOK, Sending, BeginPush, NoPush, PushPCs

LEMMA SyncKeeps == ASSUME Inv
                   PROVE  StartSync \/ OpenSource \/ EndUnits \/ EndEarly \/ LonePush => Inv'
<1>1. ASSUME StartSync PROVE Inv'
  <2>1. (IF on /\ ~data.recording THEN Docs ELSE data.due) \in SUBSET Docs /\ on \in BOOLEAN
    BY DataParts DEF Inv, TypeOK
  <2>2. data' \in Data /\ saved' = data'
    BY <1>1, <2>1, DataChanges, DataParts DEF StartSync, Inv, TypeOK
  <2>3. TypeOK'
    BY <1>1, <2>2 DEF StartSync, Inv, TypeOK, PushPCs, pushVars, worldVars, historyVars
  <2> QED BY <1>1, <2>3, QuietStep DEF StartSync, SendPCs, pushVars, Inv, Sending
<1>2. ASSUME OpenSource PROVE Inv'
  <2>1. TypeOK'
    BY <1>2 DEF OpenSource, Inv, TypeOK, PushPCs, pushVars, worldVars, historyVars
  <2> QED BY <1>2, <2>1, QuietStep DEF OpenSource, SendPCs, pushVars, Inv, Sending
<1>3. ASSUME EndUnits PROVE Inv'
  <2>1. pc \notin PushPCs
    BY <1>3 DEF EndUnits, PushPCs
  <2>2. TypeOK'
    BY <1>3, <2>1, BeginsTyped DEF EndUnits, Inv, TypeOK, PushPCs, worldVars, historyVars
  <2> QED BY <1>3, <2>1, <2>2, BeginsTyped, QuietStep DEF EndUnits, SendPCs
<1>4. ASSUME EndEarly PROVE Inv'
  <2>1. pc \notin PushPCs
    BY <1>4 DEF EndEarly, PushPCs
  <2>2. TypeOK'
    BY <1>4, <2>1, BeginsTyped DEF EndEarly, Spend, Inv, TypeOK, PushPCs, worldVars, historyVars
  <2> QED BY <1>4, <2>1, <2>2, BeginsTyped, QuietStep DEF EndEarly, SendPCs
<1>5. ASSUME LonePush PROVE Inv'
  <2>1. pc \notin PushPCs
    BY <1>5 DEF LonePush, PushPCs
  <2>2. TypeOK'
    BY <1>5, <2>1, BeginsTyped DEF LonePush, Inv, TypeOK, PushPCs, worldVars, historyVars
  <2> QED BY <1>5, <2>1, <2>2, BeginsTyped, QuietStep DEF LonePush, SendPCs
<1> QED BY <1>1, <1>2, <1>3, <1>4, <1>5

LEMMA WriteKeeps == ASSUME Inv, NEW d \in Docs, NEW scope \in SUBSET Keys, NEW unread \in SUBSET Keys,
                           WriteNote(d, scope, unread), budget' \in Nat
                    PROVE  Inv'
<1> DEFINE bs == IF recorder THEN [data.books EXCEPT ![d] = RecordUnit(data.books[d], tablet[d], scope, unread)] ELSE data.books
           due == IF scope = Keys /\ unread = {} THEN data.due \ {d} ELSE data.due
<1>1. data.books \in [Docs -> Book] /\ data.due \in SUBSET Docs /\ tablet[d] \in [Keys -> Texts \cup {None}]
  BY DataParts DEF Inv, TypeOK
<1>2. RecordUnit(data.books[d], tablet[d], scope, unread) \in Book
  BY <1>1, RecordType
<1>3. bs \in [Docs -> Book] /\ due \in SUBSET Docs
  BY <1>1, <1>2
<1>4. data' = [data EXCEPT !.books = bs, !.due = due] /\ saved' = data'
  BY DEF WriteNote
<1> HIDE DEF bs, due
<1>5. data' \in Data
  BY <1>3, <1>4, DataChanges DEF Inv, TypeOK
<1>6. TypeOK'
  BY <1>4, <1>5 DEF WriteNote, Inv, TypeOK, PushPCs, pushVars, worldVars, historyVars
<1> QED BY <1>6, QuietStep DEF WriteNote, SendPCs, pushVars, Inv, Sending

LEMMA WritesKeep == ASSUME Inv, NEW d \in Docs
                    PROVE  /\ WriteWhole(d) => Inv'
                           /\ \A scope, unread \in SUBSET Keys : WriteInPart(d, scope, unread) => Inv'
<1>1. ASSUME WriteWhole(d) PROVE Inv'
  BY <1>1, WriteKeeps DEF WriteWhole, Inv, TypeOK
<1>2. ASSUME NEW scope \in SUBSET Keys, NEW unread \in SUBSET Keys, WriteInPart(d, scope, unread) PROVE Inv'
  <2>1. budget' \in Nat
    BY <1>2 DEF WriteInPart, Spend, Inv, TypeOK
  <2> QED BY <1>2, <2>1, WriteKeeps DEF WriteInPart
<1> QED BY <1>1, <1>2

-----------------------------------------------------------------------------
(* The steps of a push. *)

LEMMA EndKeeps == ASSUME Inv, EndPush, data' \in Data, readwise' \in [Accounts -> [Docs -> Shelf]], UNCHANGED worldVars,
                         dropped' \subseteq Accounts \X Docs, named' = named, budget' \in Nat
                  PROVE  Inv'
<1>1. TypeOK'
  BY DEF EndPush, NoPush, Inv, TypeOK, PushPCs, worldVars
<1> QED BY <1>1, QuietStep DEF EndPush, NoPush, SendPCs

LEMMA SwitchKeeps == ASSUME Inv, SwitchAccount, UNCHANGED <<worldVars, readwise, budget>> PROVE Inv'
<1>1. data.books \in [Docs -> Book] /\ data.account \in Tokens \cup {None} /\ fingerprint \in Tokens \cup {None} /\ data \in Data
  BY DataParts DEF Inv, TypeOK
<1>2. ForgetBooks(data.books, Docs) \in [Docs -> Book]
  BY <1>1, ForgetType
<1>3. CASE fingerprint = data.before
  <2>1. data' \in Data
    BY <1>1, <1>3, DataChanges DEF SwitchAccount
  <2> QED BY <1>3, <2>1, EndKeeps DEF SwitchAccount, Inv, TypeOK, historyVars
<1>4. CASE fingerprint # data.before
  <2>1. data' \in Data
    <3>1. data' = [data EXCEPT !.books = ForgetBooks(data.books, Docs), !.recording = FALSE, !.clash = FALSE,
                               !.before = data.account, !.account = fingerprint]
      BY <1>4 DEF SwitchAccount
    <3> QED BY <1>1, <1>2, <3>1, DataRestarts
  <2>2. dropped' \subseteq Accounts \X Docs
    BY <1>4, DroppedType DEF SwitchAccount, Inv
  <2> QED BY <1>4, <2>1, <2>2, EndKeeps DEF SwitchAccount, Inv, TypeOK
<1> QED BY <1>3, <1>4

LEMMA CheckKeeps == ASSUME Inv, CheckAccount PROVE Inv'
<1>1. /\ data \in Data /\ data.books \in [Docs -> Book] /\ fingerprint \in Tokens \cup {None} /\ fingerprint # None
      /\ UNCHANGED <<worldVars, readwise, budget>> /\ pc = "account" /\ batch = {}
  BY DataParts DEF Inv, TypeOK, Sending, CheckAccount, PushPCs
<1>2. CASE data' \in Data /\ EndPush /\ UNCHANGED historyVars
  BY <1>1, <1>2, EndKeeps DEF Inv, TypeOK, historyVars
<1>3. CASE data' \in Data /\ pc' \in {"listing", "comparing"} /\ UNCHANGED <<saved, recorder, pushVars, late, historyVars>>
  <2>1. TypeOK'
    BY <1>1, <1>3 DEF Inv, TypeOK, PushPCs, worldVars, pushVars, historyVars
  <2> QED BY <1>1, <1>3, <2>1, QuietStep DEF SendPCs, pushVars
<1>4. CASE SwitchAccount
  BY <1>1, <1>4, SwitchKeeps
<1>5. [data EXCEPT !.clash = FALSE] \in Data /\ [data EXCEPT !.clash = FALSE, !.account = fingerprint] \in Data
  BY <1>1, DataChanges
<1> QED BY <1>1, <1>2, <1>3, <1>4, <1>5 DEF CheckAccount

LEMMA ListedKeeps == ASSUME Inv, pc \in {"comparing", "listing"}, Listed(data.books), UNCHANGED <<worldVars, readwise, budget>>
                     PROVE  Inv'
<1>1. /\ data \in Data /\ data.books \in [Docs -> Book] /\ fingerprint \in Tokens \cup {None} /\ fingerprint # None /\ batch = {}
  BY DataParts DEF Inv, TypeOK, Sending, PushPCs
<1> DEFINE bs == ReadListing(Account, data.books)
<1>2. bs \in [Docs -> Book]
  BY <1>1, ListingType
<1>3. data' = [data EXCEPT !.books = bs, !.account = fingerprint]
  BY DEF Listed
<1>4. data' \in Data /\ data'.books = bs
  <2> HIDE DEF bs
  <2>1. data'.books = bs
    BY <1>1, <1>3 DEF Data
  <2> QED BY <1>1, <1>2, <1>3, <2>1, DataChanges
<1>5. TypeOK'
  BY <1>1, <1>4 DEF Listed, Inv, TypeOK, PushPCs, worldVars, pushVars, historyVars
<1>6. Sending'
  BY <1>1 DEF Listed, pushVars, Inv, Sending
<1>7. ListingHolds'
  <2>1. Account' = Account /\ readwise' = readwise
    BY DEF Listed, pushVars, Account
  <2> SUFFICES ASSUME NEW d \in Docs, Live(bs[d]), bs[d].bookId # None
               PROVE  readwise[Account][d].there
    BY <1>4, <2>1 DEF ListingHolds
  <2>2. data.books[d] \in Book
    BY <1>1
  <2>3. Live(data.books[d]) /\ data.books[d].bookId # None
    BY <2>2 DEF ReadListing, KnownBooks, Live, Book
  <2>4. d \in KnownBooks(data.books)
    BY <2>3 DEF KnownBooks
  <2>5. Holds(Account, d, data.books[d].bookId)
    BY <2>2, <2>4 DEF ReadListing, Live, Book
  <2> QED BY <2>5 DEF Holds
<1> QED BY <1>5, <1>6, <1>7 DEF Inv

LEMMA ListingKeeps == ASSUME Inv PROVE CompareAccounts \/ ListBooks => Inv'
<1>1. ASSUME CompareAccounts PROVE Inv'
  BY <1>1, ListedKeeps, SwitchKeeps DEF CompareAccounts
<1>2. ASSUME ListBooks PROVE Inv'
  BY <1>2, ListedKeeps DEF ListBooks
<1> QED BY <1>1, <1>2

\* What ListingHolds needs of a step within the sending phases.
LEMMA ListingCarries == ASSUME Inv, pc \in SendPCs, UNCHANGED <<fingerprint, late>>,
                               \A d \in Docs : Live(data'.books[d]) /\ data'.books[d].bookId # None
                                    => readwise'[Account][d].there \/ (Live(data.books[d]) /\ data.books[d].bookId # None
                                                                    /\ (readwise[Account][d].there => readwise'[Account][d].there))
                        PROVE  ListingHolds'
<1>1. Account' = Account
  BY DEF Account
<1> QED BY <1>1 DEF Inv, ListingHolds

LEMMA DeleteKeeps == ASSUME Inv, NEW d \in Docs, NEW k \in Keys, SendDelete(d, k) PROVE Inv'
<1> DEFINE bs == WithHighlight(data.books, d, k, Absent)
           s == [readwise[Account][d] EXCEPT !.texts = [readwise[Account][d].texts EXCEPT ![k] = None]]
<1>1. /\ data \in Data /\ data.books \in [Docs -> Book] /\ Account \in Accounts /\ pc \in SendPCs /\ pc = "deletes"
      /\ readwise \in [Accounts -> [Docs -> Shelf]]
  BY DataParts, PushAccount DEF SendDelete, Inv, TypeOK, PushPCs, SendPCs
<1>2. Absent \in Highlight
  BY DEF Absent, Highlight
<1>3. bs \in [Docs -> Book] /\ data' = [data EXCEPT !.books = bs]
  BY <1>1, <1>2, HighlightChange DEF SendDelete
<1>4. \A e \in Docs : bs[e].bookId = data.books[e].bookId /\ (Live(bs[e]) <=> Live(data.books[e]))
  BY <1>1 DEF WithHighlight, Live, Book
<1>5. data' \in Data /\ data'.books = bs
  <2> HIDE DEF bs
  <2>1. data'.books = bs
    BY <1>1, <1>3 DEF Data
  <2> QED BY <1>1, <1>3, <2>1, DataChanges
<1>6. s \in Shelf /\ s.there = readwise[Account][d].there
  <2>1. readwise[Account][d] \in Shelf
    BY <1>1
  <2>2. [readwise[Account][d].texts EXCEPT ![k] = None] \in [Keys -> Texts \cup {None}]
    BY <2>1, ShelfParts
  <2> QED BY <2>1, <2>2, ShelfChanges
<1>7. \/ readwise' = readwise
      \/ readwise' = [readwise EXCEPT ![Account] = [readwise[Account] EXCEPT ![d] = s]]
  BY DEF SendDelete
<1> HIDE DEF bs, s
<1>8. readwise' \in [Accounts -> [Docs -> Shelf]]
  BY <1>1, <1>6, <1>7, ReadwiseChange, SMTT(30)
<1>9. \A e \in Docs : readwise'[Account][e].there = readwise[Account][e].there
  BY <1>1, <1>6, <1>7
<1>10. TypeOK'
  BY <1>5, <1>8 DEF SendDelete, Inv, TypeOK, PushPCs, worldVars, pushVars, historyVars
<1>11. Sending'
  BY <1>1 DEF SendDelete, pushVars, Inv, Sending
<1>12. ListingHolds'
  BY <1>1, <1>4, <1>5, <1>9, ListingCarries DEF SendDelete, pushVars
<1> QED BY <1>10, <1>11, <1>12 DEF Inv

LEMMA OutgoingSendable == ASSUME TypeOK PROVE Sendable(Outgoing(data.books))
<1> SUFFICES ASSUME NEW m \in Outgoing(data.books)
             PROVE  m \in Docs \X Keys /\ Live(data.books[m[1]]) /\ Want(m[1], m[2]) \in Texts
  BY DEF Sendable
<1>1. m \in Docs \X Keys /\ m[2] \in PendingIn(data.books[m[1]]) /\ data.books[m[1]].highlights[m[2]].want # Gone
  BY DEF Outgoing
<1>2. data.books[m[1]] \in Book
  BY <1>1, DataParts DEF TypeOK
<1>3. data.books[m[1]].highlights[m[2]] \in Highlight
  BY <1>1, <1>2, BookParts
<1>4. Live(data.books[m[1]]) /\ IsPending(data.books[m[1]].highlights[m[2]])
  BY <1>1 DEF PendingIn
<1>5. Want(m[1], m[2]) \in Texts
  BY <1>1, <1>3, <1>4 DEF IsPending, Highlight, Want
<1> QED BY <1>1, <1>4, <1>5

LEMMA DeletesSentKeeps == ASSUME Inv, DeletesSent PROVE Inv'
<1>1. pc = "deletes" /\ batch = {} /\ batch' = {} /\ pc' = "texts" /\ data' = data /\ toSend' = Outgoing(data.books)
  BY DEF DeletesSent, Inv, Sending
<1>2. Sendable(Outgoing(data.books))
  BY OutgoingSendable DEF Inv
<1>3. TypeOK'
  BY <1>1, <1>2 DEF DeletesSent, Sendable, Inv, TypeOK, PushPCs, worldVars, historyVars
<1>4. Sending'
  BY <1>1, <1>2 DEF Sending, Sendable, Want
<1>5. ListingHolds'
  BY <1>1, ListingCarries DEF DeletesSent, SendPCs
<1> QED BY <1>3, <1>4, <1>5 DEF Inv

LEMMA ShelvedThere == ASSUME TypeOK, pc \in PushPCs, NEW B, NEW d \in Docs
                      PROVE  /\ Among(B, d) # {} => Shelved(B)[Account][d].there
                             /\ Among(B, d) = {} => Shelved(B)[Account][d] = readwise[Account][d]
                             /\ \A a \in Accounts : a # Account => Shelved(B)[a] = readwise[a]
  BY PushAccount DEF TypeOK, Shelved

LEMMA LandedSame == ASSUME TypeOK, pc \in PushPCs, NEW B, NEW readable \in BOOLEAN, NEW d \in Docs
                    PROVE  /\ Live(Landed(B, readable)[d]) <=> Live(data.books[d])
                           /\ Among(B, d) = {} => Landed(B, readable)[d].bookId = data.books[d].bookId
                           /\ \A k \in Keys : <<d, k>> \notin B => Landed(B, readable)[d].highlights[k].want = data.books[d].highlights[k].want
<1>1. data.books[d] \in Book
  BY DataParts DEF TypeOK
<1>2. CASE Among(B, d) = {}
  BY <1>2 DEF Landed
<1>3. CASE Among(B, d) # {}
  <2>1. Live(Landed(B, readable)[d]) <=> Live(data.books[d])
    BY <1>1, <1>3 DEF Landed, Live, Book
  <2>2. ASSUME NEW k \in Keys, <<d, k>> \notin B
        PROVE  Landed(B, readable)[d].highlights[k] = data.books[d].highlights[k]
    BY <1>1, <1>3, <2>2 DEF Landed, Among, Book
  <2> QED BY <1>3, <2>1, <2>2
<1> QED BY <1>2, <1>3

LEMMA SetAsideSame == ASSUME TypeOK, NEW B, NEW d \in Docs
                      PROVE  /\ Live(SetAside(B)[d]) <=> Live(data.books[d])
                             /\ SetAside(B)[d].bookId = data.books[d].bookId
                             /\ \A k \in Keys : SetAside(B)[d].highlights[k].want = data.books[d].highlights[k].want
<1>1. data.books[d] \in Book /\ data.books[d].highlights \in [Keys -> Highlight]
  BY DataParts, BookParts DEF TypeOK
<1>2. ASSUME NEW k \in Keys PROVE SetAside(B)[d].highlights[k].want = data.books[d].highlights[k].want
  <2>1. data.books[d].highlights[k] \in Highlight
    BY <1>1
  <2> QED BY <1>1, <2>1 DEF SetAside, Book, Highlight
<1> QED BY <1>1, <1>2 DEF SetAside, Live, Book

\* A batch that lands leaves types and listing as they should be, and the rest to send as it was.
LEMMA LandKeeps == ASSUME Inv, pc \in {"texts", "resend"}, NEW B, Sendable(B), Land(B), UNCHANGED <<fingerprint, late>>
                   PROVE  /\ data' \in Data /\ readwise' \in [Accounts -> [Docs -> Shelf]] /\ budget' \in Nat
                          /\ ListingHolds'
                          /\ \A R : Sendable(R) /\ R \cap B = {} => Sendable(R)'
<1>0. PICK readable \in BOOLEAN : data' = [data EXCEPT !.books = Landed(B, readable)] /\ readwise' = Shelved(B) /\ budget' \in Nat
  <2>0. budget \in Nat /\ (budget' = budget \/ (budget > 0 /\ budget' = budget - 1))
    BY DEF Land, Spend, Inv, TypeOK
  <2>1. budget' \in Nat
    BY <2>0
  <2>2. CASE data' = [data EXCEPT !.books = Landed(B, TRUE)]
    BY <2>1, <2>2 DEF Land
  <2>3. CASE data' = [data EXCEPT !.books = Landed(B, FALSE)]
    BY <2>1, <2>3 DEF Land
  <2> QED BY <2>2, <2>3 DEF Land
<1>1. /\ TypeOK /\ pc \in PushPCs /\ pc \in SendPCs /\ data \in Data /\ Account \in Accounts
  BY PushAccount DEF Inv, PushPCs, SendPCs, TypeOK
<1>2. Landed(B, readable) \in [Docs -> Book] /\ readwise' \in [Accounts -> [Docs -> Shelf]]
  BY <1>0, <1>1, LandedType, ShelvedType
<1>3. data'.books = Landed(B, readable)
  BY <1>0, <1>1 DEF Data
<1>4. data' \in Data
  BY <1>0, <1>1, <1>2, DataChanges
<1>5. ListingHolds'
  BY <1>0, <1>1, <1>3, LandedSame, ShelvedThere, ListingCarries
<1>6. ASSUME NEW R, Sendable(R), R \cap B = {} PROVE Sendable(R)'
  <2> SUFFICES ASSUME NEW m \in R PROVE Live(data'.books[m[1]]) /\ data'.books[m[1]].highlights[m[2]].want \in Texts
    BY <1>6 DEF Sendable, Want
  <2>1. m \in Docs \X Keys /\ m = <<m[1], m[2]>> /\ m \notin B
    BY <1>6 DEF Sendable
  <2>2. Live(data.books[m[1]]) /\ data.books[m[1]].highlights[m[2]].want \in Texts
    BY <1>6 DEF Sendable, Want
  <2> QED BY <1>1, <1>3, <2>1, <2>2, LandedSame
<1> QED BY <1>0, <1>2, <1>4, <1>5, <1>6

LEMMA SendKeeps == ASSUME Inv, NEW B \in SUBSET toSend, SendBatch(B) PROVE Inv'
<1>1. /\ TypeOK /\ pc = "texts" /\ pc \in PushPCs /\ pc \in SendPCs /\ batch = {} /\ data \in Data
      /\ toSend' = toSend \ B /\ UNCHANGED <<worldVars, saved, recorder, fingerprint, toName, late, historyVars>>
  BY DEF SendBatch, Inv, Sending, PushPCs, SendPCs, TypeOK
<1>2. Sendable(toSend)
  BY <1>1 DEF Inv, Sending
<1>3. Sendable(B) /\ Sendable(toSend \ B) /\ Sendable(B \ Refused(B)) /\ Sendable(Refused(B)) /\ Refused(B) \subseteq B
  BY <1>2 DEF Sendable, Refused
<1>4. CASE Refused(B) = {}
  <2>1. Land(B) /\ pc' = pc /\ batch' = {}
    BY <1>1, <1>4 DEF SendBatch
  <2>2. /\ data' \in Data /\ readwise' \in [Accounts -> [Docs -> Shelf]] /\ budget' \in Nat
        /\ ListingHolds' /\ Sendable(toSend \ B)'
    BY <1>1, <1>3, <2>1, LandKeeps
  <2>3. TypeOK'
    BY <1>1, <2>1, <2>2 DEF TypeOK, worldVars, historyVars
  <2>4. Sending'
    BY <1>1, <2>1, <2>2 DEF Sending, Sendable, Want
  <2> QED BY <2>2, <2>3, <2>4 DEF Inv
<1>5. CASE Refused(B) # {}
  <2>1. /\ data' = [data EXCEPT !.books = SetAside(Refused(B))] /\ batch' = B \ Refused(B)
        /\ pc' = (IF batch' = {} THEN "texts" ELSE "resend") /\ UNCHANGED <<readwise, budget>>
    BY <1>5 DEF SendBatch
  <2>2. SetAside(Refused(B)) \in [Docs -> Book] /\ data'.books = SetAside(Refused(B))
    BY <1>1, <1>3, <2>1, SetAsideType DEF Data
  <2>3. data' \in Data
    BY <1>1, <2>1, <2>2, DataChanges
  <2>4. TypeOK'
    BY <1>1, <1>3, <2>1, <2>3 DEF TypeOK, PushPCs, worldVars, historyVars
  <2>5. Sendable(toSend \cup batch)'
    <3> SUFFICES ASSUME NEW m \in toSend PROVE Live(data'.books[m[1]]) /\ data'.books[m[1]].highlights[m[2]].want \in Texts
      BY <1>1, <1>2, <2>1 DEF Sendable, Want
    <3>1. m \in Docs \X Keys /\ Live(data.books[m[1]]) /\ data.books[m[1]].highlights[m[2]].want \in Texts
      BY <1>2 DEF Sendable, Want
    <3> QED BY <1>1, <2>2, <3>1, SetAsideSame
  <2>6. Sending'
    BY <1>1, <1>3, <2>1, <2>5 DEF Sending
  <2>7. ListingHolds'
    BY <1>1, <2>1, <2>2, SetAsideSame, ListingCarries
  <2> QED BY <2>4, <2>6, <2>7 DEF Inv
<1> QED BY <1>4, <1>5

LEMMA ResendKeeps == ASSUME Inv, ResendBatch PROVE Inv'
<1>1. /\ TypeOK /\ pc = "resend" /\ pc' = "texts" /\ batch' = {} /\ Land(batch) /\ toSend' = toSend
      /\ UNCHANGED <<worldVars, saved, recorder, fingerprint, toName, late, historyVars>>
  BY DEF ResendBatch, Inv
<1>2. Sendable(batch) /\ Sendable(toSend) /\ toSend \cap batch = {}
  BY <1>1 DEF Inv, Sending, Sendable
<1>3. /\ data' \in Data /\ readwise' \in [Accounts -> [Docs -> Shelf]] /\ budget' \in Nat
      /\ ListingHolds' /\ Sendable(toSend)'
  BY <1>1, <1>2, LandKeeps
<1>4. TypeOK'
  BY <1>1, <1>3 DEF TypeOK, PushPCs, worldVars, historyVars
<1>5. Sending'
  BY <1>1, <1>3 DEF Sending, Sendable, Want
<1> QED BY <1>3, <1>4, <1>5 DEF Inv

LEMMA LoseKeeps == ASSUME Inv, NEW B \in SUBSET (toSend \cup batch), LoseAnswer(B) PROVE Inv'
<1>1. pc \in PushPCs /\ Sendable(B)
  BY DEF LoseAnswer, NextBatch, Inv, Sending, Sendable, PushPCs
<1>2. readwise' \in [Accounts -> [Docs -> Shelf]]
  BY <1>1, ShelvedType DEF LoseAnswer, Inv
<1> QED BY <1>2, EndKeeps DEF LoseAnswer, Spend, Inv, TypeOK, historyVars

LEMMA NamesKeep == ASSUME Inv PROVE TextsSent \/ (\E d \in Docs : PutNameBack(d)) => Inv'
<1>1. ASSUME TextsSent PROVE Inv'
  <2>1. TypeOK'
    BY <1>1 DEF TextsSent, Inv, TypeOK, PushPCs, worldVars, historyVars
  <2> QED BY <1>1, <2>1, QuietStep DEF TextsSent, SendPCs, Inv, Sending
<1>2. ASSUME NEW d \in Docs, PutNameBack(d) PROVE Inv'
  <2> DEFINE b == [data.books[d] EXCEPT !.shown = "theirs"]
             s == [readwise[Account][d] EXCEPT !.theirs = TRUE]
  <2>1. /\ TypeOK /\ Account \in Accounts /\ pc = "names" /\ pc' = pc /\ batch' = batch /\ batch = {} /\ toName' \subseteq Docs
        /\ budget \in Nat /\ data \in Data /\ data.books \in [Docs -> Book] /\ readwise \in [Accounts -> [Docs -> Shelf]]
        /\ UNCHANGED <<worldVars, saved, recorder, fingerprint, toSend, late, historyVars>>
    BY <1>2, PushAccount, DataParts DEF PutNameBack, Inv, Sending, TypeOK, PushPCs
  <2>2. \/ data' = [data EXCEPT !.books = [data.books EXCEPT ![d] = b]]
           /\ readwise' = [readwise EXCEPT ![Account] = [readwise[Account] EXCEPT ![d] = s]]
        \/ data' = data /\ readwise' = readwise
    BY <1>2 DEF PutNameBack
  <2>3. budget' = budget \/ (budget > 0 /\ budget' = budget - 1)
    BY <1>2 DEF PutNameBack, Spend
  <2>4. b \in Book /\ s \in Shelf
    <3>1. data.books[d] \in Book /\ readwise[Account][d] \in Shelf
      BY <2>1
    <3> QED BY <3>1 DEF Book, Shelf
  <2> HIDE DEF b, s
  <2>5. [data.books EXCEPT ![d] = b] \in [Docs -> Book]
    BY <2>1, <2>4, ChangedAt
  <2>6. data' \in Data /\ readwise' \in [Accounts -> [Docs -> Shelf]] /\ budget' \in Nat
    <3> DEFINE bs == [data.books EXCEPT ![d] = b]
               R == [readwise EXCEPT ![Account] = [readwise[Account] EXCEPT ![d] = s]]
    <3>1. bs \in [Docs -> Book] /\ R \in [Accounts -> [Docs -> Shelf]]
      BY <2>1, <2>4, <2>5, ReadwiseChange
    <3>2. \/ data' = [data EXCEPT !.books = bs] /\ readwise' = R
          \/ data' = data /\ readwise' = readwise
      BY <2>2
    <3> HIDE DEF bs, R
    <3>3. [data EXCEPT !.books = bs] \in Data
      BY <2>1, <3>1, DataChanges
    <3>4. data' \in Data /\ readwise' \in [Accounts -> [Docs -> Shelf]]
      BY <2>1, <3>1, <3>2, <3>3
    <3>5. budget' \in Nat
      BY <2>1, <2>3
    <3> QED BY <3>4, <3>5
  <2>7. TypeOK'
    BY <2>1, <2>6 DEF TypeOK, PushPCs, worldVars, historyVars
  <2> QED BY <2>1, <2>7, QuietStep DEF SendPCs
<1> QED BY <1>1, <1>2

LEMMA EndingsKeep == ASSUME Inv PROVE FinishPush \/ PushFails \/ Crash => Inv'
<1>1. ASSUME FinishPush PROVE Inv'
  BY <1>1, EndKeeps DEF FinishPush, Inv, TypeOK, historyVars
<1>2. ASSUME PushFails PROVE Inv'
  <2>1. budget' \in Nat
    BY <1>2 DEF PushFails, Spend, Inv, TypeOK
  <2> QED BY <1>2, <2>1, EndKeeps DEF PushFails, Inv, TypeOK, historyVars
<1>3. ASSUME Crash PROVE Inv'
  <2>1. TypeOK'
    <3>1. /\ data' = saved /\ saved' = saved /\ budget > 0 /\ budget' = budget - 1 /\ NoPush
          /\ UNCHANGED <<worldVars, readwise, historyVars>>
      BY <1>3 DEF Crash, Spend
    <3>2. data' \in Data /\ saved' \in Data /\ readwise' \in [Accounts -> [Docs -> Shelf]] /\ budget' \in Nat
      BY <3>1 DEF Inv, TypeOK
    <3>3. pc' = "idle" /\ recorder' = FALSE /\ fingerprint' = None /\ toSend' = {} /\ batch' = {} /\ toName' = {} /\ late' = {}
      BY <3>1 DEF NoPush
    <3> QED BY <3>1, <3>2, <3>3 DEF Inv, TypeOK, PushPCs, worldVars, historyVars
  <2> QED BY <1>3, <2>1, QuietStep DEF Crash, NoPush, SendPCs
<1> QED BY <1>1, <1>2, <1>3

-----------------------------------------------------------------------------
(* The theorems. *)

LEMMA InitInv == Init => Inv
<1> SUFFICES ASSUME Init PROVE Inv
  OBVIOUS
<1>1. data \in Data
  BY NoBookType DEF Init, Data
<1>2. readwise \in [Accounts -> [Docs -> Shelf]]
  BY DEF Init, Shelf
<1>3. TypeOK
  BY <1>1, <1>2, PushAssumption DEF Init, TypeOK, PushPCs
<1>4. Sending /\ ListingHolds
  BY DEF Init, Sending, ListingHolds, SendPCs
<1> QED BY <1>3, <1>4 DEF Inv

LEMMA NextKeeps == ASSUME Inv, [Next]_vars PROVE Inv'
<1>1. CASE UNCHANGED vars
  <2>1. TypeOK'
    BY <1>1 DEF vars, pushVars, worldVars, historyVars, Inv, TypeOK
  <2>2. Sending' /\ ListingHolds'
    BY <1>1, BooksAlone DEF vars, pushVars, historyVars
  <2> QED BY <2>1, <2>2 DEF Inv
<1>2. CASE User
  <2>1. ASSUME NEW d \in Docs, NEW k \in Keys, NEW t \in Texts \cup {None}, Mark(d, k, t) PROVE Inv'
    BY <2>1, UserKeeps
  <2>2. ASSUME NEW d \in Docs, NEW a \in Accounts, DeleteBook(a, d) \/ RenameBook(a, d) PROVE Inv'
    BY <2>2, UserKeeps
  <2>3. ASSUME SwitchPush \/ StartOver \/ \E t \in Tokens \cup {None} : StoreToken(t) PROVE Inv'
    BY <2>3, UserKeeps, ForgettingKeeps
  <2>4. ASSUME NEW d \in Docs, PushBookAgain(d) \/ \E scope, unread \in SUBSET Keys : WriteInPart(d, scope, unread) PROVE Inv'
    BY <2>4, ForgettingKeeps, WritesKeep
  <2> QED BY <1>2, <2>1, <2>2, <2>3, <2>4 DEF User
<1>3. CASE StartSync \/ LonePush \/ Sync
  <2>1. ASSUME NEW d \in Docs, WriteWhole(d) PROVE Inv'
    BY <2>1, WritesKeep
  <2>2. StartSync \/ OpenSource \/ EndUnits \/ LonePush => Inv'
    BY SyncKeeps
  <2> QED BY <1>3, <2>1, <2>2 DEF Sync
<1>4. CASE Push
  BY <1>4, CheckKeeps, ListingKeeps, DeletesSentKeeps, ResendKeeps, NamesKeep, EndingsKeep, DeleteKeeps, SendKeeps DEF Push
<1>5. CASE Trouble
  <2>1. ASSUME NEW B \in SUBSET (toSend \cup batch), LoseAnswer(B) PROVE Inv'
    BY <2>1, LoseKeeps
  <2>2. EndEarly \/ PushFails \/ Crash => Inv'
    BY SyncKeeps, EndingsKeep
  <2> QED BY <1>5, <2>1, <2>2 DEF Trouble
<1> QED BY <1>1, <1>2, <1>3, <1>4, <1>5 DEF Next

\* The invariant holds in every behaviour.
THEOREM Invariance == Spec => []Inv
  BY InitInv, NextKeeps, PTL DEF Spec

\* Every variable has its type in every reachable state, whatever the constants.
THEOREM TypeCorrect == Spec => []TypeOK
<1>1. Inv => TypeOK
  BY DEF Inv
<1> QED BY <1>1, Invariance, PTL

\* A book is opened by a text that is sent, and only where the push knows none, or none any more.
LEMMA BatchOpens == ASSUME Inv, pc \in {"texts", "resend"}, NEW B, B \subseteq toSend \cup batch,
                           NEW a \in Accounts, NEW d \in Docs, ~readwise[a][d].there, Shelved(B)[a][d].there
                    PROVE  data.books[d].bookId = None \/ d \in late
<1>1. TypeOK /\ pc \in PushPCs /\ pc \in SendPCs /\ Sendable(toSend \cup batch)
  BY DEF Inv, Sending, PushPCs, SendPCs
<1>2. a = Account /\ Among(B, d) # {}
  BY <1>1, ShelvedThere
<1>3. Live(data.books[d])
  <2>1. PICK k \in Keys : <<d, k>> \in toSend \cup batch
    BY <1>2 DEF Among
  <2> QED BY <1>1, <2>1 DEF Sendable
<1> QED BY <1>1, <1>2, <1>3 DEF Inv, ListingHolds

\* Every other step leaves shut what is not there.
LEMMA OthersOpenNone == ASSUME Inv, [Next]_vars, NEW a \in Accounts, NEW d \in Docs, ~readwise[a][d].there, readwise'[a][d].there
                        PROVE  pc \in {"texts", "resend"} /\ \E B : B \subseteq toSend \cup batch /\ readwise' = Shelved(B)
<1> SUFFICES ASSUME readwise' # readwise PROVE pc \in {"texts", "resend"} /\ \E B : B \subseteq toSend \cup batch /\ readwise' = Shelved(B)
  OBVIOUS
<1>0. readwise \in [Accounts -> [Docs -> Shelf]]
  BY DEF Inv, TypeOK
<1>1. ASSUME NEW c \in Accounts, NEW e \in Docs, NEW s, readwise' = [readwise EXCEPT ![c] = [readwise[c] EXCEPT ![e] = s]],
             s.there = readwise[c][e].there \/ s.there = FALSE
      PROVE  FALSE
  BY <1>0, <1>1
<1>2. ASSUME NEW e \in Docs, NEW c \in Accounts, DeleteBook(c, e) PROVE FALSE
  <2>1. readwise[c][e] \in Shelf
    BY <1>0
  <2>2. [readwise[c][e] EXCEPT !.there = FALSE, !.texts = [k \in Keys |-> None], !.theirs = FALSE].there = FALSE
    BY <2>1 DEF Shelf
  <2> QED BY <1>1, <1>2, <2>2 DEF DeleteBook
<1>3. ASSUME NEW e \in Docs, NEW c \in Accounts, RenameBook(c, e) PROVE FALSE
  <2>1. readwise[c][e] \in Shelf
    BY <1>0
  <2>2. [readwise[c][e] EXCEPT !.theirs = TRUE].there = readwise[c][e].there
    BY <2>1 DEF Shelf
  <2> QED BY <1>1, <1>3, <2>2 DEF RenameBook
<1>4. ASSUME NEW e \in Docs, NEW k \in Keys, SendDelete(e, k) PROVE FALSE
  <2>1. Account \in Accounts
    BY <1>4, PushAccount DEF SendDelete, Inv, PushPCs
  <2>2. readwise[Account][e] \in Shelf
    BY <1>0, <2>1
  <2>3. [readwise[Account][e] EXCEPT !.texts = [readwise[Account][e].texts EXCEPT ![k] = None]].there = readwise[Account][e].there
    BY <2>2 DEF Shelf
  <2> QED BY <1>1, <1>4, <2>1, <2>3 DEF SendDelete
<1>5. ASSUME NEW e \in Docs, PutNameBack(e) PROVE FALSE
  <2>1. Account \in Accounts
    BY <1>5, PushAccount DEF PutNameBack, Inv, PushPCs
  <2>2. readwise[Account][e] \in Shelf
    BY <1>0, <2>1
  <2>3. [readwise[Account][e] EXCEPT !.theirs = TRUE].there = readwise[Account][e].there
    BY <2>2 DEF Shelf
  <2>4. readwise' = [readwise EXCEPT ![Account] = [readwise[Account] EXCEPT ![e] = [readwise[Account][e] EXCEPT !.theirs = TRUE]]]
    BY <1>5 DEF PutNameBack
  <2> QED BY <1>1, <2>1, <2>3, <2>4
<1>6. ASSUME NEW B \in SUBSET toSend, SendBatch(B) PROVE pc = "texts" /\ readwise' = Shelved(B)
  BY <1>6 DEF SendBatch, Land
<1>7. ASSUME ResendBatch PROVE pc = "resend" /\ readwise' = Shelved(batch)
  BY <1>7 DEF ResendBatch, Land
<1>8. ASSUME NEW B \in SUBSET (toSend \cup batch), LoseAnswer(B) PROVE pc \in {"texts", "resend"} /\ readwise' = Shelved(B)
  BY <1>8 DEF LoseAnswer
<1>9. CASE User
  <2>1. ASSUME NEW e \in Docs, NEW k \in Keys, NEW t \in Texts \cup {None}, Mark(e, k, t) PROVE FALSE
    BY <2>1 DEF Mark
  <2>2. ASSUME NEW t \in Tokens \cup {None}, StoreToken(t) PROVE FALSE
    BY <2>2 DEF StoreToken, ChangeToken
  <2>3. ASSUME NEW e \in Docs, PushBookAgain(e) PROVE FALSE
    BY <2>3 DEF PushBookAgain
  <2>4. ASSUME NEW e \in Docs, NEW scope \in SUBSET Keys, NEW unread \in SUBSET Keys, WriteInPart(e, scope, unread) PROVE FALSE
    BY <2>4 DEF WriteInPart, WriteNote
  <2>5. ASSUME SwitchPush \/ StartOver PROVE FALSE
    BY <2>5 DEF SwitchPush, StartOver
  <2> QED BY <1>2, <1>3, <1>9, <2>1, <2>2, <2>3, <2>4, <2>5 DEF User
<1>10. CASE StartSync \/ LonePush \/ Sync
  BY <1>10 DEF StartSync, LonePush, Sync, OpenSource, EndUnits, WriteWhole, WriteNote
<1>11. CASE Push
  <2>1. ASSUME CheckAccount \/ CompareAccounts \/ ListBooks \/ DeletesSent \/ TextsSent \/ FinishPush PROVE FALSE
    BY <2>1 DEF CheckAccount, CompareAccounts, ListBooks, DeletesSent, TextsSent, FinishPush
  <2> QED BY <1>4, <1>5, <1>6, <1>7, <1>11, <2>1 DEF Push
<1>12. CASE Trouble
  <2>1. ASSUME EndEarly \/ PushFails \/ Crash PROVE FALSE
    BY <2>1 DEF EndEarly, PushFails, Crash
  <2> QED BY <1>8, <1>12, <2>1 DEF Trouble
<1> QED BY <1>9, <1>10, <1>11, <1>12 DEF Next, vars

\* A book deleted in Readwise before the push asked for the listing is not opened again, whatever the
\* user, the failures, the crashes and the lost answers do between its requests.
THEOREM DeletedBooksStayDeleted == Spec => DeletedStaysDeleted
<1> DEFINE Kept == \A a \in Accounts, d \in Docs :
                     ~readwise[a][d].there /\ readwise'[a][d].there => data.books[d].bookId = None \/ d \in late
<1>1. ASSUME Inv, [Next]_vars PROVE Kept
  <2> SUFFICES ASSUME NEW a \in Accounts, NEW d \in Docs, ~readwise[a][d].there, readwise'[a][d].there
               PROVE  data.books[d].bookId = None \/ d \in late
    OBVIOUS
  <2> QED BY <1>1, OthersOpenNone, BatchOpens
<1>2. Inv /\ [Next]_vars => [Kept]_vars
  BY <1>1
<1> QED BY <1>2, Invariance, PTL DEF Spec, DeletedStaysDeleted
-----------------------------------------------------------------------------
(* What stands in Readwise is remembered.                                   *)

\* Every answer to a text that landed arrives and can be read, and what landed is saved.
AnswersArrive == Ops \cap {"lost", "unreadable", "crash"} = {}

\* A book of ours that the state was not dropped for has what the state says was pushed there, and nothing while
\* the state does not know it; the state knows no copy of it that is yet to come.
RememberedIn(b, s, a, isDropped) ==
    /\ ~s.there => \A k \in Keys : s.texts[k] = None
    /\ b.bookId # None /\ b.bookId[1] = a => b.bookId[2] <= s.copy
    /\ s.there /\ ~isDropped =>
         IF b.bookId = None THEN \A k \in Keys : s.texts[k] = None
         ELSE b.bookId = <<a, s.copy>> => \A k \in Keys : s.texts[k] \in {None, b.highlights[k].pushed}

Remembered == \A a \in Accounts, d \in Docs : RememberedIn(data.books[d], readwise[a][d], a, <<a, d>> \in dropped)

\* While it sends, the books a push knows are of its account.
KnownHere ==
    pc \in SendPCs => \A d \in Docs : Live(data.books[d]) /\ data.books[d].bookId # None => data.books[d].bookId[1] = Account

SameBook(b, c) == c.bookId = b.bookId /\ \A k \in Keys : c.highlights[k].pushed = b.highlights[k].pushed
SameShelf(s, t) == t.there = s.there /\ t.copy = s.copy /\ \A k \in Keys : t.texts[k] = s.texts[k]

LEMMA SameCarries == ASSUME Remembered, dropped' = dropped,
                            \A d \in Docs : SameBook(data.books[d], data'.books[d]),
                            \A a \in Accounts, d \in Docs : SameShelf(readwise[a][d], readwise'[a][d])
                     PROVE  Remembered'
<1> SUFFICES ASSUME NEW a \in Accounts, NEW d \in Docs
             PROVE  RememberedIn(data'.books[d], readwise'[a][d], a, <<a, d>> \in dropped)
  BY DEF Remembered, RememberedIn
<1> DEFINE b == data.books[d]
           c == data'.books[d]
           s == readwise[a][d]
           t == readwise'[a][d]
           isDropped == <<a, d>> \in dropped
<1>1. RememberedIn(b, s, a, isDropped)
  BY DEF Remembered
<1>2. SameBook(b, c) /\ SameShelf(s, t)
  OBVIOUS
<1> HIDE DEF b, c, s, t, isDropped
<1>3. RememberedIn(c, t, a, isDropped)
  BY <1>1, <1>2 DEF RememberedIn, SameBook, SameShelf
<1> QED BY <1>3 DEF c, t, isDropped

LEMMA BooksCarry == ASSUME Remembered, data'.books = data.books, UNCHANGED <<readwise, dropped>> PROVE Remembered'
<1>1. readwise' = readwise /\ dropped' = dropped
  OBVIOUS
<1> QED BY <1>1, SameCarries DEF SameBook, SameShelf

LEMMA ForgottenCarries == ASSUME Remembered, TypeOK, NEW D \in SUBSET Docs, data'.books = ForgetBooks(data.books, D),
                                 readwise' = readwise, dropped' = NowDropped(D)
                          PROVE  Remembered'
<1> SUFFICES ASSUME NEW a \in Accounts, NEW d \in Docs
             PROVE  RememberedIn(data'.books[d], readwise[a][d], a, <<a, d>> \in dropped')
  BY ZenonT(40) DEF Remembered, RememberedIn
<1>1. RememberedIn(data.books[d], readwise[a][d], a, <<a, d>> \in dropped)
  BY DEF Remembered
<1>2. <<a, d>> \in dropped => <<a, d>> \in dropped'
  BY DEF NowDropped
<1>3. CASE d \in D
  <2>1. readwise[a][d].there => <<a, d>> \in dropped'
    BY <1>3 DEF NowDropped
  <2>2. data'.books[d] = NoBook /\ NoBook.bookId = None
    BY <1>3 DEF ForgetBooks, NoBook
  <2> QED BY <1>1, <2>1, <2>2 DEF RememberedIn
<1>4. CASE d \notin D
  <2>1. data'.books[d] = data.books[d]
    BY <1>4 DEF ForgetBooks
  <2> QED BY <1>1, <1>2, <2>1 DEF RememberedIn
<1> QED BY <1>3, <1>4

LEMMA KnownCarries == ASSUME KnownHere, pc' \in SendPCs => pc \in SendPCs, fingerprint' = fingerprint,
                             \A d \in Docs : Live(data'.books[d]) /\ data'.books[d].bookId # None
                                 => Live(data.books[d]) /\ (data'.books[d].bookId = data.books[d].bookId \/ data'.books[d].bookId[1] = Account)
                      PROVE  KnownHere'
  BY DEF KnownHere, Account

LEMMA NotKnowing == ASSUME pc' \notin SendPCs PROVE KnownHere'
  BY DEF KnownHere

\* What a unit records changes no text that was pushed.
LEMMA RecordedSame == ASSUME NEW b \in Book, NEW m \in [Keys -> Texts \cup {None}], NEW scope, NEW unread
                      PROVE  SameBook(b, RecordUnit(b, m, scope, unread))
<1> DEFINE hl == [k \in Keys |-> IF k \notin scope \/ (m[k] # None /\ k \in unread) THEN b.highlights[k]
                                 ELSE IF m[k] # None THEN Wanting(b.highlights[k], m[k])
                                 ELSE Erased(b.highlights[k])]
<1>1. b.highlights \in [Keys -> Highlight]
  BY BookParts
<1>2. ASSUME NEW k \in Keys PROVE hl[k].pushed = b.highlights[k].pushed
  <2>1. b.highlights[k] \in Highlight
    BY <1>1
  <2>2. /\ Erased(b.highlights[k]).pushed = b.highlights[k].pushed
        /\ Wanting(b.highlights[k], m[k]).pushed = b.highlights[k].pushed
    BY <2>1 DEF Highlight, Erased, Wanting, Settled, Absent
  <2> QED BY <2>2
<1> HIDE DEF hl
<1>3. [b EXCEPT !.named = TRUE, !.highlights = hl].bookId = b.bookId /\ [b EXCEPT !.named = TRUE, !.highlights = hl].highlights = hl
  BY DEF Book
<1>4. RecordUnit(b, m, scope, unread) \in {b, [b EXCEPT !.named = TRUE, !.highlights = hl]}
  BY DEF RecordUnit, hl
<1> QED BY <1>2, <1>3, <1>4 DEF SameBook

\* Nor does what the listing says.
LEMMA ListedSame == ASSUME NEW bs \in [Docs -> Book], NEW a, NEW d \in Docs
                    PROVE  /\ SameBook(bs[d], ReadListing(a, bs)[d])
                           /\ Live(ReadListing(a, bs)[d]) => Live(bs[d]) /\ (bs[d].bookId # None => Holds(a, d, bs[d].bookId))
<1> DEFINE b == bs[d]
           hl == [k \in Keys |-> IF b.highlights[k].pushed # None THEN Settled(b.highlights[k]) ELSE Absent]
           after == ReadListing(a, bs)[d]
<1>1. b \in Book /\ b.highlights \in [Keys -> Highlight]
  BY BookParts
<1>2. \A k \in Keys : hl[k].pushed = b.highlights[k].pushed
  <2>1. SUFFICES ASSUME NEW k \in Keys PROVE hl[k].pushed = b.highlights[k].pushed
    OBVIOUS
  <2>2. b.highlights[k] \in Highlight
    BY <1>1
  <2> QED BY <2>2 DEF Highlight, Settled, Absent
<1>3. after = IF d \notin KnownBooks(bs) THEN b
              ELSE IF ~Holds(a, d, b.bookId) THEN [b EXCEPT !.deleted = TRUE, !.highlights = hl]
              ELSE IF readwise[a][d].theirs THEN [b EXCEPT !.shown = "theirs"]
              ELSE IF b.shown = "owed" THEN b ELSE [b EXCEPT !.shown = "ours"]
  BY DEF ReadListing
<1> HIDE DEF hl, after, b
<1>4. LET c == [b EXCEPT !.deleted = TRUE, !.highlights = hl] IN c.bookId = b.bookId /\ c.highlights = hl /\ c.deleted = TRUE
  BY <1>1 DEF Book
<1>5. \A x \in {"ours", "theirs"} : LET c == [b EXCEPT !.shown = x] IN
        c.bookId = b.bookId /\ c.highlights = b.highlights /\ c.named = b.named /\ c.deleted = b.deleted
  BY <1>1 DEF Book
<1>6. d \in KnownBooks(bs) <=> Live(b) /\ b.bookId # None
  BY DEF KnownBooks, b
<1>7. SameBook(b, after)
  BY <1>2, <1>3, <1>4, <1>5 DEF SameBook
<1>8. Live(after) => Live(b) /\ (b.bookId # None => Holds(a, d, b.bookId))
  BY <1>3, <1>4, <1>5, <1>6 DEF Live
<1> QED BY <1>7, <1>8 DEF b, after

LEMMA AsideSame == ASSUME TypeOK, NEW B, NEW d \in Docs PROVE SameBook(data.books[d], SetAside(B)[d])
<1>1. data.books[d] \in Book /\ data.books[d].highlights \in [Keys -> Highlight]
  BY DataParts, BookParts DEF TypeOK
<1>2. ASSUME NEW k \in Keys PROVE SetAside(B)[d].highlights[k].pushed = data.books[d].highlights[k].pushed
  <2>1. data.books[d].highlights[k] \in Highlight
    BY <1>1
  <2> QED BY <1>1, <2>1 DEF SetAside, Book, Highlight
<1> QED BY <1>1, <1>2, SetAsideSame DEF SameBook

LEMMA UserRemembers == ASSUME Inv, Remembered, KnownHere
                       PROVE  /\ \A d \in Docs, k \in Keys, t \in Texts \cup {None} : Mark(d, k, t) => Remembered' /\ KnownHere'
                              /\ \A a \in Accounts, d \in Docs : DeleteBook(a, d) \/ RenameBook(a, d) => Remembered' /\ KnownHere'
                              /\ \A t \in Tokens \cup {None} : StoreToken(t) => Remembered' /\ KnownHere'
                              /\ \A d \in Docs : PushBookAgain(d) => Remembered' /\ KnownHere'
                              /\ SwitchPush \/ StartOver => Remembered' /\ KnownHere'
<1>0. TypeOK /\ data \in Data /\ data.books \in [Docs -> Book] /\ readwise \in [Accounts -> [Docs -> Shelf]]
  BY DataParts DEF Inv, TypeOK
<1>1. ASSUME NEW d \in Docs, NEW k \in Keys, NEW t \in Texts \cup {None}, Mark(d, k, t) PROVE Remembered' /\ KnownHere'
  <2>1. data'.books = data.books /\ UNCHANGED <<readwise, dropped, pc, fingerprint>>
    BY <1>0, <1>1 DEF Mark, Data, pushVars, historyVars
  <2> QED BY <2>1, BooksCarry, KnownCarries
<1>2. ASSUME NEW a \in Accounts, NEW d \in Docs, DeleteBook(a, d) PROVE Remembered' /\ KnownHere'
  <2> DEFINE s == readwise[a][d]
             t == [s EXCEPT !.there = FALSE, !.texts = [k \in Keys |-> None], !.theirs = FALSE]
  <2>1. /\ readwise' = [readwise EXCEPT ![a] = [readwise[a] EXCEPT ![d] = t]] /\ dropped' = dropped \ {<<a, d>>}
        /\ UNCHANGED <<data, pc, fingerprint>>
    BY <1>2 DEF DeleteBook, pushVars
  <2>2. t.there = FALSE /\ t.copy = s.copy /\ \A k \in Keys : t.texts[k] = None
    BY <1>0 DEF Shelf
  <2> HIDE DEF t
  <2>3. KnownHere'
    BY <2>1, KnownCarries
  <2>4. ASSUME NEW c \in Accounts, NEW e \in Docs
        PROVE  RememberedIn(data.books[e], readwise'[c][e], c, <<c, e>> \in dropped')
    <3>1. RememberedIn(data.books[e], readwise[c][e], c, <<c, e>> \in dropped)
      BY DEF Remembered
    <3>2. CASE c = a /\ e = d
      <4>1. readwise'[c][e] = t
        BY <1>0, <2>1, <3>2
      <4> QED BY <2>2, <3>1, <3>2, <4>1 DEF RememberedIn
    <3>3. CASE ~(c = a /\ e = d)
      <4>1. readwise'[c][e] = readwise[c][e] /\ (<<c, e>> \in dropped' <=> <<c, e>> \in dropped)
        BY <1>0, <2>1, <3>3
      <4> QED BY <3>1, <4>1 DEF RememberedIn
    <3> QED BY <3>2, <3>3
  <2>5. data' = data
    BY <2>1
  <2> QED BY <2>3, <2>4, <2>5, ZenonT(40) DEF Remembered, RememberedIn
<1>3. ASSUME NEW a \in Accounts, NEW d \in Docs, RenameBook(a, d) PROVE Remembered' /\ KnownHere'
  <2>1. /\ readwise' = [readwise EXCEPT ![a] = [readwise[a] EXCEPT ![d] = [readwise[a][d] EXCEPT !.theirs = TRUE]]]
        /\ UNCHANGED <<data, pc, fingerprint, dropped>>
    BY <1>3 DEF RenameBook, pushVars
  <2>2. \A c \in Accounts, e \in Docs : SameShelf(readwise[c][e], readwise'[c][e])
    BY <1>0, <2>1 DEF SameShelf, Shelf
  <2> QED BY <2>1, <2>2, SameCarries, KnownCarries DEF SameBook
<1>4. ASSUME NEW t \in Tokens \cup {None}, StoreToken(t) PROVE Remembered' /\ KnownHere'
  BY <1>4, BooksCarry, NotKnowing DEF StoreToken, ChangeToken, SendPCs, historyVars
<1>5. ASSUME NEW d \in Docs, PushBookAgain(d) PROVE Remembered' /\ KnownHere'
  <2>1. data'.books = ForgetBooks(data.books, {d}) /\ readwise' = readwise /\ dropped' = NowDropped({d}) /\ pc' = "idle"
    BY <1>0, <1>5 DEF PushBookAgain, Data
  <2> QED BY <1>0, <2>1, ForgottenCarries, NotKnowing DEF SendPCs
<1>6. ASSUME StartOver PROVE Remembered' /\ KnownHere'
  <2>1. data'.books = ForgetBooks(data.books, Docs) /\ readwise' = readwise /\ dropped' = NowDropped(Docs) /\ pc' = "idle"
    BY <1>0, <1>6 DEF StartOver, Data
  <2> QED BY <1>0, <2>1, ForgottenCarries, NotKnowing DEF SendPCs
<1>7. ASSUME SwitchPush PROVE Remembered' /\ KnownHere'
  BY <1>7, BooksCarry, KnownCarries DEF SwitchPush, historyVars, pushVars
<1> QED BY <1>1, <1>2, <1>3, <1>4, <1>5, <1>6, <1>7

LEMMA PlainRemembers == ASSUME Remembered, data'.books = data.books, UNCHANGED <<readwise, dropped>>, pc' \notin SendPCs
                        PROVE  Remembered' /\ KnownHere'
  BY BooksCarry, NotKnowing

LEMMA SyncRemembers == ASSUME Inv, Remembered, KnownHere, StartSync \/ OpenSource \/ EndUnits \/ LonePush \/ EndEarly
                       PROVE  Remembered' /\ KnownHere'
<1>0. data \in Data
  BY DEF Inv, TypeOK
<1>1. data'.books = data.books
  BY <1>0 DEF StartSync, OpenSource, EndUnits, LonePush, EndEarly, Data
<1>2. UNCHANGED <<readwise, dropped>>
  BY DEF StartSync, OpenSource, EndUnits, LonePush, EndEarly, historyVars
<1>3. pc' \notin SendPCs
  BY DEF StartSync, OpenSource, EndUnits, LonePush, EndEarly, BeginPush, NoPush, SendPCs
<1> QED BY <1>1, <1>2, <1>3, PlainRemembers

LEMMA WriteRemembers == ASSUME Inv, Remembered, NEW d \in Docs, NEW scope, NEW unread, WriteNote(d, scope, unread)
                        PROVE  Remembered' /\ KnownHere'
<1>0. /\ data \in Data /\ data.books \in [Docs -> Book] /\ tablet[d] \in [Keys -> Texts \cup {None}]
      /\ UNCHANGED <<readwise, dropped>> /\ pc' \notin SendPCs
  BY DataParts DEF Inv, TypeOK, WriteNote, historyVars, SendPCs
<1> DEFINE b == RecordUnit(data.books[d], tablet[d], scope, unread)
<1>1. data'.books = IF recorder THEN [data.books EXCEPT ![d] = b] ELSE data.books
  BY <1>0 DEF WriteNote, Data
<1>2. SameBook(data.books[d], b)
  BY <1>0, RecordedSame
<1> HIDE DEF b
<1>3. ASSUME NEW e \in Docs PROVE SameBook(data.books[e], data'.books[e])
  <2>1. data'.books[e] = IF recorder /\ e = d THEN b ELSE data.books[e]
    BY <1>0, <1>1
  <2> QED BY <1>2, <2>1 DEF SameBook
<1> QED BY <1>0, <1>3, SameCarries, NotKnowing DEF SameShelf

LEMMA SwitchRemembers == ASSUME Inv, Remembered, SwitchAccount, readwise' = readwise PROVE Remembered' /\ KnownHere'
<1>0. TypeOK /\ data \in Data /\ pc' \notin SendPCs
  BY DEF Inv, TypeOK, SwitchAccount, EndPush, NoPush, SendPCs
<1>1. CASE fingerprint = data.before
  BY <1>0, <1>1, PlainRemembers DEF SwitchAccount, historyVars, Data
<1>2. CASE fingerprint # data.before
  <2>1. data'.books = ForgetBooks(data.books, Docs) /\ dropped' = NowDropped(Docs)
    BY <1>0, <1>2 DEF SwitchAccount, Data
  <2> QED BY <1>0, <2>1, ForgottenCarries, NotKnowing
<1> QED BY <1>1, <1>2

LEMMA CheckRemembers == ASSUME Inv, Remembered, CheckAccount PROVE Remembered' /\ KnownHere'
<1>0. data \in Data /\ readwise' = readwise
  BY DEF Inv, TypeOK, CheckAccount
<1>1. CASE SwitchAccount
  BY <1>0, <1>1, SwitchRemembers
<1>2. CASE ~SwitchAccount
  <2> DEFINE going == [data EXCEPT !.clash = FALSE]
             coming == [data EXCEPT !.clash = FALSE, !.account = fingerprint]
  <2>1. going.books = data.books /\ coming.books = data.books
    BY <1>0 DEF Data
  <2>2. (data' = data \/ data' = going \/ data' = coming) /\ UNCHANGED historyVars
    BY <1>2, Zenon DEF CheckAccount
  <2>3. data'.books = data.books /\ dropped' = dropped
    BY <2>1, <2>2 DEF historyVars
  <2>4. pc' \notin SendPCs
    BY <1>2 DEF CheckAccount, EndPush, NoPush, SendPCs
  <2> QED BY <1>0, <2>3, <2>4, PlainRemembers
<1> QED BY <1>1, <1>2

LEMMA ListingRemembers == ASSUME Inv, Remembered, CompareAccounts \/ ListBooks PROVE Remembered' /\ KnownHere'
<1>0. TypeOK /\ data \in Data /\ data.books \in [Docs -> Book] /\ readwise' = readwise
  BY DataParts DEF Inv, TypeOK, CompareAccounts, ListBooks
<1>1. CASE Listed(data.books)
  <2>1. /\ data'.books = ReadListing(Account, data.books) /\ UNCHANGED <<dropped, fingerprint>>
    BY <1>0, <1>1 DEF Listed, Data, historyVars, pushVars
  <2>2. \A d \in Docs : /\ SameBook(data.books[d], data'.books[d])
                        /\ Live(data'.books[d]) => Live(data.books[d]) /\ (data.books[d].bookId # None => Holds(Account, d, data.books[d].bookId))
    BY <1>0, <2>1, ListedSame
  <2>3. Remembered'
    BY <1>0, <2>1, <2>2, SameCarries DEF SameShelf
  <2>4. KnownHere'
    BY <2>1, <2>2 DEF KnownHere, SameBook, Holds, Account
  <2> QED BY <2>3, <2>4
<1>2. CASE SwitchAccount
  BY <1>0, <1>2, SwitchRemembers
<1> QED BY <1>1, <1>2 DEF CompareAccounts, ListBooks

LEMMA QuietRemembers == ASSUME Inv, Remembered, KnownHere, DeletesSent \/ TextsSent \/ FinishPush \/ PushFails
                        PROVE  Remembered' /\ KnownHere'
<1>1. UNCHANGED <<data, readwise, dropped>> /\ (pc' \in SendPCs => pc \in SendPCs /\ fingerprint' = fingerprint)
  BY DEF DeletesSent, TextsSent, FinishPush, PushFails, EndPush, NoPush, SendPCs, historyVars
<1> QED BY <1>1, BooksCarry DEF KnownHere, Account

LEMMA DeleteRemembers == ASSUME Inv, Remembered, KnownHere, NEW d \in Docs, NEW k \in Keys, SendDelete(d, k)
                         PROVE  Remembered' /\ KnownHere'
<1> DEFINE b == data.books[d]
           c == [b EXCEPT !.highlights = [b.highlights EXCEPT ![k] = Absent]]
           s == readwise[Account][d]
           t == [s EXCEPT !.texts = [s.texts EXCEPT ![k] = None]]
<1>0. /\ data \in Data /\ data.books \in [Docs -> Book] /\ readwise \in [Accounts -> [Docs -> Shelf]] /\ Account \in Accounts
      /\ pc \in SendPCs /\ UNCHANGED <<pc, fingerprint, dropped>>
  BY DataParts, PushAccount DEF Inv, TypeOK, SendDelete, PushPCs, SendPCs, pushVars, historyVars
<1>1. data'.books = [data.books EXCEPT ![d] = c]
  BY <1>0 DEF SendDelete, WithHighlight, Data
<1>2. readwise' = IF Holds(Account, d, b.bookId) THEN [readwise EXCEPT ![Account] = [readwise[Account] EXCEPT ![d] = t]] ELSE readwise
  BY DEF SendDelete
<1>3. Live(b)
  BY DEF SendDelete, Deletes, PendingIn
<1>4. b \in Book /\ b.highlights \in [Keys -> Highlight] /\ s \in Shelf /\ s.texts \in [Keys -> Texts \cup {None}]
  BY <1>0, BookParts, ShelfParts
<1>5. /\ c.bookId = b.bookId /\ (Live(c) => Live(b))
      /\ \A j \in Keys : c.highlights[j].pushed = IF j = k THEN None ELSE b.highlights[j].pushed
  BY <1>4 DEF Book, Live, Absent
<1>6. t.there = s.there /\ t.copy = s.copy /\ \A j \in Keys : t.texts[j] = IF j = k THEN None ELSE s.texts[j]
  BY <1>4 DEF Shelf
<1>7. b.bookId # None => b.bookId[1] = Account
  BY <1>0, <1>3 DEF KnownHere
<1> HIDE DEF c, t
<1>8. KnownHere'
  <2>1. ASSUME NEW e \in Docs, Live(data'.books[e]) PROVE Live(data.books[e]) /\ data'.books[e].bookId = data.books[e].bookId
    BY <1>0, <1>1, <1>5, <2>1
  <2> QED BY <1>0, <2>1, KnownCarries
<1>9. Remembered'
  <2>1. SUFFICES ASSUME NEW a \in Accounts, NEW e \in Docs
                 PROVE  RememberedIn(data'.books[e], readwise'[a][e], a, <<a, e>> \in dropped)
    BY <1>0, ZenonT(40) DEF Remembered, RememberedIn
  <2>2. RememberedIn(data.books[e], readwise[a][e], a, <<a, e>> \in dropped)
    BY DEF Remembered
  <2>3. CASE e # d
    <3>1. data'.books[e] = data.books[e] /\ readwise'[a][e] = readwise[a][e]
      BY <1>0, <1>1, <1>2, <2>3
    <3> QED BY <2>2, <3>1 DEF RememberedIn
  <2>4. CASE e = d /\ a = Account /\ Holds(Account, d, b.bookId)
    <3>1. data'.books[e] = c /\ readwise'[a][e] = t
      BY <1>0, <1>1, <1>2, <2>4
    <3> DEFINE isDropped == <<a, e>> \in dropped
    <3>2. RememberedIn(b, s, a, isDropped)
      BY <2>2, <2>4
    <3> HIDE DEF isDropped, b, s
    <3>3. RememberedIn(c, t, a, isDropped)
      BY <1>5, <1>6, <3>2 DEF RememberedIn
    <3> QED BY <3>1, <3>3 DEF isDropped
  <2>5. CASE e = d /\ ~(a = Account /\ Holds(Account, d, b.bookId))
    <3>1. data'.books[e] = c /\ readwise'[a][e] = readwise[a][e]
      BY <1>0, <1>1, <1>2, <2>5
    <3>2. ~(readwise[a][e].there /\ b.bookId # None /\ b.bookId = <<a, readwise[a][e].copy>>)
      BY <1>7, <2>5 DEF Holds
    <3> DEFINE isDropped == <<a, e>> \in dropped
               u == readwise[a][e]
    <3>3. RememberedIn(b, u, a, isDropped)
      BY <2>2, <2>5
    <3> HIDE DEF isDropped, b, u
    <3>4. RememberedIn(c, u, a, isDropped)
      BY <1>5, <3>2, <3>3 DEF RememberedIn, u
    <3> QED BY <3>1, <3>4 DEF isDropped, u
  <2> QED BY <2>3, <2>4, <2>5
<1> QED BY <1>8, <1>9

\* A batch that lands is remembered in a book that is opened, and in one that is known.
LEMMA LandRemembers == ASSUME AnswersArrive, Inv, Remembered, KnownHere, pc \in {"texts", "resend"}, NEW B, Sendable(B), Land(B),
                              pc' \in SendPCs, UNCHANGED <<fingerprint, dropped>>
                       PROVE  Remembered' /\ KnownHere'
<1>0. /\ TypeOK /\ data \in Data /\ data.books \in [Docs -> Book] /\ readwise \in [Accounts -> [Docs -> Shelf]] /\ Account \in Accounts
      /\ pc \in SendPCs /\ pc \in PushPCs
  BY DataParts, PushAccount DEF Inv, TypeOK, PushPCs, SendPCs
<1>1. data' = [data EXCEPT !.books = Landed(B, TRUE)] /\ readwise' = Shelved(B)
  BY DEF Land, Spend, AnswersArrive
<1>2. data'.books = Landed(B, TRUE)
  BY <1>0, <1>1 DEF Data
<1>3. ASSUME NEW d \in Docs
      PROVE  LET b == data.books[d]
                 c == data'.books[d]
                 s == readwise[Account][d]
                 t == readwise'[Account][d] IN
             /\ Live(c) => Live(b)
             /\ Among(B, d) = {} => c = b /\ t = s
             /\ Among(B, d) # {} =>
                  /\ Live(b) /\ c.bookId = (IF b.bookId # None THEN b.bookId ELSE <<Account, t.copy>>)
                  /\ \A k \in Keys : c.highlights[k].pushed = IF k \in Among(B, d) THEN Want(d, k) ELSE b.highlights[k].pushed
                  /\ t.there /\ t.copy = (IF s.there THEN s.copy ELSE s.copy + 1)
                  /\ \A k \in Keys : t.texts[k] = IF k \in Among(B, d) THEN Want(d, k) ELSE s.texts[k]
  <2> DEFINE b == data.books[d]
             c == data'.books[d]
             s == readwise[Account][d]
             t == readwise'[Account][d]
             x == [k \in Keys |-> IF k \in Among(B, d) THEN Want(d, k) ELSE s.texts[k]]
             hl == [k \in Keys |-> IF k \in Among(B, d) THEN [Settled(b.highlights[k]) EXCEPT !.pushed = Want(d, k)] ELSE b.highlights[k]]
             id == IF b.bookId # None THEN b.bookId ELSE <<Account, t.copy>>
             shown == IF b.shown = "ours" THEN b.shown ELSE "owed"
  <2>1. t = IF Among(B, d) = {} THEN s
            ELSE [there |-> TRUE, copy |-> IF s.there THEN s.copy ELSE s.copy + 1, theirs |-> FALSE, texts |-> x]
    BY <1>0, <1>1 DEF Shelved
  <2>2. c = IF Among(B, d) = {} THEN b ELSE [b EXCEPT !.bookId = id, !.shown = shown, !.highlights = hl]
    BY <1>1, <1>2, ZenonT(40) DEF Landed
  <2>3. b \in Book /\ b.highlights \in [Keys -> Highlight]
    BY <1>0, BookParts
  <2>4. \A k \in Keys : hl[k].pushed = IF k \in Among(B, d) THEN Want(d, k) ELSE b.highlights[k].pushed
    <3>1. \A k \in Keys : [Settled(b.highlights[k]) EXCEPT !.pushed = Want(d, k)].pushed = Want(d, k)
      <4>1. ASSUME NEW k \in Keys PROVE [Settled(b.highlights[k]) EXCEPT !.pushed = Want(d, k)].pushed = Want(d, k)
        <5>1. Settled(b.highlights[k]) \in Highlight
          BY <2>3, HighlightTypes
        <5> QED BY <5>1 DEF Highlight
      <4> QED BY <4>1
    <3> QED BY <3>1
  <2>5. Among(B, d) # {} => Live(b)
    BY WantOf
  <2> HIDE DEF x, hl, id, shown, b, c, t, s
  <2>6. LET e == [b EXCEPT !.bookId = id, !.shown = shown, !.highlights = hl] IN
        e.bookId = id /\ e.highlights = hl /\ e.named = b.named /\ e.deleted = b.deleted
    BY <2>3 DEF Book
  <2>7. Live(c) => Live(b)
    BY <2>2, <2>6 DEF Live
  <2>8. Among(B, d) # {} =>
          /\ t.there /\ t.copy = (IF s.there THEN s.copy ELSE s.copy + 1)
          /\ \A k \in Keys : t.texts[k] = IF k \in Among(B, d) THEN Want(d, k) ELSE s.texts[k]
    BY <2>1 DEF x
  <2>9. Among(B, d) # {} =>
          /\ c.bookId = (IF b.bookId # None THEN b.bookId ELSE <<Account, t.copy>>)
          /\ \A k \in Keys : c.highlights[k].pushed = IF k \in Among(B, d) THEN Want(d, k) ELSE b.highlights[k].pushed
    BY <2>2, <2>4, <2>6 DEF id
  <2> QED BY <2>1, <2>2, <2>5, <2>7, <2>8, <2>9 DEF b, c, s, t
<1>4. \A d \in Docs, a \in Accounts : a # Account => readwise'[a][d] = readwise[a][d]
  BY <1>0, <1>1 DEF Shelved
<1>5. KnownHere'
  <2>1. ASSUME NEW d \in Docs, Live(data'.books[d]), data'.books[d].bookId # None
        PROVE  Live(data.books[d]) /\ (data'.books[d].bookId = data.books[d].bookId \/ data'.books[d].bookId[1] = Account)
    <3>1. CASE Among(B, d) = {}
      BY <1>3, <2>1, <3>1
    <3>2. CASE Among(B, d) # {}
      <4>1. Live(data.books[d])
        BY <1>3, <3>2
      <4>2. data'.books[d].bookId = (IF data.books[d].bookId # None THEN data.books[d].bookId ELSE <<Account, readwise'[Account][d].copy>>)
        BY <1>3, <3>2
      <4> QED BY <4>1, <4>2
    <3> QED BY <3>1, <3>2
  <2> QED BY <1>0, <2>1, KnownCarries
<1>6. Remembered'
  <2>1. SUFFICES ASSUME NEW a \in Accounts, NEW d \in Docs
                 PROVE  RememberedIn(data'.books[d], readwise'[a][d], a, <<a, d>> \in dropped)
    BY DEF Remembered, RememberedIn
  <2> DEFINE b == data.books[d]
             c == data'.books[d]
             s == readwise[a][d]
             t == readwise'[a][d]
             isDropped == <<a, d>> \in dropped
             sent == Among(B, d)
  <2>2. RememberedIn(b, s, a, isDropped)
    BY DEF Remembered
  <2>3. b.bookId # None /\ sent # {} => b.bookId[1] = Account
    BY <1>0, <1>3 DEF KnownHere
  <2>4. s.copy \in Nat /\ b.bookId \in BookIds \cup {None} /\ None \notin BookIds
    <3>1. b \in Book /\ s \in Shelf
      BY <1>0
    <3> QED BY <3>1, BookParts, ShelfParts, PushAssumption DEF BookIds
  <2>5. CASE sent = {}
    <3>1. c = b /\ readwise'[Account][d] = readwise[Account][d]
      BY <1>3, <2>5
    <3>2. t = s
      BY <1>4, <3>1
    <3> HIDE DEF c, t, b, s, isDropped
    <3>3. RememberedIn(c, t, a, isDropped)
      BY <2>2, <3>1, <3>2
    <3> QED BY <3>3 DEF c, t, isDropped
  <2>6. CASE sent # {} /\ a # Account
    <3>0. c.bookId = (IF b.bookId # None THEN b.bookId ELSE <<Account, readwise'[Account][d].copy>>)
      BY <1>3, <2>6
    <3>1. t = s /\ c.bookId # None /\ c.bookId[1] = Account
      <4>1. readwise'[Account][d].copy \in Nat
        <5>1. readwise'[Account][d].copy = (IF readwise[Account][d].there THEN readwise[Account][d].copy ELSE readwise[Account][d].copy + 1)
          BY <1>3, <2>6
        <5>2. readwise[Account][d] \in Shelf
          BY <1>0
        <5> QED BY <5>1, <5>2, ShelfParts
      <4>2. <<Account, readwise'[Account][d].copy>> \in BookIds
        BY <1>0, <4>1 DEF BookIds
      <4> QED BY <1>4, <2>3, <2>4, <2>6, <3>0, <4>2
    <3> HIDE DEF c, t, b, s, isDropped
    <3>2. RememberedIn(c, t, a, isDropped)
      BY <2>2, <2>6, <3>1 DEF RememberedIn
    <3> QED BY <3>2 DEF c, t, isDropped
  <2>7. CASE sent # {} /\ a = Account
    <3>1. /\ c.bookId = (IF b.bookId # None THEN b.bookId ELSE <<a, t.copy>>)
          /\ \A k \in Keys : c.highlights[k].pushed = IF k \in sent THEN Want(d, k) ELSE b.highlights[k].pushed
          /\ t.there /\ t.copy = (IF s.there THEN s.copy ELSE s.copy + 1)
          /\ \A k \in Keys : t.texts[k] = IF k \in sent THEN Want(d, k) ELSE s.texts[k]
      BY <1>3, <2>7
    <3> HIDE DEF c, t, b, s, isDropped, sent
    <3>2. RememberedIn(c, t, a, isDropped)
      <4>1. CASE s.there
        <5>1. t.copy = s.copy /\ <<a, t.copy>> \in BookIds
          BY <2>4, <3>1, <4>1 DEF BookIds
        <5>2. CASE b.bookId = None
          <6>1. c.bookId = <<a, t.copy>> /\ c.bookId[2] <= t.copy /\ c.bookId # None
            BY <2>4, <3>1, <5>1, <5>2
          <6> QED BY <2>2, <3>1, <4>1, <5>2, <6>1 DEF RememberedIn
        <5>3. CASE b.bookId # None
          BY <2>2, <3>1, <4>1, <5>1, <5>3 DEF RememberedIn
        <5> QED BY <5>2, <5>3
      <4>2. CASE ~s.there
        <5>1. \A k \in Keys : s.texts[k] = None
          BY <2>2, <4>2 DEF RememberedIn
        <5>2. b.bookId # None => b.bookId # <<a, t.copy>> /\ (b.bookId[1] = a => b.bookId[2] <= t.copy)
          BY <2>2, <2>4, <3>1, <4>2 DEF RememberedIn, BookIds
        <5>3. c.bookId[1] = a => c.bookId[2] <= t.copy
          <6>1. t.copy \in Nat
            BY <2>4, <3>1, <4>2
          <6>2. CASE b.bookId = None
            <7>1. c.bookId = <<a, t.copy>>
              BY <3>1, <6>2
            <7> QED BY <6>1, <7>1
          <6>3. CASE b.bookId # None
            <7>1. c.bookId = b.bookId
              BY <3>1, <6>3
            <7> QED BY <5>2, <6>3, <7>1
          <6> QED BY <6>2, <6>3
        <5>4. t.there /\ c.bookId # None
          <6>1. <<a, t.copy>> \in BookIds
            BY <2>4, <3>1, <4>2 DEF BookIds
          <6> QED BY <2>4, <3>1, <6>1
        <5>5. ASSUME c.bookId = <<a, t.copy>>, NEW k \in Keys
              PROVE  t.texts[k] \in {None, c.highlights[k].pushed}
          BY <3>1, <5>1, <5>5
        <5> QED BY <5>3, <5>4, <5>5 DEF RememberedIn
      <4> QED BY <4>1, <4>2
    <3> QED BY <3>2 DEF c, t, isDropped
  <2> QED BY <2>5, <2>6, <2>7
<1> QED BY <1>5, <1>6

LEMMA SendRemembers == ASSUME AnswersArrive, Inv, Remembered, KnownHere
                       PROVE  /\ \A B \in SUBSET toSend : SendBatch(B) => Remembered' /\ KnownHere'
                              /\ ResendBatch => Remembered' /\ KnownHere'
<1>0. TypeOK /\ data \in Data
  BY DEF Inv, TypeOK
<1>1. ASSUME NEW B \in SUBSET toSend, SendBatch(B) PROVE Remembered' /\ KnownHere'
  <2>1. pc = "texts" /\ UNCHANGED <<fingerprint, dropped>> /\ Sendable(B)
    BY <1>1 DEF SendBatch, Inv, Sending, Sendable, historyVars
  <2>2. CASE Refused(B) = {}
    <3>1. Land(B) /\ pc' = pc
      BY <1>1, <2>2 DEF SendBatch
    <3> QED BY <2>1, <3>1, LandRemembers DEF SendPCs
  <2>3. CASE Refused(B) # {}
    <3>1. data' = [data EXCEPT !.books = SetAside(Refused(B))] /\ readwise' = readwise /\ pc' \in {"texts", "resend"}
      BY <1>1, <2>3 DEF SendBatch
    <3>2. data'.books = SetAside(Refused(B))
      BY <1>0, <3>1 DEF Data
    <3>3. \A d \in Docs : SameBook(data.books[d], data'.books[d]) /\ (Live(data'.books[d]) <=> Live(data.books[d]))
      BY <1>0, <3>2, AsideSame, SetAsideSame
    <3>4. Remembered'
      BY <2>1, <3>1, <3>3, SameCarries DEF SameShelf
    <3>5. KnownHere'
      BY <2>1, <3>1, <3>3, KnownCarries DEF SendPCs, SameBook
    <3> QED BY <3>4, <3>5
  <2> QED BY <2>2, <2>3
<1>2. ASSUME ResendBatch PROVE Remembered' /\ KnownHere'
  <2>1. pc = "resend" /\ pc' = "texts" /\ Land(batch) /\ Sendable(batch) /\ UNCHANGED <<fingerprint, dropped>>
    BY <1>2 DEF ResendBatch, Inv, Sending, Sendable, historyVars
  <2> QED BY <2>1, LandRemembers DEF SendPCs
<1> QED BY <1>1, <1>2

LEMMA NameRemembers == ASSUME Inv, Remembered, NEW d \in Docs, PutNameBack(d) PROVE Remembered' /\ KnownHere'
<1> DEFINE c == [data.books[d] EXCEPT !.shown = "theirs"]
           t == [readwise[Account][d] EXCEPT !.theirs = TRUE]
<1>0. /\ data \in Data /\ data.books \in [Docs -> Book] /\ readwise \in [Accounts -> [Docs -> Shelf]] /\ Account \in Accounts
      /\ dropped' = dropped /\ pc' \notin SendPCs
  BY DataParts, PushAccount DEF Inv, TypeOK, PutNameBack, PushPCs, SendPCs, historyVars
<1>1. CASE data' = [data EXCEPT !.books = [data.books EXCEPT ![d] = c]]
           /\ readwise' = [readwise EXCEPT ![Account] = [readwise[Account] EXCEPT ![d] = t]]
  <2>1. data'.books = [data.books EXCEPT ![d] = c]
    BY <1>0, <1>1 DEF Data
  <2>2. SameBook(data.books[d], c) /\ SameShelf(readwise[Account][d], t)
    BY <1>0 DEF SameBook, SameShelf, Book, Shelf
  <2> HIDE DEF c, t
  <2>3. \A e \in Docs : SameBook(data.books[e], data'.books[e])
    BY <1>0, <2>1, <2>2 DEF SameBook
  <2>4. \A a \in Accounts, e \in Docs : SameShelf(readwise[a][e], readwise'[a][e])
    BY <1>0, <1>1, <2>2 DEF SameShelf
  <2> QED BY <1>0, <2>3, <2>4, SameCarries, NotKnowing
<1>2. CASE UNCHANGED <<data, readwise>>
  BY <1>0, <1>2, PlainRemembers
<1> QED BY <1>1, <1>2, Zenon DEF PutNameBack

LEMMA BeginsRemembered == Init => Remembered /\ KnownHere
<1> SUFFICES ASSUME Init PROVE Remembered /\ KnownHere
  OBVIOUS
<1>1. \A a \in Accounts, d \in Docs : /\ data.books[d].bookId = None /\ readwise[a][d].there = FALSE
                                      /\ \A k \in Keys : readwise[a][d].texts[k] = None
  BY DEF Init, NoBook
<1> QED BY <1>1 DEF Init, Remembered, RememberedIn, KnownHere, SendPCs

LEMMA NextRemembers == ASSUME AnswersArrive, Inv, Remembered, KnownHere, [Next]_vars PROVE Remembered' /\ KnownHere'
<1>1. CASE UNCHANGED vars
  <2>1. UNCHANGED <<data, readwise, dropped, pc, fingerprint>>
    BY <1>1 DEF vars, pushVars, historyVars
  <2> QED BY <2>1, BooksCarry DEF KnownHere, Account
<1>2. CASE User
  <2>1. ASSUME NEW d \in Docs, \E scope, unread \in SUBSET Keys : WriteInPart(d, scope, unread) PROVE Remembered' /\ KnownHere'
    BY <2>1, WriteRemembers DEF WriteInPart
  <2> QED BY <1>2, <2>1, UserRemembers DEF User
<1>3. CASE StartSync \/ LonePush \/ Sync
  <2>1. ASSUME NEW d \in Docs, WriteWhole(d) PROVE Remembered' /\ KnownHere'
    BY <2>1, WriteRemembers DEF WriteWhole
  <2> QED BY <1>3, <2>1, SyncRemembers DEF Sync
<1>4. CASE Push
  BY <1>4, CheckRemembers, ListingRemembers, QuietRemembers, DeleteRemembers, SendRemembers, NameRemembers DEF Push
<1>5. CASE Trouble
  <2>1. ~Crash /\ \A B : ~LoseAnswer(B)
    BY DEF AnswersArrive, Crash, LoseAnswer, Spend
  <2> QED BY <1>5, <2>1, SyncRemembers, QuietRemembers DEF Trouble
<1> QED BY <1>1, <1>2, <1>3, <1>4, <1>5 DEF Next

LEMMA RememberedIsEnough == Remembered => ReadwiseIsRemembered
<1>1. SUFFICES ASSUME Remembered, NEW a \in Accounts, NEW d \in Docs, data.books[d].bookId # None,
                      Holds(a, d, data.books[d].bookId), <<a, d>> \notin dropped, NEW k \in Keys
               PROVE  readwise[a][d].texts[k] \in {None, data.books[d].highlights[k].pushed}
  BY DEF ReadwiseIsRemembered
<1> QED BY <1>1 DEF Remembered, RememberedIn, Holds

\* Whatever is refused, unreachable, stopped, deleted, renamed or sent under another token: what stands in a book
\* the state knows is what the state says was pushed there, so that recordUnit may rely on it -- if the answers to
\* what landed arrive and can be read, and no quit comes between a push and its save. Without that the code has
\* no such promise: a text whose answer was lost stands there unremembered.
THEOREM WhatStandsIsRemembered == ASSUME AnswersArrive PROVE Spec => []ReadwiseIsRemembered
<1>1. Init => Inv /\ Remembered /\ KnownHere
  BY InitInv, BeginsRemembered
<1>2. Inv /\ Remembered /\ KnownHere /\ [Next]_vars => (Inv /\ Remembered /\ KnownHere)'
  BY AnswersArrive, NextKeeps, NextRemembers
<1>3. Remembered => ReadwiseIsRemembered
  BY RememberedIsEnough
<1> QED BY <1>1, <1>2, <1>3, PTL DEF Spec

\* The same of the run's two instances in one: a behaviour that begins as one account's stays one, and what the
\* other instance may meet -- a lost answer, an unreadable one, a quit in the middle -- does not reach it.
THEOREM OneAccountRemembers == ASSUME AnswersArrive PROVE MCInit /\ [][MCNext]_AllVars => []OneAccountIsRemembered
<1> DEFINE I == part = "one" => Inv /\ Remembered /\ KnownHere
<1>1. MCInit => I
  BY InitInv, BeginsRemembered DEF MCInit
<1>2. I /\ [MCNext]_AllVars => I'
  <2>1. SUFFICES ASSUME I, [MCNext]_AllVars, part' = "one" PROVE (Inv /\ Remembered /\ KnownHere)'
    OBVIOUS
  <2>2. part = "one" /\ [Next]_vars
    BY <2>1 DEF MCNext, Steps, AllVars
  <2> QED BY <2>1, <2>2, AnswersArrive, NextKeeps, NextRemembers
<1>3. I => OneAccountIsRemembered
  BY RememberedIsEnough DEF OneAccountIsRemembered
<1> QED BY <1>1, <1>2, <1>3, PTL

=============================================================================
