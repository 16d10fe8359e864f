---------------------------- MODULE ReadwisePush ----------------------------
(***************************************************************************)
(* What Readwise should hold, what it does hold, and the push that brings  *)
(* the one to the other (src/readwise-state.ts, src/readwise-push.ts).     *)
(* A sync records the digests of the notes it writes in a book per         *)
(* document, with no network; the push after it compares accounts, notices *)
(* books deleted in Readwise, sends deletes and texts, and puts the user's *)
(* book names back.  It works on the data in memory and saves once, at its *)
(* end; each of its requests is a step, and between two of them the user   *)
(* may act in Readwise, and Obsidian may quit.                             *)
(***************************************************************************)
EXTENDS Integers, FiniteSets

CONSTANTS
    Docs, Keys,     \* documents, and the keys of the marks in one
    Texts,          \* what a mark may say
    Refusable,      \* the texts Readwise answers 400 to
    Tokens,         \* access tokens, by their fingerprints
    Accounts,
    AccountOf,      \* [Tokens -> Accounts]
    None, Gone,     \* "absent"; the want that is a delete
    Batch,          \* MAX_PUSH_BATCH
    Ops,            \* the environment operations of this instance
    Changes         \* bound: environment operations per behaviour

OpNames == {"mark", "erase", "part", "rerender", "deleteBook", "rename", "switch", "token", "again", "startOver",
            "switchOpening", "stop", "fail", "lost", "unreadable", "crash"}

ASSUME PushAssumption ==
    /\ Refusable \subseteq Texts /\ None \notin Texts /\ Gone \notin Texts /\ None # Gone /\ None \notin Tokens
    /\ None \notin Accounts \X Nat
    /\ AccountOf \in [Tokens -> Accounts]
    /\ Batch \in Nat \ {0} /\ Changes \in Nat /\ Ops \subseteq OpNames

\* One highlight's record.  Nothing pushed and nothing wanted is a record that is not there.
Highlight == [pushed : Texts \cup {None}, want : Texts \cup {None, Gone}, rejected : Texts \cup {None}]

\* Readwise's id of a book: the account, and which of the document's books there it is.
BookIds == Accounts \X Nat

Book == [named : BOOLEAN, bookId : BookIds \cup {None}, deleted : BOOLEAN,
         shown : {"ours", "theirs", "owed"}, highlights : [Keys -> Highlight]]

\* The part of data.json the recorder and the push use; due: the documents whose notes a run has to write.
Data == [books : [Docs -> Book], account : Tokens \cup {None}, before : Tokens \cup {None},
         clash : BOOLEAN, recording : BOOLEAN, due : SUBSET Docs]

\* One of our books in one account.
Shelf == [there : BOOLEAN, copy : Nat, texts : [Keys -> Texts \cup {None}], theirs : BOOLEAN]

VARIABLES
    tablet,             \* [Docs -> [Keys -> text or None]]: the marks
    readwise,           \* [Accounts -> [Docs -> Shelf]]
    data, saved,        \* this.data, and data.json
    token, on,          \* this computer's token; Pro and the switch
    pc,
    recorder,           \* the run was given a recorder
    fingerprint,        \* the push's
    toSend, batch,      \* texts still to go, and what is left of a refused batch
    toName,             \* books still to look at for names
    late, dropped, named, \* history: books deleted since this push listed them; books the state was dropped
                        \* for; books the user gave names of their own
    budget

pushVars == <<fingerprint, toSend, batch, toName>>
worldVars == <<tablet, token, on>>
historyVars == <<dropped, named>>
vars == <<tablet, readwise, data, saved, token, on, pc, recorder, pushVars, late, historyVars, budget>>

PushPCs == {"account", "comparing", "listing", "deletes", "texts", "resend", "names"}

-----------------------------------------------------------------------------
(* Books and records. *)

Absent == [pushed |-> None, want |-> None, rejected |-> None]
NoBook == [named |-> FALSE, bookId |-> None, deleted |-> FALSE, shown |-> "ours", highlights |-> [k \in Keys |-> Absent]]

IsPending(r) == r.want = Gone \/ (r.want # None /\ r.want # r.rejected)
Settled(r) == [r EXCEPT !.want = None, !.rejected = None]

Live(b) == b.named /\ ~b.deleted

\* wanting: the tablet is back to what Readwise holds, or there is a text to push.
Wanting(r, t) == IF r.pushed = t THEN Settled(r) ELSE [r EXCEPT !.want = t]

\* Mutant: an erased mark's record is dropped, pushed or not.
ErasedAtOnce(r) == Absent
Erased(r) == IF r.pushed # None THEN [r EXCEPT !.want = Gone] ELSE Absent

\* recordUnit: a unit speaks for the keys in scope; a mark that could not be read is left as it is.
RecordUnit(b, marks, scope, unread) ==
    LET hl == [k \in Keys |-> IF k \notin scope \/ (marks[k] # None /\ k \in unread) THEN b.highlights[k]
                              ELSE IF marks[k] # None THEN Wanting(b.highlights[k], marks[k])
                              ELSE Erased(b.highlights[k])]
    IN IF b.deleted \/ (~b.named /\ hl = NoBook.highlights) THEN b
       ELSE [b EXCEPT !.named = TRUE, !.highlights = hl]

PendingIn(b) == IF Live(b) THEN {k \in Keys : IsPending(b.highlights[k])} ELSE {}
Owed(b) == Live(b) /\ b.shown = "owed" /\ b.bookId # None
HasWork(bs) == \E d \in Docs : PendingIn(bs[d]) # {} \/ Owed(bs[d])
KnownBooks(bs) == {d \in Docs : Live(bs[d]) /\ bs[d].bookId # None}

\* Is this the book Readwise has for the document in this account?
Holds(a, d, id) == readwise[a][d].there /\ id = <<a, readwise[a][d].copy>>

\* Mutant: a change pending in a book that is gone is enough to send it again.
ReadListingKeeping(a, bs) ==
    [d \in Docs |->
        LET b == bs[d] IN
        IF d \notin KnownBooks(bs) THEN b
        ELSE IF ~Holds(a, d, b.bookId) /\ PendingIn(b) = {} THEN [b EXCEPT !.deleted = TRUE]
        ELSE IF readwise[a][d].theirs THEN [b EXCEPT !.shown = "theirs"]
        ELSE IF b.shown = "owed" THEN b ELSE [b EXCEPT !.shown = "ours"]]

\* readListing, of the account's listing.
ReadListing(a, bs) ==
    [d \in Docs |->
        LET b == bs[d] IN
        IF d \notin KnownBooks(bs) THEN b
        ELSE IF ~Holds(a, d, b.bookId)
             THEN [b EXCEPT !.deleted = TRUE,
                            !.highlights = [k \in Keys |-> IF b.highlights[k].pushed # None THEN Settled(b.highlights[k]) ELSE Absent]]
        ELSE IF readwise[a][d].theirs THEN [b EXCEPT !.shown = "theirs"]
        ELSE IF b.shown = "owed" THEN b ELSE [b EXCEPT !.shown = "ours"]]

-----------------------------------------------------------------------------
(* The user, on the tablet, in Readwise and in the settings. *)

Spend(op) == op \in Ops /\ budget > 0 /\ budget' = budget - 1

Mark(d, k, t) ==
    /\ Spend(IF t = None THEN "erase" ELSE "mark") /\ tablet[d][k] # t
    /\ tablet' = [tablet EXCEPT ![d] = [tablet[d] EXCEPT ![k] = t]]
    /\ data' = [data EXCEPT !.due = @ \cup {d}] /\ saved' = [saved EXCEPT !.due = @ \cup {d}]
    /\ UNCHANGED <<readwise, token, on, pc, recorder, pushVars, late, historyVars>>

\* A book deleted in Readwise.
DeleteBook(a, d) ==
    /\ Spend("deleteBook") /\ readwise[a][d].there
    /\ readwise' = [readwise EXCEPT ![a] = [readwise[a] EXCEPT ![d] =
                      [readwise[a][d] EXCEPT !.there = FALSE, !.texts = [k \in Keys |-> None], !.theirs = FALSE]]]
    /\ late' = late \cup {d} /\ named' = named \ {<<a, d>>} /\ dropped' = dropped \ {<<a, d>>}
    /\ UNCHANGED <<worldVars, data, saved, pc, recorder, pushVars>>

\* A book given another name, author or category in Readwise.
RenameBook(a, d) ==
    /\ Spend("rename") /\ readwise[a][d].there /\ ~readwise[a][d].theirs
    /\ readwise' = [readwise EXCEPT ![a] = [readwise[a] EXCEPT ![d] = [readwise[a][d] EXCEPT !.theirs = TRUE]]]
    /\ named' = IF pc \in {"deletes", "texts", "resend"} THEN named ELSE named \cup {<<a, d>>}
    /\ UNCHANGED <<worldVars, data, saved, pc, recorder, pushVars, late, dropped>>

\* The switch, or the licence; a changed setting saves all of data.
SwitchPush ==
    /\ Spend(IF pc = "opening" THEN "switchOpening" ELSE "switch") /\ on' = ~on /\ saved' = data
    /\ UNCHANGED <<tablet, readwise, data, token, pc, recorder, pushVars, late, historyVars>>

\* Another token, or the other computer that shares this vault and has its turn.
ChangeToken(t) ==
    /\ pc = "idle" /\ t # token /\ token' = t
    /\ UNCHANGED <<tablet, readwise, data, saved, on, pc, recorder, pushVars, late, historyVars>>
StoreToken(t) == Spend("token") /\ ChangeToken(t)

ForgetBooks(bs, D) == [d \in Docs |-> IF d \in D THEN NoBook ELSE bs[d]]
\* Their books, in any account, that the state no longer speaks for.
NowDropped(D) == dropped \cup {p \in Accounts \X D : readwise[p[1]][p[2]].there}

\* Push to Readwise again, of a book deleted there.
PushBookAgain(d) ==
    /\ Spend("again") /\ pc = "idle" /\ on /\ data.books[d].deleted
    /\ data' = [data EXCEPT !.books = ForgetBooks(data.books, {d}), !.due = data.due \cup {d}]
    /\ saved' = data' /\ dropped' = NowDropped({d})
    /\ UNCHANGED <<worldVars, readwise, pc, recorder, pushVars, late, named>>

StartOver ==
    /\ Spend("startOver") /\ pc = "idle" /\ data.clash /\ token # None
    /\ data' = [data EXCEPT !.books = ForgetBooks(data.books, Docs), !.account = None, !.before = None,
                            !.clash = FALSE, !.recording = FALSE]
    /\ saved' = data' /\ dropped' = NowDropped(Docs)
    /\ UNCHANGED <<worldVars, readwise, pc, recorder, pushVars, late, named>>

-----------------------------------------------------------------------------
(* The sync: what it records. *)

\* startReadwiseRecording: recording that has not started makes every document due once.
StartSync ==
    /\ pc = "idle" /\ pc' = "opening"
    /\ data' = [data EXCEPT !.recording = on, !.due = IF on /\ ~data.recording THEN Docs ELSE data.due]
    /\ saved' = data'
    /\ UNCHANGED <<worldVars, readwise, recorder, pushVars, late, historyVars, budget>>
\* The tablet answers, and only now the run gets its recorder.
OpenSource ==
    /\ pc = "opening" /\ pc' = "units" /\ recorder' = on
    /\ UNCHANGED <<worldVars, readwise, data, saved, pushVars, late, historyVars, budget>>

\* A note written, with its digest recorded or not, and the checkpoint.
WriteNote(d, scope, unread) ==
    /\ pc = "units" /\ d \in data.due
    /\ data' = [data EXCEPT !.books = IF recorder THEN [data.books EXCEPT ![d] = RecordUnit(data.books[d], tablet[d], scope, unread)]
                                                  ELSE data.books,
                            !.due = IF scope = Keys /\ unread = {} THEN data.due \ {d} ELSE data.due]
    /\ saved' = data'
    /\ UNCHANGED <<worldVars, readwise, pc, recorder, pushVars, late, historyVars>>

WriteWhole(d) == WriteNote(d, Keys, {}) /\ UNCHANGED budget
\* One page's unit, a digest that failed, marks that could not be read: the document is due for the rest.
WriteInPart(d, scope, unread) == Spend("part") /\ (scope # Keys \/ unread # {}) /\ WriteNote(d, scope, unread)

NoPush == /\ pc' = "idle" /\ recorder' = FALSE
          /\ fingerprint' = None /\ toSend' = {} /\ batch' = {} /\ toName' = {} /\ late' = {}

\* Mutant: pushes with no token on this computer.
BeginPushTokenless ==
    IF on THEN pc' = "account" /\ fingerprint' = token /\ UNCHANGED <<recorder, toSend, batch, toName, late>>
    ELSE NoPush

BeginPush ==
    IF token # None /\ on THEN pc' = "account" /\ fingerprint' = token /\ UNCHANGED <<recorder, toSend, batch, toName, late>>
    ELSE NoPush

EndUnits ==
    /\ pc = "units" /\ data.due = {} /\ BeginPush
    /\ UNCHANGED <<worldVars, readwise, data, saved, historyVars, budget>>
\* A run that fails pushes all the same, one the user stopped does not.
EndEarly ==
    /\ pc \in {"opening", "units"} /\ Spend("stop")
    /\ NoPush \/ BeginPush
    /\ UNCHANGED <<worldVars, readwise, data, saved, historyVars>>
\* A tick whose tablet sleeps.
LonePush ==
    /\ pc = "idle" /\ token # None /\ on /\ BeginPush
    /\ UNCHANGED <<worldVars, readwise, data, saved, historyVars, budget>>

-----------------------------------------------------------------------------
(* The push. *)

Account == AccountOf[fingerprint]

\* The push is over, whatever it got to: what it knows is saved.
EndPush == NoPush /\ saved' = data'

Clashed == data.clash /\ fingerprint \in {data.account, data.before}

\* Mutant: every other account is a new start.
SwitchAccountAlways ==
    /\ data' = [data EXCEPT !.books = ForgetBooks(data.books, Docs), !.recording = FALSE, !.clash = FALSE,
                            !.before = data.account, !.account = fingerprint]
    /\ dropped' = NowDropped(Docs) /\ UNCHANGED named /\ EndPush

\* switchAccount: back to the account just left is a clash; any other is a new start there.
SwitchAccount ==
    /\ IF fingerprint = data.before
       THEN data' = [data EXCEPT !.clash = TRUE] /\ UNCHANGED historyVars
       ELSE /\ data' = [data EXCEPT !.books = ForgetBooks(data.books, Docs), !.recording = FALSE, !.clash = FALSE,
                                    !.before = data.account, !.account = fingerprint]
            /\ dropped' = NowDropped(Docs) /\ UNCHANGED named
    /\ EndPush

Compares == fingerprint # data.account /\ data.account # None /\ KnownBooks(data.books) # {}

\* The start of pushToReadwise, up to its first request.
CheckAccount ==
    /\ pc = "account"
    /\ \/ /\ Clashed /\ UNCHANGED <<data, historyVars>> /\ EndPush
       \/ /\ ~Clashed /\ fingerprint = data.account
          /\ data' = [data EXCEPT !.clash = FALSE]
          /\ IF HasWork(data.books) \/ KnownBooks(data.books) # {}
             THEN pc' = "listing" /\ UNCHANGED <<saved, recorder, pushVars, late>> ELSE EndPush
          /\ UNCHANGED historyVars
       \/ /\ ~Clashed /\ Compares
          /\ data' = [data EXCEPT !.clash = FALSE] /\ pc' = "comparing"
          /\ UNCHANGED <<saved, recorder, pushVars, late, historyVars>>
       \/ /\ ~Clashed /\ fingerprint # data.account /\ ~Compares /\ fingerprint = data.before
          /\ SwitchAccount
       \/ /\ ~Clashed /\ fingerprint # data.account /\ ~Compares /\ fingerprint # data.before
          /\ data' = [data EXCEPT !.clash = FALSE, !.account = fingerprint]
          /\ IF HasWork(data.books) THEN pc' = "listing" /\ UNCHANGED <<saved, recorder, pushVars, late>> ELSE EndPush
          /\ UNCHANGED historyVars
    /\ UNCHANGED <<worldVars, readwise, budget>>

\* Erased and nothing else pending, sorted out before any create.
Deletes(bs) == {m \in Docs \X Keys : m[2] \in PendingIn(bs[m[1]]) /\ bs[m[1]].highlights[m[2]].want = Gone}
Outgoing(bs) == {m \in Docs \X Keys : m[2] \in PendingIn(bs[m[1]]) /\ bs[m[1]].highlights[m[2]].want # Gone}

Listed(bs) ==
    /\ data' = [data EXCEPT !.books = ReadListing(Account, bs), !.account = fingerprint]
    /\ late' = {} /\ pc' = "deletes"
    /\ UNCHANGED <<saved, recorder, pushVars, historyVars>>

\* The listing a new token asks for: another account, or the same one under a new token.
CompareAccounts ==
    /\ pc = "comparing"
    /\ IF \E d \in KnownBooks(data.books) : Holds(Account, d, data.books[d].bookId) THEN Listed(data.books) ELSE SwitchAccount
    /\ UNCHANGED <<worldVars, readwise, budget>>
ListBooks ==
    /\ pc = "listing" /\ Listed(data.books)
    /\ UNCHANGED <<worldVars, readwise, budget>>

WithHighlight(bs, d, k, r) == [bs EXCEPT ![d] = [bs[d] EXCEPT !.highlights = [bs[d].highlights EXCEPT ![k] = r]]]

\* sendDeletes, one mark: by its id, or by the id the book's listing has for its link.  Gone already
\* is gone; in a book of no known id it cannot be addressed, and stays in Readwise.
SendDelete(d, k) ==
    /\ pc = "deletes" /\ <<d, k>> \in Deletes(data.books)
    /\ data' = [data EXCEPT !.books = WithHighlight(data.books, d, k, Absent)]
    /\ readwise' = IF Holds(Account, d, data.books[d].bookId)
                   THEN [readwise EXCEPT ![Account] = [readwise[Account] EXCEPT ![d] =
                           [readwise[Account][d] EXCEPT !.texts = [readwise[Account][d].texts EXCEPT ![k] = None]]]]
                   ELSE readwise
    /\ UNCHANGED <<worldVars, saved, pc, recorder, pushVars, late, historyVars, budget>>
DeletesSent ==
    /\ pc = "deletes" /\ Deletes(data.books) = {}
    /\ pc' = "texts" /\ toSend' = Outgoing(data.books)
    /\ UNCHANGED <<worldVars, readwise, data, saved, recorder, fingerprint, batch, toName, late, historyVars, budget>>

Want(d, k) == data.books[d].highlights[k].want
Refused(B) == {m \in B : Want(m[1], m[2]) \in Refusable}
Among(B, d) == {k \in Keys : <<d, k>> \in B}

\* Readwise with the batch in it: a book that is not there is opened, and one that is takes our name again.
Shelved(B) ==
    [readwise EXCEPT ![Account] = [d \in Docs |->
        LET s == readwise[Account][d] IN
        IF Among(B, d) = {} THEN s
        ELSE [there |-> TRUE, copy |-> IF s.there THEN s.copy ELSE s.copy + 1, theirs |-> FALSE,
              texts |-> [k \in Keys |-> IF k \in Among(B, d) THEN Want(d, k) ELSE s.texts[k]]]]]

\* Mutant: names that a push reset are not put back.
LandedForgetful(B, readable) ==
    [d \in Docs |->
        LET b == data.books[d]
            s == Shelved(B)[Account][d] IN
        IF Among(B, d) = {} THEN b
        ELSE [b EXCEPT !.bookId = IF @ # None \/ ~readable THEN @ ELSE <<Account, s.copy>>,
                       !.highlights = [k \in Keys |-> IF k \in Among(B, d) THEN [Settled(b.highlights[k]) EXCEPT !.pushed = Want(d, k)]
                                                      ELSE b.highlights[k]]]]

\* land: pushed, and the book's id learnt, if the answer can be read.
Landed(B, readable) ==
    [d \in Docs |->
        LET b == data.books[d]
            s == Shelved(B)[Account][d] IN
        IF Among(B, d) = {} THEN b
        ELSE [b EXCEPT !.bookId = IF @ # None \/ ~readable THEN @ ELSE <<Account, s.copy>>,
                       !.shown = IF @ = "ours" THEN @ ELSE "owed",
                       !.highlights = [k \in Keys |-> IF k \in Among(B, d) THEN [Settled(b.highlights[k]) EXCEPT !.pushed = Want(d, k)]
                                                      ELSE b.highlights[k]]]]

Land(B) ==
    /\ readwise' = Shelved(B)
    /\ \/ data' = [data EXCEPT !.books = Landed(B, TRUE)] /\ UNCHANGED budget
       \/ Spend("unreadable") /\ data' = [data EXCEPT !.books = Landed(B, FALSE)]

SetAside(B) ==
    [d \in Docs |-> [data.books[d] EXCEPT !.highlights = [k \in Keys |->
        IF <<d, k>> \in B THEN [data.books[d].highlights[k] EXCEPT !.rejected = Want(d, k)] ELSE data.books[d].highlights[k]]]]

NextBatch(B) == B \subseteq toSend /\ B # {} /\ (Cardinality(B) = Batch \/ (B = toSend /\ Cardinality(B) < Batch))

\* One batch: landed, or its refused items set aside and the rest kept for one more call.
SendBatch(B) ==
    /\ pc = "texts" /\ NextBatch(B) /\ toSend' = toSend \ B
    /\ IF Refused(B) = {}
       THEN Land(B) /\ UNCHANGED <<pc, batch>>
       ELSE /\ data' = [data EXCEPT !.books = SetAside(Refused(B))] /\ batch' = B \ Refused(B)
            /\ pc' = IF batch' = {} THEN "texts" ELSE "resend"
            /\ UNCHANGED <<readwise, budget>>
    /\ UNCHANGED <<worldVars, saved, recorder, fingerprint, toName, late, historyVars>>
ResendBatch ==
    /\ pc = "resend" /\ pc' = "texts" /\ Land(batch) /\ batch' = {}
    /\ UNCHANGED <<worldVars, saved, recorder, fingerprint, toSend, toName, late, historyVars>>

\* The batch landed, its answer did not arrive: as unreachable as one that never left.
LoseAnswer(B) ==
    /\ Spend("lost")
    /\ \/ pc = "texts" /\ NextBatch(B) /\ Refused(B) = {}
       \/ pc = "resend" /\ B = batch
    /\ readwise' = Shelved(B) /\ UNCHANGED data /\ EndPush
    /\ UNCHANGED <<worldVars, historyVars>>

TextsSent ==
    /\ pc = "texts" /\ toSend = {} /\ pc' = "names"
    /\ toName' = {d \in Docs : Owed(data.books[d])}
    /\ UNCHANGED <<worldVars, readwise, data, saved, recorder, fingerprint, toSend, batch, late, historyVars, budget>>

\* putNamesBack, one book; a failure leaves it owed and goes on with the next.
PutNameBack(d) ==
    /\ pc = "names" /\ d \in toName /\ toName' = toName \ {d}
    /\ \/ /\ data' = [data EXCEPT !.books = [data.books EXCEPT ![d] = [data.books[d] EXCEPT !.shown = "theirs"]]]
          /\ Holds(Account, d, data.books[d].bookId)
          /\ readwise' = [readwise EXCEPT ![Account] = [readwise[Account] EXCEPT ![d] = [readwise[Account][d] EXCEPT !.theirs = TRUE]]]
          /\ UNCHANGED budget
       \/ ~Holds(Account, d, data.books[d].bookId) /\ UNCHANGED <<data, readwise, budget>>
       \/ Spend("fail") /\ UNCHANGED <<data, readwise>>
    /\ UNCHANGED <<worldVars, saved, pc, recorder, fingerprint, toSend, batch, late, historyVars>>
FinishPush ==
    /\ pc = "names" /\ toName = {} /\ UNCHANGED data /\ EndPush
    /\ UNCHANGED <<worldVars, readwise, historyVars, budget>>

\* readwise.io does not answer, or answers no: what landed so far is kept.
PushFails ==
    /\ \/ pc \in {"comparing", "listing", "resend"}
       \/ pc = "deletes" /\ Deletes(data.books) # {}
       \/ pc = "texts" /\ toSend # {}
    /\ Spend("fail") /\ UNCHANGED data /\ EndPush
    /\ UNCHANGED <<worldVars, readwise, historyVars>>

\* Obsidian quits in the middle of a push: data.json is as the last save left it.
Crash ==
    /\ pc \in PushPCs /\ Spend("crash") /\ data' = saved /\ UNCHANGED saved /\ NoPush
    /\ UNCHANGED <<worldVars, readwise, historyVars>>

-----------------------------------------------------------------------------
(* The specification. *)

Init ==
    /\ tablet \in [Docs -> [Keys -> Texts \cup {None}]] /\ \A d \in Docs : \E k \in Keys : tablet[d][k] # None
    /\ readwise = [a \in Accounts |-> [d \in Docs |-> [there |-> FALSE, copy |-> 0, texts |-> [k \in Keys |-> None], theirs |-> FALSE]]]
    /\ data = [books |-> [d \in Docs |-> NoBook], account |-> None, before |-> None, clash |-> FALSE, recording |-> FALSE, due |-> Docs]
    /\ saved = data /\ token \in Tokens /\ on = TRUE
    /\ pc = "idle" /\ recorder = FALSE /\ fingerprint = None /\ toSend = {} /\ batch = {} /\ toName = {}
    /\ late = {} /\ dropped = {} /\ named = {} /\ budget = Changes

User ==
    \/ \E d \in Docs, k \in Keys, t \in Texts \cup {None} : Mark(d, k, t)
    \/ \E a \in Accounts, d \in Docs : DeleteBook(a, d) \/ RenameBook(a, d)
    \/ \E t \in Tokens \cup {None} : StoreToken(t)
    \/ \E d \in Docs : PushBookAgain(d) \/ \E scope, unread \in SUBSET Keys : WriteInPart(d, scope, unread)
    \/ SwitchPush \/ StartOver

Sync == OpenSource \/ EndUnits \/ \E d \in Docs : WriteWhole(d)

Push ==
    \/ CheckAccount \/ CompareAccounts \/ ListBooks \/ DeletesSent \/ ResendBatch \/ TextsSent \/ FinishPush
    \/ \E d \in Docs : PutNameBack(d) \/ \E k \in Keys : SendDelete(d, k)
    \/ \E B \in SUBSET toSend : SendBatch(B)

Trouble == EndEarly \/ PushFails \/ Crash \/ \E B \in SUBSET (toSend \cup batch) : LoseAnswer(B)

Next == User \/ StartSync \/ LonePush \/ Sync \/ Push \/ Trouble

Spec == Init /\ [][Next]_vars
\* Requests are answered or time out, and the background sync comes round again.
FairSpec == Spec /\ WF_vars(Sync \/ Push) /\ SF_vars(StartSync)

\* Two computers share the vault and take turns, each with its own token.
Turns == Next \/ \E t \in Tokens : ChangeToken(t) /\ UNCHANGED budget
TurnsSpec ==
    /\ Init /\ [][Turns]_vars /\ WF_vars(Sync \/ Push)
    /\ \A t \in Tokens : SF_vars(token = t /\ StartSync) /\ SF_vars(ChangeToken(t) /\ UNCHANGED budget)
-----------------------------------------------------------------------------
(* Properties. *)

\* Every variable has its type.
TypeOK ==
    /\ tablet \in [Docs -> [Keys -> Texts \cup {None}]] /\ readwise \in [Accounts -> [Docs -> Shelf]]
    /\ data \in Data /\ saved \in Data
    /\ token \in Tokens \cup {None} /\ on \in BOOLEAN /\ recorder \in BOOLEAN
    /\ pc \in {"idle", "opening", "units"} \cup PushPCs
    /\ fingerprint \in Tokens \cup {None} /\ (pc \in PushPCs => fingerprint # None)
    /\ toSend \subseteq Docs \X Keys /\ batch \subseteq Docs \X Keys /\ toName \subseteq Docs
    /\ late \subseteq Docs /\ dropped \subseteq Accounts \X Docs /\ named \subseteq Accounts \X Docs /\ budget \in Nat

\* Whatever Readwise shows in a book the state knows is what the state says was pushed there: nothing
\* that a later erasure or a later way back to an old text would leave standing (recordUnit relies on it).
ReadwiseIsRemembered ==
    \A a \in Accounts, d \in Docs :
        LET b == data.books[d] IN
        Live(b) /\ b.bookId # None /\ Holds(a, d, b.bookId) /\ <<a, d>> \notin dropped
        => \A k \in Keys : readwise[a][d].texts[k] \in {None, b.highlights[k].pushed}

\* "A book you delete in Readwise stays deleted" (README.md:667): a push opens a book only for a document
\* of no known book, or one deleted after the push asked for the listing (readListing).
DeletedStaysDeleted ==
    [][\A a \in Accounts, d \in Docs :
          ~readwise[a][d].there /\ readwise'[a][d].there => data.books[d].bookId = None \/ d \in late]_vars

\* The tablet wins: the marks are in the account of the token, except those Readwise refuses and those of
\* a book deleted there; what was erased is gone; a book the user named has the user's name.  Of what
\* stands in a book the state was dropped for nothing is known: it may stay, and the name may go.
Mirrored ==
    LET a == AccountOf[token] IN
    \A d \in Docs : ~data.books[d].deleted =>
        /\ \A k \in Keys : \/ readwise[a][d].texts[k] = tablet[d][k]
                           \/ tablet[d][k] \in Refusable
                           \/ tablet[d][k] = None /\ <<a, d>> \in dropped
        /\ <<a, d>> \in named \ dropped => readwise[a][d].theirs

\* Whatever was refused, unreachable, stopped or switched off on the way, once the user leaves things
\* alone the pushes bring Readwise to what the tablet shows, unless two accounts stopped them.
AtRest == on /\ token # None /\ ~data.clash => Mirrored
Settles == <>[]AtRest

\* "if two computers push to two different accounts, both stop" (README.md:648): they do not drop and
\* fill the state in turns for ever (switchAccount); only a state that knows no book cannot tell.
BothStopped == data.clash \/ ~on \/ KnownBooks(data.books) = {}
TwoAccountsStop == <>[]BothStopped
=============================================================================
