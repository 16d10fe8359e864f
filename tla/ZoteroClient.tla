----------------------------- MODULE ZoteroClient -----------------------------
(***************************************************************************)
(* The plugin's client of Zotero: two connections to the same libraries,   *)
(* the desktop app and zotero.org, each with its own copy of every item    *)
(* and its own version numbers (zotero-client.ts, zotero-local.ts,         *)
(* zotero-web.ts).                                                         *)
(*                                                                         *)
(* A listing is asked page by page, one library after the other; creates   *)
(* go in batches; both fall back from one connection to the other. A patch *)
(* goes back to where its item was read. The user works in Zotero all the  *)
(* while. Bounded: the changes of the user (MaxEdits) and the calls of the *)
(* plugin (MaxCalls).                                                      *)
(***************************************************************************)
EXTENDS Naturals, FiniteSets, SequencesExt, Absent

CONSTANTS
    Order,          \* the connections, in the order they are asked
    Groups,         \* sequence of the groups the vault has switched on
    Shelves,        \* what the connections may hold at first: a sequence of rows, or Missing, each
    Missing,           \* a library a connection does not have
    PAGE_SIZE, MAX_PAGES, MAX_BATCH,
    Statuses,       \* answers other than a good one and than that of a library that is Missing; 0 when there is none
    Clicks,         \* what the user may answer in the desktop app's dialog
    Bodies,         \* how many items a create asks for
    MaxEdits, MaxCalls

Connections == Range(Order)
libraries == <<"user">> \o Groups

\* What Zotero has of an item. Its id tells whether it was there at first, or who made it and when.
Items == [id : Nat \X Nat, version : Nat, text : {"first", "theirs", "new", "ours"}, fits : BOOLEAN]
Holdings == [Connections -> [Range(libraries) -> Seq(Items) \cup {Missing}]]

ASSUME ClientAssumption ==
    /\ {PAGE_SIZE, MAX_PAGES, MAX_BATCH} \subseteq Nat \ {0} /\ {Bodies, MaxEdits, MaxCalls} \subseteq Nat
    /\ {Order, libraries} \subseteq Seq(STRING) \ {<<>>}
    /\ IsInjective(Order) /\ IsInjective(libraries)
    /\ \A s \in Shelves :
        /\ s \in Holdings
        /\ \A c \in Connections, l \in Range(libraries) : s[c][l] # Missing =>
            \A i, j \in DOMAIN s[c][l] : s[c][l][i].id[1] = 0 /\ (s[c][l][i].id = s[c][l][j].id => i = j)
    /\ 404 \notin Statuses
    /\ None \notin STRING /\ None \notin Nat \X Nat /\ Missing \notin Seq(Items)

VARIABLES
    shelf,      \* [connection -> [library -> rows, newest change first]]
    permit,     \* the stored key of the desktop app: None, "once", "spent" or "always"
    request,    \* the call under way, or None
    answer,     \* what the last call ended with
    accepted,   \* [body, by]: bodies of the create at hand that Zotero has made an item of
    edits, calls

clientVars == <<shelf, permit, request, answer, accepted, edits, calls>>

CAN_FALL_BACK == {"unreachable", "not-enabled", "denied", "unauthorized", "rate-limited"}

\* A 403 of the desktop app in whose settings other applications are switched off, told by its body.
LOCAL_API_OFF == 4030
StatusesOf(c) == {s \in Statuses : s = LOCAL_API_OFF => c = "local"}

\* The plugin's word for a status; on a write any other 403 is the library's answer and not the key's.
failureFor(status, write) ==
    CASE status = 0 -> "unreachable"
      [] status = 401 -> "unauthorized"
      [] status = LOCAL_API_OFF -> "not-enabled"
      [] status = 403 -> IF write THEN "read-only" ELSE "unauthorized"
      [] status = 404 -> "not-found"
      [] status \in {429, 503} -> "rate-limited"
      [] OTHER -> "server"

NoAnswer == [op |-> "none"]

ClientInit ==
    /\ shelf \in Shelves
    /\ permit = None /\ request = None /\ answer = NoAnswer /\ accepted = {}
    /\ edits = MaxEdits /\ calls = MaxCalls

-----------------------------------------------------------------------------
(* Listings: listAll inside call inside listEach. *)

\* A row of the kind that was asked for: a usable PDF, an item, a note or annotation of ours under that parent.
Wanted(rows) == {r \in Range(rows) : r.fits}

\* As the plugin keeps them: with the connection whose version they carry, and their library.
Converted(rows, c, lib) == {[id |-> r.id, version |-> r.version, text |-> r.text, source |-> c, lib |-> lib] : r \in rows}

Body(c, lib, page) ==
    LET rows == shelf[c][lib]
        end == IF (page + 1) * PAGE_SIZE < Len(rows) THEN (page + 1) * PAGE_SIZE ELSE Len(rows)
    IN SubSeq(rows, page * PAGE_SIZE + 1, end)

\* A shorter page than was asked for is the last, whatever is wanted of it.
LastWanted(body) == Cardinality(Wanted(body)) < PAGE_SIZE
IsLast(body) == Len(body) < PAGE_SIZE

\* All libraries one after the other, or one of them; a listing of all may do without a group.
StartList ==
    /\ request = None /\ calls > 0 /\ calls' = calls - 1
    /\ \E libs \in {libraries} \cup {<<l>> : l \in Range(libraries)} :
        request' = [op |-> "list", libs |-> libs, each |-> libs = libraries, at |-> 1, page |-> 0, got |-> {},
                    rows |-> {}, from |-> <<>>, before |-> shelf, clean |-> TRUE]
    /\ answer' = NoAnswer /\ accepted' = {}
    /\ UNCHANGED <<shelf, permit, edits>>

Lib == request.libs[Len(request.from) + 1]
ListAnswer(req) == [op |-> "list", libs |-> req.libs, rows |-> req.rows, from |-> req.from, before |-> req.before, clean |-> req.clean]

\* One library is done; c is the connection that gave it, None when none has it.
Library(req, c) ==
    LET on == [req EXCEPT !.rows = @ \cup req.got, !.from = Append(@, c), !.at = 1, !.page = 0, !.got = {}]
    IN IF Len(on.from) = Len(on.libs)
       THEN request' = None /\ answer' = ListAnswer(on)
       ELSE request' = on /\ UNCHANGED answer

AsOutage(req, reason) == reason \in CAN_FALL_BACK
\* An answer is an answer, from whichever connection; but a group a connection does not hold, another may.
FallsThrough(req, reason) == reason \in CAN_FALL_BACK \/ (req.op = "list" /\ req.each /\ Lib # "user" /\ reason = "not-found")

ToNext(req) == [req EXCEPT !.at = @ + 1, !.page = 0, !.got = {}]
Thrown(req, reason) == request' = None /\ answer' = [op |-> "failed", of |-> req.op, reason |-> reason]

ListFails(reason) ==
    IF FallsThrough(request, reason) /\ request.at < Len(Order)
    THEN request' = ToNext(request) /\ UNCHANGED answer
    ELSE IF request.each /\ Lib # "user" /\ reason = "not-found"
         THEN Library([request EXCEPT !.got = {}], None)
         ELSE Thrown(request, reason)

AskPage ==
    /\ request # None /\ request.op = "list"
    /\ LET c == Order[request.at] IN
        IF shelf[c][Lib] = Missing THEN ListFails("not-found")
        ELSE LET body == Body(c, Lib, request.page)
                 got == [request EXCEPT !.got = @ \cup Converted(Wanted(body), c, Lib)]
             IN IF IsLast(body) THEN Library(got, c)
                ELSE IF request.page + 1 = MAX_PAGES THEN ListFails("server")
                ELSE request' = [got EXCEPT !.page = @ + 1] /\ UNCHANGED answer
    /\ UNCHANGED <<shelf, permit, accepted, edits, calls>>

PageFails ==
    /\ request # None /\ request.op = "list"
    /\ \E s \in StatusesOf(Order[request.at]) : ListFails(failureFor(s, FALSE))
    /\ UNCHANGED <<shelf, permit, accepted, edits, calls>>

-----------------------------------------------------------------------------
(* Writes. The desktop app wants a key for them, which the user grants in a dialog. *)

\* What a write to c needs first: nothing, or a click; and which key is stored after it.
Permits(c) ==
    IF c # "local" THEN {[says |-> "ok", key |-> permit]}
    ELSE CASE permit = "always" -> {[says |-> "ok", key |-> permit]}
           [] permit = "once" -> {[says |-> "ok", key |-> "spent"]}
           [] OTHER ->      \* no key yet, or one that answers 401: one dialog, one more try
                {CASE k = "deny" -> [says |-> "denied", key |-> permit]
                   [] k = "late" -> [says |-> "unreachable", key |-> permit]
                   [] k = "once" -> [says |-> "ok", key |-> "spent"]
                   [] OTHER -> [says |-> "ok", key |-> "always"] : k \in Clicks}

NewId(b) == <<2 + calls, b>>
StartCreate ==
    /\ request = None /\ calls > 0 /\ calls' = calls - 1
    /\ \E n \in 1..Bodies, lib \in Range(libraries) :
        request' = [op |-> "create", lib |-> lib, n |-> n, at |-> 1, offset |-> 0, created |-> <<>>]
    /\ answer' = NoAnswer /\ accepted' = {}
    /\ UNCHANGED <<shelf, permit, edits>>

BatchEnd == IF request.offset + MAX_BATCH < request.n THEN request.offset + MAX_BATCH ELSE request.n
BatchOf == (request.offset + 1)..BatchEnd
Created(b) == [id |-> NewId(b), version |-> 1, text |-> "new", fits |-> TRUE]

\* What is returned for the bodies of a batch, by their place in it.
ByOffset(batch, taken) == [i \in 1..Cardinality(batch) |-> IF i \in taken THEN NewId(i) ELSE None]
ByPlace(batch, taken) == [i \in 1..Cardinality(batch) |-> IF request.offset + i \in taken THEN NewId(request.offset + i) ELSE None]

\* The next connection starts with the first batch again.
CreateFails(reason) ==
    IF FallsThrough(request, reason) /\ request.at < Len(Order)
    THEN request' = [request EXCEPT !.at = @ + 1, !.offset = 0, !.created = <<>>] /\ UNCHANGED answer
    ELSE Thrown(request, reason)

Takes(c, taken) ==
    /\ shelf' = [shelf EXCEPT ![c][request.lib] = SetToSeq({Created(b) : b \in taken}) \o @]
    /\ accepted' = accepted \cup {[body |-> b, by |-> c] : b \in taken}

\* One batch. Zotero may refuse single items of it, and its answer may be lost.
PostBatch ==
    /\ request # None /\ request.op = "create"
    /\ LET c == Order[request.at] IN \E p \in Permits(c) :
        /\ permit' = p.key
        /\ IF p.says # "ok" THEN CreateFails(p.says) /\ UNCHANGED <<shelf, accepted>>
           ELSE IF shelf[c][request.lib] = Missing THEN CreateFails("not-found") /\ UNCHANGED <<shelf, accepted>>
           ELSE \E taken \in SUBSET BatchOf :
                  /\ Takes(c, taken)
                  /\ \/ LET created == request.created \o ByPlace(BatchOf, taken) IN
                        IF BatchEnd = request.n
                        THEN request' = None /\ answer' = [op |-> "create", by |-> c, lib |-> request.lib, created |-> created]
                        ELSE request' = [request EXCEPT !.offset = BatchEnd, !.created = created] /\ UNCHANGED answer
                     \/ 0 \in Statuses /\ CreateFails("unreachable")
    /\ UNCHANGED <<edits, calls>>

PostFails ==
    /\ request # None /\ request.op = "create"
    /\ \E s \in StatusesOf(Order[request.at]) : CreateFails(failureFor(s, TRUE))
    /\ UNCHANGED <<shelf, permit, accepted, edits, calls>>

Place(rows, id) == IF rows = Missing THEN {} ELSE {i \in DOMAIN rows : rows[i].id = id}
Changed(rows, i, row) == <<row>> \o RemoveAt(rows, i)
Rewritten(row, text) == [row EXCEPT !.text = text, !.version = @ + 1]

FirstConnection(ref) == Order[1]
\* The version only means something to the connection that gave it.
sourceOf(ref) == ref.source

\* patchUnderVersion for an item of the last listing: written, or a conflict, in one request.
Patch ==
    /\ request = None /\ calls > 0 /\ calls' = calls - 1 /\ answer.op = "list"
    /\ \E ref \in answer.rows :
        LET c == sourceOf(ref)
            rows == shelf[c][ref.lib]
        IN \E p \in Permits(c) :
            /\ permit' = p.key
            /\ IF p.says # "ok" THEN UNCHANGED shelf /\ answer' = [op |-> "failed", of |-> "patch", reason |-> p.says]
               ELSE IF Place(rows, ref.id) = {} THEN UNCHANGED shelf /\ answer' = [op |-> "failed", of |-> "patch", reason |-> "not-found"]
               ELSE \E i \in Place(rows, ref.id) :
                    IF rows[i].version <= ref.version
                    THEN /\ shelf' = [shelf EXCEPT ![c][ref.lib] = Changed(@, i, Rewritten(@[i], "ours"))]
                         /\ answer' = [op |-> "patched", ref |-> ref, by |-> c]
                    ELSE UNCHANGED shelf /\ answer' = [op |-> "conflict"]
    /\ UNCHANGED <<request, accepted, edits>>

-----------------------------------------------------------------------------
(* The user works in Zotero, whose two copies follow each other in time. *)

Dirty == IF request # None /\ request.op = "list" THEN [request EXCEPT !.clean = FALSE] ELSE request

\* An edit at any other time is another shelf to begin with.
Matters == IF request = None THEN answer.op = "list" ELSE request.op = "list"

UserEdits ==
    /\ Matters /\ edits > 0 /\ edits' = edits - 1
    /\ \E c \in Connections, l \in Range(libraries) :
        /\ shelf[c][l] # Missing
        /\ \/ \E i \in DOMAIN shelf[c][l] :
                /\ request' = Dirty
                /\ \/ shelf' = [shelf EXCEPT ![c][l] = Changed(@, i, Rewritten(@[i], "theirs"))]
                   \/ shelf' = [shelf EXCEPT ![c][l] = RemoveAt(@, i)]
           \/ /\ shelf' = [shelf EXCEPT ![c][l] = <<[id |-> <<1, edits>>, version |-> 1, text |-> "theirs", fits |-> TRUE]>> \o @]
              /\ UNCHANGED request
    /\ UNCHANGED <<permit, answer, accepted, calls>>

ClientNext == StartList \/ AskPage \/ PageFails \/ StartCreate \/ PostBatch \/ PostFails \/ Patch \/ UserEdits

-----------------------------------------------------------------------------
(* What the client promises. *)

Ids(rows) == {r.id : r \in rows}
PartOf(rows, lib) == {r \in rows : r.lib = lib}

\* A listing is never a short one: whatever connection failed at whatever page, when it succeeds it holds every
\* wanted row of each library, all from one connection; only a group the last connection does not have is
\* left out. An item added meanwhile may repeat a row, it hides none. (An item edited or removed meanwhile can.)
ListIsWhole ==
    answer.op = "list" =>
        /\ Len(answer.from) = Len(answer.libs)
        /\ \A k \in DOMAIN answer.libs :
            LET lib == answer.libs[k] c == answer.from[k] part == PartOf(answer.rows, lib) IN
            IF c = None THEN lib # "user" /\ part = {} /\ answer.before[Last(Order)][lib] = Missing
            ELSE /\ \A r \in part : r.source = c
                 /\ answer.clean => Ids(Wanted(answer.before[c][lib])) \subseteq Ids(part)

\* A create that returns names every item Zotero made for it, at the place of its body, and no other.
CreatedAreNamed ==
    answer.op = "create" /\ request = None =>
        \A b \in DOMAIN answer.created :
            answer.created[b] = IF [body |-> b, by |-> answer.by] \in accepted THEN NewId(b) ELSE None

\* No edit is lost: a patch replaces the text that was read, wherever it was read and whatever the other
\* connection calls that version.
OnlyWhatWasReadIsPatched ==
    [][answer'.op = "patched" /\ answer' # answer =>
        LET ref == answer'.ref IN
        \A i \in Place(shelf[answer'.by][ref.lib], ref.id) : shelf[answer'.by][ref.lib][i].text = ref.text]_clientVars

\* "If the desktop accepted twelve of fifty and then went away, the web must not be handed the same fifty":
\* nothing one connection has made an item of is made again by the other.
HandedOnce == \A x, y \in accepted : x.body = y.body => x.by = y.by
\* A list is taken for the library only if it is, and what was made only if it was.
AnswersAreWhole == ListIsWhole /\ CreatedAreNamed
=============================================================================
