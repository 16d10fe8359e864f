---------------------------- MODULE ZoteroLinks ----------------------------
(***************************************************************************)
(* Which tablet document is which Zotero PDF: the link store of data.json, *)
(* kept by the sync (markListed, identify), by Link to Zotero item, and by *)
(* the two ways of sending a paper to the tablet, none of which waits for  *)
(* another: a send holds the links it read until its upload is through.    *)
(*                                                                         *)
(* A paper stands for its one PDF.  Documents are numbered as they arrive. *)
(***************************************************************************)
EXTENDS Absent, Naturals, FiniteSets

CONSTANTS Papers,
          MaxDocs,      \* bounds the documents that arrive on the tablet
          UserMoves,    \* bounds what the user does on the tablet and in Zotero
          Alone         \* TRUE where nothing else happens during a send or a run

DocIds == 1 .. MaxDocs
Sends == {"tagged", "single"}
Declined == [paper |-> None]

Documents == [paper : Papers, at : {"folder", "elsewhere", "trash"}, shown : BOOLEAN]
LinkRecords ==
  [paper : Papers, how : {"hash", "asked", "send", "command"},
   sent : {"never", "today", "before"}, seen : BOOLEAN, gone : BOOLEAN, marks : BOOLEAN]
StoredLinks == {None, Declined} \cup LinkRecords

ASSUME LinksAssumption ==
  /\ {MaxDocs, UserMoves} \subseteq Nat /\ Alone \in BOOLEAN
  /\ None \notin Papers /\ None # Declined /\ None \notin Documents /\ None \notin LinkRecords

VARIABLES
  tab,       \* the documents: [paper, at, shown], or None
  links,     \* data.zoteroLinks, by document
  tagged,    \* the papers that carry the send tag
  syncing,   \* the run: [pc, listed, doc, link]
  sends,     \* the two sends: [pc, paper, names, onTablet, links]
  userMoves

storeVars == <<tab, links, tagged, syncing, sends, userMoves>>

NoSend == [pc |-> "idle", paper |-> None, names |-> {}, onTablet |-> {}, links |-> <<>>]
NoSync == [pc |-> "idle", listed |-> {}, doc |-> 0, link |-> None]

LinksInit ==
  /\ tab = [d \in DocIds |-> None]
  /\ links = [d \in DocIds |-> None]
  /\ tagged = Papers
  /\ syncing = NoSync
  /\ sends = [s \in Sends |-> NoSend]
  /\ userMoves = 0

IsLinked(l) == l # None /\ l.paper # None
Shown == {d \in DocIds : tab[d] # None /\ tab[d].shown /\ tab[d].at # "trash"}
InFolder == {tab[d].paper : d \in {d \in Shown : tab[d].at = "folder"}}
Present(d) == tab[d] # None /\ tab[d].at # "trash"
Arrived == Cardinality({d \in DocIds : tab[d] # None})
NewLink(p, how) ==
  [paper |-> p, how |-> how, sent |-> "never", seen |-> FALSE, gone |-> FALSE, marks |-> FALSE]

Undisturbed == Alone => syncing.pc = "idle" /\ \A s \in Sends : sends[s].pc = "idle"

-----------------------------------------------------------------------------
(* The tablet, Zotero and the user.                                         *)

Move ==
  /\ userMoves < UserMoves
  /\ userMoves' = userMoves + 1
  /\ Undisturbed
  /\ UNCHANGED <<syncing, sends>>

\* A listing may lag an upload, by no more than a day.
Appear(d) ==
  /\ tab[d] # None /\ ~tab[d].shown /\ Undisturbed
  /\ tab' = [tab EXCEPT ![d].shown = TRUE]
  /\ UNCHANGED <<links, tagged, syncing, sends, userMoves>>

DayPasses ==
  /\ \A d \in DocIds : tab[d] # None => tab[d].shown
  /\ links' = [d \in DocIds |-> IF IsLinked(links[d]) /\ links[d].sent = "today"
                                THEN [links[d] EXCEPT !.sent = "before"] ELSE links[d]]
  /\ links' # links /\ Undisturbed
  /\ UNCHANGED <<tab, tagged, syncing, sends, userMoves>>

MoveDocument(d, at) ==
  /\ Move
  /\ tab[d] # None /\ tab[d].shown /\ tab[d].at # at
  /\ tab' = [tab EXCEPT ![d].at = at]
  /\ UNCHANGED <<links, tagged>>

DragIn(p) ==
  /\ Move
  /\ Arrived < MaxDocs
  /\ tab' = [tab EXCEPT ![Arrived + 1] = [paper |-> p, at |-> "elsewhere", shown |-> TRUE]]
  /\ UNCHANGED <<links, tagged>>

TagPaper(p) ==
  /\ Move
  /\ tagged' = IF p \in tagged THEN tagged \ {p} ELSE tagged \cup {p}
  /\ UNCHANGED <<tab, links>>

\* Link to Zotero item: whatever was there is replaced, a refusal included;
\* the records of what was written survive for the same PDF only.
LinkNote(d, p) ==
  /\ Move
  /\ tab[d] # None
  /\ links' = [links EXCEPT ![d] = [NewLink(p, "command") EXCEPT
                 !.marks = IsLinked(links[d]) /\ links[d].paper = p /\ links[d].marks]]
  /\ UNCHANGED <<tab, tagged>>

-----------------------------------------------------------------------------
(* The sync.                                                                *)

List ==
  /\ syncing.pc = "idle" /\ Undisturbed
  /\ syncing' = [NoSync EXCEPT !.pc = "running", !.listed = Shown]
  /\ UNCHANGED <<tab, links, tagged, sends, userMoves>>

\* identify, up to where it waits for the library, for hashes or for an answer.
Identify(d) ==
  /\ syncing.pc = "running" /\ d \in syncing.listed
  /\ links[d] # Declined
  /\ syncing' = [syncing EXCEPT !.pc = "matching", !.doc = d, !.link = links[d]]
  /\ UNCHANGED <<tab, links, tagged, sends, userMoves>>

\* A link is a decision and is never made again.  The one attachment of these
\* bytes is linked without asking; several, or one of this name, are asked
\* about once, and the answer, or that there was none, is remembered.  A link
\* whose file or library is gone stays as it is.
Match(answer) ==
  LET d == syncing.doc IN
  /\ syncing.pc = "matching"
  /\ answer \in {"nothing", "hash", "asked", "declined"}
  /\ links' = IF IsLinked(syncing.link) \/ answer = "nothing" THEN links
              ELSE [links EXCEPT ![d] = IF answer = "declined" THEN Declined
                                        ELSE NewLink(tab[d].paper, answer)]
  /\ syncing' = [syncing EXCEPT
       !.pc = IF IsLinked(links'[d]) /\ answer # "nothing" THEN "writing" ELSE "running",
       !.link = links'[d]]
  /\ UNCHANGED <<tab, tagged, sends, userMoves>>

\* The pass saves the link it worked on into the store as it is by now.
SavePass ==
  /\ syncing.pc = "writing"
  /\ links' = [links EXCEPT ![syncing.doc] = [syncing.link EXCEPT !.marks = TRUE]]
  /\ syncing' = [syncing EXCEPT !.pc = "running"]
  /\ UNCHANGED <<tab, tagged, sends, userMoves>>

\* Reading every link without a sighting as gone.
MarkListedAll(l, listed, d) ==
  IF ~IsLinked(l) THEN l
  ELSE IF d \in listed THEN [l EXCEPT !.seen = TRUE, !.gone = FALSE]
  ELSE [l EXCEPT !.gone = TRUE]

\* markListed: seen, or gone when it had been seen before.
MarkListed(l, listed, d) ==
  IF ~IsLinked(l) THEN l
  ELSE IF d \in listed THEN [l EXCEPT !.seen = TRUE, !.gone = FALSE]
  ELSE [l EXCEPT !.gone = l.gone \/ l.seen]

\* At the run's end, from the listing at its start.
EndSync ==
  /\ syncing.pc = "running"
  /\ links' = [d \in DocIds |-> MarkListed(links[d], syncing.listed, d)]
  /\ syncing' = NoSync
  /\ UNCHANGED <<tab, tagged, sends, userMoves>>

-----------------------------------------------------------------------------
(* Sending a paper.                                                         *)

DocumentsOnTablet ==
  {d \in DocIds : /\ IsLinked(links[d]) /\ ~links[d].gone
                  /\ links[d].seen \/ links[d].sent = "today"}

LinkedTo(store, p) == {d \in DocIds : IsLinked(store[d]) /\ store[d].paper = p}

\* sendTaggedPapers asks for the folder and the links' sightings once.
BeginTagged ==
  /\ sends["tagged"].pc = "idle" /\ tagged # {} /\ Undisturbed
  /\ sends' = [sends EXCEPT !["tagged"] =
       [NoSend EXCEPT !.pc = "going", !.names = InFolder, !.onTablet = DocumentsOnTablet]]
  /\ UNCHANGED <<tab, links, tagged, syncing, userMoves>>

\* Going by the links alone: another vault's papers count for nothing.
IsThereByLinks(send, p) == LinkedTo(links, p) \cap send.onTablet # {}
IsThere(send, p) == LinkedTo(links, p) \cap send.onTablet # {} \/ p \in send.names

\* The next tagged paper that is not on the tablet; its links are read anew.
TakeTagged(p) ==
  /\ sends["tagged"].pc = "going" /\ p \in tagged
  /\ ~IsThere(sends["tagged"], p)
  /\ Arrived < MaxDocs
  /\ sends' = [sends EXCEPT !["tagged"].pc = "uploading", !["tagged"].paper = p,
                            !["tagged"].links = links]
  /\ UNCHANGED <<tab, links, tagged, syncing, userMoves>>

EndTagged ==
  /\ sends["tagged"].pc = "going"
  /\ sends' = [sends EXCEPT !["tagged"] = NoSend]
  /\ UNCHANGED <<tab, links, tagged, syncing, userMoves>>

\* The palette's send: the user is asked where the paper is there already.
BeginSingle(p) ==
  /\ sends["single"].pc = "idle" /\ Undisturbed /\ Arrived < MaxDocs
  /\ sends' = [sends EXCEPT !["single"] =
       [pc |-> "uploading", paper |-> p, names |-> InFolder,
        onTablet |-> DocumentsOnTablet, links |-> links]]
  /\ UNCHANGED <<tab, links, tagged, syncing, userMoves>>

\* Replacing every link of the paper.
ReplacedAll(send) == LinkedTo(send.links, send.paper)

\* sendState's vanished links.
Replaced(send) == LinkedTo(send.links, send.paper) \ send.onTablet

\* sendToTablet: what is recorded replaces them, in the store as it was when
\* the send took it.
WithSent(send, d) ==
  [e \in DocIds |->
     IF e = d THEN [NewLink(send.paper, "send") EXCEPT !.sent = "today"]
     ELSE IF e \in Replaced(send) THEN None
     ELSE send.links[e]]

\* The upload: nothing arrives (no bytes, no connection, a generation that
\* would not hold still), the document arrives and is recorded, or it arrives
\* and the answer, or the restart of the tablet's app, does not.
Upload(s, o) ==
  LET send == sends[s]
      d == Arrived + 1 IN
  /\ send.pc = "uploading" /\ o \in {"failed", "sent", "unanswered"}
  /\ o # "failed" => d \in DocIds
  /\ \E lag \in BOOLEAN : tab' =
       IF o = "failed" THEN tab
       ELSE [tab EXCEPT ![d] = [paper |-> send.paper, at |-> "folder", shown |-> ~lag]]
  /\ links' = IF o = "sent" THEN WithSent(send, d) ELSE links
  /\ sends' = [sends EXCEPT ![s] =
       IF s = "single" THEN NoSend
       ELSE [send EXCEPT !.pc = "going", !.paper = None, !.links = <<>>, !.names = @ \cup {send.paper}]]
  /\ UNCHANGED <<tagged, syncing, userMoves>>

SendNext ==
  \/ BeginTagged \/ EndTagged
  \/ \E p \in Papers : TakeTagged(p) \/ BeginSingle(p)
  \/ \E s \in Sends, o \in {"failed", "sent", "unanswered"} : Upload(s, o)

LinksNext ==
  \/ \E d \in DocIds : \/ Appear(d) \/ Identify(d)
                       \/ \E at \in {"folder", "elsewhere", "trash"} : MoveDocument(d, at)
                       \/ \E p \in Papers : LinkNote(d, p)
  \/ \E p \in Papers : DragIn(p) \/ TagPaper(p)
  \/ DayPasses \/ List \/ SavePass \/ EndSync
  \/ \E a \in {"nothing", "hash", "asked", "declined"} : Match(a)
  \/ SendNext

-----------------------------------------------------------------------------
LinksTypeOK ==
  /\ \A d \in DocIds : links[d] \in StoredLinks
  /\ \A d \in DocIds : tab[d] # None => tab[d] \in Documents
  /\ syncing.pc \in {"idle", "running", "matching", "writing"} /\ syncing.listed \subseteq DocIds
  /\ \A s \in Sends : sends[s].pc \in {"idle", "going", "uploading"}

\* sendTaggedPapers: with the tag left on a paper for good, no run puts it on
\* the tablet a second time while a document this vault sent and recorded is
\* still there, wherever the user filed it, or while any is in the folder,
\* whoever sent it: across listings that lag, days that pass, uploads whose
\* answer is lost and syncs in between.  Two are let go: one that a listing had
\* and a later one missed (the user took it back out of the trash since), and
\* one that none has found in a day.
SentOnce ==
  [][sends["tagged"].pc = "going" /\ sends'["tagged"].pc = "uploading" =>
       LET p == sends'["tagged"].paper IN
       /\ p \notin InFolder
       /\ \A d \in LinkedTo(links, p) : Present(d) => (links[d].gone /\ links[d].seen) \/ (links[d].sent # "today" /\ ~links[d].seen)]_storeVars

\* markListed, identify, sendToTablet: what was written into Zotero is
\* forgotten for no document that a run has listed and that is still there,
\* unless the user links it to another PDF, and none is linked to another PDF
\* than the one it has except by the user.
LinksRemembered ==
  [][\A d \in DocIds :
       /\ (IsLinked(links[d]) /\ links[d].marks /\ Present(d) /\ ~links[d].gone /\ links[d].seen)
            => (IsLinked(links'[d]) /\ (links'[d].marks \/ links'[d].how = "command"))
       /\ (IsLinked(links[d]) /\ IsLinked(links'[d]) /\ links'[d].paper # links[d].paper)
            => links'[d].how = "command"]_storeVars

\* zotero-links.ts withoutLink: a link is removed only where its document is no
\* longer on the tablet.
RemovedIsGone ==
  [][\A d \in DocIds : IsLinked(links[d]) /\ ~IsLinked(links'[d]) => ~Present(d)]_storeVars
=============================================================================
