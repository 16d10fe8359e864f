---------------------------- MODULE ZoteroProofs ----------------------------
(***************************************************************************)
(* What Zotero is told of a document, for all values of the constants: the *)
(* links between papers and documents, the render under a paper, and all   *)
(* four parts of the library as one system.                                *)
(***************************************************************************)
EXTENDS MCZotero, ZoteroPagesProofs

(* The links: which paper a document is of.                                 *)

LinksSpec == LinksInit /\ [][LinksNext]_storeVars

Runs == [pc : {"idle", "running", "matching", "writing"}, listed : SUBSET DocIds, doc : 0 .. MaxDocs, link : StoredLinks]
Sendings == [pc : {"idle", "going", "uploading"}, paper : Papers \cup {None}, names : SUBSET Papers,
             onTablet : SUBSET DocIds, links : [DocIds -> StoredLinks] \cup {<<>>}]

LinksTypes ==
  /\ tab \in [DocIds -> Documents \cup {None}] /\ links \in [DocIds -> StoredLinks]
  /\ syncing \in Runs /\ sends \in [Sends -> Sendings]

\* Documents are numbered as they arrive; only one that is there has a link.
OnTheTablet == {d \in DocIds : tab[d] # None}
DocsInOrder == \E n \in 0 .. MaxDocs : OnTheTablet = 1 .. n
LinkedThere == \A d \in DocIds : links[d] # None => tab[d] # None
GoneWasSeen == \A d \in DocIds : IsLinked(links[d]) /\ links[d].gone => links[d].seen

OneAtATime ==
  /\ syncing.pc # "idle" => \A s \in Sends : sends[s].pc = "idle"
  /\ sends["tagged"].pc # "idle" => sends["single"].pc = "idle"

\* What the run and the sends hold is still so.
RunHolds ==
  /\ syncing.listed \subseteq OnTheTablet
  /\ syncing.pc \in {"matching", "writing"} => syncing.doc \in OnTheTablet /\ syncing.link = links[syncing.doc]
  /\ syncing.pc = "writing" => IsLinked(syncing.link)
SendsHold ==
  /\ \A s \in Sends : sends[s].pc = "uploading" => sends[s].paper \in Papers /\ sends[s].links = links
  /\ sends["single"].pc # "idle" => sends["single"].onTablet = DocumentsOnTablet
  /\ sends["tagged"].pc = "uploading" => sends["tagged"].paper \notin sends["tagged"].names

LetGo(l) == l.gone \/ (l.sent # "today" /\ ~l.seen)
\* What the tagged send passes over: the papers in the folder, and those with a link that counts.
PassedOver ==
  sends["tagged"].pc # "idle" =>
    /\ InFolder \subseteq sends["tagged"].names
    /\ \A d \in DocIds \ sends["tagged"].onTablet : IsLinked(links[d]) /\ links[d].paper \notin sends["tagged"].names => LetGo(links[d])

LinksInv == /\ LinksTypes /\ DocsInOrder /\ LinkedThere /\ GoneWasSeen
            /\ OneAtATime /\ RunHolds /\ SendsHold /\ PassedOver

LEMMA LinkKinds ==
  /\ ~IsLinked(None) /\ ~IsLinked(Declined)
  /\ \A l \in LinkRecords : IsLinked(l)
  /\ \A l \in StoredLinks : IsLinked(l) => l \in LinkRecords
  /\ \A p \in Papers, how \in {"hash", "asked", "send", "command"} : NewLink(p, how) \in LinkRecords
<1>1. \A l \in LinkRecords : l # None /\ l.paper # None
  BY LinksAssumption DEF LinkRecords
<1>2. \A p \in Papers, how \in {"hash", "asked", "send", "command"} : NewLink(p, how) \in LinkRecords
  BY DEF NewLink, LinkRecords
<1> QED BY <1>1, <1>2 DEF IsLinked, Declined, StoredLinks

LEMMA LinksStart == LinksInit => LinksInv
<1> SUFFICES ASSUME LinksInit PROVE LinksInv
  OBVIOUS
<1>1. NoSync \in Runs /\ NoSend \in Sendings /\ NoSync.pc = "idle" /\ NoSync.listed = {} /\ NoSend.pc = "idle"
  BY LinksAssumption DEF NoSync, NoSend, Runs, Sendings, StoredLinks
<1>2. LinksTypes
  BY <1>1 DEF LinksInit, LinksTypes, StoredLinks
<1>3. OnTheTablet = {} /\ OnTheTablet = 1 .. 0 /\ 0 \in 0 .. MaxDocs
  BY LinksAssumption DEF LinksInit, OnTheTablet
<1>4. "tagged" \in Sends /\ "single" \in Sends
  BY DEF Sends
<1> QED BY <1>1, <1>2, <1>3, <1>4, LinkKinds
        DEF LinksInit, LinksInv, DocsInOrder, LinkedThere, GoneWasSeen, OneAtATime, RunHolds, SendsHold, PassedOver

\* Documents as they arrive.
LEMMA NextToArrive ==
  ASSUME LinksTypes, DocsInOrder
  PROVE  /\ Arrived \in 0 .. MaxDocs /\ OnTheTablet = 1 .. Arrived
         /\ Arrived + 1 \notin OnTheTablet
         /\ Arrived + 1 \in DocIds => 1 .. Arrived + 1 = OnTheTablet \cup {Arrived + 1} /\ Arrived + 1 \in 0 .. MaxDocs
<1>1. PICK n \in 0 .. MaxDocs : OnTheTablet = 1 .. n
  BY DEF DocsInOrder
<1>2. Cardinality(1 .. n) = n
  BY <1>1, FS_Interval
<1>3. Arrived = n
  BY <1>1, <1>2 DEF Arrived, OnTheTablet
<1> QED BY <1>1, <1>3, LinksAssumption DEF DocIds

\* A document arrives.
LEMMA Arrives ==
  ASSUME LinksTypes, DocsInOrder, Arrived + 1 \in DocIds, NEW t \in Documents, tab' = [tab EXCEPT ![Arrived + 1] = t]
  PROVE  /\ tab' \in [DocIds -> Documents \cup {None}] /\ DocsInOrder'
         /\ OnTheTablet' = OnTheTablet \cup {Arrived + 1} /\ tab[Arrived + 1] = None
<1>1. OnTheTablet' = OnTheTablet \cup {Arrived + 1}
  BY LinksAssumption DEF LinksTypes, OnTheTablet
<1>2. DocsInOrder'
  BY <1>1, NextToArrive DEF DocsInOrder
<1>3. tab[Arrived + 1] = None
  BY NextToArrive DEF OnTheTablet
<1> QED BY <1>1, <1>2, <1>3 DEF LinksTypes

\* What happens while no run and no send is at work.
LEMMA Elsewhere ==
  ASSUME LinksInv, Alone, Undisturbed, UNCHANGED <<syncing, sends>>,
         tab' \in [DocIds -> Documents \cup {None}], links' \in [DocIds -> StoredLinks],
         DocsInOrder', OnTheTablet \subseteq OnTheTablet', LinkedThere', GoneWasSeen'
  PROVE  LinksInv'
<1>1. syncing.pc = "idle" /\ sends["tagged"].pc = "idle" /\ sends["single"].pc = "idle" /\ \A s \in Sends : sends[s].pc = "idle"
  BY DEF Undisturbed, Sends
<1> QED BY <1>1 DEF LinksInv, LinksTypes, OneAtATime, RunHolds, SendsHold, PassedOver

LEMMA TabletStep ==
  ASSUME LinksInv, Alone, NEW d, NEW p, NEW at,
         \/ d \in DocIds /\ at \in {"folder", "elsewhere", "trash"} /\ (Appear(d) \/ MoveDocument(d, at))
         \/ p \in Papers /\ (DragIn(p) \/ TagPaper(p))
  PROVE  LinksInv'
<1>1. CASE d \in DocIds /\ at \in {"folder", "elsewhere", "trash"} /\ (Appear(d) \/ MoveDocument(d, at))
  <2>1. tab[d] \in Documents
    BY <1>1 DEF Appear, MoveDocument, LinksInv, LinksTypes
  <2>2. [tab[d] EXCEPT !.shown = TRUE] \in Documents /\ [tab[d] EXCEPT !.at = at] \in Documents
    BY <1>1, <2>1 DEF Documents
  <2>3. PICK t \in Documents : tab' = [tab EXCEPT ![d] = t]
    BY <1>1, <2>2 DEF Appear, MoveDocument
  <2>4. tab[d] # None /\ UNCHANGED <<links, syncing, sends>> /\ Undisturbed
    BY <1>1 DEF Appear, MoveDocument, Move
  <2>5. tab' \in [DocIds -> Documents \cup {None}] /\ OnTheTablet' = OnTheTablet
    BY <2>3, <2>4, LinksAssumption DEF LinksInv, LinksTypes, OnTheTablet
  <2>6. DocsInOrder' /\ LinkedThere' /\ GoneWasSeen' /\ links' \in [DocIds -> StoredLinks]
    BY <2>4, <2>5 DEF LinksInv, DocsInOrder, LinkedThere, GoneWasSeen, LinksTypes, OnTheTablet
  <2> QED BY <2>4, <2>5, <2>6, Elsewhere
<1>2. CASE p \in Papers /\ DragIn(p)
  <2>1. [paper |-> p, at |-> "elsewhere", shown |-> TRUE] \in Documents
    BY <1>2 DEF Documents
  <2>2. Arrived + 1 \in DocIds
    BY <1>2, NextToArrive, LinksAssumption DEF DragIn, LinksInv, DocIds
  <2>3. UNCHANGED <<links, syncing, sends>> /\ Undisturbed /\ tab' = [tab EXCEPT ![Arrived + 1] = [paper |-> p, at |-> "elsewhere", shown |-> TRUE]]
    BY <1>2 DEF DragIn, Move
  <2>4. tab' \in [DocIds -> Documents \cup {None}] /\ DocsInOrder' /\ OnTheTablet' = OnTheTablet \cup {Arrived + 1}
    BY <2>1, <2>2, <2>3, Arrives DEF LinksInv
  <2>5. LinkedThere' /\ GoneWasSeen' /\ links' \in [DocIds -> StoredLinks]
    BY <2>3, <2>4 DEF LinksInv, LinkedThere, GoneWasSeen, LinksTypes, OnTheTablet
  <2> QED BY <2>3, <2>4, <2>5, Elsewhere
<1>3. CASE TagPaper(p)
  <2>1. UNCHANGED <<tab, links, syncing, sends>> /\ Undisturbed
    BY <1>3 DEF TagPaper, Move
  <2> QED BY <2>1, Elsewhere DEF LinksInv, DocsInOrder, LinkedThere, GoneWasSeen, LinksTypes, OnTheTablet
<1> QED BY <1>1, <1>2, <1>3

LEMMA DayStep == ASSUME LinksInv, Alone, DayPasses PROVE LinksInv'
<1>1. links' = [d \in DocIds |-> IF IsLinked(links[d]) /\ links[d].sent = "today"
                                THEN [links[d] EXCEPT !.sent = "before"] ELSE links[d]]
      /\ UNCHANGED <<tab, syncing, sends>> /\ Undisturbed
  BY DEF DayPasses
<1>2. \A d \in DocIds : /\ links'[d] \in StoredLinks /\ (links'[d] # None => links[d] # None)
                        /\ IsLinked(links'[d]) => IsLinked(links[d]) /\ links'[d].gone = links[d].gone /\ links'[d].seen = links[d].seen
  <2> SUFFICES ASSUME NEW d \in DocIds
               PROVE  /\ links'[d] \in StoredLinks /\ (links'[d] # None => links[d] # None)
                      /\ IsLinked(links'[d]) => IsLinked(links[d]) /\ links'[d].gone = links[d].gone /\ links'[d].seen = links[d].seen
    OBVIOUS
  <2>1. CASE IsLinked(links[d]) /\ links[d].sent = "today"
    <3>1. links[d] \in LinkRecords
      BY <2>1, LinkKinds DEF LinksInv, LinksTypes
    <3>2. links'[d] = [links[d] EXCEPT !.sent = "before"]
      BY <1>1, <2>1
    <3> QED BY <2>1, <3>1, <3>2, LinkKinds DEF LinkRecords, StoredLinks
  <2>2. CASE ~(IsLinked(links[d]) /\ links[d].sent = "today")
    BY <1>1, <2>2 DEF LinksInv, LinksTypes
  <2> QED BY <2>1, <2>2
<1>3. links' \in [DocIds -> StoredLinks] /\ LinkedThere' /\ GoneWasSeen' /\ DocsInOrder' /\ OnTheTablet' = OnTheTablet
  BY <1>1, <1>2 DEF LinksInv, LinksTypes, LinkedThere, GoneWasSeen, DocsInOrder, OnTheTablet
<1> QED BY <1>1, <1>3, Elsewhere DEF LinksInv, LinksTypes

LEMMA LinkNoteStep == ASSUME LinksInv, Alone, NEW d \in DocIds, NEW p \in Papers, LinkNote(d, p) PROVE LinksInv'
<1>1. PICK b \in BOOLEAN : links' = [links EXCEPT ![d] = [NewLink(p, "command") EXCEPT !.marks = b]]
  BY DEF LinkNote, IsLinked, LinksInv, LinksTypes, StoredLinks, LinkRecords
<1> DEFINE l == [NewLink(p, "command") EXCEPT !.marks = b]
<1>2. l \in LinkRecords /\ ~l.gone
  BY <1>1, LinkKinds DEF NewLink, LinkRecords
<1>3. tab[d] # None /\ UNCHANGED <<tab, syncing, sends>> /\ Undisturbed /\ links' = [links EXCEPT ![d] = l]
  BY <1>1 DEF LinkNote, Move
<1> HIDE DEF l
<1>4. links' \in [DocIds -> StoredLinks] /\ LinkedThere' /\ GoneWasSeen' /\ DocsInOrder' /\ OnTheTablet' = OnTheTablet
  BY <1>2, <1>3 DEF LinksInv, LinksTypes, StoredLinks, LinkedThere, GoneWasSeen, DocsInOrder, OnTheTablet
<1> QED BY <1>3, <1>4, Elsewhere DEF LinksInv, LinksTypes

\* While the run is at work no send is.
LEMMA RunAlone ==
  ASSUME LinksInv, syncing.pc # "idle"
  PROVE  sends["tagged"].pc = "idle" /\ sends["single"].pc = "idle" /\ \A s \in Sends : sends[s].pc = "idle"
  BY DEF LinksInv, OneAtATime, Sends

LEMMA ListStep == ASSUME LinksInv, Alone, List PROVE LinksInv'
<1>1. \A s \in Sends : sends[s].pc = "idle"
  BY DEF List, Undisturbed
<1>2. "tagged" \in Sends /\ "single" \in Sends
  BY DEF Sends
<1>3. syncing' = [pc |-> "running", listed |-> Shown, doc |-> 0, link |-> None] /\ UNCHANGED <<tab, links, sends>>
  BY DEF List, NoSync
<1>4. Shown \subseteq OnTheTablet /\ OnTheTablet \subseteq DocIds
  BY DEF Shown, OnTheTablet
<1>5. syncing' \in Runs
  BY <1>3, <1>4, LinksAssumption DEF Runs, StoredLinks
<1> QED BY <1>1, <1>2, <1>3, <1>4, <1>5
        DEF LinksInv, LinksTypes, DocsInOrder, LinkedThere, GoneWasSeen, OneAtATime, RunHolds, SendsHold, PassedOver, OnTheTablet

\* A step of the run that leaves it at work.
LEMMA RunGoesOn ==
  ASSUME LinksInv, Alone, syncing.pc # "idle", UNCHANGED <<tab, sends>>,
         links' \in [DocIds -> StoredLinks], LinkedThere', GoneWasSeen', syncing' \in Runs, RunHolds'
  PROVE  LinksInv'
<1>1. sends["tagged"].pc = "idle" /\ sends["single"].pc = "idle" /\ \A s \in Sends : sends[s].pc = "idle"
  BY RunAlone
<1> QED BY <1>1 DEF LinksInv, LinksTypes, DocsInOrder, OneAtATime, SendsHold, PassedOver, OnTheTablet

LEMMA IdentifyStep == ASSUME LinksInv, Alone, NEW d \in DocIds, Identify(d) PROVE LinksInv'
<1>1. syncing' = [syncing EXCEPT !.pc = "matching", !.doc = d, !.link = links[d]] /\ UNCHANGED <<tab, links, sends>>
      /\ syncing.pc = "running" /\ d \in syncing.listed
  BY DEF Identify
<1>2. syncing' \in Runs /\ syncing'.pc = "matching" /\ syncing'.doc = d /\ syncing'.link = links[d] /\ syncing'.listed = syncing.listed
  <2>1. d \in 0 .. MaxDocs /\ links[d] \in StoredLinks /\ syncing \in Runs
    BY LinksAssumption DEF LinksInv, LinksTypes, DocIds
  <2> QED BY <1>1, <2>1 DEF Runs
<1>3. RunHolds'
  BY <1>1, <1>2 DEF RunHolds, LinksInv, OnTheTablet
<1> QED BY <1>1, <1>2, <1>3, RunGoesOn DEF LinksInv, LinksTypes, LinkedThere, GoneWasSeen

LEMMA MatchStep == ASSUME LinksInv, Alone, NEW a, Match(a) PROVE LinksInv'
<1> DEFINE d == syncing.doc
<1>1. syncing.pc = "matching" /\ UNCHANGED <<tab, sends>> /\ a \in {"nothing", "hash", "asked", "declined"}
  BY DEF Match
<1>2. d \in OnTheTablet /\ d \in DocIds /\ tab[d] \in Documents /\ syncing.link = links[d]
  BY <1>1 DEF LinksInv, RunHolds, OnTheTablet, LinksTypes
<1>3. PICK l \in StoredLinks : /\ links' = [links EXCEPT ![d] = l]
                               /\ l = links[d] \/ l = Declined \/ (l \in LinkRecords /\ ~l.gone)
  <2>1. CASE IsLinked(syncing.link) \/ a = "nothing"
    <3>1. links' = links
      BY <2>1 DEF Match
    <3>2. links[d] \in StoredLinks /\ links = [links EXCEPT ![d] = links[d]]
      BY <1>2 DEF LinksInv, LinksTypes
    <3> QED BY <3>1, <3>2
  <2>2. CASE ~IsLinked(syncing.link) /\ a = "declined"
    BY <2>2 DEF Match, StoredLinks
  <2>3. CASE ~IsLinked(syncing.link) /\ a \in {"hash", "asked"}
    <3>1. tab[d].paper \in Papers
      BY <1>2 DEF Documents
    <3>2. NewLink(tab[d].paper, a) \in LinkRecords /\ ~NewLink(tab[d].paper, a).gone
      BY <2>3, <3>1, LinkKinds DEF NewLink
    <3> QED BY <2>3, <3>2 DEF Match, StoredLinks
  <2> QED BY <1>1, <2>1, <2>2, <2>3
<1>4. links' \in [DocIds -> StoredLinks] /\ links'[d] = l /\ \A e \in DocIds \ {d} : links'[e] = links[e]
  BY <1>2, <1>3 DEF LinksInv, LinksTypes
<1>5. LinkedThere' /\ GoneWasSeen'
  BY <1>1, <1>2, <1>3, <1>4, LinkKinds DEF LinksInv, LinkedThere, GoneWasSeen, OnTheTablet
<1>6. syncing' = [syncing EXCEPT !.pc = IF IsLinked(links'[d]) /\ a # "nothing" THEN "writing" ELSE "running", !.link = links'[d]]
  BY DEF Match
<1>7. /\ syncing' \in Runs /\ syncing'.doc = d /\ syncing'.link = links'[d] /\ syncing'.listed = syncing.listed
      /\ syncing'.pc = "writing" => IsLinked(links'[d])
  BY <1>2, <1>4, <1>6 DEF Runs, LinksInv, LinksTypes
<1>8. RunHolds'
  BY <1>1, <1>2, <1>7 DEF RunHolds, LinksInv, OnTheTablet
<1> QED BY <1>1, <1>4, <1>5, <1>7, <1>8, RunGoesOn

LEMMA SavePassStep == ASSUME LinksInv, Alone, SavePass PROVE LinksInv'
<1> DEFINE d == syncing.doc
           l == [syncing.link EXCEPT !.marks = TRUE]
<1>1. syncing.pc = "writing" /\ UNCHANGED <<tab, sends>> /\ links' = [links EXCEPT ![d] = l] /\ syncing' = [syncing EXCEPT !.pc = "running"]
  BY DEF SavePass
<1>2. d \in OnTheTablet /\ d \in DocIds /\ tab[d] # None /\ syncing.link = links[d] /\ IsLinked(links[d]) /\ links[d] \in LinkRecords
  BY <1>1, LinkKinds DEF LinksInv, RunHolds, OnTheTablet, LinksTypes
<1>3. l \in LinkRecords /\ (l.gone => l.seen)
  BY <1>2 DEF LinkRecords, LinksInv, GoneWasSeen
<1> HIDE DEF l
<1>4. links' \in [DocIds -> StoredLinks] /\ LinkedThere' /\ GoneWasSeen'
  BY <1>1, <1>2, <1>3, LinkKinds DEF LinksInv, LinksTypes, StoredLinks, LinkedThere, GoneWasSeen
<1>5. syncing' \in Runs /\ syncing'.pc = "running" /\ syncing'.listed = syncing.listed
  BY <1>1 DEF Runs, LinksInv, LinksTypes
<1>6. RunHolds'
  BY <1>1, <1>5 DEF RunHolds, LinksInv, OnTheTablet
<1> QED BY <1>1, <1>4, <1>5, <1>6, RunGoesOn

\* What markListed makes of a link.
LEMMA Marked ==
  ASSUME NEW l \in StoredLinks, NEW listed, NEW d, IsLinked(l) /\ l.gone => l.seen
  PROVE  /\ MarkListed(l, listed, d) \in StoredLinks
         /\ MarkListed(l, listed, d) # None => l # None
         /\ IsLinked(MarkListed(l, listed, d)) = IsLinked(l)
         /\ IsLinked(l) => /\ MarkListed(l, listed, d).paper = l.paper /\ MarkListed(l, listed, d).marks = l.marks
                           /\ MarkListed(l, listed, d).gone => MarkListed(l, listed, d).seen
<1>1. CASE ~IsLinked(l)
  BY <1>1 DEF MarkListed
<1>2. CASE IsLinked(l)
  <2>1. l \in LinkRecords
    BY <1>2, LinkKinds
  <2>2. MarkListed(l, listed, d) \in LinkRecords
    BY <1>2, <2>1 DEF MarkListed, LinkRecords
  <2>3. /\ MarkListed(l, listed, d).paper = l.paper /\ MarkListed(l, listed, d).marks = l.marks
        /\ MarkListed(l, listed, d).gone => MarkListed(l, listed, d).seen
    BY <1>2, <2>1 DEF MarkListed, LinkRecords
  <2> QED BY <1>2, <2>1, <2>2, <2>3, LinkKinds, LinksAssumption DEF StoredLinks
<1> QED BY <1>1, <1>2

LEMMA EndSyncStep == ASSUME LinksInv, Alone, EndSync PROVE LinksInv'
<1>1. syncing.pc = "running" /\ links' = [d \in DocIds |-> MarkListed(links[d], syncing.listed, d)] /\ UNCHANGED <<tab, sends>> /\ syncing' = NoSync
  BY DEF EndSync
<1>2. \A d \in DocIds : /\ links'[d] \in StoredLinks /\ (links'[d] # None => links[d] # None)
                        /\ IsLinked(links'[d]) /\ links'[d].gone => links'[d].seen
  BY <1>1, Marked DEF LinksInv, LinksTypes, GoneWasSeen
<1>3. NoSync \in Runs /\ NoSync.pc = "idle" /\ NoSync.listed = {}
  BY LinksAssumption DEF NoSync, Runs, StoredLinks
<1>4. links' \in [DocIds -> StoredLinks] /\ LinkedThere' /\ GoneWasSeen'
  BY <1>1, <1>2 DEF LinksInv, LinkedThere, GoneWasSeen
<1>5. RunHolds'
  BY <1>1, <1>3 DEF RunHolds
<1> QED BY <1>1, <1>3, <1>4, <1>5, RunGoesOn

\* While a send is at work no run is, and the other send rests.
LEMMA SendAlone ==
  ASSUME LinksInv, NEW s \in Sends, sends[s].pc # "idle"
  PROVE  /\ syncing.pc = "idle" /\ \A r \in Sends \ {s} : sends[r].pc = "idle"
         /\ "tagged" \in Sends /\ "single" \in Sends
  BY DEF LinksInv, OneAtATime, Sends

LEMMA BeginTaggedStep == ASSUME LinksInv, Alone, BeginTagged PROVE LinksInv'
<1> DEFINE new == [NoSend EXCEPT !.pc = "going", !.names = InFolder, !.onTablet = DocumentsOnTablet]
<1>1. sends' = [sends EXCEPT !["tagged"] = new] /\ UNCHANGED <<tab, links, syncing>>
  BY DEF BeginTagged
<1>2. syncing.pc = "idle" /\ (\A s \in Sends : sends[s].pc = "idle") /\ "tagged" \in Sends /\ "single" \in Sends
  BY DEF BeginTagged, Undisturbed, Sends
<1>3. InFolder \subseteq Papers /\ DocumentsOnTablet \subseteq DocIds
  BY DEF InFolder, Shown, DocumentsOnTablet, LinksInv, LinksTypes, Documents
<1>4. new \in Sendings /\ new.pc = "going" /\ new.names = InFolder /\ new.onTablet = DocumentsOnTablet
  <2>1. NoSend \in Sendings
    BY DEF NoSend, Sendings
  <2> QED BY <1>3, <2>1 DEF Sendings
<1> HIDE DEF new
<1>5. sends' \in [Sends -> Sendings] /\ sends'["tagged"] = new /\ sends'["single"] = sends["single"]
  BY <1>1, <1>2, <1>4 DEF LinksInv, LinksTypes
<1>6. InFolder' = InFolder
  BY <1>1 DEF InFolder, Shown
<1>7. \A d \in DocIds \ DocumentsOnTablet : IsLinked(links[d]) => LetGo(links[d])
  BY LinkKinds DEF DocumentsOnTablet, LetGo, LinksInv, LinksTypes, LinkRecords
<1>8. PassedOver'
  BY <1>1, <1>4, <1>5, <1>6, <1>7 DEF PassedOver, LetGo
<1>9. SendsHold'
  BY <1>2, <1>4, <1>5 DEF SendsHold, Sends
<1> QED BY <1>1, <1>2, <1>4, <1>5, <1>8, <1>9 DEF LinksInv, LinksTypes, DocsInOrder, LinkedThere, GoneWasSeen, OneAtATime, RunHolds, OnTheTablet

LEMMA TakeTaggedStep == ASSUME LinksInv, Alone, NEW p \in Papers, TakeTagged(p) PROVE LinksInv'
<1> DEFINE new == [sends["tagged"] EXCEPT !.pc = "uploading", !.paper = p, !.links = links]
<1>1. /\ sends["tagged"].pc = "going" /\ UNCHANGED <<tab, links, syncing>> /\ sends["tagged"] \in Sendings
      /\ p \notin sends["tagged"].names
  BY DEF TakeTagged, IsThere, LinksInv, LinksTypes, Sends
<1>2. sends' = [sends EXCEPT !["tagged"] = new]
  BY DEF TakeTagged
<1>3. syncing.pc = "idle" /\ sends["single"].pc = "idle" /\ "tagged" \in Sends /\ "single" \in Sends
  BY <1>1, SendAlone DEF Sends
<1>4. new \in Sendings /\ new.pc = "uploading" /\ new.paper = p /\ new.links = links
      /\ new.names = sends["tagged"].names /\ new.onTablet = sends["tagged"].onTablet
  BY <1>1 DEF Sendings, LinksInv, LinksTypes
<1> HIDE DEF new
<1>5. sends' \in [Sends -> Sendings] /\ sends'["tagged"] = new /\ sends'["single"] = sends["single"]
  BY <1>2, <1>3, <1>4 DEF LinksInv, LinksTypes
<1>6. InFolder' = InFolder
  BY <1>1 DEF InFolder, Shown
<1>7. PassedOver'
  BY <1>1, <1>4, <1>5, <1>6 DEF LinksInv, PassedOver, LetGo
<1>8. SendsHold'
  BY <1>1, <1>3, <1>4, <1>5 DEF SendsHold, Sends
<1> QED BY <1>1, <1>3, <1>5, <1>7, <1>8 DEF LinksInv, LinksTypes, DocsInOrder, LinkedThere, GoneWasSeen, OneAtATime, RunHolds, OnTheTablet

\* A send ends, or passes on without a record.
LEMMA SendRests ==
  ASSUME LinksInv, Alone, NEW s \in Sends, sends[s].pc # "idle", UNCHANGED syncing,
         sends' = [sends EXCEPT ![s] = NoSend],
         tab' \in [DocIds -> Documents \cup {None}], links' \in [DocIds -> StoredLinks],
         DocsInOrder', OnTheTablet \subseteq OnTheTablet', LinkedThere', GoneWasSeen'
  PROVE  LinksInv'
<1>1. syncing.pc = "idle" /\ (\A r \in Sends \ {s} : sends[r].pc = "idle") /\ "tagged" \in Sends /\ "single" \in Sends
  BY SendAlone
<1>2. NoSend \in Sendings /\ NoSend.pc = "idle"
  BY DEF NoSend, Sendings
<1>3. sends' \in [Sends -> Sendings] /\ \A r \in Sends : sends'[r].pc = "idle"
  BY <1>1, <1>2 DEF LinksInv, LinksTypes
<1> QED BY <1>1, <1>3 DEF LinksInv, LinksTypes, OneAtATime, RunHolds, SendsHold, PassedOver

LEMMA EndTaggedStep == ASSUME LinksInv, Alone, EndTagged PROVE LinksInv'
  BY SendRests DEF EndTagged, Sends, LinksInv, LinksTypes, DocsInOrder, LinkedThere, GoneWasSeen, OnTheTablet

LEMMA BeginSingleStep == ASSUME LinksInv, Alone, NEW p \in Papers, BeginSingle(p) PROVE LinksInv'
<1> DEFINE new == [pc |-> "uploading", paper |-> p, names |-> InFolder, onTablet |-> DocumentsOnTablet, links |-> links]
<1>1. sends' = [sends EXCEPT !["single"] = new] /\ UNCHANGED <<tab, links, syncing>>
  BY DEF BeginSingle
<1>2. syncing.pc = "idle" /\ (\A s \in Sends : sends[s].pc = "idle") /\ "tagged" \in Sends /\ "single" \in Sends
  BY DEF BeginSingle, Undisturbed, Sends
<1>3. InFolder \subseteq Papers /\ DocumentsOnTablet \subseteq DocIds
  BY DEF InFolder, Shown, DocumentsOnTablet, LinksInv, LinksTypes, Documents
<1>4. new \in Sendings
  BY <1>3 DEF Sendings, LinksInv, LinksTypes
<1>5. sends' \in [Sends -> Sendings] /\ sends'["single"] = new /\ sends'["tagged"] = sends["tagged"]
  BY <1>1, <1>2, <1>4 DEF LinksInv, LinksTypes
<1>6. DocumentsOnTablet' = DocumentsOnTablet
  BY <1>1 DEF DocumentsOnTablet
<1>7. SendsHold' /\ PassedOver'
  BY <1>1, <1>2, <1>5, <1>6 DEF SendsHold, PassedOver, Sends
<1> QED BY <1>1, <1>2, <1>5, <1>7 DEF LinksInv, LinksTypes, DocsInOrder, LinkedThere, GoneWasSeen, OneAtATime, RunHolds, OnTheTablet

\* The store after a send that was recorded.
LEMMA StoreSent ==
  ASSUME LinksInv, NEW s \in Sends, sends[s].pc = "uploading", NEW d \in DocIds, links' = WithSent(sends[s], d)
  PROVE  /\ links' \in [DocIds -> StoredLinks] /\ GoneWasSeen'
         /\ IsLinked(links'[d]) /\ links'[d].paper = sends[s].paper
         /\ \A e \in DocIds \ {d} :
              \/ links'[e] = links[e]
              \/ links'[e] = None /\ IsLinked(links[e]) /\ links[e].paper = sends[s].paper /\ e \notin sends[s].onTablet
<1>1. sends[s].paper \in Papers /\ sends[s].links = links
  BY DEF LinksInv, SendsHold
<1> DEFINE l == [NewLink(sends[s].paper, "send") EXCEPT !.sent = "today"]
<1>2. l \in LinkRecords /\ l.paper = sends[s].paper /\ ~l.gone
  BY <1>1, LinkKinds DEF NewLink, LinkRecords
<1> HIDE DEF l
<1>3. links' = [e \in DocIds |-> IF e = d THEN l ELSE IF e \in Replaced(sends[s]) THEN None ELSE links[e]]
  BY <1>1 DEF WithSent, l
<1>4. \A e \in Replaced(sends[s]) : IsLinked(links[e]) /\ links[e].paper = sends[s].paper /\ e \notin sends[s].onTablet
  BY <1>1 DEF Replaced, LinkedTo
<1>5. links' \in [DocIds -> StoredLinks]
  BY <1>2, <1>3 DEF StoredLinks, LinksInv, LinksTypes
<1>6. GoneWasSeen'
  <2> SUFFICES ASSUME NEW e \in DocIds, IsLinked(links'[e]), links'[e].gone PROVE links'[e].seen
    BY DEF GoneWasSeen
  <2>1. links'[e] = l \/ links'[e] = None \/ links'[e] = links[e]
    BY <1>3
  <2> QED BY <1>2, <2>1, LinkKinds DEF LinksInv, GoneWasSeen
<1> QED BY <1>2, <1>3, <1>4, <1>5, <1>6, LinkKinds

LEMMA UploadStep ==
  ASSUME LinksInv, Alone, NEW s \in Sends, NEW o \in {"failed", "sent", "unanswered"}, Upload(s, o)
  PROVE  LinksInv'
<1> DEFINE send == sends[s]
           d == Arrived + 1
<1>1. send.pc = "uploading" /\ UNCHANGED syncing /\ send \in Sendings /\ send.paper \in Papers /\ send.links = links
  BY DEF Upload, LinksInv, LinksTypes, SendsHold
<1>2. syncing.pc = "idle" /\ (\A r \in Sends \ {s} : sends[r].pc = "idle") /\ "tagged" \in Sends /\ "single" \in Sends
  BY <1>1, SendAlone
<1>3. /\ tab' \in [DocIds -> Documents \cup {None}] /\ DocsInOrder' /\ OnTheTablet \subseteq OnTheTablet'
      /\ InFolder' \subseteq InFolder \cup {send.paper}
      /\ o # "failed" => d \in OnTheTablet' /\ d \in DocIds
  <2>1. CASE o = "failed"
    <3>1. tab' = tab
      BY <2>1 DEF Upload
    <3> QED BY <2>1, <3>1 DEF LinksInv, LinksTypes, DocsInOrder, OnTheTablet, InFolder, Shown
  <2>2. CASE o # "failed"
    <3>1. PICK t \in Documents : tab' = [tab EXCEPT ![d] = t] /\ t.paper = send.paper
      <4>1. \A lag \in BOOLEAN : [paper |-> send.paper, at |-> "folder", shown |-> ~lag] \in Documents
        BY <1>1 DEF Documents
      <4> QED BY <2>2, <4>1 DEF Upload
    <3>2. d \in DocIds
      BY <2>2 DEF Upload
    <3>3. tab' \in [DocIds -> Documents \cup {None}] /\ DocsInOrder' /\ OnTheTablet' = OnTheTablet \cup {d}
      BY <3>1, <3>2, Arrives DEF LinksInv
    <3>4. InFolder' \subseteq InFolder \cup {send.paper}
      <4> SUFFICES ASSUME NEW q \in InFolder', q # send.paper PROVE q \in InFolder
        OBVIOUS
      <4>1. PICK e \in DocIds : tab'[e] # None /\ tab'[e].shown /\ tab'[e].at # "trash" /\ tab'[e].at = "folder" /\ tab'[e].paper = q
        BY DEF InFolder, Shown
      <4>2. e # d /\ tab'[e] = tab[e]
        BY <3>1, <3>2, <4>1 DEF LinksInv, LinksTypes
      <4> QED BY <4>1, <4>2 DEF InFolder, Shown
    <3> QED BY <3>2, <3>3, <3>4
  <2> QED BY <2>1, <2>2
<1>4. links' \in [DocIds -> StoredLinks] /\ LinkedThere' /\ GoneWasSeen'
      /\ \A e \in DocIds : IsLinked(links'[e]) => links'[e].paper = send.paper \/ links'[e] = links[e]
  <2>1. CASE o # "sent"
    <3>1. links' = links
      BY <2>1 DEF Upload
    <3> QED BY <1>3, <3>1 DEF LinksInv, LinksTypes, LinkedThere, GoneWasSeen, OnTheTablet
  <2>2. CASE o = "sent"
    <3>1. links' = WithSent(send, d) /\ d \in DocIds
      BY <2>2 DEF Upload
    <3>2. /\ links' \in [DocIds -> StoredLinks] /\ GoneWasSeen' /\ IsLinked(links'[d]) /\ links'[d].paper = send.paper
          /\ \A e \in DocIds \ {d} : links'[e] = links[e] \/ links'[e] = None
      BY <1>1, <3>1, StoreSent
    <3>3. LinkedThere'
      BY <1>3, <2>2, <3>2 DEF LinkedThere, LinksInv, OnTheTablet
    <3> QED BY <3>2, <3>3, LinkKinds
  <2> QED BY <2>1, <2>2
<1>5. CASE s = "single"
  <2>1. sends' = [sends EXCEPT ![s] = NoSend]
    BY <1>5 DEF Upload
  <2> QED BY <1>1, <1>3, <1>4, <2>1, SendRests
<1>6. CASE s = "tagged"
  <2> DEFINE new == [send EXCEPT !.pc = "going", !.paper = None, !.links = <<>>, !.names = @ \cup {send.paper}]
  <2>1. sends' = [sends EXCEPT !["tagged"] = new]
    BY <1>6 DEF Upload
  <2>2. new \in Sendings /\ new.pc = "going" /\ new.names = send.names \cup {send.paper} /\ new.onTablet = send.onTablet
    BY <1>1 DEF Sendings
  <2> HIDE DEF new
  <2>3. sends' \in [Sends -> Sendings] /\ sends'["tagged"] = new /\ sends'["single"] = sends["single"]
    BY <1>2, <2>1, <2>2 DEF LinksInv, LinksTypes
  <2>4. PassedOver'
    <3>1. InFolder' \subseteq new.names
      BY <1>1, <1>3, <1>6, <2>2 DEF LinksInv, PassedOver
    <3>2. \A e \in DocIds \ new.onTablet : IsLinked(links'[e]) /\ links'[e].paper \notin new.names => LetGo(links'[e])
      BY <1>1, <1>4, <1>6, <2>2 DEF LinksInv, PassedOver, LetGo
    <3> QED BY <2>3, <3>1, <3>2 DEF PassedOver, LetGo
  <2>5. SendsHold'
    BY <1>2, <1>6, <2>2, <2>3 DEF SendsHold, Sends
  <2> QED BY <1>1, <1>2, <1>3, <1>4, <1>6, <2>2, <2>3, <2>4, <2>5 DEF LinksInv, LinksTypes, OneAtATime, RunHolds
<1> QED BY <1>5, <1>6 DEF Sends

LEMMA LinksStep == ASSUME LinksInv, Alone, LinksNext PROVE LinksInv'
<1>1. CASE \/ \E d \in DocIds : Appear(d) \/ \E at \in {"folder", "elsewhere", "trash"} : MoveDocument(d, at)
           \/ \E p \in Papers : DragIn(p) \/ TagPaper(p)
  BY <1>1, TabletStep
<1>2. CASE \/ DayPasses \/ List \/ SavePass \/ EndSync
           \/ \E d \in DocIds : Identify(d) \/ \E p \in Papers : LinkNote(d, p)
           \/ \E a \in {"nothing", "hash", "asked", "declined"} : Match(a)
  BY <1>2, DayStep, ListStep, SavePassStep, EndSyncStep, IdentifyStep, LinkNoteStep, MatchStep
<1>3. CASE SendNext
  BY <1>3, BeginTaggedStep, EndTaggedStep, TakeTaggedStep, BeginSingleStep, UploadStep DEF SendNext
<1> QED BY <1>1, <1>2, <1>3 DEF LinksNext

LEMMA LinksInvariant == ASSUME Alone PROVE LinksSpec => []LinksInv
<1>1. LinksInv /\ UNCHANGED storeVars => LinksInv'
  BY DEF storeVars, LinksInv, LinksTypes, DocsInOrder, LinkedThere, GoneWasSeen, OneAtATime, RunHolds, SendsHold, PassedOver,
         OnTheTablet, InFolder, Shown, DocumentsOnTablet, LetGo
<1> QED BY <1>1, LinksStart, LinksStep, PTL DEF LinksSpec

SendsOnce ==
  sends["tagged"].pc = "going" /\ sends'["tagged"].pc = "uploading" =>
    LET p == sends'["tagged"].paper IN
    /\ p \notin InFolder
    /\ \A d \in LinkedTo(links, p) : Present(d) => (links[d].gone /\ links[d].seen) \/ (links[d].sent # "today" /\ ~links[d].seen)

LEMMA SendOnceStep == ASSUME LinksInv, LinksNext \/ UNCHANGED storeVars PROVE SendsOnce
<1> SUFFICES ASSUME sends["tagged"].pc = "going", sends'["tagged"].pc = "uploading" PROVE SendsOnce
  BY DEF SendsOnce
<1>1. sends' # sends /\ sends \in [Sends -> Sendings] /\ "tagged" \in Sends /\ "single" \in Sends /\ NoSend.pc = "idle"
  BY DEF LinksInv, LinksTypes, Sends, NoSend
<1>2. sends["single"].pc = "idle"
  BY DEF LinksInv, OneAtATime
<1>3. PICK p \in Papers : TakeTagged(p)
  <2>1. ASSUME NEW s \in Sends, NEW o, Upload(s, o) PROVE FALSE
    BY <1>2, <2>1 DEF Upload, Sends
  <2>2. ~BeginTagged /\ ~EndTagged /\ ~UNCHANGED storeVars
    BY <1>1 DEF BeginTagged, EndTagged, storeVars
  <2>3. ASSUME NEW p \in Papers, BeginSingle(p) PROVE FALSE
    BY <1>1, <2>3 DEF BeginSingle
  <2>4. ~(LinksNext /\ ~SendNext)
    BY <1>1 DEF LinksNext, Appear, Identify, MoveDocument, LinkNote, DragIn, TagPaper, DayPasses, List, SavePass, EndSync, Match, Move
  <2> QED BY <2>1, <2>2, <2>3, <2>4 DEF SendNext
<1>4. sends'["tagged"].paper = p /\ p \notin sends["tagged"].names /\ LinkedTo(links, p) \cap sends["tagged"].onTablet = {}
  BY <1>1, <1>3 DEF TakeTagged, IsThere, Sendings
<1>5. p \notin InFolder
  BY <1>4 DEF LinksInv, PassedOver
<1>6. ASSUME NEW d \in LinkedTo(links, p)
      PROVE  (links[d].gone /\ links[d].seen) \/ (links[d].sent # "today" /\ ~links[d].seen)
  <2>1. d \in DocIds \ sends["tagged"].onTablet /\ IsLinked(links[d]) /\ links[d].paper = p
    BY <1>4 DEF LinkedTo
  <2> QED BY <1>4, <2>1 DEF LinksInv, PassedOver, LetGo, GoneWasSeen
<1> QED BY <1>4, <1>5, <1>6 DEF SendsOnce

\* sendTagged, sendSingle: where runs and sends wait for each other a paper is on the tablet once, for any papers,
\* documents and days.
THEOREM PapersSentOnce == ASSUME Alone PROVE LinksSpec => SentOnce
<1>1. LinksInv /\ [LinksNext]_storeVars => [SendsOnce]_storeVars
  BY SendOnceStep
<1> QED BY <1>1, LinksInvariant, PTL DEF LinksSpec, SentOnce, SendsOnce

RemembersLinks ==
  \A d \in DocIds :
       /\ (IsLinked(links[d]) /\ links[d].marks /\ Present(d) /\ ~links[d].gone /\ links[d].seen)
            => (IsLinked(links'[d]) /\ (links'[d].marks \/ links'[d].how = "command"))
       /\ (IsLinked(links[d]) /\ IsLinked(links'[d]) /\ links'[d].paper # links[d].paper)
            => links'[d].how = "command"

\* What was known of a document, and what is.
StillKnown(l, new, there) ==
  /\ (IsLinked(l) /\ l.marks /\ there /\ ~l.gone /\ l.seen) => (IsLinked(new) /\ (new.marks \/ new.how = "command"))
  /\ (IsLinked(l) /\ IsLinked(new) /\ new.paper # l.paper) => new.how = "command"

LEMMA RememberStep == ASSUME LinksInv, LinksNext \/ UNCHANGED storeVars PROVE RemembersLinks
<1> SUFFICES ASSUME NEW d \in DocIds PROVE StillKnown(links[d], links'[d], Present(d))
  BY DEF RemembersLinks, StillKnown
<1>1. links[d] \in StoredLinks /\ (IsLinked(links[d]) => links[d] \in LinkRecords)
  BY LinkKinds DEF LinksInv, LinksTypes
<1>2. CASE links' = links
  BY <1>2 DEF StillKnown
<1>3. CASE DayPasses
  <2>1. links'[d] = IF IsLinked(links[d]) /\ links[d].sent = "today" THEN [links[d] EXCEPT !.sent = "before"] ELSE links[d]
    BY <1>3 DEF DayPasses
  <2>2. CASE IsLinked(links[d]) /\ links[d].sent = "today"
    <3>1. links'[d] \in LinkRecords /\ links'[d].marks = links[d].marks /\ links'[d].paper = links[d].paper
      BY <1>1, <2>1, <2>2 DEF LinkRecords
    <3> QED BY <3>1, LinkKinds DEF StillKnown
  <2> QED BY <2>1, <2>2 DEF StillKnown
<1>4. ASSUME NEW e \in DocIds, NEW p \in Papers, LinkNote(e, p) PROVE StillKnown(links[d], links'[d], Present(d))
  <2>1. CASE e # d
    <3>1. links'[d] = links[d]
      BY <1>4, <2>1 DEF LinkNote, LinksInv, LinksTypes
    <3> QED BY <3>1 DEF StillKnown
  <2>2. CASE e = d
    <3>1. PICK b \in BOOLEAN : links' = [links EXCEPT ![d] = [NewLink(p, "command") EXCEPT !.marks = b]]
      BY <1>1, <1>4, <2>2 DEF LinkNote, LinkRecords
    <3>2. links'[d] = [NewLink(p, "command") EXCEPT !.marks = b]
      BY <3>1 DEF LinksInv, LinksTypes
    <3>3. links'[d] \in LinkRecords /\ links'[d].how = "command"
      BY <3>2, LinkKinds, ZenonT(40) DEF NewLink, LinkRecords
    <3> QED BY <3>3, LinkKinds DEF StillKnown
  <2> QED BY <2>1, <2>2
<1>5. ASSUME NEW a, Match(a), links' # links PROVE StillKnown(links[d], links'[d], Present(d))
  <2>1. syncing.doc \in DocIds /\ ~IsLinked(links[syncing.doc])
    BY <1>5 DEF Match, LinksInv, RunHolds, OnTheTablet
  <2>2. \A e \in DocIds \ {syncing.doc} : links'[e] = links[e]
    BY <1>5 DEF Match, LinksInv, LinksTypes
  <2> QED BY <2>1, <2>2 DEF StillKnown
<1>6. CASE SavePass
  <2>1. /\ syncing.doc \in DocIds /\ syncing.link = links[syncing.doc] /\ IsLinked(links[syncing.doc])
        /\ links' = [links EXCEPT ![syncing.doc] = [syncing.link EXCEPT !.marks = TRUE]]
    BY <1>6 DEF SavePass, LinksInv, RunHolds, OnTheTablet
  <2>2. CASE d = syncing.doc
    <3>1. links'[d] = [links[d] EXCEPT !.marks = TRUE] /\ links[d] \in LinkRecords
      BY <1>1, <2>1, <2>2 DEF LinksInv, LinksTypes
    <3>2. links'[d] \in LinkRecords /\ links'[d].marks /\ links'[d].paper = links[d].paper
      BY <3>1 DEF LinkRecords
    <3> QED BY <3>2, LinkKinds DEF StillKnown
  <2>3. CASE d # syncing.doc
    BY <2>1, <2>3 DEF StillKnown, LinksInv, LinksTypes
  <2> QED BY <2>2, <2>3
<1>7. CASE EndSync
  <2>1. links'[d] = MarkListed(links[d], syncing.listed, d)
    BY <1>7 DEF EndSync
  <2> QED BY <1>1, <2>1, Marked DEF StillKnown, LinksInv, GoneWasSeen
<1>8. ASSUME NEW s \in Sends, NEW o, Upload(s, o), links' # links PROVE StillKnown(links[d], links'[d], Present(d))
  <2> DEFINE new == Arrived + 1
  <2>1. sends[s].pc = "uploading" /\ new \in DocIds /\ links' = WithSent(sends[s], new) /\ sends[s] \in Sendings
    BY <1>8 DEF Upload, LinksInv, LinksTypes
  <2>2. tab[new] = None /\ links[new] = None
    BY <2>1, NextToArrive DEF OnTheTablet, LinksInv, LinkedThere
  <2>3. CASE d = new
    BY <2>2, <2>3, LinkKinds DEF StillKnown
  <2>4. CASE d # new
    <3>1. \/ links'[d] = links[d]
          \/ links'[d] = None /\ IsLinked(links[d]) /\ links[d].paper = sends[s].paper /\ d \notin sends[s].onTablet
      BY <2>1, <2>4, StoreSent
    <3>2. CASE links'[d] = None /\ IsLinked(links[d]) /\ links[d].paper = sends[s].paper /\ d \notin sends[s].onTablet
      <4>1. links[d].gone \/ ~links[d].seen
        <5>1. CASE s = "single"
          BY <2>1, <3>2, <5>1 DEF LinksInv, SendsHold, DocumentsOnTablet
        <5>2. CASE s = "tagged"
          BY <2>1, <3>2, <5>2 DEF LinksInv, SendsHold, PassedOver, LetGo
        <5> QED BY <5>1, <5>2 DEF Sends
      <4> QED BY <3>2, <4>1, LinkKinds DEF StillKnown
    <3> QED BY <3>1, <3>2 DEF StillKnown
  <2> QED BY <2>3, <2>4
<1>9. links' = links \/ DayPasses \/ SavePass \/ EndSync \/ (\E a : Match(a)) \/ (\E s \in Sends : \E o : Upload(s, o))
      \/ \E e \in DocIds, p \in Papers : LinkNote(e, p)
  <2>1. CASE SendNext
    BY <2>1 DEF SendNext, BeginTagged, EndTagged, TakeTagged, BeginSingle
  <2> QED BY <2>1 DEF LinksNext, storeVars, Appear, Identify, MoveDocument, DragIn, TagPaper, List
<1> QED BY <1>2, <1>3, <1>4, <1>5, <1>6, <1>7, <1>8, <1>9

THEOREM LinksAreRemembered == ASSUME Alone PROVE LinksSpec => LinksRemembered
<1>1. LinksInv /\ [LinksNext]_storeVars => [RemembersLinks]_storeVars
  BY RememberStep
<1> QED BY <1>1, LinksInvariant, PTL DEF LinksSpec, LinksRemembered, RemembersLinks

-----------------------------------------------------------------------------
(* The render.                                                              *)

RenderSpec == RenderInit /\ [][RenderNext]_renderVars

Addings == [pc : {"idle", "creating", "authorising", "storing"}, key : 0 .. MaxAttachments,
            md5 : Renders \cup {0}, holds : Renders \cup {Foreign, None}]

RenderRecords == [key : 0 .. MaxAttachments, md5 : Renders \cup {None},
                  theirs : {None, "trashed", "moved", "annotated", "changed"}]

RenderTypes ==
  /\ lossyUpload \in BOOLEAN /\ render \in Renders /\ afresh \in BOOLEAN /\ madeAnew \in BOOLEAN
  /\ files \in [AttachmentKeys -> Attachments \cup {None}]
  /\ byUser \subseteq AttachmentKeys
  /\ record \in RenderRecords
  /\ adding \in Addings

\* The attachments are numbered as they are made; whatever shows the user's hand is the user's.
FilesInOrder == \E n \in 0 .. MaxAttachments : Made = 1 .. n
HandsShow == \A k \in Made \ byUser : files[k].gone = None /\ ~files[k].annotated /\ files[k].md5 # Foreign

RecordsMade ==
  /\ IF record.key = 0 THEN record.md5 = None /\ record.theirs = None ELSE record.key \in Made
  /\ adding.pc \in {"authorising", "storing"} => adding.key \in Made
  /\ adding.pc \in {"authorising", "storing"} => adding.md5 \in Renders
  /\ adding.pc = "creating" => adding.holds = None /\ adding.md5 \in Renders
  /\ adding.pc = "authorising" /\ adding.holds = Foreign => record.md5 = None

\* While no answer is lost
NothingUnknown ==
  ~lossyUpload =>
    /\ Made \ byUser \subseteq {record.key}
    /\ adding.pc = "creating" => Made \subseteq byUser
    /\ adding.pc \in {"authorising", "storing"} => Made \ byUser \subseteq {adding.key}
    /\ record.theirs # None => record.key \in byUser
    /\ record.md5 # None => record.key \in byUser \/ files[record.key].md5 = record.md5

OneUntouched ==
  ~madeAnew =>
    /\ \E k \in Nat : Made \ byUser \subseteq {k}
    /\ adding.pc = "creating" => Made \subseteq byUser

RenderInv == RenderTypes /\ FilesInOrder /\ HandsShow /\ RecordsMade /\ NothingUnknown /\ OneUntouched

USE RenderAssumption, AttachmentsAssumption DEF Renders, AttachmentKeys, Foreign

LEMMA AttachmentParts == ASSUME RenderTypes, NEW k \in Made
  PROVE /\ files[k] \in Attachments /\ files[k].md5 \in Renders \cup {Foreign, None}
        /\ files[k].gone \in {None, "trashed", "moved"} /\ files[k].annotated \in BOOLEAN
        /\ k \in AttachmentKeys
  BY DEF RenderTypes, Made, Attachments

LEMMA WhatIsKnown == ASSUME RenderInv, adding.pc = "idle", PlanRender \in {"check", "find"}
  PROVE /\ KnownRender.key \in 0 .. MaxAttachments /\ KnownRender.md5 \in Renders \cup {None}
        /\ KnownRender.key # 0 => KnownRender.key \in Made
        /\ KnownRender.key = 0 => Made \subseteq byUser
        /\ (KnownRender = record /\ record.key # 0) \/ (record.key = 0 /\ KnownRender.md5 = None)
<1> DEFINE c == {k \in Made : files[k].gone # "moved"}
<1>1. CASE PlanRender = "check"
  <2>1. record.key # 0
    BY <1>1 DEF PlanRender
  <2> QED BY <1>1, <2>1 DEF KnownRender, RenderInv, RenderTypes, RenderRecords, RecordsMade
<1>2. CASE PlanRender = "find" /\ c = {}
  <2>1. record.key = 0
    BY <1>2 DEF PlanRender, RenderInv, RenderTypes, RenderRecords, RecordsMade
  <2>2. Made \subseteq byUser
    BY <1>2 DEF RenderInv, HandsShow
  <2>3. KnownRender = NoRender
    BY <1>2 DEF KnownRender
  <2> QED BY <2>1, <2>2, <2>3 DEF NoRender
<1>3. CASE PlanRender = "find" /\ c # {}
  <2>1. record.key = 0
    BY <1>3 DEF PlanRender, RenderInv, RenderTypes, RenderRecords, RecordsMade
  <2>2. c \in SUBSET Nat
    BY DEF Made
  <2>3. Min(c) \in c
    BY <1>3, <2>2, LeastIn
  <2>4. KnownRender = [key |-> Min(c), md5 |-> None, theirs |-> None]
    BY <1>3 DEF KnownRender
  <2>5. Min(c) \in Made /\ Min(c) \in 1 .. MaxAttachments
    BY <2>3 DEF Made
  <2> HIDE DEF c
  <2> QED BY <2>1, <2>4, <2>5
<1> QED BY <1>1, <1>2, <1>3

LEMMA RenderStarts == RenderInit => RenderInv
<1> SUFFICES ASSUME RenderInit PROVE RenderInv
  OBVIOUS
<1>1. RenderTypes
  <2>1. NoRender \in RenderRecords /\ NotAdding \in Addings /\ 1 \in Renders
    BY DEF NoRender, NotAdding, RenderRecords, Addings
  <2>2. [k \in AttachmentKeys |-> None] \in [AttachmentKeys -> Attachments \cup {None}]
    OBVIOUS
  <2> QED BY <2>1, <2>2 DEF RenderInit, RenderTypes
<1>2. Made = {} /\ Made = 1 .. 0
  BY DEF RenderInit, Made
<1>3. NothingUnknown /\ OneUntouched
  BY <1>2 DEF RenderInit, NothingUnknown, OneUntouched, NoRender, NotAdding
<1> QED BY <1>1, <1>2, <1>3 DEF RenderInv, FilesInOrder, HandsShow, RecordsMade, RenderInit, NoRender, NotAdding

\* Steps that leave the attachments, the record and what is being added alone.
LEMMA RecordRests == ASSUME RenderInv, render' \in Renders, afresh' \in BOOLEAN, UNCHANGED <<lossyUpload, files, byUser, record, adding, madeAnew>>
                     PROVE RenderInv'
<1>1. Made' = Made
  BY DEF Made
<1> QED BY <1>1 DEF RenderInv, RenderTypes, FilesInOrder, HandsShow, RecordsMade, NothingUnknown, OneUntouched

LEMMA DrawMoreStep == ASSUME RenderInv, DrawMore PROVE RenderInv'
  BY RecordRests DEF DrawMore, RenderInv, RenderTypes

LEMMA SettingsStep == ASSUME RenderInv, NEW s, ChangeSettings(s) \/ StartAfresh \/ SkipRender PROVE RenderInv'
  BY RecordRests DEF ChangeSettings, StartAfresh, SkipRender, rest, world, UserActs, RenderInv, RenderTypes

LEMMA TouchStep == ASSUME RenderInv, NEW k \in AttachmentKeys, NEW f \in Attachments, UserTouches(k, f)
                   PROVE RenderInv'
<1>1. files' = [files EXCEPT ![k] = f] /\ byUser' = byUser \cup {k} /\ k \in Made
  BY DEF UserTouches, Made
<1>2. UNCHANGED <<lossyUpload, render, afresh, record, adding, madeAnew>>
  BY DEF UserTouches
<1>3. RenderTypes'
  BY <1>1, <1>2 DEF RenderInv, RenderTypes
<1>4. Made' = Made /\ \A j \in Made \ {k} : files'[j] = files[j]
  BY <1>1 DEF Made, RenderInv, RenderTypes
<1>5. (Made \ byUser)' \subseteq Made \ byUser /\ k \notin (Made \ byUser)'
  BY <1>1, <1>4
<1> QED BY <1>1, <1>2, <1>3, <1>4, <1>5, SMTT(30) DEF RenderInv, FilesInOrder, HandsShow, RecordsMade, NothingUnknown, OneUntouched

LEMMA AddRenderStep == ASSUME RenderInv, AddRender PROVE RenderInv'
<1> DEFINE known == KnownRender
           verdict == IF known.key = 0 THEN "none" ELSE JudgeRender(known.key, known)
<1>1. adding.pc = "idle" /\ PlanRender \in {"check", "find"} /\ afresh' = FALSE /\ UNCHANGED <<lossyUpload, render, files, byUser>>
  BY DEF AddRender, world
<1>2. /\ known.key \in 0 .. MaxAttachments /\ known.md5 \in Renders \cup {None}
      /\ known.key # 0 => known.key \in Made
      /\ known.key = 0 => Made \subseteq byUser
      /\ (known = record /\ record.key # 0) \/ (record.key = 0 /\ known.md5 = None)
  BY <1>1, WhatIsKnown
<1>3. Made' = Made
  BY <1>1 DEF Made
<1>4. known.key \in Made => /\ files[known.key].md5 \in Renders \cup {Foreign, None}
                           /\ files[known.key].gone \in {None, "trashed", "moved"}
                           /\ files[known.key].annotated \in BOOLEAN
  BY AttachmentParts DEF RenderInv
<1>5. verdict \in {"trashed", "moved"} => known.key \in Made /\ known.key \in byUser
  BY <1>2, <1>4 DEF JudgeRender, RenderInv, HandsShow
<1>6. verdict = "annotated" => known.key \in Made /\ known.key \in byUser
  BY <1>2, <1>4 DEF JudgeRender, RenderInv, HandsShow
<1>7. verdict = "changed" => known.key \in Made /\ known.md5 # None /\ files[known.key].md5 # known.md5
  BY <1>2, <1>4 DEF JudgeRender
<1>8. verdict = "unchanged" => known.key \in Made /\ files[known.key].md5 = render
  BY <1>2, <1>4 DEF JudgeRender
<1>9. verdict = "upload" => known.key \in Made /\ (known.md5 = None \/ files[known.key].md5 = known.md5)
  BY <1>2, <1>4 DEF JudgeRender
<1>10. ~lossyUpload /\ record.key = 0 => Made \subseteq byUser
  BY DEF RenderInv, NothingUnknown, Made
<1> HIDE DEF known, verdict
<1>11. CASE /\ known.key = 0 \/ (verdict \in {"trashed", "moved"} /\ afresh)
            /\ adding' = [NotAdding EXCEPT !.pc = "creating", !.md5 = render]
            /\ madeAnew' = (madeAnew \/ known.key # 0)
            /\ UNCHANGED record
  <2>1. adding' = [pc |-> "creating", key |-> 0, md5 |-> render, holds |-> None]
    BY <1>11 DEF NotAdding
  <2>2. ~lossyUpload => Made \subseteq byUser
    BY <1>2, <1>5, <1>10, <1>11 DEF RenderInv, NothingUnknown
  <2>3. ~madeAnew' => known.key = 0 /\ ~madeAnew
    BY <1>11 DEF RenderInv, RenderTypes
  <2>4. RenderTypes'
    <3>1. adding' \in Addings
      BY <2>1 DEF RenderInv, RenderTypes, Addings
    <3> QED BY <1>1, <1>11, <3>1 DEF RenderInv, RenderTypes
  <2>5. NothingUnknown' /\ OneUntouched'
    BY <1>1, <1>2, <1>3, <1>11, <2>1, <2>2, <2>3 DEF RenderInv, NothingUnknown, OneUntouched
  <2>6. RecordsMade'
    <3>1. adding'.pc = "creating" /\ adding'.holds = None /\ adding'.md5 \in Renders
      BY <2>1 DEF RenderInv, RenderTypes
    <3> QED BY <1>3, <1>11, <3>1 DEF RenderInv, RecordsMade
  <2> QED BY <1>1, <1>3, <2>4, <2>5, <2>6 DEF RenderInv, FilesInOrder, HandsShow
<1>12. CASE verdict = "unchanged" /\ Stored(known.key, render, None) /\ EndAdding /\ UNCHANGED madeAnew
  <2>1. record' = [key |-> known.key, md5 |-> render, theirs |-> None] /\ adding' = [pc |-> "idle", key |-> 0, md5 |-> 0, holds |-> None]
    BY <1>12 DEF Stored, EndAdding, NotAdding
  <2>2. RenderTypes'
    <3>1. adding' \in Addings
      BY <2>1 DEF Addings
    <3>2. record' \in RenderRecords
      BY <1>2, <1>12, <2>1 DEF RenderInv, RenderTypes, RenderRecords
    <3> QED BY <1>1, <1>12, <3>1, <3>2 DEF RenderInv, RenderTypes
  <2>3. NothingUnknown' /\ OneUntouched'
    BY <1>1, <1>2, <1>3, <1>8, <1>10, <1>12, <2>1 DEF RenderInv, NothingUnknown, OneUntouched
  <2>4. known.key # 0
    BY <1>8, <1>12 DEF Made
  <2> QED BY <1>1, <1>3, <1>8, <1>12, <2>1, <2>2, <2>3, <2>4 DEF RenderInv, FilesInOrder, HandsShow, RecordsMade
<1>13. CASE /\ verdict \in {"trashed", "moved", "annotated", "changed"}
            /\ Stored(known.key, known.md5, verdict) /\ EndAdding /\ UNCHANGED madeAnew
  <2>1. record' = [key |-> known.key, md5 |-> known.md5, theirs |-> verdict] /\ adding' = [pc |-> "idle", key |-> 0, md5 |-> 0, holds |-> None]
    BY <1>13 DEF Stored, EndAdding, NotAdding
  <2>2. RenderTypes'
    <3>1. adding' \in Addings
      BY <2>1 DEF Addings
    <3>2. record' \in RenderRecords
      BY <1>2, <1>13, <2>1 DEF RenderInv, RenderTypes, RenderRecords
    <3> QED BY <1>1, <1>13, <3>1, <3>2 DEF RenderInv, RenderTypes
  <2>3. known.key \in Made /\ known.key # 0
    BY <1>5, <1>6, <1>7, <1>13 DEF Made
  <2>4. ~lossyUpload => known.key \in byUser /\ Made \ byUser \subseteq {known.key}
    BY <1>2, <1>5, <1>6, <1>7, <1>10, <1>13, <2>3 DEF RenderInv, NothingUnknown
  <2>5. NothingUnknown' /\ OneUntouched'
    BY <1>1, <1>3, <1>13, <2>1, <2>4 DEF RenderInv, NothingUnknown, OneUntouched
  <2> QED BY <1>1, <1>3, <1>13, <2>1, <2>2, <2>3, <2>5 DEF RenderInv, FilesInOrder, HandsShow, RecordsMade
<1>14. CASE /\ verdict = "upload"
            /\ adding' = [pc |-> "authorising", key |-> known.key, md5 |-> render, holds |-> files[known.key].md5]
            /\ UNCHANGED <<record, madeAnew>>
  <2>1. known.key \in Made /\ known.key # 0 /\ files[known.key].md5 \in Renders \cup {Foreign, None}
    BY <1>4, <1>9, <1>14 DEF Made
  <2>2. RenderTypes'
    BY <1>1, <1>2, <1>14, <2>1 DEF RenderInv, RenderTypes, Addings
  <2>3. files[known.key].md5 = Foreign => record.md5 = None
    BY <1>2, <1>9, <1>14 DEF RenderInv, RenderTypes, RenderRecords, RecordsMade
  <2>4. NothingUnknown' /\ OneUntouched'
    BY <1>1, <1>2, <1>3, <1>10, <1>14 DEF RenderInv, NothingUnknown, OneUntouched
  <2>5. RecordsMade'
    BY <1>1, <1>3, <1>14, <2>1, <2>3 DEF RenderInv, RenderTypes, RecordsMade
  <2> QED BY <1>1, <1>3, <2>2, <2>4, <2>5 DEF RenderInv, FilesInOrder, HandsShow
<1> QED BY <1>11, <1>12, <1>13, <1>14 DEF AddRender, known, verdict

LEMMA CreateAttachmentStep == ASSUME RenderInv, NEW o, CreateAttachment(o) PROVE RenderInv'
<1> DEFINE k == Cardinality(Made) + 1
           blank == [md5 |-> None, gone |-> None, annotated |-> FALSE]
<1>1. PICK n \in 0 .. MaxAttachments : Made = 1 .. n
  BY DEF RenderInv, FilesInOrder
<1>2. k = n + 1
  <2>1. Cardinality(1 .. n) = n
    BY FS_Interval
  <2> QED BY <1>1, <2>1
<1>3. adding.pc = "creating" /\ k \in AttachmentKeys /\ UNCHANGED <<lossyUpload, render, afresh, byUser, madeAnew>>
  BY DEF CreateAttachment, rest, world
<1>4. adding.holds = None /\ adding.md5 \in Renders
  BY <1>3 DEF RenderInv, RecordsMade
<1>5. NotAdding \in Addings /\ NotAdding.pc = "idle"
  BY DEF NotAdding, Addings
<1>6. blank \in Attachments
  BY DEF Attachments
<1> HIDE DEF blank, k
<1>7. CASE files' = files /\ EndAdding /\ UNCHANGED record
  <2>1. Made' = Made
    BY <1>7 DEF Made
  <2> QED BY <1>3, <1>5, <1>7, <2>1 DEF EndAdding, RenderInv, RenderTypes, FilesInOrder, HandsShow, RecordsMade, NothingUnknown, OneUntouched
<1>8. CASE files' = [files EXCEPT ![k] = blank]
  <2>1. Made' = Made \cup {k} /\ k \notin Made /\ (\A j \in Made : files'[j] = files[j]) /\ files'[k] = blank
    BY <1>1, <1>2, <1>3, <1>6, <1>8 DEF Made, RenderInv, RenderTypes
  <2>2. Made' = 1 .. n + 1 /\ n + 1 \in 0 .. MaxAttachments
    BY <1>1, <1>2, <1>3, <2>1
  <2>3. FilesInOrder'
    BY <2>2 DEF FilesInOrder
  <2>4. HandsShow'
    <3>1. blank.gone = None /\ blank.annotated = FALSE /\ blank.md5 = None
      BY DEF blank
    <3> QED BY <1>3, <2>1, <3>1 DEF HandsShow, RenderInv
  <2>5. files' \in [AttachmentKeys -> Attachments \cup {None}]
    BY <1>3, <1>6, <1>8 DEF RenderInv, RenderTypes
  <2>6. ~lossyUpload \/ ~madeAnew => (Made \ byUser)' \subseteq {k}
    BY <1>3, <2>1 DEF RenderInv, NothingUnknown, OneUntouched
  <2>7. k \in Nat /\ k # 0 /\ k \in 0 .. MaxAttachments
    BY <1>3
  <2>8. CASE o = "done" /\ Stored(k, None, None) /\ adding' = [adding EXCEPT !.pc = "authorising", !.key = k]
    <3>1. adding' = [pc |-> "authorising", key |-> k, md5 |-> adding.md5, holds |-> None] /\ adding' \in Addings
      BY <1>3, <1>4, <2>7, <2>8 DEF Addings, RenderInv, RenderTypes
    <3>2. record' = [key |-> k, md5 |-> None, theirs |-> None] /\ record' \in RenderRecords
      BY <2>7, <2>8 DEF Stored, RenderRecords
    <3>3. RenderTypes'
      BY <1>3, <2>5, <3>1, <3>2 DEF RenderInv, RenderTypes
    <3>4. RecordsMade'
      BY <1>3, <1>4, <2>1, <2>7, <3>1, <3>2 DEF RecordsMade
    <3>5. NothingUnknown' /\ OneUntouched'
      BY <1>3, <2>6, <2>7, <3>1, <3>2 DEF NothingUnknown, OneUntouched
    <3> QED BY <2>3, <2>4, <3>3, <3>4, <3>5 DEF RenderInv
  <2>9. CASE o # "done" /\ o # "error" /\ EndAdding /\ UNCHANGED record
    <3>1. lossyUpload
      BY <2>9 DEF CreateAttachment
    <3>2. RenderTypes'
      BY <1>3, <1>5, <2>5, <2>9 DEF RenderInv, RenderTypes, EndAdding
    <3>3. RecordsMade'
      BY <1>5, <2>1, <2>9 DEF RenderInv, RecordsMade, EndAdding
    <3>4. NothingUnknown' /\ OneUntouched'
      BY <1>3, <1>5, <2>6, <2>7, <2>9, <3>1 DEF NothingUnknown, OneUntouched, EndAdding
    <3> QED BY <2>3, <2>4, <3>2, <3>3, <3>4 DEF RenderInv
  <2>10. CASE o = "error"
    BY <1>7, <2>10 DEF CreateAttachment
  <2> QED BY <2>8, <2>9, <2>10 DEF CreateAttachment, k
<1> QED BY <1>7, <1>8 DEF CreateAttachment, k, blank

\* The file of the attachment being filled becomes the render that was read, if it is still what was read.
LEMMA FillStep == ASSUME RenderInv, adding.pc \in {"authorising", "storing"},
                         UNCHANGED <<lossyUpload, render, afresh, byUser, madeAnew>>, EndAdding,
                         files' = [files EXCEPT ![adding.key].md5 = adding.md5],
                         Stored(adding.key, adding.md5, None) \/ (lossyUpload /\ UNCHANGED record)
                  PROVE RenderInv'
<1>1. adding.key \in Made /\ adding.md5 \in Renders /\ adding.key \in 1 .. MaxAttachments
  BY DEF RenderInv, RecordsMade, Made
<1>2. NotAdding \in Addings /\ adding'.pc = "idle" /\ adding' \in Addings
  BY DEF NotAdding, Addings, EndAdding
<1>3. files[adding.key] \in Attachments
  BY <1>1, AttachmentParts DEF RenderInv
<1> DEFINE full == [files[adding.key] EXCEPT !.md5 = adding.md5]
<1>4. full \in Attachments /\ full.md5 = adding.md5 /\ full.gone = files[adding.key].gone /\ full.annotated = files[adding.key].annotated
  BY <1>1, <1>3 DEF Attachments
<1>5. files' = [files EXCEPT ![adding.key] = full]
  OBVIOUS
<1> HIDE DEF full
<1>6. files' \in [AttachmentKeys -> Attachments \cup {None}] /\ Made' = Made
      /\ files'[adding.key] = full /\ \A j \in Made \ {adding.key} : files'[j] = files[j]
  BY <1>1, <1>4, <1>5, SMTT(30) DEF RenderInv, RenderTypes, Made
<1>7. adding.md5 # Foreign
  BY <1>1
<1>8. HandsShow' /\ FilesInOrder'
  BY <1>1, <1>4, <1>6, <1>7 DEF RenderInv, HandsShow, FilesInOrder
<1>9. CASE Stored(adding.key, adding.md5, None)
  <2>1. record' = [key |-> adding.key, md5 |-> adding.md5, theirs |-> None] /\ record' \in RenderRecords
    BY <1>1, <1>9 DEF Stored, RenderRecords
  <2>2. NothingUnknown' /\ OneUntouched'
    BY <1>1, <1>2, <1>4, <1>6, <2>1 DEF RenderInv, NothingUnknown, OneUntouched
  <2>3. RecordsMade'
    BY <1>1, <1>2, <1>6, <2>1 DEF RecordsMade
  <2>4. RenderTypes'
    BY <1>2, <1>6, <2>1 DEF RenderInv, RenderTypes
  <2> QED BY <1>8, <2>2, <2>3, <2>4 DEF RenderInv
<1>10. CASE lossyUpload /\ UNCHANGED record
  BY <1>1, <1>2, <1>6, <1>8, <1>10 DEF RenderInv, RenderTypes, RecordsMade, NothingUnknown, OneUntouched
<1> QED BY <1>9, <1>10

\* What is being added ends, or goes on to the bytes, and nothing else changes.
LEMMA AddingMovesOn == ASSUME RenderInv, UNCHANGED <<lossyUpload, render, afresh, byUser, madeAnew, files, record>>,
                              EndAdding \/ (adding.pc = "authorising" /\ adding' = [adding EXCEPT !.pc = "storing"])
                       PROVE RenderInv'
<1>1. Made' = Made
  BY DEF Made
<1>2. NotAdding \in Addings /\ NotAdding.pc = "idle"
  BY DEF NotAdding, Addings
<1>3. CASE EndAdding
  BY <1>1, <1>2, <1>3 DEF EndAdding, RenderInv, RenderTypes, FilesInOrder, HandsShow, RecordsMade, NothingUnknown, OneUntouched
<1>4. CASE adding.pc = "authorising" /\ adding' = [adding EXCEPT !.pc = "storing"]
  <2>1. adding' \in Addings /\ adding'.pc = "storing" /\ adding'.key = adding.key /\ adding'.md5 = adding.md5
    BY <1>4 DEF Addings, RenderInv, RenderTypes
  <2> QED BY <1>1, <1>4, <2>1 DEF RenderInv, RenderTypes, FilesInOrder, HandsShow, RecordsMade, NothingUnknown, OneUntouched
<1> QED BY <1>3, <1>4

LEMMA AuthoriseStep == ASSUME RenderInv, NEW o, Authorise(o) PROVE RenderInv'
  BY FillStep, AddingMovesOn DEF Authorise, rest, world

LEMMA RegisterStep == ASSUME RenderInv, NEW o, Register(o) PROVE RenderInv'
<1>1. CASE o # "error" /\ Holds
  <2>1. o = "done" \/ lossyUpload
    BY <1>1 DEF Register
  <2> QED BY <1>1, <2>1, FillStep DEF Register, rest, world
<1>2. CASE ~(o # "error" /\ Holds)
  BY <1>2, AddingMovesOn DEF Register, rest, world
<1> QED BY <1>1, <1>2

LEMMA QuitStep == ASSUME RenderInv, QuitAdding PROVE RenderInv'
  BY AddingMovesOn DEF QuitAdding, rest, world

LEMMA RenderInvariant == RenderSpec => []RenderInv
<1>1. RenderInv /\ RenderNext => RenderInv'
  <2> SUFFICES ASSUME RenderInv, RenderNext PROVE RenderInv'
    OBVIOUS
  <2>1. ASSUME NEW k \in AttachmentKeys, NEW f \in [md5 : Renders \cup {Foreign}, gone : {None, "trashed", "moved"}, annotated : BOOLEAN],
               UserTouches(k, f)
        PROVE  RenderInv'
    <3>1. f \in Attachments
      BY DEF Attachments
    <3> QED BY <2>1, <3>1, TouchStep
  <2> QED BY <2>1, DrawMoreStep, SettingsStep, AddRenderStep, CreateAttachmentStep, AuthoriseStep, RegisterStep, QuitStep DEF RenderNext
<1>2. RenderInv /\ UNCHANGED renderVars => RenderInv'
  BY RecordRests DEF renderVars, RenderInv, RenderTypes
<1> QED BY <1>1, <1>2, RenderStarts, PTL DEF RenderSpec

\* addRender: a paper has one render of ours that the user left alone, through lost answers and crashes, or through a
\* start over, for any number of attachments and of things the user does.
THEOREM OneRenderOfEach == RenderSpec => []OneRender
<1>1. RenderInv => OneRender
  <2> SUFFICES ASSUME RenderInv, ~(lossyUpload /\ madeAnew)
               PROVE  Cardinality({k \in Made \ byUser : files[k].gone = None}) <= 1
    BY DEF OneRender
  <2> DEFINE untouched == {k \in Made \ byUser : files[k].gone = None}
  <2>1. PICK k : untouched \subseteq {k}
    BY DEF RenderInv, NothingUnknown, OneUntouched
  <2>2. IsFiniteSet({k}) /\ Cardinality({k}) = 1
    BY FS_Singleton
  <2> HIDE DEF untouched
  <2>3. Cardinality(untouched) <= 1
    BY <2>1, <2>2, FS_Subset
  <2> QED BY <2>3 DEF untouched
<1> QED BY <1>1, RenderInvariant, PTL

\* What happens to the file of an attachment that is there, and who does it.
ReplacedAsRead == \A k \in Made : files'[k].md5 # files[k].md5 /\ files[k].md5 = Foreign => adding.holds = Foreign

LEMMA FillReplaces == ASSUME RenderInv, files' = [files EXCEPT ![adding.key].md5 = adding.md5], Holds
                      PROVE ReplacedAsRead
  BY DEF ReplacedAsRead, Holds, RenderInv, RenderTypes, Made

LEMMA CreateReplaces == ASSUME RenderInv, NEW o, CreateAttachment(o) PROVE ReplacedAsRead
<1>1. PICK n \in 0 .. MaxAttachments : Made = 1 .. n
  BY DEF RenderInv, FilesInOrder
<1>2. Cardinality(1 .. n) = n
  BY FS_Interval
<1>3. Cardinality(Made) + 1 \notin Made
  BY <1>1, <1>2
<1> QED BY <1>3 DEF CreateAttachment, ReplacedAsRead, RenderInv, RenderTypes, Made

LEMMA TouchReplaces == ASSUME RenderInv, NEW k \in AttachmentKeys, NEW f, UserTouches(k, f),
                              files[k] # None => f.md5 \in {files[k].md5, Foreign}
                       PROVE ReplacedAsRead
  BY DEF UserTouches, ReplacedAsRead, RenderInv, RenderTypes, Made

LEMMA FilesReplaced == ASSUME RenderInv, RenderNext PROVE ReplacedAsRead
<1>1. CASE UNCHANGED files
  BY <1>1 DEF ReplacedAsRead
<1>2. ASSUME NEW o, CreateAttachment(o) PROVE ReplacedAsRead
  BY <1>2, CreateReplaces
<1>3. ASSUME NEW o, Register(o) PROVE ReplacedAsRead
  BY <1>1, <1>3, FillReplaces DEF Register
<1>4. ASSUME NEW o, Authorise(o) PROVE ReplacedAsRead
  BY <1>1, <1>4, FillReplaces DEF Authorise
<1>5. CASE DrawMore \/ StartAfresh \/ AddRender \/ SkipRender \/ QuitAdding \/ \E s : ChangeSettings(s)
  BY <1>1, <1>5 DEF DrawMore, StartAfresh, AddRender, SkipRender, QuitAdding, ChangeSettings
<1> QED BY <1>2, <1>3, <1>4, <1>5, TouchReplaces DEF RenderNext

\* Steps that begin to replace a file read it first; the others go on with what was read.
LEMMA BeginsToReplace == ASSUME RenderInv, RenderInv', RenderNext,
                                adding.pc # "storing", adding'.pc = "authorising", adding'.holds = Foreign
                         PROVE  record.md5 = None
<1>1. CASE UNCHANGED <<record, adding>>
  BY <1>1 DEF RenderInv, RecordsMade
<1>2. CASE AddRender
  <2>1. record' = record
    BY <1>2 DEF AddRender, EndAdding, NotAdding
  <2> QED BY <2>1 DEF RenderInv, RecordsMade
<1>3. ASSUME NEW o, CreateAttachment(o) PROVE record.md5 = None
  <2>1. adding.holds = None /\ adding \in Addings
    BY <1>3 DEF CreateAttachment, RenderInv, RenderTypes, RecordsMade
  <2>2. adding' = NotAdding \/ \E k : adding' = [adding EXCEPT !.pc = "authorising", !.key = k]
    BY <1>3 DEF CreateAttachment, EndAdding
  <2>3. adding'.holds = None
    <3>1. CASE adding' = NotAdding
      BY <3>1 DEF NotAdding
    <3>2. ASSUME NEW k, adding' = [adding EXCEPT !.pc = "authorising", !.key = k] PROVE adding'.holds = None
      BY <2>1, <3>2 DEF Addings
    <3> QED BY <2>2, <3>1, <3>2
  <2> QED BY <2>3
<1>4. ASSUME NEW o, Authorise(o) \/ Register(o) PROVE record.md5 = None
  <2>1. adding'.pc \in {"storing", "idle"}
    BY <1>4 DEF Authorise, Register, EndAdding, NotAdding, RenderInv, RenderTypes, Addings
  <2> QED BY <2>1
<1>5. CASE QuitAdding
  BY <1>5 DEF QuitAdding, EndAdding, NotAdding
<1> QED BY <1>1, <1>2, <1>3, <1>4, <1>5 DEF RenderNext, DrawMore, StartAfresh, SkipRender, ChangeSettings, UserTouches

LEMMA TheirsByUser == ASSUME RenderInv, RenderInv', RenderNext, ~lossyUpload, record'.theirs # None
                      PROVE  record'.key \in byUser
<1>1. lossyUpload' = lossyUpload /\ (byUser' = byUser \/ record' = record)
  BY DEF RenderNext, DrawMore, StartAfresh, AddRender, SkipRender, QuitAdding, ChangeSettings, UserTouches, CreateAttachment,
         Authorise, Register, rest, world
<1> QED BY <1>1 DEF RenderInv, NothingUnknown

THEOREM TheirFilesStay == RenderSpec => RenderIsTheirs
<1> DEFINE A == /\ ReplacedAsRead
                /\ adding.pc # "storing" /\ adding'.pc = "authorising" /\ adding'.holds = Foreign => record.md5 = None
                /\ ~lossyUpload /\ record'.theirs # None => record'.key \in byUser
<1>1. RenderInv /\ RenderInv' /\ [RenderNext]_renderVars => A
  <2> SUFFICES ASSUME RenderInv, RenderInv', [RenderNext]_renderVars PROVE A
    OBVIOUS
  <2>1. CASE UNCHANGED renderVars
    BY <2>1 DEF renderVars, ReplacedAsRead, RenderInv, RecordsMade, NothingUnknown
  <2>2. CASE RenderNext
    BY <2>2, FilesReplaced, BeginsToReplace, TheirsByUser
  <2> QED BY <2>1, <2>2
<1>2. A => [A]_renderVars
  OBVIOUS
<1> QED BY <1>1, RenderInvariant, PTL DEF RenderSpec, RenderIsTheirs, ReplacedAsRead

-----------------------------------------------------------------------------
(* The four parts together, as they are run: one of them lives, the others   *)
(* rest as they began.                                                       *)

LEMMA PartsStart == MCInit => MarksInit /\ PagesInit /\ RenderInit /\ LinksInit
  BY DEF MCInit, MarksRest, PagesRest, RenderRest

LEMMA PartsStep == [MCNext]_AllVars => [MarksNext]_markVars /\ [PagesNext]_pageVars /\ [RenderNext]_renderVars /\ [LinksNext]_storeVars
<1>1. CASE MCNext
  BY <1>1 DEF MCNext
<1>2. CASE UNCHANGED AllVars
  BY <1>2 DEF AllVars
<1> QED BY <1>1, <1>2

\* Each part behaves as its own specification says.
LEMMA PartsBehave == MCSpec => MarksSpec /\ PagesSpec /\ RenderSpec /\ LinksSpec
  BY PartsStart, PartsStep, PTL DEF MCSpec, MarksSpec, PagesSpec, RenderSpec, LinksSpec

\* executeWriteBack, addRender: one annotation for a mark and one render under a paper, for any marks, annotations and attachments.
THEOREM NothingIsMadeTwice == MCSpec => []OneOfEach
  BY PartsBehave, MarksOneEach, OneRenderOfEach, PTL DEF OneOfEach

\* executeWriteBack, executeNotes: after a pass that met no failure the annotations mirror the marks, and the notes the pages.
THEOREM TabletIsMirrored == MCSpec => []ZoteroMirrorsTheTablet
  BY PartsBehave, AnnotationsMirrorTheMarks, NotesMirrorTheAddedPages, PTL DEF ZoteroMirrorsTheTablet

\* What the user wrote into an annotation or a note of ours stands, whenever they wrote it.
THEOREM WordsAreKept == MCSpec => UsersWordsStand
  BY PartsBehave, UsersEditsAreKept, EditedNotesAreKept, PTL DEF UsersWordsStand

\* planWriteBack: what the user deleted in Zotero is not created again.
THEOREM DeletedStaysAway == MCSpec => DeletedIsNotRemade
  BY PartsBehave, TrashedIsNotPlanned, PTL

\* addRender: a file the user put in place of the render is not replaced, but for a start over.
THEOREM TheirRenderStays == MCSpec => RenderIsTheirs
  BY PartsBehave, TheirFilesStay, PTL

\* Where a run waits for the sends and they for it, a paper is sent once and what is known of its document is not forgotten.
THEOREM PapersStayKnown == ASSUME Alone PROVE MCSpec => PapersAreKnown
  BY PartsBehave, PapersSentOnce, LinksAreRemembered, PTL DEF PapersAreKnown
=============================================================================
