---------------------------- MODULE NoteProperties ----------------------------
(***************************************************************************)
(* The frontmatter properties of a synced note: keys the plugin writes     *)
(* into a block the user and other plugins write too, and takes out again  *)
(* when the feature is switched off (frontmatter.ts, frontmatter-pass.ts). *)
(*                                                                         *)
(* The managed keys stand for three of their kind: the note's own id, the  *)
(* folder of the document, which it may not have, and zotero-key, of which *)
(* a writer may know nothing. citekey is written, but never taken out. The *)
(* tags key is shared: the row remembers which of its entries are the      *)
(* plugin's.                                                               *)
(***************************************************************************)
EXTENDS Naturals, Absent

CONSTANTS
    DeviceTags,     \* tags the document may have on the tablet
    Folders,        \* folders it may lie in
    Papers,         \* Zotero items it may be linked to
    MayCrash,       \* may the app be closed in the middle of a run?
    Unknown,        \* a value the writer cannot know
    MaxMoves        \* how often the world changes

CONSTANT TagName    \* what each tag of the tablet is called in the vault, "" for one with no usable character

VARIABLES
    document,   \* tags, folder and link of the document, and whether the tablet has it
    note,       \* tags and keys of the note's frontmatter, or None when the note is gone
    nrow,       \* the row as it was saved last
    unsaved,    \* the row as the run at work has it, None between runs
    switch,     \* the toggle and the licence: may be on, and is it Pro
    stranded,   \* tags the plugin wrote into the note and of which no row knows any more
    moves       \* changes of the world left

propertyVars == <<document, note, nrow, unsaved, switch, stranded, moves>>

MANAGED_KEYS == {"remarkable-note-id", "remarkable-folder"}
ZOTERO_KEY == "zotero-key"
CITEKEY == "citekey"
USER_KEY == "my-key"
USER_TAG == "my-tag"
FRONTMATTER_KEYS_VERSION == 2

namespacedTags(names) == {TagName[n] : n \in {n \in names : TagName[n] # ""}}

\* The entries the plugin may write under tags.
PluginTags == namespacedTags(DeviceTags)

KeyNames == MANAGED_KEYS \cup {ZOTERO_KEY, CITEKEY, USER_KEY}
KeyTables == UNION {[S -> Nat \cup Folders \cup Papers \cup {"mine"}] : S \in SUBSET KeyNames}
NoteFront == [tags : SUBSET (PluginTags \cup {USER_TAG}), keys : KeyTables]
NoteDocument == [tags : SUBSET DeviceTags, folder : Folders \cup {None}, paper : Papers \cup {None}, here : BOOLEAN]
NoteRow == [of : NoteDocument, id : Nat, active : BOOLEAN, wasOn : BOOLEAN, own : (SUBSET PluginTags) \cup {None}, version : Nat]

ASSUME NotePropertiesAssumption ==
    /\ MaxMoves \in Nat /\ USER_TAG \notin PluginTags
    /\ None \notin Nat \cup Folders \cup Papers /\ None \notin NoteFront /\ None \notin NoteRow /\ \A own \in SUBSET PluginTags : None # own
    /\ Unknown \notin Nat \cup Folders \cup Papers \cup {None}

KeysWithout(keys, gone) == [k \in DOMAIN keys \ gone |-> keys[k]]
KeysWith(keys, key, value) == [k \in DOMAIN keys \cup {key} |-> IF k = key THEN value ELSE keys[k]]

\* As if the entries written before were forgotten.
TagsAdded(tags, own, previous) == tags \cup own
\* The plugin's entries that are no longer wanted go, the missing ones come, the user's stay.
mergeTags(tags, own, previous) == (tags \ (previous \ own)) \cup own

\* No value takes the key out; a value nobody knows leaves it alone.
mergeKey(keys, key, value) ==
    IF value = Unknown THEN keys ELSE IF value = None THEN KeysWithout(keys, {key}) ELSE KeysWith(keys, key, value)

applyFrontmatter(front, wanted, previous) ==
    LET scalars == mergeKey(mergeKey(front.keys, "remarkable-note-id", wanted.id), "remarkable-folder", wanted.folder)
        zotero == mergeKey(scalars, ZOTERO_KEY, wanted.paper)
    IN [tags |-> mergeTags(front.tags, wanted.tags, previous),
        keys |-> mergeKey(zotero, CITEKEY, IF wanted.paper \in Papers THEN wanted.paper ELSE Unknown)]

\* As if every key the plugin ever writes were its own.
RemovedAll(front, own) == [tags |-> mergeTags(front.tags, {}, own), keys |-> KeysWithout(front.keys, MANAGED_KEYS \cup {ZOTERO_KEY, CITEKEY})]
removeFrontmatter(front, own) == [tags |-> mergeTags(front.tags, {}, own), keys |-> KeysWithout(front.keys, MANAGED_KEYS \cup {ZOTERO_KEY})]

frontmatterOn == switch.on /\ switch.pro

-----------------------------------------------------------------------------

NoFront == [tags |-> {}, keys |-> <<>>]
Own(row) == IF row = None \/ row.own = None THEN {} ELSE row.own
IdOf(row) == IF row = None THEN None ELSE row.id
FreshId == MaxMoves - moves + 1     \* no two runs mint the same

PropertiesInit ==
    /\ document = [tags |-> {}, folder |-> None, paper |-> None, here |-> TRUE]
    /\ note = None /\ nrow = None /\ unsaved = None /\ stranded = {}
    /\ switch = [on |-> FALSE, pro |-> TRUE] /\ moves = MaxMoves

Wanted(id, paper) ==
    [tags |-> namespacedTags(document.tags), folder |-> document.folder, id |-> id, paper |-> paper]

\* What stays in the note and is in no row: of a run that dies unsaved, or of a row written without its tags.
Strand(front, row, more) ==
    (stranded \cup Own(nrow) \cup Own(unsaved) \cup more) \cap ((front.tags \ Own(row)) \cup DOMAIN front.keys)

-----------------------------------------------------------------------------
(* The sync of the note. *)

\* writeUnit: the note's block is rewritten, its frontmatter only while the feature is on and paid for; the
\* Zotero pass answers, or a lapsed licence leaves it unasked.
WriteUnit ==
    /\ unsaved = None /\ document.here /\ moves > 0
    /\ IF nrow = None THEN TRUE ELSE nrow.of # document \/ note = None
    /\ LET front == IF note = None \/ nrow = None THEN NoFront ELSE note
           id == IF IdOf(nrow) = None THEN FreshId ELSE IdOf(nrow)
           paper == IF switch.pro THEN document.paper ELSE Unknown
       IN /\ note' = IF frontmatterOn THEN applyFrontmatter(front, Wanted(id, paper), Own(nrow)) ELSE front
          /\ unsaved' = [of |-> document, id |-> id, active |-> TRUE, wasOn |-> switch.on,
                         own |-> IF frontmatterOn THEN namespacedTags(document.tags) ELSE None,
                         version |-> IF frontmatterOn THEN FRONTMATTER_KEYS_VERSION ELSE 0]
    /\ UNCHANGED <<document, nrow, switch, stranded, moves>>

\* The row is saved with the document, and ends the run for this note.
SaveRow ==
    /\ unsaved # None
    /\ nrow' = [unsaved EXCEPT !.wasOn = TRUE] /\ unsaved' = None
    /\ stranded' = IF note = None THEN {} ELSE Strand(note, unsaved, {})
    /\ UNCHANGED <<document, note, switch, moves>>

\* The app is closed: the rows and the toggle are what was saved last, and a note no row names is a stray
\* beside which the next sync makes its own.
Crash ==
    /\ MayCrash /\ unsaved # None
    /\ unsaved' = None
    /\ note' = IF nrow = None THEN None ELSE note
    /\ switch' = [switch EXCEPT !.on = unsaved.wasOn]
    /\ stranded' = IF note' = None THEN {} ELSE Strand(note, nrow, IF unsaved.wasOn THEN {} ELSE MANAGED_KEYS)
    /\ UNCHANGED <<document, nrow, moves>>

\* A document that is gone from the tablet leaves its note and its row where they are.
Orphan ==
    /\ unsaved = None /\ ~document.here /\ nrow # None /\ nrow.active
    /\ nrow' = [nrow EXCEPT !.active = FALSE]
    /\ UNCHANGED <<document, note, unsaved, switch, stranded, moves>>

-----------------------------------------------------------------------------
(* The passes over the notes of the vault. *)

\* backfillFrontmatter for one row: it knows the tablet, and nothing of Zotero.
Backfill ==
    LET id == IF nrow.id = None THEN FreshId ELSE nrow.id IN
    /\ note # None /\ nrow.active /\ document.here
    /\ note' = applyFrontmatter(note, Wanted(id, Unknown), Own(nrow))
    /\ unsaved' = [nrow EXCEPT !.own = namespacedTags(document.tags), !.id = id, !.version = FRONTMATTER_KEYS_VERSION,
                              !.wasOn = switch.on]

isStaleFrontmatter == nrow.active /\ nrow.version < FRONTMATTER_KEYS_VERSION

\* The end of a run brings notes up to date whose keys are older than the plugin's.
BackfillStale ==
    /\ unsaved = None /\ nrow # None /\ frontmatterOn /\ isStaleFrontmatter
    /\ Backfill
    /\ UNCHANGED <<document, nrow, switch, stranded, moves>>

\* setFrontmatterEnabled(true), once the tablet has answered: every active note is written.
SwitchOn ==
    /\ unsaved = None /\ ~switch.on /\ switch.pro /\ moves > 0
    /\ switch' = [switch EXCEPT !.on = TRUE] /\ moves' = moves - 1
    /\ IF note # None /\ nrow # None /\ nrow.active /\ document.here THEN Backfill ELSE UNCHANGED <<note, unsaved>>
    /\ UNCHANGED <<document, nrow, stranded>>

\* As if everything about the properties were forgotten.
CleanedFully(row) == [row EXCEPT !.own = None, !.version = 0, !.id = None]
\* What the cleanup leaves in a row: the note's identity stays for the day the properties come back.
Cleaned(row) == [row EXCEPT !.own = None, !.version = 0]

\* setFrontmatterEnabled(false), cleanupFrontmatter: orphaned notes are cleaned too. The row keeps the id.
SwitchOff ==
    /\ unsaved = None /\ switch.on /\ switch.pro /\ moves > 0
    /\ switch' = [switch EXCEPT !.on = FALSE] /\ moves' = moves - 1
    /\ note' = IF note = None \/ nrow = None THEN note ELSE removeFrontmatter(note, Own(nrow))
    /\ nrow' = IF nrow = None THEN nrow ELSE Cleaned(nrow)
    /\ stranded' = IF note' = None THEN {} ELSE stranded \cap note'.tags
    /\ UNCHANGED <<document, unsaved>>

-----------------------------------------------------------------------------
(* The world. *)

WorldMoves == moves > 0 /\ moves' = moves - 1

TabletChanges ==
    /\ WorldMoves /\ unsaved = None
    /\ \/ \E t \in DeviceTags : document' = [document EXCEPT !.tags = IF t \in @ THEN @ \ {t} ELSE @ \cup {t}]
       \/ \E f \in Folders \cup {None} : f # document.folder /\ document' = [document EXCEPT !.folder = f]
       \/ \E p \in Papers \cup {None} : p # document.paper /\ document' = [document EXCEPT !.paper = p]
       \/ document.here /\ document' = [document EXCEPT !.here = FALSE]
    /\ UNCHANGED <<note, nrow, unsaved, switch, stranded>>

\* The user and other plugins write into the block, or delete the note.
UserChanges ==
    /\ WorldMoves /\ note # None
    /\ \/ note' = [note EXCEPT !.tags = @ \cup {USER_TAG}]
       \/ \E k \in {USER_KEY, CITEKEY} : note' = [note EXCEPT !.keys = KeysWith(@, k, "mine")]
       \/ note' = None
    /\ UNCHANGED <<document, nrow, unsaved, switch, stranded>>

LicenceChanges ==
    /\ WorldMoves /\ unsaved = None
    /\ switch' = [switch EXCEPT !.pro = ~@]
    /\ UNCHANGED <<document, note, nrow, unsaved, stranded>>

PropertiesNext ==
    WriteUnit \/ SaveRow \/ Crash \/ Orphan \/ BackfillStale \/ SwitchOn \/ SwitchOff
        \/ TabletChanges \/ UserChanges \/ LicenceChanges

PropertiesSpec == PropertiesInit /\ [][PropertiesNext]_propertyVars

-----------------------------------------------------------------------------
(* What the user is promised. *)

\* The user's lines stay: no run, backfill or cleanup takes a tag or a key of the user's out of a note, nor a
\* citekey, and only a run that knows the paper of the note writes one over another plugin's.
UserLinesStay ==
    [][\A front \in {note} : \A later \in {note'} :
        moves' = moves \/ switch' # switch =>
            (front # None /\ nrow # None => later # None
                /\ front.tags \ PluginTags \subseteq later.tags
                /\ \A k \in {USER_KEY, CITEKEY} \cap DOMAIN front.keys :
                    k \in DOMAIN later.keys /\ later.keys[k] \in {front.keys[k]} \cup (IF k = CITEKEY THEN {document.paper} ELSE {}))]_propertyVars

\* Between runs every entry the plugin has written under tags is one its row can take out again, so that the
\* next write or the cleanup leaves none behind; nothing else is lost sight of than what a run that died, or
\* one without a licence, had in hand. Switched off, the note holds none of the plugin's keys.
NothingLeftBehind ==
    unsaved = None /\ note # None =>
        /\ note.tags \cap PluginTags \subseteq Own(nrow) \cup stranded
        /\ ~switch.on => DOMAIN note.keys \cap MANAGED_KEYS \subseteq stranded

\* A note's id is a contract: once a row has it no run, pass, toggle, lapse or deletion of the note gives the
\* note another one.
IdentityStays ==
    [][IdOf(nrow) # None => IdOf(nrow') = IdOf(nrow)
        /\ (note' # None /\ "remarkable-note-id" \in DOMAIN note'.keys => note'.keys["remarkable-note-id"] = IdOf(nrow))]_propertyVars

\* "Turning it off removes them again": after the cleanup no entry of the plugin's is left under tags.
OffRemovesThem == ~switch.on /\ unsaved = None /\ note # None => note.tags \cap PluginTags = {}
\* What is the user's in the properties stays, and so does the id the user's links and queries use; what is the
\* plugin's can be taken out again.
PropertiesAreTheUsers == UserLinesStay /\ IdentityStays /\ []NothingLeftBehind
=============================================================================
