---------------------------- MODULE StoredSettings ----------------------------
(***************************************************************************)
(* data.json from its loading to its next saving, and what is made of one  *)
(* that an earlier release wrote: rows that do not say which folder their  *)
(* note was written to, in a vault where the user has moved notes and      *)
(* re-targeted tags since (settings-store.ts, tag-router.ts,               *)
(* sync-engine.ts, main.ts).                                               *)
(*                                                                         *)
(* Loading saves nothing: what it made out stands in memory until          *)
(* something is saved.                                                     *)
(***************************************************************************)
EXTENDS Naturals, FiniteSets, Absent

CONSTANTS
    Rows,           \* rows of the index
    TagOf,          \* their tags
    VaultFolders,
    Garbled,        \* a value this build does not know
    FINGERPRINT_VERSION,    \* MAPPING_FINGERPRINT_VERSION; the release before had the one below it
    SettingsMoves   \* bound on what the user does

ASSUME StoredSettingsAssumption ==
  /\ Rows # {} /\ VaultFolders # {} /\ FINGERPRINT_VERSION \in Nat \ {0}
  /\ None \notin VaultFolders \cup {"cloud", "ssh", "vision", "off"}

VARIABLES
    file,       \* data.json
    memory,     \* plugin.data, or None while the plugin is not loaded
    lastFolder, \* history: the folder each note was last written under
    misread,    \* history: rows whose folder was guessed from a moved note, or not guessed before their tag was re-targeted
    settingsMoves

settingsVars == <<file, memory, lastFolder, misread, settingsMoves>>

SettingTags == {TagOf[r] : r \in Rows}
TagMaps == [SettingTags -> VaultFolders \cup {None}]
TransportIds == {"cloud", "ssh"}
KnownBackends == {"vision", "off"}

-----------------------------------------------------------------------------
(* migrateSettings. *)

mappingFingerprint(map) == <<FINGERPRINT_VERSION, map>>

Stampable(f, r) == f.rows[r].folder = None /\ f.rows[r].active /\ f.tagFolderMap[TagOf[r]] # None
Settled(f) == f.mappings = mappingFingerprint(f.tagFolderMap)

\* As if the note always told where it was written.
StampByNote(f, r) == [f.rows[r] EXCEPT !.folder = IF Stampable(f, r) THEN f.rows[r].path ELSE @]

\* stampRowFolders: today's folder if nothing was re-targeted since the last sync, else the one the note lies in.
StampRow(f, r) ==
    [f.rows[r] EXCEPT !.folder = IF ~Stampable(f, r) THEN @ ELSE IF Settled(f) THEN f.tagFolderMap[TagOf[r]] ELSE f.rows[r].path]

SourceOr(value, otherwise) == IF value \in TransportIds THEN value ELSE otherwise

\* A fallback that is the primary is none; a backend may stand under its earlier name; what belongs to others is carried.
migrateSettings(f) ==
    LET primary == SourceOr(f.primary, "cloud")
        backend == IF f.backend # None THEN f.backend ELSE f.ocrBackendChoice IN
    [rows |-> [r \in Rows |-> StampRow(f, r)], mappings |-> f.mappings, tagFolderMap |-> f.tagFolderMap,
     primary |-> primary,
     fallback |-> IF SourceOr(f.fallback, None) = primary THEN None ELSE SourceOr(f.fallback, None),
     backend |-> IF backend \in KnownBackends THEN backend ELSE "vision", ocrBackendChoice |-> None]

-----------------------------------------------------------------------------

Load ==
    /\ memory = None /\ memory' = migrateSettings(file)
    /\ misread' = misread \cup {r \in Rows : Stampable(file, r) /\ ~Settled(file) /\ file.rows[r].path # lastFolder[r]}
    /\ UNCHANGED <<file, lastFolder, settingsMoves>>

\* Whatever is saved for its own sake.
Save == memory # None /\ file # memory /\ file' = memory /\ UNCHANGED <<memory, lastFolder, misread, settingsMoves>>

Quit == memory # None /\ memory' = None /\ UNCHANGED <<file, lastFolder, misread, settingsMoves>>

UserDoes == memory # None /\ settingsMoves < SettingsMoves /\ settingsMoves' = settingsMoves + 1

\* onVaultRename: the row follows its note, and is saved.
MoveNote(r, to) ==
    /\ UserDoes /\ memory.rows[r].path # to
    /\ memory' = [memory EXCEPT !.rows[r].path = to] /\ file' = memory'
    /\ UNCHANGED <<lastFolder, misread>>

\* The settings' mapping rows; saved as they change.
Retarget(t, to) ==
    /\ UserDoes /\ memory.tagFolderMap[t] # to
    /\ memory' = [memory EXCEPT !.tagFolderMap[t] = to] /\ file' = memory'
    /\ misread' = misread \cup {r \in Rows : TagOf[r] = t /\ memory.rows[r].folder = None}
    /\ UNCHANGED lastFolder

Routed(r) == memory.rows[r].active /\ memory.tagFolderMap[TagOf[r]] # None

\* As if a note out of its tag's folder were one to be moved there.
RetargetedIfElsewhere(r) == Routed(r) /\ memory.rows[r].path # memory.tagFolderMap[TagOf[r]]

isRetargeted(r) ==
    LET row == memory.rows[r] IN
    Routed(r) /\ row.folder # None /\ row.folder # memory.tagFolderMap[TagOf[r]] /\ row.path = row.folder

\* A run writes the notes of the documents that changed, where they are, and moves those whose tag was re-targeted;
\* a row whose tag is mapped no more is orphaned.
RunSync ==
    /\ memory # None
    /\ \E changed \in SUBSET Rows :
        LET written == {r \in Rows : Routed(r) /\ (r \in changed \/ isRetargeted(r))}
            target(r) == memory.tagFolderMap[TagOf[r]] IN
        /\ memory' = [memory EXCEPT
               !.mappings = mappingFingerprint(memory.tagFolderMap),
               !.rows = [r \in Rows |->
                   LET row == memory.rows[r] IN
                   IF r \in written THEN [row EXCEPT !.folder = target(r), !.path = IF isRetargeted(r) THEN target(r) ELSE row.path]
                   ELSE [row EXCEPT !.active = Routed(r)]]]
        /\ lastFolder' = [r \in Rows |-> IF r \in written THEN target(r) ELSE lastFolder[r]]
        /\ misread' = misread \ written
    /\ file' = memory' /\ UNCHANGED settingsMoves

\* A file of an earlier release or of this one, the tags perhaps re-targeted and the notes moved since it was synced.
FileOf(map, mapSynced, version, olderRows, paths, rest) ==
    [rows |-> [r \in Rows |-> [path |-> paths[r], active |-> TRUE,
                               folder |-> IF r \in olderRows THEN None ELSE mapSynced[TagOf[r]]]],
     mappings |-> <<version, mapSynced>>, tagFolderMap |-> map,
     primary |-> rest[1], fallback |-> rest[2], backend |-> rest[3], ocrBackendChoice |-> rest[4]]

SettingsInit ==
    /\ \E map \in TagMaps, mapSynced \in [SettingTags -> VaultFolders], paths \in [Rows -> VaultFolders],
          version \in {FINGERPRINT_VERSION - 1, FINGERPRINT_VERSION}, olderRows \in {{}, Rows},
          rest \in {<<None, None, None, "vision">>, <<Garbled, "cloud", Garbled, None>>, <<"ssh", "ssh", "off", Garbled>>, <<"ssh", Garbled, None, None>>} :
        /\ file = FileOf(map, mapSynced, version, olderRows, paths, rest)
        /\ lastFolder = [r \in Rows |-> mapSynced[TagOf[r]]]
    /\ memory = None /\ misread = {} /\ settingsMoves = 0

SettingsNext ==
    \/ Load \/ Save \/ Quit \/ RunSync
    \/ \E r \in Rows, to \in VaultFolders : MoveNote(r, to)
    \/ \E t \in SettingTags, to \in VaultFolders \cup {None} : Retarget(t, to)

SettingsSpec == SettingsInit /\ [][SettingsNext]_settingsVars

-----------------------------------------------------------------------------
(* Properties. *)

\* A note lies where the user put it, whichever release wrote its row and whenever the file was loaded, saved or
\* lost: a run moves it only if its tag was re-targeted since it was written and the note still lay where it was
\* written, and then moves it. Excepted is a note that was moved before its row was read for the first time, out
\* of an index that does not fit the tags: that one is moved home once; and one whose tag was mapped to nothing
\* then, and to another folder before a sync: that one stays.
NotesStayWhereTheyWerePut ==
    [][RunSync =>
        \A r \in Rows :
            LET target == memory.tagFolderMap[TagOf[r]]
                follows == target # lastFolder[r] /\ memory.rows[r].path = lastFolder[r] IN
            /\ memory'.rows[r].path # memory.rows[r].path => follows \/ r \in misread
            /\ follows /\ Routed(r) /\ memory.rows[r].folder # None /\ r \notin misread => memory'.rows[r].path = target]_settingsVars

\* A file that was read once reads the same again, and never has a fallback that is its primary.
ReadingSettles ==
    LET read == migrateSettings(file) IN migrateSettings(read) = read /\ read.primary # read.fallback

\* data.json outlives the releases that write it: reading one moves no note, and reading it twice changes nothing.
UpgradesKeepPlaces == NotesStayWhereTheyWerePut /\ []ReadingSettles
=============================================================================
