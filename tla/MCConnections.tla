---------------------------- MODULE MCConnections ----------------------------
(***************************************************************************)
(* What the plugin is connected to, one at a time: the tablet, its files,  *)
(* the two sides of Zotero, the settings file of an earlier release, and   *)
(* the directory two vaults share a local model in.                        *)
(***************************************************************************)
EXTENDS DeviceLink, DeviceFiles, ZoteroClient, StoredSettings, LocalModel

VARIABLE part

AllVars == <<part, linkVars, fileVars, clientVars, settingsVars, modelVars>>

LocalFirst == <<"local", "web">>
OneGroup == <<"group">>

ItemRow(i, fits) == [id |-> <<0, i>>, version |-> 1, text |-> "first", fits |-> fits]
OnTheWeb(rows) == [i \in DOMAIN rows |-> [rows[i] EXCEPT !.version = 5]]
UserItems == <<ItemRow(1, FALSE), ItemRow(2, TRUE), ItemRow(3, TRUE)>>
GroupItems == <<ItemRow(4, TRUE)>>

\* Both connections hold the user's library, with versions of their own; the group is on both, one or neither.
SomeShelves ==
    {[c \in {"local", "web"} |-> [user |-> IF c = "web" THEN OnTheWeb(UserItems) ELSE UserItems,
                                  group |-> IF c \in holders THEN GroupItems ELSE Missing]] :
        holders \in SUBSET {"local", "web"}}

\* Two notes of one tag.
OneTag == [r \in Rows |-> "t"]

\* A file of this release, of a settled vault.
MigratedFile ==
    LET settled == [t \in SettingTags |-> "f"] IN
    FileOf(settled, settled, FINGERPRINT_VERSION, {}, [r \in Rows |-> "f"], <<"ssh", "ssh", "off", Garbled>>)

OneModel == <<"big">>
SomeChunks == [engine |-> 1, model |-> 2, mmproj |-> 1]

\* Only the part that runs has more than one initial state.
MCInit ==
    /\ part \in {"link", "files", "zotero", "settings", "model"}
    /\ LinkInit /\ FilesInit /\ ClientInit /\ SettingsInit /\ ModelInit
    /\ part # "zotero" => \A c \in Connections : shelf[c]["group"] = Missing
    /\ part # "settings" => file = MigratedFile
MCNext ==
    \/ part = "link" /\ LinkNext /\ UNCHANGED <<part, fileVars, clientVars, settingsVars, modelVars>>
    \/ part = "files" /\ FilesNext /\ UNCHANGED <<part, linkVars, clientVars, settingsVars, modelVars>>
    \/ part = "zotero" /\ ClientNext /\ UNCHANGED <<part, linkVars, fileVars, settingsVars, modelVars>>
    \/ part = "settings" /\ SettingsNext /\ UNCHANGED <<part, linkVars, fileVars, clientVars, modelVars>>
    \/ part = "model" /\ ModelNext /\ UNCHANGED <<part, linkVars, fileVars, clientVars, settingsVars>>
MCSpec == MCInit /\ [][MCNext]_AllVars
=============================================================================
