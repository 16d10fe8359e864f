---------------------------- MODULE ZoteroRender ----------------------------
(***************************************************************************)
(* The render of a document as an attachment under its paper: planRender,  *)
(* judgeRender and addRender over zotero.org's file upload, which is an    *)
(* authorisation, the bytes, and a registration under the MD5 it replaces. *)
(*                                                                         *)
(* A render is the number of the tablet's state it shows: its MD5.         *)
(***************************************************************************)
EXTENDS Absent, Naturals, FiniteSets, FiniteSetsExt

CONSTANTS MaxRenders,     \* the states of the tablet
          MaxAttachments, \* bounds the attachments made
          RenderChanges   \* bounds what the user does in Zotero

ASSUME RenderAssumption ==
  /\ {MaxRenders, MaxAttachments, RenderChanges} \subseteq Nat /\ MaxRenders # 0
  /\ None \notin Nat \cup {"trashed", "moved", "annotated", "changed"}

Renders == 1 .. MaxRenders
AttachmentKeys == 1 .. MaxAttachments
Foreign == MaxRenders + 1   \* the MD5 of a file the user put in
Meant == {"user", "group"}
Attachments == [md5 : Renders \cup {Foreign, None}, gone : {None, "trashed", "moved"}, annotated : BOOLEAN]

ASSUME AttachmentsAssumption == None \notin Attachments

VARIABLES
  lossyUpload,  \* TRUE in the histories with crashes and lost answers
  render,       \* the tablet's state
  settings,     \* [on, web, library, hasPaper]
  afresh,       \* TRUE when the user deleted the vault note since
  files,        \* our attachments, by key: [md5, gone, annotated], or None
  byUser,       \* the attachments the user trashed, moved, annotated or changed
  record,       \* link.render of data.json
  adding,       \* addRender: [pc, key, md5, holds]
  madeAnew,     \* TRUE once a render was made anew beside one that was gone (a history variable)
  renderChanges

renderVars == <<lossyUpload, render, settings, afresh, files, byUser, record, adding, madeAnew, renderChanges>>
world == <<lossyUpload, render, settings, renderChanges>>
rest == <<world, madeAnew>>

NotAdding == [pc |-> "idle", key |-> 0, md5 |-> 0, holds |-> None]
NoRender == [key |-> 0, md5 |-> None, theirs |-> None]

RenderInit ==
  /\ lossyUpload \in BOOLEAN
  /\ render = 1
  /\ settings = [on |-> TRUE, web |-> TRUE, library |-> "user", hasPaper |-> TRUE]
  /\ afresh = FALSE
  /\ files = [k \in AttachmentKeys |-> None]
  /\ byUser = {}
  /\ record = NoRender
  /\ adding = NotAdding
  /\ madeAnew = FALSE
  /\ renderChanges = 0

-----------------------------------------------------------------------------
DrawMore ==
  /\ render < MaxRenders
  /\ render' = render + 1
  /\ UNCHANGED <<lossyUpload, settings, afresh, files, byUser, record, adding, madeAnew, renderChanges>>

UserActs == renderChanges < RenderChanges /\ renderChanges' = renderChanges + 1

ChangeSettings(s) ==
  /\ UserActs /\ s # settings
  /\ settings' = s
  /\ UNCHANGED <<lossyUpload, render, afresh, files, byUser, record, adding, madeAnew>>

StartAfresh ==
  /\ UserActs
  /\ afresh' = TRUE
  /\ UNCHANGED <<lossyUpload, render, settings, files, byUser, record, adding, madeAnew>>

\* The user trashes it, moves it, brings it back, annotates it, or rotates its
\* pages, which changes the file.
UserTouches(k, f) ==
  /\ UserActs
  /\ files[k] # None /\ f # files[k]
  /\ files' = [files EXCEPT ![k] = f]
  /\ byUser' = byUser \cup {k}
  /\ UNCHANGED <<lossyUpload, render, settings, afresh, record, adding, madeAnew>>

-----------------------------------------------------------------------------
(* planRender and judgeRender.                                              *)

Made == {k \in AttachmentKeys : files[k] # None}

\* What there is to do for a unit of the whole document: nothing, look for one
\* of ours under the paper, or read the one on record.
PlanRender ==
  CASE ~settings.on \/ (record.theirs # None /\ ~afresh) -> "none"
    [] settings.library # "user" \/ ~settings.web -> "not-added"
    [] record.key # 0 /\ record.theirs = None /\ record.md5 = render -> "unchanged"
    [] record.key # 0 -> "check"
    [] ~settings.hasPaper -> "not-added"
    [] OTHER -> "find"

JudgeRender(k, known) ==
  CASE files[k].gone # None -> files[k].gone
    [] files[k].annotated -> "annotated"
    [] files[k].md5 = render -> "unchanged"
    [] known.md5 # None /\ files[k].md5 # known.md5 -> "changed"
    [] OTHER -> "upload"

EndAdding == adding' = NotAdding
Stored(k, md5, theirs) == record' = [key |-> k, md5 |-> md5, theirs |-> theirs]

\* Going by the record alone.
KnownByRecord == record

\* What addRender finds: the attachment on record, or the oldest of ours under
\* the paper, the trashed ones included; a moved one is not found any more.
KnownRender ==
  IF PlanRender = "check" THEN record
  ELSE LET c == {k \in Made : files[k].gone # "moved"} IN
       IF c = {} THEN NoRender ELSE [key |-> Min(c), md5 |-> None, theirs |-> None]

AddRender ==
  LET known == KnownRender
      verdict == IF known.key = 0 THEN "none" ELSE JudgeRender(known.key, known) IN
  /\ adding.pc = "idle" /\ PlanRender \in {"check", "find"}
  /\ afresh' = FALSE
  /\ \/ /\ known.key = 0 \/ (verdict \in {"trashed", "moved"} /\ afresh)
        /\ adding' = [NotAdding EXCEPT !.pc = "creating", !.md5 = render]
        /\ madeAnew' = (madeAnew \/ known.key # 0)
        /\ UNCHANGED record
     \/ /\ verdict = "unchanged"
        /\ Stored(known.key, render, None) /\ EndAdding /\ UNCHANGED madeAnew
     \/ /\ verdict \in {"trashed", "moved", "annotated", "changed"}
        /\ ~(verdict \in {"trashed", "moved"} /\ afresh)
        /\ Stored(known.key, known.md5, verdict) /\ EndAdding /\ UNCHANGED madeAnew
     \/ /\ verdict = "upload"
        /\ adding' = [pc |-> "authorising", key |-> known.key, md5 |-> render,
                       holds |-> files[known.key].md5]
        /\ UNCHANGED <<record, madeAnew>>
  /\ UNCHANGED <<world, files, byUser>>

\* Nothing to do or to say; a deleted note is a start over whatever comes of it.
SkipRender ==
  /\ adding.pc = "idle" /\ afresh /\ PlanRender \in {"none", "not-added", "unchanged"}
  /\ afresh' = FALSE
  /\ UNCHANGED <<rest, files, byUser, record, adding>>

\* The attachment first, on record before it has a file.
CreateAttachment(o) ==
  LET k == Cardinality(Made) + 1 IN
  /\ adding.pc = "creating" /\ k \in AttachmentKeys
  /\ o \in (IF lossyUpload THEN {"done", "error", "lost"} ELSE {"done", "error"})
  /\ files' = IF o = "error" THEN files
              ELSE [files EXCEPT ![k] = [md5 |-> None, gone |-> None, annotated |-> FALSE]]
  /\ IF o = "done"
     THEN /\ Stored(k, None, None)
          /\ adding' = [adding EXCEPT !.pc = "authorising", !.key = k]
     ELSE EndAdding /\ UNCHANGED record
  /\ UNCHANGED <<rest, afresh, byUser>>

\* Uploading without a precondition.
HoldsAny == TRUE

\* The precondition of both POSTs: the MD5 the read saw, or no file at all.
Holds == files[adding.key].md5 = adding.holds

\* Authorised, refused for what the file has become or for want of storage, or
\* not answered; zotero.org may know the bytes already.
Authorise(o) ==
  /\ adding.pc = "authorising"
  /\ o \in {"slot", "exists", "quota", "error"}
  /\ IF o \in {"slot", "exists"} /\ Holds
     THEN IF o = "slot"
          THEN adding' = [adding EXCEPT !.pc = "storing"] /\ UNCHANGED <<files, record>>
          ELSE /\ files' = [files EXCEPT ![adding.key].md5 = adding.md5]
               /\ Stored(adding.key, adding.md5, None) /\ EndAdding
     ELSE EndAdding /\ UNCHANGED <<files, record>>
  /\ UNCHANGED <<rest, afresh, byUser>>

\* The bytes, then the registration, which alone puts them into the item.
Register(o) ==
  /\ adding.pc = "storing"
  /\ o \in (IF lossyUpload THEN {"done", "error", "lost"} ELSE {"done", "error"})
  /\ files' = IF o # "error" /\ Holds THEN [files EXCEPT ![adding.key].md5 = adding.md5] ELSE files
  /\ IF o = "done" /\ Holds THEN Stored(adding.key, adding.md5, None) ELSE UNCHANGED record
  /\ EndAdding
  /\ UNCHANGED <<rest, afresh, byUser>>

QuitAdding ==
  /\ lossyUpload /\ adding.pc # "idle"
  /\ EndAdding
  /\ UNCHANGED <<rest, afresh, files, byUser, record>>

RenderNext ==
  \/ DrawMore \/ StartAfresh \/ AddRender \/ SkipRender \/ QuitAdding
  \/ \E s \in [on : BOOLEAN, web : BOOLEAN, library : Meant, hasPaper : BOOLEAN] : ChangeSettings(s)
  \/ \E k \in AttachmentKeys :
       \E f \in [md5 : Renders \cup {Foreign}, gone : {None, "trashed", "moved"}, annotated : BOOLEAN] :
         /\ files[k] # None => f.md5 \in {files[k].md5, Foreign}
         /\ UserTouches(k, f)
  \/ \E o \in {"done", "error", "lost"} : CreateAttachment(o) \/ Register(o)
  \/ \E o \in {"slot", "exists", "quota", "error"} : Authorise(o)

-----------------------------------------------------------------------------
RenderTypeOK ==
  /\ render \in Renders
  /\ record.key \in 0 .. MaxAttachments /\ record.md5 \in Renders \cup {None}
  /\ record.theirs \in {None, "trashed", "moved", "annotated", "changed"}
  /\ \A k \in Made : files[k].md5 \in Renders \cup {Foreign, None}
  /\ adding.pc \in {"idle", "creating", "authorising", "storing"}
  /\ adding.pc \in {"authorising", "storing"} => adding.key \in Made

\* addRender, judgeRender: a file the user put into the attachment is never
\* replaced once a render of ours is on record, however the change falls
\* between the read, the authorisation and the registration; and what is on
\* record as theirs was made so by the user, while no answer is lost.
RenderIsTheirs ==
  [][/\ \A k \in Made : files'[k].md5 # files[k].md5 /\ files[k].md5 = Foreign =>
          adding.holds = Foreign
     /\ adding.pc # "storing" /\ adding'.pc = "authorising" /\ adding'.holds = Foreign => record.md5 = None
     /\ ~lossyUpload /\ record'.theirs # None => record'.key \in byUser]_renderVars

\* A paper never gets a second render of ours beside one that is still there
\* and that the user left alone: not through crashes and lost answers, and not
\* when the user starts over. Only both together get it one: the render made
\* anew, whose answer was lost, is on no record, and a second start over finds
\* the one that is gone again, on the record or as the oldest under the paper.
OneRender ==
  ~(lossyUpload /\ madeAnew) => Cardinality({k \in Made \ byUser : files[k].gone = None}) <= 1
=============================================================================
