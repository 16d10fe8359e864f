---------------------------- MODULE DeviceFiles ----------------------------
(***************************************************************************)
(* Reading an account off a live tablet: the listing, the hashes (most of  *)
(* them from the cache the last session left), the index of the account,   *)
(* the reads the sync makes, and the cache that is written down at the     *)
(* end.  xochitl keeps writing all the while and nothing can be locked.    *)
(*                                                                         *)
(* Bytes are versions, a hash is the version it is the hash of, and two    *)
(* versions of one parity have one size.  Time is in whole seconds, as the *)
(* tablet's userland reports it; Skew is how far this computer's clock is  *)
(* ahead of the tablet's.                                                  *)
(***************************************************************************)
EXTENDS Integers, FiniteSets

CONSTANTS Docs,        \* the documents, each of one text file and one page
          Versions,    \* what a file may hold, a set of numbers
          MaxTime,     \* where the clock stops
          HashSeconds, \* how long hashing may take
          Skew,
          Window       \* the freshness window

ASSUME FilesAssumption ==
  Versions \subseteq Nat /\ 0 \in Versions /\ {MaxTime, HashSeconds, Window} \subseteq Nat /\ Skew \in Int

Files == Docs \X {"content", "rm"}
Gone == -1
SizeOf(v) == v % 2

VARIABLES
  bytes,    \* what each file on the tablet holds, or Gone
  mtime,    \* the second of its last write
  now,      \* the clock of the tablet
  stored,   \* sshHashes: what data.json remembers, [file, size, mtime, hash]
  seen,     \* the entries of this session's cache
  phase,    \* of the session
  stats,    \* the listing, a set of [file, size, mtime]
  hashes,   \* the hashes known so far, a set of <<file, hash>>
  hashed,   \* the second the hashing began, or Gone outside of it
  held,     \* the small text files fetched, a set of <<file, bytes>>
  todo,     \* the documents the engine has yet to visit
  synced,   \* of each document: the files, by hash and by bytes, it was rendered from
  quiet     \* TRUE while no file was written since the listing

fileVars == <<bytes, mtime, now, stored, seen, phase, stats, hashes, hashed, held, todo, synced, quiet>>

NeverSynced == [index |-> {}, read |-> {}]

FilesInit ==
  /\ bytes = [f \in Files |-> 0]
  /\ mtime = [f \in Files |-> 0]
  /\ now = 0
  /\ stored = {}
  /\ seen = {}
  /\ phase = "closed"
  /\ stats = {}
  /\ hashes = {}
  /\ hashed = Gone
  /\ held = {}
  /\ todo = {}
  /\ synced = [d \in Docs |-> NeverSynced]
  /\ quiet = FALSE

-----------------------------------------------------------------------------
(* The tablet.                                                              *)

Tick ==
  /\ now < MaxTime
  /\ phase = "hashing" => now - hashed < HashSeconds
  /\ now' = now + 1
  /\ UNCHANGED <<bytes, mtime, stored, seen, phase, stats, hashes, hashed, held, todo, synced, quiet>>

Write(f, v) ==
  /\ v # bytes[f]
  /\ bytes' = [bytes EXCEPT ![f] = v]
  /\ mtime' = [mtime EXCEPT ![f] = now]
  /\ quiet' = FALSE
  /\ UNCHANGED <<now, stored, seen, phase, stats, hashes, hashed, held, todo, synced>>

-----------------------------------------------------------------------------
(* openDeviceApi: list, hash what the cache does not know, index.           *)

Stat(f) == [file |-> f, size |-> SizeOf(bytes[f]), mtime |-> mtime[f]]
KeyOf(e) == [file |-> e.file, size |-> e.size, mtime |-> e.mtime]
Cached == {e \in stored : KeyOf(e) \in stats}
Unknown == {s.file : s \in {s \in stats : \A e \in stored : KeyOf(e) # s}}

List ==
  /\ phase = "closed"
  /\ stats' = {Stat(f) : f \in {f \in Files : bytes[f] # Gone}}
  /\ phase' = "listed"
  /\ quiet' = TRUE
  /\ UNCHANGED <<bytes, mtime, now, stored, seen, hashes, hashed, held, todo, synced>>

\* The cache answers by path, size and time, and remembers that it did.
AskCache ==
  /\ phase = "listed"
  /\ seen' = Cached
  /\ hashes' = {<<e.file, e.hash>> : e \in Cached}
  /\ phase' = "hashing"
  /\ hashed' = now
  /\ UNCHANGED <<bytes, mtime, now, stored, stats, held, todo, synced, quiet>>

\* Taking a line for a file that is gone.
HashOneGone(f) ==
  /\ phase = "hashing"
  /\ f \in Unknown /\ \A h \in hashes : h[1] # f
  /\ hashes' = hashes \cup {<<f, bytes[f]>>}
  /\ UNCHANGED <<bytes, mtime, now, stored, seen, phase, stats, hashed, held, todo, synced, quiet>>

\* sha256sum of one file after the other, of what it holds by then; a file
\* that is gone has no line in the answer.
HashOne(f) ==
  /\ phase = "hashing"
  /\ f \in Unknown /\ \A h \in hashes : h[1] # f
  /\ bytes[f] # Gone
  /\ hashes' = hashes \cup {<<f, bytes[f]>>}
  /\ UNCHANGED <<bytes, mtime, now, stored, seen, phase, stats, hashed, held, todo, synced, quiet>>

\* Writing every hash down, however young its file.
FreshKept ==
  {e \in {[file |-> s.file, size |-> s.size, mtime |-> s.mtime, hash |-> h[2]] :
            s \in {s \in stats : s.file \in Unknown}, h \in hashes} :
     <<e.file, e.hash>> \in hashes}

\* PersistentHashCache.set, once all hashes are there: those of files older
\* than the window by this computer's clock.
Fresh ==
  {e \in {[file |-> s.file, size |-> s.size, mtime |-> s.mtime, hash |-> h[2]] :
            s \in {s \in stats : s.file \in Unknown}, h \in hashes} :
     <<e.file, e.hash>> \in hashes /\ now + Skew - e.mtime >= Window}

Member(d) == {<<d, "content">>, <<d, "rm">>}
IndexOf(d) == {h \in hashes : h[1] \in Member(d)}

\* The index of the account: the root gate compares all of it, the document
\* gate what is the document's.
Index ==
  /\ phase = "hashing"
  /\ \A f \in Unknown : bytes[f] = Gone \/ \E h \in hashes : h[1] = f
  /\ seen' = seen \cup Fresh
  /\ phase' = "open"
  /\ hashed' = Gone
  /\ todo' = {d \in Docs : IndexOf(d) # synced[d].index}
  /\ UNCHANGED <<bytes, mtime, now, stored, stats, hashes, held, synced, quiet>>

-----------------------------------------------------------------------------
(* The engine's reads.                                                      *)

\* readMember: the small texts once per session; what is read must have the
\* hash it was indexed under, on the second read at the latest, or the
\* document is given up for this run.  The two reads are one step: a second
\* read that disagrees is refused however the file came to differ.
Held(f) == {h \in held : h[1] = f}
ReadableUnchecked(f) == Held(f) # {} \/ bytes[f] # Gone

Readable(f) ==
  \/ Held(f) # {}
  \/ bytes[f] # Gone /\ <<f, bytes[f]>> \in hashes

FetchText(d) ==
  LET f == <<d, "content">> IN
  /\ phase = "open" /\ d \in todo
  /\ Held(f) = {} /\ Readable(f)
  /\ held' = held \cup {<<f, bytes[f]>>}
  /\ UNCHANGED <<bytes, mtime, now, stored, seen, phase, stats, hashes, hashed, todo, synced, quiet>>

\* The page is read and rendered, and the row takes the hashes of the index.
Render(d) ==
  LET p == <<d, "rm">>
      page == IF \E h \in hashes : h[1] = p THEN {p} ELSE {} IN
  /\ phase = "open" /\ d \in todo
  /\ Held(<<d, "content">>) # {}
  /\ \A f \in page : Readable(f)
  /\ synced' = [synced EXCEPT ![d] =
       [index |-> IndexOf(d),
        read |-> Held(<<d, "content">>) \cup {<<f, bytes[f]>> : f \in page}]]
  /\ todo' = todo \ {d}
  /\ UNCHANGED <<bytes, mtime, now, stored, seen, phase, stats, hashes, hashed, held, quiet>>

\* A read that disagrees twice, or fails: the document waits for the next run.
GiveUp(d) ==
  /\ phase = "open" /\ d \in todo
  /\ \E f \in Member(d) : ~Readable(f)
  /\ todo' = todo \ {d}
  /\ UNCHANGED <<bytes, mtime, now, stored, seen, phase, stats, hashes, hashed, held, synced, quiet>>

\* The connection ends before the account is indexed: nothing is written down.
Drop ==
  /\ phase \in {"listed", "hashing"}
  /\ phase' = "closed"
  /\ hashed' = Gone
  /\ stats' = {} /\ hashes' = {} /\ seen' = {} /\ quiet' = FALSE
  /\ UNCHANGED <<bytes, mtime, now, stored, held, todo, synced>>

\* close, which a run does however it ends: the cache keeps what was seen.
Close ==
  /\ phase = "open"
  /\ phase' = "closed"
  /\ stored' = seen
  /\ stats' = {} /\ hashes' = {} /\ seen' = {} /\ held' = {} /\ todo' = {} /\ quiet' = FALSE
  /\ UNCHANGED <<bytes, mtime, now, hashed, synced>>

FilesNext ==
  \/ Tick \/ List \/ AskCache \/ Index \/ Drop \/ Close
  \/ \E f \in Files : HashOne(f) \/ (\E v \in Versions \cup {Gone} : Write(f, v))
  \/ \E d \in Docs : FetchText(d) \/ Render(d) \/ GiveUp(d)

FilesSpec == FilesInit /\ [][FilesNext]_fileVars

-----------------------------------------------------------------------------
Keys == [file : Files, size : {0, 1}, mtime : 0 .. MaxTime]

FilesTypeOK ==
  /\ bytes \in [Files -> Versions \cup {Gone}]
  /\ mtime \in [Files -> 0 .. MaxTime]
  /\ now \in 0 .. MaxTime
  /\ \A e \in stored \cup seen : KeyOf(e) \in Keys /\ e.hash \in Versions
  /\ phase \in {"closed", "listed", "hashing", "open"}
  /\ stats \subseteq Keys
  /\ hashes \cup held \subseteq Files \X Versions
  /\ hashed \in Gone .. MaxTime
  /\ todo \subseteq Docs
  /\ synced \in [Docs -> [index : SUBSET (Files \X Versions), read : SUBSET (Files \X Versions)]]
  /\ quiet \in BOOLEAN

\* PersistentHashCache: a hash that is written down is that of the file it
\* would be served for.  A hash taken in a file's own last second, and one
\* more write of the same size in that second, would be served for ever.
CacheIsTrue ==
  \A e \in stored : bytes[e.file] # Gone /\ KeyOf(e) = Stat(e.file) => e.hash = bytes[e.file]

\* readMember, the gates: what a note was rendered from is what its row says
\* it was rendered from, whatever the tablet wrote between listing, hashing
\* and each read; and a document the gates pass over after a session in
\* which the tablet rested is the document on the tablet.
RenderedAsIndexed ==
  /\ \A d \in Docs : synced[d].read = synced[d].index
  /\ phase = "open" /\ quiet =>
       \A d \in Docs \ todo : synced[d].index = IndexOf(d) =>
         \A f \in Member(d) : bytes[f] # Gone => <<f, bytes[f]>> \in synced[d].read
\* What is stored, indexed and rendered of a file is the file as it was.
FilesAreAsIndexed == CacheIsTrue /\ RenderedAsIndexed
=============================================================================
