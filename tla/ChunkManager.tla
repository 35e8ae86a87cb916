---------------------------- MODULE ChunkManager ----------------------------
(***************************************************************************)
(* The chunk bookkeeping of one multi-file torrent: bt::ChunkManager (which *)
(* chunks we have, still want, excluded, or only seed), bt::TorrentFile     *)
(* (the priorities the user gives files), bt::ChunkSelector (the chunks     *)
(* offered to peers), and the parts of bt::Downloader and                   *)
(* bt::TorrentControl that drive them, across stops and restarts of the     *)
(* program, which keep only the index file, the priority file, the list of  *)
(* current downloads and the data.                                          *)
(*                                                                         *)
(* A handler runs to completion on the main thread, so it is one action; it *)
(* is composed of operators that take the in-memory state (a record) and    *)
(* return the next one, in the order of the calls in the code.  The three   *)
(* loops over files (loading priorities, createFiles) are one action per    *)
(* file, and nothing else but a crash is enabled while they run.            *)
(***************************************************************************)
EXTENDS Integers, FiniteSets

CONSTANTS
    NumChunks,      \* Torrent::getNumChunks
    NumFiles,       \* Torrent::getNumFiles
    First, Last,    \* TorrentFile::getFirstChunk, getLastChunk
    Multimedia,     \* the files that are audio or video
    PreviewLen,     \* previewChunkRangeSize of a multimedia file
    UserPriority    \* the priorities the user sets

Chunk == 0 .. NumChunks - 1
File == 1 .. NumFiles

(***************************************************************************)
(* enum Priority: the order of the numbers is the order of preference.      *)
(***************************************************************************)
EXCLUDED      == 10
ONLY_SEED     == 20
LAST          == 30
NORMAL        == 40
FIRST         == 50

FilePriority == {EXCLUDED, ONLY_SEED, LAST, NORMAL, FIRST}
Previewable == {LAST, NORMAL, FIRST}

\* LAST_PREVIEW_PRIORITY, NORMAL_PREVIEW_PRIORITY, FIRST_PREVIEW_PRIORITY
Preview(p) == IF p \in Previewable THEN p + 5 ELSE p

ChunkPriority == FilePriority \cup {p + 5 : p \in Previewable}

ChunksOf(f) == First[f] .. Last[f]
FilesOf(c) == {f \in File : c \in ChunksOf(f)}

(***************************************************************************)
(* Files lie one after the other, and each chunk lies in some file.  Files  *)
(* of size zero are left out: they own no bytes of any chunk.               *)
(***************************************************************************)
ASSUME SizeAssumption ==
    /\ NumChunks \in Nat \ {0}
    /\ NumFiles \in Nat \ {0}
    /\ PreviewLen \in Nat \ {0}
    /\ Multimedia \subseteq File
    /\ UserPriority \subseteq FilePriority

ASSUME LayoutAssumption ==
    /\ First \in [File -> Chunk]
    /\ Last \in [File -> Chunk]
    /\ \A f \in File : First[f] <= Last[f]
    /\ \A f, g \in File : f < g => Last[f] <= First[g]
    /\ \A c \in Chunk : FilesOf(c) # {}

\* createBorderChunkSet: chunks that lie in a file and in the next one
Border == {c \in Chunk : \E f \in File : f + 1 \in File
                                         /\ c = Last[f] /\ c = First[f + 1]}

VARIABLES
    cm,         \* the objects in memory, see Session
    fprio,      \* TorrentFile::priority
    oldPrio,    \* TorrentFile::old_priority, followed until createFiles reads it
    pos,        \* the file at which a loop over the files is
    running,    \* TorrentStats::running and not paused
    index,      \* the chunks listed in the index file
    savedPrio,  \* the file_priority file
    savedCur,   \* the current_chunks file
    data        \* (history) the chunks whose bytes on disk are good

vars == <<cm, fprio, oldPrio, pos, running, index, savedPrio, savedCur, data>>

AllNormal == [f \in File |-> NORMAL]

(***************************************************************************)
(* The objects of a session.  phase says what the main thread does:         *)
(*   new       set up without an index file, createFiles not called yet     *)
(*   creating  in createFiles    (during_load is set)                       *)
(*   loading   in loadIndexFile  (during_load is set, no Downloader yet)    *)
(*   up        everything else                                              *)
(***************************************************************************)
PreviewRange(f) ==
    IF First[f] = Last[f] THEN ChunksOf(f)
    ELSE Chunk \cap ((First[f] .. First[f] + PreviewLen) \cup
                     (IF Last[f] - First[f] > PreviewLen
                      THEN Last[f] - PreviewLen .. Last[f] ELSE {}))

\* the constructor and setupPriorities
Session(ph) ==
    [phase |-> ph, bitset |-> {}, todo |-> Chunk, excluded |-> {}, onlySeed |-> {},
     onDisk |-> {}, recalc |-> TRUE, left |-> 0, cur |-> {},
     sel  |-> IF ph = "loading" THEN {} ELSE Chunk,
     prio |-> [c \in Chunk |-> IF \E f \in Multimedia : c \in PreviewRange(f)
                               THEN Preview(NORMAL) ELSE NORMAL]]

DuringLoad(s) == s.phase \in {"creating", "loading"}

-----------------------------------------------------------------------------
(***************************************************************************)
(* The operations of ChunkManager on a set S of chunks, as functions of the *)
(* session.                                                                 *)
(***************************************************************************)
ResetChunk(s, S) ==
    IF DuringLoad(s) THEN s
    ELSE [s EXCEPT !.onDisk = s.onDisk \ S,
                   !.bitset = s.bitset \ S,
                   !.todo = (s.todo \ S) \cup (S \ (s.excluded \cup s.onlySeed))]

OnExcludedIgnored(s, S) == s    \* mutant: the Downloader is not told

\* the slot on the signal ChunkManager::excluded, connected after loading
OnExcluded(s, S) ==
    IF s.phase = "loading" THEN s
    ELSE ResetChunk([s EXCEPT !.cur = s.cur \ S], s.cur \cap S)

OnIncludedIgnored(s, S) == s    \* mutant: the selector is not told

\* the slot on the signal ChunkManager::included: ChunkSelector::reincluded
OnIncluded(s, S) ==
    IF s.phase = "loading" THEN s
    ELSE [s EXCEPT !.sel = s.sel \cup (S \ s.onDisk)]

\* mutant of Prioritise: chunks we have are wanted again
PrioritiseAll(s, S, p) ==
    [s EXCEPT !.prio = [c \in Chunk |-> IF c \in S THEN p ELSE s.prio[c]],
              !.onlySeed = IF p = ONLY_SEED THEN s.onlySeed \cup S ELSE s.onlySeed \ S,
              !.todo = IF p \in {ONLY_SEED, EXCLUDED} THEN s.todo \ S ELSE s.todo \cup S]

Prioritise(s, S, p) ==
    [s EXCEPT !.prio = [c \in Chunk |-> IF c \in S THEN p ELSE s.prio[c]],
              !.onlySeed = IF p = ONLY_SEED THEN s.onlySeed \cup S ELSE s.onlySeed \ S,
              !.todo = IF p \in {ONLY_SEED, EXCLUDED} THEN s.todo \ S
                       ELSE (s.todo \ S) \cup (S \ s.bitset)]

PrioritisePreview(s, S) ==
    [s EXCEPT !.prio = [c \in Chunk |-> IF c \in S THEN Preview(s.prio[c]) ELSE s.prio[c]]]

Exclude(s, S) ==
    OnExcluded([s EXCEPT
        !.prio = [c \in Chunk |-> IF c \in S THEN EXCLUDED ELSE s.prio[c]],
        !.excluded = s.excluded \cup S,
        !.onlySeed = s.onlySeed \ S,
        !.todo = s.todo \ S,
        !.bitset = s.bitset \ S,
        !.recalc = TRUE], S)

Include(s, S) ==
    OnIncluded([s EXCEPT
        !.prio = [c \in Chunk |-> IF c \in S THEN NORMAL ELSE s.prio[c]],
        !.excluded = s.excluded \ S,
        !.todo = s.todo \cup (S \ s.bitset),
        !.recalc = TRUE], S)

DoPreviewPriority(s, fp, f) ==
    IF f \in Multimedia /\ fp[f] \notin {EXCLUDED, ONLY_SEED}
    THEN PrioritisePreview(s, PreviewRange(f)) ELSE s

\* the highest priority of the files of a chunk, in setBorderChunkPriority
Highest(fp, c) ==
    CHOOSE p \in {fp[f] : f \in FilesOf(c)} : \A f \in FilesOf(c) : fp[f] <= p

SetBorderChunkPriority(s, fp, c) ==
    LET t == Prioritise(s, {c}, Highest(fp, c))
    IN  IF Highest(fp, c) = ONLY_SEED THEN OnExcluded(t, {c}) ELSE t

\* prioritise the chunks S, which lie in one file only, and tell the Downloader
PrioritiseOwn(s, S, p) ==
    LET t == Prioritise(s, S, p)
    IN  IF p = ONLY_SEED THEN OnExcluded(t, S) ELSE t

\* mutant of Needed: the other files are not looked at
NeededByNone(fp, c, f) == FALSE

\* resetBorderChunk returns false: another file still needs the chunk
Needed(fp, c, f) == \E g \in FilesOf(c) \ {f} : fp[g] # EXCLUDED

\* what downloadStatusChanged does to the first or last chunk c of file f
\* (resetBorderChunk when it is a border chunk)
ResetEdge(s, fp, c, f) ==
    IF c \in Border /\ Needed(fp, c, f) THEN SetBorderChunkPriority(s, fp, c)
    ELSE ResetChunk(s, {c})

\* downloadStatusChanged(tf, false)
DontDownload(s, fp, f) ==
    LET a == First[f]
        b == Last[f]
        keepA == a \in Border /\ Needed(fp, a, f)
        keepB == b \in Border /\ Needed(fp, b, f)
        first == IF keepA THEN a + 1 ELSE a
        s1 == ResetEdge(ResetChunk(s, (a + 1) .. (b - 1)), fp, a, f)
        s2 == IF b # first THEN ResetEdge(s1, fp, b, f) ELSE s1
        last == IF b # first /\ keepB THEN b - 1 ELSE b
    IN  IF a = b
        THEN IF keepA THEN ResetEdge(s, fp, a, f)
             ELSE Exclude(ResetEdge(s, fp, a, f), {a})
        ELSE IF first <= last THEN Exclude(s2, first .. last) ELSE s2

\* downloadStatusChanged(tf, true)
DoDownload(s, fp, f) == DoPreviewPriority(Include(s, ChunksOf(f)), fp, f)

DownloadPriorityChanged(s, fp, f, old) ==
    LET new == fp[f]
        a == First[f]
        b == Last[f]
        s1 == IF old = EXCLUDED THEN DoDownload(s, fp, f) ELSE s
        s2 == IF old = ONLY_SEED THEN Include(s1, ChunksOf(f)) ELSE s1
        one == IF a \in Border THEN SetBorderChunkPriority(s2, fp, a)
               ELSE Prioritise(s2, {a}, new)
        s3 == IF a \in Border THEN SetBorderChunkPriority(s2, fp, a) ELSE s2
        s4 == IF b \in Border THEN SetBorderChunkPriority(s3, fp, b) ELSE s3
        s5 == IF a = b
              THEN IF new = ONLY_SEED THEN OnExcluded(one, {a}) ELSE one
              ELSE PrioritiseOwn(s4, ChunksOf(f) \ Border, new)
    IN  IF new = EXCLUDED THEN DontDownload(s, fp, f)
        ELSE DoPreviewPriority(s5, fp, f)

\* TorrentFile::setPriority and the session it leaves; a file that was
\* excluded is first set to normal priority (setDoNotDownload(false))
SetTo(fp, f, p) == [fp EXCEPT ![f] = p]

PriorityChange(s, fp, f, p) ==
    IF fp[f] = EXCLUDED
    THEN LET fp1 == SetTo(fp, f, NORMAL)
             s1 == DownloadPriorityChanged(s, fp1, f, EXCLUDED)
         IN  DownloadPriorityChanged(s1, SetTo(fp1, f, p), f, NORMAL)
    ELSE DownloadPriorityChanged(s, SetTo(fp, f, p), f, fp[f])

\* MultiFileCache::downloadStatusChanged: the file is deleted, its first and
\* last chunk are kept in the dnd file
Deleted(f) == (First[f] + 1) .. (Last[f] - 1)

\* recalculateChunksLeft
ChunksLeft(s) == Cardinality({c \in Chunk \ s.bitset : s.prio[c] # EXCLUDED})
Recalculate(s) ==
    IF s.recalc THEN [s EXCEPT !.left = ChunksLeft(s), !.recalc = FALSE] ELSE s

Completed(s) == s.todo = {} /\ s.bitset # {}

-----------------------------------------------------------------------------
Init ==
    /\ cm = Session("new")
    /\ fprio = AllNormal
    /\ oldPrio = AllNormal
    /\ pos = 1
    /\ running = FALSE
    /\ index = {}
    /\ savedPrio = AllNormal
    /\ savedCur = {}
    /\ data = {}

(***************************************************************************)
(* The user sets the priority of a file.                                    *)
(***************************************************************************)
SetPriority(f, p) ==
    /\ cm.phase \in {"new", "up"}
    /\ p # fprio[f]
    /\ fprio' = SetTo(fprio, f, p)
    /\ cm' = PriorityChange(cm, fprio, f, p)
    /\ oldPrio' = IF cm.phase = "new"
                  THEN SetTo(oldPrio, f, IF fprio[f] = EXCLUDED THEN NORMAL ELSE fprio[f])
                  ELSE oldPrio
    /\ savedPrio' = fprio'
    /\ data' = IF p = EXCLUDED THEN data \ Deleted(f) ELSE data
    /\ UNCHANGED <<pos, running, index, savedCur>>

(***************************************************************************)
(* createFiles(true), after the torrent has been set up for the first time. *)
(***************************************************************************)
CreateFiles ==
    /\ cm.phase = "new"
    /\ cm' = [cm EXCEPT !.phase = "creating"]
    /\ pos' = 1
    /\ UNCHANGED <<fprio, oldPrio, running, index, savedPrio, savedCur, data>>

CreateFilesStep ==
    /\ cm.phase = "creating"
    /\ pos \in File
    /\ cm' = IF fprio[pos] = NORMAL THEN cm
             ELSE DownloadPriorityChanged(cm, fprio, pos, oldPrio[pos])
    /\ pos' = pos + 1
    /\ UNCHANGED <<fprio, oldPrio, running, index, savedPrio, savedCur, data>>

CreateFilesDone ==
    /\ cm.phase = "creating"
    /\ pos \notin File
    /\ cm' = [cm EXCEPT !.phase = "up"]
    /\ savedPrio' = fprio
    /\ oldPrio' = AllNormal
    /\ UNCHANGED <<fprio, pos, running, index, savedCur, data>>

(***************************************************************************)
(* The program ends, or crashes, and is started again: setupData makes new  *)
(* objects and, as the index file exists, calls loadIndexFile.              *)
(***************************************************************************)
Restart ==
    /\ cm.phase # "new"
    /\ cm' = Session("loading")
    /\ fprio' = AllNormal
    /\ oldPrio' = AllNormal
    /\ pos' = 1
    /\ running' = FALSE
    /\ UNCHANGED <<index, savedPrio, savedCur, data>>

LoadPriorityInfo ==
    /\ cm.phase = "loading"
    /\ pos \in File
    /\ fprio' = SetTo(fprio, pos, savedPrio[pos])
    /\ cm' = IF savedPrio[pos] = NORMAL THEN cm
             ELSE PriorityChange(cm, fprio, pos, savedPrio[pos])
    /\ pos' = pos + 1
    /\ UNCHANGED <<oldPrio, running, index, savedPrio, savedCur, data>>

\* the rest of loadIndexFile, then the Downloader and its ChunkSelector
LoadIndexFile ==
    /\ cm.phase = "loading"
    /\ pos \notin File
    /\ cm' = [cm EXCEPT !.bitset = cm.bitset \cup index,
                        !.onDisk = cm.onDisk \cup index,
                        !.todo = cm.todo \ index,
                        !.sel = Chunk \ (cm.bitset \cup index),
                        !.phase = "up"]
    /\ UNCHANGED <<fprio, oldPrio, pos, running, index, savedPrio, savedCur, data>>

(***************************************************************************)
(* TorrentControl::start and unpause load the partial downloads, stop and   *)
(* pause save and clear them.                                               *)
(***************************************************************************)
Start ==
    /\ cm.phase = "up"
    /\ ~running
    /\ running' = TRUE
    /\ cm' = [cm EXCEPT !.cur = IF Completed(cm) THEN {}
                                ELSE {c \in savedCur : c \notin cm.onDisk
                                                       /\ cm.prio[c] # EXCLUDED}]
    /\ UNCHANGED <<fprio, oldPrio, pos, index, savedPrio, savedCur, data>>

Stop ==
    /\ running
    /\ running' = FALSE
    /\ savedCur' = cm.cur
    /\ cm' = [cm EXCEPT !.cur = {}]
    /\ UNCHANGED <<fprio, oldPrio, pos, index, savedPrio, data>>

(***************************************************************************)
(* ChunkSelector::select for some peer, and Downloader::downloadFrom with   *)
(* its answer.  select drops the chunks it passes that need no download;    *)
(* which ones it passes before it finds a chunk depends on the order of the *)
(* list, which is left out.                                                 *)
(***************************************************************************)
Dead(s) == {c \in s.sel : s.prio[c] \in {ONLY_SEED, EXCLUDED} \/ c \in s.bitset}

Select(c, passed) ==
    /\ running
    /\ c \in cm.sel \ Dead(cm)
    /\ cm' = [cm EXCEPT !.sel = cm.sel \ passed, !.cur = cm.cur \cup {c}]
    /\ UNCHANGED <<fprio, oldPrio, pos, running, index, savedPrio, savedCur, data>>

SelectNothing ==
    /\ running
    /\ Dead(cm) # {}
    /\ cm' = [cm EXCEPT !.sel = cm.sel \ Dead(cm)]
    /\ UNCHANGED <<fprio, oldPrio, pos, running, index, savedPrio, savedCur, data>>

(***************************************************************************)
(* The last piece of a chunk has arrived (pieceReceived, finished).  The    *)
(* hash is right; or it is right and the index file cannot be written; or   *)
(* it is wrong.                                                             *)
(***************************************************************************)
ChunkDownloaded(s, c) ==
    IF s.prio[c] = EXCLUDED THEN s
    ELSE [s EXCEPT !.bitset = s.bitset \cup {c},
                   !.todo = s.todo \ {c},
                   !.recalc = TRUE,
                   !.onDisk = s.onDisk \cup {c}]

Finishing(c) == running /\ c \in cm.cur /\ ~Completed(cm)

\* mutant of HashOk: the index file is not written
HashOkUnsaved(c) ==
    /\ Finishing(c)
    /\ cm' = [ChunkDownloaded(cm, c) EXCEPT !.cur = cm.cur \ {c}]
    /\ data' = data \cup {c}
    /\ UNCHANGED <<fprio, oldPrio, pos, running, index, savedPrio, savedCur>>

HashOk(c) ==
    /\ Finishing(c)
    /\ cm' = [ChunkDownloaded(cm, c) EXCEPT !.cur = cm.cur \ {c}]
    /\ index' = IF cm.prio[c] = EXCLUDED THEN index ELSE index \cup {c}
    /\ data' = data \cup {c}
    /\ UNCHANGED <<fprio, oldPrio, pos, running, savedPrio, savedCur>>

IndexError(c) ==
    /\ Finishing(c)
    /\ cm.prio[c] # EXCLUDED
    /\ cm' = [cm EXCEPT !.bitset = cm.bitset \cup {c},
                        !.todo = cm.todo \ {c},
                        !.recalc = TRUE,
                        !.cur = cm.cur \ {c}]
    /\ data' = data \cup {c}
    /\ UNCHANGED <<fprio, oldPrio, pos, running, index, savedPrio, savedCur>>

HashBad(c) ==
    /\ Finishing(c)
    /\ cm' = LET r == ResetChunk(cm, {c})
             IN  [r EXCEPT !.sel = r.sel \cup {c}, !.cur = r.cur \ {c}]
    /\ data' = data \ {c}
    /\ UNCHANGED <<fprio, oldPrio, pos, running, index, savedPrio, savedCur>>

\* ChunkManager::chunksLeft, for the statistics and the selector
QueryChunksLeft ==
    /\ cm.phase = "up"
    /\ cm.recalc
    /\ cm' = Recalculate(cm)
    /\ UNCHANGED <<fprio, oldPrio, pos, running, index, savedPrio, savedCur, data>>

(***************************************************************************)
(* afterDataCheck: Downloader::dataChecked, then ChunkManager::dataChecked, *)
(* for the chunks S that were checked, of which ok were found good.  A job  *)
(* runs while the torrent is stopped or paused, so nothing is downloading.  *)
(***************************************************************************)
SelectorChecked(s, S, ok) == [s EXCEPT !.sel = (s.sel \ (S \cap ok)) \cup (S \ ok)]

DataChecked(S, ok) ==
    LET found == (S \cap ok) \ cm.bitset
        lost  == (S \ ok) \cap cm.bitset
        wanted == lost \ (cm.onlySeed \cup cm.excluded)
        checked == [SelectorChecked(cm, S, ok) EXCEPT
                       !.bitset = (cm.bitset \cup found) \ lost,
                       !.todo = (cm.todo \ (found \cup lost)) \cup wanted,
                       !.onDisk = (cm.onDisk \cup found) \ lost,
                       !.recalc = TRUE]
    IN  /\ cm.phase = "up"
        /\ ~running
        /\ cm' = Recalculate(checked)
        /\ index' = checked.onDisk
        /\ savedPrio' = fprio
        /\ data' = (data \ S) \cup (S \cap ok)
        /\ UNCHANGED <<fprio, oldPrio, pos, running, savedCur>>

(***************************************************************************)
(* markExistingFilesAsDownloaded: the files P were on disk when the torrent *)
(* was created, and the user says that their data is good.                  *)
(***************************************************************************)
Marked(P) ==
    {c \in Chunk : \E f \in P : c \in Deleted(f)
                                \/ (c \in {First[f], Last[f]} /\ FilesOf(c) \subseteq P)}

MarkExistingFiles(P) ==
    LET marked == [cm EXCEPT !.bitset = cm.bitset \cup Marked(P),
                             !.todo = cm.todo \ Marked(P),
                             !.onDisk = cm.onDisk \cup Marked(P),
                             !.recalc = TRUE]
    IN  /\ cm.phase = "up"
        /\ ~running
        /\ cm' = Recalculate(marked)
        /\ index' = marked.onDisk
        /\ savedPrio' = fprio
        /\ data' = data \cup Marked(P)
        /\ UNCHANGED <<fprio, oldPrio, pos, running, savedCur>>

(***************************************************************************)
(* The files M have disappeared from the disk before the torrent is         *)
(* started: they are recreated, or one after the other set to excluded      *)
(* (for several, dndMissingFiles does what as many calls for one do).       *)
(***************************************************************************)
Recreated(M) == UNION {ChunksOf(f) : f \in M}

RecreateMissingFiles(M) ==
    LET reset == [ResetChunk(cm, Recreated(M)) EXCEPT !.recalc = TRUE]
    IN  /\ cm.phase = "up"
        /\ ~running
        /\ \A f \in M : fprio[f] # EXCLUDED
        /\ cm' = SelectorChecked(Recalculate(reset), Chunk, reset.bitset)
        /\ index' = reset.onDisk
        /\ savedPrio' = fprio
        /\ data' = data \ Recreated(M)
        /\ UNCHANGED <<fprio, oldPrio, pos, running, savedCur>>

DndMissingFile(f) ==
    LET s1 == ResetChunk(cm, ChunksOf(f))
        s2 == [DownloadPriorityChanged(s1, SetTo(fprio, f, EXCLUDED), f, fprio[f])
                  EXCEPT !.recalc = TRUE]
    IN  /\ cm.phase = "up"
        /\ ~running
        /\ fprio[f] # EXCLUDED
        /\ fprio' = SetTo(fprio, f, EXCLUDED)
        /\ cm' = SelectorChecked(Recalculate(s2), Chunk, s2.bitset)
        /\ index' = s2.onDisk
        /\ savedPrio' = fprio'
        /\ data' = data \ ChunksOf(f)
        /\ UNCHANGED <<oldPrio, pos, running, savedCur>>

Next ==
    \/ \E f \in File, p \in UserPriority : SetPriority(f, p)
    \/ CreateFiles \/ CreateFilesStep \/ CreateFilesDone
    \/ Restart \/ LoadPriorityInfo \/ LoadIndexFile
    \/ Start \/ Stop
    \/ \E c \in Chunk : \E passed \in SUBSET Dead(cm) : Select(c, passed)
    \/ SelectNothing
    \/ \E c \in Chunk : HashOk(c) \/ IndexError(c) \/ HashBad(c)
    \/ QueryChunksLeft
    \/ \E a, b \in Chunk : a <= b /\ \E ok \in SUBSET (a .. b) : DataChecked(a .. b, ok)
    \/ \E P \in SUBSET File : MarkExistingFiles(P)
    \/ \E M \in SUBSET File : RecreateMissingFiles(M)
    \/ \E f \in File : DndMissingFile(f)

Spec == Init /\ [][Next]_vars
=============================================================================
