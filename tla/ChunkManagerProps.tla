------------------------- MODULE ChunkManagerProps -------------------------
(***************************************************************************)
(* What makes the chunk bookkeeping correct.                                *)
(***************************************************************************)
EXTENDS ChunkManager

SessionType ==
    [phase : {"new", "creating", "loading", "up"},
     bitset : SUBSET Chunk, todo : SUBSET Chunk, excluded : SUBSET Chunk,
     onlySeed : SUBSET Chunk, onDisk : SUBSET Chunk, sel : SUBSET Chunk,
     cur : SUBSET Chunk, recalc : BOOLEAN, left : Nat,
     prio : [Chunk -> ChunkPriority]]

\* Every part of the state has its type.
TypeOK ==
    /\ cm \in SessionType
    /\ fprio \in [File -> FilePriority]
    /\ oldPrio \in [File -> FilePriority]
    /\ savedPrio \in [File -> FilePriority]
    /\ pos \in 1 .. NumFiles + 1
    /\ running \in BOOLEAN
    /\ index \subseteq Chunk
    /\ savedCur \subseteq Chunk
    /\ data \subseteq Chunk

\* No file of exactly two chunks starts in a chunk it shares with the file
\* before it.  downloadStatusChanged goes wrong on such a file: once it has
\* moved first past a shared first chunk it takes first = last to mean that
\* the last chunk has been dealt with.
NoTwoChunkOverlap == \A f \in File : Last[f] = First[f] + 1 => First[f] \notin Border

\* A chunk is still to be downloaded exactly when we do not have it and no
\* file priority keeps us from it: the incrementally updated todo bitset
\* (prioritise, exclude, include, resetChunk, chunkDownloaded, dataChecked,
\* loadIndexFile) never drifts from the three it summarises.
TodoExact == cm.todo = Chunk \ (cm.bitset \cup cm.excluded \cup cm.onlySeed)

\* The chunks follow the files: a chunk is excluded exactly when every file
\* it lies in is, and only seeded exactly when no file wants more, whatever
\* the order in which the priorities of files that share chunks were set.
Base(p) == IF p - 5 \in Previewable THEN p - 5 ELSE p

ChunkFollowsFiles(c) ==
    /\ c \in cm.excluded <=> \A f \in FilesOf(c) : fprio[f] = EXCLUDED
    /\ c \in cm.onlySeed <=> Highest(fprio, c) = ONLY_SEED
    /\ Base(cm.prio[c]) = Highest(fprio, c)

FilesDecide == \A c \in Chunk : ChunkFollowsFiles(c)

\* Whatever has to be downloaded can be chosen: ChunkSelector drops chunks
\* lazily and gets them back only through reincluded, reinsert and
\* dataChecked, and never loses one that is still to be downloaded.
TodoSelectable == cm.phase # "loading" => cm.todo \subseteq cm.sel

\* A chunk that we have, or that is excluded, is not being downloaded, also
\* not when the download was saved before it was excluded or found on disk.
DownloadsNeeded == cm.cur \cap (cm.onDisk \cup cm.excluded) = {}

\* After a crash at any moment, the index file lists every chunk that is on
\* disk, so no finished chunk is downloaded twice.
OnDiskIndexed == cm.phase = "up" => cm.onDisk \subseteq index

\* After a crash at any moment, the files get back the priorities they had.
PrioritiesSurvive == ~DuringLoad(cm) => savedPrio = fprio

\* A crash at any moment loses neither a finished chunk nor a priority: what
\* writeIndexFileEntry and saveFileInfo have on disk is what we have in memory.
SurvivesCrash == OnDiskIndexed /\ PrioritiesSurvive

\* When the user changes the priority of a file, the chunks we have of other
\* files that are not excluded stay: excluding a file may only drop chunks
\* that no other file needs (resetBorderChunk).
NeighboursKept ==
    [][\A f \in File, p \in UserPriority : SetPriority(f, p) =>
          \A c \in cm.bitset \ cm'.bitset :
             \A g \in FilesOf(c) : fprio'[g] = EXCLUDED]_vars

\* The bitset that is announced to peers claims only chunks whose data is on
\* disk: a chunk that was reset does not come back with a restart.
HaveIsReal == cm.phase = "up" => cm.bitset \subseteq data

-----------------------------------------------------------------------------
(***************************************************************************)
(* The inductive invariant, chunk by chunk.  Consistent is what every       *)
(* operation needs of a chunk and leaves behind; Offered needs it.          *)
(***************************************************************************)
Consistent(s, fp, c) ==
    /\ c \in s.todo <=> c \notin s.bitset /\ c \notin s.excluded /\ c \notin s.onlySeed
    /\ c \in s.excluded <=> \A f \in FilesOf(c) : fp[f] = EXCLUDED
    /\ c \in s.onlySeed <=> Highest(fp, c) = ONLY_SEED
    /\ Base(s.prio[c]) = Highest(fp, c)
    /\ c \in s.onDisk => c \in s.bitset
    /\ c \in s.cur => c \notin s.bitset /\ c \notin s.excluded

Offered(s, c) == s.phase # "loading" /\ c \in s.todo => c \in s.sel

\* Before the torrent is up nothing has been downloaded.
NotUp == cm.phase # "up" => cm.bitset = {} /\ cm.onDisk = {} /\ cm.cur = {} /\ ~running

\* While priorities are loaded, the files still to come have the default.
Loading ==
    cm.phase = "loading" =>
        \A g \in File : fprio[g] = IF g < pos THEN savedPrio[g] ELSE NORMAL

\* A chunk that is had but not on disk (its index entry could not be written)
\* is not among the downloads that start will resume.
Stopped == ~running => cm.cur = {} /\ savedCur \cap (cm.bitset \ cm.onDisk) = {}

Inductive ==
    /\ TypeOK
    /\ \A c \in Chunk : Consistent(cm, fprio, c) /\ Offered(cm, c)
    /\ NotUp
    /\ Loading
    /\ Stopped
    /\ OnDiskIndexed
    /\ PrioritiesSurvive
=============================================================================
