------------------------ MODULE MC_ChunkManagerLive ------------------------
(***************************************************************************)
(* Whatever the user and the disk do to the bookkeeping, the download is    *)
(* completed once they leave it alone.  The number of disturbances is       *)
(* bounded by MaxDisturb; the rest are steps the program takes by itself as *)
(* long as the torrent is started and peers deliver.                        *)
(***************************************************************************)
EXTENDS MC_ChunkManager

CONSTANT MaxDisturb

VARIABLE disturbed

Disturb ==
    \/ \E f \in File, p \in UserPriority : SetPriority(f, p)
    \/ Restart \/ Stop
    \/ \E c \in Chunk : IndexError(c) \/ HashBad(c)
    \/ \E ok \in SUBSET Chunk : DataChecked(Chunk, ok)
    \/ \E P \in SUBSET File : MarkExistingFiles(P)
    \/ \E M \in SUBSET File : RecreateMissingFiles(M)
    \/ \E f \in File : DndMissingFile(f)

SetUp == CreateFiles \/ CreateFilesStep \/ CreateFilesDone
         \/ LoadPriorityInfo \/ LoadIndexFile \/ Start

SelectChunk(c) == \E passed \in SUBSET Dead(cm) : Select(c, passed)

LiveInit == Init /\ disturbed = 0

LiveNext ==
    \/ /\ disturbed < MaxDisturb
       /\ Disturb
       /\ disturbed' = disturbed + 1
    \/ /\ \/ SetUp \/ SelectNothing \/ QueryChunksLeft
          \/ \E c \in Chunk : SelectChunk(c) \/ HashOk(c)
       /\ UNCHANGED disturbed

(***************************************************************************)
(* Start-up runs by itself; Downloader::update calls the selector again and *)
(* again for peers that have every chunk, and their pieces arrive.          *)
(***************************************************************************)
LiveSpec ==
    /\ LiveInit
    /\ [][LiveNext]_<<vars, disturbed>>
    /\ WF_<<vars, disturbed>>(SetUp /\ UNCHANGED disturbed)
    /\ \A c \in Chunk : /\ WF_<<vars, disturbed>>(SelectChunk(c) /\ UNCHANGED disturbed)
                        /\ WF_<<vars, disturbed>>(HashOk(c) /\ UNCHANGED disturbed)

\* In the end nothing is left to download: no sequence of priority changes,
\* restarts, failed hashes, failed index writes and data checks leaves a
\* chunk that is wanted but that the selector has forgotten.
EventuallyComplete == <>[](cm.todo = {})
=============================================================================
