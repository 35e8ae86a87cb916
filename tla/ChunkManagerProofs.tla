------------------------- MODULE ChunkManagerProofs -------------------------
(***************************************************************************)
(* Proofs about the chunk bookkeeping, for every torrent layout that        *)
(* satisfies the assumptions of ChunkManager.                               *)
(***************************************************************************)
EXTENDS ChunkManagerProps, FiniteSetTheorems, TLAPS

FPrio == [File -> FilePriority]

USE DEF EXCLUDED, ONLY_SEED, LAST, NORMAL, FIRST

\* Chunk priorities: what prioritise and prioritisePreview store are
\* priorities, and the preview flag maps priorities to priorities.
LEMMA PriorityTypes ==
    /\ FilePriority \subseteq ChunkPriority
    /\ \A p \in ChunkPriority : Preview(p) \in ChunkPriority
    /\ EXCLUDED \in FilePriority /\ NORMAL \in FilePriority
    /\ \A p \in FilePriority : p \in Int
BY DEF FilePriority, ChunkPriority, Preview, Previewable

\* The loop of setBorderChunkPriority finds the highest priority of the files
\* of a chunk.
LEMMA HighestIsMax ==
    ASSUME NEW fp \in FPrio, NEW c \in Chunk
    PROVE  /\ Highest(fp, c) \in FilePriority
           /\ \A f \in FilesOf(c) : fp[f] <= Highest(fp, c)
           /\ \E f \in FilesOf(c) : fp[f] = Highest(fp, c)
<1> DEFINE T == {fp[f] : f \in FilesOf(c)}
<1>1. FilesOf(c) \subseteq File /\ FilesOf(c) # {}
  BY LayoutAssumption DEF FilesOf
<1>2. T \subseteq FilePriority /\ T # {}
  BY <1>1 DEF FPrio
<1>3. \E p \in T : \A q \in T : q <= p
  <2>1. CASE 50 \in T
    BY <2>1, <1>2 DEF FilePriority
  <2>2. CASE 50 \notin T /\ 40 \in T
    BY <2>2, <1>2 DEF FilePriority
  <2>3. CASE 50 \notin T /\ 40 \notin T /\ 30 \in T
    BY <2>3, <1>2 DEF FilePriority
  <2>4. CASE 50 \notin T /\ 40 \notin T /\ 30 \notin T
    BY <2>4, <1>2 DEF FilePriority
  <2> QED BY <2>1, <2>2, <2>3, <2>4
<1>4. \E p \in T : \A f \in FilesOf(c) : fp[f] <= p
  BY <1>3
<1>5. Highest(fp, c) \in T /\ \A f \in FilesOf(c) : fp[f] <= Highest(fp, c)
  BY <1>4 DEF Highest
<1> QED BY <1>2, <1>5

-----------------------------------------------------------------------------
(***************************************************************************)
(* Each operation maps sessions to sessions.                                *)
(***************************************************************************)
LEMMA ResetChunkType ==
    ASSUME NEW s \in SessionType, NEW S \in SUBSET Chunk
    PROVE  ResetChunk(s, S) \in SessionType
BY DEF ResetChunk, SessionType

\* onExcluded of the Downloader and the selector leaves a session behind.
LEMMA OnExcludedType ==
    ASSUME NEW s \in SessionType, NEW S \in SUBSET Chunk
    PROVE  OnExcluded(s, S) \in SessionType
<1>1. [s EXCEPT !.cur = s.cur \ S] \in SessionType
  BY DEF SessionType
<1>2. s.cur \cap S \in SUBSET Chunk
  OBVIOUS
<1> QED BY <1>1, <1>2, ResetChunkType DEF OnExcluded

\* So does onIncluded.
LEMMA OnIncludedType ==
    ASSUME NEW s \in SessionType, NEW S \in SUBSET Chunk
    PROVE  OnIncluded(s, S) \in SessionType
BY DEF OnIncluded, SessionType

\* prioritise keeps the type of the session it is given.
LEMMA PrioritiseType ==
    ASSUME NEW s \in SessionType, NEW S \in SUBSET Chunk, NEW p \in ChunkPriority
    PROVE  Prioritise(s, S, p) \in SessionType
BY DEF Prioritise, SessionType

\* prioritisePreview keeps the type of the session.
LEMMA PrioritisePreviewType ==
    ASSUME NEW s \in SessionType, NEW S \in SUBSET Chunk
    PROVE  PrioritisePreview(s, S) \in SessionType
BY PriorityTypes DEF PrioritisePreview, SessionType

\* exclude keeps the type of the session.
LEMMA ExcludeType ==
    ASSUME NEW s \in SessionType, NEW S \in SUBSET Chunk
    PROVE  Exclude(s, S) \in SessionType
<1> DEFINE t == [s EXCEPT
        !.prio = [c \in Chunk |-> IF c \in S THEN EXCLUDED ELSE s.prio[c]],
        !.excluded = s.excluded \cup S,
        !.onlySeed = s.onlySeed \ S,
        !.todo = s.todo \ S,
        !.bitset = s.bitset \ S,
        !.recalc = TRUE]
<1>1. t \in SessionType
  BY PriorityTypes DEF SessionType
<1> QED BY <1>1, OnExcludedType DEF Exclude

\* include keeps the type of the session.
LEMMA IncludeType ==
    ASSUME NEW s \in SessionType, NEW S \in SUBSET Chunk
    PROVE  Include(s, S) \in SessionType
<1> DEFINE t == [s EXCEPT
        !.prio = [c \in Chunk |-> IF c \in S THEN NORMAL ELSE s.prio[c]],
        !.excluded = s.excluded \ S,
        !.todo = s.todo \cup (S \ s.bitset),
        !.recalc = TRUE]
<1>1. t \in SessionType
  BY PriorityTypes DEF SessionType
<1> QED BY <1>1, OnIncludedType DEF Include

\* The preview chunks of a file are chunks of the torrent.
LEMMA PreviewRangeType ==
    ASSUME NEW f \in File
    PROVE  /\ PreviewRange(f) \in SUBSET Chunk
           /\ ChunksOf(f) \in SUBSET Chunk
           /\ First[f] \in Chunk /\ Last[f] \in Chunk
           /\ First[f] \in Int /\ Last[f] \in Int
BY SizeAssumption, LayoutAssumption DEF PreviewRange, ChunksOf, Chunk

\* doPreviewPriority keeps the type of the session.
LEMMA DoPreviewPriorityType ==
    ASSUME NEW s \in SessionType, NEW fp, NEW f \in File
    PROVE  DoPreviewPriority(s, fp, f) \in SessionType
BY PrioritisePreviewType, PreviewRangeType DEF DoPreviewPriority

\* setBorderChunkPriority keeps the type of the session.
LEMMA SetBorderChunkPriorityType ==
    ASSUME NEW s \in SessionType, NEW fp \in FPrio, NEW c \in Chunk
    PROVE  SetBorderChunkPriority(s, fp, c) \in SessionType
<1>1. Highest(fp, c) \in ChunkPriority
  BY HighestIsMax, PriorityTypes
<1>2. Prioritise(s, {c}, Highest(fp, c)) \in SessionType
  BY <1>1, PrioritiseType
<1> QED BY <1>2, OnExcludedType DEF SetBorderChunkPriority

\* Giving a file's own chunks a priority keeps the type of the session.
LEMMA PrioritiseOwnType ==
    ASSUME NEW s \in SessionType, NEW S \in SUBSET Chunk, NEW p \in ChunkPriority
    PROVE  PrioritiseOwn(s, S, p) \in SessionType
BY PrioritiseType, OnExcludedType DEF PrioritiseOwn

\* resetBorderChunk at an edge of a file keeps the type of the session.
LEMMA ResetEdgeType ==
    ASSUME NEW s \in SessionType, NEW fp \in FPrio, NEW c \in Chunk, NEW f
    PROVE  ResetEdge(s, fp, c, f) \in SessionType
BY SetBorderChunkPriorityType, ResetChunkType DEF ResetEdge

\* downloadStatusChanged(tf, false) keeps the type: the range it shrinks stays inside the torrent.
LEMMA DontDownloadType ==
    ASSUME NEW s \in SessionType, NEW fp \in FPrio, NEW f \in File
    PROVE  DontDownload(s, fp, f) \in SessionType
<1> DEFINE a == First[f]
           b == Last[f]
           keepA == a \in Border /\ Needed(fp, a, f)
           keepB == b \in Border /\ Needed(fp, b, f)
           first == IF keepA THEN a + 1 ELSE a
           r == ResetChunk(s, (a + 1) .. (b - 1))
           s1 == ResetEdge(r, fp, a, f)
           s2 == IF b # first THEN ResetEdge(s1, fp, b, f) ELSE s1
           last == IF b # first /\ keepB THEN b - 1 ELSE b
           e == ResetEdge(s, fp, a, f)
<1>1. a \in Chunk /\ b \in Chunk /\ a \in Int /\ b \in Int
  BY PreviewRangeType
<1>2. (a + 1) .. (b - 1) \in SUBSET Chunk /\ first .. last \in SUBSET Chunk
  BY <1>1, SizeAssumption DEF Chunk
<1>3. r \in SessionType
  BY <1>2, ResetChunkType
<1>4. s1 \in SessionType /\ e \in SessionType
  BY <1>1, <1>3, ResetEdgeType
<1>5. s2 \in SessionType
  BY <1>1, <1>4, ResetEdgeType
<1>6. Exclude(e, {a}) \in SessionType /\ Exclude(s2, first .. last) \in SessionType
  BY <1>1, <1>2, <1>4, <1>5, ExcludeType
<1> HIDE DEF r, s1, s2, e, first, last, keepA, keepB
<1>7. DontDownload(s, fp, f) = IF a = b THEN IF keepA THEN e ELSE Exclude(e, {a})
                               ELSE IF first <= last THEN Exclude(s2, first .. last) ELSE s2
  BY DEF DontDownload, r, s1, s2, e, first, last, keepA, keepB
<1> QED BY <1>4, <1>5, <1>6, <1>7

\* downloadStatusChanged(tf, true) keeps the type of the session.
LEMMA DoDownloadType ==
    ASSUME NEW s \in SessionType, NEW fp, NEW f \in File
    PROVE  DoDownload(s, fp, f) \in SessionType
BY IncludeType, DoPreviewPriorityType, PreviewRangeType DEF DoDownload

\* downloadPriorityChanged keeps the type of the session.
LEMMA DownloadPriorityChangedType ==
    ASSUME NEW s \in SessionType, NEW fp \in FPrio, NEW f \in File, NEW old
    PROVE  DownloadPriorityChanged(s, fp, f, old) \in SessionType
<1> DEFINE new == fp[f]
           a == First[f]
           b == Last[f]
           s1 == IF old = EXCLUDED THEN DoDownload(s, fp, f) ELSE s
           s2 == IF old = ONLY_SEED THEN Include(s1, ChunksOf(f)) ELSE s1
           one == IF a \in Border THEN SetBorderChunkPriority(s2, fp, a)
                  ELSE Prioritise(s2, {a}, new)
           s3 == IF a \in Border THEN SetBorderChunkPriority(s2, fp, a) ELSE s2
           s4 == IF b \in Border THEN SetBorderChunkPriority(s3, fp, b) ELSE s3
           s5 == IF a = b
                 THEN IF new = ONLY_SEED THEN OnExcluded(one, {a}) ELSE one
                 ELSE PrioritiseOwn(s4, ChunksOf(f) \ Border, new)
<1>1. a \in Chunk /\ b \in Chunk /\ ChunksOf(f) \in SUBSET Chunk
  BY PreviewRangeType
<1>2. new \in ChunkPriority
  BY PriorityTypes DEF FPrio
<1>3. s1 \in SessionType
  BY DoDownloadType
<1>4. s2 \in SessionType
  BY <1>1, <1>3, IncludeType
<1>5. one \in SessionType
  BY <1>1, <1>2, <1>4, SetBorderChunkPriorityType, PrioritiseType
<1>6. s3 \in SessionType
  BY <1>1, <1>4, SetBorderChunkPriorityType
<1>7. s4 \in SessionType
  BY <1>1, <1>6, SetBorderChunkPriorityType
<1>8. s5 \in SessionType
  BY <1>1, <1>2, <1>5, <1>7, OnExcludedType, PrioritiseOwnType
<1> HIDE DEF s1, s2, one, s3, s4, s5
<1>9. DownloadPriorityChanged(s, fp, f, old) =
         IF new = EXCLUDED THEN DontDownload(s, fp, f) ELSE DoPreviewPriority(s5, fp, f)
  BY DEF DownloadPriorityChanged, s1, s2, one, s3, s4, s5
<1> QED BY <1>8, <1>9, DontDownloadType, DoPreviewPriorityType

\* Assigning one file a priority gives a function of priorities again.
LEMMA SetToType ==
    ASSUME NEW fp \in FPrio, NEW f \in File, NEW p \in FilePriority
    PROVE  SetTo(fp, f, p) \in FPrio
BY DEF SetTo, FPrio

\* TorrentFile::setPriority, with all it calls, keeps the type of the session.
LEMMA PriorityChangeType ==
    ASSUME NEW s \in SessionType, NEW fp \in FPrio, NEW f \in File,
           NEW p \in FilePriority
    PROVE  PriorityChange(s, fp, f, p) \in SessionType
<1> DEFINE fp1 == SetTo(fp, f, NORMAL)
           s1 == DownloadPriorityChanged(s, fp1, f, EXCLUDED)
<1>1. fp1 \in FPrio /\ SetTo(fp1, f, p) \in FPrio /\ SetTo(fp, f, p) \in FPrio
  BY SetToType, PriorityTypes
<1>2. s1 \in SessionType
  BY <1>1, DownloadPriorityChangedType
<1> HIDE DEF fp1, s1
<1>3. PriorityChange(s, fp, f, p) =
         IF fp[f] = EXCLUDED THEN DownloadPriorityChanged(s1, SetTo(fp1, f, p), f, NORMAL)
         ELSE DownloadPriorityChanged(s, SetTo(fp, f, p), f, fp[f])
  BY DEF PriorityChange, fp1, s1
<1> QED BY <1>1, <1>2, <1>3, DownloadPriorityChangedType

\* chunksLeft, which refreshes the cached number, keeps the type of the session.
LEMMA RecalculateType ==
    ASSUME NEW s \in SessionType
    PROVE  Recalculate(s) \in SessionType
<1> DEFINE L == {c \in Chunk \ s.bitset : s.prio[c] # EXCLUDED}
<1>1. IsFiniteSet(Chunk)
  BY FS_Interval, SizeAssumption DEF Chunk
<1>2. IsFiniteSet(L)
  BY <1>1, FS_Subset
<1>3. ChunksLeft(s) \in Nat
  BY <1>2, FS_CardinalityType DEF ChunksLeft
<1> QED BY <1>3 DEF Recalculate, SessionType

\* dataChecked of the selector keeps the type of the session.
LEMMA SelectorCheckedType ==
    ASSUME NEW s \in SessionType, NEW S \in SUBSET Chunk, NEW ok
    PROVE  SelectorChecked(s, S, ok) \in SessionType
BY DEF SelectorChecked, SessionType

\* The record made of the variables is a session.
LEMMA SessionIsSession ==
    ASSUME NEW ph \in {"new", "loading"}
    PROVE  Session(ph) \in SessionType
<1> DEFINE pr == [c \in Chunk |-> IF \E f \in Multimedia : c \in PreviewRange(f)
                                  THEN Preview(NORMAL) ELSE NORMAL]
<1>1. pr \in [Chunk -> ChunkPriority]
  BY PriorityTypes
<1> HIDE DEF pr
<1>2. Session(ph) =
       [phase |-> ph, bitset |-> {}, todo |-> Chunk, excluded |-> {}, onlySeed |-> {},
        onDisk |-> {}, recalc |-> TRUE, left |-> 0, cur |-> {},
        sel |-> IF ph = "loading" THEN {} ELSE Chunk, prio |-> pr]
  BY DEF Session, pr
<1> QED BY <1>1, <1>2 DEF SessionType

-----------------------------------------------------------------------------
\* The values a start begins with have their types.
LEMMA StartTypes == AllNormal \in FPrio /\ 1 \in 1 .. NumFiles + 1
BY SizeAssumption, PriorityTypes DEF AllNormal, FPrio

\* Init establishes the type invariant.
LEMMA InitType == Init => TypeOK
<1> SUFFICES ASSUME Init PROVE TypeOK
  OBVIOUS
<1>1. cm \in SessionType
  BY SessionIsSession DEF Init
<1> QED BY <1>1, StartTypes DEF Init, TypeOK, FPrio

\* Every action keeps the type invariant.
LEMMA NextType == TypeOK /\ [Next]_vars => TypeOK'
<1> SUFFICES ASSUME TypeOK, [Next]_vars PROVE TypeOK'
  OBVIOUS
<1>0. /\ cm \in SessionType /\ fprio \in FPrio /\ oldPrio \in FPrio
      /\ savedPrio \in FPrio /\ NumFiles \in Nat /\ AllNormal \in FPrio
  BY SizeAssumption, StartTypes DEF TypeOK, FPrio
<1>1. ASSUME NEW f \in File, NEW p \in UserPriority, SetPriority(f, p)
      PROVE  TypeOK'
  <2>1. p \in FilePriority
    BY SizeAssumption
  <2>2. cm' \in SessionType
    BY <1>0, <1>1, <2>1, PriorityChangeType DEF SetPriority
  <2>3. fprio' \in FPrio /\ oldPrio' \in FPrio
    BY <1>0, <1>1, <2>1, SetToType, PriorityTypes DEF SetPriority, FPrio
  <2> QED BY <1>1, <2>2, <2>3 DEF SetPriority, TypeOK, FPrio
<1>2. CASE CreateFiles
  <2>1. cm' \in SessionType
    BY <1>0, <1>2 DEF CreateFiles, SessionType
  <2> QED BY <1>0, <1>2, <2>1 DEF CreateFiles, TypeOK
<1>3. CASE CreateFilesStep
  <2>1. cm' \in SessionType
    BY <1>0, <1>3, DownloadPriorityChangedType DEF CreateFilesStep
  <2> QED BY <1>0, <1>3, <2>1 DEF CreateFilesStep, TypeOK, File
<1>4. CASE CreateFilesDone
  <2>1. cm' \in SessionType
    BY <1>0, <1>4 DEF CreateFilesDone, SessionType
  <2> QED BY <1>0, <1>4, <2>1 DEF CreateFilesDone, TypeOK, FPrio
<1>5. CASE Restart
  <2>1. cm' \in SessionType
    BY <1>5, SessionIsSession DEF Restart
  <2> QED BY <1>5, <2>1, StartTypes DEF Restart, TypeOK, FPrio
<1>6. CASE LoadPriorityInfo
  <2>1. pos \in File /\ savedPrio[pos] \in FilePriority
    BY <1>0, <1>6 DEF LoadPriorityInfo, FPrio
  <2>2. cm' \in SessionType
    BY <1>0, <1>6, <2>1, PriorityChangeType DEF LoadPriorityInfo
  <2>3. fprio' \in FPrio
    BY <1>0, <1>6, <2>1, SetToType DEF LoadPriorityInfo
  <2> QED BY <1>0, <1>6, <2>2, <2>3 DEF LoadPriorityInfo, TypeOK, File, FPrio
<1>7. CASE LoadIndexFile
  <2>1. cm' \in SessionType
    BY <1>0, <1>7 DEF LoadIndexFile, SessionType, TypeOK
  <2> QED BY <1>7, <2>1 DEF LoadIndexFile, TypeOK
<1>8. CASE Start
  <2>1. cm' \in SessionType
    BY <1>0, <1>8 DEF Start, SessionType, TypeOK
  <2> QED BY <1>8, <2>1 DEF Start, TypeOK
<1>9. CASE Stop
  <2>1. cm' \in SessionType /\ cm.cur \in SUBSET Chunk
    BY <1>0, <1>9 DEF Stop, SessionType
  <2> QED BY <1>9, <2>1 DEF Stop, TypeOK
<1>10. ASSUME NEW c \in Chunk, NEW passed \in SUBSET Dead(cm), Select(c, passed)
       PROVE  TypeOK'
  <2>1. cm' \in SessionType
    BY <1>0, <1>10 DEF Select, SessionType
  <2> QED BY <1>10, <2>1 DEF Select, TypeOK
<1>11. CASE SelectNothing
  <2>1. cm' \in SessionType
    BY <1>0, <1>11 DEF SelectNothing, SessionType
  <2> QED BY <1>11, <2>1 DEF SelectNothing, TypeOK
<1>12. ASSUME NEW c \in Chunk, HashOk(c) PROVE TypeOK'
  <2>1. ChunkDownloaded(cm, c) \in SessionType
    BY <1>0 DEF ChunkDownloaded, SessionType
  <2>2. [ChunkDownloaded(cm, c) EXCEPT !.cur = cm.cur \ {c}] \in SessionType
    BY <1>0, <2>1 DEF SessionType
  <2> QED BY <1>12, <2>2 DEF HashOk, TypeOK
<1>13. ASSUME NEW c \in Chunk, IndexError(c) PROVE TypeOK'
  <2>1. cm' \in SessionType
    BY <1>0, <1>13 DEF IndexError, SessionType
  <2> QED BY <1>13, <2>1 DEF IndexError, TypeOK
<1>14. ASSUME NEW c \in Chunk, HashBad(c) PROVE TypeOK'
  <2> DEFINE r == ResetChunk(cm, {c})
  <2>1. r \in SessionType
    BY <1>0, ResetChunkType
  <2> HIDE DEF r
  <2>2. [r EXCEPT !.sel = r.sel \cup {c}, !.cur = r.cur \ {c}] \in SessionType
    BY <2>1 DEF SessionType
  <2>3. cm' \in SessionType
    BY <1>14, <2>2 DEF HashBad, r
  <2> QED BY <1>14, <2>3 DEF HashBad, TypeOK
<1>15. CASE QueryChunksLeft
  BY <1>0, <1>15, RecalculateType DEF QueryChunksLeft, TypeOK
<1>16. ASSUME NEW S \in SUBSET Chunk, NEW ok \in SUBSET S, DataChecked(S, ok)
       PROVE  TypeOK'
  <2> DEFINE found == (S \cap ok) \ cm.bitset
             lost == (S \ ok) \cap cm.bitset
             wanted == lost \ (cm.onlySeed \cup cm.excluded)
             sc == SelectorChecked(cm, S, ok)
             checked == [sc EXCEPT
                           !.bitset = (cm.bitset \cup found) \ lost,
                           !.todo = (cm.todo \ (found \cup lost)) \cup wanted,
                           !.onDisk = (cm.onDisk \cup found) \ lost,
                           !.recalc = TRUE]
  <2>1. sc \in SessionType
    BY <1>0, SelectorCheckedType
  <2>2. /\ (cm.bitset \cup found) \ lost \in SUBSET Chunk
        /\ (cm.todo \ (found \cup lost)) \cup wanted \in SUBSET Chunk
        /\ (cm.onDisk \cup found) \ lost \in SUBSET Chunk
    BY <1>0 DEF SessionType
  <2>3. checked \in SessionType
    <3> HIDE DEF found, lost, wanted, sc
    <3> QED BY <2>1, <2>2 DEF SessionType
  <2>4. cm' = Recalculate(checked) /\ index' = checked.onDisk
    BY <1>16 DEF DataChecked
  <2> HIDE DEF checked
  <2>5. cm' \in SessionType /\ index' \in SUBSET Chunk
    BY <2>3, <2>4, RecalculateType DEF SessionType
  <2> QED BY <1>16, <2>5 DEF DataChecked, TypeOK
<1>17. ASSUME NEW P \in SUBSET File, MarkExistingFiles(P) PROVE TypeOK'
  <2> DEFINE marked == [cm EXCEPT !.bitset = cm.bitset \cup Marked(P),
                                  !.todo = cm.todo \ Marked(P),
                                  !.onDisk = cm.onDisk \cup Marked(P),
                                  !.recalc = TRUE]
  <2>1. Marked(P) \in SUBSET Chunk
    BY DEF Marked
  <2>2. marked \in SessionType
    BY <1>0, <2>1 DEF SessionType
  <2>3. cm' = Recalculate(marked) /\ index' = marked.onDisk
    BY <1>17 DEF MarkExistingFiles
  <2> HIDE DEF marked
  <2>4. cm' \in SessionType /\ index' \in SUBSET Chunk
    BY <2>2, <2>3, RecalculateType DEF SessionType
  <2> QED BY <1>17, <2>1, <2>4 DEF MarkExistingFiles, TypeOK
<1>18. ASSUME NEW M \in SUBSET File, RecreateMissingFiles(M) PROVE TypeOK'
  <2> DEFINE r == ResetChunk(cm, Recreated(M))
             reset == [r EXCEPT !.recalc = TRUE]
  <2>1. Recreated(M) \in SUBSET Chunk
    BY PreviewRangeType DEF Recreated
  <2>2. r \in SessionType
    BY <1>0, <2>1, ResetChunkType
  <2>3. reset \in SessionType
    <3> HIDE DEF r
    <3> QED BY <2>2 DEF SessionType
  <2>4. cm' = SelectorChecked(Recalculate(reset), Chunk, reset.bitset) /\ index' = reset.onDisk
    BY <1>18 DEF RecreateMissingFiles
  <2> HIDE DEF reset
  <2>5. cm' \in SessionType /\ index' \in SUBSET Chunk
    BY <2>3, <2>4, RecalculateType, SelectorCheckedType DEF SessionType
  <2> QED BY <1>18, <2>5 DEF RecreateMissingFiles, TypeOK
<1>19. ASSUME NEW f \in File, DndMissingFile(f) PROVE TypeOK'
  <2> DEFINE fp == SetTo(fprio, f, EXCLUDED)
             s1 == ResetChunk(cm, ChunksOf(f))
             t == DownloadPriorityChanged(s1, fp, f, fprio[f])
             s2 == [t EXCEPT !.recalc = TRUE]
  <2>1. fp \in FPrio
    BY <1>0, SetToType, PriorityTypes
  <2>2. s1 \in SessionType
    BY <1>0, ResetChunkType, PreviewRangeType
  <2>3. t \in SessionType
    BY <2>1, <2>2, DownloadPriorityChangedType
  <2>4. s2 \in SessionType
    <3> HIDE DEF t
    <3> QED BY <2>3 DEF SessionType
  <2>5. /\ cm' = SelectorChecked(Recalculate(s2), Chunk, s2.bitset) /\ index' = s2.onDisk
        /\ fprio' = fp /\ savedPrio' = fp
    BY <1>19 DEF DndMissingFile
  <2> HIDE DEF s2, fp
  <2>6. cm' \in SessionType /\ index' \in SUBSET Chunk
    BY <2>4, <2>5, RecalculateType, SelectorCheckedType DEF SessionType
  <2> QED BY <1>19, <2>1, <2>5, <2>6 DEF DndMissingFile, TypeOK, FPrio
<1>20. CASE UNCHANGED vars
  BY <1>20 DEF vars, TypeOK
<1>21. \A a, b \in Chunk : a .. b \in SUBSET Chunk
  BY SizeAssumption DEF Chunk
<1> QED BY <1>1, <1>2, <1>3, <1>4, <1>5, <1>6, <1>7, <1>8, <1>9, <1>10, <1>11, <1>12,
           <1>13, <1>14, <1>15, <1>16, <1>17, <1>18, <1>19, <1>20, <1>21 DEF Next

\* Every part of the bookkeeping keeps its type, whatever the layout of the
\* torrent: no handler stores a chunk that is not one of the torrent, and what
\* setBorderChunkPriority stores is the priority of one of the files.
THEOREM TypeCorrect == Spec => []TypeOK
BY InitType, NextType, PTL DEF Spec

-----------------------------------------------------------------------------
(***************************************************************************)
(* The bookkeeping is consistent, for every layout of files in which no    *)
(* file of two chunks starts in a shared chunk.                            *)
(*                                                                         *)
(* The argument is made chunk by chunk.  A view says what an operation that *)
(* leads from session s to session t does to chunk c; the views of the      *)
(* operations are proved first and composed afterwards.  Priorities are     *)
(* compared without their preview flag.                                     *)
(***************************************************************************)

\* nothing happens to c
Same(s, t, c) ==
    /\ t.phase = s.phase
    /\ c \in t.bitset <=> c \in s.bitset
    /\ c \in t.onDisk <=> c \in s.onDisk
    /\ c \in t.todo <=> c \in s.todo
    /\ c \in t.excluded <=> c \in s.excluded
    /\ c \in t.onlySeed <=> c \in s.onlySeed
    /\ c \in t.sel <=> c \in s.sel
    /\ c \in t.cur <=> c \in s.cur
    /\ Base(t.prio[c]) = Base(s.prio[c])

\* c is reset (resetChunk)
Reset(s, t, c) ==
    /\ t.phase = s.phase
    /\ c \in t.bitset <=> c \in s.bitset /\ DuringLoad(s)
    /\ c \in t.onDisk <=> c \in s.onDisk /\ DuringLoad(s)
    /\ c \in t.todo <=> IF DuringLoad(s) THEN c \in s.todo
                        ELSE c \notin s.excluded /\ c \notin s.onlySeed
    /\ c \in t.excluded <=> c \in s.excluded
    /\ c \in t.onlySeed <=> c \in s.onlySeed
    /\ c \in t.sel <=> c \in s.sel
    /\ c \in t.cur <=> c \in s.cur
    /\ Base(t.prio[c]) = Base(s.prio[c])

\* the Downloader hears that c is excluded: it drops and resets a download
Dropped(s, t, c) ==
    LET r == c \in s.cur /\ ~DuringLoad(s)
    IN  /\ t.phase = s.phase
        /\ c \in t.bitset <=> c \in s.bitset /\ ~r
        /\ c \in t.onDisk <=> c \in s.onDisk /\ ~r
        /\ c \in t.todo <=> IF r THEN c \notin s.excluded /\ c \notin s.onlySeed
                            ELSE c \in s.todo
        /\ c \in t.excluded <=> c \in s.excluded
        /\ c \in t.onlySeed <=> c \in s.onlySeed
        /\ c \in t.sel <=> c \in s.sel
        /\ c \in t.cur => s.phase = "loading" /\ c \in s.cur
        /\ Base(t.prio[c]) = Base(s.prio[c])

\* c is excluded, and was reset before unless something is being loaded
Out(s, t, c) ==
    /\ t.phase = s.phase
    /\ c \notin t.bitset
    /\ c \in t.onDisk => c \in s.onDisk /\ DuringLoad(s)
    /\ c \notin t.todo
    /\ c \in t.excluded
    /\ c \notin t.onlySeed
    /\ c \in t.sel <=> c \in s.sel
    /\ c \in t.cur => s.phase = "loading" /\ c \in s.cur
    /\ Base(t.prio[c]) = EXCLUDED

\* c, which is not excluded, gets priority p; its download may be dropped
Prio(s, t, c, p) ==
    /\ t.phase = s.phase
    /\ c \in t.bitset => c \in s.bitset
    /\ c \in s.bitset /\ c \notin s.cur => c \in t.bitset
    /\ c \in t.onDisk => c \in s.onDisk
    /\ c \in s.onDisk /\ c \in t.bitset => c \in t.onDisk
    /\ c \in t.onDisk /\ c \in s.bitset => c \in t.bitset
    /\ c \in t.todo <=> p # ONLY_SEED /\ c \notin t.bitset
    /\ c \notin t.excluded
    /\ c \in t.onlySeed <=> p = ONLY_SEED
    /\ c \in t.sel <=> c \in s.sel
    /\ c \in t.cur => c \in s.cur
    /\ Base(t.prio[c]) = p

\* c is included; its priority is set afterwards
Mid(s, t, c, included) ==
    /\ t.phase = s.phase
    /\ c \in t.bitset <=> c \in s.bitset
    /\ c \in t.onDisk <=> c \in s.onDisk
    /\ c \in t.excluded <=> c \in s.excluded /\ ~included
    /\ c \in s.sel => c \in t.sel
    /\ included /\ s.phase # "loading" /\ c \notin s.onDisk => c \in t.sel
    /\ c \in t.cur <=> c \in s.cur

-----------------------------------------------------------------------------
\* The preview flag hides no priority: Base takes it off, and excluded and only-seed never carry it.
LEMMA BaseFacts ==
    /\ \A p \in FilePriority : Base(p) = p
    /\ \A p \in ChunkPriority : Base(Preview(p)) = Base(p)
    /\ \A p \in ChunkPriority : Base(p) = EXCLUDED <=> p = EXCLUDED
    /\ \A p \in ChunkPriority : Base(p) = ONLY_SEED <=> p = ONLY_SEED
<1>1. ChunkPriority = {10, 20, 30, 40, 50, 35, 45, 55}
  BY DEF ChunkPriority, FilePriority, Previewable
<1>2. Previewable = {30, 40, 50}
  BY DEF Previewable
<1> QED BY <1>1, <1>2 DEF Base, FilePriority, Preview

\* Same is reflexive.
LEMMA SameRefl == ASSUME NEW s, NEW c PROVE Same(s, s, c)
BY DEF Same

\* Same is transitive.
LEMMA SameTrans ==
    ASSUME NEW s, NEW t, NEW u, NEW c, Same(s, t, c), Same(t, u, c)
    PROVE  Same(s, u, c)
BY DEF Same

\* What resetChunk does to one chunk.
LEMMA ResetChunkView ==
    ASSUME NEW s \in SessionType, NEW S \in SUBSET Chunk, NEW c \in Chunk
    PROVE  IF c \in S THEN Reset(s, ResetChunk(s, S), c) ELSE Same(s, ResetChunk(s, S), c)
BY DEF ResetChunk, Reset, Same, SessionType, DuringLoad

\* What onExcluded does to one chunk.
LEMMA OnExcludedView ==
    ASSUME NEW s \in SessionType, NEW S \in SUBSET Chunk, NEW c \in Chunk
    PROVE  IF c \in S THEN Dropped(s, OnExcluded(s, S), c) ELSE Same(s, OnExcluded(s, S), c)
BY DEF OnExcluded, ResetChunk, Same, Dropped, SessionType, DuringLoad

\* What prioritise does to one chunk: none outside its range changes.
LEMMA PrioritiseView ==
    ASSUME NEW s \in SessionType, NEW S \in SUBSET Chunk, NEW c \in Chunk,
           NEW p \in FilePriority \ {EXCLUDED}
    PROVE  /\ c \notin S => Same(s, Prioritise(s, S, p), c)
           /\ c \in S /\ c \notin s.excluded => Prio(s, Prioritise(s, S, p), c, p)
BY BaseFacts DEF Prioritise, Same, Prio, SessionType, FilePriority

\* dropping the download of c after its priority was set to p
LEMMA PrioDropped ==
    ASSUME NEW s, NEW t, NEW u, NEW c, NEW p, Prio(s, t, c, p), Dropped(t, u, c)
    PROVE  Prio(s, u, c, p)
BY DEF Prio, Dropped

\* Setting the priority of c and doing nothing to it, in either order, is setting its priority.
LEMMA PrioSame ==
    ASSUME NEW s, NEW t, NEW u, NEW c, NEW p,
           \/ Same(s, t, c) /\ Prio(t, u, c, p)
           \/ Prio(s, t, c, p) /\ Same(t, u, c)
    PROVE  Prio(s, u, c, p)
BY DEF Prio, Same

-----------------------------------------------------------------------------
(***************************************************************************)
(* Views of the other operations.                                           *)
(***************************************************************************)
\* c is excluded; it may have been reset before
Excl(s, t, c) ==
    /\ t.phase = s.phase
    /\ c \notin t.bitset
    /\ c \in t.onDisk => c \in s.onDisk
    /\ c \notin t.todo
    /\ c \in t.excluded
    /\ c \notin t.onlySeed
    /\ c \in t.sel <=> c \in s.sel
    /\ c \in t.cur => s.phase = "loading" /\ c \in s.cur
    /\ Base(t.prio[c]) = EXCLUDED

\* What prioritisePreview does to one chunk.
LEMMA PreviewView ==
    ASSUME NEW s \in SessionType, NEW S \in SUBSET Chunk, NEW c \in Chunk
    PROVE  Same(s, PrioritisePreview(s, S), c)
BY BaseFacts DEF PrioritisePreview, Same, SessionType

\* What doPreviewPriority does to one chunk.
LEMMA DoPreviewView ==
    ASSUME NEW s \in SessionType, NEW fp, NEW f \in File, NEW c \in Chunk
    PROVE  Same(s, DoPreviewPriority(s, fp, f), c)
BY PreviewView, SameRefl, PreviewRangeType DEF DoPreviewPriority

\* What exclude does to one chunk, inside and outside the range.
LEMMA ExcludeView ==
    ASSUME NEW s \in SessionType, NEW S \in SUBSET Chunk, NEW c \in Chunk
    PROVE  IF c \in S THEN Excl(s, Exclude(s, S), c) ELSE Same(s, Exclude(s, S), c)
<1> DEFINE t == [s EXCEPT
        !.prio = [d \in Chunk |-> IF d \in S THEN EXCLUDED ELSE s.prio[d]],
        !.excluded = s.excluded \cup S,
        !.onlySeed = s.onlySeed \ S,
        !.todo = s.todo \ S,
        !.bitset = s.bitset \ S,
        !.recalc = TRUE]
<1>1. t \in SessionType
  BY PriorityTypes DEF SessionType
<1>2. /\ t.phase = s.phase /\ t.onDisk = s.onDisk /\ t.sel = s.sel /\ t.cur = s.cur
      /\ c \in t.excluded <=> c \in s.excluded \/ c \in S
      /\ c \in t.onlySeed <=> c \in s.onlySeed /\ c \notin S
      /\ c \in t.todo <=> c \in s.todo /\ c \notin S
      /\ c \in t.bitset <=> c \in s.bitset /\ c \notin S
      /\ t.prio[c] = IF c \in S THEN EXCLUDED ELSE s.prio[c]
  BY DEF SessionType
<1>3. Exclude(s, S) = OnExcluded(t, S)
  BY DEF Exclude
<1>4. Base(EXCLUDED) = EXCLUDED
  BY BaseFacts DEF FilePriority
<1> HIDE DEF t
<1>5. CASE c \in S
  <2>1. Dropped(t, OnExcluded(t, S), c)
    BY <1>1, <1>5, OnExcludedView
  <2> QED BY <2>1, <1>2, <1>3, <1>4, <1>5 DEF Dropped, Excl
<1>6. CASE c \notin S
  <2>1. Same(t, OnExcluded(t, S), c)
    BY <1>1, <1>6, OnExcludedView
  <2> QED BY <2>1, <1>2, <1>3, <1>6 DEF Same
<1> QED BY <1>5, <1>6

\* What include does to one chunk, inside and outside the range.
LEMMA IncludeView ==
    ASSUME NEW s \in SessionType, NEW S \in SUBSET Chunk, NEW c \in Chunk
    PROVE  IF c \in S THEN Mid(s, Include(s, S), c, TRUE) ELSE Same(s, Include(s, S), c)
<1> DEFINE t == [s EXCEPT
        !.prio = [d \in Chunk |-> IF d \in S THEN NORMAL ELSE s.prio[d]],
        !.excluded = s.excluded \ S,
        !.todo = s.todo \cup (S \ s.bitset),
        !.recalc = TRUE]
<1>1. t \in SessionType
  BY PriorityTypes DEF SessionType
<1>2. /\ t.phase = s.phase /\ t.onDisk = s.onDisk /\ t.sel = s.sel /\ t.cur = s.cur
      /\ t.bitset = s.bitset /\ t.onlySeed = s.onlySeed
      /\ c \in t.excluded <=> c \in s.excluded /\ c \notin S
      /\ c \notin S => (c \in t.todo <=> c \in s.todo)
      /\ c \notin S => t.prio[c] = s.prio[c]
  BY DEF SessionType
<1>3. Include(s, S) = OnIncluded(t, S)
  BY DEF Include
<1> HIDE DEF t
<1>4. /\ Include(s, S).phase = t.phase /\ Include(s, S).onDisk = t.onDisk
      /\ Include(s, S).cur = t.cur /\ Include(s, S).bitset = t.bitset
      /\ Include(s, S).onlySeed = t.onlySeed /\ Include(s, S).excluded = t.excluded
      /\ Include(s, S).todo = t.todo /\ Include(s, S).prio = t.prio
      /\ Include(s, S).sel = IF t.phase = "loading" THEN t.sel
                             ELSE t.sel \cup (S \ t.onDisk)
  BY <1>1, <1>3 DEF OnIncluded, SessionType
<1> QED BY <1>2, <1>4 DEF Mid, Same

\* What setBorderChunkPriority does to one chunk.
LEMMA SetBorderView ==
    ASSUME NEW s \in SessionType, NEW fp \in FPrio, NEW d \in Chunk, NEW c \in Chunk,
           Highest(fp, d) # EXCLUDED
    PROVE  /\ c # d => Same(s, SetBorderChunkPriority(s, fp, d), c)
           /\ c = d /\ c \notin s.excluded =>
                 Prio(s, SetBorderChunkPriority(s, fp, d), c, Highest(fp, d))
<1> DEFINE h == Highest(fp, d)
           t == Prioritise(s, {d}, h)
<1>1. h \in FilePriority \ {EXCLUDED} /\ h \in ChunkPriority
  BY HighestIsMax, PriorityTypes
<1>2. t \in SessionType
  BY <1>1, PrioritiseType
<1>3. SetBorderChunkPriority(s, fp, d) = IF h = ONLY_SEED THEN OnExcluded(t, {d}) ELSE t
  BY DEF SetBorderChunkPriority
<1>4. /\ c # d => Same(s, t, c)
      /\ c = d /\ c \notin s.excluded => Prio(s, t, c, h)
  BY <1>1, PrioritiseView
<1>5. IF c = d THEN Dropped(t, OnExcluded(t, {d}), c) ELSE Same(t, OnExcluded(t, {d}), c)
  BY <1>2, OnExcludedView
<1> HIDE DEF t, h
<1>6. c # d => Same(s, SetBorderChunkPriority(s, fp, d), c)
  BY <1>3, <1>4, <1>5, SameTrans
<1>7. c = d /\ c \notin s.excluded => Prio(s, SetBorderChunkPriority(s, fp, d), c, h)
  BY <1>3, <1>4, <1>5, PrioDropped
<1> QED BY <1>6, <1>7 DEF h

\* What giving a file's own chunks a priority does to one chunk.
LEMMA PrioritiseOwnView ==
    ASSUME NEW s \in SessionType, NEW S \in SUBSET Chunk, NEW c \in Chunk,
           NEW p \in FilePriority \ {EXCLUDED}
    PROVE  /\ c \notin S => Same(s, PrioritiseOwn(s, S, p), c)
           /\ c \in S /\ c \notin s.excluded => Prio(s, PrioritiseOwn(s, S, p), c, p)
<1> DEFINE t == Prioritise(s, S, p)
<1>1. t \in SessionType
  BY PrioritiseType, PriorityTypes
<1>2. /\ c \notin S => Same(s, t, c)
      /\ c \in S /\ c \notin s.excluded => Prio(s, t, c, p)
  BY PrioritiseView
<1>3. IF c \in S THEN Dropped(t, OnExcluded(t, S), c) ELSE Same(t, OnExcluded(t, S), c)
  BY <1>1, OnExcludedView
<1>4. PrioritiseOwn(s, S, p) = IF p = ONLY_SEED THEN OnExcluded(t, S) ELSE t
  BY DEF PrioritiseOwn
<1> HIDE DEF t
<1> QED BY <1>2, <1>3, <1>4, SameTrans, PrioDropped

-----------------------------------------------------------------------------
(***************************************************************************)
(* The layout.                                                              *)
(***************************************************************************)
LEMMA SharedIsBorder ==
    ASSUME NEW f \in File, NEW g \in File, f < g, NEW c \in Chunk,
           c \in ChunksOf(f), c \in ChunksOf(g)
    PROVE  c \in Border /\ c = Last[f] /\ c = First[g]
<1>1. /\ First[f] \in Int /\ Last[f] \in Int /\ First[g] \in Int /\ Last[g] \in Int
      /\ c \in Int /\ f \in Int /\ g \in Int
  BY PreviewRangeType, SizeAssumption DEF Chunk, File
<1>2. Last[f] <= First[g]
  BY LayoutAssumption
<1>3. c = Last[f] /\ c = First[g]
  BY <1>1, <1>2 DEF ChunksOf
<1>4. f + 1 \in File /\ f < f + 1
  BY <1>1, SizeAssumption DEF File
<1>5. /\ First[f + 1] \in Int /\ Last[f + 1] \in Int
      /\ Last[f] <= First[f + 1] /\ First[f + 1] <= Last[f + 1]
      /\ f + 1 < g => Last[f + 1] <= First[g]
  BY <1>4, LayoutAssumption, PreviewRangeType
<1>6. First[f + 1] = c
  <2>1. CASE f + 1 = g
    BY <2>1, <1>3
  <2>2. CASE f + 1 < g
    BY <2>2, <1>1, <1>3, <1>5
  <2> QED BY <2>1, <2>2, <1>1
<1> QED BY <1>3, <1>4, <1>6 DEF Border

\* a chunk that is no border chunk lies in one file
LEMMA OwnChunk ==
    ASSUME NEW f \in File, NEW c \in Chunk, c \in ChunksOf(f), c \notin Border
    PROVE  FilesOf(c) = {f}
<1>1. ASSUME NEW g \in FilesOf(c), g # f PROVE FALSE
  <2>1. g \in File /\ c \in ChunksOf(g) /\ (f < g \/ g < f)
    BY <1>1, SizeAssumption DEF FilesOf, File
  <2> QED BY <2>1, SharedIsBorder
<1>2. f \in FilesOf(c)
  BY DEF FilesOf
<1> QED BY <1>1, <1>2

\* a border chunk of a file is its first or its last
LEMMA BorderIsEdge ==
    ASSUME NEW f \in File, NEW c \in Chunk, c \in ChunksOf(f), c \in Border
    PROVE  c = First[f] \/ c = Last[f]
<1>1. PICK g \in File : g + 1 \in File /\ c = Last[g] /\ c = First[g + 1]
  BY DEF Border
<1>2. c \in ChunksOf(g) /\ c \in ChunksOf(g + 1)
  <2>1. \A h \in File : First[h] \in ChunksOf(h) /\ Last[h] \in ChunksOf(h)
    <3> SUFFICES ASSUME NEW h \in File PROVE First[h] \in ChunksOf(h) /\ Last[h] \in ChunksOf(h)
      OBVIOUS
    <3>1. First[h] \in Int /\ Last[h] \in Int /\ First[h] <= Last[h]
      BY PreviewRangeType, LayoutAssumption
    <3> QED BY <3>1 DEF ChunksOf
  <2> QED BY <1>1, <2>1
<1>3. f < g \/ f = g \/ g < f
  BY SizeAssumption DEF File
<1> QED BY <1>1, <1>2, <1>3, SharedIsBorder

\* The highest priority of a chunk outside the changed file does not change.
LEMMA HighestOther ==
    ASSUME NEW fp \in FPrio, NEW f \in File, NEW p \in FilePriority,
           NEW c \in Chunk, c \notin ChunksOf(f)
    PROVE  /\ Highest(SetTo(fp, f, p), c) = Highest(fp, c)
           /\ \A g \in FilesOf(c) : SetTo(fp, f, p)[g] = fp[g]
<1> DEFINE fq == SetTo(fp, f, p)
<1>1. \A g \in FilesOf(c) : fq[g] = fp[g]
  BY DEF FilesOf, SetTo, FPrio
<1>2. fq \in FPrio
  BY SetToType
<1> HIDE DEF fq
<1>3. /\ Highest(fq, c) \in Int /\ Highest(fp, c) \in Int
      /\ Highest(fq, c) <= Highest(fp, c) /\ Highest(fp, c) <= Highest(fq, c)
  BY <1>1, <1>2, HighestIsMax, PriorityTypes
<1> QED BY <1>1, <1>3 DEF fq

\* The highest priority of a chunk that only the changed file has is the file's.
LEMMA HighestOwn ==
    ASSUME NEW fp \in FPrio, NEW f \in File, NEW c \in Chunk, FilesOf(c) = {f}
    PROVE  Highest(fp, c) = fp[f]
BY HighestIsMax

\* The highest priority of a chunk is EXCLUDED exactly when all its files are.
LEMMA HighestExcluded ==
    ASSUME NEW fp \in FPrio, NEW c \in Chunk
    PROVE  Highest(fp, c) = EXCLUDED <=> \A g \in FilesOf(c) : fp[g] = EXCLUDED
<1>1. \A g \in FilesOf(c) : fp[g] \in FilePriority
  BY DEF FilesOf, FPrio
<1> QED BY <1>1, HighestIsMax DEF FilePriority

-----------------------------------------------------------------------------
(***************************************************************************)
(* What a change of the priority of one file does to a chunk.               *)
(***************************************************************************)
\* the chunk is kept because another file needs it
Kept(fp, c, f) == c \in Border /\ Needed(fp, c, f)

\* resetBorderChunk keeps a chunk of an excluded file exactly when another of its files is wanted.
LEMMA KeptFacts ==
    ASSUME NEW fp0 \in FPrio, NEW f \in File, NEW fp \in FPrio,
           fp = SetTo(fp0, f, EXCLUDED), NEW c \in Chunk, c \in ChunksOf(f)
    PROVE  /\ Kept(fp, c, f) =>
                 /\ Highest(fp, c) # EXCLUDED
                 /\ \E g \in FilesOf(c) : fp0[g] # EXCLUDED
           /\ ~Kept(fp, c, f) =>
                 /\ Highest(fp, c) = EXCLUDED
                 /\ \A g \in FilesOf(c) : fp[g] = EXCLUDED
<1>1. fp[f] = EXCLUDED /\ \A g \in File : g # f => fp[g] = fp0[g]
  BY DEF SetTo, FPrio
<1>2. CASE Kept(fp, c, f)
  <2>1. PICK g \in FilesOf(c) \ {f} : fp[g] # EXCLUDED
    BY <1>2 DEF Kept, Needed
  <2> QED BY <1>1, <1>2, <2>1, HighestExcluded DEF FilesOf
<1>3. CASE ~Kept(fp, c, f)
  <2>1. \A g \in FilesOf(c) : fp[g] = EXCLUDED
    <3>1. CASE c \in Border
      BY <1>1, <1>3, <3>1 DEF Kept, Needed
    <3>2. CASE c \notin Border
      BY <1>1, <3>2, OwnChunk
    <3> QED BY <3>1, <3>2
  <2> QED BY <1>3, <2>1, HighestExcluded
<1> QED BY <1>2, <1>3

\* resetChunk followed by exclude takes a chunk out.
LEMMA ResetExcl ==
    ASSUME NEW s, NEW t, NEW u, NEW c, Reset(s, t, c), Excl(t, u, c)
    PROVE  Out(s, u, c)
BY DEF Reset, Excl, Out, DuringLoad

\* what ResetEdge does to a chunk that another file needs, to one that none
\* needs, and to another chunk
LEMMA ResetEdgeView ==
    ASSUME NEW s \in SessionType, NEW fp \in FPrio, NEW d \in Chunk, NEW c \in Chunk,
           NEW f, Kept(fp, d, f) => Highest(fp, d) # EXCLUDED
    PROVE  /\ c # d => Same(s, ResetEdge(s, fp, d, f), c)
           /\ c = d /\ Kept(fp, d, f) /\ c \notin s.excluded =>
                 Prio(s, ResetEdge(s, fp, d, f), c, Highest(fp, c))
           /\ c = d /\ ~Kept(fp, d, f) => Reset(s, ResetEdge(s, fp, d, f), c)
<1>1. ResetEdge(s, fp, d, f) = IF Kept(fp, d, f) THEN SetBorderChunkPriority(s, fp, d)
                               ELSE ResetChunk(s, {d})
  BY DEF ResetEdge, Kept
<1>2. IF c \in {d} THEN Reset(s, ResetChunk(s, {d}), c) ELSE Same(s, ResetChunk(s, {d}), c)
  BY ResetChunkView
<1> QED BY <1>1, <1>2, SetBorderView

\* downloadStatusChanged(tf, false) resets and excludes the chunks of the file
\* that no other file needs, and gives the others the priority of the rest
LEMMA DontDownloadView ==
    ASSUME NoTwoChunkOverlap,
           NEW s \in SessionType, NEW fp0 \in FPrio, NEW f \in File, NEW fp \in FPrio,
           fp = SetTo(fp0, f, EXCLUDED), NEW c \in Chunk
    PROVE  /\ c \notin ChunksOf(f) => Same(s, DontDownload(s, fp, f), c)
           /\ c \in ChunksOf(f) /\ Kept(fp, c, f) /\ c \notin s.excluded =>
                 Prio(s, DontDownload(s, fp, f), c, Highest(fp, c))
           /\ c \in ChunksOf(f) /\ ~Kept(fp, c, f) => Out(s, DontDownload(s, fp, f), c)
<1> DEFINE a == First[f]
           b == Last[f]
           keepA == a \in Border /\ Needed(fp, a, f)
           keepB == b \in Border /\ Needed(fp, b, f)
           first == IF keepA THEN a + 1 ELSE a
           r == ResetChunk(s, (a + 1) .. (b - 1))
           s1 == ResetEdge(r, fp, a, f)
           s2 == ResetEdge(s1, fp, b, f)
           last == IF keepB THEN b - 1 ELSE b
           e == ResetEdge(s, fp, a, f)
<1>1. a \in Chunk /\ b \in Chunk /\ a \in Int /\ b \in Int /\ a <= b /\ c \in Int
  BY PreviewRangeType, LayoutAssumption, SizeAssumption DEF Chunk
<1>2. a \in ChunksOf(f) /\ b \in ChunksOf(f) /\ (c \in ChunksOf(f) <=> a <= c /\ c <= b)
  BY <1>1 DEF ChunksOf
<1>3. /\ Kept(fp, a, f) => Highest(fp, a) # EXCLUDED
      /\ Kept(fp, b, f) => Highest(fp, b) # EXCLUDED
  BY <1>1, <1>2, KeptFacts
<1>4. e \in SessionType
  BY <1>1, ResetEdgeType
<1>5. CASE a = b
  <2>1. DontDownload(s, fp, f) = IF Kept(fp, a, f) THEN e ELSE Exclude(e, {a})
    BY <1>5 DEF DontDownload, Kept
  <2>2. /\ c # a => Same(s, e, c)
        /\ c = a /\ Kept(fp, a, f) /\ c \notin s.excluded => Prio(s, e, c, Highest(fp, c))
        /\ c = a /\ ~Kept(fp, a, f) => Reset(s, e, c)
    BY <1>1, <1>3, ResetEdgeView
  <2> HIDE DEF e
  <2>3. IF c = a THEN Excl(e, Exclude(e, {a}), c) ELSE Same(e, Exclude(e, {a}), c)
    BY <1>1, <1>4, ExcludeView
  <2>4. c \in ChunksOf(f) <=> c = a
    BY <1>1, <1>2, <1>5
  <2> QED BY <2>1, <2>2, <2>3, <2>4, SameTrans, ResetExcl
<1>6. CASE a # b
  <2>0. a < b
    BY <1>1, <1>6
  <2>1. b # first /\ first <= last /\ first \in Int /\ last \in Int
    BY <1>1, <2>0 DEF NoTwoChunkOverlap
  <2>2. DontDownload(s, fp, f) = Exclude(s2, first .. last)
    BY <1>6, <2>1 DEF DontDownload
  <2>3. (a + 1) .. (b - 1) \in SUBSET Chunk /\ first .. last \in SUBSET Chunk
    BY <1>1, SizeAssumption DEF Chunk
  <2>4. r \in SessionType
    BY <2>3, ResetChunkType
  <2>5. s1 \in SessionType
    BY <1>1, <2>4, ResetEdgeType
  <2>6. s2 \in SessionType
    BY <1>1, <2>5, ResetEdgeType
  <2>7. c \in first .. last <=> c \in ChunksOf(f) /\ ~Kept(fp, c, f)
    <3>1. CASE c = a
      BY <3>1, <1>1, <1>2, <2>0 DEF Kept
    <3>2. CASE c = b
      BY <3>2, <1>1, <1>2, <2>0, <2>1 DEF Kept
    <3>3. CASE c # a /\ c # b
      <4>1. c \in ChunksOf(f) => c \notin Border
        BY <3>3, BorderIsEdge
      <4> QED BY <3>3, <4>1, <1>1, <1>2 DEF Kept
    <3> QED BY <3>1, <3>2, <3>3
  <2>8. IF c \in (a + 1) .. (b - 1) THEN Reset(s, r, c) ELSE Same(s, r, c)
    BY <2>3, ResetChunkView
  <2>9. /\ c # a => Same(r, s1, c)
        /\ c = a /\ Kept(fp, a, f) /\ c \notin r.excluded => Prio(r, s1, c, Highest(fp, c))
        /\ c = a /\ ~Kept(fp, a, f) => Reset(r, s1, c)
    BY <1>1, <1>3, <2>4, ResetEdgeView
  <2>10. /\ c # b => Same(s1, s2, c)
         /\ c = b /\ Kept(fp, b, f) /\ c \notin s1.excluded => Prio(s1, s2, c, Highest(fp, c))
         /\ c = b /\ ~Kept(fp, b, f) => Reset(s1, s2, c)
    BY <1>1, <1>3, <2>5, ResetEdgeView
  <2> HIDE DEF r, s1, s2, first, last, a, b
  <2>11. IF c \in first .. last THEN Excl(s2, Exclude(s2, first .. last), c)
         ELSE Same(s2, Exclude(s2, first .. last), c)
    BY <2>3, <2>6, ExcludeView
  <2>12. CASE c \notin ChunksOf(f)
    <3>1. c # a /\ c # b /\ c \notin (a + 1) .. (b - 1)
      BY <2>12, <1>1, <1>2
    <3> QED BY <2>12, <3>1, <2>2, <2>7, <2>8, <2>9, <2>10, <2>11, SameTrans
  <2>13. CASE c \in ChunksOf(f) /\ Kept(fp, c, f) /\ c \notin s.excluded
    <3>1. c = a \/ c = b
      BY <2>13, BorderIsEdge DEF Kept, a, b
    <3>2. c \notin (a + 1) .. (b - 1)
      BY <3>1, <1>1
    <3>3. Same(s, r, c) /\ c \notin r.excluded
      BY <3>2, <2>8, <2>13 DEF Same
    <3>4. Same(s2, Exclude(s2, first .. last), c)
      BY <2>7, <2>11, <2>13
    <3>5. CASE c = a
      <4>1. Prio(r, s1, c, Highest(fp, c)) /\ Same(s1, s2, c)
        BY <3>5, <1>6, <2>9, <2>10, <2>13, <3>3 DEF a, b
      <4> QED BY <4>1, <3>3, <3>4, <2>2, <2>13, PrioSame
    <3>6. CASE c = b
      <4>1. Same(r, s1, c)
        BY <3>6, <1>6, <2>9
      <4>2. c \notin s1.excluded
        BY <4>1, <3>3 DEF Same
      <4>3. Prio(s1, s2, c, Highest(fp, c))
        BY <4>2, <3>6, <2>10, <2>13
      <4> QED BY <4>1, <4>3, <3>3, <3>4, <2>2, <2>13, PrioSame
    <3> QED BY <3>1, <3>5, <3>6
  <2>14. CASE c \in ChunksOf(f) /\ ~Kept(fp, c, f)
    <3>1. Excl(s2, Exclude(s2, first .. last), c)
      BY <2>7, <2>11, <2>14
    <3>2. Reset(s, s2, c)
      <4>1. CASE c = a
        <5>1. c \notin (a + 1) .. (b - 1) /\ c # b
          BY <4>1, <1>1, <1>6
        <5> QED BY <5>1, <4>1, <2>8, <2>9, <2>10, <2>14 DEF Same, Reset, DuringLoad
      <4>2. CASE c = b
        <5>1. c \notin (a + 1) .. (b - 1) /\ c # a
          BY <4>2, <1>1, <1>6
        <5> QED BY <5>1, <4>2, <2>8, <2>9, <2>10, <2>14 DEF Same, Reset, DuringLoad
      <4>3. CASE c # a /\ c # b
        <5>1. c \in (a + 1) .. (b - 1)
          BY <4>3, <2>14, <1>1, <1>2
        <5> QED BY <5>1, <4>3, <2>8, <2>9, <2>10 DEF Same, Reset, DuringLoad
      <4> QED BY <4>1, <4>2, <4>3
    <3> QED BY <3>1, <3>2, <2>2, <2>14, ResetExcl
  <2> QED BY <2>12, <2>13, <2>14
<1> QED BY <1>5, <1>6

\* c gets priority p; the selector offers it again when it is included
Wanted(s, t, c, p, included) ==
    /\ t.phase = s.phase
    /\ c \in t.bitset => c \in s.bitset
    /\ c \in s.bitset /\ c \notin s.cur => c \in t.bitset
    /\ c \in t.onDisk => c \in s.onDisk
    /\ c \in s.onDisk /\ c \in t.bitset => c \in t.onDisk
    /\ c \in t.onDisk /\ c \in s.bitset => c \in t.bitset
    /\ c \in t.todo <=> p # ONLY_SEED /\ c \notin t.bitset
    /\ c \notin t.excluded
    /\ c \in t.onlySeed <=> p = ONLY_SEED
    /\ c \in s.sel => c \in t.sel
    /\ included /\ s.phase # "loading" /\ c \notin s.onDisk => c \in t.sel
    /\ c \in t.cur => c \in s.cur
    /\ Base(t.prio[c]) = p

\* Including a chunk and then setting its priority makes it wanted at that priority.
LEMMA MidPrio ==
    ASSUME NEW s, NEW m, NEW t, NEW c, NEW p, NEW included,
           Mid(s, m, c, included), Prio(m, t, c, p)
    PROVE  Wanted(s, t, c, p, included)
BY DEF Mid, Prio, Wanted

\* A chunk that was not excluded is wanted at the priority it is given.
LEMMA PrioWanted ==
    ASSUME NEW s, NEW t, NEW c, NEW p, Prio(s, t, c, p)
    PROVE  Wanted(s, t, c, p, FALSE)
BY DEF Prio, Wanted

\* downloadPriorityChanged with a priority other than EXCLUDED
LEMMA DownloadView ==
    ASSUME NEW s \in SessionType, NEW fp \in FPrio, NEW f \in File, NEW old,
           fp[f] # EXCLUDED, NEW c \in Chunk
    PROVE  /\ c \notin ChunksOf(f) => Same(s, DownloadPriorityChanged(s, fp, f, old), c)
           /\ c \in ChunksOf(f) /\ (old \in {EXCLUDED, ONLY_SEED} \/ c \notin s.excluded) =>
                 Wanted(s, DownloadPriorityChanged(s, fp, f, old), c, Highest(fp, c),
                        old \in {EXCLUDED, ONLY_SEED})
<1> DEFINE new == fp[f]
           a == First[f]
           b == Last[f]
           i1 == Include(s, ChunksOf(f))
           s1 == IF old = EXCLUDED THEN DoDownload(s, fp, f) ELSE s
           i2 == Include(s1, ChunksOf(f))
           s2 == IF old = ONLY_SEED THEN i2 ELSE s1
           one == IF a \in Border THEN SetBorderChunkPriority(s2, fp, a)
                  ELSE Prioritise(s2, {a}, new)
           s3 == IF a \in Border THEN SetBorderChunkPriority(s2, fp, a) ELSE s2
           s4 == IF b \in Border THEN SetBorderChunkPriority(s3, fp, b) ELSE s3
           s5 == IF a = b
                 THEN IF new = ONLY_SEED THEN OnExcluded(one, {a}) ELSE one
                 ELSE PrioritiseOwn(s4, ChunksOf(f) \ Border, new)
           included == old \in {EXCLUDED, ONLY_SEED}
           t == DownloadPriorityChanged(s, fp, f, old)
<1>1. /\ a \in Chunk /\ b \in Chunk /\ a \in Int /\ b \in Int /\ a <= b /\ c \in Int
      /\ ChunksOf(f) \in SUBSET Chunk /\ ChunksOf(f) \ Border \in SUBSET Chunk
  BY PreviewRangeType, LayoutAssumption, SizeAssumption DEF Chunk
<1>2. /\ a \in ChunksOf(f) /\ b \in ChunksOf(f)
      /\ c \in ChunksOf(f) <=> a <= c /\ c <= b
  BY <1>1 DEF ChunksOf
<1>3. new \in FilePriority \ {EXCLUDED} /\ new \in ChunkPriority
  BY PriorityTypes DEF FPrio
<1>4. \A d \in ChunksOf(f) : Highest(fp, d) # EXCLUDED
  BY <1>1, HighestExcluded DEF FilesOf
<1>5. i1 \in SessionType /\ s1 \in SessionType
  BY <1>1, IncludeType, DoDownloadType
<1>6. i2 \in SessionType /\ s2 \in SessionType
  BY <1>1, <1>5, IncludeType
<1>7. one \in SessionType /\ s3 \in SessionType
  BY <1>1, <1>3, <1>6, SetBorderChunkPriorityType, PrioritiseType
<1>8. s4 \in SessionType
  BY <1>1, <1>7, SetBorderChunkPriorityType
<1>9. s5 \in SessionType
  BY <1>1, <1>3, <1>7, <1>8, OnExcludedType, PrioritiseOwnType
<1>10. t = DoPreviewPriority(s5, fp, f)
  BY DEF DownloadPriorityChanged
<1>11. Same(s5, t, c)
  BY <1>9, <1>10, DoPreviewView
\* the chunks of the file are included
<1>12. IF c \in ChunksOf(f) THEN Mid(s, s2, c, included) ELSE Same(s, s2, c)
  <2>1. IF c \in ChunksOf(f) THEN Mid(s, i1, c, TRUE) ELSE Same(s, i1, c)
    BY <1>1, IncludeView
  <2>2. IF c \in ChunksOf(f) THEN Mid(s1, i2, c, TRUE) ELSE Same(s1, i2, c)
    BY <1>1, <1>5, IncludeView
  <2>3. CASE old = EXCLUDED
    <3>1. Same(i1, DoPreviewPriority(i1, fp, f), c)
      BY <1>5, DoPreviewView
    <3>2. s2 = DoPreviewPriority(i1, fp, f)
      BY <2>3 DEF DoDownload
    <3> HIDE DEF i1, s2
    <3> QED BY <2>1, <2>3, <3>1, <3>2 DEF Mid, Same
  <2>4. CASE old = ONLY_SEED
    <3>1. s1 = s /\ s2 = i2
      BY <2>4
    <3> HIDE DEF i2, s2, s1
    <3> QED BY <2>2, <2>4, <3>1
  <2>5. CASE old \notin {EXCLUDED, ONLY_SEED}
    <3>1. s2 = s
      BY <2>5
    <3> HIDE DEF s2
    <3> QED BY <2>5, <3>1, SameRefl DEF Mid
  <2> QED BY <2>3, <2>4, <2>5
<1> HIDE DEF s1, s2, i1, i2
\* and get their priority
<1>13. /\ c \notin ChunksOf(f) => Same(s2, s5, c)
       /\ c \in ChunksOf(f) /\ c \notin s2.excluded => Prio(s2, s5, c, Highest(fp, c))
  <2>1. ASSUME NEW u \in SessionType, NEW d \in {a, b}
        PROVE  /\ c # d => Same(u, SetBorderChunkPriority(u, fp, d), c)
               /\ c = d /\ c \notin u.excluded =>
                     Prio(u, SetBorderChunkPriority(u, fp, d), c, Highest(fp, c))
    <3>1. d \in Chunk /\ Highest(fp, d) # EXCLUDED
      BY <1>1, <1>2, <1>4, <2>1
    <3> QED BY <3>1, SetBorderView
  <2>2. c \in ChunksOf(f) /\ c \notin Border => Highest(fp, c) = new
    BY OwnChunk, HighestOwn
  <2>3. CASE a = b
    <3>1. c \in ChunksOf(f) <=> c = a
      BY <1>1, <1>2, <2>3
    <3>2. /\ c # a => Same(s2, one, c)
          /\ c = a /\ c \notin s2.excluded => Prio(s2, one, c, Highest(fp, c))
      <4>1. CASE a \in Border
        BY <4>1, <2>1, <1>6
      <4>2. CASE a \notin Border
        <5>1. one = Prioritise(s2, {a}, new)
          BY <4>2
        <5>2. c = a => Highest(fp, c) = new
          BY <4>2, <3>1, <2>2
        <5>3. /\ c # a => Same(s2, Prioritise(s2, {a}, new), c)
              /\ c = a /\ c \notin s2.excluded => Prio(s2, Prioritise(s2, {a}, new), c, new)
          BY <1>1, <1>3, <1>6, PrioritiseView
        <5> QED BY <5>1, <5>2, <5>3
      <4> QED BY <4>1, <4>2
    <3>3. IF c = a THEN Dropped(one, OnExcluded(one, {a}), c)
          ELSE Same(one, OnExcluded(one, {a}), c)
      BY <1>1, <1>7, OnExcludedView
    <3>4. s5 = IF new = ONLY_SEED THEN OnExcluded(one, {a}) ELSE one
      BY <2>3
    <3> HIDE DEF s5, one
    <3> QED BY <3>1, <3>2, <3>3, <3>4, SameTrans, PrioDropped
  <2>4. CASE a # b
    <3>1. s5 = PrioritiseOwn(s4, ChunksOf(f) \ Border, new)
      BY <2>4
    <3>2. /\ c \notin ChunksOf(f) \ Border => Same(s4, s5, c)
          /\ c \in ChunksOf(f) \ Border /\ c \notin s4.excluded => Prio(s4, s5, c, new)
      BY <1>1, <1>3, <1>8, <3>1, PrioritiseOwnView
    <3>3. /\ c # a \/ a \notin Border => Same(s2, s3, c)
          /\ c = a /\ a \in Border /\ c \notin s2.excluded =>
                Prio(s2, s3, c, Highest(fp, c))
      BY <1>6, <2>1, SameRefl
    <3>4. /\ c # b \/ b \notin Border => Same(s3, s4, c)
          /\ c = b /\ b \in Border /\ c \notin s3.excluded =>
                Prio(s3, s4, c, Highest(fp, c))
      BY <1>7, <2>1, SameRefl
    <3> HIDE DEF s3, s4, s5, a, b
    <3>5. CASE c \notin ChunksOf(f)
      BY <3>5, <1>2, <3>2, <3>3, <3>4, SameTrans
    <3>6. CASE c \in ChunksOf(f) /\ c \notin Border /\ c \notin s2.excluded
      <4>1. Same(s2, s3, c) /\ Same(s3, s4, c)
        BY <3>6, <3>3, <3>4
      <4>2. Same(s2, s4, c) /\ c \notin s4.excluded
        BY <3>6, <4>1, SameTrans DEF Same
      <4> QED BY <3>6, <3>2, <4>2, <2>2, PrioSame
    <3>7. CASE c \in ChunksOf(f) /\ c \in Border /\ c \notin s2.excluded
      <4>1. Same(s4, s5, c)
        BY <3>7, <3>2
      <4>2. c = a \/ c = b
        BY <3>7, BorderIsEdge DEF a, b
      <4>3. CASE c = a
        <5>1. Prio(s2, s3, c, Highest(fp, c)) /\ Same(s3, s4, c)
          BY <4>3, <3>7, <3>3, <3>4, <2>4
        <5> QED BY <5>1, <4>1, <3>7, PrioSame
      <4>4. CASE c = b
        <5>1. Same(s2, s3, c)
          BY <4>4, <3>3, <2>4
        <5>2. c \notin s3.excluded
          BY <5>1, <3>7 DEF Same
        <5>3. Prio(s3, s4, c, Highest(fp, c))
          BY <4>4, <5>2, <3>7, <3>4
        <5> QED BY <5>1, <5>3, <4>1, <3>7, PrioSame
      <4> QED BY <4>2, <4>3, <4>4
    <3> QED BY <3>5, <3>6, <3>7
  <2> QED BY <2>3, <2>4
<1> HIDE DEF one, s3, s4, s5, t
<1>14. CASE c \notin ChunksOf(f)
  BY <1>14, <1>11, <1>12, <1>13, SameTrans DEF t
<1>15. CASE c \in ChunksOf(f) /\ (included \/ c \notin s.excluded)
  <2>1. c \notin s2.excluded /\ Mid(s, s2, c, included)
    BY <1>12, <1>15 DEF Mid
  <2>2. Prio(s2, t, c, Highest(fp, c))
    BY <2>1, <1>11, <1>13, <1>15, PrioSame
  <2>3. Wanted(s, t, c, Highest(fp, c), included)
    BY <2>1, <2>2, MidPrio
  <2> QED BY <2>3, <1>15 DEF t
<1> QED BY <1>14, <1>15

-----------------------------------------------------------------------------
(***************************************************************************)
(* A change of priority keeps a chunk consistent.                           *)
(***************************************************************************)
\* what is known of chunk c before the priority of a file changes
Before(s, fp, c) ==
    /\ Consistent(s, fp, c)
    /\ DuringLoad(s) => c \notin s.onDisk /\ c \notin s.cur

\* and after it: nothing is gained, and a chunk that we had is lost only when
\* all its files are excluded
After(s, t, fp, f, c) ==
    /\ t.phase = s.phase
    /\ Consistent(t, fp, c)
    /\ Offered(s, c) => Offered(t, c)
    /\ c \in t.onDisk => c \in s.onDisk
    /\ c \in t.bitset => c \in s.bitset
    /\ c \in t.bitset /\ c \notin t.onDisk => c \notin s.onDisk
    /\ c \in t.cur => c \in s.cur
    /\ c \in s.bitset /\ c \notin t.bitset =>
          f \in FilesOf(c) /\ \A g \in FilesOf(c) : fp[g] = EXCLUDED

\* A priority change keeps every chunk consistent, whichever branch it takes.
LEMMA ChangeKeeps ==
    ASSUME NoTwoChunkOverlap,
           NEW s \in SessionType, NEW fp0 \in FPrio, NEW f \in File,
           NEW p \in FilePriority, NEW old \in FilePriority,
           old = fp0[f] \/ p = fp0[f],
           NEW c \in Chunk, Before(s, fp0, c)
    PROVE  LET fp == SetTo(fp0, f, p)
           IN  After(s, DownloadPriorityChanged(s, fp, f, old), fp, f, c)
<1> DEFINE fp == SetTo(fp0, f, p)
           t == DownloadPriorityChanged(s, fp, f, old)
           h == Highest(fp, c)
           h0 == Highest(fp0, c)
<1>0. /\ Consistent(s, fp0, c)
      /\ DuringLoad(s) => c \notin s.onDisk /\ c \notin s.cur
  BY DEF Before
<1>1. fp \in FPrio /\ fp[f] = p /\ \A g \in File : g # f => fp[g] = fp0[g]
  BY SetToType DEF SetTo, FPrio
<1>2. f \in FilesOf(c) <=> c \in ChunksOf(f)
  BY DEF FilesOf
<1>3. FilesOf(c) \subseteq File
  BY DEF FilesOf
<1>4. h \in FilePriority /\ h0 \in FilePriority
  BY <1>1, HighestIsMax
<1>5. h = EXCLUDED <=> \A g \in FilesOf(c) : fp[g] = EXCLUDED
  BY <1>1, HighestExcluded
<1>6. h0 = EXCLUDED <=> \A g \in FilesOf(c) : fp0[g] = EXCLUDED
  BY HighestExcluded
<1>7. CASE c \notin ChunksOf(f)
  <2>1. h = h0 /\ \A g \in FilesOf(c) : fp[g] = fp0[g]
    BY <1>7, HighestOther
  <2>2. Same(s, t, c)
    <3>1. CASE p = EXCLUDED
      <4>1. t = DontDownload(s, fp, f)
        BY <1>1, <3>1 DEF DownloadPriorityChanged
      <4> QED BY <4>1, <1>1, <1>7, <3>1, DontDownloadView
    <3>2. CASE p # EXCLUDED
      BY <1>1, <1>7, <3>2, DownloadView
    <3> QED BY <3>1, <3>2
  <2> HIDE DEF t, fp
  <2>3. After(s, t, fp, f, c)
    BY <1>0, <2>1, <2>2 DEF After, Same, Consistent, Offered
  <2> QED BY <2>3 DEF t, fp
<1>8. CASE c \in ChunksOf(f) /\ h = EXCLUDED
  <2>1. p = EXCLUDED
    BY <1>1, <1>2, <1>5, <1>8
  <2>2. t = DontDownload(s, fp, f)
    BY <1>1, <2>1 DEF DownloadPriorityChanged
  <2>3. ~Kept(fp, c, f)
    BY <1>1, <1>8, <2>1, KeptFacts
  <2>4. Out(s, t, c)
    BY <1>1, <1>8, <2>1, <2>2, <2>3, DontDownloadView
  <2> HIDE DEF t, fp
  <2>5. After(s, t, fp, f, c)
    BY <1>0, <1>2, <1>5, <1>8, <2>4 DEF After, Out, Consistent, Offered, DuringLoad
  <2> QED BY <2>5 DEF t, fp
<1>9. CASE c \in ChunksOf(f) /\ h # EXCLUDED
  <2>1. PICK included \in BOOLEAN :
             /\ Wanted(s, t, c, h, included)
             /\ ~included => c \notin s.excluded
             /\ ~included /\ c \in s.onlySeed => h = ONLY_SEED
    <3>1. CASE p = EXCLUDED
      <4>1. t = DontDownload(s, fp, f)
        BY <1>1, <3>1 DEF DownloadPriorityChanged
      <4>2. Kept(fp, c, f) /\ \E g \in FilesOf(c) : fp0[g] # EXCLUDED
        BY <1>1, <1>9, <3>1, KeptFacts
      <4>3. c \notin s.excluded
        BY <1>0, <4>2 DEF Consistent
      <4>4. Prio(s, t, c, h)
        BY <1>1, <1>9, <3>1, <4>1, <4>2, <4>3, DontDownloadView
      <4>5. Wanted(s, t, c, h, FALSE)
        BY <4>4, PrioWanted
      <4>6. c \in s.onlySeed => h = ONLY_SEED
        <5>1. \A g \in FilesOf(c) : fp[g] = EXCLUDED \/ fp[g] = fp0[g]
          BY <1>1, <1>3, <3>1
        <5>2. h0 = ONLY_SEED => h <= ONLY_SEED
          <6>1. \E g \in FilesOf(c) : fp[g] = h
            BY <1>1, HighestIsMax
          <6>2. \A g \in FilesOf(c) : fp0[g] <= h0
            BY HighestIsMax
          <6> QED BY <6>1, <6>2, <5>1
        <5> QED BY <1>0, <1>4, <1>9, <5>2 DEF Consistent, FilePriority
      <4> QED BY <4>3, <4>5, <4>6
    <3>2. CASE p # EXCLUDED
      <4> DEFINE inc == old \in {EXCLUDED, ONLY_SEED}
      <4>1. ~inc => fp0[f] \in FilePriority \ {EXCLUDED}
        BY <3>2 DEF FPrio
      <4>2. ~inc => c \notin s.excluded
        BY <1>0, <1>2, <1>9, <4>1 DEF Consistent
      <4>3. Wanted(s, t, c, h, inc)
        BY <1>1, <1>9, <3>2, <4>2, DownloadView
      <4>4. ~inc /\ c \in s.onlySeed => h = ONLY_SEED
        <5> SUFFICES ASSUME ~inc, c \in s.onlySeed PROVE h = ONLY_SEED
          OBVIOUS
        <5>1. h0 = ONLY_SEED
          BY <1>0 DEF Consistent
        <5>2. fp0[f] <= ONLY_SEED
          BY <1>2, <1>9, <5>1, HighestIsMax
        <5>3. fp0[f] = ONLY_SEED /\ p = fp0[f]
          BY <4>1, <5>2 DEF FilePriority
        <5>4. fp = fp0
          BY <5>3 DEF SetTo, FPrio
        <5> QED BY <5>1, <5>4
      <4>5. inc \in BOOLEAN
        OBVIOUS
      <4> HIDE DEF inc, t, h
      <4> QED BY <4>2, <4>3, <4>4, <4>5, Zenon
    <3> QED BY <3>1, <3>2
  <2>2. \E g \in FilesOf(c) : fp[g] # EXCLUDED
    BY <1>5, <1>9
  <2> HIDE DEF t, fp, h, h0
  <2>3. Consistent(t, fp, c)
    BY <1>0, <1>9, <2>1, <2>2 DEF Consistent, Wanted, h
  <2>4. Offered(s, c) => Offered(t, c)
    BY <1>0, <2>1 DEF Consistent, Offered, Wanted
  <2>5. After(s, t, fp, f, c)
    BY <1>0, <2>1, <2>3, <2>4 DEF After, Wanted, Consistent
  <2> QED BY <2>5 DEF t, fp
<1> QED BY <1>7, <1>8, <1>9

\* the same for TorrentFile::setPriority, which changes the priority of an
\* excluded file twice
LEMMA PriorityChangeKeeps ==
    ASSUME NoTwoChunkOverlap,
           NEW s \in SessionType, NEW fp \in FPrio, NEW f \in File,
           NEW p \in FilePriority, NEW c \in Chunk, Before(s, fp, c)
    PROVE  After(s, PriorityChange(s, fp, f, p), SetTo(fp, f, p), f, c)
<1> DEFINE fp1 == SetTo(fp, f, NORMAL)
           fp2 == SetTo(fp1, f, p)
           s1 == DownloadPriorityChanged(s, fp1, f, EXCLUDED)
           s2 == DownloadPriorityChanged(s1, fp2, f, NORMAL)
<1>0. fp[f] \in FilePriority /\ NORMAL \in FilePriority /\ EXCLUDED \in FilePriority
  BY PriorityTypes DEF FPrio
<1>1. fp1 \in FPrio /\ fp1[f] = NORMAL /\ fp2 = SetTo(fp, f, p) /\ fp2 \in FPrio
  BY <1>0, SetToType DEF SetTo, FPrio
<1>2. s1 \in SessionType
  BY <1>1, DownloadPriorityChangedType
<1>3. CASE fp[f] = EXCLUDED
  <2>1. PriorityChange(s, fp, f, p) = s2
    BY <1>3 DEF PriorityChange
  <2>2. After(s, s1, fp1, f, c)
    BY <1>0, <1>3, ChangeKeeps
  <2>3. Before(s1, fp1, c)
    BY <2>2 DEF After, Before, DuringLoad
  <2> HIDE DEF s1, fp1
  <2>4. After(s1, s2, fp2, f, c)
    BY <1>0, <1>1, <1>2, <2>3, ChangeKeeps
  <2> HIDE DEF s2, fp2
  <2>5. After(s, s2, fp2, f, c)
    BY <1>1, <2>2, <2>4 DEF After
  <2> QED BY <2>1, <2>5, <1>1
<1>4. CASE fp[f] # EXCLUDED
  <2>1. PriorityChange(s, fp, f, p) = DownloadPriorityChanged(s, SetTo(fp, f, p), f, fp[f])
    BY <1>4 DEF PriorityChange
  <2> QED BY <2>1, <1>0, ChangeKeeps
<1> QED BY <1>3, <1>4

-----------------------------------------------------------------------------
(***************************************************************************)
(* The invariant is inductive.                                              *)
(***************************************************************************)
LEMMA Unpack ==
    ASSUME Inductive
    PROVE  /\ cm \in SessionType /\ fprio \in FPrio /\ oldPrio \in FPrio
           /\ savedPrio \in FPrio /\ AllNormal \in FPrio
           /\ \A c \in Chunk : Before(cm, fprio, c)
BY StartTypes DEF Inductive, TypeOK, FPrio, Before, NotUp, DuringLoad

\* a new session is consistent with files of normal priority
LEMMA SessionConsistent ==
    ASSUME NEW ph \in {"new", "loading"}, NEW c \in Chunk
    PROVE  Consistent(Session(ph), AllNormal, c) /\ Offered(Session(ph), c)
<1> DEFINE pr == [d \in Chunk |-> IF \E f \in Multimedia : d \in PreviewRange(f)
                                  THEN Preview(NORMAL) ELSE NORMAL]
<1>1. Base(pr[c]) = NORMAL
  BY BaseFacts, PriorityTypes
<1> HIDE DEF pr
<1>2. Session(ph) =
       [phase |-> ph, bitset |-> {}, todo |-> Chunk, excluded |-> {}, onlySeed |-> {},
        onDisk |-> {}, recalc |-> TRUE, left |-> 0, cur |-> {},
        sel |-> IF ph = "loading" THEN {} ELSE Chunk, prio |-> pr]
  BY DEF Session, pr
<1>3. \A g \in FilesOf(c) : AllNormal[g] = NORMAL
  BY DEF AllNormal, FilesOf
<1>4. Highest(AllNormal, c) = NORMAL /\ \E g \in FilesOf(c) : AllNormal[g] # EXCLUDED
  BY <1>3, HighestIsMax, StartTypes
<1> HIDE DEF AllNormal
<1> QED BY <1>1, <1>2, <1>4 DEF Consistent, Offered

\* Init establishes the inductive invariant.
LEMMA InitInductive == Init => Inductive
<1> SUFFICES ASSUME Init PROVE Inductive
  OBVIOUS
<1>1. \A c \in Chunk : Consistent(cm, fprio, c) /\ Offered(cm, c)
  BY SessionConsistent DEF Init
<1>2. cm.phase = "new" /\ cm.bitset = {} /\ cm.onDisk = {} /\ cm.cur = {}
  BY DEF Init, Session
<1> QED BY <1>1, <1>2, InitType
        DEF Init, Inductive, NotUp, Loading, Stopped, OnDiskIndexed, PrioritiesSurvive

\* a priority change: the part of the invariant that is about the session
LEMMA ChangeStep ==
    ASSUME Inductive, NEW t \in SessionType, NEW fp, NEW f,
           \A c \in Chunk : After(cm, t, fp, f, c),
           TypeOK', cm' = t, fprio' = fp, UNCHANGED <<running, index, savedCur>>,
           Loading', PrioritiesSurvive'
    PROVE  Inductive'
<1>1. t.phase = cm.phase
  <2>1. 0 \in Chunk
    BY SizeAssumption DEF Chunk
  <2> QED BY <2>1 DEF After
<1>2. \A c \in Chunk : Consistent(cm', fprio', c) /\ Offered(cm', c)
  BY DEF After, Inductive
<1>3. /\ t.bitset \in SUBSET Chunk /\ t.onDisk \in SUBSET Chunk /\ t.cur \in SUBSET Chunk
  BY DEF SessionType
<1>4. /\ t.onDisk \subseteq cm.onDisk /\ t.bitset \subseteq cm.bitset
      /\ t.cur \subseteq cm.cur /\ t.bitset \ t.onDisk \subseteq cm.bitset \ cm.onDisk
  BY <1>3 DEF After
<1>5. NotUp' /\ Stopped' /\ OnDiskIndexed'
  BY <1>1, <1>4 DEF Inductive, NotUp, Stopped, OnDiskIndexed
<1> QED BY <1>2, <1>5 DEF Inductive

\* what the priority of a chunk says
LEMMA PrioritySays ==
    ASSUME NEW s \in SessionType, NEW fp \in FPrio, NEW c \in Chunk, Consistent(s, fp, c)
    PROVE  /\ s.prio[c] = EXCLUDED <=> c \in s.excluded
           /\ s.prio[c] = ONLY_SEED <=> c \in s.onlySeed
<1>1. s.prio[c] \in ChunkPriority
  BY DEF SessionType
<1>2. c \in s.excluded <=> Highest(fp, c) = EXCLUDED
  BY HighestExcluded DEF Consistent
<1> QED BY <1>1, <1>2, BaseFacts DEF Consistent

\* Every action keeps the inductive invariant.
LEMMA NextInductive ==
    ASSUME NoTwoChunkOverlap, Inductive, [Next]_vars
    PROVE  Inductive'
<1>0. TypeOK'
  BY NextType DEF Inductive
<1>a. /\ cm \in SessionType /\ fprio \in FPrio /\ oldPrio \in FPrio
      /\ savedPrio \in FPrio /\ AllNormal \in FPrio
      /\ \A c \in Chunk : Before(cm, fprio, c)
  BY Unpack
<1>b. /\ \A c \in Chunk : Consistent(cm, fprio, c) /\ Offered(cm, c)
      /\ NotUp /\ Loading /\ Stopped /\ OnDiskIndexed /\ PrioritiesSurvive
  BY DEF Inductive
<1>c. cm' \in SessionType
  BY <1>0 DEF TypeOK
<1>d. pos \in 1 .. NumFiles + 1 /\ NumFiles \in Nat
  BY SizeAssumption DEF Inductive, TypeOK
<1>e. /\ cm.bitset \in SUBSET Chunk /\ cm.onDisk \in SUBSET Chunk /\ cm.cur \in SUBSET Chunk
      /\ savedCur \in SUBSET Chunk /\ index \in SUBSET Chunk
  BY <1>a DEF SessionType, Inductive, TypeOK
<1>f. \A c \in Chunk : /\ cm.prio[c] = EXCLUDED <=> c \in cm.excluded
                       /\ cm.prio[c] = ONLY_SEED <=> c \in cm.onlySeed
  BY <1>a, <1>b, PrioritySays
<1>1. ASSUME NEW f \in File, NEW p \in UserPriority, SetPriority(f, p)
      PROVE  Inductive'
  <2>1. p \in FilePriority
    BY SizeAssumption
  <2>2. cm' = PriorityChange(cm, fprio, f, p) /\ fprio' = SetTo(fprio, f, p)
    BY <1>1 DEF SetPriority
  <2>3. \A c \in Chunk : After(cm, cm', fprio', f, c)
    BY <1>a, <2>1, <2>2, PriorityChangeKeeps
  <2>4. cm'.phase = cm.phase
    <3>1. 0 \in Chunk
      BY SizeAssumption DEF Chunk
    <3> QED BY <3>1, <2>3 DEF After
  <2>5. Loading' /\ PrioritiesSurvive'
    BY <1>1, <2>4 DEF SetPriority, Loading, PrioritiesSurvive, DuringLoad
  <2>6. UNCHANGED <<running, index, savedCur>>
    BY <1>1 DEF SetPriority
  <2> QED BY <1>0, <1>c, <2>3, <2>5, <2>6, ChangeStep
<1>2. CASE CreateFiles
  <2>1. /\ cm.phase = "new" /\ cm' = [cm EXCEPT !.phase = "creating"]
        /\ UNCHANGED <<fprio, running, index, savedPrio, savedCur>>
    BY <1>2 DEF CreateFiles
  <2>2. \A c \in Chunk : Consistent(cm', fprio', c) /\ Offered(cm', c)
    BY <1>a, <1>b, <2>1 DEF Consistent, Offered, SessionType
  <2>3. /\ cm'.phase = "creating" /\ cm'.bitset = cm.bitset /\ cm'.onDisk = cm.onDisk
        /\ cm'.cur = cm.cur
    BY <1>a, <2>1 DEF SessionType
  <2> QED BY <1>0, <1>b, <2>1, <2>2, <2>3
          DEF Inductive, NotUp, Loading, Stopped, OnDiskIndexed, PrioritiesSurvive, DuringLoad
<1>3. CASE CreateFilesStep
  <2>1. /\ cm.phase = "creating" /\ pos \in File
        /\ cm' = IF fprio[pos] = NORMAL THEN cm
                 ELSE DownloadPriorityChanged(cm, fprio, pos, oldPrio[pos])
        /\ UNCHANGED <<fprio, running, index, savedPrio, savedCur>>
    BY <1>3 DEF CreateFilesStep
  <2>2. \A c \in Chunk : After(cm, cm', fprio', pos, c)
    <3>1. CASE fprio[pos] = NORMAL
      BY <1>a, <2>1, <3>1 DEF After, Before
    <3>2. CASE fprio[pos] # NORMAL
      <4>1. fprio = SetTo(fprio, pos, fprio[pos])
        BY <1>a, <2>1 DEF SetTo, FPrio
      <4>2. fprio[pos] \in FilePriority /\ oldPrio[pos] \in FilePriority
        BY <1>a, <2>1 DEF FPrio
      <4>3. \A c \in Chunk : After(cm, DownloadPriorityChanged(cm, fprio, pos, oldPrio[pos]),
                                   fprio, pos, c)
        BY <1>a, <2>1, <4>1, <4>2, ChangeKeeps
      <4> QED BY <4>3, <3>2, <2>1
    <3> QED BY <3>1, <3>2
  <2>3. cm'.phase = cm.phase
    <3>1. 0 \in Chunk
      BY SizeAssumption DEF Chunk
    <3> QED BY <3>1, <2>2 DEF After
  <2>4. Loading' /\ PrioritiesSurvive'
    BY <2>1, <2>3 DEF Loading, PrioritiesSurvive, DuringLoad
  <2> QED BY <1>0, <1>c, <2>1, <2>2, <2>4, ChangeStep
<1>4. CASE CreateFilesDone
  <2>1. /\ cm.phase = "creating" /\ cm' = [cm EXCEPT !.phase = "up"] /\ savedPrio' = fprio
        /\ UNCHANGED <<fprio, running, index, savedCur>>
    BY <1>4 DEF CreateFilesDone
  <2>2. \A c \in Chunk : Consistent(cm', fprio', c) /\ Offered(cm', c)
    BY <1>a, <1>b, <2>1 DEF Consistent, Offered, SessionType
  <2>3. /\ cm'.phase = "up" /\ cm'.bitset = cm.bitset /\ cm'.onDisk = cm.onDisk
        /\ cm'.cur = cm.cur
    BY <1>a, <2>1 DEF SessionType
  <2> QED BY <1>0, <1>b, <2>1, <2>2, <2>3
          DEF Inductive, NotUp, Loading, Stopped, OnDiskIndexed, PrioritiesSurvive, DuringLoad
<1>5. CASE Restart
  <2>1. /\ cm' = Session("loading") /\ fprio' = AllNormal /\ pos' = 1 /\ running' = FALSE
        /\ UNCHANGED <<index, savedPrio, savedCur>>
    BY <1>5 DEF Restart
  <2>2. \A c \in Chunk : Consistent(cm', fprio', c) /\ Offered(cm', c)
    BY <2>1, SessionConsistent
  <2>3. /\ cm'.phase = "loading" /\ cm'.bitset = {} /\ cm'.onDisk = {} /\ cm'.cur = {}
    BY <2>1 DEF Session
  <2>4. Loading'
    BY <2>1 DEF Loading, AllNormal, File
  <2> QED BY <1>0, <1>b, <2>1, <2>2, <2>3, <2>4
          DEF Inductive, NotUp, Stopped, OnDiskIndexed, PrioritiesSurvive, DuringLoad
<1>6. CASE LoadPriorityInfo
  <2>1. /\ cm.phase = "loading" /\ pos \in File
        /\ fprio' = SetTo(fprio, pos, savedPrio[pos])
        /\ cm' = IF savedPrio[pos] = NORMAL THEN cm
                 ELSE PriorityChange(cm, fprio, pos, savedPrio[pos])
        /\ pos' = pos + 1
        /\ UNCHANGED <<running, index, savedPrio, savedCur>>
    BY <1>6 DEF LoadPriorityInfo
  <2>2. savedPrio[pos] \in FilePriority
    BY <1>a, <2>1 DEF FPrio
  <2>3. \A g \in File : fprio[g] = IF g < pos THEN savedPrio[g] ELSE NORMAL
    BY <1>b, <2>1 DEF Loading
  <2>4. \A c \in Chunk : After(cm, cm', fprio', pos, c)
    <3>1. CASE savedPrio[pos] = NORMAL
      <4>1. fprio[pos] = NORMAL
        BY <2>1, <2>3, <1>d
      <4>2. fprio' = fprio
        BY <1>a, <2>1, <3>1, <4>1 DEF SetTo, FPrio
      <4> QED BY <1>a, <2>1, <3>1, <4>2 DEF After, Before
    <3>2. CASE savedPrio[pos] # NORMAL
      BY <1>a, <2>1, <2>2, <3>2, PriorityChangeKeeps
    <3> QED BY <3>1, <3>2
  <2>5. cm'.phase = cm.phase
    <3>1. 0 \in Chunk
      BY SizeAssumption DEF Chunk
    <3> QED BY <3>1, <2>4 DEF After
  <2>6. Loading'
    <3>1. \A g \in File : fprio'[g] = IF g = pos THEN savedPrio[g] ELSE fprio[g]
      BY <1>a, <2>1 DEF SetTo, FPrio
    <3>2. \A g \in File : g < pos + 1 <=> g = pos \/ g < pos
      BY <1>d DEF File
    <3> QED BY <2>1, <2>3, <3>1, <3>2 DEF Loading
  <2>7. PrioritiesSurvive'
    BY <2>1, <2>5 DEF PrioritiesSurvive, DuringLoad
  <2> QED BY <1>0, <1>c, <2>1, <2>4, <2>6, <2>7, ChangeStep
<1>7. CASE LoadIndexFile
  <2>1. /\ cm.phase = "loading" /\ pos \notin File
        /\ cm' = [cm EXCEPT !.bitset = cm.bitset \cup index,
                            !.onDisk = cm.onDisk \cup index,
                            !.todo = cm.todo \ index,
                            !.sel = Chunk \ (cm.bitset \cup index),
                            !.phase = "up"]
        /\ UNCHANGED <<fprio, running, index, savedPrio, savedCur>>
    BY <1>7 DEF LoadIndexFile
  <2>2. cm.bitset = {} /\ cm.onDisk = {} /\ cm.cur = {} /\ ~running
    BY <1>b, <2>1 DEF NotUp
  <2>3. /\ cm'.phase = "up" /\ cm'.bitset = index /\ cm'.onDisk = index
        /\ cm'.todo = cm.todo \ index /\ cm'.sel = Chunk \ index /\ cm'.cur = {}
        /\ cm'.excluded = cm.excluded /\ cm'.onlySeed = cm.onlySeed /\ cm'.prio = cm.prio
    BY <1>a, <2>1, <2>2 DEF SessionType
  <2>4. \A c \in Chunk : Consistent(cm', fprio', c) /\ Offered(cm', c)
    BY <1>b, <2>1, <2>2, <2>3 DEF Consistent, Offered
  <2>5. savedPrio = fprio
    <3>1. \A g \in File : g < pos
      BY <2>1, <1>d DEF File
    <3>2. \A g \in File : fprio[g] = savedPrio[g]
      BY <3>1, <1>b, <2>1 DEF Loading
    <3> QED BY <3>2, <1>a DEF FPrio
  <2> QED BY <1>0, <1>b, <2>1, <2>2, <2>3, <2>4, <2>5
          DEF Inductive, NotUp, Loading, Stopped, OnDiskIndexed, PrioritiesSurvive
<1>8. CASE Start
  <2>1. /\ cm.phase = "up" /\ ~running /\ running' = TRUE
        /\ cm' = [cm EXCEPT !.cur = IF Completed(cm) THEN {}
                                    ELSE {c \in savedCur : c \notin cm.onDisk
                                                           /\ cm.prio[c] # EXCLUDED}]
        /\ UNCHANGED <<fprio, index, savedPrio, savedCur>>
    BY <1>8 DEF Start
  <2>2. /\ cm'.phase = "up" /\ cm'.bitset = cm.bitset /\ cm'.onDisk = cm.onDisk
        /\ cm'.todo = cm.todo /\ cm'.sel = cm.sel
        /\ cm'.excluded = cm.excluded /\ cm'.onlySeed = cm.onlySeed /\ cm'.prio = cm.prio
        /\ \A c \in cm'.cur : c \in savedCur /\ c \notin cm.onDisk /\ cm.prio[c] # EXCLUDED
    BY <1>a, <2>1 DEF SessionType
  <2>3. \A c \in cm'.cur : c \notin cm.bitset /\ c \notin cm.excluded
    BY <1>b, <1>e, <1>f, <2>1, <2>2 DEF Stopped
  <2>4. \A c \in Chunk : Consistent(cm', fprio', c) /\ Offered(cm', c)
    BY <1>b, <2>1, <2>2, <2>3 DEF Consistent, Offered
  <2> QED BY <1>0, <1>b, <2>1, <2>2, <2>4
          DEF Inductive, NotUp, Loading, Stopped, OnDiskIndexed, PrioritiesSurvive, DuringLoad
<1>9. CASE Stop
  <2>1. /\ running /\ running' = FALSE /\ savedCur' = cm.cur
        /\ cm' = [cm EXCEPT !.cur = {}]
        /\ UNCHANGED <<fprio, index, savedPrio>>
    BY <1>9 DEF Stop
  <2>2. /\ cm'.phase = cm.phase /\ cm'.bitset = cm.bitset /\ cm'.onDisk = cm.onDisk
        /\ cm'.todo = cm.todo /\ cm'.sel = cm.sel /\ cm'.cur = {}
        /\ cm'.excluded = cm.excluded /\ cm'.onlySeed = cm.onlySeed /\ cm'.prio = cm.prio
    BY <1>a, <2>1 DEF SessionType
  <2>3. \A c \in Chunk : Consistent(cm', fprio', c) /\ Offered(cm', c)
    BY <1>b, <2>1, <2>2 DEF Consistent, Offered
  <2>4. cm.phase = "up" /\ cm.cur \cap cm.bitset = {}
    BY <1>b, <1>e, <2>1 DEF NotUp, Consistent
  <2> QED BY <1>0, <1>b, <2>1, <2>2, <2>3, <2>4
          DEF Inductive, NotUp, Loading, Stopped, OnDiskIndexed, PrioritiesSurvive, DuringLoad
<1>u. running => cm.phase = "up"
  BY <1>b DEF NotUp
<1>g. \A c \in Dead(cm) : c \in Chunk => c \notin cm.todo
  BY <1>b, <1>f DEF Dead, Consistent
<1>10. ASSUME NEW c \in Chunk, NEW passed \in SUBSET Dead(cm), Select(c, passed)
       PROVE  Inductive'
  <2>1. /\ running /\ running' = running /\ c \in cm.sel /\ c \notin Dead(cm)
        /\ cm' = [cm EXCEPT !.sel = cm.sel \ passed, !.cur = cm.cur \cup {c}]
        /\ UNCHANGED <<fprio, index, savedPrio, savedCur>>
    BY <1>10 DEF Select
  <2>2. /\ cm'.phase = cm.phase /\ cm'.bitset = cm.bitset /\ cm'.onDisk = cm.onDisk
        /\ cm'.todo = cm.todo /\ cm'.sel = cm.sel \ passed /\ cm'.cur = cm.cur \cup {c}
        /\ cm'.excluded = cm.excluded /\ cm'.onlySeed = cm.onlySeed /\ cm'.prio = cm.prio
    BY <1>a, <2>1 DEF SessionType
  <2>3. c \notin cm.bitset /\ c \notin cm.excluded
    BY <1>f, <2>1 DEF Dead
  <2>4. \A d \in Chunk : Consistent(cm', fprio', d) /\ Offered(cm', d)
    BY <1>b, <1>g, <2>1, <2>2, <2>3 DEF Consistent, Offered
  <2> QED BY <1>0, <1>b, <1>u, <2>1, <2>2, <2>4
          DEF Inductive, NotUp, Loading, Stopped, OnDiskIndexed, PrioritiesSurvive, DuringLoad
<1>11. CASE SelectNothing
  <2>1. /\ running /\ running' = running
        /\ cm' = [cm EXCEPT !.sel = cm.sel \ Dead(cm)]
        /\ UNCHANGED <<fprio, index, savedPrio, savedCur>>
    BY <1>11 DEF SelectNothing
  <2>2. /\ cm'.phase = cm.phase /\ cm'.bitset = cm.bitset /\ cm'.onDisk = cm.onDisk
        /\ cm'.todo = cm.todo /\ cm'.sel = cm.sel \ Dead(cm) /\ cm'.cur = cm.cur
        /\ cm'.excluded = cm.excluded /\ cm'.onlySeed = cm.onlySeed /\ cm'.prio = cm.prio
    BY <1>a, <2>1 DEF SessionType
  <2>3. \A d \in Chunk : Consistent(cm', fprio', d) /\ Offered(cm', d)
    BY <1>b, <1>g, <2>1, <2>2 DEF Consistent, Offered
  <2> QED BY <1>0, <1>b, <1>u, <2>1, <2>2, <2>3
          DEF Inductive, NotUp, Loading, Stopped, OnDiskIndexed, PrioritiesSurvive, DuringLoad
<1>12. ASSUME NEW c \in Chunk, HashOk(c) PROVE Inductive'
  <2>1. /\ running /\ running' = running /\ c \in cm.cur
        /\ cm' = [ChunkDownloaded(cm, c) EXCEPT !.cur = cm.cur \ {c}]
        /\ index' = IF cm.prio[c] = EXCLUDED THEN index ELSE index \cup {c}
        /\ UNCHANGED <<fprio, savedPrio, savedCur>>
    BY <1>12 DEF HashOk, Finishing
  <2>2. cm.prio[c] # EXCLUDED
    BY <1>b, <1>f, <2>1 DEF Consistent
  <2>3. /\ cm'.phase = cm.phase /\ cm'.bitset = cm.bitset \cup {c}
        /\ cm'.onDisk = cm.onDisk \cup {c} /\ cm'.todo = cm.todo \ {c}
        /\ cm'.sel = cm.sel /\ cm'.cur = cm.cur \ {c}
        /\ cm'.excluded = cm.excluded /\ cm'.onlySeed = cm.onlySeed /\ cm'.prio = cm.prio
    BY <1>a, <2>1, <2>2 DEF ChunkDownloaded, SessionType
  <2>4. \A d \in Chunk : Consistent(cm', fprio', d) /\ Offered(cm', d)
    BY <1>b, <2>1, <2>3 DEF Consistent, Offered
  <2> QED BY <1>0, <1>b, <1>u, <2>1, <2>2, <2>3, <2>4
          DEF Inductive, NotUp, Loading, Stopped, OnDiskIndexed, PrioritiesSurvive, DuringLoad
<1>13. ASSUME NEW c \in Chunk, IndexError(c) PROVE Inductive'
  <2>1. /\ running /\ running' = running /\ c \in cm.cur
        /\ cm' = [cm EXCEPT !.bitset = cm.bitset \cup {c},
                            !.todo = cm.todo \ {c},
                            !.recalc = TRUE,
                            !.cur = cm.cur \ {c}]
        /\ UNCHANGED <<fprio, index, savedPrio, savedCur>>
    BY <1>13 DEF IndexError, Finishing
  <2>2. /\ cm'.phase = cm.phase /\ cm'.bitset = cm.bitset \cup {c}
        /\ cm'.onDisk = cm.onDisk /\ cm'.todo = cm.todo \ {c}
        /\ cm'.sel = cm.sel /\ cm'.cur = cm.cur \ {c}
        /\ cm'.excluded = cm.excluded /\ cm'.onlySeed = cm.onlySeed /\ cm'.prio = cm.prio
    BY <1>a, <2>1 DEF SessionType
  <2>3. \A d \in Chunk : Consistent(cm', fprio', d) /\ Offered(cm', d)
    BY <1>b, <2>1, <2>2 DEF Consistent, Offered
  <2> QED BY <1>0, <1>b, <1>u, <2>1, <2>2, <2>3
          DEF Inductive, NotUp, Loading, Stopped, OnDiskIndexed, PrioritiesSurvive, DuringLoad
<1>14. ASSUME NEW c \in Chunk, HashBad(c) PROVE Inductive'
  <2> DEFINE r == ResetChunk(cm, {c})
  <2>1. /\ running /\ running' = running /\ c \in cm.cur
        /\ cm' = [r EXCEPT !.sel = r.sel \cup {c}, !.cur = r.cur \ {c}]
        /\ UNCHANGED <<fprio, index, savedPrio, savedCur>>
    BY <1>14 DEF HashBad, Finishing
  <2>2. r \in SessionType
    BY <1>a, ResetChunkType
  <2>3. \A d \in Chunk : IF d = c THEN Reset(cm, r, d) ELSE Same(cm, r, d)
    BY <1>a, ResetChunkView
  <2>4. ~DuringLoad(cm) /\ cm.phase = "up"
    BY <1>u, <2>1 DEF DuringLoad
  <2> HIDE DEF r
  <2>5. /\ cm'.phase = r.phase /\ cm'.bitset = r.bitset
        /\ cm'.onDisk = r.onDisk /\ cm'.todo = r.todo
        /\ cm'.sel = r.sel \cup {c} /\ cm'.cur = r.cur \ {c}
        /\ cm'.excluded = r.excluded /\ cm'.onlySeed = r.onlySeed /\ cm'.prio = r.prio
    BY <2>1, <2>2 DEF SessionType
  <2>6. \A d \in Chunk : Consistent(cm', fprio', d) /\ Offered(cm', d)
    BY <1>b, <2>1, <2>3, <2>4, <2>5 DEF Consistent, Offered, Reset, Same
  <2>7. r.phase = "up" /\ r.onDisk \subseteq cm.onDisk
    BY <2>2, <2>3, <2>4 DEF Reset, Same, SessionType
  <2> QED BY <1>0, <1>b, <2>1, <2>4, <2>5, <2>6, <2>7
          DEF Inductive, NotUp, Loading, Stopped, OnDiskIndexed, PrioritiesSurvive, DuringLoad
<1>h. ASSUME NEW s \in SessionType
      PROVE  LET t == Recalculate(s)
             IN  /\ t.phase = s.phase /\ t.bitset = s.bitset /\ t.onDisk = s.onDisk
                 /\ t.todo = s.todo /\ t.sel = s.sel /\ t.cur = s.cur
                 /\ t.excluded = s.excluded /\ t.onlySeed = s.onlySeed /\ t.prio = s.prio
  BY DEF Recalculate, SessionType
<1>15. CASE QueryChunksLeft
  <2>1. cm' = Recalculate(cm) /\ UNCHANGED <<fprio, running, index, savedPrio, savedCur>>
    BY <1>15 DEF QueryChunksLeft
  <2>2. /\ cm'.phase = cm.phase /\ cm'.bitset = cm.bitset /\ cm'.onDisk = cm.onDisk
        /\ cm'.todo = cm.todo /\ cm'.sel = cm.sel /\ cm'.cur = cm.cur
        /\ cm'.excluded = cm.excluded /\ cm'.onlySeed = cm.onlySeed /\ cm'.prio = cm.prio
    BY <1>a, <1>h, <2>1
  <2>3. \A d \in Chunk : Consistent(cm', fprio', d) /\ Offered(cm', d)
    BY <1>b, <2>1, <2>2 DEF Consistent, Offered
  <2>4. cm.phase = "up"
    BY <1>15 DEF QueryChunksLeft
  <2> QED BY <1>0, <1>b, <2>1, <2>2, <2>3, <2>4
          DEF Inductive, NotUp, Loading, Stopped, OnDiskIndexed, PrioritiesSurvive, DuringLoad
<1>16. ASSUME NEW S \in SUBSET Chunk, NEW ok \in SUBSET S, DataChecked(S, ok)
       PROVE  Inductive'
  <2> DEFINE found == (S \cap ok) \ cm.bitset
             lost == (S \ ok) \cap cm.bitset
             wanted == lost \ (cm.onlySeed \cup cm.excluded)
             sc == SelectorChecked(cm, S, ok)
             checked == [sc EXCEPT
                           !.bitset = (cm.bitset \cup found) \ lost,
                           !.todo = (cm.todo \ (found \cup lost)) \cup wanted,
                           !.onDisk = (cm.onDisk \cup found) \ lost,
                           !.recalc = TRUE]
  <2>1. /\ cm.phase = "up" /\ ~running /\ cm' = Recalculate(checked)
        /\ index' = checked.onDisk /\ savedPrio' = fprio
        /\ UNCHANGED <<fprio, running, savedCur>>
    BY <1>16 DEF DataChecked
  <2>2. sc \in SessionType
    BY <1>a, SelectorCheckedType
  <2>3. /\ sc.phase = cm.phase /\ sc.excluded = cm.excluded /\ sc.onlySeed = cm.onlySeed
        /\ sc.prio = cm.prio /\ sc.cur = cm.cur
        /\ sc.sel = (cm.sel \ (S \cap ok)) \cup (S \ ok)
    BY <1>a DEF SelectorChecked, SessionType
  <2> HIDE DEF sc
  <2>4. /\ checked.phase = sc.phase /\ checked.excluded = sc.excluded
        /\ checked.onlySeed = sc.onlySeed /\ checked.prio = sc.prio /\ checked.cur = sc.cur
        /\ checked.sel = sc.sel /\ checked.bitset = (cm.bitset \cup found) \ lost
        /\ checked.todo = (cm.todo \ (found \cup lost)) \cup wanted
        /\ checked.onDisk = (cm.onDisk \cup found) \ lost
    BY <2>2 DEF SessionType
  <2>5. checked \in SessionType
    <3>1. /\ (cm.bitset \cup found) \ lost \in SUBSET Chunk
          /\ (cm.todo \ (found \cup lost)) \cup wanted \in SUBSET Chunk
          /\ (cm.onDisk \cup found) \ lost \in SUBSET Chunk
      BY <1>a DEF SessionType
    <3> HIDE DEF found, lost, wanted
    <3> QED BY <2>2, <3>1 DEF SessionType
  <2> HIDE DEF checked
  <2>6. /\ cm'.phase = checked.phase /\ cm'.bitset = checked.bitset
        /\ cm'.onDisk = checked.onDisk /\ cm'.todo = checked.todo
        /\ cm'.sel = checked.sel /\ cm'.cur = checked.cur
        /\ cm'.excluded = checked.excluded /\ cm'.onlySeed = checked.onlySeed
        /\ cm'.prio = checked.prio
    BY <1>h, <2>1, <2>5
  <2>7. cm.cur = {} /\ savedCur \cap (cm.bitset \ cm.onDisk) = {}
    BY <1>b, <2>1 DEF Stopped
  <2>8. \A d \in Chunk : Consistent(cm', fprio', d) /\ Offered(cm', d)
    BY <1>b, <2>1, <2>3, <2>4, <2>6, <2>7 DEF Consistent, Offered
  <2>9. cm'.bitset \ cm'.onDisk \subseteq cm.bitset \ cm.onDisk
    BY <2>4, <2>6
  <2> QED BY <1>0, <2>1, <2>3, <2>4, <2>6, <2>7, <2>8, <2>9
          DEF Inductive, NotUp, Loading, Stopped, OnDiskIndexed, PrioritiesSurvive
<1>17. ASSUME NEW P \in SUBSET File, MarkExistingFiles(P) PROVE Inductive'
  <2> DEFINE M == Marked(P)
             marked == [cm EXCEPT !.bitset = cm.bitset \cup M,
                                  !.todo = cm.todo \ M,
                                  !.onDisk = cm.onDisk \cup M,
                                  !.recalc = TRUE]
  <2>1. /\ cm.phase = "up" /\ ~running /\ cm' = Recalculate(marked)
        /\ index' = marked.onDisk /\ savedPrio' = fprio
        /\ UNCHANGED <<fprio, running, savedCur>>
    BY <1>17 DEF MarkExistingFiles
  <2>2. M \in SUBSET Chunk
    BY DEF Marked
  <2> HIDE DEF M
  <2>3. marked \in SessionType
    BY <1>a, <2>2 DEF SessionType
  <2>4. /\ marked.phase = cm.phase /\ marked.excluded = cm.excluded
        /\ marked.onlySeed = cm.onlySeed /\ marked.prio = cm.prio /\ marked.cur = cm.cur
        /\ marked.sel = cm.sel /\ marked.bitset = cm.bitset \cup M
        /\ marked.todo = cm.todo \ M /\ marked.onDisk = cm.onDisk \cup M
    BY <1>a DEF SessionType
  <2> HIDE DEF marked
  <2>5. /\ cm'.phase = marked.phase /\ cm'.bitset = marked.bitset
        /\ cm'.onDisk = marked.onDisk /\ cm'.todo = marked.todo
        /\ cm'.sel = marked.sel /\ cm'.cur = marked.cur
        /\ cm'.excluded = marked.excluded /\ cm'.onlySeed = marked.onlySeed
        /\ cm'.prio = marked.prio
    BY <1>h, <2>1, <2>3
  <2>6. cm.cur = {} /\ savedCur \cap (cm.bitset \ cm.onDisk) = {}
    BY <1>b, <2>1 DEF Stopped
  <2>7. \A d \in Chunk : Consistent(cm', fprio', d) /\ Offered(cm', d)
    BY <1>b, <2>1, <2>4, <2>5, <2>6 DEF Consistent, Offered
  <2> QED BY <1>0, <2>1, <2>4, <2>5, <2>6, <2>7
          DEF Inductive, NotUp, Loading, Stopped, OnDiskIndexed, PrioritiesSurvive
<1>18. ASSUME NEW M \in SUBSET File, RecreateMissingFiles(M) PROVE Inductive'
  <2> DEFINE r == ResetChunk(cm, Recreated(M))
             reset == [r EXCEPT !.recalc = TRUE]
             q == Recalculate(reset)
  <2>1. /\ cm.phase = "up" /\ ~running /\ cm' = SelectorChecked(q, Chunk, reset.bitset)
        /\ index' = reset.onDisk /\ savedPrio' = fprio
        /\ UNCHANGED <<fprio, running, savedCur>>
    BY <1>18 DEF RecreateMissingFiles
  <2>2. Recreated(M) \in SUBSET Chunk
    BY PreviewRangeType DEF Recreated
  <2>3. r \in SessionType
    BY <1>a, <2>2, ResetChunkType
  <2>4. \A d \in Chunk : Reset(cm, r, d) \/ Same(cm, r, d)
    BY <1>a, <2>2, ResetChunkView
  <2> HIDE DEF r
  <2>5. /\ reset \in SessionType /\ reset.phase = r.phase /\ reset.bitset = r.bitset
        /\ reset.onDisk = r.onDisk /\ reset.todo = r.todo
        /\ reset.sel = r.sel /\ reset.cur = r.cur
        /\ reset.excluded = r.excluded /\ reset.onlySeed = r.onlySeed
        /\ reset.prio = r.prio
    BY <2>3 DEF SessionType
  <2> HIDE DEF reset
  <2>6. /\ q \in SessionType /\ q.phase = r.phase /\ q.bitset = r.bitset
        /\ q.onDisk = r.onDisk /\ q.todo = r.todo /\ q.cur = r.cur
        /\ q.excluded = r.excluded /\ q.onlySeed = r.onlySeed /\ q.prio = r.prio
    BY <1>h, <2>5, RecalculateType
  <2> HIDE DEF q
  <2>7. /\ cm'.phase = r.phase /\ cm'.bitset = r.bitset
        /\ cm'.onDisk = r.onDisk /\ cm'.todo = r.todo /\ cm'.cur = r.cur
        /\ cm'.excluded = r.excluded /\ cm'.onlySeed = r.onlySeed /\ cm'.prio = r.prio
        /\ \A d \in Chunk : d \notin r.bitset => d \in cm'.sel
    BY <2>1, <2>5, <2>6 DEF SelectorChecked, SessionType
  <2>8. cm.cur = {} /\ savedCur \cap (cm.bitset \ cm.onDisk) = {} /\ ~DuringLoad(cm)
    BY <1>b, <2>1 DEF Stopped, DuringLoad
  <2>9. \A d \in Chunk : Consistent(cm', fprio', d) /\ Offered(cm', d)
    BY <1>b, <2>1, <2>4, <2>7, <2>8 DEF Consistent, Offered, Reset, Same
  <2>10. /\ cm'.bitset \ cm'.onDisk \subseteq cm.bitset \ cm.onDisk
         /\ cm'.phase = "up" /\ cm'.cur = {}
    <3>1. \A d \in Chunk : /\ d \notin r.cur
                           /\ d \in r.bitset /\ d \notin r.onDisk =>
                                 d \in cm.bitset /\ d \notin cm.onDisk
      BY <2>4, <2>8 DEF Reset, Same
    <3>2. r.phase = "up"
      <4>1. 0 \in Chunk
        BY SizeAssumption DEF Chunk
      <4> QED BY <4>1, <2>1, <2>4 DEF Reset, Same
    <3> QED BY <2>3, <2>7, <3>1, <3>2 DEF SessionType
  <2> QED BY <1>0, <2>1, <2>5, <2>7, <2>8, <2>9, <2>10
          DEF Inductive, NotUp, Loading, Stopped, OnDiskIndexed, PrioritiesSurvive
<1>19. ASSUME NEW f \in File, DndMissingFile(f) PROVE Inductive'
  <2> DEFINE fp == SetTo(fprio, f, EXCLUDED)
             r == ResetChunk(cm, ChunksOf(f))
             t == DownloadPriorityChanged(r, fp, f, fprio[f])
             s2 == [t EXCEPT !.recalc = TRUE]
             q == Recalculate(s2)
  <2>1. /\ cm.phase = "up" /\ ~running /\ cm' = SelectorChecked(q, Chunk, s2.bitset)
        /\ index' = s2.onDisk /\ fprio' = fp /\ savedPrio' = fp
        /\ UNCHANGED <<running, savedCur>>
    BY <1>19 DEF DndMissingFile
  <2>2. fp \in FPrio /\ fprio[f] \in FilePriority /\ EXCLUDED \in FilePriority
    BY <1>a, SetToType, PriorityTypes DEF FPrio
  <2>3. r \in SessionType
    BY <1>a, ResetChunkType, PreviewRangeType
  <2>4. t \in SessionType
    BY <2>2, <2>3, DownloadPriorityChangedType
  <2>5. \A d \in Chunk : Reset(cm, r, d) \/ Same(cm, r, d)
    BY <1>a, PreviewRangeType, ResetChunkView
  <2>6. cm.cur = {} /\ savedCur \cap (cm.bitset \ cm.onDisk) = {} /\ ~DuringLoad(cm)
    BY <1>b, <2>1 DEF Stopped, DuringLoad
  <2>7. \A d \in Chunk : /\ Before(r, fprio, d) /\ r.phase = "up" /\ d \notin r.cur
                         /\ d \in r.bitset /\ d \notin r.onDisk =>
                               d \in cm.bitset /\ d \notin cm.onDisk
    <3> HIDE DEF r
    <3> QED BY <1>b, <2>1, <2>5, <2>6 DEF Before, Consistent, Reset, Same, DuringLoad
  <2>8. \A d \in Chunk : After(r, t, fp, f, d)
    BY <1>a, <2>2, <2>3, <2>7, ChangeKeeps
  <2> HIDE DEF r, t, fp
  <2>9. /\ s2 \in SessionType /\ s2.phase = t.phase /\ s2.bitset = t.bitset
        /\ s2.onDisk = t.onDisk /\ s2.todo = t.todo
        /\ s2.sel = t.sel /\ s2.cur = t.cur
        /\ s2.excluded = t.excluded /\ s2.onlySeed = t.onlySeed
        /\ s2.prio = t.prio
    BY <2>4 DEF SessionType
  <2> HIDE DEF s2
  <2>10. /\ q \in SessionType /\ q.phase = t.phase /\ q.bitset = t.bitset
         /\ q.onDisk = t.onDisk /\ q.todo = t.todo /\ q.cur = t.cur
         /\ q.excluded = t.excluded /\ q.onlySeed = t.onlySeed /\ q.prio = t.prio
    BY <1>h, <2>9, RecalculateType
  <2> HIDE DEF q
  <2>11. /\ cm'.phase = t.phase /\ cm'.bitset = t.bitset
         /\ cm'.onDisk = t.onDisk /\ cm'.todo = t.todo /\ cm'.cur = t.cur
         /\ cm'.excluded = t.excluded /\ cm'.onlySeed = t.onlySeed /\ cm'.prio = t.prio
         /\ \A d \in Chunk : d \notin t.bitset => d \in cm'.sel
    BY <2>1, <2>9, <2>10 DEF SelectorChecked, SessionType
  <2>12. \A d \in Chunk : Consistent(cm', fprio', d) /\ Offered(cm', d)
    <3>1. \A d \in Chunk : Consistent(t, fp, d)
      BY <2>8 DEF After
    <3> QED BY <2>1, <2>11, <3>1 DEF Consistent, Offered
  <2>13. /\ cm'.bitset \ cm'.onDisk \subseteq cm.bitset \ cm.onDisk
         /\ cm'.phase = "up" /\ cm'.cur = {}
    <3>1. \A d \in Chunk : /\ d \notin t.cur
                           /\ d \in t.bitset /\ d \notin t.onDisk =>
                                 d \in cm.bitset /\ d \notin cm.onDisk
      BY <2>7, <2>8 DEF After
    <3>2. t.phase = "up"
      <4>1. 0 \in Chunk
        BY SizeAssumption DEF Chunk
      <4> QED BY <4>1, <2>7, <2>8 DEF After
    <3> QED BY <2>4, <2>11, <3>1, <3>2 DEF SessionType
  <2> QED BY <1>0, <2>1, <2>6, <2>9, <2>11, <2>12, <2>13
          DEF Inductive, NotUp, Loading, Stopped, OnDiskIndexed, PrioritiesSurvive
<1>20. CASE UNCHANGED vars
  BY <1>20 DEF vars, Inductive, TypeOK, Consistent, Offered, NotUp, Loading, Stopped,
               OnDiskIndexed, PrioritiesSurvive, DuringLoad
<1>21. \A a, b \in Chunk : a .. b \in SUBSET Chunk
  BY SizeAssumption DEF Chunk
<1> QED BY <1>1, <1>2, <1>3, <1>4, <1>5, <1>6, <1>7, <1>8, <1>9, <1>10, <1>11, <1>12,
           <1>13, <1>14, <1>15, <1>16, <1>17, <1>18, <1>19, <1>20, <1>21 DEF Next

-----------------------------------------------------------------------------
\* The chunk bookkeeping is consistent, chunk by chunk, in every layout in which
\* no file of two chunks starts in a shared chunk: what downloadStatusChanged,
\* downloadPriorityChanged, the index file and the selector do to a chunk agrees
\* with the priorities of its files.
THEOREM Bookkeeping ==
    ASSUME NoTwoChunkOverlap
    PROVE  Spec => []Inductive
<1>1. Inductive /\ [Next]_vars => Inductive'
  BY NextInductive
<1> QED BY <1>1, InitInductive, PTL DEF Spec

\* The todo bitset is the complement of what we have, exclude and only seed.
THEOREM TodoIsExact == ASSUME NoTwoChunkOverlap PROVE Spec => []TodoExact
<1>1. Inductive => TodoExact
  <2> SUFFICES ASSUME Inductive PROVE TodoExact
    OBVIOUS
  <2>1. cm.todo \in SUBSET Chunk
    BY Unpack DEF SessionType
  <2> QED BY <2>1 DEF Inductive, TodoExact, Consistent
<1> QED BY <1>1, Bookkeeping, PTL

\* The chunks follow the priorities of the files, in whatever order the user
\* sets them and however often the program is restarted.
THEOREM ChunksFollowFiles == ASSUME NoTwoChunkOverlap PROVE Spec => []FilesDecide
<1>1. Inductive => FilesDecide
  BY DEF Inductive, FilesDecide, ChunkFollowsFiles, Consistent
<1> QED BY <1>1, Bookkeeping, PTL

\* ChunkSelector never loses a chunk that is still to be downloaded.
THEOREM SelectorComplete == ASSUME NoTwoChunkOverlap PROVE Spec => []TodoSelectable
<1>1. Inductive => TodoSelectable
  <2> SUFFICES ASSUME Inductive PROVE TodoSelectable
    OBVIOUS
  <2>1. cm.todo \in SUBSET Chunk
    BY Unpack DEF SessionType
  <2> QED BY <2>1 DEF Inductive, TodoSelectable, Offered
<1> QED BY <1>1, Bookkeeping, PTL

\* No chunk is downloaded that we have or that is excluded.
THEOREM NoIdleDownload == ASSUME NoTwoChunkOverlap PROVE Spec => []DownloadsNeeded
<1>1. Inductive => DownloadsNeeded
  <2> SUFFICES ASSUME Inductive PROVE DownloadsNeeded
    OBVIOUS
  <2>1. cm.cur \in SUBSET Chunk
    BY Unpack DEF SessionType
  <2> QED BY <2>1 DEF Inductive, DownloadsNeeded, Consistent
<1> QED BY <1>1, Bookkeeping, PTL

\* A crash at any moment loses neither a finished chunk nor a priority.
THEOREM CrashSafe ==
    ASSUME NoTwoChunkOverlap
    PROVE  Spec => []SurvivesCrash
<1>1. Inductive => SurvivesCrash
  BY DEF Inductive, SurvivesCrash
<1> QED BY <1>1, Bookkeeping, PTL

\* Changing the priority of a file drops no chunk that another file needs.
THEOREM NeighboursAreKept == ASSUME NoTwoChunkOverlap PROVE Spec => NeighboursKept
<1> DEFINE A == \A f \in File, p \in UserPriority : SetPriority(f, p) =>
                   \A c \in cm.bitset \ cm'.bitset :
                      \A g \in FilesOf(c) : fprio'[g] = EXCLUDED
<1>1. ASSUME Inductive PROVE A
  <2> SUFFICES ASSUME NEW f \in File, NEW p \in UserPriority, SetPriority(f, p),
                      NEW c \in cm.bitset \ cm'.bitset
               PROVE  \A g \in FilesOf(c) : fprio'[g] = EXCLUDED
    OBVIOUS
  <2>1. cm \in SessionType /\ fprio \in FPrio /\ c \in Chunk /\ Before(cm, fprio, c)
    BY <1>1, Unpack DEF SessionType
  <2>2. p \in FilePriority
    BY SizeAssumption
  <2>3. cm' = PriorityChange(cm, fprio, f, p) /\ fprio' = SetTo(fprio, f, p)
    BY DEF SetPriority
  <2>4. After(cm, cm', fprio', f, c)
    BY <2>1, <2>2, <2>3, PriorityChangeKeeps
  <2> QED BY <2>4 DEF After
<1>2. Inductive => [A]_vars
  BY <1>1
<1>3. Spec => [][A]_vars
  BY <1>2, Bookkeeping, PTL
<1> QED BY <1>3 DEF NeighboursKept
=============================================================================
