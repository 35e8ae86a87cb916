--------------------------- MODULE TorrentLayout ---------------------------
(***************************************************************************)
(* How the files of a torrent lie over its chunks:                         *)
(* src/src/torrent/{torrent,torrentfile}.cpp. A byte of the torrent is its *)
(* position, so that a byte in the wrong place shows.                      *)
(***************************************************************************)
EXTENDS Integers, Sequences, FiniteSets, SequencesExt

CONSTANTS Layouts,      \* [size: sizes of the files, single: not a multi-file torrent]
          CS            \* Torrent::getChunkSize

ASSUME LayoutAssumption ==
    /\ CS \in Nat \ {0}
    /\ \A l \in Layouts : /\ l.size # <<>> /\ \A i \in DOMAIN l.size : l.size[i] \in Nat
                          /\ l.single => Len(l.size) = 1

VARIABLE lay            \* the torrent

Junk == -1              \* a byte nobody wrote: zeros of a hole or an old buffer

Smaller(a, b) == IF a < b THEN a ELSE b

\* TorrentFile::TorrentFile
TorrentFile(off, size) ==
    LET last == IF size > 0 THEN (off + size - 1) \div CS ELSE off \div CS
    IN  [size |-> size, first_chunk |-> off \div CS, first_chunk_off |-> off % CS,
         last_chunk |-> last, last_chunk_size |-> off + size - last * CS]

\* Torrent::loadFiles, and what calcChunkPos finds for each chunk.
Torrent(l) ==
    LET off[i \in 0 .. Len(l.size)] == IF i = 0 THEN 0 ELSE off[i - 1] + l.size[i]
        files == [i \in DOMAIN l.size |-> TorrentFile(off[i - 1], l.size[i])]
        total == off[Len(l.size)]
        chunks == (total + CS - 1) \div CS
    IN  [single |-> l.single, file |-> files, total |-> total, chunks |-> chunks,
         pos |-> [c \in 0 .. chunks - 1 |->
                    SelectSeq([i \in DOMAIN files |-> i],
                        LAMBDA f : /\ files[f].first_chunk <= c /\ c <= files[f].last_chunk
                                   /\ files[f].size # 0)]]

File == DOMAIN lay.file
Chunk == 0 .. lay.chunks - 1
Bytes(c, off, len) == [i \in 1 .. len |-> c * CS + off + i - 1]
SizeOf(c) == Smaller(CS, lay.total - c * CS)
FirstChunk(f) == lay.file[f].first_chunk
FirstChunkOff(f) == lay.file[f].first_chunk_off
LastChunk(f) == lay.file[f].last_chunk
LastChunkSize(f) == lay.file[f].last_chunk_size
FileSize(f) == lay.file[f].size
CalcChunkPos(c) == lay.pos[c]

\* TorrentFile::fileOffset
FileOffset(f, c) ==
    IF FirstChunkOff(f) = 0 THEN (c - FirstChunk(f)) * CS
    ELSE (IF c > FirstChunk(f) THEN (c - FirstChunk(f) - 1) * CS ELSE 0)
         + (IF c > 0 THEN CS - FirstChunkOff(f) ELSE 0)

\* How much of chunk c is in the i-th of its files L, as the loops count it.
ChunkData(c, L, i, before) ==
    CASE Len(L) = 1 -> SizeOf(c)
      [] Len(L) > 1 /\ i = 1 -> LastChunkSize(L[i])
      [] i > 1 /\ i = Len(L) -> SizeOf(c) - before
      [] OTHER -> FileSize(L[i])

LayoutInit == \E l \in Layouts : lay = Torrent(l)
=============================================================================
