----------------------------- MODULE DiskCache -----------------------------
(***************************************************************************)
(* Where the bytes of a torrent are kept: files laid over chunks, dnd      *)
(* files with the first and the last chunk of files that are not           *)
(* downloaded, and the cache of pieces, mapped or buffered.                *)
(* src/src/diskio/{cache,cachefile,dndfile,piecedata,multifilecache,       *)
(* singlefilecache}.cpp, src/src/datachecker/{single,multi}datachecker.cpp *)
(***************************************************************************)
EXTENDS TorrentLayout

CONSTANTS PieceLen,     \* MAX_PIECE_LEN
          MaxPieces     \* bound: pieces in the cache

ASSUME DiskCacheAssumption == PieceLen \in 1 .. CS /\ MaxPieces \in Nat

VARIABLE dc     \* disk, dnd files, cache and the pieces that were saved

dcVars == <<lay, dc>>

(************************* Pieces of a chunk *******************************)

NumPieces(c) == (SizeOf(c) + PieceLen - 1) \div PieceLen
Piece(c) == 0 .. NumPieces(c) - 1
PieceOff(p) == p * PieceLen
PieceSize(c, p) == Smaller(PieceLen, SizeOf(c) - PieceOff(p))

(***************************** CacheFile ***********************************)

Unreadable == <<-2>>
WriteAt(s, off, b) ==
    [i \in 1 .. (IF off + Len(b) > Len(s) THEN off + Len(b) ELSE Len(s)) |->
        IF i > off /\ i <= off + Len(b) THEN b[i - off] ELSE IF i <= Len(s) THEN s[i] ELSE Junk]
ReadUpTo(s, off, len) == SubSeq(s, off + 1, Smaller(off + len, Len(s)))
Padded(s, len) == [i \in 1 .. len |-> IF i <= Len(s) THEN s[i] ELSE Junk]

\* read: past the end is an error; write: past the maximum size is one.
CacheRead(W, f, off, len) ==
    IF off + len > Len(W.disk[f].data) THEN Unreadable ELSE ReadUpTo(W.disk[f].data, off, len)
CacheWrite(W, f, off, b) ==
    IF off + Len(b) > FileSize(f) THEN W
    ELSE [W EXCEPT !.disk[f] = [there |-> TRUE, data |-> WriteAt(@.data, off, b)]]
\* map: the file grows to what is mapped.
GrowFile(W, f, size) ==
    [W EXCEPT !.disk[f] = [there |-> TRUE,
                           data |-> Padded(@.data, IF size > Len(@.data) THEN size ELSE Len(@.data))]]

(****************************** DNDFile ************************************)

DndFirstSize(f) == CS - FirstChunkOff(f)
Create(W, f) == IF W.dnd[f].there THEN W ELSE [W EXCEPT !.dnd[f] = [there |-> TRUE, data |-> <<>>]]
ReadFirstChunk(W, f, off, len) == ReadUpTo(W.dnd[f].data, off, len)
ReadLastChunk(W, f, off, len) == ReadUpTo(W.dnd[f].data, DndFirstSize(f) + off, len)
WriteFirstChunk(W, f, off, b) == [Create(W, f) EXCEPT !.dnd[f].data = WriteAt(@, off, b)]
\* Mutant: the last chunk is put at the offset of the first.
WriteLastChunkOver(W, f, off, b) == [Create(W, f) EXCEPT !.dnd[f].data = WriteAt(@, off, b)]

WriteLastChunk(W, f, off, b) ==
    [Create(W, f) EXCEPT !.dnd[f].data = WriteAt(@, DndFirstSize(f) + off, b)]

(************************** MultiFileCache *********************************)

\* calculateOffsetAndLength: the part of a piece in one file of its chunk.
CalculateOffsetAndLength(off, len, foff, coff, clen) ==
    CASE off >= coff /\ off + len <= coff + clen -> [off |-> foff + (off - coff), len |-> len]
      [] off >= coff /\ off < coff + clen /\ off + len > coff + clen ->
            [off |-> foff + (off - coff), len |-> clen - (off - coff)]
      [] off < coff /\ off + len > coff /\ off + len <= coff + clen ->
            [off |-> foff, len |-> len - (coff - off)]
      [] off < coff /\ coff + clen < off + len -> [off |-> foff, len |-> clen]
      [] OTHER -> [off |-> 0, len |-> 0]

\* The parts of a piece, in the order of the files: where each is in its file.
Parts(c, off, len) ==
    LET L == CalcChunkPos(c)
        upto[i \in 0 .. Len(L)] ==
            IF i = 0 THEN 0 ELSE upto[i - 1] + ChunkData(c, L, i, upto[i - 1])
        part(i) == LET foff == IF i = 1 THEN FileOffset(L[i], c) ELSE 0
                       d == CalculateOffsetAndLength(off, len, foff, upto[i - 1], upto[i] - upto[i - 1])
                   IN  [f |-> L[i], i |-> i, foff |-> foff, off |-> d.off, len |-> d.len]
    IN  [i \in 1 .. Len(L) |-> part(i)]
Touched(c, off, len) ==
    SelectSeq(Parts(c, off, len), LAMBDA x : x.len > 0)

\* loadPiece of a buffered piece. A short read of a dnd file leaves old bytes.
ReadPart(W, x) ==
    CASE x.f \in W.files -> CacheRead(W, x.f, x.off, x.len)
      [] x.f \notin W.files /\ x.f \in W.dnds ->
            Padded(IF x.i = 1 THEN ReadLastChunk(W, x.f, x.off - x.foff, x.len)
                   ELSE ReadFirstChunk(W, x.f, x.off, x.len), x.len)
      [] OTHER -> Padded(<<>>, x.len)
LoadBuffered(W, c, off, len) ==
    FlattenSeq([i \in DOMAIN Touched(c, off, len) |-> ReadPart(W, Touched(c, off, len)[i])])

\* savePiece of a buffered piece.
WritePart(W, x, b) ==
    CASE x.f \in W.files -> CacheWrite(W, x.f, x.off, b)
      [] x.f \notin W.files /\ x.f \in W.dnds ->
            IF x.i = 1 THEN WriteLastChunk(W, x.f, x.off - x.foff, b)
            ELSE WriteFirstChunk(W, x.f, x.off, b)
      [] OTHER -> W
SaveBuffered(W, c, off, b) ==
    LET T == Touched(c, off, Len(b))
        at[i \in 0 .. Len(T)] == IF i = 0 THEN 0 ELSE at[i - 1] + T[i].len
        done[i \in 0 .. Len(T)] ==
            IF i = 0 THEN W ELSE WritePart(done[i - 1], T[i], SubSeq(b, at[i - 1] + 1, at[i]))
    IN  done[Len(T)]

Open(W) ==
    IF W.opened THEN W
    ELSE [W EXCEPT !.files = (File \ W.off) \cup (W.files \cap W.off),
                   !.dnds = @ \cup W.off,
                   !.dnd = [f \in File |-> IF f \in W.off THEN [@[f] EXCEPT !.there = TRUE] ELSE @[f]],
                   !.opened = TRUE]

\* clearPieceCache, checkMemoryUsage: pieces in use stay.
ClearUnused(W) == [W EXCEPT !.pieces = {p \in @ : p.used}]
Close(W) ==
    LET C == ClearUnused(W)
    IN  [C EXCEPT !.files = IF C.pieces = {} THEN {} ELSE @, !.opened = FALSE]

SaveFirstAndLastChunk(W, f) ==
    LET cs == IF FirstChunk(f) = lay.chunks - 1 THEN SizeOf(FirstChunk(f)) ELSE CS
        n == cs - FirstChunkOff(f)
        D == WriteFirstChunk(W, f, 0, Padded(ReadUpTo(W.disk[f].data, 0, n), n))
        k == LastChunkSize(f)
    IN  IF FirstChunk(f) = LastChunk(f) THEN D
        ELSE WriteLastChunk(D, f, 0,
               Padded(ReadUpTo(W.disk[f].data, FileOffset(f, LastChunk(f)), k), k))

RecreateFile(W, f) ==
    LET cs == IF FirstChunk(f) = lay.chunks - 1 THEN SizeOf(FirstChunk(f)) ELSE CS
        a == WriteAt(<<>>, 0, ReadFirstChunk(W, f, 0, Smaller(cs - FirstChunkOff(f), FileSize(f))))
        b == ReadLastChunk(W, f, 0, LastChunkSize(f))
    IN  [W EXCEPT !.disk[f] =
            [there |-> TRUE,
             data |-> IF FirstChunk(f) = LastChunk(f) \/ b = <<>> THEN a
                      ELSE WriteAt(a, FileOffset(f, LastChunk(f)), b)]]

\* A piece mapped from a file that is deleted keeps the bytes of that file.
Orphaned(W, f) ==
    [W EXCEPT !.pieces = {IF p.map = f THEN [p EXCEPT !.map = 0, !.data =
                               ReadUpTo(W.disk[f].data, FileOffset(f, p.c) + p.off, p.len)]
                          ELSE p : p \in @}]

\* MultiFileCache::downloadStatusChanged; a single file has no such thing.
DownloadStatusChanged(W, f, download) ==
    CASE lay.single -> W
      [] ~lay.single /\ ~download /\ ~W.dnd[f].there ->
            LET S == IF W.disk[f].there THEN SaveFirstAndLastChunk(W, f) ELSE W
            IN  Create([Orphaned(S, f) EXCEPT !.disk[f] = [there |-> FALSE, data |-> <<>>],
                                              !.files = @ \ {f}, !.dnds = @ \cup {f}], f)
      [] ~lay.single /\ download /\ ~W.disk[f].there ->
            [RecreateFile(W, f) EXCEPT !.dnd[f] = [there |-> FALSE, data |-> <<>>],
                                       !.dnds = @ \ {f}, !.files = @ \cup {f}]
      [] OTHER -> W

(************************** Cache and pieces *******************************)

\* PieceData: mapped from file map, or with bytes of its own (map = 0).
MkPiece(c, p, rw, map, data) ==
    [c |-> c, off |-> PieceOff(p), len |-> PieceSize(c, p), rw |-> rw, map |-> map, data |-> data,
     used |-> TRUE]
DataOf(W, x) ==
    IF x.map = 0 THEN x.data
    ELSE ReadUpTo(W.disk[x.map].data, FileOffset(x.map, x.c) + x.off, x.len)
FindPiece(W, c, p, read_only) ==
    {x \in W.pieces : x.c = c /\ x.off = PieceOff(p) /\ (read_only \/ x.rw)}

\* createPiece: a chunk in one file is mapped if possible; the cache fails
\* for a chunk in one file that is not downloaded.
Creatable(W, c) == Len(CalcChunkPos(c)) > 1 \/ CalcChunkPos(c)[1] \in W.files
Mappable(c) == Len(CalcChunkPos(c)) = 1
MapPiece(W, c, p, rw) ==
    LET f == CalcChunkPos(c)[1]
        x == MkPiece(c, p, rw, f, <<>>)
    IN  [GrowFile(W, f, FileOffset(f, c) + x.off + x.len) EXCEPT !.pieces = @ \cup {x}]

\* resetChunk, of which the cache drops the pieces.
ClearPieces(W, c) == [W EXCEPT !.pieces = {x \in @ : x.c # c}, !.have = {h \in @ : h[1] # c}]

(****************** The chunks a file that is excluded resets **************)

NeedsOther(W, c, f) == \E i \in DOMAIN CalcChunkPos(c) :
                            CalcChunkPos(c)[i] # f /\ CalcChunkPos(c)[i] \notin W.off
ResetBy(W, f) ==
    LET a == FirstChunk(f)
        b == LastChunk(f)
        first == IF NeedsOther(W, a, f) THEN {} ELSE {a}
        skip == first = {} /\ a + 1 = b
    IN  IF a = b THEN first
        ELSE (a + 1 .. b - 1) \cup first \cup (IF skip \/ NeedsOther(W, b, f) THEN {} ELSE {b})

Exclude(W, f) ==
    LET R == ResetBy(W, f)
        reset[S \in SUBSET R] ==
            IF S = {} THEN W
            ELSE LET c == CHOOSE c \in S : TRUE IN ClearPieces(reset[S \ {c}], c)
    IN  DownloadStatusChanged([reset[R] EXCEPT !.off = @ \cup {f}], f, FALSE)

Include(W, f) == DownloadStatusChanged([W EXCEPT !.off = @ \ {f}], f, TRUE)

(******************************* Behaviour *********************************)

\* A torrent that was just added: create() has made the files.
DcFresh ==
    dc = [disk |-> [f \in DOMAIN lay.file |-> [there |-> TRUE, data |-> <<>>]],
          dnd |-> [f \in File |-> [there |-> FALSE, data |-> <<>>]],
          off |-> {},             \* TorrentFile::doNotDownload
          files |-> {}, dnds |-> {}, opened |-> FALSE,
          pieces |-> {}, have |-> {}]
DcInit == LayoutInit /\ DcFresh

DcBecome(W) == dc' = W /\ UNCHANGED lay

\* A chunk some file wants, which chunk downloads and uploads are about.
Wanted(W, c) == \E i \in DOMAIN CalcChunkPos(c) : CalcChunkPos(c)[i] \notin W.off

\* A piece arrives: preparePiece, and its bytes are written to it.
Arrive(c, p) ==
    /\ Wanted(dc, c) /\ <<c, p>> \notin dc.have /\ Cardinality(dc.pieces) < MaxPieces
    /\ \E W \in {Open(dc)} :
         /\ Creatable(W, c) /\ FindPiece(W, c, p, FALSE) = {}
         /\ \/ DcBecome([W EXCEPT !.pieces = @ \cup
                  {MkPiece(c, p, TRUE, 0, Bytes(c, PieceOff(p), PieceSize(c, p)))}])
            \/ /\ Mappable(c)
               /\ \E M \in {MapPiece(W, c, p, TRUE)} :
                    DcBecome(CacheWrite(M, CalcChunkPos(c)[1],
                               FileOffset(CalcChunkPos(c)[1], c) + PieceOff(p),
                               Bytes(c, PieceOff(p), PieceSize(c, p))))

\* savePiece once the piece is part of the hash; then the chunk download may
\* drop it.
SavePiece(c, p) ==
    /\ <<c, p>> \notin dc.have
    /\ \E x \in FindPiece(dc, c, p, FALSE) : \E W \in {Open(dc)} :
         DcBecome([(IF x.map # 0 THEN W
                    ELSE SaveBuffered(W, c, x.off, x.data)) EXCEPT !.have = @ \cup {<<c, p>>}])

\* loadPiece for an upload, or for a chunk download that is resumed.
LoadPiece(c, p) ==
    /\ <<c, p>> \in dc.have /\ Cardinality(dc.pieces) < MaxPieces
    /\ \E W \in {Open(dc)} :
         IF FindPiece(W, c, p, TRUE) # {}
         THEN \E x \in FindPiece(W, c, p, TRUE) :
                DcBecome([W EXCEPT !.pieces = (@ \ {x}) \cup {[x EXCEPT !.used = TRUE]}])
         ELSE /\ Creatable(W, c)
              /\ \/ Mappable(c) /\ DcBecome(MapPiece(W, c, p, FALSE))
                 \/ /\ LoadBuffered(W, c, PieceOff(p), PieceSize(c, p)) # Unreadable
                    /\ DcBecome([W EXCEPT !.pieces = @ \cup
                         {MkPiece(c, p, FALSE, 0, LoadBuffered(W, c, PieceOff(p), PieceSize(c, p)))}])

Release(x) ==
    /\ x.used /\ (x.rw => \E h \in dc.have : h[1] = x.c /\ PieceOff(h[2]) = x.off)
    /\ DcBecome([dc EXCEPT !.pieces = (@ \ {x}) \cup {[x EXCEPT !.used = FALSE]}])
CheckMemoryUsage == DcBecome(ClearUnused(dc))
OpenCache == ~dc.opened /\ DcBecome(Open(dc))
CloseCache == dc.opened /\ DcBecome(Close(dc))
\* The hash of a finished chunk is wrong, or a check finds it damaged.
ResetChunk(c) == (\E h \in dc.have : h[1] = c) /\ DcBecome(ClearPieces(dc, c))
PreallocateFile(f) ==
    f \in dc.files /\ Len(dc.disk[f].data) < FileSize(f) /\ DcBecome(GrowFile(dc, f, FileSize(f)))
SetDoNotDownload(f) ==
    IF f \in dc.off THEN DcBecome(Include(dc, f)) ELSE DcBecome(Exclude(dc, f))
\* The process ends; what is on disk stays.
Exit == DcBecome([dc EXCEPT !.files = {}, !.dnds = {}, !.opened = FALSE, !.pieces = {}])

DcNext ==
    \/ \E c \in Chunk : ResetChunk(c) \/ \E p \in Piece(c) : Arrive(c, p) \/ SavePiece(c, p) \/ LoadPiece(c, p)
    \/ \E x \in dc.pieces : Release(x)
    \/ CheckMemoryUsage \/ OpenCache \/ CloseCache \/ Exit
    \/ \E f \in File : PreallocateFile(f) \/ SetDoNotDownload(f)

DcSpec == DcInit /\ [][DcNext]_dcVars

\* Types: no file grows past its size, a cached piece is as long as its piece.
DcTypeOK ==
    /\ dc.files \subseteq File /\ dc.dnds \subseteq File /\ dc.off \subseteq File
    /\ \A f \in File : Len(dc.disk[f].data) <= FileSize(f)
    /\ \A x \in dc.pieces : x.c \in Chunk /\ x.map \in File \cup {0} /\ Len(DataOf(dc, x)) = x.len

\* Mutant: a file that is not downloaded is always read at its first chunk.
CheckerPartFirst(W, x) ==
    IF x.f \in W.off THEN Padded(ReadFirstChunk(W, x.f, 0, x.len), x.len)
    ELSE ReadUpTo(W.disk[x.f].data, x.off, x.len)

\* MultiDataChecker::loadChunk, and what a check of a single file reads.
CheckerPart(W, x) ==
    IF x.f \in W.off
    THEN Padded(IF x.i = 1 THEN ReadLastChunk(W, x.f, 0, x.len)
                ELSE ReadFirstChunk(W, x.f, 0, x.len), x.len)
    ELSE ReadUpTo(W.disk[x.f].data, x.off, x.len)
LoadChunk(W, c) ==
    LET P == Parts(c, 0, SizeOf(c))
    IN  FlattenSeq([i \in DOMAIN P |-> CheckerPart(W, P[i])])
CheckSingle(W, c) == ReadUpTo(W.disk[1].data, c * CS, SizeOf(c))
CheckerReads(W, c) == IF lay.single THEN CheckSingle(W, c) ELSE LoadChunk(W, c)

\* TorrentCreator over the same files: the bytes whose hash it puts into the
\* new torrent for chunk c. Unlike a torrent's, its list has the empty files.
CreatorFiles(c) == SelectSeq([f \in 1 .. Len(lay.file) |-> f],
                             LAMBDA f : FirstChunk(f) <= c /\ c <= LastChunk(f))
CalcHashSingle(W, c) == ReadUpTo(W.disk[1].data, c * CS, SizeOf(c))
CalcHashMulti(W, c) ==
    LET L == CreatorFiles(c)
        upto[i \in 0 .. Len(L)] ==
            IF i = 0 THEN 0 ELSE upto[i - 1] + ChunkData(c, L, i, upto[i - 1])
    IN  FlattenSeq([i \in DOMAIN L |->
            Padded(ReadUpTo(W.disk[L[i]].data, IF i = 1 THEN FileOffset(L[i], c) ELSE 0,
                            upto[i] - upto[i - 1]), upto[i] - upto[i - 1])])
CalculateHash(W, c) == IF lay.single THEN CalcHashSingle(W, c) ELSE CalcHashMulti(W, c)

\* Every piece that was saved, of a chunk that was not reset, is what a later
\* read returns: from the cache or from disk, mapped or buffered, across
\* files, whatever files were excluded, included again or preallocated and
\* the cache closed meanwhile.
ReadBack ==
    DcTypeOK /\ \A h \in dc.have :
        LET W == Open(dc)
            b == Bytes(h[1], PieceOff(h[2]), PieceSize(h[1], h[2]))
        IN  Creatable(W, h[1]) =>
              IF FindPiece(W, h[1], h[2], TRUE) # {}
              THEN \A x \in FindPiece(W, h[1], h[2], TRUE) : DataOf(W, x) = b
              ELSE LoadBuffered(W, h[1], PieceOff(h[2]), PieceSize(h[1], h[2])) = b

Complete(c) == \A p \in Piece(c) : <<c, p>> \in dc.have

\* A check of the data finds every chunk that is complete, and a torrent made
\* from data that is complete has the chunks of this one.
CheckFindsIt ==
    /\ \A c \in Chunk : Complete(c) /\ Wanted(dc, c) => CheckerReads(dc, c) = Bytes(c, 0, SizeOf(c))
    /\ dc.off = {} /\ (\A c \in Chunk : Complete(c))
         => \A c \in Chunk : CalculateHash(dc, c) = Bytes(c, 0, SizeOf(c))
=============================================================================
