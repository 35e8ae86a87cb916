----------------------------- MODULE Streaming -----------------------------
(***************************************************************************)
(* Reading a file while it is downloaded: TorrentFileStream and the        *)
(* StreamingChunkSelector it puts into the downloader.                     *)
(* src/src/torrent/torrentfilestream.cpp,                                  *)
(* src/src/download/streamingchunkselector.cpp. Seeks stay in the file.    *)
(* bytes_readable is not kept: each read computes it first.                *)
(***************************************************************************)
EXTENDS TorrentLayout

CONSTANTS Window,       \* critical_window_size
          MaxChecks     \* bound: data checks and changes of the excluded chunks

VARIABLES have,         \* ChunkManager::getBitSet
          excl,         \* the chunks that are excluded or excluded for downloading
          st,           \* the stream
          sel,          \* its chunk selector
          seen          \* what was read and selected last, and ghosts
stVars == <<lay, have, excl, st, sel, seen>>

NoData == -1
NoFile == 0
NoStream == [f |-> NoFile, streaming |-> FALSE, opened |-> FALSE,
             device |-> FALSE,              \* QIODevice is open, which close leaves so
             pos |-> 0,
             chunk |-> 0, off |-> 0, data |-> NoData]
NoSel == [first |-> 0, last |-> 0, cursor |-> 0, range |-> <<>>, preview |-> {}]
Nothing == [pos |-> 0, bytes |-> <<>>, want |-> 0]
NotSelected == [kind |-> "none", missed |-> {}]

(************************* StreamingChunkSelector **************************)

Missing(a, b, H) == SelectSeq([i \in 1 .. (IF b < a THEN 0 ELSE b - a + 1) |-> a + i - 1],
                              LAMBDA c : c \notin H)
InitRange(S, H) == [S EXCEPT !.range = Missing(S.cursor, S.last, H)]

UpdateRange(S, H) ==
    LET T == IF S.range = <<>> \/ S.cursor < Head(S.range) THEN InitRange(S, H) ELSE S
    IN  [T EXCEPT !.range = SelectSeq(@, LAMBDA c : c \notin H /\ c >= S.cursor)]

SetCursor(S, c, H) == IF S.cursor = c THEN S ELSE UpdateRange([S EXCEPT !.cursor = c], H)
SetSequentialRange(a, b, preview, H) ==
    InitRange([first |-> a, last |-> b, cursor |-> a, range |-> <<>>, preview |-> preview], H)

Previews(f) == IF f = NoFile THEN {} ELSE {FirstChunk(f)}
Reincluded(S, a, b, H) == [InitRange(S, H) EXCEPT !.preview = @ \cup (Previews(st.f) \cap (a .. b))]
ReinsertChunk(S, c) ==
    [S EXCEPT !.preview = @ \cup (Previews(st.f) \cap {c}),
              !.range = IF S.cursor <= c /\ c <= S.last /\ ~Contains(@, c)
                        THEN SetToSortSeq(ToSet(@) \cup {c}, LAMBDA x, y : x < y) ELSE @]

Least(C, nd) == {c \in C : \A x \in C : nd[c] <= nd[x]}
\* selectFromPreview: not a chunk that enough peers download, unless slow.
PreviewChoice(S, peer, nd, slow) ==
    {c \in Least({x \in S.preview \ have : x \in peer /\ S.first <= x /\ x <= S.last}, nd) :
        nd[c] < 3 \/ slow}

\* select for a peer that has the chunks peer, where nd peers download each
\* chunk: a chunk of the window with the fewest, else the first one behind it
\* that nobody downloads, else what the default selector takes.
Select(S, peer, nd, slow) ==
    LET R == {c \in ToSet(S.range) \ have : c \in peer /\ c \notin excl}
        critical == {c \in R : c < S.cursor + Window}
    IN  CASE PreviewChoice(S, peer, nd, slow) # {} -> "preview"
          [] PreviewChoice(S, peer, nd, slow) = {} /\ critical # {} -> "critical"
          [] PreviewChoice(S, peer, nd, slow) = {} /\ critical = {} /\ (\E c \in R : nd[c] = 0) -> "behind"
          [] OTHER -> "default"

(*************************** TorrentFileStream *****************************)

FirstOff(f) == IF lay.single THEN 0 ELSE FirstChunkOff(f)
LastSize(f) == IF lay.single THEN SizeOf(LastChunk(f)) ELSE LastChunkSize(f)

\* update: the bytes that can be read from the current position.
BytesReadable(S, H) ==
    LET a == FirstChunk(S.f)
        b == LastChunk(S.f)
        size(c) == IF c = b THEN LastSize(S.f) ELSE SizeOf(c)
        sum[c \in S.chunk .. b + 1] == IF c <= b /\ c \in H THEN size(c) + sum[c + 1] ELSE 0
    IN  CASE a = b -> IF a \in H THEN FileSize(S.f) - S.pos ELSE 0
          [] a # b /\ S.chunk \notin H \cap (a .. b) -> 0
          [] OTHER -> sum[S.chunk] - S.off

\* Mutant: the chunk that was read before is kept.
SeekKeepingData(S, p) ==
    LET at == FirstChunk(S.f) * CS + FirstOff(S.f) + p
    IN  [S EXCEPT !.pos = p, !.chunk = at \div CS, !.off = at % CS]

SeekTo(S, p) ==
    LET at == FirstChunk(S.f) * CS + FirstOff(S.f) + p
    IN  [S EXCEPT !.pos = p, !.chunk = at \div CS, !.off = at % CS, !.data = NoData]

ResetStream(S) ==
    [S EXCEPT !.pos = 0, !.chunk = FirstChunk(S.f), !.off = FirstOff(S.f), !.data = NoData]

\* readCurrentChunk: at most max bytes of the current chunk.
ReadCurrentChunk(X, max) ==
    LET S == X.st
        from == IF S.data = NoData THEN S.chunk ELSE S.data
        n == Smaller(SizeOf(S.chunk) - S.off, max)
        done == S.off + n = SizeOf(S.chunk)
    IN  [X EXCEPT !.bytes = @ \o Bytes(from, S.off, n),
                  !.st = [S EXCEPT !.pos = @ + n, !.off = IF done THEN 0 ELSE @ + n,
                                   !.chunk = IF done THEN @ + 1 ELSE @,
                                   !.data = IF done THEN NoData ELSE from],
                  !.sel = IF done /\ S.streaming THEN SetCursor(@, S.chunk + 1, X.have) ELSE @]

\* readData; bad: chunks that cannot be loaded from disk.
RECURSIVE ReadData(_, _, _)
ReadData(X, max, bad) ==
    LET left == Smaller(X.readable, max) - Len(X.bytes)
    IN  IF left <= 0 \/ (X.st.data = NoData /\ X.st.chunk \in bad) THEN X
        ELSE CHOOSE r \in {ReadData(y, max, bad) : y \in {ReadCurrentChunk(X, left)}} : TRUE

(******************************* Behaviour *********************************)

StFresh ==
    /\ have = {} /\ excl = {} /\ st = NoStream /\ sel = NoSel
    /\ seen = [read |-> Nothing, choice |-> NotSelected, lost |-> {}, rewound |-> FALSE, changes |-> 0]
StInit == LayoutInit /\ StFresh

Live == st.f # NoFile
Bounded(g) == g.changes < MaxChecks

\* The stream and its selector after a step, when H is the bitset, and the
\* chunks a data check found missing that are not in the range again.
StBecomeSeen(S, L, H, g) ==
    /\ st' = S /\ sel' = L /\ have' = H
    /\ seen' = [g EXCEPT !.lost = @ \ (ToSet(L.range) \cup H)]
    /\ UNCHANGED lay
StBecome(S, L, H, g) == StBecomeSeen(S, L, H, [g EXCEPT !.read = Nothing, !.choice = NotSelected])

Forgotten(g) == [g EXCEPT !.lost = {}, !.rewound = FALSE]

NewStream(f, streaming) ==
    [NoStream EXCEPT !.f = f, !.streaming = streaming, !.chunk = FirstChunk(f), !.off = FirstOff(f)]

\* createTorrentFileStream: one stream at a time.
CreateStream(f, streaming) ==
    /\ ~Live /\ FileSize(f) > 0
    /\ StBecome(NewStream(f, streaming),
                IF streaming THEN SetSequentialRange(FirstChunk(f), LastChunk(f), Previews(f), have) ELSE NoSel,
                have, Forgotten(seen))
    /\ UNCHANGED excl
DeleteStream == Live /\ StBecome(NoStream, NoSel, have, Forgotten(seen)) /\ UNCHANGED excl

OpenStream == Live /\ StBecome([st EXCEPT !.opened = TRUE, !.device = TRUE], sel, have, seen) /\ UNCHANGED excl
\* close and reset: the cursor of the selector stays where it was.
Rewind(opened) ==
    /\ Live /\ (opened => st.opened)
    /\ StBecome([ResetStream(st) EXCEPT !.opened = opened], sel, have,
                [seen EXCEPT !.rewound = st.streaming])
    /\ UNCHANGED excl

Seek(p) ==
    /\ Live /\ p <= FileSize(st.f)
    /\ \E S \in {SeekTo(st, p)} :
         StBecome(S, IF S.streaming THEN SetCursor(sel, S.chunk, have) ELSE sel, have,
                  [seen EXCEPT !.rewound = FALSE])
    /\ UNCHANGED excl

\* How many bytes of the file from position p on lie in chunks of H.
StartOf(f) == FirstChunk(f) * CS + FirstChunkOff(f)
Reachable(f, p, H) ==
    Cardinality({n \in 1 .. FileSize(f) - p : \A k \in 1 .. n : (StartOf(f) + p + k - 1) \div CS \in H})

Read(max, bad) ==
    /\ Live /\ st.device
    /\ \E X \in {ReadData([st |-> st, sel |-> sel, bytes |-> <<>>, have |-> have,
                         readable |-> BytesReadable(st, have)], max, bad)} :
         StBecomeSeen(X.st, X.sel, have,
                      [seen EXCEPT !.choice = NotSelected,
                                   !.read = [pos |-> st.pos, bytes |-> X.bytes,
                                             want |-> IF bad = {} THEN Smaller(max, Reachable(st.f, st.pos, have))
                                                      ELSE Len(X.bytes)],
                                   !.rewound = IF X.st.chunk # st.chunk THEN FALSE ELSE @])
    /\ UNCHANGED excl

Downloaded(c) ==
    /\ c \notin have \cup excl
    /\ StBecome(st, sel, have \cup {c}, seen) /\ UNCHANGED excl

SelectChunk(peer, nd, slow) ==
    /\ Live /\ st.streaming
    /\ LET window == sel.cursor .. Smaller(sel.cursor + Window - 1, sel.last)
           L == [sel EXCEPT !.range = SelectSeq(@, LAMBDA c : c \notin have), !.preview = @ \ have]
       IN  StBecomeSeen(st, L, have,
                    [seen EXCEPT !.read = Nothing, !.choice = [kind |-> Select(sel, peer, nd, slow),
                                             missed |-> (window \cap peer) \ (have \cup excl \cup seen.lost)]])
    /\ UNCHANGED excl

\* Downloader::corrupted and finished: the hash of chunk c was wrong.
Reinsert(c) ==
    /\ Live /\ st.streaming /\ c \notin have
    /\ StBecome(st, ReinsertChunk(sel, c), have, seen) /\ UNCHANGED excl

ExcludeChunks(a, b) ==
    /\ a <= b /\ Bounded(seen)
    /\ excl' = excl \cup (a .. b)
    /\ StBecome(st, sel, have \ (a .. b), [seen EXCEPT !.changes = @ + 1])
IncludeChunks(a, b) ==
    /\ a <= b /\ (a .. b) \cap excl # {}
    /\ excl' = excl \ (a .. b)
    /\ StBecome(st, IF st.streaming THEN Reincluded(sel, a, b, have) ELSE sel, have, seen)

\* A data check of the whole torrent finds the chunks ok.
DataChecked(ok) ==
    /\ Bounded(seen)
    /\ StBecome(st, IF st.streaming THEN UpdateRange(sel, ok) ELSE sel, ok,
                [seen EXCEPT !.changes = @ + 1, !.lost = @ \cup (have \ ok)])
    /\ UNCHANGED excl

\* Bound: what a peer has, and which chunks three others download.
ChunkSets == {{}, Chunk} \cup {{c} : c \in Chunk}

StNext ==
    \/ \E f \in File, streaming \in BOOLEAN : CreateStream(f, streaming)
    \/ DeleteStream \/ OpenStream \/ \E opened \in BOOLEAN : Rewind(opened)
    \/ \E p \in 0 .. lay.total : Seek(p)
    \/ \E max \in 1 .. CS + 1, bad \in {{}} \cup {{c} : c \in Chunk} : Read(max, bad)
    \/ \E c \in Chunk : Downloaded(c) \/ Reinsert(c)
    \/ \E peer \in ChunkSets \ {{}}, busy \in ChunkSets, slow \in BOOLEAN :
         SelectChunk(peer, [c \in Chunk |-> IF c \in busy THEN 3 ELSE 0], slow)
    \/ \E a, b \in Chunk : ExcludeChunks(a, b) \/ IncludeChunks(a, b)
    \/ \E ok \in SUBSET (Chunk \ excl) : DataChecked(ok)

StSpec == StInit /\ [][StNext]_stVars

\* While streaming, a peer is given a chunk of the window behind the cursor
\* when it has one that is missing, and the cursor is where the stream reads.
\* (Not the chunks that only a data check found missing, and not until the
\* next chunk when the stream was rewound: see the README.)
WindowFirst ==
    Live /\ st.streaming =>
        /\ seen.choice.kind \in {"behind", "default"} => seen.choice.missed = {}
        /\ ~seen.rewound => sel.cursor = st.chunk

\* What a stream reads is the file from its position on, as far as all chunks
\* up to there are downloaded, whatever was sought, reset, lost and downloaded
\* again before; and its place in the chunks is its position in the file.
\* The chunks it will need next are asked for first: WindowFirst.
StreamReads ==
    /\ WindowFirst
    /\ Len(seen.read.bytes) = seen.read.want
    /\ Live => /\ \A i \in DOMAIN seen.read.bytes : seen.read.bytes[i] = StartOf(st.f) + seen.read.pos + i - 1
               /\ st.pos < FileSize(st.f) => st.chunk * CS + st.off = StartOf(st.f) + st.pos
=============================================================================
