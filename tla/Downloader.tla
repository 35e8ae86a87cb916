----------------------------- MODULE Downloader -----------------------------
(***************************************************************************)
(* Downloading chunks from peers: bt::Downloader, its bt::ChunkDownload     *)
(* objects (one per chunk that is being downloaded) and the                 *)
(* bt::PeerDownloader of each peer, with the choke, piece and reject        *)
(* messages of the peers, request timeouts, webseeds and pausing.           *)
(*                                                                         *)
(* All of it runs on the main thread, through direct calls and signals that *)
(* are delivered at once.  A message of a peer is one action.               *)
(* Downloader::update loops over the chunk downloads, the peers and their   *)
(* timeouts; each iteration of these loops is an action.  The operators     *)
(* before Init are the methods; they take the state of the objects and      *)
(* return the next one.                                                     *)
(*                                                                         *)
(* Download rates are left out: the limits that depend on them are          *)
(* constants, and a comparison of rates is a choice.                        *)
(***************************************************************************)
EXTENDS Integers, Sequences, FiniteSets, SequencesExt

CONSTANTS
    Peer,
    NumChunks,      \* chunks are 1 .. NumChunks, all wanted
    NumPieces,      \* pieces (of MAX_PIECE_LEN bytes) of a chunk
    Has,            \* the chunks each peer has
    Fast,           \* the peers with the fast extensions
    MaxReqs,        \* max_reqs in PeerDownloader::update
    MaxWait,        \* max_wait_queue_size
    MaxChunks,      \* getMaxChunkDownloads
    WebSeeds,       \* TRUE if there are webseeds
    Pausing         \* TRUE if the user may pause the torrent

Chunk == 1 .. NumChunks
Piece == 1 .. NumPieces
Request == Chunk \X Piece

ASSUME DownloaderAssumption ==
    /\ NumChunks \in Nat \ {0} /\ NumPieces \in Nat \ {0}
    /\ MaxReqs \in Nat \ {0} /\ MaxWait \in Nat \ {0} /\ MaxChunks \in Nat \ {0}
    /\ Has \in [Peer -> SUBSET Chunk]
    /\ Fast \subseteq Peer
    /\ WebSeeds \in BOOLEAN /\ Pausing \in BOOLEAN

VARIABLES
    d,          \* the chunk downloads and the peer downloaders, see below
    have,       \* the chunks we have (ChunkManager's bitset)
    saved,      \* the pieces in the current_chunks file
    paused,
    wire        \* for each peer, the requests it has got and not answered

vars == <<d, have, saved, paused, wire>>

(***************************************************************************)
(* d is a record:                                                           *)
(*   cur      Downloader::current_chunks, the chunks being downloaded        *)
(*   got      ChunkDownload::pieces                                          *)
(*   pdown    ChunkDownload::pdown, the peers assigned to the chunk          *)
(*   ds       ChunkDownload::dstatus, the pieces requested from a peer       *)
(*   prov     ChunkDownload::piece_providers; NoPeer stands for nullptr,     *)
(*            Gone for the address of a peer that has been deleted           *)
(*   alive    Downloader::piece_downloaders                                  *)
(*   choked   PeerDownloader::isChoked                                       *)
(*   reqs     PeerDownloader::reqs, oldest first                             *)
(*   wait     PeerDownloader::wait_queue                                     *)
(*   grabbed, nearly   PieceDownloader::grabbed, nearly_done                 *)
(***************************************************************************)
NoPeer == "nullptr"
Gone == "gone"

Fresh == [cur |-> {},
          got |-> [c \in Chunk |-> {}],
          pdown |-> [c \in Chunk |-> <<>>],
          ds |-> [c \in Chunk |-> [p \in Peer |-> {}]],
          prov |-> [c \in Chunk |-> {}],
          alive |-> Peer,
          choked |-> Peer,
          reqs |-> [p \in Peer |-> <<>>],
          wait |-> [p \in Peer |-> <<>>],
          grabbed |-> [p \in Peer |-> 0],
          nearly |-> {}]

Without(q, r) == SelectSeq(q, LAMBDA x : x # r)

-----------------------------------------------------------------------------
(***************************************************************************)
(* PeerDownloader                                                           *)
(***************************************************************************)
CanAddRequest(s, p) == Len(s.wait[p]) < MaxWait

IsNearlyDone(s, p) == s.grabbed[p] = 1 /\ p \in s.nearly

CanDownloadChunk(s, p) ==
    /\ p \in s.alive
    /\ s.grabbed[p] < MaxChunks \/ IsNearlyDone(s, p)
    /\ CanAddRequest(s, p)

\* update: move requests that wait to those that are sent
UpdatePD(s, p) ==
    LET room == MaxReqs - Len(s.reqs[p])
        n == IF room <= 0 THEN 0
             ELSE IF room < Len(s.wait[p]) THEN room ELSE Len(s.wait[p])
    IN  [s EXCEPT !.reqs[p] = @ \o SubSeq(s.wait[p], 1, n),
                  !.wait[p] = SubSeq(@, n + 1, Len(@))]

Download(s, p, r) == UpdatePD([s EXCEPT !.wait[p] = Append(@, r)], p)

Cancel(s, p, r) ==
    IF r \in ToSet(s.wait[p]) THEN [s EXCEPT !.wait[p] = Without(@, r)]
    ELSE [s EXCEPT !.reqs[p] = Without(@, r)]

\* piece: the piece of request r has arrived
PieceOf(s, p, r) ==
    IF r \in ToSet(s.reqs[p]) THEN [s EXCEPT !.reqs[p] = Remove(@, r)]
    ELSE [s EXCEPT !.wait[p] = Without(@, r)]

\* PieceDownloader::release
Release(s, p) == [s EXCEPT !.grabbed[p] = IF @ = 0 THEN 0 ELSE @ - 1]

(***************************************************************************)
(* ChunkDownload of chunk c                                                 *)
(***************************************************************************)
\* sendCancels: withdraw the requests for c from peer p
SendCancels(s, c, p) ==
    [FoldSet(LAMBDA i, t : Cancel(t, p, <<c, i>>), s, s.ds[c][p])
        EXCEPT !.ds[c][p] = {}]

CancelAll(s, c) == FoldLeft(LAMBDA t, p : SendCancels(t, c, p), s, s.pdown[c])

\* mutant of ReleaseAllPDs: the requests are not withdrawn
ReleaseOnly(s, c) ==
    [FoldLeft(LAMBDA t, p : Release(t, p), s, s.pdown[c])
        EXCEPT !.pdown[c] = <<>>, !.ds[c] = [p \in Peer |-> {}]]

ReleaseAllPDs(s, c) ==
    [FoldLeft(LAMBDA t, p : SendCancels(Release(t, p), c, p), s, s.pdown[c])
        EXCEPT !.pdown[c] = <<>>]

\* killed: p is no longer assigned to c
Killed(s, c, p) ==
    [s EXCEPT !.pdown[c] = Without(@, p), !.ds[c][p] = {}]

\* bestPiece: a piece that as few other peers as possible are asked for
Candidates(s, c, p) == Piece \ (s.got[c] \cup s.ds[c][p])
TimesDownloading(s, c, p, i) == Cardinality({q \in Peer \ {p} : i \in s.ds[c][q]})
BestPiece(s, c, p) ==
    CHOOSE i \in Candidates(s, c, p) : \A j \in Candidates(s, c, p) :
        \/ TimesDownloading(s, c, p, i) < TimesDownloading(s, c, p, j)
        \/ TimesDownloading(s, c, p, i) = TimesDownloading(s, c, p, j) /\ i <= j

CanSend(s, c, p) ==
    p \notin s.choked /\ CanAddRequest(s, p) /\ Candidates(s, c, p) # {}

SendRequest(s, c, p) ==
    LET i == BestPiece(s, c, p)
        t == [Download(s, p, <<c, i>>) EXCEPT !.ds[c][p] = @ \cup {i}]
    IN  IF NumPieces - Cardinality(s.got[c]) = 1
        THEN [t EXCEPT !.nearly = @ \cup {p}] ELSE t

\* sendRequests: the assigned peers in turn, until none can be asked for more
RECURSIVE SendRequestsTo(_, _, _)
SendRequestsTo(s, c, tmp) ==
    IF tmp = <<>> THEN s
    ELSE LET p == Head(tmp)
         IN  IF CanSend(s, c, p)
             THEN SendRequestsTo(SendRequest(s, c, p), c, Append(Tail(tmp), p))
             ELSE SendRequestsTo(s, c, Tail(tmp))

SendRequests(s, c) == SendRequestsTo(s, c, s.pdown[c])

Assigned(s, c, p) == p \in ToSet(s.pdown[c])

Assign(s, c, p) ==
    IF Assigned(s, c, p) THEN s
    ELSE SendRequests([s EXCEPT !.grabbed[p] = @ + 1,
                                !.pdown[c] = Append(@, p)], c)

\* mutants of NotDownloaded: the peer is not released; nothing is done
NotReleased(s, p, r) ==
    IF r[1] \in s.cur /\ Assigned(s, r[1], p)
    THEN SendRequests(Killed(SendCancels(s, r[1], p), r[1], p), r[1]) ELSE s

NotHandled(s, p, r) == s

\* notDownloaded, on the signals rejected and timedout of p, to which the
\* chunk downloads that p is assigned to are connected
NotDownloaded(s, p, r) ==
    LET c == r[1]
        s1 == [s EXCEPT !.ds[c][p] = @ \ {r[2]}]
        s2 == SendCancels(Release(s1, p), c, p)
    IN  IF c \in s.cur /\ Assigned(s, c, p)
        THEN SendRequests(Killed(s2, c, p), c) ELSE s

\* endgameCancel: withdraw the requests for a piece that has arrived
EndgameCancel(s, c, i) ==
    FoldLeft(LAMBDA t, q : IF i \in t.ds[c][q]
                           THEN [Cancel(t, q, <<c, i>>) EXCEPT !.ds[c][q] = @ \ {i}]
                           ELSE t,
             s, s.pdown[c])

\* mutant of AddPiece: only the last provider is remembered
AddPieceLast(s, c, i, p) ==
    LET s1 == [s EXCEPT !.ds[c][p] = @ \ {i}, !.got[c] = @ \cup {i}, !.prov[c] = {p}]
    IN  IF Len(s.pdown[c]) > 1 THEN EndgameCancel(s1, c, i) ELSE s1

\* ChunkDownload::piece up to the point where the chunk may be complete
AddPiece(s, c, i, p) ==
    LET s1 == [s EXCEPT !.ds[c][p] = @ \ {i},
                        !.got[c] = @ \cup {i},
                        !.prov[c] = @ \cup {p}]
    IN  IF Len(s.pdown[c]) > 1 THEN EndgameCancel(s1, c, i) ELSE s1

\* the ChunkDownload of c is deleted
Erase(s, c) ==
    [s EXCEPT !.cur = @ \ {c}, !.got[c] = {}, !.pdown[c] = <<>>, !.prov[c] = {},
              !.ds[c] = [p \in Peer |-> {}]]

(***************************************************************************)
(* Downloader                                                               *)
(***************************************************************************)
\* removePieceDownloader, and the PeerDownloader goes away
RemovePeer(s, p) ==
    LET t == FoldSet(LAMBDA c, u : Killed(u, c, p), s, s.cur)
    IN  [t EXCEPT !.alive = @ \ {p}, !.choked = @ \cup {p}, !.nearly = @ \ {p},
                  !.prov = [c \in Chunk |-> IF p \in @[c] THEN (@[c] \ {p}) \cup {Gone} ELSE @[c]],
                  !.reqs[p] = <<>>, !.wait[p] = <<>>, !.grabbed[p] = 0]

Completed == have = Chunk

Wanted(p) == Has[p] \ have

NumDownloaders(c) == Len(d.pdown[c])

EndgameMode == Cardinality(d.cur) >= Cardinality(Chunk \ have)

\* ChunkSelector::select: a chunk without downloaders if there is one, else
\* one with the fewest among those with few, with a slow download, or all in
\* endgame mode
Selectable(p) ==
    LET free == {c \in Wanted(p) : NumDownloaders(c) = 0}
        ok(slow) == {c \in Wanted(p) : NumDownloaders(c) < 2 \/ EndgameMode \/ c \in slow}
        best(S) == {c \in S : \A e \in S : NumDownloaders(c) <= NumDownloaders(e)}
    IN  IF free # {} THEN {free}
        ELSE {best(ok(slow)) : slow \in SUBSET Wanted(p)}

\* requests that appear in reqs have been sent to the peer
SentBy(s, p) == ToSet(s.reqs[p]) \ ToSet(d.reqs[p])
Wire(s) == [p \in Peer |-> IF p \in s.alive THEN wire[p] \cup SentBy(s, p) ELSE {}]

-----------------------------------------------------------------------------
Init ==
    /\ d = Fresh
    /\ have = {}
    /\ saved = [c \in {} |-> {}]
    /\ paused = FALSE
    /\ wire = [p \in Peer |-> {}]

Active == ~paused /\ ~Completed

(***************************************************************************)
(* Downloader::normalUpdate: chunk downloads all of whose peers choke us    *)
(* let go of them, those that nothing happened to for a minute send         *)
(* requests again, and peers that can take more are given a chunk.          *)
(***************************************************************************)
IsChoked(c) == ToSet(d.pdown[c]) \subseteq d.choked

ReleaseChoked(c) ==
    /\ Active
    /\ c \in d.cur
    /\ d.pdown[c] # <<>>
    /\ IsChoked(c)
    /\ d' = ReleaseAllPDs(d, c)
    /\ UNCHANGED <<have, saved, paused, wire>>

CanAskMore(c) == \E p \in ToSet(d.pdown[c]) : CanSend(d, c, p)

UpdateIdle(c) ==
    /\ Active
    /\ c \in d.cur
    /\ CanAskMore(c)
    /\ d' = SendRequests(d, c)
    /\ wire' = Wire(d')
    /\ UNCHANGED <<have, saved, paused>>

\* selectCD(pd, 0): chunk downloads without peers, nearly finished ones first
NeedPeer(p) ==
    LET idle == {c \in d.cur \cap Has[p] : d.pdown[c] = <<>>}
    IN  {c \in idle : \A e \in idle : Cardinality(d.got[c]) >= Cardinality(d.got[e])}

\* the download of c gets p, after which p counts as not nearly done
Give(c, p) == [Assign([d EXCEPT !.cur = @ \cup {c}], c, p) EXCEPT !.nearly = @ \ {p}]

\* the chunks p may be given: an idle one, one the selector returns, or, when
\* it returns none and p has nothing to do, any (selectWorst)
ChunksFor(p) ==
    {c \in Chunk :
        /\ ~Assigned(d, c, p)
        /\ IF NeedPeer(p) # {} THEN c \in NeedPeer(p)
           ELSE \E S \in Selectable(p) :
                  \/ c \in S
                  \/ S = {} /\ d.grabbed[p] = 0 /\ c \in d.cur \cap Has[p]}

MayDownload(p) == p \notin d.choked /\ CanDownloadChunk(d, p)

DownloadFrom(p) ==
    /\ Active
    /\ MayDownload(p)
    /\ \E c \in ChunksFor(p) : d' = Give(c, p)
    /\ wire' = Wire(d')
    /\ UNCHANGED <<have, saved, paused>>

\* PeerDownloader::checkTimeouts: the oldest request of p is a minute old
Timeout(p) ==
    /\ Active
    /\ d.reqs[p] # <<>>
    /\ d' = NotDownloaded([d EXCEPT !.reqs[p] = Tail(@)], p, Head(d.reqs[p]))
    /\ wire' = Wire(d')
    /\ UNCHANGED <<have, saved, paused>>

(***************************************************************************)
(* Messages of the peers.                                                   *)
(***************************************************************************)
\* a peer without the fast extensions rejects all requests when it chokes us
Choke(p) ==
    /\ p \in d.alive \ d.choked
    /\ LET s == [d EXCEPT !.choked = @ \cup {p}]
           t == FoldLeft(LAMBDA u, r : NotDownloaded(u, p, r), s, d.reqs[p] \o d.wait[p])
       IN  d' = IF p \in Fast THEN s
                ELSE [t EXCEPT !.reqs[p] = <<>>, !.wait[p] = <<>>]
    /\ wire' = [Wire(d') EXCEPT ![p] = IF p \in Fast THEN @ ELSE {}]
    /\ UNCHANGED <<have, saved, paused>>

Unchoke(p) ==
    /\ p \in d.alive \cap d.choked
    /\ d' = [d EXCEPT !.choked = @ \ {p}]
    /\ UNCHANGED <<have, saved, paused, wire>>

\* a peer with the fast extensions rejects a request
Reject(p, r) ==
    /\ p \in d.alive \cap Fast
    /\ r \in wire[p]
    /\ d' = IF r \in ToSet(d.reqs[p])
            THEN NotDownloaded([d EXCEPT !.reqs[p] = Without(@, r)], p, r) ELSE d
    /\ wire' = [Wire(d') EXCEPT ![p] = @ \ {r}]
    /\ UNCHANGED <<have, saved, paused>>

\* the peer drops a request that we have withdrawn
DropCancelled(p, r) ==
    /\ r \in wire[p] \ ToSet(d.reqs[p])
    /\ wire' = [wire EXCEPT ![p] = @ \ {r}]
    /\ UNCHANGED <<d, have, saved, paused>>

(***************************************************************************)
(* Peer::handlePiece: PeerDownloader::piece, Downloader::pieceReceived and  *)
(* PeerDownloader::update.  hash says whether the hash of a chunk that is   *)
(* complete is right; if not, and one peer has provided all of it, that     *)
(* peer is banned and killed.                                               *)
(***************************************************************************)
OnlyDownloader(s, c) ==
    IF Cardinality(s.prov[c]) = 1 THEN CHOOSE p \in s.prov[c] : TRUE ELSE NoPeer

PieceReceived(p, r, hash) ==
    LET c == r[1]
        i == r[2]
        s0 == PieceOf(d, p, r)
        useful == ~Completed /\ c \in d.cur /\ i \notin d.got[c]
        s1 == AddPiece(s0, c, i, p)
        full == useful /\ s1.got[c] = Piece
        s2 == Erase(ReleaseAllPDs(s1, c), c)
        killed == full /\ ~hash /\ OnlyDownloader(s1, c) = p
        s3 == IF ~useful THEN s0 ELSE IF full THEN s2 ELSE SendRequests(s1, c)
    IN  /\ p \in d.alive
        /\ ~paused
        /\ r \in wire[p]
        /\ hash \/ full
        /\ d' = IF killed THEN RemovePeer(s3, p) ELSE UpdatePD(s3, p)
        /\ have' = IF full /\ hash THEN have \cup {c} ELSE have
        /\ wire' = [Wire(d') EXCEPT ![p] = @ \ (IF r \in ToSet(d'.reqs[p]) THEN {} ELSE {r})]
        /\ UNCHANGED <<saved, paused>>

\* a piece arrives while we are paused, and is ignored
PieceIgnored(p, r) ==
    /\ paused
    /\ r \in wire[p]
    /\ wire' = [wire EXCEPT ![p] = @ \ {r}]
    /\ UNCHANGED <<d, have, saved, paused>>

(***************************************************************************)
(* Peers come and go.                                                       *)
(***************************************************************************)
Disconnect(p) ==
    /\ p \in d.alive
    /\ d' = RemovePeer(d, p)
    /\ wire' = [wire EXCEPT ![p] = {}]
    /\ UNCHANGED <<have, saved, paused>>

Connect(p) ==
    /\ p \notin d.alive
    /\ d' = [d EXCEPT !.alive = @ \cup {p}]
    /\ UNCHANGED <<have, saved, paused, wire>>

(***************************************************************************)
(* Downloader::onExcluded: the user does not want the chunk (and, later in  *)
(* this model, wants it again).                                             *)
(***************************************************************************)
OnExcluded(c) ==
    /\ c \in d.cur
    /\ d' = Erase(ReleaseAllPDs(CancelAll(d, c), c), c)
    /\ UNCHANGED <<have, saved, paused, wire>>

(***************************************************************************)
(* Downloader::onChunkReady: a webseed has delivered chunk c.               *)
(***************************************************************************)
OnChunkReady(c, hash) ==
    /\ WebSeeds
    /\ Active
    /\ c \notin have
    /\ d' = IF hash /\ c \in d.cur THEN Erase(CancelAll(d, c), c) ELSE d
    /\ have' = IF hash THEN have \cup {c} ELSE have
    /\ UNCHANGED <<saved, paused, wire>>

(***************************************************************************)
(* TorrentControl::pause: each peer cancels its requests, the chunk         *)
(* downloads are saved and deleted; unpause loads them again.               *)
(***************************************************************************)
SaveChunk(s, c) == s.got[c]
SaveDownloads(s) == [c \in s.cur |-> SaveChunk(s, c)]

\* what was downloaded before cannot get a peer banned now
LoadChunk(s, c, pieces) ==
    [s EXCEPT !.cur = @ \cup {c}, !.got[c] = pieces,
              !.prov[c] = IF pieces = {} THEN {} ELSE {NoPeer}]

\* nothing is loaded when the download is finished, and no chunk we have
LoadDownloads(s, file) ==
    IF Completed THEN s
    ELSE FoldSet(LAMBDA c, t : LoadChunk(t, c, file[c]), s, DOMAIN file \ have)

Pause ==
    /\ Pausing
    /\ Active
    /\ paused' = TRUE
    /\ saved' = SaveDownloads(d)
    /\ d' = [FoldSet(LAMBDA c, t : Erase(t, c), d, d.cur) EXCEPT
                !.reqs = [p \in Peer |-> <<>>], !.wait = [p \in Peer |-> <<>>]]
    /\ UNCHANGED <<have, wire>>

Unpause ==
    /\ paused
    /\ paused' = FALSE
    /\ d' = LoadDownloads(d, saved)
    /\ UNCHANGED <<have, saved, wire>>

\* dataChecked: a check of the data, for which the torrent is paused, finds
\* the chunks ok, more or fewer than we had.
DataChecked(ok) ==
    /\ paused
    /\ have' = ok
    /\ d' = FoldSet(LAMBDA c, t : Erase(ReleaseAllPDs(t, c), c), d, d.cur \cap ok)
    /\ UNCHANGED <<saved, paused, wire>>

Next ==
    \/ \E c \in Chunk : ReleaseChoked(c) \/ UpdateIdle(c) \/ OnExcluded(c)
    \/ \E p \in Peer : \/ DownloadFrom(p) \/ Timeout(p)
                       \/ Choke(p) \/ Unchoke(p) \/ Disconnect(p) \/ Connect(p)
    \/ \E p \in Peer : \E r \in wire[p] :
          \/ Reject(p, r) \/ DropCancelled(p, r) \/ PieceIgnored(p, r)
          \/ \E hash \in BOOLEAN : PieceReceived(p, r, hash)
    \/ \E c \in Chunk, hash \in BOOLEAN : OnChunkReady(c, hash)
    \/ Pause \/ Unpause \/ \E ok \in SUBSET Chunk : DataChecked(ok)

Spec == Init /\ [][Next]_vars

-----------------------------------------------------------------------------
\* Every part of the state has its type.
TypeOK ==
    /\ d.cur \subseteq Chunk
    /\ \A c \in Chunk : /\ d.got[c] \subseteq Piece
                        /\ d.pdown[c] \in Seq(Peer)
                        /\ d.prov[c] \subseteq Peer \cup {NoPeer, Gone}
                        /\ \A p \in Peer : d.ds[c][p] \subseteq Piece
    /\ d.alive \subseteq Peer /\ d.choked \subseteq Peer /\ d.nearly \subseteq Peer
    /\ \A p \in Peer : /\ d.reqs[p] \in Seq(Request)
                       /\ d.wait[p] \in Seq(Request)
                       /\ d.grabbed[p] \in Nat
                       /\ wire[p] \subseteq Request
    /\ have \subseteq Chunk
    /\ paused \in BOOLEAN

\* The count of grabs of a peer, which limits how many chunks it is given
\* (canDownloadChunk), is the number of chunk downloads it is assigned to:
\* assign, release, reject, timeout, choke and disconnect keep it exact.
GrabbedExact ==
    \A p \in d.alive :
        d.grabbed[p] = Cardinality({c \in d.cur : Assigned(d, c, p)})

Queued(p) == ToSet(d.reqs[p]) \cup ToSet(d.wait[p])

Marked(p) == {r \in Request : r[1] \in d.cur /\ r[2] \in d.ds[r[1]][p]}
Missing == {r \in Request : r[2] \notin d.got[r[1]]}

\* What a chunk download believes it has asked of a peer is what the peer
\* downloader has sent or keeps waiting.  A missing piece that is marked
\* without a request would never be asked of that peer again (bestPiece), and
\* a request without a mark would not be withdrawn (sendCancels).  Only the
\* mark of a piece that has arrived may outlive its request: a late piece
\* from a peer that is no longer assigned leaves the other requests alone.
\* No request is queued twice, so a late answer is not taken for the answer to
\* a second request.
RequestsTracked ==
    /\ TypeOK
    /\ \A p \in d.alive : Marked(p) \cap Missing \subseteq Queued(p) /\ Queued(p) \subseteq Marked(p)
    /\ \A p \in Peer : Len(d.reqs[p]) + Len(d.wait[p]) = Cardinality(Queued(p))

\* As long as there is a peer, and every peer that is there has unchoked us and
\* has answered each request it got, the next Downloader::update brings the
\* download on: it never stalls with chunks missing and peers that wait for us.
Quiet ==
    /\ d.alive # {}
    /\ \A p \in d.alive : p \notin d.choked /\ wire[p] = {}

NoStall ==
    Active /\ Quiet => \/ \E c \in d.cur : CanAskMore(c)
                       \/ \E p \in Peer : MayDownload(p) /\ ChunksFor(p) # {}

\* A peer is killed for bad data only if every piece of the chunk came from
\* it in this session.
OnlyCulpritKilled ==
    [][\A p \in Peer, r \in Request : PieceReceived(p, r, FALSE) =>
          \A q \in d.alive \ d'.alive : d.prov[r[1]] \subseteq {q} /\ q = p]_vars
=============================================================================
