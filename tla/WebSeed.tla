------------------------------ MODULE WebSeed ------------------------------
(***************************************************************************)
(* Downloading from a web server: the range of chunks a webseed is given,  *)
(* the ranges of the files it asks for, the connection that the network    *)
(* threads feed, and what is done with the bytes.                          *)
(* src/src/download/{webseed,httpconnection}.cpp, with the parts of        *)
(* downloader.cpp and chunkselector.cpp that drive them. The server        *)
(* answers a request with the bytes of the range, or with an error.        *)
(***************************************************************************)
EXTENDS TorrentLayout

CONSTANTS RangeLen,        \* Downloader::webseed_range_size
          ConnectAtOnce,   \* connect() may succeed without waiting
          MaxCloses        \* bound: connections the server closes

VARIABLE ws                \* the webseed, its connection, and the chunks on disk
wsVars == <<lay, ws>>

NoChunk == lay.chunks + 1
NoReq == [on |-> FALSE]
NoConn == [st |-> "none", sock |-> "none", req |-> NoReq, rtimer |-> FALSE,
           redirected |-> FALSE, gone |-> FALSE]
Busy(W) == W.first < lay.chunks

\* Op of the value of W, evaluated once.
Then(W, Op(_)) == CHOOSE r \in {Op(w) : w \in {W}} : TRUE

(**************************** HttpConnection *******************************)

\* get: refused while there is a request; sent at once if there is a socket.
Get(W, f, off, len) ==
    IF W.conn.st = "ERROR" \/ W.conn.req.on THEN W
    ELSE [W EXCEPT !.conn.req = [on |-> TRUE, f |-> f, off |-> off, len |-> len, recv |-> 0,
                                 out |-> IF W.conn.sock = "none" THEN "held" ELSE "queued",
                                 hdr |-> FALSE, data |-> <<>>, redir |-> FALSE, content |-> 0]]

\* getData: all that arrived, or the redirection once its content arrived.
GetData(W) ==
    LET r == W.conn.req
    IN  CASE ~r.on -> [W |-> W, data |-> <<>>]
          [] r.on /\ r.redir ->
                [W |-> IF r.recv < r.content THEN W ELSE [W EXCEPT !.conn.redirected = TRUE],
                 data |-> <<>>]
          [] r.on /\ ~r.redir /\ r.data = <<>> -> [W |-> W, data |-> <<>>]
          [] OTHER -> [W |-> [W EXCEPT !.conn.req = IF r.recv >= r.len THEN NoReq
                                                    ELSE [r EXCEPT !.data = <<>>]],
                       data |-> r.data]

(******************************** WebSeed **********************************)

ChunkStopped(W) == [W EXCEPT !.current = NoChunk]
Reset(W) ==
    [ChunkStopped(W) EXCEPT !.retry = FALSE, !.conn = NoConn, !.first = NoChunk, !.last = NoChunk,
                            !.fails = 0]
RetryLater(W) == [W EXCEPT !.fails = 3, !.retry = TRUE]

\* connectToServer; tok: the connection limit has a token left.
ConnectToServer(W, tok) ==
    IF ~W.token /\ ~tok THEN RetryLater(W)
    ELSE [W EXCEPT !.token = TRUE, !.conn.st = "RESOLVING"]

\* fillRangeList: the parts of chunk c, joined to the range before it in the
\* same file.
FillRangeList(Q, c) ==
    LET L == CalcChunkPos(c)
        add(s, i) == Then(s, LAMBDA t :
            LET n == ChunkData(c, L, i, t.passed)
                k == Len(t.q)
                r == [f |-> L[i], off |-> IF i = 1 THEN FileOffset(L[i], c) ELSE 0, len |-> n]
            IN  [passed |-> t.passed + n,
                 q |-> IF k > 0 /\ t.q[k].f = L[i] THEN [t.q EXCEPT ![k].len = @ + n]
                       ELSE Append(t.q, r)])
    IN  FoldLeft(add, [passed |-> 0, q |-> Q], [i \in DOMAIN L |-> i]).q
RangesOf(a, b) == FoldLeft(FillRangeList, <<>>, [i \in 1 .. b - a + 1 |-> a + i - 1])

LengthOf(a, b) == (b - a) * CS + (IF b = lay.chunks - 1 THEN SizeOf(b) ELSE CS)
AskNext(W) ==
    IF W.ranges = <<>> THEN W
    ELSE Get([W EXCEPT !.ranges = Tail(@)], Head(W.ranges).f, Head(W.ranges).off, Head(W.ranges).len)

\* Mutant: the bytes that are there already are asked for again.
ContinueFromStart(W) ==
    Get([W EXCEPT !.current = W.cur, !.first = W.cur], 1, W.cur * CS, LengthOf(W.cur, W.last) - W.got)

\* continueCurChunk: of the ranges, those that start before the bytes that
\* are there already are skipped.
ContinueCurChunk(W) ==
    LET before(Q, i) == FoldLeft(LAMBDA n, r : n + r.len, 0, SubSeq(Q, 1, i - 1))
        rest(Q) == SelectInSeq([i \in DOMAIN Q |-> before(Q, i)], LAMBDA n : n >= W.got)
        S == [W EXCEPT !.first = W.cur, !.current = W.cur]
    IN  IF lay.single
        THEN Get(S, 1, W.cur * CS + W.got, LengthOf(W.cur, W.last) - W.got)
        ELSE Then(RangesOf(W.cur, W.last), LAMBDA Q :
               AskNext([S EXCEPT !.ranges = IF rest(Q) = 0 THEN <<>> ELSE SubSeq(Q, rest(Q), Len(Q)),
                                 !.resumed = TRUE]))

Download(W, a, b, tok) ==
    LET N == IF W.conn.st = "none" THEN [W EXCEPT !.conn = [NoConn EXCEPT !.st = "IDLE"]] ELSE W
        F(C) == [C EXCEPT !.buf = <<>>, !.first = a, !.last = b, !.cur = a, !.got = 0, !.resumed = FALSE]
    IN  IF ~W.on THEN W
        ELSE Then(IF N.conn.st # "ACTIVE" THEN ConnectToServer(N, tok) ELSE N, LAMBDA C :
               IF a = W.cur /\ b = W.last /\ W.got > 0 THEN ContinueCurChunk(C)
               ELSE IF lay.single THEN Get(F(C), 1, a * CS, LengthOf(a, b))
                    ELSE AskNext([F(C) EXCEPT !.ranges = RangesOf(a, b)]))

\* Downloader::onChunkReady: a chunk with the right hash is saved, another
\* one disables the webseed, which resets it.
ChunkReady(W, c) ==
    IF W.buf = Bytes(c, 0, SizeOf(c)) THEN [W EXCEPT !.have = @ \cup {c}]
    ELSE [Reset(W) EXCEPT !.on = FALSE, !.disabled = TRUE, !.thrown = TRUE]

Overwrite(s, off, b) == [i \in DOMAIN s |-> IF i > off /\ i <= off + Len(b) THEN b[i - off] ELSE s[i]]
Blank(c) == [i \in 1 .. SizeOf(c) |-> Junk]

\* The current chunk is complete: it is reported unless others had it first.
ChunkDone(W) ==
    LET c == W.cur
        R == [W EXCEPT !.got = 0, !.cur = c + 1]
    IN  Then(IF c \in W.have THEN R ELSE ChunkReady(R, c), LAMBDA D :
             CASE D.thrown -> D
               [] ~D.thrown /\ D.cur <= D.last -> [D EXCEPT !.buf = Blank(D.cur), !.current = D.cur]
               [] OTHER -> [ChunkStopped(D) EXCEPT !.buf = <<>>])

\* The part of handleData for the current chunk.
HandlePart(W, b) ==
    Then([(IF W.cur \in W.have THEN W
           ELSE [W EXCEPT !.buf = Overwrite(IF @ = <<>> THEN Blank(W.cur) ELSE @, W.got, b)])
             EXCEPT !.got = @ + Len(b)],
         LAMBDA P : IF P.got = SizeOf(P.cur) THEN ChunkDone(P) ELSE P)

RECURSIVE HandleData(_, _)
HandleData(W, tmp) ==
    IF tmp = <<>> \/ W.cur > W.last \/ W.thrown THEN W
    ELSE LET n == Smaller(SizeOf(W.cur) - W.got, Len(tmp))
         IN  Then(HandlePart(W, SubSeq(tmp, 1, n)),
                  LAMBDA P : HandleData(P, SubSeq(tmp, n + 1, Len(tmp))))

\* All data of the connection; past the last chunk the range is finished.
ReadData(W) ==
    Then(GetData(W), LAMBDA G :
      Then(IF G.data = <<>> \/ W.cur > W.last THEN G.W
           ELSE HandleData(IF G.W.current = NoChunk THEN [G.W EXCEPT !.current = W.cur] ELSE G.W, G.data),
           LAMBDA H : IF H.cur > H.last /\ ~H.thrown
                      THEN [H EXCEPT !.first = NoChunk, !.last = NoChunk, !.fails = 0] ELSE H))

Failed(W) ==
    LET T == IF W.conn.gone THEN RetryLater(W) ELSE W
        n == Smaller(T.fails + 1, 4)
        F == [ChunkStopped(T) EXCEPT !.conn = NoConn, !.token = FALSE, !.first = NoChunk,
                                     !.last = NoChunk, !.cur = NoChunk, !.fails = n]
    IN  IF n = 3 THEN RetryLater(F) ELSE F

Closed(W, tok) ==
    Then([ChunkStopped(W) EXCEPT !.conn = NoConn, !.token = FALSE],
         LAMBDA C : IF C.last < lay.chunks THEN Download(C, C.cur, C.last, tok) ELSE C)

\* redirected: valid is the URL it is redirected to.
Redirected(W, tok, valid) ==
    LET C == [W EXCEPT !.conn = NoConn, !.token = FALSE]
    IN  IF valid THEN Download([C EXCEPT !.redir = TRUE], C.cur, C.last, tok)
        ELSE [RetryLater(C) EXCEPT !.first = NoChunk, !.last = NoChunk, !.cur = NoChunk]

\* late: the connection was closed while its data was read.
NextRange(W, tok, late) ==
    IF W.ranges = <<>> \/ W.conn.req.on THEN W
    ELSE IF late THEN AskNext(ConnectToServer([W EXCEPT !.conn = [NoConn EXCEPT !.st = "IDLE"]], tok))
         ELSE AskNext(W)

UpdateWebSeed(W, R, tok, valid, late) ==
        CASE R.thrown -> [R EXCEPT !.thrown = FALSE]
          [] ~R.thrown /\ W.conn.st = "ERROR" -> Failed(R)
          [] ~R.thrown /\ W.conn.st # "ERROR" /\ W.conn.sock = "dead" -> Closed(R, tok)
          [] ~R.thrown /\ W.conn.st # "ERROR" /\ W.conn.sock # "dead" /\ W.conn.redirected ->
                Redirected(R, tok, valid)
          [] OTHER -> NextRange(R, tok, late)

(**************** ChunkSelector::selectRange and Downloader ****************)

\* The range that is given to a webseed; wanted: the chunks it may download.
SelectRange(wanted) ==
    LET none == [start |-> 0, len |-> 0]
        better(s) == IF s.curr.start > 0 /\ s.curr.len > s.best.len THEN s.curr ELSE s.best
        step(u, i) == Then(u, LAMBDA s :
            LET curr == IF s.curr = none THEN [start |-> i, len |-> 1]
                        ELSE [s.curr EXCEPT !.len = @ + 1]
                n == [s EXCEPT !.curr = curr]
            IN  CASE s.found -> s
                  [] ~s.found /\ i \notin wanted -> [s EXCEPT !.best = better(s), !.curr = none]
                  [] ~s.found /\ i \in wanted /\ curr.len >= RangeLen ->
                        [n EXCEPT !.best = curr, !.found = TRUE]
                  [] OTHER -> IF i = lay.chunks - 1 THEN [n EXCEPT !.best = better(n)] ELSE n)
    IN  FoldLeft(step, [curr |-> none, best |-> none, found |-> FALSE],
                 [i \in 1 .. lay.chunks |-> i - 1]).best

(******************************* Behaviour *********************************)

WsInit ==
    /\ LayoutInit
    /\ ws = [on |-> TRUE, conn |-> NoConn, first |-> NoChunk, last |-> NoChunk,
             cur |-> NoChunk, got |-> 0, buf |-> <<>>, ranges |-> <<>>, current |-> NoChunk,
             fails |-> 0, retry |-> FALSE, redir |-> FALSE, token |-> FALSE, have |-> {},
             thrown |-> FALSE, resumed |-> FALSE, disabled |-> FALSE, closes |-> 0]

WsBecome(W) == ws' = W /\ UNCHANGED lay

\* Downloader::normalUpdate: an idle webseed gets a range; busy: the chunks
\* peers are downloading, which it gets only when there are no others.
StartWebSeed == ~Busy(ws) /\ ws.on /\ ws.fails < 3 /\ \E busy \in SUBSET (Chunk \ ws.have), tok \in BOOLEAN :
    LET a == SelectRange(Chunk \ (ws.have \cup busy))
        r == IF a.len > 0 THEN a ELSE SelectRange(Chunk \ ws.have)
    IN  r.len > 0 /\ WsBecome(Download(ws, r.start, r.start + r.len - 1, tok))

\* WebSeed::update; a download that is complete cancels its webseeds.
WsUpdate == Busy(ws) /\ ws.conn.st # "none" /\ \E R \in {ReadData(ws)}, tok, valid, late \in BOOLEAN :
    \E W \in {UpdateWebSeed(ws, R, tok, valid, late)} :
        WsBecome(IF W.have = Chunk THEN Reset(W) ELSE W)

HostResolved == ws.conn.st = "RESOLVING" /\ \E st \in {"CONNECTING", "ERROR"} \cup (IF ConnectAtOnce THEN {"ACTIVE"} ELSE {}) :
    WsBecome(IF ws.conn.sock # "none" THEN [ws EXCEPT !.conn.st = "ERROR"]
             ELSE [ws EXCEPT !.conn.st = st, !.conn.sock = "open"])

\* Mutant: a request that waits for the connection is forgotten.
ConnectFinishedOnly ==
    ws.conn.st = "CONNECTING" /\ ws.conn.sock = "open" /\ \E ok \in BOOLEAN :
        WsBecome([ws EXCEPT !.conn.st = IF ok THEN "ACTIVE" ELSE "ERROR"])

\* connectFinished, from the upload thread.
ConnectFinished ==
    ws.conn.st = "CONNECTING" /\ ws.conn.sock = "open" /\ \E ok \in BOOLEAN :
        WsBecome(IF ok THEN [ws EXCEPT !.conn.st = "ACTIVE",
                               !.conn.req = IF @.on /\ @.out = "held" THEN [@ EXCEPT !.out = "queued"] ELSE @]
                 ELSE [ws EXCEPT !.conn.st = "ERROR"])
ConnectTimeout == ws.conn.st = "CONNECTING" /\ WsBecome([ws EXCEPT !.conn.st = "ERROR"])

\* StreamSocket::write has sent the request, and then calls dataSent, which
\* clears the buffer that the reply is gathered in.
SendRequest == /\ ws.conn.st = "ACTIVE" /\ ws.conn.sock = "open" /\ ws.conn.req.on /\ ws.conn.req.out = "queued"
               /\ WsBecome([ws EXCEPT !.conn.req.out = "written"])
DataSent == /\ ws.conn.st = "ACTIVE" /\ ws.conn.req.on /\ ws.conn.req.out = "written"
            /\ WsBecome([ws EXCEPT !.conn.req.out = "sent", !.conn.rtimer = TRUE])

Reading == /\ ws.conn.st = "ACTIVE" /\ ws.conn.sock = "open" /\ ws.conn.req.on
           /\ ws.conn.req.out \in {"written", "sent"}
\* onDataReady: the end of the header. A reply that is read before dataSent
\* is taken together with the request it answers, and fails.
Header == Reading /\ ~ws.conn.req.hdr /\ \E kind \in {"data", "moved", "gone", "error"}, body \in {0, 1} :
    LET H == [ws EXCEPT !.conn.req.hdr = TRUE, !.conn.rtimer = FALSE]
    IN  /\ kind = "moved" => ~ws.redir
        /\ kind # "moved" => body = 0
        /\ WsBecome(
             CASE ws.conn.req.out = "written" -> [ws EXCEPT !.conn.st = "ERROR", !.conn.req.hdr = TRUE]
               [] ws.conn.req.out = "sent" /\ kind = "data" -> H
               [] ws.conn.req.out = "sent" /\ kind = "moved" ->
                    [H EXCEPT !.conn.req.redir = TRUE, !.conn.req.content = body]
               [] OTHER -> [ws EXCEPT !.conn.st = "ERROR", !.conn.req.hdr = TRUE, !.conn.gone = kind = "gone"])

\* The bytes that the range stands for, or the content of a redirection.
Body == Reading /\ ws.conn.req.hdr /\ \E n \in 1 .. CS :
    LET r == ws.conn.req
        start == FirstChunk(r.f) * CS + FirstChunkOff(r.f) + r.off + r.recv
        left == IF r.redir THEN r.content - r.recv ELSE Smaller(r.len, FileSize(r.f) - r.off) - r.recv
    IN  /\ n <= left
        /\ WsBecome([ws EXCEPT !.conn.req.recv = @ + n,
                               !.conn.req.data = @ \o [i \in 1 .. n |-> IF r.redir THEN Junk ELSE start + i - 1]])

ServerCloses == /\ ws.conn.sock = "open" /\ ws.conn.st = "ACTIVE" /\ ws.closes < MaxCloses
                /\ WsBecome([ws EXCEPT !.conn.sock = "dead", !.closes = @ + 1])

\* replyTimeout: also of a connection that has no request any more.
ReplyTimeout ==
    /\ ws.conn.st # "none" /\ ws.conn.rtimer
    /\ ~ws.conn.req.on \/ ~ws.conn.req.hdr
    /\ WsBecome([ws EXCEPT !.conn.st = "ERROR", !.conn.rtimer = FALSE])

RetryTimer == ws.retry /\ WsBecome(Reset(ws))
Cancel == Busy(ws) /\ WsBecome(Reset(ws))
SetEnabled == WsBecome(IF ws.on THEN [Reset(ws) EXCEPT !.on = FALSE] ELSE [ws EXCEPT !.on = TRUE])
\* Downloader::finished: a chunk came from peers.
InCurrentRange(c) == ws.first <= c /\ c <= ws.last
PeersFinish(c) ==
    /\ c \notin ws.have
    /\ \E W \in {IF InCurrentRange(c) /\ c >= ws.cur THEN Reset(ws) ELSE ws} :
         WsBecome([W EXCEPT !.have = @ \cup {c}])
OnExcluded(a, b) == /\ a <= ws.first /\ ws.first <= b /\ a <= ws.last /\ ws.last <= b
                    /\ WsBecome(Reset(ws))

WsNext == \/ StartWebSeed \/ WsUpdate \/ HostResolved \/ ConnectFinished \/ ConnectTimeout
          \/ SendRequest \/ DataSent \/ Header \/ Body \/ ServerCloses
          \/ ReplyTimeout \/ RetryTimer \/ Cancel \/ SetEnabled
          \/ \E c \in Chunk : PeersFinish(c)
          \/ \E a, b \in Chunk : OnExcluded(a, b)

\* The timers and the threads run; a resolver answers; a server that began to
\* answer goes on or closes.
WsFairness ==
    /\ WF_wsVars(WsUpdate) /\ WF_wsVars(HostResolved) /\ WF_wsVars(ConnectFinished \/ ConnectTimeout)
    /\ WF_wsVars(SendRequest) /\ WF_wsVars(DataSent) /\ WF_wsVars(ReplyTimeout) /\ WF_wsVars(RetryTimer)
    /\ WF_wsVars(Body)

WsSpec == WsInit /\ [][WsNext]_wsVars /\ WsFairness

\* Types of the webseed's state: chunk numbers, and a buffer no longer than
\* its chunk.
WsTypeOK ==
    /\ {ws.first, ws.last, ws.current} \subseteq Chunk \cup {NoChunk}
    /\ ws.cur \in Chunk \cup {lay.chunks, NoChunk} /\ ws.got \in 0 .. CS - 1 /\ ws.have \subseteq Chunk
    /\ Len(ws.buf) <= CS /\ ws.fails \in 0 .. 4

\* The bytes of the current chunk are those of their places, through ranges
\* that span files and chunks, redirections and connections that are closed
\* and continued. (In a torrent of several files a range that was begun is
\* not continued, see GoodNotDisabled.)
InPlace ==
    /\ WsTypeOK
    /\ (ws.buf # <<>> /\ ws.cur \in Chunk /\ ~ws.resumed) => \A i \in 1 .. ws.got : ws.buf[i] = ws.cur * CS + i - 1

\* A webseed that has the data of the torrent is not disabled for having
\* other data.
GoodNotDisabled == ~ws.disabled

\* A webseed that is busy does not stay busy for ever.
Served == Busy(ws) ~> (~Busy(ws) \/ ws.resumed)
=============================================================================
