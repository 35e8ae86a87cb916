----------------------------- MODULE PeerUpload -----------------------------
(***************************************************************************)
(* Uploading to one peer: the requests the main thread queues, serves,     *)
(* cancels and rejects (Peer, PeerUploader), and the two packet queues of  *)
(* the PacketSocket from which the upload thread sends while the main      *)
(* thread edits them.                                                      *)
(* src/src/peer/{peer,peeruploader}.cpp, src/src/net/packetsocket.cpp,     *)
(* src/src/download/packet.cpp.                                            *)
(***************************************************************************)
EXTENDS Integers, FiniteSets, Sequences, Functions, Lists

CONSTANTS Reqs,          \* requests (index, offset, length)
          Fast,          \* the peer supports the fast extensions
          PieceLen,      \* bytes of a piece packet, a control packet is 1
          MaxPending,    \* MAX_PENDING_UPLOAD_BLOCKS
          MaxRequests,   \* bound: requests the peer sends
          MaxChokes      \* bound: times we unchoke the peer

ASSUME UploadAssumption == /\ Fast \in BOOLEAN /\ PieceLen \in Nat \ {0}
                           /\ {MaxPending, MaxRequests, MaxChokes} \subseteq Nat

VARIABLES slot,          \* stats.has_upload_slot
          reqs,          \* PeerUploader::requests
          ctrl, data,    \* control_packets, data_packets
          cur,           \* curr_packet
          thread,        \* where the upload thread is inside write
          csent,         \* ctrl_packets_sent
          pending,       \* pending_upload_data_bytes
          upl,           \* uploaded_data_bytes
          log            \* what was requested, answered, cancelled, counted

upVars == <<slot, reqs, ctrl, data, cur, thread, csent, pending, upl, log>>

NoPacket == [type |-> "none"]
Control(t) == [type |-> t, left |-> 1]
Reject(r) == [type |-> "reject", req |-> r, left |-> 1]
Piece(r) == [type |-> "piece", req |-> r, left |-> PieceLen]
IsPiece(p) == p.type = "piece"
Rejects(rs) == IF Fast THEN [i \in DOMAIN rs |-> Reject(rs[i])] ELSE <<>>
ReqsOf(packets) == [i \in DOMAIN packets |-> packets[i].req]

UpTypeOK ==
    /\ slot \in BOOLEAN /\ reqs \in Seq(Reqs) /\ csent \in Nat
    /\ \A p \in Range(data) : IsPiece(p)
    /\ \A p \in Range(ctrl) : ~IsPiece(p) /\ p.left = 1
    /\ thread.pc \in {"idle", "sent", "done"}
    /\ pending \in Nat /\ upl \in Nat

UpInit ==
    /\ slot = FALSE /\ reqs = <<>> /\ ctrl = <<>> /\ data = <<>>
    /\ cur = NoPacket /\ thread = [pc |-> "idle", n |-> 0]
    /\ csent = 0 /\ pending = 0 /\ upl = 0
    /\ log = [got |-> 0, answered |-> [r \in Reqs |-> 0], dropped |-> [r \in Reqs |-> 0],
              unchokes |-> 0, counted |-> 0, sent |-> 0]

Plus(counts, rs) == [r \in Reqs |-> counts[r] + Count(rs, r)]

-----------------------------------------------------------------------------
(* The main thread. *)

\* Peer::handleRequest
HandleRequest(r) ==
    /\ log.got < MaxRequests
    /\ log' = [log EXCEPT !.got = @ + 1,
                          !.dropped = IF slot \/ Fast THEN @ ELSE Plus(@, <<r>>)]
    /\ reqs' = IF slot THEN Append(reqs, r) ELSE reqs
    /\ ctrl' = IF slot THEN ctrl ELSE ctrl \o Rejects(<<r>>)
    /\ UNCHANGED <<slot, data, cur, thread, csent, pending, upl>>

\* Peer::handleCancel: every equal request that still waits is dropped, and
\* the pieces that are queued but not being sent are rejected.
HandleCancel(r) ==
    LET waiting == Only(reqs, {r})
        queued == Only(data, {Piece(r)})
    IN /\ reqs' = Only(reqs, Reqs \ {r})
       /\ data' = Only(data, Range(data) \ {Piece(r)})
       /\ pending' = pending - PieceLen * Len(queued)
       /\ ctrl' = ctrl \o Rejects(ReqsOf(queued))
       /\ log' = [log EXCEPT !.dropped = Plus(@, waiting \o IF Fast THEN <<>> ELSE ReqsOf(queued))]
       /\ UNCHANGED <<slot, cur, thread, csent, upl>>

\* PeerUploader::handleRequests. A request is served when its chunk is on
\* disk, it lies inside the chunk (`valid`) and the socket's queue has room.
Served(valid) ==
    LET room == MaxPending - Len(data) - IF IsPiece(cur) THEN 1 ELSE 0
        F[i \in 0 .. Len(reqs)] ==
            IF i = 0 THEN [data |-> <<>>, no |-> <<>>]
            ELSE IF reqs[i] \in valid /\ Len(F[i - 1].data) < room
            THEN [F[i - 1] EXCEPT !.data = Append(@, reqs[i])]
            ELSE [F[i - 1] EXCEPT !.no = Append(@, reqs[i])]
    IN F[Len(reqs)]

HandleRequests ==
    /\ slot /\ reqs # <<>>
    /\ \E valid \in SUBSET Reqs : \E s \in {Served(valid)} :
          /\ data' = data \o [i \in DOMAIN s.data |-> Piece(s.data[i])]
          /\ pending' = pending + PieceLen * Len(s.data)
          /\ ctrl' = ctrl \o Rejects(s.no)
          /\ log' = [log EXCEPT !.dropped = IF Fast THEN @ ELSE Plus(@, s.no)]
    /\ reqs' = <<>>
    /\ UNCHANGED <<slot, cur, thread, csent, upl>>

SendUnchoke ==
    /\ ~slot /\ log.unchokes < MaxChokes
    /\ slot' = TRUE /\ ctrl' = Append(ctrl, Control("unchoke"))
    /\ log' = [log EXCEPT !.unchokes = @ + 1]
    /\ UNCHANGED <<reqs, data, cur, thread, csent, pending, upl>>

\* Mutant: the requests that still wait are not rejected.
ChokeForgetting(queued) ==
    /\ slot' = FALSE
    /\ ctrl' = ctrl \o <<Control("choke")>> \o Rejects(queued)
    /\ data' = <<>> /\ reqs' = <<>>
    /\ pending' = pending - PieceLen * Len(data)
    /\ log' = [log EXCEPT !.dropped = IF Fast THEN @ ELSE Plus(@, queued \o reqs)]

\* Mutant: the bytes of the packet being sent are subtracted as well.
ChokeSubtractingCurrent(queued) ==
    /\ slot' = FALSE
    /\ ctrl' = ctrl \o <<Control("choke")>> \o Rejects(queued \o reqs)
    /\ data' = <<>> /\ reqs' = <<>>
    /\ pending' = pending - PieceLen * (Len(data) + IF IsPiece(cur) THEN 1 ELSE 0)
    /\ log' = [log EXCEPT !.dropped = IF Fast THEN @ ELSE Plus(@, queued \o reqs)]

\* Peer::sendChoke and PeerUploader::clearAllRequests: the queued pieces are
\* removed (clearPieces), and they and the waiting requests are rejected.
ClearAllRequests(queued) ==
    /\ slot' = FALSE
    /\ ctrl' = ctrl \o <<Control("choke")>> \o Rejects(queued \o reqs)
    /\ data' = <<>> /\ reqs' = <<>>
    /\ pending' = pending - PieceLen * Len(data)
    /\ log' = [log EXCEPT !.dropped = IF Fast THEN @ ELSE Plus(@, queued \o reqs)]

Choke == /\ slot /\ ClearAllRequests(ReqsOf(data))
         /\ UNCHANGED <<cur, thread, csent, upl>>

\* Peer::update takes the bytes the upload thread has counted.
TakeUploaded ==
    /\ upl > 0 /\ upl' = 0
    /\ log' = [log EXCEPT !.counted = @ + upl]
    /\ UNCHANGED <<slot, reqs, ctrl, data, cur, thread, csent, pending>>

-----------------------------------------------------------------------------
(* The upload thread: PacketSocket::write, one lock or system call a step. *)

\* selectPacket, when `sent` control packets were sent since the last piece.
SelectPacket(sent) ==
    IF ctrl # <<>> /\ (sent < 3 \/ data = <<>>)
    THEN cur' = Head(ctrl) /\ ctrl' = Tail(ctrl) /\ csent' = sent /\ UNCHANGED data
    ELSE IF data # <<>>
    THEN /\ cur' = Head(data) /\ data' = Tail(data)
         /\ csent' = IF sent < 3 THEN sent ELSE 0
         /\ UNCHANGED ctrl
    ELSE cur' = NoPacket /\ csent' = sent /\ UNCHANGED <<data, ctrl>>

StartWrite ==
    /\ thread.pc = "idle" /\ cur = NoPacket /\ ctrl \o data # <<>>
    /\ SelectPacket(csent)
    /\ UNCHANGED <<slot, reqs, thread, pending, upl, log>>

\* The socket takes n bytes; those of a piece are counted in the next step.
SendBytes(n) ==
    /\ thread.pc = "idle" /\ cur # NoPacket /\ n \in 1 .. cur.left
    /\ cur' = [cur EXCEPT !.left = @ - n]
    /\ thread' = [pc |-> IF IsPiece(cur) THEN "sent" ELSE "done", n |-> n]
    /\ log' = [log EXCEPT !.sent = @ + IF IsPiece(cur) THEN n ELSE 0]
    /\ UNCHANGED <<slot, reqs, ctrl, data, csent, pending, upl>>

CountBytes ==
    /\ thread.pc = "sent"
    /\ pending' = pending - thread.n /\ upl' = upl + thread.n
    /\ thread' = [pc |-> IF cur.left = 0 THEN "done" ELSE "idle", n |-> 0]
    /\ UNCHANGED <<slot, reqs, ctrl, data, cur, csent, log>>

\* The packet is sent: the thread's own counter is set and the next packet
\* is selected.
PacketSent ==
    /\ thread.pc = "done"
    /\ SelectPacket(IF IsPiece(cur) THEN 0 ELSE csent + 1)
    /\ thread' = [pc |-> "idle", n |-> 0]
    /\ log' = [log EXCEPT !.answered = IF cur.type \in {"piece", "reject"}
                                       THEN Plus(@, <<cur.req>>) ELSE @]
    /\ UNCHANGED <<slot, reqs, pending, upl>>

UpNext ==
    \/ \E r \in Reqs : HandleRequest(r) \/ HandleCancel(r)
    \/ HandleRequests \/ SendUnchoke \/ Choke \/ TakeUploaded
    \/ StartWrite \/ CountBytes \/ PacketSent
    \/ \E n \in 1 .. PieceLen : SendBytes(n)

UpSpec == UpInit /\ [][UpNext]_upVars

-----------------------------------------------------------------------------
\* The requests that have no answer yet, wherever they are kept.
Open == [r \in Reqs |-> Count(reqs, r) + Count(data, Piece(r)) + Count(ctrl, Reject(r))
                         + IF cur.type \in {"piece", "reject"} /\ cur.req = r THEN 1 ELSE 0]

Service == INSTANCE UploadService
    WITH Requests <- Reqs, open <- Open, answered <- log.answered, withdrawn <- log.dropped

(* Whatever order requests, cancels, chokes and the upload thread's steps  *)
(* come in, the two queues, the list of the PeerUploader and the packet    *)
(* being sent together implement UploadService: every request is answered  *)
(* once, by its piece or a reject, or withdrawn by a cancel, and a choke   *)
(* of a peer with the fast extensions forgets none.                        *)
ImplementsService == Service!Spec

(* The bytes that count against MAX_PENDING_UPLOAD_BYTES are those queued  *)
(* and not sent, up to the bytes the upload thread has just sent and not   *)
(* counted yet (never below zero: an unsigned number), and every byte sent *)
(* of a piece ends up in the statistics once.                              *)
PendingExact ==
    /\ UpTypeOK
    /\ pending = PieceLen * Len(data) + (IF IsPiece(cur) THEN cur.left ELSE 0)
                 + (IF thread.pc = "sent" THEN thread.n ELSE 0)
    /\ log.sent = log.counted + upl + (IF thread.pc = "sent" THEN thread.n ELSE 0)

=============================================================================
