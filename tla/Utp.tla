-------------------------------- MODULE Utp --------------------------------
(***************************************************************************)
(* A uTP connection between two sockets of libktorrent: utp::Connection    *)
(* with its LocalWindow and RemoteWindow at both ends, the UTPServer that  *)
(* finds the connection of a packet, and a network that delays, reorders,  *)
(* loses and duplicates packets.                                           *)
(*                                                                         *)
(* "a" made the connection (Type::OUTGOING), "b" is created by its SYN     *)
(* (Type::INCOMING).  All data come in units of one packet.  The           *)
(* congestion window (max_window) is not kept: a step takes any value it   *)
(* may have.  Time is not kept either: a time-out may come at any moment,  *)
(* may be the one that reaches MAX_TIMEOUT, and a packet may or may not    *)
(* have been sent longer ago than the current time-out.                    *)
(*                                                                         *)
(* Fewer than eight packets follow a gap, so the bit mask of a selective   *)
(* acknowledgement has length zero (extensionLength rounds down) and       *)
(* acknowledges nothing.  The keep-alive of handleTimeout is never due:    *)
(* since the last packet was sent the time-outs T, 2T, 4T, ... add up to   *)
(* less than the next one, and that one is below KEEP_ALIVE_TIMEOUT, or    *)
(* the connection is given up instead.                                     *)
(***************************************************************************)
EXTENDS Integers, Sequences, FiniteSets, FiniteSetsExt

CONSTANTS
  SeqNrMod,      \* sequence numbers are taken modulo this (2^16)
  Cap,         \* capacity of a LocalWindow (128 KiB)
  OutCap,      \* capacity of the output buffer
  EraseAfter,  \* packets that were read are erased when there are more (20)
  UpdateAt,    \* recv announces the window again above this size (2000)
  Writes,      \* how much each side writes
  MaxNet,      \* how many packets are under way; when there are more, new ones are lost
  MaxFaults    \* how many packets are duplicated and how many time-outs there are

Sides == {"a", "b"}

ASSUME UtpAssumption ==
  /\ SeqNrMod \in Nat /\ SeqNrMod > 5
  /\ Cap \in Nat \ {0} /\ OutCap \in Nat \ {0}
  /\ EraseAfter \in Nat /\ UpdateAt \in Nat /\ MaxNet \in Nat /\ MaxFaults \in Nat
  /\ Writes \in [Sides -> Nat]

VARIABLES
  conn,   \* the connection of each side
  net,    \* the packets under way
  faults, \* how many packets were duplicated and time-outs happened
  wr,     \* how much each side has written; unit n is the n-th one
  got,    \* the units each side has read
  born    \* how many connections a SYN has created

vars == <<conn, net, faults, wr, got, born>>

Other(e) == IF e = "a" THEN "b" ELSE "a"

SeqNr == 0 .. SeqNrMod - 1
Hole  == 0      \* a place of the window whose packet is missing or was read

(***************************************************************************)
(* Sequence numbers wrap around.                                           *)
(***************************************************************************)
Plus(s, n) == (s + n) % SeqNrMod
Near(x, y) == 2 * (IF x < y THEN y - x ELSE x - y) < SeqNrMod

SeqNrCmpSE(x, y) == IF Near(x, y) THEN x <= y ELSE x > y
SeqNrDiff(x, y) == IF Near(x, y) THEN (y - x) % SeqNrMod
                   ELSE IF y > x THEN x + (SeqNrMod - y) ELSE y + (SeqNrMod - x)

(***************************************************************************)
(* A connection.                                                           *)
(***************************************************************************)
NewConnection(e) ==
  [present |-> FALSE, st |-> "IDLE", seq |-> IF e = "a" THEN 1 ELSE 5,
   eof |-> SeqNrMod - 1,        \* -1, compared as an unsigned number
   finSent |-> FALSE, out |-> <<>>,
   \* LocalWindow
   last |-> 0, first |-> 0, front |-> 0, buf |-> <<>>, space |-> Cap, avail |-> 0,
   told |-> Cap,              \* last_window_size_transmitted
   \* RemoteWindow
   unacked |-> <<>>, cur |-> 0, wnd |-> 0, lastAck |-> 0, ackCount |-> 0,
   sent |-> {}]               \* packets handed to the output queue by this step

Emit(e, c, type, seq, ack, unit) ==
  [c EXCEPT !.told = c.space,
            !.sent = @ \cup {[to |-> Other(e), type |-> type, seq |-> seq, ack |-> ack,
                              wnd |-> c.space, unit |-> unit]}]

SendPacket(e, c, type, ack) == Emit(e, c, type, c.seq, ack, Hole)
SendState(e, c) == SendPacket(e, c, "STATE", c.last)
SendFIN(e, c)   == [SendPacket(e, c, "FIN", c.last) EXCEPT !.finSent = TRUE]
SendReset(e, c) == SendPacket(e, c, "RESET", c.last)
Abort(e, c)     == [SendReset(e, c) EXCEPT !.st = "CLOSED"]

AvailableSpace(c, mw) == LET m == IF c.wnd < mw THEN c.wnd ELSE mw
                         IN  IF c.cur > m THEN 0 ELSE m - c.cur

\* A packet that is sent counts twice: it shrinks wnd and grows cur.
AfterSending(c, i) == [c EXCEPT !.wnd = @ - i, !.cur = @ + i]

MayFinish(e, c) == IF c.st = "FINISHED" /\ ~c.finSent /\ c.out = <<>> THEN SendFIN(e, c) ELSE c

SendPackets(e, c, mw) ==
  LET k == Max({n \in 0 .. Len(c.out) : \A i \in 1 .. n : AvailableSpace(AfterSending(c, i - 1), mw) > 0})
      packet(i) == [to |-> Other(e), type |-> "DATA", seq |-> Plus(c.seq, i - 1), ack |-> c.last,
                    wnd |-> c.space, unit |-> c.out[i]]
  IN  MayFinish(e, [AfterSending(c, k) EXCEPT
        !.sent = @ \cup {packet(i) : i \in 1 .. k},
        !.told = IF k > 0 THEN c.space ELSE @,
        !.out = SubSeq(@, k + 1, Len(@)),
        !.seq = Plus(@, k),
        !.unacked = @ \o [i \in 1 .. k |-> [seq |-> packet(i).seq, unit |-> c.out[i], rtx |-> FALSE]]])

SendStateOrData(e, c, mw) ==
  IF c.out # <<>> /\ AvailableSpace(c, mw) > 0 THEN SendPackets(e, c, mw) ELSE SendState(e, c)

\* Sends the i-th unacknowledged packet again.
Retransmit(e, c, i) ==
  [Emit(e, c, "DATA", c.unacked[i].seq, c.last, c.unacked[i].unit) EXCEPT !.unacked[i].rtx = TRUE]

(***************************************************************************)
(* RemoteWindow::packetReceived: acknowledgements, and the third identical *)
(* one sends the first packet again.  The comparison with ack + 1 is not   *)
(* taken modulo 2^16.                                                      *)
(***************************************************************************)
RemoteReceived(e, c, p, late) ==
  LET n == Max({k \in 0 .. Len(c.unacked) : \A i \in 1 .. k : SeqNrCmpSE(c.unacked[i].seq, p.ack)})
      d == [c EXCEPT !.lastAck = p.ack,
                     !.ackCount = IF p.ack # c.lastAck THEN 1
                                  ELSE IF p.type = "STATE" /\ @ < 3 THEN @ + 1 ELSE @,
                     !.wnd = p.wnd,
                     !.cur = @ - n,
                     !.unacked = SubSeq(@, n + 1, Len(@))]
  IN  IF /\ d.unacked # <<>> /\ d.ackCount >= 3
         /\ d.unacked[1].seq = p.ack + 1
         /\ ~d.unacked[1].rtx \/ late
      THEN Retransmit(e, d, 1)
      ELSE d

(***************************************************************************)
(* LocalWindow.                                                            *)
(***************************************************************************)
\* Mutant: the number of the next packet is taken for that of the last one.
SetNextSeqNr(c, s) == [c EXCEPT !.last = Plus(s, 1), !.first = Plus(s, 1)]

SetLastSeqNr(c, s) == [c EXCEPT !.last = s, !.first = s]

\* incoming_packets with the packet put in its place, and places for those before it
Stored(c, p) ==
  LET base == IF c.buf = <<>> THEN [c EXCEPT !.first = Plus(c.last, 1), !.front = Plus(c.last, 1)] ELSE c
      at   == SeqNrDiff(base.front, p.seq) + 1
      grow == [i \in 1 .. (IF at > Len(base.buf) THEN at ELSE Len(base.buf)) |->
                 IF i <= Len(base.buf) THEN base.buf[i] ELSE Hole]
  IN  [base EXCEPT !.buf = [grow EXCEPT ![at] = p.unit], !.space = @ - 1]

\* Mutant: packets that wait behind a gap are not looked at.
AlreadyAcked(c, p) == SeqNrCmpSE(p.seq, c.last)

AlreadyGot(c, p) ==
  \/ SeqNrCmpSE(p.seq, c.last)
  \/ /\ c.buf # <<>> /\ SeqNrDiff(c.front, p.seq) < Len(c.buf)
     /\ c.buf[SeqNrDiff(c.front, p.seq) + 1] # Hole

\* Moves last over the packets that are now in order.
Advance(c, s) ==
  LET off == SeqNrDiff(c.front, s)
      m   == Max({k \in 0 .. Len(c.buf) - off : \A i \in 1 .. k : c.buf[off + i] # Hole})
  IN  IF s = Plus(c.last, 1) THEN [c EXCEPT !.last = Plus(@, m), !.avail = @ + m] ELSE c

\* The window refuses a new packet when it is full.
Fits(c, p) == SeqNrCmpSE(p.seq, c.last) \/ c.space >= 1
LocalReceived(c, p) == IF AlreadyGot(c, p) THEN c ELSE Advance(Stored(c, p), p.seq)

\* How many packets read takes when it is asked for n.
Readable(c, n) ==
  LET off == SeqNrDiff(c.front, c.first)
  IN  Max({k \in 0 .. n : \A i \in 1 .. k : /\ off + i <= Len(c.buf)
                                            /\ c.buf[off + i] # Hole
                                            /\ SeqNrCmpSE(Plus(c.front, off + i - 1), c.last)})

UnitsRead(c, m) == LET off == SeqNrDiff(c.front, c.first) IN SubSeq(c.buf, off + 1, off + m)

ReadWindow(c, m) ==
  LET off  == SeqNrDiff(c.front, c.first)
      buf  == [i \in 1 .. Len(c.buf) |-> IF i \in off + 1 .. off + m THEN Hole ELSE c.buf[i]]
      gone == SeqNrDiff(c.front, Plus(c.first, m))
      d    == [c EXCEPT !.first = Plus(@, m), !.space = @ + m, !.avail = @ - m]
  IN  IF gone > EraseAfter
      THEN [d EXCEPT !.buf = SubSeq(buf, gone + 1, Len(buf)), !.front = Plus(@, gone)]
      ELSE [d EXCEPT !.buf = buf]

(***************************************************************************)
(* Connection::handlePacket.                                               *)
(***************************************************************************)
CheckIfClosed(c) ==
  IF c.st = "FINISHED" /\ c.unacked = <<>> /\ c.buf = <<>> THEN [c EXCEPT !.st = "CLOSED"] ELSE c

HandleConnected(e, c, p, mw) ==
  CASE p.type = "DATA"  -> IF Fits(c, p) THEN SendStateOrData(e, LocalReceived(c, p), mw) ELSE Abort(e, c)
    [] p.type = "STATE" -> SendPackets(e, c, mw)
    [] p.type = "FIN"   -> CheckIfClosed(SendPackets(e, [c EXCEPT !.eof = p.seq, !.st = "FINISHED"], mw))

HandleFinished(e, c, p, mw) ==
  CASE p.type = "DATA"  ->
         LET wanted == SeqNrCmpSE(p.seq, c.eof)
         IN  IF wanted /\ ~Fits(c, p) THEN Abort(e, c)
             ELSE CheckIfClosed(MayFinish(e,
                    SendStateOrData(e, IF wanted THEN LocalReceived(c, p) ELSE c, mw)))
    [] p.type = "STATE" -> CheckIfClosed(SendPackets(e, c, mw))
    [] p.type = "FIN"   -> CheckIfClosed(SendPackets(e, [c EXCEPT !.eof = p.seq], mw))

HandlePacket(e, conn0, p, mw, late) ==
  LET c == RemoteReceived(e, conn0, p, late)
  IN  CASE c.st = "SYN_SENT" ->
             IF p.type = "STATE" THEN [SetLastSeqNr(c, Plus(p.seq, SeqNrMod - 1)) EXCEPT !.st = "CONNECTED"]
             ELSE Abort(e, c)
        [] c.st = "IDLE"      -> [SendState(e, SetLastSeqNr(c, p.seq)) EXCEPT !.st = "CONNECTED"]
        [] c.st = "CONNECTED" -> HandleConnected(e, c, p, mw)
        [] c.st = "FINISHED"  -> HandleFinished(e, c, p, mw)
        [] c.st = "CLOSED"    -> c

(***************************************************************************)
(* The steps.                                                              *)
(***************************************************************************)
Become(e, c, others) ==
  /\ conn' = [conn EXCEPT ![e] = [c EXCEPT !.sent = {}]]
  /\ net' = IF Cardinality(others \cup c.sent) <= MaxNet THEN others \cup c.sent ELSE others

Init ==
  /\ conn = [e \in Sides |-> NewConnection(e)]
  /\ net = {} /\ faults = 0 /\ born = 0
  /\ wr = [e \in Sides |-> 0]
  /\ got = [e \in Sides |-> <<>>]

\* UTPServer::connectTo
ConnectTo ==
  /\ conn["a"].st = "IDLE"
  /\ LET c == [NewConnection("a") EXCEPT !.present = TRUE, !.st = "SYN_SENT"]
     IN  Become("a", [SendPacket("a", c, "SYN", 0) EXCEPT !.seq = 2], net)
  /\ UNCHANGED <<faults, wr, got, born>>

Fault == faults < MaxFaults /\ faults' = faults + 1

\* A packet arrives at e; the network may keep a copy of it.
Arrives(e, p, dup) ==
  /\ p \in net /\ p.to = e
  /\ IF dup THEN Fault ELSE faults' = faults

Left(p, dup) == IF dup THEN net ELSE net \ {p}

\* What is left of a connection the server has removed
Gone(e) == [NewConnection(e) EXCEPT !.st = "CLOSED"]

\* UTPServer::handlePacket removes a connection that has become closed.
Removed(e, c) == IF c.st = "CLOSED" THEN [Gone(e) EXCEPT !.sent = c.sent] ELSE c

\* a data, state or fin packet; one without a connection is ignored
Receive(e) ==
  \E p \in net, dup \in BOOLEAN, late \in BOOLEAN, mw \in {1, Cap} :
    /\ Arrives(e, p, dup)
    /\ p.type \in {"DATA", "STATE", "FIN"} /\ conn[e].present
    /\ Become(e, Removed(e, HandlePacket(e, conn[e], p, mw, late)), Left(p, dup))
    /\ UNCHANGED <<wr, got, born>>

\* Connection::reset, also when the connection is closed already
ReceiveReset(e) ==
  \E p \in net, dup \in BOOLEAN :
    /\ Arrives(e, p, dup)
    /\ p.type = "RESET" /\ conn[e].present
    /\ Become(e, IF conn[e].st = "CLOSED" THEN conn[e] ELSE [Abort(e, conn[e]) EXCEPT !.unacked = <<>>],
              Left(p, dup))
    /\ UNCHANGED <<wr, got, born>>

\* A SYN makes a new connection.
ReceiveSYN ==
  \E p \in net, dup \in BOOLEAN :
    /\ Arrives("b", p, dup)
    /\ p.type = "SYN" /\ ~conn["b"].present
    /\ Become("b", [HandlePacket("b", NewConnection("b"), p, Cap, FALSE) EXCEPT !.present = TRUE], Left(p, dup))
    /\ born' = born + 1
    /\ UNCHANGED <<wr, got>>

\* A SYN with the id of a connection that exists is answered by a reset.
RefuseSYN ==
  \E p \in net, dup \in BOOLEAN :
    /\ Arrives("b", p, dup)
    /\ p.type = "SYN" /\ conn["b"].present
    /\ Become("b", conn["b"], Left(p, dup) \cup SendReset("b", NewConnection("b")).sent)
    /\ UNCHANGED <<wr, got, born>>

\* UTPSocket::send
Send(e) ==
  \E mw \in {1, Cap} :
    /\ conn[e].present /\ conn[e].st = "CONNECTED"
    /\ wr[e] < Writes[e] /\ Len(conn[e].out) < OutCap
    /\ wr' = [wr EXCEPT ![e] = @ + 1]
    /\ Become(e, SendPackets(e, [conn[e] EXCEPT !.out = Append(@, wr[e] + 1)], mw), net)
    /\ UNCHANGED <<faults, got, born>>

\* UTPSocket::recv: nothing is read from a closed connection.  With data
\* available the window is not empty, and checkIfClosed does nothing.
Recv(e) ==
  \E n \in {1, Cap} :
    /\ conn[e].present /\ conn[e].st # "CLOSED"
    /\ conn[e].avail > 0
    /\ LET m == Readable(conn[e], n)
           c == ReadWindow(conn[e], m)
       IN  /\ got' = [got EXCEPT ![e] = @ \o UnitsRead(conn[e], m)]
           /\ Become(e, IF c.told < UpdateAt /\ c.space > UpdateAt THEN SendState(e, c) ELSE c, net)
    /\ UNCHANGED <<faults, wr, born>>

\* UTPSocket::close, and OutputQueue::send when a packet could not be sent
Close(e) ==
  \E mw \in {1, Cap} :
    /\ conn[e].present /\ conn[e].st = "CONNECTED"
    /\ Become(e, SendPackets(e, [conn[e] EXCEPT !.st = "FINISHED"], mw), net)
    /\ UNCHANGED <<faults, wr, got, born>>

\* Connection::handleTimeout without an answer to SYN, or while closing
TimeoutCloses(e) ==
  /\ Fault
  /\ conn[e].present /\ conn[e].st \in {"SYN_SENT", "FINISHED"}
  /\ Become(e, [conn[e] EXCEPT !.st = "CLOSED"], net)
  /\ UNCHANGED <<wr, got, born>>

\* RemoteWindow::timeout: every packet is sent again.
RetransmitAll(e, c) ==
  LET again(i) == Retransmit(e, c, i).sent
  IN  [c EXCEPT !.sent = @ \cup UNION {again(i) : i \in 1 .. Len(c.unacked)},
                !.told = IF c.unacked # <<>> THEN c.space ELSE @,
                !.unacked = [i \in 1 .. Len(c.unacked) |-> [c.unacked[i] EXCEPT !.rtx = TRUE]]]

\* Connection::handleTimeout while connected: max_window drops to one packet.
TimeoutRetransmits(e) ==
  /\ Fault
  /\ conn[e].present /\ conn[e].st = "CONNECTED"
  /\ Become(e, SendPackets(e, RetransmitAll(e, conn[e]), 1), net)
  /\ UNCHANGED <<wr, got, born>>

\* The same, when the time-out has reached MAX_TIMEOUT
TimeoutKills(e) ==
  /\ Fault
  /\ conn[e].present /\ conn[e].st = "CONNECTED"
  /\ Become(e, SendReset(e, [RetransmitAll(e, conn[e]) EXCEPT !.st = "FINISHED"]), net)
  /\ UNCHANGED <<wr, got, born>>

\* UTPServer::cleanup, after a time-out of some connection
Cleanup(e) ==
  /\ conn[e].present /\ conn[e].st = "CLOSED"
  /\ conn' = [conn EXCEPT ![e] = Gone(e)]
  /\ UNCHANGED <<net, faults, wr, got, born>>

Next ==
  \/ ConnectTo \/ ReceiveSYN \/ RefuseSYN
  \/ \E e \in Sides :
       \/ Receive(e) \/ ReceiveReset(e)
       \/ Send(e) \/ Recv(e) \/ Close(e)
       \/ TimeoutCloses(e) \/ TimeoutRetransmits(e) \/ TimeoutKills(e) \/ Cleanup(e)

Spec == Init /\ [][Next]_vars

(***************************************************************************)
(* Properties.                                                             *)
(***************************************************************************)
\* (A part of WindowExact.) Every part of a connection has its type; unread data and free space fit in the window, and the
\* packets under way are ones the code can send.
TypeOK ==
  /\ \A e \in Sides :
       LET c == conn[e]
       IN  /\ c.present \in BOOLEAN /\ c.finSent \in BOOLEAN
           /\ c.st \in {"IDLE", "SYN_SENT", "CONNECTED", "FINISHED", "CLOSED"}
           /\ {c.seq, c.eof, c.last, c.first, c.front, c.lastAck} \subseteq SeqNr
           /\ {c.space, c.avail, c.told, c.wnd} \subseteq 0 .. Cap
           /\ c.cur \in Nat /\ c.ackCount \in 0 .. 3
           /\ c.out \in Seq(1 .. wr[e]) /\ Len(c.out) <= OutCap
           /\ c.buf \in Seq(0 .. wr[Other(e)])
           /\ c.unacked \in Seq([seq : SeqNr, unit : 1 .. wr[e], rtx : BOOLEAN])
           /\ c.sent = {}
           /\ wr[e] \in 0 .. Writes[e]
  /\ net \subseteq [to : Sides, type : {"SYN", "STATE", "DATA", "FIN", "RESET"}, seq : SeqNr, ack : SeqNr,
                    wnd : 0 .. Cap, unit : Nat]
  /\ faults \in 0 .. MaxFaults /\ born \in 0 .. MaxFaults + 1

\* What a connection of this handshake reads is what the other side wrote, in order and without gaps,
\* whatever the network does to the packets; and a sender forgets a packet only when it has been
\* received in order: what it has written and keeps no longer was read by the other side or can be read.
StreamIntact ==
  born <= 1 => \A e \in Sides :
    /\ Len(got[e]) <= wr[Other(e)]
    /\ \A i \in 1 .. Len(got[e]) : got[e][i] = i
    /\ conn[e].st \in {"CONNECTED", "FINISHED"} /\ conn[Other(e)].present =>
         wr[e] - Len(conn[e].out) - Len(conn[e].unacked) <= Len(got[Other(e)]) + conn[Other(e)].avail

\* The counters of both windows say what the windows hold: free space for the packets that are kept,
\* bytes available for those that read will hand out, and bytes in flight.
WindowExact ==
  TypeOK /\ \A e \in Sides :
    LET c == conn[e]
        held == {i \in 1 .. Len(c.buf) : c.buf[i] # Hole}
    IN  /\ c.space + Cardinality(held) = Cap
        /\ c.avail = Readable(c, Cap)
        /\ c.st # "CLOSED" => c.cur = Len(c.unacked)

============================================================================
