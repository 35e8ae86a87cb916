---------------------------- MODULE PacketReader ----------------------------
(***************************************************************************)
(* Cutting the byte stream of a peer into packets: the download thread     *)
(* feeds whatever segments the socket yields to onDataReady, the main      *)
(* thread takes complete packets from the queue.                           *)
(* src/src/peer/packetreader.cpp.                                          *)
(***************************************************************************)
EXTENDS Integers, SequencesExt

CONSTANTS Lengths,       \* packet lengths the other side may send
          MaxPacket,     \* max_packet_size
          MaxFrames      \* bound: packets in the stream

ASSUME RdAssumption == Lengths \subseteq Nat /\ MaxPacket \in Nat /\ MaxFrames \in Nat

VARIABLES stream,        \* the lengths of the packets the other side sends
          pos,           \* bytes of the stream that have arrived
          rd,            \* the PacketReader's fields, under its mutex
          handled        \* the packets handlePacket was called with

rdVars == <<stream, pos, rd, handled>>

\* A byte of the stream is its place in it. Packet k is four bytes of length,
\* big endian, and stream[k] bytes more, and ends at EndOf[k].
EndOf == LET E[k \in 0 .. Len(stream)] == IF k = 0 THEN 0 ELSE E[k - 1] + 4 + stream[k] IN E
Segment(p, n) == [i \in 1 .. n |-> p + i]
Body(k) == Segment(EndOf[k - 1] + 4, stream[k])

\* ReadUint32 of four bytes: garbage unless they are one packet's prefix.
ReadUint32(b) ==
    LET K == {k \in DOMAIN stream : b = Segment(EndOf[k - 1], 4)}
    IN  IF K = {} THEN MaxPacket + 1 ELSE stream[CHOOSE k \in K : TRUE]

RdInit ==
    /\ stream \in UNION {[1 .. n -> Lengths] : n \in 1 .. MaxFrames}
    /\ pos = 0 /\ handled = <<>>
    /\ rd = [error |-> FALSE, lenReceived |-> -1, len |-> <<>>, queue |-> <<>>]

RdTypeOK == /\ rd.error \in BOOLEAN /\ rd.lenReceived \in -1 .. 3
            /\ \A i \in DOMAIN rd.queue : rd.queue[i].size \in 1 .. MaxPacket

\* The last packet in the queue is not fully read.
Partial(R) == LET n == Len(R.queue) IN n > 0 /\ Len(R.queue[n].data) < R.queue[n].size

\* readPacket appends to the last packet of the queue: the new reader and
\* how many of the bytes it took.
ReadPacket(R, buf) ==
    LET last == R.queue[Len(R.queue)]
        missing == last.size - Len(last.data)
        n == IF missing < Len(buf) THEN missing ELSE Len(buf)
    IN [reader |-> [R EXCEPT !.queue[Len(R.queue)].data = @ \o SubSeq(buf, 1, n)],
        taken |-> n]

\* Mutant: bytes of a length that came in pieces are counted as four.
LengthBytesTaken4(R) == 4

\* How many bytes of the length came before, and are in this segment.
Have(R) == IF R.lenReceived > 0 THEN R.lenReceived ELSE 0
LengthBytesTaken(R) == IF R.lenReceived > 0 THEN 4 - R.lenReceived ELSE 4

NewPacket(R, buf) ==
    LET have == Have(R)
        n == LengthBytesTaken(R)
        prefix == SubSeq(R.len, 1, have) \o SubSeq(buf, 1, 4 - have)
        length == ReadUint32(prefix)
        R1 == [R EXCEPT !.lenReceived = IF R.lenReceived > 0 THEN 0 ELSE @]
        R2 == [R1 EXCEPT !.queue = Append(@, [size |-> length, data |-> <<>>])]
        rest == SubSeq(buf, n + 1, Len(buf))
    IN IF Len(buf) < 4 - have
       THEN [reader |-> [R EXCEPT !.len = SubSeq(R.len, 1, have) \o buf,
                                  !.lenReceived = have + Len(buf)],
             taken |-> Len(buf)]
       ELSE IF length = 0 THEN [reader |-> R1, taken |-> n]          \* keep alive
       ELSE IF length > MaxPacket
       THEN [reader |-> [R1 EXCEPT !.error = TRUE], taken |-> Len(buf)]
       ELSE IF rest = <<>> THEN [reader |-> R2, taken |-> n]
       ELSE LET r == ReadPacket(R2, rest)
            IN [reader |-> r.reader, taken |-> n + r.taken]

\* One turn of the loop of onDataReady, and the loop: a turn takes a byte at
\* least.
ReadTurn(X) ==
    LET r == NewPacket(X.reader, X.left)
    IN  IF X.left = <<>> \/ X.reader.error THEN X
        ELSE [reader |-> r.reader, left |-> SubSeq(X.left, r.taken + 1, Len(X.left))]
Consume(R, buf) ==
    LET F[i \in 0 .. Len(buf)] == IF i = 0 THEN [reader |-> R, left |-> buf] ELSE ReadTurn(F[i - 1])
    IN  F[Len(buf)].reader

\* onDataReady, with the next n bytes of the stream.
OnDataReady(n) ==
    /\ pos + n <= EndOf[Len(stream)]
    /\ pos' = pos + n
    /\ \E r \in {IF Partial(rd) THEN ReadPacket(rd, Segment(pos, n)) ELSE [reader |-> rd, taken |-> 0]} :
          rd' = IF rd.error THEN rd
                ELSE Consume(r.reader, SubSeq(Segment(pos, n), r.taken + 1, n))
    /\ UNCHANGED <<stream, handled>>

\* update: the main thread takes the packets one by one, unless the reader
\* has failed; the download thread may run in between.
DequeuePacket ==
    /\ ~rd.error /\ rd.queue # <<>>
    /\ Len(Head(rd.queue).data) = Head(rd.queue).size
    /\ handled' = Append(handled, Head(rd.queue).data)
    /\ rd' = [rd EXCEPT !.queue = Tail(@)]
    /\ UNCHANGED <<stream, pos>>

RdNext == DequeuePacket \/ \E n \in 1 .. EndOf[Len(stream)] : OnDataReady(n)

RdSpec == RdInit /\ [][RdNext]_rdVars

-----------------------------------------------------------------------------
\* The packets that are complete in the queue: all, or all but the last.
Complete(R) == IF Partial(R) THEN Len(R.queue) - 1 ELSE Len(R.queue)

\* The sequence out of packets is the packets of K in the order of the stream.
AreThose(out, K) ==
    /\ \A i \in DOMAIN out : \E k \in K : out[i] = Body(k)
    /\ \A k \in K : \E i \in DOMAIN out : out[i] = Body(k)
    /\ \A i, j \in DOMAIN out : i < j => out[i][1] < out[j][1]

(* However the stream is cut into segments (inside a length, between the   *)
(* length and the body, several packets at once), the packets handled and  *)
(* those complete in the queue are exactly the non-empty packets whose     *)
(* bytes have all arrived, in order, until a packet that is too long: the  *)
(* reader fails when and only when the length of such a packet arrived.    *)
FramingExact ==
    /\ RdTypeOK
    /\ rd.error <=> \E k \in DOMAIN stream : stream[k] > MaxPacket /\ EndOf[k - 1] + 4 <= pos
    /\ AreThose(handled \o [i \in 1 .. Complete(rd) |-> rd.queue[i].data],
                {k \in DOMAIN stream : /\ stream[k] > 0 /\ EndOf[k] <= pos
                                       /\ \A j \in 1 .. k : stream[j] <= MaxPacket})
=============================================================================
