---------------------------- MODULE UploadProofs ----------------------------
(***************************************************************************)
(* Proofs about what a peer sends and is sent: the bytes that count as     *)
(* pending are exact whatever the main thread does to the queues the       *)
(* upload thread sends from, and every request is answered once or         *)
(* withdrawn (PeerUpload implements UploadService); the choker never gives *)
(* away more slots than there are; the packets we read are those the other *)
(* side sent, however its stream is cut.                                   *)
(***************************************************************************)
EXTENDS PeerUpload, Choker, PacketReader, ListFacts

PieceType == {Piece(r) : r \in Reqs}
CtrlType == {Control("choke"), Control("unchoke")} \cup {Reject(r) : r \in Reqs}
CurType == {NoPacket} \cup [type : {"choke", "unchoke"}, left : 0 .. 1]
           \cup [type : {"reject"}, req : Reqs, left : 0 .. 1]
           \cup [type : {"piece"}, req : Reqs, left : 0 .. PieceLen]
Counts == [Reqs -> Nat]
LogType == [got : Nat, answered : Counts, dropped : Counts, unchokes : Nat, counted : Nat, sent : Nat]

LeftOf(p) == IF IsPiece(p) THEN p.left ELSE 0
Uncounted == IF thread.pc = "sent" THEN thread.n ELSE 0

(***************************************************************************)
(* The inductive invariant: what is queued are whole packets, the thread   *)
(* counts bytes only of a piece and is done with one only when nothing of  *)
(* it is left, and the bytes of PendingExact.                              *)
(***************************************************************************)
UpInv ==
  /\ slot \in BOOLEAN /\ reqs \in Seq(Reqs) /\ ctrl \in Seq(CtrlType) /\ data \in Seq(PieceType)
  /\ cur \in CurType /\ thread \in [pc : {"idle", "sent", "done"}, n : Nat]
  /\ csent \in Nat /\ upl \in Nat /\ log \in LogType
  /\ thread.pc = "sent" => IsPiece(cur)
  /\ thread.pc = "done" /\ IsPiece(cur) => cur.left = 0
  /\ pending = PieceLen * Len(data) + LeftOf(cur) + Uncounted
  /\ log.sent = log.counted + upl + Uncounted

-----------------------------------------------------------------------------
(* Packets and requests. *)

LEMMA UpNumbers == PieceLen \in Nat \ {0} /\ Fast \in BOOLEAN
BY UploadAssumption

LEMMA LeftFacts ==
  ASSUME NEW p \in CurType
  PROVE  /\ LeftOf(p) \in Nat /\ (IsPiece(p) => p \in [type : {"piece"}, req : Reqs, left : 0 .. PieceLen])
         /\ p # NoPacket => p.left \in Nat
<1>1. CASE p = NoPacket  BY <1>1 DEF NoPacket, IsPiece, LeftOf
<1>2. CASE p \in [type : {"choke", "unchoke"}, left : 0 .. 1]  BY <1>2 DEF IsPiece, LeftOf
<1>3. CASE p \in [type : {"reject"}, req : Reqs, left : 0 .. 1]  BY <1>3 DEF IsPiece, LeftOf
<1>4. CASE p \in [type : {"piece"}, req : Reqs, left : 0 .. PieceLen]
  BY <1>4, UpNumbers DEF IsPiece, LeftOf
<1>5. QED  BY <1>1, <1>2, <1>3, <1>4 DEF CurType

\* A packet of one kind for every request: as many for each as there are requests.
LEMMA PiecesFacts ==
  ASSUME NEW rs \in Seq(Reqs)
  PROVE  LET ps == [i \in DOMAIN rs |-> Piece(rs[i])]
         IN  /\ ps \in Seq(PieceType) /\ Len(ps) = Len(rs)
             /\ \A r \in Reqs : Count(ps, Piece(r)) = Count(rs, r)
<1> DEFINE ps == [i \in DOMAIN rs |-> Piece(rs[i])]
<1>1. DOMAIN rs = 1 .. Len(rs) /\ Len(rs) \in Nat  BY LenProperties
<1>2. \A i \in 1 .. Len(rs) : rs[i] \in Reqs  BY ElementOfSeq
<1>3. ps \in [1 .. Len(rs) -> PieceType]  BY <1>1, <1>2 DEF PieceType
<1>4. ps \in Seq(PieceType) /\ Len(ps) = Len(rs)
  <2>1. ps \in Seq(PieceType)  BY <1>1, <1>3, SeqDef
  <2>2. QED  BY <1>1, <1>3, <2>1, LenProperties
<1>5. ASSUME NEW r \in Reqs PROVE Count(ps, Piece(r)) = Count(rs, r)
  <2>1. DOMAIN ps = DOMAIN rs  OBVIOUS
  <2>2. \A i \in DOMAIN rs : ps[i] = Piece(r) <=> rs[i] = r  BY DEF Piece
  <2> HIDE DEF ps
  <2>3. QED  BY <2>1, <2>2, CountSame
<1>6. QED  BY <1>4, <1>5

LEMMA RejectsFacts ==
  ASSUME NEW rs \in Seq(Reqs)
  PROVE  /\ Rejects(rs) \in Seq(CtrlType)
         /\ \A r \in Reqs : Count(Rejects(rs), Reject(r)) = IF Fast THEN Count(rs, r) ELSE 0
<1> DEFINE ps == [i \in DOMAIN rs |-> Reject(rs[i])]
<1>1. DOMAIN rs = 1 .. Len(rs) /\ Len(rs) \in Nat  BY LenProperties
<1>2. \A i \in 1 .. Len(rs) : rs[i] \in Reqs  BY ElementOfSeq
<1>3. ps \in [1 .. Len(rs) -> CtrlType]  BY <1>1, <1>2 DEF CtrlType
<1>4. ps \in Seq(CtrlType)  BY <1>1, <1>3, SeqDef
<1>5. ASSUME NEW r \in Reqs PROVE Count(ps, Reject(r)) = Count(rs, r)
  <2>1. DOMAIN ps = DOMAIN rs  OBVIOUS
  <2>2. \A i \in DOMAIN rs : ps[i] = Reject(r) <=> rs[i] = r  BY DEF Reject
  <2> HIDE DEF ps
  <2>3. QED  BY <2>1, <2>2, CountSame
<1>6. <<>> \in Seq(CtrlType) /\ \A r \in Reqs : Count(<<>>, Reject(r)) = 0
  BY EmptySeq, CountEmpty
<1>7. Rejects(rs) = IF Fast THEN ps ELSE <<>>  BY DEF Rejects
<1> HIDE DEF ps
<1>8. CASE Fast  BY <1>4, <1>5, <1>7, <1>8
<1>9. CASE ~Fast  BY <1>6, <1>7, <1>9
<1>10. QED  BY <1>8, <1>9

LEMMA ReqsOfFacts ==
  ASSUME NEW ps \in Seq(PieceType)
  PROVE  /\ ReqsOf(ps) \in Seq(Reqs)
         /\ \A r \in Reqs : Count(ReqsOf(ps), r) = Count(ps, Piece(r))
<1> DEFINE rs == ReqsOf(ps)
<1>1. DOMAIN ps = 1 .. Len(ps) /\ Len(ps) \in Nat  BY LenProperties
<1>2. \A i \in 1 .. Len(ps) : ps[i] \in PieceType  BY ElementOfSeq
<1>3. \A i \in 1 .. Len(ps) : ps[i].req \in Reqs /\ ps[i] = Piece(ps[i].req)
  BY <1>2 DEF PieceType, Piece
<1>4. rs \in [1 .. Len(ps) -> Reqs] /\ DOMAIN rs = DOMAIN ps
      /\ \A i \in DOMAIN ps : rs[i] = ps[i].req
  BY <1>1, <1>3 DEF ReqsOf
<1> HIDE DEF rs
<1>5. rs \in Seq(Reqs)  BY <1>1, <1>4, SeqDef
<1>6. ASSUME NEW r \in Reqs PROVE Count(rs, r) = Count(ps, Piece(r))
  <2>1. \A i \in DOMAIN ps : rs[i] = r <=> ps[i] = Piece(r)
    BY <1>1, <1>3, <1>4 DEF Piece
  <2>2. QED  BY <1>4, <2>1, CountSame
<1>7. QED  BY <1>5, <1>6 DEF rs

LEMMA PlusFacts ==
  ASSUME NEW counts \in Counts, NEW rs \in Seq(Reqs)
  PROVE  /\ Plus(counts, rs) \in Counts
         /\ \A r \in Reqs : Plus(counts, rs)[r] = counts[r] + Count(rs, r)
<1>1. \A r \in Reqs : Count(rs, r) \in Nat  BY CountType
<1>2. \A r \in Reqs : counts[r] \in Nat  BY DEF Counts
<1>3. QED  BY <1>1, <1>2 DEF Plus, Counts

\* Piece and reject are different packets, and so are those of two requests.
LEMMA PacketFacts ==
  /\ \A r \in Reqs : Piece(r) \in PieceType /\ Reject(r) \in CtrlType
  /\ \A p \in PieceType : \E r \in Reqs : p = Piece(r)
  /\ \A p \in CtrlType : p \in CurType /\ ~IsPiece(p) /\ p.left = 1
  /\ \A p \in PieceType : p \in CurType /\ IsPiece(p) /\ p.left = PieceLen
  /\ ~IsPiece(NoPacket) /\ NoPacket \in CurType
<1>1. PieceLen \in 0 .. PieceLen /\ 1 \in 0 .. 1  BY UpNumbers
<1>2. \A r \in Reqs : Piece(r) \in [type : {"piece"}, req : Reqs, left : 0 .. PieceLen]
  BY <1>1 DEF Piece
<1>3. \A r \in Reqs : Reject(r) \in [type : {"reject"}, req : Reqs, left : 0 .. 1]
  BY <1>1 DEF Reject
<1>4. \A t \in {"choke", "unchoke"} : Control(t) \in [type : {"choke", "unchoke"}, left : 0 .. 1]
  BY <1>1 DEF Control
<1>5. \A p \in CtrlType : p \in CurType /\ ~IsPiece(p) /\ p.left = 1
  <2> SUFFICES ASSUME NEW p \in CtrlType PROVE p \in CurType /\ ~IsPiece(p) /\ p.left = 1
    OBVIOUS
  <2>1. CASE p = Control("choke") \/ p = Control("unchoke")
    <3>1. p \in CurType  BY <1>4, <2>1 DEF CurType
    <3>2. QED  BY <2>1, <3>1 DEF Control, IsPiece
  <2>2. CASE \E r \in Reqs : p = Reject(r)
    <3>1. p \in CurType  BY <1>3, <2>2 DEF CurType
    <3>2. QED  BY <2>2, <3>1 DEF Reject, IsPiece
  <2>3. QED  BY <2>1, <2>2 DEF CtrlType
<1>6. \A p \in PieceType : p \in CurType /\ IsPiece(p) /\ p.left = PieceLen
  <2> SUFFICES ASSUME NEW p \in PieceType PROVE p \in CurType /\ IsPiece(p) /\ p.left = PieceLen
    OBVIOUS
  <2>1. PICK r \in Reqs : p = Piece(r)  BY DEF PieceType
  <2>2. p \in CurType  BY <1>2, <2>1 DEF CurType
  <2>3. QED  BY <2>1, <2>2 DEF Piece, IsPiece
<1>7. ~IsPiece(NoPacket) /\ NoPacket \in CurType  BY DEF NoPacket, IsPiece, CurType
<1>8. QED  BY <1>5, <1>6, <1>7 DEF PieceType, CtrlType

-----------------------------------------------------------------------------
(* PeerUploader::handleRequests: the recursive function of Served. *)

Nothing == [data |-> <<>>, no |-> <<>>]
Turn(a, r, valid, room) ==
  IF r \in valid /\ Len(a.data) < room THEN [a EXCEPT !.data = Append(@, r)]
  ELSE [a EXCEPT !.no = Append(@, r)]
Serves(F, rs, valid, room, n) ==
  F = [i \in 0 .. n |-> IF i = 0 THEN Nothing ELSE Turn(F[i - 1], rs[i], valid, room)]

LEMMA ServesExists ==
  ASSUME NEW rs, NEW valid, NEW room
  PROVE  \A n \in Nat : \E F : Serves(F, rs, valid, room, n)
<1> DEFINE P == {n \in Nat : \E F : Serves(F, rs, valid, room, n)}
<1>1. 0 \in P
  <2> DEFINE F == [i \in 0 .. 0 |-> Nothing]
  <2>1. F = [i \in 0 .. 0 |-> IF i = 0 THEN Nothing ELSE Turn(F[i - 1], rs[i], valid, room)]
    OBVIOUS
  <2>2. Serves(F, rs, valid, room, 0)  BY <2>1 DEF Serves
  <2>3. QED  BY <2>2
<1>2. ASSUME NEW n \in Nat, n \in P PROVE n + 1 \in P
  <2>1. PICK F : Serves(F, rs, valid, room, n)  BY <1>2
  <2> DEFINE e == Turn(F[n], rs[n + 1], valid, room)
             G == [i \in 0 .. n + 1 |-> IF i = n + 1 THEN e ELSE F[i]]
  <2>2. ASSUME NEW i \in 0 .. n + 1
        PROVE  G[i] = IF i = 0 THEN Nothing ELSE Turn(G[i - 1], rs[i], valid, room)
    <3>1. CASE i = n + 1
      <4>1. G[i] = e /\ i # 0 /\ i - 1 = n /\ G[n] = F[n]  BY <3>1
      <4>2. QED  BY <3>1, <4>1
    <3>2. CASE i # n + 1
      <4>1. i \in 0 .. n /\ G[i] = F[i]  BY <3>2
      <4>2. F[i] = IF i = 0 THEN Nothing ELSE Turn(F[i - 1], rs[i], valid, room)
        BY <2>1, <4>1 DEF Serves
      <4>3. i # 0 => G[i - 1] = F[i - 1]  BY <4>1
      <4>4. QED  BY <4>1, <4>2, <4>3
    <3>3. QED  BY <3>1, <3>2
  <2>3. G = [i \in 0 .. n + 1 |-> G[i]]  OBVIOUS
  <2> HIDE DEF G
  <2>4. G = [i \in 0 .. n + 1 |-> IF i = 0 THEN Nothing ELSE Turn(G[i - 1], rs[i], valid, room)]
    BY <2>2, <2>3
  <2>5. Serves(G, rs, valid, room, n + 1)  BY <2>4 DEF Serves
  <2>6. QED  BY <2>5
<1> HIDE DEF P
<1>3. Nat \subseteq P  BY <1>1, <1>2, Inductive
<1>4. QED  BY <1>3 DEF P

\* Every request is served or refused, once.
LEMMA ServedFacts ==
  ASSUME reqs \in Seq(Reqs), NEW valid
  PROVE  /\ Served(valid).data \in Seq(Reqs) /\ Served(valid).no \in Seq(Reqs)
         /\ \A r \in Reqs : Count(Served(valid).data, r) + Count(Served(valid).no, r) = Count(reqs, r)
<1> DEFINE room == MaxPending - Len(data) - IF IsPiece(cur) THEN 1 ELSE 0
           F == CHOOSE G : G = [i \in 0 .. Len(reqs) |->
                  IF i = 0 THEN [data |-> <<>>, no |-> <<>>]
                  ELSE IF reqs[i] \in valid /\ Len(G[i - 1].data) < room
                  THEN [G[i - 1] EXCEPT !.data = Append(@, reqs[i])]
                  ELSE [G[i - 1] EXCEPT !.no = Append(@, reqs[i])]]
           R == Served(valid)
<1>1. R = F[Len(reqs)]  BY Zenon DEF Served
<1>2. Len(reqs) \in Nat /\ DOMAIN reqs = 1 .. Len(reqs) /\ \A i \in 1 .. Len(reqs) : reqs[i] \in Reqs
  BY LenProperties, ElementOfSeq
<1> HIDE DEF room
<1>3. Serves(F, reqs, valid, room, Len(reqs))
  <2>1. \E G : Serves(G, reqs, valid, room, Len(reqs))  BY <1>2, ServesExists
  <2>2. QED  BY <2>1, Zenon DEF Serves, Turn, Nothing
<1> HIDE DEF F, R
<1>4. F[0] = Nothing  BY <1>2, <1>3 DEF Serves
<1>5. ASSUME NEW i \in 1 .. Len(reqs) PROVE F[i] = Turn(F[i - 1], reqs[i], valid, room)
  <2>1. i \in 0 .. Len(reqs) /\ i # 0  BY <1>2
  <2>2. QED  BY <1>3, <2>1 DEF Serves
<1> DEFINE Before(n, r) == Cardinality({j \in 1 .. n : reqs[j] = r})
           Good(n) == /\ F[n] \in [data : Seq(Reqs), no : Seq(Reqs)]
                      /\ \A r \in Reqs : Count(F[n].data, r) + Count(F[n].no, r) = Before(n, r)
           P == {n \in Nat : n <= Len(reqs) => Good(n)}
<1>6. 0 \in P
  <2>1. 1 .. 0 = {}  OBVIOUS
  <2>2. \A r : {j \in 1 .. 0 : reqs[j] = r} = {}  BY <2>1
  <2>3. \A r : Before(0, r) = 0  BY <2>2, FS_EmptySet
  <2>4. <<>> \in Seq(Reqs) /\ \A r : Count(<<>>, r) = 0  BY EmptySeq, CountEmpty
  <2>5. F[0].data = <<>> /\ F[0].no = <<>> /\ F[0] \in [data : Seq(Reqs), no : Seq(Reqs)]
    BY <1>4, <2>4 DEF Nothing
  <2> HIDE DEF Before
  <2>6. Good(0)  BY <2>3, <2>4, <2>5
  <2>7. QED  BY <2>6
<1>7. ASSUME NEW n \in Nat, n \in P PROVE n + 1 \in P
  <2> SUFFICES ASSUME n + 1 <= Len(reqs) PROVE Good(n + 1)
    OBVIOUS
  <2> DEFINE a == F[n]
             e == reqs[n + 1]
  <2>1. Good(n) /\ n + 1 \in 1 .. Len(reqs) /\ (n + 1) - 1 = n  BY <1>2, <1>7
  <2>2. F[n + 1] = Turn(a, e, valid, room)  BY <1>5, <2>1
  <2>3. e \in Reqs /\ a \in [data : Seq(Reqs), no : Seq(Reqs)]  BY <1>2, <2>1
  <2>4. ASSUME NEW r
        PROVE  Before(n + 1, r) = Before(n, r) + (IF e = r THEN 1 ELSE 0) /\ Before(n, r) \in Nat
    <3> DEFINE A == {j \in 1 .. n : reqs[j] = r}
               B == {j \in 1 .. n + 1 : reqs[j] = r}
    <3>1. A \in SUBSET DOMAIN reqs  BY <1>2, <2>1
    <3>2. IsFiniteSet(A) /\ Cardinality(A) \in Nat /\ n + 1 \notin A  BY <3>1, PositionsFinite
    <3>3. 1 .. n + 1 = (1 .. n) \cup {n + 1}  OBVIOUS
    <3>4. B = IF e = r THEN A \cup {n + 1} ELSE A  BY <3>3
    <3>5. Before(n, r) = Cardinality(A) /\ Before(n + 1, r) = Cardinality(B)  OBVIOUS
    <3> HIDE DEF A, B, Before, e
    <3>6. CASE e = r
      <4>1. Cardinality(B) = Cardinality(A) + 1  BY <3>2, <3>4, <3>6, FS_AddElement
      <4>2. QED  BY <3>2, <3>5, <3>6, <4>1
    <3>7. CASE e # r  BY <3>2, <3>4, <3>5, <3>7
    <3>8. QED  BY <3>6, <3>7
  <2>5. a.data \in Seq(Reqs) /\ a.no \in Seq(Reqs)
        /\ Append(a.data, e) \in Seq(Reqs) /\ Append(a.no, e) \in Seq(Reqs)
    BY <2>3, AppendProperties
  <2>6. \A r : /\ Count(a.data, r) \in Nat /\ Count(a.no, r) \in Nat
               /\ Count(Append(a.data, e), r) = Count(a.data, r) + (IF e = r THEN 1 ELSE 0)
               /\ Count(Append(a.no, e), r) = Count(a.no, r) + (IF e = r THEN 1 ELSE 0)
    BY <2>3, <2>5, CountType, CountAppend
  <2>7. \A r \in Reqs : Count(a.data, r) + Count(a.no, r) = Before(n, r)  BY <2>1
  <2> HIDE DEF Before, e, a
  <2>8. CASE F[n + 1] = [a EXCEPT !.data = Append(@, e)]
    <3>1. /\ F[n + 1] \in [data : Seq(Reqs), no : Seq(Reqs)]
          /\ F[n + 1].data = Append(a.data, e) /\ F[n + 1].no = a.no
      BY <2>3, <2>5, <2>8
    <3>2. ASSUME NEW r \in Reqs
          PROVE  Count(F[n + 1].data, r) + Count(F[n + 1].no, r) = Before(n + 1, r)
      <4> DEFINE x == Count(a.data, r)
                 y == Count(a.no, r)
                 o == IF e = r THEN 1 ELSE 0
      <4>1. Count(F[n + 1].data, r) = x + o /\ Count(F[n + 1].no, r) = y  BY <2>6, <3>1
      <4>2. x + y = Before(n, r) /\ x \in Nat /\ y \in Nat /\ o \in Nat  BY <2>6, <2>7
      <4>3. Before(n + 1, r) = Before(n, r) + o  BY <2>4
      <4> HIDE DEF x, y, o
      <4>4. QED  BY <4>1, <4>2, <4>3
    <3>3. QED  BY <3>1, <3>2
  <2>9. CASE F[n + 1] = [a EXCEPT !.no = Append(@, e)]
    <3>1. /\ F[n + 1] \in [data : Seq(Reqs), no : Seq(Reqs)]
          /\ F[n + 1].no = Append(a.no, e) /\ F[n + 1].data = a.data
      BY <2>3, <2>5, <2>9
    <3>2. ASSUME NEW r \in Reqs
          PROVE  Count(F[n + 1].data, r) + Count(F[n + 1].no, r) = Before(n + 1, r)
      <4> DEFINE x == Count(a.data, r)
                 y == Count(a.no, r)
                 o == IF e = r THEN 1 ELSE 0
      <4>1. Count(F[n + 1].data, r) = x /\ Count(F[n + 1].no, r) = y + o  BY <2>6, <3>1
      <4>2. x + y = Before(n, r) /\ x \in Nat /\ y \in Nat /\ o \in Nat  BY <2>6, <2>7
      <4>3. Before(n + 1, r) = Before(n, r) + o  BY <2>4
      <4> HIDE DEF x, y, o
      <4>4. QED  BY <4>1, <4>2, <4>3
    <3>3. QED  BY <3>1, <3>2
  <2>10. QED  BY <2>2, <2>8, <2>9 DEF Turn
<1>8. Good(Len(reqs))
  <2> HIDE DEF Good
  <2>1. Nat \subseteq P
    <3> HIDE DEF P
    <3>1. QED  BY <1>6, <1>7, Inductive
  <2>2. QED  BY <1>2, <2>1
<1>9. \A r \in Reqs : Count(R.data, r) + Count(R.no, r) = Count(reqs, r)
  BY <1>1, <1>2, <1>8 DEF Count
<1>10. R.data \in Seq(Reqs) /\ R.no \in Seq(Reqs)  BY <1>1, <1>8
<1>11. QED  BY <1>9, <1>10 DEF R

-----------------------------------------------------------------------------
(* PacketSocket::selectPacket. *)

\* 1 when packet p answers request r.
CurIs(p, r) == IF p.type \in {"piece", "reject"} /\ p.req = r THEN 1 ELSE 0

LEMMA CurIsFacts ==
  ASSUME NEW r \in Reqs
  PROVE  /\ \A p \in CtrlType : CurIs(p, r) = IF p = Reject(r) THEN 1 ELSE 0
         /\ \A p \in PieceType : CurIs(p, r) = IF p = Piece(r) THEN 1 ELSE 0
         /\ CurIs(NoPacket, r) = 0
<1>1. ASSUME NEW p \in CtrlType PROVE CurIs(p, r) = IF p = Reject(r) THEN 1 ELSE 0
  <2>1. CASE p = Control("choke") \/ p = Control("unchoke")
    BY <2>1 DEF Control, CurIs, Reject
  <2>2. CASE \E q \in Reqs : p = Reject(q)  BY <2>2 DEF Reject, CurIs
  <2>3. QED  BY <2>1, <2>2 DEF CtrlType
<1>2. ASSUME NEW p \in PieceType PROVE CurIs(p, r) = IF p = Piece(r) THEN 1 ELSE 0
  BY DEF PieceType, Piece, CurIs
<1>3. CurIs(NoPacket, r) = 0  BY DEF NoPacket, CurIs
<1>4. QED  BY <1>1, <1>2, <1>3

\* One packet less in a queue, and it is the one that is sent.
LEMMA SelectFacts ==
  ASSUME ctrl \in Seq(CtrlType), data \in Seq(PieceType), NEW sent \in Nat, SelectPacket(sent)
  PROVE  /\ ctrl' \in Seq(CtrlType) /\ data' \in Seq(PieceType) /\ cur' \in CurType /\ csent' \in Nat
         /\ PieceLen * Len(data') + LeftOf(cur') = PieceLen * Len(data)
         /\ \A r \in Reqs : Count(data', Piece(r)) + Count(ctrl', Reject(r)) + CurIs(cur', r)
                            = Count(data, Piece(r)) + Count(ctrl, Reject(r))
<1>1. CASE ctrl # <<>> /\ cur' = Head(ctrl) /\ ctrl' = Tail(ctrl) /\ csent' = sent /\ data' = data
  <2>1. Head(ctrl) \in CtrlType /\ Tail(ctrl) \in Seq(CtrlType)  BY <1>1, HeadTailProperties
  <2>2. cur' \in CurType /\ ~IsPiece(cur')  BY <1>1, <2>1, PacketFacts
  <2>3. PieceLen * Len(data') + LeftOf(cur') = PieceLen * Len(data)
    <3>1. Len(data) \in Nat  BY LenProperties
    <3>2. PieceLen * Len(data) \in Nat  BY <3>1, UpNumbers
    <3>3. LeftOf(cur') = 0  BY <2>2 DEF LeftOf
    <3>4. QED  BY <1>1, <3>2, <3>3
  <2>4. ASSUME NEW r \in Reqs
        PROVE  Count(data', Piece(r)) + Count(ctrl', Reject(r)) + CurIs(cur', r)
               = Count(data, Piece(r)) + Count(ctrl, Reject(r))
    <3> DEFINE o == CurIs(cur', r)
               d == Count(data, Piece(r))
               t == Count(Tail(ctrl), Reject(r))
    <3>1. o = IF Head(ctrl) = Reject(r) THEN 1 ELSE 0  BY <1>1, <2>1, CurIsFacts
    <3>2. Count(ctrl, Reject(r)) = t + (IF Head(ctrl) = Reject(r) THEN 1 ELSE 0)
      BY <1>1, CountTail
    <3>3. d \in Nat /\ t \in Nat  BY <2>1, CountType
    <3> HIDE DEF o, d, t
    <3>4. Count(ctrl, Reject(r)) = t + o /\ o \in Nat  BY <3>1, <3>2
    <3>5. d + t + o = d + (t + o)  BY <3>3, <3>4
    <3>6. QED  BY <1>1, <3>4, <3>5 DEF d, t, o
  <2>5. QED  BY <1>1, <2>1, <2>2, <2>3, <2>4
<1>2. CASE /\ data # <<>> /\ cur' = Head(data) /\ data' = Tail(data)
           /\ csent' = (IF sent < 3 THEN sent ELSE 0) /\ ctrl' = ctrl
  <2>1. Head(data) \in PieceType /\ Tail(data) \in Seq(PieceType) /\ Len(Tail(data)) = Len(data) - 1
    BY <1>2, HeadTailProperties
  <2>2. cur' \in CurType /\ IsPiece(cur') /\ cur'.left = PieceLen  BY <1>2, <2>1, PacketFacts
  <2>3. PieceLen * Len(data') + LeftOf(cur') = PieceLen * Len(data)
    <3>1. Len(data) \in Nat  BY LenProperties
    <3>2. LeftOf(cur') = PieceLen  BY <2>2 DEF LeftOf
    <3>3. PieceLen * (Len(data) - 1) + PieceLen = PieceLen * Len(data)  BY <3>1, UpNumbers
    <3>4. QED  BY <1>2, <2>1, <3>2, <3>3
  <2>4. ASSUME NEW r \in Reqs
        PROVE  Count(data', Piece(r)) + Count(ctrl', Reject(r)) + CurIs(cur', r)
               = Count(data, Piece(r)) + Count(ctrl, Reject(r))
    <3> DEFINE o == CurIs(cur', r)
               t == Count(Tail(data), Piece(r))
               c == Count(ctrl, Reject(r))
    <3>1. o = IF Head(data) = Piece(r) THEN 1 ELSE 0  BY <1>2, <2>1, CurIsFacts
    <3>2. Count(data, Piece(r)) = t + (IF Head(data) = Piece(r) THEN 1 ELSE 0)
      BY <1>2, CountTail
    <3>3. c \in Nat /\ t \in Nat  BY <2>1, CountType
    <3> HIDE DEF o, c, t
    <3>4. Count(data, Piece(r)) = t + o /\ o \in Nat  BY <3>1, <3>2
    <3>5. t + c + o = (t + o) + c  BY <3>3, <3>4
    <3>6. QED  BY <1>2, <3>4, <3>5 DEF c, t, o
  <2>5. csent' \in Nat  BY <1>2
  <2>6. QED  BY <1>2, <2>1, <2>2, <2>3, <2>4, <2>5
<1>3. CASE cur' = NoPacket /\ csent' = sent /\ data' = data /\ ctrl' = ctrl
  <2>1. cur' \in CurType /\ LeftOf(cur') = 0  BY <1>3, PacketFacts DEF LeftOf
  <2>2. PieceLen * Len(data) \in Nat
    <3>1. Len(data) \in Nat  BY LenProperties
    <3>2. QED  BY <3>1, UpNumbers
  <2>3. ASSUME NEW r \in Reqs
        PROVE  Count(data', Piece(r)) + Count(ctrl', Reject(r)) + CurIs(cur', r)
               = Count(data, Piece(r)) + Count(ctrl, Reject(r))
    <3>1. Count(data, Piece(r)) \in Nat /\ Count(ctrl, Reject(r)) \in Nat  BY CountType
    <3>2. CurIs(cur', r) = 0  BY <1>3, CurIsFacts
    <3>3. QED  BY <1>3, <3>1, <3>2
  <2>4. QED  BY <1>3, <2>1, <2>2, <2>3
<1>4. QED  BY <1>1, <1>2, <1>3 DEF SelectPacket

\* The requests that are open, in numbers.
LEMMA OpenFacts ==
  ASSUME UpInv
  PROVE  /\ Open \in [Reqs -> Nat]
         /\ \A r \in Reqs :
               /\ Open[r] = Count(reqs, r) + Count(data, Piece(r)) + Count(ctrl, Reject(r)) + CurIs(cur, r)
               /\ Count(reqs, r) \in Nat /\ Count(data, Piece(r)) \in Nat
               /\ Count(ctrl, Reject(r)) \in Nat /\ CurIs(cur, r) \in Nat
<1>1. reqs \in Seq(Reqs) /\ data \in Seq(PieceType) /\ ctrl \in Seq(CtrlType)  BY DEF UpInv
<1>2. \A r \in Reqs : /\ Count(reqs, r) \in Nat /\ Count(data, Piece(r)) \in Nat
                      /\ Count(ctrl, Reject(r)) \in Nat
  BY <1>1, CountType
<1>3. \A r : CurIs(cur, r) \in Nat  BY DEF CurIs
<1>4. Open = [r \in Reqs |-> Count(reqs, r) + Count(data, Piece(r)) + Count(ctrl, Reject(r)) + CurIs(cur, r)]
  BY Zenon DEF Open, CurIs
<1>5. QED  BY <1>2, <1>3, <1>4

LEMMA OpenNext ==
  ASSUME UpInv'
  PROVE  /\ Open' \in [Reqs -> Nat]
         /\ \A r \in Reqs :
               /\ Open'[r] = Count(reqs', r) + Count(data', Piece(r)) + Count(ctrl', Reject(r))
                             + CurIs(cur', r)
               /\ Count(reqs', r) \in Nat /\ Count(data', Piece(r)) \in Nat
               /\ Count(ctrl', Reject(r)) \in Nat /\ CurIs(cur', r) \in Nat
<1>1. reqs' \in Seq(Reqs) /\ data' \in Seq(PieceType) /\ ctrl' \in Seq(CtrlType)  BY DEF UpInv
<1>2. \A r \in Reqs : /\ Count(reqs', r) \in Nat /\ Count(data', Piece(r)) \in Nat
                      /\ Count(ctrl', Reject(r)) \in Nat
  BY <1>1, CountType
<1>3. \A r : CurIs(cur', r) \in Nat  BY DEF CurIs
<1>4. Open' = [r \in Reqs |-> Count(reqs', r) + Count(data', Piece(r)) + Count(ctrl', Reject(r))
                              + CurIs(cur', r)]
  BY Zenon DEF Open, CurIs
<1>5. QED  BY <1>2, <1>3, <1>4

\* The steps of UploadService, from what happens to the numbers.
LEMMA OpenStays ==
  ASSUME UpInv, UpInv', log'.answered = log.answered, log'.dropped = log.dropped,
         \A r \in Reqs : Open'[r] = Open[r]
  PROVE  UNCHANGED Service!vars
<1>1. Open' = Open  BY OpenFacts, OpenNext
<1>2. QED  BY <1>1 DEF Service!vars

LEMMA OpenReceives ==
  ASSUME UpInv, UpInv', log'.answered = log.answered, log'.dropped = log.dropped, NEW r \in Reqs,
         \A q \in Reqs : Open'[q] = Open[q] + (IF r = q THEN 1 ELSE 0)
  PROVE  Service!Next
<1>1. Open \in [Reqs -> Nat] /\ Open' \in [Reqs -> Nat]  BY OpenFacts, OpenNext
<1>2. Open' = [Open EXCEPT ![r] = @ + 1]  BY <1>1
<1>3. Service!Receive(r)  BY <1>2 DEF Service!Receive
<1>4. QED  BY <1>3 DEF Service!Next

LEMMA OpenRefuses ==
  ASSUME UpInv, UpInv', log'.answered = log.answered, NEW r \in Reqs,
         log'.dropped = Plus(log.dropped, <<r>>), \A q \in Reqs : Open'[q] = Open[q]
  PROVE  Service!Next
<1>1. Open' = Open  BY OpenFacts, OpenNext
<1>2. log.dropped \in Counts  BY DEF UpInv, LogType
<1>3. \A q \in Reqs : Count(<<r>>, q) = IF r = q THEN 1 ELSE 0  BY CountSingle
<1>4. log'.dropped = [log.dropped EXCEPT ![r] = @ + 1]
  <2>1. \A q \in Reqs : Plus(log.dropped, <<r>>)[q] = log.dropped[q] + (IF r = q THEN 1 ELSE 0)
    BY <1>3 DEF Plus
  <2>2. Plus(log.dropped, <<r>>) = [q \in Reqs |-> Plus(log.dropped, <<r>>)[q]]  BY DEF Plus
  <2>3. QED  BY <1>2, <2>1, <2>2 DEF Counts
<1>5. Service!Refuse(r)  BY <1>1, <1>4 DEF Service!Refuse
<1>6. QED  BY <1>5 DEF Service!Next

LEMMA OpenAnswers ==
  ASSUME UpInv, UpInv', log'.dropped = log.dropped, NEW r \in Reqs,
         log'.answered = Plus(log.answered, <<r>>),
         \A q \in Reqs : Open[q] = Open'[q] + (IF r = q THEN 1 ELSE 0)
  PROVE  Service!Next
<1>1. Open \in [Reqs -> Nat] /\ Open' \in [Reqs -> Nat]  BY OpenFacts, OpenNext
<1>2. Open[r] > 0 /\ Open' = [Open EXCEPT ![r] = @ - 1]  BY <1>1
<1>3. log.answered \in Counts  BY DEF UpInv, LogType
<1>4. \A q \in Reqs : Count(<<r>>, q) = IF r = q THEN 1 ELSE 0  BY CountSingle
<1>5. log'.answered = [log.answered EXCEPT ![r] = @ + 1]
  <2>1. \A q \in Reqs : Plus(log.answered, <<r>>)[q] = log.answered[q] + (IF r = q THEN 1 ELSE 0)
    BY <1>4 DEF Plus
  <2>2. Plus(log.answered, <<r>>) = [q \in Reqs |-> Plus(log.answered, <<r>>)[q]]  BY DEF Plus
  <2>3. QED  BY <1>3, <2>1, <2>2 DEF Counts
<1>6. Service!Answer(r)  BY <1>2, <1>5 DEF Service!Answer
<1>7. QED  BY <1>6 DEF Service!Next

LEMMA OpenWithdraws ==
  ASSUME UpInv, UpInv', log'.answered = log.answered, NEW rs \in Seq(Reqs),
         log'.dropped = Plus(log.dropped, rs), \A q \in Reqs : Open[q] = Open'[q] + Count(rs, q)
  PROVE  Service!Next
<1>1. Open \in [Reqs -> Nat] /\ Open' \in [Reqs -> Nat]  BY OpenFacts, OpenNext
<1>2. \A q \in Reqs : Count(rs, q) \in Nat  BY CountType
<1>3. \A q \in Reqs : Open'[q] <= Open[q] /\ Count(rs, q) = Open[q] - Open'[q]  BY <1>1, <1>2
<1>4. log.dropped \in Counts  BY DEF UpInv, LogType
<1>5. \A q \in Reqs : log.dropped[q] + Count(rs, q) = log.dropped[q] + Open[q] - Open'[q]
  BY <1>1, <1>2, <1>3, <1>4 DEF Counts
<1>6. log'.dropped = [q \in Reqs |-> log.dropped[q] + Open[q] - Open'[q]]  BY <1>5 DEF Plus
<1>7. Service!Withdraw  BY <1>1, <1>3, <1>6 DEF Service!Withdraw
<1>8. QED  BY <1>7 DEF Service!Next

-----------------------------------------------------------------------------
(* One step of every kind. *)

UpStep == UpInv' /\ [Service!Next]_(Service!vars)

LEMMA HandleRequestStep == ASSUME UpInv, NEW r \in Reqs, HandleRequest(r) PROVE UpStep
<1> DEFINE D == IF slot \/ Fast THEN log.dropped ELSE Plus(log.dropped, <<r>>)
<1>1. <<r>> \in Seq(Reqs) /\ reqs \in Seq(Reqs) /\ ctrl \in Seq(CtrlType) /\ log \in LogType
  BY DEF UpInv
<1>2. log.dropped \in Counts /\ log.answered \in Counts  BY <1>1 DEF LogType
<1>3. Plus(log.dropped, <<r>>) \in Counts  BY <1>1, <1>2, PlusFacts
<1>4. D \in Counts  BY <1>2, <1>3
<1>5. log' = [log EXCEPT !.got = @ + 1, !.dropped = D]  BY DEF HandleRequest
<1> HIDE DEF D
<1>6. /\ log' \in LogType /\ log'.answered = log.answered /\ log'.dropped = D
      /\ log'.sent = log.sent /\ log'.counted = log.counted
  <2>1. log.got + 1 \in Nat  BY <1>1 DEF LogType
  <2> DEFINE g == log.got + 1
  <2>2. log' = [log EXCEPT !.got = g, !.dropped = D]  BY <1>5
  <2> HIDE DEF g
  <2>3. QED  BY <1>1, <1>4, <2>1, <2>2 DEF LogType, g
<1>7. Append(reqs, r) \in Seq(Reqs) /\ \A q : Count(Append(reqs, r), q) = Count(reqs, q) + (IF r = q THEN 1 ELSE 0)
  <2>1. Append(reqs, r) \in Seq(Reqs)  BY <1>1, AppendProperties
  <2>2. ASSUME NEW q PROVE Count(Append(reqs, r), q) = Count(reqs, q) + (IF r = q THEN 1 ELSE 0)
    BY <1>1, CountAppend
  <2>3. QED  BY <2>1, <2>2
<1>8. Rejects(<<r>>) \in Seq(CtrlType)
      /\ \A q \in Reqs : Count(Rejects(<<r>>), Reject(q)) = IF Fast THEN Count(<<r>>, q) ELSE 0
  BY <1>1, RejectsFacts
<1>9. ctrl \o Rejects(<<r>>) \in Seq(CtrlType)  BY <1>1, <1>8, ConcatProperties
<1>10. \A q : Count(ctrl \o Rejects(<<r>>), q) = Count(ctrl, q) + Count(Rejects(<<r>>), q)
  BY <1>1, <1>8, CountConcat
<1>11. /\ reqs' = (IF slot THEN Append(reqs, r) ELSE reqs)
       /\ ctrl' = (IF slot THEN ctrl ELSE ctrl \o Rejects(<<r>>))
       /\ slot' = slot /\ data' = data /\ cur' = cur /\ thread' = thread /\ csent' = csent
       /\ pending' = pending /\ upl' = upl
  BY DEF HandleRequest
<1>12. reqs' \in Seq(Reqs) /\ ctrl' \in Seq(CtrlType)  BY <1>1, <1>7, <1>9, <1>11
<1>13. UpInv'  BY <1>6, <1>11, <1>12 DEF UpInv, Uncounted
<1>14. CASE slot
  <2>1. \A q \in Reqs : Open'[q] = Open[q] + (IF r = q THEN 1 ELSE 0)
    <3> SUFFICES ASSUME NEW q \in Reqs PROVE Open'[q] = Open[q] + (IF r = q THEN 1 ELSE 0)
      OBVIOUS
    <3> DEFINE a == Count(reqs, q)
               b == Count(data, Piece(q))
               c == Count(ctrl, Reject(q))
               d == CurIs(cur, q)
               o == IF r = q THEN 1 ELSE 0
    <3>1. Open[q] = a + b + c + d /\ a \in Nat /\ b \in Nat /\ c \in Nat /\ d \in Nat  BY OpenFacts
    <3>2. Open'[q] = Count(reqs', q) + Count(data', Piece(q)) + Count(ctrl', Reject(q)) + CurIs(cur', q)
      BY <1>13, OpenNext
    <3>3. Count(reqs', q) = a + o /\ o \in Nat  BY <1>7, <1>11, <1>14
    <3>4. Open'[q] = (a + o) + b + c + d  BY <1>11, <1>14, <3>2, <3>3
    <3> HIDE DEF a, b, c, d, o
    <3>5. QED  BY <3>1, <3>3, <3>4 DEF o
  <2>2. log'.dropped = log.dropped  BY <1>6, <1>14 DEF D
  <2>3. Service!Next  BY <1>6, <1>13, <2>1, <2>2, OpenReceives
  <2>4. QED  BY <1>13, <2>3 DEF UpStep
<1>15. CASE ~slot /\ Fast
  <2>1. \A q \in Reqs : Open'[q] = Open[q] + (IF r = q THEN 1 ELSE 0)
    <3> SUFFICES ASSUME NEW q \in Reqs PROVE Open'[q] = Open[q] + (IF r = q THEN 1 ELSE 0)
      OBVIOUS
    <3> DEFINE a == Count(reqs, q)
               b == Count(data, Piece(q))
               c == Count(ctrl, Reject(q))
               d == CurIs(cur, q)
               o == IF r = q THEN 1 ELSE 0
    <3>1. Open[q] = a + b + c + d /\ a \in Nat /\ b \in Nat /\ c \in Nat /\ d \in Nat  BY OpenFacts
    <3>2. Open'[q] = Count(reqs', q) + Count(data', Piece(q)) + Count(ctrl', Reject(q)) + CurIs(cur', q)
      BY <1>13, OpenNext
    <3>3. Count(Rejects(<<r>>), Reject(q)) = o /\ o \in Nat  BY <1>8, <1>15, CountSingle
    <3>4. Count(ctrl', Reject(q)) = c + o  BY <1>10, <1>11, <1>15, <3>3
    <3>5. Open'[q] = a + b + (c + o) + d  BY <1>11, <1>15, <3>2, <3>4
    <3> HIDE DEF a, b, c, d, o
    <3>6. QED  BY <3>1, <3>3, <3>5 DEF o
  <2>2. log'.dropped = log.dropped  BY <1>6, <1>15 DEF D
  <2>3. Service!Next  BY <1>6, <1>13, <2>1, <2>2, OpenReceives
  <2>4. QED  BY <1>13, <2>3 DEF UpStep
<1>16. CASE ~slot /\ ~Fast
  <2>1. \A q \in Reqs : Open'[q] = Open[q]
    <3> SUFFICES ASSUME NEW q \in Reqs PROVE Open'[q] = Open[q]
      OBVIOUS
    <3>1. Count(Rejects(<<r>>), Reject(q)) = 0  BY <1>8, <1>16
    <3>2. Count(ctrl, Reject(q)) \in Nat  BY OpenFacts
    <3>3. Count(ctrl', Reject(q)) = Count(ctrl, Reject(q))  BY <1>10, <1>11, <1>16, <3>1, <3>2
    <3>4. QED  BY <1>11, <1>13, <1>16, <3>3, OpenFacts, OpenNext
  <2>2. log'.dropped = Plus(log.dropped, <<r>>)  BY <1>6, <1>16 DEF D
  <2>3. Service!Next  BY <1>6, <1>13, <2>1, <2>2, OpenRefuses
  <2>4. QED  BY <1>13, <2>3 DEF UpStep
<1>17. QED  BY <1>14, <1>15, <1>16

LEMMA SendUnchokeStep == ASSUME UpInv, SendUnchoke PROVE UpStep
<1> DEFINE u == Control("unchoke")
<1>1. u \in CtrlType /\ ctrl \in Seq(CtrlType) /\ log \in LogType  BY DEF UpInv, CtrlType
<1>2. log' = [log EXCEPT !.unchokes = @ + 1]  BY DEF SendUnchoke
<1>3. /\ log' \in LogType /\ log'.answered = log.answered /\ log'.dropped = log.dropped
      /\ log'.sent = log.sent /\ log'.counted = log.counted
  BY <1>1, <1>2 DEF LogType
<1>4. Append(ctrl, u) \in Seq(CtrlType)
      /\ \A q : Count(Append(ctrl, u), q) = Count(ctrl, q) + (IF u = q THEN 1 ELSE 0)
  BY <1>1, AppendProperties, CountAppend
<1>5. /\ ctrl' = Append(ctrl, u) /\ slot' = TRUE /\ reqs' = reqs /\ data' = data /\ cur' = cur
      /\ thread' = thread /\ csent' = csent /\ pending' = pending /\ upl' = upl
  BY DEF SendUnchoke
<1>6. UpInv'  BY <1>3, <1>4, <1>5 DEF UpInv, Uncounted
<1>7. \A q \in Reqs : Open'[q] = Open[q]
  <2> SUFFICES ASSUME NEW q \in Reqs PROVE Open'[q] = Open[q]
    OBVIOUS
  <2>1. u # Reject(q)  BY DEF Control, Reject
  <2>2. Count(ctrl, Reject(q)) \in Nat  BY OpenFacts
  <2> HIDE DEF u
  <2>3. Count(ctrl', Reject(q)) = Count(ctrl, Reject(q))  BY <1>4, <1>5, <2>1, <2>2
  <2>4. QED  BY <1>5, <1>6, <2>3, OpenFacts, OpenNext
<1>8. UNCHANGED Service!vars  BY <1>3, <1>6, <1>7, OpenStays
<1>9. QED  BY <1>6, <1>8 DEF UpStep

LEMMA TakeUploadedStep == ASSUME UpInv, TakeUploaded PROVE UpStep
<1>1. log \in LogType /\ upl \in Nat /\ Uncounted \in Nat  BY DEF UpInv, Uncounted
<1>2. log' = [log EXCEPT !.counted = @ + upl] /\ upl' = 0  BY DEF TakeUploaded
<1>3. /\ log' \in LogType /\ log'.answered = log.answered /\ log'.dropped = log.dropped
      /\ log'.sent = log.sent /\ log'.counted = log.counted + upl
  BY <1>1, <1>2 DEF LogType
<1>4. /\ ctrl' = ctrl /\ slot' = slot /\ reqs' = reqs /\ data' = data /\ cur' = cur
      /\ thread' = thread /\ csent' = csent /\ pending' = pending
  BY DEF TakeUploaded
<1>5. log'.sent = log'.counted + upl' + Uncounted'
  <2>1. Uncounted' = Uncounted  BY <1>4 DEF Uncounted
  <2>2. log.sent = log.counted + upl + Uncounted /\ log.counted \in Nat  BY DEF UpInv, LogType
  <2>3. log.counted + upl + Uncounted = (log.counted + upl) + 0 + Uncounted  BY <1>1, <2>2
  <2>4. QED  BY <1>2, <1>3, <2>1, <2>2, <2>3
<1>6. UpInv'  BY <1>2, <1>3, <1>4, <1>5 DEF UpInv, Uncounted
<1>7. \A q \in Reqs : Open'[q] = Open[q]  BY <1>4, <1>6, OpenFacts, OpenNext
<1>8. UNCHANGED Service!vars  BY <1>3, <1>6, <1>7, OpenStays
<1>9. QED  BY <1>6, <1>8 DEF UpStep

LEMMA HandleCancelStep == ASSUME UpInv, NEW r \in Reqs, HandleCancel(r) PROVE UpStep
<1> DEFINE waiting == Only(reqs, {r})
           rest == Only(reqs, Reqs \ {r})
           queued == Only(data, {Piece(r)})
           stay == Only(data, Range(data) \ {Piece(r)})
           none == IF Fast THEN <<>> ELSE ReqsOf(queued)
           W == waiting \o none
           D == Plus(log.dropped, W)
           J == Rejects(ReqsOf(queued))
<1>1. reqs \in Seq(Reqs) /\ data \in Seq(PieceType) /\ ctrl \in Seq(CtrlType) /\ log \in LogType
  BY DEF UpInv
<1>2. /\ reqs' = rest /\ data' = stay /\ pending' = pending - PieceLen * Len(queued)
      /\ ctrl' = ctrl \o J /\ log' = [log EXCEPT !.dropped = D]
      /\ slot' = slot /\ cur' = cur /\ thread' = thread /\ csent' = csent /\ upl' = upl
  BY Zenon DEF HandleCancel
<1>3. waiting \in Seq(Reqs) /\ rest \in Seq(Reqs)  BY <1>1, OnlyType
<1>4. queued \in Seq(PieceType) /\ stay \in Seq(PieceType)
      /\ Len(queued) \in Nat /\ Len(stay) \in Nat
  BY <1>1, OnlyType
<1>5. Len(queued) + Len(stay) = Len(data)
  <2>1. \A i \in DOMAIN data : data[i] \in {Piece(r)} <=> data[i] \notin Range(data) \ {Piece(r)}
    BY DEF Range
  <2>2. QED  BY <1>1, <2>1, OnlySplits
<1>6. ASSUME NEW q \in Reqs
      PROVE  /\ Count(waiting, q) + Count(rest, q) = Count(reqs, q)
             /\ Count(waiting, q) \in Nat /\ Count(rest, q) \in Nat
  <2>1. Count(waiting, q) = IF q \in {r} THEN Count(reqs, q) ELSE 0  BY <1>1, OnlyCount
  <2>2. Count(rest, q) = IF q \in Reqs \ {r} THEN Count(reqs, q) ELSE 0  BY <1>1, OnlyCount
  <2>3. Count(reqs, q) \in Nat  BY <1>1, CountType
  <2> HIDE DEF waiting, rest
  <2>4. CASE q = r  BY <2>1, <2>2, <2>3, <2>4
  <2>5. CASE q # r  BY <2>1, <2>2, <2>3, <2>5
  <2>6. QED  BY <2>4, <2>5
<1>7. ASSUME NEW q \in Reqs
      PROVE  /\ Count(queued, Piece(q)) + Count(stay, Piece(q)) = Count(data, Piece(q))
             /\ Count(queued, Piece(q)) \in Nat /\ Count(stay, Piece(q)) \in Nat
  <2> DEFINE p == Piece(q)
             b == Count(data, p)
  <2>1. Count(queued, p) = IF p \in {Piece(r)} THEN b ELSE 0  BY <1>1, OnlyCount
  <2>2. Count(stay, p) = IF p \in Range(data) \ {Piece(r)} THEN b ELSE 0  BY <1>1, OnlyCount
  <2>3. b \in Nat  BY <1>1, CountType
  <2>4. p \notin Range(data) => b = 0
    <3>1. DOMAIN data = 1 .. Len(data)  BY <1>1, LenProperties
    <3>2. b > 0 <=> \E i \in 1 .. Len(data) : data[i] = p  BY <1>1, CountPositive
    <3> HIDE DEF b, p
    <3>3. QED  BY <2>3, <3>1, <3>2 DEF Range
  <2> HIDE DEF queued, stay, p, b
  <2>5. CASE p = Piece(r)  BY <2>1, <2>2, <2>3, <2>5 DEF p, b
  <2>6. CASE p # Piece(r)
    <3>1. Count(queued, p) = 0  BY <2>1, <2>6
    <3>2. Count(stay, p) = b  BY <2>2, <2>4, <2>6
    <3>3. QED  BY <2>3, <3>1, <3>2 DEF p, b
  <2>7. QED  BY <2>5, <2>6
<1>8. ReqsOf(queued) \in Seq(Reqs)
      /\ \A q \in Reqs : Count(ReqsOf(queued), q) = Count(queued, Piece(q))
  BY <1>4, ReqsOfFacts
<1>9. J \in Seq(CtrlType)
      /\ \A q \in Reqs : Count(J, Reject(q)) = IF Fast THEN Count(ReqsOf(queued), q) ELSE 0
  BY <1>8, RejectsFacts
<1>10. none \in Seq(Reqs)
       /\ \A q \in Reqs : Count(none, q) = IF Fast THEN 0 ELSE Count(ReqsOf(queued), q)
  <2>1. <<>> \in Seq(Reqs) /\ \A q : Count(<<>>, q) = 0  BY EmptySeq, CountEmpty
  <2>2. none = IF Fast THEN <<>> ELSE ReqsOf(queued)  OBVIOUS
  <2> HIDE DEF none, queued
  <2>3. QED  BY <1>8, <2>1, <2>2
<1> HIDE DEF waiting, rest, queued, stay, none, J
<1>11. W \in Seq(Reqs) /\ \A q : Count(W, q) = Count(waiting, q) + Count(none, q)
  BY <1>3, <1>10, ConcatProperties, CountConcat
<1>12. ctrl \o J \in Seq(CtrlType) /\ \A q : Count(ctrl \o J, q) = Count(ctrl, q) + Count(J, q)
  BY <1>1, <1>9, ConcatProperties, CountConcat
<1>13. log.dropped \in Counts  BY <1>1 DEF LogType
<1> HIDE DEF W
<1>14. D \in Counts  BY <1>11, <1>13, PlusFacts
<1> HIDE DEF D
<1>15. /\ log' \in LogType /\ log'.answered = log.answered /\ log'.dropped = D
       /\ log'.sent = log.sent /\ log'.counted = log.counted
  BY <1>1, <1>2, <1>14 DEF LogType
<1>16. pending' = PieceLen * Len(data') + LeftOf(cur') + Uncounted'
  <2> DEFINE l == LeftOf(cur)
             u == Uncounted
  <2>1. pending = PieceLen * Len(data) + l + u  BY DEF UpInv
  <2>2. l \in Nat  BY LeftFacts DEF UpInv
  <2>3. u \in Nat  BY DEF UpInv, Uncounted
  <2>4. LeftOf(cur') = l /\ Uncounted' = u  BY <1>2 DEF Uncounted
  <2> HIDE DEF l, u
  <2>5. PieceLen * Len(data) = PieceLen * Len(queued) + PieceLen * Len(stay)
    BY <1>4, <1>5, UpNumbers
  <2>6. PieceLen * Len(queued) \in Nat /\ PieceLen * Len(stay) \in Nat  BY <1>4, UpNumbers
  <2>7. QED  BY <1>2, <2>1, <2>2, <2>3, <2>4, <2>5, <2>6
<1>17. UpInv'
  <2>1. reqs' \in Seq(Reqs) /\ data' \in Seq(PieceType) /\ ctrl' \in Seq(CtrlType)
    BY <1>2, <1>3, <1>4, <1>12
  <2>2. QED  BY <1>2, <1>15, <1>16, <2>1 DEF UpInv, Uncounted
<1>18. ASSUME NEW q \in Reqs PROVE Open[q] = Open'[q] + Count(W, q)
  <2> DEFINE w == Count(waiting, q)
             a == Count(rest, q)
             y == Count(queued, Piece(q))
             b == Count(stay, Piece(q))
             c == Count(ctrl, Reject(q))
             d == CurIs(cur, q)
             f == Count(J, Reject(q))
             n == Count(none, q)
  <2>1. Open[q] = (w + a) + (y + b) + c + d /\ c \in Nat /\ d \in Nat
    <3>1. Count(reqs, q) = w + a /\ Count(data, Piece(q)) = y + b  BY <1>6, <1>7
    <3>2. QED  BY <3>1, OpenFacts
  <2>2. Open'[q] = a + b + (c + f) + d
    <3>1. Count(reqs', q) = a /\ Count(data', Piece(q)) = b /\ Count(ctrl', Reject(q)) = c + f
          /\ CurIs(cur', q) = d
      BY <1>2, <1>12
    <3>2. QED  BY <1>17, <3>1, OpenNext
  <2>3. w \in Nat /\ a \in Nat /\ y \in Nat /\ b \in Nat  BY <1>6, <1>7
  <2>4. f = (IF Fast THEN y ELSE 0) /\ n = (IF Fast THEN 0 ELSE y)  BY <1>8, <1>9, <1>10
  <2>5. Count(W, q) = w + n  BY <1>11
  <2> HIDE DEF w, a, y, b, c, d, f, n
  <2>6. CASE Fast  BY <2>1, <2>2, <2>3, <2>4, <2>5, <2>6
  <2>7. CASE ~Fast  BY <2>1, <2>2, <2>3, <2>4, <2>5, <2>7
  <2>8. QED  BY <2>6, <2>7
<1>19. Service!Next  BY <1>11, <1>15, <1>17, <1>18, OpenWithdraws DEF D
<1>20. QED  BY <1>17, <1>19 DEF UpStep

LEMMA HandleRequestsStep == ASSUME UpInv, HandleRequests PROVE UpStep
<1>1. PICK valid \in SUBSET Reqs :
        /\ data' = data \o [i \in DOMAIN Served(valid).data |-> Piece(Served(valid).data[i])]
        /\ pending' = pending + PieceLen * Len(Served(valid).data)
        /\ ctrl' = ctrl \o Rejects(Served(valid).no)
        /\ log' = [log EXCEPT !.dropped = IF Fast THEN @ ELSE Plus(@, Served(valid).no)]
  BY DEF HandleRequests
<1> DEFINE yes == Served(valid).data
           no == Served(valid).no
           Y == [i \in DOMAIN yes |-> Piece(yes[i])]
           J == Rejects(no)
           D == IF Fast THEN log.dropped ELSE Plus(log.dropped, no)
<1>2. reqs \in Seq(Reqs) /\ data \in Seq(PieceType) /\ ctrl \in Seq(CtrlType) /\ log \in LogType
  BY DEF UpInv
<1>3. /\ yes \in Seq(Reqs) /\ no \in Seq(Reqs)
      /\ \A q \in Reqs : Count(yes, q) + Count(no, q) = Count(reqs, q)
  BY <1>2, ServedFacts
<1>4. /\ data' = data \o Y /\ pending' = pending + PieceLen * Len(yes) /\ ctrl' = ctrl \o J
      /\ log' = [log EXCEPT !.dropped = D]
  BY <1>1
<1>5. /\ reqs' = <<>> /\ slot' = slot /\ cur' = cur /\ thread' = thread /\ csent' = csent /\ upl' = upl
  BY DEF HandleRequests
<1> HIDE DEF yes, no
<1>6. Y \in Seq(PieceType) /\ Len(Y) = Len(yes) /\ \A q \in Reqs : Count(Y, Piece(q)) = Count(yes, q)
  BY <1>3, PiecesFacts
<1>7. J \in Seq(CtrlType) /\ \A q \in Reqs : Count(J, Reject(q)) = IF Fast THEN Count(no, q) ELSE 0
  BY <1>3, RejectsFacts
<1> HIDE DEF Y, J
<1>8. data \o Y \in Seq(PieceType) /\ Len(data \o Y) = Len(data) + Len(Y)
      /\ \A q : Count(data \o Y, q) = Count(data, q) + Count(Y, q)
  BY <1>2, <1>6, ConcatProperties, CountConcat
<1>9. ctrl \o J \in Seq(CtrlType) /\ \A q : Count(ctrl \o J, q) = Count(ctrl, q) + Count(J, q)
  BY <1>2, <1>7, ConcatProperties, CountConcat
<1>10. D \in Counts
  <2>1. log.dropped \in Counts  BY <1>2 DEF LogType
  <2>2. Plus(log.dropped, no) \in Counts  BY <1>3, <2>1, PlusFacts
  <2>3. QED  BY <2>1, <2>2
<1> HIDE DEF D
<1>11. /\ log' \in LogType /\ log'.answered = log.answered /\ log'.dropped = D
       /\ log'.sent = log.sent /\ log'.counted = log.counted
  BY <1>2, <1>4, <1>10 DEF LogType
<1>12. pending' = PieceLen * Len(data') + LeftOf(cur') + Uncounted'
  <2> DEFINE l == LeftOf(cur)
             u == Uncounted
  <2>1. pending = PieceLen * Len(data) + l + u  BY DEF UpInv
  <2>2. l \in Nat  BY LeftFacts DEF UpInv
  <2>3. u \in Nat  BY DEF UpInv, Uncounted
  <2>4. LeftOf(cur') = l /\ Uncounted' = u  BY <1>5 DEF Uncounted
  <2>5. Len(data) \in Nat /\ Len(yes) \in Nat  BY <1>2, <1>3, LenProperties
  <2> HIDE DEF l, u
  <2>6. PieceLen * (Len(data) + Len(yes)) = PieceLen * Len(data) + PieceLen * Len(yes)
    BY <2>5, UpNumbers
  <2>7. PieceLen * Len(data) \in Nat /\ PieceLen * Len(yes) \in Nat  BY <2>5, UpNumbers
  <2>8. Len(data') = Len(data) + Len(yes)  BY <1>4, <1>6, <1>8
  <2>9. QED  BY <1>4, <2>1, <2>2, <2>3, <2>4, <2>6, <2>7, <2>8
<1>13. UpInv'
  <2>1. reqs' \in Seq(Reqs) /\ data' \in Seq(PieceType) /\ ctrl' \in Seq(CtrlType)
    BY <1>4, <1>5, <1>8, <1>9, EmptySeq
  <2>2. QED  BY <1>5, <1>11, <1>12, <2>1 DEF UpInv, Uncounted
<1>14. ASSUME NEW q \in Reqs
       PROVE  Open[q] = Open'[q] + (IF Fast THEN 0 ELSE Count(no, q)) /\ Open'[q] \in Nat
  <2> DEFINE y == Count(yes, q)
             n == Count(no, q)
             b == Count(data, Piece(q))
             c == Count(ctrl, Reject(q))
             d == CurIs(cur, q)
             f == Count(J, Reject(q))
  <2>1. Open[q] = (y + n) + b + c + d /\ b \in Nat /\ c \in Nat /\ d \in Nat
    <3>1. Count(reqs, q) = y + n  BY <1>3
    <3>2. QED  BY <3>1, OpenFacts
  <2>2. Open'[q] = 0 + (b + y) + (c + f) + d
    <3>1. Count(reqs', q) = 0  BY <1>5, CountEmpty
    <3>2. Count(data', Piece(q)) = b + y  BY <1>4, <1>6, <1>8
    <3>3. Count(ctrl', Reject(q)) = c + f /\ CurIs(cur', q) = d  BY <1>4, <1>5, <1>9
    <3>4. QED  BY <1>13, <3>1, <3>2, <3>3, OpenNext
  <2>3. y \in Nat /\ n \in Nat  BY <1>3, CountType
  <2>4. f = IF Fast THEN n ELSE 0  BY <1>7
  <2> HIDE DEF y, b, c, d, f, n
  <2>5. CASE Fast  BY <2>1, <2>2, <2>3, <2>4, <2>5
  <2>6. CASE ~Fast
    <3>1. Open[q] = Open'[q] + n /\ Open'[q] \in Nat  BY <2>1, <2>2, <2>3, <2>4, <2>6
    <3>2. QED  BY <2>6, <3>1 DEF n
  <2>7. QED  BY <2>5, <2>6
<1>15. CASE Fast
  <2>1. \A q \in Reqs : Open'[q] = Open[q]  BY <1>14, <1>15
  <2>2. UNCHANGED Service!vars
    <3>1. log'.dropped = log.dropped  BY <1>11, <1>15 DEF D
    <3>2. QED  BY <1>11, <1>13, <2>1, <3>1, OpenStays
  <2>3. QED  BY <1>13, <2>2 DEF UpStep
<1>16. CASE ~Fast
  <2>1. log'.dropped = Plus(log.dropped, no)  BY <1>11, <1>16 DEF D
  <2>2. \A q \in Reqs : Open[q] = Open'[q] + Count(no, q)  BY <1>14, <1>16
  <2>3. Service!Next  BY <1>3, <1>11, <1>13, <2>1, <2>2, OpenWithdraws
  <2>4. QED  BY <1>13, <2>3 DEF UpStep
<1>17. QED  BY <1>15, <1>16

LEMMA ChokeStep == ASSUME UpInv, Choke PROVE UpStep
<1> DEFINE queued == ReqsOf(data)
           W == queued \o reqs
           J == Rejects(W)
           ch == <<Control("choke")>>
           D == IF Fast THEN log.dropped ELSE Plus(log.dropped, W)
<1>1. reqs \in Seq(Reqs) /\ data \in Seq(PieceType) /\ ctrl \in Seq(CtrlType) /\ log \in LogType
  BY DEF UpInv
<1>2. /\ slot' = FALSE /\ ctrl' = ctrl \o ch \o J /\ data' = <<>> /\ reqs' = <<>>
      /\ pending' = pending - PieceLen * Len(data) /\ log' = [log EXCEPT !.dropped = D]
      /\ cur' = cur /\ thread' = thread /\ csent' = csent /\ upl' = upl
  BY DEF Choke, ClearAllRequests
<1>3. queued \in Seq(Reqs) /\ \A q \in Reqs : Count(queued, q) = Count(data, Piece(q))
  BY <1>1, ReqsOfFacts
<1> HIDE DEF queued
<1>4. W \in Seq(Reqs) /\ \A q : Count(W, q) = Count(queued, q) + Count(reqs, q)
  BY <1>1, <1>3, ConcatProperties, CountConcat
<1> HIDE DEF W
<1>5. J \in Seq(CtrlType) /\ \A q \in Reqs : Count(J, Reject(q)) = IF Fast THEN Count(W, q) ELSE 0
  BY <1>4, RejectsFacts
<1>6. ch \in Seq(CtrlType) /\ \A q \in Reqs : Count(ch, Reject(q)) = 0
  <2>1. Control("choke") \in CtrlType  BY DEF CtrlType
  <2>2. \A q \in Reqs : Control("choke") # Reject(q)  BY DEF Control, Reject
  <2>3. QED  BY <2>1, <2>2, CountSingle
<1> HIDE DEF J, ch
<1>7. ctrl \o ch \in Seq(CtrlType) /\ \A q : Count(ctrl \o ch, q) = Count(ctrl, q) + Count(ch, q)
  BY <1>1, <1>6, ConcatProperties, CountConcat
<1>8. ctrl \o ch \o J \in Seq(CtrlType)
      /\ \A q : Count(ctrl \o ch \o J, q) = Count(ctrl \o ch, q) + Count(J, q)
  BY <1>5, <1>7, ConcatProperties, CountConcat
<1>9. D \in Counts
  <2>1. log.dropped \in Counts  BY <1>1 DEF LogType
  <2>2. Plus(log.dropped, W) \in Counts  BY <1>4, <2>1, PlusFacts
  <2>3. QED  BY <2>1, <2>2
<1> HIDE DEF D
<1>10. /\ log' \in LogType /\ log'.answered = log.answered /\ log'.dropped = D
       /\ log'.sent = log.sent /\ log'.counted = log.counted
  BY <1>1, <1>2, <1>9 DEF LogType
<1>11. pending' = PieceLen * Len(data') + LeftOf(cur') + Uncounted'
  <2> DEFINE l == LeftOf(cur)
             u == Uncounted
             x == PieceLen * Len(data)
  <2>1. pending = x + l + u  BY DEF UpInv
  <2>2. l \in Nat  BY LeftFacts DEF UpInv
  <2>3. u \in Nat  BY DEF UpInv, Uncounted
  <2>4. LeftOf(cur') = l /\ Uncounted' = u  BY <1>2 DEF Uncounted
  <2>5. x \in Nat
    <3>1. Len(data) \in Nat  BY <1>1, LenProperties
    <3>2. QED  BY <3>1, UpNumbers
  <2>6. pending' = pending - x  BY <1>2
  <2> HIDE DEF l, u, x
  <2>7. PieceLen * Len(data') = 0
    <3>1. Len(data') = 0  BY <1>2, EmptySeq
    <3>2. QED  BY <3>1, UpNumbers
  <2>8. QED  BY <2>1, <2>2, <2>3, <2>4, <2>5, <2>6, <2>7
<1>12. UpInv'
  <2>1. reqs' \in Seq(Reqs) /\ data' \in Seq(PieceType) /\ ctrl' \in Seq(CtrlType)
    BY <1>2, <1>8, EmptySeq
  <2>2. QED  BY <1>2, <1>10, <1>11, <2>1 DEF UpInv, Uncounted
<1>13. ASSUME NEW q \in Reqs
       PROVE  Open[q] = Open'[q] + (IF Fast THEN 0 ELSE Count(W, q)) /\ Open'[q] \in Nat
  <2> DEFINE a == Count(reqs, q)
             b == Count(data, Piece(q))
             c == Count(ctrl, Reject(q))
             d == CurIs(cur, q)
             f == Count(J, Reject(q))
             w == Count(W, q)
  <2>1. Open[q] = a + b + c + d /\ a \in Nat /\ b \in Nat /\ c \in Nat /\ d \in Nat  BY OpenFacts
  <2>2. w = b + a  BY <1>3, <1>4
  <2>3. Open'[q] = 0 + 0 + (c + 0 + f) + d
    <3>1. Count(reqs', q) = 0 /\ Count(data', Piece(q)) = 0  BY <1>2, CountEmpty
    <3>2. Count(ctrl', Reject(q)) = c + 0 + f /\ CurIs(cur', q) = d
      BY <1>2, <1>6, <1>7, <1>8
    <3>3. QED  BY <1>12, <3>1, <3>2, OpenNext
  <2>4. f = IF Fast THEN w ELSE 0  BY <1>5
  <2> HIDE DEF a, b, c, d, f, w
  <2>5. CASE Fast  BY <2>1, <2>2, <2>3, <2>4, <2>5
  <2>6. CASE ~Fast
    <3>1. Open[q] = Open'[q] + w /\ Open'[q] \in Nat  BY <2>1, <2>2, <2>3, <2>4, <2>6
    <3>2. QED  BY <2>6, <3>1 DEF w
  <2>7. QED  BY <2>5, <2>6
<1>14. CASE Fast
  <2>1. \A q \in Reqs : Open'[q] = Open[q]  BY <1>13, <1>14
  <2>2. UNCHANGED Service!vars
    <3>1. log'.dropped = log.dropped  BY <1>10, <1>14 DEF D
    <3>2. QED  BY <1>10, <1>12, <2>1, <3>1, OpenStays
  <2>3. QED  BY <1>12, <2>2 DEF UpStep
<1>15. CASE ~Fast
  <2>1. log'.dropped = Plus(log.dropped, W)  BY <1>10, <1>15 DEF D
  <2>2. \A q \in Reqs : Open[q] = Open'[q] + Count(W, q)  BY <1>13, <1>15
  <2>3. Service!Next  BY <1>4, <1>10, <1>12, <2>1, <2>2, OpenWithdraws
  <2>4. QED  BY <1>12, <2>3 DEF UpStep
<1>16. QED  BY <1>14, <1>15

LEMMA StartWriteStep == ASSUME UpInv, StartWrite PROVE UpStep
<1>1. /\ ctrl \in Seq(CtrlType) /\ data \in Seq(PieceType) /\ csent \in Nat /\ cur = NoPacket
      /\ SelectPacket(csent) /\ thread.pc = "idle"
  BY DEF UpInv, StartWrite
<1>2. /\ slot' = slot /\ reqs' = reqs /\ thread' = thread /\ pending' = pending /\ upl' = upl
      /\ log' = log
  BY DEF StartWrite
<1>3. /\ ctrl' \in Seq(CtrlType) /\ data' \in Seq(PieceType) /\ cur' \in CurType /\ csent' \in Nat
      /\ PieceLen * Len(data') + LeftOf(cur') = PieceLen * Len(data)
      /\ \A r \in Reqs : Count(data', Piece(r)) + Count(ctrl', Reject(r)) + CurIs(cur', r)
                         = Count(data, Piece(r)) + Count(ctrl, Reject(r))
  BY <1>1, SelectFacts
<1>4. pending' = PieceLen * Len(data') + LeftOf(cur') + Uncounted'
  <2>1. LeftOf(cur) = 0 /\ Uncounted = 0 /\ Uncounted' = 0
    BY <1>1, <1>2, PacketFacts DEF LeftOf, Uncounted
  <2>2. pending = PieceLen * Len(data) + LeftOf(cur) + Uncounted  BY DEF UpInv
  <2> DEFINE x == PieceLen * Len(data)
             y == PieceLen * Len(data') + LeftOf(cur')
  <2>3. y = x /\ x \in Nat
    <3>1. Len(data) \in Nat /\ PieceLen \in Nat  BY <1>1, UploadAssumption, LenProperties
    <3>2. QED  BY <1>3, <3>1
  <2>4. pending = x + LeftOf(cur) + Uncounted  BY <2>2
  <2>5. pending' = y + Uncounted' <=> pending' = PieceLen * Len(data') + LeftOf(cur') + Uncounted'
    OBVIOUS
  <2> HIDE DEF x, y
  <2>6. pending' = y + Uncounted'  BY <1>2, <2>1, <2>3, <2>4
  <2>7. QED  BY <2>5, <2>6
<1>5. UpInv'
  <2>1. thread'.pc = "idle"  BY <1>1, <1>2
  <2>2. QED  BY <1>2, <1>3, <1>4, <2>1 DEF UpInv, Uncounted
<1>6. ASSUME NEW q \in Reqs PROVE Open'[q] = Open[q]
  <2> DEFINE a == Count(reqs, q)
             b == Count(data, Piece(q))
             c == Count(ctrl, Reject(q))
             x == Count(data', Piece(q))
             y == Count(ctrl', Reject(q))
             z == CurIs(cur', q)
  <2>1. CurIs(cur, q) = 0  BY <1>1, CurIsFacts
  <2>2. Open[q] = a + b + c + 0 /\ a \in Nat /\ b \in Nat /\ c \in Nat  BY <2>1, OpenFacts
  <2>3. Open'[q] = a + x + y + z /\ x \in Nat /\ y \in Nat /\ z \in Nat  BY <1>2, <1>5, OpenNext
  <2>4. x + y + z = b + c  BY <1>3
  <2> HIDE DEF a, b, c, x, y, z
  <2>5. QED  BY <2>2, <2>3, <2>4
<1>7. UNCHANGED Service!vars  BY <1>2, <1>5, <1>6, OpenStays
<1>8. QED  BY <1>5, <1>7 DEF UpStep

\* Less of a packet is left: it is still the same packet.
LEMMA LeftChanges ==
  ASSUME NEW p \in CurType, p # NoPacket, NEW n \in 1 .. p.left
  PROVE  LET s == [p EXCEPT !.left = @ - n]
         IN  /\ s \in CurType /\ s.left = p.left - n /\ s.type = p.type
             /\ \A r \in Reqs : CurIs(s, r) = CurIs(p, r)
<1> DEFINE s == [p EXCEPT !.left = @ - n]
<1>1. CASE p \in [type : {"choke", "unchoke"}, left : 0 .. 1]
  <2>1. s \in [type : {"choke", "unchoke"}, left : 0 .. 1] /\ s.left = p.left - n /\ s.type = p.type
    BY <1>1
  <2>2. QED  BY <1>1, <2>1 DEF CurType, CurIs
<1>2. CASE p \in [type : {"reject"}, req : Reqs, left : 0 .. 1]
  <2>1. /\ s \in [type : {"reject"}, req : Reqs, left : 0 .. 1] /\ s.left = p.left - n
        /\ s.type = p.type /\ s.req = p.req
    BY <1>2
  <2>2. QED  BY <1>2, <2>1 DEF CurType, CurIs
<1>3. CASE p \in [type : {"piece"}, req : Reqs, left : 0 .. PieceLen]
  <2>1. /\ s \in [type : {"piece"}, req : Reqs, left : 0 .. PieceLen] /\ s.left = p.left - n
        /\ s.type = p.type /\ s.req = p.req
    BY <1>3, UpNumbers
  <2>2. QED  BY <1>3, <2>1 DEF CurType, CurIs
<1>4. QED  BY <1>1, <1>2, <1>3 DEF CurType

LEMMA SendBytesStep == ASSUME UpInv, NEW n \in 1 .. PieceLen, SendBytes(n) PROVE UpStep
<1>1. /\ cur \in CurType /\ cur # NoPacket /\ n \in 1 .. cur.left /\ thread.pc = "idle"
      /\ log \in LogType
  BY DEF UpInv, SendBytes
<1> DEFINE s == [cur EXCEPT !.left = @ - n]
           m == IF IsPiece(cur) THEN n ELSE 0
<1>2. /\ cur' = s /\ thread' = [pc |-> IF IsPiece(cur) THEN "sent" ELSE "done", n |-> n]
      /\ log' = [log EXCEPT !.sent = @ + m]
      /\ slot' = slot /\ reqs' = reqs /\ ctrl' = ctrl /\ data' = data /\ csent' = csent
      /\ pending' = pending /\ upl' = upl
  BY DEF SendBytes
<1>3. s \in CurType /\ s.left = cur.left - n /\ s.type = cur.type
      /\ \A r \in Reqs : CurIs(s, r) = CurIs(cur, r)
  BY <1>1, LeftChanges
<1> HIDE DEF s
<1>4. IsPiece(cur') <=> IsPiece(cur)  BY <1>2, <1>3 DEF IsPiece
<1>5. n \in Nat /\ m \in Nat /\ cur.left \in Nat /\ cur.left - n \in Nat
  BY <1>1, UpNumbers, LeftFacts
<1> HIDE DEF m
<1>6. /\ log' \in LogType /\ log'.answered = log.answered /\ log'.dropped = log.dropped
      /\ log'.sent = log.sent + m /\ log'.counted = log.counted
  BY <1>1, <1>2, <1>5 DEF LogType
<1>7. Uncounted = 0 /\ Uncounted' = m /\ LeftOf(cur) = LeftOf(cur') + m /\ LeftOf(cur') \in Nat
  <2>1. CASE IsPiece(cur)
    <3>1. m = n /\ thread'.pc = "sent" /\ thread'.n = n  BY <1>2, <2>1 DEF m
    <3>2. LeftOf(cur) = cur.left /\ LeftOf(cur') = cur.left - n
      BY <1>2, <1>3, <1>4, <2>1 DEF LeftOf
    <3>3. QED  BY <1>1, <1>5, <3>1, <3>2 DEF Uncounted
  <2>2. CASE ~IsPiece(cur)
    <3>1. m = 0 /\ thread'.pc = "done"  BY <1>2, <2>2 DEF m
    <3>2. QED  BY <1>1, <1>4, <2>2, <3>1 DEF Uncounted, LeftOf
  <2>3. QED  BY <2>1, <2>2
<1>8. pending' = PieceLen * Len(data') + LeftOf(cur') + Uncounted'
  <2> DEFINE x == PieceLen * Len(data)
             l == LeftOf(cur')
  <2>1. x \in Nat
    <3>1. Len(data) \in Nat  BY LenProperties DEF UpInv
    <3>2. QED  BY <3>1, UpNumbers
  <2>2. pending = x + (l + m) + 0  BY <1>7 DEF UpInv
  <2>3. l \in Nat  BY <1>7
  <2> HIDE DEF l, x
  <2>4. pending = x + l + m  BY <1>5, <2>1, <2>2, <2>3
  <2>5. QED  BY <1>2, <1>7, <2>4 DEF x, l
<1>9. log'.sent = log'.counted + upl' + Uncounted'
  <2>1. log.sent = log.counted + upl + 0 /\ log.counted \in Nat /\ upl \in Nat
    BY <1>7 DEF UpInv, LogType
  <2>2. log.sent + m = log.counted + upl + m  BY <1>5, <2>1
  <2>3. QED  BY <1>2, <1>6, <1>7, <2>2
<1>10. UpInv'
  <2>1. thread' \in [pc : {"idle", "sent", "done"}, n : Nat]  BY <1>2, <1>5
  <2>2. thread'.pc = "sent" => IsPiece(cur')  BY <1>2, <1>4
  <2>3. thread'.pc = "done" => ~IsPiece(cur')  BY <1>2, <1>4
  <2>4. cur' \in CurType  BY <1>2, <1>3
  <2>5. QED  BY <1>2, <1>6, <1>8, <1>9, <2>1, <2>2, <2>3, <2>4 DEF UpInv
<1>11. \A q \in Reqs : Open'[q] = Open[q]  BY <1>2, <1>3, <1>10, OpenFacts, OpenNext
<1>12. UNCHANGED Service!vars  BY <1>6, <1>10, <1>11, OpenStays
<1>13. QED  BY <1>10, <1>12 DEF UpStep

LEMMA CountBytesStep == ASSUME UpInv, CountBytes PROVE UpStep
<1>1. /\ thread.pc = "sent" /\ thread.n \in Nat /\ IsPiece(cur) /\ upl \in Nat
      /\ Uncounted = thread.n /\ log \in LogType
  BY DEF UpInv, CountBytes, Uncounted
<1>2. /\ pending' = pending - thread.n /\ upl' = upl + thread.n
      /\ thread' = [pc |-> IF cur.left = 0 THEN "done" ELSE "idle", n |-> 0]
      /\ slot' = slot /\ reqs' = reqs /\ ctrl' = ctrl /\ data' = data /\ cur' = cur
      /\ csent' = csent /\ log' = log
  BY DEF CountBytes
<1>3. Uncounted' = 0  BY <1>2 DEF Uncounted
<1>4. pending' = PieceLen * Len(data') + LeftOf(cur') + Uncounted'
  <2> DEFINE x == PieceLen * Len(data)
             l == LeftOf(cur)
  <2>1. x \in Nat
    <3>1. Len(data) \in Nat  BY LenProperties DEF UpInv
    <3>2. QED  BY <3>1, UpNumbers
  <2>2. pending = x + l + thread.n  BY <1>1 DEF UpInv
  <2>3. l \in Nat  BY LeftFacts DEF UpInv
  <2> HIDE DEF l, x
  <2>4. pending' = x + l + 0  BY <1>1, <1>2, <2>1, <2>2, <2>3
  <2>5. QED  BY <1>2, <1>3, <2>4 DEF x, l
<1>5. log'.sent = log'.counted + upl' + Uncounted'
  <2>1. log.sent = log.counted + upl + thread.n /\ log.counted \in Nat  BY <1>1 DEF UpInv, LogType
  <2>2. log.sent = log.counted + (upl + thread.n) + 0  BY <1>1, <2>1
  <2>3. QED  BY <1>2, <1>3, <2>2
<1>6. UpInv'
  <2>1. thread' \in [pc : {"idle", "sent", "done"}, n : Nat] /\ thread'.pc # "sent"
        /\ (thread'.pc = "done" => cur'.left = 0)
    BY <1>2
  <2>2. upl' \in Nat  BY <1>1, <1>2
  <2>3. QED  BY <1>2, <1>4, <1>5, <2>1, <2>2 DEF UpInv
<1>7. \A q \in Reqs : Open'[q] = Open[q]  BY <1>2, <1>6, OpenFacts, OpenNext
<1>8. UNCHANGED Service!vars  BY <1>2, <1>6, <1>7, OpenStays
<1>9. QED  BY <1>6, <1>8 DEF UpStep

LEMMA PacketSentStep == ASSUME UpInv, PacketSent PROVE UpStep
<1> DEFINE sent == IF IsPiece(cur) THEN 0 ELSE csent + 1
           A == IF cur.type \in {"piece", "reject"} THEN Plus(log.answered, <<cur.req>>)
                ELSE log.answered
<1>1. /\ ctrl \in Seq(CtrlType) /\ data \in Seq(PieceType) /\ cur \in CurType /\ sent \in Nat
      /\ SelectPacket(sent) /\ thread.pc = "done" /\ log \in LogType
  BY DEF UpInv, PacketSent
<1>2. /\ thread' = [pc |-> "idle", n |-> 0] /\ log' = [log EXCEPT !.answered = A]
      /\ slot' = slot /\ reqs' = reqs /\ pending' = pending /\ upl' = upl
  BY DEF PacketSent
<1> HIDE DEF sent
<1>3. /\ ctrl' \in Seq(CtrlType) /\ data' \in Seq(PieceType) /\ cur' \in CurType /\ csent' \in Nat
      /\ PieceLen * Len(data') + LeftOf(cur') = PieceLen * Len(data)
      /\ \A r \in Reqs : Count(data', Piece(r)) + Count(ctrl', Reject(r)) + CurIs(cur', r)
                         = Count(data, Piece(r)) + Count(ctrl, Reject(r))
  BY <1>1, SelectFacts
<1>4. cur.type \in {"piece", "reject"} => cur.req \in Reqs
  <2>1. CASE cur = NoPacket  BY <2>1 DEF NoPacket
  <2>2. CASE cur \in [type : {"choke", "unchoke"}, left : 0 .. 1]  BY <2>2
  <2>3. CASE cur \in [type : {"reject"}, req : Reqs, left : 0 .. 1]  BY <2>3
  <2>4. CASE cur \in [type : {"piece"}, req : Reqs, left : 0 .. PieceLen]  BY <2>4
  <2>5. QED  BY <1>1, <2>1, <2>2, <2>3, <2>4 DEF CurType
<1>5. A \in Counts
  <2>1. log.answered \in Counts  BY <1>1 DEF LogType
  <2>2. CASE cur.type \in {"piece", "reject"}
    <3>1. <<cur.req>> \in Seq(Reqs)  BY <1>4, <2>2
    <3>2. QED  BY <2>1, <2>2, <3>1, PlusFacts
  <2>3. CASE cur.type \notin {"piece", "reject"}  BY <2>1, <2>3
  <2>4. QED  BY <2>2, <2>3
<1> HIDE DEF A
<1>6. /\ log' \in LogType /\ log'.answered = A /\ log'.dropped = log.dropped
      /\ log'.sent = log.sent /\ log'.counted = log.counted
  BY <1>1, <1>2, <1>5 DEF LogType
<1>7. Uncounted = 0 /\ Uncounted' = 0 /\ LeftOf(cur) = 0
  <2>1. IsPiece(cur) => cur.left = 0  BY <1>1 DEF UpInv
  <2>2. QED  BY <1>1, <1>2, <2>1 DEF Uncounted, LeftOf
<1>8. pending' = PieceLen * Len(data') + LeftOf(cur') + Uncounted'
  <2> DEFINE x == PieceLen * Len(data)
             y == PieceLen * Len(data') + LeftOf(cur')
  <2>1. pending = x + 0 + 0  BY <1>7 DEF UpInv
  <2>2. x \in Nat
    <3>1. Len(data) \in Nat  BY <1>1, LenProperties
    <3>2. QED  BY <3>1, UpNumbers
  <2>3. y = x  BY <1>3
  <2> HIDE DEF x, y
  <2>4. pending' = y + 0  BY <1>2, <2>1, <2>2, <2>3
  <2>5. QED  BY <1>7, <2>4 DEF y
<1>9. log'.sent = log'.counted + upl' + Uncounted'  BY <1>2, <1>6, <1>7 DEF UpInv
<1>10. UpInv'
  <2>1. thread' \in [pc : {"idle", "sent", "done"}, n : Nat] /\ thread'.pc = "idle"  BY <1>2
  <2>2. QED  BY <1>2, <1>3, <1>6, <1>8, <1>9, <2>1 DEF UpInv
<1>11. ASSUME NEW q \in Reqs PROVE Open[q] = Open'[q] + CurIs(cur, q)
  <2> DEFINE a == Count(reqs, q)
             b == Count(data, Piece(q))
             c == Count(ctrl, Reject(q))
             d == CurIs(cur, q)
             x == Count(data', Piece(q))
             y == Count(ctrl', Reject(q))
             z == CurIs(cur', q)
  <2>1. Open[q] = a + b + c + d /\ a \in Nat /\ b \in Nat /\ c \in Nat /\ d \in Nat  BY OpenFacts
  <2>2. Open'[q] = a + x + y + z /\ x \in Nat /\ y \in Nat /\ z \in Nat  BY <1>2, <1>10, OpenNext
  <2>3. x + y + z = b + c  BY <1>3
  <2> HIDE DEF a, b, c, d, x, y, z
  <2>4. Open[q] = Open'[q] + d  BY <2>1, <2>2, <2>3
  <2>5. QED  BY <2>4 DEF d
<1>12. CASE cur.type \in {"piece", "reject"}
  <2>1. \A q \in Reqs : CurIs(cur, q) = IF cur.req = q THEN 1 ELSE 0  BY <1>12 DEF CurIs
  <2>2. log'.answered = Plus(log.answered, <<cur.req>>)  BY <1>6, <1>12 DEF A
  <2>3. \A q \in Reqs : Open[q] = Open'[q] + (IF cur.req = q THEN 1 ELSE 0)  BY <1>11, <2>1
  <2>4. cur.req \in Reqs  BY <1>4, <1>12
  <2>5. Service!Next  BY <1>6, <1>10, <2>2, <2>3, <2>4, OpenAnswers
  <2>6. QED  BY <1>10, <2>5 DEF UpStep
<1>13. CASE cur.type \notin {"piece", "reject"}
  <2>1. \A q \in Reqs : CurIs(cur, q) = 0  BY <1>13 DEF CurIs
  <2>2. \A q \in Reqs : Open'[q] \in Nat  BY <1>10, OpenNext
  <2>3. \A q \in Reqs : Open'[q] = Open[q]  BY <1>11, <2>1, <2>2
  <2>4. log'.answered = log.answered  BY <1>6, <1>13 DEF A
  <2>5. UNCHANGED Service!vars  BY <1>6, <1>10, <2>3, <2>4, OpenStays
  <2>6. QED  BY <1>10, <2>5 DEF UpStep
<1>14. QED  BY <1>12, <1>13

-----------------------------------------------------------------------------
(* The theorems of PeerUpload. *)

LEMMA UpInitInv == UpInit => UpInv
<1> SUFFICES ASSUME UpInit PROVE UpInv
  OBVIOUS
<1>1. <<>> \in Seq(Reqs) /\ <<>> \in Seq(CtrlType) /\ <<>> \in Seq(PieceType) /\ Len(<<>>) = 0
  BY EmptySeq
<1>2. [r \in Reqs |-> 0] \in Counts  BY DEF Counts
<1> DEFINE z == [r \in Reqs |-> 0]
<1>3. log = [got |-> 0, answered |-> z, dropped |-> z, unchokes |-> 0, counted |-> 0, sent |-> 0]
  BY DEF UpInit
<1> HIDE DEF z
<1>4. log \in LogType /\ log.sent = 0 /\ log.counted = 0  BY <1>2, <1>3 DEF LogType, z
<1>5. /\ slot \in BOOLEAN /\ reqs \in Seq(Reqs) /\ ctrl \in Seq(CtrlType) /\ data \in Seq(PieceType)
      /\ cur \in CurType /\ ~IsPiece(cur) /\ csent \in Nat /\ upl \in Nat /\ upl = 0
      /\ thread \in [pc : {"idle", "sent", "done"}, n : Nat] /\ thread.pc = "idle"
  BY <1>1, PacketFacts DEF UpInit
<1>6. LeftOf(cur) = 0 /\ Uncounted = 0  BY <1>5 DEF LeftOf, Uncounted
<1>7. pending = 0 /\ PieceLen * Len(data) = 0  BY <1>1, UpNumbers DEF UpInit
<1>8. QED  BY <1>4, <1>5, <1>6, <1>7 DEF UpInv

LEMMA UpSteps == ASSUME UpInv, [UpNext]_upVars PROVE UpStep
<1>1. CASE \E r \in Reqs : HandleRequest(r) \/ HandleCancel(r)
  BY <1>1, HandleRequestStep, HandleCancelStep
<1>2. CASE HandleRequests \/ SendUnchoke \/ Choke \/ TakeUploaded
  BY <1>2, HandleRequestsStep, SendUnchokeStep, ChokeStep, TakeUploadedStep
<1>3. CASE StartWrite \/ CountBytes \/ PacketSent
  BY <1>3, StartWriteStep, CountBytesStep, PacketSentStep
<1>4. CASE \E n \in 1 .. PieceLen : SendBytes(n)  BY <1>4, SendBytesStep
<1>5. CASE UNCHANGED upVars
  <2>1. /\ slot' = slot /\ reqs' = reqs /\ ctrl' = ctrl /\ data' = data /\ cur' = cur
        /\ thread' = thread /\ csent' = csent /\ pending' = pending /\ upl' = upl /\ log' = log
    BY <1>5 DEF upVars
  <2>2. UpInv'  BY <2>1 DEF UpInv, Uncounted
  <2>3. \A q \in Reqs : Open'[q] = Open[q]  BY <2>1, <2>2, OpenFacts, OpenNext
  <2>4. UNCHANGED Service!vars  BY <2>1, <2>2, <2>3, OpenStays
  <2>5. QED  BY <2>2, <2>4 DEF UpStep
<1>6. QED  BY <1>1, <1>2, <1>3, <1>4, <1>5 DEF UpNext

\* The inductive invariant of the upload to one peer.
THEOREM UploadInvariant == UpSpec => []UpInv
<1>1. UpInit => UpInv  BY UpInitInv
<1>2. UpInv /\ [UpNext]_upVars => UpInv'  BY UpSteps DEF UpStep
<1>3. QED  BY <1>1, <1>2, PTL DEF UpSpec

\* The bytes that count as pending, and those in the statistics, are exact
\* whatever the main thread does to the queues between two steps of the upload
\* thread: for any requests and any length of a piece.
THEOREM PendingBytesExact == UpSpec => []PendingExact
<1>1. UpInv => PendingExact
  <2> SUFFICES ASSUME UpInv PROVE PendingExact
    OBVIOUS
  <2>1. /\ slot \in BOOLEAN /\ reqs \in Seq(Reqs) /\ csent \in Nat /\ upl \in Nat
        /\ thread.pc \in {"idle", "sent", "done"}
        /\ ctrl \in Seq(CtrlType) /\ data \in Seq(PieceType)
    BY DEF UpInv
  <2>2. \A p \in Range(data) : IsPiece(p)
    <3>1. \A i \in DOMAIN data : data[i] \in PieceType  BY <2>1, LenProperties, ElementOfSeq
    <3>2. QED  BY <3>1, PacketFacts DEF Range
  <2>3. \A p \in Range(ctrl) : ~IsPiece(p) /\ p.left = 1
    <3>1. \A i \in DOMAIN ctrl : ctrl[i] \in CtrlType  BY <2>1, LenProperties, ElementOfSeq
    <3>2. QED  BY <3>1, PacketFacts DEF Range
  <2>4. pending = PieceLen * Len(data) + LeftOf(cur) + Uncounted  BY DEF UpInv
  <2>5. pending \in Nat
    <3>1. Len(data) \in Nat  BY <2>1, LenProperties
    <3>2. PieceLen * Len(data) \in Nat  BY <3>1, UpNumbers
    <3>3. LeftOf(cur) \in Nat /\ Uncounted \in Nat  BY LeftFacts DEF UpInv, Uncounted
    <3>4. QED  BY <2>4, <3>2, <3>3
  <2>6. UpTypeOK  BY <2>1, <2>2, <2>3, <2>5 DEF UpTypeOK
  <2>7. log.sent = log.counted + upl + Uncounted  BY DEF UpInv
  <2>8. QED  BY <2>4, <2>6, <2>7 DEF PendingExact, LeftOf, Uncounted
<1>2. QED  BY <1>1, UploadInvariant, PTL

\* Every request is answered once, by its piece or a reject, or is withdrawn:
\* the two queues, the list of the PeerUploader and the packet that is being
\* sent implement UploadService, with the fast extensions and without them.
THEOREM UploadRefinement == UpSpec => ImplementsService
<1>1. UpInit => Service!Init
  <2> SUFFICES ASSUME UpInit PROVE Service!Init
    OBVIOUS
  <2>1. UpInv  BY UpInitInv
  <2>2. log.answered = [r \in Reqs |-> 0] /\ log.dropped = [r \in Reqs |-> 0]  BY DEF UpInit
  <2>3. ASSUME NEW r \in Reqs PROVE Open[r] = 0
    <3>1. Count(reqs, r) = 0 /\ Count(data, Piece(r)) = 0 /\ Count(ctrl, Reject(r)) = 0
      BY CountEmpty DEF UpInit
    <3>2. CurIs(cur, r) = 0  BY CurIsFacts DEF UpInit
    <3>3. QED  BY <2>1, <3>1, <3>2, OpenFacts
  <2>4. Open = [r \in Reqs |-> 0]  BY <2>1, <2>3, OpenFacts
  <2>5. QED  BY <2>2, <2>4 DEF Service!Init
<1>2. UpInv /\ [UpNext]_upVars => [Service!Next]_(Service!vars)  BY UpSteps DEF UpStep
<1>3. QED  BY <1>1, <1>2, UploadInvariant, PTL DEF UpSpec, ImplementsService, Service!Spec

-----------------------------------------------------------------------------
(* The choker. *)

Holders == {p \in Leechers : lch[p].slot}

\* The inductive invariant: SlotsBounded, with the bound a number.
ChInv == ChTypeOK /\ applied \in Nat /\ Cardinality(Holders) <= applied

LEMMA HoldersFinite == IsFiniteSet(Holders) /\ Cardinality(Holders) \in Nat
<1>1. Holders \in SUBSET Leechers /\ IsFiniteSet(Leechers)  BY ChokerAssumption DEF Holders
<1>2. IsFiniteSet(Holders)  BY <1>1, FS_Subset
<1>3. QED  BY <1>2, FS_CardinalityType

\* The first m of a list are at most m.
LEMMA FirstOnes ==
  ASSUME NEW s, NEW m \in Nat
  PROVE  IsFiniteSet({s[i] : i \in 1 .. m}) /\ Cardinality({s[i] : i \in 1 .. m}) <= m
<1> DEFINE T == {s[i] : i \in 1 .. m}
           f == [i \in 1 .. m |-> s[i]]
<1>1. f \in Surjection(1 .. m, T)  BY DEF Surjection
<1>2. IsFiniteSet(1 .. m) /\ Cardinality(1 .. m) = IF 1 > m THEN 0 ELSE m - 1 + 1  BY FS_Interval
<1>3. Cardinality(1 .. m) = m  BY <1>2
<1> HIDE DEF f, T
<1>4. IsFiniteSet(T) /\ Cardinality(T) <= Cardinality(1 .. m)  BY <1>1, <1>2, FS_Surjection
<1>5. QED  BY <1>3, <1>4 DEF T

\* doUnchoking gives away at most the slots.
LEMMA UnchokedFacts ==
  ASSUME NEW ppl \in Seq(Leechers), NEW poup, slots \in Nat \ {0}
  PROVE  IsFiniteSet(Unchoked(ppl, poup)) /\ Cardinality(Unchoked(ppl, poup)) <= slots
<1> DEFINE best == Only(ppl, Range(ppl) \ {poup})
           n == IF poup = Nobody THEN slots ELSE slots - 1
           m == IF n < Len(best) THEN n ELSE Len(best)
           A == {best[i] : i \in 1 .. m}
           B == {poup} \cap Range(ppl)
<1>1. Len(best) \in Nat  BY OnlyType
<1>2. n \in Nat /\ m \in Nat /\ m <= n
  <2> HIDE DEF best
  <2>1. n \in Nat  OBVIOUS
  <2> HIDE DEF n
  <2>2. QED  BY <1>1, <2>1
<1>3. Unchoked(ppl, poup) = A \cup B  BY Zenon DEF Unchoked
<1>4. IsFiniteSet(A) /\ Cardinality(A) <= m
  <2> HIDE DEF best, m
  <2>1. QED  BY <1>2, FirstOnes
<1>5. IsFiniteSet(B) /\ Cardinality(B) <= slots - n
  <2>1. CASE poup = Nobody
    <3>1. Range(ppl) \subseteq Leechers  BY LenProperties DEF Range
    <3>2. B = {}  BY <2>1, <3>1, ChokerAssumption
    <3>3. n = slots  BY <2>1
    <3> HIDE DEF B, n
    <3>4. QED  BY <3>2, <3>3, FS_EmptySet
  <2>2. CASE poup # Nobody
    <3>1. IsFiniteSet({poup}) /\ Cardinality({poup}) = 1  BY FS_Singleton
    <3>2. B \in SUBSET {poup}  OBVIOUS
    <3>3. n = slots - 1  BY <2>2
    <3> HIDE DEF B, n
    <3>4. IsFiniteSet(B) /\ Cardinality(B) <= Cardinality({poup})  BY <3>1, <3>2, FS_Subset
    <3>5. QED  BY <3>1, <3>3, <3>4
  <2>3. QED  BY <2>1, <2>2
<1> HIDE DEF A, B, n, m, best
<1>6. IsFiniteSet(A \cup B) /\ Cardinality(A \cup B) = Cardinality(A) + Cardinality(B) - Cardinality(A \cap B)
  BY <1>4, <1>5, FS_Union
<1>7. IsFiniteSet(A \cap B)
  <2>1. A \cap B \in SUBSET A  OBVIOUS
  <2>2. QED  BY <1>4, <2>1, FS_Subset
<1>8. Cardinality(A) \in Nat /\ Cardinality(B) \in Nat /\ Cardinality(A \cap B) \in Nat
  BY <1>4, <1>5, <1>7, FS_CardinalityType
<1>9. QED  BY <1>2, <1>3, <1>4, <1>5, <1>6, <1>8

\* FindPlannedOptimisticUnchokedPeer finds a peer, or nobody.
LEMMA PlannedFacts ==
  ASSUME NEW ppl \in Seq(Leechers), NEW start \in DOMAIN ppl
  PROVE  PlannedPeer(ppl, start) \in Leechers \cup {Nobody}
<1> DEFINE n == Len(ppl)
           others == [i \in 1 .. n - 1 |-> ppl[((start - 1 + i) % n) + 1]]
           K == {p \in Leechers : lch[p].chokesUs}
           choking == Only(others, K)
<1>1. n \in Nat /\ DOMAIN ppl = 1 .. n /\ \A i \in 1 .. n : ppl[i] \in Leechers
  BY LenProperties, ElementOfSeq
<1>2. start \in 1 .. n  BY <1>1
<1> HIDE DEF n
<1>3. ASSUME NEW i \in 1 .. n - 1 PROVE ppl[((start - 1 + i) % n) + 1] \in Leechers
  <2>1. n \in Nat \ {0} /\ start - 1 + i \in Int  BY <1>1, <1>2
  <2>2. (start - 1 + i) % n \in 0 .. n - 1  BY <2>1
  <2>3. ((start - 1 + i) % n) + 1 \in 1 .. n  BY <2>1, <2>2
  <2>4. QED  BY <1>1, <2>3
<1>4. others \in [1 .. n - 1 -> Leechers]  BY <1>3
<1> HIDE DEF others
<1>5. n - 1 \in Nat  BY <1>1, <1>2
<1>6. others \in Seq(Leechers)  BY <1>4, <1>5, SeqDef
<1>7. choking \in Seq(Leechers)  BY <1>6, OnlyType
<1>8. PlannedPeer(ppl, start) = IF choking = <<>> THEN Nobody ELSE Head(choking)
  BY Zenon DEF PlannedPeer, n, others
<1> HIDE DEF choking
<1>9. choking # <<>> => Head(choking) \in Leechers  BY <1>7, HeadTailProperties
<1>10. QED  BY <1>8, <1>9

LEMMA OrdersFacts == ASSUME NEW ppl \in Orders PROVE ppl \in Seq(Leechers)
<1>1. Candidates \in SUBSET Leechers /\ IsFiniteSet(Leechers)  BY ChokerAssumption DEF Candidates
<1>2. IsFiniteSet(Candidates)  BY <1>1, FS_Subset
<1>3. Cardinality(Candidates) \in Nat  BY <1>2, FS_CardinalityType
<1>4. ppl \in [1 .. Cardinality(Candidates) -> Candidates]  BY Zenon DEF Orders, SetToSeqs
<1>5. ppl \in [1 .. Cardinality(Candidates) -> Leechers]  BY <1>1, <1>4
<1>6. QED  BY <1>3, <1>5, SeqDef

LEMMA ChStep == ChInv /\ [ChNext]_chVars => ChInv'
<1> SUFFICES ASSUME ChInv, [ChNext]_chVars PROVE ChInv'
  OBVIOUS
<1>1. /\ lch \in [Leechers -> Leecher] /\ opt \in Leechers \cup {Nobody} /\ slots \in SlotCounts
      /\ slots \in Nat \ {0} /\ applied \in Nat /\ Cardinality(Holders) <= applied
  BY ChokerAssumption DEF ChInv, ChTypeOK
<1>2. Away \in Leecher /\ Away.slot = FALSE  BY DEF Away, Leecher
<1>3. ASSUME lch' \in [Leechers -> Leecher], opt' \in Leechers \cup {Nobody}, slots' \in SlotCounts,
             applied' = applied, Holders' \subseteq Holders
      PROVE  ChInv'
  <2>1. IsFiniteSet(Holders) /\ Cardinality(Holders) \in Nat  BY HoldersFinite
  <2>2. IsFiniteSet(Holders') /\ Cardinality(Holders') <= Cardinality(Holders)
    <3>1. Holders' \in SUBSET Holders  BY <1>3
    <3>2. QED  BY <2>1, <3>1, FS_Subset
  <2>3. Cardinality(Holders') \in Nat  BY <2>2, FS_CardinalityType
  <2>4. Cardinality(Holders') <= applied'  BY <1>1, <1>3, <2>1, <2>2, <2>3
  <2>5. QED  BY <1>1, <1>3, <2>4 DEF ChInv, ChTypeOK
<1>4. ASSUME NEW p \in Leechers, NEW r \in Leecher, r.slot => lch[p].slot,
             lch' = [lch EXCEPT ![p] = r], UNCHANGED <<opt, slots, applied>>
      PROVE  ChInv'
  <2>1. lch' \in [Leechers -> Leecher] /\ \A q \in Leechers : lch'[q] = IF q = p THEN r ELSE lch[q]
    BY <1>1, <1>4
  <2>2. \A q \in Leechers : lch'[q].slot => lch[q].slot  BY <1>4, <2>1
  <2>3. Holders' \subseteq Holders  BY <2>2 DEF Holders
  <2>4. QED  BY <1>1, <1>3, <1>4, <2>1, <2>3
<1>5. ASSUME NEW p \in Leechers, Join(p) PROVE ChInv'
  <2> DEFINE r == [Away EXCEPT !.in = TRUE, !.wants = TRUE]
  <2>1. r \in Leecher /\ r.slot = FALSE  BY DEF Away, Leecher
  <2>2. lch' = [lch EXCEPT ![p] = r] /\ UNCHANGED <<opt, slots, applied>>  BY <1>5 DEF Join
  <2> HIDE DEF r
  <2>3. QED  BY <1>4, <2>1, <2>2
<1>6. ASSUME NEW p \in Leechers, Leave(p) PROVE ChInv'
  <2>1. lch' = [lch EXCEPT ![p] = Away] /\ UNCHANGED <<opt, slots, applied>>  BY <1>6 DEF Leave
  <2>2. QED  BY <1>2, <1>4, <2>1
<1>7. ASSUME NEW p \in Leechers, PeerChanges(p) PROVE ChInv'
  <2> DEFINE r == [lch[p] EXCEPT !.interested = ~lch[p].interested]
             s == [lch[p] EXCEPT !.chokesUs = ~lch[p].chokesUs]
  <2>1. lch[p] \in Leecher  BY <1>1
  <2>2. r \in Leecher /\ r.slot = lch[p].slot /\ s \in Leecher /\ s.slot = lch[p].slot
    BY <2>1 DEF Leecher
  <2>3. UNCHANGED <<opt, slots, applied>>
        /\ (lch' = [lch EXCEPT ![p] = r] \/ lch' = [lch EXCEPT ![p] = s])
    BY <1>7 DEF PeerChanges
  <2> HIDE DEF r, s
  <2>4. QED  BY <1>4, <2>2, <2>3
<1>8. ASSUME NEW p \in Leechers, Completes(p) PROVE ChInv'
  <2> DEFINE r == [lch[p] EXCEPT !.wants = FALSE]
  <2>1. lch[p] \in Leecher  BY <1>1
  <2>2. r \in Leecher /\ r.slot = lch[p].slot  BY <2>1 DEF Leecher
  <2>3. UNCHANGED <<opt, slots, applied>> /\ lch' = [lch EXCEPT ![p] = r]  BY <1>8 DEF Completes
  <2> HIDE DEF r
  <2>4. QED  BY <1>4, <2>2, <2>3
<1>9. ASSUME ChokerUpdate PROVE ChInv'
  <2> DEFINE Gives(ppl, poup) ==
               /\ opt' = poup
               /\ lch' = [p \in Leechers |-> [lch[p] EXCEPT !.slot = p \in Unchoked(ppl, poup)]]
               /\ applied' = slots /\ slots' = slots
  <2>0. PICK ppl \in Orders : \E poup \in NextOptimistic(ppl) : Gives(ppl, poup)
    BY <1>9 DEF ChokerUpdate
  <2>1. PICK poup \in NextOptimistic(ppl) : Gives(ppl, poup)  BY <2>0
  <2> DEFINE on == Unchoked(ppl, poup)
  <2>2. ppl \in Seq(Leechers)  BY OrdersFacts
  <2>3. poup \in Leechers \cup {Nobody}
    <3>1. CASE poup \in Planned(ppl)
      <4>1. CASE ppl = <<>>  BY <3>1, <4>1 DEF Planned
      <4>2. CASE ppl # <<>>
        <5>1. PICK s \in DOMAIN ppl : poup = PlannedPeer(ppl, s)  BY <3>1, <4>2 DEF Planned
        <5>2. QED  BY <2>2, <5>1, PlannedFacts
      <4>3. QED  BY <4>1, <4>2
    <3>2. CASE poup = opt  BY <1>1, <3>2
    <3>3. QED  BY <3>1, <3>2 DEF NextOptimistic
  <2>4. IsFiniteSet(on) /\ Cardinality(on) <= slots  BY <1>1, <2>2, UnchokedFacts
  <2> HIDE DEF on
  <2>5. ASSUME NEW p \in Leechers
        PROVE  lch'[p] \in Leecher /\ (lch'[p].slot <=> p \in on)
    <3> DEFINE b == p \in on
    <3>1. lch'[p] = [lch[p] EXCEPT !.slot = b] /\ lch[p] \in Leecher
      BY <1>1, <2>1 DEF on
    <3>2. b \in BOOLEAN /\ (b <=> p \in on)  OBVIOUS
    <3> HIDE DEF b
    <3>3. CASE b = TRUE  BY <3>1, <3>2, <3>3 DEF Leecher
    <3>4. CASE b = FALSE  BY <3>1, <3>2, <3>4 DEF Leecher
    <3>5. QED  BY <3>2, <3>3, <3>4
  <2>6. Holders' \in SUBSET on  BY <2>5 DEF Holders
  <2>7. IsFiniteSet(Holders') /\ Cardinality(Holders') <= Cardinality(on)  BY <2>4, <2>6, FS_Subset
  <2>8. Cardinality(on) \in Nat /\ Cardinality(Holders') \in Nat  BY <2>4, <2>7, FS_CardinalityType
  <2>9. Cardinality(Holders') <= applied' /\ applied' \in Nat  BY <1>1, <2>1, <2>4, <2>7, <2>8
  <2>10. lch' \in [Leechers -> Leecher]
    <3>1. lch' = [p \in Leechers |-> lch'[p]]  BY <2>1
    <3>2. QED  BY <2>5, <3>1
  <2>11. QED  BY <1>1, <2>1, <2>3, <2>9, <2>10 DEF ChInv, ChTypeOK
<1>10. ASSUME ChokeAll PROVE ChInv'
  <2>1. lch' = [p \in Leechers |-> [lch[p] EXCEPT !.slot = FALSE]] /\ UNCHANGED <<opt, slots, applied>>
    BY <1>10 DEF ChokeAll
  <2>2. ASSUME NEW p \in Leechers PROVE lch'[p] \in Leecher /\ lch'[p].slot = FALSE
    <3>1. lch'[p] = [lch[p] EXCEPT !.slot = FALSE] /\ lch[p] \in Leecher  BY <1>1, <2>1
    <3>2. QED  BY <3>1 DEF Leecher
  <2>3. lch' \in [Leechers -> Leecher]
    <3>1. lch' = [p \in Leechers |-> lch'[p]]  BY <2>1
    <3>2. QED  BY <2>2, <3>1
  <2>4. Holders' \subseteq Holders  BY <2>2 DEF Holders
  <2>5. QED  BY <1>1, <1>3, <2>1, <2>3, <2>4
<1>11. ASSUME NEW n \in SlotCounts, SetNumUploadSlots(n) PROVE ChInv'
  <2>1. slots' = n /\ UNCHANGED <<lch, opt, applied>>  BY <1>11 DEF SetNumUploadSlots
  <2>2. Holders' = Holders  BY <2>1 DEF Holders
  <2>3. QED  BY <1>1, <1>3, <2>1, <2>2
<1>12. ASSUME UNCHANGED chVars PROVE ChInv'
  <2>1. UNCHANGED <<lch, opt, slots, applied>>  BY <1>12 DEF chVars
  <2>2. Holders' = Holders  BY <2>1 DEF Holders
  <2>3. QED  BY <1>1, <1>3, <2>1, <2>2
<1>13. QED
  BY <1>5, <1>6, <1>7, <1>8, <1>9, <1>10, <1>11, <1>12 DEF ChNext

\* However peers come, go and change their interest, whatever the number of
\* slots is set to and whoever the optimistic peer is, never more peers hold
\* an upload slot than there were slots in the last run of the choker: for
\* any peers and any numbers of slots.
THEOREM SlotsNeverExceeded == ChSpec => []SlotsBounded
<1>1. ChInit => ChInv
  <2> SUFFICES ASSUME ChInit PROVE ChInv
    OBVIOUS
  <2>1. Away \in Leecher /\ Away.slot = FALSE  BY DEF Away, Leecher
  <2>2. lch \in [Leechers -> Leecher] /\ \A p \in Leechers : lch[p].slot = FALSE
    BY <2>1 DEF ChInit
  <2>3. Holders = {}  BY <2>2 DEF Holders
  <2>4. slots \in SlotCounts /\ slots \in Nat /\ applied = slots /\ opt = Nobody
    BY ChokerAssumption DEF ChInit
  <2>5. Cardinality(Holders) = 0  BY <2>3, FS_EmptySet
  <2>6. QED  BY <2>2, <2>4, <2>5 DEF ChInv, ChTypeOK
<1>2. ChInv /\ [ChNext]_chVars => ChInv'  BY ChStep
<1>3. ChInv => SlotsBounded  BY DEF ChInv, SlotsBounded, Holders
<1>4. QED  BY <1>1, <1>2, <1>3, PTL DEF ChSpec


-----------------------------------------------------------------------------
(* Reading packets. The invariant RdInv is the reader's place in the       *)
(* stream: k packets are past and given to the queue or handled, and the   *)
(* reader is inside the next one's length or inside its bytes, or it has   *)
(* failed at the length of one that is too long.                           *)
StreamOK == stream \in Seq(Nat)

\* Where the packets of the stream end, by the turns that add them up.
LEMMA EndFacts ==
  ASSUME StreamOK
  PROVE  /\ EndOf \in [0 .. Len(stream) -> Nat] /\ EndOf[0] = 0 /\ Len(stream) \in Nat
         /\ \A k \in 1 .. Len(stream) : stream[k] \in Nat /\ EndOf[k] = EndOf[k - 1] + 4 + stream[k]
         /\ \A j, k \in 0 .. Len(stream) : j <= k => EndOf[j] <= EndOf[k]
<1> DEFINE N == Len(stream)
           g == [x \in Nat \X (Nat \ {0}) |-> IF x[2] \in 1 .. N THEN x[1] + 4 + stream[x[2]] ELSE x[1]]
           E[k \in 0 .. N] == IF k = 0 THEN 0 ELSE E[k - 1] + 4 + stream[k]
<1>1. N \in Nat /\ \A k \in 1 .. N : stream[k] \in Nat
  BY LenProperties, ElementOfSeq DEF StreamOK
<1> HIDE DEF N
<1>2. TurnsIn(g, Nat)  BY <1>1 DEF TurnsIn
<1> HIDE DEF g
<1>3. PICK F : Loop(F, g, Nat, 0, N)  BY <1>1, <1>2, LoopExists
<1>4. /\ F \in [0 .. N -> Nat] /\ F[0] = 0
      /\ \A i \in 1 .. N : F[i] = F[i - 1] + 4 + stream[i]
  <2>1. F \in [0 .. N -> Nat] /\ F[0] = 0 /\ \A i \in 1 .. N : F[i] = g[<<F[i - 1], i>>]
    BY <1>3 DEF Loop
  <2>2. ASSUME NEW i \in 1 .. N  PROVE F[i] = F[i - 1] + 4 + stream[i]
    <3>1. i - 1 \in 0 .. N /\ i \in Nat \ {0}  BY <1>1
    <3>2. F[i - 1] \in Nat  BY <2>1, <3>1
    <3>3. <<F[i - 1], i>> \in Nat \X (Nat \ {0}) BY <3>1, <3>2
    <3>4. QED  BY <2>1, <3>3 DEF g
  <2>3. QED  BY <2>1, <2>2
<1>5. F = [k \in 0 .. N |-> IF k = 0 THEN 0 ELSE F[k - 1] + 4 + stream[k]]
  <2>1. \A k \in 0 .. N : F[k] = IF k = 0 THEN 0 ELSE F[k - 1] + 4 + stream[k]  BY <1>1, <1>4
  <2>2. QED  BY <1>4, <2>1
<1>6. E = [k \in 0 .. N |-> IF k = 0 THEN 0 ELSE E[k - 1] + 4 + stream[k]]
  BY <1>5
<1>7. EndOf = E  BY DEF EndOf, N
<1> HIDE DEF E
<1>8. \A k \in 0 .. N : E[k] = IF k = 0 THEN 0 ELSE E[k - 1] + 4 + stream[k]
  BY <1>6
<1>9. \A i \in 0 .. N : E[i] \in Nat
  <2>1. E[0] \in Nat  BY <1>1, <1>8
  <2>2. \A i \in 1 .. N : E[i - 1] \in Nat => E[i] \in Nat  BY <1>1, <1>8
  <2>3. QED  BY <1>1, <2>1, <2>2, LoopStays
<1>10. E \in [0 .. N -> Nat]  BY <1>6, <1>9
<1>11. ASSUME NEW j \in 0 .. N, NEW k \in 0 .. N, j <= k  PROVE E[j] <= E[k]
  <2> DEFINE D == [i \in 0 .. N |-> {e \in Nat : i >= j => e >= E[j]}]
  <2>1. E[0] \in D[0]  BY <1>1, <1>9
  <2>2. ASSUME NEW i \in 1 .. k, E[i - 1] \in D[i - 1]  PROVE E[i] \in D[i]
    <3>1. i \in 0 .. N /\ i - 1 \in 0 .. N /\ i # 0  BY <1>1
    <3>2. E[i - 1] \in Nat /\ E[i] \in Nat /\ E[j] \in Nat /\ E[i] = E[i - 1] + 4 + stream[i] /\ stream[i] \in Nat
      BY <1>1, <1>8, <1>9, <3>1
    <3>3. i - 1 >= j => E[i - 1] >= E[j]  BY <2>2, <3>1
    <3>4. i >= j => E[i] >= E[j]
      <4>1. CASE i = j  BY <3>2, <4>1
      <4>2. CASE i # j /\ i >= j  BY <3>1, <3>2, <3>3, <4>2
      <4>3. QED  BY <4>1, <4>2
    <3>5. QED  BY <3>1, <3>2, <3>4
  <2>3. k \in Nat  BY <1>1
  <2> HIDE DEF D
  <2>4. E[k] \in D[k]  BY <2>1, <2>2, <2>3, LoopKeeps
  <2>5. QED  BY <2>3, <2>4, <1>9, <1>11 DEF D
<1>12. \A j, k \in 0 .. N : j <= k => E[j] <= E[k]  BY <1>11
<1>13. \A k \in 1 .. N : E[k] = E[k - 1] + 4 + stream[k]  BY <1>1, <1>8
<1>14. E[0] = 0  BY <1>1, <1>8
<1>15. QED  BY <1>1, <1>7, <1>10, <1>12, <1>13, <1>14 DEF N

\* A segment is a sequence of places, and is cut and joined by them.
LEMMA SegmentFacts ==
  ASSUME NEW p \in Nat, NEW n \in Nat
  PROVE  /\ Segment(p, n) \in Seq(Nat) /\ Len(Segment(p, n)) = n
         /\ DOMAIN Segment(p, n) = 1 .. n /\ \A i \in 1 .. n : Segment(p, n)[i] = p + i
<1>1. Segment(p, n) \in [1 .. n -> Nat]  BY DEF Segment
<1>2. Segment(p, n) \in Seq(Nat)  BY <1>1, SeqDef
<1>3. DOMAIN Segment(p, n) = 1 .. n  BY <1>1
<1>4. Len(Segment(p, n)) = n  BY <1>2, <1>3, LenProperties, Z3
<1>5. QED  BY <1>2, <1>3, <1>4 DEF Segment

\* What readPacket and newPacket leave of a segment is a segment.
LEMMA SegmentCut ==
  ASSUME NEW p \in Nat, NEW m \in Nat, NEW n \in 0 .. m
  PROVE  /\ SubSeq(Segment(p, m), 1, n) = Segment(p, n)
         /\ SubSeq(Segment(p, m), n + 1, m) = Segment(p + n, m - n)
<1> DEFINE s == Segment(p, m)
<1>1. s \in Seq(Nat) /\ Len(s) = m /\ \A i \in 1 .. m : s[i] = p + i  BY SegmentFacts
<1> HIDE DEF s
<1>2. /\ SubSeq(s, 1, n) \in Seq(Nat) /\ Len(SubSeq(s, 1, n)) = n
      /\ \A i \in 1 .. n : SubSeq(s, 1, n)[i] = s[i]
      /\ SubSeq(s, n + 1, m) \in Seq(Nat) /\ Len(SubSeq(s, n + 1, m)) = m - n
  BY <1>1, CutFacts
<1>3. \A i \in 1 .. m - n : SubSeq(s, n + 1, m)[i] = s[n + i]  BY <1>1, TailFacts
<1>4. n \in Nat /\ p + n \in Nat /\ m - n \in Nat  OBVIOUS
<1>5. SubSeq(s, 1, n) = Segment(p, n)
  <2>1. \A i \in 1 .. n : SubSeq(s, 1, n)[i] = Segment(p, n)[i]  BY <1>1, <1>2, <1>4, SegmentFacts
  <2>2. Segment(p, n) \in Seq(Nat) /\ Len(Segment(p, n)) = n  BY <1>4, SegmentFacts
  <2>3. QED  BY <1>2, <2>1, <2>2, SeqEqual
<1>6. SubSeq(s, n + 1, m) = Segment(p + n, m - n)
  <2>1. \A i \in 1 .. m - n : SubSeq(s, n + 1, m)[i] = Segment(p + n, m - n)[i]
    <3>1. ASSUME NEW i \in 1 .. m - n PROVE SubSeq(s, n + 1, m)[i] = Segment(p + n, m - n)[i]
      <4>1. Segment(p + n, m - n)[i] = p + n + i  BY <1>4, SegmentFacts
      <4>2. s[n + i] = p + (n + i)  BY <1>1, <1>4
      <4>3. QED  BY <1>3, <1>4, <4>1, <4>2
    <3>2. QED  BY <3>1
  <2>2. Segment(p + n, m - n) \in Seq(Nat) /\ Len(Segment(p + n, m - n)) = m - n  BY <1>4, SegmentFacts
  <2>3. QED  BY <1>2, <2>1, <2>2, SeqEqual
<1>7. QED  BY <1>5, <1>6 DEF s

\* Bytes appended where the ones before end make one segment.
LEMMA SegmentJoin ==
  ASSUME NEW p \in Nat, NEW m \in Nat, NEW n \in Nat
  PROVE  Segment(p, m) \o Segment(p + m, n) = Segment(p, m + n)
<1> DEFINE s == Segment(p, m)
           t == Segment(p + m, n)
<1>1. s \in Seq(Nat) /\ Len(s) = m /\ \A i \in 1 .. m : s[i] = p + i  BY SegmentFacts
<1>2. t \in Seq(Nat) /\ Len(t) = n /\ \A i \in 1 .. n : t[i] = p + m + i
  <2>1. p + m \in Nat  OBVIOUS
  <2>2. QED  BY <2>1, SegmentFacts
<1> HIDE DEF s, t
<1>3. /\ s \o t \in Seq(Nat) /\ Len(s \o t) = m + n
      /\ \A i \in 1 .. m : (s \o t)[i] = s[i]
      /\ \A i \in 1 .. n : (s \o t)[m + i] = t[i]
  <2>1. /\ s \o t \in Seq(Nat) /\ Len(s \o t) = Len(s) + Len(t)
        /\ \A i \in 1 .. Len(s) : (s \o t)[i] = s[i]
        /\ \A i \in 1 .. Len(t) : (s \o t)[Len(s) + i] = t[i]
    <3>1. s \in Seq(Nat) /\ t \in Seq(Nat)  BY <1>1, <1>2
    <3>2. QED  BY <3>1, JoinFacts
  <2>2. Len(s) = m /\ Len(t) = n  BY <1>1, <1>2
  <2>3. QED  BY <2>1, <2>2
<1>4. \A i \in 1 .. m + n : (s \o t)[i] = p + i
  <2>1. ASSUME NEW i \in 1 .. m + n  PROVE (s \o t)[i] = p + i
    <3>1. CASE i <= m  BY <1>1, <1>3, <3>1
    <3>2. CASE i > m
      <4>1. i - m \in 1 .. n /\ m + (i - m) = i /\ p + m + (i - m) = p + i  BY <3>2
      <4>2. (s \o t)[m + (i - m)] = t[i - m] /\ t[i - m] = p + m + (i - m)  BY <1>2, <1>3, <4>1
      <4>3. QED  BY <4>1, <4>2
    <3>3. i <= m \/ i > m  OBVIOUS
    <3>4. QED  BY <3>1, <3>2, <3>3
  <2>2. QED  BY <2>1
<1>5. m + n \in Nat /\ Segment(p, m + n) \in Seq(Nat) /\ Len(Segment(p, m + n)) = m + n
      /\ \A i \in 1 .. m + n : Segment(p, m + n)[i] = p + i
  <2>1. m + n \in Nat  OBVIOUS
  <2>2. QED  BY <2>1, SegmentFacts
<1>6. s \o t = Segment(p, m + n)  BY <1>3, <1>4, <1>5, SeqEqual
<1>7. QED  BY <1>6 DEF s, t

\* The four bytes of a packet's length are read as its length.
LEMMA LengthRead ==
  ASSUME StreamOK, NEW k \in 1 .. Len(stream)
  PROVE  ReadUint32(Segment(EndOf[k - 1], 4)) = stream[k]
<1> DEFINE b == Segment(EndOf[k - 1], 4)
           K == {j \in DOMAIN stream : b = Segment(EndOf[j - 1], 4)}
<1>1. DOMAIN stream = 1 .. Len(stream) /\ Len(stream) \in Nat  BY LenProperties DEF StreamOK
<1>2. k \in K  BY <1>1
<1>3. ASSUME NEW j \in K  PROVE j = k
  <2>1. j \in 1 .. Len(stream) /\ b = Segment(EndOf[j - 1], 4)  BY <1>1
  <2>2. j - 1 \in 0 .. Len(stream) /\ k - 1 \in 0 .. Len(stream)
        /\ j \in 0 .. Len(stream) /\ k \in 0 .. Len(stream)  BY <1>1, <2>1
  <2>3. EndOf[j - 1] \in Nat /\ EndOf[k - 1] \in Nat  BY <2>2, EndFacts
  <2>4. Segment(EndOf[j - 1], 4)[1] = EndOf[j - 1] + 1 /\ Segment(EndOf[k - 1], 4)[1] = EndOf[k - 1] + 1
    <3>1. 4 \in Nat /\ 1 \in 1 .. 4  OBVIOUS
    <3>2. QED  BY <2>3, <3>1, SegmentFacts
  <2>5. EndOf[j - 1] = EndOf[k - 1]  BY <2>1, <2>3, <2>4
  <2>6. CASE j < k
    <3>1. EndOf[j] <= EndOf[k - 1]  BY <1>1, <2>1, <2>2, <2>6, EndFacts
    <3>2. EndOf[j] = EndOf[j - 1] + 4 + stream[j] /\ stream[j] \in Nat BY <2>1, EndFacts
    <3>3. QED  BY <2>3, <2>5, <3>1, <3>2
  <2>7. CASE k < j
    <3>1. EndOf[k] <= EndOf[j - 1]  BY <1>1, <2>1, <2>2, <2>7, EndFacts
    <3>2. EndOf[k] = EndOf[k - 1] + 4 + stream[k] /\ stream[k] \in Nat BY EndFacts
    <3>3. QED  BY <2>3, <2>5, <3>1, <3>2
  <2>8. QED  BY <1>1, <2>1, <2>6, <2>7
<1>4. (CHOOSE j \in K : TRUE) = k  BY <1>2, <1>3, Zenon
<1>5. ReadUint32(b) = stream[k]  BY <1>2, <1>4 DEF ReadUint32
<1>6. QED  BY <1>5
-----------------------------------------------------------------------------
Incoming == [size : 1 .. MaxPacket, data : Seq(Nat)]
Readers == [error : BOOLEAN, lenReceived : -1 .. 3, len : Seq(Nat), queue : Seq(Incoming)]
\* The packets of h and those complete in the queue.
Datas(R) == [i \in 1 .. Complete(R) |-> R.queue[i].data]
Given(h, R) == h \o Datas(R)

\* The fields of a PacketReader, and its queue's last packet.
LEMMA ReaderFacts ==
  ASSUME NEW R \in Readers
  PROVE  /\ Len(R.queue) \in Nat /\ R.lenReceived \in -1 .. 3 /\ R.len \in Seq(Nat)
         /\ R.queue \in Seq(Incoming) /\ DOMAIN R.queue = 1 .. Len(R.queue)
         /\ \A i \in 1 .. Len(R.queue) :
              /\ R.queue[i].size \in 1 .. MaxPacket /\ R.queue[i].size \in Nat /\ R.queue[i].data \in Seq(Nat)
              /\ Len(R.queue[i].data) \in Nat
         /\ Have(R) \in 0 .. 3 /\ Complete(R) \in 0 .. Len(R.queue)
         /\ Partial(R) <=> /\ Len(R.queue) > 0
                           /\ Len(R.queue[Len(R.queue)].data) < R.queue[Len(R.queue)].size
<1>1. R.queue \in Seq(Incoming) /\ R.lenReceived \in -1 .. 3 /\ R.len \in Seq(Nat)  BY DEF Readers
<1>2. Len(R.queue) \in Nat /\ DOMAIN R.queue = 1 .. Len(R.queue)  BY <1>1, LenProperties
<1>3. ASSUME NEW i \in 1 .. Len(R.queue)
      PROVE  /\ R.queue[i].size \in 1 .. MaxPacket /\ R.queue[i].size \in Nat /\ R.queue[i].data \in Seq(Nat)
             /\ Len(R.queue[i].data) \in Nat
  <2>1. R.queue[i] \in Incoming  BY <1>1, ElementOfSeq
  <2>2. R.queue[i].size \in 1 .. MaxPacket /\ R.queue[i].data \in Seq(Nat)  BY <2>1 DEF Incoming
  <2>3. QED  BY <2>2, LenProperties, RdAssumption
<1>4. Have(R) \in 0 .. 3  BY <1>1 DEF Have
<1>5. Partial(R) <=> /\ Len(R.queue) > 0
                     /\ Len(R.queue[Len(R.queue)].data) < R.queue[Len(R.queue)].size
  BY DEF Partial
<1>6. Complete(R) \in 0 .. Len(R.queue)  BY <1>2, <1>5 DEF Complete
<1>7. QED  BY <1>1, <1>2, <1>3, <1>4, <1>5, <1>6

\* The bytes of the complete packets of the queue.
LEMMA DatasFacts ==
  ASSUME NEW R \in Readers
  PROVE  /\ Datas(R) \in Seq(Seq(Nat)) /\ Len(Datas(R)) = Complete(R)
         /\ \A i \in 1 .. Complete(R) : Datas(R)[i] = R.queue[i].data
<1> DEFINE c == Complete(R)
<1>1. c \in Nat /\ \A i \in 1 .. c : R.queue[i].data \in Seq(Nat)
  <2>1. Len(R.queue) \in Nat /\ c \in 0 .. Len(R.queue)  BY ReaderFacts
  <2>2. \A i \in 1 .. c : i \in 1 .. Len(R.queue)  BY <2>1
  <2>3. QED  BY <2>1, <2>2, ReaderFacts
<1>2. Datas(R) = [i \in 1 .. c |-> R.queue[i].data]  BY DEF Datas
<1> HIDE DEF c
<1>3. Datas(R) \in [1 .. c -> Seq(Nat)]  BY <1>1, <1>2
<1>4. Datas(R) \in Seq(Seq(Nat))  BY <1>1, <1>3, SeqDef
<1>5. Len(Datas(R)) = c  BY <1>1, <1>3, <1>4, LenProperties, Z3
<1>6. QED  BY <1>2, <1>4, <1>5 DEF c

\* Filling the last packet short of its size completes nothing.
LEMMA GivenSame ==
  ASSUME NEW R, NEW Q, NEW h, Complete(R) = Complete(Q),
         \A i \in 1 .. Complete(R) : Q.queue[i].data = R.queue[i].data
  PROVE  Given(h, Q) = Given(h, R)
<1>1. Datas(Q) = Datas(R)  BY DEF Datas
<1>2. QED  BY <1>1 DEF Given

\* Appending to what is joined on.
LEMMA JoinAppend ==
  ASSUME NEW S, NEW s \in Seq(S), NEW t \in Seq(S), NEW e \in S
  PROVE  s \o Append(t, e) = Append(s \o t, e)
<1>1. <<e>> \in Seq(S)  OBVIOUS
<1>2. Append(t, e) = t \o <<e>>  BY AppendIsConcat
<1>3. s \o t \in Seq(S)  BY ConcatProperties
<1>4. Append(s \o t, e) = (s \o t) \o <<e>>  BY <1>3, AppendIsConcat
<1>5. QED  BY <1>1, <1>2, <1>4, ConcatAssociative

\* A sequence with one element more.
LEMMA OneMore ==
  ASSUME NEW S, NEW s \in Seq(S), NEW t \in Seq(S), Len(t) = Len(s) + 1,
         \A i \in 1 .. Len(s) : t[i] = s[i]
  PROVE  t = Append(s, t[Len(t)])
<1> DEFINE e == t[Len(t)]
           u == Append(s, e)
<1>1. Len(s) \in Nat /\ Len(t) \in 1 .. Len(t)  BY LenProperties
<1>2. e \in S  BY <1>1, ElementOfSeq
<1>3. u \in Seq(S) /\ Len(u) = Len(s) + 1 /\ u[Len(s) + 1] = e /\ \A i \in 1 .. Len(s) : u[i] = s[i]
  BY <1>2, AppendProperties
<1> HIDE DEF u
<1>4. ASSUME NEW i \in 1 .. Len(t)  PROVE t[i] = u[i]
  <2>1. CASE i = Len(t)  BY <1>3, <2>1
  <2>2. CASE i # Len(t)
    <3>1. i \in 1 .. Len(s)  BY <1>1, <2>2
    <3>2. QED  BY <1>3, <3>1
  <2>3. QED  BY <2>1, <2>2
<1>5. t = u  BY <1>3, <1>4, SeqEqual
<1>6. QED  BY <1>5 DEF u

\* Completing the last packet adds it to what is given.
LEMMA GivenMore ==
  ASSUME NEW R \in Readers, NEW Q \in Readers, NEW h \in Seq(Seq(Nat)), Complete(Q) = Complete(R) + 1,
         \A i \in 1 .. Complete(R) : Q.queue[i].data = R.queue[i].data
  PROVE  Given(h, Q) = Append(Given(h, R), Q.queue[Complete(Q)].data)
<1> DEFINE X == Datas(R)
           Y == Datas(Q)
<1>1. X \in Seq(Seq(Nat)) /\ Len(X) = Complete(R) /\ \A i \in 1 .. Complete(R) : X[i] = R.queue[i].data
  BY DatasFacts
<1>2. Y \in Seq(Seq(Nat)) /\ Len(Y) = Complete(Q) /\ \A i \in 1 .. Complete(Q) : Y[i] = Q.queue[i].data
  BY DatasFacts
<1>3. Given(h, Q) = h \o Y /\ Given(h, R) = h \o X  BY DEF Given
<1>4. Complete(R) \in Nat /\ Complete(Q) \in Nat
  BY <1>1, <1>2, LenProperties
<1> HIDE DEF X, Y
<1>5. \A i \in 1 .. Len(X) : Y[i] = X[i]
  <2>1. ASSUME NEW i \in 1 .. Len(X)  PROVE Y[i] = X[i]
    <3>1. i \in 1 .. Complete(R) /\ i \in 1 .. Complete(Q)  BY <1>1, <1>4
    <3>2. Y[i] = Q.queue[i].data  BY <1>2, <3>1
    <3>3. X[i] = R.queue[i].data  BY <1>1, <3>1
    <3>4. QED  BY <3>1, <3>2, <3>3
  <2>2. QED  BY <2>1
<1>6. Y = Append(X, Y[Len(Y)])  BY <1>1, <1>2, <1>5, OneMore
<1>7. Len(Y) \in 1 .. Len(Y) /\ Y[Len(Y)] = Q.queue[Complete(Q)].data /\ Y[Len(Y)] \in Seq(Nat)
  <2>1. Complete(Q) \in 1 .. Complete(Q)  BY <1>4
  <2>2. QED  BY <1>2, <2>1, ElementOfSeq
<1>8. h \o Append(X, Y[Len(Y)]) = Append(h \o X, Y[Len(Y)])  BY <1>1, <1>7, JoinAppend
<1>9. QED  BY <1>3, <1>6, <1>7, <1>8

\* The non-empty packets among the first k.
Upto(k) == {j \in 1 .. k : stream[j] > 0}

\* A packet's bytes lie behind its length and before the next packet.
LEMMA BodyFacts ==
  ASSUME StreamOK, NEW k \in 1 .. Len(stream)
  PROVE  /\ Body(k) \in Seq(Nat) /\ Len(Body(k)) = stream[k] /\ EndOf[k - 1] \in Nat /\ EndOf[k] \in Nat
         /\ stream[k] \in Nat /\ EndOf[k] = EndOf[k - 1] + 4 + stream[k]
         /\ stream[k] > 0 => Body(k)[1] = EndOf[k - 1] + 5
<1>1. k - 1 \in 0 .. Len(stream) /\ k \in 0 .. Len(stream)  BY EndFacts
<1>2. EndOf[k - 1] \in Nat /\ EndOf[k] \in Nat /\ stream[k] \in Nat /\ EndOf[k] = EndOf[k - 1] + 4 + stream[k]
  BY <1>1, EndFacts
<1>3. EndOf[k - 1] + 4 \in Nat  BY <1>2
<1>4. Body(k) \in Seq(Nat) /\ Len(Body(k)) = stream[k]  BY <1>2, <1>3, SegmentFacts DEF Body
<1>5. stream[k] > 0 => Body(k)[1] = EndOf[k - 1] + 4 + 1
  <2>1. stream[k] > 0 => 1 \in 1 .. stream[k]  BY <1>2
  <2>2. QED  BY <1>2, <1>3, <2>1, SegmentFacts DEF Body
<1>6. QED  BY <1>2, <1>4, <1>5

\* One packet more at the end keeps the order of the stream.
LEMMA ThoseAppend ==
  ASSUME StreamOK, NEW out \in Seq(Seq(Nat)), NEW k \in 1 .. Len(stream), stream[k] > 0,
         AreThose(out, Upto(k - 1))
  PROVE  AreThose(Append(out, Body(k)), Upto(k))
<1> DEFINE b == Body(k)
           u == Append(out, b)
           n == Len(out)
<1>1. Len(stream) \in Nat /\ n \in Nat /\ DOMAIN out = 1 .. n  BY EndFacts, LenProperties
<1>2. b \in Seq(Nat) /\ b[1] = EndOf[k - 1] + 5 /\ EndOf[k - 1] \in Nat  BY BodyFacts
<1>3. u \in Seq(Seq(Nat)) /\ Len(u) = n + 1 /\ u[n + 1] = b /\ \A i \in 1 .. n : u[i] = out[i]
  BY <1>2, AppendProperties
<1>4. DOMAIN u = 1 .. n + 1  BY <1>3, LenProperties
<1>5. /\ \A i \in 1 .. n : \E j \in Upto(k - 1) : out[i] = Body(j)
      /\ \A j \in Upto(k - 1) : \E i \in 1 .. n : out[i] = Body(j)
      /\ \A i, j \in 1 .. n : i < j => out[i][1] < out[j][1]
  BY <1>1 DEF AreThose
<1>6. Upto(k) = Upto(k - 1) \cup {k}  BY <1>1 DEF Upto
<1> HIDE DEF n, b
<1>7. \A i \in 1 .. n + 1 : i # n + 1 => i \in 1 .. n  BY <1>1
<1>8. \A i \in 1 .. n : i \in 1 .. n + 1 /\ n + 1 \in 1 .. n + 1  BY <1>1
<1>9. n + 1 \in 1 .. n + 1  BY <1>1
<1> HIDE DEF u
<1>10. \A i \in DOMAIN u : \E j \in Upto(k) : u[i] = Body(j)
  <2>1. ASSUME NEW i \in 1 .. n + 1  PROVE \E j \in Upto(k) : u[i] = Body(j)
    <3>1. CASE i = n + 1  BY <1>3, <1>6, <3>1 DEF b
    <3>2. CASE i # n + 1
      <4>1. i \in 1 .. n  BY <1>7, <3>2
      <4>2. PICK j \in Upto(k - 1) : out[i] = Body(j)  BY <1>5, <4>1
      <4>3. QED  BY <1>3, <1>6, <4>1, <4>2
    <3>3. QED  BY <3>1, <3>2
  <2>2. QED  BY <1>4, <2>1
<1>11. \A j \in Upto(k) : \E i \in DOMAIN u : u[i] = Body(j)
  <2>1. ASSUME NEW j \in Upto(k)  PROVE \E i \in 1 .. n + 1 : u[i] = Body(j)
    <3>1. CASE j = k  BY <1>3, <1>9, <3>1 DEF b
    <3>2. CASE j # k
      <4>1. j \in Upto(k - 1)  BY <1>6, <3>2
      <4>2. PICK i \in 1 .. n : out[i] = Body(j)  BY <1>5, <4>1
      <4>3. i \in 1 .. n + 1 /\ u[i] = Body(j)  BY <1>3, <1>8, <4>2
      <4>4. QED  BY <4>3
    <3>3. QED  BY <3>1, <3>2
  <2>2. QED  BY <1>4, <2>1
<1>12. ASSUME NEW i \in 1 .. n  PROVE out[i][1] < b[1]
  <2>1. PICK j \in Upto(k - 1) : out[i] = Body(j)  BY <1>5
  <2>2. j \in 1 .. Len(stream) /\ stream[j] > 0 /\ j <= k - 1 /\ j \in 0 .. Len(stream) /\ k - 1 \in 0 .. Len(stream)
    BY <1>1 DEF Upto
  <2>3. /\ Body(j)[1] = EndOf[j - 1] + 5 /\ EndOf[j - 1] \in Nat /\ EndOf[j] \in Nat
        /\ EndOf[j] = EndOf[j - 1] + 4 + stream[j] /\ stream[j] \in Nat
    BY <2>2, BodyFacts
  <2>4. EndOf[j] <= EndOf[k - 1]  BY <2>2, EndFacts
  <2> DEFINE x == EndOf[j - 1]
             y == EndOf[j]
             w == EndOf[k - 1]
             c == stream[j]
  <2>5. x \in Nat /\ y \in Nat /\ w \in Nat /\ c \in Nat /\ y = x + 4 + c /\ y <= w /\ c > 0
    BY <1>2, <2>2, <2>3, <2>4
  <2>6. out[i][1] = x + 5 /\ b[1] = w + 5  BY <1>2, <2>1, <2>3
  <2> HIDE DEF x, y, w, c
  <2>7. x + 5 < w + 5  BY <2>5
  <2>8. QED  BY <2>6, <2>7
<1>13. \A i, j \in DOMAIN u : i < j => u[i][1] < u[j][1]
  <2>1. ASSUME NEW i \in 1 .. n + 1, NEW j \in 1 .. n + 1, i < j  PROVE u[i][1] < u[j][1]
    <3>1. i \in 1 .. n  BY <1>1, <2>1
    <3>2. CASE j = n + 1  BY <1>3, <1>12, <3>1, <3>2
    <3>3. CASE j # n + 1
      <4>1. j \in 1 .. n  BY <1>7, <3>3
      <4>2. QED  BY <1>3, <1>5, <2>1, <3>1, <4>1
    <3>4. QED  BY <3>2, <3>3
  <2>2. QED  BY <1>4, <2>1
<1>14. QED  BY <1>10, <1>11, <1>13 DEF AreThose, u, b

\* readPacket: the bytes that are missing, or all there are.
ReadsOn(R, p, m, n, missing, r) ==
    /\ r.taken = (IF missing < m THEN missing ELSE m) /\ r.taken \in 1 .. m /\ missing \in Nat \ {0}
    /\ r.reader \in Readers /\ r.reader.error = R.error /\ r.reader.lenReceived = R.lenReceived
    /\ r.reader.len = R.len /\ Len(r.reader.queue) = n
    /\ \A i \in 1 .. n : i # n => r.reader.queue[i] = R.queue[i]
    /\ r.reader.queue[n].size = R.queue[n].size
    /\ r.reader.queue[n].data = R.queue[n].data \o Segment(p, r.taken)

\* readPacket on a segment: what it takes and what is left.
LEMMA ReadPacketFacts ==
  ASSUME NEW R \in Readers, Partial(R), NEW p \in Nat, NEW m \in Nat \ {0}, NEW n, n = Len(R.queue),
         NEW missing, missing = R.queue[n].size - Len(R.queue[n].data)
  PROVE  ReadsOn(R, p, m, n, missing, ReadPacket(R, Segment(p, m)))
<1> DEFINE r == ReadPacket(R, Segment(p, m))
<1> DEFINE last == R.queue[n]
           t == IF missing < m THEN missing ELSE m
           e == [size |-> last.size, data |-> last.data \o Segment(p, t)]
           q == [R.queue EXCEPT ![n] = e]
<1> HIDE DEF r
<1>1. n \in Nat /\ n > 0 /\ n \in 1 .. n /\ R.queue \in Seq(Incoming) /\ Len(last.data) < last.size
  BY ReaderFacts
<1>2. last \in Incoming /\ last.size \in 1 .. MaxPacket /\ last.size \in Nat /\ last.data \in Seq(Nat) /\ Len(last.data) \in Nat
  BY <1>1, ReaderFacts, ElementOfSeq
<1>3. missing \in Nat \ {0} /\ t \in 1 .. m /\ t \in Nat  BY <1>1, <1>2
<1>4. Segment(p, t) \in Seq(Nat) /\ Len(Segment(p, m)) = m /\ SubSeq(Segment(p, m), 1, t) = Segment(p, t)
  <2>1. t \in 0 .. m /\ m \in Nat  BY <1>3
  <2> HIDE DEF t
  <2>2. Segment(p, t) \in Seq(Nat)  BY <1>3, SegmentFacts
  <2>3. Len(Segment(p, m)) = m  BY <2>1, SegmentFacts
  <2>4. SubSeq(Segment(p, m), 1, t) = Segment(p, t)  BY <2>1, SegmentCut
  <2>5. QED  BY <2>2, <2>3, <2>4
<1>5. last.data \o Segment(p, t) \in Seq(Nat)  BY <1>2, <1>4, ConcatProperties
<1>6. e \in Incoming  BY <1>2, <1>5 DEF Incoming
<1>7. r.taken = t /\ r.reader = [R EXCEPT !.queue = q]
  <2>1. [R.queue EXCEPT ![n].data = @ \o Segment(p, t)] = q
    <3> DEFINE x == last.data \o Segment(p, t)
    <3>1. last = [size |-> last.size, data |-> last.data]  BY <1>2 DEF Incoming
    <3> HIDE DEF x
    <3>2. [last EXCEPT !.data = x] = [size |-> last.size, data |-> x]  BY <1>2 DEF Incoming
    <3>3. QED  BY <3>2 DEF x
  <2>2. r = [reader |-> [R EXCEPT !.queue = [R.queue EXCEPT ![n].data = @ \o Segment(p, t)]], taken |-> t]
    BY <1>4 DEF ReadPacket, r
  <2> HIDE DEF q, t
  <2>3. QED  BY <2>1, <2>2
<1> HIDE DEF e, t
<1>8. q \in Seq(Incoming) /\ Len(q) = n /\ \A i \in 1 .. n : q[i] = IF i = n THEN e ELSE R.queue[i]
  BY <1>1, <1>6, ExceptSeq
<1> HIDE DEF q
<1>9. /\ r.reader \in Readers /\ r.reader.error = R.error /\ r.reader.lenReceived = R.lenReceived
      /\ r.reader.len = R.len /\ r.reader.queue = q
  BY <1>7, <1>8 DEF Readers
<1>10. q[n] = e /\ e.size = last.size /\ e.data = last.data \o Segment(p, t)  BY <1>1, <1>8 DEF e
<1>11. /\ r.taken = (IF missing < m THEN missing ELSE m) /\ r.taken \in 1 .. m /\ missing \in Nat \ {0}
       /\ r.reader \in Readers /\ r.reader.error = R.error /\ r.reader.lenReceived = R.lenReceived
       /\ r.reader.len = R.len /\ Len(r.reader.queue) = n
       /\ \A i \in 1 .. n : i # n => r.reader.queue[i] = R.queue[i]
       /\ r.reader.queue[n].size = R.queue[n].size
       /\ r.reader.queue[n].data = R.queue[n].data \o Segment(p, r.taken)
  BY <1>3, <1>7, <1>8, <1>9, <1>10 DEF t
<1>12. ReadsOn(R, p, m, n, missing, r)  BY <1>11, Zenon DEF ReadsOn
<1>13. QED  BY <1>12 DEF r

-----------------------------------------------------------------------------
\* Where a reader is that has taken the first p bytes: k packets are past.
InLength(R, p, k) ==
    /\ p = EndOf[k] + Have(R) /\ ~Partial(R)
    /\ Have(R) > 0 => R.len = Segment(EndOf[k], Have(R))
InBody(R, p, k) ==
    /\ k < Len(stream) /\ R.lenReceived <= 0 /\ Partial(R) /\ stream[k + 1] <= MaxPacket
    /\ EndOf[k] + 4 <= p /\ p < EndOf[k + 1]
    /\ R.queue[Len(R.queue)].size = stream[k + 1]
    /\ R.queue[Len(R.queue)].data = Segment(EndOf[k] + 4, p - EndOf[k] - 4)
Passed(h, R, k) ==
    /\ R \in Readers /\ \A j \in 1 .. k : stream[j] <= MaxPacket
    /\ AreThose(Given(h, R), Upto(k))
RdAt(h, R, p, k) ==
    /\ k \in 0 .. Len(stream) /\ ~R.error /\ Passed(h, R, k)
    /\ InLength(R, p, k) \/ InBody(R, p, k)
\* A packet that is too long was met.
RdFailed(h, R, p) ==
    /\ R.error /\ ~Partial(R)
    /\ \E k \in 1 .. Len(stream) :
          Passed(h, R, k - 1) /\ stream[k] > MaxPacket /\ EndOf[k - 1] + 4 <= p

\* readPacket goes on with a packet, or completes it.
LEMMA ReadPacketAt ==
  ASSUME StreamOK, NEW h \in Seq(Seq(Nat)), NEW R, NEW p \in Nat, NEW k, NEW m \in Nat \ {0},
         RdAt(h, R, p, k), InBody(R, p, k), NEW r, r = ReadPacket(R, Segment(p, m))
  PROVE  /\ r.taken \in 1 .. m
         /\ \E l : RdAt(h, r.reader, p + r.taken, l)
         /\ r.taken < m => ~Partial(r.reader)
<1> DEFINE n == Len(R.queue)
           Q == r.reader
           t == r.taken
           a == EndOf[k]
           z == EndOf[k + 1]
           c == stream[k + 1]
           size == R.queue[n].size
           bytes == R.queue[n].data
           bytes2 == Q.queue[n].data
           missing == size - Len(bytes)
           past == Given(h, R)
<1>1. R \in Readers /\ k \in 0 .. Len(stream) /\ ~R.error /\ AreThose(past, Upto(k))
      /\ \A j \in 1 .. k : stream[j] <= MaxPacket
  BY DEF RdAt, Passed
<1>2. /\ k < Len(stream) /\ R.lenReceived <= 0 /\ Partial(R) /\ c <= MaxPacket
      /\ a + 4 <= p /\ p < z /\ size = c /\ bytes = Segment(a + 4, p - a - 4)
  BY DEF InBody
<1>3. /\ t = (IF missing < m THEN missing ELSE m) /\ t \in 1 .. m /\ missing \in Nat \ {0}
      /\ Q \in Readers /\ Q.error = R.error /\ Q.lenReceived = R.lenReceived
      /\ Q.len = R.len /\ Len(Q.queue) = n
      /\ \A i \in 1 .. n : i # n => Q.queue[i] = R.queue[i]
      /\ Q.queue[n].size = size /\ bytes2 = bytes \o Segment(p, t)
  <2>1. n = Len(R.queue) /\ missing = R.queue[n].size - Len(R.queue[n].data)  OBVIOUS
  <2> HIDE DEF n, missing
  <2>2. ReadsOn(R, p, m, n, missing, ReadPacket(R, Segment(p, m)))
    BY <1>1, <1>2, <2>1, ReadPacketFacts, Zenon
  <2>3. ReadsOn(R, p, m, n, missing, r)  BY <2>2
  <2>4. QED  BY <2>3, Zenon DEF ReadsOn
<1>4. /\ Len(stream) \in Nat /\ k + 1 \in 1 .. Len(stream) /\ k \in Nat /\ (k + 1) - 1 = k /\ k + 1 \in 0 .. Len(stream)
  BY <1>1, <1>2, EndFacts
<1>5. a \in Nat /\ z \in Nat /\ c \in Nat /\ z = a + 4 + c
  BY <1>4, BodyFacts
<1>6. n \in Nat /\ n > 0 /\ Complete(R) = n - 1  BY <1>1, <1>2, ReaderFacts DEF Complete
<1>7. Partial(Q) <=> Len(bytes2) < size
  <2>1. Partial(Q) <=> Len(Q.queue) > 0 /\ Len(Q.queue[Len(Q.queue)].data) < Q.queue[Len(Q.queue)].size
    BY <1>3, ReaderFacts
  <2>2. QED  BY <1>3, <1>6, <2>1
<1>8. Complete(Q) = IF Partial(Q) THEN n - 1 ELSE n  BY <1>3 DEF Complete
<1>9. Body(k + 1) = Segment(a + 4, c)  BY <1>4 DEF Body
<1>10. missing = size - Len(bytes) /\ Given(h, R) = past  OBVIOUS
<1>11. r.taken = t /\ r.reader = Q  OBVIOUS
<1>12. past \in Seq(Seq(Nat))  BY <1>1, DatasFacts, ConcatProperties DEF Given
<1>13. \A i \in 1 .. n - 1 : Q.queue[i].data = R.queue[i].data
  <2>1. \A i \in 1 .. n - 1 : i \in 1 .. n /\ i # n  BY <1>6
  <2>2. QED  BY <1>3, <2>1
<1>14. stream[k + 1] = c /\ EndOf[k] = a /\ EndOf[k + 1] = z
      /\ R.queue[n].size = size /\ Q.queue[n].data = bytes2 /\ Len(R.queue) = n  OBVIOUS
<1> HIDE DEF n, Q, t, a, z, c, size, bytes, bytes2, missing, past
<1>15. /\ a + 4 \in Nat /\ p - a - 4 \in Nat /\ a + 4 + (p - a - 4) = p
       /\ (p + t) - a - 4 \in Nat /\ p - a - 4 + t = (p + t) - a - 4 /\ t \in Nat
  BY <1>2, <1>3, <1>5
<1>16. Len(bytes) = p - a - 4  BY <1>2, <1>15, SegmentFacts
<1>17. missing = z - p
  <2>1. missing = c - (p - a - 4)  BY <1>2, <1>10, <1>16
  <2>2. c - (p - a - 4) = z - p  BY <1>5
  <2>3. QED  BY <2>1, <2>2
<1>18. bytes2 = Segment(a + 4, (p + t) - a - 4)
  <2>1. Segment(a + 4, p - a - 4) \o Segment(a + 4 + (p - a - 4), t) = Segment(a + 4, p - a - 4 + t)
    BY <1>15, SegmentJoin
  <2>2. QED  BY <1>2, <1>3, <1>15, <2>1
<1>19. Len(bytes2) = (p + t) - a - 4  BY <1>15, <1>18, SegmentFacts
<1>20. Partial(Q) <=> p + t < z  BY <1>2, <1>5, <1>7, <1>15, <1>19
<1>21. CASE t = missing
  <2>1. p + t = z /\ ~Partial(Q)  BY <1>5, <1>17, <1>20, <1>21
  <2>2. Complete(Q) = n /\ Complete(Q) = Complete(R) + 1  BY <1>6, <1>8, <2>1
  <2>3. bytes2 = Body(k + 1)
    <3>1. (p + t) - a - 4 = c  BY <1>5, <1>15, <2>1
    <3>2. QED  BY <1>9, <1>18, <3>1
  <2>4. Given(h, Q) = Append(past, Body(k + 1))
    <3>1. \A i \in 1 .. Complete(R) : Q.queue[i].data = R.queue[i].data  BY <1>6, <1>13
    <3>2. Given(h, Q) = Append(Given(h, R), Q.queue[Complete(Q)].data)
      BY <1>1, <1>3, <2>2, <3>1, GivenMore
    <3>3. QED  BY <1>10, <1>14, <2>2, <2>3, <3>2
  <2>5. c > 0  BY <1>2, <1>5, <2>1
  <2>6. AreThose(Given(h, Q), Upto(k + 1))
    <3>1. AreThose(past, Upto((k + 1) - 1)) /\ stream[k + 1] > 0  BY <1>1, <1>4, <1>14, <2>5
    <3>2. AreThose(Append(past, Body(k + 1)), Upto(k + 1))  BY <1>4, <1>12, <3>1, ThoseAppend
    <3>3. QED  BY <2>4, <3>2
  <2>7. \A j \in 1 .. k + 1 : stream[j] <= MaxPacket
    <3>1. \A j \in 1 .. k + 1 : j = k + 1 \/ j \in 1 .. k  BY <1>4
    <3>2. QED  BY <1>1, <1>2, <1>14, <3>1
  <2>8. Have(Q) = 0
    <3>1. Q.lenReceived <= 0 /\ Q.lenReceived \in -1 .. 3  BY <1>2, <1>3, ReaderFacts
    <3>2. QED  BY <3>1 DEF Have
  <2>9. InLength(Q, p + t, k + 1)
    <3>1. p + t = EndOf[k + 1] + 0  BY <1>5, <1>14, <2>1
    <3>2. QED  BY <2>1, <2>8, <3>1 DEF InLength
  <2>10. RdAt(h, Q, p + t, k + 1)  BY <1>1, <1>3, <1>4, <2>6, <2>7, <2>9 DEF RdAt, Passed
  <2>11. QED  BY <1>3, <1>11, <2>1, <2>10
<1>22. CASE t # missing
  <2>1. t = m /\ m < missing  BY <1>3, <1>22
  <2>2. p + t < z  BY <1>3, <1>5, <1>15, <1>17, <2>1
  <2>3. Partial(Q)  BY <1>20, <2>2
  <2>4. Complete(Q) = Complete(R)  BY <1>6, <1>8, <2>3
  <2>5. Given(h, Q) = past
    <3>1. \A i \in 1 .. Complete(R) : Q.queue[i].data = R.queue[i].data  BY <1>6, <1>13
    <3>2. QED  BY <1>10, <2>4, <3>1, GivenSame
  <2>6. a + 4 <= p + t  BY <1>2, <1>5, <1>15
  <2>7. InBody(Q, p + t, k)
    <3>1. Q.lenReceived <= 0 /\ Len(Q.queue) = n /\ Q.queue[n].size = stream[k + 1]
          /\ Q.queue[n].data = Segment(EndOf[k] + 4, (p + t) - EndOf[k] - 4)
      BY <1>2, <1>3, <1>14, <1>18
    <3>2. EndOf[k] + 4 <= p + t /\ p + t < EndOf[k + 1] /\ stream[k + 1] <= MaxPacket
      BY <1>2, <1>14, <2>2, <2>6
    <3>3. Q.queue[Len(Q.queue)].size = stream[k + 1]
          /\ Q.queue[Len(Q.queue)].data = Segment(EndOf[k] + 4, (p + t) - EndOf[k] - 4)
      BY <3>1
    <3>4. Q.lenReceived <= 0 /\ k < Len(stream)  BY <1>2, <3>1
    <3>5. /\ k < Len(stream) /\ Q.lenReceived <= 0 /\ Partial(Q) /\ stream[k + 1] <= MaxPacket
          /\ EndOf[k] + 4 <= p + t /\ p + t < EndOf[k + 1]
          /\ Q.queue[Len(Q.queue)].size = stream[k + 1]
          /\ Q.queue[Len(Q.queue)].data = Segment(EndOf[k] + 4, (p + t) - EndOf[k] - 4)
      BY <2>3, <3>2, <3>3, <3>4
    <3>6. QED  BY <3>5, Zenon DEF InBody
  <2>8. RdAt(h, Q, p + t, k)  BY <1>1, <1>3, <2>5, <2>7 DEF RdAt, Passed
  <2>9. QED  BY <1>3, <1>11, <2>1, <2>8
<1>23. QED  BY <1>21, <1>22

\* newPacket takes some bytes, and ends in a length, in a body, or with a
\* packet that is too long.
NewAt(h, p, m, r) ==
    /\ r.taken \in 1 .. m
    /\ r.reader.error => r.taken = m /\ RdFailed(h, r.reader, p + m) /\ r.reader \in Readers
    /\ ~r.reader.error => /\ \E l : RdAt(h, r.reader, p + r.taken, l)
                          /\ r.taken < m => ~Partial(r.reader)

\* newPacket from a packet's start: a piece of the length, a keep-alive, a
\* length that is too long, or a packet and what there is of its bytes.
LEMMA NewPacketAt ==
  ASSUME StreamOK, NEW h \in Seq(Seq(Nat)), NEW R, NEW p \in Nat, NEW k, NEW m \in Nat \ {0},
         RdAt(h, R, p, k), ~Partial(R), p + m <= EndOf[Len(stream)]
  PROVE  NewAt(h, p, m, NewPacket(R, Segment(p, m)))
<1> DEFINE have == Have(R)
           n == 4 - have
           a == EndOf[k]
           z == EndOf[k + 1]
           c == stream[k + 1]
           r == NewPacket(R, Segment(p, m))
           pre == SubSeq(R.len, 1, have)
           past == Given(h, R)
           q == R.queue
           R1 == [R EXCEPT !.lenReceived = IF R.lenReceived > 0 THEN 0 ELSE @]
           e == [size |-> c, data |-> <<>>]
           R2 == [R1 EXCEPT !.queue = Append(@, e)]
           R3 == [R EXCEPT !.len = pre \o Segment(p, m), !.lenReceived = have + m]
           R4 == [R1 EXCEPT !.error = TRUE]
<1> SUFFICES NewAt(h, p, m, r)  OBVIOUS
<1> HIDE DEF r
<1>1. R \in Readers /\ k \in 0 .. Len(stream) /\ R.error = FALSE /\ AreThose(past, Upto(k))
      /\ \A j \in 1 .. k : stream[j] <= MaxPacket
  BY DEF RdAt, Passed, Readers
<1>2. p = a + have /\ (have > 0 => R.len = Segment(a, have))
  <2>1. InLength(R, p, k)  BY DEF RdAt, InBody
  <2>2. QED  BY <2>1 DEF InLength
<1>3. Len(stream) \in Nat /\ a \in Nat /\ EndOf[Len(stream)] \in Nat
  <2>1. Len(stream) \in Nat /\ EndOf \in [0 .. Len(stream) -> Nat]  BY EndFacts
  <2>2. Len(stream) \in 0 .. Len(stream)  BY <2>1
  <2>3. QED  BY <1>1, <2>1, <2>2
<1>4. have \in 0 .. 3 /\ have \in Nat /\ R.len \in Seq(Nat) /\ R.lenReceived \in -1 .. 3 /\ q \in Seq(Incoming) /\ Len(q) \in Nat
  <2>1. Have(R) \in 0 .. 3  BY <1>1, ReaderFacts
  <2>2. QED  BY <1>1, <2>1, ReaderFacts
<1>5. k < Len(stream)
  <2>1. k # Len(stream)
    <3>1. SUFFICES ASSUME k = Len(stream) PROVE FALSE  OBVIOUS
    <3>2. p + m <= a  BY <3>1
    <3> HIDE DEF a, have
    <3>3. QED  BY <1>2, <1>3, <1>4, <3>2
  <2>2. QED  BY <1>1, <1>3, <2>1
<1>6. k \in Nat /\ k + 1 \in 1 .. Len(stream) /\ k + 1 \in 0 .. Len(stream) /\ (k + 1) - 1 = k  BY <1>1, <1>3, <1>5
<1>7. z \in Nat /\ c \in Nat /\ z = a + 4 + c  BY <1>6, BodyFacts
<1>8. Len(Segment(p, m)) = m  BY SegmentFacts
<1>9. n \in 1 .. 4 /\ LengthBytesTaken(R) = n /\ (R.lenReceived > 0 => have = R.lenReceived) /\ n = 4 - have
  BY <1>4 DEF LengthBytesTaken, Have
<1>10. pre = Segment(a, have)
  <2>1. CASE have > 0
    <3>1. have \in 0 .. have /\ R.len = Segment(a, have)  BY <1>2, <1>4, <2>1
    <3> HIDE DEF have, a
    <3>2. SubSeq(Segment(a, have), 1, have) = Segment(a, have)  BY <1>3, <1>4, <3>1, SegmentCut
    <3>3. QED  BY <3>1, <3>2
  <2>2. CASE have = 0
    <3>1. SubSeq(R.len, 1, 0) = <<>>  BY SubSeqEmpty
    <3>2. Segment(a, 0) = <<>>
      <4>1. Segment(a, 0) \in Seq(Nat) /\ Len(Segment(a, 0)) = 0  BY <1>3, SegmentFacts
      <4>2. QED  BY <4>1, EmptySeq
    <3>3. QED  BY <2>2, <3>1, <3>2
  <2>3. QED  BY <1>4, <2>1, <2>2
<1>11. /\ R1 \in Readers /\ R1.error = FALSE /\ R1.queue = q /\ R1.lenReceived <= 0 /\ Have(R1) = 0
       /\ R1.len = R.len
  <2> DEFINE v == IF R.lenReceived > 0 THEN 0 ELSE R.lenReceived
  <2>1. v \in -1 .. 3 /\ v <= 0  BY <1>4
  <2>2. R1 = [R EXCEPT !.lenReceived = v]  OBVIOUS
  <2> HIDE DEF v, R1, q
  <2>3. R1 \in Readers /\ R1.error = R.error /\ R1.queue = R.queue /\ R1.lenReceived = v /\ R1.len = R.len
    BY <1>1, <2>1, <2>2 DEF Readers
  <2>4. Have(R1) = 0  BY <2>1, <2>3 DEF Have
  <2>5. QED  BY <1>1, <2>1, <2>3, <2>4 DEF q
<1>12. ~Partial(R1) /\ Given(h, R1) = past
  <2>1. ~Partial(R1)  BY <1>11 DEF Partial
  <2>2. Complete(R1) = Complete(R)  BY <1>11, <2>1 DEF Complete
  <2>3. Given(h, R1) = Given(h, R)
    <3> HIDE DEF R1
    <3>1. \A i \in 1 .. Complete(R) : R1.queue[i].data = R.queue[i].data  BY <1>11
    <3>2. QED  BY <2>2, <3>1, GivenSame
  <2>4. QED  BY <2>1, <2>3
<1>13. EndOf[k] = a /\ EndOf[k + 1] = z /\ stream[k + 1] = c /\ Given(h, R) = past  OBVIOUS
<1>14. CASE m < n
  <2>1. r = [reader |-> R3, taken |-> m]
    BY <1>8, <1>14 DEF NewPacket, r
  <2>2. pre \o Segment(p, m) = Segment(a, have + m)
    <3> HIDE DEF a, have, pre
    <3>1. Segment(a, have) \o Segment(a + have, m) = Segment(a, have + m)  BY <1>3, <1>4, SegmentJoin
    <3>2. QED  BY <1>2, <1>10, <3>1
  <2>3. have + m \in 1 .. 3 /\ have + m \in Nat
    <3> HIDE DEF have
    <3>1. QED  BY <1>4, <1>9, <1>14
  <2>4. Segment(a, have + m) \in Seq(Nat)
    <3> HIDE DEF have, a
    <3>1. QED  BY <1>3, <2>3, SegmentFacts
  <2>5. /\ R3 \in Readers /\ R3.error = FALSE /\ R3.queue = q /\ R3.lenReceived = have + m
        /\ R3.len = Segment(a, have + m)
    <3> DEFINE v == have + m
               w == pre \o Segment(p, m)
    <3>1. v \in -1 .. 3 /\ w \in Seq(Nat) /\ w = Segment(a, have + m)
      <4>1. w = Segment(a, have + m) /\ w \in Seq(Nat)  BY <2>2, <2>4
      <4> HIDE DEF have
      <4>2. v \in -1 .. 3  BY <2>3
      <4>3. QED  BY <4>1, <4>2
    <3>2. R3 = [R EXCEPT !.len = w, !.lenReceived = v]  OBVIOUS
    <3> HIDE DEF v, w, R3, q
    <3>3. R3 \in Readers /\ R3.error = R.error /\ R3.queue = R.queue /\ R3.lenReceived = v /\ R3.len = w
      BY <1>1, <3>1, <3>2 DEF Readers
    <3>4. QED  BY <1>1, <3>1, <3>3 DEF q, v
  <2> HIDE DEF R3
  <2>6. Have(R3) = have + m  BY <2>3, <2>5 DEF Have
  <2>7. ~Partial(R3)  BY <2>5 DEF Partial
  <2>8. Given(h, R3) = past
    <3>1. Complete(R3) = Complete(R)  BY <2>5, <2>7 DEF Complete
    <3>2. QED  BY <2>5, <3>1, GivenSame
  <2>9. InLength(R3, p + m, k)
    <3>1. p + m = a + (have + m)
      <4> HIDE DEF a, have
      <4>1. QED  BY <1>2, <1>3, <1>4
    <3>2. QED  BY <2>5, <2>6, <2>7, <3>1 DEF InLength
  <2>10. RdAt(h, R3, p + m, k)  BY <1>1, <2>5, <2>8, <2>9 DEF RdAt, Passed
  <2>11. m \in 1 .. m  OBVIOUS
  <2>12. QED  BY <2>1, <2>5, <2>10, <2>11 DEF NewAt
<1>15. CASE ~(m < n)
  <2>1. ReadUint32(pre \o SubSeq(Segment(p, m), 1, n)) = c
    <3>1. n \in 0 .. m /\ n \in Nat /\ have + n = 4
      <4> HIDE DEF have, n
      <4>1. QED  BY <1>4, <1>9, <1>15
    <3>2. SubSeq(Segment(p, m), 1, n) = Segment(p, n)
      <4> HIDE DEF n
      <4>1. QED  BY <3>1, SegmentCut
    <3>3. pre \o Segment(p, n) = Segment(a, 4)
      <4> HIDE DEF a, have, pre, n
      <4>1. Segment(a, have) \o Segment(a + have, n) = Segment(a, have + n)  BY <1>3, <1>4, <3>1, SegmentJoin
      <4>2. QED  BY <1>2, <1>10, <3>1, <4>1
    <3>4. ReadUint32(Segment(EndOf[(k + 1) - 1], 4)) = stream[k + 1]  BY <1>6, LengthRead
    <3>5. QED  BY <1>6, <3>2, <3>3, <3>4
  <2>2. /\ n \in 0 .. m /\ n \in 1 .. m /\ n \in Nat /\ p + n = a + 4 /\ m - n \in Nat /\ a + 4 <= p + m
        /\ p + n \in Nat /\ p + m \in Nat
    <3> HIDE DEF a, have, n
    <3>1. QED  BY <1>2, <1>3, <1>4, <1>9, <1>15
  <2>3. CASE c = 0
    <3>1. r = [reader |-> R1, taken |-> n]  BY <1>8, <1>9, <1>15, <2>1, <2>3 DEF NewPacket, r
    <3>2. p + n = EndOf[k + 1] + 0
      <4> HIDE DEF a, z, c, n
      <4>1. z = a + 4 /\ z + 0 = z BY <1>3, <1>7, <2>3
      <4>2. QED  BY <1>13, <2>2, <4>1
    <3>3. Upto(k + 1) = Upto(k)
      <4>1. \A j \in 1 .. k + 1 : j = k + 1 \/ j \in 1 .. k  BY <1>6
      <4>2. \A j \in 1 .. k : j \in 1 .. k + 1  BY <1>6
      <4>3. ~(stream[k + 1] > 0)  BY <2>3
      <4>4. QED  BY <4>1, <4>2, <4>3 DEF Upto
    <3>4. \A j \in 1 .. k + 1 : stream[j] <= MaxPacket
      <4>1. \A j \in 1 .. k + 1 : j = k + 1 \/ j \in 1 .. k  BY <1>6
      <4>2. stream[k + 1] <= MaxPacket  BY <2>3, RdAssumption
      <4>3. QED  BY <1>1, <4>1, <4>2
    <3> HIDE DEF R1, n, past
    <3>5. InLength(R1, p + n, k + 1)  BY <1>11, <1>12, <3>2 DEF InLength
    <3>6. Passed(h, R1, k + 1)  BY <1>1, <1>11, <1>12, <3>3, <3>4 DEF Passed
    <3>7. RdAt(h, R1, p + n, k + 1)  BY <1>6, <1>11, <3>5, <3>6 DEF RdAt
    <3>8. r.taken = n /\ r.reader = R1  BY <3>1
    <3>9. QED  BY <1>11, <1>12, <2>2, <3>7, <3>8 DEF NewAt
  <2>4. CASE c > MaxPacket
    <3>1. r = [reader |-> R4, taken |-> m]
      <4>1. c # 0  BY <2>4, RdAssumption
      <4>2. QED  BY <1>8, <1>9, <1>15, <2>1, <2>4, <4>1 DEF NewPacket, r
    <3>2. R4 \in Readers /\ R4.error = TRUE /\ R4.queue = q
      <4> HIDE DEF R1
      <4>1. QED  BY <1>11 DEF Readers
    <3> HIDE DEF R4
    <3>3. ~Partial(R4)  BY <3>2 DEF Partial
    <3>4. Given(h, R4) = past
      <4>1. Complete(R4) = Complete(R)  BY <3>2, <3>3 DEF Complete
      <4>2. QED  BY <3>2, <4>1, GivenSame
    <3>5. Passed(h, R4, (k + 1) - 1)  BY <1>1, <1>6, <3>2, <3>4 DEF Passed
    <3>6. RdFailed(h, R4, p + m)
      <4>1. EndOf[(k + 1) - 1] + 4 <= p + m /\ stream[k + 1] > MaxPacket  BY <1>6, <2>2, <2>4
      <4>2. QED  BY <1>6, <3>2, <3>3, <3>5, <4>1 DEF RdFailed
    <3>7. r.taken = m /\ r.reader = R4 /\ m \in 1 .. m  BY <3>1
    <3>8. QED  BY <3>2, <3>6, <3>7 DEF NewAt
  <2>5. CASE c # 0 /\ ~(c > MaxPacket)
    <3>1. c \in 1 .. MaxPacket /\ c <= MaxPacket /\ c > 0
      <4> HIDE DEF c
      <4>1. QED  BY <1>7, <2>5, RdAssumption
    <3>2. e \in Incoming /\ e.size = c /\ e.data = <<>>
      <4> HIDE DEF c
      <4>1. QED  BY <3>1 DEF Incoming
    <3> HIDE DEF e
    <3>3. Append(q, e) \in Seq(Incoming) /\ Len(Append(q, e)) = Len(q) + 1 /\ Append(q, e)[Len(q) + 1] = e
          /\ \A i \in 1 .. Len(q) : Append(q, e)[i] = q[i]
      <4> HIDE DEF q
      <4>1. QED  BY <1>4, <3>2, AppendProperties
    <3>4. /\ R2 \in Readers /\ R2.error = FALSE /\ R2.queue = Append(q, e) /\ R2.lenReceived <= 0
      <4> HIDE DEF R1
      <4>1. QED  BY <1>11, <3>3 DEF Readers
    <3>5. r = IF SubSeq(Segment(p, m), n + 1, m) = <<>> THEN [reader |-> R2, taken |-> n]
              ELSE LET x == ReadPacket(R2, SubSeq(Segment(p, m), n + 1, m))
                   IN  [reader |-> x.reader, taken |-> n + x.taken]
      BY <1>8, <1>9, <1>15, <2>1, <2>5 DEF NewPacket, r, e
    <3>6. SubSeq(Segment(p, m), n + 1, m) = Segment(a + 4, m - n)
      <4> HIDE DEF a, n
      <4>1. SubSeq(Segment(p, m), n + 1, m) = Segment(p + n, m - n)  BY <2>2, SegmentCut
      <4>2. QED  BY <2>2, <4>1
    <3> HIDE DEF R2
    <3>7. Partial(R2) /\ Complete(R2) = Len(q) /\ Complete(R) = Len(q)
      <4>1. Len(R2.queue) = Len(q) + 1 /\ R2.queue[Len(R2.queue)].size = c /\ R2.queue[Len(R2.queue)].data = <<>>
        BY <3>2, <3>3, <3>4
      <4>2. Len(R2.queue) > 0  BY <1>4, <4>1
      <4>3. Len(<<>>) = 0  BY EmptySeq
      <4>4. Partial(R2)  BY <3>1, <4>1, <4>2, <4>3, <3>4, ReaderFacts
      <4>5. Len(q) + 1 - 1 = Len(q)  BY <1>4
      <4>6. QED  BY <4>1, <4>4, <4>5 DEF Complete
    <3>8. Given(h, R2) = past
      <4>1. \A i \in 1 .. Complete(R) : R2.queue[i].data = R.queue[i].data  BY <3>3, <3>4, <3>7
      <4>2. QED  BY <3>7, <4>1, GivenSame
    <3>9. InBody(R2, a + 4, k)
      <4>1. R2.queue[Len(R2.queue)].size = stream[k + 1] /\ R2.queue[Len(R2.queue)].data = <<>>
        BY <3>2, <3>3, <3>4
      <4>2. <<>> = Segment(a + 4, (a + 4) - a - 4)
        <5>1. (a + 4) - a - 4 = 0 /\ a + 4 \in Nat
          <6> HIDE DEF a
          <6>1. QED  BY <1>3
        <5>2. Segment(a + 4, 0) \in Seq(Nat) /\ Len(Segment(a + 4, 0)) = 0  BY <5>1, SegmentFacts
        <5>3. QED  BY <5>1, <5>2, EmptySeq
      <4>3. EndOf[k] + 4 <= a + 4 /\ a + 4 < EndOf[k + 1] /\ stream[k + 1] <= MaxPacket
        <5> HIDE DEF a, z, c
        <5>1. a + 4 <= a + 4 /\ a + 4 < z  BY <1>3, <1>7, <3>1
        <5>2. QED  BY <1>13, <3>1, <5>1
      <4>4. QED  BY <1>5, <1>13, <3>4, <3>7, <4>1, <4>2, <4>3 DEF InBody
    <3>10. RdAt(h, R2, a + 4, k)  BY <1>1, <3>4, <3>8, <3>9 DEF RdAt, Passed
    <3>11. CASE m = n
      <4>1. m - n = 0  BY <3>11
      <4>2. Segment(a + 4, 0) = <<>>
        <5>1. a + 4 \in Nat  BY <1>3
        <5>2. Segment(a + 4, 0) \in Seq(Nat) /\ Len(Segment(a + 4, 0)) = 0  BY <5>1, SegmentFacts
        <5>3. QED  BY <5>2, EmptySeq
      <4>3. r.reader = R2 /\ r.taken = n
        <5>1. SubSeq(Segment(p, m), n + 1, m) = <<>>  BY <3>6, <4>1, <4>2
        <5>2. r = [reader |-> R2, taken |-> n]  BY <3>5, <5>1, Zenon
        <5>3. QED  BY <5>2
      <4>4. p + r.taken = a + 4 /\ ~(r.taken < m) /\ r.taken \in 1 .. m
        <5> HIDE DEF n, a
        <5>1. QED  BY <2>2, <3>11, <4>3
      <4> HIDE DEF n, a
      <4>5. QED  BY <3>4, <3>10, <4>3, <4>4 DEF NewAt
    <3>12. CASE m # n
      <4> DEFINE x == ReadPacket(R2, Segment(a + 4, m - n))
      <4>1. m - n \in Nat \ {0} /\ a + 4 \in Nat
        <5> HIDE DEF n, a
        <5>1. QED  BY <1>3, <2>2, <3>12
      <4>2. Segment(a + 4, m - n) # <<>>
        <5> HIDE DEF n, a
        <5>1. Len(Segment(a + 4, m - n)) = m - n  BY <4>1, SegmentFacts
        <5>2. QED  BY <4>1, <5>1, EmptySeq
      <4>3. r.reader = x.reader /\ r.taken = n + x.taken
        <5> HIDE DEF n, a
        <5>1. r = [reader |-> x.reader, taken |-> n + x.taken]  BY <3>5, <3>6, <4>2, Zenon
        <5>2. QED  BY <5>1
      <4>4. /\ x.taken \in 1 .. m - n
            /\ \E l : RdAt(h, x.reader, a + 4 + x.taken, l)
            /\ x.taken < m - n => ~Partial(x.reader)
        <5> HIDE DEF n, a
        <5>1. x = ReadPacket(R2, Segment(a + 4, m - n))  OBVIOUS
        <5> HIDE DEF x
        <5>2. QED  BY <3>9, <3>10, <4>1, <5>1, ReadPacketAt
      <4> HIDE DEF x
      <4>5. p + r.taken = a + 4 + x.taken /\ r.taken \in 1 .. m /\ (r.taken < m <=> x.taken < m - n)
        <5> HIDE DEF n, a
        <5>1. QED  BY <1>3, <2>2, <4>1, <4>3, <4>4
      <4>6. ~x.reader.error  BY <4>4 DEF RdAt
      <4> HIDE DEF n, a
      <4>7. QED  BY <4>3, <4>4, <4>5, <4>6 DEF NewAt
    <3>13. QED  BY <3>11, <3>12
  <2>6. QED  BY <2>3, <2>4, <2>5
<1>16. QED  BY <1>14, <1>15

-----------------------------------------------------------------------------
\* A reader that has taken all of the first e bytes.
Took(h, Q, e) ==
    /\ Q \in Readers
    /\ Q.error => RdFailed(h, Q, e)
    /\ ~Q.error => \E l : RdAt(h, Q, e, l)
\* The loop of onDataReady between two turns.
Sound(h, x, e) ==
    /\ x.reader.error => RdFailed(h, x.reader, e)
    /\ ~x.reader.error => \E q \in 0 .. e : /\ x.left = Segment(q, e - q)
                                            /\ \E l : RdAt(h, x.reader, q, l)
                                            /\ q < e => ~Partial(x.reader)
Loops == [reader : Readers, left : Seq(Nat)]

\* A turn of the loop of onDataReady keeps the place, and shortens what is left.
LEMMA TurnAt ==
  ASSUME StreamOK, NEW h \in Seq(Seq(Nat)), NEW e \in Nat, e <= EndOf[Len(stream)],
         NEW x \in Loops, Sound(h, x, e)
  PROVE  /\ ReadTurn(x) \in Loops /\ Sound(h, ReadTurn(x), e)
         /\ \/ ReadTurn(x).reader.error \/ Len(ReadTurn(x).left) = 0 \/ Len(ReadTurn(x).left) < Len(x.left)
<1>1. x.reader \in Readers /\ x.left \in Seq(Nat) /\ Len(x.left) \in Nat
  <2>1. x.reader \in Readers /\ x.left \in Seq(Nat)  BY DEF Loops
  <2>2. QED  BY <2>1, LenProperties
<1>2. CASE x.left = <<>> \/ x.reader.error
  <2>1. ReadTurn(x) = x  BY <1>2 DEF ReadTurn
  <2>2. x.left = <<>> => Len(x.left) = 0  BY <1>1, EmptySeq
  <2>3. QED  BY <1>2, <2>1, <2>2
<1>3. CASE x.left # <<>> /\ ~x.reader.error
  <2>1. PICK q \in 0 .. e : /\ x.left = Segment(q, e - q) /\ \E l : RdAt(h, x.reader, q, l)
                            /\ q < e => ~Partial(x.reader)
    BY <1>3 DEF Sound
  <2>2. PICK k : RdAt(h, x.reader, q, k)  BY <2>1
  <2> DEFINE m == e - q
             r == NewPacket(x.reader, Segment(q, m))
             t == r.taken
             Q == r.reader
             L == SubSeq(Segment(q, m), t + 1, m)
  <2>3. q \in Nat /\ m \in Nat /\ q + m = e  OBVIOUS
  <2>4. Len(Segment(q, m)) = m  BY <2>3, SegmentFacts
  <2>5. m # 0
    <3>1. Len(x.left) # 0  BY <1>1, <1>3, EmptySeq
    <3>2. QED  BY <2>1, <2>4, <3>1
  <2>6. NewAt(h, q, m, r)
    <3>1. m \in Nat \ {0} /\ q < e /\ q + m <= EndOf[Len(stream)]  BY <2>3, <2>5
    <3>2. ~Partial(x.reader)  BY <2>1, <3>1
    <3> HIDE DEF m
    <3>3. QED  BY <2>2, <2>3, <3>1, <3>2, NewPacketAt
  <2>7. ReadTurn(x) = [reader |-> Q, left |-> L]
    <3>1. x.left = Segment(q, m)  BY <2>1
    <3> HIDE DEF m
    <3>2. QED  BY <1>3, <2>4, <3>1 DEF ReadTurn
  <2>8. t \in 1 .. m /\ (Q.error => RdFailed(h, Q, q + m) /\ Q \in Readers)
        /\ (~Q.error => (\E l : RdAt(h, Q, q + t, l)) /\ (t < m => ~Partial(Q)))
    <3> HIDE DEF r, m
    <3>1. QED  BY <2>6, Zenon DEF NewAt
  <2>9. Q \in Readers
    <3> HIDE DEF Q
    <3>1. QED  BY <2>8 DEF RdAt, Passed
  <2> HIDE DEF r, t, Q
  <2>10. L = Segment(q + t, m - t) /\ t \in 0 .. m /\ q + t \in Nat /\ m - t \in Nat
    <3>1. t \in 0 .. m /\ q + t \in Nat /\ m - t \in Nat  BY <2>3, <2>8
    <3> HIDE DEF m
    <3>2. QED  BY <2>3, <3>1, SegmentCut
  <2>11. q + t \in 0 .. e /\ e - (q + t) = m - t /\ (q + t < e <=> t < m)  BY <2>3, <2>8
  <2> HIDE DEF m, L
  <2>12. L \in Seq(Nat) /\ Len(L) = m - t  BY <2>10, SegmentFacts
  <2>13. ReadTurn(x) \in Loops  BY <2>7, <2>9, <2>12 DEF Loops
  <2>14. ReadTurn(x).reader = Q /\ ReadTurn(x).left = L  BY <2>7
  <2>15. Sound(h, ReadTurn(x), e)
    <3>1. Q.error => RdFailed(h, Q, e)  BY <2>3, <2>8
    <3>2. ~Q.error => /\ L = Segment(q + t, e - (q + t)) /\ \E l : RdAt(h, Q, q + t, l)
                      /\ q + t < e => ~Partial(Q)
      BY <2>8, <2>10, <2>11
    <3> DEFINE y == ReadTurn(x)
               w == q + t
    <3>3. y.reader = Q /\ y.left = L /\ w \in 0 .. e /\ w = q + t  BY <2>11, <2>14
    <3> HIDE DEF y, w
    <3>4. Sound(h, y, e)  BY <3>1, <3>2, <3>3 DEF Sound
    <3>5. QED  BY <3>4 DEF y
  <2>16. Len(L) < Len(x.left)
    <3>1. Len(x.left) = m  BY <2>1, <2>4 DEF m
    <3>2. QED  BY <2>3, <2>8, <2>12, <3>1
  <2>17. QED  BY <2>13, <2>14, <2>15, <2>16
<1>4. QED  BY <1>2, <1>3

\* The loop of onDataReady takes the whole segment: as many turns as bytes.
LEMMA ConsumeAt ==
  ASSUME StreamOK, NEW h \in Seq(Seq(Nat)), NEW R, NEW p \in Nat, NEW k, NEW m \in Nat,
         RdAt(h, R, p, k), m > 0 => ~Partial(R), p + m <= EndOf[Len(stream)]
  PROVE  Took(h, Consume(R, Segment(p, m)), p + m)
<1> DEFINE e == p + m
           buf == Segment(p, m)
           x0 == [reader |-> R, left |-> buf]
           D == {x \in Loops : Sound(h, x, e)}
           g == [y \in D \X (Nat \ {0}) |-> ReadTurn(y[1])]
           F[i \in 0 .. m] == IF i = 0 THEN x0 ELSE ReadTurn(F[i - 1])
<1>1. e \in Nat /\ e <= EndOf[Len(stream)] /\ p \in 0 .. e /\ e - p = m /\ (p < e <=> m > 0)  OBVIOUS
<1>2. buf \in Seq(Nat) /\ Len(buf) = m  BY SegmentFacts
<1>3. R \in Readers /\ ~R.error  BY DEF RdAt, Passed
<1> HIDE DEF e
<1>4. x0 \in D
  <2>1. x0 \in Loops /\ x0.reader = R /\ x0.left = buf
    <3> HIDE DEF buf
    <3>1. QED  BY <1>2, <1>3 DEF Loops
  <2>2. x0.left = Segment(p, e - p)  BY <1>1, <2>1
  <2>3. p < e => ~Partial(x0.reader)  BY <1>1, <2>1
  <2> HIDE DEF x0
  <2>4. Sound(h, x0, e)  BY <1>1, <1>3, <2>1, <2>2, <2>3 DEF Sound
  <2>5. QED  BY <2>1, <2>4
<1>5. ASSUME NEW x \in D
      PROVE  /\ ReadTurn(x) \in D
             /\ \/ ReadTurn(x).reader.error \/ Len(ReadTurn(x).left) = 0 \/ Len(ReadTurn(x).left) < Len(x.left)
  BY <1>1, TurnAt
<1>6. TurnsIn(g, D)
  <2> HIDE DEF D
  <2>1. ASSUME NEW x \in D, NEW i \in Nat \ {0}  PROVE g[<<x, i>>] \in D
    <3>1. <<x, i>> \in D \X (Nat \ {0}) /\ <<x, i>>[1] = x  OBVIOUS
    <3>2. g[<<x, i>>] = ReadTurn(x)  BY <3>1
    <3>3. QED  BY <1>5, <3>2
  <2> HIDE DEF g
  <2>2. QED  BY <2>1 DEF TurnsIn
<1> HIDE DEF D
<1>7. PICK G : Loop(G, g, D, x0, m)
  <2> HIDE DEF g, x0
  <2>1. QED  BY <1>4, <1>6, LoopExists
<1>8. /\ G \in [0 .. m -> D] /\ G[0] = x0 /\ \A i \in 1 .. m : G[i] = ReadTurn(G[i - 1])
  <2>1. G \in [0 .. m -> D] /\ G[0] = x0 /\ \A i \in 1 .. m : G[i] = g[<<G[i - 1], i>>]
    BY <1>7 DEF Loop
  <2>2. ASSUME NEW i \in 1 .. m  PROVE G[i] = ReadTurn(G[i - 1])
    <3>1. i - 1 \in 0 .. m /\ i \in Nat \ {0}  OBVIOUS
    <3>2. G[i - 1] \in D  BY <2>1, <3>1
    <3>3. <<G[i - 1], i>> \in D \X (Nat \ {0}) /\ <<G[i - 1], i>>[1] = G[i - 1]  BY <3>1, <3>2
    <3>4. g[<<G[i - 1], i>>] = ReadTurn(G[i - 1])  BY <3>3
    <3>5. QED  BY <2>1, <3>4
  <2>3. QED  BY <2>1, <2>2
<1> HIDE DEF g, x0
<1>9. G = [i \in 0 .. m |-> IF i = 0 THEN x0 ELSE ReadTurn(G[i - 1])]
  <2>1. \A i \in 0 .. m : G[i] = IF i = 0 THEN x0 ELSE ReadTurn(G[i - 1])  BY <1>8
  <2>2. QED  BY <1>8, <2>1
<1>10. F = [i \in 0 .. m |-> IF i = 0 THEN x0 ELSE ReadTurn(F[i - 1])]  BY <1>9
<1>11. Consume(R, buf) = F[m].reader  BY <1>2 DEF Consume, x0
<1> HIDE DEF F
<1>12. F[0] = x0 /\ \A i \in 1 .. m : F[i] = ReadTurn(F[i - 1])
  <2>1. \A i \in 0 .. m : F[i] = IF i = 0 THEN x0 ELSE ReadTurn(F[i - 1])  BY <1>10
  <2>2. QED  BY <2>1
<1> DEFINE B == [i \in 0 .. m |-> {x \in D : x.reader.error \/ Len(x.left) <= m - i}]
<1>13. F[0] \in B[0]
  <2>1. x0.left = buf /\ m - 0 = m  BY DEF x0
  <2>2. QED  BY <1>2, <1>4, <1>12, <2>1
<1>14. ASSUME NEW i \in 1 .. m, F[i - 1] \in B[i - 1]  PROVE F[i] \in B[i]
  <2> DEFINE x == F[i - 1]
             y == ReadTurn(x)
  <2>1. i \in 0 .. m /\ i - 1 \in 0 .. m  OBVIOUS
  <2>2. x \in D /\ (x.reader.error \/ Len(x.left) <= m - (i - 1))  BY <1>14, <2>1
  <2>3. F[i] = y  BY <1>12
  <2> HIDE DEF x
  <2>4. y \in D /\ (y.reader.error \/ Len(y.left) = 0 \/ Len(y.left) < Len(x.left))  BY <1>5, <2>2
  <2>5. x.reader.error => y = x  BY DEF ReadTurn
  <2>6. Len(x.left) \in Nat /\ Len(y.left) \in Nat
    <3>1. x.left \in Seq(Nat) /\ y.left \in Seq(Nat)  BY <2>2, <2>4 DEF D, Loops
    <3>2. QED  BY <3>1, LenProperties
  <2> HIDE DEF y
  <2>7. y.reader.error \/ Len(y.left) <= m - i
    <3>1. CASE x.reader.error  BY <2>5, <3>1
    <3>2. CASE ~x.reader.error
      <4>1. Len(x.left) <= m - (i - 1)  BY <2>2, <3>2
      <4>2. CASE Len(y.left) = 0  BY <4>2
      <4>3. CASE Len(y.left) < Len(x.left)  BY <2>6, <4>1, <4>3
      <4>4. QED  BY <2>4, <4>2, <4>3
    <3>3. QED  BY <3>1, <3>2
  <2>8. QED  BY <2>1, <2>3, <2>4, <2>7
<1>15. F[m] \in B[m]
  <2> HIDE DEF B
  <2>1. QED  BY <1>13, <1>14, LoopKeeps
<1> DEFINE x == F[m]
<1>16. x \in D /\ (x.reader.error \/ Len(x.left) <= 0)
  <2>1. m \in 0 .. m /\ m - m = 0  OBVIOUS
  <2>2. QED  BY <1>15, <2>1
<1> HIDE DEF x
<1>17. x \in Loops /\ Sound(h, x, e) /\ x.reader \in Readers  BY <1>16 DEF D, Loops
<1>18. Took(h, x.reader, e)
  <2>1. CASE x.reader.error  BY <1>17, <2>1 DEF Took, Sound
  <2>2. CASE ~x.reader.error
    <3>1. PICK q \in 0 .. e : x.left = Segment(q, e - q) /\ \E l : RdAt(h, x.reader, q, l)
      BY <1>17, <2>2 DEF Sound
    <3>2. q \in Nat /\ e - q \in Nat  BY <1>1
    <3>3. Len(x.left) = e - q  BY <3>1, <3>2, SegmentFacts
    <3>4. q = e  BY <1>1, <1>16, <2>2, <3>2, <3>3
    <3>5. QED  BY <1>17, <2>2, <3>1, <3>4 DEF Took
  <2>3. QED  BY <2>1, <2>2
<1>19. QED  BY <1>11, <1>18 DEF x, e

-----------------------------------------------------------------------------
RdInv ==
    /\ StreamOK /\ handled \in Seq(Seq(Nat)) /\ pos \in Nat /\ pos <= EndOf[Len(stream)]
    /\ Took(handled, rd, pos)

\* No step moves the ends of the packets.
LEMMA EndStays ==
  ASSUME stream' = stream
  PROVE  EndOf' = EndOf
BY DEF EndOf

\* What is said of the stream stays true of it.
LEMMA RdInvNext ==
  ASSUME StreamOK, stream' = stream, handled' \in Seq(Seq(Nat)), pos' \in Nat, pos' <= EndOf[Len(stream)],
         Took(handled', rd', pos')
  PROVE  RdInv'
<1>1. EndOf' = EndOf  BY EndStays
<1>2. StreamOK'  BY DEF StreamOK
<1>3. (pos <= EndOf[Len(stream)])'  BY <1>1
<1>4. \A k : Body(k)' = Body(k)  BY <1>1 DEF Body
<1>5. \A k : Upto(k)' = Upto(k)  BY DEF Upto
<1>6. Took(handled, rd, pos)'
  BY <1>1, <1>4, <1>5 DEF Took, RdFailed, RdAt, Passed, InLength, InBody, AreThose
<1>7. QED  BY <1>2, <1>3, <1>6 DEF RdInv

\* A new PacketReader is before the first packet.
LEMMA RdInitGood ==
  ASSUME RdInit
  PROVE  RdInv
<1>1. PICK n \in 1 .. MaxFrames : stream \in [1 .. n -> Lengths]  BY DEF RdInit
<1>2. stream \in Seq(Nat)
  <2>1. n \in Nat  BY <1>1, RdAssumption
  <2>2. stream \in [1 .. n -> Nat]  BY <1>1, RdAssumption
  <2>3. QED  BY <2>1, <2>2, SeqDef
<1>3. StreamOK  BY <1>2 DEF StreamOK
<1>4. pos = 0 /\ handled = <<>> /\ rd = [error |-> FALSE, lenReceived |-> -1, len |-> <<>>, queue |-> <<>>]
  BY DEF RdInit
<1>5. /\ rd.error = FALSE /\ rd.lenReceived = -1 /\ rd.queue = <<>> /\ rd.len = <<>>  BY <1>4
<1>6. rd \in Readers
  <2>1. <<>> \in Seq(Nat) /\ <<>> \in Seq(Incoming)  BY EmptySeq
  <2>2. QED  BY <1>4, <2>1 DEF Readers
<1>7. Len(<<>>) = 0  BY EmptySeq
<1>8. ~Partial(rd) /\ Complete(rd) = 0  BY <1>5, <1>7 DEF Partial, Complete
<1>9. Have(rd) = 0  BY <1>5 DEF Have
<1>10. 0 \in 0 .. Len(stream) /\ EndOf[0] = 0 /\ Len(stream) \in 0 .. Len(stream) /\ EndOf[Len(stream)] \in Nat
  <2>1. Len(stream) \in Nat /\ EndOf \in [0 .. Len(stream) -> Nat] /\ EndOf[0] = 0  BY <1>3, EndFacts
  <2>2. Len(stream) \in 0 .. Len(stream) /\ 0 \in 0 .. Len(stream)  BY <2>1
  <2>3. QED  BY <2>1, <2>2
<1>11. InLength(rd, 0, 0)  BY <1>8, <1>9, <1>10 DEF InLength
<1>12. Given(<<>>, rd) = <<>>
  <2>1. Datas(rd) \in Seq(Seq(Nat)) /\ Len(Datas(rd)) = 0  BY <1>6, <1>8, DatasFacts
  <2>2. Datas(rd) = <<>>  BY <2>1, EmptySeq
  <2>3. <<>> \in Seq(Nat)  BY EmptySeq
  <2>4. QED  BY <2>2, <2>3, ConcatEmptySeq DEF Given
<1>13. AreThose(<<>>, Upto(0))
  <2>1. Upto(0) = {}  BY DEF Upto
  <2>2. DOMAIN <<>> = {}  OBVIOUS
  <2>3. QED  BY <2>1, <2>2 DEF AreThose
<1>14. \A j \in 1 .. 0 : stream[j] <= MaxPacket  OBVIOUS
<1>15. RdAt(<<>>, rd, 0, 0)  BY <1>5, <1>6, <1>10, <1>11, <1>12, <1>13, <1>14 DEF RdAt, Passed
<1>16. Took(handled, rd, pos)  BY <1>4, <1>5, <1>6, <1>15 DEF Took
<1>17. handled \in Seq(Seq(Nat))  BY <1>4, EmptySeq
<1>18. QED  BY <1>3, <1>4, <1>10, <1>16, <1>17 DEF RdInv

\* onDataReady keeps the invariant, whatever the segment.
LEMMA OnDataReadyKeeps ==
  ASSUME RdInv, NEW n \in Nat \ {0}, OnDataReady(n)
  PROVE  RdInv'
<1> DEFINE h == handled
           T == EndOf[Len(stream)]
           r == IF Partial(rd) THEN ReadPacket(rd, Segment(pos, n)) ELSE [reader |-> rd, taken |-> 0]
           t == r.taken
           Q == r.reader
<1>1. StreamOK /\ h \in Seq(Seq(Nat)) /\ pos \in Nat /\ Took(h, rd, pos)  BY DEF RdInv
<1>2. /\ pos + n <= T /\ pos' = pos + n /\ stream' = stream /\ handled' = h
      /\ rd' = IF rd.error THEN rd ELSE Consume(Q, SubSeq(Segment(pos, n), t + 1, n))
  BY DEF OnDataReady
<1>3. T \in Nat
  <2>1. Len(stream) \in Nat /\ EndOf \in [0 .. Len(stream) -> Nat]  BY <1>1, EndFacts
  <2>2. Len(stream) \in 0 .. Len(stream)  BY <2>1
  <2>3. QED  BY <2>1, <2>2
<1>4. pos + n \in Nat  BY <1>1
<1>5. rd \in Readers /\ rd.error \in BOOLEAN  BY <1>1 DEF Took, Readers
<1>6. CASE rd.error
  <2>1. RdFailed(h, rd, pos)  BY <1>1, <1>6 DEF Took
  <2>2. PICK k \in 1 .. Len(stream) : Passed(h, rd, k - 1) /\ stream[k] > MaxPacket /\ EndOf[k - 1] + 4 <= pos
    BY <2>1 DEF RdFailed
  <2>3. EndOf[k - 1] \in Nat  BY <1>1, BodyFacts
  <2>4. EndOf[k - 1] + 4 <= pos + n  BY <1>1, <2>2, <2>3
  <2>5. RdFailed(h, rd, pos + n)
    <3>1. ~Partial(rd)  BY <2>1 DEF RdFailed
    <3>2. QED  BY <1>6, <2>2, <2>4, <3>1 DEF RdFailed
  <2>6. Took(h, rd, pos + n)  BY <1>5, <1>6, <2>5 DEF Took
  <2>7. rd' = rd  BY <1>2, <1>6
  <2>8. QED  BY <1>1, <1>2, <1>4, <2>6, <2>7, RdInvNext
<1>7. CASE ~rd.error
  <2>1. PICK k : RdAt(h, rd, pos, k)  BY <1>1, <1>7 DEF Took
  <2>2. t \in 0 .. n /\ (t < n => ~Partial(Q)) /\ \E l : RdAt(h, Q, pos + t, l)
    <3>1. CASE Partial(rd)
      <4>1. InBody(rd, pos, k)  BY <2>1, <3>1 DEF RdAt, InLength
      <4>2. r = ReadPacket(rd, Segment(pos, n))  BY <3>1
      <4> HIDE DEF r
      <4>3. /\ r.taken \in 1 .. n
            /\ \E l : RdAt(h, r.reader, pos + r.taken, l)
            /\ r.taken < n => ~Partial(r.reader)
        BY <1>1, <2>1, <4>1, <4>2, ReadPacketAt
      <4>4. t \in 0 .. n  BY <4>3
      <4>5. QED  BY <4>3, <4>4
    <3>2. CASE ~Partial(rd)
      <4>1. r = [reader |-> rd, taken |-> 0]  BY <3>2
      <4> HIDE DEF r
      <4>2. t = 0 /\ Q = rd /\ pos + t = pos  BY <1>1, <4>1
      <4> HIDE DEF t, Q
      <4>3. QED  BY <2>1, <3>2, <4>2
    <3>3. QED  BY <3>1, <3>2
  <2> HIDE DEF r, t, Q
  <2>3. PICK l : RdAt(h, Q, pos + t, l)  BY <2>2
  <2>4. SubSeq(Segment(pos, n), t + 1, n) = Segment(pos + t, n - t)  BY <1>1, <2>2, SegmentCut
  <2>5. pos + t \in Nat /\ n - t \in Nat /\ pos + t + (n - t) = pos + n /\ (n - t > 0 => t < n)  BY <1>1, <2>2
  <2>6. Took(h, Consume(Q, Segment(pos + t, n - t)), pos + t + (n - t))
    <3>1. pos + t + (n - t) <= EndOf[Len(stream)]  BY <1>2, <2>5
    <3>2. n - t > 0 => ~Partial(Q)  BY <2>2, <2>5
    <3> DEFINE p == pos + t
               m == n - t
    <3>3. p \in Nat /\ m \in Nat /\ RdAt(h, Q, p, l) /\ (m > 0 => ~Partial(Q)) /\ p + m <= EndOf[Len(stream)]
      BY <2>3, <2>5, <3>1, <3>2
    <3> HIDE DEF p, m, h
    <3>4. Took(h, Consume(Q, Segment(p, m)), p + m)  BY <1>1, <3>3, ConsumeAt
    <3>5. QED  BY <3>4 DEF p, m
  <2>7. rd' = Consume(Q, Segment(pos + t, n - t))  BY <1>2, <1>7, <2>4
  <2>8. Took(handled', rd', pos')  BY <1>2, <2>5, <2>6, <2>7
  <2>9. QED  BY <1>1, <1>2, <1>4, <2>8, RdInvNext
<1>8. QED  BY <1>5, <1>6, <1>7

\* update moves a packet from the queue to the handled ones, and the place stays.
LEMMA DequeueKeeps ==
  ASSUME RdInv, DequeuePacket
  PROVE  RdInv'
<1> DEFINE h == handled
           q == rd.queue
           n == Len(q)
           d == Head(q).data
           Q == [rd EXCEPT !.queue = Tail(@)]
           h2 == Append(h, d)
<1>1. StreamOK /\ h \in Seq(Seq(Nat)) /\ pos \in Nat /\ pos <= EndOf[Len(stream)] /\ Took(h, rd, pos)  BY DEF RdInv
<1>2. /\ ~rd.error /\ q # <<>> /\ Len(Head(q).data) = Head(q).size /\ handled' = h2 /\ rd' = Q
      /\ stream' = stream /\ pos' = pos
  BY DEF DequeuePacket
<1>3. PICK k : RdAt(h, rd, pos, k)  BY <1>1, <1>2 DEF Took
<1>4. rd \in Readers /\ k \in 0 .. Len(stream) /\ AreThose(Given(h, rd), Upto(k))
      /\ \A j \in 1 .. k : stream[j] <= MaxPacket
  BY <1>3 DEF RdAt, Passed
<1>5. q \in Seq(Incoming) /\ n \in Nat /\ n > 0
  <2>1. q \in Seq(Incoming)  BY <1>4, ReaderFacts
  <2>2. n \in Nat \ {0}  BY <1>2, <2>1, EmptySeq
  <2>3. QED  BY <2>1, <2>2
<1>6. Tail(q) \in Seq(Incoming) /\ Len(Tail(q)) = n - 1 /\ Head(q) = q[1]
      /\ \A i \in 1 .. n - 1 : Tail(q)[i] = q[i + 1]
  <2> HIDE DEF q
  <2>1. QED  BY <1>2, <1>5, HeadTailProperties
<1>7. Q \in Readers /\ Q.error = rd.error /\ Q.lenReceived = rd.lenReceived /\ Q.len = rd.len /\ Q.queue = Tail(q)
  <2> HIDE DEF q
  <2>1. rd.queue = q  BY DEF q
  <2>2. QED  BY <1>4, <1>6, <2>1 DEF Readers
<1> HIDE DEF Q
<1>8. d = q[1].data /\ d \in Seq(Nat) /\ Len(q[1].data) = q[1].size
  <2>1. 1 \in 1 .. Len(rd.queue)  BY <1>5
  <2>2. rd.queue[1].data \in Seq(Nat)  BY <1>4, <2>1, ReaderFacts
  <2>3. QED  BY <1>2, <1>6, <2>2
<1>9. Partial(rd) <=> Len(q[n].data) < q[n].size  BY <1>4, <1>5, ReaderFacts
<1>10. n = 1 => ~Partial(rd)
  <2>1. q[1].size \in Nat
    <3>1. 1 \in 1 .. Len(rd.queue)  BY <1>5
    <3>2. QED  BY <1>4, <3>1, ReaderFacts
  <2>2. QED  BY <1>8, <1>9, <2>1
<1>11. n > 1 => Tail(q)[n - 1] = q[n]
  <2>1. n > 1 => n - 1 \in 1 .. n - 1 /\ (n - 1) + 1 = n  BY <1>5
  <2>2. QED  BY <1>6, <2>1
<1>12. Partial(Q) <=> Partial(rd)
  <2>1. Partial(Q) <=> Len(Tail(q)) > 0 /\ Len(Tail(q)[Len(Tail(q))].data) < Tail(q)[Len(Tail(q))].size
    BY <1>7, ReaderFacts
  <2> HIDE DEF n, q
  <2>2. CASE n = 1
    <3> DEFINE l == Len(Tail(q))
    <3>1. l = n - 1  BY <1>6
    <3> HIDE DEF l
    <3>2. ~(l > 0)  BY <2>2, <3>1
    <3>3. ~(Len(Tail(q)) > 0)  BY <3>2 DEF l
    <3>4. QED  BY <1>10, <2>1, <2>2, <3>3
  <2>3. CASE n # 1
    <3>1. n > 1 /\ n - 1 > 0  BY <1>5, <2>3
    <3>2. Partial(Q) <=> Len(q[n].data) < q[n].size  BY <1>6, <1>11, <2>1, <3>1
    <3>3. QED  BY <1>9, <3>2
  <2>4. QED  BY <2>2, <2>3
<1> DEFINE c == Complete(rd)
<1>13. c \in Nat /\ c > 0 /\ c <= n /\ Complete(Q) = c - 1
  <2>1. c = IF Partial(rd) THEN n - 1 ELSE n  BY DEF Complete
  <2>2. Complete(Q) = IF Partial(rd) THEN (n - 1) - 1 ELSE n - 1  BY <1>6, <1>7, <1>12 DEF Complete
  <2> HIDE DEF c, n
  <2>3. QED  BY <1>5, <1>10, <2>1, <2>2
<1> DEFINE X == Datas(rd)
           Y == Datas(Q)
<1>14. X \in Seq(Seq(Nat)) /\ Len(X) = c /\ \A i \in 1 .. c : X[i] = q[i].data  BY <1>4, DatasFacts
<1>15. Y \in Seq(Seq(Nat)) /\ Len(Y) = c - 1 /\ \A i \in 1 .. c - 1 : Y[i] = Tail(q)[i].data
  <2>1. Y \in Seq(Seq(Nat)) /\ Len(Y) = Complete(Q) /\ \A i \in 1 .. Complete(Q) : Y[i] = Q.queue[i].data
    BY <1>7, DatasFacts
  <2> HIDE DEF Y, c
  <2>2. QED  BY <1>7, <1>13, <2>1
<1>16. X = <<d>> \o Y
  <2> HIDE DEF X, Y, c, n, q, d
  <2>1. <<d>> \in Seq(Seq(Nat)) /\ Len(<<d>>) = 1 /\ <<d>>[1] = d  BY <1>8
  <2>2. /\ <<d>> \o Y \in Seq(Seq(Nat)) /\ Len(<<d>> \o Y) = 1 + (c - 1)
        /\ \A i \in 1 .. 1 + (c - 1) : (<<d>> \o Y)[i] = IF i <= 1 THEN <<d>>[i] ELSE Y[i - 1]
    BY <1>15, <2>1, ConcatProperties
  <2>3. ASSUME NEW i \in 1 .. c  PROVE X[i] = (<<d>> \o Y)[i]
    <3>1. i \in 1 .. 1 + (c - 1)  BY <1>13
    <3>2. CASE i = 1  BY <1>8, <1>14, <2>1, <2>2, <3>1, <3>2
    <3>3. CASE i # 1
      <4>1. i - 1 \in 1 .. c - 1 /\ i - 1 \in 1 .. n - 1 /\ (i - 1) + 1 = i /\ ~(i <= 1)  BY <1>5, <1>13, <3>3
      <4>2. Y[i - 1] = Tail(q)[i - 1].data /\ Tail(q)[i - 1] = q[(i - 1) + 1]  BY <1>6, <1>15, <4>1
      <4>3. (<<d>> \o Y)[i] = Y[i - 1]  BY <2>2, <3>1, <4>1
      <4>4. X[i] = q[i].data  BY <1>14
      <4>5. QED  BY <4>1, <4>2, <4>3, <4>4
    <3>4. QED  BY <3>2, <3>3
  <2>4. Len(<<d>> \o Y) = c  BY <1>13, <2>2
  <2>5. QED  BY <1>14, <2>2, <2>3, <2>4, SeqEqual
<1>17. Given(h2, Q) = Given(h, rd) /\ h2 \in Seq(Seq(Nat))
  <2>1. <<d>> \in Seq(Seq(Nat))  BY <1>8
  <2>2. h2 = h \o <<d>>  BY <1>1, <1>8, AppendIsConcat
  <2>3. h2 \in Seq(Seq(Nat))  BY <1>1, <1>8, AppendProperties
  <2>4. (h \o <<d>>) \o Y = h \o (<<d>> \o Y)
    <3> HIDE DEF h, d, Y
    <3>1. QED  BY <1>1, <1>15, <2>1, ConcatAssociative
  <2>5. Given(h2, Q) = h2 \o Y /\ Given(h, rd) = h \o X  BY DEF Given
  <2> HIDE DEF X, Y, h, d, h2
  <2>6. QED  BY <1>16, <2>2, <2>3, <2>4, <2>5
<1>18. InLength(Q, pos, k) \/ InBody(Q, pos, k)
  <2>1. Have(Q) = Have(rd)  BY <1>7 DEF Have
  <2>2. CASE InLength(rd, pos, k)  BY <1>7, <1>12, <2>1, <2>2 DEF InLength
  <2>3. CASE InBody(rd, pos, k)
    <3>1. Partial(rd)  BY <2>3 DEF InBody
    <3>2. n > 1
      <4> HIDE DEF n
      <4>1. QED  BY <1>5, <1>10, <3>1
    <3>3. Q.queue[Len(Q.queue)] = rd.queue[Len(rd.queue)]  BY <1>6, <1>7, <1>11, <3>2
    <3>4. QED  BY <1>7, <1>12, <2>3, <3>3 DEF InBody
  <2>4. QED  BY <1>3, <2>2, <2>3 DEF RdAt
<1> HIDE DEF h2
<1>19. RdAt(h2, Q, pos, k)
  BY <1>2, <1>4, <1>7, <1>17, <1>18 DEF RdAt, Passed
<1>20. Took(h2, Q, pos)  BY <1>2, <1>7, <1>19 DEF Took
<1>21. QED  BY <1>1, <1>2, <1>17, <1>20, RdInvNext

\* The invariant says what the property asks for.
LEMMA RdInvExact ==
  ASSUME RdInv
  PROVE  FramingExact
<1> DEFINE h == handled
           L == Len(stream)
           done == {k \in DOMAIN stream : /\ stream[k] > 0 /\ EndOf[k] <= pos
                                          /\ \A j \in 1 .. k : stream[j] <= MaxPacket}
           long == \E k \in DOMAIN stream : stream[k] > MaxPacket /\ EndOf[k - 1] + 4 <= pos
<1>1. StreamOK /\ h \in Seq(Seq(Nat)) /\ pos \in Nat /\ Took(h, rd, pos)  BY DEF RdInv
<1>2. DOMAIN stream = 1 .. L /\ L \in Nat  BY <1>1, LenProperties DEF StreamOK
<1>3. /\ EndOf \in [0 .. L -> Nat]
      /\ \A k \in 1 .. L : stream[k] \in Nat /\ EndOf[k] = EndOf[k - 1] + 4 + stream[k]
      /\ \A j, k \in 0 .. L : j <= k => EndOf[j] <= EndOf[k]
  BY <1>1, EndFacts
<1>4. rd \in Readers /\ rd.error \in BOOLEAN  BY <1>1 DEF Took, Readers
<1>5. RdTypeOK  BY <1>4, ReaderFacts DEF RdTypeOK
<1>6. Given(h, rd) = handled \o [i \in 1 .. Complete(rd) |-> rd.queue[i].data]  BY DEF Given, Datas
<1>7. \A k \in 1 .. L : k \in 0 .. L /\ k - 1 \in 0 .. L  BY <1>2
<1>8. \A k \in 0 .. L : EndOf[k] \in Nat  BY <1>3
<1>9. CASE rd.error
  <2>1. PICK k \in 1 .. L : Passed(h, rd, k - 1) /\ stream[k] > MaxPacket /\ EndOf[k - 1] + 4 <= pos
    BY <1>1, <1>9 DEF Took, RdFailed
  <2>2. AreThose(Given(h, rd), Upto(k - 1)) /\ \A j \in 1 .. k - 1 : stream[j] <= MaxPacket  BY <2>1 DEF Passed
  <2>3. long  BY <1>2, <2>1
  <2>4. Upto(k - 1) = done
    <3>1. ASSUME NEW j \in Upto(k - 1)  PROVE j \in done
      <4>1. j \in 1 .. k - 1 /\ stream[j] > 0 /\ j \in 1 .. L /\ j <= k - 1  BY <1>2 DEF Upto
      <4>2. EndOf[j] <= EndOf[k - 1]  BY <1>3, <1>7, <4>1
      <4>3. EndOf[j] <= pos
        <5> DEFINE x == EndOf[j]
                   w == EndOf[k - 1]
        <5>1. x \in Nat /\ w \in Nat  BY <1>7, <1>8, <4>1
        <5>2. x <= w /\ w + 4 <= pos  BY <2>1, <4>2
        <5> HIDE DEF x, w
        <5>3. x <= pos  BY <1>1, <5>1, <5>2
        <5>4. QED  BY <5>3 DEF x
      <4>4. \A i \in 1 .. j : i \in 1 .. k - 1  BY <4>1
      <4>5. QED  BY <1>2, <2>2, <4>1, <4>3, <4>4
    <3>2. ASSUME NEW j \in done  PROVE j \in Upto(k - 1)
      <4>1. j \in 1 .. L /\ stream[j] > 0 /\ \A i \in 1 .. j : stream[i] <= MaxPacket  BY <1>2
      <4>2. k \notin 1 .. j
        <5>1. stream[k] \in Nat  BY <1>3
        <5>2. QED  BY <2>1, <4>1, <5>1, RdAssumption
      <4>3. j \in 1 .. k - 1  BY <1>2, <4>1, <4>2
      <4>4. QED  BY <4>1, <4>3 DEF Upto
    <3>3. QED  BY <3>1, <3>2
  <2> HIDE DEF done, long
  <2>5. AreThose(handled \o [i \in 1 .. Complete(rd) |-> rd.queue[i].data], done)  BY <1>6, <2>2, <2>4
  <2>6. QED  BY <1>5, <1>9, <2>3, <2>5 DEF FramingExact, done, long
<1>10. CASE ~rd.error
  <2>1. PICK k : RdAt(h, rd, pos, k)  BY <1>1, <1>10 DEF Took
  <2>2. k \in 0 .. L /\ AreThose(Given(h, rd), Upto(k)) /\ \A j \in 1 .. k : stream[j] <= MaxPacket
    BY <2>1 DEF RdAt, Passed
  <2>3. EndOf[k] <= pos /\ EndOf[k] \in Nat
        /\ (k < L => pos < EndOf[k + 1] /\ (stream[k + 1] > MaxPacket => pos < EndOf[k] + 4))
    <3>1. EndOf[k] \in Nat /\ k \in Nat /\ (k < L => k + 1 \in 1 .. L /\ (k + 1) - 1 = k)  BY <1>2, <1>8, <2>2
    <3>2. k < L => stream[k + 1] \in Nat /\ EndOf[k + 1] = EndOf[k] + 4 + stream[k + 1] /\ EndOf[k + 1] \in Nat
      BY <1>3, <1>7, <1>8, <3>1
    <3>3. CASE InLength(rd, pos, k)
      <4>1. pos = EndOf[k] + Have(rd) /\ Have(rd) \in 0 .. 3  BY <1>4, <3>3, ReaderFacts DEF InLength
      <4>2. EndOf[k] <= pos /\ pos < EndOf[k] + 4  BY <3>1, <4>1
      <4> DEFINE a == EndOf[k]
                 z == EndOf[k + 1]
                 c == stream[k + 1]
      <4>3. a \in Nat /\ a <= pos /\ pos < a + 4 /\ (k < L => c \in Nat /\ z = a + 4 + c)  BY <3>1, <3>2, <4>2
      <4> HIDE DEF a, z, c
      <4>4. a <= pos /\ a \in Nat /\ (k < L => pos < z /\ (c > MaxPacket => pos < a + 4))  BY <1>1, <4>3
      <4>5. QED  BY <4>4 DEF a, z, c
    <3>4. CASE InBody(rd, pos, k)
      <4>1. EndOf[k] + 4 <= pos /\ pos < EndOf[k + 1] /\ stream[k + 1] <= MaxPacket /\ k < L  BY <3>4 DEF InBody
      <4> DEFINE a == EndOf[k]
                 z == EndOf[k + 1]
                 c == stream[k + 1]
      <4>2. a \in Nat /\ c \in Nat /\ a + 4 <= pos /\ pos < z /\ c <= MaxPacket  BY <3>1, <3>2, <4>1
      <4> HIDE DEF a, z, c
      <4>3. a <= pos /\ a \in Nat /\ (k < L => pos < z /\ (c > MaxPacket => pos < a + 4))
        BY <1>1, <4>2, RdAssumption
      <4>4. QED  BY <4>3 DEF a, z, c
    <3>5. QED  BY <2>1, <3>3, <3>4 DEF RdAt
  <2>4. ASSUME NEW j \in 1 .. L, j > k  PROVE k < L /\ ~(EndOf[j] <= pos) /\ ~(stream[j] > MaxPacket /\ EndOf[j - 1] + 4 <= pos)
    <3>1. k < L /\ k + 1 \in 0 .. L /\ j \in 0 .. L /\ k + 1 <= j  BY <1>2, <2>2, <2>4
    <3>2. EndOf[k + 1] <= EndOf[j] /\ EndOf[k + 1] \in Nat /\ EndOf[j] \in Nat  BY <1>3, <1>8, <3>1
    <3>3. pos < EndOf[k + 1]  BY <2>3, <3>1
    <3>4. ~(EndOf[j] <= pos)  BY <1>1, <3>2, <3>3
    <3>5. CASE j = k + 1
      <4>1. EndOf[j - 1] = EndOf[k]
        <5>1. j - 1 = k  BY <2>2, <3>5
        <5>2. QED  BY <5>1
      <4>2. stream[j] > MaxPacket => pos < EndOf[j - 1] + 4  BY <2>3, <3>1, <3>5, <4>1
      <4>3. EndOf[j - 1] + 4 \in Nat  BY <2>3, <4>1
      <4>4. QED  BY <1>1, <3>1, <3>4, <4>2, <4>3
    <3>6. CASE j # k + 1
      <4>1. k + 1 <= j - 1 /\ j - 1 \in 0 .. L  BY <1>7, <2>2, <3>1, <3>6
      <4>2. EndOf[k + 1] <= EndOf[j - 1] /\ EndOf[j - 1] \in Nat  BY <1>3, <1>8, <3>1, <4>1
      <4>3. ~(EndOf[j - 1] + 4 <= pos)  BY <1>1, <3>2, <3>3, <4>2
      <4>4. QED  BY <3>1, <3>4, <4>3
    <3>7. QED  BY <3>5, <3>6
  <2>5. \A j \in 1 .. L : j > k \/ (j \in 1 .. k /\ j <= k)  BY <1>2, <2>2
  <2>6. ~long
    <3>1. ASSUME NEW j \in 1 .. L, stream[j] > MaxPacket, EndOf[j - 1] + 4 <= pos  PROVE FALSE
      <4>1. CASE j > k  BY <2>4, <3>1, <4>1
      <4>2. CASE j \in 1 .. k
        <5>1. stream[j] <= MaxPacket /\ stream[j] \in Nat  BY <1>3, <2>2, <4>2
        <5>2. QED  BY <3>1, <5>1, RdAssumption
      <4>3. QED  BY <2>5, <4>1, <4>2
    <3>2. QED  BY <1>2, <3>1
  <2>7. Upto(k) = done
    <3>1. ASSUME NEW j \in Upto(k)  PROVE j \in done
      <4>1. j \in 1 .. k /\ stream[j] > 0 /\ j \in 1 .. L /\ j <= k  BY <1>2, <2>2 DEF Upto
      <4>2. EndOf[j] <= EndOf[k] /\ EndOf[j] \in Nat  BY <1>3, <1>7, <1>8, <2>2, <4>1
      <4>3. EndOf[j] <= pos  BY <1>1, <2>3, <4>2
      <4>4. \A i \in 1 .. j : i \in 1 .. k  BY <2>2, <4>1
      <4>5. QED  BY <1>2, <2>2, <4>1, <4>3, <4>4
    <3>2. ASSUME NEW j \in done  PROVE j \in Upto(k)
      <4>1. j \in 1 .. L /\ stream[j] > 0 /\ EndOf[j] <= pos  BY <1>2
      <4>2. j \in 1 .. k  BY <2>4, <2>5, <4>1
      <4>3. QED  BY <4>1, <4>2 DEF Upto
    <3>3. QED  BY <3>1, <3>2
  <2> HIDE DEF done, long
  <2>8. AreThose(handled \o [i \in 1 .. Complete(rd) |-> rd.queue[i].data], done)  BY <1>6, <2>2, <2>7
  <2>9. QED  BY <1>5, <1>10, <2>6, <2>8 DEF FramingExact, done, long
<1>11. QED  BY <1>4, <1>9, <1>10

\* The inductive invariant of the reader.
THEOREM RdInvariant == RdSpec => []RdInv
<1>1. RdInit => RdInv  BY RdInitGood
<1>2. RdInv /\ [RdNext]_rdVars => RdInv'
  <2> SUFFICES ASSUME RdInv, [RdNext]_rdVars  PROVE RdInv'
    OBVIOUS
  <2>1. CASE DequeuePacket  BY <2>1, DequeueKeeps
  <2>2. ASSUME NEW n \in 1 .. EndOf[Len(stream)], OnDataReady(n)  PROVE RdInv'
    <3>1. StreamOK  BY DEF RdInv
    <3>2. EndOf[Len(stream)] \in Nat
      <4>1. Len(stream) \in Nat /\ EndOf \in [0 .. Len(stream) -> Nat]  BY <3>1, EndFacts
      <4>2. Len(stream) \in 0 .. Len(stream)  BY <4>1
      <4>3. QED  BY <4>1, <4>2
    <3>3. n \in Nat \ {0}  BY <3>2
    <3>4. QED  BY <2>2, <3>3, OnDataReadyKeeps
  <2>3. CASE UNCHANGED rdVars
    <3>1. stream' = stream /\ pos' = pos /\ rd' = rd /\ handled' = handled  BY <2>3 DEF rdVars
    <3>2. QED  BY <3>1, RdInvNext DEF RdInv
  <2>4. QED  BY <2>1, <2>2, <2>3 DEF RdNext
<1>3. QED  BY <1>1, <1>2, PTL DEF RdSpec

\* FramingExact, however onDataReady is called and update is scheduled.
THEOREM PacketsStayExact == RdSpec => []FramingExact
BY RdInvariant, RdInvExact, PTL
=============================================================================
