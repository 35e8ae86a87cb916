---------------------------- MODULE StreamProofs ----------------------------
(***************************************************************************)
(* Proofs about what lies between the socket and the bytes of the peer:    *)
(* the encrypted handshake, for keys, hashes, pads and handshakes of any   *)
(* length and a stream cut anywhere, and the way through a SOCKS proxy,    *)
(* for any hosts and any length of a name.                                 *)
(***************************************************************************)
EXTENDS PeerStream, ListFacts

-----------------------------------------------------------------------------
(* The encrypted handshake. Its handlers work on a record of the whole     *)
(* state, so the invariant MsInv is a predicate of such a record: where    *)
(* the authentication is says what its buffer and its socket hold and how  *)
(* far the key stream is.                                                  *)

MsBytes == [at : Nat, key : Nat, ok : BOOLEAN]
MsClient == {"sentYa", "gotYb", "foundVc", "waitPadD", "normal", "ok", "failed"}
MsServer == {"waitYa", "waitReq1", "foundReq1", "foundHash", "waitPadC", "waitIa", "normal",
             "ok", "failed"}

\* Bytes as they are in the stream behind place f, and as they were meant.
Raw(b, f) == b \in Seq(MsBytes) /\ \A i \in 1 .. Len(b) : b[i] = Byte(f + i)
Meant(b, f) == b \in Seq(MsBytes) /\ \A i \in 1 .. Len(b) : b[i].ok /\ b[i].at = f + i

Start == Clear + Crypto          \* where the handshake starts

\* The two sides, the pads and how much arrived.
MsPlace == /\ side \in {"client", "server"}
           /\ pads \in [first : Nat, second : Nat, rc4 : BOOLEAN]
           /\ side = "server" => pads.rc4
           /\ arrived \in Nat /\ arrived <= Total

\* The values of an authentication, field by field.
MsStates == [s : MsClient \cup MsServer, off : Nat, pad : Nat]
MsSockets == [enc : BOOLEAN, back : Seq(MsBytes)]
MsWorlds == [read : Nat, st : MsStates, buf : Seq(MsBytes), rc : Nat, sk : MsSockets,
             hs : Seq(MsBytes), out : Seq(MsBytes)]
MsRec(S) ==
  /\ S \in MsWorlds
  /\ S.read <= arrived /\ Len(S.hs) <= HsLen
  /\ \A i \in 1 .. Len(S.buf) : S.buf[i].at \in 1 .. Total

\* Before the handshake everything read is in the buffer.
Early(S) == /\ S.hs = <<>> /\ S.out = <<>> /\ S.sk.back = <<>> /\ S.sk.enc = FALSE
            /\ Len(S.buf) = S.read
Unopened(S) == Early(S) /\ S.rc = 0 /\ Raw(S.buf, 0)

\* The side that accepts decrypts a part of its buffer in place.
Opened(S) == /\ Early(S) /\ Clear + SelLen <= Len(S.buf)
             /\ \A i \in 1 .. Len(S.buf) :
                   /\ i > Clear + SelLen => S.buf[i] = Byte(i)
                   /\ i > Clear /\ i <= Clear + SelLen => S.buf[i].ok

\* The handshake is being read, in its place; or it is being read too early.
Aligned(S) == /\ S.out = <<>> /\ S.sk.enc = pads.rc4 /\ Len(S.hs) < HsLen
              /\ Meant(S.hs, Start) /\ Raw(S.sk.back, Start + Len(S.hs))
              /\ Start + Len(S.hs) + Len(S.sk.back) = S.read
              /\ S.sk.enc => S.rc = Crypto + Len(S.hs)
Lost(S) == S.hs = <<>> /\ S.out = <<>> /\ S.sk.back = <<>> /\ S.read < Start

\* The packets are passed on.
Passed(S) == /\ S.sk.enc = pads.rc4 /\ Meant(S.out, Start + HsLen)
             /\ Start + HsLen + Len(S.out) = S.read
             /\ S.sk.enc => S.rc = S.read - Clear

ClientSound(S) ==
  /\ S.st.s \in MsClient
  /\ S.st.s \in {"sentYa", "gotYb"} => Unopened(S) /\ S.st.pad = 0
  /\ S.st.s = "foundVc" => Unopened(S) /\ S.st.pad = 0 /\ S.st.off = Clear
  /\ S.st.s = "waitPadD" => /\ Early(S) /\ Raw(S.buf, 0) /\ S.rc = SelLen /\ S.st.off = Clear
                            /\ S.st.pad = pads.second /\ S.st.pad > 0 /\ S.read <= Start
  /\ S.st.s = "normal" => Aligned(S) \/ Lost(S)

ServerSound(S) ==
  /\ S.st.s \in MsServer
  /\ S.st.s \in {"waitYa", "waitReq1"} => Unopened(S)
  /\ S.st.s \in {"foundReq1", "foundHash", "waitPadC", "waitIa"} => S.st.off = YLen + pads.first
  /\ S.st.s = "foundReq1" => Unopened(S)
  /\ S.st.s = "foundHash" => Unopened(S) \/ Opened(S)
  /\ S.st.s = "waitPadC" => Opened(S) /\ (S.rc = SelLen \/ S.rc >= Crypto)
  /\ S.st.s = "waitIa" => Opened(S) /\ S.rc >= Crypto
  /\ S.st.s = "normal" => Aligned(S)

MsSound(S) == /\ MsRec(S)
              /\ side = "client" => ClientSound(S)
              /\ side = "server" => ServerSound(S)
              /\ S.st.s = "ok" => Passed(S)

MsInv == MsPlace /\ MsSound(MsWorld)

\* The places in the stream.
LEMMA PlaceFacts ==
  ASSUME MsPlace
  PROVE  /\ Clear \in Nat /\ Crypto \in Nat /\ Start \in Nat /\ Total \in Nat
         /\ Crypto = Start - Clear /\ Start = Clear + Crypto /\ Total = Start + HsLen + MoreLen
         /\ SelLen + pads.second <= Crypto /\ SelLen \in Nat /\ SelLen >= 1
         /\ HsLen \in Nat /\ HsMin \in Nat /\ 1 <= HsMin /\ HsMin <= HsLen /\ MoreLen \in Nat
         /\ YLen \in Nat /\ HashLen \in Nat /\ pads.first \in Nat /\ pads.second \in Nat
<1>1. /\ YLen \in Nat /\ HashLen \in Nat /\ SelLen \in Nat /\ HsLen \in Nat /\ HsMin \in Nat
      /\ MoreLen \in Nat /\ SelLen >= 1 /\ 1 <= HsMin /\ HsMin <= HsLen
  BY MsAssumption
<1>2. pads.first \in Nat /\ pads.second \in Nat  BY DEF MsPlace
<1>3. CASE side = "client"  BY <1>1, <1>2, <1>3 DEF Clear, Crypto, Start, Total
<1>4. CASE side = "server"  BY <1>1, <1>2, <1>4 DEF Clear, Crypto, Start, Total
<1>5. QED  BY <1>3, <1>4 DEF MsPlace

\* A byte of the stream.
LEMMA ByteFacts ==
  ASSUME MsPlace, NEW i \in Nat
  PROVE  /\ Byte(i) \in MsBytes /\ Byte(i).at = i
         /\ Encrypted(i) => Byte(i).key = i - Clear /\ ~Byte(i).ok
         /\ ~Encrypted(i) => Byte(i).ok
<1>1. Clear \in Nat  BY PlaceFacts
<1>2. CASE Encrypted(i)
  <2>1. i - Clear \in Nat  BY <1>1, <1>2 DEF Encrypted
  <2>2. Byte(i) = [at |-> i, key |-> i - Clear, ok |-> FALSE]  BY <1>2 DEF Byte
  <2>3. QED  BY <1>2, <2>1, <2>2 DEF MsBytes
<1>3. CASE ~Encrypted(i)
  <2>1. Byte(i) = [at |-> i, key |-> 0, ok |-> TRUE]  BY <1>3 DEF Byte
  <2>2. QED  BY <1>3, <2>1 DEF MsBytes
<1>4. QED  BY <1>2, <1>3

\* What is read from the socket is the stream from where it was read.
LEMMA SliceFacts ==
  ASSUME MsPlace, NEW f \in Nat, NEW n \in Nat
  PROVE  Raw(Slice(f, n), f) /\ Len(Slice(f, n)) = n /\ Slice(f, n) \in Seq(MsBytes)
<1>1. \A i \in 1 .. n : f + i \in Nat  OBVIOUS
<1>2. \A i \in 1 .. n : Byte(f + i) \in MsBytes  BY <1>1, ByteFacts
<1>3. Slice(f, n) \in Seq(MsBytes) /\ Len(Slice(f, n)) = n /\ \A i \in 1 .. n : Slice(f, n)[i] = Byte(f + i)
  BY <1>2 DEF Slice
<1>4. QED  BY <1>3 DEF Raw

\* Two parts of the stream that follow each other, and one cut in two.
LEMMA RawJoin ==
  ASSUME NEW f \in Nat, NEW a, NEW b, Raw(a, f), Raw(b, f + Len(a))
  PROVE  Raw(a \o b, f) /\ Len(a \o b) = Len(a) + Len(b)
<1>1. a \in Seq(MsBytes) /\ b \in Seq(MsBytes)  BY DEF Raw
<1> DEFINE r == a \o b
<1>2. /\ r \in Seq(MsBytes) /\ Len(a) \in Nat /\ Len(b) \in Nat /\ Len(r) = Len(a) + Len(b)
      /\ \A i \in 1 .. Len(a) : r[i] = a[i]
      /\ \A i \in 1 .. Len(b) : r[Len(a) + i] = b[i]
  BY <1>1, JoinFacts
<1> HIDE DEF r
<1>3. ASSUME NEW i \in 1 .. Len(r) PROVE r[i] = Byte(f + i)
  <2>1. CASE i <= Len(a)
    <3>1. i \in 1 .. Len(a)  BY <1>2, <2>1
    <3>2. QED  BY <1>2, <3>1 DEF Raw
  <2>2. CASE i > Len(a)
    <3> DEFINE j == i - Len(a)
    <3>1. j \in 1 .. Len(b) /\ Len(a) + j = i /\ (f + Len(a)) + j = f + i  BY <1>2, <2>2
    <3> HIDE DEF j
    <3>2. r[Len(a) + j] = b[j] /\ b[j] = Byte((f + Len(a)) + j)  BY <1>2, <3>1 DEF Raw
    <3>3. QED  BY <3>1, <3>2
  <2>3. QED  BY <1>2, <2>1, <2>2
<1>4. QED  BY <1>2, <1>3 DEF Raw, r

LEMMA RawCut ==
  ASSUME NEW f \in Nat, NEW s, Raw(s, f), NEW n \in 0 .. Len(s)
  PROVE  /\ Raw(SubSeq(s, 1, n), f) /\ Len(SubSeq(s, 1, n)) = n
         /\ Raw(SubSeq(s, n + 1, Len(s)), f + n) /\ Len(SubSeq(s, n + 1, Len(s))) = Len(s) - n
<1>1. s \in Seq(MsBytes) /\ Len(s) \in Nat /\ n \in Nat /\ n <= Len(s)
  <2>1. s \in Seq(MsBytes)  BY DEF Raw
  <2>2. QED  BY <2>1, LenProperties
<1> DEFINE a == SubSeq(s, 1, n)
           b == SubSeq(s, n + 1, Len(s))
<1>2. /\ a \in Seq(MsBytes) /\ Len(a) = n /\ \A i \in 1 .. n : a[i] = s[i]
      /\ b \in Seq(MsBytes) /\ Len(b) = Len(s) - n
  BY <1>1, CutFacts
<1>3. \A i \in 1 .. Len(s) - n : b[i] = s[n + i]  BY <1>1, TailFacts
<1> HIDE DEF a, b
<1>4. ASSUME NEW i \in 1 .. Len(a) PROVE a[i] = Byte(f + i)
  <2>1. i \in 1 .. n /\ i \in 1 .. Len(s)  BY <1>1, <1>2
  <2>2. QED  BY <1>2, <2>1 DEF Raw
<1>5. ASSUME NEW i \in 1 .. Len(b) PROVE b[i] = Byte((f + n) + i)
  <2> DEFINE j == n + i
  <2>1. i \in 1 .. Len(s) - n /\ j \in 1 .. Len(s) /\ f + j = (f + n) + i  BY <1>1, <1>2
  <2>2. b[i] = s[j]  BY <1>3, <2>1
  <2> HIDE DEF j
  <2>3. s[j] = Byte(f + j)  BY <2>1 DEF Raw
  <2>4. QED  BY <2>1, <2>2, <2>3
<1>6. QED  BY <1>2, <1>4, <1>5 DEF Raw, a, b

\* Two parts of the message that follow each other.
LEMMA MeantJoin ==
  ASSUME NEW f \in Nat, NEW a, NEW b, Meant(a, f), Meant(b, f + Len(a))
  PROVE  Meant(a \o b, f) /\ Len(a \o b) = Len(a) + Len(b)
<1>1. a \in Seq(MsBytes) /\ b \in Seq(MsBytes)  BY DEF Meant
<1> DEFINE r == a \o b
<1>2. /\ r \in Seq(MsBytes) /\ Len(a) \in Nat /\ Len(b) \in Nat /\ Len(r) = Len(a) + Len(b)
      /\ \A i \in 1 .. Len(a) : r[i] = a[i]
      /\ \A i \in 1 .. Len(b) : r[Len(a) + i] = b[i]
  BY <1>1, JoinFacts
<1> HIDE DEF r
<1>3. ASSUME NEW i \in 1 .. Len(r) PROVE r[i].ok /\ r[i].at = f + i
  <2>1. CASE i <= Len(a)
    <3>1. i \in 1 .. Len(a)  BY <1>2, <2>1
    <3>2. QED  BY <1>2, <3>1 DEF Meant
  <2>2. CASE i > Len(a)
    <3> DEFINE j == i - Len(a)
    <3>1. j \in 1 .. Len(b) /\ Len(a) + j = i /\ (f + Len(a)) + j = f + i  BY <1>2, <2>2
    <3> HIDE DEF j
    <3>2. r[Len(a) + j] = b[j] /\ b[j].ok /\ b[j].at = (f + Len(a)) + j  BY <1>2, <3>1 DEF Meant
    <3>3. QED  BY <3>1, <3>2
  <2>3. QED  BY <1>2, <2>1, <2>2
<1>4. QED  BY <1>2, <1>3 DEF Meant, r

\* What decrypting does to each byte.
LEMMA DecryptFacts ==
  ASSUME NEW b \in Seq(MsBytes), NEW c \in Nat
  PROVE  /\ Decrypt(b, c) \in Seq(MsBytes) /\ Len(Decrypt(b, c)) = Len(b)
         /\ \A i \in 1 .. Len(b) : Decrypt(b, c)[i].at = b[i].at
         /\ \A i \in 1 .. Len(b) : ~b[i].ok /\ b[i].key = c + i => Decrypt(b, c)[i].ok
         /\ \A i \in 1 .. Len(b) : b[i].ok \/ b[i].key # c + i => ~Decrypt(b, c)[i].ok
<1> DEFINE d == Decrypt(b, c)
<1>1. Len(b) \in Nat /\ DOMAIN b = 1 .. Len(b) /\ \A i \in 1 .. Len(b) : b[i] \in MsBytes
  BY LenProperties, ElementOfSeq
<1>2. d = [i \in 1 .. Len(b) |-> [b[i] EXCEPT !.ok = ~b[i].ok /\ b[i].key = c + i]]
  BY <1>1 DEF Decrypt
<1> HIDE DEF d
<1>3. ASSUME NEW i \in 1 .. Len(b)
      PROVE  /\ d[i] \in MsBytes /\ d[i].at = b[i].at
             /\ ~b[i].ok /\ b[i].key = c + i => d[i].ok
             /\ b[i].ok \/ b[i].key # c + i => ~d[i].ok
  <2>1. d[i] = [b[i] EXCEPT !.ok = ~b[i].ok /\ b[i].key = c + i] /\ b[i] \in MsBytes  BY <1>1, <1>2
  <2>2. QED  BY <2>1 DEF MsBytes
<1>4. DOMAIN d = 1 .. Len(b)  BY <1>2
<1>5. d \in Seq(MsBytes) /\ Len(d) = Len(b)
  <2>1. d = [i \in 1 .. Len(b) |-> d[i]]  BY <1>2
  <2>2. QED  BY <1>1, <1>3, <2>1
<1>6. QED  BY <1>3, <1>5 DEF d

\* Bytes decrypted at their own place are readable.
LEMMA DecryptRaw ==
  ASSUME MsPlace, NEW f \in Nat, NEW b, Raw(b, f), NEW c \in Nat, f = Clear + c,
         pads.rc4 \/ f + Len(b) <= Start
  PROVE  Meant(Decrypt(b, c), f) /\ Len(Decrypt(b, c)) = Len(b)
<1> DEFINE d == Decrypt(b, c)
<1>1. b \in Seq(MsBytes)  BY DEF Raw
<1>2. /\ d \in Seq(MsBytes) /\ Len(d) = Len(b)
      /\ \A i \in 1 .. Len(b) : d[i].at = b[i].at
      /\ \A i \in 1 .. Len(b) : ~b[i].ok /\ b[i].key = c + i => d[i].ok
  BY <1>1, DecryptFacts
<1> HIDE DEF d
<1>3. Len(b) \in Nat /\ Clear \in Nat /\ Start \in Nat  BY <1>1, PlaceFacts, LenProperties
<1>4. ASSUME NEW i \in 1 .. Len(b) PROVE d[i].ok /\ d[i].at = f + i
  <2>1. b[i] = Byte(f + i)  BY DEF Raw
  <2> DEFINE j == f + i
  <2>2. j \in Nat /\ j > Clear /\ (pads.rc4 \/ j <= Start) /\ j - Clear = c + i /\ j = f + i
    <3>1. i \in Nat /\ i >= 1 /\ i <= Len(b)  BY <1>3
    <3>2. j \in Nat /\ j > Clear /\ j - Clear = c + i  BY <1>3, <3>1
    <3>3. CASE pads.rc4  BY <3>2, <3>3
    <3>4. CASE f + Len(b) <= Start  BY <1>3, <3>1, <3>2, <3>4
    <3>5. QED  BY <3>3, <3>4
  <2>3. Encrypted(j)  BY <2>2 DEF Encrypted, Start
  <2>4. b[i] = Byte(j)  BY <2>1
  <2> HIDE DEF j
  <2>5. Byte(j).at = j /\ Byte(j).key = j - Clear /\ ~Byte(j).ok  BY <2>2, <2>3, ByteFacts
  <2>6. ~b[i].ok /\ b[i].key = c + i /\ b[i].at = f + i  BY <2>2, <2>4, <2>5
  <2>7. QED  BY <1>2, <2>6
<1>5. QED  BY <1>2, <1>4 DEF Meant, d

\* Without encryption the bytes behind the pads are readable as they are.
LEMMA PlainRaw ==
  ASSUME MsPlace, NEW f \in Nat, NEW b, Raw(b, f), f >= Start, ~pads.rc4
  PROVE  Meant(b, f)
<1>1. b \in Seq(MsBytes)  BY DEF Raw
<1>2. Len(b) \in Nat /\ Start \in Nat  BY <1>1, PlaceFacts, LenProperties
<1>3. ASSUME NEW i \in 1 .. Len(b) PROVE b[i].ok /\ b[i].at = f + i
  <2> DEFINE j == f + i
  <2>1. b[i] = Byte(j)  BY DEF Raw
  <2>2. j \in Nat /\ j > Start /\ j = f + i  BY <1>2
  <2> HIDE DEF j
  <2>3. ~(j <= Start)  BY <1>2, <2>2
  <2>4. ~Encrypted(j)  BY <2>3 DEF Encrypted, Start
  <2>5. Byte(j).ok /\ Byte(j).at = j  BY <2>2, <2>4, ByteFacts
  <2>6. QED  BY <2>1, <2>2, <2>5
<1>4. QED  BY <1>1, <1>3 DEF Meant

\* A first byte decrypted out of its place is junk.
LEMMA DecryptLost ==
  ASSUME MsPlace, NEW f \in Nat, NEW b, Raw(b, f), NEW c \in Nat, f # Clear + c, f >= Clear,
         pads.rc4, Len(b) > 0
  PROVE  ~Decrypt(b, c)[1].ok
<1>1. b \in Seq(MsBytes)  BY DEF Raw
<1>2. Len(b) \in Nat /\ Clear \in Nat  BY <1>1, PlaceFacts, LenProperties
<1>3. 1 \in 1 .. Len(b)  BY <1>2
<1> DEFINE j == f + 1
<1>4. b[1] = Byte(j)  BY <1>3 DEF Raw
<1>5. j \in Nat /\ j > Clear /\ j - Clear # c + 1  BY <1>2
<1> HIDE DEF j
<1>6. Encrypted(j)  BY <1>5 DEF Encrypted
<1>7. Byte(j).key = j - Clear  BY <1>5, <1>6, ByteFacts
<1>8. b[1].key # c + 1  BY <1>4, <1>5, <1>7
<1>9. QED  BY <1>1, <1>3, <1>8, DecryptFacts

\* What handshakeReceived compares.
LEMMA RightIsMeant ==
  ASSUME NEW b \in Seq(MsBytes)
  PROVE  Right(b) <=> Meant(b, Start)
<1>1. DOMAIN b = 1 .. Len(b)  BY LenProperties
<1>2. QED  BY <1>1 DEF Right, Meant, Start

\* One wrong byte at the front of what is read makes the handshake wrong.
LEMMA WrongByte ==
  ASSUME MsPlace, NEW h \in Seq(MsBytes), NEW b \in Seq(MsBytes), Len(b) > 0,
         ~b[1].ok \/ b[1].at # Start + Len(h) + 1
  PROVE  ~Right(h \o b)
<1> DEFINE r == h \o b
           k == Len(h) + 1
<1>1. Len(h) \in Nat /\ Len(b) \in Nat /\ Start \in Nat  BY PlaceFacts, LenProperties
<1>2. /\ r \in Seq(MsBytes) /\ Len(r) = Len(h) + Len(b)
      /\ \A i \in 1 .. Len(b) : r[Len(h) + i] = b[i]
  BY JoinFacts
<1>3. 1 \in 1 .. Len(b)  BY <1>1
<1>4. r[k] = b[1]  BY <1>2, <1>3
<1>5. k \in 1 .. Len(r) /\ Start + k = Start + Len(h) + 1  BY <1>1, <1>2
<1> HIDE DEF r, k
<1>6. Right(r) <=> Meant(r, Start)  BY <1>2, RightIsMeant
<1>7. ASSUME Meant(r, Start) PROVE FALSE
  <2>1. r[k].ok /\ r[k].at = Start + k  BY <1>5, <1>7 DEF Meant
  <2>2. QED  BY <1>4, <1>5, <2>1
<1>8. QED  BY <1>6, <1>7 DEF r

-----------------------------------------------------------------------------
\* Reading changes the socket, how much was read and the key stream.
SameBut(S, T) == /\ T.st = S.st /\ T.buf = S.buf /\ T.hs = S.hs /\ T.out = S.out
                 /\ T.sk.enc = S.sk.enc

Onward(S, b, r, c) == [S EXCEPT !.sk = [S.sk EXCEPT !.back = b], !.read = r, !.rc = c]

LEMMA SocketFields ==
  ASSUME NEW S \in MsWorlds, NEW b \in Seq(MsBytes), NEW r \in Nat, NEW c \in Nat
  PROVE  /\ Onward(S, b, r, c) \in MsWorlds /\ SameBut(S, Onward(S, b, r, c))
         /\ Onward(S, b, r, c).read = r /\ Onward(S, b, r, c).rc = c
         /\ Onward(S, b, r, c).sk.back = b
<1> DEFINE T == Onward(S, b, r, c)
           k == [S.sk EXCEPT !.back = b]
<1>1. k \in MsSockets /\ k.back = b /\ k.enc = S.sk.enc
  <2>1. S.sk \in MsSockets  BY DEF MsWorlds
  <2>2. QED  BY <2>1 DEF MsSockets
<1>2. T = [S EXCEPT !.sk = k, !.read = r, !.rc = c]  BY DEF Onward
<1> HIDE DEF k, T
<1>3. /\ T \in MsWorlds /\ T.sk = k /\ T.read = r /\ T.rc = c
      /\ T.st = S.st /\ T.buf = S.buf /\ T.hs = S.hs /\ T.out = S.out
  BY <1>1, <1>2 DEF MsWorlds
<1>4. QED  BY <1>1, <1>3 DEF SameBut, T

LEMMA ReadFromBack ==
  ASSUME NEW S \in MsWorlds, NEW n \in Nat, n <= Len(S.sk.back)
  PROVE  /\ ReadData(S, n).bytes = IF S.sk.enc THEN Decrypt(SubSeq(S.sk.back, 1, n), S.rc)
                                   ELSE SubSeq(S.sk.back, 1, n)
         /\ ReadData(S, n).S \in MsWorlds /\ SameBut(S, ReadData(S, n).S)
         /\ ReadData(S, n).S.read = S.read
         /\ ReadData(S, n).S.rc = IF S.sk.enc THEN S.rc + n ELSE S.rc
         /\ ReadData(S, n).S.sk.back = SubSeq(S.sk.back, n + 1, Len(S.sk.back))
<1> DEFINE back == S.sk.back
           d == IF S.sk.enc THEN Decrypt(SubSeq(back, 1, n), S.rc) ELSE SubSeq(back, 1, n)
           b == SubSeq(back, n + 1, Len(back))
           c == S.rc + IF S.sk.enc THEN n ELSE 0
           T == [S EXCEPT !.sk = [S.sk EXCEPT !.back = b], !.read = S.read, !.rc = c]
           R == ReadData(S, n)
<1>1. back \in Seq(MsBytes) /\ S.rc \in Nat /\ S.read \in Nat /\ Len(back) \in Nat
  <2>1. S.sk \in MsSockets /\ S.rc \in Nat /\ S.read \in Nat  BY DEF MsWorlds
  <2>2. back \in Seq(MsBytes)  BY <2>1 DEF MsSockets
  <2>3. QED  BY <2>1, <2>2, LenProperties
<1>2. R = [bytes |-> d, S |-> [S EXCEPT !.sk.back = b, !.rc = c]]
  <2>1. Len(back) >= n  BY <1>1
  <2>2. QED  BY <2>1 DEF ReadData
<1>3. b \in Seq(MsBytes)
  <2>1. n \in 0 .. Len(back)  BY <1>1
  <2>2. QED  BY <1>1, <2>1, CutFacts
<1>4. c \in Nat /\ c = IF S.sk.enc THEN S.rc + n ELSE S.rc  BY <1>1
<1> HIDE DEF b, c, d
<1>5. [S EXCEPT !.sk.back = b, !.rc = c] = T  BY DEF MsWorlds, MsSockets
<1> HIDE DEF R, T, back
<1>6. R.bytes = d /\ R.S = T  BY <1>2, <1>5
<1>7. T \in MsWorlds /\ SameBut(S, T) /\ T.read = S.read /\ T.rc = c /\ T.sk.back = b
  <2> DEFINE r == S.read
  <2>1. T = Onward(S, b, r, c) /\ r = S.read  BY DEF T, Onward
  <2>2. r \in Nat  BY <1>1
  <2>3. c \in Nat  BY <1>4
  <2> HIDE DEF r
  <2>4. /\ Onward(S, b, r, c) \in MsWorlds /\ SameBut(S, Onward(S, b, r, c))
        /\ Onward(S, b, r, c).read = r /\ Onward(S, b, r, c).rc = c
        /\ Onward(S, b, r, c).sk.back = b
    BY <1>3, <2>2, <2>3, SocketFields, SMTT(15)
  <2>5. QED  BY <2>1, <2>4
<1>8. QED  BY <1>4, <1>6, <1>7 DEF R, b, d, back

\* How much it gets.
Got(S, n) == Smaller(n, Waiting(S) + Len(S.sk.back))

LEMMA ReadFromSocket ==
  ASSUME MsPlace, NEW S, MsRec(S), NEW n \in Nat, Len(S.sk.back) < n,
         NEW k, k = Got(S, n)
  PROVE  /\ k \in Nat /\ Len(S.sk.back) <= k /\ k <= n
         /\ ReadData(S, n).bytes =
              IF S.sk.enc
              THEN Decrypt(Decrypt(S.sk.back, S.rc) \o Slice(S.read, k - Len(S.sk.back)),
                           S.rc + Len(S.sk.back))
              ELSE S.sk.back \o Slice(S.read, k - Len(S.sk.back))
         /\ ReadData(S, n).S \in MsWorlds /\ SameBut(S, ReadData(S, n).S)
         /\ ReadData(S, n).S.read = S.read + k - Len(S.sk.back)
         /\ ReadData(S, n).S.read <= arrived
         /\ S.sk.enc => ReadData(S, n).S.rc = S.rc + Len(S.sk.back) + k
         /\ ReadData(S, n).S.sk.back = <<>>
<1> DEFINE back == S.sk.back
           c == S.rc + IF S.sk.enc THEN Len(back) ELSE 0
           all == (IF S.sk.enc THEN Decrypt(back, S.rc) ELSE back) \o Slice(S.read, k - Len(back))
           d == IF S.sk.enc THEN Decrypt(all, c) ELSE all
           m == c + IF S.sk.enc THEN k ELSE 0
           r == S.read + k - Len(back)
           R == ReadData(S, n)
<1>1. back \in Seq(MsBytes) /\ S.rc \in Nat /\ S.read \in Nat /\ Len(back) \in Nat
  <2>1. S.sk \in MsSockets /\ S.rc \in Nat /\ S.read \in Nat  BY DEF MsWorlds, MsRec
  <2>2. back \in Seq(MsBytes)  BY <2>1 DEF MsSockets
  <2>3. QED  BY <2>1, <2>2, LenProperties
<1>2. k \in Nat /\ Len(back) <= k /\ k <= n /\ r \in Nat /\ r <= arrived
  <2>1. arrived \in Nat /\ S.read <= arrived  BY DEF MsPlace, MsRec
  <2> DEFINE l == Len(back)
             o == S.read
             w == arrived - o + l
  <2>2. k = IF n < w THEN n ELSE w  BY DEF Smaller, Got, Waiting
  <2>3. l \in Nat /\ l < n /\ o \in Nat /\ o <= arrived /\ arrived \in Nat  BY <1>1, <2>1
  <2>4. r = o + k - l  OBVIOUS
  <2> HIDE DEF l, o, r
  <2>5. w \in Nat /\ l <= w /\ w = arrived - o + l  BY <2>3
  <2> HIDE DEF w
  <2>6. k \in Nat /\ l <= k /\ k <= n /\ k <= w  BY <2>2, <2>3, <2>5
  <2>7. r \in Nat /\ r <= arrived  BY <2>3, <2>4, <2>5, <2>6
  <2>8. QED  BY <2>6, <2>7 DEF l
<1>3. R = [bytes |-> d, S |-> [S EXCEPT !.sk.back = <<>>, !.read = r, !.rc = m]]
  <2>1. ~(Len(back) >= n)  BY <1>1
  <2>2. k = Smaller(n, Waiting(S) + Len(S.sk.back))  BY DEF Got
  <2>3. QED  BY <2>1, <2>2, Zenon DEF ReadData
<1>4. c \in Nat /\ m \in Nat /\ (S.sk.enc => c = S.rc + Len(back) /\ m = S.rc + Len(back) + k)
  <2>1. S.rc \in Nat /\ Len(back) \in Nat /\ k \in Nat  BY <1>1, <1>2
  <2> DEFINE x == IF S.sk.enc THEN Len(back) ELSE 0
             y == IF S.sk.enc THEN k ELSE 0
  <2>2. c = S.rc + x /\ m = c + y  OBVIOUS
  <2>3. (S.sk.enc => x = Len(back) /\ y = k) /\ (~S.sk.enc => x = 0 /\ y = 0)  BY Zenon
  <2> HIDE DEF x, y, c, m, back
  <2>4. CASE S.sk.enc
    <3>1. x = Len(back) /\ y = k  BY <2>3, <2>4
    <3>2. QED  BY <2>1, <2>2, <3>1
  <2>5. CASE ~S.sk.enc
    <3>1. x = 0 /\ y = 0  BY <2>3, <2>5
    <3>2. c \in Nat /\ m \in Nat  BY <2>1, <2>2, <3>1
    <3>3. QED  BY <2>5, <3>2
  <2>6. QED  BY <2>4, <2>5
<1>5. d = IF S.sk.enc THEN Decrypt(Decrypt(back, S.rc) \o Slice(S.read, k - Len(back)), S.rc + Len(back))
          ELSE back \o Slice(S.read, k - Len(back))
  <2>1. CASE S.sk.enc  BY <1>4, <2>1
  <2>2. CASE ~S.sk.enc  BY <2>2
  <2>3. QED  BY <2>1, <2>2
<1> HIDE DEF c, all, d, m, r
<1> DEFINE T == Onward(S, <<>>, r, m)
<1>6. [S EXCEPT !.sk.back = <<>>, !.read = r, !.rc = m] = T  BY DEF Onward
<1> HIDE DEF R, T, back
<1>7. R.bytes = d /\ R.S = T  BY <1>3, <1>6
<1>8. T \in MsWorlds /\ SameBut(S, T) /\ T.read = r /\ T.rc = m /\ T.sk.back = <<>>
  <2>1. <<>> \in Seq(MsBytes) /\ S \in MsWorlds  BY DEF MsRec
  <2>2. r \in Nat /\ m \in Nat  BY <1>2, <1>4
  <2> DEFINE b == <<>>
  <2>3. T = Onward(S, b, r, m)  BY DEF T
  <2>4. S \in MsWorlds /\ b \in Seq(MsBytes)  BY <2>1
  <2> HIDE DEF b
  <2>5. /\ Onward(S, b, r, m) \in MsWorlds /\ SameBut(S, Onward(S, b, r, m))
        /\ Onward(S, b, r, m).read = r /\ Onward(S, b, r, m).rc = m
        /\ Onward(S, b, r, m).sk.back = b
    BY <2>2, <2>4, SocketFields, SMTT(15)
  <2>6. QED  BY <2>3, <2>5 DEF b
<1>9. QED  BY <1>2, <1>4, <1>5, <1>7, <1>8 DEF R, back, r

\* What is read is the next part of the handshake; or bytes that had been put back were
\* decrypted twice.
Continues(S, b, T) ==
  LET p == Start + Len(S.hs) + Len(b)
  IN /\ Meant(b, Start + Len(S.hs)) /\ Raw(T.sk.back, p) /\ p + Len(T.sk.back) = T.read
     /\ S.sk.enc => T.rc = Crypto + Len(S.hs) + Len(b)

LEMMA ReadBackAligned ==
  ASSUME MsPlace, NEW S, MsRec(S), Aligned(S), NEW n \in Nat, n >= 1, n <= Len(S.sk.back),
         NEW b, b = ReadData(S, n).bytes, NEW T, T = ReadData(S, n).S
  PROVE  /\ b \in Seq(MsBytes) /\ Len(b) = n /\ T \in MsWorlds /\ SameBut(S, T) /\ T.read <= arrived
         /\ Continues(S, b, T)
<1> DEFINE back == S.sk.back
           a == SubSeq(back, 1, n)
           p == Start + Len(S.hs)
<1>1. S \in MsWorlds /\ S.read <= arrived /\ S.hs \in Seq(MsBytes) /\ S.rc \in Nat /\ S.read \in Nat
  BY DEF MsRec, MsWorlds
<1>2. /\ b = IF S.sk.enc THEN Decrypt(a, S.rc) ELSE a
      /\ T \in MsWorlds /\ SameBut(S, T) /\ T.read = S.read
      /\ T.rc = IF S.sk.enc THEN S.rc + n ELSE S.rc
      /\ T.sk.back = SubSeq(back, n + 1, Len(back))
  BY <1>1, ReadFromBack
<1>3. Raw(back, p) /\ p + Len(back) = S.read /\ (S.sk.enc => S.rc = Crypto + Len(S.hs)) /\ S.sk.enc = pads.rc4
  BY DEF Aligned
<1>4. /\ p \in Nat /\ Len(S.hs) \in Nat /\ Crypto \in Nat /\ Clear \in Nat /\ Start \in Nat
      /\ p >= Start /\ p = Clear + (Crypto + Len(S.hs))
  <2> DEFINE h == Len(S.hs)
  <2>1. h \in Nat  BY <1>1, LenProperties
  <2>2. Clear \in Nat /\ Crypto \in Nat /\ Start \in Nat /\ Start = Clear + Crypto  BY PlaceFacts
  <2>3. p = Start + h  OBVIOUS
  <2> HIDE DEF h, p
  <2>4. p \in Nat /\ p >= Start /\ p = Clear + (Crypto + h)  BY <2>1, <2>2, <2>3
  <2>5. QED  BY <2>1, <2>2, <2>4 DEF h
<1>5. back \in Seq(MsBytes) /\ Len(back) \in Nat /\ n \in 0 .. Len(back)
  <2>1. back \in Seq(MsBytes)  BY <1>3 DEF Raw
  <2>2. Len(back) \in Nat  BY <2>1, LenProperties
  <2>3. QED  BY <2>1, <2>2
<1>6. p >= Start /\ p = Clear + (Crypto + Len(S.hs))  BY <1>4
<1>7. p = Start + Len(S.hs)  OBVIOUS
<1> HIDE DEF back, p
<1>8. /\ Raw(a, p) /\ Len(a) = n
      /\ Raw(SubSeq(back, n + 1, Len(back)), p + n) /\ Len(SubSeq(back, n + 1, Len(back))) = Len(back) - n
  BY <1>3, <1>4, <1>5, RawCut
<1>9. a \in Seq(MsBytes)  BY <1>8 DEF Raw
<1> HIDE DEF a
<1>10. Meant(b, p) /\ Len(b) = n /\ (S.sk.enc => T.rc = S.rc + n)
  <2>1. CASE S.sk.enc
    <3>1. b = Decrypt(a, S.rc) /\ T.rc = S.rc + n  BY <1>2, <2>1
    <3>2. pads.rc4 /\ p = Clear + S.rc  BY <1>3, <1>6, <2>1
    <3> DEFINE c == S.rc
    <3>3. c \in Nat /\ p = Clear + c /\ b = Decrypt(a, c)  BY <1>1, <3>1, <3>2
    <3> HIDE DEF c
    <3>4. Meant(Decrypt(a, c), p) /\ Len(Decrypt(a, c)) = Len(a)
      BY <1>4, <1>8, <3>2, <3>3, DecryptRaw
    <3>5. QED  BY <1>8, <3>1, <3>3, <3>4
  <2>2. CASE ~S.sk.enc
    <3>1. b = a  BY <1>2, <2>2
    <3>2. ~pads.rc4  BY <1>3, <2>2
    <3>3. Meant(a, p)  BY <1>4, <1>6, <1>8, <3>2, PlainRaw
    <3>4. QED  BY <1>8, <2>2, <3>1, <3>3
  <2>3. QED  BY <2>1, <2>2
<1>11. b \in Seq(MsBytes)  BY <1>10 DEF Meant
<1>12. (p + n) + (Len(back) - n) = S.read  BY <1>3, <1>4, <1>5
<1>13. S.sk.enc => T.rc = Crypto + Len(S.hs) + n
  <2>1. SUFFICES ASSUME S.sk.enc PROVE T.rc = Crypto + Len(S.hs) + n  OBVIOUS
  <2>2. QED  BY <1>3, <1>10, <2>1
<1>14. Continues(S, b, T)
  <2>1. Raw(T.sk.back, p + n) /\ (p + n) + Len(T.sk.back) = T.read  BY <1>2, <1>8, <1>12
  <2>2. QED  BY <1>7, <1>10, <1>13, <2>1 DEF Continues
<1>15. QED  BY <1>1, <1>2, <1>10, <1>11, <1>14

LEMMA StartSum ==
  ASSUME MsPlace, NEW h \in Nat
  PROVE  Start + h \in Nat /\ Start + h >= Start /\ Start + h = Clear + (Crypto + h)
<1>1. Clear \in Nat /\ Crypto \in Nat /\ Start \in Nat /\ Start = Clear + Crypto  BY PlaceFacts
<1>2. QED  BY <1>1

\* The numbers of a world in which the handshake is being read.
LEMMA HsPlace ==
  ASSUME MsPlace, NEW S, MsRec(S), NEW h, h = Len(S.hs), NEW l, l = Len(S.sk.back)
  PROVE  /\ h \in Nat /\ l \in Nat /\ Crypto \in Nat /\ Clear \in Nat /\ Start \in Nat
         /\ Start + h \in Nat /\ Start + h >= Start /\ Start + h = Clear + (Crypto + h)
         /\ S.hs \in Seq(MsBytes) /\ S.sk.back \in Seq(MsBytes) /\ S.rc \in Nat /\ S.read \in Nat
         /\ S \in MsWorlds /\ S.read <= arrived /\ arrived \in Nat /\ h <= HsLen /\ HsLen \in Nat
<1>1. /\ S \in MsWorlds /\ S.hs \in Seq(MsBytes) /\ S.rc \in Nat /\ S.read \in Nat /\ S.sk \in MsSockets
      /\ S.read <= arrived /\ h <= HsLen
  BY DEF MsRec, MsWorlds
<1>2. S.sk.back \in Seq(MsBytes)  BY <1>1 DEF MsSockets
<1>3. h \in Nat  BY <1>1, LenProperties
<1>4. l \in Nat  BY <1>2, LenProperties
<1>5. Clear \in Nat /\ Crypto \in Nat /\ Start \in Nat /\ Start = Clear + Crypto /\ HsLen \in Nat
  BY PlaceFacts
<1>6. Start + h \in Nat /\ Start + h >= Start /\ Start + h = Clear + (Crypto + h)  BY <1>3, StartSum
<1>7. arrived \in Nat  BY DEF MsPlace
<1>8. QED  BY <1>1, <1>2, <1>3, <1>4, <1>5, <1>6, <1>7

LEMMA ReadOnAligned ==
  ASSUME MsPlace, NEW S, MsRec(S), Aligned(S), NEW n \in Nat, n >= 1, Len(S.sk.back) < n,
         Available(S) >= 1,
         NEW b, b = ReadData(S, n).bytes, NEW T, T = ReadData(S, n).S
  PROVE  /\ b \in Seq(MsBytes) /\ Len(b) <= n /\ Len(b) >= 1
         /\ T \in MsWorlds /\ SameBut(S, T) /\ T.read <= arrived
         /\ Continues(S, b, T) \/ ~b[1].ok
<1> DEFINE k == Got(S, n)
           back == S.sk.back
           l == Len(back)
           o == S.read
           h == Len(S.hs)
           p == Start + h
           w == Slice(o, k - l)
           c == S.rc
<1>1. /\ h \in Nat /\ l \in Nat /\ Crypto \in Nat /\ Clear \in Nat /\ Start \in Nat
      /\ p \in Nat /\ p >= Start /\ p = Clear + (Crypto + h)
      /\ back \in Seq(MsBytes) /\ c \in Nat /\ o \in Nat /\ arrived \in Nat
  BY HsPlace
<1>2. /\ k \in Nat /\ l <= k /\ k <= n
      /\ b = IF S.sk.enc THEN Decrypt(Decrypt(back, c) \o w, c + l) ELSE back \o w
      /\ T \in MsWorlds /\ SameBut(S, T) /\ T.read = o + k - l /\ T.read <= arrived
      /\ (S.sk.enc => T.rc = c + l + k) /\ T.sk.back = <<>>
  BY ReadFromSocket
<1>3. Raw(back, p) /\ p + l = o /\ (S.sk.enc => c = Crypto + h) /\ S.sk.enc = pads.rc4
  BY DEF Aligned
<1>4. k >= 1
  <2> DEFINE v == arrived - o + l
  <2>1. v >= 1 /\ k = IF n < v THEN n ELSE v  BY DEF Available, Waiting, Got, Smaller
  <2>2. v \in Int  BY <1>1
  <2> HIDE DEF k, v
  <2>3. QED  BY <2>1, <2>2
<1>5. p = Start + h /\ h = Len(S.hs) /\ l = Len(back)  OBVIOUS
<1>6. w \in Seq(MsBytes) /\ Len(w) = k - l /\ Raw(w, p + l)
  <2> DEFINE j == k - l
  <2>1. j \in Nat /\ w = Slice(o, j) /\ j = k - l  BY <1>1, <1>2
  <2> HIDE DEF j, w, k, l, o
  <2>2. Raw(Slice(o, j), o) /\ Len(Slice(o, j)) = j /\ Slice(o, j) \in Seq(MsBytes)
    BY <1>1, <2>1, SliceFacts
  <2>3. QED  BY <1>3, <2>1, <2>2
<1>7. Raw(<<>>, p + k) /\ Len(<<>>) = 0
  <2>1. <<>> \in Seq(MsBytes) /\ Len(<<>>) = 0  OBVIOUS
  <2>2. QED  BY <2>1 DEF Raw
<1> HIDE DEF k, back, l, o, h, p, w, c
<1>8. /\ Raw(back \o w, p) /\ Len(back \o w) = k
  <2>1. Raw(back \o w, p) /\ Len(back \o w) = Len(back) + Len(w)
    <3>1. Raw(w, p + Len(back))  BY <1>5, <1>6
    <3>2. QED  BY <1>1, <1>3, <3>1, RawJoin
  <2>2. QED  BY <1>1, <1>2, <1>5, <1>6, <2>1
<1>9. ASSUME Meant(b, p), Len(b) = k, S.sk.enc => T.rc = Crypto + h + k PROVE Continues(S, b, T)
  <2>1. Raw(T.sk.back, p + k)  BY <1>2, <1>7
  <2>2. (p + k) + Len(T.sk.back) = T.read
    <3>1. (p + k) + 0 = o + k - l  BY <1>1, <1>2, <1>3
    <3>2. QED  BY <1>2, <1>7, <3>1
  <2>3. QED  BY <1>5, <1>9, <2>1, <2>2 DEF Continues
<1>10. CASE ~S.sk.enc
  <2>1. b = back \o w  BY <1>2, <1>10
  <2>2. ~pads.rc4  BY <1>3, <1>10
  <2> DEFINE s == back \o w
  <2>3. Raw(s, p) /\ Len(s) = k /\ b = s  BY <1>8, <2>1
  <2> HIDE DEF s
  <2>4. Meant(s, p)  BY <1>1, <2>2, <2>3, PlainRaw
  <2>5. Meant(b, p) /\ Len(b) = k  BY <2>3, <2>4
  <2>6. b \in Seq(MsBytes)  BY <2>5 DEF Meant
  <2>7. Continues(S, b, T)  BY <1>9, <1>10, <2>5
  <2>8. QED  BY <1>2, <1>4, <2>5, <2>6, <2>7
<1>11. CASE S.sk.enc
  <2> DEFINE a == Decrypt(back, c)
             s == a \o w
             e == c + l
  <2>1. b = Decrypt(s, e) /\ pads.rc4 /\ c = Crypto + h /\ T.rc = c + l + k  BY <1>2, <1>3, <1>11
  <2>2. /\ Meant(a, p) /\ Len(a) = l /\ a \in Seq(MsBytes)
    <3>1. p = Clear + c  BY <1>1, <2>1
    <3>2. Meant(Decrypt(back, c), p) /\ Len(Decrypt(back, c)) = Len(back)
      BY <1>1, <1>3, <2>1, <3>1, DecryptRaw
    <3>3. QED  BY <1>5, <3>2 DEF Meant
  <2> HIDE DEF a
  <2>3. /\ s \in Seq(MsBytes) /\ Len(s) = k /\ \A i \in 1 .. Len(a) : s[i] = a[i]
    <3>1. /\ a \o w \in Seq(MsBytes) /\ Len(a \o w) = Len(a) + Len(w)
          /\ \A i \in 1 .. Len(a) : (a \o w)[i] = a[i]
      BY <1>6, <2>2, JoinFacts
    <3>2. Len(a) + Len(w) = k  BY <1>1, <1>2, <1>6, <2>2
    <3>3. QED  BY <3>1, <3>2
  <2>4. e \in Nat /\ e = c + l  BY <1>1
  <2>5. s = a \o w  OBVIOUS
  <2> HIDE DEF s, e
  <2>6. b \in Seq(MsBytes) /\ Len(b) = k /\ \A i \in 1 .. Len(s) : s[i].ok \/ s[i].key # e + i => ~b[i].ok
    BY <2>1, <2>3, <2>4, DecryptFacts
  <2>7. CASE l = 0
    <3>1. back = <<>>  BY <1>1, <1>5, <2>7, EmptySeq
    <3>2. e = c  BY <1>1, <2>4, <2>7
    <3>3. a = <<>>
      <4>1. Len(a) = 0  BY <2>2, <2>7
      <4>2. QED  BY <2>2, <4>1, EmptySeq
    <3>4. s = w
      <4>1. <<>> \o w = w  BY <1>6, ConcatEmptySeq
      <4>2. QED  BY <2>5, <3>3, <4>1
    <3>5. Raw(w, p) /\ Len(w) = k  BY <1>1, <1>2, <1>6, <2>7
    <3>6. p = Clear + c  BY <1>1, <2>1
    <3>7. Meant(Decrypt(w, c), p) /\ Len(Decrypt(w, c)) = Len(w)
      BY <1>1, <2>1, <3>5, <3>6, DecryptRaw
    <3>8. Meant(b, p)  BY <2>1, <3>2, <3>4, <3>7
    <3>9. T.rc = Crypto + h + k  BY <1>1, <1>2, <2>1, <2>7
    <3>10. Continues(S, b, T)  BY <1>9, <2>6, <3>8, <3>9
    <3>11. QED  BY <1>2, <1>4, <2>6, <3>10
  <2>8. CASE l # 0
    <3>1. 1 \in 1 .. Len(a)  BY <1>1, <2>2, <2>8
    <3>2. a[1].ok  BY <2>2, <3>1 DEF Meant
    <3>3. s[1] = a[1]  BY <2>3, <3>1
    <3>4. 1 \in 1 .. Len(s)  BY <1>2, <1>4, <2>3
    <3>5. ~b[1].ok  BY <2>6, <3>2, <3>3, <3>4
    <3>6. QED  BY <1>2, <1>4, <2>6, <3>5
  <2>9. QED  BY <2>7, <2>8
<1>12. QED  BY <1>10, <1>11

\* Before its place, the handshake starts with a byte of the pad.
LEMMA ReadLost ==
  ASSUME MsPlace, NEW S, MsRec(S), Lost(S), NEW n \in Nat, n >= 1, Available(S) >= 1,
         NEW b, b = ReadData(S, n).bytes, NEW T, T = ReadData(S, n).S
  PROVE  /\ b \in Seq(MsBytes) /\ Len(b) <= n /\ Len(b) >= 1
         /\ T \in MsWorlds /\ SameBut(S, T) /\ T.read <= arrived
         /\ b[1].at # Start + Len(S.hs) + 1
<1> DEFINE k == Got(S, n)
           back == S.sk.back
           l == Len(back)
           o == S.read
           w == Slice(o, k - l)
           c == S.rc
           a == Decrypt(back, c)
<1>1. Start \in Nat /\ back \in Seq(MsBytes) /\ c \in Nat /\ o \in Nat /\ arrived \in Nat  BY HsPlace
<1>2. back = <<>> /\ S.hs = <<>> /\ o < Start  BY DEF Lost
<1>3. l = 0 /\ Len(S.hs) = 0
  <2>1. Len(<<>>) = 0  OBVIOUS
  <2>2. QED  BY <1>2, <2>1
<1>4. /\ k \in Nat /\ k <= n
      /\ b = IF S.sk.enc THEN Decrypt(a \o w, c + l) ELSE back \o w
      /\ T \in MsWorlds /\ SameBut(S, T) /\ T.read <= arrived
  <2>1. Len(S.sk.back) < n  BY <1>3
  <2>2. QED  BY <2>1, ReadFromSocket
<1>5. k >= 1
  <2> DEFINE v == arrived - o + l
  <2>1. v >= 1 /\ k = IF n < v THEN n ELSE v  BY DEF Available, Waiting, Got, Smaller
  <2>2. v \in Int  BY <1>1, <1>3
  <2> HIDE DEF k, v
  <2>3. QED  BY <2>1, <2>2
<1>6. w \in Seq(MsBytes) /\ Len(w) = k /\ Raw(w, o)
  <2>1. w = Slice(o, k)
    <3>1. k - l = k  BY <1>3, <1>4
    <3>2. QED  BY <3>1
  <2> HIDE DEF w, k, o
  <2>2. QED  BY <1>1, <1>4, <2>1, SliceFacts
<1>7. w[1].at = o + 1 /\ 1 \in 1 .. Len(w)
  <2>1. 1 \in 1 .. Len(w)  BY <1>4, <1>5, <1>6
  <2> DEFINE j == o + 1
  <2>2. w[1] = Byte(j) /\ j \in Nat  BY <1>1, <1>6, <2>1 DEF Raw
  <2> HIDE DEF j
  <2>3. Byte(j).at = j  BY <2>2, ByteFacts
  <2>4. QED  BY <2>1, <2>2, <2>3 DEF j
<1>8. a = <<>>
  <2> HIDE DEF back, c
  <2>1. a \in Seq(MsBytes) /\ Len(a) = Len(back)  BY <1>1, DecryptFacts
  <2>2. Len(back) = 0  BY <1>3 DEF back
  <2> HIDE DEF a
  <2>3. QED  BY <2>1, <2>2, EmptySeq
<1> HIDE DEF k, back, l, o, w, c, a
<1>9. <<>> \o w = w  BY <1>6, ConcatEmptySeq
<1>10. b \in Seq(MsBytes) /\ Len(b) = k /\ b[1].at = o + 1
  <2>1. CASE S.sk.enc
    <3>1. b = Decrypt(w, c)
      <4>1. c + l = c  BY <1>1, <1>3
      <4>2. b = Decrypt(a \o w, c + l)  BY <1>4, <2>1
      <4>3. a \o w = w  BY <1>8, <1>9
      <4>4. QED  BY <4>1, <4>2, <4>3
    <3>2. /\ Decrypt(w, c) \in Seq(MsBytes) /\ Len(Decrypt(w, c)) = Len(w)
          /\ \A i \in 1 .. Len(w) : Decrypt(w, c)[i].at = w[i].at
      BY <1>1, <1>6, DecryptFacts
    <3>3. QED  BY <1>6, <1>7, <3>1, <3>2
  <2>2. CASE ~S.sk.enc
    <3>1. b = back \o w  BY <1>4, <2>2
    <3>2. b = w  BY <1>2, <1>9, <3>1
    <3>3. QED  BY <1>6, <1>7, <3>2
  <2>3. QED  BY <2>1, <2>2
<1>11. o + 1 # Start + 0 + 1
  <2>1. o < Start  BY <1>2 DEF o
  <2>2. QED  BY <1>1, <2>1
<1>12. b[1].at # Start + Len(S.hs) + 1  BY <1>3, <1>10, <1>11
<1>13. QED  BY <1>4, <1>5, <1>10, <1>12

\* The handshake put back behind a key stream that is out of step.
Astray(S) == /\ S.hs = <<>> /\ Raw(S.sk.back, Start) /\ S.sk.enc = TRUE /\ pads.rc4
             /\ Len(S.sk.back) >= HsLen /\ S.rc # Crypto

LEMMA ReadAstray ==
  ASSUME MsPlace, NEW S, MsRec(S), Astray(S),
         NEW b, b = ReadData(S, HsLen).bytes, NEW T, T = ReadData(S, HsLen).S
  PROVE  /\ b \in Seq(MsBytes) /\ Len(b) = HsLen
         /\ T \in MsWorlds /\ SameBut(S, T) /\ T.read <= arrived
         /\ ~b[1].ok
<1> DEFINE back == S.sk.back
           c == S.rc
           a == SubSeq(back, 1, HsLen)
<1>1. /\ Start \in Nat /\ Start = Clear + Crypto /\ Clear \in Nat /\ Crypto \in Nat
      /\ HsLen \in Nat /\ HsLen >= 1
  BY PlaceFacts
<1>2. S \in MsWorlds /\ back \in Seq(MsBytes) /\ c \in Nat /\ S.read <= arrived  BY HsPlace
<1>3. Raw(back, Start) /\ Len(back) >= HsLen /\ c # Crypto /\ pads.rc4 /\ S.sk.enc  BY DEF Astray
<1>4. Len(back) \in Nat  BY <1>2, LenProperties
<1>5. HsLen <= Len(S.sk.back) /\ HsLen \in 0 .. Len(back)  BY <1>1, <1>3, <1>4
<1>6. /\ b = IF S.sk.enc THEN Decrypt(a, c) ELSE a
      /\ T \in MsWorlds /\ SameBut(S, T) /\ T.read = S.read
  BY <1>1, <1>2, <1>5, ReadFromBack
<1> HIDE DEF back, c
<1>7. Raw(a, Start) /\ Len(a) = HsLen  BY <1>1, <1>3, <1>5, RawCut
<1>8. a \in Seq(MsBytes)  BY <1>7 DEF Raw
<1> HIDE DEF a
<1>9. b = Decrypt(a, c)  BY <1>3, <1>6
<1>10. Decrypt(a, c) \in Seq(MsBytes) /\ Len(Decrypt(a, c)) = Len(a)  BY <1>2, <1>8, DecryptFacts
<1>11. ~Decrypt(a, c)[1].ok
  <2>1. Start # Clear + c /\ Start >= Clear /\ Len(a) > 0  BY <1>1, <1>2, <1>3, <1>7
  <2>2. QED  BY <1>1, <1>2, <1>3, <1>7, <2>1, DecryptLost
<1>12. QED  BY <1>2, <1>6, <1>7, <1>9, <1>10, <1>11

-----------------------------------------------------------------------------
\* Only where the authentication is changes.
LEMMA FinishFacts ==
  ASSUME NEW S, MsRec(S), NEW s \in MsClient \cup MsServer
  PROVE  /\ MsRec(Finish(S, s)) /\ Finish(S, s).st.s = s
         /\ Finish(S, s).st.off = S.st.off /\ Finish(S, s).st.pad = S.st.pad
         /\ Finish(S, s).read = S.read /\ Finish(S, s).buf = S.buf /\ Finish(S, s).rc = S.rc
         /\ Finish(S, s).sk = S.sk /\ Finish(S, s).hs = S.hs /\ Finish(S, s).out = S.out
<1> DEFINE T == Finish(S, s)
           u == [S.st EXCEPT !.s = s]
<1>1. S \in MsWorlds /\ S.st \in MsStates  BY DEF MsRec, MsWorlds
<1>2. u \in MsStates /\ u.s = s /\ u.off = S.st.off /\ u.pad = S.st.pad  BY <1>1 DEF MsStates
<1>3. T = [S EXCEPT !.st = u]  BY DEF Finish
<1> HIDE DEF T, u
<1>4. /\ T \in MsWorlds /\ T.st = u /\ T.read = S.read /\ T.buf = S.buf /\ T.rc = S.rc
      /\ T.sk = S.sk /\ T.hs = S.hs /\ T.out = S.out
  BY <1>1, <1>2, <1>3 DEF MsWorlds
<1>5. MsRec(T)  BY <1>4 DEF MsRec
<1>6. QED  BY <1>2, <1>4, <1>5 DEF T

Taken(T, b) == [T EXCEPT !.hs = T.hs \o b]

LEMMA ReadInto ==
  ASSUME NEW S, MsRec(S), NEW b \in Seq(MsBytes), NEW T \in MsWorlds, SameBut(S, T), T.read <= arrived,
         Len(S.hs) + Len(b) <= HsLen, NEW U, U = Taken(T, b)
  PROVE  /\ MsRec(U) /\ U.hs = S.hs \o b /\ Len(U.hs) = Len(S.hs) + Len(b)
         /\ U.st = S.st /\ U.buf = S.buf /\ U.out = S.out /\ U.sk = T.sk /\ U.sk.enc = S.sk.enc
         /\ U.rc = T.rc /\ U.read = T.read
<1>1. S.hs \in Seq(MsBytes)  BY DEF MsRec, MsWorlds
<1> DEFINE h == S.hs \o b
<1>2. h \in Seq(MsBytes) /\ Len(h) = Len(S.hs) + Len(b)  BY <1>1, JoinFacts
<1>3. T.hs = S.hs /\ T.st = S.st /\ T.buf = S.buf /\ T.out = S.out /\ T.sk.enc = S.sk.enc  BY DEF SameBut
<1>4. U = [T EXCEPT !.hs = h]  BY <1>3 DEF Taken
<1> HIDE DEF h
<1>5. /\ U \in MsWorlds /\ U.hs = h /\ U.st = T.st /\ U.buf = T.buf /\ U.out = T.out
      /\ U.sk = T.sk /\ U.rc = T.rc /\ U.read = T.read
  BY <1>2, <1>4 DEF MsWorlds
<1>6. Len(U.hs) <= HsLen  BY <1>2, <1>5
<1>7. MsRec(U)  BY <1>3, <1>5, <1>6 DEF MsRec
<1>8. QED  BY <1>2, <1>3, <1>5, <1>7 DEF h

\* What is left in the socket goes to the packet reader.
LEMMA MonitorPasses ==
  ASSUME MsPlace, NEW S, MsRec(S), S.st.s = "ok", S.out = <<>>, S.sk.enc = pads.rc4,
         Raw(S.sk.back, Start + HsLen), Start + HsLen + Len(S.sk.back) = S.read,
         S.sk.enc => S.rc = Crypto + HsLen
  PROVE  /\ MsRec(StartMonitoring(S)) /\ StartMonitoring(S).st.s = "ok" /\ Passed(StartMonitoring(S))
<1> DEFINE T == StartMonitoring(S)
           back == S.sk.back
           p == Start + HsLen
           c == S.rc
           d == IF S.sk.enc THEN Decrypt(back, c) ELSE back
           m == IF S.sk.enc THEN c + Len(back) ELSE c
           e == <<>>
           k == [S.sk EXCEPT !.back = e]
<1>1. HsLen \in Nat  BY PlaceFacts
<1>2. p \in Nat /\ p >= Start /\ p = Clear + (Crypto + HsLen)  BY <1>1, StartSum
<1>3. S \in MsWorlds /\ back \in Seq(MsBytes) /\ c \in Nat /\ S.sk \in MsSockets /\ S.read \in Nat
      /\ Clear \in Nat /\ Crypto \in Nat
  <2>1. S \in MsWorlds /\ S.sk \in MsSockets  BY DEF MsRec, MsWorlds
  <2>2. QED  BY <2>1, HsPlace
<1>4. Raw(back, p) /\ p + Len(back) = S.read  OBVIOUS
<1>5. Len(back) \in Nat  BY <1>3, LenProperties
<1>6. Meant(d, p) /\ Len(d) = Len(back) /\ m \in Nat /\ (S.sk.enc => m = S.read - Clear)
  <2> HIDE DEF back, p, c
  <2>1. CASE S.sk.enc
    <3>1. d = Decrypt(back, c) /\ m = c + Len(back)  BY <2>1
    <3>2. pads.rc4 /\ c = Crypto + HsLen  BY <2>1 DEF c
    <3>3. p = Clear + c  BY <1>2, <3>2
    <3>4. Meant(Decrypt(back, c), p) /\ Len(Decrypt(back, c)) = Len(back)
      BY <1>2, <1>3, <1>4, <3>2, <3>3, DecryptRaw
    <3>5. c + Len(back) \in Nat /\ c + Len(back) = S.read - Clear  BY <1>3, <1>4, <1>5, <3>3
    <3> HIDE DEF d, m
    <3>6. QED  BY <3>1, <3>4, <3>5
  <2>2. CASE ~S.sk.enc
    <3>1. d = back /\ m = c  BY <2>2
    <3>2. ~pads.rc4  BY <2>2
    <3>3. Meant(back, p)  BY <1>2, <1>4, <3>2, PlainRaw
    <3> HIDE DEF d, m
    <3>4. QED  BY <1>3, <2>2, <3>1, <3>3
  <2>3. QED  BY <2>1, <2>2
<1>7. d \in Seq(MsBytes)  BY <1>6 DEF Meant
<1>8. T = [S EXCEPT !.out = d, !.rc = m, !.sk = k]
  <2>1. <<>> \o d = d  BY <1>7, ConcatEmptySeq
  <2>2. CASE S.sk.enc
    <3>1. d = Decrypt(back, c) /\ m = c + Len(back)  BY <2>2
    <3>2. T = [S EXCEPT !.out = <<>> \o Decrypt(back, c), !.rc = c + Len(back), !.sk = k]
      BY <2>2, Zenon DEF StartMonitoring
    <3> HIDE DEF T, d, m, k, back, c
    <3>3. QED  BY <2>1, <3>1, <3>2
  <2>3. CASE ~S.sk.enc
    <3>1. d = back /\ m = c  BY <2>3
    <3>2. T = [S EXCEPT !.out = <<>> \o back, !.sk = k]  BY <2>3, Zenon DEF StartMonitoring
    <3>3. [S EXCEPT !.out = d, !.sk = k] = [S EXCEPT !.out = d, !.rc = m, !.sk = k]
      <4> HIDE DEF d, m, k
      <4>1. m = S.rc  BY <3>1 DEF c
      <4>2. QED  BY <1>3, <4>1 DEF MsWorlds
    <3> HIDE DEF T, d, m, k, back, c
    <3>4. QED  BY <2>1, <3>1, <3>2, <3>3
  <2>4. QED  BY <2>2, <2>3
<1>9. k \in MsSockets /\ k.enc = S.sk.enc
  <2>1. e \in Seq(MsBytes)  OBVIOUS
  <2> HIDE DEF e
  <2>2. QED  BY <1>3, <2>1 DEF MsSockets
<1> HIDE DEF T, d, m, k, back, c, p
<1>10. /\ T \in MsWorlds /\ T.out = d /\ T.rc = m /\ T.sk = k /\ T.st = S.st /\ T.read = S.read
       /\ T.buf = S.buf /\ T.hs = S.hs
  BY <1>3, <1>6, <1>7, <1>8, <1>9 DEF MsWorlds
<1>11. MsRec(T)  BY <1>10 DEF MsRec
<1>12. T.st.s = "ok"  BY <1>10
<1>13. p + Len(d) = S.read  BY <1>4, <1>6
<1>14. Passed(T)  BY <1>6, <1>9, <1>10, <1>13 DEF Passed, p
<1>15. QED  BY <1>11, <1>12, <1>14 DEF T

\* The outcomes of a read of the handshake.
LEMMA HsRead ==
  ASSUME MsPlace, NEW S, MsRec(S), Aligned(S) \/ Lost(S) \/ Astray(S), NEW n \in Nat, n >= 1,
         Available(S) >= 1, Astray(S) => n = HsLen,
         NEW b, b = ReadData(S, n).bytes, NEW T, T = ReadData(S, n).S
  PROVE  /\ b \in Seq(MsBytes) /\ Len(b) <= n /\ Len(b) >= 1
         /\ T \in MsWorlds /\ SameBut(S, T) /\ T.read <= arrived
         /\ \/ Aligned(S) /\ Continues(S, b, T)
            \/ ~b[1].ok
            \/ b[1].at # Start + Len(S.hs) + 1
<1>1. CASE Aligned(S)
  <2>1. Len(S.sk.back) \in Nat  BY HsPlace
  <2>2. CASE n <= Len(S.sk.back)
    <3>1. /\ b \in Seq(MsBytes) /\ Len(b) = n /\ T \in MsWorlds /\ SameBut(S, T) /\ T.read <= arrived
          /\ Continues(S, b, T)
      BY <1>1, <2>2, ReadBackAligned
    <3>2. QED  BY <1>1, <3>1
  <2>3. CASE Len(S.sk.back) < n
    <3>1. /\ b \in Seq(MsBytes) /\ Len(b) <= n /\ Len(b) >= 1 /\ T \in MsWorlds /\ SameBut(S, T)
          /\ T.read <= arrived /\ (Continues(S, b, T) \/ ~b[1].ok)
      BY <1>1, <2>3, ReadOnAligned
    <3>2. QED  BY <1>1, <3>1
  <2> DEFINE l == Len(S.sk.back)
  <2>4. n <= l \/ l < n
    <3>1. l \in Nat  BY <2>1
    <3> HIDE DEF l
    <3>2. QED  BY <3>1
  <2>5. QED  BY <2>2, <2>3, <2>4
<1>2. CASE Lost(S)  BY <1>2, ReadLost
<1>3. CASE Astray(S)
  <2>1. /\ b \in Seq(MsBytes) /\ Len(b) = n /\ T \in MsWorlds /\ SameBut(S, T) /\ T.read <= arrived
        /\ ~b[1].ok
    BY <1>3, ReadAstray
  <2>2. QED  BY <2>1
<1>4. QED  BY <1>1, <1>2, <1>3

\* AuthenticateBase reads the handshake in its place, or the handshake fails.
LEMMA BaseReadSound ==
  ASSUME MsPlace, NEW S, MsRec(S), S.st.s = "normal", Aligned(S) \/ Lost(S) \/ Astray(S)
  PROVE  /\ MsRec(BaseRead(S)) /\ BaseRead(S).st.s \in {"normal", "ok", "failed"}
         /\ BaseRead(S).st.s = "ok" => Passed(BaseRead(S))
         /\ BaseRead(S).st.s = "normal" => \/ Aligned(S) /\ Aligned(BaseRead(S))
                                           \/ Lost(S) /\ Lost(BaseRead(S))
<1> DEFINE ba == Available(S)
           h == Len(S.hs)
           n == IF S.hs = <<>> THEN Smaller(ba, HsLen) ELSE HsLen - h
           b == ReadData(S, n).bytes
           T == ReadData(S, n).S
           U == [T EXCEPT !.hs = T.hs \o b]
           B == BaseRead(S)
<1>1. B = IF ba = 0 THEN Finish(S, "failed")
          ELSE IF ba < HsMin THEN S
          ELSE IF ~Right(U.hs) THEN Finish(U, "failed")
          ELSE IF Len(U.hs) < HsLen THEN U
          ELSE StartMonitoring(Finish(U, "ok"))
  BY Zenon DEF BaseRead
<1>2. /\ h \in Nat /\ Len(S.sk.back) \in Nat /\ S.read \in Nat /\ S.read <= arrived /\ arrived \in Nat
      /\ h <= HsLen /\ HsLen \in Nat /\ S.hs \in Seq(MsBytes) /\ Start \in Nat /\ Start + h \in Nat
  BY HsPlace
<1>3. HsMin \in Nat /\ 1 <= HsMin /\ HsMin <= HsLen  BY PlaceFacts
<1>4. ba \in Nat /\ ba >= Len(S.sk.back)
  <2> DEFINE l == Len(S.sk.back)
             o == S.read
  <2>1. ba = arrived - o + l  BY DEF Available, Waiting
  <2>2. l \in Nat /\ o \in Nat /\ o <= arrived /\ arrived \in Nat  BY <1>2
  <2> HIDE DEF l, o, ba
  <2>3. ba \in Nat /\ ba >= l  BY <2>1, <2>2
  <2>4. QED  BY <2>3 DEF l
<1>5. Aligned(S) => h < HsLen  BY DEF Aligned
<1>6. ~Aligned(S) => S.hs = <<>>  BY DEF Lost, Astray
<1>7. h = Len(S.hs) /\ ba = Available(S)  OBVIOUS
<1>8. S.hs = <<>> => h = 0
  <2>1. Len(<<>>) = 0  OBVIOUS
  <2>2. QED  BY <2>1
<1>9. S.hs = <<>> => n = Smaller(ba, HsLen)  BY Zenon
<1>10. S.hs # <<>> => n = HsLen - h  BY Zenon
<1>11. b = ReadData(S, n).bytes /\ T = ReadData(S, n).S /\ U = [T EXCEPT !.hs = T.hs \o b]  OBVIOUS
<1> HIDE DEF ba, h, n, b, T, U
<1>12. CASE ba = 0
  <2>1. B = Finish(S, "failed")  BY <1>1, <1>12
  <2>2. "failed" \in MsClient \cup MsServer  BY DEF MsClient
  <2>3. MsRec(Finish(S, "failed")) /\ Finish(S, "failed").st.s = "failed"  BY <2>2, FinishFacts
  <2> HIDE DEF B
  <2>4. QED  BY <2>1, <2>3 DEF B
<1>13. CASE ba # 0 /\ ba < HsMin
  <2>1. B = S  BY <1>1, <1>13
  <2>2. ~Astray(S)
    <3>1. ASSUME Astray(S) PROVE FALSE
      <4> DEFINE l == Len(S.sk.back)
      <4>1. l >= HsLen  BY <3>1 DEF Astray
      <4>2. l \in Nat /\ ba >= l  BY <1>2, <1>4
      <4> HIDE DEF l
      <4>3. QED  BY <1>2, <1>3, <1>4, <1>13, <4>1, <4>2
    <3>2. QED  BY <3>1
  <2> HIDE DEF B
  <2>3. QED  BY <2>1, <2>2 DEF B
<1>14. CASE ~(ba = 0) /\ ~(ba < HsMin)
  <2>1. n \in Nat /\ n >= 1 /\ h + n <= HsLen
    <3>1. CASE S.hs = <<>>
      <4>1. h = 0 /\ n = IF ba < HsLen THEN ba ELSE HsLen  BY <1>8, <1>9, <3>1 DEF Smaller
      <4>2. QED  BY <1>2, <1>3, <1>4, <1>14, <4>1
    <3>2. CASE S.hs # <<>>
      <4>1. n = HsLen - h /\ h < HsLen  BY <1>5, <1>6, <1>10, <3>2
      <4>2. QED  BY <1>2, <4>1
    <3>3. QED  BY <3>1, <3>2
  <2>2. Astray(S) => n = HsLen
    <3>1. SUFFICES ASSUME Astray(S) PROVE n = HsLen  OBVIOUS
    <3> DEFINE l == Len(S.sk.back)
    <3>2. l >= HsLen /\ S.hs = <<>>  BY <3>1 DEF Astray
    <3>3. l \in Nat /\ ba >= l  BY <1>2, <1>4
    <3> HIDE DEF l
    <3>4. n = IF ba < HsLen THEN ba ELSE HsLen  BY <1>9, <3>2 DEF Smaller
    <3>5. QED  BY <1>2, <1>4, <3>2, <3>3, <3>4
  <2>3. Available(S) >= 1
    <3>1. ba >= 1  BY <1>4, <1>14
    <3>2. QED  BY <1>7, <3>1
  <2>4. /\ b \in Seq(MsBytes) /\ Len(b) <= n /\ Len(b) >= 1
        /\ T \in MsWorlds /\ SameBut(S, T) /\ T.read <= arrived
        /\ \/ Aligned(S) /\ Continues(S, b, T)
           \/ ~b[1].ok
           \/ b[1].at # Start + Len(S.hs) + 1
    <3>1. b = ReadData(S, n).bytes /\ T = ReadData(S, n).S  BY <1>11
    <3>2. QED  BY <2>1, <2>2, <2>3, <3>1, HsRead
  <2> DEFINE q == Len(b)
  <2>5. q \in Nat /\ q >= 1 /\ q <= n  BY <2>4, LenProperties
  <2>6. Len(S.hs) + Len(b) <= HsLen
    <3>1. q = Len(b)  OBVIOUS
    <3> HIDE DEF q
    <3>2. h + q <= HsLen  BY <1>2, <2>1, <2>5
    <3>3. QED  BY <1>7, <3>1, <3>2
  <2>7. /\ MsRec(U) /\ U.hs = S.hs \o b /\ Len(U.hs) = Len(S.hs) + Len(b)
        /\ U.st = S.st /\ U.buf = S.buf /\ U.out = S.out /\ U.sk = T.sk /\ U.sk.enc = S.sk.enc
        /\ U.rc = T.rc /\ U.read = T.read
    <3>1. U = Taken(T, b)  BY <1>11 DEF Taken
    <3>2. b \in Seq(MsBytes) /\ T \in MsWorlds /\ SameBut(S, T) /\ T.read <= arrived  BY <2>4
    <3>3. QED  BY <2>6, <3>1, <3>2, ReadInto
  <2>8. B = IF ~Right(U.hs) THEN Finish(U, "failed")
            ELSE IF Len(U.hs) < HsLen THEN U
            ELSE StartMonitoring(Finish(U, "ok"))
    BY <1>1, <1>14, Zenon
  <2> HIDE DEF B
  <2>9. CASE ~Right(U.hs)
    <3>1. B = Finish(U, "failed")  BY <2>8, <2>9
    <3>2. "failed" \in MsClient \cup MsServer  BY DEF MsClient
    <3>3. MsRec(Finish(U, "failed")) /\ Finish(U, "failed").st.s = "failed"  BY <2>7, <3>2, FinishFacts
    <3>4. QED  BY <3>1, <3>3 DEF B
  <2>10. CASE Right(U.hs)
    <3>1. Aligned(S) /\ Continues(S, b, T)
      <4>1. ASSUME ~b[1].ok \/ b[1].at # Start + Len(S.hs) + 1 PROVE FALSE
        <5>1. Len(b) > 0  BY <2>5
        <5>2. ~Right(S.hs \o b)  BY <1>2, <2>4, <4>1, <5>1, WrongByte
        <5>3. QED  BY <2>7, <2>10, <5>2
      <4>2. QED  BY <2>4, <4>1
    <3> DEFINE g == Len(U.hs)
    <3>2. g = h + Len(b)  BY <1>7, <2>7
    <3>3. /\ Raw(U.sk.back, Start + h + Len(b)) /\ Start + h + Len(b) + Len(U.sk.back) = U.read
          /\ U.sk.enc => U.rc = Crypto + h + Len(b)
      BY <1>7, <2>7, <3>1 DEF Continues
    <3>4. U.out = <<>> /\ U.sk.enc = pads.rc4  BY <2>7, <3>1 DEF Aligned
    <3>5. Meant(U.hs, Start)
      <4>1. U.hs \in Seq(MsBytes)  BY <2>7 DEF MsRec, MsWorlds
      <4>2. QED  BY <2>10, <4>1, RightIsMeant
    <3>6. /\ Start + h + Len(b) = Start + g /\ Crypto + h + Len(b) = Crypto + g /\ g \in Nat
      <4>1. Crypto \in Nat  BY PlaceFacts
      <4>2. q = Len(b)  OBVIOUS
      <4>3. g = h + q  BY <3>2
      <4> HIDE DEF g, q
      <4>4. Start + h + q = Start + g /\ Crypto + h + q = Crypto + g /\ g \in Nat
        BY <1>2, <2>5, <4>1, <4>3
      <4>5. QED  BY <4>2, <4>4
    <3>7. Raw(U.sk.back, Start + g) /\ Start + g + Len(U.sk.back) = U.read /\ (U.sk.enc => U.rc = Crypto + g)
      BY <3>3, <3>6
    <3>8. g = Len(U.hs) /\ g <= HsLen  BY <2>7 DEF MsRec
    <3> HIDE DEF g
    <3>9. CASE g < HsLen
      <4>1. B = U  BY <2>8, <2>10, <3>8, <3>9
      <4>2. Aligned(U)  BY <3>4, <3>5, <3>7, <3>8, <3>9 DEF Aligned
      <4>3. U.st.s = "normal"  BY <2>7
      <4>4. QED  BY <2>7, <3>1, <4>1, <4>2, <4>3 DEF B
    <3>10. CASE ~(g < HsLen)
      <4>1. B = StartMonitoring(Finish(U, "ok"))  BY <2>8, <2>10, <3>8, <3>10
      <4>2. g = HsLen  BY <1>2, <3>6, <3>8, <3>10
      <4> DEFINE F == Finish(U, "ok")
      <4>3. "ok" \in MsClient \cup MsServer  BY DEF MsClient
      <4>4. MsRec(F) /\ F.st.s = "ok" /\ F.read = U.read /\ F.rc = U.rc /\ F.sk = U.sk /\ F.out = U.out
        BY <2>7, <4>3, FinishFacts
      <4> HIDE DEF F
      <4>5. /\ F.out = <<>> /\ F.sk.enc = pads.rc4 /\ Raw(F.sk.back, Start + HsLen)
            /\ Start + HsLen + Len(F.sk.back) = F.read /\ (F.sk.enc => F.rc = Crypto + HsLen)
        BY <3>4, <3>7, <4>2, <4>4
      <4>6. MsRec(StartMonitoring(F)) /\ StartMonitoring(F).st.s = "ok" /\ Passed(StartMonitoring(F))
        BY <4>4, <4>5, MonitorPasses
      <4>7. QED  BY <4>1, <4>6 DEF B, F
    <3>11. QED  BY <3>9, <3>10
  <2>11. QED  BY <2>9, <2>10
<1>15. QED  BY <1>12, <1>13, <1>14

-----------------------------------------------------------------------------
\* A step of the handshake changes where it is, the key stream and the socket.
Turn(S, u, c, k) == [S EXCEPT !.rc = c, !.st = u, !.sk = k]

LEMMA TurnFacts ==
  ASSUME NEW S, MsRec(S), NEW u \in MsStates, NEW c \in Nat, NEW k \in MsSockets,
         NEW T, T = Turn(S, u, c, k)
  PROVE  /\ MsRec(T) /\ T.st = u /\ T.rc = c /\ T.sk = k
         /\ T.read = S.read /\ T.buf = S.buf /\ T.hs = S.hs /\ T.out = S.out
<1>1. S \in MsWorlds  BY DEF MsRec
<1>2. /\ T \in MsWorlds /\ T.st = u /\ T.rc = c /\ T.sk = k
      /\ T.read = S.read /\ T.buf = S.buf /\ T.hs = S.hs /\ T.out = S.out
  BY <1>1 DEF MsWorlds, Turn
<1>3. QED  BY <1>2 DEF MsRec

LEMMA WorldParts ==
  ASSUME NEW S, MsRec(S)
  PROVE  /\ S \in MsWorlds /\ S.read \in Nat /\ S.st \in MsStates /\ S.buf \in Seq(MsBytes) /\ S.rc \in Nat
         /\ S.sk \in MsSockets /\ S.hs \in Seq(MsBytes) /\ S.out \in Seq(MsBytes)
         /\ S.st.s \in MsClient \cup MsServer /\ S.st.off \in Nat /\ S.st.pad \in Nat
         /\ S.sk.enc \in BOOLEAN /\ S.sk.back \in Seq(MsBytes) /\ Len(S.buf) \in Nat
<1>1. /\ S \in MsWorlds /\ S.read \in Nat /\ S.st \in MsStates /\ S.buf \in Seq(MsBytes) /\ S.rc \in Nat
      /\ S.sk \in MsSockets /\ S.hs \in Seq(MsBytes) /\ S.out \in Seq(MsBytes)
  BY DEF MsRec, MsWorlds
<1>2. S.st.s \in MsClient \cup MsServer /\ S.st.off \in Nat /\ S.st.pad \in Nat  BY <1>1 DEF MsStates
<1>3. S.sk.enc \in BOOLEAN /\ S.sk.back \in Seq(MsBytes)  BY <1>1 DEF MsSockets
<1>4. Len(S.buf) \in Nat  BY <1>1, LenProperties
<1>5. QED  BY <1>1, <1>2, <1>3, <1>4

\* What is read early goes to the end of the buffer.
LEMMA BufferFacts ==
  ASSUME MsPlace, NEW S, MsRec(S), Early(S), NEW n \in Nat, S.read + n <= arrived,
         NEW T, T = Buffer(S, n)
  PROVE  /\ MsRec(T) /\ Early(T) /\ T.st = S.st /\ T.rc = S.rc /\ T.read = S.read + n
         /\ Raw(S.buf, 0) => Raw(T.buf, 0)
         /\ Opened(S) => Opened(T)
<1> DEFINE w == Slice(S.read, n)
           o == S.read
           b == S.buf
           a == b \o w
           r == o + n
<1>1. S \in MsWorlds /\ o \in Nat /\ b \in Seq(MsBytes) /\ Len(b) \in Nat  BY WorldParts
<1>2. Len(b) = o  BY DEF Early
<1>3. w \in Seq(MsBytes) /\ Len(w) = n /\ Raw(w, o)  BY <1>1, SliceFacts
<1>4. r \in Nat /\ r <= arrived /\ r = o + n  BY <1>1
<1>5. T = [S EXCEPT !.buf = a, !.read = r]  BY DEF Buffer
<1>6. o = S.read /\ b = S.buf  OBVIOUS
<1> HIDE DEF w, o, b, r
<1>7. /\ a \in Seq(MsBytes) /\ Len(a) = Len(b) + Len(w)
      /\ \A i \in 1 .. Len(b) : a[i] = b[i]
      /\ \A i \in 1 .. Len(w) : a[Len(b) + i] = w[i]
  <2>1. b \in Seq(MsBytes) /\ w \in Seq(MsBytes)  BY <1>1, <1>3
  <2>2. QED  BY <2>1, JoinFacts
<1> HIDE DEF a
<1>8. /\ T \in MsWorlds /\ T.buf = a /\ T.read = r /\ T.st = S.st /\ T.rc = S.rc /\ T.sk = S.sk
      /\ T.hs = S.hs /\ T.out = S.out
  BY <1>1, <1>4, <1>5, <1>7 DEF MsWorlds
<1>9. Len(a) = r  BY <1>1, <1>2, <1>3, <1>4, <1>7
<1>10. ASSUME NEW i \in 1 .. Len(a), i > Len(b) PROVE a[i] = Byte(i)
  <2> DEFINE j == i - o
  <2>1. j \in 1 .. Len(w) /\ o + j = i  BY <1>1, <1>2, <1>3, <1>4, <1>9, <1>10
  <2> HIDE DEF j
  <2>2. a[Len(b) + j] = w[j] /\ w[j] = Byte(o + j)  BY <1>3, <1>7, <2>1 DEF Raw
  <2>3. Len(b) + j = i  BY <1>2, <2>1
  <2>4. QED  BY <2>1, <2>2, <2>3
<1>11. Early(T)  BY <1>8, <1>9 DEF Early
<1>12. MsRec(T)
  <2>1. ASSUME NEW i \in 1 .. Len(a) PROVE a[i].at \in 1 .. Total
    <3>1. i \in Nat /\ i >= 1 /\ i <= Total
      <4>1. arrived <= Total /\ arrived \in Nat /\ Total \in Nat  BY PlaceFacts DEF MsPlace
      <4>2. QED  BY <1>4, <1>9, <4>1
    <3>2. CASE i <= Len(b)
      <4>1. i \in 1 .. Len(b)  BY <1>1, <3>1, <3>2
      <4>2. a[i] = b[i] /\ b[i].at \in 1 .. Total  BY <1>6, <1>7, <4>1 DEF MsRec
      <4>3. QED  BY <4>2
    <3>3. CASE i > Len(b)
      <4>1. a[i] = Byte(i)  BY <1>10, <3>3
      <4>2. Byte(i).at = i  BY <3>1, ByteFacts
      <4>3. Total \in Nat  BY PlaceFacts
      <4>4. QED  BY <3>1, <4>1, <4>2, <4>3
    <3>4. QED  BY <1>1, <3>1, <3>2, <3>3
  <2>2. QED  BY <1>4, <1>8, <2>1 DEF MsRec
<1>13. ASSUME Raw(b, 0) PROVE Raw(a, 0)
  <2>1. Raw(w, 0 + Len(b))
    <3>1. 0 + Len(b) = o  BY <1>1, <1>2
    <3>2. QED  BY <1>3, <3>1
  <2> DEFINE z == 0
  <2>2. z \in Nat /\ Raw(b, z) /\ Raw(w, z + Len(b))  BY <1>13, <2>1
  <2> HIDE DEF z
  <2>3. Raw(b \o w, z)  BY <2>2, RawJoin
  <2>4. QED  BY <2>3 DEF z, a
<1>14. ASSUME Opened(S) PROVE Opened(T)
  <2>1. /\ Clear + SelLen <= Len(b)
        /\ \A i \in 1 .. Len(b) : /\ i > Clear + SelLen => b[i] = Byte(i)
                                  /\ i > Clear /\ i <= Clear + SelLen => b[i].ok
    BY <1>6, <1>14 DEF Opened
  <2>2. Clear \in Nat /\ SelLen \in Nat  BY PlaceFacts
  <2>3. Clear + SelLen <= Len(a)  BY <1>1, <1>2, <1>4, <1>9, <2>1, <2>2
  <2>4. ASSUME NEW i \in 1 .. Len(a)
        PROVE  /\ i > Clear + SelLen => a[i] = Byte(i)
               /\ i > Clear /\ i <= Clear + SelLen => a[i].ok
    <3>1. i \in Nat  BY <1>4, <1>9
    <3>2. CASE i <= Len(b)
      <4>1. i \in 1 .. Len(b)  BY <1>1, <3>1, <3>2
      <4>2. QED  BY <1>7, <2>1, <4>1
    <3>3. CASE i > Len(b)
      <4>1. a[i] = Byte(i)  BY <1>10, <3>3
      <4>2. ~(i <= Clear + SelLen)  BY <1>1, <2>1, <2>2, <3>1, <3>3
      <4>3. QED  BY <4>1, <4>2
    <3>4. QED  BY <1>1, <3>1, <3>2, <3>3
  <2>5. QED  BY <1>8, <1>11, <2>3, <2>4 DEF Opened
<1>15. QED  BY <1>4, <1>6, <1>8, <1>11, <1>12, <1>13, <1>14

-----------------------------------------------------------------------------
\* The side that connects.
LEMMA ClientPlace ==
  ASSUME MsPlace, side = "client"
  PROVE  Crypto = SelLen + pads.second /\ Start = Clear + SelLen + pads.second
<1>1. SelLen \in Nat /\ pads.second \in Nat /\ Clear \in Nat  BY PlaceFacts
<1>2. Crypto = SelLen + pads.second  BY <1>1 DEF Crypto
<1>3. QED  BY <1>1, <1>2 DEF Start

LEMMA FailSound ==
  ASSUME MsPlace, NEW S, MsRec(S)
  PROVE  MsSound(Finish(S, "failed"))
<1>1. "failed" \in MsClient \cup MsServer /\ "failed" \in MsClient /\ "failed" \in MsServer
  BY DEF MsClient, MsServer
<1> DEFINE T == Finish(S, "failed")
<1>2. MsRec(T) /\ T.st.s = "failed"  BY <1>1, FinishFacts
<1> HIDE DEF T
<1>3. ClientSound(T) /\ ServerSound(T)  BY <1>1, <1>2 DEF ClientSound, ServerSound
<1>4. MsSound(T)  BY <1>2, <1>3 DEF MsSound
<1>5. QED  BY <1>4 DEF T

\* The handshake read by the side that connects.
LEMMA ClientBase ==
  ASSUME MsPlace, side = "client", NEW S, MsRec(S), S.st.s = "normal", Aligned(S) \/ Lost(S)
  PROVE  MsSound(BaseRead(S))
<1> DEFINE B == BaseRead(S)
<1>1. /\ MsRec(B) /\ B.st.s \in {"normal", "ok", "failed"}
      /\ (B.st.s = "ok" => Passed(B)) /\ (B.st.s = "normal" => Aligned(B) \/ Lost(B))
  BY BaseReadSound
<1> HIDE DEF B
<1>2. ClientSound(B)  BY <1>1 DEF ClientSound, MsClient
<1>3. MsSound(B)  BY <1>1, <1>2 DEF MsSound
<1>4. QED  BY <1>3 DEF B

\* The pad has been passed, or it is taken for passed.
LEMMA PadDSound ==
  ASSUME MsPlace, side = "client", NEW S, MsRec(S), Early(S), Raw(S.buf, 0), S.rc = SelLen,
         S.st.off = Clear, S.st.pad = pads.second
  PROVE  MsSound(HandlePadD(S))
<1> DEFINE end == S.st.off + SelLen + S.st.pad
           rest == SubSeq(S.buf, end + 1, Len(S.buf))
           u == [S.st EXCEPT !.s = "normal"]
           c == S.rc + S.st.pad
           k == [enc |-> pads.rc4, back |-> S.sk.back \o rest]
           T == Turn(S, u, c, k)
           l == Len(S.buf)
<1>1. /\ S \in MsWorlds /\ S.st \in MsStates /\ S.buf \in Seq(MsBytes) /\ S.sk.back \in Seq(MsBytes)
      /\ l \in Nat
  BY WorldParts
<1>2. /\ Clear \in Nat /\ SelLen \in Nat /\ pads.second \in Nat /\ Start \in Nat /\ Crypto \in Nat
      /\ Start = Clear + SelLen + pads.second /\ Crypto = SelLen + pads.second
      /\ HsLen \in Nat /\ HsLen >= 1
  <2>1. HsLen \in Nat /\ HsLen >= 1 /\ Clear \in Nat /\ SelLen \in Nat /\ pads.second \in Nat
    BY PlaceFacts
  <2>2. Start \in Nat /\ Crypto \in Nat  BY PlaceFacts
  <2>3. QED  BY <2>1, <2>2, ClientPlace
<1>3. end = Start /\ c = Crypto  BY <1>2
<1>4. HandlePadD(S) = IF l > end THEN BaseRead(T) ELSE T
  <2>1. T = [S EXCEPT !.rc = S.rc + S.st.pad, !.st.s = "normal", !.sk = k]  BY Zenon DEF Turn
  <2>2. HandlePadD(S) = IF l > end THEN BaseRead([S EXCEPT !.rc = S.rc + S.st.pad, !.st.s = "normal", !.sk = k])
                        ELSE [S EXCEPT !.rc = S.rc + S.st.pad, !.st.s = "normal", !.sk = k]
    BY DEF HandlePadD
  <2> HIDE DEF T, k, l, end
  <2>3. QED  BY <2>1, <2>2, Zenon
<1>5. S.hs = <<>> /\ S.out = <<>> /\ S.sk.back = <<>> /\ l = S.read  BY DEF Early
<1>6. u \in MsStates /\ u.s = "normal"  BY <1>1 DEF MsStates, MsClient
<1>7. l = Len(S.buf) /\ T = Turn(S, u, c, k)  OBVIOUS
<1>8. rest = SubSeq(S.buf, end + 1, Len(S.buf)) /\ k = [enc |-> pads.rc4, back |-> S.sk.back \o rest]
  OBVIOUS
<1>9. pads.rc4 \in BOOLEAN  BY DEF MsPlace
<1>10. <<>> \in Seq(MsBytes) /\ Len(<<>>) = 0  OBVIOUS
<1> HIDE DEF end, rest, u, c, k, T, l
<1>11. ASSUME rest \in Seq(MsBytes)
       PROVE  /\ MsRec(T) /\ T.st.s = "normal" /\ T.rc = Crypto /\ T.sk.enc = pads.rc4 /\ T.sk.back = rest
              /\ T.read = l /\ T.hs = <<>> /\ T.out = <<>>
  <2>1. <<>> \o rest = rest  BY <1>11, ConcatEmptySeq
  <2>2. k = [enc |-> pads.rc4, back |-> rest]  BY <1>5, <1>8, <2>1
  <2>3. k \in MsSockets /\ k.enc = pads.rc4 /\ k.back = rest  BY <1>9, <1>11, <2>2 DEF MsSockets
  <2>4. c \in Nat  BY <1>2, <1>3
  <2>5. /\ MsRec(T) /\ T.st = u /\ T.rc = c /\ T.sk = k
        /\ T.read = S.read /\ T.hs = S.hs /\ T.out = S.out
    BY <1>6, <1>7, <2>3, <2>4, TurnFacts
  <2>6. QED  BY <1>3, <1>5, <1>6, <2>3, <2>5
<1>12. Meant(<<>>, Start)  BY <1>10 DEF Meant
<1>13. Crypto + 0 = Crypto /\ Start + 0 = Start  BY <1>2
<1>14. CASE l > end
  <2>1. HandlePadD(S) = BaseRead(T)  BY <1>4, <1>14
  <2> DEFINE z == 0
             b == S.buf
  <2>2. z \in Nat /\ Raw(b, z) /\ end \in 0 .. Len(b) /\ Len(b) = l
    <3>1. Start \in 0 .. l  BY <1>1, <1>2, <1>3, <1>14
    <3>2. QED  BY <1>3, <1>7, <3>1
  <2>3. rest = SubSeq(b, end + 1, Len(b))  BY <1>8
  <2>4. z + end = Start  BY <1>2, <1>3
  <2> HIDE DEF z, b
  <2>5. Raw(rest, z + end) /\ Len(rest) = Len(b) - end  BY <2>2, <2>3, RawCut
  <2>6. Raw(rest, Start) /\ Len(rest) = l - Start  BY <1>3, <2>2, <2>4, <2>5
  <2>7. rest \in Seq(MsBytes)  BY <2>6 DEF Raw
  <2>8. Aligned(T)
    <3>1. Start + (l - Start) = l  BY <1>1, <1>2
    <3>2. T.hs = <<>> /\ Len(T.hs) = 0  BY <1>10, <1>11, <2>7
    <3>3. Len(T.hs) < HsLen  BY <1>2, <3>2
    <3>4. Raw(T.sk.back, Start + Len(T.hs)) /\ Start + Len(T.hs) + Len(T.sk.back) = T.read
      BY <1>11, <1>13, <2>6, <2>7, <3>1, <3>2
    <3>5. T.rc = Crypto + Len(T.hs)  BY <1>11, <1>13, <2>7, <3>2
    <3>6. QED  BY <1>11, <1>12, <2>7, <3>2, <3>3, <3>4, <3>5 DEF Aligned
  <2>9. MsSound(BaseRead(T))  BY <1>11, <2>7, <2>8, ClientBase
  <2>10. QED  BY <2>1, <2>9
<1>15. CASE ~(l > end)
  <2>1. HandlePadD(S) = T  BY <1>4, <1>15
  <2>2. rest = <<>>
    <3> DEFINE m == end + 1
    <3>1. m \in Int /\ l \in Int /\ l < m  BY <1>1, <1>2, <1>3, <1>15
    <3>2. rest = SubSeq(S.buf, m, l)  BY <1>7, <1>8
    <3> HIDE DEF m
    <3>3. QED  BY <3>1, <3>2, SubSeqEmpty
  <2>3. rest \in Seq(MsBytes)  BY <1>10, <2>2
  <2>4. Aligned(T) \/ Lost(T)
    <3>1. CASE l = Start
      <4>1. T.hs = <<>> /\ Len(T.hs) = 0 /\ Len(T.sk.back) = 0  BY <1>10, <1>11, <2>2, <2>3
      <4>2. Len(T.hs) < HsLen  BY <1>2, <4>1
      <4>3. Raw(<<>>, Start)  BY <1>10 DEF Raw
      <4>4. Raw(T.sk.back, Start + Len(T.hs)) /\ Start + Len(T.hs) + Len(T.sk.back) = T.read
        BY <1>11, <1>13, <2>2, <2>3, <3>1, <4>1, <4>3
      <4>5. T.rc = Crypto + Len(T.hs)  BY <1>11, <1>13, <2>3, <4>1
      <4>6. QED  BY <1>11, <1>12, <2>3, <4>1, <4>2, <4>4, <4>5 DEF Aligned
    <3>2. CASE l # Start
      <4>1. l < Start  BY <1>1, <1>2, <1>3, <1>15, <3>2
      <4>2. QED  BY <1>11, <2>2, <2>3, <4>1 DEF Lost
    <3>3. QED  BY <3>1, <3>2
  <2>5. MsRec(T) /\ T.st.s = "normal"  BY <1>11, <2>3
  <2>6. ClientSound(T)  BY <2>4, <2>5 DEF ClientSound, MsClient
  <2>7. MsSound(T)  BY <2>5, <2>6 DEF MsSound
  <2>8. QED  BY <2>1, <2>7
<1>16. QED  BY <1>14, <1>15

Forward(S, u, c) == [S EXCEPT !.rc = c, !.st = u]

LEMMA ForwardFacts ==
  ASSUME NEW S, MsRec(S), NEW u \in MsStates, NEW c \in Nat, NEW T, T = Forward(S, u, c)
  PROVE  /\ MsRec(T) /\ T.st = u /\ T.rc = c /\ T.sk = S.sk
         /\ T.read = S.read /\ T.buf = S.buf /\ T.hs = S.hs /\ T.out = S.out
<1>1. S \in MsWorlds  BY DEF MsRec
<1>2. /\ T \in MsWorlds /\ T.st = u /\ T.rc = c /\ T.sk = S.sk
      /\ T.read = S.read /\ T.buf = S.buf /\ T.hs = S.hs /\ T.out = S.out
  BY <1>1 DEF MsWorlds, Forward
<1>3. QED  BY <1>2 DEF MsRec

\* The reply of the other side: the pad is in the buffer, or is waited for.
LEMMA CryptoSelectSound ==
  ASSUME MsPlace, side = "client", NEW S, MsRec(S), Unopened(S), S.st.pad = 0, S.st.off = Clear,
         S.st.s = "foundVc"
  PROVE  MsSound(HandleCryptoSelect(S))
<1> DEFINE sel == Decrypt(SubSeq(S.buf, S.st.off + 1, S.st.off + SelLen), S.rc)
           T == [S EXCEPT !.rc = S.rc + SelLen, !.st.pad = pads.second]
           H == HandleCryptoSelect(S)
           u == [S.st EXCEPT !.pad = pads.second]
           c == S.rc + SelLen
           l == Len(S.buf)
<1>1. H = IF S.st.off + SelLen >= l THEN S
          ELSE IF \E b \in Range(sel) : ~b.ok THEN Finish(S, "failed")
          ELSE IF l <= S.st.off + SelLen + pads.second THEN Finish(T, "waitPadD")
          ELSE HandlePadD(T)
  BY Zenon DEF HandleCryptoSelect, Finish
<1>2. T = Forward(S, u, c)  BY Zenon DEF Forward
<1>3. S.st \in MsStates /\ l \in Nat  BY WorldParts
<1>4. /\ Clear \in Nat /\ SelLen \in Nat /\ pads.second \in Nat /\ Start = Clear + SelLen + pads.second
  <2>1. Clear \in Nat /\ SelLen \in Nat /\ pads.second \in Nat  BY PlaceFacts
  <2>2. QED  BY <2>1, ClientPlace
<1>5. Early(S) /\ S.rc = 0 /\ Raw(S.buf, 0) /\ l = S.read  BY DEF Unopened, Early
<1>6. u \in MsStates /\ u.pad = pads.second /\ u.off = Clear  BY <1>3, <1>4 DEF MsStates
<1>7. c = SelLen  BY <1>4, <1>5
<1> HIDE DEF T, H, u, c, l, sel
<1>8. /\ MsRec(T) /\ T.st = u /\ T.rc = SelLen /\ T.sk = S.sk
      /\ T.read = S.read /\ T.buf = S.buf /\ T.hs = S.hs /\ T.out = S.out
  <2>1. c \in Nat  BY <1>4, <1>7
  <2>2. QED  BY <1>2, <1>6, <1>7, <2>1, ForwardFacts
<1>9. Early(T) /\ Raw(T.buf, 0) /\ T.st.off = Clear /\ T.st.pad = pads.second
  BY <1>5, <1>6, <1>8 DEF Early
<1>10. CASE Clear + SelLen >= l
  <2>1. H = S  BY <1>1, <1>10
  <2>2. ClientSound(S)  BY DEF ClientSound, MsClient
  <2>3. MsSound(S)  BY <2>2 DEF MsSound
  <2>4. QED  BY <2>1, <2>3 DEF H
<1>11. CASE ~(Clear + SelLen >= l) /\ \E b \in Range(sel) : ~b.ok
  <2>1. H = Finish(S, "failed")  BY <1>1, <1>11, Zenon
  <2>2. QED  BY <2>1, FailSound DEF H
<1>12. CASE ~(Clear + SelLen >= l) /\ (~\E b \in Range(sel) : ~b.ok) /\ l <= Clear + SelLen + pads.second
  <2>1. H = Finish(T, "waitPadD")  BY <1>1, <1>12, Zenon
  <2> DEFINE F == Finish(T, "waitPadD")
  <2>2. "waitPadD" \in MsClient \cup MsServer  BY DEF MsClient
  <2>3. /\ MsRec(F) /\ F.st.s = "waitPadD" /\ F.st.off = T.st.off /\ F.st.pad = T.st.pad
        /\ F.read = T.read /\ F.buf = T.buf /\ F.rc = T.rc /\ F.sk = T.sk /\ F.hs = T.hs /\ F.out = T.out
    BY <1>8, <2>2, FinishFacts
  <2> HIDE DEF F
  <2>4. pads.second > 0 /\ l <= Start  BY <1>3, <1>4, <1>12
  <2>5. F.read <= Start /\ F.st.pad > 0  BY <1>5, <1>8, <1>9, <2>3, <2>4
  <2>6. Early(F) /\ Raw(F.buf, 0) /\ F.rc = SelLen /\ F.st.off = Clear /\ F.st.pad = pads.second
    BY <1>8, <1>9, <2>3 DEF Early
  <2>7. ClientSound(F)  BY <2>3, <2>5, <2>6 DEF ClientSound, MsClient
  <2>8. MsSound(F)  BY <2>3, <2>7 DEF MsSound
  <2>9. QED  BY <2>1, <2>8 DEF H, F
<1>13. CASE ~(Clear + SelLen >= l) /\ (~\E b \in Range(sel) : ~b.ok) /\ ~(l <= Clear + SelLen + pads.second)
  <2>1. H = HandlePadD(T)  BY <1>1, <1>13, Zenon
  <2>2. MsSound(HandlePadD(T))  BY <1>8, <1>9, PadDSound
  <2>3. QED  BY <2>1, <2>2 DEF H
<1>14. QED  BY <1>10, <1>11, <1>12, <1>13, Zenon

\* Behind the key the verification constant is found.
LEMMA FindVCSound ==
  ASSUME MsPlace, side = "client", NEW S, MsRec(S), Unopened(S), S.st.pad = 0, S.st.s = "gotYb"
  PROVE  MsSound(FindVC(S))
<1> DEFINE T == [S EXCEPT !.st.s = "foundVc", !.st.off = Clear]
           u == [s |-> "foundVc", off |-> Clear, pad |-> 0]
           c == S.rc
<1>1. FindVC(S) = IF Clear < Len(S.buf) - VcLen THEN HandleCryptoSelect(T)
                  ELSE IF Len(S.buf) >= YLen + MaxPad + VcLen THEN Finish(S, "failed") ELSE S
  BY DEF FindVC
<1>2. S \in MsWorlds /\ S.st \in MsStates /\ c \in Nat  BY WorldParts
<1>3. Clear \in Nat  BY PlaceFacts
<1>4. u \in MsStates /\ u.s = "foundVc" /\ u.off = Clear /\ u.pad = 0  BY <1>3 DEF MsStates, MsClient
<1>5. [[S.st EXCEPT !.s = "foundVc"] EXCEPT !.off = Clear] = u
  <2> DEFINE a == [S.st EXCEPT !.s = "foundVc"]
  <2>1. a = [s |-> "foundVc", off |-> S.st.off, pad |-> S.st.pad]  BY <1>2 DEF MsStates
  <2> HIDE DEF a
  <2>2. [a EXCEPT !.off = Clear] = [s |-> "foundVc", off |-> Clear, pad |-> S.st.pad]  BY <2>1
  <2>3. QED  BY <2>2 DEF a
<1>6. T = [S EXCEPT !.st = u]
  <2> DEFINE a == [S.st EXCEPT !.s = "foundVc"]
             V == [S EXCEPT !.st = a]
  <2>1. T = [V EXCEPT !.st = [V.st EXCEPT !.off = Clear]]  BY Zenon
  <2>2. a \in MsStates  BY <1>2 DEF MsStates, MsClient
  <2>3. [a EXCEPT !.off = Clear] = u  BY <1>5
  <2> HIDE DEF u, a, T
  <2>4. V.st = a /\ [V EXCEPT !.st = u] = [S EXCEPT !.st = u]  BY <1>2 DEF MsWorlds
  <2> HIDE DEF V
  <2>5. QED  BY <2>1, <2>3, <2>4
<1>7. T = Forward(S, u, c)
  <2> HIDE DEF u, T
  <2>1. QED  BY <1>2, <1>6 DEF Forward, MsWorlds
<1> HIDE DEF T, u, c
<1>8. /\ MsRec(T) /\ T.st = u /\ T.rc = c /\ T.sk = S.sk
      /\ T.read = S.read /\ T.buf = S.buf /\ T.hs = S.hs /\ T.out = S.out
  BY <1>2, <1>4, <1>7, ForwardFacts
<1>9. Unopened(T)
  <2>1. c = S.rc  BY DEF c
  <2>2. QED  BY <1>8, <2>1 DEF Unopened, Early
<1>10. MsSound(HandleCryptoSelect(T))  BY <1>4, <1>8, <1>9, CryptoSelectSound
<1>11. MsSound(Finish(S, "failed"))  BY FailSound
<1>12. MsSound(S)
  <2>1. ClientSound(S)  BY DEF ClientSound, MsClient
  <2>2. QED  BY <2>1 DEF MsSound
<1>13. QED  BY <1>1, <1>10, <1>11, <1>12, Zenon

\* Whatever arrives, the side that connects stays sound.
LEMMA ClientReadSound ==
  ASSUME MsPlace, side = "client", NEW S, MsSound(S), S.st.s \notin {"ok", "failed"}
  PROVE  MsSound(ClientRead(S))
<1> DEFINE n == ReadSize(S)
           T == Buffer(S, n)
<1>1. MsRec(S) /\ ClientSound(S)  BY DEF MsSound
<1>2. S.read \in Nat /\ S.read <= arrived /\ arrived \in Nat /\ Len(S.buf) \in Nat
  BY <1>1, WorldParts DEF MsRec, MsPlace
<1>3. n = ReadSize(S) /\ T = Buffer(S, n)  OBVIOUS
<1>4. ASSUME S.st.pad = 0
      PROVE  n \in Nat /\ S.read + n <= arrived
  <2>1. n = arrived - S.read  BY <1>4 DEF ReadSize, Waiting
  <2>2. QED  BY <1>2, <2>1
<1>5. CASE S.st.s \in {"sentYa", "gotYb", "foundVc"}
  <2>1. Unopened(S) /\ Early(S) /\ S.st.pad = 0 /\ Raw(S.buf, 0)
    BY <1>1, <1>5 DEF ClientSound, Unopened
  <2>2. n \in Nat /\ S.read + n <= arrived  BY <1>4, <2>1
  <2> HIDE DEF n
  <2>3. MsRec(T) /\ Early(T) /\ T.st = S.st /\ T.rc = S.rc /\ Raw(T.buf, 0)
    <3> HIDE DEF T
    <3>1. QED  BY <1>1, <1>3, <2>1, <2>2, BufferFacts
  <2>4. T.rc = 0  BY <2>1, <2>3 DEF Unopened
  <2>5. Unopened(T) /\ T.st.pad = 0  BY <2>1, <2>3, <2>4 DEF Unopened
  <2>6. CASE S.st.s = "sentYa"
    <3>1. ClientRead(S) = HandleYB(T)  BY <1>3, <2>6 DEF ClientRead
    <3> HIDE DEF T
    <3>2. MsSound(HandleYB(T))
      <4> DEFINE F == Finish(T, "gotYb")
      <4>1. HandleYB(T) = IF Len(T.buf) < YLen THEN Finish(T, "failed") ELSE FindVC(F)
        BY DEF HandleYB, Finish
      <4>2. "gotYb" \in MsClient \cup MsServer  BY DEF MsClient
      <4>3. /\ MsRec(F) /\ F.st.s = "gotYb" /\ F.st.pad = T.st.pad
            /\ F.read = T.read /\ F.buf = T.buf /\ F.rc = T.rc /\ F.sk = T.sk /\ F.hs = T.hs /\ F.out = T.out
        BY <2>3, <4>2, FinishFacts
      <4> HIDE DEF F
      <4>4. Unopened(F) /\ F.st.pad = 0  BY <2>5, <4>3 DEF Unopened, Early
      <4>5. MsSound(FindVC(F))  BY <4>3, <4>4, FindVCSound
      <4>6. MsSound(Finish(T, "failed"))  BY <2>3, FailSound
      <4>7. QED  BY <4>1, <4>5, <4>6, Zenon
    <3>3. QED  BY <3>1, <3>2
  <2>7. CASE S.st.s = "gotYb"
    <3>1. ClientRead(S) = FindVC(T)  BY <1>3, <2>7 DEF ClientRead
    <3> HIDE DEF T
    <3>2. T.st.s = "gotYb"  BY <2>3, <2>7
    <3>3. MsSound(FindVC(T))  BY <2>3, <2>5, <3>2, FindVCSound
    <3>4. QED  BY <3>1, <3>3
  <2>8. CASE S.st.s = "foundVc"
    <3>1. ClientRead(S) = HandleCryptoSelect(T)  BY <1>3, <2>8 DEF ClientRead
    <3>2. S.st.off = Clear  BY <1>1, <2>8 DEF ClientSound
    <3> HIDE DEF T
    <3>3. T.st.s = "foundVc" /\ T.st.off = Clear  BY <2>3, <2>8, <3>2
    <3>4. MsSound(HandleCryptoSelect(T))  BY <2>3, <2>5, <3>3, CryptoSelectSound
    <3>5. QED  BY <3>1, <3>4
  <2>9. QED  BY <1>5, <2>6, <2>7, <2>8
<1>6. CASE S.st.s = "waitPadD"
  <2>1. /\ Early(S) /\ Raw(S.buf, 0) /\ S.rc = SelLen /\ S.st.off = Clear
        /\ S.st.pad = pads.second /\ S.st.pad > 0 /\ S.read <= Start
    BY <1>1, <1>6 DEF ClientSound
  <2>2. n \in Nat /\ S.read + n <= arrived
    <3> DEFINE o == S.read
               e == S.st.off + SelLen + S.st.pad - Len(S.buf)
               w == arrived - o
    <3>1. n = IF w < e THEN w ELSE e  BY <2>1 DEF ReadSize, Waiting, Smaller
    <3>2. Clear \in Nat /\ SelLen \in Nat /\ pads.second \in Nat /\ Start = Clear + SelLen + pads.second
      <4>1. Clear \in Nat /\ SelLen \in Nat /\ pads.second \in Nat  BY PlaceFacts
      <4>2. QED  BY <4>1, ClientPlace
    <3>3. Len(S.buf) = o  BY <2>1 DEF Early
    <3>4. e = Start - o
      <4>1. e = Clear + SelLen + pads.second - o  BY <2>1, <3>3
      <4>2. o \in Nat /\ pads.second \in Nat  BY <1>2, <3>2
      <4> DEFINE q == pads.second
      <4>3. q \in Nat /\ e = Clear + SelLen + q - o /\ Start = Clear + SelLen + q  BY <3>2, <4>1, <4>2
      <4> HIDE DEF e, o, q
      <4>4. QED  BY <3>2, <4>2, <4>3
    <3>5. o \in Nat /\ o <= arrived /\ arrived \in Nat /\ o <= Start /\ Start \in Nat
      BY <1>2, <2>1, PlaceFacts
    <3> HIDE DEF o, e, n
    <3>6. n \in Nat /\ o + n <= arrived  BY <3>1, <3>4, <3>5
    <3>7. QED  BY <3>6 DEF o
  <2>3. ClientRead(S) = HandlePadD(T)  BY <1>6 DEF ClientRead
  <2> HIDE DEF n, T
  <2>4. MsRec(T) /\ Early(T) /\ T.st = S.st /\ T.rc = S.rc /\ Raw(T.buf, 0)
    BY <1>1, <1>3, <2>1, <2>2, BufferFacts
  <2>5. MsSound(HandlePadD(T))  BY <2>1, <2>4, PadDSound
  <2>6. QED  BY <2>3, <2>5
<1>7. CASE S.st.s = "normal"
  <2>1. ClientRead(S) = BaseRead(S)  BY <1>7 DEF ClientRead
  <2>2. Aligned(S) \/ Lost(S)  BY <1>1, <1>7 DEF ClientSound
  <2>3. MsSound(BaseRead(S))  BY <1>1, <1>7, <2>2, ClientBase
  <2>4. QED  BY <2>1, <2>3
<1>8. QED  BY <1>1, <1>5, <1>6, <1>7 DEF ClientSound, MsClient

-----------------------------------------------------------------------------
\* The side that accepts.
LEMMA ServerPlace ==
  ASSUME MsPlace, side = "server"
  PROVE  /\ Clear = YLen + pads.first + 2 * HashLen /\ Crypto = SelLen + pads.second + 1
         /\ Start = YLen + pads.first + 2 * HashLen + SelLen + pads.second + 1
         /\ pads.rc4
<1>1. /\ SelLen \in Nat /\ pads.second \in Nat /\ Clear \in Nat /\ YLen \in Nat /\ pads.first \in Nat
      /\ HashLen \in Nat
  BY PlaceFacts
<1>2. Clear = YLen + pads.first + 2 * HashLen /\ Crypto = SelLen + pads.second + 1  BY DEF Crypto, Clear
<1>3. pads.rc4  BY DEF MsPlace
<1>4. Start = YLen + pads.first + 2 * HashLen + SelLen + pads.second + 1
  <2> DEFINE a == pads.first
             b == pads.second
  <2>1. a \in Nat /\ b \in Nat  BY <1>1
  <2>2. Start = (YLen + a + 2 * HashLen) + (SelLen + b + 1)  BY <1>2 DEF Start
  <2> HIDE DEF a, b
  <2>3. Start = YLen + a + 2 * HashLen + SelLen + b + 1  BY <1>1, <2>1, <2>2
  <2>4. QED  BY <2>3 DEF a, b
<1>5. QED  BY <1>2, <1>3, <1>4

\* Where the parts of the buffer are: before the encrypted part, and behind it.
LEMMA ServerParts ==
  ASSUME MsPlace, side = "server", NEW x, x = YLen + pads.first
  PROVE  /\ x + 2 * HashLen = Clear /\ x + 2 * HashLen + SelLen = Clear + SelLen
         /\ x + 2 * HashLen + SelLen + pads.second + 1 = Start
         /\ x \in Nat
<1> DEFINE a == pads.first
           b == pads.second
<1>1. /\ SelLen \in Nat /\ b \in Nat /\ YLen \in Nat /\ a \in Nat /\ HashLen \in Nat
  BY PlaceFacts
<1>2. /\ Clear = YLen + a + 2 * HashLen
      /\ Start = YLen + a + 2 * HashLen + SelLen + b + 1 /\ x = YLen + a
  BY ServerPlace
<1> HIDE DEF a, b
<1>3. /\ x + 2 * HashLen = Clear /\ x + 2 * HashLen + SelLen = Clear + SelLen
      /\ x + 2 * HashLen + SelLen + b + 1 = Start /\ x \in Nat
  BY <1>1, <1>2
<1>4. QED  BY <1>3 DEF b

LEMMA ServerBase ==
  ASSUME MsPlace, side = "server", NEW S, MsRec(S), S.st.s = "normal", Aligned(S) \/ Astray(S)
  PROVE  MsSound(BaseRead(S))
<1> DEFINE B == BaseRead(S)
<1>1. /\ MsRec(B) /\ B.st.s \in {"normal", "ok", "failed"}
      /\ (B.st.s = "ok" => Passed(B))
      /\ (B.st.s = "normal" => (Aligned(S) /\ Aligned(B)) \/ (Lost(S) /\ Lost(B)))
  BY BaseReadSound
<1>2. ~Lost(S)
  <2>1. ASSUME Lost(S) PROVE FALSE
    <3>1. S.hs = <<>> /\ S.sk.back = <<>> /\ S.read < Start  BY <2>1 DEF Lost
    <3>2. Len(<<>>) = 0  OBVIOUS
    <3>3. HsLen \in Nat /\ HsLen >= 1 /\ Start \in Nat  BY PlaceFacts
    <3>4. CASE Aligned(S)
      <4>1. Start + 0 + 0 = S.read  BY <3>1, <3>2, <3>4 DEF Aligned
      <4>2. QED  BY <3>1, <3>3, <4>1
    <3>5. CASE Astray(S)
      <4>1. 0 >= HsLen  BY <3>1, <3>2, <3>5 DEF Astray
      <4>2. QED  BY <3>3, <4>1
    <3>6. QED  BY <3>4, <3>5
  <2>2. QED  BY <2>1
<1> HIDE DEF B
<1>3. ServerSound(B)  BY <1>1, <1>2 DEF ServerSound, MsServer
<1>4. MsSound(B)  BY <1>1, <1>3 DEF MsSound
<1>5. QED  BY <1>4 DEF B

\* What lies behind the encrypted part of the buffer was not touched.
LEMMA OpenedRest ==
  ASSUME MsPlace, NEW S, MsRec(S), Opened(S), Start <= Len(S.buf)
  PROVE  /\ Raw(SubSeq(S.buf, Start + 1, Len(S.buf)), Start)
         /\ Len(SubSeq(S.buf, Start + 1, Len(S.buf))) = S.read - Start
<1> DEFINE b == S.buf
           l == Len(b)
           r == SubSeq(b, Start + 1, l)
<1>1. b \in Seq(MsBytes) /\ l \in Nat  BY WorldParts
<1>2. /\ Start \in Nat /\ Clear \in Nat /\ SelLen \in Nat /\ Clear + SelLen <= Start
  <2> DEFINE q == pads.second
  <2>1. /\ Start \in Nat /\ Clear \in Nat /\ SelLen \in Nat /\ q \in Nat /\ Crypto \in Nat
        /\ SelLen + q <= Crypto /\ Start = Clear + Crypto
    BY PlaceFacts
  <2> HIDE DEF q
  <2>2. QED  BY <2>1
<1>3. l = S.read /\ \A i \in 1 .. l : i > Clear + SelLen => b[i] = Byte(i)  BY DEF Opened, Early
<1>4. Start \in 0 .. l /\ l = Len(b)  BY <1>1, <1>2
<1>5. b = S.buf  OBVIOUS
<1> HIDE DEF b, l
<1>6. r \in Seq(MsBytes) /\ Len(r) = l - Start  BY <1>1, <1>4, CutFacts
<1>7. \A i \in 1 .. l - Start : r[i] = b[Start + i]  BY <1>1, <1>4, TailFacts
<1> HIDE DEF r
<1>8. ASSUME NEW i \in 1 .. Len(r) PROVE r[i] = Byte(Start + i)
  <2> DEFINE j == Start + i
  <2>1. i \in 1 .. l - Start /\ j \in 1 .. l /\ j > Clear + SelLen  BY <1>1, <1>2, <1>4, <1>6
  <2>2. r[i] = b[j]  BY <1>7, <2>1
  <2> HIDE DEF j
  <2>3. b[j] = Byte(j)  BY <1>3, <2>1
  <2>4. QED  BY <2>2, <2>3 DEF j
<1>9. Raw(r, Start)  BY <1>6, <1>8 DEF Raw
<1>10. QED  BY <1>3, <1>4, <1>5, <1>6, <1>9 DEF r

\* Waiting for the rest of the encrypted part, or of the handshake behind it.
ServerWaits(S) == /\ S.st.s \in {"foundHash", "waitPadC", "waitIa"} /\ S.st.off = YLen + pads.first
                  /\ Opened(S)

LEMMA ServerStays ==
  ASSUME MsPlace, side = "server", NEW S, MsRec(S), ServerWaits(S),
         S.st.s = "waitPadC" => S.rc = SelLen \/ S.rc >= Crypto,
         S.st.s = "waitIa" => S.rc >= Crypto
  PROVE  MsSound(S)
<1>1. ServerSound(S)  BY DEF ServerSound, MsServer, ServerWaits
<1>2. S.st.s # "ok"  BY DEF ServerWaits
<1>3. QED  BY <1>1, <1>2 DEF MsSound

\* The first handshake is read when all of it is in the buffer. The key stream is
\* \* in its place, or beyond it: then the handshake turns out wrong.
LEMMA IASound ==
  ASSUME MsPlace, side = "server", NEW S, MsRec(S), ServerWaits(S), S.rc >= Crypto
  PROVE  MsSound(HandleIA(S))
<1> DEFINE off == S.st.off + 2 * HashLen + SelLen + pads.second + 1
           rest == SubSeq(S.buf, off + 1, Len(S.buf))
           T == [S EXCEPT !.st.s = "normal", !.sk = [enc |-> TRUE, back |-> S.sk.back \o rest]]
           u == [S.st EXCEPT !.s = "normal"]
           k == [enc |-> TRUE, back |-> S.sk.back \o rest]
           c == S.rc
           l == Len(S.buf)
<1>1. HandleIA(S) = IF l < off + HsLen THEN S ELSE BaseRead(T)  BY DEF HandleIA
<1>2. off = Start
  <2>1. S.st.off = YLen + pads.first  BY DEF ServerWaits
  <2>2. QED  BY <2>1, ServerParts
<1>3. S \in MsWorlds /\ S.st \in MsStates /\ S.sk \in MsSockets /\ c \in Nat /\ l \in Nat  BY WorldParts
<1>4. Start \in Nat /\ HsLen \in Nat /\ HsLen >= 1 /\ Crypto \in Nat  BY PlaceFacts
<1>5. u \in MsStates /\ u.s = "normal"  BY <1>3 DEF MsStates, MsClient
<1>6. T = [S EXCEPT !.st = u, !.sk = k]  BY Zenon
<1>7. S.hs = <<>> /\ S.out = <<>> /\ S.sk.back = <<>> /\ l = S.read  BY DEF ServerWaits, Opened, Early
<1>8. rest = SubSeq(S.buf, off + 1, Len(S.buf)) /\ k = [enc |-> TRUE, back |-> S.sk.back \o rest]
      /\ l = Len(S.buf) /\ c = S.rc
  OBVIOUS
<1> HIDE DEF off, rest, T, u, k, c, l
<1>9. CASE l < off + HsLen
  <2>1. HandleIA(S) = S  BY <1>1, <1>9
  <2>2. QED  BY <2>1, ServerStays
<1>10. CASE ~(l < off + HsLen)
  <2>1. HandleIA(S) = BaseRead(T)  BY <1>1, <1>10
  <2>2. Start <= l /\ l - Start >= HsLen  BY <1>2, <1>3, <1>4, <1>10
  <2>3. Raw(rest, Start) /\ Len(rest) = l - Start
    <3>1. Opened(S) /\ Start <= Len(S.buf)  BY <1>8, <2>2 DEF ServerWaits
    <3>2. /\ Raw(SubSeq(S.buf, Start + 1, Len(S.buf)), Start)
          /\ Len(SubSeq(S.buf, Start + 1, Len(S.buf))) = S.read - Start
      BY <3>1, OpenedRest
    <3>3. QED  BY <1>2, <1>7, <1>8, <3>2
  <2>4. rest \in Seq(MsBytes)  BY <2>3 DEF Raw
  <2>5. k = [enc |-> TRUE, back |-> rest]
    <3>1. <<>> \o rest = rest  BY <2>4, ConcatEmptySeq
    <3>2. QED  BY <1>7, <1>8, <3>1
  <2>6. k \in MsSockets /\ k.enc = TRUE /\ k.back = rest  BY <2>4, <2>5 DEF MsSockets
  <2>7. T = Turn(S, u, c, k)
    <3>1. S.rc = c  BY <1>8
    <3>2. QED  BY <1>3, <1>6, <3>1 DEF Turn, MsWorlds
  <2>8. /\ MsRec(T) /\ T.st = u /\ T.rc = c /\ T.sk = k
        /\ T.read = S.read /\ T.hs = S.hs /\ T.out = S.out
    BY <1>3, <1>5, <2>6, <2>7, TurnFacts
  <2>9. T.sk.enc = TRUE /\ T.sk.back = rest /\ T.hs = <<>> /\ T.out = <<>> /\ T.read = l /\ T.st.s = "normal"
    BY <1>5, <1>7, <2>6, <2>8
  <2>10. pads.rc4 /\ pads.rc4 \in BOOLEAN  BY DEF MsPlace
  <2>11. CASE c = Crypto
    <3>1. Len(<<>>) = 0 /\ <<>> \in Seq(MsBytes)  OBVIOUS
    <3>2. Len(T.hs) = 0 /\ Len(T.hs) < HsLen  BY <1>4, <2>9, <3>1
    <3>3. Meant(T.hs, Start)  BY <2>9, <3>1 DEF Meant
    <3>4. Start + 0 = Start /\ Start + 0 + (l - Start) = l /\ Crypto + 0 = Crypto  BY <1>3, <1>4
    <3>5. Raw(T.sk.back, Start + Len(T.hs)) /\ Start + Len(T.hs) + Len(T.sk.back) = T.read
          /\ T.rc = Crypto + Len(T.hs)
      BY <2>3, <2>8, <2>9, <2>11, <3>2, <3>4
    <3>6. T.sk.enc = pads.rc4  BY <2>9, <2>10
    <3>7. Aligned(T)  BY <2>9, <3>2, <3>3, <3>5, <3>6 DEF Aligned
    <3>8. MsSound(BaseRead(T))  BY <2>8, <2>9, <3>7, ServerBase
    <3>9. QED  BY <2>1, <3>8
  <2>12. CASE c # Crypto
    <3>1. Len(T.sk.back) >= HsLen  BY <2>2, <2>3, <2>9
    <3>2. Astray(T)  BY <2>3, <2>8, <2>9, <2>10, <2>12, <3>1 DEF Astray
    <3>3. MsSound(BaseRead(T))  BY <2>8, <2>9, <3>2, ServerBase
    <3>4. QED  BY <2>1, <3>3
  <2>13. QED  BY <2>11, <2>12
<1>11. QED  BY <1>9, <1>10

\* Behind the pad is the length of the first handshake.
LEMMA PadCSound ==
  ASSUME MsPlace, side = "server", NEW S, MsRec(S), ServerWaits(S), S.st.s # "waitIa",
         S.rc = SelLen \/ S.rc >= Crypto
  PROVE  MsSound(HandlePadC(S))
<1> DEFINE q == pads.second
           off == S.st.off + 2 * HashLen + SelLen
           c == S.rc + q + 1
           T == [S EXCEPT !.rc = c]
           u == S.st
           l == Len(S.buf)
<1>1. HandlePadC(S) = IF l < off + pads.second + 1 THEN S
                      ELSE IF l < off + HsLen THEN Finish(T, "waitIa") ELSE HandleIA(T)
  BY DEF HandlePadC, Finish
<1>2. S \in MsWorlds /\ u \in MsStates /\ S.rc \in Nat  BY WorldParts
<1>3. Crypto \in Nat /\ SelLen \in Nat /\ q \in Nat /\ Crypto = SelLen + q + 1  BY PlaceFacts, ServerPlace
<1>4. c \in Nat /\ c >= Crypto
  <2> DEFINE x == S.rc
  <2>1. x \in Nat /\ (x = SelLen \/ x >= Crypto) /\ c = x + q + 1  BY <1>2
  <2> HIDE DEF x, q, c
  <2>2. QED  BY <1>3, <2>1
<1>5. T = [S EXCEPT !.rc = c] /\ u = S.st  OBVIOUS
<1> HIDE DEF q, off, c, T, u, l
<1>6. T = Forward(S, u, c)  BY <1>2, <1>5 DEF Forward, MsWorlds
<1>7. /\ MsRec(T) /\ T.st = u /\ T.rc = c /\ T.sk = S.sk
      /\ T.read = S.read /\ T.buf = S.buf /\ T.hs = S.hs /\ T.out = S.out
  BY <1>2, <1>4, <1>6, ForwardFacts
<1>8. ServerWaits(T)  BY <1>5, <1>7 DEF ServerWaits, Opened, Early
<1>9. MsSound(S)  BY ServerStays
<1>10. MsSound(HandleIA(T))
  <2>1. T.rc >= Crypto  BY <1>4, <1>7
  <2>2. QED  BY <1>7, <1>8, <2>1, IASound
<1>11. MsSound(Finish(T, "waitIa"))
  <2> DEFINE F == Finish(T, "waitIa")
  <2>1. "waitIa" \in MsClient \cup MsServer  BY DEF MsServer
  <2>2. /\ MsRec(F) /\ F.st.s = "waitIa" /\ F.st.off = T.st.off
        /\ F.read = T.read /\ F.buf = T.buf /\ F.rc = T.rc /\ F.sk = T.sk /\ F.hs = T.hs /\ F.out = T.out
    BY <1>7, <2>1, FinishFacts
  <2> HIDE DEF F
  <2>3. ServerWaits(F)  BY <1>8, <2>2 DEF ServerWaits, Opened, Early
  <2>4. F.rc >= Crypto  BY <1>4, <1>7, <2>2
  <2>5. MsSound(F)  BY <2>2, <2>3, <2>4, ServerStays
  <2>6. QED  BY <2>5 DEF F
<1>12. QED  BY <1>1, <1>9, <1>10, <1>11, Zenon

\* The part of a buffer behind place p is decrypted in place.
PartOpened(b, p, n, v, a) ==
  /\ v \in Seq(MsBytes) /\ Len(v) = n
  /\ \A i \in 1 .. n : v[i].at = b[p + i].at
  /\ b[p + 1].ok => ~v[1].ok
  /\ a \in Seq(MsBytes) /\ Len(a) = Len(b)
  /\ \A i \in 1 .. Len(b) : i <= p => a[i] = b[i]
  /\ \A i \in 1 .. Len(b) : i > p + n => a[i] = b[i]
  /\ \A i \in 1 .. n : a[p + i] = v[i]

LEMMA DecryptPart ==
  ASSUME NEW b \in Seq(MsBytes), NEW p \in Nat, NEW n \in Nat, n >= 1, p + n <= Len(b), NEW c \in Nat,
         NEW v, v = Decrypt(SubSeq(b, p + 1, p + n), c),
         NEW a, a = (SubSeq(b, 1, p) \o v) \o SubSeq(b, p + n + 1, Len(b))
  PROVE  PartOpened(b, p, n, v, a)
<1> DEFINE l == Len(b)
           q == p + n
           m == SubSeq(b, p + 1, q)
           x == SubSeq(b, 1, p)
           z == SubSeq(b, q + 1, l)
           y == x \o v
<1>1. l \in Nat /\ q \in Nat /\ q <= l /\ \A i \in 1 .. l : b[i] \in MsBytes
  BY LenProperties, ElementOfSeq
<1>2. p \in 0 .. l /\ q \in 0 .. l  BY <1>1
<1>3. l = Len(b) /\ q = p + n /\ a = y \o z /\ v = Decrypt(m, c)  OBVIOUS
<1> HIDE DEF l, q
<1>4. m \in Seq(MsBytes) /\ Len(m) = n /\ \A i \in 1 .. n : m[i] = b[p + i]
  <2> DEFINE s == p + 1
  <2>1. s \in Int /\ q \in Int /\ s <= q /\ q - s + 1 = n  BY <1>1, <1>3
  <2>2. \A i \in s .. q : b[i] \in MsBytes  BY <1>1
  <2>3. m = SubSeq(b, s, q) /\ s = p + 1  OBVIOUS
  <2> HIDE DEF s, m
  <2>4. /\ SubSeq(b, s, q) \in Seq(MsBytes) /\ Len(SubSeq(b, s, q)) = IF s <= q THEN q - s + 1 ELSE 0
        /\ \A i \in 1 .. q - s + 1 : SubSeq(b, s, q)[i] = b[s + i - 1]
    BY <2>1, <2>2, SubSeqProperties
  <2>5. ASSUME NEW i \in 1 .. n PROVE m[i] = b[p + i]
    <3>1. i \in 1 .. q - s + 1 /\ s + i - 1 = p + i  BY <2>1, <2>3
    <3>2. QED  BY <2>3, <2>4, <3>1
  <2>6. QED  BY <2>1, <2>3, <2>4, <2>5
<1>5. /\ x \in Seq(MsBytes) /\ Len(x) = p /\ \A i \in 1 .. p : x[i] = b[i]
  BY <1>2, <1>3, CutFacts
<1>6. z \in Seq(MsBytes) /\ Len(z) = l - q /\ \A i \in 1 .. l - q : z[i] = b[q + i]
  BY <1>2, <1>3, CutFacts, TailFacts
<1> HIDE DEF m, x, z
<1>7. /\ v \in Seq(MsBytes) /\ Len(v) = n
      /\ \A i \in 1 .. n : v[i].at = m[i].at
      /\ \A i \in 1 .. n : m[i].ok => ~v[i].ok
  <2>1. /\ Decrypt(m, c) \in Seq(MsBytes) /\ Len(Decrypt(m, c)) = Len(m)
        /\ \A i \in 1 .. Len(m) : Decrypt(m, c)[i].at = m[i].at
        /\ \A i \in 1 .. Len(m) : m[i].ok \/ m[i].key # c + i => ~Decrypt(m, c)[i].ok
    BY <1>4, DecryptFacts
  <2>2. QED  BY <1>3, <1>4, <2>1
<1>8. 1 \in 1 .. n  OBVIOUS
<1>9. \A i \in 1 .. n : v[i].at = b[p + i].at  BY <1>4, <1>7
<1>10. b[p + 1].ok => ~v[1].ok  BY <1>4, <1>7, <1>8
<1>11. x \in Seq(MsBytes) /\ v \in Seq(MsBytes) /\ z \in Seq(MsBytes)  BY <1>5, <1>6, <1>7
<1>12. /\ y \in Seq(MsBytes) /\ Len(y) = q
       /\ \A i \in 1 .. p : y[i] = x[i]
       /\ \A i \in 1 .. n : y[p + i] = v[i]
  <2>1. /\ x \o v \in Seq(MsBytes) /\ Len(x \o v) = Len(x) + Len(v)
        /\ \A i \in 1 .. Len(x) : (x \o v)[i] = x[i]
        /\ \A i \in 1 .. Len(v) : (x \o v)[Len(x) + i] = v[i]
    BY <1>11, JoinFacts
  <2>2. y = x \o v /\ Len(x) = p /\ Len(v) = n  BY <1>5, <1>7
  <2> HIDE DEF y
  <2>3. QED  BY <1>3, <2>1, <2>2
<1> HIDE DEF y
<1>13. /\ a \in Seq(MsBytes) /\ Len(a) = l
       /\ \A i \in 1 .. q : a[i] = y[i]
       /\ \A i \in 1 .. l - q : a[q + i] = z[i]
  <2>1. /\ y \o z \in Seq(MsBytes) /\ Len(y \o z) = Len(y) + Len(z)
        /\ \A i \in 1 .. Len(y) : (y \o z)[i] = y[i]
        /\ \A i \in 1 .. Len(z) : (y \o z)[Len(y) + i] = z[i]
    <3>1. y \in Seq(MsBytes)  BY <1>12
    <3>2. QED  BY <1>11, <3>1, JoinFacts
  <2>2. Len(y) = q /\ Len(z) = l - q  BY <1>6, <1>12
  <2>3. q + (l - q) = l  BY <1>1
  <2>4. QED  BY <1>3, <2>1, <2>2, <2>3
<1>14. ASSUME NEW i \in 1 .. l, i <= p PROVE a[i] = b[i]
  <2>1. i \in 1 .. p /\ i \in 1 .. q  BY <1>1, <1>3, <1>14
  <2>2. QED  BY <1>5, <1>12, <1>13, <2>1
<1>15. ASSUME NEW i \in 1 .. l, i > q PROVE a[i] = b[i]
  <2> DEFINE j == i - q
  <2>1. j \in 1 .. l - q /\ q + j = i  BY <1>1, <1>15
  <2> HIDE DEF j
  <2>2. a[q + j] = z[j] /\ z[j] = b[q + j]  BY <1>6, <1>13, <2>1
  <2>3. QED  BY <2>1, <2>2
<1>16. ASSUME NEW i \in 1 .. n PROVE a[p + i] = v[i]
  <2>1. p + i \in 1 .. q  BY <1>3
  <2>2. QED  BY <1>12, <1>13, <2>1
<1>17. QED  BY <1>3, <1>7, <1>9, <1>10, <1>13, <1>14, <1>15, <1>16 DEF PartOpened

\* The verification constant is decrypted in place; a second time it is junk.
LEMMA ProcessVCSound ==
  ASSUME MsPlace, side = "server", NEW S, MsRec(S), S.st.s = "foundHash",
         S.st.off = YLen + pads.first, Unopened(S) \/ Opened(S)
  PROVE  MsSound(ProcessVC(S))
<1> DEFINE off == S.st.off + 2 * HashLen
           v == Decrypt(SubSeq(S.buf, off + 1, off + SelLen), S.rc)
           a == SubSeq(S.buf, 1, off) \o v \o SubSeq(S.buf, off + SelLen + 1, Len(S.buf))
           e == S.rc + SelLen
           T == [S EXCEPT !.rc = e, !.buf = a]
           b == S.buf
           l == Len(b)
           H == ProcessVC(S)
<1>1. H = IF l < off + SelLen THEN S
          ELSE IF \E x \in Range(v) : ~x.ok THEN Finish(T, "failed")
          ELSE IF l < S.st.off + SelLen + pads.second THEN Finish(T, "waitPadC")
          ELSE HandlePadC(T)
  BY Zenon DEF ProcessVC, Finish
<1>2. off = Clear  BY ServerParts
<1>3. S \in MsWorlds /\ b \in Seq(MsBytes) /\ S.rc \in Nat /\ l \in Nat  BY WorldParts
<1>4. Clear \in Nat /\ SelLen \in Nat /\ SelLen >= 1 /\ Total \in Nat /\ Crypto \in Nat  BY PlaceFacts
<1>5. Early(S) /\ l = S.read  BY DEF Unopened, Opened, Early
<1>6. /\ v = Decrypt(SubSeq(b, off + 1, off + SelLen), S.rc)
      /\ a = (SubSeq(b, 1, off) \o v) \o SubSeq(b, off + SelLen + 1, Len(b))
      /\ l = Len(b) /\ b = S.buf /\ T = [S EXCEPT !.rc = e, !.buf = a] /\ e = S.rc + SelLen
  OBVIOUS
<1> HIDE DEF off, v, a, e, T, l, H, b
<1>7. CASE l < Clear + SelLen
  <2>1. H = S  BY <1>1, <1>2, <1>7
  <2>2. ServerSound(S)  BY DEF ServerSound, MsServer
  <2>3. MsSound(S)  BY <2>2 DEF MsSound
  <2>4. QED  BY <2>1, <2>3 DEF H
<1>8. CASE ~(l < Clear + SelLen)
  <2>1. Clear + SelLen <= Len(b)  BY <1>3, <1>4, <1>6, <1>8
  <2>2. /\ v \in Seq(MsBytes) /\ Len(v) = SelLen
        /\ \A i \in 1 .. SelLen : v[i].at = b[Clear + i].at
        /\ b[Clear + 1].ok => ~v[1].ok
        /\ a \in Seq(MsBytes) /\ Len(a) = Len(b)
        /\ \A i \in 1 .. Len(b) : i <= Clear => a[i] = b[i]
        /\ \A i \in 1 .. Len(b) : i > Clear + SelLen => a[i] = b[i]
        /\ \A i \in 1 .. SelLen : a[Clear + i] = v[i]
    <3> DEFINE c == S.rc
    <3>1. c \in Nat  BY <1>3
    <3>2. v = Decrypt(SubSeq(b, Clear + 1, Clear + SelLen), c)  BY <1>2, <1>6
    <3>3. a = (SubSeq(b, 1, Clear) \o v) \o SubSeq(b, Clear + SelLen + 1, Len(b))  BY <1>2, <1>6
    <3>4. b \in Seq(MsBytes) /\ Clear \in Nat /\ SelLen \in Nat /\ SelLen >= 1  BY <1>3, <1>4
    <3> HIDE DEF c
    <3>5. PartOpened(b, Clear, SelLen, v, a)  BY <2>1, <3>1, <3>2, <3>3, <3>4, DecryptPart, Zenon
    <3>6. QED  BY <3>5 DEF PartOpened
  <2>3. e \in Nat
    <3> DEFINE c == S.rc
    <3>1. c \in Nat /\ e = c + SelLen  BY <1>3, <1>6
    <3> HIDE DEF c
    <3>2. QED  BY <1>4, <3>1
  <2>4. /\ T \in MsWorlds /\ T.rc = e /\ T.buf = a /\ T.st = S.st /\ T.read = S.read /\ T.sk = S.sk
        /\ T.hs = S.hs /\ T.out = S.out
    <3>1. a \in Seq(MsBytes) /\ T = [S EXCEPT !.rc = e, !.buf = a]  BY <1>6, <2>2
    <3>2. QED  BY <1>3, <2>3, <3>1 DEF MsWorlds
  <2>5. ASSUME NEW i \in 1 .. l
        PROVE  i <= Clear \/ i > Clear + SelLen \/ (i - Clear \in 1 .. SelLen /\ Clear + (i - Clear) = i)
    BY <1>3, <1>4
  <2>6. MsRec(T)
    <3>1. \A i \in 1 .. l : b[i].at \in 1 .. Total  BY <1>6 DEF MsRec
    <3>2. ASSUME NEW i \in 1 .. l PROVE a[i].at \in 1 .. Total
      <4>1. CASE i <= Clear \/ i > Clear + SelLen  BY <1>6, <2>2, <3>1, <4>1
      <4>2. CASE i - Clear \in 1 .. SelLen /\ Clear + (i - Clear) = i
        <5> DEFINE j == i - Clear
        <5>1. j \in 1 .. SelLen /\ Clear + j = i  BY <4>2
        <5> HIDE DEF j
        <5>2. a[Clear + j] = v[j] /\ v[j].at = b[Clear + j].at  BY <2>2, <5>1
        <5>3. QED  BY <3>1, <5>1, <5>2
      <4>3. QED  BY <2>5, <4>1, <4>2
    <3>3. S.read <= arrived /\ Len(S.hs) <= HsLen  BY DEF MsRec
    <3>4. Len(a) = l  BY <1>6, <2>2
    <3>5. \A i \in 1 .. Len(T.buf) : T.buf[i].at \in 1 .. Total  BY <2>4, <3>2, <3>4
    <3>6. T \in MsWorlds /\ T.read <= arrived /\ Len(T.hs) <= HsLen  BY <2>4, <3>3
    <3>7. QED  BY <3>5, <3>6 DEF MsRec
  <2>7. CASE \E x \in Range(v) : ~x.ok
    <3>1. H = Finish(T, "failed")  BY <1>1, <1>2, <1>8, <2>7, Zenon
    <3>2. MsSound(Finish(T, "failed"))  BY <2>6, FailSound
    <3>3. QED  BY <3>1, <3>2 DEF H
  <2>8. CASE ~\E x \in Range(v) : ~x.ok
    <3>1. \A i \in 1 .. SelLen : v[i].ok
      <4>1. DOMAIN v = 1 .. SelLen  BY <2>2, LenProperties
      <4>2. QED  BY <2>8, <4>1 DEF Range
    <3>2. ~b[Clear + 1].ok
      <4>1. 1 \in 1 .. SelLen  BY <1>4
      <4>2. v[1].ok  BY <3>1, <4>1
      <4>3. QED  BY <2>2, <4>2
    <3>3. Unopened(S)
      <4>1. ASSUME Opened(S) PROVE FALSE
        <5> DEFINE j == Clear + 1
        <5>1. j \in 1 .. l /\ j > Clear /\ j <= Clear + SelLen
          <6>1. Clear + SelLen <= l  BY <1>6, <2>1
          <6>2. QED  BY <1>3, <1>4, <6>1
        <5>2. ~b[j].ok  BY <3>2
        <5> HIDE DEF j
        <5>3. S.buf[j].ok  BY <1>6, <4>1, <5>1 DEF Opened
        <5>4. QED  BY <1>6, <5>2, <5>3
      <4>2. QED  BY <4>1
    <3>4. S.rc = 0 /\ \A i \in 1 .. l : b[i] = Byte(i)
      <4>1. S.rc = 0 /\ Raw(b, 0)  BY <1>6, <3>3 DEF Unopened
      <4>2. ASSUME NEW i \in 1 .. l PROVE b[i] = Byte(i)
        <5>1. b[i] = Byte(0 + i)  BY <1>6, <4>1 DEF Raw
        <5>2. 0 + i = i  BY <1>3
        <5>3. QED  BY <5>1, <5>2
      <4>3. QED  BY <4>1, <4>2
    <3>5. Early(T)  BY <1>5, <1>6, <2>2, <2>4 DEF Early
    <3>6. Opened(T)
      <4>1. ASSUME NEW i \in 1 .. l
            PROVE  /\ i > Clear + SelLen => a[i] = Byte(i)
                   /\ i > Clear /\ i <= Clear + SelLen => a[i].ok
        <5>1. CASE i <= Clear
          <6>1. ~(i > Clear) /\ ~(i > Clear + SelLen)  BY <1>3, <1>4, <5>1
          <6>2. QED  BY <6>1
        <5>2. CASE i > Clear + SelLen
          <6>1. ~(i <= Clear + SelLen)  BY <1>3, <1>4, <5>2
          <6>2. a[i] = b[i]  BY <1>6, <2>2, <5>2
          <6>3. QED  BY <3>4, <6>1, <6>2
        <5>3. CASE i - Clear \in 1 .. SelLen /\ Clear + (i - Clear) = i
          <6>1. ~(i > Clear + SelLen)  BY <1>3, <1>4, <5>3
          <6> DEFINE j == i - Clear
          <6>2. j \in 1 .. SelLen /\ Clear + j = i  BY <5>3
          <6> HIDE DEF j
          <6>3. a[Clear + j] = v[j] /\ v[j].ok  BY <2>2, <3>1, <6>2
          <6>4. QED  BY <6>1, <6>2, <6>3
        <5>4. QED  BY <2>5, <5>1, <5>2, <5>3
      <4>2. Len(T.buf) = l /\ T.buf = a  BY <1>6, <2>2, <2>4
      <4>3. Clear + SelLen <= l  BY <1>6, <2>1
      <4>4. QED  BY <3>5, <4>1, <4>2, <4>3 DEF Opened
    <3>7. T.rc = SelLen
      <4>1. e = 0 + SelLen  BY <1>6, <3>4
      <4>2. QED  BY <1>4, <2>4, <4>1
    <3>8. ServerWaits(T) /\ T.st.s # "waitIa"  BY <2>4, <3>6 DEF ServerWaits
    <3>9. MsSound(HandlePadC(T))  BY <2>6, <3>7, <3>8, PadCSound
    <3>10. MsSound(Finish(T, "waitPadC"))
      <4> DEFINE F == Finish(T, "waitPadC")
      <4>1. "waitPadC" \in MsClient \cup MsServer  BY DEF MsServer
      <4>2. /\ MsRec(F) /\ F.st.s = "waitPadC" /\ F.st.off = T.st.off
            /\ F.read = T.read /\ F.buf = T.buf /\ F.rc = T.rc /\ F.sk = T.sk /\ F.hs = T.hs /\ F.out = T.out
        BY <2>6, <4>1, FinishFacts
      <4> HIDE DEF F
      <4>3. ServerWaits(F)  BY <3>8, <4>2 DEF ServerWaits, Opened, Early
      <4>4. MsSound(F)  BY <3>7, <4>2, <4>3, ServerStays
      <4>5. QED  BY <4>4 DEF F
    <3>11. H = IF l < S.st.off + SelLen + pads.second THEN Finish(T, "waitPadC") ELSE HandlePadC(T)
      BY <1>1, <1>2, <1>8, <2>8, Zenon
    <3>12. QED  BY <3>9, <3>10, <3>11, Zenon DEF H
  <2>9. QED  BY <2>7, <2>8
<1>9. QED  BY <1>7, <1>8

\* A step that only names where the handshake is.
LEMMA FinishUnopened ==
  ASSUME NEW S, MsRec(S), Unopened(S), NEW s \in MsClient \cup MsServer, NEW F, F = Finish(S, s)
  PROVE  MsRec(F) /\ F.st.s = s /\ F.st.off = S.st.off /\ Unopened(F) /\ F.buf = S.buf
<1>1. /\ MsRec(F) /\ F.st.s = s /\ F.st.off = S.st.off
      /\ F.read = S.read /\ F.buf = S.buf /\ F.rc = S.rc /\ F.sk = S.sk /\ F.hs = S.hs /\ F.out = S.out
  BY FinishFacts
<1>2. Unopened(F)  BY <1>1 DEF Unopened, Early
<1>3. QED  BY <1>1, <1>2

\* The torrent is known, the verification constant comes next.
LEMMA SKeySound ==
  ASSUME MsPlace, side = "server", NEW S, MsRec(S), S.st.s = "foundReq1",
         S.st.off = YLen + pads.first, Unopened(S)
  PROVE  MsSound(CalculateSKey(S))
<1> DEFINE F == Finish(S, "foundHash")
<1>1. CalculateSKey(S) = IF S.st.off + 2 * HashLen > Len(S.buf) THEN S ELSE ProcessVC(F)
  BY DEF CalculateSKey, Finish
<1>2. "foundHash" \in MsClient \cup MsServer  BY DEF MsServer
<1>3. F = Finish(S, "foundHash")  OBVIOUS
<1> HIDE DEF F
<1>4. MsRec(F) /\ F.st.s = "foundHash" /\ F.st.off = S.st.off /\ Unopened(F)  BY <1>2, <1>3, FinishUnopened
<1>5. MsSound(ProcessVC(F))  BY <1>4, ProcessVCSound
<1>6. MsSound(S)
  <2>1. ServerSound(S)  BY DEF ServerSound, MsServer
  <2>2. QED  BY <2>1 DEF MsSound
<1>7. QED  BY <1>1, <1>5, <1>6, Zenon

\* Behind the key the first hash is found.
LEMMA FindReq1Sound ==
  ASSUME MsPlace, side = "server", NEW S, MsRec(S), S.st.s = "waitReq1", Unopened(S)
  PROVE  MsSound(FindReq1(S))
<1> DEFINE x == YLen + pads.first
           T == [S EXCEPT !.st.s = "foundReq1", !.st.off = x]
           u == [s |-> "foundReq1", off |-> x, pad |-> S.st.pad]
           c == S.rc
<1>1. FindReq1(S) = IF Len(S.buf) < YLen + HashLen THEN S
                    ELSE IF x < Len(S.buf) - HashLen THEN CalculateSKey(T)
                    ELSE IF Len(S.buf) > YLen + MaxPad THEN Finish(S, "failed") ELSE S
  BY DEF FindReq1
<1>2. S \in MsWorlds /\ S.st \in MsStates /\ S.st.pad \in Nat /\ c \in Nat  BY WorldParts
<1>3. x \in Nat /\ x = YLen + pads.first  BY ServerParts
<1> HIDE DEF x
<1>4. u \in MsStates /\ u.s = "foundReq1" /\ u.off = x  BY <1>2, <1>3 DEF MsStates, MsServer
<1>5. [[S.st EXCEPT !.s = "foundReq1"] EXCEPT !.off = x] = u
  <2> DEFINE a == [S.st EXCEPT !.s = "foundReq1"]
  <2>1. a = [s |-> "foundReq1", off |-> S.st.off, pad |-> S.st.pad]  BY <1>2 DEF MsStates
  <2> HIDE DEF a
  <2>2. [a EXCEPT !.off = x] = [s |-> "foundReq1", off |-> x, pad |-> S.st.pad]  BY <2>1
  <2>3. QED  BY <2>2 DEF a
<1>6. T = [S EXCEPT !.st = u]
  <2> DEFINE a == [S.st EXCEPT !.s = "foundReq1"]
             V == [S EXCEPT !.st = a]
  <2>1. T = [V EXCEPT !.st = [V.st EXCEPT !.off = x]]  BY Zenon
  <2>2. a \in MsStates  BY <1>2 DEF MsStates, MsServer
  <2>3. [a EXCEPT !.off = x] = u  BY <1>5
  <2> HIDE DEF u, a, T
  <2>4. V.st = a /\ [V EXCEPT !.st = u] = [S EXCEPT !.st = u]  BY <1>2 DEF MsWorlds
  <2> HIDE DEF V
  <2>5. QED  BY <2>1, <2>3, <2>4
<1>7. T = Forward(S, u, c)
  <2> HIDE DEF u, T
  <2>1. QED  BY <1>2, <1>6 DEF Forward, MsWorlds
<1> HIDE DEF T, u, c
<1>8. /\ MsRec(T) /\ T.st = u /\ T.rc = c /\ T.sk = S.sk
      /\ T.read = S.read /\ T.buf = S.buf /\ T.hs = S.hs /\ T.out = S.out
  <2>1. MsRec(S) /\ u \in MsStates /\ c \in Nat /\ T = Forward(S, u, c)  BY <1>2, <1>4, <1>7
  <2>2. QED  BY <2>1, ForwardFacts
<1>9. Unopened(T)
  <2>1. c = S.rc  BY DEF c
  <2>2. QED  BY <1>8, <2>1 DEF Unopened, Early
<1>10. MsSound(CalculateSKey(T))
  <2>1. T.st.s = "foundReq1" /\ T.st.off = YLen + pads.first  BY <1>3, <1>4, <1>8
  <2>2. QED  BY <1>8, <1>9, <2>1, SKeySound
<1>11. MsSound(Finish(S, "failed"))  BY FailSound
<1>12. MsSound(S)
  <2>1. ServerSound(S)  BY DEF ServerSound, MsServer
  <2>2. QED  BY <2>1 DEF MsSound
<1>13. QED  BY <1>1, <1>10, <1>11, <1>12, Zenon

\* Whatever arrives, the side that accepts stays sound.
LEMMA ServerReadSound ==
  ASSUME MsPlace, side = "server", NEW S, MsSound(S), S.st.s \notin {"ok", "failed"}
  PROVE  MsSound(ServerRead(S))
<1> DEFINE n == Waiting(S)
           T == Buffer(S, n)
<1>1. MsRec(S) /\ ServerSound(S)  BY DEF MsSound
<1>2. S.read \in Nat /\ S.read <= arrived /\ arrived \in Nat  BY <1>1, WorldParts DEF MsRec, MsPlace
<1>3. n \in Nat /\ S.read + n <= arrived
  <2> DEFINE o == S.read
  <2>1. n = arrived - o  BY DEF Waiting
  <2>2. o \in Nat /\ o <= arrived  BY <1>2
  <2> HIDE DEF n, o
  <2>3. n \in Nat /\ o + n <= arrived  BY <1>2, <2>1, <2>2
  <2>4. QED  BY <2>3 DEF o
<1>4. T = Buffer(S, n)  OBVIOUS
<1> HIDE DEF n
<1>5. ASSUME Early(S)
      PROVE  /\ MsRec(T) /\ T.st = S.st /\ T.rc = S.rc
             /\ (Unopened(S) => Unopened(T)) /\ (Opened(S) => Opened(T))
  <2> HIDE DEF T
  <2>1. /\ MsRec(T) /\ Early(T) /\ T.st = S.st /\ T.rc = S.rc
        /\ (Raw(S.buf, 0) => Raw(T.buf, 0)) /\ (Opened(S) => Opened(T))
    BY <1>1, <1>3, <1>4, <1>5, BufferFacts
  <2>2. QED  BY <2>1 DEF Unopened
<1>6. ServerRead(S) = CASE S.st.s = "normal" -> BaseRead(S)
         [] S.st.s = "waitYa" -> IF Len(T.buf) < YLen THEN T ELSE FindReq1(Finish(T, "waitReq1"))
         [] S.st.s = "waitReq1" -> FindReq1(T)
         [] S.st.s = "foundReq1" -> CalculateSKey(T)
         [] S.st.s = "foundHash" -> ProcessVC(T)
         [] S.st.s = "waitPadC" -> HandlePadC(T)
         [] S.st.s = "waitIa" -> HandleIA(T)
  BY DEF ServerRead, Finish, n
<1> HIDE DEF T
<1>7. CASE S.st.s = "normal"
  <2>1. ServerRead(S) = BaseRead(S)  BY <1>6, <1>7
  <2>2. Aligned(S)  BY <1>1, <1>7 DEF ServerSound
  <2>3. MsSound(BaseRead(S))  BY <1>1, <1>7, <2>2, ServerBase
  <2>4. QED  BY <2>1, <2>3
<1>8. CASE S.st.s = "waitYa"
  <2> DEFINE F == Finish(T, "waitReq1")
  <2>1. ServerRead(S) = IF Len(T.buf) < YLen THEN T ELSE FindReq1(F)  BY <1>6, <1>8
  <2>2. Unopened(S) /\ Early(S)  BY <1>1, <1>8 DEF ServerSound, Unopened
  <2>3. MsRec(T) /\ T.st = S.st /\ Unopened(T)  BY <1>5, <2>2
  <2>4. "waitReq1" \in MsClient \cup MsServer  BY DEF MsServer
  <2>5. F = Finish(T, "waitReq1")  OBVIOUS
  <2> HIDE DEF F
  <2>6. MsRec(F) /\ F.st.s = "waitReq1" /\ Unopened(F)  BY <2>3, <2>4, <2>5, FinishUnopened
  <2>7. MsSound(FindReq1(F))  BY <2>6, FindReq1Sound
  <2>8. MsSound(T)
    <3>1. ServerSound(T)  BY <1>8, <2>3 DEF ServerSound, MsServer
    <3>2. T.st.s # "ok"  BY <1>8, <2>3
    <3>3. QED  BY <2>3, <3>1, <3>2 DEF MsSound
  <2>9. QED  BY <2>1, <2>7, <2>8, Zenon
<1>9. CASE S.st.s = "waitReq1"
  <2>1. ServerRead(S) = FindReq1(T)  BY <1>6, <1>9
  <2>2. Unopened(S) /\ Early(S)  BY <1>1, <1>9 DEF ServerSound, Unopened
  <2>3. MsRec(T) /\ T.st = S.st /\ Unopened(T)  BY <1>5, <2>2
  <2>4. MsSound(FindReq1(T))  BY <1>9, <2>3, FindReq1Sound
  <2>5. QED  BY <2>1, <2>4
<1>10. CASE S.st.s = "foundReq1"
  <2>1. ServerRead(S) = CalculateSKey(T)  BY <1>6, <1>10
  <2>2. Unopened(S) /\ Early(S) /\ S.st.off = YLen + pads.first  BY <1>1, <1>10 DEF ServerSound, Unopened
  <2>3. MsRec(T) /\ T.st = S.st /\ Unopened(T)  BY <1>5, <2>2
  <2>4. MsSound(CalculateSKey(T))  BY <1>10, <2>2, <2>3, SKeySound
  <2>5. QED  BY <2>1, <2>4
<1>11. CASE S.st.s = "foundHash"
  <2>1. ServerRead(S) = ProcessVC(T)  BY <1>6, <1>11
  <2>2. (Unopened(S) \/ Opened(S)) /\ S.st.off = YLen + pads.first  BY <1>1, <1>11 DEF ServerSound
  <2>3. Early(S)  BY <2>2 DEF Unopened, Opened
  <2>4. MsRec(T) /\ T.st = S.st /\ (Unopened(T) \/ Opened(T))  BY <1>5, <2>2, <2>3
  <2>5. MsSound(ProcessVC(T))  BY <1>11, <2>2, <2>4, ProcessVCSound
  <2>6. QED  BY <2>1, <2>5
<1>12. CASE S.st.s = "waitPadC"
  <2>1. ServerRead(S) = HandlePadC(T)  BY <1>6, <1>12
  <2>2. Opened(S) /\ S.st.off = YLen + pads.first /\ (S.rc = SelLen \/ S.rc >= Crypto)
    BY <1>1, <1>12 DEF ServerSound
  <2>3. Early(S)  BY <2>2 DEF Opened
  <2>4. MsRec(T) /\ T.st = S.st /\ T.rc = S.rc /\ Opened(T)  BY <1>5, <2>2, <2>3
  <2>5. ServerWaits(T) /\ T.st.s # "waitIa"  BY <1>12, <2>2, <2>4 DEF ServerWaits
  <2>6. MsSound(HandlePadC(T))  BY <2>2, <2>4, <2>5, PadCSound
  <2>7. QED  BY <2>1, <2>6
<1>13. CASE S.st.s = "waitIa"
  <2>1. ServerRead(S) = HandleIA(T)  BY <1>6, <1>13
  <2>2. Opened(S) /\ S.st.off = YLen + pads.first /\ S.rc >= Crypto
    BY <1>1, <1>13 DEF ServerSound
  <2>3. Early(S)  BY <2>2 DEF Opened
  <2>4. MsRec(T) /\ T.st = S.st /\ T.rc = S.rc /\ Opened(T)  BY <1>5, <2>2, <2>3
  <2>5. ServerWaits(T)  BY <1>13, <2>2, <2>4 DEF ServerWaits
  <2>6. MsSound(HandleIA(T))  BY <2>2, <2>4, <2>5, IASound
  <2>7. QED  BY <2>1, <2>6
<1>14. QED  BY <1>1, <1>7, <1>8, <1>9, <1>10, <1>11, <1>12, <1>13 DEF ServerSound, MsServer

-----------------------------------------------------------------------------
\* What holds of an authentication goes on to hold when more bytes arrive.
LEMMA SameStream ==
  ASSUME side' = side, pads' = pads
  PROVE  /\ Clear' = Clear /\ Crypto' = Crypto /\ Start' = Start /\ Total' = Total
         /\ \A i : Byte(i)' = Byte(i)
<1>1. Clear' = Clear /\ Crypto' = Crypto  BY DEF Clear, Crypto
<1>2. Start' = Start /\ Total' = Total  BY <1>1 DEF Start, Total
<1>3. ASSUME NEW i PROVE Byte(i)' = Byte(i)  BY <1>1 DEF Byte, Encrypted
<1>4. QED  BY <1>1, <1>2, <1>3

LEMMA SoundKept ==
  ASSUME NEW S, MsSound(S), side' = side, pads' = pads, arrived \in Nat, arrived' \in Nat, arrived <= arrived'
  PROVE  MsSound(S)'
<1>1. /\ Clear' = Clear /\ Crypto' = Crypto /\ Start' = Start /\ Total' = Total
  BY SameStream
<1>2. \A i : Byte(i)' = Byte(i)  BY SameStream
<1>3. MsRec(S)'
  <2>1. MsRec(S) /\ S.read \in Nat  BY WorldParts DEF MsSound
  <2> DEFINE o == S.read
  <2>2. o \in Nat /\ o <= arrived  BY <2>1 DEF MsRec
  <2> HIDE DEF o
  <2>3. o <= arrived'  BY <2>2
  <2>4. S.read <= arrived'  BY <2>3 DEF o
  <2>5. QED  BY <1>1, <2>1, <2>4 DEF MsRec
<1>4. ASSUME NEW b, NEW f, Raw(b, f) PROVE Raw(b, f)'  BY <1>2, <1>4 DEF Raw
<1>5. Early(S)' = Early(S)  BY DEF Early
<1>6. Unopened(S) => Unopened(S)'  BY <1>4, <1>5 DEF Unopened
<1>7. Opened(S) => Opened(S)'  BY <1>1, <1>2, <1>5 DEF Opened
<1>8. Lost(S) => Lost(S)'  BY <1>1 DEF Lost
<1>9. Passed(S) => Passed(S)'  BY <1>1 DEF Passed, Meant
<1>10. Aligned(S) => Aligned(S)'
  <2> DEFINE b == S.sk.back
             f == Start + Len(S.hs)
  <2>1. ASSUME Aligned(S) PROVE Aligned(S)'
    <3>1. Raw(S.sk.back, Start + Len(S.hs))  BY <2>1 DEF Aligned
    <3>2. Raw(S.sk.back, Start + Len(S.hs))'  BY <1>1, <1>2, <3>1 DEF Raw
    <3>3. QED  BY <1>1, <2>1, <3>2 DEF Aligned, Meant
  <2>2. QED  BY <2>1
<1>11. ClientSound(S) => ClientSound(S)'
  <2>1. ASSUME ClientSound(S) PROVE ClientSound(S)'
    <3>1. Raw(S.buf, 0) => Raw(S.buf, 0)'  BY <1>2 DEF Raw
    <3>2. S.st.s = "waitPadD" => /\ Early(S)' /\ Raw(S.buf, 0)' /\ S.rc = SelLen /\ S.st.off = Clear'
                            /\ S.st.pad = pads'.second /\ S.st.pad > 0 /\ S.read <= Start'
      BY <1>1, <1>5, <2>1, <3>1 DEF ClientSound
    <3>3. S.st.s = "foundVc" => Unopened(S)' /\ S.st.pad = 0 /\ S.st.off = Clear'
      BY <1>1, <1>6, <2>1 DEF ClientSound
    <3>4. QED  BY <1>6, <1>8, <1>10, <2>1, <3>2, <3>3 DEF ClientSound
  <2>2. QED  BY <2>1
<1>12. ServerSound(S) => ServerSound(S)'  BY <1>1, <1>6, <1>7, <1>10 DEF ServerSound
<1>13. QED  BY <1>3, <1>9, <1>11, <1>12 DEF MsSound

\* The fields of the world are the variables.
LEMMA WorldFields ==
  /\ MsWorld.read = read /\ MsWorld.st = st /\ MsWorld.buf = buf /\ MsWorld.rc = rc
  /\ MsWorld.sk = sk /\ MsWorld.hs = hs /\ MsWorld.out = out
BY DEF MsWorld

\* The start.
LEMMA InitSound ==
  ASSUME MsInit
  PROVE  MsInv
<1>1. MsPlace
  <2>1. MaxPad \in Nat  BY MsAssumption
  <2>2. /\ side \in {"client", "server"} /\ pads \in [first : Nat, second : Nat, rc4 : BOOLEAN]
        /\ (side = "server" => pads.rc4) /\ arrived = 0
    BY <2>1 DEF MsInit
  <2>3. Total >= 0
    <3>1. /\ YLen \in Nat /\ HashLen \in Nat /\ SelLen \in Nat /\ HsLen \in Nat /\ MoreLen \in Nat
          /\ pads.first \in Nat /\ pads.second \in Nat
      BY <2>2, MsAssumption
    <3>2. CASE side = "client"  BY <3>1, <3>2 DEF Clear, Crypto, Total
    <3>3. CASE side = "server"  BY <3>1, <3>3 DEF Clear, Crypto, Total
    <3>4. QED  BY <2>2, <3>2, <3>3
  <2>4. QED  BY <2>2, <2>3 DEF MsPlace
<1> DEFINE S == MsWorld
<1>2. /\ S.read = 0 /\ S.buf = <<>> /\ S.rc = 0 /\ S.out = <<>> /\ S.hs = <<>>
      /\ S.sk = [enc |-> FALSE, back |-> <<>>]
      /\ S.st = [s |-> IF side = "client" THEN "sentYa" ELSE "waitYa", off |-> 0, pad |-> 0]
  BY WorldFields DEF MsInit
<1>3. <<>> \in Seq(MsBytes) /\ Len(<<>>) = 0  OBVIOUS
<1>4. S.st \in MsStates /\ S.st.pad = 0 /\ S.st.s = IF side = "client" THEN "sentYa" ELSE "waitYa"
  BY <1>2 DEF MsStates, MsClient, MsServer
<1>5. S.sk \in MsSockets /\ S.sk.enc = FALSE /\ S.sk.back = <<>>  BY <1>2, <1>3 DEF MsSockets
<1>6. S \in MsWorlds
  <2>1. S = [read |-> read, st |-> st, buf |-> buf, rc |-> rc, sk |-> sk, hs |-> hs, out |-> out]
    BY DEF MsWorld
  <2>2. read = 0 /\ buf = <<>> /\ rc = 0 /\ out = <<>> /\ hs = <<>> /\ st \in MsStates /\ sk \in MsSockets
    BY <1>2, <1>4, <1>5, WorldFields
  <2>3. QED  BY <1>3, <2>1, <2>2 DEF MsWorlds
<1> HIDE DEF S
<1>7. MsRec(S)
  <2>1. HsLen \in Nat /\ arrived = 0  BY MsAssumption DEF MsInit
  <2>2. QED  BY <1>2, <1>3, <1>6, <2>1 DEF MsRec
<1>8. Unopened(S)  BY <1>2, <1>3, <1>5 DEF Unopened, Early, Raw
<1>9. ClientSound(S) \/ side # "client"  BY <1>4, <1>8 DEF ClientSound, MsClient
<1>10. ServerSound(S) \/ side # "server"  BY <1>4, <1>8 DEF ServerSound, MsServer
<1>11. S.st.s # "ok"  BY <1>4
<1>12. MsSound(S)  BY <1>7, <1>9, <1>10, <1>11 DEF MsSound
<1>13. QED  BY <1>1, <1>12 DEF MsInv, S

\* What holds of the stream stays true when more of it arrives.
LEMMA PlaceKept ==
  ASSUME MsPlace, side' = side, pads' = pads, arrived' \in Nat, arrived' <= Total
  PROVE  MsPlace'
<1>1. Total' = Total  BY SameStream
<1>2. QED  BY <1>1 DEF MsPlace

\* A step of the authentication.
LEMMA ReadStep ==
  ASSUME MsInv, OnReadyRead
  PROVE  MsInv'
<1> DEFINE S == IF side = "client" THEN ClientRead(MsWorld) ELSE ServerRead(MsWorld)
<1>1. MsPlace /\ MsSound(MsWorld) /\ arrived \in Nat /\ arrived <= Total /\ side \in {"client", "server"}
  BY DEF MsInv, MsPlace
<1>2. side' = side /\ pads' = pads /\ arrived' = arrived  BY DEF OnReadyRead
<1>3. MsBecome(S)  BY Zenon DEF OnReadyRead
<1>4. MsWorld.st.s \notin {"ok", "failed"}  BY WorldFields DEF OnReadyRead
<1>5. MsSound(S)
  <2>1. CASE side = "client"
    <3>1. MsSound(ClientRead(MsWorld))  BY <1>1, <1>4, <2>1, ClientReadSound
    <3>2. QED  BY <2>1, <3>1
  <2>2. CASE side = "server"
    <3>1. MsSound(ServerRead(MsWorld))  BY <1>1, <1>4, <2>2, ServerReadSound
    <3>2. QED  BY <2>2, <3>1
  <2>3. QED  BY <1>1, <2>1, <2>2
<1> HIDE DEF S
<1>6. S \in MsWorlds  BY <1>5 DEF MsSound, MsRec
<1>7. MsWorld' = S  BY <1>3, <1>6 DEF MsWorld, MsBecome, MsWorlds
<1>8. MsSound(MsWorld)'
  <2>1. PICK T : T = S  OBVIOUS
  <2>2. MsSound(T)  BY <1>5, <2>1
  <2>3. arrived' \in Nat /\ arrived <= arrived'  BY <1>1, <1>2
  <2>4. MsSound(T)'  BY <1>1, <1>2, <2>2, <2>3, SoundKept
  <2>5. MsWorld' = T  BY <1>7, <2>1
  <2>6. QED  BY <2>4, <2>5
<1>9. MsPlace'  BY <1>1, <1>2, PlaceKept
<1>10. QED  BY <1>8, <1>9 DEF MsInv

\* More of the stream arrives.
LEMMA ArriveStep ==
  ASSUME MsInv, NEW n \in 1 .. Total, Arrive(n)
  PROVE  MsInv'
<1>1. MsPlace /\ MsSound(MsWorld) /\ arrived \in Nat /\ arrived <= Total /\ side \in {"client", "server"}
  BY DEF MsInv, MsPlace
<1>2. side' = side /\ pads' = pads /\ arrived' = arrived + n /\ MsWorld' = MsWorld
  BY DEF Arrive, MsWorld
<1>3. arrived + n <= Total
  <2>1. arrived + n <= Sendable  BY DEF Arrive
  <2> DEFINE p == pads.first
  <2>2. /\ Clear \in Nat /\ Total \in Nat /\ MoreLen \in Nat /\ YLen \in Nat /\ p \in Nat
        /\ Start \in Nat /\ Total = Start + HsLen + MoreLen /\ Crypto \in Nat /\ Start = Clear + Crypto
        /\ HsLen \in Nat /\ HashLen \in Nat
    BY <1>1, PlaceFacts
  <2>3. YLen + p <= Clear
    <3>1. Clear = YLen + p + IF side = "client" THEN 0 ELSE 2 * HashLen  BY DEF Clear
    <3> HIDE DEF p
    <3>2. QED  BY <2>2, <3>1
  <2>4. Sendable \in {Clear, YLen + p, Total - MoreLen, Total}  BY DEF Sendable
  <2> HIDE DEF p
  <2>5. QED  BY <1>1, <2>1, <2>2, <2>3, <2>4
<1>4. arrived' \in Nat /\ arrived <= arrived' /\ arrived' <= Total
  <2>1. Total \in Nat  BY <1>1, PlaceFacts
  <2>2. QED  BY <1>1, <1>2, <1>3, <2>1
<1>5. MsSound(MsWorld)'
  <2>1. PICK T : T = MsWorld  OBVIOUS
  <2>2. MsSound(T)  BY <1>1, <2>1
  <2>3. MsSound(T)'  BY <1>1, <1>2, <1>4, <2>2, SoundKept
  <2>4. MsWorld' = T  BY <1>2, <2>1
  <2>5. QED  BY <2>3, <2>4
<1>6. MsPlace'  BY <1>1, <1>2, <1>4, PlaceKept
<1>7. QED  BY <1>5, <1>6 DEF MsInv

\* The packets that arrive after the handshake are read and decrypted.
LEMMA PacketsStep ==
  ASSUME MsInv, ReadPackets
  PROVE  MsInv'
<1> DEFINE S == MsWorld
           w == Slice(read, arrived - read)
           x == IF sk.enc THEN Decrypt(w, rc) ELSE w
           c == IF sk.enc THEN rc + arrived - read ELSE rc
           T == [read |-> arrived, st |-> st, buf |-> buf, rc |-> c, sk |-> sk, hs |-> hs, out |-> out \o x]
           k == Start + HsLen
<1>1. MsPlace /\ MsSound(S) /\ arrived \in Nat /\ arrived <= Total  BY DEF MsInv, MsPlace
<1>2. side' = side /\ pads' = pads /\ arrived' = arrived  BY DEF ReadPackets
<1>3. MsWorld' = T  BY DEF ReadPackets, MsWorld
<1>4. MsRec(S) /\ Passed(S) /\ st.s = "ok"
  BY <1>1, WorldFields DEF ReadPackets, MsSound
<1>5. /\ S.read = read /\ S.st = st /\ S.buf = buf /\ S.rc = rc /\ S.sk = sk /\ S.hs = hs /\ S.out = out
  BY WorldFields
<1>6. /\ read \in Nat /\ st \in MsStates /\ buf \in Seq(MsBytes) /\ rc \in Nat
      /\ sk \in MsSockets /\ hs \in Seq(MsBytes) /\ out \in Seq(MsBytes)
      /\ sk.enc \in BOOLEAN
  <2> HIDE DEF S
  <2>1. /\ S.read \in Nat /\ S.st \in MsStates /\ S.buf \in Seq(MsBytes) /\ S.rc \in Nat
        /\ S.sk \in MsSockets /\ S.hs \in Seq(MsBytes) /\ S.out \in Seq(MsBytes) /\ S.sk.enc \in BOOLEAN
    BY <1>4, WorldParts
  <2>2. QED  BY <1>5, <2>1
<1>7. /\ sk.enc = pads.rc4 /\ Meant(out, k) /\ k + Len(out) = read /\ (sk.enc => rc = read - Clear)
  <2> HIDE DEF S
  <2>1. QED  BY <1>4, <1>5 DEF Passed
<1>8. /\ Clear \in Nat /\ Crypto \in Nat /\ Start \in Nat /\ HsLen \in Nat /\ Start = Clear + Crypto
      /\ k \in Nat /\ k >= Start
  <2>1. Clear \in Nat /\ Crypto \in Nat /\ Start \in Nat /\ HsLen \in Nat /\ Start = Clear + Crypto
    BY <1>1, PlaceFacts
  <2>2. QED  BY <2>1
<1>9. Len(out) \in Nat  BY <1>6, LenProperties
<1>10. read <= arrived /\ arrived - read \in Nat  BY <1>1, <1>6 DEF ReadPackets
<1>11. w \in Seq(MsBytes) /\ Len(w) = arrived - read /\ Raw(w, read)  BY <1>1, <1>6, <1>10, SliceFacts
<1>12. read >= Start  BY <1>6, <1>7, <1>8, <1>9
<1>13. T = [read |-> arrived, st |-> st, buf |-> buf, rc |-> c, sk |-> sk, hs |-> hs, out |-> out \o x]
  OBVIOUS
<1> HIDE DEF w, k, S, T
<1>14. Meant(x, read) /\ Len(x) = arrived - read /\ c \in Nat /\ (sk.enc => c = arrived - Clear)
  <2>1. CASE sk.enc = TRUE
    <3>1. x = Decrypt(w, rc) /\ c = rc + arrived - read  BY <2>1
    <3>2. pads.rc4  BY <1>7, <2>1
    <3>3. read = Clear + rc /\ c = arrived - Clear /\ c \in Nat
      BY <1>1, <1>6, <1>7, <1>8, <1>10, <1>12, <2>1, <3>1
    <3> HIDE DEF x, c
    <3>4. Meant(Decrypt(w, rc), read) /\ Len(Decrypt(w, rc)) = Len(w)
      BY <1>1, <1>6, <1>11, <3>2, <3>3, DecryptRaw
    <3>5. QED  BY <1>11, <3>1, <3>3, <3>4
  <2>2. CASE sk.enc = FALSE
    <3>1. x = w /\ c = rc  BY <2>2
    <3>2. ~pads.rc4  BY <1>7, <2>2
    <3> HIDE DEF x, c
    <3>3. Meant(w, read)  BY <1>1, <1>6, <1>11, <1>12, <3>2, PlainRaw
    <3>4. QED  BY <1>6, <1>11, <2>2, <3>1, <3>3
  <2>3. QED  BY <1>6, <2>1, <2>2
<1> HIDE DEF x, c
<1>15. Meant(out \o x, k) /\ Len(out \o x) = Len(out) + Len(x)
  <2>1. Meant(x, k + Len(out))  BY <1>7, <1>14
  <2>2. QED  BY <1>7, <1>8, <2>1, MeantJoin
<1> DEFINE y == out \o x
<1>16. Meant(y, k) /\ Len(y) = Len(out) + Len(x) /\ y \in Seq(MsBytes)  BY <1>15 DEF Meant
<1>17. T = [read |-> arrived, st |-> st, buf |-> buf, rc |-> c, sk |-> sk, hs |-> hs, out |-> y]  BY <1>13
<1> HIDE DEF y
<1>18. /\ T \in MsWorlds /\ T.read = arrived /\ T.st = st /\ T.buf = buf /\ T.rc = c /\ T.sk = sk
       /\ T.hs = hs /\ T.out = y
  BY <1>1, <1>6, <1>14, <1>16, <1>17 DEF MsWorlds
<1>19. MsRec(T)
  <2>1. Len(S.hs) <= HsLen /\ \A i \in 1 .. Len(S.buf) : S.buf[i].at \in 1 .. Total  BY <1>4 DEF MsRec
  <2>2. Len(T.hs) <= HsLen /\ \A i \in 1 .. Len(T.buf) : T.buf[i].at \in 1 .. Total
    BY <1>5, <1>18, <2>1
  <2>3. T.read <= arrived  BY <1>1, <1>18
  <2>4. QED  BY <1>18, <2>2, <2>3 DEF MsRec
<1>20. Passed(T)
  <2>1. k + Len(y) = arrived
    <3>1. arrived - read \in Nat /\ Len(y) = Len(out) + (arrived - read)  BY <1>10, <1>14, <1>16
    <3> DEFINE m == Len(out)
               n == Len(y)
    <3>2. m \in Nat /\ k \in Nat /\ read \in Nat /\ arrived \in Nat  BY <1>1, <1>6, <1>8, <1>9
    <3>3. k + m = read /\ n = m + (arrived - read)  BY <1>7, <3>1
    <3> HIDE DEF m, n
    <3>4. k + n = arrived  BY <3>2, <3>3
    <3>5. QED  BY <3>4 DEF n
  <2>2. T.sk.enc = pads.rc4 /\ (T.sk.enc => T.rc = T.read - Clear)  BY <1>7, <1>14, <1>18
  <2>3. Meant(T.out, k) /\ k + Len(T.out) = T.read  BY <1>16, <1>18, <2>1
  <2>4. QED  BY <2>2, <2>3 DEF Passed, k
<1>21. MsSound(T)
  <2>1. T.st.s = "ok"  BY <1>4, <1>18
  <2>2. ClientSound(T) /\ ServerSound(T)  BY <2>1 DEF ClientSound, ServerSound, MsClient, MsServer
  <2>3. QED  BY <1>19, <1>20, <2>2 DEF MsSound
<1>22. MsSound(MsWorld)'
  <2>1. PICK U : U = T  OBVIOUS
  <2>2. MsSound(U)  BY <1>21, <2>1
  <2>3. arrived' \in Nat /\ arrived <= arrived'  BY <1>1, <1>2
  <2>4. MsSound(U)'  BY <1>1, <1>2, <2>2, <2>3, SoundKept
  <2>5. MsWorld' = U  BY <1>3, <2>1
  <2>6. QED  BY <2>4, <2>5
<1>23. MsPlace'  BY <1>1, <1>2, PlaceKept
<1>24. QED  BY <1>22, <1>23 DEF MsInv

\* Every step keeps the invariant.
LEMMA MsNextSound ==
  ASSUME MsInv, [MsNext]_msVars
  PROVE  MsInv'
<1>1. CASE OnReadyRead  BY <1>1, ReadStep
<1>2. CASE ReadPackets  BY <1>2, PacketsStep
<1>3. CASE \E n \in 1 .. Total : Arrive(n)
  <2>1. PICK n \in 1 .. Total : Arrive(n)  BY <1>3
  <2>2. QED  BY <2>1, ArriveStep
<1>4. CASE UNCHANGED msVars
  <2>1. side' = side /\ pads' = pads /\ arrived' = arrived /\ MsWorld' = MsWorld
    BY <1>4 DEF msVars, MsWorld
  <2>2. MsPlace /\ MsSound(MsWorld) /\ arrived \in Nat /\ arrived <= Total  BY DEF MsInv, MsPlace
  <2>3. MsPlace'  BY <2>1, <2>2, PlaceKept
  <2>4. PICK T : T = MsWorld  OBVIOUS
  <2>5. MsSound(T) /\ arrived' \in Nat /\ arrived <= arrived'  BY <2>1, <2>2, <2>4
  <2>6. MsSound(T)'  BY <2>1, <2>2, <2>5, SoundKept
  <2>7. MsWorld' = T  BY <2>1, <2>4
  <2>8. MsSound(MsWorld)'  BY <2>6, <2>7
  <2>9. QED  BY <2>3, <2>8 DEF MsInv
<1>5. QED  BY <1>1, <1>2, <1>3, <1>4 DEF MsNext

\* The invariant says what the packet reader gets.
LEMMA SoundIsIntact ==
  ASSUME MsInv
  PROVE  PayloadIntact
<1> DEFINE S == MsWorld
<1>1. MsPlace /\ MsSound(S) /\ MsRec(S) /\ arrived <= Total  BY DEF MsInv, MsPlace, MsSound
<1>2. /\ S.read = read /\ S.st = st /\ S.buf = buf /\ S.rc = rc /\ S.sk = sk /\ S.hs = hs /\ S.out = out
  BY WorldFields
<1>3. /\ Start \in Nat /\ HsLen \in Nat /\ MoreLen \in Nat /\ Total = Start + HsLen + MoreLen
  BY <1>1, PlaceFacts
<1>4. Total - MoreLen = Start + HsLen  BY <1>3
<1> HIDE DEF S
<1>5. S.read \in Nat /\ S.rc \in Nat /\ S.buf \in Seq(MsBytes) /\ S.out \in Seq(MsBytes)
  BY <1>1, WorldParts
<1>6. MsTypeOK
  <2>1. /\ read <= arrived /\ Len(hs) <= HsLen /\ rc \in Nat /\ buf \in Seq(MsBytes)
        /\ \A i \in 1 .. Len(buf) : buf[i].at \in 1 .. Total
    BY <1>1, <1>2, <1>5 DEF MsRec
  <2>2. DOMAIN buf = 1 .. Len(buf)  BY <2>1, LenProperties
  <2>3. \A b \in Range(buf) : b.at \in 1 .. Total  BY <2>1, <2>2 DEF Range
  <2>4. QED  BY <1>1, <2>1, <2>3 DEF MsTypeOK
<1>7. ASSUME st.s = "ok"
      PROVE  /\ \A i \in DOMAIN out : out[i].ok /\ out[i].at = Total - MoreLen + i
             /\ Len(out) = read - (Total - MoreLen)
  <2>1. Passed(S)  BY <1>1, <1>2, <1>7 DEF MsSound
  <2>2. Meant(out, Start + HsLen) /\ Start + HsLen + Len(out) = read  BY <1>2, <2>1 DEF Passed
  <2>3. DOMAIN out = 1 .. Len(out) /\ Len(out) \in Nat  BY <1>2, <1>5, LenProperties
  <2>4. \A i \in DOMAIN out : out[i].ok /\ out[i].at = Start + HsLen + i  BY <2>2, <2>3 DEF Meant
  <2>5. Len(out) = read - (Start + HsLen)
    <3>1. read \in Nat  BY <1>2, <1>5
    <3>2. QED  BY <1>3, <2>2, <2>3, <3>1
  <2>6. QED  BY <1>4, <2>4, <2>5
<1>8. QED  BY <1>6, <1>7 DEF PayloadIntact

\* The inductive invariant of the encrypted handshake, for both sides: before the
\* handshake everything read is in the buffer, behind it the place in the key
\* stream is the place in the peer's stream (EncryptedAuthenticate,
\* EncryptedServerAuthenticate, AuthenticateBase, EncryptedPacketSocket).
THEOREM MsInvariant == MsSpec => []MsInv
<1>1. MsInit => MsInv  BY InitSound
<1>2. MsInv /\ [MsNext]_msVars => MsInv'  BY MsNextSound
<1>3. QED  BY <1>1, <1>2, PTL DEF MsSpec

\* After a handshake that succeeded the packet reader gets the bytes behind it,
\* each once, in order and decrypted in its place, for any lengths of keys, hashes,
\* pads and handshake and wherever the stream was cut.
THEOREM PayloadStaysIntact == MsSpec => []PayloadIntact
<1>1. MsInv => PayloadIntact  BY SoundIsIntact
<1>2. QED  BY <1>1, MsInvariant, PTL

-----------------------------------------------------------------------------
(* The way through a proxy. What is under way and what was read together   *)
(* answer the last request, so the peer's bytes are behind the reply.      *)

SxFields == {"auth", "state", "internal", "version", "password", "dest6", "host", "server",
             "lookup", "sock", "closed", "wire", "in", "got", "addr"}
SxAuths == {"idle", "socks", "handshake", "failed"}
SxStates == {"idle", "toServer", "toHost", "connected", "failed"}
SxInternals == {"none", "authSent", "passwordSent", "connectSent"}
SxSocks == {"new", "connecting", "connected"}

SxBytes == {"peer", "addr", "five", "other", "none", "gssapi", "unacceptable", "password", "one",
            "ok", "wrong", "null", "refused", "zero", "ipv4", "ipv6", "domain", "len"}

\* The values of an attempt, field by field.
SxRec(S) ==
  /\ S = [f \in SxFields |-> S[f]]
  /\ S.auth \in SxAuths /\ S.state \in SxStates /\ S.internal \in SxInternals
  /\ S.sock \in SxSocks
  /\ S.wire \in Seq(SxBytes) /\ S.in \in Seq(SxBytes) /\ S.got \in Seq(SxBytes)

\* What is under way from the proxy, and that it answers the last request.
Joined(S) == S.in \o S.wire
Peers(r, n) == Len(r) = n + 2 /\ r[n + 1] = "peer" /\ r[n + 2] = "peer"
Answers(i, v, r) ==
  /\ r \in Seq(SxBytes)
  /\ i \in {"authSent", "passwordSent"} => Len(r) = 2
  /\ i = "connectSent" /\ v = 4 /\ r[2] = "ok" => Peers(r, 8)
  /\ i = "connectSent" /\ v # 4 /\ r[2] = "ok" /\ r[4] = "ipv4" => Peers(r, 10)

\* An attempt that waits for the proxy.
Asking(S) ==
  /\ S.lookup # 0 => S.sock = "new"
  /\ S.sock # "connected" => S.wire = <<>> /\ S.in = <<>>
  /\ Joined(S) = <<>> \/ Answers(S.internal, S.version, Joined(S))

SxSound(S) ==
  /\ SxRec(S)
  /\ S.auth = "idle" => S.sock = "new" /\ S.lookup = 0 /\ S.wire = <<>> /\ S.in = <<>>
  /\ S.auth = "socks" => Asking(S) /\ S.state # "connected"
  /\ S.auth = "handshake" => S.lookup = 0 /\ S.sock = "connected"
  /\ S.auth = "failed" => S.lookup = 0
  /\ S.auth = "handshake" /\ S.addr = "ipv4" => S.got \o (S.in \o S.wire) = PeerBytes

\* One field changes.
LEMMA SxChange ==
  ASSUME NEW S, S = [f \in SxFields |-> S[f]], NEW f \in SxFields, NEW v, NEW T, T = [S EXCEPT ![f] = v]
  PROVE  T = [g \in SxFields |-> T[g]] /\ T[f] = v /\ \A g \in SxFields : g # f => T[g] = S[g]
OBVIOUS

LEMMA FailedFacts ==
  ASSUME NEW S, SxRec(S), NEW T, T = Failed(S)
  PROVE  SxRec(T) /\ T.state = "failed" /\ \A g \in SxFields : g # "state" => T[g] = S[g]
<1>1. /\ T = [g \in SxFields |-> T[g]] /\ T.state = "failed"
      /\ \A g \in SxFields : g # "state" => T[g] = S[g]
  BY DEF Failed, SxRec, SxFields
<1>2. SxRec(T)  BY <1>1 DEF SxRec, SxFields, SxStates
<1>3. QED  BY <1>1, <1>2

LEMMA DropFacts ==
  ASSUME NEW S, SxRec(S), NEW n \in Nat, NEW T, T = Drop(S, n)
  PROVE  /\ SxRec(T) /\ T.in = SubSeq(S.in, n + 1, Len(S.in))
         /\ \A g \in SxFields : g # "in" => T[g] = S[g]
<1> DEFINE x == SubSeq(S.in, n + 1, Len(S.in))
<1>1. S.in \in Seq(SxBytes) /\ Len(S.in) \in Nat  BY LenProperties DEF SxRec
<1>2. x \in Seq(SxBytes)
  <2>1. CASE n <= Len(S.in)
    <3>1. n \in 0 .. Len(S.in)  BY <1>1, <2>1
    <3>2. QED  BY <1>1, <3>1, CutFacts
  <2>2. CASE ~(n <= Len(S.in))
    <3> DEFINE m == n + 1
               l == Len(S.in)
    <3>1. m \in Int /\ l \in Int /\ l < m  BY <1>1, <2>2
    <3> HIDE DEF m, l
    <3>2. SubSeq(S.in, m, l) = <<>>  BY <3>1, SubSeqEmpty
    <3>3. x = <<>>  BY <3>2 DEF m, l
    <3>4. <<>> \in Seq(SxBytes)  OBVIOUS
    <3>5. QED  BY <3>3, <3>4
  <2>3. QED  BY <2>1, <2>2
<1>3. T = [S EXCEPT !.in = x]  BY DEF Drop
<1> HIDE DEF x
<1>4. /\ T = [g \in SxFields |-> T[g]] /\ T.in = x
      /\ \A g \in SxFields : g # "in" => T[g] = S[g]
  BY <1>3 DEF SxRec, SxFields
<1>5. SxRec(T)  BY <1>2, <1>4 DEF SxRec, SxFields
<1>6. QED  BY <1>4, <1>5 DEF x

\* Authenticate acts on what Socks made of the reply.
LEMMA ContinueSound ==
  ASSUME NEW S, SxRec(S), S.auth = "socks", S.lookup = 0, S.sock = "connected" \/ S.state # "connected",
         S.state \notin {"failed", "connected"} => Asking(S),
         S.state = "connected" /\ S.addr = "ipv4" => Joined(S) = PeerBytes
  PROVE  SxSound(Continue(S))
<1>1. CASE S.state = "failed"
  <2> DEFINE T == [S EXCEPT !.auth = "failed", !.lookup = 0]
  <2>1. Continue(S) = T  BY <1>1 DEF Continue
  <2>2. /\ T = [g \in SxFields |-> T[g]] /\ T.auth = "failed" /\ T.lookup = 0
        /\ \A g \in SxFields : g \notin {"auth", "lookup"} => T[g] = S[g]
    BY DEF SxRec, SxFields
  <2> HIDE DEF T
  <2>3. SxRec(T)  BY <2>2 DEF SxRec, SxFields, SxAuths
  <2>4. QED  BY <2>1, <2>2, <2>3 DEF SxSound
<1>2. CASE S.state = "connected"
  <2> DEFINE T == [S EXCEPT !.auth = "handshake", !.got = S.in, !.in = <<>>]
  <2>1. Continue(S) = T  BY <1>2 DEF Continue
  <2>2. /\ T = [g \in SxFields |-> T[g]] /\ T.auth = "handshake" /\ T.got = S.in /\ T.in = <<>>
        /\ \A g \in SxFields : g \notin {"auth", "got", "in"} => T[g] = S[g]
    BY DEF SxRec, SxFields
  <2> HIDE DEF T
  <2>3. SxRec(T)
    <3>1. <<>> \in Seq(SxBytes) /\ S.in \in Seq(SxBytes) /\ S.wire \in Seq(SxBytes)  BY DEF SxRec
    <3>2. T.wire = S.wire /\ T.state = S.state /\ T.internal = S.internal /\ T.sock = S.sock
      BY <2>2 DEF SxFields
    <3>3. QED  BY <2>2, <3>1, <3>2 DEF SxRec, SxAuths
  <2>4. T.lookup = 0 /\ T.sock = "connected" /\ T.addr = S.addr /\ T.wire = S.wire
    BY <1>2, <2>2 DEF SxFields
  <2>5. T.in \o T.wire = S.wire
    <3>1. S.wire \in Seq(SxBytes)  BY DEF SxRec
    <3>2. <<>> \o S.wire = S.wire  BY <3>1, ConcatEmptySeq
    <3>3. QED  BY <2>2, <2>4, <3>2
  <2>6. T.addr = "ipv4" => T.got \o (T.in \o T.wire) = PeerBytes
    BY <1>2, <2>2, <2>4, <2>5 DEF Joined
  <2>7. QED  BY <2>1, <2>2, <2>3, <2>4, <2>6 DEF SxSound
<1>3. CASE S.state \notin {"failed", "connected"}
  <2>1. Continue(S) = S  BY <1>3 DEF Continue
  <2>2. QED  BY <1>3, <2>1 DEF SxSound
<1>4. QED  BY <1>1, <1>2, <1>3

\* The first message of the peer is what is left behind n bytes of a reply.
LEMMA PeersLeft ==
  ASSUME NEW s \in Seq(SxBytes), NEW w \in Seq(SxBytes), NEW n \in Nat, n <= Len(s), Peers(s \o w, n)
  PROVE  SubSeq(s, n + 1, Len(s)) \o w = PeerBytes
<1> DEFINE r == s \o w
           q == SubSeq(s, n + 1, Len(s)) \o w
<1>1. n \in 0 .. Len(s)  BY LenProperties
<1>2. q \in Seq(SxBytes) /\ Len(q) = Len(r) - n /\ \A i \in 1 .. Len(r) - n : q[i] = r[n + i]
  BY <1>1, CutJoin
<1>3. Len(r) = n + 2 /\ r[n + 1] = "peer" /\ r[n + 2] = "peer"  BY DEF Peers
<1> HIDE DEF q, r
<1>4. Len(q) = 2 /\ q[1] = "peer" /\ q[2] = "peer"  BY <1>2, <1>3
<1>5. PeerBytes \in Seq(SxBytes) /\ Len(PeerBytes) = 2 /\ PeerBytes[1] = "peer" /\ PeerBytes[2] = "peer"
  <2> DEFINE p == "peer"
  <2>1. p \in SxBytes /\ PeerBytes = <<p, p>>  BY DEF PeerBytes, SxBytes
  <2> HIDE DEF p
  <2>2. <<p, p>> \in Seq(SxBytes) /\ Len(<<p, p>>) = 2 /\ <<p, p>>[1] = p /\ <<p, p>>[2] = p  BY <2>1
  <2>3. QED  BY <2>1, <2>2 DEF p
<1>6. ASSUME NEW i \in 1 .. Len(q) PROVE q[i] = PeerBytes[i]
  <2>1. i = 1 \/ i = 2  BY <1>4
  <2>2. QED  BY <1>4, <1>5, <2>1
<1> HIDE DEF PeerBytes
<1>7. q = PeerBytes  BY <1>2, <1>4, <1>5, <1>6, SeqEqual
<1>8. QED  BY <1>7 DEF q

LEMMA PeersLater ==
  ASSUME NEW s \in Seq(SxBytes), NEW w \in Seq(SxBytes), NEW k \in Nat, NEW n \in Nat,
         k <= Len(s), Peers(s \o w, k + n), NEW b, b = SubSeq(s, k + 1, Len(s))
  PROVE  b \in Seq(SxBytes) /\ Peers(b \o w, n)
<1> DEFINE r == s \o w
           q == b \o w
<1>1. k \in 0 .. Len(s)  BY LenProperties
<1>2. b \in Seq(SxBytes)  BY <1>1, CutFacts
<1>3. Len(q) = Len(r) - k /\ \A i \in 1 .. Len(r) - k : q[i] = r[k + i]
  BY <1>1, CutJoin
<1>4. Len(r) = k + n + 2 /\ r[k + n + 1] = "peer" /\ r[k + n + 2] = "peer"  BY DEF Peers
<1> HIDE DEF q, r
<1>5. Len(q) = n + 2 /\ q[n + 1] = r[k + (n + 1)] /\ q[n + 2] = r[k + (n + 2)]  BY <1>3, <1>4
<1>6. k + (n + 1) = k + n + 1 /\ k + (n + 2) = k + n + 2  OBVIOUS
<1>7. Peers(q, n)  BY <1>4, <1>5, <1>6 DEF Peers
<1>8. QED  BY <1>2, <1>7 DEF q

\* A reply of two bytes that is read at once leaves nothing.
LEMMA PairLeft ==
  ASSUME NEW s \in Seq(SxBytes), NEW w \in Seq(SxBytes), Len(s \o w) = 2, 2 <= Len(s)
  PROVE  SubSeq(s, 3, Len(s)) \o w = <<>>
<1> DEFINE n == 2
<1>1. n \in 0 .. Len(s) /\ n + 1 = 3 /\ n = 2  BY LenProperties
<1> HIDE DEF n
<1>2. SubSeq(s, n + 1, Len(s)) \o w \in Seq(SxBytes) /\ Len(SubSeq(s, n + 1, Len(s)) \o w) = Len(s \o w) - n
  BY <1>1, CutJoin
<1>3. SubSeq(s, 3, Len(s)) \o w \in Seq(SxBytes) /\ Len(SubSeq(s, 3, Len(s)) \o w) = 0
  BY <1>1, <1>2
<1>4. QED  BY <1>3, EmptySeq

\* The reply to the authentication request and to the password.
LEMMA PairSound ==
  ASSUME NEW S, SxSound(S), S.auth = "socks", S.sock = "connected", S.in # <<>>,
         S.internal \in {"authSent", "passwordSent"}, NEW T,
         \/ T \in {Failed(Drop(S, 2))}
         \/ Len(S.in) >= 2 /\ T \in {Drop(S, 2), SendConnectRequest(Drop(S, 2)),
                                     SendUsernamePassword(Drop(S, 2))}
  PROVE  SxSound(Continue(T))
<1> DEFINE D == Drop(S, 2)
<1>1. SxRec(S) /\ Asking(S) /\ S.lookup = 0 /\ S.state # "connected"  BY DEF SxSound, Asking
<1>2. /\ S.in \in Seq(SxBytes) /\ S.wire \in Seq(SxBytes)  BY <1>1 DEF SxRec
<1>3. Joined(S) # <<>>  BY <1>2, ConcatEqualIffEmpty DEF Joined
<1>4. Len(S.in \o S.wire) = 2  BY <1>1, <1>3 DEF Asking, Answers, Joined
<1>5. /\ SxRec(D) /\ D.in = SubSeq(S.in, 3, Len(S.in)) /\ \A g \in SxFields : g # "in" => D[g] = S[g]
  BY <1>1, DropFacts
<1>6. /\ D.auth = "socks" /\ D.lookup = 0 /\ D.sock = "connected" /\ D.state = S.state /\ D.wire = S.wire
  BY <1>1, <1>5 DEF SxFields
<1> HIDE DEF D
<1>7. CASE T = Failed(D)
  <2>1. SxRec(T) /\ T.state = "failed" /\ \A g \in SxFields : g # "state" => T[g] = D[g]
    BY <1>5, <1>7, FailedFacts
  <2>2. T.auth = "socks" /\ T.lookup = 0  BY <1>6, <2>1 DEF SxFields
  <2>3. QED  BY <2>1, <2>2, ContinueSound
<1>8. CASE Len(S.in) >= 2 /\ T \in {D, SendConnectRequest(D), SendUsernamePassword(D)}
  <2>1. Len(S.in) \in Nat /\ 2 <= Len(S.in)  BY <1>2, <1>8, LenProperties
  <2>2. Joined(D) = <<>>  BY <1>2, <1>4, <1>5, <1>6, <2>1, PairLeft DEF Joined
  <2>3. /\ T = [g \in SxFields |-> T[g]] /\ T.internal \in SxInternals
        /\ \A g \in SxFields : g # "internal" => T[g] = D[g]
    <3>1. CASE T = D  BY <1>5, <3>1 DEF SxRec
    <3>2. CASE T = [D EXCEPT !.internal = "connectSent"]
      BY <1>5, <3>2 DEF SxRec, SxFields, SxInternals
    <3>3. CASE T = [D EXCEPT !.internal = "passwordSent"]
      BY <1>5, <3>3 DEF SxRec, SxFields, SxInternals
    <3>4. QED  BY <1>8, <3>1, <3>2, <3>3 DEF SendConnectRequest, SendUsernamePassword
  <2>4. /\ T.auth = D.auth /\ T.state = D.state /\ T.sock = D.sock /\ T.lookup = D.lookup
        /\ T.wire = D.wire /\ T.in = D.in /\ T.got = D.got
    BY <2>3 DEF SxFields
  <2>5. SxRec(T)  BY <1>5, <2>3, <2>4 DEF SxRec
  <2>6. Asking(T)  BY <1>6, <2>2, <2>4 DEF Asking, Joined
  <2>7. T.state # "connected"  BY <1>1, <1>6, <2>4
  <2>8. QED  BY <1>6, <2>4, <2>5, <2>6, <2>7, ContinueSound
<1>9. QED  BY <1>7, <1>8 DEF D

\* The reply to the connect request, of a socks 4 proxy.
LEMMA ConnectFour ==
  ASSUME NEW S, SxSound(S), S.auth = "socks", S.sock = "connected", S.in # <<>>,
         NEW n \in Nat, n <= Len(S.in), Peers(S.in \o S.wire, n),
         NEW T, T = [Drop(S, n) EXCEPT !.state = "connected"]
  PROVE  SxSound(Continue(T))
<1> DEFINE D == Drop(S, n)
           s == S.in
           w == S.wire
           b == D.in
<1>1. SxRec(S) /\ Asking(S) /\ S.lookup = 0  BY DEF SxSound, Asking
<1>2. s \in Seq(SxBytes) /\ w \in Seq(SxBytes) /\ Len(s) \in Nat /\ n \in Nat  BY <1>1, LenProperties DEF SxRec
<1>3. Peers(s \o w, n)  OBVIOUS
<1>4. /\ SxRec(D) /\ b = SubSeq(s, n + 1, Len(s)) /\ \A g \in SxFields : g # "in" => D[g] = S[g]
  <2>1. D = Drop(S, n)  OBVIOUS
  <2> HIDE DEF D
  <2>2. QED  BY <1>1, <2>1, DropFacts
<1>5. b \o w = PeerBytes
  <2>1. n <= Len(s)  BY <1>2
  <2> HIDE DEF s, w, b, D
  <2>2. QED  BY <1>2, <1>3, <1>4, <2>1, PeersLeft
<1>6. /\ T = [g \in SxFields |-> T[g]] /\ T.state = "connected"
      /\ \A g \in SxFields : g # "state" => T[g] = D[g]
  BY <1>4 DEF SxRec, SxFields
<1> HIDE DEF D
<1>7. /\ T.auth = "socks" /\ T.sock = "connected" /\ T.lookup = 0 /\ T.wire = S.wire /\ T.in = D.in
      /\ T.got = D.got /\ T.internal = D.internal
  BY <1>1, <1>4, <1>6 DEF SxFields
<1>8. D.in \in Seq(SxBytes) /\ D.got \in Seq(SxBytes) /\ D.internal \in SxInternals  BY <1>4 DEF SxRec
<1>9. SxRec(T)  BY <1>2, <1>6, <1>7, <1>8 DEF SxRec, SxAuths, SxStates, SxSocks
<1>10. QED  BY <1>5, <1>6, <1>7, <1>9, ContinueSound DEF Joined

\* Of a socks 5 proxy, with the address that is read to its end.
LEMMA ConnectFive ==
  ASSUME NEW S, SxSound(S), S.auth = "socks", S.sock = "connected", S.in # <<>>,
         NEW k \in Nat, k <= Len(S.in), NEW a \in DOMAIN AddrLen,
         a = "ipv4" => Peers(S.in \o S.wire, k + 6),
         NEW T, T = HandleAddress([Drop(S, k) EXCEPT !.addr = a])
  PROVE  SxSound(Continue(T))
<1> DEFINE D == Drop(S, k)
           U == [D EXCEPT !.addr = a]
           needed == IF U.addr = "ipv6" THEN 18 ELSE AddressRead(U.addr)
           s == S.in
           w == S.wire
           b == D.in
<1>1. SxRec(S) /\ Asking(S) /\ S.lookup = 0  BY DEF SxSound, Asking
<1>2. s \in Seq(SxBytes) /\ w \in Seq(SxBytes) /\ Len(s) \in Nat /\ k \in Nat  BY <1>1, LenProperties DEF SxRec
<1>3. a = "ipv4" => Peers(s \o w, k + 6)  OBVIOUS
<1>4. /\ SxRec(D) /\ b = SubSeq(s, k + 1, Len(s)) /\ \A g \in SxFields : g # "in" => D[g] = S[g]
  <2>1. D = Drop(S, k)  OBVIOUS
  <2> HIDE DEF D
  <2>2. QED  BY <1>1, <2>1, DropFacts
<1>5. a \in {"ipv4", "ipv6", "domain"}  BY DEF AddrLen
<1> HIDE DEF D
<1>6. /\ U = [g \in SxFields |-> U[g]] /\ U.addr = a
      /\ \A g \in SxFields : g # "addr" => U[g] = D[g]
  BY <1>4 DEF SxRec, SxFields
<1>7. SxRec(U) /\ U.in = D.in /\ U.wire = S.wire /\ U.auth = "socks" /\ U.sock = "connected" /\ U.lookup = 0
  <2>1. /\ U.auth = S.auth /\ U.state = D.state /\ U.internal = D.internal /\ U.sock = S.sock
        /\ U.wire = S.wire /\ U.in = D.in /\ U.got = D.got /\ U.lookup = S.lookup
        /\ D.auth = S.auth /\ D.sock = S.sock /\ D.wire = S.wire
    BY <1>4, <1>6 DEF SxFields
  <2> HIDE DEF U
  <2>2. SxRec(U)  BY <1>4, <1>6, <2>1 DEF SxRec
  <2>3. QED  BY <1>1, <2>1, <2>2
<1>8. T = HandleAddress(U)  BY DEF U, D
<1>9. T = IF Len(U.in) < needed THEN Failed(IF U.addr = "domain" THEN Drop(U, 1) ELSE U)
           ELSE Drop([U EXCEPT !.state = "connected"], AddressRead(U.addr))
  BY <1>8 DEF HandleAddress
<1>10. AddressRead(U.addr) \in Nat /\ (U.addr = "ipv4" => AddressRead(U.addr) = 6 /\ needed = 6)
  BY <1>5, <1>6, SxAssumption DEF AddressRead
<1> HIDE DEF U
<1>11. CASE Len(U.in) < needed
  <2> DEFINE V == IF U.addr = "domain" THEN Drop(U, 1) ELSE U
  <2>1. SxRec(V) /\ \A g \in SxFields : g # "in" => V[g] = U[g]
    <3>1. CASE U.addr = "domain"
      <4>1. V = Drop(U, 1)  BY <3>1
      <4> HIDE DEF V
      <4>2. QED  BY <1>7, <4>1, DropFacts, SMTT(15)
    <3>2. CASE U.addr # "domain"  BY <1>7, <3>2
    <3>3. QED  BY <3>1, <3>2
  <2>2. T = Failed(V)  BY <1>9, <1>11
  <2> HIDE DEF V
  <2>3. SxRec(T) /\ T.state = "failed" /\ \A g \in SxFields : g # "state" => T[g] = V[g]
    BY <2>1, <2>2, FailedFacts
  <2>4. T.auth = "socks" /\ T.lookup = 0
    <3>1. V.auth = U.auth /\ V.lookup = U.lookup  BY <2>1 DEF SxFields
    <3>2. T.auth = V.auth /\ T.lookup = V.lookup  BY <2>3 DEF SxFields
    <3>3. QED  BY <1>7, <3>1, <3>2
  <2>5. QED  BY <2>3, <2>4, ContinueSound
<1>12. CASE ~(Len(U.in) < needed)
  <2> DEFINE V == [U EXCEPT !.state = "connected"]
             n == AddressRead(U.addr)
  <2>1. /\ V = [g \in SxFields |-> V[g]] /\ V.state = "connected"
        /\ \A g \in SxFields : g # "state" => V[g] = U[g]
    BY <1>7 DEF SxRec, SxFields
  <2> HIDE DEF V, n
  <2>2. /\ V.auth = U.auth /\ V.internal = U.internal /\ V.sock = U.sock /\ V.addr = U.addr
        /\ V.wire = U.wire /\ V.in = U.in /\ V.got = U.got /\ V.lookup = U.lookup
    BY <2>1 DEF SxFields
  <2>3. SxRec(V)  BY <1>7, <2>1, <2>2 DEF SxRec, SxStates
  <2>4. T = Drop(V, n)  BY <1>9, <1>12 DEF V, n
  <2>5. n \in Nat  BY <1>10 DEF n
  <2>6. /\ SxRec(T) /\ T.in = SubSeq(V.in, n + 1, Len(V.in)) /\ \A g \in SxFields : g # "in" => T[g] = V[g]
    BY <2>3, <2>4, <2>5, DropFacts
  <2>7. /\ T.auth = V.auth /\ T.sock = V.sock /\ T.addr = V.addr /\ T.wire = V.wire
        /\ T.lookup = V.lookup /\ T.state = V.state
    BY <2>6 DEF SxFields
  <2>8. ASSUME T.addr = "ipv4" PROVE Joined(T) = PeerBytes
    <3>1. b \in Seq(SxBytes) /\ Len(b) \in Nat  BY <1>4, LenProperties DEF SxRec
    <3>2. a = "ipv4" /\ n = 6 /\ n <= Len(b)
      <4>1. U.addr = "ipv4"  BY <2>2, <2>7, <2>8
      <4>2. QED  BY <1>6, <1>7, <1>10, <1>12, <3>1, <4>1 DEF n
    <3>3. Peers(s \o w, k + n)
      <4>1. k + n = k + 6  BY <3>2
      <4>2. QED  BY <1>3, <3>2, <4>1
    <3>4. T.in = SubSeq(b, n + 1, Len(b)) /\ T.wire = w  BY <1>7, <2>2, <2>6, <2>7
    <3>5. k <= Len(s)  BY <1>2
    <3> HIDE DEF s, w, b
    <3>6. Peers(b \o w, n)  BY <1>2, <1>4, <2>5, <3>3, <3>5, PeersLater
    <3>7. SubSeq(b, n + 1, Len(b)) \o w = PeerBytes  BY <1>2, <2>5, <3>1, <3>2, <3>6, PeersLeft
    <3>8. QED  BY <3>4, <3>7 DEF Joined
  <2>9. QED  BY <1>7, <2>1, <2>2, <2>6, <2>7, <2>8, ContinueSound
<1>13. QED  BY <1>11, <1>12

LEMMA FailsSound ==
  ASSUME NEW S, SxRec(S), S.auth = "socks", S.lookup = 0
  PROVE  SxSound(Continue(Failed(S)))
<1> DEFINE T == Failed(S)
<1>1. SxRec(T) /\ T.state = "failed" /\ \A g \in SxFields : g # "state" => T[g] = S[g]
  BY FailedFacts
<1> HIDE DEF T
<1>2. T.auth = "socks" /\ T.lookup = 0  BY <1>1 DEF SxFields
<1>3. SxSound(Continue(T))  BY <1>1, <1>2, ContinueSound
<1>4. QED  BY <1>3 DEF T

LEMMA DropFails ==
  ASSUME NEW S, SxRec(S), S.auth = "socks", S.lookup = 0, NEW n \in Nat
  PROVE  SxSound(Continue(Failed(Drop(S, n))))
<1> DEFINE D == Drop(S, n)
<1>1. SxRec(D) /\ \A g \in SxFields : g # "in" => D[g] = S[g]
  <2>1. D = Drop(S, n)  OBVIOUS
  <2> HIDE DEF D
  <2>2. QED  BY <2>1, DropFacts
<1> HIDE DEF D
<1>2. D.auth = "socks" /\ D.lookup = 0  BY <1>1 DEF SxFields
<1>3. SxSound(Continue(Failed(D)))  BY <1>1, <1>2, FailsSound
<1>4. QED  BY <1>3 DEF D

LEMMA ConnectReplySound ==
  ASSUME NEW S, SxSound(S), S.auth = "socks", S.sock = "connected", S.in # <<>>,
         S.internal = "connectSent"
  PROVE  SxSound(Continue(HandleConnectReply(S)))
<1> DEFINE s == S.in
           w == S.wire
           n == IF S.version = 4 THEN 8 ELSE 4
           D == Drop(S, n)
           T == HandleConnectReply(S)
<1>1. SxRec(S) /\ Asking(S) /\ S.lookup = 0  BY DEF SxSound, Asking
<1>2. s \in Seq(SxBytes) /\ w \in Seq(SxBytes) /\ Len(s) \in Nat /\ n \in Nat  BY <1>1, LenProperties DEF SxRec
<1>3. s \o w # <<>>
  <2> HIDE DEF s, w
  <2>1. s # <<>>  BY DEF s
  <2>2. QED  BY <1>2, <2>1, ConcatEqualIffEmpty
<1>4. Answers("connectSent", S.version, s \o w)  BY <1>1, <1>3 DEF Asking, Joined
<1>5. CASE Len(s) < n \/ Take(S, n)[2] # "ok"
  <2>1. T = Failed(D)  BY <1>5 DEF HandleConnectReply
  <2> HIDE DEF n
  <2>2. SxSound(Continue(Failed(D)))  BY <1>1, <1>2, DropFails
  <2> HIDE DEF T, D
  <2>3. SxSound(Continue(T))  BY <2>1, <2>2
  <2>4. QED  BY <2>3 DEF T
<1>6. CASE ~(Len(s) < n) /\ Take(S, n)[2] = "ok"
  <2>1. n \in 0 .. Len(s) /\ n <= Len(s) /\ n >= 4  BY <1>2, <1>6
  <2>2. ASSUME NEW i \in 1 .. 4 PROVE Take(S, n)[i] = s[i] /\ (s \o w)[i] = s[i]
    <3>1. i \in 1 .. n /\ i \in 1 .. Len(s)  BY <1>2, <2>1
    <3>2. Take(S, n) = SubSeq(s, 1, n)  BY DEF Take
    <3> HIDE DEF s, w, n
    <3>3. SubSeq(s, 1, n)[i] = s[i]  BY <1>2, <2>1, <3>1, CutFacts
    <3>4. (s \o w)[i] = s[i]  BY <1>2, <3>1, FrontOfJoin
    <3>5. QED  BY <3>2, <3>3, <3>4
  <2>3. Take(S, n)[2] = s[2] /\ (s \o w)[2] = s[2] /\ Take(S, n)[4] = s[4] /\ (s \o w)[4] = s[4]
    <3>1. 2 \in 1 .. 4 /\ 4 \in 1 .. 4  OBVIOUS
    <3> HIDE DEF s, w, n
    <3>2. QED  BY <2>2, <3>1
  <2>4. (s \o w)[2] = "ok"  BY <1>6, <2>3
  <2>5. CASE S.version = 4
    <3>1. Peers(s \o w, n)
      <4>1. n = 8  BY <2>5
      <4> HIDE DEF s, w, n
      <4>2. QED  BY <1>4, <2>4, <2>5, <4>1 DEF Answers
    <3>2. T = [D EXCEPT !.state = "connected"]  BY <1>6, <2>5 DEF HandleConnectReply
    <3> HIDE DEF n
    <3>3. QED  BY <1>2, <2>1, <3>1, <3>2, ConnectFour
  <2>6. CASE S.version # 4
    <3> DEFINE a == Take(S, n)[4]
    <3>1. n = 4  BY <2>6
    <3>2. a = "ipv4" => Peers(s \o w, n + 6)
      <4>1. (s \o w)[4] = a  BY <2>3
      <4>2. n + 6 = 10  BY <3>1
      <4> HIDE DEF s, w, n, a
      <4>3. QED  BY <1>4, <2>4, <2>6, <4>1, <4>2 DEF Answers
    <3>3. CASE Take(S, n)[1] # "five" \/ a \notin DOMAIN AddrLen
      <4>1. T = Failed(D)  BY <1>6, <2>6, <3>3 DEF HandleConnectReply
      <4> HIDE DEF n
      <4>2. SxSound(Continue(Failed(D)))  BY <1>1, <1>2, DropFails
      <4> HIDE DEF T, D
      <4>3. SxSound(Continue(T))  BY <4>1, <4>2
      <4>4. QED  BY <4>3 DEF T
    <3>4. CASE ~(Take(S, n)[1] # "five" \/ a \notin DOMAIN AddrLen)
      <4>1. T = HandleAddress([D EXCEPT !.addr = a])  BY <1>6, <2>6, <3>4 DEF HandleConnectReply
      <4>2. a \in DOMAIN AddrLen  BY <3>4
      <4> HIDE DEF n, a
      <4>3. QED  BY <1>2, <2>1, <3>2, <4>1, <4>2, ConnectFive
    <3>5. QED  BY <3>3, <3>4
  <2>7. QED  BY <2>5, <2>6
<1>7. QED  BY <1>5, <1>6

LEMMA ReadSound ==
  ASSUME NEW S, SxSound(S), S.auth = "socks", S.sock = "connected"
  PROVE  SxSound(Continue(SocksRead(S)))
<1>1. SxRec(S) /\ Asking(S) /\ S.lookup = 0 /\ S.state # "connected"  BY DEF SxSound, Asking
<1>2. CASE S.in = <<>>
  <2>1. SocksRead(S) = Failed(S)  BY <1>2 DEF SocksRead
  <2>2. QED  BY <1>1, <2>1, FailsSound
<1>3. CASE S.in # <<>> /\ S.internal = "authSent"
  <2> DEFINE T == HandleAuthReply(S)
             r == Take(S, 2)
  <2>1. SocksRead(S) = T  BY <1>3 DEF SocksRead
  <2>2. \/ T = Failed(Drop(S, 2))
        \/ Len(S.in) >= 2 /\ T \in {Drop(S, 2), SendConnectRequest(Drop(S, 2)), SendUsernamePassword(Drop(S, 2))}
    <3>1. Len(S.in) \in Nat  BY <1>1, LenProperties DEF SxRec
    <3>2. CASE Len(S.in) < 2 \/ r[1] # "five" \/ r[2] = "unacceptable"
      BY <3>2 DEF HandleAuthReply
    <3>3. CASE ~(Len(S.in) < 2 \/ r[1] # "five" \/ r[2] = "unacceptable")
      <4>1. Len(S.in) >= 2  BY <3>1, <3>3
      <4>2. CASE r[2] = "none"  BY <3>3, <4>1, <4>2 DEF HandleAuthReply
      <4>3. CASE r[2] # "none" /\ r[2] = "password"  BY <3>3, <4>1, <4>3 DEF HandleAuthReply
      <4>4. CASE r[2] # "none" /\ r[2] # "password"  BY <3>3, <4>1, <4>4 DEF HandleAuthReply
      <4>5. QED  BY <4>2, <4>3, <4>4
    <3>4. QED  BY <3>2, <3>3
  <2> HIDE DEF T
  <2>3. SxSound(Continue(T))  BY <1>3, <2>2, PairSound
  <2>4. QED  BY <2>1, <2>3
<1>4. CASE S.in # <<>> /\ S.internal = "passwordSent"
  <2> DEFINE T == HandleUsernamePasswordReply(S)
  <2>1. SocksRead(S) = T  BY <1>4 DEF SocksRead
  <2>2. \/ T = Failed(Drop(S, 2))
        \/ Len(S.in) >= 2 /\ T \in {Drop(S, 2), SendConnectRequest(Drop(S, 2)), SendUsernamePassword(Drop(S, 2))}
    <3>1. Len(S.in) \in Nat  BY <1>1, LenProperties DEF SxRec
    <3>2. CASE Len(S.in) < 2 \/ Take(S, 2) # <<"one", "ok">>
      BY <3>2 DEF HandleUsernamePasswordReply
    <3>3. CASE ~(Len(S.in) < 2 \/ Take(S, 2) # <<"one", "ok">>)
      <4>1. Len(S.in) >= 2  BY <3>1, <3>3
      <4>2. T = SendConnectRequest(Drop(S, 2))  BY <3>3 DEF HandleUsernamePasswordReply
      <4>3. QED  BY <4>1, <4>2
    <3>4. QED  BY <3>2, <3>3
  <2> HIDE DEF T
  <2>3. SxSound(Continue(T))  BY <1>4, <2>2, PairSound
  <2>4. QED  BY <2>1, <2>3
<1>5. CASE S.in # <<>> /\ S.internal = "connectSent"
  <2>1. SocksRead(S) = HandleConnectReply(S)  BY <1>5 DEF SocksRead
  <2>2. QED  BY <1>5, <2>1, ConnectReplySound
<1>6. CASE S.in # <<>> /\ S.internal = "none"
  <2>1. SocksRead(S) = S  BY <1>6 DEF SocksRead
  <2>2. QED  BY <1>1, <2>1, ContinueSound
<1>7. QED  BY <1>1, <1>2, <1>3, <1>4, <1>5, <1>6 DEF SxRec, SxInternals

\* The connection to the proxy stands: the first request goes out.
LEMMA ReachedFacts ==
  ASSUME NEW S, SxRec(S), S.auth = "socks", S.lookup = 0, S.wire = <<>>, S.in = <<>>
  PROVE  LET T == Reached(S)
         IN  /\ SxRec(T) /\ Asking(T) /\ T.auth = "socks" /\ T.lookup = 0 /\ T.sock = "connected"
             /\ T.state # "connected"
<1> DEFINE U == [S EXCEPT !.state = "toHost", !.sock = "connected"]
           T == Reached(S)
<1>1. /\ U = [g \in SxFields |-> U[g]] /\ U.state = "toHost" /\ U.sock = "connected"
      /\ \A g \in SxFields : g \notin {"state", "sock"} => U[g] = S[g]
  BY DEF SxRec, SxFields
<1>2. T = SendAuthRequest(U)  BY DEF Reached
<1> HIDE DEF U, T
<1>3. /\ U.auth = S.auth /\ U.internal = S.internal /\ U.wire = S.wire /\ U.in = S.in
      /\ U.got = S.got /\ U.lookup = S.lookup
  BY <1>1 DEF SxFields
<1>4. SxRec(U)  BY <1>1, <1>3 DEF SxRec, SxStates, SxSocks
<1>5. /\ SxRec(T) /\ T.state \in {"toHost", "failed"}
      /\ \A g \in SxFields : g \notin {"state", "internal"} => T[g] = U[g]
  <2>1. CASE T = [U EXCEPT !.internal = "authSent"] \/ T = [U EXCEPT !.internal = "connectSent"]
    <3>1. /\ T = [g \in SxFields |-> T[g]] /\ T.internal \in SxInternals
          /\ \A g \in SxFields : g # "internal" => T[g] = U[g]
      BY <1>4, <2>1 DEF SxRec, SxFields, SxInternals
    <3>2. /\ T.auth = U.auth /\ T.state = U.state /\ T.sock = U.sock /\ T.wire = U.wire
          /\ T.in = U.in /\ T.got = U.got
      BY <3>1 DEF SxFields
    <3>3. SxRec(T)  BY <1>4, <3>1, <3>2 DEF SxRec
    <3>4. QED  BY <1>1, <3>1, <3>2, <3>3
  <2>2. CASE T = Failed(U)  BY <1>4, <2>2, FailedFacts
  <2>3. CASE U.version = 5  BY <1>2, <2>1, <2>3 DEF SendAuthRequest
  <2>4. CASE U.version # 5 /\ U.dest6  BY <1>2, <2>2, <2>4 DEF SendAuthRequest
  <2>5. CASE U.version # 5 /\ ~U.dest6  BY <1>2, <2>1, <2>5 DEF SendAuthRequest
  <2>6. QED  BY <2>3, <2>4, <2>5
<1>6. /\ T.auth = U.auth /\ T.sock = U.sock /\ T.lookup = U.lookup /\ T.wire = U.wire /\ T.in = U.in
  BY <1>5 DEF SxFields
<1>7. Joined(T) = <<>>
  <2>1. <<>> \o <<>> = <<>>  OBVIOUS
  <2>2. QED  BY <1>3, <1>6, <2>1 DEF Joined
<1>8. Asking(T)  BY <1>1, <1>3, <1>6, <1>7 DEF Asking
<1>9. QED  BY <1>1, <1>3, <1>5, <1>6, <1>8 DEF T

LEMMA SetupSound ==
  ASSUME NEW S, SxRec(S), S.auth = "socks", S.lookup = 0, S.sock = "new", S.wire = <<>>, S.in = <<>>,
         NEW T \in Setup(S)
  PROVE  SxSound(T)
<1>1. Joined(S) = <<>>
  <2>1. <<>> \o <<>> = <<>>  OBVIOUS
  <2>2. QED  BY <2>1 DEF Joined
<1>2. CASE T = [S EXCEPT !.state = "toServer", !.lookup = S.host]
  <2>1. /\ T = [g \in SxFields |-> T[g]] /\ T.state = "toServer"
        /\ \A g \in SxFields : g \notin {"state", "lookup"} => T[g] = S[g]
    BY <1>2 DEF SxRec, SxFields
  <2>2. /\ T.auth = S.auth /\ T.internal = S.internal /\ T.wire = S.wire /\ T.in = S.in
        /\ T.got = S.got /\ T.sock = S.sock
    BY <2>1 DEF SxFields
  <2>3. SxRec(T)  BY <2>1, <2>2 DEF SxRec, SxStates
  <2>4. QED  BY <1>1, <2>1, <2>2, <2>3 DEF SxSound, Asking, Joined
<1>3. CASE T = [S EXCEPT !.state = "toServer", !.sock = "connecting"]
  <2>1. /\ T = [g \in SxFields |-> T[g]] /\ T.state = "toServer" /\ T.sock = "connecting"
        /\ \A g \in SxFields : g \notin {"state", "sock"} => T[g] = S[g]
    BY <1>3 DEF SxRec, SxFields
  <2>2. /\ T.auth = S.auth /\ T.internal = S.internal /\ T.wire = S.wire /\ T.in = S.in
        /\ T.got = S.got /\ T.lookup = S.lookup
    BY <2>1 DEF SxFields
  <2>3. SxRec(T)  BY <2>1, <2>2 DEF SxRec, SxStates, SxSocks
  <2>4. QED  BY <1>1, <2>1, <2>2, <2>3 DEF SxSound, Asking, Joined
<1>4. CASE T = Failed(S)
  <2>1. SxRec(T) /\ T.state = "failed" /\ \A g \in SxFields : g # "state" => T[g] = S[g]
    BY <1>4, FailedFacts
  <2>2. T.auth = S.auth /\ T.wire = S.wire /\ T.in = S.in /\ T.lookup = S.lookup /\ T.sock = S.sock
    BY <2>1 DEF SxFields
  <2>3. QED  BY <1>1, <2>1, <2>2 DEF SxSound, Asking, Joined
<1>5. CASE T = Reached(S)  BY <1>5, ReachedFacts DEF SxSound
<1>6. QED  BY <1>2, <1>3, <1>4, <1>5 DEF Setup

-----------------------------------------------------------------------------
LEMMA ReplyShape ==
  ASSUME NEW h \in Seq(SxBytes), NEW n \in Nat
  PROVE  /\ (h \o AddrBytes(n)) \o PeerBytes \in Seq(SxBytes) /\ h \o AddrBytes(n) \in Seq(SxBytes)
         /\ Peers((h \o AddrBytes(n)) \o PeerBytes, Len(h) + n)
         /\ \A i \in 1 .. Len(h) : /\ (h \o AddrBytes(n))[i] = h[i]
                                   /\ ((h \o AddrBytes(n)) \o PeerBytes)[i] = h[i]
<1> DEFINE m == AddrBytes(n)
           p == PeerBytes
           q == h \o m
           r == q \o p
<1>1. m \in Seq(SxBytes) /\ Len(m) = n
  <2>1. "addr" \in SxBytes  BY DEF SxBytes
  <2>2. QED  BY <2>1 DEF AddrBytes
<1>2. p \in Seq(SxBytes) /\ Len(p) = 2 /\ p[1] = "peer" /\ p[2] = "peer"
  <2> DEFINE e == "peer"
  <2>1. e \in SxBytes /\ PeerBytes = <<e, e>>  BY DEF PeerBytes, SxBytes
  <2> HIDE DEF e
  <2>2. <<e, e>> \in Seq(SxBytes) /\ Len(<<e, e>>) = 2 /\ <<e, e>>[1] = e /\ <<e, e>>[2] = e  BY <2>1
  <2>3. QED  BY <2>1, <2>2 DEF e
<1> HIDE DEF m, p
<1>3. Len(h) \in Nat  BY LenProperties
<1>4. q \in Seq(SxBytes) /\ Len(q) = Len(h) + n /\ \A i \in 1 .. Len(h) : q[i] = h[i]
  <2>1. q \in Seq(SxBytes) /\ Len(q) = Len(h) + Len(m)  BY <1>1, ConcatProperties
  <2>2. \A i \in 1 .. Len(h) : q[i] = h[i]  BY <1>1, FrontOfJoin
  <2>3. QED  BY <1>1, <2>1, <2>2
<1> HIDE DEF q
<1>5. /\ r \in Seq(SxBytes) /\ Len(r) = Len(q) + Len(p)
      /\ \A i \in 1 .. Len(q) + Len(p) : r[i] = IF i <= Len(q) THEN q[i] ELSE p[i - Len(q)]
  <2>1. r \in Seq(SxBytes)  BY <1>2, <1>4
  <2>2. QED  BY <1>2, <1>4, <2>1, ConcatProperties
<1> HIDE DEF r
<1> DEFINE k == Len(h) + n
<1>6. k \in Nat /\ Len(q) = k /\ Len(p) = 2  BY <1>2, <1>3, <1>4
<1> HIDE DEF k
<1>7. Len(r) = k + 2 /\ r[k + 1] = p[1] /\ r[k + 2] = p[2]
  <2> DEFINE i == k + 1
             j == k + 2
  <2>1. i \in 1 .. Len(q) + Len(p) /\ ~(i <= Len(q)) /\ i - Len(q) = 1  BY <1>6
  <2>2. j \in 1 .. Len(q) + Len(p) /\ ~(j <= Len(q)) /\ j - Len(q) = 2  BY <1>6
  <2> HIDE DEF i, j
  <2>3. r[i] = p[i - Len(q)]  BY <1>5, <2>1
  <2>4. r[j] = p[j - Len(q)]  BY <1>5, <2>2
  <2>5. r[i] = p[1] /\ r[j] = p[2]  BY <2>1, <2>2, <2>3, <2>4
  <2>6. Len(r) = k + 2  BY <1>5, <1>6
  <2>7. QED  BY <2>5, <2>6 DEF i, j
<1>8. Peers(r, k)  BY <1>2, <1>7 DEF Peers
<1>9. ASSUME NEW i \in 1 .. Len(h) PROVE r[i] = h[i]
  <2>1. i \in 1 .. Len(q) + Len(p) /\ i <= Len(q)  BY <1>3, <1>4, <1>6
  <2>2. QED  BY <1>4, <1>5, <2>1
<1>10. QED  BY <1>4, <1>5, <1>8, <1>9 DEF q, r, m, p, k

LEMMA FourBytes ==
  ASSUME NEW a \in SxBytes, NEW b \in SxBytes, NEW c \in SxBytes, NEW d \in SxBytes
  PROVE  /\ <<a, b>> \in Seq(SxBytes) /\ Len(<<a, b>>) = 2 /\ <<a, b>>[2] = b
         /\ <<a, b, c, d>> \in Seq(SxBytes) /\ Len(<<a, b, c, d>>) = 4
         /\ <<a, b, c, d>>[2] = b /\ <<a, b, c, d>>[4] = d
OBVIOUS

\* What a proxy answers is an answer to the request it has.
LEMMA RepliesAnswer ==
  ASSUME NEW r \in Replies
  PROVE  Answers(sx.internal, sx.version, r)
<1>1. CASE sx.internal = "authSent"
  <2>1. PICK v \in {"five", "other"}, m \in {"none", "gssapi", "unacceptable", "password"} : r = <<v, m>>
    <3> DEFINE M == {"none", "gssapi", "unacceptable"} \cup IF sx.password THEN {"password"} ELSE {}
    <3>1. r \in {<<v, m>> : v \in {"five", "other"}, m \in M}  BY <1>1 DEF Replies, AuthReplies
    <3>2. M \subseteq {"none", "gssapi", "unacceptable", "password"}
      <4>1. CASE sx.password  BY <4>1
      <4>2. CASE ~sx.password  BY <4>2
      <4>3. QED  BY <4>1, <4>2
    <3> HIDE DEF M
    <3>3. QED  BY <3>1, <3>2
  <2>2. v \in SxBytes /\ m \in SxBytes  BY DEF SxBytes
  <2>3. r \in Seq(SxBytes) /\ Len(r) = 2  BY <2>1, <2>2, FourBytes
  <2>4. QED  BY <1>1, <2>3 DEF Answers
<1>2. CASE sx.internal = "passwordSent"
  <2>1. PICK v \in {"one"}, m \in {"ok", "wrong"} : r = <<v, m>>
    <3>1. r \in {<<"one", "ok">>, <<"one", "wrong">>}  BY <1>2 DEF Replies
    <3>2. QED  BY <3>1
  <2>2. v \in SxBytes /\ m \in SxBytes  BY DEF SxBytes
  <2>3. r \in Seq(SxBytes) /\ Len(r) = 2  BY <2>1, <2>2, FourBytes
  <2>4. QED  BY <1>2, <2>3 DEF Answers
<1>3. CASE sx.internal = "connectSent" /\ sx.version = 4
  <2> DEFINE x == "null"
             y == "ok"
             z == "refused"
  <2>1. x \in SxBytes /\ y \in SxBytes /\ z \in SxBytes /\ z # "ok"  BY DEF SxBytes
  <2>2. \/ r = (<<x, y>> \o AddrBytes(6)) \o PeerBytes
        \/ r = <<x, z>> \o AddrBytes(6)
    BY <1>3 DEF Replies, ConnectReplies4
  <2> HIDE DEF x, y, z
  <2> DEFINE n == 6
  <2>3. n \in Nat /\ n = 6  OBVIOUS
  <2> HIDE DEF n
  <2>4. CASE r = (<<x, y>> \o AddrBytes(6)) \o PeerBytes
    <3> DEFINE h == <<x, y>>
    <3>1. h \in Seq(SxBytes) /\ Len(h) = 2  BY <2>1, FourBytes
    <3> HIDE DEF h
    <3>2. r = (h \o AddrBytes(n)) \o PeerBytes  BY <2>3, <2>4 DEF h
    <3>3. r \in Seq(SxBytes) /\ Peers(r, Len(h) + n)  BY <2>3, <3>1, <3>2, ReplyShape
    <3>4. Peers(r, 8)
      <4>1. Len(h) + n = 8  BY <2>3, <3>1
      <4>2. QED  BY <3>3, <4>1
    <3>5. QED  BY <1>3, <3>3, <3>4 DEF Answers
  <2>5. CASE r = <<x, z>> \o AddrBytes(6)
    <3> DEFINE h == <<x, z>>
    <3>1. h \in Seq(SxBytes) /\ Len(h) = 2 /\ h[2] = z  BY <2>1, FourBytes
    <3> HIDE DEF h
    <3>2. r = h \o AddrBytes(n)  BY <2>3, <2>5 DEF h
    <3>3. r \in Seq(SxBytes) /\ \A i \in 1 .. Len(h) : r[i] = h[i]  BY <2>3, <3>1, <3>2, ReplyShape
    <3>4. r[2] = z  BY <3>1, <3>3
    <3>5. QED  BY <1>3, <2>1, <3>3, <3>4 DEF Answers
  <2>6. QED  BY <2>2, <2>4, <2>5
<1>4. CASE sx.internal = "connectSent" /\ sx.version = 5
  <2> DEFINE five == "five"
             ok == "ok"
             no == "refused"
             zero == "zero"
             Body(a) == IF a = "domain" THEN <<"len">> \o AddrBytes(DomLen + 2) ELSE AddrBytes(AddrLen[a])
  <2>1. five \in SxBytes /\ ok \in SxBytes /\ no \in SxBytes /\ zero \in SxBytes /\ no # "ok" /\ "ipv4" \in SxBytes
    BY DEF SxBytes
  <2>2. \/ \E a \in DOMAIN AddrLen : r = (<<five, ok, zero, a>> \o Body(a)) \o PeerBytes
        \/ r = <<five, no, zero, "ipv4">> \o AddrBytes(6)
    <3>1. r \in ConnectReplies5
      <4>1. sx.version # 4 /\ sx.internal = "connectSent" /\ sx.version = 5  BY <1>4
      <4>2. QED  BY <4>1 DEF Replies
    <3>2. (\E a \in DOMAIN AddrLen : r = Accepted(a)) \/ r = <<"five", "refused", "zero", "ipv4">> \o AddrBytes(6)
      BY <3>1 DEF ConnectReplies5
    <3>3. QED  BY <3>2, Zenon DEF Accepted
  <2> HIDE DEF five, ok, no, zero
  <2> DEFINE n == 6
  <2>3. n \in Nat /\ n = 6  OBVIOUS
  <2> HIDE DEF n
  <2>4. ASSUME NEW a \in DOMAIN AddrLen, r = (<<five, ok, zero, a>> \o Body(a)) \o PeerBytes
        PROVE  Answers(sx.internal, sx.version, r)
    <3> DEFINE h == <<five, ok, zero, a>>
    <3>1. a \in {"ipv4", "ipv6", "domain"} /\ a \in SxBytes  BY DEF AddrLen, SxBytes
    <3>2. h \in Seq(SxBytes) /\ Len(h) = 4 /\ h[4] = a  BY <2>1, <3>1, FourBytes
    <3>3. r = (h \o Body(a)) \o PeerBytes  BY <2>4
    <3> HIDE DEF h
    <3>4. CASE a = "ipv4"
      <4>1. Body(a) = AddrBytes(n)  BY <2>3, <3>4 DEF AddrLen
      <4> HIDE DEF Body
      <4>2. r = (h \o AddrBytes(n)) \o PeerBytes  BY <3>3, <4>1
      <4>3. r \in Seq(SxBytes) /\ Peers(r, Len(h) + n)  BY <2>3, <3>2, <4>2, ReplyShape
      <4>4. Peers(r, 10)
        <5>1. Len(h) + n = 10  BY <2>3, <3>2
        <5>2. QED  BY <4>3, <5>1
      <4>5. QED  BY <1>4, <4>3, <4>4 DEF Answers
    <3>5. CASE a # "ipv4"
      <4> DEFINE b == Body(a)
                 q == h \o b
                 p == PeerBytes
      <4>1. b \in Seq(SxBytes)
        <5>1. \A k \in Nat : AddrBytes(k) \in Seq(SxBytes)
          <6>1. "addr" \in SxBytes  BY DEF SxBytes
          <6>2. QED  BY <6>1 DEF AddrBytes
        <5>2. CASE a = "domain"
          <6> DEFINE k == DomLen + 2
                     l == "len"
          <6>1. k \in Nat /\ l \in SxBytes  BY SxAssumption DEF SxBytes
          <6>2. b = <<l>> \o AddrBytes(k)  BY <5>2
          <6> HIDE DEF b, k, l
          <6>3. AddrBytes(k) \in Seq(SxBytes) /\ <<l>> \in Seq(SxBytes)  BY <5>1, <6>1
          <6>4. QED  BY <6>2, <6>3
        <5>3. CASE a = "ipv6"
          <6>1. b = AddrBytes(18)  BY <5>3 DEF AddrLen
          <6>2. QED  BY <5>1, <6>1
        <5>4. QED  BY <3>1, <3>5, <5>2, <5>3
      <4>2. p \in Seq(SxBytes)
        <5> DEFINE e == "peer"
        <5>1. e \in SxBytes /\ PeerBytes = <<e, e>>  BY DEF PeerBytes, SxBytes
        <5> HIDE DEF e
        <5>2. QED  BY <5>1
      <4>3. r = q \o p  BY <3>3
      <4> HIDE DEF b, p
      <4>4. q \in Seq(SxBytes) /\ q[4] = h[4] /\ Len(q) \in Nat /\ 4 <= Len(q)
        <5>1. q \in Seq(SxBytes) /\ Len(q) = Len(h) + Len(b) /\ Len(b) \in Nat  BY <3>2, <4>1, ConcatProperties, LenProperties
        <5>2. 4 \in 1 .. Len(h)  BY <3>2
        <5>3. q[4] = h[4]
          <6>1. h \in Seq(SxBytes) /\ 4 \in 1 .. Len(h)  BY <3>2, <5>2
          <6>2. QED  BY <4>1, <6>1, FrontOfJoin
        <5>4. QED  BY <3>2, <5>1, <5>3
      <4> HIDE DEF q
      <4>5. 4 \in 1 .. Len(q)  BY <4>4
      <4>6. r[4] = q[4]  BY <4>2, <4>3, <4>4, <4>5, FrontOfJoin
      <4>7. r \in Seq(SxBytes)  BY <4>2, <4>3, <4>4
      <4>8. QED  BY <1>4, <3>2, <3>5, <4>4, <4>6, <4>7 DEF Answers
    <3>6. QED  BY <3>4, <3>5
  <2>5. CASE r = <<five, no, zero, "ipv4">> \o AddrBytes(6)
    <3> DEFINE h == <<five, no, zero, "ipv4">>
    <3>1. h \in Seq(SxBytes) /\ Len(h) = 4 /\ h[2] = no  BY <2>1, FourBytes
    <3> HIDE DEF h
    <3>2. r = h \o AddrBytes(n)  BY <2>3, <2>5 DEF h
    <3>3. r \in Seq(SxBytes) /\ \A i \in 1 .. Len(h) : r[i] = h[i]  BY <2>3, <3>1, <3>2, ReplyShape
    <3>4. r[2] = no  BY <3>1, <3>3
    <3>5. QED  BY <1>4, <2>1, <3>3, <3>4 DEF Answers
  <2> HIDE DEF Body
  <2>6. QED  BY <2>2, <2>4, <2>5
<1>5. QED  BY <1>1, <1>2, <1>3, <1>4 DEF Replies

-----------------------------------------------------------------------------
LEMMA SxStarts ==
  ASSUME SxInit
  PROVE  SxSound(sx)
<1>1. PICK v \in SocksVersions, p \in BOOLEAN, d6 \in BOOLEAN, h \in Hosts :
        sx = [auth |-> "idle", state |-> "idle", internal |-> "none", version |-> v,
              password |-> p, dest6 |-> d6, host |-> h, server |-> 0, lookup |-> 0,
              sock |-> "new", closed |-> FALSE, wire |-> <<>>, in |-> <<>>, got |-> <<>>,
              addr |-> "ipv4"]
  BY DEF SxInit
<1>2. /\ sx = [g \in SxFields |-> sx[g]] /\ sx.auth = "idle" /\ sx.state = "idle"
      /\ sx.internal = "none" /\ sx.lookup = 0 /\ sx.sock = "new"
      /\ sx.wire = <<>> /\ sx.in = <<>> /\ sx.got = <<>>
  BY <1>1 DEF SxFields
<1>3. <<>> \in Seq(SxBytes)  OBVIOUS
<1>4. SxRec(sx)  BY <1>2, <1>3 DEF SxRec, SxAuths, SxStates, SxInternals, SxSocks
<1>5. QED  BY <1>2, <1>4 DEF SxSound

LEMMA AuthenticateStep ==
  ASSUME SxSound(sx), Authenticate
  PROVE  SxSound(sx')
<1> DEFINE S == [sx EXCEPT !.auth = "socks"]
<1>1. sx.auth = "idle" /\ sx' \in Setup(S)  BY DEF Authenticate
<1>2. SxRec(sx) /\ sx.sock = "new" /\ sx.lookup = 0 /\ sx.wire = <<>> /\ sx.in = <<>>
  BY <1>1 DEF SxSound
<1>3. /\ S = [g \in SxFields |-> S[g]] /\ S.auth = "socks"
      /\ \A g \in SxFields : g # "auth" => S[g] = sx[g]
  BY <1>2 DEF SxRec, SxFields
<1> HIDE DEF S
<1>4. /\ S.state = sx.state /\ S.internal = sx.internal /\ S.sock = sx.sock /\ S.lookup = sx.lookup
      /\ S.wire = sx.wire /\ S.in = sx.in /\ S.got = sx.got
  BY <1>3 DEF SxFields
<1>5. SxRec(S)  BY <1>2, <1>3, <1>4 DEF SxRec, SxAuths
<1>6. QED  BY <1>1, <1>2, <1>3, <1>4, <1>5, SetupSound

\* Host and server, and the mark that the proxy has closed, matter to nothing here.
LEMMA AsideStep ==
  ASSUME SxSound(sx), NEW T, T = [g \in SxFields |-> T[g]],
         \A g \in SxFields : g \notin {"host", "server", "closed"} => T[g] = sx[g]
  PROVE  SxSound(T)
<1>1. /\ T.auth = sx.auth /\ T.state = sx.state /\ T.internal = sx.internal /\ T.sock = sx.sock
      /\ T.lookup = sx.lookup /\ T.wire = sx.wire /\ T.in = sx.in /\ T.got = sx.got
      /\ T.addr = sx.addr /\ T.version = sx.version
  BY DEF SxFields
<1>2. SxRec(T)  BY <1>1 DEF SxSound, SxRec
<1>3. Joined(T) = Joined(sx)  BY <1>1 DEF Joined
<1>4. QED  BY <1>1, <1>2, <1>3 DEF SxSound, Asking

LEMMA ServerStep ==
  ASSUME SxSound(sx), NEW h, SetSocksServerAddress(h)
  PROVE  SxSound(sx')
<1> DEFINE T == sx'
<1>1. T = [g \in SxFields |-> T[g]] /\ \A g \in SxFields : g \notin {"host", "server"} => T[g] = sx[g]
  BY DEF SetSocksServerAddress, SxSound, SxRec, SxFields
<1> HIDE DEF T
<1>2. SxSound(T)  BY <1>1, AsideStep
<1>3. QED  BY <1>2 DEF T

LEMMA CloseStep ==
  ASSUME SxSound(sx), ProxyCloses
  PROVE  SxSound(sx')
<1> DEFINE T == sx'
<1>1. T = [g \in SxFields |-> T[g]] /\ \A g \in SxFields : g # "closed" => T[g] = sx[g]
  BY DEF ProxyCloses, SxSound, SxRec, SxFields
<1> HIDE DEF T
<1>2. SxSound(T)  BY <1>1, AsideStep
<1>3. QED  BY <1>2 DEF T

LEMMA ResolvedStep ==
  ASSUME SxSound(sx), NEW ok \in BOOLEAN, Resolved(ok)
  PROVE  SxSound(sx')
<1> DEFINE S == [sx EXCEPT !.lookup = 0]
           U == [S EXCEPT !.server = sx.lookup]
<1>1. sx.lookup # 0 /\ (IF ~ok THEN sx' = Failed(S) ELSE \E T \in Setup(U) : sx' = T)
  BY DEF Resolved
<1>2. SxRec(sx) /\ sx.auth = "socks" /\ sx.sock = "new" /\ sx.wire = <<>> /\ sx.in = <<>>
  BY <1>1 DEF SxSound, SxRec, SxAuths, Asking
<1>3. /\ S = [g \in SxFields |-> S[g]] /\ S.lookup = 0
      /\ \A g \in SxFields : g # "lookup" => S[g] = sx[g]
  BY <1>2 DEF SxRec, SxFields
<1> HIDE DEF S
<1>4. /\ S.auth = sx.auth /\ S.state = sx.state /\ S.internal = sx.internal /\ S.sock = sx.sock
      /\ S.wire = sx.wire /\ S.in = sx.in /\ S.got = sx.got
  BY <1>3 DEF SxFields
<1>5. SxRec(S)  BY <1>2, <1>3, <1>4 DEF SxRec
<1>6. CASE ~ok
  <2>1. sx' = Failed(S)  BY <1>1, <1>6
  <2> DEFINE T == Failed(S)
  <2>2. SxSound(T)
    <3>1. SxRec(T) /\ T.state = "failed" /\ \A g \in SxFields : g # "state" => T[g] = S[g]
      BY <1>5, FailedFacts
    <3> HIDE DEF T
    <3>2. /\ T.auth = S.auth /\ T.sock = S.sock /\ T.lookup = S.lookup
          /\ T.wire = S.wire /\ T.in = S.in
      BY <3>1 DEF SxFields
    <3>3. Joined(T) = <<>>
      <4>1. <<>> \o <<>> = <<>>  OBVIOUS
      <4>2. QED  BY <1>2, <1>4, <3>2, <4>1 DEF Joined
    <3>4. QED  BY <1>2, <1>3, <1>4, <3>1, <3>2, <3>3 DEF SxSound, Asking
  <2>3. QED  BY <2>1, <2>2
<1>7. CASE ok
  <2>1. PICK T \in Setup(U) : sx' = T  BY <1>1, <1>7
  <2>2. /\ U = [g \in SxFields |-> U[g]] /\ \A g \in SxFields : g # "server" => U[g] = S[g]
    BY <1>3 DEF SxFields
  <2> HIDE DEF U
  <2>3. /\ U.auth = S.auth /\ U.state = S.state /\ U.internal = S.internal /\ U.sock = S.sock
        /\ U.wire = S.wire /\ U.in = S.in /\ U.got = S.got /\ U.lookup = S.lookup
    BY <2>2 DEF SxFields
  <2>4. SxRec(U)  BY <1>5, <2>2, <2>3 DEF SxRec
  <2>5. SxSound(T)  BY <1>2, <1>3, <1>4, <2>3, <2>4, SetupSound
  <2>6. QED  BY <2>1, <2>5
<1>8. QED  BY <1>6, <1>7

LEMMA WriteStep ==
  ASSUME SxSound(sx), NEW ok \in BOOLEAN, OnReadyWrite(ok)
  PROVE  SxSound(sx')
<1>1. sx.auth = "socks" /\ sx.sock = "connecting"  BY DEF OnReadyWrite
<1>2. SxRec(sx) /\ sx.lookup = 0 /\ sx.wire = <<>> /\ sx.in = <<>>  BY <1>1 DEF SxSound, Asking
<1>3. CASE ok
  <2>1. sx' = Continue(Reached(sx))  BY <1>3 DEF OnReadyWrite
  <2> DEFINE T == Reached(sx)
  <2>2. /\ SxRec(T) /\ Asking(T) /\ T.auth = "socks" /\ T.lookup = 0 /\ T.sock = "connected"
        /\ T.state # "connected"
    BY <1>1, <1>2, ReachedFacts
  <2> HIDE DEF T
  <2>3. SxSound(Continue(T))  BY <2>2, ContinueSound
  <2>4. QED  BY <2>1, <2>3 DEF T
<1>4. CASE ~ok
  <2>1. sx' = Continue(Failed(sx))  BY <1>4 DEF OnReadyWrite
  <2>2. QED  BY <1>1, <1>2, <2>1, FailsSound
<1>5. QED  BY <1>3, <1>4

LEMMA SxReadStep ==
  ASSUME SxSound(sx), SxReadyRead
  PROVE  SxSound(sx')
BY ReadSound DEF SxReadyRead

LEMMA TimeoutStep ==
  ASSUME SxSound(sx), SxTimeout
  PROVE  SxSound(sx')
<1> DEFINE T == sx'
<1>1. T = [sx EXCEPT !.auth = "failed", !.lookup = 0]  BY DEF SxTimeout
<1>2. SxRec(sx)  BY DEF SxSound
<1> HIDE DEF T
<1>3. /\ T = [g \in SxFields |-> T[g]] /\ T.auth = "failed" /\ T.lookup = 0
      /\ \A g \in SxFields : g \notin {"auth", "lookup"} => T[g] = sx[g]
  BY <1>1, <1>2 DEF SxRec, SxFields
<1>4. SxRec(T)  BY <1>2, <1>3 DEF SxRec, SxFields, SxAuths
<1>5. SxSound(T)  BY <1>3, <1>4 DEF SxSound
<1>6. QED  BY <1>5 DEF T

\* What the handshake reads moves from the socket to what it got.
LEMMA HandshakeReadStep ==
  ASSUME SxSound(sx), HandshakeRead
  PROVE  SxSound(sx')
<1> DEFINE T == sx'
<1>1. sx.auth = "handshake" /\ T = [sx EXCEPT !.got = sx.got \o sx.in, !.in = <<>>]  BY DEF HandshakeRead
<1>2. SxRec(sx) /\ sx.lookup = 0 /\ sx.sock = "connected"  BY <1>1 DEF SxSound
<1> HIDE DEF T
<1>3. /\ T = [g \in SxFields |-> T[g]] /\ T.got = sx.got \o sx.in /\ T.in = <<>>
      /\ \A g \in SxFields : g \notin {"got", "in"} => T[g] = sx[g]
  BY <1>1, <1>2 DEF SxRec, SxFields
<1>4. /\ T.auth = sx.auth /\ T.state = sx.state /\ T.internal = sx.internal /\ T.sock = sx.sock
      /\ T.wire = sx.wire /\ T.lookup = sx.lookup /\ T.addr = sx.addr
  BY <1>3 DEF SxFields
<1> DEFINE g == sx.got
           i == sx.in
           w == sx.wire
<1>5. g \in Seq(SxBytes) /\ i \in Seq(SxBytes) /\ w \in Seq(SxBytes)  BY <1>2 DEF SxRec
<1>6. T.got = g \o i /\ T.in = <<>> /\ T.wire = w  BY <1>3, <1>4
<1> HIDE DEF g, i, w
<1>7. (g \o i) \o w = g \o (i \o w)  BY <1>5, ConcatAssociative
<1>8. <<>> \o w = w  BY <1>5, ConcatEmptySeq
<1>9. T.got \o (T.in \o T.wire) = g \o (i \o w)  BY <1>6, <1>7, <1>8
<1>10. SxRec(T)
  <2>1. T.got \in Seq(SxBytes) /\ T.in \in Seq(SxBytes) /\ T.wire \in Seq(SxBytes)
    <3>1. g \o i \in Seq(SxBytes)  BY <1>5, ConcatProperties
    <3>2. <<>> \in Seq(SxBytes)  OBVIOUS
    <3>3. QED  BY <1>5, <1>6, <3>1, <3>2
  <2>2. QED  BY <1>2, <1>3, <1>4, <2>1 DEF SxRec
<1>11. SxSound(T)  BY <1>1, <1>2, <1>4, <1>9, <1>10 DEF SxSound, g, i, w
<1>12. QED  BY <1>11 DEF T

LEMMA ReplyStep ==
  ASSUME SxSound(sx), ProxyReplies
  PROVE  SxSound(sx')
<1> DEFINE T == sx'
<1>1. /\ sx.auth = "socks" /\ sx.sock = "connected" /\ sx.in = <<>>
      /\ \E r \in Replies : T = [sx EXCEPT !.wire = r]
  BY DEF ProxyReplies
<1>2. SxRec(sx) /\ Asking(sx) /\ sx.state # "connected"  BY <1>1 DEF SxSound
<1> HIDE DEF T
<1>3. PICK r \in Replies : T = [sx EXCEPT !.wire = r]  BY <1>1
<1>4. Answers(sx.internal, sx.version, r) /\ r \in Seq(SxBytes)  BY RepliesAnswer DEF Answers
<1>5. /\ T = [g \in SxFields |-> T[g]] /\ T.wire = r
      /\ \A g \in SxFields : g # "wire" => T[g] = sx[g]
  BY <1>2, <1>3 DEF SxRec, SxFields
<1>6. /\ T.auth = sx.auth /\ T.state = sx.state /\ T.internal = sx.internal /\ T.sock = sx.sock
      /\ T.in = sx.in /\ T.got = sx.got /\ T.lookup = sx.lookup /\ T.version = sx.version
  BY <1>5 DEF SxFields
<1>7. SxRec(T)  BY <1>2, <1>4, <1>5, <1>6 DEF SxRec
<1>8. Joined(T) = r
  <2>1. <<>> \o r = r  BY <1>4, ConcatEmptySeq
  <2>2. QED  BY <1>1, <1>5, <1>6, <2>1 DEF Joined
<1>9. Asking(T)
  <2>1. Answers(T.internal, T.version, Joined(T))  BY <1>4, <1>6, <1>8
  <2>2. QED  BY <1>1, <1>2, <1>6, <2>1 DEF Asking
<1>10. SxSound(T)  BY <1>1, <1>2, <1>6, <1>7, <1>9 DEF SxSound
<1>11. QED  BY <1>10 DEF T

\* Where a reply is cut does not change what is under way.
LEMMA SegmentStep ==
  ASSUME SxSound(sx), NEW n \in 1 .. MaxReply, SegmentArrives(n)
  PROVE  SxSound(sx')
<1> DEFINE T == sx'
           i == sx.in
           w == sx.wire
           a == i \o SubSeq(w, 1, n)
           b == SubSeq(w, n + 1, Len(w))
<1>1. n <= Len(w) /\ T = [sx EXCEPT !.in = a, !.wire = b]  BY DEF SegmentArrives
<1>2. SxRec(sx)  BY DEF SxSound
<1>3. i \in Seq(SxBytes) /\ w \in Seq(SxBytes)  BY <1>2 DEF SxRec
<1>4. n \in 0 .. Len(w) /\ w # <<>>
  <2>1. Len(w) \in Nat /\ n \in Int /\ n >= 1
    <3>1. MaxReply \in Int  BY DEF MaxReply, PeerBytes
    <3>2. QED  BY <1>3, <3>1, LenProperties
  <2>2. n \in 0 .. Len(w) /\ Len(w) # 0  BY <1>1, <2>1
  <2>3. Len(<<>>) = 0  OBVIOUS
  <2>4. QED  BY <2>2, <2>3
<1> HIDE DEF T, a, b
<1>5. /\ T = [g \in SxFields |-> T[g]] /\ T.in = a /\ T.wire = b
      /\ \A g \in SxFields : g \notin {"in", "wire"} => T[g] = sx[g]
  BY <1>1, <1>2 DEF SxRec, SxFields
<1>6. /\ T.auth = sx.auth /\ T.state = sx.state /\ T.internal = sx.internal /\ T.sock = sx.sock
      /\ T.got = sx.got /\ T.lookup = sx.lookup /\ T.version = sx.version /\ T.addr = sx.addr
  BY <1>5 DEF SxFields
<1> HIDE DEF i, w
<1>7. a \in Seq(SxBytes) /\ b \in Seq(SxBytes) /\ a \o b = i \o w
  <2>1. n \in 0 .. Len(w)  BY <1>4
  <2>2. /\ i \o SubSeq(w, 1, n) \in Seq(SxBytes) /\ SubSeq(w, n + 1, Len(w)) \in Seq(SxBytes)
        /\ (i \o SubSeq(w, 1, n)) \o SubSeq(w, n + 1, Len(w)) = i \o w
    BY <1>3, <2>1, SegmentJoins, Zenon
  <2>3. QED  BY <2>2, Zenon DEF a, b
<1>8. SxRec(T)  BY <1>2, <1>5, <1>6, <1>7 DEF SxRec
<1>9. T.in \o T.wire = sx.in \o sx.wire  BY <1>5, <1>7 DEF i, w
<1>10. sx.auth # "idle" /\ (sx.auth = "socks" => sx.sock = "connected")
  BY <1>4 DEF SxSound, Asking, w
<1>11. Joined(T) = Joined(sx)  BY <1>9 DEF Joined
<1>12. sx.auth = "socks" => Asking(T)  BY <1>6, <1>10, <1>11 DEF SxSound, Asking
<1>13. SxSound(T)  BY <1>6, <1>8, <1>9, <1>10, <1>12 DEF SxSound
<1>14. QED  BY <1>13 DEF T

-----------------------------------------------------------------------------
SxInv == SxSound(sx)

LEMMA SxNextSound ==
  ASSUME SxInv, [SxNext]_sx
  PROVE  SxInv'
<1>1. SUFFICES SxSound(sx')  BY DEF SxInv
<1>2. SxSound(sx)  BY DEF SxInv
<1>3. CASE UNCHANGED sx  BY <1>2, <1>3
<1>4. CASE Authenticate  BY <1>2, <1>4, AuthenticateStep
<1>5. CASE SxReadyRead  BY <1>2, <1>5, SxReadStep
<1>6. CASE HandshakeRead  BY <1>2, <1>6, HandshakeReadStep
<1>7. CASE SxTimeout  BY <1>2, <1>7, TimeoutStep
<1>8. CASE ProxyReplies  BY <1>2, <1>8, ReplyStep
<1>9. CASE ProxyCloses  BY <1>2, <1>9, CloseStep
<1>10. ASSUME NEW ok \in BOOLEAN, Resolved(ok) PROVE SxSound(sx')  BY <1>2, <1>10, ResolvedStep
<1>11. ASSUME NEW ok \in BOOLEAN, OnReadyWrite(ok) PROVE SxSound(sx')  BY <1>2, <1>11, WriteStep
<1>12. ASSUME NEW h \in Hosts, SetSocksServerAddress(h) PROVE SxSound(sx')  BY <1>2, <1>12, ServerStep
<1>13. ASSUME NEW n \in 1 .. MaxReply, SegmentArrives(n) PROVE SxSound(sx')  BY <1>2, <1>13, SegmentStep
<1>14. QED
  BY <1>3, <1>4, <1>5, <1>6, <1>7, <1>8, <1>9, <1>10, <1>11, <1>12, <1>13 DEF SxNext

LEMMA SxTransparent ==
  ASSUME SxInv
  PROVE  ProxyTransparent
<1>1. SxSound(sx) /\ SxRec(sx)  BY DEF SxInv, SxSound
<1>2. SxTypeOK  BY <1>1 DEF SxRec, SxTypeOK, SxAuths, SxStates, SxInternals, SxSocks
<1>3. ASSUME sx.auth = "handshake", sx.addr = "ipv4" PROVE sx.got \o sx.in \o sx.wire = PeerBytes
  <2> DEFINE g == sx.got
             i == sx.in
             w == sx.wire
  <2>1. g \in Seq(SxBytes) /\ i \in Seq(SxBytes) /\ w \in Seq(SxBytes)  BY <1>1 DEF SxRec
  <2>2. g \o (i \o w) = PeerBytes  BY <1>1, <1>3 DEF SxSound
  <2> HIDE DEF g, i, w
  <2>3. (g \o i) \o w = g \o (i \o w)  BY <2>1, ConcatAssociative
  <2>4. QED  BY <2>2, <2>3 DEF g, i, w
<1>4. QED  BY <1>2, <1>3 DEF ProxyTransparent

\* The inductive invariant of an attempt through a proxy: what is under way and
\* what was read answer the last request, in any number of segments (Socks).
THEOREM SxInvariant == SxSpec => []SxInv
<1>1. SxInit => SxInv  BY SxStarts DEF SxInv
<1>2. SxInv /\ [SxNext]_sx => SxInv'  BY SxNextSound
<1>3. QED  BY <1>1, <1>2, PTL DEF SxSpec

\* When the proxy says it is connected and gives an IPv4 address, what goes on to
\* the authentication is what the peer sent, from its first byte (Socks).
THEOREM ProxyStaysTransparent == SxSpec => []ProxyTransparent
<1>1. SxInv => ProxyTransparent  BY SxTransparent
<1>2. QED  BY <1>1, SxInvariant, PTL

-----------------------------------------------------------------------------
\* Through a proxy or after an encrypted handshake, what the packet reader gets
\* is the stream of the peer: net/socks.cpp and mse/encryptedpacketsocket.cpp.
THEOREM PeerStreamStaysIntact == MsSpec /\ SxSpec => []PeerStreamIntact
<1>1. PayloadIntact /\ ProxyTransparent => PeerStreamIntact  BY DEF PeerStreamIntact
<1>2. QED  BY <1>1, PayloadStaysIntact, ProxyStaysTransparent, PTL
=============================================================================
