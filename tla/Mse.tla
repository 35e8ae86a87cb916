-------------------------------- MODULE Mse --------------------------------
(***************************************************************************)
(* The encrypted handshake with a correct other side, for every way the    *)
(* byte stream can be cut: what we do as the side that connects            *)
(* (EncryptedAuthenticate) and as the side that accepts                    *)
(* (EncryptedServerAuthenticate), the BitTorrent handshake inside it       *)
(* (AuthenticateBase) and the bytes EncryptedPacketSocket puts back.       *)
(* src/src/mse/*.cpp, src/src/peer/{authenticate,authenticatebase,         *)
(* serverauthenticate}.cpp.                                                *)
(*                                                                         *)
(* A byte is its place in the stream, its place in the RC4 key stream (0   *)
(* when sent in the clear) and whether it is readable. Decrypting at key   *)
(* stream place c makes byte c readable, and any other byte junk.          *)
(***************************************************************************)
EXTENDS Integers, SequencesExt

CONSTANTS YLen,          \* a Diffie Hellman key            (96 bytes)
          HashLen,       \* a hash                          (20)
          VcLen,         \* the verification constant       (8)
          SelLen,        \* VC, method and length of a pad  (14)
          HsLen, HsMin,  \* the handshake, its first part   (68, 48)
          MaxPad,        \* longest pad                     (512)
          MoreLen        \* bytes of packets that follow the handshake

ASSUME MsAssumption ==
    /\ {YLen, HashLen, VcLen, SelLen, HsLen, HsMin, MaxPad, MoreLen} \subseteq Nat
    /\ SelLen >= 1 /\ 1 <= HsMin /\ HsMin <= HsLen

VARIABLES side,          \* "client" or "server": which of the two we are
          pads,          \* the pads the other side chose, and RC4 or not
          arrived, read, \* bytes that reached the socket, bytes read from it
          st,            \* the state of the authentication object
          buf,           \* its buffer
          rc,            \* key stream place of our_rc4
          sk,            \* the socket: encryption on, reinserted data
          hs,            \* handshake
          out            \* bytes passed on to the PacketReader

msVars == <<side, pads, arrived, read, st, buf, rc, sk, hs, out>>

\* The parts of the stream, in order: the clear part, and the encrypted one.
Clear == YLen + pads.first + IF side = "client" THEN 0 ELSE 2 * HashLen
Crypto == SelLen + pads.second + IF side = "client" THEN 0 ELSE 1   \* IA length
Total == Clear + Crypto + HsLen + MoreLen
Encrypted(i) == i > Clear /\ (pads.rc4 \/ i <= Clear + Crypto)
Byte(i) == [at |-> i, key |-> IF Encrypted(i) THEN i - Clear ELSE 0,
            ok |-> ~Encrypted(i)]
Slice(from, n) == [i \in 1 .. n |-> Byte(from + i)]

\* RC4Encryptor::decrypt of bytes, when c bytes were decrypted before.
Decrypt(bytes, c) ==
    [i \in DOMAIN bytes |-> [bytes[i] EXCEPT !.ok = ~@ /\ bytes[i].key = c + i]]

MsInit ==
    /\ side \in {"client", "server"}
    /\ pads \in [first : 0 .. MaxPad, second : 0 .. MaxPad, rc4 : BOOLEAN]
    /\ side = "server" => pads.rc4     \* we select RC4 when it is provided
    /\ arrived = 0 /\ read = 0 /\ buf = <<>> /\ rc = 0 /\ out = <<>>
    /\ st = [s |-> IF side = "client" THEN "sentYa" ELSE "waitYa", off |-> 0, pad |-> 0]
    /\ sk = [enc |-> FALSE, back |-> <<>>]
    /\ hs = <<>>

MsTypeOK == /\ read <= arrived /\ arrived <= Total
            /\ Len(hs) <= HsLen /\ rc \in Nat
            /\ \A b \in Range(buf) : b.at \in 1 .. Total

MsWorld == [read |-> read, st |-> st, buf |-> buf, rc |-> rc, sk |-> sk, hs |-> hs,
          out |-> out]
MsBecome(S) == /\ read' = S.read /\ st' = S.st /\ buf' = S.buf /\ rc' = S.rc
             /\ sk' = S.sk /\ hs' = S.hs /\ out' = S.out

Waiting(S) == arrived - S.read                         \* in the socket
Available(S) == Waiting(S) + Len(S.sk.back)            \* bytesAvailable
Smaller(a, b) == IF a < b THEN a ELSE b
Finish(S, s) == [S EXCEPT !.st.s = s]
Buffer(S, n) == [S EXCEPT !.buf = @ \o Slice(S.read, n), !.read = @ + n]

-----------------------------------------------------------------------------
(* EncryptedPacketSocket: readData first takes what was put back. When     *)
(* that is not enough it is decrypted, and then decrypted once more with   *)
(* the bytes read from the socket.                                         *)

ReadData(S, n) ==
    LET back == S.sk.back
        k == Smaller(n, Waiting(S) + Len(back))
    IN IF Len(back) >= n
       THEN [bytes |-> IF S.sk.enc THEN Decrypt(SubSeq(back, 1, n), S.rc) ELSE SubSeq(back, 1, n),
             S |-> [S EXCEPT !.sk.back = SubSeq(back, n + 1, Len(back)),
                             !.rc = @ + IF S.sk.enc THEN n ELSE 0]]
       ELSE LET first == IF S.sk.enc THEN Decrypt(back, S.rc) ELSE back
                c == S.rc + IF S.sk.enc THEN Len(back) ELSE 0
                all == first \o Slice(S.read, k - Len(back))
            IN [bytes |-> IF S.sk.enc THEN Decrypt(all, c) ELSE all,
                S |-> [S EXCEPT !.sk.back = <<>>, !.read = @ + k - Len(back),
                                !.rc = c + IF S.sk.enc THEN k ELSE 0]]

\* startMonitoring, when the Peer is made: what is left is passed on.
StartMonitoring(S) ==
    IF S.sk.enc
    THEN [S EXCEPT !.out = @ \o Decrypt(S.sk.back, S.rc), !.rc = @ + Len(S.sk.back),
                   !.sk.back = <<>>]
    ELSE [S EXCEPT !.out = @ \o S.sk.back, !.sk.back = <<>>]

-----------------------------------------------------------------------------
(* AuthenticateBase::onReadyRead and handshakeReceived. *)

Right(bytes) == \A i \in DOMAIN bytes : bytes[i].ok /\ bytes[i].at = Clear + Crypto + i

BaseRead(S) ==
    LET ba == Available(S)
        n == IF S.hs = <<>> THEN Smaller(ba, HsLen) ELSE HsLen - Len(S.hs)
        r == ReadData(S, n)
        S1 == [r.S EXCEPT !.hs = @ \o r.bytes]
    IN IF ba = 0 THEN Finish(S, "failed")
       ELSE IF ba < HsMin THEN S
       ELSE IF ~Right(S1.hs) THEN Finish(S1, "failed")
       ELSE IF Len(S1.hs) < HsLen THEN S1
       ELSE StartMonitoring(Finish(S1, "ok"))

-----------------------------------------------------------------------------
(* EncryptedAuthenticate, the side that connects. *)

HandlePadD(S) ==
    LET end == S.st.off + SelLen + S.st.pad
        rest == SubSeq(S.buf, end + 1, Len(S.buf))
        S1 == [S EXCEPT !.rc = @ + S.st.pad, !.st.s = "normal",
                        !.sk = [enc |-> pads.rc4, back |-> S.sk.back \o rest]]
    IN IF Len(S.buf) > end THEN BaseRead(S1) ELSE S1

HandleCryptoSelect(S) ==
    LET sel == Decrypt(SubSeq(S.buf, S.st.off + 1, S.st.off + SelLen), S.rc)
        S1 == [S EXCEPT !.rc = @ + SelLen, !.st.pad = pads.second]
    IN IF S.st.off + SelLen >= Len(S.buf) THEN S
       ELSE IF \E b \in Range(sel) : ~b.ok THEN Finish(S, "failed")
       ELSE IF Len(S.buf) <= S.st.off + SelLen + pads.second
       THEN [S1 EXCEPT !.st.s = "waitPadD"]
       ELSE HandlePadD(S1)

\* The encrypted VC is looked for behind the key.
FindVC(S) ==
    IF Clear < Len(S.buf) - VcLen
    THEN HandleCryptoSelect([S EXCEPT !.st.s = "foundVc", !.st.off = Clear])
    ELSE IF Len(S.buf) >= YLen + MaxPad + VcLen THEN Finish(S, "failed")
    ELSE S

HandleYB(S) == IF Len(S.buf) < YLen THEN Finish(S, "failed")
               ELSE FindVC([S EXCEPT !.st.s = "gotYb"])

\* Of the pad no more is read than there is.
ReadSize(S) ==
    IF S.st.pad > 0 THEN Smaller(Waiting(S), S.st.off + SelLen + S.st.pad - Len(S.buf))
    ELSE Waiting(S)

ClientRead(S) ==
    LET S1 == Buffer(S, ReadSize(S))
    IN CASE S.st.s = "normal" -> BaseRead(S)
         [] S.st.s = "sentYa" -> HandleYB(S1)
         [] S.st.s = "gotYb" -> FindVC(S1)
         [] S.st.s = "foundVc" -> HandleCryptoSelect(S1)
         [] S.st.s = "waitPadD" -> HandlePadD(S1)

-----------------------------------------------------------------------------
(* EncryptedServerAuthenticate, the side that accepts. *)

HandleIA(S) ==
    LET off == S.st.off + 2 * HashLen + SelLen + pads.second + 1
        rest == SubSeq(S.buf, off + 1, Len(S.buf))
    IN IF Len(S.buf) < off + HsLen THEN S
       ELSE BaseRead([S EXCEPT !.st.s = "normal", !.sk = [enc |-> TRUE, back |-> S.sk.back \o rest]])

HandlePadC(S) ==
    LET off == S.st.off + 2 * HashLen + SelLen
        S1 == [S EXCEPT !.rc = @ + pads.second + 1]
    IN IF Len(S.buf) < off + pads.second + 1 THEN S
       ELSE IF Len(S.buf) < off + HsLen THEN [S1 EXCEPT !.st.s = "waitIa"]
       ELSE HandleIA(S1)

ProcessVC(S) ==
    LET off == S.st.off + 2 * HashLen
        vc == Decrypt(SubSeq(S.buf, off + 1, off + SelLen), S.rc)
        S1 == [S EXCEPT !.rc = @ + SelLen,
                        !.buf = SubSeq(S.buf, 1, off) \o vc
                                \o SubSeq(S.buf, off + SelLen + 1, Len(S.buf))]
    IN IF Len(S.buf) < off + SelLen THEN S
       ELSE IF \E b \in Range(vc) : ~b.ok THEN Finish(S1, "failed")
       ELSE IF Len(S.buf) < S.st.off + SelLen + pads.second
       THEN [S1 EXCEPT !.st.s = "waitPadC"]
       ELSE HandlePadC(S1)

CalculateSKey(S) == IF S.st.off + 2 * HashLen > Len(S.buf) THEN S
                    ELSE ProcessVC([S EXCEPT !.st.s = "foundHash"])

FindReq1(S) ==
    LET off == YLen + pads.first
    IN IF Len(S.buf) < YLen + HashLen THEN S
       ELSE IF off < Len(S.buf) - HashLen
       THEN CalculateSKey([S EXCEPT !.st.s = "foundReq1", !.st.off = off])
       ELSE IF Len(S.buf) > YLen + MaxPad THEN Finish(S, "failed")
       ELSE S

ServerRead(S) ==
    LET S1 == Buffer(S, Waiting(S))
    IN CASE S.st.s = "normal" -> BaseRead(S)
         [] S.st.s = "waitYa" -> IF Len(S1.buf) < YLen THEN S1
                                 ELSE FindReq1([S1 EXCEPT !.st.s = "waitReq1"])
         [] S.st.s = "waitReq1" -> FindReq1(S1)
         [] S.st.s = "foundReq1" -> CalculateSKey(S1)
         [] S.st.s = "foundHash" -> ProcessVC(S1)
         [] S.st.s = "waitPadC" -> HandlePadC(S1)
         [] S.st.s = "waitIa" -> HandleIA(S1)

-----------------------------------------------------------------------------
\* How far the other side can have sent: it needs our answer to go on, and
\* the packets come when it has our handshake. The key comes in one piece,
\* as both sides insist on.
Sendable == IF side = "client" /\ st.s = "sentYa" THEN Clear
            ELSE IF side = "server" /\ st.s = "waitYa" THEN YLen + pads.first
            ELSE IF side = "server" /\ st.s # "ok" THEN Total - MoreLen ELSE Total

Arrive(n) == /\ st.s # "failed" /\ arrived + n <= Sendable
             /\ arrived = 0 => n >= YLen
             /\ arrived' = arrived + n
             /\ UNCHANGED <<side, pads, read, st, buf, rc, sk, hs, out>>

\* The monitor finds bytes to read.
OnReadyRead ==
    /\ st.s \notin {"ok", "failed"} /\ arrived > read
    /\ \E S \in {IF side = "client" THEN ClientRead(MsWorld) ELSE ServerRead(MsWorld)} : MsBecome(S)
    /\ UNCHANGED <<side, pads, arrived>>

\* After the handshake the download thread reads and decrypts (postProcess).
ReadPackets ==
    /\ st.s = "ok" /\ arrived > read
    /\ out' = out \o IF sk.enc THEN Decrypt(Slice(read, arrived - read), rc)
                     ELSE Slice(read, arrived - read)
    /\ rc' = IF sk.enc THEN rc + arrived - read ELSE rc
    /\ read' = arrived
    /\ UNCHANGED <<side, pads, arrived, st, buf, sk, hs>>

MsNext == OnReadyRead \/ ReadPackets \/ \E n \in 1 .. Total : Arrive(n)

MsSpec == MsInit /\ [][MsNext]_msVars

-----------------------------------------------------------------------------
(* After a handshake that succeeded, however it was cut and whatever part  *)
(* of it was read too early and put back, the packet reader gets the bytes *)
(* that follow the handshake, each once, in order and decrypted at its own *)
(* place of the key stream.                                                *)
PayloadIntact ==
    MsTypeOK /\ (st.s = "ok" => /\ \A i \in DOMAIN out : out[i].ok /\ out[i].at = Total - MoreLen + i
                   /\ Len(out) = read - (Total - MoreLen))

=============================================================================
