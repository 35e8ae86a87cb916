------------------------------- MODULE Bcodec -------------------------------
(***************************************************************************)
(* Bencoding, used for torrents, saved state and messages: BEncoder writes *)
(* a document call by call, BDecoder reads one by recursive descent. The   *)
(* input is a document the encoder wrote, or whatever another program      *)
(* sent. src/src/bcodec/{bencoder,bdecoder,bnode,value}.cpp.               *)
(* Bytes are numbers: 0 to 9 for the digits, the rest as named.            *)
(***************************************************************************)
EXTENDS Integers, Sequences, SequencesExt

Colon == 10
Minus == 11
ByteI == 12
ByteE == 13
ByteL == 14
ByteD == 15
BcBytes == 0 .. 15

CONSTANTS IntMax, Int64Max,    \* the widths, small: 2^31 - 1, 2^63 - 1
          WrittenInts,         \* numbers and strings callers write
          WrittenStrings,
          ForeignBytes,        \* bytes another program sends
          MaxDoc, MaxForeign,  \* bounds: length of a document
          MaxDepth             \* bound: nested lists and dictionaries

ASSUME BcodecAssumption ==
    /\ IntMax \in Nat /\ Int64Max \in Nat /\ IntMax <= Int64Max
    /\ WrittenInts \subseteq 0 .. Int64Max /\ ForeignBytes \subseteq BcBytes
    /\ MaxDoc \in Nat /\ MaxForeign \in Nat /\ MaxDepth \in Nat

VARIABLE bc        \* out: the bytes; open: what was begun and not ended; root: the document

bcVars == <<bc>>

(******************************** BDecoder *********************************)

\* A node of the document with its slice of the bytes; key is its key in a
\* dictionary. kids are the entries of a dictionary or a list.
BNode(kind, num, str, kids, bytes) ==
    [kind |-> kind, num |-> num, str |-> str, kids |-> kids, bytes |-> bytes, key |-> <<>>]
NullNode == BNode("null", 0, <<>>, <<>>, <<>>)

\* decode returns a node and leaves pos behind it, or throws.
Decoded(n, pos) == [ok |-> TRUE, node |-> n, pos |-> pos]
DecodeError == [ok |-> FALSE, node |-> NullNode, pos |-> 0]

\* The first place from pos on (counted from 0) that holds b, or the end.
BcFind(data, pos, b) ==
    IF \E i \in pos .. Len(data) - 1 : data[i + 1] = b
    THEN CHOOSE i \in pos .. Len(data) - 1 :
            data[i + 1] = b /\ \A j \in pos .. i - 1 : data[j + 1] # b
    ELSE Len(data)
BcSlice(data, off, pos) == SubSeq(data, off + 1, pos)

Digits(s) == \A i \in DOMAIN s : s[i] <= 9
BcNumber(s) == FoldLeft(LAMBDA n, d : 10 * n + d, 0, s)

\* QString::toInt and toLongLong. (White space and a plus sign, which they
\* take too, are not among the bytes.)
Magnitude(s) == IF s # <<>> /\ s[1] = Minus THEN Tail(s) ELSE s
ToNumber(s) == IF s[1] = Minus THEN -BcNumber(Magnitude(s)) ELSE BcNumber(s)
Fits(v, max) == v \in -max - 1 .. max
IsNumber(s) == /\ Magnitude(s) # <<>> /\ Digits(Magnitude(s))
               /\ Fits(ToNumber(s), Int64Max)
IntKind(v) == IF Fits(v, IntMax) THEN "int" ELSE "int64"

\* The length of a string is summed up in an int, which wraps around.
WrapInt(v) == ((v + IntMax + 1) % (2 * (IntMax + 1))) - (IntMax + 1)
StringLength(s) == FoldLeft(LAMBDA n, d : WrapInt(10 * n + d), 0, s)

ParseInt(data, off) ==
    LET e == BcFind(data, off + 1, ByteE)
        n == BcSlice(data, off + 1, e)
    IN  IF e = Len(data) \/ ~IsNumber(n) THEN DecodeError
        ELSE Decoded(BNode(IntKind(ToNumber(n)), ToNumber(n), <<>>, <<>>,
                           BcSlice(data, off, e + 1)), e + 1)

ParseString(data, off) ==
    LET c == BcFind(data, off, Colon)
        n == BcSlice(data, off, c)
        end == c + 1 + StringLength(n)
    IN  IF c = Len(data) \/ ~Digits(n) \/ StringLength(n) < 0 \/ end > Len(data) THEN DecodeError
        ELSE Decoded(BNode("string", 0, BcSlice(data, c + 1, end), <<>>, BcSlice(data, off, end)), end)

\* Mutant: the end of the data ends a list.
CloseAnywhere(data, off, pos, kind, kids) ==
    LET end == IF pos < Len(data) THEN pos + 1 ELSE pos
    IN  Decoded(BNode(kind, 0, <<>>, kids, BcSlice(data, off, end)), end)

\* The end of parseList and parseDict.
CloseNode(data, off, pos, kind, kids) ==
    IF pos >= Len(data) THEN DecodeError
    ELSE Decoded(BNode(kind, 0, <<>>, kids, BcSlice(data, off, pos + 1)), pos + 1)

RECURSIVE Decode(_, _), ParseList(_, _, _, _), ParseDict(_, _, _, _)

More(data, pos) == pos < Len(data) /\ data[pos + 1] # ByteE

\* pos is behind the entries in kids.
ParseList(data, off, pos, kids) ==
    IF ~More(data, pos) THEN CloseNode(data, off, pos, "list", kids)
    ELSE LET n == Decode(data, pos)
         IN  IF n.ok THEN ParseList(data, off, n.pos, Append(kids, n.node)) ELSE DecodeError

ParseDict(data, off, pos, kids) ==
    IF ~More(data, pos) THEN CloseNode(data, off, pos, "dict", kids)
    ELSE LET k == Decode(data, pos)
             v == Decode(data, k.pos)
         IN  IF k.ok /\ k.node.kind = "string" /\ v.ok /\ v.node.kind # "null"
             THEN ParseDict(data, off, v.pos, Append(kids, [v.node EXCEPT !.key = k.node.str]))
             ELSE DecodeError

Decode(data, pos) ==
    CASE pos >= Len(data) -> Decoded(NullNode, pos)
      [] More(data, pos) /\ data[pos + 1] = ByteD -> ParseDict(data, pos, pos + 1, <<>>)
      [] More(data, pos) /\ data[pos + 1] = ByteL -> ParseList(data, pos, pos + 1, <<>>)
      [] More(data, pos) /\ data[pos + 1] = ByteI -> ParseInt(data, pos)
      [] More(data, pos) /\ data[pos + 1] <= 9 -> ParseString(data, pos)
      [] OTHER -> DecodeError

(******************************** BEncoder *********************************)

RECURSIVE DecimalDigits(_)
DecimalDigits(n) == (IF n > 9 THEN DecimalDigits(n \div 10) ELSE <<>>) \o <<n % 10>>

WriteInt(v) == <<ByteI>> \o DecimalDigits(v) \o <<ByteE>>
WriteString(s) == DecimalDigits(Len(s)) \o <<Colon>> \o s

BcInit == bc = [out |-> <<>>, open |-> <<>>, root |-> <<>>, foreign |-> FALSE]

Writable == ~bc.foreign /\ bc.root = <<>>
InDict == bc.open # <<>> /\ Last(bc.open).kind = "dict"

\* In a dictionary every value is written behind its key.
KeysHere == IF InDict THEN WrittenStrings ELSE {<<>>}
KeyBytes(key) == IF InDict THEN WriteString(key) ELSE <<>>

\* A finished node becomes an entry of what is open, or the document.
Place(S, n) == IF S.open = <<>> THEN [S EXCEPT !.root = <<n>>]
               ELSE [S EXCEPT !.open[Len(S.open)].kids = Append(@, n)]

EncWrite(n) == \E key \in KeysHere :
    /\ Writable /\ Len(bc.out \o KeyBytes(key) \o n.bytes) <= MaxDoc
    /\ bc' = Place([bc EXCEPT !.out = @ \o KeyBytes(key) \o n.bytes], [n EXCEPT !.key = key])

Begin(kind, b) == \E key \in KeysHere :
    /\ Writable /\ Len(bc.open) < MaxDepth /\ Len(bc.out \o KeyBytes(key)) < MaxDoc
    /\ bc' = [bc EXCEPT !.out = @ \o KeyBytes(key) \o <<b>>,
                !.open = Append(@, [kind |-> kind, key |-> key, kids |-> <<>>,
                                    off |-> Len(bc.out \o KeyBytes(key))])]
BeginDict == Begin("dict", ByteD)
BeginList == Begin("list", ByteL)

EncEnd ==
    /\ Writable /\ bc.open # <<>>
    /\ \E top \in {Last(bc.open)}, out \in {bc.out \o <<ByteE>>} :
         bc' = Place([bc EXCEPT !.out = out, !.open = Front(@)],
                     [BNode(top.kind, 0, <<>>, top.kids, BcSlice(out, top.off, Len(out)))
                        EXCEPT !.key = top.key])

EncWriteInt == \E v \in WrittenInts :
    EncWrite(BNode(IntKind(v), v, <<>>, <<>>, WriteInt(v)))
EncWriteString == \E s \in WrittenStrings : EncWrite(BNode("string", 0, s, <<>>, WriteString(s)))

\* Data that was not written by BEncoder.
ForeignByte == \E b \in ForeignBytes :
    /\ bc.out = <<>> \/ bc.foreign
    /\ Len(bc.out) < MaxForeign
    /\ bc' = [bc EXCEPT !.out = Append(@, b), !.foreign = TRUE]

BcNext == BeginDict \/ BeginList \/ EncEnd \/ EncWriteInt \/ EncWriteString \/ ForeignByte

BcSpec == BcInit /\ [][BcNext]_bcVars

-----------------------------------------------------------------------------
(* A document that was written is read back as it was written, every node  *)
(* with its own bytes (which the hash of a torrent is made of), and one    *)
(* that is not finished is refused. Whatever else is read: a node that is  *)
(* accepted has exactly the bytes in front of pos, no shorter part of them *)
(* is a document, and what follows makes no difference.                    *)
BencodeExact ==
    LET d == Decode(bc.out, 0)
    IN  /\ bc.root # <<>> => d = Decoded(bc.root[1], Len(bc.out))
        /\ bc.open # <<>> => ~d.ok
        /\ d.ok /\ bc.out # <<>> =>
              /\ d.node.bytes = SubSeq(bc.out, 1, d.pos)
              /\ Decode(d.node.bytes, 0) = d
              /\ \A n \in 1 .. d.pos - 1 : ~Decode(SubSeq(bc.out, 1, n), 0).ok
=============================================================================
