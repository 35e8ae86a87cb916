------------------------------- MODULE Socks -------------------------------
(***************************************************************************)
(* A connection attempt through a SOCKS proxy: Authenticate drives a Socks *)
(* object until the proxy has reached the peer, and then continues with    *)
(* the BitTorrent handshake on the same socket. The replies of the proxy   *)
(* come in segments of any length; Socks reads each with one call and      *)
(* gives up when it gets less than it asked for.                           *)
(* src/src/net/{socks,addressresolver}.cpp, src/src/peer/authenticate.cpp. *)
(***************************************************************************)
EXTENDS Integers, Sequences

CONSTANTS SocksVersions,     \* socks_version, 4 or 5
          Hosts,             \* what socks_server_host is set to
          DomLen             \* length of a domain name in a reply

ASSUME SxAssumption == DomLen \in Nat

VARIABLE sx                  \* the attempt, its socket, and Socks' statics

PeerBytes == <<"peer", "peer">>      \* what the peer sends first
AddrBytes(n) == [i \in 1 .. n |-> "addr"]
MaxReply == 4 + 18 + Len(PeerBytes)  \* the longest reply, and the peer's bytes
AddrLen == [ipv4 |-> 6, ipv6 |-> 18, domain |-> DomLen + 2]

SxTypeOK ==
    /\ sx.auth \in {"idle", "socks", "handshake", "failed"}
    /\ sx.state \in {"idle", "toServer", "toHost", "connected", "failed"}
    /\ sx.internal \in {"none", "authSent", "passwordSent", "connectSent"}
    /\ sx.sock \in {"new", "connecting", "connected"}

SxInit ==
    \E v \in SocksVersions, p, d6 \in BOOLEAN, h \in Hosts :
      sx = [auth |-> "idle", state |-> "idle", internal |-> "none", version |-> v,
            password |-> p, dest6 |-> d6,    \* credentials set, IPv6 peer
            host |-> h, server |-> 0,        \* server: host socks_server_addr is of
            lookup |-> 0,                    \* the AddressResolver's host
            sock |-> "new", closed |-> FALSE,
            wire |-> <<>>, in |-> <<>>, got |-> <<>>,
            addr |-> "ipv4"]                 \* address type of the last reply

Failed(S) == [S EXCEPT !.state = "failed"]

\* readData: what there is, up to n bytes.
Take(S, n) == SubSeq(S.in, 1, n)
Drop(S, n) == [S EXCEPT !.in = SubSeq(@, n + 1, Len(@))]

\* Socks 4 has no authentication: the connect request goes out at once.
SendAuthRequest(S) ==
    IF S.version = 5 THEN [S EXCEPT !.internal = "authSent"]
    ELSE IF S.dest6 THEN Failed(S)
    ELSE [S EXCEPT !.internal = "connectSent"]

SendUsernamePassword(S) == [S EXCEPT !.internal = "passwordSent"]
SendConnectRequest(S) == [S EXCEPT !.internal = "connectSent"]

Reached(S) == SendAuthRequest([S EXCEPT !.state = "toHost", !.sock = "connected"])

\* setup: the outcomes of connectTo are at once, later, or never.
Setup(S) ==
    IF S.server = 0 THEN {[S EXCEPT !.state = "toServer", !.lookup = S.host]}
    ELSE {Reached(S), [S EXCEPT !.state = "toServer", !.sock = "connecting"], Failed(S)}

HandleAuthReply(S) ==
    LET r == Take(S, 2)  T == Drop(S, 2)
    IN IF Len(S.in) < 2 THEN Failed(T)
       ELSE IF r[1] # "five" \/ r[2] = "unacceptable" THEN Failed(T)
       ELSE IF r[2] = "none" THEN SendConnectRequest(T)
       ELSE IF r[2] = "password" THEN SendUsernamePassword(T)
       ELSE T                                  \* GSSAPI: nothing is sent

HandleUsernamePasswordReply(S) ==
    LET r == Take(S, 2)  T == Drop(S, 2)
    IN IF Len(S.in) < 2 \/ r # <<"one", "ok">> THEN Failed(T) ELSE SendConnectRequest(T)

\* How much of the address of a reply is read: an address and its port for
\* IPv4, the first 6 of the 18 bytes for IPv6, and no port for a domain.
AddressRead(type) == CASE type = "ipv4" -> 6 [] type = "ipv6" -> 6
                       [] type = "domain" -> 1 + DomLen

\* Mutant: the port of the address is left in the socket.
AddressOnly(S) == IF S.addr = "ipv4" /\ Len(S.in) >= 6
                  THEN Drop([S EXCEPT !.state = "connected"], 4) ELSE Failed(S)

HandleAddress(S) ==
    LET needed == IF S.addr = "ipv6" THEN 18 ELSE AddressRead(S.addr)
    IN IF Len(S.in) < needed
       THEN Failed(IF S.addr = "domain" THEN Drop(S, 1) ELSE S)
       ELSE Drop([S EXCEPT !.state = "connected"], AddressRead(S.addr))

HandleConnectReply(S) ==
    LET n == IF S.version = 4 THEN 8 ELSE 4
        r == Take(S, n)  T == Drop(S, n)
    IN IF Len(S.in) < n \/ r[2] # "ok" THEN Failed(T)
       ELSE IF S.version = 4 THEN [T EXCEPT !.state = "connected"]
       ELSE IF r[1] # "five" \/ r[4] \notin DOMAIN AddrLen THEN Failed(T)
       ELSE HandleAddress([T EXCEPT !.addr = r[4]])

SocksRead(S) ==
    CASE S.in = <<>> -> Failed(S)
      [] S.in # <<>> /\ S.internal = "authSent" -> HandleAuthReply(S)
      [] S.in # <<>> /\ S.internal = "passwordSent" -> HandleUsernamePasswordReply(S)
      [] S.in # <<>> /\ S.internal = "connectSent" -> HandleConnectReply(S)
      [] OTHER -> S

\* Authenticate acts on what Socks returned. The handshake takes over the
\* socket with what is left in it.
Continue(S) ==
    IF S.state = "failed" THEN [S EXCEPT !.auth = "failed", !.lookup = 0]
    ELSE IF S.state = "connected"
    THEN [S EXCEPT !.auth = "handshake", !.got = S.in, !.in = <<>>]
    ELSE S

-----------------------------------------------------------------------------
\* The constructor. When it fails only the timer reports it.
Authenticate == /\ sx.auth = "idle"
                /\ \E S \in Setup([sx EXCEPT !.auth = "socks"]) : sx' = S

SetSocksServerAddress(h) == /\ h # sx.host
                            /\ sx' = [sx EXCEPT !.host = h, !.server = 0]

\* AddressResolver::hostResolved and Socks::resolved: nobody looks at the
\* state that setup returns.
Resolved(ok) ==
    /\ sx.lookup # 0
    /\ LET S == [sx EXCEPT !.lookup = 0]
       IN IF ~ok THEN sx' = Failed(S)
          ELSE \E T \in Setup([S EXCEPT !.server = sx.lookup]) : sx' = T

OnReadyWrite(ok) ==
    /\ sx.auth = "socks" /\ sx.sock = "connecting"
    /\ sx' = Continue(IF ok THEN Reached(sx) ELSE Failed(sx))

SxReadyRead ==
    /\ sx.auth = "socks" /\ sx.sock = "connected"
    /\ sx.in # <<>> \/ (sx.closed /\ sx.wire = <<>>)
    /\ sx' = Continue(SocksRead(sx))

\* After the handover the base class reads.
HandshakeRead == /\ sx.auth = "handshake" /\ sx.in # <<>>
                 /\ sx' = [sx EXCEPT !.got = @ \o sx.in, !.in = <<>>]

SxTimeout == /\ sx.auth = "socks"
             /\ sx' = [sx EXCEPT !.auth = "failed", !.lookup = 0]

-----------------------------------------------------------------------------
(* The proxy answers the request it has, once, and may close. *)

AuthReplies == {<<v, m>> : v \in {"five", "other"},
                           m \in {"none", "gssapi", "unacceptable"}
                                 \cup IF sx.password THEN {"password"} ELSE {}}

\* Socks 4, and Socks 5 with an address of each type.
ConnectReplies4 == {<<"null", "ok">> \o AddrBytes(6) \o PeerBytes,
                    <<"null", "refused">> \o AddrBytes(6)}

Accepted(a) == <<"five", "ok", "zero", a>> \o
               (IF a = "domain" THEN <<"len">> \o AddrBytes(DomLen + 2)
                ELSE AddrBytes(AddrLen[a])) \o PeerBytes

ConnectReplies5 == {Accepted(a) : a \in DOMAIN AddrLen}
                   \cup {<<"five", "refused", "zero", "ipv4">> \o AddrBytes(6)}

Replies ==
    CASE sx.internal = "authSent" -> AuthReplies
      [] sx.internal = "passwordSent" -> {<<"one", "ok">>, <<"one", "wrong">>}
      [] sx.internal = "connectSent" /\ sx.version = 4 -> ConnectReplies4
      [] sx.internal = "connectSent" /\ sx.version = 5 -> ConnectReplies5
      [] OTHER -> {}

ProxyReplies ==
    /\ sx.auth = "socks" /\ sx.sock = "connected" /\ ~sx.closed
    /\ sx.wire = <<>> /\ sx.in = <<>>
    /\ \E r \in Replies : sx' = [sx EXCEPT !.wire = r]

ProxyCloses == /\ sx.auth = "socks" /\ sx.sock = "connected" /\ ~sx.closed
               /\ sx' = [sx EXCEPT !.closed = TRUE]

SegmentArrives(n) ==
    /\ n <= Len(sx.wire)
    /\ sx' = [sx EXCEPT !.in = @ \o SubSeq(sx.wire, 1, n),
                        !.wire = SubSeq(@, n + 1, Len(@))]

SxNext == \/ Authenticate \/ SxReadyRead \/ HandshakeRead \/ SxTimeout
          \/ ProxyReplies \/ ProxyCloses
          \/ \E ok \in BOOLEAN : Resolved(ok) \/ OnReadyWrite(ok)
          \/ \E h \in Hosts : SetSocksServerAddress(h)
          \/ \E n \in 1 .. MaxReply : SegmentArrives(n)

SxSpec == SxInit /\ [][SxNext]_sx

-----------------------------------------------------------------------------
(* When the handshake takes over, the bytes it gets and will get are those *)
(* of the peer, all of them and nothing of the proxy's replies, however    *)
(* the replies were cut (Authenticate::onReadyRead, Socks::onReadyToRead). *)
(* This excludes replies with an IPv6 address or a domain name, which      *)
(* Socks::handleConnectReply does not read to their end.                   *)
ProxyTransparent ==
    /\ SxTypeOK
    /\ sx.auth = "handshake" /\ sx.addr = "ipv4" => sx.got \o sx.in \o sx.wire = PeerBytes

=============================================================================
