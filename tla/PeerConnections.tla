-------------------------- MODULE PeerConnections --------------------------
(***************************************************************************)
(* How a torrent gets and loses its connections: the potential peers and   *)
(* the peer map of PeerManager, the connection tokens of ConnectionLimit,  *)
(* and the PeerConnectors that share the half open slots of a              *)
(* ResourceManager, in round robin over the torrents.                      *)
(* src/src/peer/{peermanager,peerconnector,connectionlimit,                *)
(* serverauthenticate}.cpp, src/src/util/resourcemanager.cpp.              *)
(***************************************************************************)
EXTENDS Integers, FiniteSets, FiniteSetsExt, Lists

CONSTANTS Torrents,      \* info hashes, numbered: QMap orders groups by name
          Addrs,         \* addresses, numbered: std::map orders them
          PeerIds,       \* the peer ids of the handshakes
          Conns,         \* names of PeerConnector objects, numbered
          Blocked,       \* the addresses the AccessManager refuses
          MaxHalfOpen,   \* half_open_connections' limit
          MaxAuths,      \* MAX_SIMULTANIOUS_AUTHS
          GlobalLimits, TorrentLimits,  \* what setLimits is called with
          UtpFirst, Encryption, OnlyEncryption, UtpOn, OnlyUtp

ASSUME PcAssumption ==
    /\ Torrents \subseteq Nat \ {0} /\ IsFiniteSet(Torrents)
    /\ Conns \subseteq Nat /\ IsFiniteSet(Conns)
    /\ Addrs \subseteq Nat /\ IsFiniteSet(Addrs) /\ IsFiniteSet(PeerIds)
    /\ GlobalLimits \subseteq Nat /\ GlobalLimits # {}
    /\ TorrentLimits \subseteq Nat /\ TorrentLimits # {}
    /\ {UtpFirst, Encryption, OnlyEncryption, UtpOn, OnlyUtp} \subseteq BOOLEAN

VARIABLES tor,           \* per torrent: the PeerManager
          conn,          \* the PeerConnectors
          half,          \* half_open_connections, a ResourceManager
          limit          \* climit, the ConnectionLimit

pcVars == <<tor, conn, half, limit>>

Peer == [addr : Addrs, pid : PeerIds, killed : BOOLEAN]
Methods == {"utpEnc", "utpPlain", "tcpEnc", "tcpPlain"}
NoConn == [t |-> 0]
Conn == [t : Torrents, addr : Addrs, tried : SUBSET Methods,
         method : Methods \cup {"none"}]
Manager == [started : BOOLEAN, paused : BOOLEAN, potential : SUBSET Addrs,
            peers : SUBSET Peer]

PcTypeOK ==
    /\ tor \in [Torrents -> Manager]
    /\ conn \in [Conns -> Conn \cup {NoConn}]
    /\ half.active \subseteq Conns /\ half.groups \subseteq Torrents
    /\ half.current \in Torrents \cup {0}
    /\ \A t \in Torrents : half.pending[t] \in Seq(Conns)
    /\ limit.total \in Nat /\ limit.totals \in [Torrents -> Nat]

World == [tor |-> tor, conn |-> conn, half |-> half, limit |-> limit]
Become(S) == /\ tor' = S.tor /\ conn' = S.conn
             /\ half' = S.half /\ limit' = S.limit

-----------------------------------------------------------------------------
(* ConnectionLimit: a limit of 0 means no limit. *)

CanAcquire(S, t) ==
    /\ S.limit.gmax = 0 \/ S.limit.total < S.limit.gmax
    /\ \/ S.limit.totals[t] = 0           \* no entry for this torrent yet
       \/ S.limit.tmax = 0 \/ S.limit.totals[t] < S.limit.tmax

Acquire(S, t) == [S EXCEPT !.limit.total = @ + 1, !.limit.totals[t] = @ + 1]

\* Of n tokens of t, one after the other: there is none to release at zero.
Release(S, t, n) ==
    LET k == IF n < S.limit.totals[t] THEN n ELSE S.limit.totals[t]
    IN  [S EXCEPT !.limit.total = @ - k, !.limit.totals[t] = @ - k]

-----------------------------------------------------------------------------
(* Which method a connector tries. *)

FirstMethod ==
    CASE Encryption /\ UtpOn /\ (UtpFirst \/ OnlyUtp) -> "utpEnc"
      [] Encryption /\ ~(UtpOn /\ (UtpFirst \/ OnlyUtp)) -> "tcpEnc"
      [] ~Encryption /\ UtpOn /\ (UtpFirst \/ OnlyUtp) -> "utpPlain"
      [] OTHER -> "tcpPlain"

MethodAllowed(m, tcpAllowed) ==
    CASE m = "utpEnc" -> UtpOn /\ Encryption
      [] m = "utpPlain" -> UtpOn /\ ~OnlyEncryption
      [] m = "tcpEnc" -> ~OnlyUtp /\ Encryption /\ tcpAllowed
      [] m = "tcpPlain" -> ~OnlyUtp /\ ~OnlyEncryption /\ tcpAllowed

MethodOrder == IF UtpFirst THEN <<"utpEnc", "utpPlain", "tcpEnc", "tcpPlain">>
                           ELSE <<"tcpEnc", "tcpPlain", "utpEnc", "utpPlain">>

MethodsLeft(tried, tcpAllowed) ==
    Only(MethodOrder, {m \in Methods \ tried : MethodAllowed(m, tcpAllowed)})

-----------------------------------------------------------------------------
(* ResourceManager: pending connectors per group, the active ones, and the *)
(* group whose turn it is.                                                 *)

\* Mutant: the search starts at the first group instead of the current one.
FirstGroupFirst(S) == Min(S.half.groups)

StartGroup(S) == IF S.half.current \in S.half.groups THEN S.half.current
                 ELSE Min(S.half.groups)

NextGroup(S, g) == LET later == {h \in S.half.groups : h > g}
                   IN IF later = {} THEN Min(S.half.groups) ELSE Min(later)

\* PeerConnector::acquired is called while the group's list is being served.
Activate(S, g) ==
    LET c == Head(S.half.pending[g])
    IN [S EXCEPT !.half.pending[g] = Tail(@), !.half.active = @ \cup {c},
                 !.conn[c].method = IF S.tor[g].started THEN FirstMethod ELSE @]

\* One turn of update's loop: l.S is the state, l.g the group whose turn it is,
\* l.activated says whether this cycle activated one.
ServeGroup(l, start) ==
    IF l.over \/ Cardinality(l.S.half.active) >= MaxHalfOpen THEN l
    ELSE LET took == l.S.half.pending[l.g] # <<>>
             n == NextGroup(l.S, l.g)
         IN [S |-> IF took THEN Activate(l.S, l.g) ELSE l.S, g |-> n,
             activated |-> n # start /\ (took \/ l.activated),
             over |-> n = start /\ ~took /\ ~l.activated]

\* Every cycle but the last activates a connector; a turn after the end of the
\* loop changes nothing.
MaxTurns == (Cardinality(Conns) + 2) * Cardinality(Torrents)

ServeGroups(S, start) ==
    LET F[i \in 0 .. MaxTurns] ==
            IF i = 0 THEN [S |-> S, g |-> start, activated |-> FALSE, over |-> FALSE]
            ELSE ServeGroup(F[i - 1], start)
        l == F[MaxTurns]
    IN [l.S EXCEPT !.half.current = l.g]

RmUpdate(S) == IF Cardinality(S.half.active) >= MaxHalfOpen THEN S
               ELSE ServeGroups(S, StartGroup(S))

RmAdd(S, c) ==
    LET g == S.conn[c].t
    IN RmUpdate([S EXCEPT !.half.groups = @ \cup {g},
                          !.half.pending[g] = Append(@, c),
                          !.half.current = IF @ = 0 THEN g ELSE @])

RmRemove(S, c, g) ==
    IF c \in S.half.active THEN RmUpdate([S EXCEPT !.half.active = @ \ {c}])
    ELSE [S EXCEPT !.half.pending[g] = Only(@, Conns \ {c})]

-----------------------------------------------------------------------------
(* A connector goes away: first its members, the token among them unless it *)
(* was moved to the peer, then its Resource base.                           *)

Destroy(S, c, hasToken) ==
    LET t == S.conn[c].t
        S1 == IF hasToken THEN Release(S, t, 1) ELSE S
    IN RmRemove([S1 EXCEPT !.conn[c] = NoConn], c, t)

ConnsOf(S, t) == {c \in Conns : S.conn[c].t = t}
ConnectedTo(S, t, pid) == \E p \in S.tor[t].peers : p.pid = pid

CreatePeer(S, t, addr, pid) ==
    [S EXCEPT !.tor[t].peers = @ \cup {[addr |-> addr, pid |-> pid, killed |-> FALSE]}]

Alive(ps) == {p \in ps : ~p.killed}
AsKilled(ps) == {[p EXCEPT !.killed = TRUE] : p \in ps}

\* Mutant: killing a peer that was killed before releases a token again.
KillReleasingTwice(S, t, ps) ==
    [Release(S, t, Cardinality(ps)) EXCEPT !.tor[t].peers = (@ \ ps) \cup AsKilled(ps)]

\* Peer::kill of each of ps gives the token back; the peers stay in the map
\* until update.
Kill(S, t, ps) ==
    [Release(S, t, Cardinality(Alive(ps))) EXCEPT !.tor[t].peers = (@ \ ps) \cup AsKilled(ps)]

\* One turn of PeerManager::connectToPeers: the lowest address, until tokens
\* run out. A turn after the end of the loop changes nothing.
ConnectToPeer(S, t) ==
    LET free == {c \in Conns : S.conn[c] = NoConn}
        a == Min(S.tor[t].potential)
        rest == [S EXCEPT !.tor[t].potential = @ \ {a}]
        new == [t |-> t, addr |-> a, tried |-> {}, method |-> "none"]
        c == Min(free)
    IN IF \/ S.tor[t].paused \/ S.tor[t].potential = {}
          \/ free = {}                  \* bound: the names in Conns are used up
          \/ Cardinality(ConnsOf(S, t)) > MaxAuths
       THEN S
       ELSE IF a \in Blocked \/ \E p \in S.tor[t].peers : p.addr = a THEN rest
       ELSE IF ~CanAcquire(S, t) THEN S
       ELSE RmAdd([Acquire(rest, t) EXCEPT !.conn[c] = new], c)

ConnectToPeers(S, t) ==
    LET F[i \in 0 .. Cardinality(Addrs)] == IF i = 0 THEN S ELSE ConnectToPeer(F[i - 1], t)
    IN F[Cardinality(Addrs)]

-----------------------------------------------------------------------------
PcInit ==
    /\ tor = [t \in Torrents |-> [started |-> FALSE, paused |-> FALSE,
                                  potential |-> {}, peers |-> {}]]
    /\ conn = [c \in Conns |-> NoConn]
    /\ half = [pending |-> [t \in Torrents |-> <<>>], groups |-> {},
               active |-> {}, current |-> 0]
    /\ limit = [total |-> 0, totals |-> [t \in Torrents |-> 0],
                gmax |-> Min(GlobalLimits), tmax |-> Min(TorrentLimits)]

Start(t) ==
    /\ ~tor[t].started
    /\ tor' = [tor EXCEPT ![t].started = TRUE, ![t].paused = FALSE]
    /\ UNCHANGED <<conn, half, limit>>

\* The connectors are destroyed, then the peers with their tokens.
DestroyOne(S, t) ==
    IF ConnsOf(S, t) = {} THEN S
    ELSE Destroy(S, CHOOSE c \in ConnsOf(S, t) : TRUE, TRUE)

StopManager(S, t) ==
    LET F[i \in 0 .. Cardinality(Conns)] ==
            IF i = 0 THEN [S EXCEPT !.tor[t].started = FALSE] ELSE DestroyOne(F[i - 1], t)
    IN [Release(F[Cardinality(Conns)], t, Cardinality(Alive(S.tor[t].peers)))
          EXCEPT !.tor[t].peers = {}]

Stop(t) ==
    /\ tor[t].started
    /\ \E S \in {StopManager(World, t)} : Become(S)

Pause(t) == /\ tor[t].started
            /\ tor' = [tor EXCEPT ![t].paused = ~@]
            /\ UNCHANGED <<conn, half, limit>>

\* addPotentialPeer: from a peer source, from peer exchange or a peer list.
AddPotentialPeer(t, a) ==
    /\ tor' = [tor EXCEPT ![t].potential = @ \cup {a}]
    /\ UNCHANGED <<conn, half, limit>>

\* PeerManager::update: the stalled peers are killed and kept as potential
\* peers, the killed ones leave the map, and new connections are started.
PmUpdate(t) ==
    /\ tor[t].started
    /\ \E stalled \in SUBSET Alive(tor[t].peers) :
       \E S \in {Kill(World, t, stalled)} :
       \E S1 \in {[S EXCEPT !.tor[t].potential = @ \cup {p.addr : p \in stalled},
                            !.tor[t].peers = Alive(@)]} :
       \E S2 \in {ConnectToPeers(S1, t)} : Become(S2)

\* A connection the other side opened: ServerAuthenticate::handshakeReceived
\* and PeerManager::newConnection, which may kill a bad peer to make room.
NewConnection(t, a, pid) ==
    /\ tor[t].started /\ a \notin Blocked
    /\ ~ConnectedTo(World, t, pid)
    /\ \E S \in {World} \cup (IF CanAcquire(World, t) THEN {}
                              ELSE {Kill(World, t, {p}) : p \in tor[t].peers}) :
          Become(IF CanAcquire(S, t) THEN CreatePeer(Acquire(S, t), t, a, pid) ELSE S)

\* The other side answers with pid; the token moves to the new peer.
AuthSucceeds(c, pid) ==
    /\ conn[c].t # 0 /\ conn[c].method # "none"
    /\ \E t \in {conn[c].t} :
       \E moved \in {tor[t].started /\ ~ConnectedTo(World, t, pid)} :
       \E S \in {IF moved THEN CreatePeer(World, t, conn[c].addr, pid) ELSE World} :
       \E S1 \in {Destroy(S, c, ~moved)} : Become(S1)

\* A refused connection, a failed handshake, or the timer of 5 seconds.
AuthFails(c) ==
    /\ conn[c].t # 0 /\ conn[c].method # "none"
    /\ \E tcpAllowed \in BOOLEAN :
       \E tried \in {conn[c].tried \cup {conn[c].method}} :
       \E left \in {MethodsLeft(tried, tcpAllowed)} :
       \E S \in {IF left # <<>>
                 THEN [World EXCEPT !.conn[c].tried = tried, !.conn[c].method = Head(left)]
                 ELSE Destroy(World, c, TRUE)} : Become(S)

\* The connection breaks, or killSeeders, killUninterested, killStalePeers
\* or a malformed packet ends it.
KillPeer(t) ==
    \E p \in tor[t].peers : \E S \in {Kill(World, t, {p})} : S # World /\ Become(S)

SetLimits == \E g \in GlobalLimits, l \in TorrentLimits :
    /\ limit' = [limit EXCEPT !.gmax = g, !.tmax = l]
    /\ UNCHANGED <<tor, conn, half>>

PcNext ==
    \/ \E t \in Torrents : \/ Start(t) \/ Stop(t) \/ Pause(t) \/ PmUpdate(t)
                           \/ KillPeer(t)
                           \/ \E a \in Addrs : AddPotentialPeer(t, a)
                           \/ \E a \in Addrs, pid \in PeerIds : NewConnection(t, a, pid)
    \/ \E c \in Conns : AuthFails(c) \/ \E pid \in PeerIds : AuthSucceeds(c, pid)
    \/ SetLimits

\* The handshake timer of a connector that was started runs out: weak
\* fairness of AuthFails(c), written out.
Connecting(c) == conn[c].t # 0 /\ conn[c].method # "none"
PcFairness == \A c \in Conns : []<>~Connecting(c) \/ []<><<AuthFails(c)>>_conn

PcSpec == PcInit /\ [][PcNext]_pcVars /\ PcFairness

-----------------------------------------------------------------------------
(* Every token of a torrent is held by exactly one connector or one peer   *)
(* that is not killed, whatever order authentication, kills, stops and     *)
(* updates come in: no connection slot leaks and none is counted twice     *)
(* (ConnectionLimit, Peer::kill, PeerConnector).                           *)
TokensExact ==
    /\ PcTypeOK
    /\ \A t \in Torrents : limit.totals[t] =
          Cardinality(ConnsOf(World, t)) + Cardinality(Alive(tor[t].peers))
    /\ limit.total = Cardinality({c \in Conns : conn[c] # NoConn})
                   + Cardinality({x \in Torrents \X Peer : x[2] \in Alive(tor[x[1]].peers)})

(* A torrent's connection attempt ends: the half open slots go round the   *)
(* torrents, so a connector that waits for one is not starved by another   *)
(* torrent that keeps connecting (ResourceManager::update, the 5 second    *)
(* timer of AuthenticateBase, the finite list of methods).                 *)
AttemptEnds == \A c \in Conns : conn[c].t # 0 ~> conn[c].t = 0

=============================================================================
