---------------------------- MODULE PeerExchange ----------------------------
(***************************************************************************)
(* Peer exchange: which addresses of connected peers are passed on to each *)
(* peer, and when. src/src/peer/utpex.cpp, with Peer::setPexEnabled,       *)
(* handleExtendedPacket, handleExtendedHandshake, sendExtProtHandshake and *)
(* PeerManager::pex, setPexEnabled, setPartialSeed, createPeer, update.    *)
(* A peer is its id (peer_id_counter), which is never given out again. The *)
(* maps for IPv4 and IPv6, alike in all they do, are one set of ids.       *)
(***************************************************************************)
EXTENDS Integers, FiniteSets

CONSTANT MaxId          \* bound: peers that ever connect

ASSUME PexAssumption == MaxId \in Nat

VARIABLE px

pxVars == <<px>>

PxIds == 1 .. MaxId

NoPex == [on |-> FALSE, peers |-> {}, due |-> TRUE]        \* a UTPex, or none

\* told, view and said are history: what the messages of this UTPex add up to,
\* the peers that were in peer_map when the last was sent, and what our last
\* handshake said.
PxPeer == [st |-> "none", ext |-> FALSE, allowed |-> FALSE, other |-> 0, pex |-> NoPex,
           told |-> {}, view |-> {}, said |-> FALSE]

\* global is UTPex::pex_enabled: on from the start, off, or on again.
PxInit == \E priv \in BOOLEAN :
    px = [on |-> ~priv, priv |-> priv, global |-> "on", paused |-> FALSE, next |-> 1,
          taken |-> FALSE, peer |-> [p \in PxIds |-> PxPeer]]

IsEnabled(S) == S.global # "off"
PxInMap(S) == {p \in PxIds : S.peer[p].st # "none"}
PxLive(S) == {p \in PxIds : S.peer[p].st = "up"}

\* extensions.insert and extensions.erase
InsertPex(r) == [r EXCEPT !.pex = [NoPex EXCEPT !.on = TRUE], !.told = {}, !.view = {}]
ErasePex(r) == [r EXCEPT !.pex = NoPex, !.told = {}, !.view = {}]

\* Peer::setPexEnabled
PeerSetPexEnabled(r, on, enabled) ==
    CASE ~r.ext -> r
      [] r.ext /\ r.pex.on /\ (~on \/ ~enabled) -> [ErasePex(r) EXCEPT !.allowed = on]
      [] r.ext /\ ~r.pex.on /\ on /\ r.other > 0 /\ enabled -> [InsertPex(r) EXCEPT !.allowed = on]
      [] OTHER -> [r EXCEPT !.allowed = on]

\* What it says of ut_pex.
SendExtProtHandshake(r) == IF r.ext THEN [r EXCEPT !.said = r.allowed] ELSE r

PxCreatePeer == \E ext \in BOOLEAN :
    /\ px.next <= MaxId
    /\ px' = [px EXCEPT !.next = @ + 1,
                !.peer[px.next] = SendExtProtHandshake(PeerSetPexEnabled(
                    [PxPeer EXCEPT !.st = "up", !.ext = ext, !.allowed = ext],
                    px.on, IsEnabled(px)))]

PxKill == \E p \in PxLive(px) : px' = [px EXCEPT !.peer[p].st = "killed"]

\* The handshake of the other side, again whenever its settings change.
HandleExtendedHandshake(p, id) ==
    /\ p \in PxLive(px)
    /\ \E r \in {[px.peer[p] EXCEPT !.other = id]} :
        px' = [px EXCEPT !.peer[p] =
                 CASE ~IsEnabled(px) -> @
                   [] IsEnabled(px) /\ id = 0 -> ErasePex(r)
                   [] IsEnabled(px) /\ id # 0 /\ ~r.pex.on /\ r.allowed -> InsertPex(r)
                   [] OTHER -> r]                  \* changeID

\* PeerManager::pex: the addresses become potential peers.
TakePex(S) == IF S.on THEN [S EXCEPT !.taken = TRUE] ELSE S

\* A ut_pex message with addresses finds its UTPex.
HandlePex(p) == p \in PxLive(px) /\ px.peer[p].pex.on /\ px' = TakePex(px)

\* PeerManager::setPexEnabled, by setFeatureEnabled.
SetPexEnabled(on) ==
    /\ ~(on /\ px.priv) /\ px.on # on
    /\ px' = [px EXCEPT !.on = on, !.peer = [p \in PxIds |->
                IF p \in PxLive(px)
                THEN SendExtProtHandshake(PeerSetPexEnabled(@[p], on, IsEnabled(px))) ELSE @[p]]]

SetPartialSeed == px' = [px EXCEPT !.peer = [p \in PxIds |->
                            IF p \in PxInMap(px) THEN SendExtProtHandshake(@[p]) ELSE @[p]]]

\* UTPex::setEnabled
SetEnabled == px' = [px EXCEPT !.global = IF @ = "off" THEN "again" ELSE "off"]

\* Mutant: a message is sent only when there are peers to add.
OnlyAdded(added, dropped) == added # {}

\* More than "de" was encoded.
WorthSending(added, dropped) == added # {} \/ dropped # {}

\* UTPex::update with the peers it found (a record r of a peer).
UTPexUpdate(r, npeers) ==
    LET added == npeers \ r.pex.peers
        dropped == r.pex.peers \ npeers
    IN  [r EXCEPT !.pex.peers = npeers, !.pex.due = FALSE, !.view = npeers,
                  !.told = IF WorthSending(added, dropped) THEN (@ \cup added) \ dropped ELSE @]

\* What visit finds in peer_map when it is p's turn: the killed peers that came
\* before p are erased by then, the ones after it are not.
Visited(S, p) == {q \in PxInMap(S) \ {p} : S.peer[q].st = "killed" => q > p}

\* PeerManager::update for one peer: erase it when killed, else Peer::update.
PxUpdatePeer(S, p) ==
    CASE S.peer[p].st = "killed" -> PxPeer
      [] S.peer[p].st = "up" /\ S.peer[p].pex.on /\ S.peer[p].pex.due /\ ~S.paused ->
            UTPexUpdate(S.peer[p], Visited(S, p))
      [] OTHER -> S.peer[p]

\* One pass over peer_map, in the order of the ids.
PxUpdate == px' = [px EXCEPT !.peer = [p \in PxIds |-> PxUpdatePeer(px, p)]]

\* A minute has passed since the last update of a UTPex.
PexDue == \E p \in PxIds : /\ px.peer[p].pex.on /\ ~px.peer[p].pex.due
                           /\ px' = [px EXCEPT !.peer[p].pex.due = TRUE]

PxPause == px' = [px EXCEPT !.paused = ~@]

PxNext == \/ PxCreatePeer \/ PxKill \/ SetPartialSeed \/ SetEnabled \/ PxUpdate \/ PexDue \/ PxPause
          \/ \E on \in BOOLEAN : SetPexEnabled(on)
          \/ \E p \in PxIds : HandlePex(p) \/ \E id \in {0, 1} : HandleExtendedHandshake(p, id)

PxSpec == PxInit /\ [][PxNext]_pxVars

-----------------------------------------------------------------------------
(* What a peer was told, every message taken together, is the peers that   *)
(* were connected when it was last told: nobody who left is still offered  *)
(* and nobody is left out, also when the exchange was switched off and on  *)
(* in between (UTPex::visit, update). A peer that takes part has one as    *)
(* long as it is on for the torrent, and our handshake says so. A private  *)
(* torrent neither passes on addresses nor takes any.                      *)
PexAgrees ==
    /\ \A p \in PxLive(px) : \E r \in {px.peer[p]} :
          /\ r.pex.on => r.told = r.view /\ r.ext /\ px.on
          /\ r.ext => r.said = px.on
          /\ r.ext /\ px.on /\ r.other > 0 /\ px.global = "on" => r.pex.on
    /\ px.priv => ~px.taken /\ \A p \in PxIds : px.peer[p].told = {}
=============================================================================
