----------------------------- MODULE PeerProofs -----------------------------
(***************************************************************************)
(* Proofs about peers, for any number of them: peer exchange tells the     *)
(* truth; the chunks the peers have are counted, declared interesting and  *)
(* handed out by the super seeder as they should be; and of the tokens     *)
(* that limit the connections none is lost and none is counted twice.      *)
(***************************************************************************)
EXTENDS PeerExchange, PeerAvailability, PeerConnections, ListFacts

PexRec == [on : BOOLEAN, peers : SUBSET PxIds, due : BOOLEAN]
PeerRec == [st : {"none", "up", "killed"}, ext : BOOLEAN, allowed : BOOLEAN, other : {0, 1},
            pex : PexRec, told : SUBSET PxIds, view : SUBSET PxIds, said : BOOLEAN]

PxTypeOK == px \in [on : BOOLEAN, priv : BOOLEAN, global : {"on", "off", "again"},
                    paused : BOOLEAN, next : Nat \ {0}, taken : BOOLEAN, peer : [PxIds -> PeerRec]]

\* What holds of a connected peer: the addresses of its UTPex are what the
\* peer was told; Peer::pex_allowed and our last handshake follow the setting
\* of the torrent; and a peer without the extension protocol is left alone.
PeerAgrees(r, on, global) ==
    /\ r.pex.on => r.told = r.pex.peers /\ r.view = r.pex.peers /\ r.ext /\ on
    /\ r.ext => r.said = on /\ r.allowed = on
    /\ ~r.ext => ~r.allowed
    /\ r.ext /\ on /\ r.other > 0 /\ global = "on" => r.pex.on

\* A private torrent has the exchange off for good.
PrivateQuiet ==
    px.priv => ~px.on /\ ~px.taken /\ \A p \in PxIds : ~px.peer[p].pex.on /\ px.peer[p].told = {}

PxInv == /\ PxTypeOK
         /\ \A p \in PxIds : px.peer[p].st = "up" => PeerAgrees(px.peer[p], px.on, px.global)
         /\ PrivateQuiet

-----------------------------------------------------------------------------
\* The records a step puts together have their types.
LEMMA NoneTyped == PxPeer \in PeerRec
BY DEF PxPeer, PeerRec, PexRec, NoPex

LEMMA PexTyped ==
  ASSUME NEW r \in PeerRec
  PROVE  InsertPex(r) \in PeerRec /\ ErasePex(r) \in PeerRec
BY DEF InsertPex, ErasePex, PeerRec, PexRec, NoPex

LEMMA SetPexTyped ==
  ASSUME NEW r \in PeerRec, NEW on \in BOOLEAN, NEW enabled \in BOOLEAN
  PROVE  SendExtProtHandshake(PeerSetPexEnabled(r, on, enabled)) \in PeerRec
<1>1. PeerSetPexEnabled(r, on, enabled) \in PeerRec
  BY PexTyped DEF PeerSetPexEnabled, PeerRec
<1>2. QED  BY <1>1 DEF SendExtProtHandshake, PeerRec

\* Peer::setPexEnabled followed by a handshake leaves the peer in agreement with
\* the new setting, whatever it was before, and starts no exchange when it is off.
LEMMA SetPexAgrees ==
  ASSUME NEW r \in PeerRec, NEW on \in BOOLEAN,
         NEW global \in {"on", "off", "again"}, NEW enabled \in BOOLEAN,
         enabled = (global # "off"),
         r.ext \/ ~r.allowed, r.pex.on => r.ext,
         r.pex.on => r.told = r.pex.peers /\ r.view = r.pex.peers
  PROVE  PeerAgrees(SendExtProtHandshake(PeerSetPexEnabled(r, on, enabled)), on, global)
BY DEF PeerAgrees, PeerSetPexEnabled, SendExtProtHandshake, InsertPex, ErasePex, NoPex,
       PeerRec, PexRec

\* UTPex::update: the message brings what the peer knows up to date.
LEMMA UpdateAgrees ==
  ASSUME NEW r \in PeerRec, NEW npeers \in SUBSET PxIds, r.told = r.pex.peers
  PROVE  /\ UTPexUpdate(r, npeers) \in PeerRec
         /\ \E u \in {UTPexUpdate(r, npeers)} :
               /\ u.told = npeers /\ u.view = npeers /\ u.pex.peers = npeers
               /\ u.pex.on = r.pex.on /\ u.ext = r.ext /\ u.said = r.said
               /\ u.allowed = r.allowed /\ u.other = r.other /\ u.st = r.st
BY DEF UTPexUpdate, WorthSending, PeerRec, PexRec

-----------------------------------------------------------------------------
\* The invariant holds of a torrent that has no peers yet.
LEMMA PxInitInv == PxInit => PxInv
<1> SUFFICES ASSUME NEW priv \in BOOLEAN,
                    px = [on |-> ~priv, priv |-> priv, global |-> "on", paused |-> FALSE, next |-> 1,
                          taken |-> FALSE, peer |-> [p \in PxIds |-> PxPeer]]
             PROVE  PxInv
  BY DEF PxInit
<1>1. PxTypeOK  BY NoneTyped DEF PxTypeOK
<1>2. QED  BY <1>1 DEF PxInv, PrivateQuiet, PxPeer, NoPex

\* Steps that change one peer, or all of them by the same function, keep the
\* invariant when the peers they change keep their part of it.
LEMMA PxKeeps ==
  ASSUME PxInv, PxTypeOK', px'.priv = px.priv,
         px.priv => ~px'.on /\ ~px'.taken,
         \A p \in PxIds :
            /\ px'.peer[p].st = "up" => PeerAgrees(px'.peer[p], px'.on, px'.global)
            /\ px.priv => ~px'.peer[p].pex.on /\ px'.peer[p].told = {}
  PROVE  PxInv'
BY DEF PxInv, PrivateQuiet

LEMMA CreateKeeps ==
  ASSUME PxInv, PxCreatePeer
  PROVE  PxInv'
<1>0. PICK ext \in BOOLEAN : px.next <= MaxId /\ px' = [px EXCEPT !.next = @ + 1,
          !.peer[px.next] = SendExtProtHandshake(PeerSetPexEnabled(
              [PxPeer EXCEPT !.st = "up", !.ext = ext, !.allowed = ext], px.on, IsEnabled(px)))]
  BY DEF PxCreatePeer
<1> DEFINE fresh == [PxPeer EXCEPT !.st = "up", !.ext = ext, !.allowed = ext]
           made == SendExtProtHandshake(PeerSetPexEnabled(fresh, px.on, IsEnabled(px)))
<1>1. /\ px \in [on : BOOLEAN, priv : BOOLEAN, global : {"on", "off", "again"},
                   paused : BOOLEAN, next : Nat \ {0}, taken : BOOLEAN, peer : [PxIds -> PeerRec]]
      /\ IsEnabled(px) \in BOOLEAN /\ IsEnabled(px) = (px.global # "off")
  BY DEF PxInv, PxTypeOK, IsEnabled
<1>2. /\ fresh \in PeerRec /\ fresh.ext = ext /\ fresh.allowed = ext /\ ~fresh.pex.on
      /\ fresh.told = {}
  BY NoneTyped DEF PeerRec, PxPeer, NoPex
<1>3. made \in PeerRec  BY <1>1, <1>2, SetPexTyped
<1>4. PeerAgrees(made, px.on, px.global)  BY <1>1, <1>2, SetPexAgrees
<1>5. ~px.on => ~made.pex.on /\ made.told = {}
  BY <1>1, <1>2 DEF SendExtProtHandshake, PeerSetPexEnabled, PeerRec
<1> HIDE DEF fresh, made
<1>6. px' = [px EXCEPT !.next = @ + 1, !.peer[px.next] = made] /\ px.next \in PxIds
  BY <1>0, <1>1, PexAssumption DEF made, fresh, PxIds
<1>7. PxTypeOK'
  <2>1. [px.peer EXCEPT ![px.next] = made] \in [PxIds -> PeerRec]  BY <1>1, <1>3
  <2>2. px' = [px EXCEPT !.next = @ + 1, !.peer = [px.peer EXCEPT ![px.next] = made]]
    BY <1>1, <1>6
  <2> DEFINE n == px.next + 1
             mates == [px.peer EXCEPT ![px.next] = made]
  <2>3. n \in Nat \ {0} /\ px' = [px EXCEPT !.next = n, !.peer = mates]  BY <1>1, <2>2
  <2>4. mates \in [PxIds -> PeerRec]  BY <2>1
  <2> HIDE DEF n, mates
  <2>5. QED  BY <1>1, <2>3, <2>4 DEF PxTypeOK
<1>8. ASSUME NEW p \in PxIds
      PROVE  /\ px'.peer[p].st = "up" => PeerAgrees(px'.peer[p], px'.on, px'.global)
             /\ px.priv => ~px'.peer[p].pex.on /\ px'.peer[p].told = {}
  <2>1. CASE p = px.next
    <3>1. px'.peer[p] = made /\ px'.on = px.on /\ px'.global = px.global
      BY <1>1, <1>6, <2>1
    <3>2. QED  BY <3>1, <1>4, <1>5 DEF PxInv, PrivateQuiet
  <2>2. CASE p # px.next
    <3>1. px'.peer[p] = px.peer[p] /\ px'.on = px.on /\ px'.global = px.global
      BY <1>1, <1>6, <2>2
    <3>2. QED  BY <3>1 DEF PxInv, PrivateQuiet
  <2>3. QED  BY <2>1, <2>2
<1>9. QED  BY <1>1, <1>6, <1>7, <1>8, PxKeeps DEF PxInv, PrivateQuiet

\* The handshake of the other side changes one peer.
LEMMA HandshakeKeeps ==
  ASSUME PxInv, NEW q \in PxIds, NEW id \in {0, 1}, HandleExtendedHandshake(q, id)
  PROVE  PxInv'
<1> DEFINE r == [px.peer[q] EXCEPT !.other = id]
           made == CASE ~IsEnabled(px) -> px.peer[q]
                     [] IsEnabled(px) /\ id = 0 -> ErasePex(r)
                     [] IsEnabled(px) /\ id # 0 /\ ~r.pex.on /\ r.allowed -> InsertPex(r)
                     [] OTHER -> r
<1>1. px \in [on : BOOLEAN, priv : BOOLEAN, global : {"on", "off", "again"},
               paused : BOOLEAN, next : Nat \ {0}, taken : BOOLEAN, peer : [PxIds -> PeerRec]]
  BY DEF PxInv, PxTypeOK
<1>2. px' = [px EXCEPT !.peer[q] = made] /\ px.peer[q].st = "up"
  BY DEF HandleExtendedHandshake, PxLive
<1>3. PeerAgrees(px.peer[q], px.on, px.global)  BY <1>2 DEF PxInv
<1>4. px.peer[q] \in PeerRec /\ r \in PeerRec  BY <1>1 DEF PeerRec
<1>5. made \in PeerRec
  <2>1. InsertPex(r) \in PeerRec /\ ErasePex(r) \in PeerRec  BY <1>4, PexTyped
  <2>2. QED  BY <2>1, <1>4
<1>6. PeerAgrees(made, px.on, px.global)
  <2>1. /\ r.other = id /\ r.pex = px.peer[q].pex /\ r.told = px.peer[q].told
        /\ r.view = px.peer[q].view /\ r.ext = px.peer[q].ext /\ r.said = px.peer[q].said
        /\ r.allowed = px.peer[q].allowed
    BY <1>4 DEF PeerRec
  <2> HIDE DEF r
  <2>2. CASE ~IsEnabled(px)
    <3>1. made = px.peer[q]  BY <2>2
    <3>2. QED  BY <3>1, <1>3
  <2>3. CASE IsEnabled(px) /\ id = 0
    <3>1. made = ErasePex(r)  BY <2>3
    <3>2. /\ ~made.pex.on /\ made.other = 0
          /\ made.ext = r.ext /\ made.said = r.said /\ made.allowed = r.allowed
      BY <3>1, <2>1, <2>3, <1>4 DEF ErasePex, NoPex, PeerRec
    <3>3. QED  BY <3>2, <2>1, <1>3 DEF PeerAgrees
  <2>4. CASE IsEnabled(px) /\ id # 0 /\ ~r.pex.on /\ r.allowed
    <3>1. made = InsertPex(r)  BY <2>4
    <3>2. QED  BY <3>1, <2>1, <2>4, <1>3, <1>4 DEF PeerAgrees, InsertPex, NoPex, PeerRec
  <2>5. CASE IsEnabled(px) /\ id # 0 /\ ~(~r.pex.on /\ r.allowed)
    <3>1. made = r  BY <2>5
    <3>2. QED  BY <3>1, <2>1, <2>5, <1>3, <1>4 DEF PeerAgrees, PeerRec, PexRec
  <2>6. QED  BY <2>2, <2>3, <2>4, <2>5
<1>7. px.priv => ~made.pex.on /\ made.told = {}
  <2> SUFFICES ASSUME px.priv PROVE ~made.pex.on /\ made.told = {}
    OBVIOUS
  <2>1. ~px.peer[q].pex.on /\ px.peer[q].told = {} /\ ~px.peer[q].allowed
    BY <1>3 DEF PxInv, PrivateQuiet, PeerAgrees
  <2>2. ~r.pex.on /\ r.told = {} /\ ~r.allowed  BY <2>1, <1>4 DEF PeerRec
  <2>3. ~ErasePex(r).pex.on /\ ErasePex(r).told = {}  BY <1>4 DEF ErasePex, NoPex, PeerRec
  <2> HIDE DEF r
  <2>4. QED  BY <2>1, <2>2, <2>3
<1> HIDE DEF made
<1>8. PxTypeOK'  BY <1>1, <1>2, <1>5 DEF PxTypeOK
<1>9. ASSUME NEW p \in PxIds
      PROVE  /\ px'.peer[p].st = "up" => PeerAgrees(px'.peer[p], px'.on, px'.global)
             /\ px.priv => ~px'.peer[p].pex.on /\ px'.peer[p].told = {}
  <2>1. /\ px'.peer[p] = IF p = q THEN made ELSE px.peer[p]
        /\ px'.on = px.on /\ px'.global = px.global
    BY <1>1, <1>2
  <2>2. QED  BY <2>1, <1>6, <1>7 DEF PxInv, PrivateQuiet
<1>10. QED  BY <1>1, <1>2, <1>8, <1>9, PxKeeps DEF PxInv, PrivateQuiet

\* PeerManager::setPexEnabled changes every connected peer and tells it.
LEMMA SetPexKeeps ==
  ASSUME PxInv, NEW on \in BOOLEAN, SetPexEnabled(on)
  PROVE  PxInv'
<1> DEFINE made(p) == SendExtProtHandshake(PeerSetPexEnabled(px.peer[p], on, IsEnabled(px)))
           mates == [p \in PxIds |-> IF p \in PxLive(px) THEN made(p) ELSE px.peer[p]]
<1>1. /\ px \in [on : BOOLEAN, priv : BOOLEAN, global : {"on", "off", "again"},
                   paused : BOOLEAN, next : Nat \ {0}, taken : BOOLEAN, peer : [PxIds -> PeerRec]]
      /\ IsEnabled(px) \in BOOLEAN /\ IsEnabled(px) = (px.global # "off")
  BY DEF PxInv, PxTypeOK, IsEnabled
<1>2. px' = [px EXCEPT !.on = on, !.peer = mates] /\ ~(on /\ px.priv)
  BY DEF SetPexEnabled
<1>3. ASSUME NEW p \in PxIds
      PROVE  /\ made(p) \in PeerRec
             /\ px.peer[p].st = "up" => PeerAgrees(made(p), on, px.global)
             /\ px.priv => ~made(p).pex.on /\ made(p).told = {}
  <2>1. px.peer[p] \in PeerRec  BY <1>1
  <2>2. made(p) \in PeerRec  BY <1>1, <2>1, SetPexTyped
  <2>3. ASSUME px.peer[p].st = "up"
        PROVE  PeerAgrees(made(p), on, px.global)
    <3>1. PeerAgrees(px.peer[p], px.on, px.global)  BY <2>3 DEF PxInv
    <3>2. /\ px.peer[p].ext \/ ~px.peer[p].allowed
          /\ px.peer[p].pex.on => px.peer[p].ext
          /\ px.peer[p].pex.on => /\ px.peer[p].told = px.peer[p].pex.peers
                                  /\ px.peer[p].view = px.peer[p].pex.peers
      BY <3>1 DEF PeerAgrees
    <3>3. QED  BY <1>1, <2>1, <3>2, SetPexAgrees
  <2>4. ASSUME px.priv
        PROVE  ~made(p).pex.on /\ made(p).told = {}
    <3>1. ~on /\ ~px.peer[p].pex.on /\ px.peer[p].told = {}
      BY <1>2, <2>4 DEF PxInv, PrivateQuiet
    <3>2. QED  BY <1>1, <2>1, <3>1 DEF SendExtProtHandshake, PeerSetPexEnabled, PeerRec
  <2>5. QED  BY <2>2, <2>3, <2>4
<1> HIDE DEF made
<1>4. PxTypeOK'
  <2>1. mates \in [PxIds -> PeerRec]  BY <1>1, <1>3
  <2> HIDE DEF mates
  <2>2. QED  BY <1>1, <1>2, <2>1 DEF PxTypeOK
<1>5. ASSUME NEW p \in PxIds
      PROVE  /\ px'.peer[p].st = "up" => PeerAgrees(px'.peer[p], px'.on, px'.global)
             /\ px.priv => ~px'.peer[p].pex.on /\ px'.peer[p].told = {}
  <2>1. /\ px'.peer[p] = IF p \in PxLive(px) THEN made(p) ELSE px.peer[p]
        /\ px'.on = on /\ px'.global = px.global
    BY <1>1, <1>2
  <2>2. CASE p \in PxLive(px)  BY <2>1, <2>2, <1>3 DEF PxLive
  <2>3. CASE p \notin PxLive(px)  BY <2>1, <2>3 DEF PxInv, PrivateQuiet, PxLive
  <2>4. QED  BY <2>2, <2>3
<1>6. QED  BY <1>1, <1>2, <1>4, <1>5, PxKeeps DEF PxInv, PrivateQuiet

\* PeerManager::setPartialSeed sends the handshake again.
LEMMA PartialKeeps ==
  ASSUME PxInv, SetPartialSeed
  PROVE  PxInv'
<1> DEFINE mates == [p \in PxIds |-> IF p \in PxInMap(px) THEN SendExtProtHandshake(px.peer[p])
                                                       ELSE px.peer[p]]
<1>1. px \in [on : BOOLEAN, priv : BOOLEAN, global : {"on", "off", "again"},
               paused : BOOLEAN, next : Nat \ {0}, taken : BOOLEAN, peer : [PxIds -> PeerRec]]
  BY DEF PxInv, PxTypeOK
<1>2. px' = [px EXCEPT !.peer = mates]  BY DEF SetPartialSeed
<1>3. ASSUME NEW p \in PxIds
      PROVE  /\ SendExtProtHandshake(px.peer[p]) \in PeerRec
             /\ SendExtProtHandshake(px.peer[p]).st = px.peer[p].st
             /\ PeerAgrees(px.peer[p], px.on, px.global) =>
                   PeerAgrees(SendExtProtHandshake(px.peer[p]), px.on, px.global)
             /\ SendExtProtHandshake(px.peer[p]).pex = px.peer[p].pex
             /\ SendExtProtHandshake(px.peer[p]).told = px.peer[p].told
  <2>1. px.peer[p] \in PeerRec  BY <1>1
  <2>2. QED  BY <1>1, <2>1 DEF SendExtProtHandshake, PeerAgrees, PeerRec
<1>4. PxTypeOK'
  <2>1. mates \in [PxIds -> PeerRec]  BY <1>1, <1>3
  <2> HIDE DEF mates
  <2>2. QED  BY <1>1, <1>2, <2>1 DEF PxTypeOK
<1>5. ASSUME NEW p \in PxIds
      PROVE  /\ px'.peer[p].st = "up" => PeerAgrees(px'.peer[p], px'.on, px'.global)
             /\ px.priv => ~px'.peer[p].pex.on /\ px'.peer[p].told = {}
  <2>1. /\ px'.peer[p] = SendExtProtHandshake(px.peer[p]) \/ px'.peer[p] = px.peer[p]
        /\ px'.on = px.on /\ px'.global = px.global
    BY <1>1, <1>2
  <2>2. QED  BY <2>1, <1>3 DEF PxInv, PrivateQuiet
<1>6. QED  BY <1>1, <1>2, <1>4, <1>5, PxKeeps DEF PxInv, PrivateQuiet

\* PeerManager::update: killed peers go, and every UTPex that is due sends what
\* has changed. That the exchange of a private torrent is never on keeps it quiet.
LEMMA UpdateKeeps ==
  ASSUME PxInv, PxUpdate
  PROVE  PxInv'
<1>1. px \in [on : BOOLEAN, priv : BOOLEAN, global : {"on", "off", "again"},
               paused : BOOLEAN, next : Nat \ {0}, taken : BOOLEAN, peer : [PxIds -> PeerRec]]
  BY DEF PxInv, PxTypeOK
<1> DEFINE mates == [p \in PxIds |-> PxUpdatePeer(px, p)]
<1>2. px' = [px EXCEPT !.peer = mates]  BY DEF PxUpdate
<1>3. ASSUME NEW p \in PxIds
      PROVE  /\ PxUpdatePeer(px, p) \in PeerRec
             /\ PxUpdatePeer(px, p).st = "up" => PeerAgrees(PxUpdatePeer(px, p), px.on, px.global)
             /\ px.priv => ~PxUpdatePeer(px, p).pex.on /\ PxUpdatePeer(px, p).told = {}
  <2>1. px.peer[p] \in PeerRec  BY <1>1
  <2>2. CASE px.peer[p].st = "killed"
    <3>1. PxUpdatePeer(px, p) = PxPeer  BY <2>2 DEF PxUpdatePeer
    <3>2. QED  BY <3>1, NoneTyped DEF PxPeer, NoPex
  <2>3. CASE px.peer[p].st = "up" /\ px.peer[p].pex.on /\ px.peer[p].pex.due /\ ~px.paused
    <3>1. PxUpdatePeer(px, p) = UTPexUpdate(px.peer[p], Visited(px, p))
      BY <2>3 DEF PxUpdatePeer
    <3>2. Visited(px, p) \in SUBSET PxIds  BY DEF Visited, PxInMap
    <3>3. PeerAgrees(px.peer[p], px.on, px.global) /\ ~px.priv
      BY <2>3 DEF PxInv, PrivateQuiet
    <3>4. QED  BY <2>1, <2>3, <3>1, <3>2, <3>3, UpdateAgrees DEF PeerAgrees
  <2>4. CASE /\ px.peer[p].st # "killed"
             /\ ~(px.peer[p].st = "up" /\ px.peer[p].pex.on /\ px.peer[p].pex.due /\ ~px.paused)
    <3>1. PxUpdatePeer(px, p) = px.peer[p]  BY <2>4 DEF PxUpdatePeer
    <3>2. QED  BY <2>1, <3>1 DEF PxInv, PrivateQuiet
  <2>5. QED  BY <2>2, <2>3, <2>4
<1>4. PxTypeOK'
  <2>1. mates \in [PxIds -> PeerRec]  BY <1>3
  <2> HIDE DEF mates
  <2>2. QED  BY <1>1, <1>2, <2>1 DEF PxTypeOK
<1>5. ASSUME NEW p \in PxIds
      PROVE  /\ px'.peer[p].st = "up" => PeerAgrees(px'.peer[p], px'.on, px'.global)
             /\ px.priv => ~px'.peer[p].pex.on /\ px'.peer[p].told = {}
  <2>1. px'.peer[p] = PxUpdatePeer(px, p) /\ px'.on = px.on /\ px'.global = px.global
    BY <1>1, <1>2
  <2>2. QED  BY <2>1, <1>3
<1>6. QED  BY <1>1, <1>2, <1>4, <1>5, PxKeeps DEF PxInv, PrivateQuiet

\* The steps that change at most the state of a peer, a clock or a flag.
LEMMA SmallStepsKeep ==
  ASSUME PxInv, PxKill \/ SetEnabled \/ PexDue \/ PxPause \/ (\E p \in PxIds : HandlePex(p))
  PROVE  PxInv'
<1>1. px \in [on : BOOLEAN, priv : BOOLEAN, global : {"on", "off", "again"},
               paused : BOOLEAN, next : Nat \ {0}, taken : BOOLEAN, peer : [PxIds -> PeerRec]]
  BY DEF PxInv, PxTypeOK
<1>2. CASE PxKill
  <2>1. PICK q \in PxIds : px' = [px EXCEPT !.peer[q].st = "killed"]
    BY <1>2 DEF PxKill, PxLive
  <2>2. [px.peer[q] EXCEPT !.st = "killed"] \in PeerRec  BY <1>1 DEF PeerRec
  <2>3. PxTypeOK'
    <3>1. [px.peer EXCEPT ![q] = [px.peer[q] EXCEPT !.st = "killed"]] \in [PxIds -> PeerRec]
      BY <1>1, <2>2
    <3>2. px' = [px EXCEPT !.peer = [px.peer EXCEPT ![q] = [px.peer[q] EXCEPT !.st = "killed"]]]
      BY <1>1, <2>1
    <3>3. QED  BY <1>1, <3>1, <3>2 DEF PxTypeOK
  <2>4. ASSUME NEW p \in PxIds
        PROVE  /\ px'.peer[p].st = "up" => PeerAgrees(px'.peer[p], px'.on, px'.global)
               /\ px.priv => ~px'.peer[p].pex.on /\ px'.peer[p].told = {}
    <3>1. CASE p = q
      <4>1. px'.peer[p].st = "killed" /\ px'.peer[p].pex = px.peer[p].pex
            /\ px'.peer[p].told = px.peer[p].told
        BY <1>1, <2>1, <3>1 DEF PeerRec
      <4>2. QED  BY <4>1 DEF PxInv, PrivateQuiet
    <3>2. CASE p # q
      <4>1. px'.peer[p] = px.peer[p] /\ px'.on = px.on /\ px'.global = px.global
        BY <1>1, <2>1, <3>2
      <4>2. QED  BY <4>1 DEF PxInv, PrivateQuiet
    <3>3. QED  BY <3>1, <3>2
  <2>5. QED  BY <1>1, <2>1, <2>3, <2>4, PxKeeps DEF PxInv, PrivateQuiet
<1>3. CASE SetEnabled
  <2>1. /\ px'.peer = px.peer /\ px'.on = px.on /\ px'.priv = px.priv /\ px'.taken = px.taken
        /\ px'.global # "on" /\ PxTypeOK'
    BY <1>1, <1>3 DEF SetEnabled, PxTypeOK
  <2>2. QED  BY <2>1, PxKeeps DEF PxInv, PrivateQuiet, PeerAgrees
<1>4. CASE PexDue
  <2>1. PICK q \in PxIds : px' = [px EXCEPT !.peer[q].pex.due = TRUE]  BY <1>4 DEF PexDue
  <2> DEFINE r == [px.peer[q] EXCEPT !.pex.due = TRUE]
  <2>2. /\ r \in PeerRec /\ r.st = px.peer[q].st /\ r.told = px.peer[q].told
        /\ r.pex.on = px.peer[q].pex.on
        /\ PeerAgrees(px.peer[q], px.on, px.global) => PeerAgrees(r, px.on, px.global)
    <3>1. px.peer[q] \in PeerRec  BY <1>1
    <3>2. QED  BY <3>1 DEF PeerRec, PexRec, PeerAgrees
  <2>3. px' = [px EXCEPT !.peer[q] = r]  BY <1>1, <2>1 DEF PeerRec, PexRec
  <2> HIDE DEF r
  <2>4. PxTypeOK'
    <3>1. [px.peer EXCEPT ![q] = r] \in [PxIds -> PeerRec]  BY <1>1, <2>2
    <3>2. px' = [px EXCEPT !.peer = [px.peer EXCEPT ![q] = r]]  BY <1>1, <2>3
    <3>3. QED  BY <1>1, <3>1, <3>2 DEF PxTypeOK
  <2>5. ASSUME NEW p \in PxIds
        PROVE  /\ px'.peer[p].st = "up" => PeerAgrees(px'.peer[p], px'.on, px'.global)
               /\ px.priv => ~px'.peer[p].pex.on /\ px'.peer[p].told = {}
    <3>1. /\ px'.peer[p] = IF p = q THEN r ELSE px.peer[p]
          /\ px'.on = px.on /\ px'.global = px.global
      BY <1>1, <2>3
    <3>2. QED  BY <3>1, <2>2 DEF PxInv, PrivateQuiet
  <2>6. QED  BY <1>1, <2>3, <2>4, <2>5, PxKeeps DEF PxInv, PrivateQuiet
<1>5. CASE PxPause
  <2>1. /\ px'.peer = px.peer /\ px'.on = px.on /\ px'.priv = px.priv /\ px'.taken = px.taken
        /\ px'.global = px.global /\ PxTypeOK'
    BY <1>1, <1>5 DEF PxPause, PxTypeOK
  <2>2. QED  BY <2>1, PxKeeps DEF PxInv, PrivateQuiet
<1>6. CASE \E p \in PxIds : HandlePex(p)
  <2>1. /\ px'.peer = px.peer /\ px'.on = px.on /\ px'.priv = px.priv
        /\ px'.taken = px.taken \/ px.on
        /\ px'.global = px.global /\ PxTypeOK'
    BY <1>1, <1>6 DEF HandlePex, TakePex, PxTypeOK
  <2>2. QED  BY <2>1, PxKeeps DEF PxInv, PrivateQuiet
<1>7. QED  BY <1>2, <1>3, <1>4, <1>5, <1>6

-----------------------------------------------------------------------------
\* The inductive invariant, for every number of peers: what a connected peer was
\* told is the address list of its UTPex, and pex_allowed, the handshake and the
\* UTPex objects follow the setting of the torrent (PeerManager::setPexEnabled).
THEOREM PxInvariant == PxSpec => []PxInv
<1>1. PxInv /\ [PxNext]_pxVars => PxInv'
  <2> SUFFICES ASSUME PxInv, [PxNext]_pxVars PROVE PxInv'
    OBVIOUS
  <2>1. CASE PxCreatePeer  BY <2>1, CreateKeeps
  <2>2. CASE PxKill \/ SetEnabled \/ PexDue \/ PxPause \/ (\E p \in PxIds : HandlePex(p))
    BY <2>2, SmallStepsKeep
  <2>3. CASE SetPartialSeed  BY <2>3, PartialKeeps
  <2>4. CASE PxUpdate  BY <2>4, UpdateKeeps
  <2>5. CASE \E on \in BOOLEAN : SetPexEnabled(on)  BY <2>5, SetPexKeeps
  <2>6. CASE \E p \in PxIds, id \in {0, 1} : HandleExtendedHandshake(p, id)
    BY <2>6, HandshakeKeeps
  <2>7. CASE UNCHANGED pxVars
    BY <2>7 DEF pxVars, PxInv, PxTypeOK, PrivateQuiet
  <2>8. QED  BY <2>1, <2>2, <2>3, <2>4, <2>5, <2>6, <2>7 DEF PxNext
<1>2. QED  BY PxInitInv, <1>1, PTL DEF PxSpec

\* What a peer was told adds up to the peers connected when it was last told; an
\* exchange exists exactly where the settings say; and a private torrent passes
\* nothing on and takes nothing in (UTPex::update, Peer::setPexEnabled).
THEOREM PexTellsTheTruth == PxSpec => []PexAgrees
<1>1. PxInv => PexAgrees
  BY DEF PxInv, PexAgrees, PxLive, PeerAgrees, PrivateQuiet
<1>2. QED  BY PxInvariant, <1>1, PTL

-----------------------------------------------------------------------------
(* The chunks of the connected peers. The handlers work on a record of the *)
(* whole state, so the invariant is a predicate of such a record.          *)

PmanRec == [started : BOOLEAN, paused : BOOLEAN, wanted : SUBSET Chunks, changed : BOOLEAN,
            cnt : [Chunks -> Nat], avail : SUBSET Chunks]
SeederRec == [on : {TRUE}, cnt : [Chunks -> Nat], seeders : Nat,
              active : [Peers -> Chunks \cup {NumChunks}], chunks : SUBSET (Chunks \X Peers)]
Worlds == [peer : [Peers -> PeerState], pman : PmanRec, seeder : SeederRec \cup {NoSeeder}]

\* The two maps of the super seeder are each other's inverse and name peers of
\* the peer map only.
MapsAgree(S) ==
    /\ \A p \in Peers, c \in Chunks : <<c, p>> \in S.seeder.chunks <=> S.seeder.active[p] = c
    /\ \A p \in Peers : S.seeder.active[p] # NumChunks => S.peer[p].st # "none"

\* The states the super seeder can lead to: it changes nothing but its own maps.
Seeding(S) == {U \in Worlds : /\ U.peer = S.peer /\ U.pman = S.pman
                              /\ U.seeder \in SeederRec /\ MapsAgree(U)}

LEMMA SeedingFacts ==
  ASSUME NEW S, NEW U \in Seeding(S)
  PROVE  /\ U \in Worlds /\ U.peer = S.peer /\ U.pman = S.pman
         /\ U.seeder \in SeederRec /\ MapsAgree(U)
BY DEF Seeding

\* A state with other maps.
LEMMA SeederChanged ==
  ASSUME NEW S \in Worlds, S.seeder \in SeederRec, NEW sd \in SeederRec,
         NEW U, U = [S EXCEPT !.seeder = sd], MapsAgree(U)
  PROVE  U \in Seeding(S)
<1>1. U \in Worlds  BY DEF Worlds
<1>2. U.peer = S.peer /\ U.pman = S.pman /\ U.seeder = sd  BY DEF Worlds
<1>3. QED  BY <1>1, <1>2 DEF Seeding

LEMMA AllowKeeps ==
  ASSUME NEW S \in Worlds, S.seeder \in SeederRec, MapsAgree(S),
         NEW ps \in SUBSET Peers, NEW f \in [ps -> Chunks \cup {NumChunks}],
         \A p \in ps : S.seeder.active[p] = NumChunks /\ S.peer[p].st # "none"
  PROVE  Allow(S, f, ps) \in Seeding(S)
<1> DEFINE act == [p \in Peers |-> IF p \in ps THEN f[p] ELSE S.seeder.active[p]]
           chk == S.seeder.chunks \cup {<<f[p], p>> : p \in {q \in ps : f[q] # NumChunks}}
           sd == [S.seeder EXCEPT !.active = act, !.chunks = chk]
           U == [S EXCEPT !.seeder = sd]
<1>1. Allow(S, f, ps) = U  BY DEF Allow, Worlds, SeederRec
<1>2. NumChunks \notin Chunks  BY AvAssumption DEF Chunks
<1>3. act \in [Peers -> Chunks \cup {NumChunks}]  BY DEF SeederRec
<1>4. chk \in SUBSET (Chunks \X Peers)
  <2>1. \A q \in ps : f[q] # NumChunks => <<f[q], q>> \in Chunks \X Peers  OBVIOUS
  <2>2. {<<f[p], p>> : p \in {q \in ps : f[q] # NumChunks}} \subseteq Chunks \X Peers
    BY <2>1, Zenon
  <2>3. S.seeder.chunks \subseteq Chunks \X Peers  BY DEF SeederRec
  <2>4. QED  BY <2>2, <2>3, Zenon
<1>5. ASSUME NEW p \in Peers, NEW c \in Chunks PROVE <<c, p>> \in chk <=> act[p] = c
  <2>1. <<c, p>> \in S.seeder.chunks <=> S.seeder.active[p] = c  BY DEF MapsAgree
  <2>2. <<c, p>> \in {<<f[q], q>> : q \in {o \in ps : f[o] # NumChunks}}
           <=> p \in ps /\ f[p] = c
    BY <1>2
  <2>3. QED  BY <1>2, <2>1, <2>2
<1>6. \A p \in Peers : act[p] # NumChunks => S.peer[p].st # "none"  BY DEF MapsAgree
<1> HIDE DEF act, chk
<1>7. sd \in SeederRec  BY <1>3, <1>4 DEF SeederRec
<1>8. sd.active = act /\ sd.chunks = chk  BY DEF SeederRec
<1> HIDE DEF sd
<1>9. U.seeder = sd /\ U.peer = S.peer  BY DEF Worlds
<1> HIDE DEF U
<1>10. MapsAgree(U)  BY <1>5, <1>6, <1>8, <1>9 DEF MapsAgree
<1>11. QED  BY <1>1, <1>7, <1>10, SeederChanged DEF U

LEMMA DisallowKeeps ==
  ASSUME NEW S \in Worlds, S.seeder \in SeederRec, MapsAgree(S), NEW ps \in SUBSET Peers
  PROVE  /\ Disallow(S, ps) \in Seeding(S)
         /\ \A p \in ps : Disallow(S, ps).seeder.active[p] = NumChunks
<1> DEFINE act == [p \in Peers |-> IF p \in ps THEN NumChunks ELSE S.seeder.active[p]]
           chk == S.seeder.chunks \ {<<S.seeder.active[p], p>> : p \in ps}
           sd == [S.seeder EXCEPT !.active = act, !.chunks = chk]
           U == [S EXCEPT !.seeder = sd]
<1>1. Disallow(S, ps) = U  BY DEF Disallow, Worlds, SeederRec
<1>2. NumChunks \notin Chunks  BY AvAssumption DEF Chunks
<1>3. act \in [Peers -> Chunks \cup {NumChunks}]  BY DEF SeederRec
<1>4. chk \in SUBSET (Chunks \X Peers)  BY DEF SeederRec
<1>5. ASSUME NEW p \in Peers, NEW c \in Chunks PROVE <<c, p>> \in chk <=> act[p] = c
  <2>1. <<c, p>> \in S.seeder.chunks <=> S.seeder.active[p] = c  BY DEF MapsAgree
  <2>2. <<c, p>> \in {<<S.seeder.active[q], q>> : q \in ps}
           <=> p \in ps /\ S.seeder.active[p] = c
    OBVIOUS
  <2>3. QED  BY <1>2, <2>1, <2>2
<1>6. \A p \in Peers : act[p] # NumChunks => S.peer[p].st # "none"  BY DEF MapsAgree
<1>7. \A p \in ps : act[p] = NumChunks  OBVIOUS
<1> HIDE DEF act, chk
<1>8. sd \in SeederRec  BY <1>3, <1>4 DEF SeederRec
<1>9. sd.active = act /\ sd.chunks = chk  BY DEF SeederRec
<1> HIDE DEF sd
<1>10. U.seeder = sd /\ U.peer = S.peer  BY DEF Worlds
<1> HIDE DEF U
<1>11. MapsAgree(U)  BY <1>5, <1>6, <1>9, <1>10 DEF MapsAgree
<1>12. U \in Seeding(S)  BY <1>8, <1>11, SeederChanged DEF U
<1>13. QED  BY <1>1, <1>7, <1>9, <1>10, <1>12

\* sendChunk finds a chunk of the torrent, or none.
LEMMA ChunkForTyped ==
  ASSUME NEW S, NEW p, NEW start \in Chunks
  PROVE  ChunkFor(S, p, start) \in Chunks \cup {NumChunks}
<1> DEFINE order == SearchOrder(start)
           lacking == {i \in DOMAIN order : order[i] \notin S.peer[p].pieces}
           unsent == {i \in lacking : /\ S.seeder.cnt[order[i]] = S.seeder.seeders
                                      /\ \A q \in Peers : <<order[i], q>> \notin S.seeder.chunks}
<1>1. /\ DOMAIN order = 1 .. NumChunks - 1 /\ lacking \subseteq 1 .. NumChunks - 1
      /\ unsent \subseteq 1 .. NumChunks - 1
  BY DEF SearchOrder
<1>2. \A i \in 1 .. NumChunks - 1 : order[i] \in Chunks
  BY AvAssumption DEF SearchOrder, Chunks
<1>3. ChunkFor(S, p, start) = IF unsent # {} THEN order[Min(unsent)]
                              ELSE IF lacking # {} THEN order[Max(lacking)] ELSE NumChunks
  BY DEF ChunkFor
<1> HIDE DEF order, lacking, unsent
<1>4. unsent # {} => Min(unsent) \in unsent
  <2> SUFFICES ASSUME unsent # {} PROVE Min(unsent) \in unsent  OBVIOUS
  <2>1. unsent \in SUBSET Nat  BY <1>1, AvAssumption
  <2>2. \E n \in unsent : \A m \in unsent : n <= m  BY <2>1, LeastNat
  <2>3. QED  BY <2>2, Zenon DEF Min
<1>5. lacking # {} => Max(lacking) \in lacking
  <2> SUFFICES ASSUME lacking # {} PROVE Max(lacking) \in lacking  OBVIOUS
  <2> DEFINE T == {NumChunks - i : i \in lacking}
  <2>1. T \in SUBSET Nat /\ T # {}
    <3>1. \A i \in lacking : NumChunks - i \in Nat  BY <1>1, AvAssumption
    <3>2. QED  BY <3>1
  <2>2. PICK n \in T : \A m \in T : n <= m  BY <2>1, LeastNat
  <2>3. PICK i \in lacking : n = NumChunks - i  BY <2>2
  <2>4. ASSUME NEW j \in lacking PROVE i >= j
    <3>1. n <= NumChunks - j  BY <2>2
    <3>2. i \in Int /\ j \in Int /\ NumChunks \in Int  BY <1>1, AvAssumption
    <3>3. QED  BY <2>3, <3>1, <3>2
  <2>5. \E x \in lacking : \A y \in lacking : x >= y  BY <2>4
  <2>6. QED  BY <2>5, Zenon DEF Max
<1>6. CASE unsent # {}  BY <1>1, <1>2, <1>3, <1>4, <1>6
<1>7. CASE unsent = {} /\ lacking # {}  BY <1>1, <1>2, <1>3, <1>5, <1>7
<1>8. CASE unsent = {} /\ lacking = {}  BY <1>3, <1>8
<1>9. QED  BY <1>6, <1>7, <1>8

LEMMA MayAllowTyped ==
  ASSUME NEW S, NEW p
  PROVE  MayAllow(S, p) \subseteq Chunks \cup {NumChunks}
BY ChunkForTyped DEF MayAllow

\* peerAdded and sendChunk keep the maps in agreement.
LEMMA SendChunkKeeps ==
  ASSUME NEW S \in Worlds, S.seeder \in SeederRec, MapsAgree(S),
         NEW p \in Peers, S.peer[p].st # "none"
  PROVE  SendChunk(S, p) \subseteq Seeding(S)
<1>1. CASE S.seeder.active[p] # NumChunks
  <2>1. SendChunk(S, p) = {S}  BY <1>1 DEF SendChunk
  <2>2. S \in Seeding(S)  BY DEF Seeding
  <2>3. QED  BY <2>1, <2>2
<1>2. CASE S.seeder.active[p] = NumChunks
  <2>1. SendChunk(S, p) = {Allow(S, [q \in {p} |-> c], {p}) : c \in MayAllow(S, p)}
    BY <1>2 DEF SendChunk
  <2>2. ASSUME NEW c \in MayAllow(S, p)
        PROVE  Allow(S, [q \in {p} |-> c], {p}) \in Seeding(S)
    <3> DEFINE f == [q \in {p} |-> c]
               ps == {p}
    <3>1. c \in Chunks \cup {NumChunks}  BY MayAllowTyped
    <3>2. ps \in SUBSET Peers /\ f \in [ps -> Chunks \cup {NumChunks}]  BY <3>1
    <3>3. \A q \in ps : S.seeder.active[q] = NumChunks /\ S.peer[q].st # "none"  BY <1>2
    <3> HIDE DEF f, ps
    <3>4. Allow(S, f, ps) \in Seeding(S)  BY <3>2, <3>3, AllowKeeps
    <3>5. QED  BY <3>4 DEF f, ps
  <2>3. QED  BY <2>1, <2>2
<1>3. QED  BY <1>1, <1>2

LEMMA SendChunksKeeps ==
  ASSUME NEW S \in Worlds, S.seeder \in SeederRec, MapsAgree(S), NEW ps \in SUBSET Peers,
         \A p \in ps : S.seeder.active[p] = NumChunks /\ S.peer[p].st # "none"
  PROVE  SendChunks(S, ps) \subseteq Seeding(S)
<1> SUFFICES ASSUME NEW U \in SendChunks(S, ps) PROVE U \in Seeding(S)  OBVIOUS
<1>1. PICK f \in [ps -> Chunks \cup {NumChunks}] : U = Allow(S, f, ps)  BY DEF SendChunks
<1>2. QED  BY <1>1, AllowKeeps

LEMMA SsHaveKeeps ==
  ASSUME NEW S \in Worlds, S.seeder \in SeederRec, MapsAgree(S),
         NEW p \in Peers, NEW c \in Chunks
  PROVE  SsHave(S, p, c) \subseteq Seeding(S)
<1> DEFINE others == {q \in Peers \ {p} : <<c, q>> \in S.seeder.chunks}
           cnt == IncBitSet(S.seeder.cnt, {c})
           one == IF AllOn(S, p) THEN 1 ELSE 0
           num == S.seeder.seeders + one
           sd == [S.seeder EXCEPT !.cnt = cnt, !.seeders = num]
           S1 == [S EXCEPT !.seeder = sd]
<1>1. SsHave(S, p, c) = SendChunks(Disallow(S1, others), others)
  BY DEF SsHave, Worlds, SeederRec
<1>2. cnt \in [Chunks -> Nat] /\ num \in Nat
  <2>1. S.seeder.cnt \in [Chunks -> Nat] /\ S.seeder.seeders \in Nat  BY DEF SeederRec
  <2>2. cnt \in [Chunks -> Nat]  BY <2>1 DEF IncBitSet
  <2>3. one \in Nat  OBVIOUS
  <2> HIDE DEF one, cnt
  <2>4. QED  BY <2>1, <2>2, <2>3
<1>3. others \in SUBSET Peers /\ \A q \in others : S.peer[q].st # "none"
  <2>1. NumChunks \notin Chunks  BY AvAssumption DEF Chunks
  <2>2. QED  BY <2>1 DEF MapsAgree
<1> HIDE DEF cnt, num, others
<1>4. sd \in SeederRec /\ sd.active = S.seeder.active /\ sd.chunks = S.seeder.chunks
  BY <1>2 DEF SeederRec
<1> HIDE DEF sd
<1>5. S1.seeder = sd /\ S1.peer = S.peer /\ S1.pman = S.pman /\ S1 \in Worlds
  BY <1>4 DEF Worlds
<1> HIDE DEF S1
<1>6. MapsAgree(S1)  BY <1>4, <1>5 DEF MapsAgree
<1> DEFINE S2 == Disallow(S1, others)
<1>7. S2 \in Seeding(S1) /\ \A q \in others : S2.seeder.active[q] = NumChunks
  BY <1>3, <1>4, <1>5, <1>6, DisallowKeeps
<1> HIDE DEF S2
<1>8. /\ S2 \in Worlds /\ S2.peer = S.peer /\ S2.pman = S.pman
      /\ S2.seeder \in SeederRec /\ MapsAgree(S2)
  BY <1>5, <1>7, SeedingFacts
<1>9. SendChunks(S2, others) \subseteq Seeding(S2)  BY <1>3, <1>7, <1>8, SendChunksKeeps
<1>10. Seeding(S2) = Seeding(S)  BY <1>8 DEF Seeding
<1>11. QED  BY <1>1, <1>9, <1>10 DEF S2

LEMMA SsHaveAllKeeps ==
  ASSUME NEW S \in Worlds, S.seeder \in SeederRec, MapsAgree(S), NEW p \in Peers
  PROVE  SsHaveAll(S, p) \in Seeding(S)
<1> DEFINE ps == {p}
           S1 == Disallow(S, ps)
           num == S1.seeder.seeders + 1
           sd == [S1.seeder EXCEPT !.seeders = num]
           U == [S1 EXCEPT !.seeder = sd]
<1>1. S1 \in Seeding(S)  BY DisallowKeeps
<1>2. /\ S1 \in Worlds /\ S1.peer = S.peer /\ S1.pman = S.pman
      /\ S1.seeder \in SeederRec /\ MapsAgree(S1)
  BY <1>1, SeedingFacts
<1>3. SsHaveAll(S, p) = [S1 EXCEPT !.seeder.seeders = @ + 1]  BY DEF SsHaveAll
<1> HIDE DEF S1
<1>4. SsHaveAll(S, p) = U  BY <1>2, <1>3 DEF Worlds, SeederRec
<1>5. num \in Nat
  <2>1. S1.seeder.seeders \in Nat  BY <1>2 DEF SeederRec
  <2>2. QED  BY <2>1
<1> HIDE DEF num
<1>6. sd \in SeederRec /\ sd.active = S1.seeder.active /\ sd.chunks = S1.seeder.chunks
  BY <1>2, <1>5 DEF SeederRec
<1> HIDE DEF sd
<1>7. U.seeder = sd /\ U.peer = S1.peer  BY <1>2 DEF Worlds
<1> HIDE DEF U
<1>8. MapsAgree(U)  BY <1>2, <1>6, <1>7 DEF MapsAgree
<1>9. U \in Seeding(S1)  BY <1>2, <1>6, <1>8, SeederChanged DEF U
<1>10. Seeding(S1) = Seeding(S)  BY <1>2 DEF Seeding
<1>11. QED  BY <1>4, <1>9, <1>10

\* bitset: have for each chunk in turn.
LEMMA SsBitsetKeeps ==
  ASSUME NEW S \in Worlds, S.seeder \in SeederRec, MapsAgree(S),
         NEW p \in Peers, NEW bs \in SUBSET Chunks
  PROVE  SsBitset(S, p, bs) \subseteq Seeding(S)
<1> DEFINE D == SUBSET Seeding(S)
           Turn(T, n) == IF n - 1 \in bs THEN UNION {SsHave(U, p, n - 1) : U \in T} ELSE T
           Runs(F) == F = [n \in 0 .. NumChunks |-> IF n = 0 THEN {S}
                              ELSE IF n - 1 \in bs THEN UNION {SsHave(U, p, n - 1) : U \in F[n - 1]}
                              ELSE F[n - 1]]
           F == CHOOSE G : Runs(G)
<1>1. SsBitset(S, p, bs) = IF bs = Chunks THEN {SsHaveAll(S, p)} ELSE F[NumChunks]
  BY Zenon DEF SsBitset
<1>2. NumChunks \in Nat  BY AvAssumption
<1>3. ASSUME NEW T \in D, NEW n \in Nat PROVE Turn(T, n) \in D
  <2>1. CASE n - 1 \in bs
    <3>1. ASSUME NEW U \in T PROVE SsHave(U, p, n - 1) \subseteq Seeding(S)
      <4>1. U \in Seeding(S)  BY <3>1
      <4>2. U \in Worlds /\ U.seeder \in SeederRec /\ MapsAgree(U) /\ n - 1 \in Chunks
        BY <2>1, <4>1, SeedingFacts
      <4>3. SsHave(U, p, n - 1) \subseteq Seeding(U)  BY <4>2, SsHaveKeeps
      <4>4. Seeding(U) = Seeding(S)
        <5>1. U.peer = S.peer /\ U.pman = S.pman  BY <4>1, SeedingFacts
        <5>2. QED  BY <5>1 DEF Seeding
      <4>5. QED  BY <4>3, <4>4
    <3>2. Turn(T, n) = UNION {SsHave(U, p, n - 1) : U \in T}  BY <2>1
    <3>3. QED  BY <3>1, <3>2
  <2>2. CASE n - 1 \notin bs  BY <2>2
  <2>3. QED  BY <2>1, <2>2
<1>4. {S} \in D  BY DEF Seeding
<1>5. \E G : Runs(G)
  <2> DEFINE g == [x \in D \X Nat |-> Turn(x[1], x[2])]
             x0 == {S}
  <2>1. \A T \in D, n \in Nat : g[<<T, n>>] = Turn(T, n)  OBVIOUS
  <2> HIDE DEF D, Turn, g
  <2>2. TurnsIn(g, D)  BY <1>3, <2>1 DEF TurnsIn
  <2>3. x0 \in D  BY <1>4
  <2> HIDE DEF x0
  <2>4. \E G : Loop(G, g, D, x0, NumChunks)
    <3> HIDE DEF Runs, F
    <3>1. QED  BY <1>2, <2>2, <2>3, LoopExists
  <2>5. PICK G : Loop(G, g, D, x0, NumChunks)  BY <2>4
  <2>6. ASSUME NEW n \in 0 .. NumChunks, n # 0 PROVE G[n] = Turn(G[n - 1], n)
    <3>1. n \in 1 .. NumChunks /\ n \in Nat /\ n - 1 \in 0 .. NumChunks  BY <1>2, <2>6
    <3>2. G[n - 1] \in D  BY <2>5, <3>1 DEF Loop
    <3>3. QED  BY <2>1, <2>5, <3>1, <3>2 DEF Loop
  <2>7. \A n \in 0 .. NumChunks : G[n] = IF n = 0 THEN {S} ELSE Turn(G[n - 1], n)
    BY <2>5, <2>6 DEF x0, Loop
  <2>8. G = [n \in 0 .. NumChunks |-> G[n]]  BY <2>5 DEF Loop
  <2>9. G = [n \in 0 .. NumChunks |-> IF n = 0 THEN {S} ELSE Turn(G[n - 1], n)]  BY <2>7, <2>8
  <2>10. Runs(G)  BY <2>9 DEF Turn
  <2>11. QED  BY <2>10
<1>6. Runs(F)  BY <1>5, Zenon
<1> HIDE DEF F
<1>7. F[0] = {S} /\ \A n \in 1 .. NumChunks : F[n] = Turn(F[n - 1], n)
  <2>1. F = [n \in 0 .. NumChunks |-> IF n = 0 THEN {S} ELSE Turn(F[n - 1], n)]  BY <1>6
  <2> HIDE DEF Runs, Turn
  <2>2. F[0] = {S}  BY <1>2, <2>1
  <2>3. ASSUME NEW n \in 1 .. NumChunks PROVE F[n] = Turn(F[n - 1], n)
    <3>1. n \in 0 .. NumChunks /\ n # 0  BY <1>2
    <3>2. F[n] = IF n = 0 THEN {S} ELSE Turn(F[n - 1], n)  BY <2>1, <3>1
    <3>3. QED  BY <3>1, <3>2
  <2>4. QED  BY <2>2, <2>3
<1>8. F[NumChunks] \in D
  <2> HIDE DEF D, Turn
  <2>1. \A i \in 1 .. NumChunks : F[i - 1] \in D => F[i] \in D  BY <1>3, <1>7
  <2>2. F[0] \in D  BY <1>4, <1>7
  <2>3. \A i \in 0 .. NumChunks : F[i] \in D  BY <1>2, <2>1, <2>2, LoopStays
  <2>4. QED  BY <1>2, <2>3
<1>9. SsHaveAll(S, p) \in Seeding(S)  BY SsHaveAllKeeps
<1>10. QED  BY <1>1, <1>8, <1>9

\* peerRemoved for a set of peers leaves no entry of theirs.
LEMMA SsPeerRemovedKeeps ==
  ASSUME NEW S \in Worlds, S.seeder \in SeederRec, MapsAgree(S), NEW ps \in SUBSET Peers
  PROVE  /\ SsPeerRemoved(S, ps) \in Seeding(S)
         /\ \A p \in ps : SsPeerRemoved(S, ps).seeder.active[p] = NumChunks
<1> DEFINE S1 == Disallow(S, ps)
           num == Lowered(S1.seeder.seeders, Cardinality({p \in ps : AllOn(S, p)}))
           cnt == DecBitSets(S, S1.seeder.cnt, ps)
           sd == [S1.seeder EXCEPT !.seeders = num, !.cnt = cnt]
           U == [S1 EXCEPT !.seeder = sd]
<1>1. S1 \in Seeding(S) /\ \A p \in ps : S1.seeder.active[p] = NumChunks  BY DisallowKeeps
<1>2. /\ S1 \in Worlds /\ S1.peer = S.peer /\ S1.pman = S.pman
      /\ S1.seeder \in SeederRec /\ MapsAgree(S1)
  BY <1>1, SeedingFacts
<1>3. SsPeerRemoved(S, ps) =
        [S1 EXCEPT !.seeder.seeders = Lowered(@, Cardinality({p \in ps : AllOn(S, p)})),
                   !.seeder.cnt = DecBitSets(S, @, ps)]
  BY DEF SsPeerRemoved
<1> HIDE DEF S1
<1>4. SsPeerRemoved(S, ps) = U  BY <1>2, <1>3 DEF Worlds, SeederRec
<1>5. num \in Nat /\ cnt \in [Chunks -> Nat]
  <2>1. S1.seeder.seeders \in Nat /\ S1.seeder.cnt \in [Chunks -> Nat]  BY <1>2 DEF SeederRec
  <2>2. ASSUME NEW T \in SUBSET Peers PROVE Cardinality(T) \in Nat
    BY AvAssumption, FS_Subset, FS_CardinalityType
  <2>3. \A n \in Nat, T \in SUBSET Peers : Lowered(n, Cardinality(T)) \in Nat
    BY <2>2 DEF Lowered
  <2>4. num \in Nat  BY <2>1, <2>3
  <2>5. cnt \in [Chunks -> Nat]  BY <2>1, <2>3 DEF DecBitSets, Owners
  <2>6. QED  BY <2>4, <2>5
<1> HIDE DEF num, cnt
<1>6. sd \in SeederRec /\ sd.active = S1.seeder.active /\ sd.chunks = S1.seeder.chunks
  BY <1>2, <1>5 DEF SeederRec
<1> HIDE DEF sd
<1>7. U.seeder = sd /\ U.peer = S1.peer  BY <1>2 DEF Worlds
<1> HIDE DEF U
<1>8. MapsAgree(U)  BY <1>2, <1>6, <1>7 DEF MapsAgree
<1>9. U \in Seeding(S1)  BY <1>2, <1>6, <1>8, SeederChanged DEF U
<1>10. Seeding(S1) = Seeding(S)  BY <1>2 DEF Seeding
<1>11. QED  BY <1>1, <1>4, <1>6, <1>7, <1>9, <1>10

-----------------------------------------------------------------------------
(* The invariant. pe and pm stand for the peers and the peer manager.      *)

Having(pe, c) == {p \in Peers : c \in pe[p].pieces}

\* A chunk has no more owners than are counted, and the available chunks are
\* those that are counted.
Counted(pe, pm) ==
    /\ \A c \in Chunks : Cardinality(Having(pe, c)) <= pm.cnt[c]
    /\ pm.avail = {c \in Chunks : pm.cnt[c] > 0}

\* A name that is not in the peer map has no chunks, and without a started
\* manager the map is empty.
MapQuiet(pe, pm) ==
    /\ \A p \in Peers : pe[p].st = "none" => pe[p].pieces = {}
    /\ ~pm.started => \A p \in Peers : pe[p].st = "none"

Interested(pe, pm) ==
    pm.started /\ ~pm.paused /\ ~pm.changed =>
        \A p \in Peers : pe[p].st = "live" /\ pe[p].pieces \cap pm.wanted # {} => pe[p].am

AvBody(pe, pm) == Counted(pe, pm) /\ MapQuiet(pe, pm) /\ Interested(pe, pm)

AvInv == /\ peer \in [Peers -> PeerState] /\ pman \in PmanRec
         /\ seeder \in SeederRec \cup {NoSeeder}
         /\ AvBody(peer, pman)
         /\ seeder \in SeederRec => MapsAgree(AvWorld)

LEMMA SeederOn ==
  ASSUME NEW sd \in SeederRec \cup {NoSeeder}
  PROVE  sd.on <=> sd \in SeederRec
<1>1. NoSeeder.on = FALSE  BY DEF NoSeeder
<1>2. \A s \in SeederRec : s.on = TRUE  BY DEF SeederRec
<1>3. CASE sd \in SeederRec  BY <1>2, <1>3
<1>4. CASE sd = NoSeeder  BY <1>1, <1>2, <1>4
<1>5. QED  BY <1>3, <1>4

LEMMA HavingFacts ==
  ASSUME NEW pe, NEW c
  PROVE  IsFiniteSet(Having(pe, c)) /\ Cardinality(Having(pe, c)) \in Nat
<1>1. Having(pe, c) \subseteq Peers  BY DEF Having
<1>2. QED  BY <1>1, AvAssumption, FS_Subset, FS_CardinalityType

LEMMA HavingFewer ==
  ASSUME NEW pe, NEW qe, NEW c, Having(qe, c) \subseteq Having(pe, c)
  PROVE  Cardinality(Having(qe, c)) <= Cardinality(Having(pe, c))
BY HavingFacts, FS_Subset

LEMMA HavingOneMore ==
  ASSUME NEW pe, NEW qe, NEW c, NEW p, Having(qe, c) \subseteq Having(pe, c) \cup {p}
  PROVE  Cardinality(Having(qe, c)) <= Cardinality(Having(pe, c)) + 1
<1> DEFINE A == Having(pe, c)
           B == Having(qe, c)
<1>1. IsFiniteSet(A) /\ Cardinality(A) \in Nat  BY HavingFacts
<1>2. IsFiniteSet(B) /\ Cardinality(B) \in Nat  BY HavingFacts
<1>3. B \subseteq A \cup {p}  OBVIOUS
<1> HIDE DEF A, B
<1>4. IsFiniteSet(A \cup {p}) /\ Cardinality(A \cup {p}) <= Cardinality(A) + 1
  <2>1. CASE p \in A
    <3>1. A \cup {p} = A  BY <2>1
    <3>2. QED  BY <1>1, <3>1
  <2>2. CASE p \notin A
    <3>1. IsFiniteSet(A \cup {p}) /\ Cardinality(A \cup {p}) = Cardinality(A) + 1
      BY <1>1, <2>2, FS_AddElement
    <3>2. QED  BY <1>1, <3>1
  <2>3. QED  BY <2>1, <2>2
<1>5. Cardinality(B) <= Cardinality(A \cup {p}) /\ Cardinality(A \cup {p}) \in Nat
  BY <1>3, <1>4, FS_Subset, FS_CardinalityType
<1>6. Cardinality(B) <= Cardinality(A) + 1  BY <1>1, <1>2, <1>4, <1>5
<1>7. QED  BY <1>6 DEF A, B

\* The state of the next step, taken apart.
LEMMA AvBecomes ==
  ASSUME NEW U \in Worlds, AvBecome(U), AvBody(U.peer, U.pman),
         U.seeder \in SeederRec => MapsAgree(U)
  PROVE  AvInv'
<1>1. peer' = U.peer /\ pman' = U.pman /\ seeder' = U.seeder  BY DEF AvBecome
<1>2. U.peer \in [Peers -> PeerState] /\ U.pman \in PmanRec /\ U.seeder \in SeederRec \cup {NoSeeder}
  BY DEF Worlds
<1>3. MapsAgree(U) => MapsAgree(AvWorld)'
  <2>1. AvWorld'.peer = U.peer /\ AvWorld'.seeder = U.seeder  BY <1>1 DEF AvWorld
  <2>2. QED  BY <2>1 DEF MapsAgree
<1>4. QED  BY <1>1, <1>2, <1>3 DEF AvInv

\* The same for what the super seeder leads to.
LEMMA AvSeeded ==
  ASSUME NEW S \in Worlds, AvBody(S.peer, S.pman), NEW U \in Seeding(S), AvBecome(U)
  PROVE  AvInv'
<1>1. U \in Worlds /\ U.peer = S.peer /\ U.pman = S.pman /\ MapsAgree(U)  BY SeedingFacts
<1>2. QED  BY <1>1, AvBecomes

LEMMA AvInvWorld ==
  ASSUME AvInv
  PROVE  /\ AvWorld \in Worlds /\ AvWorld.peer = peer /\ AvWorld.pman = pman
         /\ AvWorld.seeder = seeder
BY DEF AvInv, AvWorld, Worlds

LEMMA AvInitInv == AvInit => AvInv
<1> SUFFICES ASSUME AvInit PROVE AvInv  OBVIOUS
<1>1. /\ peer = [p \in Peers |-> NoPeer] /\ seeder = NoSeeder
      /\ pman = [started |-> FALSE, paused |-> FALSE, wanted |-> Chunks,
                 changed |-> FALSE, cnt |-> [c \in Chunks |-> 0], avail |-> {}]
  BY DEF AvInit
<1>2. NoPeer \in PeerState /\ NoPeer.st = "none" /\ NoPeer.pieces = {}
  BY DEF NoPeer, PeerState
<1>3. peer \in [Peers -> PeerState] /\ pman \in PmanRec  BY <1>1, <1>2 DEF PmanRec
<1>4. \A c \in Chunks : pman.cnt[c] = 0  BY <1>1
<1>5. ASSUME NEW c \in Chunks PROVE Cardinality(Having(peer, c)) = 0
  <2>1. Having(peer, c) = {}  BY <1>1, <1>2 DEF Having
  <2>2. QED  BY <2>1, FS_EmptySet
<1>6. Counted(peer, pman)
  <2>1. pman.avail = {}  BY <1>1
  <2>2. {c \in Chunks : pman.cnt[c] > 0} = {}  BY <1>4
  <2>3. QED  BY <1>4, <1>5, <2>1, <2>2 DEF Counted
<1>7. MapQuiet(peer, pman)  BY <1>1, <1>2 DEF MapQuiet
<1>8. Interested(peer, pman)  BY <1>1 DEF Interested
<1>9. seeder \notin SeederRec  BY <1>1, SeederOn DEF NoSeeder
<1>10. QED  BY <1>1, <1>3, <1>6, <1>7, <1>8, <1>9 DEF AvInv, AvBody

LEMMA AddPeerKeeps ==
  ASSUME AvInv, NEW p \in Peers, AddPeer(p)
  PROVE  AvInv'
<1> DEFINE pe == [peer EXCEPT ![p] = [peer[p] EXCEPT !.st = "live"]]
           S == [AvWorld EXCEPT !.peer = pe]
<1>1. /\ peer \in [Peers -> PeerState] /\ pman \in PmanRec
      /\ seeder \in SeederRec \cup {NoSeeder} /\ AvBody(peer, pman)
      /\ seeder \in SeederRec => MapsAgree(AvWorld)
  BY DEF AvInv
<1>2. pman.started /\ peer[p].st = "none" /\ peer[p].pieces = {}
  BY <1>1 DEF AddPeer, InMap, AvBody, MapQuiet
<1>3. [AvWorld EXCEPT !.peer[p].st = "live"] = S  BY <1>1 DEF AvWorld
<1>4. PICK T \in IF seeder.on THEN SsPeerAdded(S, p) ELSE {S} : AvBecome(T)
  BY <1>3 DEF AddPeer
<1>5. [peer[p] EXCEPT !.st = "live"] \in PeerState
  <2>1. peer[p] \in PeerState  BY <1>1
  <2>2. QED  BY <2>1 DEF PeerState
<1>6. /\ pe \in [Peers -> PeerState] /\ pe[p].st = "live" /\ pe[p].pieces = {}
      /\ \A q \in Peers : q # p => pe[q] = peer[q]
  <2>1. peer[p] \in PeerState  BY <1>1
  <2>2. /\ [peer[p] EXCEPT !.st = "live"].st = "live"
        /\ [peer[p] EXCEPT !.st = "live"].pieces = peer[p].pieces
    BY <2>1 DEF PeerState
  <2>3. QED  BY <1>1, <1>2, <1>5, <2>2
<1> HIDE DEF pe
<1>7. S \in Worlds /\ S.peer = pe /\ S.pman = pman /\ S.seeder = seeder
  BY <1>1, <1>6 DEF AvWorld, Worlds
<1>8. AvWorld.seeder = seeder /\ AvWorld.peer = peer  BY DEF AvWorld
<1> HIDE DEF S
<1>9. AvBody(pe, pman)
  <2>1. \A c \in Chunks : Having(pe, c) = Having(peer, c)  BY <1>2, <1>6 DEF Having
  <2>2. Counted(pe, pman)  BY <1>1, <2>1 DEF AvBody, Counted
  <2>3. MapQuiet(pe, pman)  BY <1>1, <1>2, <1>6 DEF AvBody, MapQuiet
  <2>4. Interested(pe, pman)
    <3>1. \A q \in Peers : q # p => pe[q] = peer[q]  BY <1>6
    <3>2. pe[p].pieces \cap pman.wanted = {}  BY <1>6
    <3>3. QED  BY <1>1, <3>1, <3>2 DEF AvBody, Interested
  <2>5. QED  BY <2>2, <2>3, <2>4 DEF AvBody
<1>10. seeder \in SeederRec => MapsAgree(S)
  BY <1>1, <1>6, <1>7, <1>8 DEF MapsAgree
<1>11. CASE seeder.on
  <2>1. seeder \in SeederRec  BY <1>1, <1>11, SeederOn
  <2>2. T \in SendChunk(S, p)  BY <1>4, <1>11 DEF SsPeerAdded
  <2>3. SendChunk(S, p) \subseteq Seeding(S)
    <3>1. S.peer[p].st # "none"  BY <1>6, <1>7
    <3>2. QED  BY <1>7, <1>10, <2>1, <3>1, SendChunkKeeps
  <2>4. QED  BY <1>4, <1>7, <1>9, <2>2, <2>3, AvSeeded
<1>12. CASE ~seeder.on
  <2>1. T = S  BY <1>4, <1>12
  <2>2. QED  BY <1>4, <1>7, <1>9, <1>10, <2>1, AvBecomes
<1>13. QED  BY <1>11, <1>12

\* A have of peer p is counted before its bit is set.
LEMMA HandleHaveKeeps ==
  ASSUME AvInv, NEW p \in Peers, NEW c \in Chunks, HandleHave(p, c)
  PROVE  AvInv'
<1> DEFINE am == peer[p].am \/ (c \in pman.wanted /\ ~pman.paused)
           r1 == [peer[p] EXCEPT !.am = am]
           pe == [peer EXCEPT ![p] = r1]
           cnt == IncBitSet(pman.cnt, {c})
           pm == [pman EXCEPT !.avail = pman.avail \cup {c}, !.cnt = cnt]
           S == [AvWorld EXCEPT !.peer = pe, !.pman = pm]
<1>1. /\ peer \in [Peers -> PeerState] /\ pman \in PmanRec
      /\ seeder \in SeederRec \cup {NoSeeder} /\ AvBody(peer, pman)
      /\ seeder \in SeederRec => MapsAgree(AvWorld)
  BY DEF AvInv
<1>2. peer[p].st = "live" /\ peer[p] \in PeerState  BY <1>1 DEF HandleHave, Live
<1>3. [AvWorld EXCEPT !.peer[p].am = @ \/ (c \in pman.wanted /\ ~pman.paused),
                      !.pman.avail = @ \cup {c},
                      !.pman.cnt = IncBitSet(@, {c})] = S
  BY <1>1 DEF AvWorld, PmanRec
<1>4. PICK T \in IF seeder.on THEN SsHave(S, p, c) ELSE {S} :
             AvBecome([T EXCEPT !.peer[p].pieces = @ \cup {c}])
  BY <1>3 DEF HandleHave
<1>5. am \in BOOLEAN  BY <1>2 DEF PeerState
<1>6. am <=> peer[p].am \/ (c \in pman.wanted /\ ~pman.paused)  OBVIOUS
<1> HIDE DEF am
<1>7. r1 \in PeerState /\ r1.st = "live" /\ r1.am = am /\ r1.pieces = peer[p].pieces
  BY <1>2, <1>5 DEF PeerState
<1> HIDE DEF r1
<1>8. pe \in [Peers -> PeerState] /\ pe[p] = r1 /\ \A q \in Peers : q # p => pe[q] = peer[q]
  BY <1>1, <1>7
<1>9. /\ cnt \in [Chunks -> Nat] /\ pman.cnt \in [Chunks -> Nat]
      /\ \A d \in Chunks : cnt[d] = IF d = c THEN pman.cnt[d] + 1 ELSE pman.cnt[d]
  <2>1. pman.cnt \in [Chunks -> Nat]  BY <1>1 DEF PmanRec
  <2>2. QED  BY <2>1 DEF IncBitSet
<1> HIDE DEF pe, cnt
<1>10. /\ pm \in PmanRec /\ pm.cnt = cnt /\ pm.avail = pman.avail \cup {c}
       /\ pm.started = pman.started /\ pm.paused = pman.paused /\ pm.changed = pman.changed
       /\ pm.wanted = pman.wanted
  BY <1>1, <1>9 DEF PmanRec
<1> HIDE DEF pm
<1>11. S \in Worlds /\ S.peer = pe /\ S.pman = pm /\ S.seeder = seeder
  BY <1>1, <1>8, <1>10 DEF AvWorld, Worlds
<1>12. AvWorld.seeder = seeder /\ AvWorld.peer = peer  BY DEF AvWorld
<1> HIDE DEF S
<1>13. seeder \in SeederRec => MapsAgree(S)
  BY <1>1, <1>2, <1>7, <1>8, <1>11, <1>12 DEF MapsAgree
<1>14. T \in Worlds /\ T.peer = pe /\ T.pman = pm /\ (T.seeder \in SeederRec => MapsAgree(T))
  <2>1. CASE seeder.on
    <3>1. seeder \in SeederRec  BY <1>1, <2>1, SeederOn
    <3>2. T \in SsHave(S, p, c)  BY <1>4, <2>1
    <3>3. SsHave(S, p, c) \subseteq Seeding(S)  BY <1>11, <1>13, <3>1, SsHaveKeeps
    <3>4. T \in Seeding(S)  BY <3>2, <3>3
    <3>5. QED  BY <1>11, <3>4, SeedingFacts
  <2>2. CASE ~seeder.on
    <3>1. T = S  BY <1>4, <2>2
    <3>2. QED  BY <1>11, <1>13, <3>1
  <2>3. QED  BY <2>1, <2>2
<1> DEFINE r2 == [r1 EXCEPT !.pieces = r1.pieces \cup {c}]
           pe2 == [pe EXCEPT ![p] = r2]
           U == [T EXCEPT !.peer = pe2]
<1>15. [T EXCEPT !.peer[p].pieces = @ \cup {c}] = U  BY <1>8, <1>14 DEF Worlds
<1>16. r2 \in PeerState /\ r2.st = "live" /\ r2.am = am /\ r2.pieces = peer[p].pieces \cup {c}
  BY <1>7 DEF PeerState
<1> HIDE DEF r2
<1>17. pe2 \in [Peers -> PeerState] /\ pe2[p] = r2 /\ \A q \in Peers : q # p => pe2[q] = peer[q]
  BY <1>8, <1>16
<1> HIDE DEF pe2
<1>18. U \in Worlds /\ U.peer = pe2 /\ U.pman = pm /\ U.seeder = T.seeder
  BY <1>14, <1>17 DEF Worlds
<1> HIDE DEF U
<1>19. Counted(pe2, pm)
  <2>1. ASSUME NEW d \in Chunks PROVE Cardinality(Having(pe2, d)) <= pm.cnt[d]
    <3>1. Cardinality(Having(peer, d)) <= pman.cnt[d]  BY <1>1 DEF AvBody, Counted
    <3>2. Cardinality(Having(peer, d)) \in Nat /\ Cardinality(Having(pe2, d)) \in Nat
      BY HavingFacts
    <3>3. pman.cnt[d] \in Nat  BY <1>9
    <3>4. CASE d = c
      <4>1. Having(pe2, d) \subseteq Having(peer, d) \cup {p}  BY <1>17 DEF Having
      <4>2. Cardinality(Having(pe2, d)) <= Cardinality(Having(peer, d)) + 1
        BY <4>1, HavingOneMore
      <4>3. pm.cnt[d] = pman.cnt[d] + 1  BY <1>9, <1>10, <3>4
      <4>4. QED  BY <3>1, <3>2, <3>3, <4>2, <4>3
    <3>5. CASE d # c
      <4>1. Having(pe2, d) \subseteq Having(peer, d)  BY <1>16, <1>17, <3>5 DEF Having
      <4>2. Cardinality(Having(pe2, d)) <= Cardinality(Having(peer, d))  BY <4>1, HavingFewer
      <4>3. pm.cnt[d] = pman.cnt[d]  BY <1>9, <1>10, <3>5
      <4>4. QED  BY <3>1, <3>2, <3>3, <4>2, <4>3
    <3>6. QED  BY <3>4, <3>5
  <2>2. pm.avail = {d \in Chunks : pm.cnt[d] > 0}
    <3>1. pman.avail = {d \in Chunks : pman.cnt[d] > 0}  BY <1>1 DEF AvBody, Counted
    <3>2. \A d \in Chunks : pm.cnt[d] > 0 <=> d = c \/ pman.cnt[d] > 0  BY <1>9, <1>10
    <3>3. QED  BY <1>10, <3>1, <3>2
  <2>3. QED  BY <2>1, <2>2 DEF Counted
<1>20. MapQuiet(pe2, pm)
  BY <1>1, <1>2, <1>10, <1>16, <1>17 DEF AvBody, MapQuiet
<1>21. Interested(pe2, pm)
  <2> SUFFICES ASSUME pm.started, ~pm.paused, ~pm.changed, NEW q \in Peers,
                      pe2[q].st = "live", pe2[q].pieces \cap pm.wanted # {}
               PROVE  pe2[q].am
    BY DEF Interested
  <2>1. \A o \in Peers : peer[o].st = "live" /\ peer[o].pieces \cap pman.wanted # {} => peer[o].am
    BY <1>1, <1>10 DEF AvBody, Interested
  <2>2. CASE q # p  BY <1>10, <1>17, <2>1, <2>2
  <2>3. CASE q = p
    <3>1. c \in pman.wanted \/ peer[p].pieces \cap pman.wanted # {}  BY <1>10, <1>16, <1>17, <2>3
    <3>2. am  BY <1>2, <1>6, <1>10, <2>1, <3>1
    <3>3. QED  BY <1>16, <1>17, <2>3, <3>2
  <2>4. QED  BY <2>2, <2>3
<1>22. U.seeder \in SeederRec => MapsAgree(U)
  <2>1. \A q \in Peers : pe[q].st # "none" => pe2[q].st # "none"
    BY <1>8, <1>16, <1>17
  <2>2. QED  BY <1>14, <1>18, <2>1 DEF MapsAgree
<1>23. QED  BY <1>4, <1>15, <1>18, <1>19, <1>20, <1>21, <1>22, AvBecomes DEF AvBody

\* A bitfield replaces the bits of peer p; all its chunks are counted again.
LEMMA HandleBitFieldKeeps ==
  ASSUME AvInv, NEW p \in Peers, NEW bs \in SUBSET Chunks, HandleBitField(p, bs)
  PROVE  AvInv'
<1> DEFINE am == peer[p].am \/ (bs \cap pman.wanted # {} /\ ~pman.paused)
           r1 == [peer[p] EXCEPT !.pieces = bs, !.am = am]
           pe == [peer EXCEPT ![p] = r1]
           cnt == IncBitSet(pman.cnt, bs)
           pm == [pman EXCEPT !.avail = pman.avail \cup bs, !.cnt = cnt]
           S == [AvWorld EXCEPT !.peer = pe, !.pman = pm]
<1>1. /\ peer \in [Peers -> PeerState] /\ pman \in PmanRec
      /\ seeder \in SeederRec \cup {NoSeeder} /\ AvBody(peer, pman)
      /\ seeder \in SeederRec => MapsAgree(AvWorld)
  BY DEF AvInv
<1>2. peer[p].st = "live" /\ peer[p] \in PeerState  BY <1>1 DEF HandleBitField, Live
<1>3. [AvWorld EXCEPT !.peer[p] = [peer[p] EXCEPT !.pieces = bs,
                                         !.am = @ \/ (bs \cap pman.wanted # {} /\ ~pman.paused)],
                      !.pman.avail = @ \cup bs,
                      !.pman.cnt = IncBitSet(@, bs)] = S
  BY <1>1, <1>2 DEF AvWorld, PmanRec
<1>4. PICK T \in IF seeder.on THEN SsBitset(S, p, bs) ELSE {S} : AvBecome(T)
  BY <1>3 DEF HandleBitField
<1>5. am \in BOOLEAN  BY <1>2 DEF PeerState
<1>6. am <=> peer[p].am \/ (bs \cap pman.wanted # {} /\ ~pman.paused)  OBVIOUS
<1> HIDE DEF am
<1>7. r1 \in PeerState /\ r1.st = "live" /\ r1.am = am /\ r1.pieces = bs
  BY <1>2, <1>5 DEF PeerState
<1> HIDE DEF r1
<1>8. pe \in [Peers -> PeerState] /\ pe[p] = r1 /\ \A q \in Peers : q # p => pe[q] = peer[q]
  BY <1>1, <1>7
<1>9. /\ cnt \in [Chunks -> Nat] /\ pman.cnt \in [Chunks -> Nat]
      /\ \A d \in Chunks : cnt[d] = IF d \in bs THEN pman.cnt[d] + 1 ELSE pman.cnt[d]
  <2>1. pman.cnt \in [Chunks -> Nat]  BY <1>1 DEF PmanRec
  <2>2. QED  BY <2>1 DEF IncBitSet
<1> HIDE DEF pe, cnt
<1>10. /\ pm \in PmanRec /\ pm.cnt = cnt /\ pm.avail = pman.avail \cup bs
       /\ pm.started = pman.started /\ pm.paused = pman.paused /\ pm.changed = pman.changed
       /\ pm.wanted = pman.wanted
  BY <1>1, <1>9 DEF PmanRec
<1> HIDE DEF pm
<1>11. S \in Worlds /\ S.peer = pe /\ S.pman = pm /\ S.seeder = seeder
  BY <1>1, <1>8, <1>10 DEF AvWorld, Worlds
<1>12. AvWorld.seeder = seeder /\ AvWorld.peer = peer  BY DEF AvWorld
<1> HIDE DEF S
<1>13. seeder \in SeederRec => MapsAgree(S)
  BY <1>1, <1>2, <1>7, <1>8, <1>11, <1>12 DEF MapsAgree
<1>14. Counted(pe, pm)
  <2>1. ASSUME NEW d \in Chunks PROVE Cardinality(Having(pe, d)) <= pm.cnt[d]
    <3>1. Cardinality(Having(peer, d)) <= pman.cnt[d]  BY <1>1 DEF AvBody, Counted
    <3>2. Cardinality(Having(peer, d)) \in Nat /\ Cardinality(Having(pe, d)) \in Nat
      BY HavingFacts
    <3>3. pman.cnt[d] \in Nat  BY <1>9
    <3>4. CASE d \in bs
      <4>1. Having(pe, d) \subseteq Having(peer, d) \cup {p}  BY <1>8 DEF Having
      <4>2. Cardinality(Having(pe, d)) <= Cardinality(Having(peer, d)) + 1
        BY <4>1, HavingOneMore
      <4>3. pm.cnt[d] = pman.cnt[d] + 1  BY <1>9, <1>10, <3>4
      <4>4. QED  BY <3>1, <3>2, <3>3, <4>2, <4>3
    <3>5. CASE d \notin bs
      <4>1. Having(pe, d) \subseteq Having(peer, d)  BY <1>7, <1>8, <3>5 DEF Having
      <4>2. Cardinality(Having(pe, d)) <= Cardinality(Having(peer, d))  BY <4>1, HavingFewer
      <4>3. pm.cnt[d] = pman.cnt[d]  BY <1>9, <1>10, <3>5
      <4>4. QED  BY <3>1, <3>2, <3>3, <4>2, <4>3
    <3>6. QED  BY <3>4, <3>5
  <2>2. pm.avail = {d \in Chunks : pm.cnt[d] > 0}
    <3>1. pman.avail = {d \in Chunks : pman.cnt[d] > 0}  BY <1>1 DEF AvBody, Counted
    <3>2. \A d \in Chunks : pm.cnt[d] > 0 <=> d \in bs \/ pman.cnt[d] > 0  BY <1>9, <1>10
    <3>3. QED  BY <1>10, <3>1, <3>2
  <2>3. QED  BY <2>1, <2>2 DEF Counted
<1>15. MapQuiet(pe, pm)
  BY <1>1, <1>2, <1>7, <1>8, <1>10 DEF AvBody, MapQuiet
<1>16. Interested(pe, pm)
  <2> SUFFICES ASSUME pm.started, ~pm.paused, ~pm.changed, NEW q \in Peers,
                      pe[q].st = "live", pe[q].pieces \cap pm.wanted # {}
               PROVE  pe[q].am
    BY DEF Interested
  <2>1. \A o \in Peers : peer[o].st = "live" /\ peer[o].pieces \cap pman.wanted # {} => peer[o].am
    BY <1>1, <1>10 DEF AvBody, Interested
  <2>2. CASE q # p  BY <1>8, <1>10, <2>1, <2>2
  <2>3. CASE q = p
    <3>1. bs \cap pman.wanted # {}  BY <1>7, <1>8, <1>10, <2>3
    <3>2. am  BY <1>6, <1>10, <3>1
    <3>3. QED  BY <1>7, <1>8, <2>3, <3>2
  <2>4. QED  BY <2>2, <2>3
<1>17. AvBody(S.peer, S.pman)  BY <1>11, <1>14, <1>15, <1>16 DEF AvBody
<1>18. CASE seeder.on
  <2>1. seeder \in SeederRec  BY <1>1, <1>18, SeederOn
  <2>2. T \in SsBitset(S, p, bs)  BY <1>4, <1>18
  <2>3. SsBitset(S, p, bs) \subseteq Seeding(S)  BY <1>11, <1>13, <2>1, SsBitsetKeeps
  <2>4. QED  BY <1>4, <1>11, <1>17, <2>2, <2>3, AvSeeded
<1>19. CASE ~seeder.on
  <2>1. T = S  BY <1>4, <1>19
  <2>2. QED  BY <1>4, <1>11, <1>13, <1>17, <2>1, AvBecomes
<1>20. QED  BY <1>18, <1>19

\* What decBitSet takes off for the peers that go is at most what they own.
LEMMA LoweredEnough ==
  ASSUME NEW A, IsFiniteSet(A), NEW B \in SUBSET A, NEW n \in Nat, Cardinality(A) <= n
  PROVE  /\ Lowered(n, Cardinality(B)) \in Nat
         /\ Cardinality(A \ B) <= Lowered(n, Cardinality(B))
<1>1. /\ IsFiniteSet(B) /\ Cardinality(A) \in Nat /\ Cardinality(B) \in Nat
      /\ Cardinality(B) <= Cardinality(A)
  BY FS_Subset, FS_CardinalityType
<1>2. A \cap B = B  OBVIOUS
<1>3. Cardinality(A \ B) = Cardinality(A) - Cardinality(A \cap B)  BY FS_Difference
<1>4. Cardinality(A \ B) = Cardinality(A) - Cardinality(B)  BY <1>2, <1>3
<1> DEFINE a == Cardinality(A)
           b == Cardinality(B)
           d == Cardinality(A \ B)
<1>5. a \in Nat /\ b \in Nat /\ b <= a /\ d = a - b /\ a <= n  BY <1>1, <1>4
<1> HIDE DEF a, b, d
<1>6. Lowered(n, b) \in Nat /\ d <= Lowered(n, b)  BY <1>5 DEF Lowered
<1>7. QED  BY <1>6 DEF b, d

LEMMA EraseKeeps ==
  ASSUME AvInv, NEW gone \in SUBSET Peers
  PROVE  LET S == Erase(AvWorld, gone)
         IN  /\ S \in Worlds /\ AvBody(S.peer, S.pman) /\ (S.seeder \in SeederRec => MapsAgree(S))
<1> DEFINE W == AvWorld
           cnt == DecBitSets(W, pman.cnt, gone)
           av == {c \in Chunks : cnt[c] > 0}
           pm == [pman EXCEPT !.cnt = cnt, !.avail = av]
           S1 == [W EXCEPT !.pman = pm]
           S2 == IF seeder.on THEN SsPeerRemoved(S1, gone) ELSE S1
           pe == [p \in Peers |-> IF p \in gone THEN NoPeer ELSE peer[p]]
           S == [S2 EXCEPT !.peer = pe]
<1>1. /\ peer \in [Peers -> PeerState] /\ pman \in PmanRec
      /\ seeder \in SeederRec \cup {NoSeeder} /\ AvBody(peer, pman)
      /\ seeder \in SeederRec => MapsAgree(W)
  BY DEF AvInv
<1>2. W \in Worlds /\ W.peer = peer /\ W.pman = pman /\ W.seeder = seeder  BY AvInvWorld
<1>3. [W EXCEPT !.pman.cnt = cnt, !.pman.avail = av] = S1
  BY <1>1, <1>2 DEF Worlds, PmanRec
<1>4. Erase(W, gone) = [S2 EXCEPT !.peer = [p \in Peers |-> IF p \in gone THEN NoPeer ELSE @[p]]]
  <2> DEFINE c0 == DecBitSets(W, W.pman.cnt, gone)
             X1 == [W EXCEPT !.pman.cnt = c0, !.pman.avail = {c \in Chunks : c0[c] > 0}]
             X2 == IF W.seeder.on THEN SsPeerRemoved(X1, gone) ELSE X1
  <2>1. Erase(W, gone) =
          [X2 EXCEPT !.peer = [p \in Peers |-> IF p \in gone THEN NoPeer ELSE @[p]]]
    BY DEF Erase
  <2>2. c0 = cnt  BY <1>2
  <2> HIDE DEF c0, W
  <2>3. X1 = [W EXCEPT !.pman.cnt = cnt, !.pman.avail = av]  BY <2>2
  <2>4. X1 = S1  BY <1>3, <2>3
  <2> HIDE DEF X1, S1
  <2>5. X2 = S2  BY <1>2, <2>4
  <2> HIDE DEF X2, S2
  <2>6. QED  BY <2>1, <2>5
<1>5. pman.cnt \in [Chunks -> Nat]  BY <1>1 DEF PmanRec
<1>6. ASSUME NEW c \in Chunks
      PROVE  cnt[c] \in Nat /\ Cardinality(Having(peer, c) \ Owners(W, gone, c)) <= cnt[c]
  <2>1. IsFiniteSet(Having(peer, c))  BY HavingFacts
  <2>2. Owners(W, gone, c) \in SUBSET Having(peer, c)  BY <1>2 DEF Owners, Having
  <2>3. Cardinality(Having(peer, c)) <= pman.cnt[c] /\ pman.cnt[c] \in Nat
    BY <1>1, <1>5 DEF AvBody, Counted
  <2>4. cnt[c] = Lowered(pman.cnt[c], Cardinality(Owners(W, gone, c)))  BY DEF DecBitSets
  <2>5. QED  BY <2>1, <2>2, <2>3, <2>4, LoweredEnough
<1>7. cnt \in [Chunks -> Nat]
  <2>1. cnt = [c \in Chunks |-> cnt[c]]  BY DEF DecBitSets
  <2> HIDE DEF cnt
  <2>2. QED  BY <1>6, <2>1
<1>8. av \in SUBSET Chunks /\ av = {c \in Chunks : cnt[c] > 0}  OBVIOUS
<1> HIDE DEF W, cnt, av
<1>9. /\ pm \in PmanRec /\ pm.cnt = cnt /\ pm.avail = av
      /\ pm.started = pman.started /\ pm.paused = pman.paused /\ pm.changed = pman.changed
      /\ pm.wanted = pman.wanted
  BY <1>1, <1>7, <1>8 DEF PmanRec
<1> HIDE DEF pm
<1>10. S1 \in Worlds /\ S1.peer = peer /\ S1.pman = pm /\ S1.seeder = seeder
  BY <1>2, <1>9 DEF Worlds
<1> HIDE DEF S1
<1>11. seeder \in SeederRec => MapsAgree(S1)  BY <1>1, <1>2, <1>10 DEF MapsAgree
<1>12. /\ S2 \in Worlds /\ S2.peer = peer /\ S2.pman = pm
       /\ S2.seeder \in SeederRec => /\ MapsAgree(S2)
                                     /\ \A p \in gone : S2.seeder.active[p] = NumChunks
  <2>1. CASE seeder.on
    <3>1. seeder \in SeederRec  BY <1>1, <2>1, SeederOn
    <3>2. S2 = SsPeerRemoved(S1, gone)  BY <2>1
    <3> HIDE DEF S2
    <3>3. S2 \in Seeding(S1) /\ \A p \in gone : S2.seeder.active[p] = NumChunks
      BY <1>10, <1>11, <3>1, <3>2, SsPeerRemovedKeeps
    <3>4. QED  BY <1>10, <3>3, SeedingFacts
  <2>2. CASE ~seeder.on
    <3>1. S2 = S1 /\ seeder \notin SeederRec  BY <1>1, <2>2, SeederOn
    <3> HIDE DEF S2
    <3>2. QED  BY <1>10, <3>1
  <2>3. QED  BY <2>1, <2>2
<1> HIDE DEF S2
<1>13. Erase(W, gone) = S  BY <1>4, <1>12 DEF Worlds
<1>14. NoPeer \in PeerState /\ NoPeer.st = "none" /\ NoPeer.pieces = {}
  BY DEF NoPeer, PeerState
<1>15. /\ pe \in [Peers -> PeerState] /\ \A p \in gone : pe[p] = NoPeer
       /\ \A p \in Peers \ gone : pe[p] = peer[p]
  BY <1>1, <1>14
<1> HIDE DEF pe
<1>16. S \in Worlds /\ S.peer = pe /\ S.pman = pm /\ S.seeder = S2.seeder
  BY <1>12, <1>15 DEF Worlds
<1> HIDE DEF S
<1>17. Counted(pe, pm)
  <2>1. ASSUME NEW c \in Chunks PROVE Cardinality(Having(pe, c)) <= pm.cnt[c]
    <3>1. Having(pe, c) = Having(peer, c) \ Owners(W, gone, c)
      BY <1>2, <1>14, <1>15 DEF Having, Owners
    <3>2. QED  BY <1>6, <1>9, <3>1
  <2>2. QED  BY <1>8, <1>9, <2>1 DEF Counted
<1>18. MapQuiet(pe, pm)  BY <1>1, <1>9, <1>14, <1>15 DEF AvBody, MapQuiet
<1>19. Interested(pe, pm)
  <2>1. \A p \in Peers : pe[p].st = "live" => pe[p] = peer[p]  BY <1>14, <1>15
  <2>2. QED  BY <1>1, <1>9, <2>1 DEF AvBody, Interested
<1>20. S.seeder \in SeederRec => MapsAgree(S)
  BY <1>12, <1>15, <1>16 DEF MapsAgree
<1>21. QED  BY <1>13, <1>16, <1>17, <1>18, <1>19, <1>20 DEF AvBody, W

\* PeerManager::update: the killed peers are erased, then the interest of the
\* others is brought up to date.
LEMMA AvUpdateKeeps ==
  ASSUME AvInv, AvUpdate
  PROVE  AvInv'
<1>1. PICK stalled \in SUBSET {p \in Peers : Live(p)} :
        \E gone \in {stalled \cup {p \in Peers : peer[p].st = "killed"}} :
        \E S \in {IF gone = {} THEN AvWorld ELSE Erase(AvWorld, gone)} :
           AvBecome([S EXCEPT !.peer = [p \in Peers |-> UpdatePeer(S, p)], !.pman.changed = FALSE])
  BY DEF AvUpdate
<1> DEFINE gone == stalled \cup {p \in Peers : peer[p].st = "killed"}
           S == IF gone = {} THEN AvWorld ELSE Erase(AvWorld, gone)
           pe == [p \in Peers |-> UpdatePeer(S, p)]
           pm == [S.pman EXCEPT !.changed = FALSE]
           U == [S EXCEPT !.peer = pe, !.pman = pm]
<1>2. AvBecome([S EXCEPT !.peer = [p \in Peers |-> UpdatePeer(S, p)], !.pman.changed = FALSE])
  BY <1>1
<1>3. gone \in SUBSET Peers  OBVIOUS
<1>4. S \in Worlds /\ AvBody(S.peer, S.pman) /\ (S.seeder \in SeederRec => MapsAgree(S))
  <2>1. CASE gone = {}
    <3>1. S = AvWorld  BY <2>1
    <3>2. /\ AvWorld \in Worlds /\ AvWorld.peer = peer /\ AvWorld.pman = pman
          /\ AvWorld.seeder = seeder
      BY AvInvWorld
    <3> HIDE DEF S
    <3>3. QED  BY <3>1, <3>2 DEF AvInv
  <2>2. CASE gone # {}
    <3>1. S = Erase(AvWorld, gone)  BY <2>2
    <3> HIDE DEF S, gone
    <3>2. QED  BY <1>3, <3>1, EraseKeeps
  <2>3. QED  BY <2>1, <2>2
<1> HIDE DEF S
<1>5. /\ S.peer \in [Peers -> PeerState] /\ S.pman \in PmanRec
      /\ S.seeder \in SeederRec \cup {NoSeeder}
  BY <1>4 DEF Worlds
<1>6. AvBecome(U)  BY <1>2, <1>4 DEF Worlds
<1>7. ASSUME NEW p \in Peers
      PROVE  /\ UpdatePeer(S, p) \in PeerState
             /\ UpdatePeer(S, p).st = S.peer[p].st /\ UpdatePeer(S, p).pieces = S.peer[p].pieces
             /\ S.peer[p].st = "live" /\ ~S.pman.paused /\ S.pman.started
                  /\ S.peer[p].pieces \cap S.pman.wanted # {} => UpdatePeer(S, p).am
  <2> DEFINE w == Wants(S, p)
  <2>1. w \in BOOLEAN /\ (w <=> S.peer[p].pieces \cap S.pman.wanted # {})  BY DEF Wants
  <2>2. UpdatePeer(S, p) = IF S.peer[p].st = "live" /\ S.pman.changed
                           THEN [S.peer[p] EXCEPT !.am = w] ELSE S.peer[p]
    BY DEF UpdatePeer
  <2>3. S.peer[p] \in PeerState /\ S.pman.changed \in BOOLEAN  BY <1>5 DEF PmanRec
  <2> HIDE DEF w
  <2>4. CASE S.peer[p].st = "live" /\ S.pman.changed
    <3>1. UpdatePeer(S, p) = [S.peer[p] EXCEPT !.am = w]  BY <2>2, <2>4
    <3>2. /\ UpdatePeer(S, p) \in PeerState /\ UpdatePeer(S, p).am = w
          /\ UpdatePeer(S, p).st = S.peer[p].st /\ UpdatePeer(S, p).pieces = S.peer[p].pieces
      BY <2>1, <2>3, <3>1 DEF PeerState
    <3>3. QED  BY <2>1, <3>2
  <2>5. CASE ~(S.peer[p].st = "live" /\ S.pman.changed)
    <3>1. UpdatePeer(S, p) = S.peer[p]  BY <2>2, <2>5
    <3>2. S.peer[p].st = "live" /\ ~S.pman.paused /\ S.pman.started
             /\ S.peer[p].pieces \cap S.pman.wanted # {} => S.peer[p].am
      BY <1>4, <2>5 DEF AvBody, Interested
    <3>3. QED  BY <2>3, <3>1, <3>2
  <2>6. QED  BY <2>4, <2>5
<1>8. pe \in [Peers -> PeerState] /\ \A p \in Peers : pe[p] = UpdatePeer(S, p)  BY <1>7
<1> HIDE DEF pe
<1>9. /\ pm \in PmanRec /\ pm.cnt = S.pman.cnt /\ pm.avail = S.pman.avail
      /\ pm.started = S.pman.started /\ pm.paused = S.pman.paused /\ pm.wanted = S.pman.wanted
  BY <1>5 DEF PmanRec
<1> HIDE DEF pm
<1>10. U \in Worlds /\ U.peer = pe /\ U.pman = pm /\ U.seeder = S.seeder
  BY <1>4, <1>8, <1>9 DEF Worlds
<1> HIDE DEF U
<1>11. Counted(pe, pm)
  <2>1. \A c \in Chunks : Having(pe, c) = Having(S.peer, c)  BY <1>7, <1>8 DEF Having
  <2>2. QED  BY <1>4, <1>9, <2>1 DEF AvBody, Counted
<1>12. MapQuiet(pe, pm)  BY <1>4, <1>7, <1>8, <1>9 DEF AvBody, MapQuiet
<1>13. Interested(pe, pm)  BY <1>7, <1>8, <1>9 DEF Interested
<1>14. U.seeder \in SeederRec => MapsAgree(U)
  BY <1>4, <1>7, <1>8, <1>10 DEF MapsAgree
<1>15. QED  BY <1>6, <1>10, <1>11, <1>12, <1>13, <1>14, AvBecomes DEF AvBody

\* unpause says again that we are interested.
LEMMA UnpauseKeeps ==
  ASSUME NEW S \in Worlds, Counted(S.peer, S.pman), MapQuiet(S.peer, S.pman),
         S.pman.paused \/ Interested(S.peer, S.pman),
         S.seeder \in SeederRec => MapsAgree(S), AvBecome(Unpause(S))
  PROVE  AvInv'
<1>1. S.peer \in [Peers -> PeerState] /\ S.pman \in PmanRec  BY DEF Worlds
<1>2. CASE ~S.pman.paused
  <2>1. Unpause(S) = S  BY <1>2 DEF Unpause
  <2>2. QED  BY <1>2, <2>1, AvBecomes DEF AvBody
<1>3. CASE S.pman.paused
  <2> DEFINE r(p) == [S.peer[p] EXCEPT !.am = @ \/ Wants(S, p)]
             pe == [p \in Peers |-> r(p)]
             pm == [S.pman EXCEPT !.paused = FALSE]
             U == [S EXCEPT !.peer = pe, !.pman = pm]
  <2>1. Unpause(S) = U  BY <1>3 DEF Unpause, Worlds
  <2>2. ASSUME NEW p \in Peers
        PROVE  /\ r(p) \in PeerState /\ r(p).st = S.peer[p].st /\ r(p).pieces = S.peer[p].pieces
               /\ S.peer[p].pieces \cap S.pman.wanted # {} => r(p).am
    <3> DEFINE a == S.peer[p].am \/ Wants(S, p)
    <3>1. S.peer[p] \in PeerState  BY <1>1
    <3>2. r(p) = [S.peer[p] EXCEPT !.am = a]  OBVIOUS
    <3>3. a \in BOOLEAN /\ (S.peer[p].pieces \cap S.pman.wanted # {} => a)
      BY <3>1 DEF PeerState, Wants
    <3> HIDE DEF a
    <3>4. /\ r(p) \in PeerState /\ r(p).am = a
          /\ r(p).st = S.peer[p].st /\ r(p).pieces = S.peer[p].pieces
      BY <3>1, <3>2, <3>3 DEF PeerState
    <3>5. QED  BY <3>3, <3>4
  <2>3. pe \in [Peers -> PeerState] /\ \A p \in Peers : pe[p] = r(p)  BY <2>2
  <2> HIDE DEF pe, r
  <2>4. /\ pm \in PmanRec /\ pm.cnt = S.pman.cnt /\ pm.avail = S.pman.avail
        /\ pm.started = S.pman.started /\ pm.wanted = S.pman.wanted
    BY <1>1 DEF PmanRec
  <2> HIDE DEF pm
  <2>5. U \in Worlds /\ U.peer = pe /\ U.pman = pm /\ U.seeder = S.seeder
    BY <2>3, <2>4 DEF Worlds
  <2> HIDE DEF U
  <2>6. Counted(pe, pm)
    <3>1. \A c \in Chunks : Having(pe, c) = Having(S.peer, c)  BY <2>2, <2>3 DEF Having
    <3>2. QED  BY <2>4, <3>1 DEF Counted
  <2>7. MapQuiet(pe, pm)  BY <2>2, <2>3, <2>4 DEF MapQuiet
  <2>8. Interested(pe, pm)  BY <2>2, <2>3, <2>4 DEF Interested
  <2>9. U.seeder \in SeederRec => MapsAgree(U)  BY <2>2, <2>3, <2>5 DEF MapsAgree
  <2>10. QED  BY <2>1, <2>5, <2>6, <2>7, <2>8, <2>9, AvBecomes DEF AvBody
<1>4. QED  BY <1>1, <1>2, <1>3 DEF PmanRec

\* A new super seeder has given nothing away.
LEMMA NewSeederFresh ==
  ASSUME NEW U, U.seeder = NewSeeder
  PROVE  NewSeeder \in SeederRec /\ MapsAgree(U)
<1>1. NumChunks \notin Chunks  BY AvAssumption DEF Chunks
<1>2. NewSeeder \in SeederRec  BY DEF NewSeeder, SeederRec
<1>3. NewSeeder.chunks = {} /\ \A p \in Peers : NewSeeder.active[p] = NumChunks
  BY DEF NewSeeder
<1>4. QED  BY <1>1, <1>2, <1>3 DEF MapsAgree

LEMMA AvStartKeeps ==
  ASSUME AvInv, NEW superseed \in BOOLEAN, AvStart(superseed)
  PROVE  AvInv'
<1> DEFINE sd == IF superseed /\ ~seeder.on THEN NewSeeder ELSE seeder
           pm == [pman EXCEPT !.started = TRUE]
           S == [AvWorld EXCEPT !.pman = pm, !.seeder = sd]
<1>1. /\ peer \in [Peers -> PeerState] /\ pman \in PmanRec
      /\ seeder \in SeederRec \cup {NoSeeder} /\ AvBody(peer, pman)
      /\ seeder \in SeederRec => MapsAgree(AvWorld)
  BY DEF AvInv
<1>2. /\ AvWorld \in Worlds /\ AvWorld.peer = peer /\ AvWorld.pman = pman
      /\ AvWorld.seeder = seeder
  BY AvInvWorld
<1>3. [AvWorld EXCEPT !.pman.started = TRUE,
                      !.seeder = IF superseed /\ ~@.on THEN NewSeeder ELSE @] = S
  BY <1>1 DEF AvWorld, PmanRec
<1>4. AvBecome(Unpause(S)) /\ ~pman.started  BY <1>3 DEF AvStart
<1>5. /\ sd \in SeederRec \cup {NoSeeder} /\ (sd = NewSeeder \/ sd = seeder)
  BY <1>1, NewSeederFresh DEF NewSeeder, SeederRec
<1> HIDE DEF sd
<1>6. /\ pm \in PmanRec /\ pm.cnt = pman.cnt /\ pm.avail = pman.avail
  BY <1>1 DEF PmanRec
<1> HIDE DEF pm
<1>7. S \in Worlds /\ S.peer = peer /\ S.pman = pm /\ S.seeder = sd
  BY <1>1, <1>2, <1>5, <1>6 DEF Worlds
<1> HIDE DEF S
<1>8. \A p \in Peers : peer[p].st = "none" /\ peer[p].pieces = {}
  BY <1>1, <1>4 DEF AvBody, MapQuiet
<1>9. Counted(S.peer, S.pman)  BY <1>1, <1>6, <1>7 DEF AvBody, Counted
<1>10. MapQuiet(S.peer, S.pman)  BY <1>7, <1>8 DEF MapQuiet
<1>11. Interested(S.peer, S.pman)  BY <1>7, <1>8 DEF Interested
<1>12. S.seeder \in SeederRec => MapsAgree(S)
  <2>1. CASE sd = NewSeeder  BY <1>7, <2>1, NewSeederFresh
  <2>2. CASE sd = seeder  BY <1>1, <1>2, <1>7, <2>2 DEF MapsAgree
  <2>3. QED  BY <1>5, <2>1, <2>2
<1>13. QED  BY <1>4, <1>7, <1>9, <1>10, <1>11, <1>12, UnpauseKeeps

LEMMA AvUnpauseKeeps ==
  ASSUME AvInv, AvUnpause
  PROVE  AvInv'
<1>1. /\ AvWorld \in Worlds /\ AvWorld.peer = peer /\ AvWorld.pman = pman
      /\ AvWorld.seeder = seeder
  BY AvInvWorld
<1>2. QED  BY <1>1, UnpauseKeeps DEF AvInv, AvBody, AvUnpause

\* The steps that take the variables one by one.
LEMMA AvSmallStepsKeep ==
  ASSUME AvInv, \/ \E p \in Peers : KillAv(p)
                \/ AvPause \/ AvStop
                \/ \E w \in WantedSets : SetWantedChunks(w)
                \/ \E on \in BOOLEAN : SetSuperSeeding(on)
  PROVE  AvInv'
<1>1. /\ peer \in [Peers -> PeerState] /\ pman \in PmanRec
      /\ seeder \in SeederRec \cup {NoSeeder} /\ AvBody(peer, pman)
      /\ seeder \in SeederRec => MapsAgree(AvWorld)
  BY DEF AvInv
<1>2. AvWorld.peer = peer /\ AvWorld.seeder = seeder  BY DEF AvWorld
<1>3. AvWorld'.peer = peer' /\ AvWorld'.seeder = seeder'  BY DEF AvWorld
<1>4. ASSUME NEW p \in Peers, KillAv(p) PROVE AvInv'
  <2> DEFINE r == [peer[p] EXCEPT !.st = "killed"]
  <2>1. /\ peer' = [peer EXCEPT ![p] = r] /\ pman' = pman /\ seeder' = seeder
        /\ peer[p].st = "live" /\ peer[p] \in PeerState
    BY <1>1, <1>4 DEF KillAv, Live
  <2>2. r \in PeerState /\ r.st = "killed" /\ r.pieces = peer[p].pieces  BY <2>1 DEF PeerState
  <2> HIDE DEF r
  <2>3. /\ peer' \in [Peers -> PeerState] /\ peer'[p] = r
        /\ \A q \in Peers : q # p => peer'[q] = peer[q]
    BY <1>1, <2>1, <2>2
  <2>4. \A c \in Chunks : Having(peer', c) = Having(peer, c)  BY <2>2, <2>3 DEF Having
  <2>5. Counted(peer', pman')  BY <1>1, <2>1, <2>4 DEF AvBody, Counted
  <2>6. MapQuiet(peer', pman')  BY <1>1, <2>1, <2>2, <2>3 DEF AvBody, MapQuiet
  <2>7. Interested(peer', pman')  BY <1>1, <2>1, <2>2, <2>3 DEF AvBody, Interested
  <2>8. seeder' \in SeederRec => MapsAgree(AvWorld')
    BY <1>1, <1>2, <1>3, <2>1, <2>2, <2>3 DEF MapsAgree
  <2>9. QED  BY <1>1, <2>1, <2>3, <2>5, <2>6, <2>7, <2>8 DEF AvInv, AvBody
<1>5. ASSUME AvPause PROVE AvInv'
  <2> DEFINE r(p) == [peer[p] EXCEPT !.am = FALSE]
  <2>1. /\ peer' = [p \in Peers |-> r(p)] /\ pman' = [pman EXCEPT !.paused = TRUE]
        /\ seeder' = seeder
    BY <1>5 DEF AvPause
  <2>2. ASSUME NEW p \in Peers
        PROVE  r(p) \in PeerState /\ r(p).st = peer[p].st /\ r(p).pieces = peer[p].pieces
    <3>1. peer[p] \in PeerState  BY <1>1
    <3>2. QED  BY <3>1 DEF PeerState
  <2> HIDE DEF r
  <2>3. peer' \in [Peers -> PeerState] /\ \A p \in Peers : peer'[p] = r(p)  BY <2>1, <2>2
  <2>4. /\ pman' \in PmanRec /\ pman'.cnt = pman.cnt /\ pman'.avail = pman.avail
        /\ pman'.started = pman.started /\ pman'.paused = TRUE
    BY <1>1, <2>1 DEF PmanRec
  <2>5. \A c \in Chunks : Having(peer', c) = Having(peer, c)  BY <2>2, <2>3 DEF Having
  <2>6. Counted(peer', pman')  BY <1>1, <2>4, <2>5 DEF AvBody, Counted
  <2>7. MapQuiet(peer', pman')  BY <1>1, <2>2, <2>3, <2>4 DEF AvBody, MapQuiet
  <2>8. Interested(peer', pman')  BY <2>4 DEF Interested
  <2>9. seeder' \in SeederRec => MapsAgree(AvWorld')
    BY <1>1, <1>2, <1>3, <2>1, <2>2, <2>3 DEF MapsAgree
  <2>10. QED  BY <1>1, <2>1, <2>3, <2>4, <2>6, <2>7, <2>8, <2>9 DEF AvInv, AvBody
<1>6. ASSUME AvStop PROVE AvInv'
  <2>1. /\ peer' = [p \in Peers |-> NoPeer] /\ seeder' = NoSeeder
        /\ pman' = [pman EXCEPT !.started = FALSE, !.avail = {}, !.cnt = [c \in Chunks |-> 0]]
    BY <1>6 DEF AvStop
  <2>2. NoPeer \in PeerState /\ NoPeer.st = "none" /\ NoPeer.pieces = {}
    BY DEF NoPeer, PeerState
  <2>3. peer' \in [Peers -> PeerState] /\ \A p \in Peers : peer'[p] = NoPeer  BY <2>1, <2>2
  <2>4. /\ pman' \in PmanRec /\ pman'.cnt = [c \in Chunks |-> 0] /\ pman'.avail = {}
        /\ pman'.started = FALSE
    BY <1>1, <2>1 DEF PmanRec
  <2>5. ASSUME NEW c \in Chunks PROVE Cardinality(Having(peer', c)) = 0
    <3>1. Having(peer', c) = {}  BY <2>2, <2>3 DEF Having
    <3>2. QED  BY <3>1, FS_EmptySet
  <2>6. Counted(peer', pman')
    <3>1. \A c \in Chunks : pman'.cnt[c] = 0  BY <2>4
    <3>2. {c \in Chunks : pman'.cnt[c] > 0} = {}  BY <3>1
    <3>3. QED  BY <2>4, <2>5, <3>1, <3>2 DEF Counted
  <2>7. MapQuiet(peer', pman') /\ Interested(peer', pman')
    BY <2>2, <2>3, <2>4 DEF MapQuiet, Interested
  <2>8. seeder' \notin SeederRec  BY <2>1, SeederOn DEF NoSeeder
  <2>9. QED  BY <2>1, <2>3, <2>4, <2>6, <2>7, <2>8 DEF AvInv, AvBody
<1>7. ASSUME NEW w \in WantedSets, SetWantedChunks(w) PROVE AvInv'
  <2>1. pman' = [pman EXCEPT !.wanted = w, !.changed = TRUE] /\ peer' = peer /\ seeder' = seeder
    BY <1>7 DEF SetWantedChunks
  <2>2. w \in SUBSET Chunks  BY AvAssumption DEF Chunks
  <2>3. /\ pman' \in PmanRec /\ pman'.cnt = pman.cnt /\ pman'.avail = pman.avail
        /\ pman'.started = pman.started /\ pman'.changed = TRUE
    BY <1>1, <2>1, <2>2 DEF PmanRec
  <2>4. Counted(peer', pman')  BY <1>1, <2>1, <2>3 DEF AvBody, Counted
  <2>5. MapQuiet(peer', pman')  BY <1>1, <2>1, <2>3 DEF AvBody, MapQuiet
  <2>6. Interested(peer', pman')  BY <2>3 DEF Interested
  <2>7. seeder' \in SeederRec => MapsAgree(AvWorld')
    BY <1>1, <1>2, <1>3, <2>1 DEF MapsAgree
  <2>8. QED  BY <1>1, <2>1, <2>3, <2>4, <2>5, <2>6, <2>7 DEF AvInv, AvBody
<1>8. ASSUME NEW on \in BOOLEAN, SetSuperSeeding(on) PROVE AvInv'
  <2> DEFINE r(p) == IF InMap(p) THEN [peer[p] EXCEPT !.st = "killed"] ELSE peer[p]
  <2>1. /\ peer' = [p \in Peers |-> r(p)] /\ pman' = pman
        /\ seeder' = IF on THEN NewSeeder ELSE NoSeeder
    BY <1>8 DEF SetSuperSeeding
  <2>2. ASSUME NEW p \in Peers
        PROVE  /\ r(p) \in PeerState /\ r(p).pieces = peer[p].pieces
               /\ r(p).st = "none" <=> peer[p].st = "none"
               /\ r(p).st # "none" => r(p).st = "killed"
    <3>1. peer[p] \in PeerState  BY <1>1
    <3>2. QED  BY <3>1 DEF PeerState, InMap
  <2> HIDE DEF r
  <2>3. peer' \in [Peers -> PeerState] /\ \A p \in Peers : peer'[p] = r(p)  BY <2>1, <2>2
  <2>4. \A c \in Chunks : Having(peer', c) = Having(peer, c)  BY <2>2, <2>3 DEF Having
  <2>5. Counted(peer', pman')  BY <1>1, <2>1, <2>4 DEF AvBody, Counted
  <2>6. MapQuiet(peer', pman')  BY <1>1, <2>1, <2>2, <2>3 DEF AvBody, MapQuiet
  <2>7. Interested(peer', pman')  BY <2>2, <2>3 DEF Interested
  <2>8. seeder' \in SeederRec \cup {NoSeeder} /\ (seeder' \in SeederRec => MapsAgree(AvWorld'))
    <3>1. CASE on
      <4>1. seeder' = NewSeeder  BY <2>1, <3>1
      <4>2. QED  BY <1>3, <4>1, NewSeederFresh
    <3>2. CASE ~on
      <4>1. seeder' = NoSeeder  BY <2>1, <3>2
      <4>2. NoSeeder \notin SeederRec  BY SeederOn DEF NoSeeder
      <4>3. QED  BY <4>1, <4>2
    <3>3. QED  BY <3>1, <3>2
  <2>9. QED  BY <1>1, <2>1, <2>3, <2>5, <2>6, <2>7, <2>8 DEF AvInv, AvBody
<1>9. QED  BY <1>4, <1>5, <1>6, <1>7, <1>8

\* The inductive invariant of the peers' chunks: each step of AvNext keeps the
\* counter above the owners, the interest declared and the maps of the super
\* seeder in agreement.
THEOREM AvInvariant == AvSpec => []AvInv
<1>1. AvInv /\ [AvNext]_avVars => AvInv'
  <2> SUFFICES ASSUME AvInv, [AvNext]_avVars PROVE AvInv'  OBVIOUS
  <2>1. ASSUME NEW p \in Peers, AddPeer(p) PROVE AvInv'  BY <2>1, AddPeerKeeps
  <2>2. ASSUME NEW p \in Peers, NEW c \in Chunks, HandleHave(p, c) PROVE AvInv'
    BY <2>2, HandleHaveKeeps
  <2>3. ASSUME NEW p \in Peers, NEW bs \in SUBSET Chunks, HandleBitField(p, bs) PROVE AvInv'
    BY <2>3, HandleBitFieldKeeps
  <2>4. CASE AvUpdate  BY <2>4, AvUpdateKeeps
  <2>5. CASE AvUnpause  BY <2>5, AvUnpauseKeeps
  <2>6. ASSUME NEW on \in BOOLEAN, AvStart(on) PROVE AvInv'  BY <2>6, AvStartKeeps
  <2>7. CASE \/ \E p \in Peers : KillAv(p)
             \/ AvPause \/ AvStop
             \/ \E w \in WantedSets : SetWantedChunks(w)
             \/ \E on \in BOOLEAN : SetSuperSeeding(on)
    BY <2>7, AvSmallStepsKeep
  <2>8. CASE UNCHANGED avVars
    <3>1. peer' = peer /\ pman' = pman /\ seeder' = seeder  BY <2>8 DEF avVars
    <3>2. AvWorld' = AvWorld  BY <3>1 DEF AvWorld
    <3>3. MapsAgree(AvWorld) => MapsAgree(AvWorld')  BY <3>2
    <3>4. QED  BY <3>1, <3>3 DEF AvInv
  <2>9. QED  BY <2>1, <2>2, <2>3, <2>4, <2>5, <2>6, <2>7, <2>8 DEF AvNext
<1>2. QED  BY AvInitInv, <1>1, PTL DEF AvSpec

\* Whatever haves and bitfields the peers send and whenever they are killed, the
\* counter never counts fewer owners of a chunk than there are, the available
\* chunks are those it counts, and the maps of the super seeder agree and name
\* only peers of the map (ChunkCounter, PeerManager, SuperSeeder).
THEOREM ChunksStayAvailable == AvSpec => []AvailableExact
<1>1. AvInv => AvailableExact
  <2> SUFFICES ASSUME AvInv PROVE AvailableExact  OBVIOUS
  <2>1. /\ peer \in [Peers -> PeerState] /\ pman \in PmanRec
        /\ seeder \in SeederRec \cup {NoSeeder} /\ AvBody(peer, pman)
        /\ seeder \in SeederRec => MapsAgree(AvWorld)
    BY DEF AvInv
  <2>2. seeder.on => seeder \in SeederRec  BY <2>1, SeederOn
  <2>3. AvTypeOK  BY <2>1, <2>2 DEF AvTypeOK, PmanRec, SeederRec
  <2>4. ASSUME NEW c \in Chunks
        PROVE  pman.cnt[c] >= Cardinality({p \in Peers : InMap(p) /\ c \in peer[p].pieces})
    <3>1. {p \in Peers : InMap(p) /\ c \in peer[p].pieces} = Having(peer, c)
      BY <2>1 DEF Having, InMap, AvBody, MapQuiet
    <3>2. Cardinality(Having(peer, c)) <= pman.cnt[c]  BY <2>1 DEF AvBody, Counted
    <3>3. Cardinality(Having(peer, c)) \in Nat /\ pman.cnt[c] \in Nat
      BY <2>1, HavingFacts DEF PmanRec
    <3>4. QED  BY <3>1, <3>2, <3>3
  <2>5. pman.avail = {c \in Chunks : pman.cnt[c] > 0}  BY <2>1 DEF AvBody, Counted
  <2>6. SuperSeedConsistent
    <3>1. AvWorld.peer = peer /\ AvWorld.seeder = seeder  BY DEF AvWorld
    <3>2. QED  BY <2>1, <2>2, <3>1 DEF SuperSeedConsistent, MapsAgree, InMap
  <2>7. QED  BY <2>3, <2>4, <2>5, <2>6 DEF AvailableExact
<1>2. QED  BY AvInvariant, <1>1, PTL

\* A started manager that is not paused and has passed on the wanted chunks has
\* told every live peer with a wanted chunk that we are interested.
THEOREM InterestIsKept == AvSpec => []InterestKept
<1>1. AvInv => InterestKept
  BY DEF AvInv, AvBody, Interested, InterestKept, Live
<1>2. QED  BY AvInvariant, <1>1, PTL

-----------------------------------------------------------------------------
(* The connections of the torrents. Every operation is a function from one *)
(* record of the whole state to another. Off(S, t, k) says by how many     *)
(* tokens torrent t is out of balance in the middle of one; the lemmas say *)
(* by how much each step of an operation shifts it, and an operation ends  *)
(* where it is 0 again.                                                    *)

LimRec == [total : Nat, totals : [Torrents -> Nat], gmax : GlobalLimits, tmax : TorrentLimits]
HalfRec == [pending : [Torrents -> Seq(Conns)], groups : SUBSET Torrents,
            active : SUBSET Conns, current : Torrents \cup {0}]
PcRec == [tor : [Torrents -> Manager], conn : [Conns -> Conn \cup {NoConn}],
          half : HalfRec, limit : LimRec]

\* What is held: by the connectors of a torrent and its living peers, and by all.
Tokens(S, t) == Cardinality(ConnsOf(S, t)) + Cardinality(Alive(S.tor[t].peers))
Living(S) == {x \in Torrents \X Peer : x[2] \in Alive(S.tor[x[1]].peers)}
Connecters(S) == {c \in Conns : S.conn[c] # NoConn}
AllTokens(S) == Cardinality(Connecters(S)) + Cardinality(Living(S))

\* Torrent t has k tokens more than it needs.
Off(S, t, k) ==
  /\ \A u \in Torrents : S.limit.totals[u] = Tokens(S, u) + IF u = t THEN k ELSE 0
  /\ S.limit.total = AllTokens(S) + k

\* A slot in use belongs to a group.
Grouped(S) == S.half.active # {} => S.half.groups # {}

PcInv == /\ World \in PcRec /\ Grouped(World)
         /\ \A t \in Torrents : Off(World, t, 0)
         /\ limit.total = AllTokens(World)

LEMMA PcNumbers ==
  /\ Torrents \subseteq Nat /\ 0 \notin Torrents /\ IsFiniteSet(Torrents)
  /\ Conns \subseteq Nat /\ IsFiniteSet(Conns)
  /\ Addrs \subseteq Nat /\ IsFiniteSet(Addrs)
  /\ Cardinality(Conns) \in Nat /\ Cardinality(Torrents) \in Nat
  /\ Cardinality(Addrs) \in Nat /\ MaxTurns \in Nat
<1>1. /\ Cardinality(Conns) \in Nat /\ Cardinality(Torrents) \in Nat /\ Cardinality(Addrs) \in Nat
  BY PcAssumption, FS_CardinalityType
<1>2. MaxTurns \in Nat
  <2>1. \A x, y \in Nat : (x + 2) * y \in Nat  OBVIOUS
  <2>2. QED  BY <1>1, <2>1 DEF MaxTurns
<1>3. QED  BY <1>1, <1>2, PcAssumption

\* The least of some numbers is one of them.
LEMMA MinIn ==
  ASSUME NEW I \in SUBSET Nat, I # {}
  PROVE  Min(I) \in I
<1>1. \E n \in I : \A m \in I : n <= m  BY LeastNat
<1>2. QED  BY <1>1, Zenon DEF Min

LEMMA PcFields ==
  ASSUME NEW S \in PcRec
  PROVE  /\ S.tor \in [Torrents -> Manager] /\ S.conn \in [Conns -> Conn \cup {NoConn}]
         /\ S.half \in HalfRec /\ S.limit \in LimRec
BY DEF PcRec

LEMMA PcChanges ==
  ASSUME NEW S \in PcRec
  PROVE  /\ \A x \in [Torrents -> Manager] : \A T : T = [S EXCEPT !.tor = x] =>
              T \in PcRec /\ T.tor = x /\ T.conn = S.conn /\ T.half = S.half /\ T.limit = S.limit
         /\ \A x \in [Conns -> Conn \cup {NoConn}] : \A T : T = [S EXCEPT !.conn = x] =>
              T \in PcRec /\ T.tor = S.tor /\ T.conn = x /\ T.half = S.half /\ T.limit = S.limit
         /\ \A x \in HalfRec : \A T : T = [S EXCEPT !.half = x] =>
              T \in PcRec /\ T.tor = S.tor /\ T.conn = S.conn /\ T.half = x /\ T.limit = S.limit
         /\ \A x \in LimRec : \A T : T = [S EXCEPT !.limit = x] =>
              T \in PcRec /\ T.tor = S.tor /\ T.conn = S.conn /\ T.half = S.half /\ T.limit = x
BY DEF PcRec

LEMMA PcConnFacts ==
  ASSUME NEW c \in Conn \cup {NoConn}
  PROVE  /\ c = NoConn <=> c.t = 0
         /\ c # NoConn => c \in Conn /\ c.t \in Torrents
         /\ \A m \in Methods \cup {"none"} : \A d : d = [c EXCEPT !.method = m] =>
               d \in Conn \cup {NoConn} /\ d.t = c.t
<1>1. NoConn.t = 0 /\ DOMAIN NoConn = {"t"} /\ NoConn = [x \in {"t"} |-> 0]  BY DEF NoConn
<1>2. \A d \in Conn : d.t \in Torrents  BY DEF Conn
<1>3. CASE c = NoConn
  <2>1. \A m, d : d = [c EXCEPT !.method = m] => d = c  BY <1>1, <1>3
  <2>2. QED  BY <1>1, <1>3, <2>1
<1>4. CASE c \in Conn
  <2>1. c.t \in Torrents /\ c.t # 0  BY <1>2, <1>4, PcNumbers
  <2>2. \A m \in Methods \cup {"none"} : \A d : d = [c EXCEPT !.method = m] => d \in Conn /\ d.t = c.t
    BY <1>4 DEF Conn
  <2>3. QED  BY <1>1, <1>4, <2>1, <2>2
<1>5. QED  BY <1>3, <1>4

LEMMA MethodFacts ==
  /\ FirstMethod \in Methods
  /\ \A tried, ok : MethodsLeft(tried, ok) \in Seq(Methods)
<1>1. FirstMethod \in Methods
  <2>1. FirstMethod \in {"utpEnc", "tcpEnc", "utpPlain", "tcpPlain"}
    <3>1. Encryption \in BOOLEAN /\ UtpOn \in BOOLEAN /\ UtpFirst \in BOOLEAN /\ OnlyUtp \in BOOLEAN
      BY PcAssumption
    <3>2. CASE Encryption  BY <3>1, <3>2 DEF FirstMethod
    <3>3. CASE ~Encryption  BY <3>1, <3>3 DEF FirstMethod
    <3>4. QED  BY <3>2, <3>3
  <2>2. QED  BY <2>1 DEF Methods
<1>2. MethodOrder \in Seq(Methods)
  <2>1. \A a, b, c, d \in Methods : <<a, b, c, d>> \in Seq(Methods)  OBVIOUS
  <2>2. "utpEnc" \in Methods /\ "utpPlain" \in Methods /\ "tcpEnc" \in Methods /\ "tcpPlain" \in Methods
    BY DEF Methods
  <2>3. QED  BY <2>1, <2>2 DEF MethodOrder
<1>3. ASSUME NEW tried, NEW ok PROVE MethodsLeft(tried, ok) \in Seq(Methods)
  <2> DEFINE K == {m \in Methods \ tried : MethodAllowed(m, ok)}
  <2>1. MethodsLeft(tried, ok) = Only(MethodOrder, K)  BY DEF MethodsLeft
  <2> HIDE DEF K
  <2>2. QED  BY <1>2, <2>1, OnlyType
<1>4. QED  BY <1>1, <1>3

\* A step of the ResourceManager: slots and methods change, nothing else.
Serves(S, T) ==
  /\ T \in PcRec /\ T.tor = S.tor /\ T.limit = S.limit
  /\ T.half.groups = S.half.groups
  /\ \A c \in Conns : T.conn[c].t = S.conn[c].t

LEMMA ServesTwice ==
  ASSUME NEW S, NEW T, NEW U, Serves(S, T), Serves(T, U)
  PROVE  Serves(S, U)
BY DEF Serves

LEMMA ActivateServes ==
  ASSUME NEW S \in PcRec, NEW g \in Torrents, S.half.pending[g] # <<>>
  PROVE  Serves(S, Activate(S, g))
<1> DEFINE c == Head(S.half.pending[g])
           m == IF S.tor[g].started THEN FirstMethod ELSE S.conn[c].method
           h == [S.half EXCEPT !.pending[g] = Tail(@), !.active = @ \cup {c}]
           d == [S.conn[c] EXCEPT !.method = m]
           f == [S.conn EXCEPT ![c] = d]
           T == [S EXCEPT !.half = h]
           U == [T EXCEPT !.conn = f]
<1>1. S.half \in HalfRec /\ S.conn \in [Conns -> Conn \cup {NoConn}]  BY PcFields
<1>2. S.half.pending \in [Torrents -> Seq(Conns)] /\ S.half.active \in SUBSET Conns
  BY <1>1 DEF HalfRec
<1>3. c \in Conns /\ Tail(S.half.pending[g]) \in Seq(Conns)
  BY <1>2, HeadTailProperties
<1>4. Activate(S, g) = U
  BY <1>1, <1>3 DEF Activate, PcRec
<1>5. h \in HalfRec /\ h.groups = S.half.groups
  BY <1>1, <1>3 DEF HalfRec
<1>6. S.conn[c] \in Conn \cup {NoConn}  BY <1>1, <1>3
<1> HIDE DEF c
<1>7. d \in Conn \cup {NoConn} /\ d.t = S.conn[c].t
  <2>1. CASE S.tor[g].started
    <3>1. m \in Methods \cup {"none"}  BY <2>1, MethodFacts
    <3>2. d = [S.conn[c] EXCEPT !.method = m]  OBVIOUS
    <3> HIDE DEF m
    <3>3. \A x \in Methods \cup {"none"} : \A y : y = [S.conn[c] EXCEPT !.method = x] =>
             y \in Conn \cup {NoConn} /\ y.t = S.conn[c].t
      BY <1>6, PcConnFacts
    <3>4. QED  BY <3>1, <3>3
  <2>2. CASE ~S.tor[g].started
    <3>1. m = S.conn[c].method  BY <2>2
    <3>2. S.conn[c] \in Conn => d = S.conn[c]  BY <3>1 DEF Conn
    <3>3. S.conn[c] = NoConn => d = S.conn[c]
      <4>1. NoConn = [x \in {"t"} |-> 0]  BY DEF NoConn
      <4>2. \A x : [NoConn EXCEPT !.method = x] = NoConn  BY <4>1
      <4>3. QED  BY <4>2
    <3>4. d = S.conn[c]  BY <1>6, <3>2, <3>3
    <3>5. QED  BY <1>6, <3>4
  <2>3. QED  BY <2>1, <2>2
<1> HIDE DEF d, h
<1>8. f \in [Conns -> Conn \cup {NoConn}] /\ \A e \in Conns : f[e].t = S.conn[e].t
  BY <1>1, <1>3, <1>7
<1> HIDE DEF f
<1>9. T \in PcRec /\ T.tor = S.tor /\ T.conn = S.conn /\ T.half = h /\ T.limit = S.limit
  BY <1>5, PcChanges
<1> HIDE DEF T
<1>10. U \in PcRec /\ U.tor = T.tor /\ U.conn = f /\ U.half = T.half /\ U.limit = T.limit
  BY <1>8, <1>9, PcChanges
<1> HIDE DEF U
<1>11. QED  BY <1>4, <1>5, <1>8, <1>9, <1>10 DEF Serves

LEMMA GroupFacts ==
  ASSUME NEW S \in PcRec, S.half.groups # {}
  PROVE  /\ S.half.groups \subseteq Torrents /\ StartGroup(S) \in S.half.groups
         /\ \A g : NextGroup(S, g) \in S.half.groups
<1>1. S.half.groups \subseteq Torrents  BY PcFields DEF HalfRec
<1>2. S.half.groups \in SUBSET Nat  BY <1>1, PcNumbers
<1>3. Min(S.half.groups) \in S.half.groups  BY <1>2, MinIn
<1>4. StartGroup(S) \in S.half.groups  BY <1>3 DEF StartGroup
<1>5. ASSUME NEW g PROVE NextGroup(S, g) \in S.half.groups
  <2> DEFINE later == {h \in S.half.groups : h > g}
  <2>1. later \in SUBSET Nat  BY <1>2
  <2>2. later # {} => Min(later) \in later
    <3> HIDE DEF later
    <3>1. QED  BY <2>1, MinIn
  <2>3. QED  BY <1>3, <2>2 DEF NextGroup
<1>6. QED  BY <1>1, <1>4, <1>5

\* The values of the loop of ResourceManager::update.
Laps(S) == {l \in [S : {T \in PcRec : Serves(S, T)}, g : S.half.groups,
                   activated : BOOLEAN, over : BOOLEAN] : TRUE}

LEMMA TurnServes ==
  ASSUME NEW S \in PcRec, S.half.groups # {}, NEW l \in Laps(S), NEW start
  PROVE  ServeGroup(l, start) \in Laps(S)
<1> DEFINE took == l.S.half.pending[l.g] # <<>>
           n == NextGroup(l.S, l.g)
           T == IF took THEN Activate(l.S, l.g) ELSE l.S
<1>1. l.S \in PcRec /\ Serves(S, l.S) /\ l.g \in S.half.groups /\ l \in Laps(S)  BY DEF Laps
<1>2. l.S.half.groups = S.half.groups  BY <1>1 DEF Serves
<1>3. l.g \in Torrents /\ n \in S.half.groups  BY <1>1, <1>2, GroupFacts
<1>4. T \in PcRec /\ Serves(S, T)
  <2>1. CASE took
    <3>1. Serves(l.S, Activate(l.S, l.g))  BY <1>1, <1>3, <2>1, ActivateServes
    <3>2. QED  BY <1>1, <2>1, <3>1, ServesTwice DEF Serves
  <2>2. CASE ~took  BY <1>1, <2>2
  <2>3. QED  BY <2>1, <2>2
<1>5. (n # start /\ (took \/ l.activated)) \in BOOLEAN /\ (n = start /\ ~took /\ ~l.activated) \in BOOLEAN
  OBVIOUS
<1> DEFINE a == n # start /\ (took \/ l.activated)
           b == n = start /\ ~took /\ ~l.activated
           r == [S |-> T, g |-> n, activated |-> a, over |-> b]
<1>6. ServeGroup(l, start) = l \/ ServeGroup(l, start) = r  BY DEF ServeGroup
<1>7. a \in BOOLEAN /\ b \in BOOLEAN  BY <1>5
<1> HIDE DEF a, b, T, n
<1>8. r \in Laps(S)  BY <1>3, <1>4, <1>7 DEF Laps
<1>9. QED  BY <1>6, <1>8, <1>1

\* The loop of update serves groups until the slots are taken or all have waited.
LEMMA GroupsServed ==
  ASSUME NEW S \in PcRec, S.half.groups # {}, NEW start \in S.half.groups
  PROVE  Serves(S, ServeGroups(S, start))
<1> DEFINE x0 == [S |-> S, g |-> start, activated |-> FALSE, over |-> FALSE]
           Runs(F) == F = [i \in 0 .. MaxTurns |-> IF i = 0 THEN x0 ELSE ServeGroup(F[i - 1], start)]
           F == CHOOSE G : Runs(G)
<1>1. ServeGroups(S, start) = [F[MaxTurns].S EXCEPT !.half.current = F[MaxTurns].g]
  BY Zenon DEF ServeGroups
<1>2. MaxTurns \in Nat  BY PcNumbers
<1>3. Serves(S, S)  BY DEF Serves
<1>4. x0 \in Laps(S)  BY <1>3 DEF Laps
<1>5. \A l \in Laps(S) : ServeGroup(l, start) \in Laps(S)  BY TurnServes
<1> HIDE DEF x0
<1>6. \E G : Runs(G)
  <2> DEFINE g == [x \in Laps(S) \X Nat |-> ServeGroup(x[1], start)]
  <2>1. \A U \in Laps(S), i \in Nat : g[<<U, i>>] = ServeGroup(U, start)  OBVIOUS
  <2> HIDE DEF g
  <2>2. TurnsIn(g, Laps(S))  BY <1>5, <2>1 DEF TurnsIn
  <2>3. \E G : Loop(G, g, Laps(S), x0, MaxTurns)
    <3> HIDE DEF Runs, F
    <3>1. QED  BY <1>2, <1>4, <2>2, LoopExists
  <2>4. PICK G : Loop(G, g, Laps(S), x0, MaxTurns)  BY <2>3
  <2>5. ASSUME NEW i \in 0 .. MaxTurns, i # 0 PROVE G[i] = ServeGroup(G[i - 1], start)
    <3>1. i \in 1 .. MaxTurns /\ i \in Nat /\ i - 1 \in 0 .. MaxTurns  BY <1>2, <2>5
    <3>2. G[i - 1] \in Laps(S)  BY <2>4, <3>1 DEF Loop
    <3>3. QED  BY <2>1, <2>4, <3>1, <3>2 DEF Loop
  <2>6. \A i \in 0 .. MaxTurns : G[i] = IF i = 0 THEN x0 ELSE ServeGroup(G[i - 1], start)
    BY <2>4, <2>5 DEF Loop
  <2>7. G = [i \in 0 .. MaxTurns |-> G[i]]  BY <2>4 DEF Loop
  <2>8. Runs(G)  BY <2>6, <2>7
  <2>9. QED  BY <2>8
<1>7. Runs(F)  BY <1>6, Zenon
<1> HIDE DEF F
<1>8. \A i \in 0 .. MaxTurns : F[i] = IF i = 0 THEN x0 ELSE ServeGroup(F[i - 1], start)  BY <1>7
<1> HIDE DEF Runs
<1>9. F[0] \in Laps(S)  BY <1>2, <1>4, <1>8
<1>10. ASSUME NEW i \in 1 .. MaxTurns, F[i - 1] \in Laps(S) PROVE F[i] \in Laps(S)
  <2>1. i \in 0 .. MaxTurns /\ i # 0  BY <1>2
  <2>2. QED  BY <1>5, <1>8, <1>10, <2>1
<1>11. \A i \in 0 .. MaxTurns : F[i] \in Laps(S)
  <2> DEFINE D == Laps(S)
  <2> HIDE DEF D
  <2>1. F[0] \in D  BY <1>9 DEF D
  <2>2. \A i \in 1 .. MaxTurns : F[i - 1] \in D => F[i] \in D  BY <1>10 DEF D
  <2>3. \A i \in 0 .. MaxTurns : F[i] \in D  BY <1>2, <2>1, <2>2, LoopStays
  <2>4. QED  BY <2>3 DEF D
<1> DEFINE l == F[MaxTurns]
<1>12. l \in Laps(S)  BY <1>2, <1>11
<1>13. l.S \in PcRec /\ Serves(S, l.S) /\ l.g \in S.half.groups  BY <1>12 DEF Laps
<1>14. l.g \in Torrents \cup {0}  BY <1>13, GroupFacts
<1> DEFINE h == [l.S.half EXCEPT !.current = l.g]
           T == [l.S EXCEPT !.half = h]
<1>15. ServeGroups(S, start) = T  BY <1>1, <1>13 DEF PcRec
<1> HIDE DEF l
<1>16. h \in HalfRec /\ h.groups = l.S.half.groups  BY <1>13, <1>14, PcFields DEF HalfRec
<1> HIDE DEF h
<1>17. T \in PcRec /\ T.tor = l.S.tor /\ T.conn = l.S.conn /\ T.half = h /\ T.limit = l.S.limit
  BY <1>13, <1>16, PcChanges
<1> HIDE DEF T
<1>18. QED  BY <1>13, <1>15, <1>16, <1>17 DEF Serves

LEMMA UpdateServes ==
  ASSUME NEW S \in PcRec, S.half.groups # {}
  PROVE  Serves(S, RmUpdate(S))
<1>1. Serves(S, S)  BY DEF Serves
<1>2. StartGroup(S) \in S.half.groups  BY GroupFacts
<1>3. Serves(S, ServeGroups(S, StartGroup(S)))  BY <1>2, GroupsServed
<1>4. QED  BY <1>1, <1>3 DEF RmUpdate

\* Whatever the ResourceManager does, the tokens stay where they are.
Undisturbed(S, T) ==
  /\ T \in PcRec /\ T.tor = S.tor /\ T.limit = S.limit
  /\ \A c \in Conns : T.conn[c].t = S.conn[c].t

LEMMA AddUndisturbed ==
  ASSUME NEW S \in PcRec, NEW c \in Conns, S.conn[c].t \in Torrents
  PROVE  Undisturbed(S, RmAdd(S, c)) /\ Grouped(RmAdd(S, c))
<1> DEFINE g == S.conn[c].t
           h == [S.half EXCEPT !.groups = @ \cup {g}, !.pending[g] = Append(@, c),
                               !.current = IF @ = 0 THEN g ELSE @]
           T == [S EXCEPT !.half = h]
<1>1. S.half \in HalfRec /\ S.half.pending[g] \in Seq(Conns)  BY PcFields, SMTT(15) DEF HalfRec
<1>2. RmAdd(S, c) = RmUpdate(T)
  <2> DEFINE U == [S EXCEPT !.half.groups = @ \cup {g}, !.half.pending[g] = Append(@, c),
                            !.half.current = IF @ = 0 THEN g ELSE @]
  <2>1. U = T  BY <1>1 DEF PcRec, HalfRec
  <2>2. RmAdd(S, c) = RmUpdate(U)  BY Zenon DEF RmAdd
  <2>3. QED  BY <2>1, <2>2
<1>3. Append(S.half.pending[g], c) \in Seq(Conns)  BY <1>1, AppendProperties
<1>4. h \in HalfRec /\ h.groups = S.half.groups \cup {g}  BY <1>1, <1>3 DEF HalfRec
<1> HIDE DEF h
<1>5. T \in PcRec /\ T.tor = S.tor /\ T.conn = S.conn /\ T.half = h /\ T.limit = S.limit
  BY <1>4, PcChanges
<1> HIDE DEF T
<1>6. T.half.groups # {}  BY <1>4, <1>5
<1>7. Serves(T, RmUpdate(T))  BY <1>5, <1>6, UpdateServes
<1>8. QED  BY <1>2, <1>5, <1>6, <1>7 DEF Serves, Undisturbed, Grouped

LEMMA RemoveUndisturbed ==
  ASSUME NEW S \in PcRec, Grouped(S), NEW c \in Conns, NEW g \in Torrents
  PROVE  Undisturbed(S, RmRemove(S, c, g)) /\ Grouped(RmRemove(S, c, g))
<1>1. S.half \in HalfRec /\ S.half.pending[g] \in Seq(Conns)  BY PcFields DEF HalfRec
<1>2. CASE c \in S.half.active
  <2> DEFINE h == [S.half EXCEPT !.active = @ \ {c}]
             T == [S EXCEPT !.half = h]
  <2>1. RmRemove(S, c, g) = RmUpdate(T)  BY <1>2 DEF RmRemove, PcRec
  <2>2. h \in HalfRec /\ h.groups = S.half.groups  BY <1>1 DEF HalfRec
  <2> HIDE DEF h
  <2>3. T \in PcRec /\ T.tor = S.tor /\ T.conn = S.conn /\ T.half = h /\ T.limit = S.limit
    BY <2>2, PcChanges
  <2> HIDE DEF T
  <2>4. T.half.groups # {}  BY <1>2, <2>2, <2>3 DEF Grouped
  <2>5. Serves(T, RmUpdate(T))  BY <2>3, <2>4, UpdateServes
  <2>6. QED  BY <2>1, <2>3, <2>4, <2>5 DEF Serves, Undisturbed, Grouped
<1>3. CASE c \notin S.half.active
  <2> DEFINE q == Only(S.half.pending[g], Conns \ {c})
             h == [S.half EXCEPT !.pending[g] = q]
             T == [S EXCEPT !.half = h]
  <2>1. RmRemove(S, c, g) = T  BY <1>3 DEF RmRemove, PcRec
  <2>2. q \in Seq(Conns)  BY <1>1, OnlyType
  <2> HIDE DEF q
  <2>3. /\ h \in HalfRec /\ h.groups = S.half.groups /\ h.active = S.half.active
    BY <1>1, <2>2 DEF HalfRec
  <2> HIDE DEF h
  <2>4. T \in PcRec /\ T.tor = S.tor /\ T.conn = S.conn /\ T.half = h /\ T.limit = S.limit
    BY <2>3, PcChanges
  <2> HIDE DEF T
  <2>5. QED  BY <2>1, <2>3, <2>4 DEF Undisturbed, Grouped
<1>4. QED  BY <1>2, <1>3

LEMMA PeersFinite == IsFiniteSet(Peer) /\ IsFiniteSet(Torrents \X Peer)
<1>1. IsFiniteSet(BOOLEAN)
  <2>1. BOOLEAN = {TRUE} \cup {FALSE}  OBVIOUS
  <2>2. \A a, b : IsFiniteSet({a} \cup {b})  BY FS_Singleton, FS_Union
  <2>3. IsFiniteSet({TRUE} \cup {FALSE})  BY <2>2, Zenon
  <2>4. QED  BY <2>1, <2>3, Zenon
<1>2. IsFiniteSet(Addrs \X PeerIds)  BY PcAssumption, FS_Product
<1>3. IsFiniteSet((Addrs \X PeerIds) \X BOOLEAN)  BY <1>1, <1>2, FS_Product
<1> DEFINE X == (Addrs \X PeerIds) \X BOOLEAN
           f == [x \in X |-> [addr |-> x[1][1], pid |-> x[1][2], killed |-> x[2]]]
<1>4. f \in Surjection(X, Peer)
  <2>1. f \in [X -> Peer]  BY DEF Peer
  <2>2. ASSUME NEW p \in Peer PROVE \E x \in X : f[x] = p
    <3> DEFINE x == <<<<p.addr, p.pid>>, p.killed>>
    <3>1. x \in X /\ x[1][1] = p.addr /\ x[1][2] = p.pid /\ x[2] = p.killed  BY DEF Peer
    <3>2. p = [addr |-> p.addr, pid |-> p.pid, killed |-> p.killed]  BY DEF Peer
    <3> HIDE DEF x, X
    <3>3. f[x] = [addr |-> x[1][1], pid |-> x[1][2], killed |-> x[2]]  BY <3>1
    <3> HIDE DEF f
    <3>4. f[x] = p  BY <3>1, <3>2, <3>3
    <3>5. QED  BY <3>1, <3>4
  <2>3. QED  BY <2>1, <2>2 DEF Surjection
<1> HIDE DEF f, X
<1>5. IsFiniteSet(Peer)  BY <1>3, <1>4, FS_Surjection DEF X
<1>6. QED  BY <1>5, PcAssumption, FS_Product

LEMMA PcSets ==
  ASSUME NEW S \in PcRec
  PROVE  /\ IsFiniteSet(Connecters(S)) /\ Cardinality(Connecters(S)) \in Nat
         /\ IsFiniteSet(Living(S)) /\ Cardinality(Living(S)) \in Nat
         /\ \A t \in Torrents :
              /\ IsFiniteSet(ConnsOf(S, t)) /\ Cardinality(ConnsOf(S, t)) \in Nat
              /\ S.tor[t].peers \in SUBSET Peer
              /\ Alive(S.tor[t].peers) \in SUBSET Peer /\ IsFiniteSet(Alive(S.tor[t].peers))
              /\ Cardinality(Alive(S.tor[t].peers)) \in Nat
<1>1. Connecters(S) \in SUBSET Conns  BY DEF Connecters
<1>2. Living(S) \in SUBSET (Torrents \X Peer)  BY DEF Living
<1>3. ASSUME NEW t \in Torrents
      PROVE  /\ ConnsOf(S, t) \in SUBSET Conns /\ S.tor[t].peers \in SUBSET Peer
             /\ Alive(S.tor[t].peers) \in SUBSET Peer
  <2>1. S.tor[t].peers \in SUBSET Peer  BY PcFields DEF Manager
  <2>2. QED  BY <2>1 DEF ConnsOf, Alive
<1>4. QED  BY <1>1, <1>2, <1>3, PcNumbers, PeersFinite, FS_Subset, FS_CardinalityType

LEMMA UndisturbedOff ==
  ASSUME NEW S \in PcRec, NEW T, Undisturbed(S, T), NEW t, NEW k, Off(S, t, k)
  PROVE  Off(T, t, k)
<1>1. T \in PcRec /\ T.tor = S.tor /\ T.limit = S.limit
  BY DEF Undisturbed
<1>2. ASSUME NEW c \in Conns PROVE T.conn[c].t = S.conn[c].t /\ (T.conn[c] = NoConn <=> S.conn[c] = NoConn)
  <2>1. T.conn[c] \in Conn \cup {NoConn} /\ S.conn[c] \in Conn \cup {NoConn}  BY <1>1, PcFields
  <2>2. QED  BY <2>1, PcConnFacts DEF Undisturbed
<1>3. \A u : ConnsOf(T, u) = ConnsOf(S, u)  BY <1>2 DEF ConnsOf
<1>4. Connecters(T) = Connecters(S)  BY <1>2 DEF Connecters
<1>5. Living(T) = Living(S)  BY <1>1 DEF Living
<1>6. QED  BY <1>1, <1>3, <1>4, <1>5 DEF Off, Tokens, AllTokens

\* A connector is made, or goes.
LEMMA ConnOff ==
  ASSUME NEW S \in PcRec, NEW c \in Conns, NEW d \in Conn \cup {NoConn}, NEW t \in Torrents,
         NEW k \in Int, Off(S, t, k), NEW f, f = [S.conn EXCEPT ![c] = d],
         NEW T, T = [S EXCEPT !.conn = f]
  PROVE  /\ T \in PcRec /\ T.tor = S.tor /\ T.conn = f /\ T.half = S.half /\ T.limit = S.limit
         /\ S.conn[c] = NoConn /\ d.t = t => Off(T, t, k - 1)
         /\ S.conn[c].t = t /\ d = NoConn => Off(T, t, k + 1)
<1>1. S.conn \in [Conns -> Conn \cup {NoConn}]  BY PcFields
<1>2. f \in [Conns -> Conn \cup {NoConn}] /\ f[c] = d /\ \A e \in Conns : e # c => f[e] = S.conn[e]
  BY <1>1
<1>3. T \in PcRec /\ T.tor = S.tor /\ T.conn = f /\ T.half = S.half /\ T.limit = S.limit
  BY <1>2, PcChanges
<1>4. Living(T) = Living(S)  BY <1>3 DEF Living
<1>5. NoConn.t = 0 /\ 0 \notin Torrents  BY PcNumbers DEF NoConn
<1>6. /\ S.limit.total \in Int /\ S.limit.totals \in [Torrents -> Nat]
  BY PcFields DEF LimRec
<1>7. CASE S.conn[c] = NoConn /\ d.t = t
  <2>1. ConnsOf(T, t) = ConnsOf(S, t) \cup {c} /\ c \notin ConnsOf(S, t)
    BY <1>2, <1>3, <1>5, <1>7 DEF ConnsOf
  <2>2. \A u \in Torrents : u # t => ConnsOf(T, u) = ConnsOf(S, u)
    BY <1>2, <1>3, <1>5, <1>7 DEF ConnsOf
  <2>3. Connecters(T) = Connecters(S) \cup {c} /\ c \notin Connecters(S)
    BY <1>2, <1>3, <1>5, <1>7 DEF Connecters
  <2>4. /\ Cardinality(ConnsOf(T, t)) = Cardinality(ConnsOf(S, t)) + 1
        /\ Cardinality(Connecters(T)) = Cardinality(Connecters(S)) + 1
    BY <2>1, <2>3, PcSets, FS_AddElement
  <2>5. AllTokens(T) = AllTokens(S) + 1  BY <1>4, <2>4, PcSets DEF AllTokens
  <2>6. Tokens(T, t) = Tokens(S, t) + 1  BY <1>3, <2>4, PcSets DEF Tokens
  <2>7. \A u \in Torrents : u # t => Tokens(T, u) = Tokens(S, u)  BY <1>3, <2>2 DEF Tokens
  <2>8. \A u \in Torrents : Tokens(S, u) \in Int /\ AllTokens(S) \in Int  BY PcSets DEF Tokens, AllTokens
  <2>9. Off(T, t, k - 1)
    <3>1. ASSUME NEW u \in Torrents PROVE T.limit.totals[u] = Tokens(T, u) + IF u = t THEN k - 1 ELSE 0
      BY <1>3, <2>6, <2>7, <2>8 DEF Off
    <3>2. T.limit.total = AllTokens(T) + (k - 1)  BY <1>3, <2>5, <2>8 DEF Off
    <3>3. QED  BY <3>1, <3>2 DEF Off
  <2>10. QED  BY <1>3, <1>5, <1>7, <2>9
<1>8. CASE S.conn[c].t = t /\ d = NoConn
  <2>1. ConnsOf(T, t) = ConnsOf(S, t) \ {c} /\ c \in ConnsOf(S, t)
    BY <1>2, <1>3, <1>5, <1>8 DEF ConnsOf
  <2>2. \A u \in Torrents : u # t => ConnsOf(T, u) = ConnsOf(S, u)
    BY <1>2, <1>3, <1>5, <1>8 DEF ConnsOf
  <2>3. Connecters(T) = Connecters(S) \ {c} /\ c \in Connecters(S)
    BY <1>2, <1>3, <1>5, <1>8 DEF Connecters
  <2>4. /\ Cardinality(ConnsOf(T, t)) = Cardinality(ConnsOf(S, t)) - 1
        /\ Cardinality(Connecters(T)) = Cardinality(Connecters(S)) - 1
    BY <2>1, <2>3, PcSets, FS_RemoveElement
  <2>5. AllTokens(T) = AllTokens(S) - 1  BY <1>4, <2>4, PcSets DEF AllTokens
  <2>6. Tokens(T, t) = Tokens(S, t) - 1  BY <1>3, <2>4, PcSets DEF Tokens
  <2>7. \A u \in Torrents : u # t => Tokens(T, u) = Tokens(S, u)  BY <1>3, <2>2 DEF Tokens
  <2>8. \A u \in Torrents : Tokens(S, u) \in Int /\ AllTokens(S) \in Int  BY PcSets DEF Tokens, AllTokens
  <2>9. Off(T, t, k + 1)
    <3>1. ASSUME NEW u \in Torrents PROVE T.limit.totals[u] = Tokens(T, u) + IF u = t THEN k + 1 ELSE 0
      BY <1>3, <2>6, <2>7, <2>8 DEF Off
    <3>2. T.limit.total = AllTokens(T) + (k + 1)  BY <1>3, <2>5, <2>8 DEF Off
    <3>3. QED  BY <3>1, <3>2 DEF Off
  <2>10. QED  BY <1>3, <1>5, <1>8, <2>9
<1>9. QED  BY <1>3, <1>7, <1>8

LEMMA AcquireOff ==
  ASSUME NEW S \in PcRec, NEW t \in Torrents, NEW k \in Int, Off(S, t, k),
         NEW T, T = Acquire(S, t)
  PROVE  /\ T \in PcRec /\ T.tor = S.tor /\ T.conn = S.conn /\ T.half = S.half
         /\ Off(T, t, k + 1)
<1> DEFINE l == [S.limit EXCEPT !.total = @ + 1, !.totals[t] = @ + 1]
<1>1. S.limit \in LimRec /\ S.limit.total \in Nat /\ S.limit.totals \in [Torrents -> Nat]
  BY PcFields DEF LimRec
<1>2. T = [S EXCEPT !.limit = l]  BY <1>1 DEF Acquire, PcRec, LimRec
<1>3. /\ l \in LimRec /\ l.total = S.limit.total + 1
      /\ \A u \in Torrents : l.totals[u] = S.limit.totals[u] + IF u = t THEN 1 ELSE 0
  <2> DEFINE x == S.limit.total + 1
             y == [S.limit.totals EXCEPT ![t] = @ + 1]
  <2>1. l = [S.limit EXCEPT !.total = x, !.totals = y]  BY <1>1 DEF LimRec
  <2>2. x \in Nat /\ y \in [Torrents -> Nat]  BY <1>1
  <2>3. \A u \in Torrents : y[u] = S.limit.totals[u] + IF u = t THEN 1 ELSE 0  BY <1>1
  <2> HIDE DEF x, y, l
  <2>4. l \in LimRec /\ l.total = x /\ l.totals = y  BY <1>1, <2>1, <2>2 DEF LimRec
  <2>5. QED  BY <2>3, <2>4 DEF x
<1> HIDE DEF l
<1>4. T \in PcRec /\ T.tor = S.tor /\ T.conn = S.conn /\ T.half = S.half /\ T.limit = l
  BY <1>2, <1>3, PcChanges
<1>5. /\ \A u : ConnsOf(T, u) = ConnsOf(S, u)
      /\ Connecters(T) = Connecters(S) /\ Living(T) = Living(S)
  BY <1>4 DEF ConnsOf, Connecters, Living
<1>6. AllTokens(T) = AllTokens(S) /\ \A u \in Torrents : Tokens(T, u) = Tokens(S, u)
  BY <1>4, <1>5 DEF AllTokens, Tokens
<1>7. \A u \in Torrents : Tokens(S, u) \in Int /\ AllTokens(S) \in Int  BY PcSets DEF Tokens, AllTokens
<1>8. Off(T, t, k + 1)
  <2>1. ASSUME NEW u \in Torrents PROVE T.limit.totals[u] = Tokens(T, u) + IF u = t THEN k + 1 ELSE 0
    BY <1>3, <1>4, <1>6, <1>7 DEF Off
  <2>2. T.limit.total = AllTokens(T) + (k + 1)  BY <1>3, <1>4, <1>6, <1>7 DEF Off
  <2>3. QED  BY <2>1, <2>2 DEF Off
<1>9. QED  BY <1>4, <1>8

\* The tokens of a torrent are some of all.
LEMMA TokensWithin ==
  ASSUME NEW S \in PcRec, NEW t \in Torrents
  PROVE  Tokens(S, t) \in Nat /\ AllTokens(S) \in Nat /\ Tokens(S, t) <= AllTokens(S)
<1> DEFINE A == Alive(S.tor[t].peers)
           X == {t} \X A
<1>1. A \in SUBSET Peer /\ IsFiniteSet(A) /\ Cardinality(A) \in Nat  BY PcSets
<1>2. X \in SUBSET Living(S)  BY <1>1 DEF Living
<1>3. Cardinality(X) = Cardinality(A)
  <2>1. IsFiniteSet({t}) /\ Cardinality({t}) = 1  BY FS_Singleton
  <2> HIDE DEF A
  <2>2. Cardinality(X) = 1 * Cardinality(A)  BY <1>1, <2>1, FS_Product
  <2>3. QED  BY <1>1, <2>2
<1> HIDE DEF X
<1>4. Cardinality(A) <= Cardinality(Living(S))  BY <1>2, <1>3, PcSets, FS_Subset
<1>5. NoConn.t = 0 /\ 0 \notin Torrents  BY PcNumbers DEF NoConn
<1>6. ConnsOf(S, t) \in SUBSET Connecters(S)  BY <1>5 DEF ConnsOf, Connecters
<1>7. Cardinality(ConnsOf(S, t)) <= Cardinality(Connecters(S))  BY <1>6, PcSets, FS_Subset
<1>8. QED  BY <1>1, <1>4, <1>7, PcSets DEF Tokens, AllTokens

\* A torrent that has the tokens can release them.
LEMMA ReleaseOff ==
  ASSUME NEW S \in PcRec, NEW t \in Torrents, NEW k \in Int, Off(S, t, k),
         NEW n \in Nat, n <= k + Tokens(S, t), NEW T, T = Release(S, t, n)
  PROVE  /\ T \in PcRec /\ T.tor = S.tor /\ T.conn = S.conn /\ T.half = S.half
         /\ Off(T, t, k - n)
<1>1. S.limit \in LimRec /\ S.limit.total \in Nat /\ S.limit.totals \in [Torrents -> Nat]
  BY PcFields DEF LimRec
<1>2. /\ \A u \in Torrents : Tokens(S, u) \in Nat
      /\ AllTokens(S) \in Nat /\ Tokens(S, t) <= AllTokens(S)
  BY TokensWithin
<1>3. /\ S.limit.totals[t] = Tokens(S, t) + k /\ S.limit.total = AllTokens(S) + k
  BY DEF Off
<1>4. n <= S.limit.totals[t] /\ n <= S.limit.total  BY <1>1, <1>2, <1>3
<1> DEFINE m == IF n < S.limit.totals[t] THEN n ELSE S.limit.totals[t]
           l == [S.limit EXCEPT !.total = @ - n, !.totals[t] = @ - n]
<1>5. m = n  BY <1>1, <1>4
<1>6. T = [S EXCEPT !.limit = l]
  <2>1. T = [S EXCEPT !.limit.total = @ - m, !.limit.totals[t] = @ - m]  BY DEF Release
  <2> HIDE DEF m
  <2>2. QED  BY <1>1, <1>5, <2>1 DEF PcRec, LimRec
<1> HIDE DEF m
<1>7. /\ l \in LimRec /\ l.total = S.limit.total - n
      /\ \A u \in Torrents : l.totals[u] = S.limit.totals[u] - IF u = t THEN n ELSE 0
  <2> DEFINE x == S.limit.total - n
             y == [S.limit.totals EXCEPT ![t] = @ - n]
  <2>1. l = [S.limit EXCEPT !.total = x, !.totals = y]  BY <1>1 DEF LimRec
  <2>2. x \in Nat /\ y \in [Torrents -> Nat]  BY <1>1, <1>4
  <2>3. \A u \in Torrents : y[u] = S.limit.totals[u] - IF u = t THEN n ELSE 0  BY <1>1
  <2> HIDE DEF x, y, l
  <2>4. l \in LimRec /\ l.total = x /\ l.totals = y  BY <1>1, <2>1, <2>2 DEF LimRec
  <2>5. QED  BY <2>3, <2>4 DEF x
<1> HIDE DEF l
<1>8. T \in PcRec /\ T.tor = S.tor /\ T.conn = S.conn /\ T.half = S.half /\ T.limit = l
  BY <1>6, <1>7, PcChanges
<1>9. /\ \A u : ConnsOf(T, u) = ConnsOf(S, u)
      /\ Connecters(T) = Connecters(S) /\ Living(T) = Living(S)
  BY <1>8 DEF ConnsOf, Connecters, Living
<1>10. AllTokens(T) = AllTokens(S) /\ \A u \in Torrents : Tokens(T, u) = Tokens(S, u)
  BY <1>8, <1>9 DEF AllTokens, Tokens
<1>11. Off(T, t, k - n)
  <2>1. ASSUME NEW u \in Torrents PROVE T.limit.totals[u] = Tokens(T, u) + IF u = t THEN k - n ELSE 0
    BY <1>2, <1>7, <1>8, <1>10 DEF Off
  <2>2. T.limit.total = AllTokens(T) + (k - n)  BY <1>2, <1>3, <1>7, <1>8, <1>10
  <2>3. QED  BY <2>1, <2>2 DEF Off
<1>12. QED  BY <1>8, <1>11

\* The peers of a torrent change: some of the living ones go, or one comes.
LEMMA PeersOff ==
  ASSUME NEW S \in PcRec, NEW t \in Torrents, NEW k \in Int, Off(S, t, k), NEW m \in Manager,
         NEW f, f = [S.tor EXCEPT ![t] = m], NEW T, T = [S EXCEPT !.tor = f]
  PROVE  /\ T \in PcRec /\ T.tor = f /\ T.conn = S.conn /\ T.half = S.half /\ T.limit = S.limit
         /\ \A ps \in SUBSET Alive(S.tor[t].peers) :
              Alive(m.peers) = Alive(S.tor[t].peers) \ ps =>
                 Cardinality(ps) \in Nat /\ Off(T, t, k + Cardinality(ps))
         /\ \A p \in Peer : p \notin Alive(S.tor[t].peers)
                            /\ Alive(m.peers) = Alive(S.tor[t].peers) \cup {p} => Off(T, t, k - 1)
<1>1. S.tor \in [Torrents -> Manager]  BY PcFields
<1>2. f \in [Torrents -> Manager] /\ f[t] = m /\ \A u \in Torrents : u # t => f[u] = S.tor[u]
  BY <1>1
<1>3. T \in PcRec /\ T.tor = f /\ T.conn = S.conn /\ T.half = S.half /\ T.limit = S.limit
  BY <1>2, PcChanges
<1>4. Connecters(T) = Connecters(S) /\ \A u : ConnsOf(T, u) = ConnsOf(S, u)
  BY <1>3 DEF Connecters, ConnsOf
<1>5. \A u \in Torrents : Tokens(S, u) \in Nat /\ AllTokens(S) \in Nat
  BY PcSets DEF Tokens, AllTokens
<1>6. \A u \in Torrents : u # t => Tokens(T, u) = Tokens(S, u)
  BY <1>2, <1>3, <1>4 DEF Tokens
<1>7. ASSUME NEW ps \in SUBSET Alive(S.tor[t].peers), Alive(m.peers) = Alive(S.tor[t].peers) \ ps
      PROVE  Cardinality(ps) \in Nat /\ Off(T, t, k + Cardinality(ps))
  <2> DEFINE A == Alive(S.tor[t].peers)
             X == {t} \X ps
             n == Cardinality(ps)
  <2>1. A \in SUBSET Peer /\ IsFiniteSet(A) /\ Cardinality(A) \in Nat  BY PcSets
  <2>2. IsFiniteSet(ps) /\ n \in Nat  BY <2>1, FS_Subset, FS_CardinalityType
  <2>3. Cardinality(Alive(m.peers)) = Cardinality(A) - n
    <3>1. A \cap ps = ps  OBVIOUS
    <3>2. QED  BY <1>7, <2>1, <3>1, FS_Difference
  <2>4. Cardinality(X) = n
    <3>1. IsFiniteSet({t}) /\ Cardinality({t}) = 1  BY FS_Singleton
    <3>2. Cardinality(X) = 1 * n  BY <2>2, <3>1, FS_Product
    <3>3. QED  BY <2>2, <3>2
  <2>5. Living(T) = Living(S) \ X /\ Living(S) \cap X = X
    BY <1>2, <1>3, <1>7, <2>1 DEF Living
  <2> HIDE DEF n, X
  <2>6. Cardinality(Living(T)) = Cardinality(Living(S)) - n
    <3>1. IsFiniteSet(Living(S))  BY PcSets
    <3>2. Cardinality(Living(S) \ X) = Cardinality(Living(S)) - Cardinality(Living(S) \cap X)
      BY <3>1, FS_Difference
    <3>3. QED  BY <2>4, <2>5, <3>2
  <2>7. AllTokens(T) = AllTokens(S) - n  BY <1>4, <2>2, <2>6, PcSets DEF AllTokens
  <2>8. Tokens(T, t) = Tokens(S, t) - n  BY <1>2, <1>3, <1>4, <2>2, <2>3, PcSets DEF Tokens
  <2>9. ASSUME NEW u \in Torrents PROVE T.limit.totals[u] = Tokens(T, u) + IF u = t THEN k + n ELSE 0
    BY <1>3, <1>5, <1>6, <2>2, <2>8 DEF Off
  <2>10. T.limit.total = AllTokens(T) + (k + n)  BY <1>3, <1>5, <2>2, <2>7 DEF Off
  <2>11. Off(T, t, k + n)  BY <2>9, <2>10 DEF Off
  <2>12. QED  BY <2>2, <2>11 DEF n
<1>8. ASSUME NEW p \in Peer, p \notin Alive(S.tor[t].peers), Alive(m.peers) = Alive(S.tor[t].peers) \cup {p}
      PROVE  Off(T, t, k - 1)
  <2> DEFINE A == Alive(S.tor[t].peers)
             x == <<t, p>>
  <2>1. A \in SUBSET Peer /\ IsFiniteSet(A) /\ Cardinality(A) \in Nat  BY PcSets
  <2>2. Cardinality(Alive(m.peers)) = Cardinality(A) + 1  BY <1>8, <2>1, FS_AddElement
  <2>3. Living(T) = Living(S) \cup {x} /\ x \notin Living(S)
    BY <1>2, <1>3, <1>8, <2>1 DEF Living
  <2>4. Cardinality(Living(T)) = Cardinality(Living(S)) + 1
    BY <2>3, PcSets, FS_AddElement
  <2>5. AllTokens(T) = AllTokens(S) + 1  BY <1>4, <2>4, PcSets DEF AllTokens
  <2>6. Tokens(T, t) = Tokens(S, t) + 1  BY <1>2, <1>3, <1>4, <2>2, PcSets DEF Tokens
  <2>7. ASSUME NEW u \in Torrents PROVE T.limit.totals[u] = Tokens(T, u) + IF u = t THEN k - 1 ELSE 0
    BY <1>3, <1>5, <1>6, <2>6 DEF Off
  <2>8. T.limit.total = AllTokens(T) + (k - 1)  BY <1>3, <1>5, <2>5 DEF Off
  <2>9. QED  BY <2>7, <2>8 DEF Off
<1>9. QED  BY <1>3, <1>7, <1>8

\* Between two steps every torrent has the tokens it needs.
Sounds == {S \in PcRec : /\ Grouped(S) /\ S.limit.total = AllTokens(S)
                         /\ \A t \in Torrents : Off(S, t, 0)}

LEMMA OneOff ==
  ASSUME NEW S \in PcRec, NEW t \in Torrents, Off(S, t, 0), Grouped(S)
  PROVE  S \in Sounds
<1>1. AllTokens(S) \in Nat  BY TokensWithin
<1>2. S.limit.total = AllTokens(S)  BY <1>1 DEF Off
<1>3. \A u \in Torrents : Off(S, u, 0)  BY DEF Off
<1>4. QED  BY <1>2, <1>3 DEF Sounds

\* A connector goes, and its token with it or to a peer.
LEMMA DestroyOff ==
  ASSUME NEW S \in PcRec, Grouped(S), NEW c \in Conns, NEW t \in Torrents, S.conn[c].t = t,
         NEW b \in BOOLEAN, Off(S, t, IF b THEN 0 ELSE -1), NEW T, T = Destroy(S, c, b)
  PROVE  T \in Sounds /\ T.tor = S.tor
<1> DEFINE R == IF b THEN Release(S, t, 1) ELSE S
           f == [R.conn EXCEPT ![c] = NoConn]
           U == [R EXCEPT !.conn = f]
<1>1. R \in PcRec /\ R.tor = S.tor /\ R.conn = S.conn /\ R.half = S.half /\ Off(R, t, -1)
  <2>1. CASE b
    <3>1. c \in ConnsOf(S, t)  BY DEF ConnsOf
    <3>2. Cardinality(ConnsOf(S, t)) # 0  BY <3>1, PcSets, FS_EmptySet
    <3>3. Tokens(S, t) \in Nat /\ 1 <= 0 + Tokens(S, t)  BY <3>2, PcSets DEF Tokens
    <3>4. Off(S, t, 0)  BY <2>1
    <3>5. R = Release(S, t, 1)  BY <2>1
    <3> HIDE DEF R
    <3>6. /\ R \in PcRec /\ R.tor = S.tor /\ R.conn = S.conn /\ R.half = S.half
          /\ Off(R, t, 0 - 1)
      BY <3>3, <3>4, <3>5, ReleaseOff
    <3>7. QED  BY <3>6
  <2>2. CASE ~b  BY <2>2
  <2>3. QED  BY <2>1, <2>2
<1>2. T = RmRemove(U, c, t)  BY DEF Destroy
<1> HIDE DEF R
<1>3. U \in PcRec /\ U.tor = R.tor /\ U.half = R.half /\ Off(U, t, -1 + 1)
  <2>1. /\ f = [R.conn EXCEPT ![c] = NoConn] /\ U = [R EXCEPT !.conn = f]
        /\ NoConn \in Conn \cup {NoConn} /\ R.conn[c].t = t /\ -1 \in Int
    BY <1>1
  <2> HIDE DEF f, U
  <2>2. QED  BY <1>1, <2>1, ConnOff
<1>4. Off(U, t, 0)  BY <1>1, <1>3
<1> HIDE DEF U
<1>5. Grouped(U)  BY <1>1, <1>3 DEF Grouped
<1>6. Undisturbed(U, T) /\ Grouped(T)  BY <1>2, <1>3, <1>5, RemoveUndisturbed
<1>7. Off(T, t, 0) /\ T \in PcRec /\ T.tor = U.tor
  BY <1>3, <1>4, <1>6, UndisturbedOff DEF Undisturbed
<1>8. QED  BY <1>1, <1>3, <1>6, <1>7, OneOff

LEMMA KillSets ==
  ASSUME NEW P \in SUBSET Peer, NEW ps \in SUBSET P
  PROVE  LET Q == (P \ ps) \cup AsKilled(ps)
         IN  Q \in SUBSET Peer /\ Alive(Q) = Alive(P) \ Alive(ps) /\ Alive(ps) \in SUBSET Alive(P)
<1>1. \A p \in Peer : [p EXCEPT !.killed = TRUE] \in Peer /\ [p EXCEPT !.killed = TRUE].killed = TRUE
  BY DEF Peer
<1>2. AsKilled(ps) \in SUBSET Peer /\ \A p \in AsKilled(ps) : p.killed = TRUE  BY <1>1 DEF AsKilled
<1>3. QED  BY <1>2 DEF Alive

\* Peers are killed, and nothing but their marks and tokens changes.
LEMMA KillOff ==
  ASSUME NEW S \in Sounds, NEW t \in Torrents, NEW ps \in SUBSET S.tor[t].peers,
         NEW T, T = Kill(S, t, ps)
  PROVE  /\ T \in Sounds /\ T.conn = S.conn
         /\ T.tor = [S.tor EXCEPT ![t].peers = (@ \ ps) \cup AsKilled(ps)]
<1> DEFINE P == S.tor[t].peers
           Q == (P \ ps) \cup AsKilled(ps)
           n == Cardinality(Alive(ps))
           R == Release(S, t, n)
           m == [S.tor[t] EXCEPT !.peers = Q]
           f == [S.tor EXCEPT ![t] = m]
           U == [R EXCEPT !.tor = f]
<1>1. S \in PcRec /\ Off(S, t, 0) /\ Grouped(S)  BY DEF Sounds
<1>2. P \in SUBSET Peer /\ Cardinality(Alive(P)) \in Nat /\ IsFiniteSet(Alive(P))  BY <1>1, PcSets
<1>3. Q \in SUBSET Peer /\ Alive(Q) = Alive(P) \ Alive(ps) /\ Alive(ps) \in SUBSET Alive(P)
  BY <1>2, KillSets
<1>4. n \in Nat /\ n <= Cardinality(Alive(P))  BY <1>2, <1>3, FS_Subset, FS_CardinalityType
<1>5. n <= 0 + Tokens(S, t)  BY <1>1, <1>2, <1>4, PcSets DEF Tokens
<1>6. R \in PcRec /\ R.tor = S.tor /\ R.conn = S.conn /\ R.half = S.half /\ Off(R, t, 0 - n)
  <2> HIDE DEF n
  <2>1. QED  BY <1>1, <1>4, <1>5, ReleaseOff
<1>7. T = U
  <2>1. T = [R EXCEPT !.tor[t].peers = (@ \ ps) \cup AsKilled(ps)]  BY DEF Kill
  <2> HIDE DEF R
  <2>2. QED  BY <1>6, <2>1
<1>8. m \in Manager /\ m.peers = Q  BY <1>1, <1>3, PcFields DEF Manager
<1> HIDE DEF Q, R, n
<1>9. f = [R.tor EXCEPT ![t] = m]  BY <1>6
<1> HIDE DEF m
<1>10. /\ U \in PcRec /\ U.tor = f /\ U.conn = R.conn /\ U.half = R.half
       /\ Off(U, t, (0 - n) + n)
  <2>1. Alive(ps) \in SUBSET Alive(R.tor[t].peers) /\ Alive(m.peers) = Alive(R.tor[t].peers) \ Alive(ps)
    BY <1>3, <1>6, <1>8
  <2>2. 0 - n \in Int  BY <1>4
  <2>3. n = Cardinality(Alive(ps))  BY DEF n
  <2>4. U = [R EXCEPT !.tor = f]  OBVIOUS
  <2> HIDE DEF f, U
  <2>5. QED  BY <1>6, <1>8, <1>9, <2>1, <2>2, <2>3, <2>4, PeersOff
<1>11. Off(U, t, 0)  BY <1>4, <1>10
<1>12. f = [S.tor EXCEPT ![t].peers = (@ \ ps) \cup AsKilled(ps)]
  BY <1>1, PcFields DEF m, Q
<1>13. Grouped(U)  BY <1>1, <1>6, <1>10 DEF Grouped
<1> HIDE DEF U, f
<1>14. U \in Sounds  BY <1>10, <1>11, <1>13, OneOff
<1>15. QED  BY <1>6, <1>7, <1>10, <1>12, <1>14

LEMMA SoundFacts ==
  ASSUME NEW S \in Sounds
  PROVE  S \in PcRec /\ Grouped(S) /\ \A t \in Torrents : Off(S, t, 0)
BY DEF Sounds

\* The manager of a torrent changes, and its living peers do not.
LEMMA ManagerChanges ==
  ASSUME NEW S \in Sounds, NEW t \in Torrents, NEW m \in Manager,
         Alive(m.peers) = Alive(S.tor[t].peers),
         NEW f, f = [S.tor EXCEPT ![t] = m], NEW T, T = [S EXCEPT !.tor = f]
  PROVE  T \in Sounds /\ T.tor = f /\ T.conn = S.conn /\ T.half = S.half /\ T.limit = S.limit
<1> DEFINE ps == {}
<1>1. S \in PcRec /\ Grouped(S) /\ Off(S, t, 0)  BY SoundFacts
<1>2. /\ Alive(m.peers) = Alive(S.tor[t].peers) \ ps /\ ps \in SUBSET Alive(S.tor[t].peers)
      /\ Cardinality(ps) = 0
  BY FS_EmptySet
<1> HIDE DEF ps
<1>3. /\ T \in PcRec /\ T.tor = f /\ T.conn = S.conn /\ T.half = S.half /\ T.limit = S.limit
      /\ Off(T, t, 0 + Cardinality(ps))
  BY <1>1, <1>2, PeersOff
<1>4. Off(T, t, 0)  BY <1>2, <1>3
<1>5. Grouped(T)  BY <1>1, <1>3 DEF Grouped
<1>6. QED  BY <1>3, <1>4, <1>5, OneOff

\* A peer comes that was not there, and takes a token.
LEMMA CreateOff ==
  ASSUME NEW S \in PcRec, NEW t \in Torrents, NEW k \in Int, Off(S, t, k), Grouped(S),
         NEW a \in Addrs, NEW pid \in PeerIds, ~ConnectedTo(S, t, pid),
         NEW T, T = CreatePeer(S, t, a, pid)
  PROVE  /\ T \in PcRec /\ Grouped(T) /\ T.conn = S.conn /\ Off(T, t, k - 1)
<1> DEFINE p == [addr |-> a, pid |-> pid, killed |-> FALSE]
           m == [S.tor[t] EXCEPT !.peers = @ \cup {p}]
           f == [S.tor EXCEPT ![t] = m]
           U == [S EXCEPT !.tor = f]
<1>1. S.tor \in [Torrents -> Manager] /\ S.tor[t] \in Manager  BY PcFields
<1>2. p \in Peer /\ ~p.killed /\ p.pid = pid  BY DEF Peer
<1>3. T = U
  <2>1. T = [S EXCEPT !.tor[t].peers = @ \cup {p}]  BY DEF CreatePeer
  <2> HIDE DEF p
  <2>2. QED  BY <2>1
<1> HIDE DEF p
<1>4. m \in Manager /\ m.peers = S.tor[t].peers \cup {p}  BY <1>1, <1>2 DEF Manager
<1>5. p \notin S.tor[t].peers  BY <1>2 DEF ConnectedTo
<1>6. p \notin Alive(S.tor[t].peers) /\ Alive(m.peers) = Alive(S.tor[t].peers) \cup {p}
  BY <1>2, <1>4, <1>5 DEF Alive
<1>7. U \in PcRec /\ U.half = S.half /\ U.conn = S.conn /\ Off(U, t, k - 1)
  <2>1. f = [S.tor EXCEPT ![t] = m] /\ U = [S EXCEPT !.tor = f]  OBVIOUS
  <2> HIDE DEF m, f, U
  <2>2. m \in Manager  BY <1>4
  <2>3. /\ U \in PcRec /\ U.half = S.half /\ U.conn = S.conn
        /\ \A q \in Peer : q \notin Alive(S.tor[t].peers)
                           /\ Alive(m.peers) = Alive(S.tor[t].peers) \cup {q} => Off(U, t, k - 1)
    BY <2>1, <2>2, PeersOff
  <2>4. QED  BY <1>2, <1>6, <2>3
<1>8. Grouped(U)  BY <1>7 DEF Grouped
<1>9. QED  BY <1>3, <1>7, <1>8

\* A connector is made for an address, with a token of its own.
LEMMA ConnectorSound ==
  ASSUME NEW S \in Sounds, NEW t \in Torrents, NEW c \in Conns, S.conn[c] = NoConn,
         NEW d \in Conn, d.t = t, NEW T, T = RmAdd([Acquire(S, t) EXCEPT !.conn[c] = d], c)
  PROVE  T \in Sounds
<1> DEFINE A == Acquire(S, t)
           f == [A.conn EXCEPT ![c] = d]
           U == [A EXCEPT !.conn = f]
<1>1. S \in PcRec /\ Off(S, t, 0)  BY SoundFacts
<1>2. A \in PcRec /\ A.tor = S.tor /\ A.conn = S.conn /\ A.half = S.half /\ Off(A, t, 0 + 1)
  BY <1>1, AcquireOff
<1>3. Off(A, t, 1)  BY <1>2
<1>4. T = RmAdd(U, c)  OBVIOUS
<1> HIDE DEF A
<1>5. U \in PcRec /\ U.conn = f /\ Off(U, t, 1 - 1)
  <2>1. /\ f = [A.conn EXCEPT ![c] = d] /\ U = [A EXCEPT !.conn = f]
        /\ d \in Conn \cup {NoConn} /\ A.conn[c] = NoConn /\ 1 \in Int
    BY <1>2
  <2> HIDE DEF f, U
  <2>2. QED  BY <1>2, <1>3, <2>1, ConnOff
<1>6. Off(U, t, 0)  BY <1>5
<1>7. U.conn[c].t \in Torrents  BY <1>2, <1>5, PcFields
<1> HIDE DEF U, f
<1>8. Undisturbed(U, T) /\ Grouped(T)  BY <1>4, <1>5, <1>7, AddUndisturbed
<1>9. T \in PcRec /\ Off(T, t, 0)  BY <1>5, <1>6, <1>8, UndisturbedOff DEF Undisturbed
<1>10. QED  BY <1>8, <1>9, OneOff

LEMMA ConnectSound ==
  ASSUME NEW S \in Sounds, NEW t \in Torrents
  PROVE  ConnectToPeer(S, t) \in Sounds
<1> DEFINE free == {c \in Conns : S.conn[c] = NoConn}
           a == Min(S.tor[t].potential)
           rest == [S EXCEPT !.tor[t].potential = @ \ {a}]
           new == [t |-> t, addr |-> a, tried |-> {}, method |-> "none"]
           c == Min(free)
           stop == \/ S.tor[t].paused \/ S.tor[t].potential = {}
                   \/ free = {}
                   \/ Cardinality(ConnsOf(S, t)) > MaxAuths
           skip == a \in Blocked \/ \E p \in S.tor[t].peers : p.addr = a
           T == ConnectToPeer(S, t)
           R == RmAdd([Acquire(rest, t) EXCEPT !.conn[c] = new], c)
<1>1. /\ stop => T = S
      /\ ~stop /\ skip => T = rest
      /\ ~stop /\ ~skip /\ ~CanAcquire(S, t) => T = S
      /\ ~stop /\ ~skip /\ CanAcquire(S, t) => T = R
  BY Zenon DEF ConnectToPeer
<1>2. S \in PcRec /\ S.tor \in [Torrents -> Manager] /\ S.tor[t] \in Manager  BY SoundFacts, PcFields
<1>3. S.tor[t].potential \in SUBSET Addrs  BY <1>2 DEF Manager
<1> DEFINE m == [S.tor[t] EXCEPT !.potential = @ \ {a}]
           f == [S.tor EXCEPT ![t] = m]
           V == [S EXCEPT !.tor = f]
<1>4. rest = V  OBVIOUS
<1>5. m \in Manager /\ m.peers = S.tor[t].peers
  <2> HIDE DEF a
  <2>1. QED  BY <1>2 DEF Manager
<1>6. V \in Sounds /\ V.conn = S.conn
  <2>1. f = [S.tor EXCEPT ![t] = m] /\ V = [S EXCEPT !.tor = f]  OBVIOUS
  <2> HIDE DEF m, f, V
  <2>2. QED  BY <1>5, <2>1, ManagerChanges
<1>7. ASSUME ~stop PROVE R \in Sounds
  <2>1. c \in free
    <3>1. free # {} /\ free \in SUBSET Nat  BY <1>7, PcNumbers
    <3> HIDE DEF free
    <3>2. QED  BY <3>1, MinIn
  <2>2. a \in Addrs
    <3>1. S.tor[t].potential # {} /\ S.tor[t].potential \in SUBSET Nat  BY <1>3, <1>7, PcNumbers
    <3>2. a \in S.tor[t].potential  BY <3>1, MinIn
    <3>3. QED  BY <1>3, <3>2
  <2> HIDE DEF a
  <2>3. new \in Conn /\ new.t = t  BY <2>2 DEF Conn
  <2>4. c \in Conns /\ S.conn[c] = NoConn  BY <2>1
  <2>5. R = RmAdd([Acquire(V, t) EXCEPT !.conn[c] = new], c)  BY <1>4
  <2> HIDE DEF c, new, V, R, free, rest
  <2>6. QED  BY <1>6, <2>3, <2>4, <2>5, ConnectorSound
<1> HIDE DEF stop, skip, R, rest, T, V
<1>8. T \in Sounds  BY <1>1, <1>4, <1>6, <1>7
<1>9. QED  BY <1>8 DEF T

\* The loop of connectToPeers: one address after the other.
LEMMA ConnectsSound ==
  ASSUME NEW S \in Sounds, NEW t \in Torrents
  PROVE  ConnectToPeers(S, t) \in Sounds
<1> DEFINE n == Cardinality(Addrs)
           Runs(F) == F = [i \in 0 .. n |-> IF i = 0 THEN S ELSE ConnectToPeer(F[i - 1], t)]
           F == CHOOSE G : Runs(G)
<1>1. ConnectToPeers(S, t) = F[n]  BY Zenon DEF ConnectToPeers
<1>2. n \in Nat  BY PcNumbers
<1>3. \A U \in Sounds : ConnectToPeer(U, t) \in Sounds  BY ConnectSound
<1> HIDE DEF n
<1>4. \E G : Runs(G)
  <2> DEFINE g == [x \in Sounds \X Nat |-> ConnectToPeer(x[1], t)]
  <2>1. \A U \in Sounds, i \in Nat : g[<<U, i>>] = ConnectToPeer(U, t)  OBVIOUS
  <2> HIDE DEF g
  <2>2. TurnsIn(g, Sounds)  BY <1>3, <2>1 DEF TurnsIn
  <2>3. \E G : Loop(G, g, Sounds, S, n)
    <3> HIDE DEF Runs, F
    <3>1. QED  BY <1>2, <2>2, LoopExists
  <2>4. PICK G : Loop(G, g, Sounds, S, n)  BY <2>3
  <2>5. ASSUME NEW i \in 0 .. n, i # 0 PROVE G[i] = ConnectToPeer(G[i - 1], t)
    <3>1. i \in 1 .. n /\ i \in Nat /\ i - 1 \in 0 .. n  BY <1>2, <2>5
    <3>2. G[i - 1] \in Sounds  BY <2>4, <3>1 DEF Loop
    <3>3. QED  BY <2>1, <2>4, <3>1, <3>2 DEF Loop
  <2>6. \A i \in 0 .. n : G[i] = IF i = 0 THEN S ELSE ConnectToPeer(G[i - 1], t)
    BY <2>4, <2>5 DEF Loop
  <2>7. G = [i \in 0 .. n |-> G[i]]  BY <2>4 DEF Loop
  <2>8. Runs(G)  BY <2>6, <2>7
  <2>9. QED  BY <2>8
<1>5. Runs(F)  BY <1>4, Zenon
<1> HIDE DEF F
<1>6. \A i \in 0 .. n : F[i] = IF i = 0 THEN S ELSE ConnectToPeer(F[i - 1], t)  BY <1>5
<1> HIDE DEF Runs
<1>7. F[0] \in Sounds  BY <1>2, <1>6
<1>8. ASSUME NEW i \in 1 .. n, F[i - 1] \in Sounds PROVE F[i] \in Sounds
  <2>1. i \in 0 .. n /\ i # 0  BY <1>2
  <2>2. QED  BY <1>3, <1>6, <1>8, <2>1
<1>9. \A i \in 0 .. n : F[i] \in Sounds  BY <1>2, <1>7, <1>8, LoopStays
<1>10. QED  BY <1>1, <1>2, <1>9

\* The same, and no peer has come or gone.
Alike(S) == {T \in Sounds : T.tor = S.tor}

LEMMA DestroyedAlike ==
  ASSUME NEW S \in Sounds, NEW t \in Torrents, NEW U \in Alike(S)
  PROVE  DestroyOne(U, t) \in Alike(S)
<1> DEFINE c == CHOOSE x \in ConnsOf(U, t) : TRUE
           T == Destroy(U, c, TRUE)
<1>1. U \in Sounds /\ U \in PcRec /\ Grouped(U) /\ Off(U, t, 0) /\ U.tor = S.tor
  BY SoundFacts DEF Alike
<1>2. CASE ConnsOf(U, t) = {}  BY <1>2 DEF DestroyOne
<1>3. CASE ConnsOf(U, t) # {}
  <2>1. c \in ConnsOf(U, t)  BY <1>3, Zenon
  <2>2. DestroyOne(U, t) = T  BY <1>3, Zenon DEF DestroyOne
  <2>3. c \in Conns /\ U.conn[c].t = t  BY <2>1 DEF ConnsOf
  <2>4. T = Destroy(U, c, TRUE) /\ TRUE \in BOOLEAN /\ Off(U, t, IF TRUE THEN 0 ELSE -1)  BY <1>1
  <2> HIDE DEF c, T
  <2>5. T \in Sounds /\ T.tor = U.tor  BY <1>1, <2>3, <2>4, DestroyOff
  <2>6. QED  BY <1>1, <2>2, <2>5 DEF Alike
<1>4. QED  BY <1>2, <1>3

\* Stopping takes down the connectors one by one, then all the peers.
LEMMA StopSound ==
  ASSUME NEW S \in Sounds, NEW t \in Torrents
  PROVE  StopManager(S, t) \in Sounds
<1> DEFINE n == Cardinality(Conns)
           m0 == [S.tor[t] EXCEPT !.started = FALSE]
           f0 == [S.tor EXCEPT ![t] = m0]
           S0 == [S EXCEPT !.tor = f0]
           Runs(F) == F = [i \in 0 .. n |-> IF i = 0 THEN [S EXCEPT !.tor[t].started = FALSE]
                                            ELSE DestroyOne(F[i - 1], t)]
           F == CHOOSE G : Runs(G)
           k == Cardinality(Alive(S.tor[t].peers))
<1>1. StopManager(S, t) = [Release(F[n], t, k) EXCEPT !.tor[t].peers = {}]  BY Zenon DEF StopManager
<1>2. n \in Nat  BY PcNumbers
<1>3. /\ S \in PcRec /\ S.tor \in [Torrents -> Manager] /\ S.tor[t] \in Manager
      /\ S.tor[t].peers \in SUBSET Peer /\ k \in Nat
  BY SoundFacts, PcFields, PcSets
<1>4. m0 \in Manager /\ m0.peers = S.tor[t].peers  BY <1>3 DEF Manager
<1>5. S0 \in Sounds /\ S0.tor = f0 /\ S0.tor[t] = m0
  <2>1. f0 = [S.tor EXCEPT ![t] = m0] /\ S0 = [S EXCEPT !.tor = f0]  OBVIOUS
  <2>2. f0[t] = m0  BY <1>3
  <2> HIDE DEF m0, f0, S0
  <2>3. QED  BY <1>4, <2>1, <2>2, ManagerChanges
<1>6. \A H : Runs(H) <=> H = [i \in 0 .. n |-> IF i = 0 THEN S0 ELSE DestroyOne(H[i - 1], t)]
  <2>1. S0 = [S EXCEPT !.tor[t].started = FALSE]  OBVIOUS
  <2> HIDE DEF S0
  <2>2. QED  BY <2>1
<1> HIDE DEF n, S0, k, Runs
<1> DEFINE D == Alike(S0)
<1>7. S0 \in D /\ \A U \in D : DestroyOne(U, t) \in D  BY <1>5, DestroyedAlike DEF Alike
<1> HIDE DEF D
<1>8. \E G : Runs(G)
  <2> DEFINE g == [x \in D \X Nat |-> DestroyOne(x[1], t)]
  <2>1. \A U \in D, i \in Nat : g[<<U, i>>] = DestroyOne(U, t)  OBVIOUS
  <2> HIDE DEF g
  <2>2. TurnsIn(g, D)  BY <1>7, <2>1 DEF TurnsIn
  <2>3. \E G : Loop(G, g, D, S0, n)
    <3> HIDE DEF F
    <3>1. QED  BY <1>2, <1>7, <2>2, LoopExists
  <2>4. PICK G : Loop(G, g, D, S0, n)  BY <2>3
  <2>5. ASSUME NEW i \in 0 .. n, i # 0 PROVE G[i] = DestroyOne(G[i - 1], t)
    <3>1. i \in 1 .. n /\ i \in Nat /\ i - 1 \in 0 .. n  BY <1>2, <2>5
    <3>2. G[i - 1] \in D  BY <2>4, <3>1 DEF Loop
    <3>3. QED  BY <2>1, <2>4, <3>1, <3>2 DEF Loop
  <2>6. \A i \in 0 .. n : G[i] = IF i = 0 THEN S0 ELSE DestroyOne(G[i - 1], t)
    BY <2>4, <2>5 DEF Loop
  <2>7. G = [i \in 0 .. n |-> G[i]]  BY <2>4 DEF Loop
  <2>8. G = [i \in 0 .. n |-> IF i = 0 THEN S0 ELSE DestroyOne(G[i - 1], t)]  BY <2>6, <2>7
  <2>9. QED  BY <1>6, <2>8
<1>9. Runs(F)  BY <1>8, Zenon
<1> HIDE DEF F
<1>10. \A i \in 0 .. n : F[i] = IF i = 0 THEN S0 ELSE DestroyOne(F[i - 1], t)  BY <1>6, <1>9
<1>11. F[0] \in D  BY <1>2, <1>7, <1>10
<1>12. ASSUME NEW i \in 1 .. n, F[i - 1] \in D PROVE F[i] \in D
  <2>1. i \in 0 .. n /\ i # 0  BY <1>2
  <2>2. QED  BY <1>7, <1>10, <1>12, <2>1
<1>13. \A i \in 0 .. n : F[i] \in D  BY <1>2, <1>11, <1>12, LoopStays
<1> DEFINE U == F[n]
<1>14. U \in Sounds /\ U.tor = S0.tor  BY <1>2, <1>13 DEF D, Alike
<1>15. /\ U \in PcRec /\ Grouped(U) /\ Off(U, t, 0) /\ U.tor[t] = m0
       /\ U.tor[t].peers = S.tor[t].peers
  BY <1>4, <1>5, <1>14, SoundFacts
<1> HIDE DEF U, m0
<1>16. k <= 0 + Tokens(U, t)  BY <1>3, <1>15, PcSets DEF Tokens, k
<1> DEFINE R == Release(U, t, k)
<1>17. R \in PcRec /\ R.tor = U.tor /\ R.half = U.half /\ Off(R, t, 0 - k)
  BY <1>3, <1>15, <1>16, ReleaseOff
<1> HIDE DEF R
<1> DEFINE m == [R.tor[t] EXCEPT !.peers = {}]
           f == [R.tor EXCEPT ![t] = m]
           T == [R EXCEPT !.tor = f]
           ps == Alive(R.tor[t].peers)
<1>18. StopManager(S, t) = T
  <2>1. StopManager(S, t) = [R EXCEPT !.tor[t].peers = {}]  BY <1>1 DEF R, U
  <2>2. QED  BY <2>1
<1>19. m \in Manager /\ Alive(m.peers) = {}  BY <1>17, PcFields DEF Manager, Alive
<1>20. k = Cardinality(ps) /\ Alive(m.peers) = Alive(R.tor[t].peers) \ ps
  BY <1>15, <1>17, <1>19 DEF k
<1>21. T \in PcRec /\ T.half = R.half /\ Off(T, t, (0 - k) + k)
  <2>1. f = [R.tor EXCEPT ![t] = m] /\ T = [R EXCEPT !.tor = f] /\ m \in Manager
    BY <1>19
  <2>2. 0 - k \in Int  BY <1>3
  <2>3. ps \in SUBSET Alive(R.tor[t].peers)  OBVIOUS
  <2> HIDE DEF m, f, T, ps
  <2>4. /\ T \in PcRec /\ T.half = R.half
        /\ \A qs \in SUBSET Alive(R.tor[t].peers) :
              Alive(m.peers) = Alive(R.tor[t].peers) \ qs => Off(T, t, (0 - k) + Cardinality(qs))
    BY <1>17, <2>1, <2>2, PeersOff
  <2>5. QED  BY <1>20, <2>3, <2>4
<1>22. Off(T, t, 0)  BY <1>3, <1>21
<1>23. Grouped(T)  BY <1>15, <1>17, <1>21 DEF Grouped
<1> HIDE DEF T
<1>24. QED  BY <1>18, <1>21, <1>22, <1>23, OneOff

\* Dead peers leave the map, the addresses of the stalled ones stay known.
LEMMA SweepSound ==
  ASSUME NEW S \in Sounds, NEW t \in Torrents, NEW as \in SUBSET Addrs,
         NEW T, T = [S EXCEPT !.tor[t].potential = @ \cup as, !.tor[t].peers = Alive(@)]
  PROVE  T \in Sounds
<1> DEFINE m == [S.tor[t] EXCEPT !.potential = S.tor[t].potential \cup as,
                                 !.peers = Alive(S.tor[t].peers)]
           f == [S.tor EXCEPT ![t] = m]
           U == [S EXCEPT !.tor = f]
<1>1. S \in PcRec /\ S.tor \in [Torrents -> Manager] /\ S.tor[t] \in Manager  BY SoundFacts, PcFields
<1>2. T = U  BY <1>1 DEF PcRec, Manager
<1>3. m \in Manager /\ m.peers = Alive(S.tor[t].peers)
  <2>1. Alive(S.tor[t].peers) \in SUBSET Peer  BY <1>1, PcSets
  <2>2. QED  BY <1>1, <2>1 DEF Manager
<1>4. Alive(m.peers) = Alive(S.tor[t].peers)  BY <1>3 DEF Alive
<1>5. f = [S.tor EXCEPT ![t] = m] /\ U = [S EXCEPT !.tor = f]  OBVIOUS
<1> HIDE DEF m, f, U
<1>6. U \in Sounds  BY <1>3, <1>4, <1>5, ManagerChanges
<1>7. QED  BY <1>2, <1>6

\* An incoming connection takes a free token; there may be none.
LEMMA NewSound ==
  ASSUME NEW S \in Sounds, NEW t \in Torrents, NEW a \in Addrs, NEW pid \in PeerIds,
         ~ConnectedTo(S, t, pid), NEW T, T = CreatePeer(Acquire(S, t), t, a, pid)
  PROVE  T \in Sounds
<1> DEFINE A == Acquire(S, t)
<1>1. S \in PcRec /\ Grouped(S) /\ Off(S, t, 0)  BY SoundFacts
<1>2. A \in PcRec /\ A.tor = S.tor /\ A.half = S.half /\ Off(A, t, 0 + 1)  BY <1>1, AcquireOff
<1>3. Off(A, t, 1)  BY <1>2
<1>4. Grouped(A) /\ ~ConnectedTo(A, t, pid)  BY <1>1, <1>2 DEF Grouped, ConnectedTo
<1> HIDE DEF A
<1>5. T \in PcRec /\ Grouped(T) /\ Off(T, t, 1 - 1)
  <2>1. T = CreatePeer(A, t, a, pid)  BY DEF A
  <2>2. QED  BY <1>2, <1>3, <1>4, <2>1, CreateOff
<1>6. Off(T, t, 0)  BY <1>5
<1>7. QED  BY <1>5, <1>6, OneOff

\* A handshake that succeeds hands the token of the connector to the peer.
LEMMA SucceedSound ==
  ASSUME NEW S \in Sounds, NEW c \in Conns, NEW t \in Torrents, S.conn[c].t = t,
         NEW a \in Addrs, NEW pid \in PeerIds, ~ConnectedTo(S, t, pid),
         NEW T, T = Destroy(CreatePeer(S, t, a, pid), c, FALSE)
  PROVE  T \in Sounds
<1> DEFINE U == CreatePeer(S, t, a, pid)
<1>1. S \in PcRec /\ Grouped(S) /\ Off(S, t, 0)  BY SoundFacts
<1>2. U \in PcRec /\ Grouped(U) /\ U.conn = S.conn /\ Off(U, t, 0 - 1)  BY <1>1, CreateOff
<1>3. Off(U, t, IF FALSE THEN 0 ELSE -1) /\ U.conn[c].t = t /\ FALSE \in BOOLEAN  BY <1>2
<1> HIDE DEF U
<1>4. T = Destroy(U, c, FALSE)  BY DEF U
<1>5. QED  BY <1>2, <1>3, <1>4, DestroyOff

LEMMA FailSound ==
  ASSUME NEW S \in Sounds, NEW c \in Conns, NEW t \in Torrents, S.conn[c].t = t,
         NEW T, T = Destroy(S, c, TRUE)
  PROVE  T \in Sounds
<1>1. S \in PcRec /\ Grouped(S) /\ Off(S, t, 0)  BY SoundFacts
<1>2. Off(S, t, IF TRUE THEN 0 ELSE -1) /\ TRUE \in BOOLEAN  BY <1>1
<1>3. QED  BY <1>1, <1>2, DestroyOff

\* The next method keeps the connector and its token.
LEMMA RetrySound ==
  ASSUME NEW S \in Sounds, NEW c \in Conns, S.conn[c] # NoConn,
         NEW m \in Methods, NEW tried \in SUBSET Methods,
         NEW T, T = [S EXCEPT !.conn[c].tried = tried, !.conn[c].method = m]
  PROVE  T \in Sounds
<1> DEFINE d == [S.conn[c] EXCEPT !.tried = tried, !.method = m]
           f == [S.conn EXCEPT ![c] = d]
           U == [S EXCEPT !.conn = f]
<1>1. S \in PcRec /\ Grouped(S) /\ S.conn \in [Conns -> Conn \cup {NoConn}]  BY SoundFacts, PcFields
<1>2. S.conn[c] \in Conn /\ S.conn[c].t \in Torrents  BY <1>1, PcConnFacts
<1>3. T = U  BY <1>1, <1>2 DEF PcRec, Conn
<1>4. d \in Conn /\ d.t = S.conn[c].t  BY <1>2 DEF Conn
<1> HIDE DEF d
<1>5. f \in [Conns -> Conn \cup {NoConn}] /\ \A x \in Conns : f[x].t = S.conn[x].t  BY <1>1, <1>4
<1>6. /\ U \in PcRec /\ U.tor = S.tor /\ U.conn = f /\ U.half = S.half /\ U.limit = S.limit
  <2>1. U = [S EXCEPT !.conn = f]  OBVIOUS
  <2> HIDE DEF f, U
  <2>2. QED  BY <1>1, <1>5, <2>1, PcChanges
<1>7. Undisturbed(S, U) /\ Grouped(U)  BY <1>1, <1>5, <1>6 DEF Undisturbed, Grouped
<1> HIDE DEF U, f
<1>8. Off(S, S.conn[c].t, 0)  BY <1>2, SoundFacts
<1>9. Off(U, S.conn[c].t, 0)  BY <1>1, <1>7, <1>8, UndisturbedOff
<1>10. QED  BY <1>2, <1>3, <1>6, <1>7, <1>9, OneOff

-----------------------------------------------------------------------------
LEMMA WorldFields ==
  /\ World.tor = tor /\ World.conn = conn /\ World.half = half /\ World.limit = limit
  /\ World'.tor = tor' /\ World'.conn = conn' /\ World'.half = half' /\ World'.limit = limit'
BY DEF World

LEMMA BecomeSound ==
  ASSUME NEW S \in Sounds, Become(S)
  PROVE  World' \in Sounds
<1>1. S = [tor |-> S.tor, conn |-> S.conn, half |-> S.half, limit |-> S.limit]
  BY SoundFacts DEF PcRec
<1>2. World' = [tor |-> S.tor, conn |-> S.conn, half |-> S.half, limit |-> S.limit]
  BY DEF World, Become
<1>3. QED  BY <1>1, <1>2

\* Start, Pause and AddPotentialPeer leave the peers of the manager alone.
LEMMA ManagerStep ==
  ASSUME World \in Sounds, NEW t \in Torrents, NEW m \in Manager, m.peers = tor[t].peers,
         tor' = [tor EXCEPT ![t] = m], UNCHANGED <<conn, half, limit>>
  PROVE  World' \in Sounds
<1> DEFINE S == World
           f == [S.tor EXCEPT ![t] = m]
           T == [S EXCEPT !.tor = f]
<1>1. S \in Sounds /\ Alive(m.peers) = Alive(S.tor[t].peers)  BY WorldFields
<1>2. World' = T  BY DEF World
<1>3. f = [S.tor EXCEPT ![t] = m] /\ T = [S EXCEPT !.tor = f]  OBVIOUS
<1> HIDE DEF S, f, T
<1>4. T \in Sounds  BY <1>1, <1>3, ManagerChanges
<1>5. QED  BY <1>2, <1>4

LEMMA ManagersOf ==
  ASSUME World \in Sounds
  PROVE  tor \in [Torrents -> Manager] /\ conn \in [Conns -> Conn \cup {NoConn}] /\ limit \in LimRec
BY SoundFacts, PcFields, WorldFields

LEMMA StartStep ==
  ASSUME World \in Sounds, NEW t \in Torrents, Start(t)
  PROVE  World' \in Sounds
<1> DEFINE m == [tor[t] EXCEPT !.started = TRUE, !.paused = FALSE]
<1>1. tor \in [Torrents -> Manager]  BY ManagersOf
<1>2. m \in Manager /\ m.peers = tor[t].peers  BY <1>1 DEF Manager
<1>3. tor' = [tor EXCEPT ![t] = m] /\ UNCHANGED <<conn, half, limit>>  BY <1>1 DEF Start, Manager
<1> HIDE DEF m
<1>4. QED  BY <1>2, <1>3, ManagerStep

LEMMA PauseStep ==
  ASSUME World \in Sounds, NEW t \in Torrents, Pause(t)
  PROVE  World' \in Sounds
<1> DEFINE b == ~tor[t].paused
           m == [tor[t] EXCEPT !.paused = b]
<1>1. tor \in [Torrents -> Manager]  BY ManagersOf
<1>2. tor' = [tor EXCEPT ![t] = m] /\ UNCHANGED <<conn, half, limit>>  BY <1>1 DEF Pause
<1>3. b \in BOOLEAN  OBVIOUS
<1> HIDE DEF b
<1>4. m \in Manager /\ m.peers = tor[t].peers  BY <1>1, <1>3 DEF Manager
<1> HIDE DEF m
<1>5. QED  BY <1>2, <1>4, ManagerStep

LEMMA PotentialStep ==
  ASSUME World \in Sounds, NEW t \in Torrents, NEW a \in Addrs, AddPotentialPeer(t, a)
  PROVE  World' \in Sounds
<1> DEFINE m == [tor[t] EXCEPT !.potential = @ \cup {a}]
<1>1. tor \in [Torrents -> Manager]  BY ManagersOf
<1>2. m \in Manager /\ m.peers = tor[t].peers  BY <1>1 DEF Manager
<1>3. tor' = [tor EXCEPT ![t] = m] /\ UNCHANGED <<conn, half, limit>>  BY <1>1 DEF AddPotentialPeer
<1> HIDE DEF m
<1>4. QED  BY <1>2, <1>3, ManagerStep

LEMMA StopStep ==
  ASSUME World \in Sounds, NEW t \in Torrents, Stop(t)
  PROVE  World' \in Sounds
<1>1. Become(StopManager(World, t))  BY DEF Stop
<1>2. StopManager(World, t) \in Sounds  BY StopSound
<1>3. QED  BY <1>1, <1>2, BecomeSound

LEMMA UpdateStep ==
  ASSUME World \in Sounds, NEW t \in Torrents, PmUpdate(t)
  PROVE  World' \in Sounds
<1>1. PICK stalled \in SUBSET Alive(tor[t].peers) :
        \E S \in {Kill(World, t, stalled)} :
        \E S1 \in {[S EXCEPT !.tor[t].potential = @ \cup {p.addr : p \in stalled},
                             !.tor[t].peers = Alive(@)]} :
        \E S2 \in {ConnectToPeers(S1, t)} : Become(S2)
  BY DEF PmUpdate
<1> DEFINE as == {p.addr : p \in stalled}
           S == Kill(World, t, stalled)
           S1 == [S EXCEPT !.tor[t].potential = @ \cup as, !.tor[t].peers = Alive(@)]
<1>2. Become(ConnectToPeers(S1, t))  BY <1>1
<1>3. stalled \in SUBSET World.tor[t].peers  BY WorldFields DEF Alive
<1>4. as \in SUBSET Addrs
  <2>1. World.tor[t].peers \in SUBSET Peer  BY SoundFacts, PcSets
  <2>2. QED  BY <1>3, <2>1 DEF Peer
<1>5. S \in Sounds  BY <1>3, KillOff
<1> HIDE DEF as, S
<1>6. S1 \in Sounds
  <2>1. S1 = [S EXCEPT !.tor[t].potential = @ \cup as, !.tor[t].peers = Alive(@)]  OBVIOUS
  <2> HIDE DEF S1
  <2>2. QED  BY <1>4, <1>5, <2>1, SweepSound
<1> HIDE DEF S1
<1>7. ConnectToPeers(S1, t) \in Sounds  BY <1>6, ConnectsSound
<1>8. QED  BY <1>2, <1>7, BecomeSound, SMTT(15)

\* Killing does not take a peer out of the map: its id stays known.
LEMMA KilledKnown ==
  ASSUME NEW S \in Sounds, NEW t \in Torrents, NEW p \in S.tor[t].peers, NEW pid,
         ~ConnectedTo(S, t, pid), NEW T, T = Kill(S, t, {p})
  PROVE  T \in Sounds /\ ~ConnectedTo(T, t, pid)
<1> DEFINE P == S.tor[t].peers
           Q == (P \ {p}) \cup AsKilled({p})
<1>1. /\ T \in Sounds
      /\ T.tor = [S.tor EXCEPT ![t].peers = (@ \ {p}) \cup AsKilled({p})]
  <2> DEFINE ps == {p}
  <2>1. ps \in SUBSET S.tor[t].peers /\ T = Kill(S, t, ps)  OBVIOUS
  <2> HIDE DEF ps
  <2>2. /\ T \in Sounds
        /\ T.tor = [S.tor EXCEPT ![t].peers = (@ \ ps) \cup AsKilled(ps)]
    BY <2>1, KillOff, SMTT(15)
  <2>3. QED  BY <2>2 DEF ps
<1>2. S \in PcRec /\ S.tor \in [Torrents -> Manager] /\ P \in SUBSET Peer  BY SoundFacts, PcFields, PcSets
<1>3. T.tor[t].peers = Q  BY <1>1, <1>2 DEF Manager
<1>4. \A q \in AsKilled({p}) : q.pid = p.pid  BY <1>2 DEF AsKilled, Peer
<1>5. QED  BY <1>1, <1>3, <1>4 DEF ConnectedTo

LEMMA NewStep ==
  ASSUME World \in Sounds, NEW t \in Torrents, NEW a \in Addrs, NEW pid \in PeerIds,
         NewConnection(t, a, pid)
  PROVE  World' \in Sounds
<1>1. ~ConnectedTo(World, t, pid)  BY DEF NewConnection
<1>2. PICK S \in {World} \cup {Kill(World, t, {p}) : p \in tor[t].peers} :
        Become(IF CanAcquire(S, t) THEN CreatePeer(Acquire(S, t), t, a, pid) ELSE S)
  <2>1. CASE CanAcquire(World, t)  BY <2>1 DEF NewConnection
  <2>2. CASE ~CanAcquire(World, t)  BY <2>2 DEF NewConnection
  <2>3. QED  BY <2>1, <2>2
<1>3. S \in Sounds /\ ~ConnectedTo(S, t, pid)
  <2>1. CASE S = World  BY <1>1, <2>1
  <2>2. CASE S # World
    <3>1. PICK p \in tor[t].peers : S = Kill(World, t, {p})  BY <1>2, <2>2
    <3>2. p \in World.tor[t].peers  BY WorldFields
    <3>3. QED  BY <1>1, <3>1, <3>2, KilledKnown
  <2>3. QED  BY <2>1, <2>2
<1>4. CASE CanAcquire(S, t)
  <2> DEFINE T == CreatePeer(Acquire(S, t), t, a, pid)
  <2>1. Become(T)  BY <1>2, <1>4
  <2>2. T \in Sounds  BY <1>3, NewSound
  <2>3. QED  BY <2>1, <2>2, BecomeSound
<1>5. CASE ~CanAcquire(S, t)  BY <1>2, <1>3, <1>5, BecomeSound
<1>6. QED  BY <1>4, <1>5

LEMMA ConnectingFacts ==
  ASSUME World \in Sounds, NEW c \in Conns, conn[c].t # 0
  PROVE  /\ conn[c] \in Conn /\ conn[c].t \in Torrents /\ conn[c].addr \in Addrs
         /\ World.conn[c] # NoConn /\ World.conn[c].t = conn[c].t
<1>1. conn[c] \in Conn \cup {NoConn}  BY ManagersOf
<1>2. conn[c] # NoConn /\ conn[c] \in Conn  BY <1>1, PcConnFacts
<1>3. QED  BY <1>2, WorldFields DEF Conn

LEMMA SucceedStep ==
  ASSUME World \in Sounds, NEW c \in Conns, NEW pid \in PeerIds, AuthSucceeds(c, pid)
  PROVE  World' \in Sounds
<1> DEFINE t == conn[c].t
           a == conn[c].addr
           moved == tor[t].started /\ ~ConnectedTo(World, t, pid)
           S == IF moved THEN CreatePeer(World, t, a, pid) ELSE World
<1>1. conn[c].t # 0 /\ Become(Destroy(S, c, ~moved))  BY Zenon DEF AuthSucceeds
<1>2. /\ t \in Torrents /\ a \in Addrs /\ World.conn[c].t = t
  BY <1>1, ConnectingFacts
<1>3. CASE moved
  <2> DEFINE T == Destroy(CreatePeer(World, t, a, pid), c, FALSE)
  <2>1. ~ConnectedTo(World, t, pid)  BY <1>3
  <2>2. Become(T)
    <3>1. S = CreatePeer(World, t, a, pid) /\ (~moved) = FALSE  BY <1>3
    <3> HIDE DEF S, moved
    <3>2. QED  BY <1>1, <3>1
  <2> HIDE DEF t, a
  <2>3. T \in Sounds  BY <1>2, <2>1, SucceedSound
  <2>4. QED  BY <2>2, <2>3, BecomeSound
<1>4. CASE ~moved
  <2> DEFINE T == Destroy(World, c, TRUE)
  <2>1. Become(T)
    <3>1. S = World /\ (~moved) = TRUE  BY <1>4
    <3> HIDE DEF S, moved
    <3>2. QED  BY <1>1, <3>1
  <2> HIDE DEF t, a
  <2>2. T \in Sounds  BY <1>2, FailSound
  <2>3. QED  BY <2>1, <2>2, BecomeSound
<1>5. QED  BY <1>3, <1>4

LEMMA FailStep ==
  ASSUME World \in Sounds, NEW c \in Conns, AuthFails(c)
  PROVE  World' \in Sounds
<1> DEFINE tried == conn[c].tried \cup {conn[c].method}
<1>1. conn[c].t # 0 /\ conn[c].method # "none"  BY DEF AuthFails
<1>2. PICK ok \in BOOLEAN :
        \E x \in {conn[c].tried \cup {conn[c].method}} :
        \E left \in {MethodsLeft(x, ok)} :
        \E S \in {IF left # <<>>
                  THEN [World EXCEPT !.conn[c].tried = x, !.conn[c].method = Head(left)]
                  ELSE Destroy(World, c, TRUE)} : Become(S)
  BY Zenon DEF AuthFails
<1>3. /\ conn[c] \in Conn /\ World.conn[c] # NoConn /\ conn[c].t \in Torrents
      /\ World.conn[c].t = conn[c].t
  BY <1>1, ConnectingFacts
<1>4. tried \in SUBSET Methods  BY <1>1, <1>3 DEF Conn
<1> DEFINE left == MethodsLeft(tried, ok)
<1>5. /\ left # <<>> => Become([World EXCEPT !.conn[c].tried = tried, !.conn[c].method = Head(left)])
      /\ left = <<>> => Become(Destroy(World, c, TRUE))
  BY <1>2, Zenon
<1>6. left \in Seq(Methods)  BY MethodFacts
<1> HIDE DEF tried
<1>7. CASE left # <<>>
  <2> DEFINE m == Head(left)
             T == [World EXCEPT !.conn[c].tried = tried, !.conn[c].method = m]
  <2>1. Become(T)  BY <1>5, <1>7
  <2>2. m \in Methods  BY <1>6, <1>7
  <2>3. T = [World EXCEPT !.conn[c].tried = tried, !.conn[c].method = m]  OBVIOUS
  <2> HIDE DEF m, T
  <2>4. T \in Sounds  BY <1>3, <1>4, <2>2, <2>3, RetrySound
  <2>5. QED  BY <2>1, <2>4, BecomeSound
<1>8. CASE left = <<>>
  <2> DEFINE T == Destroy(World, c, TRUE)
  <2>1. Become(T)  BY <1>5, <1>8
  <2>2. T \in Sounds  BY <1>3, FailSound
  <2>3. QED  BY <2>1, <2>2, BecomeSound
<1>9. QED  BY <1>7, <1>8

LEMMA KillStep ==
  ASSUME World \in Sounds, NEW t \in Torrents, KillPeer(t)
  PROVE  World' \in Sounds
<1>1. PICK p \in tor[t].peers : Become(Kill(World, t, {p}))  BY DEF KillPeer
<1>2. {p} \in SUBSET World.tor[t].peers  BY WorldFields
<1>3. Kill(World, t, {p}) \in Sounds  BY <1>2, KillOff
<1>4. QED  BY <1>1, <1>3, BecomeSound

LEMMA LimitsStep ==
  ASSUME World \in Sounds, SetLimits
  PROVE  World' \in Sounds
<1> DEFINE S == World
<1>1. PICK g \in GlobalLimits, l \in TorrentLimits :
        limit' = [limit EXCEPT !.gmax = g, !.tmax = l] /\ UNCHANGED <<tor, conn, half>>
  BY DEF SetLimits
<1>2. limit \in LimRec  BY ManagersOf
<1>3. limit' \in LimRec /\ limit'.total = limit.total /\ limit'.totals = limit.totals
  BY <1>1, <1>2 DEF LimRec
<1> DEFINE T == [S EXCEPT !.limit = limit']
<1>4. World' = T  BY <1>1 DEF World
<1>5. S \in PcRec /\ Grouped(S) /\ S.limit.total = AllTokens(S) /\ \A t \in Torrents : Off(S, t, 0)
  BY DEF Sounds
<1>6. S.limit = limit  BY WorldFields
<1> HIDE DEF S
<1>7. T \in PcRec /\ T.tor = S.tor /\ T.conn = S.conn /\ T.half = S.half /\ T.limit = limit'
  <2>1. T = [S EXCEPT !.limit = limit']  OBVIOUS
  <2> HIDE DEF T
  <2>2. QED  BY <1>3, <1>5, <2>1, PcChanges
<1> HIDE DEF T
<1>8. /\ AllTokens(T) = AllTokens(S) /\ \A t \in Torrents : Tokens(T, t) = Tokens(S, t)
      /\ Grouped(T)
  BY <1>5, <1>7 DEF AllTokens, Tokens, Grouped, ConnsOf, Connecters, Living
<1>9. \A t \in Torrents : Off(T, t, 0)  BY <1>3, <1>5, <1>6, <1>7, <1>8 DEF Off
<1>10. T.limit.total = AllTokens(T)  BY <1>3, <1>5, <1>6, <1>7, <1>8
<1>11. QED  BY <1>4, <1>7, <1>8, <1>9, <1>10 DEF Sounds

LEMMA PcStarts ==
  ASSUME PcInit
  PROVE  World \in Sounds
<1>1. Min(GlobalLimits) \in GlobalLimits /\ Min(TorrentLimits) \in TorrentLimits
  BY PcAssumption, MinIn
<1>2. tor \in [Torrents -> Manager] /\ \A t \in Torrents : tor[t].peers = {}
  BY DEF PcInit, Manager
<1>3. conn \in [Conns -> Conn \cup {NoConn}] /\ \A c \in Conns : conn[c] = NoConn  BY DEF PcInit
<1>4. half \in HalfRec /\ half.active = {}  BY DEF PcInit, HalfRec
<1>5. /\ limit \in LimRec /\ limit.total = 0 /\ \A t \in Torrents : limit.totals[t] = 0
  BY <1>1 DEF PcInit, LimRec
<1>6. World \in PcRec  BY <1>2, <1>3, <1>4, <1>5 DEF World, PcRec
<1>7. Grouped(World)  BY <1>4, WorldFields DEF Grouped
<1>8. Connecters(World) = {} /\ Living(World) = {}
  BY <1>2, <1>3, WorldFields DEF Connecters, Living, Alive
<1>9. ASSUME NEW t \in Torrents PROVE ConnsOf(World, t) = {} /\ Alive(World.tor[t].peers) = {}
  <2>1. t # 0 /\ NoConn.t = 0  BY PcNumbers DEF NoConn
  <2>2. QED  BY <1>2, <1>3, <2>1, WorldFields DEF ConnsOf, Alive
<1>10. Cardinality({}) = 0  BY FS_EmptySet
<1>11. AllTokens(World) = 0 /\ \A t \in Torrents : Tokens(World, t) = 0
  BY <1>8, <1>9, <1>10 DEF AllTokens, Tokens
<1>12. World.limit.total = AllTokens(World) /\ \A t \in Torrents : Off(World, t, 0)
  BY <1>5, <1>11, WorldFields DEF Off
<1>13. QED  BY <1>6, <1>7, <1>12 DEF Sounds

LEMMA PcStep ==
  ASSUME World \in Sounds, [PcNext]_pcVars
  PROVE  World' \in Sounds
<1>1. CASE UNCHANGED pcVars
  <2>1. World' = World  BY <1>1 DEF pcVars, World
  <2>2. QED  BY <2>1
<1>2. CASE PcNext
  <2>1. ASSUME NEW t \in Torrents, Start(t) \/ Stop(t) \/ Pause(t) \/ PmUpdate(t) \/ KillPeer(t)
        PROVE  World' \in Sounds
    BY <2>1, StartStep, StopStep, PauseStep, UpdateStep, KillStep
  <2>2. ASSUME NEW t \in Torrents, NEW a \in Addrs, AddPotentialPeer(t, a)
        PROVE  World' \in Sounds
    BY <2>2, PotentialStep
  <2>3. ASSUME NEW t \in Torrents, NEW a \in Addrs, NEW pid \in PeerIds, NewConnection(t, a, pid)
        PROVE  World' \in Sounds
    BY <2>3, NewStep
  <2>4. ASSUME NEW c \in Conns, AuthFails(c) PROVE World' \in Sounds  BY <2>4, FailStep
  <2>5. ASSUME NEW c \in Conns, NEW pid \in PeerIds, AuthSucceeds(c, pid) PROVE World' \in Sounds
    BY <2>5, SucceedStep
  <2>6. ASSUME SetLimits PROVE World' \in Sounds  BY <2>6, LimitsStep
  <2>7. QED  BY <1>2, <2>1, <2>2, <2>3, <2>4, <2>5, <2>6 DEF PcNext
<1>3. QED  BY <1>1, <1>2

\* The tokens of every torrent are those of its connectors and living peers,
\* all tokens are those of all, and a slot in use belongs to a group: kept by
\* every step of PeerManager, PeerConnector and ConnectionLimit.
THEOREM PcInvariant == PcSpec => []PcInv
<1>1. PcInv <=> World \in Sounds  BY WorldFields DEF PcInv, Sounds
<1>2. PcInit => World \in Sounds  BY PcStarts
<1>3. World \in Sounds /\ [PcNext]_pcVars => (World \in Sounds)'
  <2> SUFFICES ASSUME World \in Sounds, [PcNext]_pcVars PROVE (World \in Sounds)'  OBVIOUS
  <2>1. World' \in Sounds  BY PcStep
  <2>2. QED  BY <2>1 DEF Sounds, PcRec, Grouped, AllTokens, Off
<1>4. PcSpec => [](World \in Sounds)  BY <1>2, <1>3, PTL DEF PcSpec
<1>5. QED  BY <1>1, <1>4, PTL

LEMMA PcInvExact ==
  ASSUME PcInv
  PROVE  TokensExact
<1>1. World \in PcRec  BY DEF PcInv
<1>2. /\ tor \in [Torrents -> Manager] /\ conn \in [Conns -> Conn \cup {NoConn}]
      /\ half \in HalfRec /\ limit \in LimRec
  BY <1>1, PcFields, WorldFields
<1>3. PcTypeOK  BY <1>2 DEF PcTypeOK, HalfRec, LimRec
<1>4. ASSUME NEW t \in Torrents
      PROVE  limit.totals[t] = Cardinality(ConnsOf(World, t)) + Cardinality(Alive(tor[t].peers))
  <2>1. limit.totals[t] = Tokens(World, t) + 0  BY WorldFields DEF PcInv, Off
  <2>2. Tokens(World, t) \in Nat  BY <1>1, TokensWithin
  <2>3. QED  BY <2>1, <2>2, WorldFields DEF Tokens
<1>5. limit.total = Cardinality({c \in Conns : conn[c] # NoConn})
                  + Cardinality({x \in Torrents \X Peer : x[2] \in Alive(tor[x[1]].peers)})
  BY WorldFields DEF PcInv, AllTokens, Connecters, Living
<1>6. QED  BY <1>3, <1>4, <1>5 DEF TokensExact

\* Every token is held by exactly one connector or one peer that is not killed,
\* for any numbers of torrents, addresses and connectors and any limits: no
\* connection slot leaks and none is counted twice.
THEOREM TokensStayExact == PcSpec => []TokensExact
<1>1. PcInv => TokensExact  BY PcInvExact
<1>2. QED  BY <1>1, PcInvariant, PTL
=============================================================================
