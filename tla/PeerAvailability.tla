-------------------------- MODULE PeerAvailability --------------------------
(***************************************************************************)
(* Which chunks the connected peers have: the bitsets of the Peers, the    *)
(* ChunkCounter and the available chunks of PeerManager, the interest we   *)
(* declare, and the SuperSeeder that hands out one chunk per peer.         *)
(* src/src/peer/{peer,peermanager,chunkcounter,superseeder}.cpp.           *)
(***************************************************************************)
EXTENDS Integers, FiniteSets, FiniteSetsExt, Functions

CONSTANTS Peers,         \* names of Peer objects
          NumChunks,
          WantedSets,    \* what setWantedChunks is called with
          MaxCount       \* bound on what the counters count up to

ASSUME AvAssumption == /\ NumChunks \in Nat \ {0} /\ IsFiniteSet(Peers)
                       /\ WantedSets \subseteq SUBSET (0 .. NumChunks - 1)

VARIABLES peer,          \* the Peers of the peer map
          pman,          \* PeerManager
          seeder         \* its SuperSeeder, NoSeeder without one

avVars == <<peer, pman, seeder>>

Chunks == 0 .. NumChunks - 1
NoSeeder == [on |-> FALSE]
PeerState == [st : {"none", "live", "killed"}, pieces : SUBSET Chunks, am : BOOLEAN]

NoPeer == [st |-> "none", pieces |-> {}, am |-> FALSE]

AvTypeOK ==
    /\ peer \in [Peers -> PeerState]
    /\ pman.cnt \in [Chunks -> Nat] /\ pman.avail \subseteq Chunks
    /\ seeder.on => /\ seeder.cnt \in [Chunks -> Nat] /\ seeder.seeders \in Nat
                    /\ seeder.active \in [Peers -> Chunks \cup {NumChunks}]
                    /\ seeder.chunks \subseteq Chunks \X Peers

AvWorld == [peer |-> peer, pman |-> pman, seeder |-> seeder]
AvBecome(S) == peer' = S.peer /\ pman' = S.pman /\ seeder' = S.seeder

\* ChunkCounter: dec stops at zero. DecBitSets is decBitSet with the bitset of
\* each of the peers ps.
Owners(S, ps, c) == {p \in ps : c \in S.peer[p].pieces}
Lowered(n, k) == IF n > k THEN n - k ELSE 0
IncBitSet(cnt, bs) == [c \in Chunks |-> IF c \in bs THEN cnt[c] + 1 ELSE cnt[c]]
DecBitSets(S, cnt, ps) == [c \in Chunks |-> Lowered(cnt[c], Cardinality(Owners(S, ps, c)))]

-----------------------------------------------------------------------------
(* SuperSeeder. seeder.active is active_peers (NumChunks: no entry),       *)
(* seeder.chunks is active_chunks. Operators that pick a random chunk      *)
(* yield the set of the possible next states.                              *)

AllOn(S, p) == S.peer[p].pieces = Chunks
NewSeeder == [on |-> TRUE, cnt |-> [c \in Chunks |-> 0], seeders |-> 0,
              active |-> [p \in Peers |-> NumChunks], chunks |-> {}]

\* Each peer p of ps is given chunk f[p], or none when f[p] is NumChunks.
Allow(S, f, ps) ==
    [S EXCEPT !.seeder.active = [p \in Peers |-> IF p \in ps THEN f[p] ELSE @[p]],
              !.seeder.chunks = @ \cup {<<f[p], p>> : p \in {q \in ps : f[q] # NumChunks}}]

\* The peers of ps lose theirs.
Disallow(S, ps) ==
    [S EXCEPT !.seeder.active = [p \in Peers |-> IF p \in ps THEN NumChunks ELSE @[p]],
              !.seeder.chunks = @ \ {<<S.seeder.active[p], p>> : p \in ps}]

\* The chunks sendChunk looks at, in order: it starts two after `start`.
SearchOrder(start) == [i \in 1 .. NumChunks - 1 |-> (start + 1 + i) % NumChunks]

\* The first chunk no downloader has or was sent; otherwise the last one the
\* peer does not have (the number of owners of the alternative is not kept).
ChunkFor(S, p, start) ==
    LET order == SearchOrder(start)
        lacking == {i \in DOMAIN order : order[i] \notin S.peer[p].pieces}
        unsent == {i \in lacking : /\ S.seeder.cnt[order[i]] = S.seeder.seeders
                                   /\ \A q \in Peers : <<order[i], q>> \notin S.seeder.chunks}
    IN IF unsent # {} THEN order[Min(unsent)]
       ELSE IF lacking # {} THEN order[Max(lacking)] ELSE NumChunks

\* What sendChunk may choose for a peer that has no entry.
MayAllow(S, p) == IF AllOn(S, p) THEN {NumChunks} ELSE {ChunkFor(S, p, start) : start \in Chunks}

SendChunk(S, p) ==
    IF S.seeder.active[p] # NumChunks THEN {S}
    ELSE {Allow(S, [q \in {p} |-> c], {p}) : c \in MayAllow(S, p)}

\* sendChunk for each of ps, which have no entries, in any order: f is what they
\* are given, each in the state the ones before it have left.
SendChunks(S, ps) ==
    {Allow(S, f, ps) : f \in {g \in [ps -> Chunks \cup {NumChunks}] :
        \E turn \in Injection(ps, 1 .. Cardinality(ps)) : \A p \in ps :
           g[p] \in MayAllow(Allow(S, g, {q \in ps : turn[q] < turn[p]}), p)}}

SsHave(S, p, c) ==
    LET others == {q \in Peers \ {p} : <<c, q>> \in S.seeder.chunks}
        S1 == [S EXCEPT !.seeder.cnt = IncBitSet(@, {c}),
                        !.seeder.seeders = @ + IF AllOn(S, p) THEN 1 ELSE 0]
    IN SendChunks(Disallow(S1, others), others)

SsHaveAll(S, p) == [Disallow(S, {p}) EXCEPT !.seeder.seeders = @ + 1]

\* have for each chunk of bs in turn.
SsBitset(S, p, bs) ==
    LET F[n \in 0 .. NumChunks] ==
            IF n = 0 THEN {S}
            ELSE IF n - 1 \in bs THEN UNION {SsHave(U, p, n - 1) : U \in F[n - 1]}
            ELSE F[n - 1]
    IN IF bs = Chunks THEN {SsHaveAll(S, p)} ELSE F[NumChunks]

\* peerAdded: a new peer has not sent its pieces yet.
SsPeerAdded(S, p) == SendChunk(S, p)

\* peerRemoved for each of ps.
SsPeerRemoved(S, ps) ==
    [Disallow(S, ps) EXCEPT
        !.seeder.seeders = Lowered(@, Cardinality({p \in ps : AllOn(S, p)})),
        !.seeder.cnt = DecBitSets(S, @, ps)]

-----------------------------------------------------------------------------
(* PeerManager and the handlers of Peer. *)

AvInit ==
    /\ peer = [p \in Peers |-> NoPeer]
    /\ pman = [started |-> FALSE, paused |-> FALSE, wanted |-> Chunks,
               changed |-> FALSE, cnt |-> [c \in Chunks |-> 0], avail |-> {}]
    /\ seeder = NoSeeder

InMap(p) == peer[p].st # "none"
Live(p) == peer[p].st = "live"
Wants(S, p) == S.peer[p].pieces \cap S.pman.wanted # {}

\* createPeer, for a connection that was accepted or made.
AddPeer(p) ==
    /\ pman.started /\ ~InMap(p)
    /\ \E S \in {[AvWorld EXCEPT !.peer[p].st = "live"]} :
       \E T \in IF seeder.on THEN SsPeerAdded(S, p) ELSE {S} : AvBecome(T)

\* Peer::handleHave: the manager hears of it before the bit is set.
HandleHave(p, c) ==
    /\ Live(p) /\ pman.cnt[c] < MaxCount
    /\ seeder.on => seeder.cnt[c] < MaxCount /\ seeder.seeders < MaxCount
    /\ \E S \in {[AvWorld EXCEPT !.peer[p].am = @ \/ (c \in pman.wanted /\ ~pman.paused),
                                 !.pman.avail = @ \cup {c},
                                 !.pman.cnt = IncBitSet(@, {c})]} :
       \E T \in IF seeder.on THEN SsHave(S, p, c) ELSE {S} :
          AvBecome([T EXCEPT !.peer[p].pieces = @ \cup {c}])

\* handleBitField, handleHaveAll and handleHaveNone: the bits are replaced.
HandleBitField(p, bs) ==
    /\ Live(p) /\ \A c \in bs : pman.cnt[c] < MaxCount
    /\ seeder.on => /\ seeder.seeders < MaxCount
                    /\ \A c \in bs : seeder.cnt[c] < MaxCount
    /\ \E S \in {[AvWorld EXCEPT
             !.peer[p] = [peer[p] EXCEPT !.pieces = bs,
                                         !.am = @ \/ (bs \cap pman.wanted # {} /\ ~pman.paused)],
             !.pman.avail = @ \cup bs,
             !.pman.cnt = IncBitSet(@, bs)]} :
       \E T \in IF seeder.on THEN SsBitset(S, p, bs) ELSE {S} : AvBecome(T)

KillAv(p) == /\ Live(p) /\ peer' = [peer EXCEPT ![p].st = "killed"]
             /\ UNCHANGED <<pman, seeder>>

\* Mutant: the available chunks are not computed again.
EraseKeepingAvailable(S, ps) ==
    LET S1 == [S EXCEPT !.pman.cnt = DecBitSets(S, @, ps)]
        S2 == IF S.seeder.on THEN SsPeerRemoved(S1, ps) ELSE S1
    IN [S2 EXCEPT !.peer = [p \in Peers |-> IF p \in ps THEN NoPeer ELSE @[p]]]

\* Killed peers leave the map.
Erase(S, ps) ==
    LET cnt == DecBitSets(S, S.pman.cnt, ps)
        S1 == [S EXCEPT !.pman.cnt = cnt, !.pman.avail = {c \in Chunks : cnt[c] > 0}]
        S2 == IF S.seeder.on THEN SsPeerRemoved(S1, ps) ELSE S1
    IN [S2 EXCEPT !.peer = [p \in Peers |-> IF p \in ps THEN NoPeer ELSE @[p]]]

UpdatePeer(S, p) ==
    IF S.peer[p].st = "live" /\ S.pman.changed
    THEN [S.peer[p] EXCEPT !.am = Wants(S, p)] ELSE S.peer[p]

\* PeerManager::update; a stalled peer is killed and erased in the same call.
AvUpdate ==
    /\ pman.started
    /\ \E stalled \in SUBSET {p \in Peers : Live(p)} :
       \E gone \in {stalled \cup {p \in Peers : peer[p].st = "killed"}} :
       \E S \in {IF gone = {} THEN AvWorld ELSE Erase(AvWorld, gone)} :
          AvBecome([S EXCEPT !.peer = [p \in Peers |-> UpdatePeer(S, p)],
                             !.pman.changed = FALSE])

SetWantedChunks(w) == /\ pman' = [pman EXCEPT !.wanted = w, !.changed = TRUE]
                      /\ UNCHANGED <<peer, seeder>>

AvPause == /\ ~pman.paused /\ pman' = [pman EXCEPT !.paused = TRUE]
           /\ peer' = [p \in Peers |-> [peer[p] EXCEPT !.am = FALSE]]
           /\ UNCHANGED seeder

\* Mutant: unpausing does not say again that we are interested.
UnpauseQuietly(S) == [S EXCEPT !.pman.paused = FALSE]

Unpause(S) ==
    IF ~S.pman.paused THEN S
    ELSE [S EXCEPT !.pman.paused = FALSE,
                   !.peer = [p \in Peers |-> [S.peer[p] EXCEPT !.am = @ \/ Wants(S, p)]]]

AvUnpause == pman.paused /\ AvBecome(Unpause(AvWorld))

AvStart(superseed) ==
    /\ ~pman.started
    /\ \E S \in {[AvWorld EXCEPT !.pman.started = TRUE,
                    !.seeder = IF superseed /\ ~@.on THEN NewSeeder ELSE @]} :
          AvBecome(Unpause(S))

AvStop ==
    /\ pman.started
    /\ pman' = [pman EXCEPT !.started = FALSE, !.avail = {}, !.cnt = [c \in Chunks |-> 0]]
    /\ peer' = [p \in Peers |-> NoPeer]
    /\ seeder' = NoSeeder

\* setSuperSeeding: every peer is killed, to be connected again.
SetSuperSeeding(on) ==
    /\ seeder.on # on
    /\ seeder' = IF on THEN NewSeeder ELSE NoSeeder
    /\ peer' = [p \in Peers |-> IF InMap(p) THEN [peer[p] EXCEPT !.st = "killed"] ELSE peer[p]]
    /\ UNCHANGED pman

AvNext ==
    \/ \E p \in Peers : \/ AddPeer(p) \/ KillAv(p)
                        \/ \E c \in Chunks : HandleHave(p, c)
                        \/ \E bs \in SUBSET Chunks : HandleBitField(p, bs)
    \/ AvUpdate \/ AvPause \/ AvUnpause \/ AvStop
    \/ \E w \in WantedSets : SetWantedChunks(w)
    \/ \E on \in BOOLEAN : AvStart(on) \/ SetSuperSeeding(on)

\* The update timer of the torrent keeps calling PeerManager::update.
AvSpec == AvInit /\ [][AvNext]_avVars /\ WF_avVars(AvUpdate)

-----------------------------------------------------------------------------
(* The two maps of the SuperSeeder are each other's inverse and name only  *)
(* peers that are still in the peer map: no dangling Peer pointer is       *)
(* followed when a chunk it was given turns up elsewhere.                  *)
SuperSeedConsistent ==
    seeder.on =>
        /\ \A p \in Peers, c \in Chunks :
              <<c, p>> \in seeder.chunks <=> seeder.active[p] = c
        /\ \A p \in Peers : seeder.active[p] # NumChunks => InMap(p)

(* However often and in whatever order a peer announces its chunks (have   *)
(* twice, a bitfield after haves, have-none after have-all) and whenever   *)
(* it is killed, the counter never counts fewer owners of a chunk than     *)
(* there are, and the available chunks are those it counts: a chunk some   *)
(* peer has is never taken for unavailable (ChunkCounter, PeerManager).    *)
AvailableExact ==
    /\ AvTypeOK
    /\ \A c \in Chunks :
          pman.cnt[c] >= Cardinality({p \in Peers : InMap(p) /\ c \in peer[p].pieces})
    /\ pman.avail = {c \in Chunks : pman.cnt[c] > 0}
    /\ SuperSeedConsistent

(* Once a change of the wanted chunks has been passed on and the torrent is *)
(* not paused, we have told every peer with a wanted chunk that we are      *)
(* interested: otherwise it would never unchoke us and the chunk could      *)
(* never be downloaded (PeerManager::have, bitSetReceived, unpause, update).*)
InterestKept ==
    pman.started /\ ~pman.paused /\ ~pman.changed =>
        \A p \in Peers : Live(p) /\ peer[p].pieces \cap pman.wanted # {} => peer[p].am
=============================================================================
