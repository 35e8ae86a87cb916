------------------------------- MODULE Magnet -------------------------------
(***************************************************************************)
(* Getting the metadata of a magnet link from peers: MagnetDownloader with *)
(* its sources of peers, the extension handshake, and one MetadataDownload *)
(* per peer that supports ut_metadata. Peers may answer with anything, in  *)
(* any order, or not at all.                                               *)
(* src/src/magnet/{magnetdownloader,metadatadownload}.cpp,                 *)
(* src/src/peer/{utmetadata,peer}.cpp.                                     *)
(***************************************************************************)
EXTENDS Integers, FiniteSets

CONSTANTS MPeers, Honest,  \* peers, and those that serve the metadata
          MetaPieces       \* pieces of METADATA_PIECE_SIZE

ASSUME MagnetAssumption == Honest \subseteq MPeers /\ MetaPieces \in Nat \ {0}

VARIABLES mag,           \* running, found, the DHT peer source, its timer
          dhtOn,         \* DHT::isRunning
          mp             \* the peers

mgVars == <<mag, dhtOn, mp>>

Pieces == 0 .. MetaPieces - 1
NoPeer == [st |-> "none", asked |-> {}, content |-> [i \in Pieces |-> "none"]]

MgInit == /\ mag = [running |-> FALSE, found |-> FALSE, source |-> FALSE, stopping |-> FALSE]
          /\ dhtOn \in BOOLEAN
          /\ mp = [p \in MPeers |-> NoPeer]

MgStart == /\ ~mag.running
           /\ mag' = [mag EXCEPT !.running = TRUE, !.source = dhtOn]
           /\ UNCHANGED <<dhtOn, mp>>

\* By the user, or by the timer onMetadataDownloaded has set.
MgStop == /\ mag.running
          /\ mag' = [mag EXCEPT !.running = FALSE, !.source = FALSE, !.stopping = FALSE]
          /\ mp' = [p \in MPeers |-> NoPeer]
          /\ UNCHANGED dhtOn

\* The DHT is switched on or off: dhtStarted, dhtStopped.
DhtSwitched == /\ dhtOn' = ~dhtOn
               /\ mag' = [mag EXCEPT !.source = mag.running /\ ~dhtOn]
               /\ UNCHANGED mp

\* onNewPeer kills a peer without the extension protocol: it never counts.
OnNewPeer(p) == /\ mag.running /\ mp[p].st = "none"
                /\ mp' = [mp EXCEPT ![p].st = "connected"]
                /\ UNCHANGED <<mag, dhtOn>>

PeerGone(p) == /\ mp[p].st # "none" /\ mp' = [mp EXCEPT ![p] = NoPeer]
               /\ UNCHANGED <<mag, dhtOn>>

\* The extended handshake names ut_metadata and a size: the download starts
\* with a request for the first piece. (A size that is too large kills the
\* peer, size zero leaves it without a download.)
ExtendedHandshake(p) ==
    /\ mp[p].st = "connected"
    /\ mp' = [mp EXCEPT ![p].st = "downloading", ![p].asked = {0}]
    /\ UNCHANGED <<mag, dhtOn>>

Have(content) == {i \in Pieces : content[i] # "none"}

\* Mutant: nothing more is asked for after the first piece.
AskNothing(content) == {}

\* downloadNext asks for every piece that is missing, also those asked for.
DownloadNext(content) == Pieces \ Have(content)

\* Data for piece i: stored when it has the right size, whoever asked.
OnData(p, i, quality) ==
    /\ mp[p].st = "downloading"
    /\ p \in Honest => i \in mp[p].asked /\ quality = "good"
    /\ \E content \in {[mp[p].content EXCEPT ![i] = quality]} :
       \E all \in {Have(content) = Pieces} :
       \E right \in {\A j \in Pieces : content[j] = "good"} :
          /\ mp' = [mp EXCEPT ![p].content = content,
                              ![p].asked = (@ \ {i}) \cup IF all THEN {} ELSE DownloadNext(content)]
          /\ mag' = IF all /\ right /\ ~mag.found
                    THEN [mag EXCEPT !.found = TRUE, !.stopping = TRUE] ELSE mag
    /\ UNCHANGED dhtOn

\* A reject, or data with a wrong index or size.
OnRefused(p) ==
    /\ mp[p].st = "downloading" /\ p \notin Honest
    /\ mp' = [mp EXCEPT ![p].asked = @ \cup DownloadNext(mp[p].content)]
    /\ UNCHANGED <<mag, dhtOn>>

MgNext == \/ MgStart \/ MgStop \/ DhtSwitched
          \/ \E p \in MPeers : \/ OnNewPeer(p) \/ PeerGone(p) \/ ExtendedHandshake(p)
                               \/ OnRefused(p)
                               \/ \E i \in Pieces, q \in {"good", "bad"} : OnData(p, i, q)

\* An honest peer completes the handshake and answers every request.
MgFairness ==
    \A p \in Honest : /\ WF_mgVars(ExtendedHandshake(p))
                      /\ \A i \in Pieces : WF_mgVars(OnData(p, i, "good"))

-----------------------------------------------------------------------------
(* One honest peer that stays connected is enough to find the metadata,    *)
(* whatever the other peers send: wrong pieces, rejects, nothing           *)
(* (MetadataDownload::downloadNext, the hash check of MagnetDownloader).   *)
MetadataArrives ==
    \A p \in Honest : <>[](mp[p].st # "none") => <>mag.found
=============================================================================
