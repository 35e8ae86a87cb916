----------------------------- MODULE MC_Connect -----------------------------
(***************************************************************************)
(* Five parts of getting connected that share no state: the connections of *)
(* the torrents, the metadata of a magnet link, the encrypted handshake,   *)
(* the way through a SOCKS proxy and the ports forwarded on a router. A    *)
(* behaviour is one of the five; the others stay as they start.            *)
(***************************************************************************)
EXTENDS PeerConnections, Magnet, PeerStream, Upnp

MgIdle == mag = [running |-> FALSE, found |-> FALSE, source |-> FALSE, stopping |-> FALSE]
          /\ dhtOn /\ mp = [p \in MPeers |-> NoPeer]
MsIdle == side = "client" /\ arrived = 0 /\ pads = [first |-> 0, second |-> 0, rc4 |-> TRUE]
SxIdle == /\ sx.auth = "idle" /\ sx.version = 5 /\ sx.host = 1
          /\ ~sx.password /\ ~sx.dest6

MCInit == PcInit /\ MgInit /\ MsInit /\ SxInit /\ UnInit

MCNext ==
  \/ MgIdle /\ MsIdle /\ SxIdle /\ UnInit /\ PcNext /\ UNCHANGED <<mgVars, msVars, sx, unVars>>
  \/ PcInit /\ MsIdle /\ SxIdle /\ UnInit /\ MgNext /\ UNCHANGED <<pcVars, msVars, sx, unVars>>
  \/ PcInit /\ MgIdle /\ SxIdle /\ UnInit /\ MsNext /\ UNCHANGED <<pcVars, mgVars, sx, unVars>>
  \/ PcInit /\ MgIdle /\ MsIdle /\ UnInit /\ SxNext /\ UNCHANGED <<pcVars, mgVars, msVars, unVars>>
  \/ PcInit /\ MgIdle /\ MsIdle /\ SxIdle /\ UnNext /\ UNCHANGED <<pcVars, mgVars, msVars, sx>>

MCSpec == MCInit /\ [][MCNext]_<<pcVars, mgVars, msVars, sx, unVars>> /\ PcFairness /\ MgFairness

=============================================================================
