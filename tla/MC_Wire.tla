------------------------------- MODULE MC_Wire -------------------------------
(***************************************************************************)
(* Six parts of talking to connected peers that share no state: what they  *)
(* have and what we want of them, uploading to one, cutting the stream of  *)
(* one into packets, the choker, peer exchange and the encoding of         *)
(* extension messages. A behaviour is one of the six.                      *)
(***************************************************************************)
EXTENDS PeerAvailability, PeerUpload, PacketReader, Choker, PeerExchange, Bcodec, TLC

RdIdle == stream = <<0>> /\ pos = 0
ChIdle == lch = [p \in Leechers |-> Away] /\ opt = Nobody /\ slots = Min(SlotCounts)
          /\ applied = slots
PxIdle == PxInit /\ ~px.priv

MCInit == AvInit /\ UpInit /\ RdInit /\ ChInit /\ PxInit /\ BcInit

MCNext ==
    \/ RdIdle /\ ChIdle /\ UpInit /\ PxIdle /\ BcInit /\ AvNext
       /\ UNCHANGED <<upVars, rdVars, chVars, pxVars, bcVars>>
    \/ RdIdle /\ ChIdle /\ AvInit /\ PxIdle /\ BcInit /\ UpNext
       /\ UNCHANGED <<avVars, rdVars, chVars, pxVars, bcVars>>
    \/ ChIdle /\ AvInit /\ UpInit /\ PxIdle /\ BcInit /\ RdNext
       /\ UNCHANGED <<avVars, upVars, chVars, pxVars, bcVars>>
    \/ RdIdle /\ AvInit /\ UpInit /\ PxIdle /\ BcInit /\ ChNext
       /\ UNCHANGED <<avVars, upVars, rdVars, pxVars, bcVars>>
    \/ RdIdle /\ ChIdle /\ AvInit /\ UpInit /\ BcInit /\ PxNext
       /\ UNCHANGED <<avVars, upVars, rdVars, chVars, bcVars>>
    \/ RdIdle /\ ChIdle /\ AvInit /\ UpInit /\ PxIdle /\ BcNext
       /\ UNCHANGED <<avVars, upVars, rdVars, chVars, pxVars>>

MCSpec == MCInit /\ [][MCNext]_<<avVars, upVars, rdVars, chVars, pxVars, bcVars>>

\* Strings that hold bytes with a meaning of their own.
MCStrings == {<<>>, <<ByteE>>, <<1, Colon>>}

\* Peers and leechers are only compared, and nothing depends on an order of
\* them.
Alike == Permutations(Peers) \cup Permutations(Leechers)
=============================================================================
