----------------------------- MODULE MC_Torrent -----------------------------
(***************************************************************************)
(* Four parts of a torrent that share no state but its layout: its life    *)
(* (start, stop, jobs on its data), its trackers, its data on disk, and a  *)
(* stream that reads a file of it. A behaviour is one of the four; the     *)
(* others stay as they start.                                              *)
(***************************************************************************)
EXTENDS TorrentControl, Trackers, DiskCache, Streaming

CONSTANTS h, u          \* an HTTP and a UDP tracker

MCRank == [t \in Urls |-> IF t = h THEN 1 ELSE 2]

\* A torrent with a tracker; one with none, to which the user may add it; and
\* a private torrent with two.
MCTorrents == {[priv |-> FALSE, list |-> {h}, custom |-> {}],
               [priv |-> FALSE, list |-> {}, custom |-> {h}],
               [priv |-> TRUE, list |-> {h, u}, custom |-> {}]}

\* With chunks of 3 bytes: a file that ends in a chunk with a file inside it
\* and the last one; files that share two chunks; a torrent of one file.
MCLayouts == {[size |-> <<4, 1, 1>>, single |-> FALSE],
              [size |-> <<4, 4, 1>>, single |-> FALSE],
              [size |-> <<5>>, single |-> TRUE]}

\* A first file that is smaller than a chunk.
MCSmall == {[size |-> <<1, 2>>, single |-> FALSE]}

\* The part that moves is the only one that left its initial states.
TkIdle == mgr.priv /\ TkInit

MCInit == TcInit /\ TkInit /\ DcInit /\ StInit

MCNext ==
    \/ /\ TkIdle /\ DcFresh /\ StFresh /\ lay.single
       /\ TcNext /\ UNCHANGED <<tkVars, dcVars, stVars>>
    \/ /\ TcInit /\ DcFresh /\ StFresh /\ lay.single
       /\ TkNext /\ UNCHANGED <<tcVars, dcVars, stVars>>
    \/ TcInit /\ TkIdle /\ StFresh /\ DcNext /\ UNCHANGED <<tcVars, tkVars, stVars>>
    \/ TcInit /\ TkIdle /\ DcFresh /\ StNext /\ UNCHANGED <<tcVars, tkVars, dcVars>>

MCSpec == MCInit /\ [][MCNext]_<<tcVars, tkVars, dcVars, stVars>>

=============================================================================
