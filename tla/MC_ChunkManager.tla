-------------------------- MODULE MC_ChunkManager --------------------------
(***************************************************************************)
(* Small torrents for TLC.  Layouts are sequences of <<first, last>> chunks *)
(* of the files.                                                            *)
(***************************************************************************)
EXTENDS ChunkManagerProps

\* files of three chunks and of one, which share chunk 2
SharedFirst == <<0, 2>>
SharedLast  == <<2, 2>>

\* a file of two chunks, the second shared with a file of one chunk
PairFirst == <<0, 1>>
PairLast  == <<1, 1>>

Video == {1}
=============================================================================
