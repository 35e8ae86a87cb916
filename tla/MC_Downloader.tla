--------------------------- MODULE MC_Downloader ---------------------------
(***************************************************************************)
(* Two instances of Downloader in one run, of which one moves and the      *)
(* other stays where it starts: two peers without webseeds and pausing,    *)
(* and one peer that takes one request at a time, with both.               *)
(***************************************************************************)
EXTENDS Downloader

CONSTANT q              \* a peer with the fast extensions

VARIABLES d1, have1, saved1, paused1, wire1

One == INSTANCE Downloader WITH
    Peer <- {q}, Fast <- {q}, Has <- [x \in {q} |-> Chunk], NumPieces <- 3,
    MaxReqs <- 1, MaxWait <- 1, WebSeeds <- TRUE, Pausing <- TRUE,
    d <- d1, have <- have1, saved <- saved1, paused <- paused1, wire <- wire1

\* every peer has every chunk
HasAll == [x \in Peer |-> Chunk]

MCInit == Init /\ One!Init

OneIdle == d1 = One!Fresh /\ have1 = {} /\ saved1 = <<>> /\ ~paused1 /\ wire1 = [x \in {q} |-> {}]

MCNext == \/ OneIdle /\ Next /\ UNCHANGED <<d1, have1, saved1, paused1, wire1>>
          \/ Init /\ One!Next /\ UNCHANGED vars

MCSpec == MCInit /\ [][MCNext]_<<vars, One!vars>>

\* RequestsTracked of both instances: also a webseed that delivers a chunk, a
\* pause and what is loaded after it leave no request without its mark and no
\* mark without its request (sendCancels, Downloader::pause, onChunkReady).
MCRequestsTracked == RequestsTracked /\ One!RequestsTracked
=============================================================================
