------------------------------- MODULE MC_Net -------------------------------
(***************************************************************************)
(* A webseed and the network threads, which share no state: while one of   *)
(* them moves the other stays where it starts.                             *)
(***************************************************************************)
EXTENDS WebSeed, TrafficShaping

\* With chunks of 3 bytes: a file that ends in a chunk with a file inside it
\* and the last one; files that share two chunks; a torrent of one file.
MCLayouts == {[size |-> <<4, 1, 1>>, single |-> FALSE],
              [size |-> <<4, 4, 1>>, single |-> FALSE],
              [size |-> <<5>>, single |-> TRUE]}

WsIdle == lay.single /\ WsInit
ShIdle == sh.thread = "up" /\ sh.pc = "wait" /\ ShInit

MCInit == WsInit /\ ShInit

MCNext == \/ ShIdle /\ WsNext /\ UNCHANGED shVars
          \/ WsIdle /\ ShNext /\ UNCHANGED wsVars

\* The fairness of both parts; the thread is not asked to leave the state it
\* starts in while the webseed moves.
MCFairness ==
    /\ WsFairness
    /\ []<>(sh.pc # "wait" \/ ~WsIdle) /\ []<>(sh.pc # "update") /\ SF_shVars(PollReturns({}))

MCSpec == MCInit /\ [][MCNext]_<<wsVars, shVars>> /\ MCFairness

=============================================================================
