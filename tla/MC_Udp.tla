------------------------------- MODULE MC_Udp -------------------------------
(***************************************************************************)
(* What runs over UDP: the searches, the routing table and the database of *)
(* the DHT, and a uTP connection. The four parts share no state: while one *)
(* of them moves the others stay where they start.                         *)
(*                                                                         *)
(* On the uTP connection "b" writes across the wrap of its sequence        *)
(* numbers, which start at 5.                                              *)
(***************************************************************************)
EXTENDS DhtTasks, DhtTable, DhtDatabase, Utp

MC_Writes == [e \in Sides |-> IF e = "a" THEN 0 ELSE 4]

MCInit == DhtInit /\ KbInit /\ DbInit /\ Init

MCNext ==
  \/ Init /\ KbInit /\ DbInit /\ DhtNext /\ UNCHANGED <<kbVars, dbVars, vars>>
  \/ Init /\ DhtInit /\ DbInit /\ KbNext /\ UNCHANGED <<dhtVars, dbVars, vars>>
  \/ Init /\ DhtInit /\ KbInit /\ DbNext /\ UNCHANGED <<dhtVars, kbVars, vars>>
  \/ DhtInit /\ KbInit /\ DbInit /\ Next /\ UNCHANGED <<dhtVars, kbVars, dbVars>>

MCSpec == MCInit /\ [][MCNext]_<<dhtVars, kbVars, dbVars, vars>> /\ DhtFairness

=============================================================================
