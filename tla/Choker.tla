------------------------------- MODULE Choker -------------------------------
(***************************************************************************)
(* Who may download from us: the choker gives the upload slots to the best *)
(* interested peers and one of them to an optimistic choice.               *)
(* src/src/torrent/{choker,advancedchokealgorithm,uploader}.cpp, with the  *)
(* Peer handlers that change what it looks at.                             *)
(***************************************************************************)
EXTENDS Integers, FiniteSets, SequencesExt, Lists

CONSTANTS Leechers,      \* the Peer objects
          SlotCounts     \* values setNumUploadSlots is called with

VARIABLES lch,           \* the peers: what the choker knows of each
          opt,           \* opt_unchoked_peer_id
          slots,         \* Choker::num_upload_slots
          applied        \* the slots of the last run, for the property

chVars == <<lch, opt, slots, applied>>

Nobody == "nobody"

ASSUME ChokerAssumption == /\ SlotCounts \subseteq Nat \ {0}
                           /\ IsFiniteSet(Leechers) /\ Nobody \notin Leechers

Leecher == [in : BOOLEAN, interested : BOOLEAN, wants : BOOLEAN, chokesUs : BOOLEAN,
            slot : BOOLEAN]
Away == [in |-> FALSE, interested |-> FALSE, wants |-> FALSE, chokesUs |-> TRUE,
         slot |-> FALSE]

ChInit == /\ lch = [p \in Leechers |-> Away] /\ opt = Nobody
          /\ slots \in SlotCounts /\ applied = slots

ChTypeOK == /\ lch \in [Leechers -> Leecher]
            /\ opt \in Leechers \cup {Nobody}
            /\ slots \in SlotCounts

Join(p) == /\ ~lch[p].in
           /\ lch' = [lch EXCEPT ![p] = [Away EXCEPT !.in = TRUE, !.wants = TRUE]]
           /\ UNCHANGED <<opt, slots, applied>>

Leave(p) == /\ lch[p].in /\ lch' = [lch EXCEPT ![p] = Away]
            /\ UNCHANGED <<opt, slots, applied>>

\* handleInterested, handleNotInterested, handleChoke, handleUnchoke.
PeerChanges(p) == /\ lch[p].in
                  /\ \/ lch' = [lch EXCEPT ![p].interested = ~@]
                     \/ lch' = [lch EXCEPT ![p].chokesUs = ~@]
                  /\ UNCHANGED <<opt, slots, applied>>

\* The peer becomes a seeder, or has everything we have.
Completes(p) == /\ lch[p].in /\ lch[p].wants
                /\ lch' = [lch EXCEPT ![p].wants = FALSE]
                /\ UNCHANGED <<opt, slots, applied>>

\* calcACAScore decides who takes part; the order by score or upload rate
\* is any order of them.
Candidates == {p \in Leechers : lch[p].in /\ lch[p].wants /\ lch[p].interested}
Orders == SetToSeqs(Candidates)

\* FindPlannedOptimisticUnchokedPeer: the first peer after a random one that
\* has choked us; that one itself is not looked at.
PlannedPeer(ppl, start) ==
    LET n == Len(ppl)
        others == [i \in 1 .. n - 1 |-> ppl[((start - 1 + i) % n) + 1]]
        choking == Only(others, {p \in Leechers : lch[p].chokesUs})
    IN IF choking = <<>> THEN Nobody ELSE Head(choking)

Planned(ppl) == IF ppl = <<>> THEN {Nobody} ELSE {PlannedPeer(ppl, s) : s \in DOMAIN ppl}

\* updateOptimisticPeer: a new one every 30 seconds, or when it is gone.
NextOptimistic(ppl) ==
    Planned(ppl) \cup IF opt # Nobody /\ lch[opt].in THEN {opt} ELSE {}

\* Mutant: the optimistic peer gets a slot on top of the others.
UnchokedPlusOne(ppl, poup) ==
    {ppl[i] : i \in 1 .. (IF slots < Len(ppl) THEN slots ELSE Len(ppl))} \cup ({poup} \cap Range(ppl))

\* doUnchoking: without an optimistic peer every slot goes to the best, with
\* one it keeps the last slot, also while it takes no part.
Unchoked(ppl, poup) ==
    LET best == Only(ppl, Range(ppl) \ {poup})
        n == IF poup = Nobody THEN slots ELSE slots - 1
    IN {best[i] : i \in 1 .. (IF n < Len(best) THEN n ELSE Len(best))}
       \cup ({poup} \cap Range(ppl))

ChokerUpdate ==
    \E ppl \in Orders : \E poup \in NextOptimistic(ppl) :
       \E on \in {Unchoked(ppl, poup)} :
          /\ opt' = poup
          /\ lch' = [p \in Leechers |-> [lch[p] EXCEPT !.slot = p \in on]]
          /\ applied' = slots /\ UNCHANGED slots

\* Pausing chokes every peer.
ChokeAll == /\ lch' = [p \in Leechers |-> [lch[p] EXCEPT !.slot = FALSE]]
            /\ UNCHANGED <<opt, slots, applied>>

SetNumUploadSlots(n) == slots' = n /\ UNCHANGED <<lch, opt, applied>>

ChNext == \/ \E p \in Leechers : Join(p) \/ Leave(p) \/ PeerChanges(p) \/ Completes(p)
          \/ ChokerUpdate \/ ChokeAll
          \/ \E n \in SlotCounts : SetNumUploadSlots(n)

ChSpec == ChInit /\ [][ChNext]_chVars

-----------------------------------------------------------------------------
(* However peers come, go and change their interest between two runs of    *)
(* the choker, never more of them hold an upload slot than there were      *)
(* slots in the last run, the optimistic one included.                     *)
SlotsBounded == ChTypeOK /\ Cardinality({p \in Leechers : lch[p].slot}) <= applied
=============================================================================
