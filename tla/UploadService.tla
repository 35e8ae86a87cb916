--------------------------- MODULE UploadService ---------------------------
(***************************************************************************)
(* What uploading promises a peer: a request it has made stays open until  *)
(* it is answered, once, by the piece or a reject, or is withdrawn. With   *)
(* the fast extensions only the peer withdraws requests (a cancel);        *)
(* without them a choke does so too.                                       *)
(***************************************************************************)
EXTENDS Integers

CONSTANT Requests

VARIABLES open,          \* how often each request has no answer yet,
          answered,      \* how often it was answered,
          withdrawn      \* and how often it needs no answer any more

vars == <<open, answered, withdrawn>>

Init == /\ open = [r \in Requests |-> 0] /\ answered = [r \in Requests |-> 0]
        /\ withdrawn = [r \in Requests |-> 0]

Receive(r) == /\ open' = [open EXCEPT ![r] = @ + 1]
              /\ UNCHANGED <<answered, withdrawn>>

Refuse(r) == /\ withdrawn' = [withdrawn EXCEPT ![r] = @ + 1]
             /\ UNCHANGED <<open, answered>>

Answer(r) == /\ open[r] > 0
             /\ open' = [open EXCEPT ![r] = @ - 1]
             /\ answered' = [answered EXCEPT ![r] = @ + 1]
             /\ UNCHANGED withdrawn

\* Any of the open requests.
Withdraw == /\ open' \in [Requests -> Nat] /\ \A r \in Requests : open'[r] <= open[r]
            /\ withdrawn' = [r \in Requests |-> withdrawn[r] + open[r] - open'[r]]
            /\ UNCHANGED answered

Next == \/ \E r \in Requests : Receive(r) \/ Refuse(r) \/ Answer(r)
        \/ Withdraw

Spec == Init /\ [][Next]_vars
=============================================================================
