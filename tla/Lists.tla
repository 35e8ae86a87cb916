------------------------------- MODULE Lists -------------------------------
(***************************************************************************)
(* Two operators on sequences, in a form that can be reasoned about: the   *)
(* provers know nothing of SelectSeq and of the folds.                     *)
(***************************************************************************)
EXTENDS Integers, Sequences, FiniteSets

\* The elements of s that are in K, in their order.
Only(s, K) ==
    LET F[i \in 0 .. Len(s)] ==
            IF i = 0 THEN <<>>
            ELSE IF s[i] \in K THEN Append(F[i - 1], s[i]) ELSE F[i - 1]
    IN  F[Len(s)]

\* How often x occurs in s.
Count(s, x) == Cardinality({i \in DOMAIN s : s[i] = x})
=============================================================================
