----------------------------- MODULE ListFacts -----------------------------
(***************************************************************************)
(* Facts about the operators of Lists and about least numbers. Every       *)
(* induction is by a least counterexample: the set of the numbers for      *)
(* which a statement fails has no least element, so it is empty.           *)
(***************************************************************************)
EXTENDS Lists, SequencesExt, WellFoundedInduction, SequenceTheorems, FiniteSetTheorems, TLAPS

\* A set of natural numbers has a least element.
LEMMA LeastNat ==
  ASSUME NEW T \in SUBSET Nat, T # {}
  PROVE  \E n \in T : \A m \in T : n <= m
<1>1. PICK n \in T : \A m \in T : ~(<<m, n>> \in OpToRel(<, Nat))
  BY NatLessThanWellFounded, WFMin, Zenon
<1>2. ASSUME NEW m \in T PROVE n <= m
  <2>1. ~(<<m, n>> \in OpToRel(<, Nat))  BY <1>1
  <2>2. ~(m < n)  BY <2>1 DEF OpToRel
  <2>3. QED  BY <2>2
<1>3. QED  BY <1>2

\* Induction over the natural numbers, with the statement as a set.
LEMMA Inductive ==
  ASSUME NEW P, 0 \in P, \A n \in Nat : n \in P => n + 1 \in P
  PROVE  Nat \subseteq P
<1> DEFINE T == Nat \ P
<1> SUFFICES ASSUME T # {} PROVE FALSE
  OBVIOUS
<1>1. PICK n \in T : \A m \in T : n <= m  BY LeastNat
<1>2. n # 0 /\ n - 1 \in Nat  OBVIOUS
<1>3. n - 1 \notin T  BY <1>1, <1>2
<1>4. QED  BY <1>2, <1>3

\* A loop of n turns that stays in D: turn i takes the value x to g[x, i]. It has
\* a run, and whatever satisfies its equations on 0 .. n stays in D.
TurnsIn(g, D) == \A x \in D, i \in Nat \ {0} : g[<<x, i>>] \in D
Loop(F, g, D, x0, n) == /\ F \in [0 .. n -> D] /\ F[0] = x0
                        /\ \A i \in 1 .. n : F[i] = g[<<F[i - 1], i>>]

LEMMA LoopExists ==
  ASSUME NEW D, NEW x0 \in D, NEW g, TurnsIn(g, D), NEW m \in Nat
  PROVE  \E F : Loop(F, g, D, x0, m)
<1> DEFINE Run(F, n) == /\ F \in [0 .. n -> D] /\ F[0] = x0
                        /\ \A i \in 1 .. n : F[i] = g[<<F[i - 1], i>>]
           P == {n \in Nat : \E F : Run(F, n)}
<1>1. 0 \in P
  <2> DEFINE F == [i \in 0 .. 0 |-> x0]
  <2>1. Run(F, 0)  OBVIOUS
  <2>2. QED  BY <2>1
<1>2. ASSUME NEW n \in Nat, n \in P PROVE n + 1 \in P
  <2>1. PICK F : Run(F, n)  BY <1>2
  <2> DEFINE e == g[<<F[n], n + 1>>]
             G == [i \in 0 .. n + 1 |-> IF i = n + 1 THEN e ELSE F[i]]
  <2>2. F[n] \in D  BY <2>1
  <2>3. e \in D  BY <2>2 DEF TurnsIn
  <2>4. G \in [0 .. n + 1 -> D] /\ G[0] = x0
    <3>1. ASSUME NEW i \in 0 .. n + 1, i # n + 1 PROVE i \in 0 .. n  BY <3>1
    <3>2. QED  BY <2>1, <2>3, <3>1
  <2>5. ASSUME NEW i \in 1 .. n + 1 PROVE G[i] = g[<<G[i - 1], i>>]
    <3>1. CASE i = n + 1
      <4>1. i - 1 = n /\ n \in 0 .. n + 1 /\ n # n + 1 /\ i \in 0 .. n + 1  BY <3>1
      <4>2. G[i] = e /\ G[i - 1] = F[n]  BY <3>1, <4>1
      <4>3. QED  BY <3>1, <4>2
    <3>2. CASE i # n + 1
      <4>1. /\ i \in 1 .. n /\ i \in 0 .. n + 1
            /\ i - 1 \in 0 .. n + 1 /\ i - 1 # n + 1
        BY <3>2
      <4>2. G[i] = F[i] /\ G[i - 1] = F[i - 1]  BY <3>2, <4>1
      <4>3. QED  BY <2>1, <4>1, <4>2
    <3>3. QED  BY <3>1, <3>2
  <2> HIDE DEF G
  <2>6. Run(G, n + 1)  BY <2>4, <2>5
  <2>7. QED  BY <2>6
<1> HIDE DEF P
<1>3. Nat \subseteq P  BY <1>1, <1>2, Inductive
<1>4. m \in P  BY <1>3
<1>5. QED  BY <1>4 DEF P, Loop

\* What holds of a loop's values after each of its turns.
LEMMA LoopKeeps ==
  ASSUME NEW D, NEW n \in Nat, NEW F, F[0] \in D[0],
         \A i \in 1 .. n : F[i - 1] \in D[i - 1] => F[i] \in D[i]
  PROVE  F[n] \in D[n]
<1> DEFINE P == {i \in Nat : i <= n => F[i] \in D[i]}
<1>1. 0 \in P  OBVIOUS
<1>2. ASSUME NEW i \in Nat, i \in P PROVE i + 1 \in P
  <2> SUFFICES ASSUME i + 1 <= n PROVE F[i + 1] \in D[i + 1]  OBVIOUS
  <2>1. i + 1 \in 1 .. n /\ (i + 1) - 1 = i /\ F[i] \in D[i]  BY <1>2
  <2>2. QED  BY <2>1
<1> HIDE DEF P
<1>3. Nat \subseteq P  BY <1>1, <1>2, Inductive
<1>4. QED  BY <1>3 DEF P

LEMMA LoopStays ==
  ASSUME NEW D, NEW n \in Nat, NEW F, F[0] \in D,
         \A i \in 1 .. n : F[i - 1] \in D => F[i] \in D
  PROVE  \A i \in 0 .. n : F[i] \in D
<1> DEFINE P == {i \in Nat : i <= n => F[i] \in D}
<1>1. 0 \in P  OBVIOUS
<1>2. ASSUME NEW i \in Nat, i \in P PROVE i + 1 \in P
  <2> SUFFICES ASSUME i + 1 <= n PROVE F[i + 1] \in D  OBVIOUS
  <2>1. i + 1 \in 1 .. n /\ (i + 1) - 1 = i /\ F[i] \in D  BY <1>2
  <2>2. QED  BY <2>1
<1> HIDE DEF P
<1>3. Nat \subseteq P  BY <1>1, <1>2, Inductive
<1>4. QED  BY <1>3 DEF P

-----------------------------------------------------------------------------
(* Count. *)

\* The positions of a sequence are a finite set.
LEMMA PositionsFinite ==
  ASSUME NEW S, NEW s \in Seq(S), NEW P \in SUBSET DOMAIN s
  PROVE  IsFiniteSet(P) /\ Cardinality(P) \in Nat /\ Cardinality(P) <= Len(s)
<1>1. DOMAIN s = 1 .. Len(s) /\ Len(s) \in Nat  BY LenProperties
<1>2. IsFiniteSet(1 .. Len(s)) /\ Cardinality(1 .. Len(s)) = Len(s)
  <2>1. /\ IsFiniteSet(1 .. Len(s))
        /\ Cardinality(1 .. Len(s)) = IF 1 > Len(s) THEN 0 ELSE Len(s) - 1 + 1
    BY <1>1, FS_Interval
  <2>2. QED  BY <1>1, <2>1
<1>3. IsFiniteSet(P) /\ Cardinality(P) <= Cardinality(1 .. Len(s))  BY <1>1, <1>2, FS_Subset
<1>4. QED  BY <1>2, <1>3, FS_CardinalityType

LEMMA CountType ==
  ASSUME NEW S, NEW s \in Seq(S), NEW x
  PROVE  Count(s, x) \in Nat /\ Count(s, x) <= Len(s)
BY PositionsFinite DEF Count

LEMMA CountEmpty ==
  ASSUME NEW x
  PROVE  Count(<<>>, x) = 0
<1>1. {i \in DOMAIN <<>> : <<>>[i] = x} = {}  OBVIOUS
<1>2. QED  BY <1>1, FS_EmptySet DEF Count

\* An element is counted when it is there.
LEMMA CountPositive ==
  ASSUME NEW S, NEW s \in Seq(S), NEW x
  PROVE  Count(s, x) > 0 <=> \E i \in 1 .. Len(s) : s[i] = x
<1> DEFINE P == {i \in DOMAIN s : s[i] = x}
<1>1. DOMAIN s = 1 .. Len(s)  BY LenProperties
<1>2. IsFiniteSet(P) /\ Cardinality(P) \in Nat  BY PositionsFinite
<1>3. Cardinality(P) = 0 <=> P = {}  BY <1>2, FS_EmptySet
<1>4. QED  BY <1>1, <1>2, <1>3 DEF Count

LEMMA CountAppend ==
  ASSUME NEW S, NEW s \in Seq(S), NEW e \in S, NEW x
  PROVE  Count(Append(s, e), x) = Count(s, x) + (IF e = x THEN 1 ELSE 0)
<1> DEFINE n == Len(s) + 1
           P == {i \in DOMAIN s : s[i] = x}
           Q == {i \in DOMAIN Append(s, e) : Append(s, e)[i] = x}
<1>1. /\ Len(s) \in Nat /\ DOMAIN s = 1 .. Len(s) /\ DOMAIN Append(s, e) = 1 .. n
      /\ Append(s, e)[n] = e /\ \A i \in 1 .. Len(s) : Append(s, e)[i] = s[i]
  BY LenProperties, AppendProperties
<1>2. IsFiniteSet(P) /\ Cardinality(P) \in Nat /\ n \notin P  BY <1>1, PositionsFinite
<1>3. CASE e = x
  <2>1. Q = P \cup {n}  BY <1>1, <1>3
  <2>2. QED  BY <1>2, <1>3, <2>1, FS_AddElement DEF Count
<1>4. CASE e # x
  <2>1. Q = P  BY <1>1, <1>4
  <2>2. Count(Append(s, e), x) = Cardinality(Q) /\ Count(s, x) = Cardinality(P)  BY DEF Count
  <2> HIDE DEF P, Q
  <2>3. QED  BY <1>2, <1>4, <2>1, <2>2
<1>5. QED  BY <1>3, <1>4

LEMMA CountConcat ==
  ASSUME NEW S, NEW s \in Seq(S), NEW t \in Seq(S), NEW x
  PROVE  Count(s \o t, x) = Count(s, x) + Count(t, x)
<1> DEFINE m == Len(s)
           P == {i \in DOMAIN s : s[i] = x}
           Q == {i \in DOMAIN t : t[i] = x}
           R == {i \in DOMAIN (s \o t) : (s \o t)[i] = x}
           U == {i + m : i \in Q}
           f == [i \in Q |-> i + m]
<1>1. /\ m \in Nat /\ Len(t) \in Nat /\ DOMAIN s = 1 .. m /\ DOMAIN t = 1 .. Len(t)
      /\ DOMAIN (s \o t) = 1 .. m + Len(t)
      /\ \A i \in 1 .. m + Len(t) : (s \o t)[i] = IF i <= m THEN s[i] ELSE t[i - m]
  BY LenProperties, ConcatProperties
<1>2. IsFiniteSet(P) /\ IsFiniteSet(Q)  BY PositionsFinite
<1>3. IsFiniteSet(U) /\ Cardinality(U) = Cardinality(Q)
  <2>1. f \in Bijection(Q, U)
    <3>1. f \in [Q -> U] /\ \A u \in U : \E i \in Q : f[i] = u  BY <1>1
    <3>2. \A i, j \in Q : f[i] = f[j] => i = j  BY <1>1
    <3>3. QED  BY <3>1, <3>2 DEF Bijection, Injection, Surjection, IsInjective
  <2>2. ExistsBijection(Q, U)  BY <2>1 DEF ExistsBijection
  <2>3. QED  BY <1>2, <2>2, FS_Bijection
<1>4. R = P \cup U
  <2>1. \A i \in R : i \in P \cup U
    <3> SUFFICES ASSUME NEW i \in R PROVE i \in P \cup U  OBVIOUS
    <3>1. i \in 1 .. m + Len(t) /\ (s \o t)[i] = x  BY <1>1
    <3>2. CASE i <= m  BY <1>1, <3>1, <3>2
    <3>3. CASE ~(i <= m)
      <4>1. i - m \in Q /\ i = (i - m) + m  BY <1>1, <3>1, <3>3
      <4>2. QED  BY <4>1
    <3>4. QED  BY <3>2, <3>3
  <2>2. \A i \in P : i \in R  BY <1>1
  <2>3. \A i \in Q : i + m \in R
    <3> SUFFICES ASSUME NEW i \in Q PROVE i + m \in R  OBVIOUS
    <3>1. i \in 1 .. Len(t) /\ t[i] = x  BY <1>1
    <3>2. i + m \in 1 .. m + Len(t) /\ ~(i + m <= m) /\ (i + m) - m = i  BY <1>1, <3>1
    <3>3. QED  BY <1>1, <3>1, <3>2
  <2>4. QED  BY <2>1, <2>2, <2>3
<1>5. P \cap U = {}  BY <1>1
<1>6. Cardinality(R) = Cardinality(P) + Cardinality(U) - Cardinality(P \cap U)
  BY <1>2, <1>3, <1>4, FS_Union
<1>7. Cardinality(P \cap U) = 0  BY <1>5, FS_EmptySet
<1>8. Cardinality(P) \in Nat /\ Cardinality(Q) \in Nat  BY <1>2, FS_CardinalityType
<1>9. /\ Count(s, x) = Cardinality(P) /\ Count(t, x) = Cardinality(Q)
      /\ Count(s \o t, x) = Cardinality(R)
  BY DEF Count
<1> HIDE DEF P, Q, R, U
<1>10. QED  BY <1>3, <1>6, <1>7, <1>8, <1>9

-----------------------------------------------------------------------------
(* Only. *)

\* What the recursive function of Only(s, K) satisfies on 0 .. n.
Filters(F, s, K, n) ==
  F = [i \in 0 .. n |-> IF i = 0 THEN <<>>
                        ELSE IF s[i] \in K THEN Append(F[i - 1], s[i]) ELSE F[i - 1]]

LEMMA FilterExists ==
  ASSUME NEW s, NEW K
  PROVE  \A n \in Nat : \E F : Filters(F, s, K, n)
<1> DEFINE P == {n \in Nat : \E F : Filters(F, s, K, n)}
<1>1. 0 \in P
  <2> DEFINE F == [i \in 0 .. 0 |-> <<>>]
  <2>1. F = [i \in 0 .. 0 |-> IF i = 0 THEN <<>>
              ELSE IF s[i] \in K THEN Append(F[i - 1], s[i]) ELSE F[i - 1]]
    OBVIOUS
  <2>2. Filters(F, s, K, 0)  BY <2>1 DEF Filters
  <2>3. QED  BY <2>2
<1>2. ASSUME NEW n \in Nat, n \in P PROVE n + 1 \in P
  <2>1. PICK F : Filters(F, s, K, n)  BY <1>2
  <2> DEFINE e == IF s[n + 1] \in K THEN Append(F[n], s[n + 1]) ELSE F[n]
             G == [i \in 0 .. n + 1 |-> IF i = n + 1 THEN e ELSE F[i]]
  <2>2. ASSUME NEW i \in 0 .. n + 1
        PROVE  G[i] = IF i = 0 THEN <<>>
                      ELSE IF s[i] \in K THEN Append(G[i - 1], s[i]) ELSE G[i - 1]
    <3>1. CASE i = n + 1
      <4>1. G[i] = e /\ i # 0 /\ i - 1 = n /\ G[n] = F[n]  BY <3>1
      <4>2. QED  BY <3>1, <4>1
    <3>2. CASE i # n + 1
      <4>1. i \in 0 .. n /\ G[i] = F[i]  BY <3>2
      <4>2. F[i] = IF i = 0 THEN <<>>
                   ELSE IF s[i] \in K THEN Append(F[i - 1], s[i]) ELSE F[i - 1]
        BY <2>1, <4>1 DEF Filters
      <4>3. i # 0 => G[i - 1] = F[i - 1]  BY <4>1
      <4>4. QED  BY <4>1, <4>2, <4>3
    <3>3. QED  BY <3>1, <3>2
  <2>3. DOMAIN G = 0 .. n + 1  OBVIOUS
  <2>4. G = [i \in 0 .. n + 1 |-> G[i]]  OBVIOUS
  <2> HIDE DEF G
  <2>5. G = [i \in 0 .. n + 1 |-> IF i = 0 THEN <<>>
              ELSE IF s[i] \in K THEN Append(G[i - 1], s[i]) ELSE G[i - 1]]
    BY <2>2, <2>4
  <2>6. Filters(G, s, K, n + 1)  BY <2>5 DEF Filters
  <2>7. QED  BY <2>6
<1> HIDE DEF P
<1>3. Nat \subseteq P  BY <1>1, <1>2, Inductive
<1>4. QED  BY <1>3 DEF P

\* Only(s, K) is built in Len(s) turns.
LEMMA OnlyTurns ==
  ASSUME NEW S, NEW s \in Seq(S), NEW K
  PROVE  \E F : /\ Only(s, K) = F[Len(s)] /\ F[0] = <<>>
                /\ \A i \in 1 .. Len(s) :
                      F[i] = IF s[i] \in K THEN Append(F[i - 1], s[i]) ELSE F[i - 1]
<1> DEFINE F == CHOOSE G : G = [i \in 0 .. Len(s) |-> IF i = 0 THEN <<>>
                        ELSE IF s[i] \in K THEN Append(G[i - 1], s[i]) ELSE G[i - 1]]
<1>1. Only(s, K) = F[Len(s)]  BY Zenon DEF Only
<1>2. Len(s) \in Nat  BY LenProperties
<1>3. Filters(F, s, K, Len(s))
  <2>1. \E G : Filters(G, s, K, Len(s))  BY <1>2, FilterExists
  <2>2. QED  BY <2>1, Zenon DEF Filters
<1> HIDE DEF F
<1>4. F[0] = <<>>  BY <1>2, <1>3 DEF Filters
<1>5. ASSUME NEW i \in 1 .. Len(s)
      PROVE  F[i] = IF s[i] \in K THEN Append(F[i - 1], s[i]) ELSE F[i - 1]
  <2>1. i \in 0 .. Len(s) /\ i # 0  BY <1>2
  <2>2. QED  BY <1>3, <2>1 DEF Filters
<1>6. QED  BY <1>1, <1>4, <1>5

\* The elements that are kept, and how many.
Positions(s, K) == {j \in DOMAIN s : s[j] \in K}

LEMMA OnlyFacts ==
  ASSUME NEW S, NEW s \in Seq(S), NEW K
  PROVE  /\ Only(s, K) \in Seq(S) /\ Only(s, K) \in Seq(S \cap K)
         /\ Len(Only(s, K)) \in Nat /\ Len(Only(s, K)) <= Len(s)
         /\ Len(Only(s, K)) = Cardinality(Positions(s, K))
         /\ \A x : Count(Only(s, K), x) = IF x \in K THEN Count(s, x) ELSE 0
<1>1. PICK F : /\ Only(s, K) = F[Len(s)] /\ F[0] = <<>>
               /\ \A i \in 1 .. Len(s) :
                     F[i] = IF s[i] \in K THEN Append(F[i - 1], s[i]) ELSE F[i - 1]
  BY OnlyTurns
<1>2. Len(s) \in Nat /\ DOMAIN s = 1 .. Len(s) /\ \A i \in 1 .. Len(s) : s[i] \in S
  BY LenProperties, ElementOfSeq
<1> DEFINE Upto(n) == {j \in 1 .. n : s[j] \in K}
           Good(n) == /\ F[n] \in Seq(S \cap K) /\ Len(F[n]) = Cardinality(Upto(n))
                      /\ \A x : Count(F[n], x) =
                            IF x \in K THEN Cardinality({j \in 1 .. n : s[j] = x}) ELSE 0
           P == {n \in Nat : n <= Len(s) => Good(n)}
<1>3. 0 \in P
  <2>1. 1 .. 0 = {}  OBVIOUS
  <2>2. Upto(0) = {} /\ \A x : {j \in 1 .. 0 : s[j] = x} = {}  BY <2>1
  <2>3. F[0] \in Seq(S \cap K) /\ Len(F[0]) = 0  BY <1>1, EmptySeq
  <2>4. \A x : Count(F[0], x) = 0  BY <1>1, CountEmpty
  <2>5. QED  BY <2>2, <2>3, <2>4, FS_EmptySet
<1>4. ASSUME NEW n \in Nat, n \in P PROVE n + 1 \in P
  <2> SUFFICES ASSUME n + 1 <= Len(s) PROVE Good(n + 1)
    OBVIOUS
  <2>1. Good(n) /\ n + 1 \in 1 .. Len(s) /\ (n + 1) - 1 = n  BY <1>2, <1>4
  <2>2. F[n + 1] = IF s[n + 1] \in K THEN Append(F[n], s[n + 1]) ELSE F[n]
    BY <1>1, <2>1
  <2>3. /\ IsFiniteSet(Upto(n)) /\ Cardinality(Upto(n)) \in Nat /\ n + 1 \notin Upto(n)
        /\ Upto(n + 1) = IF s[n + 1] \in K THEN Upto(n) \cup {n + 1} ELSE Upto(n)
    <3>1. Upto(n) \in SUBSET DOMAIN s  BY <1>2, <2>1
    <3>2. IsFiniteSet(Upto(n)) /\ Cardinality(Upto(n)) \in Nat  BY <3>1, PositionsFinite
    <3>3. 1 .. n + 1 = (1 .. n) \cup {n + 1}  OBVIOUS
    <3>4. QED  BY <3>2, <3>3
  <2>4. ASSUME NEW x
        PROVE  LET A == {j \in 1 .. n : s[j] = x}
               IN  /\ IsFiniteSet(A) /\ Cardinality(A) \in Nat /\ n + 1 \notin A
                   /\ {j \in 1 .. n + 1 : s[j] = x} =
                         IF s[n + 1] = x THEN A \cup {n + 1} ELSE A
    <3> DEFINE A == {j \in 1 .. n : s[j] = x}
    <3>1. A \in SUBSET DOMAIN s  BY <1>2, <2>1
    <3>2. IsFiniteSet(A) /\ Cardinality(A) \in Nat  BY <3>1, PositionsFinite
    <3>3. 1 .. n + 1 = (1 .. n) \cup {n + 1}  OBVIOUS
    <3>4. QED  BY <3>2, <3>3
  <2>5. s[n + 1] \in S  BY <1>2, <2>1
  <2>6. CASE s[n + 1] \in K
    <3>1. F[n + 1] = Append(F[n], s[n + 1]) /\ s[n + 1] \in S \cap K  BY <2>2, <2>5, <2>6
    <3>2. F[n + 1] \in Seq(S \cap K) /\ Len(F[n + 1]) = Len(F[n]) + 1
      BY <2>1, <3>1, AppendProperties
    <3>3. Cardinality(Upto(n + 1)) = Cardinality(Upto(n)) + 1
      <4>1. Upto(n + 1) = Upto(n) \cup {n + 1}  BY <2>3, <2>6
      <4> HIDE DEF Upto
      <4>2. QED  BY <2>3, <4>1, FS_AddElement
    <3>4. ASSUME NEW x
          PROVE  Count(F[n + 1], x) =
                    IF x \in K THEN Cardinality({j \in 1 .. n + 1 : s[j] = x}) ELSE 0
      <4> DEFINE A == {j \in 1 .. n : s[j] = x}
                 B == {j \in 1 .. n + 1 : s[j] = x}
      <4>1. Count(F[n + 1], x) = Count(F[n], x) + (IF s[n + 1] = x THEN 1 ELSE 0)
        BY <2>1, <3>1, CountAppend
      <4>2. /\ IsFiniteSet(A) /\ Cardinality(A) \in Nat /\ n + 1 \notin A
            /\ B = IF s[n + 1] = x THEN A \cup {n + 1} ELSE A
        BY <2>4
      <4>3. Count(F[n], x) = IF x \in K THEN Cardinality(A) ELSE 0  BY <2>1
      <4> HIDE DEF A, B
      <4>4. Cardinality(B) = Cardinality(A) + (IF s[n + 1] = x THEN 1 ELSE 0)
        <5>1. CASE s[n + 1] = x
          <6>1. B = A \cup {n + 1}  BY <4>2, <5>1
          <6>2. QED  BY <4>2, <5>1, <6>1, FS_AddElement
        <5>2. CASE s[n + 1] # x  BY <4>2, <5>2
        <5>3. QED  BY <5>1, <5>2
      <4>5. Count(F[n + 1], x) = IF x \in K THEN Cardinality(B) ELSE 0
        BY <2>6, <4>1, <4>2, <4>3, <4>4
      <4>6. QED  BY <4>5 DEF B
    <3>5. QED  BY <2>1, <3>2, <3>3, <3>4
  <2>7. CASE s[n + 1] \notin K
    <3>1. F[n + 1] = F[n] /\ Upto(n + 1) = Upto(n)  BY <2>2, <2>3, <2>7
    <3>2. ASSUME NEW x
          PROVE  Count(F[n + 1], x) =
                    IF x \in K THEN Cardinality({j \in 1 .. n + 1 : s[j] = x}) ELSE 0
      <4>1. x \in K => {j \in 1 .. n + 1 : s[j] = x} = {j \in 1 .. n : s[j] = x}
        BY <2>4, <2>7
      <4>2. QED  BY <2>1, <3>1, <4>1
    <3>3. QED  BY <2>1, <3>1, <3>2
  <2>8. QED  BY <2>6, <2>7
<1>5. Good(Len(s))
  <2> HIDE DEF Good
  <2>1. Nat \subseteq P
    <3> HIDE DEF P
    <3>1. QED  BY <1>3, <1>4, Inductive
  <2>2. QED  BY <1>2, <2>1
<1>6. /\ Only(s, K) \in Seq(S \cap K)
      /\ Len(Only(s, K)) = Cardinality({j \in DOMAIN s : s[j] \in K})
  BY <1>1, <1>2, <1>5
<1>7. \A x : Count(Only(s, K), x) = IF x \in K THEN Count(s, x) ELSE 0
  BY <1>1, <1>2, <1>5 DEF Count
<1>8. Only(s, K) \in Seq(S)  BY <1>6, SeqMonotonic
<1>9. {j \in DOMAIN s : s[j] \in K} \in SUBSET DOMAIN s  OBVIOUS
<1>10. Len(Only(s, K)) \in Nat /\ Len(Only(s, K)) <= Len(s)
  BY <1>6, <1>9, PositionsFinite
<1>11. QED  BY <1>6, <1>7, <1>8, <1>10 DEF Positions

-----------------------------------------------------------------------------
(* Counting in other sequences. *)

LEMMA CountSame ==
  ASSUME NEW s, NEW t, DOMAIN s = DOMAIN t, NEW x, NEW y,
         \A i \in DOMAIN s : s[i] = x <=> t[i] = y
  PROVE  Count(s, x) = Count(t, y)
<1>1. {i \in DOMAIN s : s[i] = x} = {i \in DOMAIN t : t[i] = y}  OBVIOUS
<1>2. QED  BY <1>1 DEF Count

LEMMA CountSingle ==
  ASSUME NEW e, NEW x
  PROVE  Count(<<e>>, x) = IF e = x THEN 1 ELSE 0
<1>1. DOMAIN <<e>> = {1} /\ <<e>>[1] = e  OBVIOUS
<1>2. {i \in DOMAIN <<e>> : <<e>>[i] = x} = IF e = x THEN {1} ELSE {}  BY <1>1
<1>3. Cardinality({1}) = 1 /\ Cardinality({}) = 0  BY FS_Singleton, FS_EmptySet
<1>4. QED  BY <1>2, <1>3 DEF Count

LEMMA CountTail ==
  ASSUME NEW S, NEW s \in Seq(S), s # <<>>, NEW x
  PROVE  Count(s, x) = Count(Tail(s), x) + (IF Head(s) = x THEN 1 ELSE 0)
<1> DEFINE h == Head(s)
           t == Tail(s)
<1>1. h \in S /\ t \in Seq(S)  BY HeadTailProperties
<1>2. <<h>> \in Seq(S)  BY <1>1
<1>3. s = <<h>> \o t
  <2>1. Len(s) \in Nat \ {0}  BY EmptySeq
  <2>2. Len(t) = Len(s) - 1 /\ \A i \in 1 .. Len(t) : t[i] = s[i + 1]  BY HeadTailProperties
  <2>3. h = s[1]  OBVIOUS
  <2> HIDE DEF h, t
  <2>4. /\ <<h>> \o t \in Seq(S) /\ Len(<<h>> \o t) = Len(<<h>>) + Len(t)
        /\ \A i \in 1 .. Len(<<h>>) + Len(t) :
              (<<h>> \o t)[i] = IF i <= Len(<<h>>) THEN <<h>>[i] ELSE t[i - Len(<<h>>)]
    BY <1>1, <1>2, ConcatProperties
  <2>5. Len(<<h>>) = 1 /\ <<h>>[1] = h  OBVIOUS
  <2>6. Len(<<h>> \o t) = Len(s)  BY <2>1, <2>2, <2>4, <2>5
  <2>7. ASSUME NEW i \in 1 .. Len(s) PROVE s[i] = (<<h>> \o t)[i]
    <3>1. CASE i = 1  BY <2>1, <2>2, <2>3, <2>4, <2>5, <3>1
    <3>2. CASE i # 1
      <4>1. i - 1 \in 1 .. Len(t) /\ (i - 1) + 1 = i /\ ~(i <= 1) /\ i \in 1 .. 1 + Len(t)
        BY <2>1, <2>2, <3>2
      <4>2. (<<h>> \o t)[i] = t[i - 1]  BY <2>4, <2>5, <4>1
      <4>3. QED  BY <2>2, <4>1, <4>2
    <3>3. QED  BY <3>1, <3>2
  <2>8. QED  BY <2>4, <2>6, <2>7, SeqEqual
<1> HIDE DEF h, t
<1>4. Count(<<h>> \o t, x) = Count(<<h>>, x) + Count(t, x)  BY <1>1, <1>2, CountConcat
<1>5. Count(<<h>>, x) = IF h = x THEN 1 ELSE 0  BY CountSingle
<1>6. Count(t, x) \in Nat  BY <1>1, CountType
<1>7. Count(s, x) = Count(t, x) + (IF h = x THEN 1 ELSE 0)  BY <1>3, <1>4, <1>5, <1>6
<1>8. QED  BY <1>7 DEF h, t

\* What is kept and what is not are together the whole.
LEMMA OnlySplits ==
  ASSUME NEW S, NEW s \in Seq(S), NEW K, NEW L, \A i \in DOMAIN s : s[i] \in K <=> s[i] \notin L
  PROVE  Len(Only(s, K)) + Len(Only(s, L)) = Len(s)
<1> DEFINE P == Positions(s, K)
           Q == Positions(s, L)
<1>1. Len(Only(s, K)) = Cardinality(P) /\ Len(Only(s, L)) = Cardinality(Q)  BY OnlyFacts
<1>2. P \cup Q = DOMAIN s /\ P \cap Q = {}  BY DEF Positions
<1>3. P \in SUBSET DOMAIN s /\ Q \in SUBSET DOMAIN s  BY DEF Positions
<1>4. /\ IsFiniteSet(P) /\ IsFiniteSet(Q) /\ Cardinality(P) \in Nat /\ Cardinality(Q) \in Nat
  BY <1>3, PositionsFinite
<1> HIDE DEF P, Q
<1>5. Cardinality(P \cup Q) = Cardinality(P) + Cardinality(Q) - Cardinality(P \cap Q)
  BY <1>4, FS_Union
<1>6. Cardinality(P \cap Q) = 0  BY <1>2, FS_EmptySet
<1>7. Cardinality(DOMAIN s) = Len(s)
  <2>1. DOMAIN s = 1 .. Len(s) /\ Len(s) \in Nat  BY LenProperties
  <2>2. Cardinality(1 .. Len(s)) = IF 1 > Len(s) THEN 0 ELSE Len(s) - 1 + 1
    BY <2>1, FS_Interval
  <2>3. QED  BY <2>1, <2>2
<1>8. QED  BY <1>1, <1>2, <1>4, <1>5, <1>6, <1>7

LEMMA OnlyType ==
  ASSUME NEW S, NEW s \in Seq(S), NEW K
  PROVE  Only(s, K) \in Seq(S) /\ Len(Only(s, K)) \in Nat
BY OnlyFacts

LEMMA OnlyCount ==
  ASSUME NEW S, NEW s \in Seq(S), NEW K, NEW x
  PROVE  Count(Only(s, K), x) = IF x \in K THEN Count(s, x) ELSE 0
<1>1. \A y : Count(Only(s, K), y) = IF y \in K THEN Count(s, y) ELSE 0  BY OnlyFacts
<1>2. QED  BY <1>1

\* RemoveAt of an element that is there.
LEMMA RemoveAtFacts ==
  ASSUME NEW S, NEW s \in Seq(S), NEW i \in 1 .. Len(s)
  PROVE  /\ RemoveAt(s, i) \in Seq(S) /\ Len(RemoveAt(s, i)) = Len(s) - 1
         /\ \A k \in 1 .. Len(s) - 1 :
               RemoveAt(s, i)[k] = IF k < i THEN s[k] ELSE s[k + 1]
<1> DEFINE a == SubSeq(s, 1, i - 1)
           b == SubSeq(s, i + 1, Len(s))
<1>1. Len(s) \in Nat /\ \A k \in 1 .. Len(s) : s[k] \in S  BY LenProperties, ElementOfSeq
<1>2. a \in Seq(S) /\ Len(a) = i - 1 /\ \A k \in 1 .. i - 1 : a[k] = s[k]
  <2>1. \A k \in 1 .. i - 1 : s[k] \in S  BY <1>1
  <2>2. /\ a \in Seq(S) /\ Len(a) = IF 1 <= i - 1 THEN i - 1 - 1 + 1 ELSE 0
        /\ \A k \in 1 .. i - 1 - 1 + 1 : a[k] = s[1 + k - 1]
    BY <1>1, <2>1, SubSeqProperties
  <2> HIDE DEF a
  <2>3. QED  BY <1>1, <2>2
<1>3. b \in Seq(S) /\ Len(b) = Len(s) - i /\ \A k \in 1 .. Len(s) - i : b[k] = s[i + k]
  <2>1. \A k \in i + 1 .. Len(s) : s[k] \in S  BY <1>1
  <2>2. /\ b \in Seq(S) /\ Len(b) = IF i + 1 <= Len(s) THEN Len(s) - (i + 1) + 1 ELSE 0
        /\ \A k \in 1 .. Len(s) - (i + 1) + 1 : b[k] = s[(i + 1) + k - 1]
    BY <1>1, <2>1, SubSeqProperties
  <2> HIDE DEF b
  <2>3. QED  BY <1>1, <2>2
<1>4. RemoveAt(s, i) = a \o b  BY DEF RemoveAt
<1> HIDE DEF a, b
<1>5. /\ a \o b \in Seq(S) /\ Len(a \o b) = Len(s) - 1
      /\ \A k \in 1 .. Len(s) - 1 : (a \o b)[k] = IF k <= Len(a) THEN a[k] ELSE b[k - Len(a)]
  <2>1. /\ a \o b \in Seq(S) /\ Len(a \o b) = Len(a) + Len(b)
        /\ \A k \in 1 .. Len(a) + Len(b) : (a \o b)[k] = IF k <= Len(a) THEN a[k] ELSE b[k - Len(a)]
    BY <1>2, <1>3, ConcatProperties
  <2>2. Len(a) + Len(b) = Len(s) - 1  BY <1>1, <1>2, <1>3
  <2>3. QED  BY <2>1, <2>2
<1>6. ASSUME NEW k \in 1 .. Len(s) - 1
      PROVE  (a \o b)[k] = IF k < i THEN s[k] ELSE s[k + 1]
  <2>1. CASE k < i  BY <1>1, <1>2, <1>5, <2>1
  <2>2. CASE ~(k < i)
    <3>1. k - Len(a) \in 1 .. Len(s) - i /\ i + (k - Len(a)) = k + 1 /\ ~(k <= Len(a))
      BY <1>1, <1>2, <2>2
    <3>2. QED  BY <1>3, <1>5, <2>2, <3>1
  <2>3. QED  BY <2>1, <2>2
<1>7. QED  BY <1>4, <1>5, <1>6

\* Nothing is in the sequence twice.
Once(s) == \A i, j \in DOMAIN s : s[i] = s[j] => i = j

\* A sequence has every element once exactly when it counts none twice.
LEMMA OnceCounts ==
  ASSUME NEW S, NEW s \in Seq(S)
  PROVE  Once(s) <=> \A x : Count(s, x) <= 1
<1>1. ASSUME Once(s), NEW x PROVE Count(s, x) <= 1
  <2> DEFINE T == {i \in DOMAIN s : s[i] = x}
  <2>1. Count(s, x) = Cardinality(T)  BY DEF Count
  <2>2. T \in SUBSET DOMAIN s /\ \A i, j \in T : i = j  BY <1>1 DEF Once
  <2> HIDE DEF T
  <2>3. CASE T = {}  BY <2>1, <2>3, FS_EmptySet
  <2>4. CASE T # {}
    <3>1. PICK i \in T : TRUE  BY <2>4
    <3>2. T = {i}  BY <2>2, <3>1
    <3>3. Cardinality({i}) = 1  BY FS_Singleton
    <3>4. QED  BY <2>1, <3>2, <3>3
  <2>5. QED  BY <2>3, <2>4
<1>2. ASSUME \A x : Count(s, x) <= 1, NEW i \in DOMAIN s, NEW j \in DOMAIN s, s[i] = s[j], i # j
      PROVE  FALSE
  <2> DEFINE T == {k \in DOMAIN s : s[k] = s[i]}
  <2>1. IsFiniteSet(T) /\ Cardinality(T) \in Nat  BY PositionsFinite
  <2>2. {i, j} \subseteq T  BY <1>2
  <2>3. /\ IsFiniteSet({i}) /\ Cardinality({i}) = 1  BY FS_Singleton
  <2>4. Cardinality({i} \cup {j}) = Cardinality({i}) + 1
    <3>1. j \notin {i}  BY <1>2
    <3>2. QED  BY <2>3, <3>1, FS_AddElement
  <2>5. {i, j} = {i} \cup {j}  OBVIOUS
  <2>6. Cardinality({i, j}) <= Cardinality(T)  BY <2>1, <2>2, FS_Subset
  <2>7. Cardinality(T) <= 1  BY <1>2 DEF Count
  <2>8. Cardinality({i, j}) = 2
    <3> DEFINE n == Cardinality({i})
               m == Cardinality({i} \cup {j})
    <3>1. m = n + 1 /\ n = 1  BY <2>3, <2>4
    <3> HIDE DEF n, m
    <3>2. m = 2  BY <3>1
    <3>3. QED  BY <3>2, <2>5 DEF m
  <2> HIDE DEF T
  <2>9. QED  BY <2>1, <2>6, <2>7, <2>8
<1>3. QED  BY <1>1, <1>2 DEF Once

\* What is left of a sequence without repetitions.
LEMMA OnlyOnce ==
  ASSUME NEW S, NEW s \in Seq(S), NEW K, Once(s)
  PROVE  /\ Only(s, K) \in Seq(S) /\ Once(Only(s, K))
         /\ \A i \in DOMAIN Only(s, K) :
               Only(s, K)[i] \in K /\ \E j \in DOMAIN s : s[j] = Only(s, K)[i]
         /\ \A j \in DOMAIN s : s[j] \in K => \E i \in DOMAIN Only(s, K) : Only(s, K)[i] = s[j]
<1> DEFINE t == Only(s, K)
<1>1. t \in Seq(S)  BY OnlyFacts
<1>2. \A x : Count(t, x) = IF x \in K THEN Count(s, x) ELSE 0  BY OnlyFacts
<1> HIDE DEF t
<1>3. \A x : Count(s, x) <= 1  BY OnceCounts
<1>4. \A x : Count(t, x) <= 1  BY <1>2, <1>3
<1>5. Once(t)  BY <1>1, <1>4, OnceCounts
<1>6. DOMAIN s = 1 .. Len(s) /\ DOMAIN t = 1 .. Len(t)  BY <1>1, LenProperties
<1>7. ASSUME NEW i \in DOMAIN t PROVE t[i] \in K /\ \E j \in DOMAIN s : s[j] = t[i]
  <2>1. Count(t, t[i]) > 0  BY <1>1, <1>6, CountPositive
  <2>2. t[i] \in K /\ Count(s, t[i]) > 0  BY <2>1, <1>2
  <2>3. QED  BY <2>2, <1>6, CountPositive
<1>8. ASSUME NEW j \in DOMAIN s, s[j] \in K PROVE \E i \in DOMAIN t : t[i] = s[j]
  <2>1. Count(s, s[j]) > 0  BY <1>6, CountPositive
  <2>2. Count(t, s[j]) > 0  BY <2>1, <1>2, <1>8
  <2>3. QED  BY <2>2, <1>1, <1>6, CountPositive
<1>9. QED  BY <1>1, <1>5, <1>7, <1>8 DEF t

-----------------------------------------------------------------------------
\* A sequence is cut in two.
LEMMA CutFacts ==
  ASSUME NEW X, NEW s \in Seq(X), NEW n \in 0 .. Len(s)
  PROVE  /\ SubSeq(s, 1, n) \in Seq(X) /\ Len(SubSeq(s, 1, n)) = n
         /\ \A i \in 1 .. n : SubSeq(s, 1, n)[i] = s[i]
         /\ SubSeq(s, n + 1, Len(s)) \in Seq(X) /\ Len(SubSeq(s, n + 1, Len(s))) = Len(s) - n
         /\ SubSeq(s, 1, n) \o SubSeq(s, n + 1, Len(s)) = s
<1>1. Len(s) \in Nat /\ n \in Nat /\ n <= Len(s) /\ \A i \in 1 .. Len(s) : s[i] \in X
  BY LenProperties, ElementOfSeq
<1>2. \A i \in 1 .. n : s[i] \in X  BY <1>1
<1>3. \A i \in n + 1 .. Len(s) : s[i] \in X  BY <1>1
<1>4. /\ SubSeq(s, 1, n) \in Seq(X) /\ Len(SubSeq(s, 1, n)) = IF 1 <= n THEN n - 1 + 1 ELSE 0
      /\ \A i \in 1 .. n - 1 + 1 : SubSeq(s, 1, n)[i] = s[1 + i - 1]
  <2>1. 1 \in Int /\ n \in Int  BY <1>1
  <2>2. QED  BY <1>2, <2>1, SubSeqProperties
<1>5. /\ SubSeq(s, n + 1, Len(s)) \in Seq(X)
      /\ Len(SubSeq(s, n + 1, Len(s))) = IF n + 1 <= Len(s) THEN Len(s) - (n + 1) + 1 ELSE 0
  <2> DEFINE m == n + 1
             l == Len(s)
  <2>1. m \in Int /\ l \in Int /\ \A i \in m .. l : s[i] \in X  BY <1>1, <1>3
  <2> HIDE DEF m, l
  <2>2. SubSeq(s, m, l) \in Seq(X) /\ Len(SubSeq(s, m, l)) = IF m <= l THEN l - m + 1 ELSE 0
    BY <2>1, SubSeqProperties
  <2>3. QED  BY <2>2 DEF m, l
<1>6. SubSeq(s, 1, n) \o SubSeq(s, n + 1, Len(s)) = s
  <2>1. 1 \in 1 .. Len(s) + 1 /\ n \in 1 - 1 .. Len(s) /\ Len(s) \in n .. Len(s)  BY <1>1
  <2>2. SubSeq(s, 1, n) \o SubSeq(s, n + 1, Len(s)) = SubSeq(s, 1, Len(s))  BY <2>1, ConcatAdjacentSubSeq
  <2>3. QED  BY <2>2, SubSeqFull
<1>7. Len(SubSeq(s, 1, n)) = n /\ Len(SubSeq(s, n + 1, Len(s))) = Len(s) - n  BY <1>1, <1>4, <1>5
<1>8. ASSUME NEW i \in 1 .. n PROVE SubSeq(s, 1, n)[i] = s[i]
  <2>1. i \in 1 .. n - 1 + 1 /\ 1 + i - 1 = i  BY <1>1
  <2>2. QED  BY <1>4, <2>1
<1>9. QED  BY <1>4, <1>5, <1>6, <1>7, <1>8


LEMMA TailFacts ==
  ASSUME NEW X, NEW s \in Seq(X), NEW n \in 0 .. Len(s)
  PROVE  \A i \in 1 .. Len(s) - n : SubSeq(s, n + 1, Len(s))[i] = s[n + i]
<1> DEFINE m == n + 1
           l == Len(s)
<1>1. l \in Nat /\ n \in Nat /\ m \in Int /\ \A i \in 1 .. l : s[i] \in X
  BY LenProperties, ElementOfSeq
<1>2. \A i \in m .. l : s[i] \in X  BY <1>1
<1>3. l \in Int /\ m \in Int  BY <1>1
<1>4. m = n + 1  OBVIOUS
<1> HIDE DEF m, l
<1>5. \A i \in 1 .. l - m + 1 : SubSeq(s, m, l)[i] = s[m + i - 1]  BY <1>2, <1>3, SubSeqProperties
<1>6. ASSUME NEW i \in 1 .. l - n PROVE SubSeq(s, m, l)[i] = s[n + i]
  <2>1. i \in 1 .. l - m + 1 /\ m + i - 1 = n + i  BY <1>1, <1>4
  <2>2. QED  BY <1>5, <2>1
<1>7. QED  BY <1>6 DEF m, l

LEMMA JoinFacts ==
  ASSUME NEW X, NEW s \in Seq(X), NEW w \in Seq(X)
  PROVE  /\ s \o w \in Seq(X) /\ Len(s) \in Nat /\ Len(w) \in Nat /\ Len(s \o w) = Len(s) + Len(w)
         /\ \A i \in 1 .. Len(s) : (s \o w)[i] = s[i]
         /\ \A i \in 1 .. Len(w) : (s \o w)[Len(s) + i] = w[i]
<1>1. Len(s) \in Nat /\ Len(w) \in Nat  BY LenProperties
<1>2. /\ s \o w \in Seq(X) /\ Len(s \o w) = Len(s) + Len(w)
      /\ \A j \in 1 .. Len(s) + Len(w) : (s \o w)[j] = IF j <= Len(s) THEN s[j] ELSE w[j - Len(s)]
  BY ConcatProperties
<1>3. ASSUME NEW i \in 1 .. Len(s) PROVE (s \o w)[i] = s[i]
  <2>1. i \in 1 .. Len(s) + Len(w) /\ i <= Len(s)  BY <1>1
  <2>2. QED  BY <1>2, <2>1
<1>4. ASSUME NEW i \in 1 .. Len(w) PROVE (s \o w)[Len(s) + i] = w[i]
  <2> DEFINE j == Len(s) + i
  <2>1. j \in 1 .. Len(s) + Len(w) /\ ~(j <= Len(s)) /\ j - Len(s) = i  BY <1>1
  <2> HIDE DEF j
  <2>2. (s \o w)[j] = w[j - Len(s)]  BY <1>2, <2>1
  <2>3. QED  BY <2>1, <2>2 DEF j
<1>5. QED  BY <1>1, <1>2, <1>3, <1>4

\* What is left of a stream when a part was taken off its front.
LEMMA CutJoin ==
  ASSUME NEW X, NEW s \in Seq(X), NEW w \in Seq(X), NEW n \in 0 .. Len(s)
  PROVE  /\ SubSeq(s, n + 1, Len(s)) \o w \in Seq(X)
         /\ Len(SubSeq(s, n + 1, Len(s)) \o w) = Len(s \o w) - n
         /\ \A i \in 1 .. Len(s \o w) - n : (SubSeq(s, n + 1, Len(s)) \o w)[i] = (s \o w)[n + i]
<1> DEFINE a == SubSeq(s, 1, n)
           b == SubSeq(s, n + 1, Len(s))
<1>1. a \in Seq(X) /\ b \in Seq(X) /\ Len(a) = n /\ a \o b = s  BY CutFacts
<1> HIDE DEF a, b
<1> DEFINE r == b \o w
<1>2. r \in Seq(X) /\ Len(r) \in Nat /\ n \in Nat
  <2>1. r \in Seq(X)  BY <1>1
  <2>2. QED  BY <2>1, LenProperties
<1>3. s \o w = a \o r
  <2>1. a \in Seq(X) /\ b \in Seq(X)  BY <1>1
  <2>2. (a \o b) \o w = a \o (b \o w)  BY <2>1, ConcatAssociative
  <2>3. QED  BY <1>1, <2>2
<1> HIDE DEF r
<1>4. /\ Len(a \o r) = Len(a) + Len(r)
      /\ \A i \in 1 .. Len(a) + Len(r) : (a \o r)[i] = IF i <= Len(a) THEN a[i] ELSE r[i - Len(a)]
  BY <1>1, <1>2, ConcatProperties
<1>5. Len(r) = Len(s \o w) - n  BY <1>1, <1>2, <1>3, <1>4
<1>6. ASSUME NEW i \in 1 .. Len(s \o w) - n PROVE r[i] = (s \o w)[n + i]
  <2>1. n + i \in 1 .. Len(a) + Len(r) /\ ~(n + i <= Len(a)) /\ n + i - Len(a) = i
    BY <1>1, <1>2, <1>5
  <2>2. QED  BY <1>3, <1>4, <2>1
<1>7. QED  BY <1>2, <1>5, <1>6 DEF r, b

\* A part moves from the front of one sequence to the end of another.
LEMMA SegmentJoins ==
  ASSUME NEW X, NEW s \in Seq(X), NEW w \in Seq(X), NEW n \in 0 .. Len(w)
  PROVE  /\ s \o SubSeq(w, 1, n) \in Seq(X) /\ SubSeq(w, n + 1, Len(w)) \in Seq(X)
         /\ (s \o SubSeq(w, 1, n)) \o SubSeq(w, n + 1, Len(w)) = s \o w
<1> DEFINE a == SubSeq(w, 1, n)
           b == SubSeq(w, n + 1, Len(w))
<1>1. a \in Seq(X) /\ b \in Seq(X) /\ a \o b = w  BY CutFacts
<1> HIDE DEF a, b
<1>2. (s \o a) \o b = s \o (a \o b)
  <2>1. a \in Seq(X) /\ b \in Seq(X)  BY <1>1
  <2>2. QED  BY <2>1, ConcatAssociative
<1>3. s \o a \in Seq(X)  BY <1>1
<1>4. QED  BY <1>1, <1>2, <1>3 DEF a, b

\* The front of two sequences joined.
LEMMA FrontOfJoin ==
  ASSUME NEW X, NEW s \in Seq(X), NEW w \in Seq(X), NEW i \in 1 .. Len(s)
  PROVE  (s \o w)[i] = s[i]
<1>1. Len(s) \in Nat /\ Len(w) \in Nat  BY LenProperties
<1>2. \A j \in 1 .. Len(s) + Len(w) : (s \o w)[j] = IF j <= Len(s) THEN s[j] ELSE w[j - Len(s)]
  BY ConcatProperties
<1>3. i \in 1 .. Len(s) + Len(w) /\ i <= Len(s)  BY <1>1
<1>4. QED  BY <1>2, <1>3
=============================================================================
