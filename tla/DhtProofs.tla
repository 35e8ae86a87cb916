----------------------------- MODULE DhtProofs -----------------------------
(***************************************************************************)
(* Proofs about what the DHT keeps: nothing stale is handed out of the     *)
(* database, the buckets of the routing table divide the key space, and    *)
(* the search tasks count exactly the calls the RPC server owes them.      *)
(***************************************************************************)
EXTENDS DhtDatabase, DhtTable, DhtTasks, ListFacts

(***************************************************************************)
(* The lists are in the order of their times: nothing in front of an item  *)
(* is younger. And the age of what is stored is bounded by the time since  *)
(* the last run of expire.                                                 *)
(***************************************************************************)
Limit == MaxAge + sinceExpire
Aged(q) == /\ \A i, j \in DOMAIN q : i <= j => q[i].age >= q[j].age
           /\ \A i \in DOMAIN q : q[i].age <= Limit

DbInv == /\ items \in [Hashes -> Seq(ItemType) \cup {NoList}]
         /\ tokens \subseteq ItemType /\ sinceExpire \in 0 .. Interval
         /\ \A h \in Hashes : items[h] # NoList => Aged(items[h])
         /\ \A t \in tokens : t.age <= Limit

\* The bounds, as numbers.
LEMMA DbNumbers == MaxAge \in Nat \ {0} /\ Interval \in Nat \ {0} /\ MaxItems \in Nat \ {0}
BY DhtDatabaseAssumption

LEMMA DbInitInv == DbInit => DbInv
BY DbNumbers DEF DbInit, DbInv

\* The list of an info hash, with or without an entry in the map.
LEMMA ListAged ==
  ASSUME DbInv, NEW h \in Hashes
  PROVE  ListOf(h) \in Seq(ItemType) /\ Aged(ListOf(h))
<1>1. CASE items[h] = NoList
  <2>1. ListOf(h) = <<>>  BY <1>1 DEF ListOf
  <2>2. DOMAIN <<>> = {}  OBVIOUS
  <2>3. Aged(<<>>)  BY <2>2 DEF Aged
  <2>4. QED  BY <2>1, <2>3, EmptySeq
<1>2. CASE items[h] # NoList
  <2>1. ListOf(h) = items[h]  BY <1>2 DEF ListOf
  <2>2. QED  BY <1>2, <2>1 DEF DbInv
<1>3. QED  BY <1>1, <1>2

\* Database::store: a new item is the youngest, and goes to the end.
LEMMA StoreFacts ==
  ASSUME NEW q \in Seq(ItemType), Aged(q), NEW a \in Addrs, sinceExpire \in 0 .. Interval
  PROVE  LET r == Append(q, [addr |-> a, age |-> 0])
         IN  r \in Seq(ItemType) /\ Aged(r)
<1> DEFINE e == [addr |-> a, age |-> 0]
           r == Append(q, e)
<1>1. e \in ItemType /\ e.age = 0  BY DEF ItemType
<1> HIDE DEF e
<1>2. /\ r \in Seq(ItemType) /\ Len(q) \in Nat /\ Len(r) = Len(q) + 1
      /\ DOMAIN q = 1 .. Len(q) /\ r[Len(q) + 1] = e
      /\ \A i \in 1 .. Len(q) : r[i] = q[i]
  BY <1>1, AppendProperties, LenProperties
<1>3. DOMAIN r = 1 .. Len(q) + 1  BY <1>2, LenProperties
<1>4. \A i \in DOMAIN r : r[i].age \in Nat /\ r[i].age <= Limit
  <2> SUFFICES ASSUME NEW i \in DOMAIN r PROVE r[i].age \in Nat /\ r[i].age <= Limit
    OBVIOUS
  <2>1. r[i] \in ItemType  BY <1>2, <1>3, ElementOfSeq
  <2>2. r[i].age \in Nat  BY <2>1 DEF ItemType
  <2>3. CASE i = Len(q) + 1  BY <1>1, <1>2, <2>3, DbNumbers DEF Limit
  <2>4. CASE i # Len(q) + 1  BY <1>2, <1>3, <2>2, <2>4 DEF Aged
  <2>5. QED  BY <2>2, <2>3, <2>4
<1>5. \A i, j \in DOMAIN r : i <= j => r[i].age >= r[j].age
  <2> SUFFICES ASSUME NEW i \in DOMAIN r, NEW j \in DOMAIN r, i <= j
               PROVE  r[i].age >= r[j].age
    OBVIOUS
  <2>1. CASE j = Len(q) + 1  BY <1>1, <1>2, <1>4, <2>1
  <2>2. CASE j # Len(q) + 1
    <3>1. i \in 1 .. Len(q) /\ j \in 1 .. Len(q)  BY <1>2, <1>3, <2>2
    <3>2. QED  BY <1>2, <3>1 DEF Aged
  <2>3. QED  BY <2>1, <2>2
<1>6. QED  BY <1>2, <1>4, <1>5 DEF Aged, e

\* Database::expire of one list: what it leaves is a fresh suffix.
LEMMA DropFacts ==
  ASSUME NEW q \in Seq(ItemType), Aged(q), DropExpired(q) # NoList
  PROVE  /\ DropExpired(q) \in Seq(ItemType)
         /\ \A i, j \in DOMAIN DropExpired(q) :
               i <= j => DropExpired(q)[i].age >= DropExpired(q)[j].age
         /\ \A i \in DOMAIN DropExpired(q) : DropExpired(q)[i].age <= MaxAge
<1> DEFINE I == {i \in 1 .. Len(q) : ~Expired(q[i])}
           k == FirstFresh(q)
           r == DropExpired(q)
<1>1. k = IF I # {} THEN Min(I) ELSE 0  BY Zenon DEF FirstFresh, SelectInSeq
<1>2. Len(q) \in Nat /\ DOMAIN q = 1 .. Len(q)  BY LenProperties
<1>3. k # 0 /\ r = SubSeq(q, k, Len(q))  BY DEF DropExpired
<1>4. I # {} /\ k = Min(I)  BY <1>1, <1>3
<1>5. k \in 1 .. Len(q) /\ ~Expired(q[k])
  <2>1. \E n \in I : \A m \in I : n <= m
    <3>1. I \in SUBSET Nat  BY <1>2
    <3> HIDE DEF I
    <3>2. QED  BY <1>4, <3>1, LeastNat
  <2>2. Min(I) \in I  BY <2>1 DEF Min
  <2>3. QED  BY <1>4, <2>2
<1> HIDE DEF k, r
<1>6. /\ r \in Seq(ItemType) /\ Len(r) = Len(q) - k + 1
      /\ \A i \in 1 .. Len(q) - k + 1 : r[i] = q[k + i - 1]
  <2>1. \A i \in k .. Len(q) : q[i] \in ItemType  BY <1>2, <1>5, ElementOfSeq
  <2>2. QED  BY <1>2, <1>3, <1>5, <2>1, SubSeqProperties
<1>7. DOMAIN r = 1 .. Len(q) - k + 1  BY <1>6, LenProperties
<1>8. ASSUME NEW i \in DOMAIN r
      PROVE  /\ k + i - 1 \in DOMAIN q /\ k <= k + i - 1 /\ r[i] = q[k + i - 1]
             /\ r[i].age \in Nat
  <2>1. k + i - 1 \in DOMAIN q /\ k <= k + i - 1 /\ r[i] = q[k + i - 1]
    BY <1>2, <1>5, <1>6, <1>7
  <2>2. q[k + i - 1] \in ItemType  BY <1>2, <2>1, ElementOfSeq
  <2>3. QED  BY <2>1, <2>2 DEF ItemType
<1>9. \A i \in DOMAIN r : r[i].age <= MaxAge
  <2> SUFFICES ASSUME NEW i \in DOMAIN r PROVE r[i].age <= MaxAge
    OBVIOUS
  <2>1. q[k] \in ItemType  BY <1>5, ElementOfSeq
  <2>2. q[k].age \in Nat /\ ~(q[k].age >= MaxAge)  BY <1>5, <2>1 DEF Expired, ItemType
  <2>3. q[k].age >= r[i].age  BY <1>2, <1>5, <1>8 DEF Aged
  <2>4. QED  BY <1>8, <2>2, <2>3, DbNumbers
<1>10. ASSUME NEW i \in DOMAIN r, NEW j \in DOMAIN r, i <= j
       PROVE  r[i].age >= r[j].age
  <2>1. k + i - 1 <= k + j - 1  BY <1>5, <1>7, <1>10
  <2>2. QED  BY <1>8, <2>1 DEF Aged
<1>11. QED  BY <1>6, <1>9, <1>10 DEF r

\* A unit of time passes for a list.
LEMMA OlderFacts ==
  ASSUME NEW q \in Seq(ItemType), Aged(q), sinceExpire \in Nat
  PROVE  LET r == [k \in DOMAIN q |-> Older(q[k])]
         IN  /\ r \in Seq(ItemType)
             /\ \A i, j \in DOMAIN r : i <= j => r[i].age >= r[j].age
             /\ \A i \in DOMAIN r : r[i].age <= Limit + 1
<1> DEFINE r == [k \in DOMAIN q |-> Older(q[k])]
<1>1. Len(q) \in Nat /\ DOMAIN q = 1 .. Len(q)  BY LenProperties
<1>2. ASSUME NEW i \in DOMAIN q
      PROVE  /\ Older(q[i]) \in ItemType /\ q[i].age \in Nat
             /\ Older(q[i]).age = q[i].age + 1
  <2>1. q[i] \in ItemType  BY <1>1, ElementOfSeq
  <2>2. QED  BY <2>1 DEF ItemType, Older
<1>3. r \in [1 .. Len(q) -> ItemType]  BY <1>1, <1>2
<1>4. DOMAIN r = DOMAIN q /\ \A i \in DOMAIN q : r[i].age = q[i].age + 1  BY <1>2
<1>5. r \in Seq(ItemType)  BY <1>1, <1>3
<1> HIDE DEF r
<1>6. \A i \in DOMAIN r : r[i].age <= Limit + 1
  <2> SUFFICES ASSUME NEW i \in DOMAIN r PROVE r[i].age <= Limit + 1
    OBVIOUS
  <2>1. q[i].age \in Nat /\ q[i].age <= Limit /\ r[i].age = q[i].age + 1
    BY <1>2, <1>4 DEF Aged
  <2>2. Limit \in Nat  BY DbNumbers DEF Limit
  <2>3. QED  BY <2>1, <2>2
<1>7. ASSUME NEW i \in DOMAIN r, NEW j \in DOMAIN r, i <= j
      PROVE  r[i].age >= r[j].age
  <2>1. q[i].age \in Nat /\ q[j].age \in Nat /\ q[i].age >= q[j].age
    BY <1>2, <1>4, <1>7 DEF Aged
  <2>2. QED  BY <1>4, <2>1
<1>8. QED  BY <1>5, <1>6, <1>7 DEF r

\* A list changes, the time does not.
LEMMA ListChanges ==
  ASSUME DbInv, NEW h \in Hashes, NEW q \in Seq(ItemType), Aged(q),
         items' = [items EXCEPT ![h] = q], sinceExpire' = sinceExpire, tokens' \subseteq tokens
  PROVE  DbInv'
<1>1. items' \in [Hashes -> Seq(ItemType) \cup {NoList}]  BY DEF DbInv
<1>2. Limit' = Limit  BY DEF Limit
<1>3. ASSUME NEW g \in Hashes, items'[g] # NoList PROVE Aged(items[g])'
  <2>1. Aged(items'[g])
    <3>1. CASE g = h  BY <3>1 DEF DbInv
    <3>2. CASE g # h  BY <1>3, <3>2 DEF DbInv
    <3>3. QED  BY <3>1, <3>2
  <2>2. QED  BY <1>2, <2>1 DEF Aged
<1>4. tokens' \subseteq ItemType /\ sinceExpire' \in 0 .. Interval  BY DEF DbInv
<1>5. \A t \in tokens' : t.age <= Limit'  BY <1>2 DEF DbInv
<1>6. QED  BY <1>1, <1>3, <1>4, <1>5 DEF DbInv

\* Every step keeps the order of the lists and the bound on the ages.
LEMMA DbStep == DbInv /\ [DbNext]_dbVars => DbInv'
<1> SUFFICES ASSUME DbInv, [DbNext]_dbVars PROVE DbInv'
  OBVIOUS
<1>1. CASE UNCHANGED dbVars
  <2>1. items' = items /\ tokens' = tokens /\ sinceExpire' = sinceExpire  BY <1>1 DEF dbVars
  <2>2. QED  BY <2>1 DEF DbInv, Aged, Limit
<1>2. ASSUME NEW a \in Addrs, GetPeers(a) PROVE DbInv'
  <2>1. /\ items' = items /\ sinceExpire' = sinceExpire
        /\ tokens' = tokens \cup {[addr |-> a, age |-> 0]}
    BY <1>2 DEF GetPeers
  <2>2. [addr |-> a, age |-> 0] \in ItemType  BY DEF ItemType
  <2>3. Limit' = Limit /\ Limit \in Nat  BY <2>1, DbNumbers DEF Limit, DbInv
  <2>4. \A t \in tokens' : t.age <= Limit'  BY <2>1, <2>3 DEF DbInv
  <2>5. \A g \in Hashes : items'[g] # NoList => Aged(items[g])'
    BY <2>1, <2>3 DEF DbInv, Aged
  <2>6. QED  BY <2>1, <2>2, <2>4, <2>5 DEF DbInv
<1>3. ASSUME NEW h \in Hashes, NEW a \in Addrs, Store(h, a), sinceExpire' = sinceExpire,
             tokens' \subseteq tokens
      PROVE  DbInv'
  <2> DEFINE q == Append(ListOf(h), [addr |-> a, age |-> 0])
  <2>1. ListOf(h) \in Seq(ItemType) /\ Aged(ListOf(h))  BY ListAged
  <2>2. q \in Seq(ItemType) /\ Aged(q)  BY <2>1, StoreFacts DEF DbInv
  <2>3. items' = [items EXCEPT ![h] = q]  BY <1>3 DEF Store
  <2> HIDE DEF q
  <2>4. QED  BY <1>3, <2>2, <2>3, ListChanges
<1>4. ASSUME NEW a \in Addrs, NEW h \in Hashes, NEW t \in tokens, Announce(h, a, t) PROVE DbInv'
  BY <1>3, <1>4 DEF Announce
<1>5. ASSUME NEW a \in Addrs, NEW h \in Hashes, TaskStore(h, a) PROVE DbInv'
  BY <1>3, <1>5 DEF TaskStore
<1>6. ASSUME NEW h \in Hashes, InsertList(h) PROVE DbInv'
  <2>1. DOMAIN <<>> = {}  OBVIOUS
  <2>2. <<>> \in Seq(ItemType) /\ Aged(<<>>)  BY <2>1, EmptySeq DEF Aged
  <2>3. QED  BY <1>6, <2>2, ListChanges DEF InsertList
<1>7. CASE Expire
  <2>1. sinceExpire' = 0 /\ Limit' = MaxAge  BY <1>7, DbNumbers DEF Expire, Limit
  <2>2. ASSUME NEW h \in Hashes
        PROVE  /\ items'[h] \in Seq(ItemType) \cup {NoList}
               /\ items'[h] # NoList => Aged(items[h])'
    <3>1. items'[h] = IF HasList(h) THEN DropExpired(items[h]) ELSE NoList
      BY <1>7 DEF Expire
    <3>2. CASE HasList(h) /\ DropExpired(items[h]) # NoList
      <4>1. items[h] \in Seq(ItemType) /\ Aged(items[h])  BY <3>2 DEF HasList, DbInv
      <4>2. items'[h] = DropExpired(items[h])  BY <3>1, <3>2
      <4>3. /\ items'[h] \in Seq(ItemType)
            /\ \A i, j \in DOMAIN items'[h] : i <= j => items'[h][i].age >= items'[h][j].age
            /\ \A i \in DOMAIN items'[h] : items'[h][i].age <= MaxAge
        BY <3>2, <4>1, <4>2, DropFacts
      <4>4. QED  BY <2>1, <4>3 DEF Aged
    <3>3. CASE ~(HasList(h) /\ DropExpired(items[h]) # NoList)  BY <3>1, <3>3
    <3>4. QED  BY <3>2, <3>3
  <2>3. items' \in [Hashes -> Seq(ItemType) \cup {NoList}]
    <3>1. items' = [h \in Hashes |-> IF HasList(h) THEN DropExpired(items[h]) ELSE NoList]
      BY <1>7 DEF Expire
    <3>2. items' = [h \in Hashes |-> items'[h]]  BY <3>1
    <3>3. QED  BY <2>2, <3>2
  <2>4. tokens' \subseteq ItemType /\ \A t \in tokens' : t.age <= MaxAge
    <3>1. tokens' = {t \in tokens : ~(t.age >= MaxAge)}  BY <1>7 DEF Expire, Expired
    <3>2. \A t \in tokens : t.age \in Nat  BY DEF DbInv, ItemType
    <3>3. QED  BY <3>1, <3>2, DbNumbers DEF DbInv
  <2>5. sinceExpire' \in 0 .. Interval  BY <2>1, DbNumbers
  <2>6. QED  BY <2>1, <2>2, <2>3, <2>4, <2>5 DEF DbInv
<1>8. CASE Pass
  <2>1. /\ sinceExpire \in Nat /\ sinceExpire' = sinceExpire + 1
        /\ sinceExpire' \in 0 .. Interval /\ Limit' = Limit + 1 /\ Limit \in Nat
    BY <1>8, DbNumbers DEF Pass, Limit, DbInv
  <2>2. ASSUME NEW h \in Hashes
        PROVE  /\ items'[h] \in Seq(ItemType) \cup {NoList}
               /\ items'[h] # NoList => Aged(items[h])'
    <3> DEFINE r == [k \in DOMAIN items[h] |-> Older(items[h][k])]
    <3>1. items'[h] = IF HasList(h) THEN r ELSE NoList
      BY <1>8 DEF Pass
    <3>2. CASE HasList(h)
      <4>1. items[h] \in Seq(ItemType) /\ Aged(items[h])  BY <3>2 DEF HasList, DbInv
      <4>2. /\ r \in Seq(ItemType)
            /\ \A i, j \in DOMAIN r : i <= j => r[i].age >= r[j].age
            /\ \A i \in DOMAIN r : r[i].age <= Limit + 1
        BY <2>1, <4>1, OlderFacts
      <4>3. items'[h] = r  BY <3>1, <3>2
      <4> HIDE DEF r
      <4>4. QED  BY <2>1, <4>2, <4>3 DEF Aged
    <3>3. CASE ~HasList(h)  BY <3>1, <3>3
    <3>4. QED  BY <3>2, <3>3
  <2>3. items' \in [Hashes -> Seq(ItemType) \cup {NoList}]
    <3>1. items' = [h \in Hashes |-> IF HasList(h)
             THEN [k \in DOMAIN items[h] |-> Older(items[h][k])] ELSE NoList]
      BY <1>8 DEF Pass
    <3>2. items' = [h \in Hashes |-> items'[h]]  BY <3>1
    <3>3. QED  BY <2>2, <3>2
  <2>4. tokens' \subseteq ItemType /\ \A t \in tokens' : t.age <= Limit'
    <3> SUFFICES ASSUME NEW t \in tokens' PROVE t \in ItemType /\ t.age <= Limit'
      OBVIOUS
    <3>1. PICK u \in tokens : t = Older(u)  BY <1>8 DEF Pass
    <3>2. u \in ItemType /\ u.age <= Limit  BY DEF DbInv
    <3>3. t \in ItemType /\ t.age = u.age + 1 /\ u.age \in Nat
      BY <3>1, <3>2 DEF ItemType, Older
    <3>4. QED  BY <2>1, <3>2, <3>3
  <2>5. QED  BY <2>1, <2>2, <2>3, <2>4 DEF DbInv
<1>9. QED  BY <1>1, <1>2, <1>4, <1>5, <1>6, <1>7, <1>8 DEF DbNext

\* The lists stay in the order of their times and every age is bounded,
\* whatever announces, answers, expiries and passing of time interleave.
THEOREM DbInvariant == DbSpec => []DbInv
<1>1. DbInit => DbInv  BY DbInitInv
<1>2. DbInv /\ [DbNext]_dbVars => DbInv'  BY DbStep
<1>3. QED  BY <1>1, <1>2, PTL DEF DbSpec

\* No peer and no token older than MAX_ITEM_AGE plus one period of the timer is
\* ever in the database, for any number of hashes, addresses and items:
\* Database::expire may stop at the first fresh item of a list.
THEOREM DatabaseNotStale == DbSpec => []NothingStale
<1>1. DbInv => NothingStale
  <2> SUFFICES ASSUME DbInv PROVE NothingStale
    OBVIOUS
  <2>1. Limit \in Nat /\ Limit <= MaxAge + Interval /\ MaxAge + Interval \in Nat
    BY DbNumbers DEF Limit, DbInv
  <2>2. DbTypeOK  BY DEF DbInv, DbTypeOK
  <2>3. ASSUME NEW h \in Hashes, NEW i \in DOMAIN ListOf(h)
        PROVE  ListOf(h)[i].age <= MaxAge + Interval
    <3>1. ListOf(h) \in Seq(ItemType) /\ Aged(ListOf(h))  BY ListAged
    <3>2. ListOf(h)[i] \in ItemType  BY <3>1, LenProperties, ElementOfSeq
    <3>3. ListOf(h)[i].age \in Nat /\ ListOf(h)[i].age <= Limit
      BY <3>1, <3>2 DEF Aged, ItemType
    <3>4. QED  BY <2>1, <3>3
  <2>4. ASSUME NEW t \in tokens PROVE t.age <= MaxAge + Interval
    <3>1. t.age \in Nat /\ t.age <= Limit  BY DEF DbInv, ItemType
    <3>2. QED  BY <2>1, <3>1
  <2>5. QED  BY <2>2, <2>3, <2>4 DEF NothingStale
<1>2. QED  BY <1>1, DbInvariant, PTL

-----------------------------------------------------------------------------
(***************************************************************************)
(* The routing table. A bucket is well formed when its lists are no longer *)
(* than they may be and everything in them, also what waits for a ping to  *)
(* fail, belongs into its range; the table is a partition when its buckets *)
(* are in the order of their ranges and leave no key out.                  *)
(***************************************************************************)
PingType == [node : Peers, by : EntryType]
BucketType == [min : 0 .. MaxKey, max : 0 .. MaxKey, entries : Seq(EntryType),
               pending : Seq(EntryType), pinging : Seq(PingType),
               modified : 0 .. MaxClock, refreshing : BOOLEAN]

Fits(b, list) == \A k \in 1 .. Len(list) : InRange(b, list[k].id)
WellFormed(b) ==
  /\ b \in BucketType /\ b.min <= b.max
  /\ Len(b.entries) <= BucketK /\ Len(b.pending) <= BucketK /\ Len(b.pinging) <= MaxPings
  /\ Fits(b, b.entries) /\ Fits(b, b.pending)
  /\ \A k \in 1 .. Len(b.pinging) : InRange(b, b.pinging[k].by.id)

Ordered(T) == \A i, j \in 1 .. Len(T) : j < i => T[j].max < T[i].min
Covering(T) == T # <<>> => \A n \in 0 .. MaxKey : \E i \in 1 .. Len(T) : InRange(T[i], n)
Table(T) == /\ T \in Seq(BucketType) /\ \A i \in 1 .. Len(T) : WellFormed(T[i])
            /\ Ordered(T) /\ Covering(T)

KbInv == clock \in 0 .. MaxClock /\ Table(buckets)

\* What is done to a bucket leaves its range alone and forgets no ping.
Kept(b, c) == c.min = b.min /\ c.max = b.max /\ Len(b.pinging) <= Len(c.pinging)

\* The parameters, as numbers.
LEMMA KbNumbers ==
  /\ MaxKey \in Nat \ {0} /\ BucketK \in Nat \ {0} /\ OurKey \in 0 .. MaxKey
  /\ Peers \subseteq 0 .. MaxKey /\ Old \in Nat /\ BadLimit \in Nat /\ MaxClock \in Nat
  /\ MaxPings = 2
BY DhtTableAssumption DEF MaxPings

LEMMA LeastIn ==
  ASSUME NEW I \in SUBSET Nat, I # {}
  PROVE  Min(I) \in I
<1>1. \E n \in I : \A m \in I : n <= m  BY LeastNat
<1>2. QED  BY <1>1 DEF Min

\* What the searches of the table find.
LEMMA IndexFacts ==
  ASSUME NEW S, NEW list \in Seq(S), NEW n
  PROVE  \/ Index(list, n) = 0 /\ \A k \in 1 .. Len(list) : list[k].id # n
         \/ Index(list, n) \in 1 .. Len(list) /\ list[Index(list, n)].id = n
<1> DEFINE I == {k \in 1 .. Len(list) : list[k].id = n}
<1>1. Index(list, n) = IF I # {} THEN Min(I) ELSE 0  BY Zenon DEF Index, SelectInSeq
<1>2. Len(list) \in Nat  BY LenProperties
<1>3. I # {} => Min(I) \in I
  <2>1. I \in SUBSET Nat  BY <1>2
  <2> HIDE DEF I
  <2>2. QED  BY <2>1, LeastIn
<1>4. QED  BY <1>1, <1>3

LEMMA BadFacts ==
  ASSUME NEW S, NEW list \in Seq(S)
  PROVE  SelectInSeq(list, Bad) \in 0 .. Len(list)
<1> DEFINE I == {k \in 1 .. Len(list) : Bad(list[k])}
           x == SelectInSeq(list, Bad)
           m == Min(I)
<1>1. x = IF I # {} THEN m ELSE 0  BY Zenon DEF SelectInSeq
<1>2. Len(list) \in Nat  BY LenProperties
<1>3. I # {} => m \in I
  <2>1. I \in SUBSET Nat  BY <1>2
  <2> HIDE DEF I
  <2>2. QED  BY <2>1, LeastIn
<1>4. I # {} => m \in 1 .. Len(list)  BY <1>3
<1> HIDE DEF x, m, I
<1>5. x \in 0 .. Len(list)  BY <1>1, <1>2, <1>4
<1>6. QED  BY <1>5 DEF x

LEMMA QuestionableFacts ==
  ASSUME NEW S, NEW list \in Seq(S)
  PROVE  SelectInSeq(list, Questionable) \in 0 .. Len(list)
<1> DEFINE I == {k \in 1 .. Len(list) : Questionable(list[k])}
           x == SelectInSeq(list, Questionable)
           m == Min(I)
<1>1. x = IF I # {} THEN m ELSE 0  BY Zenon DEF SelectInSeq
<1>2. Len(list) \in Nat  BY LenProperties
<1>3. I # {} => m \in I
  <2>1. I \in SUBSET Nat  BY <1>2
  <2> HIDE DEF I
  <2>2. QED  BY <2>1, LeastIn
<1>4. I # {} => m \in 1 .. Len(list)  BY <1>3
<1> HIDE DEF x, m, I
<1>5. x \in 0 .. Len(list)  BY <1>1, <1>2, <1>4
<1>6. QED  BY <1>5 DEF x

\* The bucket a key is in.
LEMMA FindFacts ==
  ASSUME NEW T \in Seq(BucketType), Covering(T), T # <<>>, NEW n \in 0 .. MaxKey
  PROVE  FindBucket(T, n) \in 1 .. Len(T) /\ InRange(T[FindBucket(T, n)], n)
<1> DEFINE I == {k \in 1 .. Len(T) : InRange(T[k], n)}
<1>1. FindBucket(T, n) = IF I # {} THEN Min(I) ELSE 0  BY Zenon DEF FindBucket, SelectInSeq
<1>2. Len(T) \in Nat  BY LenProperties
<1>3. I # {}  BY DEF Covering
<1>4. Min(I) \in I
  <2>1. I \in SUBSET Nat  BY <1>2
  <2> HIDE DEF I
  <2>2. QED  BY <1>3, <2>1, LeastIn
<1>5. QED  BY <1>1, <1>3, <1>4

\* A new list of entries, of entries that wait, or of pings.
LEMMA EntriesChange ==
  ASSUME NEW b, WellFormed(b), NEW list \in Seq(EntryType), Len(list) <= BucketK, Fits(b, list)
  PROVE  LET c == [b EXCEPT !.entries = list] IN WellFormed(c) /\ Kept(b, c)
<1> DEFINE c == [b EXCEPT !.entries = list]
<1>1. /\ c \in BucketType /\ c.min = b.min /\ c.max = b.max /\ c.entries = list
      /\ c.pending = b.pending /\ c.pinging = b.pinging
  BY DEF WellFormed, BucketType
<1>2. Len(b.pinging) \in Nat  BY LenProperties DEF WellFormed, BucketType
<1> HIDE DEF c
<1>3. QED  BY <1>1, <1>2 DEF WellFormed, Kept, Fits, InRange, c

LEMMA PendingChange ==
  ASSUME NEW b, WellFormed(b), NEW list \in Seq(EntryType), Len(list) <= BucketK, Fits(b, list)
  PROVE  LET c == [b EXCEPT !.pending = list] IN WellFormed(c) /\ Kept(b, c)
<1> DEFINE c == [b EXCEPT !.pending = list]
<1>1. /\ c \in BucketType /\ c.min = b.min /\ c.max = b.max /\ c.entries = b.entries
      /\ c.pending = list /\ c.pinging = b.pinging
  BY DEF WellFormed, BucketType
<1>2. Len(b.pinging) \in Nat  BY LenProperties DEF WellFormed, BucketType
<1> HIDE DEF c
<1>3. QED  BY <1>1, <1>2 DEF WellFormed, Kept, Fits, InRange, c

LEMMA PingingChange ==
  ASSUME NEW b, WellFormed(b), NEW list \in Seq(PingType), Len(list) <= MaxPings,
         \A k \in 1 .. Len(list) : InRange(b, list[k].by.id)
  PROVE  LET c == [b EXCEPT !.pinging = list]
         IN  WellFormed(c) /\ c.min = b.min /\ c.max = b.max /\ c.pinging = list
<1> DEFINE c == [b EXCEPT !.pinging = list]
<1>1. /\ c \in BucketType /\ c.min = b.min /\ c.max = b.max /\ c.entries = b.entries
      /\ c.pending = b.pending /\ c.pinging = list
  BY DEF WellFormed, BucketType
<1> HIDE DEF c
<1>2. QED  BY <1>1 DEF WellFormed, Fits, InRange, c

LEMMA ModifiedChange ==
  ASSUME NEW b, WellFormed(b), NEW m \in 0 .. MaxClock, NEW r \in BOOLEAN
  PROVE  /\ WellFormed([b EXCEPT !.modified = m]) /\ Kept(b, [b EXCEPT !.modified = m])
         /\ [b EXCEPT !.modified = m].pinging = b.pinging
         /\ WellFormed([b EXCEPT !.modified = m, !.refreshing = r])
         /\ Kept(b, [b EXCEPT !.modified = m, !.refreshing = r])
         /\ WellFormed([b EXCEPT !.refreshing = r])
         /\ Kept(b, [b EXCEPT !.refreshing = r])
<1>1. Len(b.pinging) \in Nat  BY LenProperties DEF WellFormed, BucketType
<1>2. ASSUME NEW c, \/ c = [b EXCEPT !.modified = m]
                    \/ c = [b EXCEPT !.modified = m, !.refreshing = r]
                    \/ c = [b EXCEPT !.refreshing = r]
      PROVE  WellFormed(c) /\ Kept(b, c) /\ c.pinging = b.pinging
  <2>1. /\ c \in BucketType /\ c.min = b.min /\ c.max = b.max /\ c.entries = b.entries
        /\ c.pending = b.pending /\ c.pinging = b.pinging
    BY <1>2 DEF WellFormed, BucketType
  <2>2. QED  BY <1>1, <2>1 DEF WellFormed, Kept, Fits, InRange
<1>3. QED  BY <1>2

\* An entry of a list is counted once more, by a ping or by a call without answer.
LEMMA CountedUp ==
  ASSUME NEW e \in EntryType
  PROVE  /\ [e EXCEPT !.pings = IF @ > BadLimit THEN @ ELSE @ + 1] \in EntryType
         /\ [e EXCEPT !.failed = IF @ > BadLimit THEN @ ELSE @ + 1] \in EntryType
         /\ [e EXCEPT !.pings = IF @ > BadLimit THEN @ ELSE @ + 1].id = e.id
         /\ [e EXCEPT !.failed = IF @ > BadLimit THEN @ ELSE @ + 1].id = e.id
BY KbNumbers DEF EntryType

LEMMA EntryReplaced ==
  ASSUME NEW b, NEW list \in Seq(EntryType), Fits(b, list), NEW q \in 1 .. Len(list),
         NEW e \in EntryType, InRange(b, e.id)
  PROVE  /\ [list EXCEPT ![q] = e] \in Seq(EntryType)
         /\ Len([list EXCEPT ![q] = e]) = Len(list) /\ Fits(b, [list EXCEPT ![q] = e])
<1> DEFINE r == [list EXCEPT ![q] = e]
<1>1. /\ r \in Seq(EntryType) /\ Len(r) = Len(list)
      /\ \A j \in 1 .. Len(list) : r[j] = IF j = q THEN e ELSE list[j]
  BY ExceptSeq
<1> HIDE DEF r
<1>2. Fits(b, r)  BY <1>1 DEF Fits
<1>3. QED  BY <1>1, <1>2 DEF r

LEMMA EntryAppended ==
  ASSUME NEW b, NEW list \in Seq(EntryType), Fits(b, list), NEW e \in EntryType, InRange(b, e.id)
  PROVE  /\ Append(list, e) \in Seq(EntryType) /\ Len(Append(list, e)) = Len(list) + 1
         /\ Fits(b, Append(list, e))
<1> DEFINE r == Append(list, e)
<1>1. /\ r \in Seq(EntryType) /\ Len(r) = Len(list) + 1 /\ r[Len(list) + 1] = e
      /\ \A j \in 1 .. Len(list) : r[j] = list[j]
  BY AppendProperties
<1>2. Len(list) \in Nat  BY LenProperties
<1> HIDE DEF r
<1>3. Fits(b, r)
  <2> SUFFICES ASSUME NEW k \in 1 .. Len(r) PROVE InRange(b, r[k].id)
    BY DEF Fits
  <2>1. CASE k = Len(list) + 1  BY <1>1, <2>1
  <2>2. CASE k # Len(list) + 1
    <3>1. k \in 1 .. Len(list)  BY <1>1, <1>2, <2>2
    <3>2. QED  BY <1>1, <3>1 DEF Fits
  <2>3. QED  BY <2>1, <2>2
<1>4. QED  BY <1>1, <1>3 DEF r

\* An entry goes, another one comes at the end.
LEMMA MoveToEndFacts ==
  ASSUME NEW b, WellFormed(b), clock \in 0 .. MaxClock, NEW i \in 1 .. Len(b.entries),
         NEW e \in EntryType, InRange(b, e.id)
  PROVE  WellFormed(MoveToEnd(b, i, e)) /\ Kept(b, MoveToEnd(b, i, e))
<1> DEFINE rest == RemoveAt(b.entries, i)
           list == Append(rest, e)
           c == [b EXCEPT !.entries = list]
           d == [c EXCEPT !.modified = clock]
<1>1. b.entries \in Seq(EntryType) /\ Len(b.entries) \in Nat /\ Fits(b, b.entries)
      /\ Len(b.entries) <= BucketK
  BY LenProperties DEF WellFormed, BucketType
<1>2. /\ rest \in Seq(EntryType) /\ Len(rest) = Len(b.entries) - 1
      /\ \A k \in 1 .. Len(b.entries) - 1 :
            rest[k] = IF k < i THEN b.entries[k] ELSE b.entries[k + 1]
  BY <1>1, RemoveAtFacts
<1> HIDE DEF rest
<1>3. Fits(b, rest)
  <2> SUFFICES ASSUME NEW k \in 1 .. Len(rest) PROVE InRange(b, rest[k].id)
    BY DEF Fits
  <2>1. k \in 1 .. Len(b.entries) /\ k + 1 \in 1 .. Len(b.entries)  BY <1>1, <1>2
  <2>2. QED  BY <1>1, <1>2, <2>1 DEF Fits
<1>4. list \in Seq(EntryType) /\ Len(list) = Len(rest) + 1 /\ Fits(b, list)
  BY <1>2, <1>3, EntryAppended
<1>5. Len(list) <= BucketK  BY <1>1, <1>2, <1>4, KbNumbers
<1> HIDE DEF list
<1>6. WellFormed(c) /\ Kept(b, c)  BY <1>4, <1>5, EntriesChange
<1>7. MoveToEnd(b, i, e) = d  BY DEF MoveToEnd, WellFormed, BucketType, list, rest
<1> HIDE DEF c
<1>8. WellFormed(d) /\ Kept(c, d)  BY <1>6, ModifiedChange
<1>9. Kept(b, d)
  <2>1. d.pinging = c.pinging  BY <1>6, ModifiedChange
  <2>2. QED  BY <1>6, <1>8, <2>1 DEF Kept
<1>10. QED  BY <1>7, <1>8, <1>9

\* Some of the entries of a list.
LEMMA SomeEntries ==
  ASSUME NEW list \in Seq(EntryType), NEW K \in SUBSET ToSet(list)
  PROVE  /\ Only(list, K) \in Seq(EntryType) /\ Len(Only(list, K)) \in Nat
         /\ Len(Only(list, K)) <= Len(list)
         /\ \A k \in 1 .. Len(Only(list, K)) : Only(list, K)[k] \in K
         /\ \A b : Fits(b, list) => Fits(b, Only(list, K))
<1> DEFINE r == Only(list, K)
<1>1. /\ r \in Seq(EntryType) /\ r \in Seq(EntryType \cap K) /\ Len(r) \in Nat
      /\ Len(r) <= Len(list)
  BY OnlyFacts
<1> HIDE DEF r
<1>2. \A k \in 1 .. Len(r) : r[k] \in K
  <2> SUFFICES ASSUME NEW k \in 1 .. Len(r) PROVE r[k] \in K
    OBVIOUS
  <2>1. r[k] \in EntryType \cap K  BY <1>1, ElementOfSeq
  <2>2. QED  BY <2>1
<1>3. ASSUME NEW b, Fits(b, list) PROVE Fits(b, r)
  <2> SUFFICES ASSUME NEW k \in 1 .. Len(r) PROVE InRange(b, r[k].id)
    BY DEF Fits
  <2>1. DOMAIN list = 1 .. Len(list)  BY LenProperties
  <2>2. PICK j \in 1 .. Len(list) : r[k] = list[j]  BY <1>2, <2>1 DEF ToSet
  <2>3. QED  BY <1>3, <2>2 DEF Fits
<1>4. QED  BY <1>1, <1>2, <1>3 DEF r

\* KBucket::pingQuestionable.
LEMMA PingFacts ==
  ASSUME NEW b, WellFormed(b), NEW e \in EntryType, InRange(b, e.id)
  PROVE  WellFormed(PingQuestionable(b, e)) /\ Kept(b, PingQuestionable(b, e))
<1> DEFINE q == SelectInSeq(b.entries, Questionable)
           others == Without(b.pending, e.id)
           n == IF Len(others) < BucketK THEN Len(others) ELSE BucketK - 1
           kept == SubSeq(others, 1, n)
           R == PingQuestionable(b, e)
<1>1. /\ b.entries \in Seq(EntryType) /\ b.pending \in Seq(EntryType)
      /\ b.pinging \in Seq(PingType) /\ Len(b.pinging) \in Nat
      /\ Fits(b, b.entries) /\ Fits(b, b.pending) /\ Len(b.entries) <= BucketK
      /\ \A k \in 1 .. Len(b.pinging) : InRange(b, b.pinging[k].by.id)
  BY LenProperties DEF WellFormed, BucketType
<1>2. q \in 0 .. Len(b.entries)  BY <1>1, QuestionableFacts
<1>3. CASE Len(b.pinging) >= MaxPings
  <2>1. R = [b EXCEPT !.pending = <<e>> \o kept]  BY <1>3, Zenon DEF PingQuestionable
  <2>2. /\ others \in Seq(EntryType) /\ Len(others) \in Nat /\ Fits(b, others)
    <3>1. {x \in ToSet(b.pending) : x.id # e.id} \in SUBSET ToSet(b.pending)  OBVIOUS
    <3>2. QED  BY <1>1, <3>1, SomeEntries DEF Without
  <2> HIDE DEF others
  <2>3. n \in Nat /\ n <= Len(others) /\ n <= BucketK - 1  BY <2>2, KbNumbers
  <2> HIDE DEF n
  <2>4. kept \in Seq(EntryType) /\ Len(kept) = n /\ \A k \in 1 .. n : kept[k] = others[k]
    <3>1. \A k \in 1 .. n : others[k] \in EntryType  BY <2>2, <2>3, ElementOfSeq
    <3>2. /\ kept \in Seq(EntryType) /\ Len(kept) = IF 1 <= n THEN n - 1 + 1 ELSE 0
          /\ \A k \in 1 .. n - 1 + 1 : kept[k] = others[1 + k - 1]
      BY <2>3, <3>1, SubSeqProperties
    <3> HIDE DEF kept
    <3>3. QED  BY <2>3, <3>2
  <2> HIDE DEF kept
  <2> DEFINE list == <<e>> \o kept
  <2>5. /\ list \in Seq(EntryType) /\ Len(list) = 1 + n
        /\ \A k \in 1 .. 1 + n : list[k] = IF k <= 1 THEN e ELSE kept[k - 1]
    <3>1. <<e>> \in Seq(EntryType) /\ Len(<<e>>) = 1 /\ <<e>>[1] = e  OBVIOUS
    <3>2. /\ list \in Seq(EntryType) /\ Len(list) = 1 + Len(kept)
          /\ \A k \in 1 .. 1 + Len(kept) : list[k] = IF k <= 1 THEN <<e>>[k] ELSE kept[k - 1]
      BY <2>4, <3>1, ConcatProperties
    <3>3. QED  BY <2>3, <2>4, <3>1, <3>2
  <2> HIDE DEF list
  <2>6. Fits(b, list)
    <3> SUFFICES ASSUME NEW k \in 1 .. 1 + n PROVE InRange(b, list[k].id)
      BY <2>5 DEF Fits
    <3>1. CASE k <= 1  BY <2>5, <3>1
    <3>2. CASE ~(k <= 1)
      <4>1. k - 1 \in 1 .. n /\ k - 1 \in 1 .. Len(others)  BY <2>2, <2>3, <3>2
      <4>2. list[k] = others[k - 1]  BY <2>4, <2>5, <3>2, <4>1
      <4>3. QED  BY <2>2, <4>1, <4>2 DEF Fits
    <3>3. QED  BY <3>1, <3>2
  <2>7. Len(list) <= BucketK  BY <2>3, <2>5, KbNumbers
  <2>8. QED  BY <2>1, <2>5, <2>6, <2>7, PendingChange DEF list
<1>4. CASE ~(Len(b.pinging) >= MaxPings) /\ q = 0
  <2>1. R = b  BY <1>4, Zenon DEF PingQuestionable
  <2>2. QED  BY <1>1, <2>1 DEF Kept
<1>5. CASE ~(Len(b.pinging) >= MaxPings) /\ q # 0
  <2> HIDE DEF q
  <2>1. q \in 1 .. Len(b.entries)  BY <1>1, <1>2, <1>5, LenProperties
  <2> DEFINE x == [b.entries[q] EXCEPT !.pings = IF @ > BadLimit THEN @ ELSE @ + 1]
             list == [b.entries EXCEPT ![q] = x]
             p == [node |-> b.entries[q].id, by |-> e]
             pings == Append(b.pinging, p)
             c == [b EXCEPT !.entries = list]
  <2>2. b.entries[q] \in EntryType /\ InRange(b, b.entries[q].id)
    BY <1>1, <2>1, ElementOfSeq DEF Fits
  <2>3. x \in EntryType /\ x.id = b.entries[q].id  BY <2>2, CountedUp
  <2>4. R = [b EXCEPT !.entries[q].pings = IF @ > BadLimit THEN @ ELSE @ + 1,
                      !.pinging = Append(@, [node |-> b.entries[q].id, by |-> e])]
    BY <1>5, Zenon DEF PingQuestionable, q
  <2>5. R = [b EXCEPT !.entries = list, !.pinging = pings]
    BY <2>1, <2>4 DEF WellFormed, BucketType
  <2> HIDE DEF x, R
  <2>6. list \in Seq(EntryType) /\ Len(list) <= BucketK /\ Fits(b, list)
    BY <1>1, <2>1, <2>2, <2>3, EntryReplaced
  <2> HIDE DEF list
  <2>7. WellFormed(c) /\ Kept(b, c) /\ c.pinging = b.pinging
    BY <2>6, EntriesChange DEF WellFormed, BucketType
  <2>8. R = [c EXCEPT !.pinging = pings]  BY <2>5 DEF WellFormed, BucketType
  <2>9. p \in PingType /\ p.by = e  BY <2>2 DEF PingType, EntryType
  <2> HIDE DEF p, c
  <2>10. /\ pings \in Seq(PingType) /\ Len(pings) = Len(b.pinging) + 1
         /\ pings[Len(b.pinging) + 1] = p
         /\ \A k \in 1 .. Len(b.pinging) : pings[k] = b.pinging[k]
    BY <1>1, <2>9, AppendProperties
  <2> HIDE DEF pings
  <2>11. \A k \in 1 .. Len(pings) : InRange(c, pings[k].by.id)
    <3> SUFFICES ASSUME NEW k \in 1 .. Len(pings) PROVE InRange(b, pings[k].by.id)
      BY <2>7 DEF Kept, InRange
    <3>1. CASE k = Len(b.pinging) + 1  BY <2>9, <2>10, <3>1
    <3>2. CASE k # Len(b.pinging) + 1
      <4>1. k \in 1 .. Len(b.pinging)  BY <1>1, <2>10, <3>2
      <4>2. QED  BY <1>1, <2>10, <4>1
    <3>3. QED  BY <3>1, <3>2
  <2>12. Len(pings) <= MaxPings  BY <1>1, <1>5, <2>10, KbNumbers
  <2>13. WellFormed(R) /\ R.min = c.min /\ R.max = c.max /\ R.pinging = pings
    BY <2>7, <2>8, <2>10, <2>11, <2>12, PingingChange
  <2>14. Kept(b, R)  BY <1>1, <2>7, <2>10, <2>13 DEF Kept
  <2>15. QED  BY <2>13, <2>14 DEF R
<1>6. QED  BY <1>3, <1>4, <1>5

\* KBucket::replaceBadEntry, else pingQuestionable.
LEMMA ReplaceFacts ==
  ASSUME NEW b, WellFormed(b), clock \in 0 .. MaxClock, NEW e \in EntryType, InRange(b, e.id)
  PROVE  WellFormed(ReplaceBad(b, e)) /\ Kept(b, ReplaceBad(b, e))
<1> DEFINE i == SelectInSeq(b.entries, Bad)
<1>1. b.entries \in Seq(EntryType)  BY DEF WellFormed, BucketType
<1>2. i \in 0 .. Len(b.entries)  BY <1>1, BadFacts
<1>3. ReplaceBad(b, e) = IF i # 0 THEN MoveToEnd(b, i, e) ELSE PingQuestionable(b, e)
  BY Zenon DEF ReplaceBad
<1> HIDE DEF i
<1>4. CASE i # 0
  <2>1. i \in 1 .. Len(b.entries)  BY <1>1, <1>2, <1>4, LenProperties
  <2>2. QED  BY <1>3, <1>4, <2>1, MoveToEndFacts
<1>5. CASE i = 0  BY <1>3, <1>5, PingFacts
<1>6. QED  BY <1>4, <1>5

\* KBucket::insert.
LEMMA InsertFacts ==
  ASSUME NEW b, WellFormed(b), clock \in 0 .. MaxClock, NEW e \in EntryType, InRange(b, e.id)
  PROVE  WellFormed(KInsert(b, e)) /\ Kept(b, KInsert(b, e))
<1> DEFINE i == Index(b.entries, e.id)
           R == KInsert(b, e)
<1>1. /\ b.entries \in Seq(EntryType) /\ Len(b.entries) \in Nat /\ Fits(b, b.entries)
      /\ Len(b.pinging) \in Nat
  BY LenProperties DEF WellFormed, BucketType
<1>2. i \in 0 .. Len(b.entries)  BY <1>1, IndexFacts
<1>3. R = IF i # 0 THEN MoveToEnd(b, i, e)
          ELSE IF Len(b.entries) < BucketK
               THEN [b EXCEPT !.entries = Append(@, e), !.modified = clock]
          ELSE IF MustSplit(b, e) THEN b ELSE ReplaceBad(b, e)
  BY Zenon DEF KInsert
<1> HIDE DEF i, R
<1>4. CASE i # 0
  <2>1. i \in 1 .. Len(b.entries)  BY <1>1, <1>2, <1>4
  <2>2. QED  BY <1>3, <1>4, <2>1, MoveToEndFacts DEF R
<1>5. CASE i = 0 /\ Len(b.entries) < BucketK
  <2> DEFINE list == Append(b.entries, e)
             c == [b EXCEPT !.entries = list]
             d == [c EXCEPT !.modified = clock]
  <2>1. R = d  BY <1>3, <1>5 DEF WellFormed, BucketType
  <2>2. list \in Seq(EntryType) /\ Len(list) = Len(b.entries) + 1 /\ Fits(b, list)
    BY <1>1, EntryAppended
  <2>3. Len(list) <= BucketK  BY <1>1, <1>5, <2>2, KbNumbers
  <2> HIDE DEF list
  <2>4. WellFormed(c) /\ Kept(b, c)  BY <2>2, <2>3, EntriesChange
  <2> HIDE DEF c
  <2>5. WellFormed(d) /\ Kept(c, d) /\ d.pinging = c.pinging  BY <2>4, ModifiedChange
  <2>6. QED  BY <2>1, <2>4, <2>5 DEF R, Kept
<1>6. CASE i = 0 /\ ~(Len(b.entries) < BucketK) /\ MustSplit(b, e)
  BY <1>1, <1>3, <1>6 DEF R, Kept
<1>7. CASE i = 0 /\ ~(Len(b.entries) < BucketK) /\ ~MustSplit(b, e)
  BY <1>3, <1>7, ReplaceFacts DEF R
<1>8. QED  BY <1>4, <1>5, <1>6, <1>7

\* One bucket of the table changes, its range does not.
LEMMA BucketChanges ==
  ASSUME NEW T, Table(T), NEW i \in 1 .. Len(T), NEW c, WellFormed(c),
         c.min = T[i].min, c.max = T[i].max
  PROVE  /\ Table([T EXCEPT ![i] = c]) /\ Len([T EXCEPT ![i] = c]) = Len(T)
         /\ \A j \in 1 .. Len(T) : [T EXCEPT ![i] = c][j] = IF j = i THEN c ELSE T[j]
<1> DEFINE U == [T EXCEPT ![i] = c]
<1>1. T \in Seq(BucketType) /\ c \in BucketType  BY DEF Table, WellFormed
<1>2. /\ U \in Seq(BucketType) /\ Len(U) = Len(T)
      /\ \A j \in 1 .. Len(T) : U[j] = IF j = i THEN c ELSE T[j]
  BY <1>1, ExceptSeq
<1> HIDE DEF U
<1>3. \A j \in 1 .. Len(T) : U[j].min = T[j].min /\ U[j].max = T[j].max  BY <1>2
<1>4. \A j \in 1 .. Len(U) : WellFormed(U[j])  BY <1>2 DEF Table
<1>5. Ordered(U)  BY <1>2, <1>3 DEF Table, Ordered
<1>6. Covering(U)
  <2>1. T # <<>>  BY <1>1, EmptySeq
  <2>2. QED  BY <1>2, <1>3, <2>1 DEF Table, Covering, InRange
<1>7. QED  BY <1>2, <1>4, <1>5, <1>6 DEF Table, U

\* A half of a bucket that is split.
LEMMA HalfFacts ==
  ASSUME NEW b, WellFormed(b), clock \in 0 .. MaxClock, NEW lo \in 0 .. MaxKey,
         NEW hi \in 0 .. MaxKey, lo <= hi
  PROVE  LET c == [Bucket(lo, hi) EXCEPT !.entries = Within(b.entries, lo, hi)]
         IN  WellFormed(c) /\ c.min = lo /\ c.max = hi
<1> DEFINE list == Within(b.entries, lo, hi)
           K == {e \in ToSet(b.entries) : lo <= e.id /\ e.id <= hi}
           c == [Bucket(lo, hi) EXCEPT !.entries = list]
<1>1. /\ b.entries \in Seq(EntryType) /\ Len(b.entries) \in Nat /\ Len(b.entries) <= BucketK
  BY LenProperties DEF WellFormed, BucketType
<1>2. K \in SUBSET ToSet(b.entries)  OBVIOUS
<1>3. list = Only(b.entries, K)  BY DEF Within
<1>4. \A e \in K : lo <= e.id /\ e.id <= hi  OBVIOUS
<1> HIDE DEF K, list
<1>5. /\ list \in Seq(EntryType) /\ Len(list) \in Nat /\ Len(list) <= Len(b.entries)
      /\ \A k \in 1 .. Len(list) : list[k] \in K
  BY <1>1, <1>2, <1>3, SomeEntries
<1>6. Len(list) <= BucketK  BY <1>1, <1>5, KbNumbers
<1>7. <<>> \in Seq(EntryType) /\ <<>> \in Seq(PingType) /\ Len(<<>>) = 0  BY EmptySeq
<1>8. /\ c \in BucketType /\ c.min = lo /\ c.max = hi /\ c.entries = list
      /\ c.pending = <<>> /\ c.pinging = <<>>
  BY <1>5, <1>7 DEF Bucket, BucketType
<1> HIDE DEF c
<1>9. Fits(c, list)  BY <1>4, <1>5, <1>8 DEF Fits, InRange
<1>10. Fits(c, <<>>) /\ \A k \in 1 .. Len(<<>>) : InRange(c, <<>>[k].by.id)
  BY <1>7 DEF Fits
<1>11. Len(<<>>) <= BucketK /\ Len(<<>>) <= MaxPings  BY <1>7, KbNumbers
<1>12. c.min <= c.max /\ WellFormed(c)
  BY <1>6, <1>8, <1>9, <1>10, <1>11 DEF WellFormed
<1>13. QED  BY <1>8, <1>12 DEF c, list

\* A bucket of the table is replaced by its two halves.
LEMMA TwoForOne ==
  ASSUME NEW T, Table(T), NEW i \in 1 .. Len(T), NEW c, NEW d, WellFormed(c), WellFormed(d),
         c.min = T[i].min, d.min = c.max + 1, d.max = T[i].max
  PROVE  LET U == SubSeq(T, 1, i - 1) \o <<c, d>> \o SubSeq(T, i + 1, Len(T))
         IN  Table(U) /\ Len(U) = Len(T) + 1
<1> DEFINE A == SubSeq(T, 1, i - 1)
           B == SubSeq(T, i + 1, Len(T))
           V == A \o <<c, d>>
           U == V \o B
<1>1. T \in Seq(BucketType) /\ Len(T) \in Nat /\ \A k \in 1 .. Len(T) : T[k] \in BucketType
  BY LenProperties, ElementOfSeq DEF Table
<1>2. A \in Seq(BucketType) /\ Len(A) = i - 1 /\ \A k \in 1 .. i - 1 : A[k] = T[k]
  <2>1. \A k \in 1 .. i - 1 : T[k] \in BucketType  BY <1>1
  <2>2. /\ A \in Seq(BucketType) /\ Len(A) = IF 1 <= i - 1 THEN i - 1 - 1 + 1 ELSE 0
        /\ \A k \in 1 .. i - 1 - 1 + 1 : A[k] = T[1 + k - 1]
    BY <1>1, <2>1, SubSeqProperties
  <2> HIDE DEF A
  <2>3. QED  BY <1>1, <2>2
<1>3. B \in Seq(BucketType) /\ Len(B) = Len(T) - i /\ \A k \in 1 .. Len(T) - i : B[k] = T[i + k]
  <2>1. \A k \in i + 1 .. Len(T) : T[k] \in BucketType  BY <1>1
  <2>2. /\ B \in Seq(BucketType) /\ Len(B) = IF i + 1 <= Len(T) THEN Len(T) - (i + 1) + 1 ELSE 0
        /\ \A k \in 1 .. Len(T) - (i + 1) + 1 : B[k] = T[(i + 1) + k - 1]
    BY <1>1, <2>1, SubSeqProperties
  <2> HIDE DEF B
  <2>3. QED  BY <1>1, <2>2
<1> HIDE DEF A, B
<1>4. /\ <<c, d>> \in Seq(BucketType) /\ Len(<<c, d>>) = 2 /\ <<c, d>>[1] = c /\ <<c, d>>[2] = d
  BY DEF WellFormed
<1>5. /\ V \in Seq(BucketType) /\ Len(V) = i + 1 /\ V[i] = c /\ V[i + 1] = d
      /\ \A k \in 1 .. i - 1 : V[k] = T[k]
  <2>1. /\ V \in Seq(BucketType) /\ Len(V) = Len(A) + 2
        /\ \A k \in 1 .. Len(A) + 2 : V[k] = IF k <= Len(A) THEN A[k] ELSE <<c, d>>[k - Len(A)]
    BY <1>2, <1>4, ConcatProperties
  <2> HIDE DEF V
  <2>2. V[i] = <<c, d>>[1] /\ V[i + 1] = <<c, d>>[2]  BY <1>1, <1>2, <2>1
  <2>3. ASSUME NEW k \in 1 .. i - 1 PROVE V[k] = T[k]
    <3>1. k \in 1 .. Len(A) + 2 /\ k <= Len(A)  BY <1>1, <1>2
    <3>2. QED  BY <1>2, <2>1, <3>1
  <2>4. Len(V) = i + 1  BY <1>1, <1>2, <2>1
  <2>5. QED  BY <1>4, <2>1, <2>2, <2>3, <2>4
<1> HIDE DEF V
<1>6. /\ U \in Seq(BucketType) /\ Len(U) = Len(T) + 1 /\ U[i] = c /\ U[i + 1] = d
      /\ \A k \in 1 .. i - 1 : U[k] = T[k]
      /\ \A k \in i + 2 .. Len(T) + 1 : U[k] = T[k - 1]
  <2>1. /\ U \in Seq(BucketType) /\ Len(U) = Len(V) + Len(B)
        /\ \A k \in 1 .. Len(V) + Len(B) : U[k] = IF k <= Len(V) THEN V[k] ELSE B[k - Len(V)]
    BY <1>3, <1>5, ConcatProperties
  <2> HIDE DEF U
  <2>2. Len(V) + Len(B) = Len(T) + 1  BY <1>1, <1>3, <1>5
  <2>3. U[i] = c /\ U[i + 1] = d /\ \A k \in 1 .. i - 1 : U[k] = T[k]
    <3>1. \A k \in 1 .. i + 1 : k \in 1 .. Len(V) + Len(B) /\ k <= Len(V)  BY <1>1, <1>3, <1>5
    <3>2. \A k \in 1 .. i + 1 : U[k] = V[k]  BY <2>1, <3>1
    <3>3. i \in 1 .. i + 1 /\ i + 1 \in 1 .. i + 1 /\ \A k \in 1 .. i - 1 : k \in 1 .. i + 1
      BY <1>1
    <3>4. QED  BY <1>5, <3>2, <3>3
  <2>4. ASSUME NEW k \in i + 2 .. Len(T) + 1 PROVE U[k] = T[k - 1]
    <3>1. k - (i + 1) \in 1 .. Len(T) - i /\ ~(k <= i + 1) /\ k \in 1 .. Len(T) + 1
          /\ i + (k - (i + 1)) = k - 1
      BY <1>1
    <3>2. U[k] = B[k - (i + 1)]  BY <1>5, <2>1, <2>2, <3>1
    <3>3. QED  BY <1>3, <3>1, <3>2
  <2>5. QED  BY <2>1, <2>2, <2>3, <2>4
<1> HIDE DEF U
<1>7. ASSUME NEW k \in 1 .. Len(U)
      PROVE  \/ k \in 1 .. i - 1 /\ U[k] = T[k]
             \/ k = i /\ U[k] = c
             \/ k = i + 1 /\ U[k] = d
             \/ k \in i + 2 .. Len(T) + 1 /\ k - 1 \in 1 .. Len(T) /\ U[k] = T[k - 1]
  BY <1>1, <1>6
<1>8. \A k \in 1 .. Len(U) : WellFormed(U[k])
  <2> SUFFICES ASSUME NEW k \in 1 .. Len(U) PROVE WellFormed(U[k])
    OBVIOUS
  <2>1. \A j \in 1 .. Len(T) : WellFormed(T[j])  BY DEF Table
  <2>2. k \in 1 .. i - 1 => k \in 1 .. Len(T)  BY <1>1
  <2>3. QED  BY <1>7, <2>1, <2>2
<1>9. /\ T[i].min \in Nat /\ T[i].max \in Nat /\ c.max \in Nat /\ d.min <= d.max
      /\ c.min <= c.max
      /\ \A j \in 1 .. Len(T) : T[j].min \in Nat /\ T[j].max \in Nat
  <2>1. \A x \in BucketType : x.min \in Nat /\ x.max \in Nat  BY KbNumbers DEF BucketType
  <2>2. c \in BucketType /\ c.min <= c.max /\ d.min <= d.max  BY DEF WellFormed
  <2>3. QED  BY <1>1, <2>1, <2>2
<1>10. Ordered(U)
  <2> SUFFICES ASSUME NEW k \in 1 .. Len(U), NEW j \in 1 .. Len(U), j < k
               PROVE  U[j].max < U[k].min
    BY DEF Ordered
  <2>1. \A m, n \in 1 .. Len(T) : n < m => T[n].max < T[m].min  BY DEF Table, Ordered
  <2>2. CASE k \in 1 .. i - 1
    <3>1. U[j] = T[j] /\ U[k] = T[k] /\ j \in 1 .. Len(T) /\ k \in 1 .. Len(T)  BY <1>1, <1>6, <2>2
    <3>2. QED  BY <2>1, <3>1
  <2>3. CASE k = i
    <3>1. U[j] = T[j] /\ U[k] = c /\ j \in 1 .. Len(T)  BY <1>1, <1>6, <2>3
    <3>2. QED  BY <2>1, <2>3, <3>1
  <2>4. CASE k = i + 1 /\ j = i  BY <1>6, <1>9, <2>4
  <2>5. CASE k = i + 1 /\ j # i
    <3>1. U[j] = T[j] /\ U[k] = d /\ j \in 1 .. Len(T) /\ j < i  BY <1>1, <1>6, <2>5
    <3>2. T[j].max < T[i].min  BY <2>1, <3>1
    <3>3. QED  BY <1>9, <3>1, <3>2
  <2>6. CASE k \in i + 2 .. Len(T) + 1
    <3>1. U[k] = T[k - 1] /\ k - 1 \in 1 .. Len(T) /\ i < k - 1  BY <1>1, <1>6, <2>6
    <3>2. T[i].max < T[k - 1].min  BY <2>1, <3>1
    <3>3. CASE j \in 1 .. i - 1
      <4>1. U[j] = T[j] /\ j \in 1 .. Len(T) /\ j < k - 1  BY <1>1, <1>6, <3>1, <3>3
      <4>2. QED  BY <2>1, <3>1, <4>1
    <3>4. CASE j = i
      <4>1. U[j] = c /\ c.max < d.max  BY <1>6, <1>9, <3>4
      <4>2. QED  BY <1>9, <3>1, <3>2, <4>1
    <3>5. CASE j = i + 1
      <4>1. U[j] = d  BY <1>6, <3>5
      <4>2. QED  BY <1>9, <3>1, <3>2, <4>1
    <3>6. CASE j \in i + 2 .. Len(T) + 1
      <4>1. U[j] = T[j - 1] /\ j - 1 \in 1 .. Len(T) /\ j - 1 < k - 1  BY <1>1, <1>6, <3>1, <3>6
      <4>2. QED  BY <2>1, <3>1, <4>1
    <3>7. QED  BY <1>7, <3>3, <3>4, <3>5, <3>6
  <2>7. QED  BY <1>7, <2>2, <2>3, <2>4, <2>5, <2>6
<1>11. Covering(U)
  <2> SUFFICES ASSUME NEW n \in 0 .. MaxKey PROVE \E k \in 1 .. Len(U) : InRange(U[k], n)
    BY DEF Covering
  <2>1. T # <<>>  BY <1>1, EmptySeq
  <2>2. PICK j \in 1 .. Len(T) : T[j].min <= n /\ n <= T[j].max
    BY <2>1 DEF Table, Covering, InRange
  <2>3. CASE j \in 1 .. i - 1
    <3>1. j \in 1 .. Len(U) /\ U[j] = T[j]  BY <1>1, <1>6, <2>3
    <3>2. QED  BY <2>2, <3>1 DEF InRange
  <2>4. CASE j = i
    <3>1. i \in 1 .. Len(U) /\ i + 1 \in 1 .. Len(U)  BY <1>1, <1>6
    <3>2. CASE n <= c.max  BY <1>6, <2>2, <2>4, <3>1, <3>2 DEF InRange
    <3>3. CASE ~(n <= c.max)
      <4>1. d.min <= n /\ n <= d.max  BY <1>9, <2>2, <2>4, <3>3, KbNumbers
      <4>2. QED  BY <1>6, <3>1, <4>1 DEF InRange
    <3>4. QED  BY <3>2, <3>3
  <2>5. CASE j > i
    <3>1. j + 1 \in i + 2 .. Len(T) + 1 /\ j + 1 \in 1 .. Len(U) /\ (j + 1) - 1 = j
      BY <1>1, <1>6, <2>5
    <3>2. U[j + 1] = T[j]  BY <1>6, <3>1
    <3>3. QED  BY <2>2, <3>1, <3>2 DEF InRange
  <2>6. QED  BY <1>1, <2>3, <2>4, <2>5
<1>12. QED  BY <1>6, <1>8, <1>10, <1>11 DEF Table, U, V, A, B

\* The first bucket holds every key.
LEMMA FirstBucket ==
  ASSUME clock \in 0 .. MaxClock
  PROVE  Table(<<Bucket(0, MaxKey)>>) /\ <<Bucket(0, MaxKey)>> # <<>>
<1> DEFINE b == Bucket(0, MaxKey)
<1>1. <<>> \in Seq(EntryType) /\ <<>> \in Seq(PingType) /\ Len(<<>>) = 0  BY EmptySeq
<1>2. /\ b \in BucketType /\ b.min = 0 /\ b.max = MaxKey /\ b.entries = <<>>
      /\ b.pending = <<>> /\ b.pinging = <<>>
  BY <1>1, KbNumbers DEF Bucket, BucketType
<1> HIDE DEF b
<1>3. Fits(b, <<>>) /\ \A k \in 1 .. Len(<<>>) : InRange(b, <<>>[k].by.id)  BY <1>1 DEF Fits
<1>4. Len(<<>>) <= BucketK /\ Len(<<>>) <= MaxPings  BY <1>1, KbNumbers
<1>5. b.min <= b.max  BY <1>2, KbNumbers
<1>6. WellFormed(b)  BY <1>2, <1>3, <1>4, <1>5 DEF WellFormed
<1>7. <<b>> \in Seq(BucketType) /\ Len(<<b>>) = 1 /\ <<b>>[1] = b /\ <<b>> # <<>>  BY <1>2
<1>8. \A n \in 0 .. MaxKey : InRange(b, n)  BY <1>2 DEF InRange
<1>9. Ordered(<<b>>) /\ Covering(<<b>>)  BY <1>7, <1>8 DEF Ordered, Covering
<1>10. \A i \in 1 .. Len(<<b>>) : WellFormed(<<b>>[i])  BY <1>6, <1>7
<1>11. QED  BY <1>7, <1>9, <1>10 DEF Table, b

\* KBucketTable::insert.
LEMMA TableInsertFacts ==
  ASSUME NEW T, Table(T), clock \in 0 .. MaxClock, NEW e \in EntryType
  PROVE  /\ Table(TableInsert(T, e)) /\ Len(TableInsert(T, e)) >= Len(T)
         /\ T # <<>> /\ Len(TableInsert(T, e)) = Len(T) =>
               \A j \in 1 .. Len(T) : Kept(T[j], TableInsert(T, e)[j])
<1> DEFINE U == IF T = <<>> THEN <<Bucket(0, MaxKey)>> ELSE T
           i == FindBucket(U, e.id)
           b == U[i]
           two == Split(b)
           h == IF InRange(two[1], e.id) THEN 1 ELSE 2
           R == TableInsert(T, e)
<1>1. Table(U) /\ U # <<>> /\ (T # <<>> => U = T)
  BY FirstBucket
<1>2. Len(T) \in Nat /\ Len(U) \in Nat /\ (T = <<>> => Len(T) = 0)
  BY <1>1, LenProperties, EmptySeq DEF Table
<1>3. R = IF ~MustSplit(b, e) THEN [U EXCEPT ![i] = KInsert(b, e)]
          ELSE IF Mid(b) = b.min \/ Mid(b) + 1 = b.max THEN U
          ELSE SubSeq(U, 1, i - 1) \o [two EXCEPT ![h] = KInsert(@, e)] \o SubSeq(U, i + 1, Len(U))
  BY Zenon DEF TableInsert
<1>4. e.id \in 0 .. MaxKey  BY KbNumbers DEF EntryType
<1> HIDE DEF U, R
<1>5. i \in 1 .. Len(U) /\ InRange(b, e.id)  BY <1>1, <1>4, FindFacts DEF Table
<1>6. WellFormed(b)  BY <1>1, <1>5 DEF Table
<1> HIDE DEF i
<1>7. Len(U) >= Len(T)  BY <1>1, <1>2
<1>8. \A j \in 1 .. Len(U) : Kept(U[j], U[j])
  <2> SUFFICES ASSUME NEW j \in 1 .. Len(U) PROVE Kept(U[j], U[j])
    OBVIOUS
  <2>1. U[j] \in BucketType  BY <1>1 DEF Table, WellFormed
  <2>2. Len(U[j].pinging) \in Nat  BY <2>1, LenProperties DEF BucketType
  <2>3. QED  BY <2>2 DEF Kept
<1>9. CASE ~MustSplit(b, e)
  <2> DEFINE c == KInsert(b, e)
  <2>1. R = [U EXCEPT ![i] = c]  BY <1>3, <1>9
  <2>2. WellFormed(c) /\ Kept(b, c)  BY <1>5, <1>6, InsertFacts
  <2> HIDE DEF c
  <2>3. /\ Table(R) /\ Len(R) = Len(U)
        /\ \A j \in 1 .. Len(U) : R[j] = IF j = i THEN c ELSE U[j]
    <3>1. c.min = U[i].min /\ c.max = U[i].max  BY <2>2 DEF Kept
    <3> HIDE DEF b, two, h
    <3>2. /\ Table([U EXCEPT ![i] = c]) /\ Len([U EXCEPT ![i] = c]) = Len(U)
          /\ \A j \in 1 .. Len(U) : [U EXCEPT ![i] = c][j] = IF j = i THEN c ELSE U[j]
      <4>1. Table(U) /\ i \in 1 .. Len(U) /\ WellFormed(c)  BY <1>1, <1>5, <2>2
      <4>2. QED  BY <3>1, <4>1, BucketChanges
    <3>3. QED  BY <2>1, <3>2
  <2>4. \A j \in 1 .. Len(U) : Kept(U[j], R[j])  BY <1>8, <2>2, <2>3
  <2>5. QED  BY <1>1, <1>7, <2>3, <2>4 DEF R
<1>10. CASE MustSplit(b, e) /\ (Mid(b) = b.min \/ Mid(b) + 1 = b.max)
  <2>1. R = U  BY <1>3, <1>10
  <2>2. QED  BY <1>1, <1>7, <1>8, <2>1 DEF R
<1>11. CASE MustSplit(b, e) /\ ~(Mid(b) = b.min \/ Mid(b) + 1 = b.max)
  <2> DEFINE m == Mid(b)
             c == [Bucket(b.min, m) EXCEPT !.entries = Within(b.entries, b.min, m)]
             d == [Bucket(m + 1, b.max) EXCEPT !.entries = Within(b.entries, m + 1, b.max)]
  <2>1. b.min + BucketK < b.max  BY <1>11 DEF MustSplit, SplitAllowed
  <2>2. b.min \in 0 .. MaxKey /\ b.max \in 0 .. MaxKey  BY <1>6 DEF WellFormed, BucketType
  <2>3. m \in 0 .. MaxKey /\ b.min <= m /\ m + 1 <= b.max /\ m + 1 \in 0 .. MaxKey
    BY <2>1, <2>2, KbNumbers DEF Mid
  <2>4. two = <<c, d>>  BY DEF Split
  <2> HIDE DEF m
  <2>5. WellFormed(c) /\ c.min = b.min /\ c.max = m
    BY <1>6, <2>2, <2>3, HalfFacts
  <2>6. WellFormed(d) /\ d.min = m + 1 /\ d.max = b.max
    BY <1>6, <2>2, <2>3, HalfFacts
  <2> HIDE DEF c, d, two
  <2>7. R = SubSeq(U, 1, i - 1) \o [two EXCEPT ![h] = KInsert(@, e)] \o SubSeq(U, i + 1, Len(U))
    BY <1>3, <1>11
  <2>8. two[1] = c /\ two[2] = d  BY <2>4
  <2>9. PICK x, y : /\ [two EXCEPT ![h] = KInsert(@, e)] = <<x, y>>
                    /\ WellFormed(x) /\ WellFormed(y)
                    /\ x.min = b.min /\ x.max = m /\ y.min = m + 1 /\ y.max = b.max
    <3>1. CASE InRange(c, e.id)
      <4> DEFINE x == KInsert(c, e)
      <4>1. h = 1  BY <2>8, <3>1
      <4>2. WellFormed(x) /\ x.min = b.min /\ x.max = m  BY <2>5, <3>1, InsertFacts DEF Kept
      <4>3. [two EXCEPT ![h] = KInsert(@, e)] = [two EXCEPT ![1] = x]  BY <2>8, <4>1
      <4> HIDE DEF x
      <4>4. [two EXCEPT ![1] = x] = <<x, d>>  BY <2>4
      <4>5. QED  BY <2>6, <4>2, <4>3, <4>4
    <3>2. CASE ~InRange(c, e.id)
      <4> DEFINE y == KInsert(d, e)
      <4>1. h = 2  BY <2>8, <3>2
      <4>2. InRange(d, e.id)  BY <1>4, <1>5, <2>2, <2>3, <2>5, <2>6, <3>2 DEF InRange
      <4>3. WellFormed(y) /\ y.min = m + 1 /\ y.max = b.max  BY <2>6, <4>2, InsertFacts DEF Kept
      <4>4. [two EXCEPT ![h] = KInsert(@, e)] = [two EXCEPT ![2] = y]  BY <2>8, <4>1
      <4> HIDE DEF y
      <4>5. [two EXCEPT ![2] = y] = <<c, y>>  BY <2>4
      <4>6. QED  BY <2>5, <4>3, <4>4, <4>5
    <3>3. QED  BY <3>1, <3>2
  <2>10. Table(R) /\ Len(R) = Len(U) + 1
    <3>1. R = SubSeq(U, 1, i - 1) \o <<x, y>> \o SubSeq(U, i + 1, Len(U))  BY <2>7, <2>9
    <3>2. x.min = U[i].min /\ y.min = x.max + 1 /\ y.max = U[i].max  BY <2>9
    <3> DEFINE V == SubSeq(U, 1, i - 1) \o <<x, y>> \o SubSeq(U, i + 1, Len(U))
    <3>3. Table(U) /\ i \in 1 .. Len(U) /\ WellFormed(x) /\ WellFormed(y)  BY <1>1, <1>5, <2>9
    <3> HIDE DEF b, h
    <3>4. Table(V) /\ Len(V) = Len(U) + 1  BY <3>2, <3>3, TwoForOne
    <3>5. QED  BY <3>1, <3>4
  <2>11. QED  BY <1>2, <1>7, <2>10 DEF R
<1>12. QED  BY <1>9, <1>10, <1>11

\* KBucketTable::onTimeout: one entry of one bucket is counted up.
LEMMA TableTimeoutFacts ==
  ASSUME NEW T, Table(T), NEW n
  PROVE  /\ Table(TableTimeout(T, n)) /\ Len(TableTimeout(T, n)) = Len(T)
         /\ \A j \in 1 .. Len(T) : /\ Kept(T[j], TableTimeout(T, n)[j])
                                   /\ TableTimeout(T, n)[j].pinging = T[j].pinging
<1> DEFINE I == {k \in 1 .. Len(T) : Index(T[k].entries, n) # 0}
           i == SelectInSeq(T, LAMBDA b : Index(b.entries, n) # 0)
           R == TableTimeout(T, n)
<1>1. i = IF I # {} THEN Min(I) ELSE 0  BY Zenon DEF SelectInSeq
<1>2. Len(T) \in Nat  BY LenProperties DEF Table
<1>3. I # {} => Min(I) \in I
  <2>1. I \in SUBSET Nat  BY <1>2
  <2> HIDE DEF I
  <2>2. QED  BY <2>1, LeastIn
<1>4. i # 0 => i \in 1 .. Len(T) /\ Index(T[i].entries, n) # 0
  <2> HIDE DEF i
  <2>1. CASE I = {}  BY <1>1, <2>1
  <2>2. CASE I # {}
    <3>1. i \in I  BY <1>1, <1>3, <2>2
    <3>2. QED  BY <3>1
  <2>3. QED  BY <2>1, <2>2
<1>5. R = IF i = 0 THEN T
          ELSE [T EXCEPT ![i].entries[Index(T[i].entries, n)].failed = IF @ > BadLimit THEN @ ELSE @ + 1]
  BY Zenon DEF TableTimeout
<1> HIDE DEF i, I, R
<1>6. ASSUME NEW j \in 1 .. Len(T) PROVE Kept(T[j], T[j])
  <2>1. T[j] \in BucketType  BY DEF Table, WellFormed
  <2>2. Len(T[j].pinging) \in Nat  BY <2>1, LenProperties DEF BucketType
  <2>3. QED  BY <2>2 DEF Kept
<1>7. CASE i = 0
  <2>1. R = T  BY <1>5, <1>7
  <2>2. QED  BY <1>6, <2>1 DEF R
<1>8. CASE i # 0
  <2> DEFINE b == T[i]
             q == Index(b.entries, n)
             e == b.entries[q]
             x == [e EXCEPT !.failed = IF @ > BadLimit THEN @ ELSE @ + 1]
             list == [b.entries EXCEPT ![q] = x]
             c == [b EXCEPT !.entries = list]
  <2>1. i \in 1 .. Len(T) /\ q # 0  BY <1>4, <1>8
  <2>2. WellFormed(b)  BY <2>1 DEF Table
  <2>3. b.entries \in Seq(EntryType) /\ Len(b.entries) <= BucketK /\ Fits(b, b.entries)
    BY <2>2 DEF WellFormed, BucketType
  <2>4. q \in 1 .. Len(b.entries)  BY <2>1, <2>3, IndexFacts
  <2>5. e \in EntryType  BY <2>3, <2>4, ElementOfSeq
  <2>6. x \in EntryType /\ x.id = e.id  BY <2>5, CountedUp
  <2>7. InRange(b, e.id)  BY <2>3, <2>4 DEF Fits
  <2>8. R = [T EXCEPT ![i].entries[q].failed = IF @ > BadLimit THEN @ ELSE @ + 1]
    BY <1>5, <1>8
  <2>9. R = [T EXCEPT ![i] = c]
    <3> HIDE DEF q
    <3>1. QED  BY <2>8
  <2> HIDE DEF x
  <2>10. list \in Seq(EntryType) /\ Len(list) = Len(b.entries) /\ Fits(b, list)
    <3>1. InRange(b, x.id)  BY <2>6, <2>7
    <3> HIDE DEF q, b
    <3>2. QED  BY <2>3, <2>4, <2>6, <3>1, EntryReplaced
  <2> HIDE DEF list, e, q
  <2>11. WellFormed(c) /\ Kept(b, c) /\ c.pinging = b.pinging
    <3>1. Len(list) <= BucketK  BY <2>3, <2>10
    <3>2. WellFormed(c) /\ Kept(b, c)
      <4> HIDE DEF b
      <4>1. QED  BY <2>2, <2>10, <3>1, EntriesChange
    <3>3. c.pinging = b.pinging  BY <2>2 DEF WellFormed, BucketType
    <3>4. QED  BY <3>2, <3>3
  <2>12. c.min = T[i].min /\ c.max = T[i].max  BY <2>11 DEF Kept
  <2> HIDE DEF c
  <2>13. /\ Table([T EXCEPT ![i] = c]) /\ Len([T EXCEPT ![i] = c]) = Len(T)
         /\ \A j \in 1 .. Len(T) : [T EXCEPT ![i] = c][j] = IF j = i THEN c ELSE T[j]
    <3> HIDE DEF b
    <3>1. WellFormed(c)  BY <2>11
    <3>2. QED  BY <2>1, <2>12, <3>1, BucketChanges
  <2>14. /\ Table(R) /\ Len(R) = Len(T)
         /\ \A j \in 1 .. Len(T) : R[j] = IF j = i THEN c ELSE T[j]
    BY <2>9, <2>13
  <2>15. \A j \in 1 .. Len(T) : Kept(T[j], R[j]) /\ R[j].pinging = T[j].pinging
    BY <1>6, <2>11, <2>14
  <2>16. QED  BY <2>14, <2>15 DEF R
<1>9. QED  BY <1>7, <1>8

\* A ping is over: what it waited for is still of the range of the bucket.
LEMMA DropPingFacts ==
  ASSUME NEW b, WellFormed(b), NEW k \in 1 .. Len(b.pinging)
  PROVE  LET c == DropPing(b, k)
         IN  WellFormed(c) /\ c.min = b.min /\ c.max = b.max
<1> DEFINE list == RemoveAt(b.pinging, k)
           c == [b EXCEPT !.pinging = list]
<1>1. /\ b.pinging \in Seq(PingType) /\ Len(b.pinging) \in Nat /\ Len(b.pinging) <= MaxPings
      /\ \A l \in 1 .. Len(b.pinging) : InRange(b, b.pinging[l].by.id)
  BY LenProperties DEF WellFormed, BucketType
<1>2. /\ list \in Seq(PingType) /\ Len(list) = Len(b.pinging) - 1
      /\ \A l \in 1 .. Len(b.pinging) - 1 :
            list[l] = IF l < k THEN b.pinging[l] ELSE b.pinging[l + 1]
  BY <1>1, RemoveAtFacts
<1> HIDE DEF list
<1>3. Len(list) <= MaxPings  BY <1>1, <1>2, KbNumbers
<1>4. ASSUME NEW l \in 1 .. Len(list) PROVE InRange(b, list[l].by.id)
  <2>1. l \in 1 .. Len(b.pinging) - 1 /\ l \in 1 .. Len(b.pinging) /\ l + 1 \in 1 .. Len(b.pinging)
    BY <1>1, <1>2
  <2>2. list[l] = b.pinging[l] \/ list[l] = b.pinging[l + 1]  BY <1>2, <2>1
  <2>3. QED  BY <1>1, <2>1, <2>2
<1>5. WellFormed(c) /\ c.min = b.min /\ c.max = b.max
  BY <1>2, <1>3, <1>4, PingingChange
<1>6. QED  BY <1>5 DEF DropPing, list

\* KBucket::onTimeout: the entry that waited takes the place of the silent
\* one, and the next one that waits is tried.
LEMMA AfterTimeoutFacts ==
  ASSUME NEW b, WellFormed(b), clock \in 0 .. MaxClock, NEW k \in 1 .. Len(b.pinging)
  PROVE  LET c == AfterTimeout(b, k)
         IN  WellFormed(c) /\ c.min = b.min /\ c.max = b.max
<1> DEFINE p == b.pinging[k]
           j == Index(b.entries, p.node)
           a == IF j = 0 THEN b ELSE MoveToEnd(b, j, p.by)
           r == DropPing(a, k)
           s == [r EXCEPT !.pending = Tail(@)]
           R == AfterTimeout(b, k)
<1>1. /\ b.pinging \in Seq(PingType) /\ b.entries \in Seq(EntryType)
      /\ InRange(b, p.by.id)
  BY DEF WellFormed, BucketType
<1>2. p \in PingType  BY <1>1, ElementOfSeq
<1>3. p.by \in EntryType  BY <1>2 DEF PingType
<1>4. j \in 0 .. Len(b.entries) /\ (j # 0 => j \in 1 .. Len(b.entries))
  <2>1. Len(b.entries) \in Nat  BY <1>1, LenProperties
  <2>2. j = 0 \/ j \in 1 .. Len(b.entries)  BY <1>1, IndexFacts
  <2> HIDE DEF j
  <2>3. QED  BY <2>1, <2>2
<1>5. R = IF Len(r.pinging) < MaxPings /\ r.pending # <<>>
          THEN ReplaceBad(s, Head(r.pending)) ELSE r
  BY Zenon DEF AfterTimeout
<1> HIDE DEF p, j, R
<1>6. WellFormed(a) /\ a.min = b.min /\ a.max = b.max /\ k \in 1 .. Len(a.pinging)
  <2>1. CASE j = 0
    <3>1. a = b  BY <2>1
    <3> HIDE DEF a
    <3>2. QED  BY <3>1
  <2>2. CASE j # 0
    <3>1. a = MoveToEnd(b, j, p.by)  BY <2>2
    <3>2. j \in 1 .. Len(b.entries)  BY <1>4, <2>2
    <3>3. WellFormed(MoveToEnd(b, j, p.by)) /\ Kept(b, MoveToEnd(b, j, p.by))
      BY <1>1, <1>3, <3>2, MoveToEndFacts
    <3> HIDE DEF a
    <3>4. WellFormed(a) /\ Kept(b, a)  BY <3>1, <3>3
    <3>5. Len(a.pinging) \in Nat /\ Len(b.pinging) \in Nat
      BY <3>4, LenProperties DEF WellFormed, BucketType
    <3>6. QED  BY <3>4, <3>5 DEF Kept
  <2>3. QED  BY <2>1, <2>2
<1> HIDE DEF a
<1>7. WellFormed(r) /\ r.min = b.min /\ r.max = b.max  BY <1>6, DropPingFacts
<1> HIDE DEF r
<1>8. CASE ~(Len(r.pinging) < MaxPings /\ r.pending # <<>>)
  <2>1. R = r  BY <1>5, <1>8
  <2>2. QED  BY <1>7, <2>1 DEF R
<1>9. CASE Len(r.pinging) < MaxPings /\ r.pending # <<>>
  <2> DEFINE list == Tail(r.pending)
             e == Head(r.pending)
  <2>1. r.pending \in Seq(EntryType) /\ Len(r.pending) <= BucketK /\ Fits(r, r.pending)
    BY <1>7 DEF WellFormed, BucketType
  <2>2. /\ e \in EntryType /\ e = r.pending[1] /\ list \in Seq(EntryType)
        /\ Len(list) = Len(r.pending) - 1 /\ \A i \in 1 .. Len(list) : list[i] = r.pending[i + 1]
    BY <1>9, <2>1, HeadTailProperties
  <2>3. Len(r.pending) \in Nat /\ Len(r.pending) # 0  BY <1>9, <2>1, LenProperties, EmptySeq
  <2> HIDE DEF list
  <2>4. Len(list) <= BucketK /\ InRange(r, e.id)
    <3>1. 1 \in 1 .. Len(r.pending)  BY <2>3
    <3>2. InRange(r, e.id)  BY <2>1, <2>2, <3>1 DEF Fits
    <3>3. QED  BY <2>1, <2>2, <2>3, <3>2, KbNumbers
  <2>5. Fits(r, list)
    <3> SUFFICES ASSUME NEW i \in 1 .. Len(list) PROVE InRange(r, list[i].id)
      BY DEF Fits
    <3>1. i + 1 \in 1 .. Len(r.pending)  BY <2>2, <2>3
    <3>2. QED  BY <2>1, <2>2, <3>1 DEF Fits
  <2>6. s = [r EXCEPT !.pending = list]  BY DEF list
  <2> HIDE DEF s, e
  <2>7. WellFormed(s) /\ Kept(r, s)
    <3>1. LET c == [r EXCEPT !.pending = list] IN WellFormed(c) /\ Kept(r, c)
      BY <1>7, <2>2, <2>4, <2>5, PendingChange
    <3>2. QED  BY <2>6, <3>1
  <2>8. InRange(s, e.id)  BY <2>4, <2>7 DEF Kept, InRange
  <2>9. WellFormed(ReplaceBad(s, e)) /\ Kept(s, ReplaceBad(s, e))
    BY <2>2, <2>7, <2>8, ReplaceFacts
  <2>10. R = ReplaceBad(s, e)  BY <1>5, <1>9 DEF e
  <2>11. QED  BY <1>7, <2>7, <2>9, <2>10 DEF Kept, R
<1>10. QED  BY <1>8, <1>9

\* A bucket that was saved and loaded.
LEMMA ReloadedFacts ==
  ASSUME NEW b, WellFormed(b), clock \in 0 .. MaxClock
  PROVE  WellFormed(Reloaded(b)) /\ Reloaded(b).min = b.min /\ Reloaded(b).max = b.max
<1> DEFINE list == [i \in DOMAIN b.entries |-> Entry(b.entries[i].id)]
           c == Reloaded(b)
<1>1. /\ b.entries \in Seq(EntryType) /\ Len(b.entries) \in Nat /\ DOMAIN b.entries = 1 .. Len(b.entries)
      /\ b.min \in 0 .. MaxKey /\ b.max \in 0 .. MaxKey
  BY LenProperties DEF WellFormed, BucketType
<1>2. ASSUME NEW i \in 1 .. Len(b.entries)
      PROVE  Entry(b.entries[i].id) \in EntryType /\ Entry(b.entries[i].id).id = b.entries[i].id
  <2>1. b.entries[i] \in EntryType  BY <1>1, ElementOfSeq
  <2>2. b.entries[i].id \in Peers  BY <2>1 DEF EntryType
  <2>3. QED  BY <2>2, KbNumbers DEF Entry, EntryType
<1>3. list = [i \in 1 .. Len(b.entries) |-> Entry(b.entries[i].id)]  BY <1>1
<1> HIDE DEF list
<1>4. list \in Seq(EntryType) /\ Len(list) = Len(b.entries)
  BY <1>1, <1>2, <1>3, IsASeq
<1>5. Fits(b, list)
  BY <1>2, <1>3, <1>4 DEF WellFormed, Fits
<1>6. <<>> \in Seq(EntryType) /\ <<>> \in Seq(PingType) /\ Len(<<>>) = 0  BY EmptySeq
<1>7. c = [Bucket(b.min, b.max) EXCEPT !.entries = list]  BY DEF Reloaded, list
<1> HIDE DEF c
<1>8. /\ c \in BucketType /\ c.min = b.min /\ c.max = b.max /\ c.entries = list
      /\ c.pending = <<>> /\ c.pinging = <<>>
  BY <1>1, <1>4, <1>6, <1>7 DEF Bucket, BucketType
<1>9. /\ b.min <= b.max /\ Len(list) <= BucketK /\ 0 <= BucketK /\ 0 <= MaxPings
  BY <1>4, KbNumbers DEF WellFormed
<1>10. Fits(c, list)  BY <1>5, <1>8 DEF Fits, InRange
<1>11. Fits(c, <<>>) /\ \A k \in 1 .. Len(<<>>) : InRange(c, <<>>[k].by.id)  BY <1>6 DEF Fits
<1>12. WellFormed(c)  BY <1>6, <1>8, <1>9, <1>10, <1>11 DEF WellFormed
<1>13. QED  BY <1>8, <1>12 DEF c

\* Every bucket changed, in the same ranges.
LEMMA EveryBucketChanges ==
  ASSUME NEW T, Table(T), NEW U, DOMAIN U = 1 .. Len(T), U = [i \in 1 .. Len(T) |-> U[i]],
         \A i \in 1 .. Len(T) : WellFormed(U[i]) /\ U[i].min = T[i].min /\ U[i].max = T[i].max
  PROVE  Table(U)
<1>1. Len(T) \in Nat  BY LenProperties DEF Table
<1>2. \A i \in 1 .. Len(T) : U[i] \in BucketType  BY DEF WellFormed
<1>3. U \in Seq(BucketType) /\ Len(U) = Len(T)
  <2>1. U \in [1 .. Len(T) -> BucketType]  BY <1>2
  <2>2. U \in Seq(BucketType)  BY <1>1, <2>1, SeqDef
  <2>3. QED  BY <1>1, <2>2, LenProperties
<1>4. Ordered(U)  BY <1>3 DEF Table, Ordered
<1>5. Covering(U)
  <2> SUFFICES ASSUME U # <<>>, NEW n \in 0 .. MaxKey
               PROVE  \E i \in 1 .. Len(U) : InRange(U[i], n)
    BY DEF Covering
  <2>1. Len(U) # 0  BY <1>3, EmptySeq
  <2>2. T # <<>>  BY <1>3, <2>1, EmptySeq
  <2>3. PICK i \in 1 .. Len(T) : InRange(T[i], n)  BY <2>2 DEF Table, Covering
  <2>4. QED  BY <1>3, <2>3 DEF InRange
<1>6. QED  BY <1>3, <1>4, <1>5 DEF Table

\* Init, and every message, timeout, refresh and restart.
LEMMA KbInitInv == KbInit => KbInv
<1> SUFFICES ASSUME KbInit PROVE KbInv
  OBVIOUS
<1>1. buckets = <<>> /\ clock \in 0 .. MaxClock  BY KbNumbers DEF KbInit
<1>2. <<>> \in Seq(BucketType) /\ Len(<<>>) = 0  BY EmptySeq
<1>3. Table(<<>>)  BY <1>2 DEF Table, Ordered, Covering
<1>4. QED  BY <1>1, <1>3 DEF KbInv

LEMMA EntryFacts ==
  ASSUME NEW n \in Peers, clock \in 0 .. MaxClock
  PROVE  Entry(n) \in EntryType
BY KbNumbers DEF Entry, EntryType

LEMMA ReceivedKeeps == ASSUME KbInv, NEW n \in Peers, Received(n) PROVE KbInv'
<1>1. buckets' = TableInsert(buckets, Entry(n)) /\ clock' = clock  BY DEF Received
<1>2. Table(TableInsert(buckets, Entry(n)))  BY EntryFacts, TableInsertFacts DEF KbInv
<1>3. Table(buckets')  BY <1>1, <1>2
<1>4. Table(buckets)'  BY <1>3 DEF Table, WellFormed, Fits, InRange, Ordered, Covering
<1>5. QED  BY <1>1, <1>4 DEF KbInv

LEMMA CallTimeoutKeeps == ASSUME KbInv, NEW n \in Peers, CallTimeout(n) PROVE KbInv'
<1>1. buckets' = TableTimeout(buckets, n) /\ clock' = clock  BY DEF CallTimeout
<1>2. Table(TableTimeout(buckets, n))  BY TableTimeoutFacts DEF KbInv
<1>3. Table(buckets')  BY <1>1, <1>2
<1>4. Table(buckets)'  BY <1>3 DEF Table, WellFormed, Fits, InRange, Ordered, Covering
<1>5. QED  BY <1>1, <1>4 DEF KbInv

LEMMA PingAnsweredKeeps ==
  ASSUME KbInv, NEW i \in DOMAIN buckets, NEW k \in 1 .. MaxPings, PingAnswered(i, k)
  PROVE  KbInv'
<1> DEFINE b == buckets[i]
           p == b.pinging[k]
           T == TableInsert(buckets, Entry(p.node))
           a == [T[i] EXCEPT !.modified = clock]
           d == DropPing(a, k)
           c == ReplaceBad(d, p.by)
           U == IF Len(T) > Len(buckets) THEN T ELSE [T EXCEPT ![i] = c]
<1>1. k \in DOMAIN b.pinging /\ buckets' = U /\ clock' = clock  BY DEF PingAnswered
<1>2. /\ clock \in 0 .. MaxClock /\ Table(buckets) /\ i \in 1 .. Len(buckets)
      /\ Len(buckets) \in Nat /\ buckets # <<>>
  <2>1. clock \in 0 .. MaxClock /\ Table(buckets)  BY DEF KbInv
  <2>2. i \in 1 .. Len(buckets) /\ Len(buckets) \in Nat  BY <2>1, LenProperties DEF Table
  <2>3. QED  BY <2>1, <2>2, EmptySeq
<1>3. WellFormed(b)  BY <1>2 DEF Table
<1>4. /\ b.pinging \in Seq(PingType) /\ k \in 1 .. Len(b.pinging) /\ InRange(b, p.by.id)
      /\ Len(b.pinging) \in Nat
  <2>1. b.pinging \in Seq(PingType)  BY <1>3 DEF WellFormed, BucketType
  <2>2. k \in 1 .. Len(b.pinging) /\ Len(b.pinging) \in Nat  BY <1>1, <2>1, LenProperties
  <2>3. QED  BY <1>3, <2>1, <2>2 DEF WellFormed
<1>5. p.node \in Peers /\ p.by \in EntryType
  <2>1. p \in PingType  BY <1>4, ElementOfSeq
  <2>2. QED  BY <2>1 DEF PingType
<1> HIDE DEF p
<1>6. /\ Table(T) /\ Len(T) >= Len(buckets)
      /\ Len(T) = Len(buckets) => \A j \in 1 .. Len(buckets) : Kept(buckets[j], T[j])
  BY <1>2, <1>5, EntryFacts, TableInsertFacts
<1>7. Len(T) \in Nat  BY <1>6, LenProperties DEF Table
<1> HIDE DEF T
<1>8. Table(U)
  <2>1. CASE Len(T) > Len(buckets)
    <3>1. U = T  BY <2>1
    <3> HIDE DEF U
    <3>2. QED  BY <1>6, <3>1
  <2>2. CASE ~(Len(T) > Len(buckets))
    <3>1. Len(T) = Len(buckets) /\ i \in 1 .. Len(T)  BY <1>2, <1>6, <1>7, <2>2
    <3>2. Kept(b, T[i]) /\ WellFormed(T[i])  BY <1>2, <1>6, <3>1 DEF Table
    <3>3. WellFormed(a) /\ Kept(T[i], a)  BY <1>2, <3>2, ModifiedChange
    <3> HIDE DEF a
    <3>4. k \in 1 .. Len(a.pinging)
      <4>1. Len(a.pinging) \in Nat /\ Len(T[i].pinging) \in Nat
        BY <3>2, <3>3, LenProperties DEF WellFormed, BucketType
      <4>2. QED  BY <1>4, <3>2, <3>3, <4>1 DEF Kept
    <3>5. WellFormed(d) /\ d.min = a.min /\ d.max = a.max  BY <3>3, <3>4, DropPingFacts
    <3> HIDE DEF d
    <3>6. InRange(d, p.by.id)  BY <1>4, <3>2, <3>3, <3>5 DEF Kept, InRange
    <3>7. WellFormed(c) /\ Kept(d, c)  BY <1>2, <1>5, <3>5, <3>6, ReplaceFacts
    <3>8. c.min = T[i].min /\ c.max = T[i].max  BY <3>3, <3>5, <3>7 DEF Kept
    <3> HIDE DEF c
    <3>9. Table([T EXCEPT ![i] = c])  BY <1>6, <3>1, <3>7, <3>8, BucketChanges
    <3>10. QED  BY <2>2, <3>9
  <2>3. QED  BY <2>1, <2>2
<1> HIDE DEF U
<1>9. Table(buckets')  BY <1>1, <1>8
<1>10. Table(buckets)'  BY <1>9 DEF Table, WellFormed, Fits, InRange, Ordered, Covering
<1>11. QED  BY <1>1, <1>2, <1>10 DEF KbInv

LEMMA PingTimeoutKeeps ==
  ASSUME KbInv, NEW i \in DOMAIN buckets, NEW k \in 1 .. MaxPings, PingTimeout(i, k)
  PROVE  KbInv'
<1> DEFINE b == buckets[i]
           T == TableTimeout(buckets, b.pinging[k].node)
           c == AfterTimeout(T[i], k)
<1>1. k \in DOMAIN b.pinging /\ clock' = clock /\ buckets' = [T EXCEPT ![i] = c]
  BY DEF PingTimeout
<1>2. clock \in 0 .. MaxClock /\ Table(buckets) /\ i \in 1 .. Len(buckets)
  <2>1. clock \in 0 .. MaxClock /\ Table(buckets)  BY DEF KbInv
  <2>2. i \in 1 .. Len(buckets)  BY <2>1, LenProperties DEF Table
  <2>3. QED  BY <2>1, <2>2
<1>3. WellFormed(b)  BY <1>2 DEF Table
<1>4. k \in 1 .. Len(b.pinging)
  <2>1. b.pinging \in Seq(PingType)  BY <1>3 DEF WellFormed, BucketType
  <2>2. QED  BY <1>1, <2>1, LenProperties
<1>5. /\ Table(T) /\ Len(T) = Len(buckets)
      /\ \A j \in 1 .. Len(buckets) : T[j].pinging = buckets[j].pinging
  BY <1>2, TableTimeoutFacts
<1> HIDE DEF T
<1>6. WellFormed(T[i]) /\ k \in 1 .. Len(T[i].pinging) /\ i \in 1 .. Len(T)
  BY <1>2, <1>4, <1>5 DEF Table
<1>7. WellFormed(c) /\ c.min = T[i].min /\ c.max = T[i].max
  BY <1>2, <1>6, AfterTimeoutFacts
<1> HIDE DEF c
<1>8. Table([T EXCEPT ![i] = c])  BY <1>5, <1>6, <1>7, BucketChanges
<1>9. Table(buckets')  BY <1>1, <1>8
<1>10. Table(buckets)'  BY <1>9 DEF Table, WellFormed, Fits, InRange, Ordered, Covering
<1>11. QED  BY <1>1, <1>2, <1>10 DEF KbInv

LEMMA RefreshKeeps == ASSUME KbInv, RefreshBuckets PROVE KbInv'
<1> DEFINE N(i) == IF NeedsRefresh(buckets[i])
                   THEN [buckets[i] EXCEPT !.modified = clock, !.refreshing = TRUE] ELSE buckets[i]
<1>1. clock \in 0 .. MaxClock /\ Table(buckets)  BY DEF KbInv
<1>2. DOMAIN buckets = 1 .. Len(buckets)  BY <1>1, LenProperties DEF Table
<1>3. buckets' = [i \in 1 .. Len(buckets) |-> N(i)] /\ clock' = clock
  BY <1>2 DEF RefreshBuckets
<1>4. ASSUME NEW i \in 1 .. Len(buckets)
      PROVE  WellFormed(N(i)) /\ N(i).min = buckets[i].min /\ N(i).max = buckets[i].max
  <2> DEFINE c == [buckets[i] EXCEPT !.modified = clock, !.refreshing = TRUE]
  <2>1. WellFormed(buckets[i])  BY <1>1 DEF Table
  <2>2. WellFormed(c) /\ Kept(buckets[i], c)  BY <1>1, <2>1, ModifiedChange
  <2>3. c.min = buckets[i].min /\ c.max = buckets[i].max  BY <2>2 DEF Kept
  <2>4. N(i) = IF NeedsRefresh(buckets[i]) THEN c ELSE buckets[i]  OBVIOUS
  <2> HIDE DEF c, N
  <2>5. N(i) = c \/ N(i) = buckets[i]  BY <2>4
  <2>6. QED  BY <2>1, <2>2, <2>3, <2>5
<1> HIDE DEF N
<1>5. \A i \in 1 .. Len(buckets) : buckets'[i] = N(i)  BY <1>3
<1>6. Table(buckets')
  <2>1. DOMAIN buckets' = 1 .. Len(buckets) /\ buckets' = [i \in 1 .. Len(buckets) |-> buckets'[i]]
    BY <1>3
  <2>2. \A i \in 1 .. Len(buckets) : /\ WellFormed(buckets'[i]) /\ buckets'[i].min = buckets[i].min
                                     /\ buckets'[i].max = buckets[i].max
    BY <1>4, <1>5
  <2>3. QED  BY <1>1, <2>1, <2>2, EveryBucketChanges
<1>7. Table(buckets)'  BY <1>6 DEF Table, WellFormed, Fits, InRange, Ordered, Covering
<1>8. QED  BY <1>1, <1>3, <1>7 DEF KbInv

LEMMA RefreshFinishedKeeps ==
  ASSUME KbInv, NEW i \in DOMAIN buckets, RefreshFinished(i) PROVE KbInv'
<1> DEFINE c == [buckets[i] EXCEPT !.refreshing = FALSE]
<1>1. clock \in 0 .. MaxClock /\ Table(buckets)  BY DEF KbInv
<1>2. i \in 1 .. Len(buckets)  BY <1>1, LenProperties DEF Table
<1>3. WellFormed(buckets[i])  BY <1>1, <1>2 DEF Table
<1>4. WellFormed(c) /\ Kept(buckets[i], c)  BY <1>1, <1>3, ModifiedChange
<1>5. c.min = buckets[i].min /\ c.max = buckets[i].max  BY <1>4 DEF Kept
<1>6. buckets' = [buckets EXCEPT ![i] = c] /\ clock' = clock  BY DEF RefreshFinished
<1> HIDE DEF c
<1>7. Table([buckets EXCEPT ![i] = c])  BY <1>1, <1>2, <1>4, <1>5, BucketChanges
<1>8. Table(buckets')  BY <1>6, <1>7
<1>9. Table(buckets)'  BY <1>8 DEF Table, WellFormed, Fits, InRange, Ordered, Covering
<1>10. QED  BY <1>1, <1>6, <1>9 DEF KbInv

LEMMA RestartKeeps == ASSUME KbInv, NEW newKey \in BOOLEAN, Restart(newKey) PROVE KbInv'
<1>1. clock \in 0 .. MaxClock /\ Table(buckets)  BY DEF KbInv
<1>2. DOMAIN buckets = 1 .. Len(buckets)  BY <1>1, LenProperties DEF Table
<1>3. clock' = clock /\ buckets' = LoadTable(newKey, buckets)  BY DEF Restart
<1>4. Table(buckets')
  <2>1. CASE newKey
    <3>1. buckets' = <<>>  BY <1>3, <2>1 DEF LoadTable
    <3>2. <<>> \in Seq(BucketType) /\ Len(<<>>) = 0  BY EmptySeq
    <3>3. Table(<<>>)  BY <3>2 DEF Table, Ordered, Covering
    <3>4. QED  BY <3>1, <3>3
  <2>2. CASE ~newKey
    <3>1. buckets' = [i \in 1 .. Len(buckets) |-> Reloaded(buckets[i])]
      BY <1>2, <1>3, <2>2 DEF LoadTable
    <3>2. /\ DOMAIN buckets' = 1 .. Len(buckets) /\ buckets' = [i \in 1 .. Len(buckets) |-> buckets'[i]]
          /\ \A i \in 1 .. Len(buckets) : buckets'[i] = Reloaded(buckets[i])
      BY <3>1
    <3>3. \A i \in 1 .. Len(buckets) : /\ WellFormed(Reloaded(buckets[i]))
                                       /\ Reloaded(buckets[i]).min = buckets[i].min
                                       /\ Reloaded(buckets[i]).max = buckets[i].max
      BY <1>1, ReloadedFacts DEF Table
    <3>4. QED  BY <1>1, <3>2, <3>3, EveryBucketChanges
  <2>3. QED  BY <2>1, <2>2
<1>5. Table(buckets)'  BY <1>4 DEF Table, WellFormed, Fits, InRange, Ordered, Covering
<1>6. QED  BY <1>1, <1>3, <1>5 DEF KbInv

LEMMA KbStep == KbInv /\ [KbNext]_kbVars => KbInv'
<1> SUFFICES ASSUME KbInv, [KbNext]_kbVars PROVE KbInv'
  OBVIOUS
<1>1. CASE \E n \in Peers : Received(n) \/ CallTimeout(n)
  BY <1>1, ReceivedKeeps, CallTimeoutKeeps
<1>2. CASE \E i \in DOMAIN buckets : RefreshFinished(i)  BY <1>2, RefreshFinishedKeeps
<1>3. CASE \E i \in DOMAIN buckets : \E k \in 1 .. MaxPings : PingAnswered(i, k) \/ PingTimeout(i, k)
  BY <1>3, PingAnsweredKeeps, PingTimeoutKeeps
<1>4. CASE RefreshBuckets  BY <1>4, RefreshKeeps
<1>5. CASE Tick
  <2>1. clock' = clock + 1 /\ clock < MaxClock /\ buckets' = buckets  BY <1>5 DEF Tick
  <2>2. clock' \in 0 .. MaxClock  BY <2>1, KbNumbers DEF KbInv
  <2>3. Table(buckets)'  BY <2>1 DEF KbInv, Table, WellFormed, Fits, InRange, Ordered, Covering
  <2>4. QED  BY <2>2, <2>3 DEF KbInv
<1>6. CASE \E newKey \in BOOLEAN : Restart(newKey)  BY <1>6, RestartKeeps
<1>7. CASE UNCHANGED kbVars
  <2>1. clock' = clock /\ buckets' = buckets  BY <1>7 DEF kbVars
  <2>2. QED  BY <2>1 DEF KbInv, Table, WellFormed, Fits, InRange, Ordered, Covering
<1>8. QED  BY <1>1, <1>2, <1>3, <1>4, <1>5, <1>6, <1>7 DEF KbNext

\* The inductive invariant of the routing table.
THEOREM KbInvariant == KbSpec => []KbInv
<1>1. KbInit => KbInv  BY KbInitInv
<1>2. KbInv /\ [KbNext]_kbVars => KbInv'  BY KbStep
<1>3. QED  BY <1>1, <1>2, PTL DEF KbSpec

\* Whatever nodes answer, fall silent or are replaced, and whenever the table
\* is saved and loaded, its buckets divide the key space, everything that is or
\* will be put into a bucket lies in its range, and no bucket outgrows K: for
\* keys of any size, any K and any number of nodes.
THEOREM TablePartition == KbSpec => []Partition
<1>1. KbInv => Partition
  <2> SUFFICES ASSUME KbInv PROVE Partition
    OBVIOUS
  <2>1. clock \in 0 .. MaxClock /\ Table(buckets)  BY DEF KbInv
  <2>2. DOMAIN buckets = 1 .. Len(buckets)  BY <2>1, LenProperties DEF Table
  <2>3. buckets # <<>> => \A n \in 0 .. MaxKey : \E i \in DOMAIN buckets : InRange(buckets[i], n)
    BY <2>1, <2>2 DEF Table, Covering
  <2>4. \A i, j \in DOMAIN buckets : j < i => buckets[j].max < buckets[i].min
    BY <2>1, <2>2 DEF Table, Ordered
  <2>5. ASSUME NEW i \in DOMAIN buckets
        PROVE  LET b == buckets[i]
               IN  /\ b.min \in 0 .. MaxKey /\ b.max \in b.min .. MaxKey
                   /\ b.entries \in Seq(EntryType) /\ b.pending \in Seq(EntryType)
                   /\ b.pinging \in Seq([node : Peers, by : EntryType])
                   /\ b.modified \in 0 .. MaxClock /\ b.refreshing \in BOOLEAN
                   /\ Len(b.entries) <= BucketK /\ Len(b.pending) <= BucketK
                   /\ Len(b.pinging) <= MaxPings
                   /\ \A e \in ToSet(b.entries) \cup ToSet(b.pending)
                               \cup {p.by : p \in ToSet(b.pinging)} : InRange(b, e.id)
    <3> DEFINE b == buckets[i]
    <3>1. WellFormed(b)  BY <2>1, <2>2 DEF Table
    <3> HIDE DEF b
    <3>2. /\ b.min \in 0 .. MaxKey /\ b.max \in 0 .. MaxKey /\ b.min <= b.max
          /\ b.entries \in Seq(EntryType) /\ b.pending \in Seq(EntryType)
          /\ b.pinging \in Seq([node : Peers, by : EntryType])
          /\ b.modified \in 0 .. MaxClock /\ b.refreshing \in BOOLEAN
      BY <3>1 DEF WellFormed, BucketType, PingType
    <3>3. b.max \in b.min .. MaxKey  BY <3>2, KbNumbers
    <3>4. \A e \in ToSet(b.entries) : InRange(b, e.id)
      <4>1. DOMAIN b.entries = 1 .. Len(b.entries)  BY <3>2, LenProperties
      <4>2. QED  BY <3>1, <4>1 DEF WellFormed, Fits, ToSet
    <3>5. \A e \in ToSet(b.pending) : InRange(b, e.id)
      <4>1. DOMAIN b.pending = 1 .. Len(b.pending)  BY <3>2, LenProperties
      <4>2. QED  BY <3>1, <4>1 DEF WellFormed, Fits, ToSet
    <3>6. \A e \in {p.by : p \in ToSet(b.pinging)} : InRange(b, e.id)
      <4>1. DOMAIN b.pinging = 1 .. Len(b.pinging)  BY <3>2, LenProperties
      <4>2. QED  BY <3>1, <4>1 DEF WellFormed, ToSet
    <3>7. QED  BY <3>1, <3>2, <3>3, <3>4, <3>5, <3>6 DEF WellFormed, b
  <2>6. KbTypeOK  BY <2>1, <2>5 DEF KbTypeOK
  <2>7. QED  BY <2>3, <2>4, <2>5, <2>6 DEF Partition
<1>2. QED  BY <1>1, KbInvariant, PTL

-----------------------------------------------------------------------------
(***************************************************************************)
(* The calls of the RPC server and the tasks that listen to them. A        *)
(* handler works on a record of the whole state, which may hold finished   *)
(* tasks until the handler ends.                                           *)
(***************************************************************************)
TaskRec == [st : {"free", "live", "finished"}, kind : {"lookup", "announce"}, queued : BOOLEAN,
            todo : SUBSET Nodes, visited : SUBSET Nodes, answered : SUBSET Nodes,
            announced : SUBSET Nodes, reqs : Nat]
DhtRec == [running : BOOLEAN, own : TaskIds \cup {0, -1}]
Calls == [Ids -> Call \cup {NoCall}]
SrvRec == [calls : Calls, queue : Seq(Call), next : Ids]
TmanRec == [active : Nat, queue : Seq(TaskIds)]
SrcRec == [started : BOOLEAN, curr : TaskIds \cup {0}, timer : BOOLEAN]
StateRec == [dht : DhtRec, srv : SrvRec, task : [TaskIds -> TaskRec], tman : TmanRec, src : SrcRec]

\* The calls that task t listens to, on the wire and in the queue.
OnWire(calls, t) == {m \in Ids : calls[m].task = t}
Listeners(queue) == [i \in DOMAIN queue |-> queue[i].task]
Owed(v, t) == Cardinality(OnWire(v.calls, t)) + Count(Listeners(v.queue), t)

LEMMA DhtNumbers ==
  /\ NumIds \in Nat \ {0} /\ MaxReqs \in Nat \ {0} /\ MaxTasks \in Nat \ {0}
  /\ Ids = 0 .. NumIds - 1 /\ TaskIds = 1 .. MaxTasks /\ 0 \notin TaskIds
  /\ IsFiniteSet(Ids) /\ Nodes \subseteq Int /\ IsFiniteSet(Nodes)
<1>1. NumIds \in Nat \ {0} /\ MaxReqs \in Nat \ {0} /\ MaxTasks \in Nat \ {0}
  BY DhtTasksAssumption
<1>2. IsFiniteSet(0 .. NumIds - 1)  BY <1>1, FS_Interval
<1>3. QED  BY <1>1, <1>2, DhtTasksAssumption DEF Ids, TaskIds

LEMMA CallFacts ==
  /\ NoCall.task = 0 /\ NoCall \notin Call
  /\ \A c \in Call : c.task \in TaskIds \cup {0} /\ c.method \in Methods
<1>1. NoCall.method \notin Methods  BY DEF NoCall, Methods
<1>2. QED  BY <1>1 DEF NoCall, Call

\* One entry of the table of calls changes.
LEMMA WireChanges ==
  ASSUME NEW calls \in Calls, NEW m \in Ids, NEW c \in Call \cup {NoCall}, NEW t
  PROVE  /\ [calls EXCEPT ![m] = c] \in Calls
         /\ Cardinality(OnWire(calls, t)) \in Nat
         /\ Cardinality(OnWire([calls EXCEPT ![m] = c], t)) =
              Cardinality(OnWire(calls, t)) - (IF calls[m].task = t THEN 1 ELSE 0)
                                            + (IF c.task = t THEN 1 ELSE 0)
<1> DEFINE new == [calls EXCEPT ![m] = c]
           A == OnWire(calls, t)
           B == OnWire(new, t)
           C == A \ {m}
<1>1. new \in Calls /\ new[m] = c /\ \A n \in Ids : n # m => new[n] = calls[n]  BY DEF Calls
<1> HIDE DEF new
<1>2. A \subseteq Ids /\ IsFiniteSet(A) /\ Cardinality(A) \in Nat
  <2>1. A \subseteq Ids  BY DEF OnWire
  <2>2. IsFiniteSet(A)  BY <2>1, DhtNumbers, FS_Subset
  <2>3. QED  BY <2>1, <2>2, FS_CardinalityType
<1>3. m \in A <=> calls[m].task = t  BY DEF OnWire
<1>4. B = IF c.task = t THEN C \cup {m} ELSE C  BY <1>1 DEF OnWire
<1> HIDE DEF A, B
<1>5. IsFiniteSet(C) /\ Cardinality(C) = Cardinality(A) - (IF m \in A THEN 1 ELSE 0)
  <2>1. IsFiniteSet(A \ {m}) /\ Cardinality(A \ {m}) = IF m \in A THEN Cardinality(A) - 1 ELSE Cardinality(A)
    BY <1>2, FS_RemoveElement
  <2>2. QED  BY <1>2, <2>1
<1>6. Cardinality(C \cup {m}) = Cardinality(C) + 1
  <2>1. m \notin C  OBVIOUS
  <2> HIDE DEF C
  <2>2. QED  BY <1>5, <2>1, FS_AddElement
<1> HIDE DEF C
<1>7. Cardinality(B) = Cardinality(A) - (IF calls[m].task = t THEN 1 ELSE 0)
                                      + (IF c.task = t THEN 1 ELSE 0)
  BY <1>2, <1>3, <1>4, <1>5, <1>6
<1>8. QED  BY <1>1, <1>2, <1>7 DEF new, A, B

\* The queue of calls grows at its end and is sent from its front.
LEMMA QueueChanges ==
  ASSUME NEW queue \in Seq(Call), NEW t
  PROVE  /\ Count(Listeners(queue), t) \in Nat
         /\ \A c \in Call : /\ Append(queue, c) \in Seq(Call)
                            /\ Count(Listeners(Append(queue, c)), t) =
                                 Count(Listeners(queue), t) + (IF c.task = t THEN 1 ELSE 0)
         /\ queue # <<>> => /\ Head(queue) \in Call /\ Tail(queue) \in Seq(Call)
                            /\ Len(Tail(queue)) = Len(queue) - 1
                            /\ Count(Listeners(queue), t) =
                                 Count(Listeners(Tail(queue)), t) + (IF Head(queue).task = t THEN 1 ELSE 0)
<1> DEFINE T == TaskIds \cup {0}
<1>1. \A q \in Seq(Call) : /\ Listeners(q) \in Seq(T) /\ DOMAIN Listeners(q) = 1 .. Len(q)
                           /\ Len(Listeners(q)) = Len(q) /\ Len(q) \in Nat
                           /\ \A i \in 1 .. Len(q) : Listeners(q)[i] = q[i].task
  <2> SUFFICES ASSUME NEW q \in Seq(Call)
               PROVE  /\ Listeners(q) \in Seq(T) /\ DOMAIN Listeners(q) = 1 .. Len(q)
                      /\ Len(Listeners(q)) = Len(q) /\ Len(q) \in Nat
                      /\ \A i \in 1 .. Len(q) : Listeners(q)[i] = q[i].task
    OBVIOUS
  <2>1. DOMAIN q = 1 .. Len(q) /\ Len(q) \in Nat /\ \A i \in 1 .. Len(q) : q[i] \in Call
    BY LenProperties, ElementOfSeq
  <2>2. Listeners(q) = [i \in 1 .. Len(q) |-> q[i].task]  BY <2>1 DEF Listeners
  <2>3. \A i \in 1 .. Len(q) : q[i].task \in T  BY <2>1, CallFacts
  <2>4. Listeners(q) \in [1 .. Len(q) -> T]  BY <2>2, <2>3
  <2>5. Listeners(q) \in Seq(T)  BY <2>1, <2>4, SeqDef
  <2>6. Len(Listeners(q)) = Len(q)  BY <2>1, <2>4, <2>5, LenProperties
  <2>7. QED  BY <2>1, <2>2, <2>5, <2>6
<1>2. Count(Listeners(queue), t) \in Nat  BY <1>1, CountType
<1>3. ASSUME NEW c \in Call
      PROVE  /\ Append(queue, c) \in Seq(Call)
             /\ Count(Listeners(Append(queue, c)), t) =
                  Count(Listeners(queue), t) + (IF c.task = t THEN 1 ELSE 0)
  <2> DEFINE q == Append(queue, c)
             l == Listeners(queue)
  <2>1. /\ q \in Seq(Call) /\ Len(q) = Len(queue) + 1 /\ q[Len(queue) + 1] = c
        /\ \A i \in 1 .. Len(queue) : q[i] = queue[i]
    BY AppendProperties
  <2> HIDE DEF q
  <2>2. l \in Seq(T) /\ c.task \in T /\ Len(l) = Len(queue)  BY <1>1, CallFacts
  <2>3. Listeners(q) = Append(l, c.task)
    <3>1. Append(l, c.task) \in Seq(T) /\ Len(Append(l, c.task)) = Len(l) + 1
      BY <2>2, AppendProperties
    <3>2. \A i \in 1 .. Len(queue) + 1 : Append(l, c.task)[i] = Listeners(q)[i]
      <4> SUFFICES ASSUME NEW i \in 1 .. Len(queue) + 1
                   PROVE  Append(l, c.task)[i] = Listeners(q)[i]
        OBVIOUS
      <4>1. Listeners(q)[i] = q[i].task  BY <1>1, <2>1
      <4>2. CASE i = Len(queue) + 1  BY <4>1, <4>2, <2>1, <2>2, AppendProperties
      <4>3. CASE i # Len(queue) + 1
        <5>1. i \in 1 .. Len(queue)  BY <4>3, <1>1
        <5>2. Append(l, c.task)[i] = l[i]  BY <5>1, <2>2, AppendProperties
        <5>3. QED  BY <4>1, <5>1, <5>2, <1>1, <2>1
      <4>4. QED  BY <4>2, <4>3
    <3>3. Len(Listeners(q)) = Len(queue) + 1 /\ Listeners(q) \in Seq(T)  BY <1>1, <2>1
    <3>4. QED  BY <2>2, <3>1, <3>2, <3>3, SeqEqual
  <2>4. Count(Append(l, c.task), t) = Count(l, t) + (IF c.task = t THEN 1 ELSE 0)
    <3> DEFINE e == c.task
    <3>1. e \in T  BY <2>2
    <3> HIDE DEF l, e, T
    <3>2. Count(Append(l, e), t) = Count(l, t) + (IF e = t THEN 1 ELSE 0)  BY <2>2, <3>1, CountAppend
    <3>3. QED  BY <3>2 DEF e
  <2>5. QED  BY <2>1, <2>3, <2>4 DEF q
<1>4. ASSUME queue # <<>>
      PROVE  /\ Head(queue) \in Call /\ Tail(queue) \in Seq(Call)
             /\ Len(Tail(queue)) = Len(queue) - 1
             /\ Count(Listeners(queue), t) =
                  Count(Listeners(Tail(queue)), t) + (IF Head(queue).task = t THEN 1 ELSE 0)
  <2> DEFINE q == Tail(queue)
             l == Listeners(queue)
  <2>1. /\ Head(queue) \in Call /\ q \in Seq(Call) /\ Len(q) = Len(queue) - 1
        /\ Head(queue) = queue[1] /\ \A i \in 1 .. Len(q) : q[i] = queue[i + 1]
    BY <1>4, HeadTailProperties
  <2>2. Len(queue) \in Nat /\ Len(queue) # 0  BY <1>4, <1>1, EmptySeq
  <2> HIDE DEF q
  <2>3. l \in Seq(T) /\ Len(l) = Len(queue) /\ l # <<>>  BY <1>1, <2>2
  <2>4. Head(l) = Head(queue).task
    <3>1. Head(l) = l[1]  BY <2>3, HeadTailProperties
    <3>2. QED  BY <3>1, <1>1, <2>1, <2>2
  <2>5. Tail(l) = Listeners(q)
    <3>1. Tail(l) \in Seq(T) /\ Len(Tail(l)) = Len(l) - 1 /\ \A i \in 1 .. Len(Tail(l)) : Tail(l)[i] = l[i + 1]
      BY <2>3, HeadTailProperties
    <3>2. Listeners(q) \in Seq(T) /\ Len(Listeners(q)) = Len(q)  BY <1>1, <2>1
    <3>3. \A i \in 1 .. Len(q) : Tail(l)[i] = Listeners(q)[i]
      <4> SUFFICES ASSUME NEW i \in 1 .. Len(q) PROVE Tail(l)[i] = Listeners(q)[i]  OBVIOUS
      <4>1. i + 1 \in 1 .. Len(queue)  BY <2>1, <2>2
      <4>2. l[i + 1] = queue[i + 1].task  BY <1>1, <4>1
      <4>3. Listeners(q)[i] = q[i].task  BY <1>1, <2>1
      <4>4. QED  BY <3>1, <2>1, <2>3, <4>2, <4>3
    <3>4. QED  BY <2>1, <2>3, <3>1, <3>2, <3>3, SeqEqual
  <2>6. Count(l, t) = Count(Tail(l), t) + (IF Head(l) = t THEN 1 ELSE 0)
    <3> HIDE DEF l, T
    <3>1. QED  BY <2>3, CountTail
  <2>7. QED  BY <2>1, <2>4, <2>5, <2>6 DEF q
<1>5. QED  BY <1>2, <1>3, <1>4

(* The server. *)

\* Only the server differs.
ServerOnly(S, T) == T.task = S.task /\ T.tman = S.tman /\ T.dht = S.dht /\ T.src = S.src
\* What is on the wire stays.
KeepsCalls(S, T) == \A m \in Ids : S.srv.calls[m] # NoCall => T.srv.calls[m] = S.srv.calls[m]
\* A call waits only while every id is in use.
Orderly(S) == S.srv.queue # <<>> => InUse(S) = Ids

LEMMA StateFacts ==
  ASSUME NEW S \in StateRec
  PROVE  /\ S.srv \in SrvRec /\ S.srv.calls \in Calls /\ S.srv.queue \in Seq(Call) /\ S.srv.next \in Ids
         /\ S.task \in [TaskIds -> TaskRec] /\ S.tman \in TmanRec /\ S.dht \in DhtRec /\ S.src \in SrcRec
         /\ \A m \in Ids : S.srv.calls[m] \in Call \cup {NoCall}
         /\ \A m \in Ids : m \in InUse(S) <=> S.srv.calls[m] # NoCall
         /\ InUse(S) \subseteq Ids /\ \A t \in TaskIds : S.task[t] \in TaskRec
<1>1. S.srv \in SrvRec  BY DEF StateRec
<1>2. S.srv.calls \in Calls /\ S.srv.queue \in Seq(Call) /\ S.srv.next \in Ids  BY <1>1 DEF SrvRec
<1>3. \A m \in Ids : S.srv.calls[m] \in Call \cup {NoCall}  BY <1>2 DEF Calls
<1>4. QED  BY <1>1, <1>2, <1>3 DEF StateRec, InUse

LEMMA OwedType ==
  ASSUME NEW v \in SrvRec, NEW t
  PROVE  Owed(v, t) \in Nat
<1>1. v.calls \in Calls /\ v.queue \in Seq(Call)  BY DEF SrvRec
<1>2. Count(Listeners(v.queue), t) \in Nat  BY <1>1, QueueChanges
<1>3. 0 \in Ids /\ NoCall \in Call \cup {NoCall}  BY DhtNumbers
<1>4. Cardinality(OnWire(v.calls, t)) \in Nat  BY <1>1, <1>3, WireChanges
<1>5. QED  BY <1>2, <1>4 DEF Owed

LEMMA FreeIdFacts ==
  ASSUME NEW S \in StateRec, InUse(S) # Ids
  PROVE  FreeId(S) \in Ids /\ S.srv.calls[FreeId(S)] = NoCall
<1> DEFINE free == Ids \ InUse(S)
           ahead == {m \in free : m >= S.srv.next}
<1>1. FreeId(S) = IF ahead # {} THEN Min(ahead) ELSE Min(free)  BY DEF FreeId
<1>2. free \in SUBSET Nat /\ free # {} /\ ahead \in SUBSET Nat /\ ahead \subseteq free
  <2>1. Ids \subseteq Nat  BY DhtNumbers
  <2>2. InUse(S) \subseteq Ids  BY StateFacts
  <2>3. QED  BY <2>1, <2>2
<1>3. \A T \in SUBSET Nat : T # {} => Min(T) \in T
  <2> SUFFICES ASSUME NEW T \in SUBSET Nat, T # {} PROVE Min(T) \in T  OBVIOUS
  <2>1. \E n \in T : \A m \in T : n <= m  BY LeastNat
  <2>2. QED  BY <2>1, Zenon DEF Min
<1>4. \A m \in free : m \in Ids /\ S.srv.calls[m] = NoCall  BY StateFacts
<1> HIDE DEF free, ahead
<1>5. FreeId(S) \in free  BY <1>1, <1>2, <1>3
<1>6. QED  BY <1>4, <1>5

\* The server gets another table of calls and another queue.
LEMMA ServerChanges ==
  ASSUME NEW S \in StateRec, NEW v \in SrvRec, NEW T, T = [S EXCEPT !.srv = v]
  PROVE  T \in StateRec /\ T.srv = v /\ ServerOnly(S, T)
BY DEF StateRec, ServerOnly

LEMMA SendMsgFacts ==
  ASSUME NEW S \in StateRec, NEW queue \in Seq(Call), NEW m \in Ids, S.srv.calls[m] = NoCall,
         NEW c \in Call, NEW next \in Ids
  PROVE  /\ SendMsg(S, queue, m, c, next) \in StateRec /\ ServerOnly(S, SendMsg(S, queue, m, c, next))
         /\ SendMsg(S, queue, m, c, next).srv.queue = queue
         /\ KeepsCalls(S, SendMsg(S, queue, m, c, next))
         /\ \A t \in TaskIds : Owed(SendMsg(S, queue, m, c, next).srv, t) =
              Cardinality(OnWire(S.srv.calls, t)) + (IF c.task = t THEN 1 ELSE 0)
                + Count(Listeners(queue), t)
<1> DEFINE calls == [S.srv.calls EXCEPT ![m] = c]
           v == [calls |-> calls, queue |-> queue, next |-> next]
           T == SendMsg(S, queue, m, c, next)
<1>1. T = [S EXCEPT !.srv = v]  BY DEF SendMsg
<1>2. calls \in Calls  BY StateFacts, WireChanges
<1>3. \A t : /\ Cardinality(OnWire(S.srv.calls, t)) \in Nat
             /\ Cardinality(OnWire(calls, t)) =
                  Cardinality(OnWire(S.srv.calls, t)) - (IF S.srv.calls[m].task = t THEN 1 ELSE 0)
                                                      + (IF c.task = t THEN 1 ELSE 0)
  <2> DEFINE old == S.srv.calls
  <2>1. old \in Calls /\ c \in Call \cup {NoCall}  BY StateFacts
  <2> SUFFICES ASSUME NEW t
               PROVE  /\ Cardinality(OnWire(old, t)) \in Nat
                      /\ Cardinality(OnWire([old EXCEPT ![m] = c], t)) =
                           Cardinality(OnWire(old, t)) - (IF old[m].task = t THEN 1 ELSE 0)
                                                       + (IF c.task = t THEN 1 ELSE 0)
    OBVIOUS
  <2> HIDE DEF old
  <2>2. QED  BY <2>1, WireChanges
<1>4. \A n \in Ids : S.srv.calls[n] # NoCall => calls[n] = S.srv.calls[n]
  BY StateFacts DEF Calls
<1> HIDE DEF calls
<1>5. v \in SrvRec /\ v.calls = calls /\ v.queue = queue  BY <1>2 DEF SrvRec
<1> HIDE DEF v, T
<1>6. T \in StateRec /\ T.srv = v /\ ServerOnly(S, T)  BY <1>1, <1>5, ServerChanges
<1>7. KeepsCalls(S, T)  BY <1>4, <1>5, <1>6 DEF KeepsCalls
<1>8. ASSUME NEW t \in TaskIds
      PROVE  Owed(v, t) = Cardinality(OnWire(S.srv.calls, t)) + (IF c.task = t THEN 1 ELSE 0)
                            + Count(Listeners(queue), t)
  <2>1. S.srv.calls[m].task # t  BY CallFacts, DhtNumbers
  <2>2. Cardinality(OnWire(calls, t)) = Cardinality(OnWire(S.srv.calls, t)) + (IF c.task = t THEN 1 ELSE 0)
    BY <1>3, <2>1
  <2>3. QED  BY <1>5, <2>2 DEF Owed
<1>9. QED  BY <1>5, <1>6, <1>7, <1>8 DEF T

\* RPCServer::Private::doCall: one call more.
LEMMA DoCallFacts ==
  ASSUME NEW S \in StateRec, NEW c \in Call
  PROVE  /\ DoCall(S, c) \in StateRec /\ ServerOnly(S, DoCall(S, c)) /\ KeepsCalls(S, DoCall(S, c))
         /\ \A t \in TaskIds : Owed(DoCall(S, c).srv, t) = Owed(S.srv, t) + (IF c.task = t THEN 1 ELSE 0)
         /\ Orderly(S) => Orderly(DoCall(S, c))
<1> DEFINE T == DoCall(S, c)
           q == S.srv.queue
<1>1. /\ q \in Seq(Call)
      /\ \A t : Count(Listeners(q), t) \in Nat
      /\ \A t : Count(Listeners(Append(q, c)), t) = Count(Listeners(q), t) + (IF c.task = t THEN 1 ELSE 0)
      /\ Append(q, c) \in Seq(Call)
  BY StateFacts, QueueChanges
<1>2. \A t : Cardinality(OnWire(S.srv.calls, t)) \in Nat
  BY StateFacts, WireChanges, DhtNumbers
<1>3. CASE InUse(S) = Ids
  <2> DEFINE v == [S.srv EXCEPT !.queue = Append(q, c)]
  <2>1. T = [S EXCEPT !.srv = v]  BY <1>3, StateFacts DEF DoCall, StateRec, SrvRec
  <2>2. v \in SrvRec /\ v.calls = S.srv.calls /\ v.queue = Append(q, c)  BY <1>1, StateFacts DEF SrvRec
  <2> HIDE DEF v, T, q
  <2>3. T \in StateRec /\ T.srv = v /\ ServerOnly(S, T)  BY <2>1, <2>2, ServerChanges
  <2>4. KeepsCalls(S, T)  BY <2>2, <2>3 DEF KeepsCalls
  <2>5. InUse(T) = InUse(S)  BY <2>2, <2>3 DEF InUse
  <2>6. \A t : Owed(v, t) = Owed(S.srv, t) + (IF c.task = t THEN 1 ELSE 0)
    BY <1>1, <1>2, <2>2 DEF Owed, q
  <2>7. QED  BY <1>3, <2>3, <2>4, <2>5, <2>6 DEF Orderly, T
<1>4. CASE InUse(S) # Ids
  <2> DEFINE m == FreeId(S)
  <2>1. T = SendMsg(S, q, m, c, m)  BY <1>4 DEF DoCall
  <2>2. m \in Ids /\ S.srv.calls[m] = NoCall  BY <1>4, FreeIdFacts
  <2> HIDE DEF m, T
  <2>3. /\ T \in StateRec /\ ServerOnly(S, T) /\ T.srv.queue = q /\ KeepsCalls(S, T)
        /\ \A t \in TaskIds : Owed(T.srv, t) = Cardinality(OnWire(S.srv.calls, t))
                                + (IF c.task = t THEN 1 ELSE 0) + Count(Listeners(q), t)
    BY <1>1, <2>1, <2>2, SendMsgFacts
  <2>4. \A t \in TaskIds : Owed(T.srv, t) = Owed(S.srv, t) + (IF c.task = t THEN 1 ELSE 0)
    BY <1>1, <1>2, <2>3 DEF Owed
  <2>5. Orderly(S) => Orderly(T)  BY <1>4, <2>3 DEF Orderly
  <2>6. QED  BY <2>3, <2>4, <2>5 DEF T
<1>5. QED  BY <1>3, <1>4

\* One turn of doQueuedCalls moves a call from the queue to the wire.
LEMMA SendQueuedFacts ==
  ASSUME NEW S \in StateRec
  PROVE  /\ SendQueued(S) \in StateRec /\ ServerOnly(S, SendQueued(S)) /\ KeepsCalls(S, SendQueued(S))
         /\ \A t \in TaskIds : Owed(SendQueued(S).srv, t) = Owed(S.srv, t)
         /\ Orderly(S) => SendQueued(S) = S
         /\ ~Orderly(S) => Len(SendQueued(S).srv.queue) = Len(S.srv.queue) - 1
<1> DEFINE T == SendQueued(S)
           q == S.srv.queue
<1>1. CASE q = <<>> \/ InUse(S) = Ids
  BY <1>1 DEF SendQueued, ServerOnly, KeepsCalls, Orderly
<1>2. CASE q # <<>> /\ InUse(S) # Ids
  <2> DEFINE m == FreeId(S)
             next == (m + 1) % NumIds
             c == Head(q)
             rest == Tail(q)
  <2>1. T = SendMsg(S, rest, m, c, next)  BY <1>2 DEF SendQueued
  <2>2. m \in Ids /\ S.srv.calls[m] = NoCall  BY <1>2, FreeIdFacts
  <2>3. next \in Ids  BY <2>2, DhtNumbers
  <2>4. /\ c \in Call /\ rest \in Seq(Call) /\ Len(rest) = Len(q) - 1
        /\ \A t : Count(Listeners(rest), t) \in Nat
        /\ \A t : Count(Listeners(q), t) = Count(Listeners(rest), t) + (IF c.task = t THEN 1 ELSE 0)
    <3>1. q \in Seq(Call)  BY StateFacts
    <3>2. c \in Call /\ rest \in Seq(Call) /\ Len(rest) = Len(q) - 1  BY <1>2, <3>1, QueueChanges
    <3>3. \A t : Count(Listeners(q), t) = Count(Listeners(rest), t) + (IF c.task = t THEN 1 ELSE 0)
      BY <1>2, <3>1, QueueChanges
    <3> HIDE DEF rest, q
    <3>4. \A t : Count(Listeners(rest), t) \in Nat  BY <3>2, QueueChanges
    <3>5. QED  BY <3>2, <3>3, <3>4
  <2>5. \A t : Cardinality(OnWire(S.srv.calls, t)) \in Nat  BY StateFacts, WireChanges, DhtNumbers
  <2> HIDE DEF m, next, c, rest, T
  <2>6. /\ T \in StateRec /\ ServerOnly(S, T) /\ T.srv.queue = rest /\ KeepsCalls(S, T)
        /\ \A t \in TaskIds : Owed(T.srv, t) = Cardinality(OnWire(S.srv.calls, t))
                                + (IF c.task = t THEN 1 ELSE 0) + Count(Listeners(rest), t)
    BY <2>1, <2>2, <2>3, <2>4, SendMsgFacts
  <2>7. \A t \in TaskIds : Owed(T.srv, t) = Owed(S.srv, t)  BY <2>4, <2>5, <2>6 DEF Owed
  <2>8. ~Orderly(S)  BY <1>2 DEF Orderly
  <2>9. QED  BY <2>4, <2>6, <2>7, <2>8 DEF T
<1>3. QED  BY <1>1, <1>2

\* The turns of the loop of doQueuedCalls.
LEMMA QueuedTurns ==
  ASSUME NEW S \in StateRec
  PROVE  \E F : /\ DoQueuedCalls(S) = F[Len(S.srv.queue)] /\ F[0] = S
                /\ \A i \in 1 .. Len(S.srv.queue) : F[i] = SendQueued(F[i - 1])
<1> DEFINE n == Len(S.srv.queue)
           Runs(F) == F = [i \in 0 .. n |-> IF i = 0 THEN S ELSE SendQueued(F[i - 1])]
           F == CHOOSE G : Runs(G)
<1>1. DoQueuedCalls(S) = F[n]  BY Zenon DEF DoQueuedCalls
<1>2. n \in Nat  BY StateFacts, LenProperties
<1>3. \E G : Runs(G)
  <2> DEFINE g == [x \in StateRec \X Nat |-> SendQueued(x[1])]
  <2>1. \A U \in StateRec, i \in Nat : g[<<U, i>>] = SendQueued(U)  OBVIOUS
  <2> HIDE DEF g
  <2>2. TurnsIn(g, StateRec)  BY <2>1, SendQueuedFacts DEF TurnsIn
  <2>3. \E G : Loop(G, g, StateRec, S, n)
    <3> HIDE DEF Runs, F, n
    <3>1. QED  BY <1>2, <2>2, LoopExists
  <2>4. PICK G : Loop(G, g, StateRec, S, n)  BY <2>3
  <2>5. ASSUME NEW i \in 0 .. n, i # 0 PROVE G[i] = SendQueued(G[i - 1])
    <3>1. i \in 1 .. n /\ i \in Nat /\ i - 1 \in 0 .. n  BY <1>2, <2>5
    <3>2. G[i - 1] \in StateRec  BY <2>4, <3>1 DEF Loop
    <3>3. QED  BY <2>1, <2>4, <3>1, <3>2 DEF Loop
  <2>6. \A i \in 0 .. n : G[i] = IF i = 0 THEN S ELSE SendQueued(G[i - 1])  BY <2>4, <2>5 DEF Loop
  <2>7. G = [i \in 0 .. n |-> G[i]]  BY <2>4 DEF Loop
  <2>8. Runs(G)  BY <2>6, <2>7
  <2>9. QED  BY <2>8
<1>4. Runs(F)  BY <1>3, Zenon
<1> HIDE DEF F
<1>5. F = [i \in 0 .. n |-> IF i = 0 THEN S ELSE SendQueued(F[i - 1])]  BY <1>4
<1> HIDE DEF Runs, n
<1>6. F[0] = S  BY <1>2, <1>5
<1>7. ASSUME NEW i \in 1 .. n PROVE F[i] = SendQueued(F[i - 1])
  <2>1. i \in 0 .. n /\ i # 0  BY <1>2
  <2>2. F[i] = IF i = 0 THEN S ELSE SendQueued(F[i - 1])  BY <1>5, <2>1
  <2>3. QED  BY <2>1, <2>2
<1>8. QED  BY <1>1, <1>6, <1>7 DEF n

\* RPCServer::Private::doQueuedCalls: afterwards a call waits only while every
\* id is in use.
LEMMA DoQueuedFacts ==
  ASSUME NEW S \in StateRec
  PROVE  /\ DoQueuedCalls(S) \in StateRec /\ ServerOnly(S, DoQueuedCalls(S))
         /\ KeepsCalls(S, DoQueuedCalls(S)) /\ Orderly(DoQueuedCalls(S))
         /\ \A t \in TaskIds : Owed(DoQueuedCalls(S).srv, t) = Owed(S.srv, t)
<1> DEFINE n == Len(S.srv.queue)
           Sent(U) == /\ ServerOnly(S, U) /\ KeepsCalls(S, U)
                      /\ \A t \in TaskIds : Owed(U.srv, t) = Owed(S.srv, t)
           D == [i \in 0 .. n |-> {U \in StateRec : Sent(U) /\ (Orderly(U) \/ Len(U.srv.queue) = n - i)}]
<1>1. n \in Nat  BY StateFacts, LenProperties
<1>2. PICK F : /\ DoQueuedCalls(S) = F[n] /\ F[0] = S
               /\ \A i \in 1 .. n : F[i] = SendQueued(F[i - 1])
  BY QueuedTurns
<1>3. Sent(S)  BY DEF ServerOnly, KeepsCalls
<1>4. \A U \in StateRec : Sent(U) => Sent(SendQueued(U))
  BY SendQueuedFacts DEF ServerOnly, KeepsCalls
<1> HIDE DEF Sent
<1>5. \A i \in 0 .. n : D[i] = {U \in StateRec : Sent(U) /\ (Orderly(U) \/ Len(U.srv.queue) = n - i)}
  OBVIOUS
<1>6. F[0] \in D[0]
  <2>1. 0 \in 0 .. n /\ Len(S.srv.queue) = n - 0  BY <1>1
  <2>2. QED  BY <1>2, <1>3, <1>5, <2>1
<1> HIDE DEF D
<1>7. ASSUME NEW i \in 1 .. n, F[i - 1] \in D[i - 1] PROVE F[i] \in D[i]
  <2> DEFINE U == F[i - 1]
             V == SendQueued(U)
  <2>1. i \in 0 .. n /\ i - 1 \in 0 .. n /\ i \in Nat  BY <1>1
  <2>2. U \in StateRec /\ Sent(U) /\ (Orderly(U) \/ Len(U.srv.queue) = n - (i - 1))
    BY <1>5, <1>7, <2>1
  <2> HIDE DEF U
  <2>3. V \in StateRec /\ Sent(V)  BY <1>4, <2>2, SendQueuedFacts
  <2>4. Orderly(V) \/ Len(V.srv.queue) = n - i
    <3>1. CASE Orderly(U)  BY <2>2, <3>1, SendQueuedFacts
    <3>2. CASE ~Orderly(U)
      <4>1. Len(V.srv.queue) = Len(U.srv.queue) - 1  BY <2>2, <3>2, SendQueuedFacts
      <4> HIDE DEF V
      <4>2. QED  BY <1>1, <2>1, <2>2, <3>2, <4>1
    <3>3. QED  BY <3>1, <3>2
  <2> HIDE DEF V
  <2>5. F[i] = V  BY <1>2 DEF U, V
  <2>6. QED  BY <1>5, <2>1, <2>3, <2>4, <2>5
<1>8. F[n] \in D[n]
  <2> HIDE DEF n
  <2>1. QED  BY <1>1, <1>6, <1>7, LoopKeeps
<1> DEFINE T == F[n]
<1>9. n \in 0 .. n  BY <1>1
<1>10. T \in StateRec /\ Sent(T) /\ (Orderly(T) \/ Len(T.srv.queue) = n - n)  BY <1>5, <1>8, <1>9
<1> HIDE DEF T
<1>11. Orderly(T)
  <2>1. CASE Orderly(T)  BY <2>1
  <2>2. CASE Len(T.srv.queue) = n - n
    <3>1. Len(T.srv.queue) = 0 /\ T.srv.queue \in Seq(Call)  BY <1>1, <1>10, <2>2, StateFacts
    <3>2. T.srv.queue = <<>>  BY <3>1, EmptySeq
    <3>3. QED  BY <3>2 DEF Orderly
  <2>3. QED  BY <1>10, <2>1, <2>2
<1>12. QED  BY <1>2, <1>10, <1>11 DEF T, Sent

\* A call leaves the table.
LEMMA EraseFacts ==
  ASSUME NEW S \in StateRec, NEW m \in Ids
  PROVE  /\ EraseCall(S, m) \in StateRec /\ ServerOnly(S, EraseCall(S, m))
         /\ \A t \in TaskIds : Owed(EraseCall(S, m).srv, t) =
                                  Owed(S.srv, t) - (IF S.srv.calls[m].task = t THEN 1 ELSE 0)
<1> DEFINE old == S.srv.calls
           calls == [old EXCEPT ![m] = NoCall]
           v == [S.srv EXCEPT !.calls = calls]
           T == EraseCall(S, m)
<1>1. T = [S EXCEPT !.srv = v]  BY StateFacts DEF EraseCall, StateRec, SrvRec
<1>2. old \in Calls /\ S.srv.queue \in Seq(Call)  BY StateFacts
<1> HIDE DEF old
<1>3. \A t : /\ calls \in Calls /\ Cardinality(OnWire(old, t)) \in Nat
             /\ Cardinality(OnWire(calls, t)) =
                  Cardinality(OnWire(old, t)) - (IF old[m].task = t THEN 1 ELSE 0)
                                              + (IF NoCall.task = t THEN 1 ELSE 0)
  BY <1>2, WireChanges
<1> HIDE DEF calls
<1>4. v \in SrvRec /\ v.calls = calls /\ v.queue = S.srv.queue  BY <1>3, StateFacts DEF SrvRec
<1> HIDE DEF v, T
<1>5. T \in StateRec /\ T.srv = v /\ ServerOnly(S, T)  BY <1>1, <1>4, ServerChanges
<1>6. ASSUME NEW t \in TaskIds
      PROVE  Owed(v, t) = Owed(S.srv, t) - (IF old[m].task = t THEN 1 ELSE 0)
  <2>1. NoCall.task # t  BY CallFacts, DhtNumbers
  <2>2. Count(Listeners(S.srv.queue), t) \in Nat  BY <1>2, QueueChanges
  <2>3. QED  BY <1>3, <1>4, <2>1, <2>2 DEF Owed, old
<1>7. QED  BY <1>5, <1>6 DEF T, old

(* The tasks. *)

\* What the tasks count, but for off, and what is owed to them.
Balanced(S, off) ==
  \A t \in TaskIds : S.task[t].st # "finished" => S.task[t].reqs + off[t] = Owed(S.srv, t)
Blank(S) == \A t \in TaskIds : S.task[t].st = "free" => S.task[t] = NoTask
Bounded(S) == \A t \in TaskIds : S.task[t].reqs <= MaxReqs
\* Call c has id m, if m is one.
Held(S, m, c) == m \in Ids => c # NoCall /\ S.srv.calls[m] = c

World(off, m, c) ==
  {S \in StateRec : Balanced(S, off) /\ Blank(S) /\ Bounded(S) /\ Orderly(S) /\ Held(S, m, c)}

\* The nodes update takes that were not visited before fill the room.
LEMMA TakenFacts ==
  ASSUME NEW list \in SUBSET Nodes, NEW done \in SUBSET Nodes, NEW room \in Nat
  PROVE  /\ Taken(list, done, room) \subseteq list
         /\ Cardinality(Taken(list, done, room) \ done) \in Nat
         /\ Cardinality(Taken(list, done, room) \ done) <= room
<1> DEFINE L == list \ done
           Less(n) == {m \in L : m < n}
           T == Taken(list, done, room)
           A == T \ done
           B == 0 .. room - 1
           f == [n \in A |-> Cardinality(Less(n))]
<1>1. T = {n \in list : Cardinality(Less(n)) < room}  BY DEF Taken
<1>2. L \subseteq Int /\ IsFiniteSet(L)
  <2>1. L \subseteq Nodes  OBVIOUS
  <2> HIDE DEF L
  <2>2. L \subseteq Int
    <3>1. Nodes \subseteq Int  BY DhtNumbers
    <3>2. QED  BY <2>1, <3>1
  <2>3. IsFiniteSet(L)  BY <2>1, DhtNumbers, FS_Subset
  <2>4. QED  BY <2>2, <2>3
<1>3. A \subseteq L /\ \A n \in A : Cardinality(Less(n)) < room  BY <1>1
<1>4. \A n \in L : Less(n) \subseteq L /\ IsFiniteSet(Less(n)) /\ Cardinality(Less(n)) \in Nat
  <2> SUFFICES ASSUME NEW n \in L
               PROVE  Less(n) \subseteq L /\ IsFiniteSet(Less(n)) /\ Cardinality(Less(n)) \in Nat
    OBVIOUS
  <2>1. Less(n) \subseteq L  OBVIOUS
  <2> HIDE DEF Less
  <2>2. IsFiniteSet(Less(n))  BY <1>2, <2>1, FS_Subset
  <2>3. QED  BY <2>1, <2>2, FS_CardinalityType
<1>5. ASSUME NEW x \in A, NEW y \in A, x < y PROVE Cardinality(Less(x)) < Cardinality(Less(y))
  <2>1. x \in L /\ y \in L /\ x \in Int /\ y \in Int  BY <1>2, <1>3
  <2>2. Less(x) \subseteq Less(y) /\ x \in Less(y) /\ x \notin Less(x)
    <3>1. \A m \in L : m \in Int  BY <1>2
    <3> HIDE DEF L, A
    <3>2. \A m \in L : m < x => m < y  BY <1>5, <2>1, <3>1
    <3>3. ~(x < x)  BY <2>1
    <3>4. QED  BY <1>5, <2>1, <3>2, <3>3
  <2>3. /\ IsFiniteSet(Less(y)) /\ Cardinality(Less(x)) \in Nat /\ Cardinality(Less(y)) \in Nat
    BY <1>4, <2>1
  <2> HIDE DEF Less
  <2>4. Cardinality(Less(x)) <= Cardinality(Less(y))  BY <2>2, <2>3, FS_Subset
  <2>5. Cardinality(Less(x)) = Cardinality(Less(y)) => Less(x) = Less(y)  BY <2>2, <2>3, FS_Subset
  <2>6. Less(x) # Less(y)  BY <2>2
  <2> DEFINE a == Cardinality(Less(x))
             b == Cardinality(Less(y))
  <2>7. a \in Nat /\ b \in Nat /\ a <= b /\ a # b  BY <2>3, <2>4, <2>5, <2>6
  <2> HIDE DEF a, b
  <2>8. a < b  BY <2>7
  <2>9. QED  BY <2>8 DEF a, b
<1>6. f \in Injection(A, B)
  <2>1. \A n \in A : Cardinality(Less(n)) \in B  BY <1>3, <1>4
  <2>2. f \in [A -> B]  BY <2>1
  <2>3. ASSUME NEW x \in A, NEW y \in A, f[x] = f[y] PROVE x = y
    <3>1. Cardinality(Less(x)) = Cardinality(Less(y))  BY <2>3
    <3>2. x \in Int /\ y \in Int /\ Cardinality(Less(x)) \in Nat  BY <1>2, <1>3, <1>4
    <3>3. ~(x < y) /\ ~(y < x)
      <4> HIDE DEF Less, A
      <4>1. QED  BY <1>5, <3>1, <3>2
    <3>4. QED  BY <3>2, <3>3
  <2>4. QED  BY <2>2, <2>3 DEF Injection, IsInjective
<1>7. IsFiniteSet(B) /\ Cardinality(B) = room
  <2>1. /\ IsFiniteSet(0 .. room - 1)
        /\ Cardinality(0 .. room - 1) = IF 0 > room - 1 THEN 0 ELSE (room - 1) - 0 + 1
    BY FS_Interval
  <2>2. QED  BY <2>1
<1>8. IsFiniteSet(A) /\ Cardinality(A) <= Cardinality(B)
  <2> HIDE DEF A, B, f
  <2>1. QED  BY <1>6, <1>7, FS_Injection
<1>9. Cardinality(A) \in Nat  BY <1>8, FS_CardinalityType
<1>10. QED  BY <1>1, <1>7, <1>8, <1>9

\* Task::rpcCall: one request more for its task, and one call more.
LEMMA RpcCallFacts ==
  ASSUME NEW S \in StateRec, NEW c \in Call, c.task \in TaskIds
  PROVE  /\ RpcCall(S, c) \in StateRec /\ KeepsCalls(S, RpcCall(S, c))
         /\ RpcCall(S, c).tman = S.tman /\ RpcCall(S, c).dht = S.dht /\ RpcCall(S, c).src = S.src
         /\ RpcCall(S, c).task = [S.task EXCEPT ![c.task] = [S.task[c.task] EXCEPT !.reqs = S.task[c.task].reqs + 1]]
         /\ \A t \in TaskIds : Owed(RpcCall(S, c).srv, t) = Owed(S.srv, t) + (IF c.task = t THEN 1 ELSE 0)
         /\ Orderly(S) => Orderly(RpcCall(S, c))
<1> DEFINE D == DoCall(S, c)
           t == c.task
           k == [S.task[t] EXCEPT !.reqs = S.task[t].reqs + 1]
           T == RpcCall(S, c)
<1>1. /\ D \in StateRec /\ ServerOnly(S, D) /\ KeepsCalls(S, D) /\ (Orderly(S) => Orderly(D))
      /\ \A u \in TaskIds : Owed(D.srv, u) = Owed(S.srv, u) + (IF t = u THEN 1 ELSE 0)
  BY DoCallFacts
<1>2. T = [D EXCEPT !.task[t].reqs = D.task[t].reqs + 1]  BY DEF RpcCall
<1> HIDE DEF D, T, t
<1>3. D.task = S.task /\ S.task \in [TaskIds -> TaskRec] /\ t \in TaskIds  BY <1>1, StateFacts DEF ServerOnly, t
<1>4. T = [D EXCEPT !.task = [S.task EXCEPT ![t] = k]]  BY <1>1, <1>2, <1>3 DEF StateRec, TaskRec
<1>5. S.task[t] \in TaskRec  BY <1>3
<1>6. k \in TaskRec  BY <1>5 DEF TaskRec
<1> HIDE DEF k
<1>7. [S.task EXCEPT ![t] = k] \in [TaskIds -> TaskRec]  BY <1>3, <1>6
<1>8. /\ T \in StateRec /\ T.srv = D.srv /\ T.task = [S.task EXCEPT ![t] = k]
      /\ T.tman = D.tman /\ T.dht = D.dht /\ T.src = D.src
  BY <1>1, <1>4, <1>7 DEF StateRec
<1>9. KeepsCalls(S, T)  BY <1>1, <1>8 DEF KeepsCalls
<1>10. Orderly(S) => Orderly(T)  BY <1>1, <1>8 DEF Orderly, InUse
<1>11. QED  BY <1>1, <1>8, <1>9, <1>10 DEF T, t, k, ServerOnly

\* Only the tasks differ.
LEMMA TaskChanges ==
  ASSUME NEW S \in StateRec, NEW f \in [TaskIds -> TaskRec], NEW T, T = [S EXCEPT !.task = f]
  PROVE  /\ T \in StateRec /\ T.srv = S.srv /\ T.tman = S.tman /\ T.dht = S.dht /\ T.src = S.src
         /\ T.task = f /\ KeepsCalls(S, T) /\ (Orderly(S) => Orderly(T))
<1>1. /\ T \in StateRec /\ T.srv = S.srv /\ T.tman = S.tman /\ T.dht = S.dht /\ T.src = S.src
      /\ T.task = f
  BY DEF StateRec
<1>2. KeepsCalls(S, T) /\ (Orderly(S) => Orderly(T))  BY <1>1 DEF KeepsCalls, Orderly, InUse
<1>3. QED  BY <1>1, <1>2

\* The number of requests a task has made more, in n turns of rpcCall.
Asked(S, t, n) ==
  {U \in StateRec :
     /\ U.tman = S.tman /\ U.dht = S.dht /\ U.src = S.src
     /\ KeepsCalls(S, U) /\ (Orderly(S) => Orderly(U))
     /\ \A u \in TaskIds : u # t => U.task[u] = S.task[u]
     /\ U.task[t].st = S.task[t].st /\ U.task[t].reqs = S.task[t].reqs + n
     /\ \A u \in TaskIds : Owed(U.srv, u) = Owed(S.srv, u) + (IF u = t THEN n ELSE 0)}

LEMMA AskedMore ==
  ASSUME NEW S \in StateRec, NEW t \in TaskIds, NEW n \in Nat, NEW U \in Asked(S, t, n),
         NEW c \in Call, c.task = t
  PROVE  RpcCall(U, c) \in Asked(S, t, n + 1)
<1> DEFINE T == RpcCall(U, c)
           k == [U.task[t] EXCEPT !.reqs = U.task[t].reqs + 1]
<1>1. /\ U \in StateRec /\ U.tman = S.tman /\ U.dht = S.dht /\ U.src = S.src
      /\ KeepsCalls(S, U) /\ (Orderly(S) => Orderly(U))
      /\ \A u \in TaskIds : u # t => U.task[u] = S.task[u]
      /\ U.task[t].st = S.task[t].st /\ U.task[t].reqs = S.task[t].reqs + n
      /\ \A u \in TaskIds : Owed(U.srv, u) = Owed(S.srv, u) + (IF u = t THEN n ELSE 0)
  BY DEF Asked
<1>2. /\ T \in StateRec /\ KeepsCalls(U, T) /\ T.tman = U.tman /\ T.dht = U.dht /\ T.src = U.src
      /\ T.task = [U.task EXCEPT ![t] = k] /\ (Orderly(U) => Orderly(T))
      /\ \A u \in TaskIds : Owed(T.srv, u) = Owed(U.srv, u) + (IF u = t THEN 1 ELSE 0)
  BY <1>1, RpcCallFacts
<1>3. U.task \in [TaskIds -> TaskRec] /\ S.task[t] \in TaskRec /\ U.task[t] \in TaskRec  BY <1>1, StateFacts
<1>4. k.st = U.task[t].st /\ k.reqs = U.task[t].reqs + 1  BY <1>3 DEF TaskRec
<1> HIDE DEF T, k
<1>5. \A u \in TaskIds : T.task[u] = IF u = t THEN k ELSE U.task[u]  BY <1>2, <1>3
<1>6. S.task[t].reqs \in Nat  BY <1>3 DEF TaskRec
<1>7. T.task[t].reqs = S.task[t].reqs + (n + 1)  BY <1>1, <1>4, <1>5, <1>6
<1>8. ASSUME NEW u \in TaskIds
      PROVE  Owed(T.srv, u) = Owed(S.srv, u) + (IF u = t THEN n + 1 ELSE 0)
  <2>1. Owed(S.srv, u) \in Nat  BY StateFacts, OwedType
  <2>2. QED  BY <1>1, <1>2, <2>1
<1>9. KeepsCalls(S, T)  BY <1>1, <1>2 DEF KeepsCalls
<1>10. /\ T.task[t].st = S.task[t].st /\ T.tman = S.tman /\ T.dht = S.dht /\ T.src = S.src
       /\ (Orderly(S) => Orderly(T)) /\ \A u \in TaskIds : u # t => T.task[u] = S.task[u]
  BY <1>1, <1>2, <1>4, <1>5
<1>11. T \in Asked(S, t, n + 1)  BY <1>2, <1>7, <1>8, <1>9, <1>10 DEF Asked
<1>12. QED  BY <1>11 DEF T

\* The turns of the loops of NodeLookup::update and AnnounceTask::update.
LEMMA RequestTurns ==
  ASSUME NEW S \in StateRec, NEW t \in TaskIds, S.task[t].reqs <= MaxReqs
  PROVE  \E R, n, F, call :
           /\ SendRequests(S, t) = F[n] /\ F[0] = R /\ n \in Nat /\ R \in Asked(S, t, 0)
           /\ S.task[t].reqs + n <= MaxReqs
           /\ \A i \in 1 .. n : /\ F[i] = RpcCall(F[i - 1], call[i])
                                /\ call[i] \in Call /\ call[i].task = t
<1> DEFINE T == S.task[t]
           room == MaxReqs - T.reqs
           ann == Taken(T.answered, T.announced, room)
           annNew == ann \ T.announced
           asked == Taken(T.todo, T.visited, room - Cardinality(annNew))
           askNew == asked \ T.visited
           search == IF T.kind = "lookup" THEN "find_node" ELSE "get_peers"
           method(i) == IF i <= Cardinality(annNew) THEN "announce_peer" ELSE search
           n == Cardinality(annNew) + Cardinality(askNew)
           k == [T EXCEPT !.answered = T.answered \ ann, !.announced = T.announced \cup annNew,
                          !.todo = T.todo \ asked, !.visited = T.visited \cup askNew]
           R == [S EXCEPT !.task[t] = k]
           one(i) == [task |-> t, method |-> method(i)]
           Runs(F) == F = [i \in 0 .. n |-> IF i = 0 THEN R ELSE RpcCall(F[i - 1], one(i))]
           F == CHOOSE G : Runs(G)
           call == [i \in Nat |-> one(i)]
<1>1. SendRequests(S, t) = F[n]  BY Zenon DEF SendRequests
<1>2. T \in TaskRec  BY StateFacts
<1>3. /\ T.reqs \in Nat /\ T.answered \in SUBSET Nodes /\ T.announced \in SUBSET Nodes
      /\ T.todo \in SUBSET Nodes /\ T.visited \in SUBSET Nodes
  BY <1>2 DEF TaskRec
<1>4. room \in Nat /\ T.reqs + room = MaxReqs  BY <1>3, DhtNumbers
<1>5. ann \subseteq T.answered /\ Cardinality(annNew) \in Nat /\ Cardinality(annNew) <= room
  <2> DEFINE a == T.answered
             b == T.announced
  <2> HIDE DEF a, b, room
  <2>1. a \in SUBSET Nodes /\ b \in SUBSET Nodes  BY <1>3 DEF a, b
  <2>2. /\ Taken(a, b, room) \subseteq a /\ Cardinality(Taken(a, b, room) \ b) \in Nat
        /\ Cardinality(Taken(a, b, room) \ b) <= room
    BY <1>4, <2>1, TakenFacts
  <2>3. QED  BY <2>2 DEF a, b
<1>6. room - Cardinality(annNew) \in Nat  BY <1>4, <1>5
<1>7. asked \subseteq T.todo /\ Cardinality(askNew) \in Nat /\ Cardinality(askNew) <= room - Cardinality(annNew)
  <2> DEFINE a == T.todo
             b == T.visited
             c == room - Cardinality(annNew)
  <2> HIDE DEF a, b, c
  <2>1. a \in SUBSET Nodes /\ b \in SUBSET Nodes /\ c \in Nat  BY <1>3, <1>6 DEF a, b, c
  <2>2. /\ Taken(a, b, c) \subseteq a /\ Cardinality(Taken(a, b, c) \ b) \in Nat
        /\ Cardinality(Taken(a, b, c) \ b) <= c
    BY <2>1, TakenFacts
  <2>3. QED  BY <2>2 DEF a, b, c
<1>8. n \in Nat /\ T.reqs + n <= MaxReqs
  <2> HIDE DEF annNew, askNew, room
  <2>1. QED  BY <1>3, <1>4, <1>5, <1>7
<1>9. k \in TaskRec /\ k.st = T.st /\ k.reqs = T.reqs
  <2> HIDE DEF ann, asked
  <2>1. annNew \subseteq Nodes /\ askNew \subseteq Nodes  BY <1>3, <1>5, <1>7
  <2>2. /\ T.answered \ ann \in SUBSET Nodes /\ T.announced \cup annNew \in SUBSET Nodes
        /\ T.todo \ asked \in SUBSET Nodes /\ T.visited \cup askNew \in SUBSET Nodes
    BY <1>3, <2>1
  <2> HIDE DEF T, annNew, askNew
  <2>3. QED  BY <1>2, <2>2 DEF TaskRec
<1> DEFINE f == [S.task EXCEPT ![t] = k]
<1>10. R = [S EXCEPT !.task = f]  BY StateFacts DEF StateRec
<1>11. \A i \in Nat : one(i) \in Call /\ one(i).task = t
  <2> HIDE DEF annNew
  <2>1. \A i \in Nat : method(i) \in Methods  BY DEF Methods
  <2> HIDE DEF method
  <2>2. QED  BY <2>1 DEF Call
<1> HIDE DEF n, k, R, one
<1>12. R \in Asked(S, t, 0)
  <2>1. /\ R \in StateRec /\ R.srv = S.srv /\ R.tman = S.tman /\ R.dht = S.dht /\ R.src = S.src
        /\ R.task[t] = k /\ \A u \in TaskIds : u # t => R.task[u] = S.task[u]
        /\ KeepsCalls(S, R) /\ (Orderly(S) => Orderly(R))
    <3>1. f \in [TaskIds -> TaskRec] /\ f[t] = k /\ \A u \in TaskIds : u # t => f[u] = S.task[u]
      BY <1>9, StateFacts
    <3> HIDE DEF f
    <3>2. QED  BY <1>10, <3>1, TaskChanges
  <2>2. R.task[t].st = S.task[t].st /\ R.task[t].reqs = S.task[t].reqs + 0  BY <1>3, <1>9, <2>1
  <2>3. \A u \in TaskIds : Owed(R.srv, u) = Owed(S.srv, u) + (IF u = t THEN 0 ELSE 0)
    BY <2>1, StateFacts, OwedType
  <2>4. QED  BY <2>1, <2>2, <2>3 DEF Asked
<1>13. R \in StateRec  BY <1>12 DEF Asked
<1>14. \E G : Runs(G)
  <2> DEFINE g == [x \in StateRec \X Nat |-> RpcCall(x[1], one(x[2]))]
  <2>1. \A U \in StateRec, i \in Nat : g[<<U, i>>] = RpcCall(U, one(i))  OBVIOUS
  <2> HIDE DEF g
  <2>2. TurnsIn(g, StateRec)
    <3>1. ASSUME NEW U \in StateRec, NEW i \in Nat PROVE RpcCall(U, one(i)) \in StateRec
      <4>1. one(i) \in Call /\ one(i).task \in TaskIds  BY <1>11
      <4>2. QED  BY <4>1, RpcCallFacts
    <3>2. QED  BY <2>1, <3>1 DEF TurnsIn
  <2>3. \E G : Loop(G, g, StateRec, R, n)
    <3> HIDE DEF Runs, F
    <3>1. QED  BY <1>8, <1>13, <2>2, LoopExists
  <2>4. PICK G : Loop(G, g, StateRec, R, n)  BY <2>3
  <2>5. ASSUME NEW i \in 0 .. n, i # 0 PROVE G[i] = RpcCall(G[i - 1], one(i))
    <3>1. i \in 1 .. n /\ i \in Nat /\ i - 1 \in 0 .. n  BY <1>8, <2>5
    <3>2. G[i - 1] \in StateRec  BY <2>4, <3>1 DEF Loop
    <3>3. QED  BY <2>1, <2>4, <3>1, <3>2 DEF Loop
  <2>6. \A i \in 0 .. n : G[i] = IF i = 0 THEN R ELSE RpcCall(G[i - 1], one(i))  BY <2>4, <2>5 DEF Loop
  <2>7. G = [i \in 0 .. n |-> G[i]]  BY <2>4 DEF Loop
  <2>8. Runs(G)  BY <2>6, <2>7
  <2>9. QED  BY <2>8
<1>15. Runs(F)  BY <1>14, Zenon
<1> HIDE DEF F
<1>16. F = [i \in 0 .. n |-> IF i = 0 THEN R ELSE RpcCall(F[i - 1], one(i))]  BY <1>15
<1> HIDE DEF Runs
<1>17. F[0] = R  BY <1>8, <1>16
<1>18. ASSUME NEW i \in 1 .. n
       PROVE  F[i] = RpcCall(F[i - 1], call[i]) /\ call[i] \in Call /\ call[i].task = t
  <2>1. i \in 0 .. n /\ i # 0 /\ i \in Nat  BY <1>8
  <2>2. F[i] = IF i = 0 THEN R ELSE RpcCall(F[i - 1], one(i))  BY <1>16, <2>1
  <2>3. call[i] = one(i)  BY <2>1
  <2>4. QED  BY <1>11, <2>1, <2>2, <2>3
<1> HIDE DEF call
<1>19. /\ SendRequests(S, t) = F[n] /\ F[0] = R /\ n \in Nat /\ R \in Asked(S, t, 0)
       /\ S.task[t].reqs + n <= MaxReqs
       /\ \A i \in 1 .. n : /\ F[i] = RpcCall(F[i - 1], call[i])
                            /\ call[i] \in Call /\ call[i].task = t
  BY <1>1, <1>8, <1>12, <1>17, <1>18
<1> WITNESS R, n, F, call
<1>20. QED  BY <1>19

LEMMA SendRequestsFacts ==
  ASSUME NEW S \in StateRec, NEW t \in TaskIds, S.task[t].reqs <= MaxReqs
  PROVE  \E n \in Nat : SendRequests(S, t) \in Asked(S, t, n) /\ S.task[t].reqs + n <= MaxReqs
<1>1. PICK R, n, F, call :
           /\ SendRequests(S, t) = F[n] /\ F[0] = R /\ n \in Nat /\ R \in Asked(S, t, 0)
           /\ S.task[t].reqs + n <= MaxReqs
           /\ \A i \in 1 .. n : /\ F[i] = RpcCall(F[i - 1], call[i])
                                /\ call[i] \in Call /\ call[i].task = t
  BY RequestTurns
<1> DEFINE D == [i \in 0 .. n |-> Asked(S, t, i)]
<1>2. F[0] \in D[0]  BY <1>1
<1>3. ASSUME NEW i \in 1 .. n, F[i - 1] \in D[i - 1] PROVE F[i] \in D[i]
  <2>1. i \in 0 .. n /\ i - 1 \in 0 .. n /\ i - 1 \in Nat /\ (i - 1) + 1 = i  BY <1>1
  <2> DEFINE j == i - 1
             U == F[i - 1]
             e == call[i]
  <2>2. U \in Asked(S, t, j) /\ j \in Nat /\ j + 1 = i  BY <1>3, <2>1
  <2>3. e \in Call /\ e.task = t /\ F[i] = RpcCall(U, e)  BY <1>1
  <2> HIDE DEF j, U, e
  <2>4. RpcCall(U, e) \in Asked(S, t, j + 1)  BY <2>2, <2>3, AskedMore
  <2>5. QED  BY <2>1, <2>2, <2>3, <2>4
<1> HIDE DEF D
<1>4. F[n] \in D[n]  BY <1>1, <1>2, <1>3, LoopKeeps
<1>5. n \in 0 .. n  BY <1>1
<1>6. F[n] \in Asked(S, t, n)  BY <1>4, <1>5 DEF D
<1>7. QED  BY <1>1, <1>6

\* The other slots and the source see nothing of it, and no task ends.
Serves(S, T) == /\ T.dht = S.dht /\ T.src = S.src
                /\ \A u \in TaskIds : T.task[u].st = S.task[u].st

LEMMA WorldFacts ==
  ASSUME NEW off \in [TaskIds -> Int], NEW m, NEW c, NEW S \in World(off, m, c)
  PROVE  /\ S \in StateRec /\ Balanced(S, off) /\ Blank(S) /\ Bounded(S) /\ Orderly(S) /\ Held(S, m, c)
         /\ S.task \in [TaskIds -> TaskRec]
         /\ \A t \in TaskIds : /\ S.task[t] \in TaskRec /\ S.task[t].reqs \in Nat
                               /\ S.task[t].reqs <= MaxReqs /\ off[t] \in Int
<1>1. S \in StateRec /\ Balanced(S, off) /\ Blank(S) /\ Bounded(S) /\ Orderly(S) /\ Held(S, m, c)  BY DEF World
<1>2. S.task \in [TaskIds -> TaskRec]  BY <1>1, StateFacts
<1>3. \A t \in TaskIds : S.task[t] \in TaskRec  BY <1>2
<1>4. \A t \in TaskIds : S.task[t].reqs \in Nat  BY <1>3 DEF TaskRec
<1>5. \A t \in TaskIds : S.task[t].reqs <= MaxReqs  BY <1>1 DEF Bounded
<1>6. QED  BY <1>1, <1>2, <1>3, <1>4, <1>5

\* A task that is not free sends requests.
LEMMA RequestsKeep ==
  ASSUME NEW off \in [TaskIds -> Int], NEW m, NEW c, NEW S \in World(off, m, c),
         NEW t \in TaskIds, S.task[t].st # "free"
  PROVE  /\ SendRequests(S, t) \in World(off, m, c) /\ Serves(S, SendRequests(S, t))
         /\ SendRequests(S, t).tman = S.tman
<1> DEFINE T == SendRequests(S, t)
<1>1. /\ S \in StateRec /\ Balanced(S, off) /\ Blank(S) /\ Bounded(S) /\ Orderly(S) /\ Held(S, m, c)
      /\ \A u \in TaskIds : /\ S.task[u] \in TaskRec /\ S.task[u].reqs \in Nat
                            /\ S.task[u].reqs <= MaxReqs /\ off[u] \in Int
  BY WorldFacts
<1>2. PICK n \in Nat : T \in Asked(S, t, n) /\ S.task[t].reqs + n <= MaxReqs  BY <1>1, SendRequestsFacts
<1> HIDE DEF T
<1>3. /\ T \in StateRec /\ T.tman = S.tman /\ T.dht = S.dht /\ T.src = S.src
      /\ KeepsCalls(S, T) /\ (Orderly(S) => Orderly(T))
      /\ \A u \in TaskIds : u # t => T.task[u] = S.task[u]
      /\ T.task[t].st = S.task[t].st /\ T.task[t].reqs = S.task[t].reqs + n
      /\ \A u \in TaskIds : Owed(T.srv, u) = Owed(S.srv, u) + (IF u = t THEN n ELSE 0)
  BY <1>2 DEF Asked
<1>4. Balanced(T, off)
  <2> SUFFICES ASSUME NEW u \in TaskIds, T.task[u].st # "finished"
               PROVE  T.task[u].reqs + off[u] = Owed(T.srv, u)
    BY DEF Balanced
  <2>1. S.task[u].reqs + off[u] = Owed(S.srv, u)
    <3>1. S.task[u].st # "finished"  BY <1>3
    <3>2. QED  BY <1>1, <3>1 DEF Balanced
  <2>2. Owed(S.srv, u) \in Nat  BY <1>1, StateFacts, OwedType
  <2>3. CASE u = t  BY <1>1, <1>3, <2>1, <2>2, <2>3
  <2>4. CASE u # t  BY <1>1, <1>3, <2>1, <2>2, <2>4
  <2>5. QED  BY <2>3, <2>4
<1>5. Blank(T)
  <2> SUFFICES ASSUME NEW u \in TaskIds, T.task[u].st = "free" PROVE T.task[u] = NoTask  BY DEF Blank
  <2>1. u # t  BY <1>3
  <2>2. QED  BY <1>1, <1>3, <2>1 DEF Blank
<1>6. Bounded(T)
  <2> SUFFICES ASSUME NEW u \in TaskIds PROVE T.task[u].reqs <= MaxReqs  BY DEF Bounded
  <2>1. QED  BY <1>1, <1>2, <1>3
<1>7. Held(T, m, c)  BY <1>1, <1>3 DEF Held, KeepsCalls
<1>8. T \in World(off, m, c)  BY <1>1, <1>3, <1>4, <1>5, <1>6, <1>7 DEF World
<1>9. Serves(S, T)  BY <1>3 DEF Serves
<1>10. QED  BY <1>3, <1>8, <1>9 DEF T

\* What a step does to the part of the state that World does not speak of.
LEMMA ManagerChanges ==
  ASSUME NEW off \in [TaskIds -> Int], NEW m, NEW c, NEW S \in World(off, m, c),
         NEW x \in TmanRec, NEW T, T = [S EXCEPT !.tman = x]
  PROVE  T \in World(off, m, c) /\ T.task = S.task /\ T.tman = x /\ T.dht = S.dht /\ T.src = S.src
<1>1. S \in StateRec /\ Balanced(S, off) /\ Blank(S) /\ Bounded(S) /\ Orderly(S) /\ Held(S, m, c)  BY WorldFacts
<1>2. /\ T \in StateRec /\ T.srv = S.srv /\ T.task = S.task /\ T.tman = x /\ T.dht = S.dht /\ T.src = S.src
  BY <1>1 DEF StateRec
<1>3. Balanced(T, off) /\ Blank(T) /\ Bounded(T) /\ Orderly(T) /\ Held(T, m, c)
  BY <1>1, <1>2 DEF Balanced, Blank, Bounded, Orderly, Held, InUse
<1>4. QED  BY <1>2, <1>3 DEF World

LEMMA DhtChanges ==
  ASSUME NEW off \in [TaskIds -> Int], NEW m, NEW c, NEW S \in World(off, m, c),
         NEW x \in DhtRec, NEW T, T = [S EXCEPT !.dht = x]
  PROVE  T \in World(off, m, c) /\ T.task = S.task /\ T.tman = S.tman /\ T.dht = x /\ T.src = S.src
<1>1. S \in StateRec /\ Balanced(S, off) /\ Blank(S) /\ Bounded(S) /\ Orderly(S) /\ Held(S, m, c)  BY WorldFacts
<1>2. /\ T \in StateRec /\ T.srv = S.srv /\ T.task = S.task /\ T.tman = S.tman /\ T.dht = x /\ T.src = S.src
  BY <1>1 DEF StateRec
<1>3. Balanced(T, off) /\ Blank(T) /\ Bounded(T) /\ Orderly(T) /\ Held(T, m, c)
  BY <1>1, <1>2 DEF Balanced, Blank, Bounded, Orderly, Held, InUse
<1>4. QED  BY <1>2, <1>3 DEF World

LEMMA SrcChanges ==
  ASSUME NEW off \in [TaskIds -> Int], NEW m, NEW c, NEW S \in World(off, m, c),
         NEW x \in SrcRec, NEW T, T = [S EXCEPT !.src = x]
  PROVE  T \in World(off, m, c) /\ T.task = S.task /\ T.tman = S.tman /\ T.src = x /\ T.dht = S.dht
<1>1. S \in StateRec /\ Balanced(S, off) /\ Blank(S) /\ Bounded(S) /\ Orderly(S) /\ Held(S, m, c)  BY WorldFacts
<1>2. /\ T \in StateRec /\ T.srv = S.srv /\ T.task = S.task /\ T.tman = S.tman /\ T.src = x /\ T.dht = S.dht
  BY <1>1 DEF StateRec
<1>3. Balanced(T, off) /\ Blank(T) /\ Bounded(T) /\ Orderly(T) /\ Held(T, m, c)
  BY <1>1, <1>2 DEF Balanced, Blank, Bounded, Orderly, Held, InUse
<1>4. QED  BY <1>2, <1>3 DEF World

\* A task gets another value; new says by how much its count is off then.
LEMMA TaskBecomes ==
  ASSUME NEW off \in [TaskIds -> Int], NEW m, NEW c, NEW S \in World(off, m, c),
         NEW t \in TaskIds, NEW k \in TaskRec, k.reqs <= MaxReqs, k.st # "free",
         NEW f, f = [S.task EXCEPT ![t] = k], NEW new \in [TaskIds -> Int],
         \A u \in TaskIds : u # t => new[u] = off[u],
         k.st = "finished" \/ k.reqs + new[t] = Owed(S.srv, t)
  PROVE  /\ f \in [TaskIds -> TaskRec] /\ f[t] = k /\ \A u \in TaskIds : u # t => f[u] = S.task[u]
         /\ \A T : T = [S EXCEPT !.task = f] =>
                    /\ T \in World(new, m, c) /\ T.tman = S.tman /\ T.dht = S.dht
                    /\ T.src = S.src /\ T.srv = S.srv /\ T.task = f
<1>1. /\ S \in StateRec /\ Balanced(S, off) /\ Blank(S) /\ Bounded(S) /\ Orderly(S) /\ Held(S, m, c)
      /\ S.task \in [TaskIds -> TaskRec]
  BY WorldFacts
<1>2. f \in [TaskIds -> TaskRec] /\ f[t] = k /\ \A u \in TaskIds : u # t => f[u] = S.task[u]
  BY <1>1
<1>3. ASSUME NEW T, T = [S EXCEPT !.task = f]
      PROVE  /\ T \in World(new, m, c) /\ T.tman = S.tman /\ T.dht = S.dht
             /\ T.src = S.src /\ T.srv = S.srv /\ T.task = f
  <2>1. /\ T \in StateRec /\ T.srv = S.srv /\ T.tman = S.tman /\ T.dht = S.dht /\ T.src = S.src
        /\ T.task = f /\ KeepsCalls(S, T) /\ (Orderly(S) => Orderly(T))
    BY <1>1, <1>2, <1>3, TaskChanges
  <2>2. Balanced(T, new)  BY <1>1, <1>2, <2>1 DEF Balanced
  <2>3. Blank(T) /\ Bounded(T)  BY <1>1, <1>2, <2>1 DEF Blank, Bounded
  <2>4. Held(T, m, c)  BY <1>1, <2>1 DEF Held
  <2>5. QED  BY <1>1, <2>1, <2>2, <2>3, <2>4 DEF World
<1>4. QED  BY <1>2, <1>3

\* One turn of TaskManager::taskFinished.
LEMMA StartQueuedFacts ==
  ASSUME NEW off \in [TaskIds -> Int], NEW m, NEW c, NEW S \in World(off, m, c)
  PROVE  StartQueued(S) \in World(off, m, c) /\ Serves(S, StartQueued(S))
<1>1. CASE ~CanStartTask(S) \/ S.tman.queue = <<>>  BY <1>1 DEF StartQueued, Serves
<1>2. CASE ~(~CanStartTask(S) \/ S.tman.queue = <<>>)
  <2> DEFINE t == Head(S.tman.queue)
             x == [S.tman EXCEPT !.queue = Tail(S.tman.queue)]
             R == [S EXCEPT !.tman.queue = Tail(S.tman.queue)]
             k == [R.task[t] EXCEPT !.queued = FALSE]
             Q == [R EXCEPT !.task[t].queued = FALSE]
             started == IF R.task[t].queued THEN SendRequests(Q, t) ELSE R
             y == [started.tman EXCEPT !.active = started.tman.active + 1]
             T == [started EXCEPT !.tman.active = started.tman.active + 1]
  <2>1. StartQueued(S) = T  BY <1>2 DEF StartQueued
  <2>2. S \in StateRec /\ S.tman \in TmanRec /\ S.tman.queue \in Seq(TaskIds)  BY WorldFacts, StateFacts DEF TmanRec
  <2>3. t \in TaskIds /\ Tail(S.tman.queue) \in Seq(TaskIds)  BY <1>2, <2>2, HeadTailProperties
  <2>4. x \in TmanRec  BY <2>2, <2>3 DEF TmanRec
  <2>5. R = [S EXCEPT !.tman = x]  BY <2>2 DEF StateRec, TmanRec
  <2> HIDE DEF t, x, R
  <2>6. R \in World(off, m, c) /\ R.task = S.task /\ R.tman = x /\ R.dht = S.dht /\ R.src = S.src
    BY <2>4, <2>5, ManagerChanges
  <2>7. Serves(S, R)  BY <2>6 DEF Serves
  <2>8. started \in World(off, m, c) /\ Serves(S, started)
    <3>1. CASE ~R.task[t].queued  BY <2>6, <2>7, <3>1
    <3>2. CASE R.task[t].queued
      <4>1. R \in StateRec /\ Balanced(R, off) /\ Blank(R) /\ R.task[t] \in TaskRec /\ R.task[t].reqs <= MaxReqs
        BY <2>3, <2>6, WorldFacts
      <4>2. R.task[t].st # "free"
        <5>1. NoTask.queued = FALSE  BY DEF NoTask
        <5>2. QED  BY <2>3, <3>2, <4>1, <5>1 DEF Blank
      <4>3. k \in TaskRec /\ k.st = R.task[t].st /\ k.reqs = R.task[t].reqs  BY <4>1 DEF TaskRec
      <4> DEFINE f == [R.task EXCEPT ![t] = k]
      <4>4. Q = [R EXCEPT !.task = f]  BY <2>3, <4>1, StateFacts DEF StateRec
      <4>5. k.st = "finished" \/ k.reqs + off[t] = Owed(R.srv, t)  BY <2>3, <4>1, <4>3 DEF Balanced
      <4>6. f = [R.task EXCEPT ![t] = k] /\ k.st # "free" /\ k.reqs <= MaxReqs  BY <4>1, <4>2, <4>3
      <4> HIDE DEF k, Q, f
      <4>7. /\ Q \in World(off, m, c) /\ Q.dht = R.dht /\ Q.src = R.src
            /\ Q.task[t] = k /\ \A u \in TaskIds : u # t => Q.task[u] = R.task[u]
        <5>1. /\ f[t] = k /\ \A u \in TaskIds : u # t => f[u] = R.task[u]
              /\ \A U : U = [R EXCEPT !.task = f] =>
                         /\ U \in World(off, m, c) /\ U.tman = R.tman /\ U.dht = R.dht
                         /\ U.src = R.src /\ U.srv = R.srv /\ U.task = f
          <6>1. R \in World(off, m, c) /\ t \in TaskIds /\ k \in TaskRec  BY <2>3, <2>6, <4>3
          <6>2. QED  BY <4>5, <4>6, <6>1, TaskBecomes
        <5>2. QED  BY <4>4, <5>1
      <4>8. SendRequests(Q, t) \in World(off, m, c) /\ Serves(Q, SendRequests(Q, t))
        BY <2>3, <4>2, <4>3, <4>7, RequestsKeep
      <4>9. Serves(R, Q)  BY <4>3, <4>7 DEF Serves
      <4>10. Serves(S, SendRequests(Q, t))  BY <2>7, <4>8, <4>9 DEF Serves
      <4>11. QED  BY <3>2, <4>8, <4>10
    <3>3. QED  BY <3>1, <3>2
  <2> HIDE DEF started
  <2>9. started \in StateRec /\ started.tman \in TmanRec  BY <2>8, WorldFacts, StateFacts
  <2>10. y \in TmanRec  BY <2>9 DEF TmanRec
  <2>11. T = [started EXCEPT !.tman = y]  BY <2>9 DEF StateRec, TmanRec
  <2> HIDE DEF y, T
  <2>12. T \in World(off, m, c) /\ T.task = started.task /\ T.dht = started.dht /\ T.src = started.src
    BY <2>8, <2>10, <2>11, ManagerChanges
  <2>13. Serves(S, T)  BY <2>8, <2>12 DEF Serves
  <2>14. QED  BY <2>1, <2>12, <2>13
<1>3. QED  BY <1>1, <1>2

\* The loop of TaskManager::taskFinished.
LEMMA StartTurns ==
  ASSUME NEW off \in [TaskIds -> Int], NEW m, NEW c, NEW R \in World(off, m, c), NEW n \in Nat
  PROVE  LET F[i \in 0 .. n] == IF i = 0 THEN R ELSE StartQueued(F[i - 1])
         IN F[n] \in World(off, m, c) /\ Serves(R, F[n])
<1> DEFINE W == World(off, m, c)
           Runs(F) == F = [i \in 0 .. n |-> IF i = 0 THEN R ELSE StartQueued(F[i - 1])]
           F == CHOOSE G : Runs(G)
<1>1. \E G : Runs(G)
  <2> DEFINE g == [x \in W \X Nat |-> StartQueued(x[1])]
  <2>1. \A U \in W, i \in Nat : g[<<U, i>>] = StartQueued(U)  OBVIOUS
  <2>2. \A U \in W : StartQueued(U) \in W  BY StartQueuedFacts
  <2> HIDE DEF g, W
  <2>3. TurnsIn(g, W)  BY <2>1, <2>2 DEF TurnsIn
  <2>4. R \in W  BY DEF W
  <2>5. \E G : Loop(G, g, W, R, n)
    <3> HIDE DEF Runs, F
    <3>1. QED  BY <2>3, <2>4, LoopExists
  <2>6. PICK G : Loop(G, g, W, R, n)  BY <2>5
  <2>7. ASSUME NEW i \in 0 .. n, i # 0 PROVE G[i] = StartQueued(G[i - 1])
    <3>1. i \in 1 .. n /\ i \in Nat /\ i - 1 \in 0 .. n  BY <2>7
    <3>2. G[i - 1] \in W  BY <2>6, <3>1 DEF Loop
    <3>3. QED  BY <2>1, <2>6, <3>1, <3>2 DEF Loop
  <2>8. \A i \in 0 .. n : G[i] = IF i = 0 THEN R ELSE StartQueued(G[i - 1])  BY <2>6, <2>7 DEF Loop
  <2>9. G = [i \in 0 .. n |-> G[i]]  BY <2>6 DEF Loop
  <2>10. Runs(G)  BY <2>8, <2>9
  <2>11. QED  BY <2>10
<1>2. Runs(F)  BY <1>1, Zenon
<1> HIDE DEF F
<1>3. F = [i \in 0 .. n |-> IF i = 0 THEN R ELSE StartQueued(F[i - 1])]  BY <1>2
<1> HIDE DEF Runs
<1> DEFINE D == [i \in 0 .. n |-> {U \in W : Serves(R, U)}]
<1>4. F[0] \in D[0]  BY <1>3 DEF Serves
<1>5. ASSUME NEW i \in 1 .. n, F[i - 1] \in D[i - 1] PROVE F[i] \in D[i]
  <2>1. i \in 0 .. n /\ i # 0 /\ i - 1 \in 0 .. n  OBVIOUS
  <2>2. F[i - 1] \in W /\ Serves(R, F[i - 1])  BY <1>5, <2>1
  <2>3. F[i] = StartQueued(F[i - 1])  BY <1>3, <2>1
  <2>4. F[i] \in W /\ Serves(F[i - 1], F[i])  BY <2>2, <2>3, StartQueuedFacts
  <2>5. Serves(R, F[i])  BY <2>2, <2>4 DEF Serves
  <2>6. QED  BY <2>1, <2>4, <2>5
<1> HIDE DEF D
<1>6. F[n] \in D[n]  BY <1>4, <1>5, LoopKeeps
<1>7. n \in 0 .. n  OBVIOUS
<1>8. F[n] \in W /\ Serves(R, F[n])  BY <1>6, <1>7 DEF D
<1>9. QED  BY <1>8, Zenon DEF F, Runs

\* TaskManager::taskFinished.
LEMMA TaskFinishedFacts ==
  ASSUME NEW off \in [TaskIds -> Int], NEW m, NEW c, NEW S \in World(off, m, c), NEW t \in TaskIds
  PROVE  TaskFinished(S, t) \in World(off, m, c) /\ Serves(S, TaskFinished(S, t))
<1> DEFINE ends == ~S.task[t].queued /\ S.tman.active > 0
           x == [S.tman EXCEPT !.active = S.tman.active - 1]
           R == IF ends THEN [S EXCEPT !.tman.active = S.tman.active - 1] ELSE S
           n == Len(R.tman.queue)
<1>1. S \in StateRec /\ S.tman \in TmanRec /\ S.tman.active \in Nat  BY WorldFacts, StateFacts DEF TmanRec
<1>2. R \in World(off, m, c) /\ Serves(S, R)
  <2>1. CASE ~ends  BY <2>1 DEF Serves
  <2>2. CASE ends
    <3>1. x \in TmanRec
      <4>1. S.tman.active - 1 \in Nat  BY <1>1, <2>2
      <4>2. QED  BY <1>1, <4>1 DEF TmanRec
    <3>2. R = [S EXCEPT !.tman = x]  BY <1>1, <2>2 DEF StateRec, TmanRec
    <3> HIDE DEF x, R, ends
    <3>3. R \in World(off, m, c) /\ R.task = S.task /\ R.dht = S.dht /\ R.src = S.src
      BY <3>1, <3>2, ManagerChanges
    <3>4. QED  BY <3>3 DEF Serves
  <2>3. QED  BY <2>1, <2>2
<1>3. TaskFinished(S, t) = LET F[i \in 0 .. n] == IF i = 0 THEN R ELSE StartQueued(F[i - 1]) IN F[n]
  BY Zenon DEF TaskFinished
<1> HIDE DEF R
<1>4. n \in Nat
  <2>1. R.tman.queue \in Seq(TaskIds)  BY <1>2, WorldFacts, StateFacts DEF TmanRec
  <2>2. QED  BY <2>1, LenProperties
<1> HIDE DEF n
<1>5. LET F[i \in 0 .. n] == IF i = 0 THEN R ELSE StartQueued(F[i - 1])
      IN F[n] \in World(off, m, c) /\ Serves(R, F[n])
  BY <1>2, <1>4, StartTurns
<1>6. TaskFinished(S, t) \in World(off, m, c) /\ Serves(R, TaskFinished(S, t))  BY <1>3, <1>5, Zenon
<1>7. QED  BY <1>2, <1>6 DEF Serves

\* Task t may end, other tasks do not, and the DHT runs on.
Moves(S, T, t) == /\ T.dht.running = S.dht.running
                  /\ T.task[t].st \in {"live", "finished"}
                  /\ \A u \in TaskIds : u # t => T.task[u].st = S.task[u].st

\* Task::done and Task::kill, with all the slots of the signal.
LEMMA FinishFacts ==
  ASSUME NEW off \in [TaskIds -> Int], NEW m, NEW c, NEW S \in World(off, m, c),
         NEW t \in TaskIds
  PROVE  Finish(S, t) \in World(off, m, c) /\ Moves(S, Finish(S, t), t)
<1> DEFINE k == [S.task[t] EXCEPT !.st = "finished"]
           A == [S EXCEPT !.task[t].st = "finished"]
           B == TaskFinished(A, t)
           C == OwnNodeLookupFinished(B, t)
           T == OnFinished(C, t)
<1>1. S \in StateRec /\ S.task[t] \in TaskRec /\ S.task[t].reqs <= MaxReqs  BY WorldFacts
<1>2. k \in TaskRec /\ k.st = "finished" /\ k.reqs = S.task[t].reqs  BY <1>1 DEF TaskRec
<1> DEFINE f == [S.task EXCEPT ![t] = k]
<1>3. A = [S EXCEPT !.task = f]  BY <1>1, StateFacts DEF StateRec
<1>4. Finish(S, t) = T  BY DEF Finish
<1>5. f = [S.task EXCEPT ![t] = k]  OBVIOUS
<1> HIDE DEF k, A, f
<1>6. /\ A \in World(off, m, c) /\ A.dht = S.dht /\ A.src = S.src /\ A.task[t] = k
      /\ \A u \in TaskIds : u # t => A.task[u] = S.task[u]
  <2>1. k.st # "free" /\ k.reqs <= MaxReqs  BY <1>1, <1>2
  <2>2. k.st = "finished" \/ k.reqs + off[t] = Owed(S.srv, t)  BY <1>2
  <2>3. QED  BY <1>2, <1>3, <1>5, <2>1, <2>2, TaskBecomes
<1>7. B \in World(off, m, c) /\ Serves(A, B)  BY <1>6, TaskFinishedFacts
<1> HIDE DEF B
<1>8. C \in World(off, m, c) /\ C.task = B.task /\ C.dht.running = B.dht.running
  <2>1. CASE B.dht.own # t  BY <1>7, <2>1 DEF OwnNodeLookupFinished
  <2>2. CASE B.dht.own = t
    <3> DEFINE x == [B.dht EXCEPT !.own = 0]
    <3>1. B \in StateRec /\ B.dht \in DhtRec  BY <1>7, WorldFacts, StateFacts
    <3>2. x \in DhtRec /\ x.running = B.dht.running  BY <3>1 DEF DhtRec
    <3>3. C = [B EXCEPT !.dht = x]  BY <2>2, <3>1 DEF OwnNodeLookupFinished, StateRec, DhtRec
    <3> HIDE DEF x, C
    <3>4. C \in World(off, m, c) /\ C.task = B.task /\ C.dht = x  BY <1>7, <3>2, <3>3, DhtChanges
    <3>5. QED  BY <3>2, <3>4
  <2>3. QED  BY <2>1, <2>2
<1> HIDE DEF C
<1>9. T \in World(off, m, c) /\ T.task = C.task /\ T.dht.running = C.dht.running
  <2>1. CASE C.src.curr # t  BY <1>8, <2>1 DEF OnFinished
  <2>2. CASE C.src.curr = t
    <3> DEFINE y == [C.src EXCEPT !.curr = 0, !.timer = TRUE]
    <3>1. C \in StateRec /\ C.src \in SrcRec  BY <1>8, WorldFacts, StateFacts
    <3>2. y \in SrcRec  BY <3>1 DEF SrcRec
    <3>3. T = [C EXCEPT !.src = y]  BY <2>2, <3>1 DEF OnFinished, StateRec, SrcRec
    <3> HIDE DEF y, T
    <3>4. T \in World(off, m, c) /\ T.task = C.task /\ T.dht = C.dht  BY <1>8, <3>2, <3>3, SrcChanges
    <3>5. QED  BY <3>4
  <2>3. QED  BY <2>1, <2>2
<1> HIDE DEF T
<1>10. Moves(S, T, t)  BY <1>2, <1>6, <1>7, <1>8, <1>9 DEF Serves, Moves
<1>11. QED  BY <1>4, <1>9, <1>10

LEMMA UpdateFacts ==
  ASSUME NEW off \in [TaskIds -> Int], NEW m, NEW c, NEW S \in World(off, m, c),
         NEW t \in TaskIds, S.task[t].st = "live"
  PROVE  Update(S, t) \in World(off, m, c) /\ Moves(S, Update(S, t), t)
<1> DEFINE R == SendRequests(S, t)
           T == Finish(R, t)
<1>1. R \in World(off, m, c) /\ Serves(S, R)  BY RequestsKeep
<1>2. Update(S, t) = IF Exhausted(R.task[t]) THEN T ELSE R  BY DEF Update
<1> HIDE DEF R
<1>3. R.task[t].st = "live"  BY <1>1 DEF Serves
<1>4. T \in World(off, m, c) /\ Moves(R, T, t)  BY <1>1, <1>3, FinishFacts
<1> HIDE DEF T
<1>5. Moves(S, R, t) /\ Moves(S, T, t)  BY <1>1, <1>4 DEF Moves, Serves
<1>6. QED  BY <1>1, <1>2, <1>4, <1>5

\* Task::onResponse and Task::onTimeout: one request less is counted.
LEMMA CallEndedFacts ==
  ASSUME NEW off \in [TaskIds -> Int], NEW m, NEW c, NEW S \in World(off, m, c),
         NEW t \in TaskIds, S.task[t].st = "live", S.task[t].reqs > 0,
         NEW new \in [TaskIds -> Int], new[t] = off[t] + 1,
         \A u \in TaskIds : u # t => new[u] = off[u]
  PROVE  CallEnded(S, t) \in World(new, m, c) /\ Moves(S, CallEnded(S, t), t)
<1> DEFINE j == S.task[t].reqs
           k == [S.task[t] EXCEPT !.reqs = j - 1]
           R == [S EXCEPT !.task[t].reqs = IF j > 0 THEN j - 1 ELSE 0]
<1>1. /\ S \in StateRec /\ Balanced(S, off) /\ S.task[t] \in TaskRec /\ j \in Nat /\ j <= MaxReqs
      /\ off[t] \in Int /\ S.task \in [TaskIds -> TaskRec]
  BY WorldFacts
<1>2. CallEnded(S, t) = IF R.task[t].reqs < MaxReqs THEN Update(R, t) ELSE R  BY DEF CallEnded
<1>3. j - 1 \in Nat /\ j - 1 < MaxReqs /\ j - 1 <= MaxReqs /\ MaxReqs \in Nat
  <2>1. j > 0 /\ MaxReqs \in Nat  BY DhtNumbers
  <2> HIDE DEF j
  <2>2. QED  BY <1>1, <2>1
<1> DEFINE f == [S.task EXCEPT ![t] = k]
<1>4. R = [S EXCEPT !.task = f]  BY <1>1, StateFacts DEF StateRec
<1>5. f = [S.task EXCEPT ![t] = k]  OBVIOUS
<1>6. k \in TaskRec /\ k.st = "live" /\ k.reqs = j - 1
  <2> HIDE DEF j
  <2>1. QED  BY <1>1, <1>3 DEF TaskRec
<1>7. j + off[t] = Owed(S.srv, t)  BY <1>1 DEF Balanced
<1> HIDE DEF k, R, j, f
<1>8. k.reqs + new[t] = Owed(S.srv, t)  BY <1>1, <1>6, <1>7
<1>9. /\ R \in World(new, m, c) /\ R.dht = S.dht /\ R.task[t] = k
      /\ \A u \in TaskIds : u # t => R.task[u] = S.task[u]
  <2>1. k.st # "free" /\ k.reqs <= MaxReqs  BY <1>3, <1>6
  <2>2. k.st = "finished" \/ k.reqs + new[t] = Owed(S.srv, t)  BY <1>8
  <2>3. QED  BY <1>4, <1>6, <1>5, <2>1, <2>2, TaskBecomes
<1>10. Update(R, t) \in World(new, m, c) /\ Moves(R, Update(R, t), t)  BY <1>6, <1>9, UpdateFacts
<1>11. Moves(S, Update(R, t), t)  BY <1>9, <1>10 DEF Moves
<1>12. CallEnded(S, t) = Update(R, t)  BY <1>2, <1>3, <1>6, <1>9
<1>13. QED  BY <1>10, <1>11, <1>12

\* NodeLookup::callFinished and AnnounceTask::callFinished only add nodes.
LEMMA CallFinishedFacts ==
  ASSUME NEW T \in TaskRec, NEW method, NEW from \in Nodes, NEW nodes \in SUBSET Nodes
  PROVE  /\ CallFinished(T, method, from, nodes) \in TaskRec
         /\ CallFinished(T, method, from, nodes).st = T.st
         /\ CallFinished(T, method, from, nodes).reqs = T.reqs
<1> DEFINE new == T.todo \cup (nodes \ T.visited)
           ans == T.answered \cup ({from} \ T.announced)
           H == [T EXCEPT !.todo = new]
           A == [H EXCEPT !.answered = ans]
           R == CallFinished(T, method, from, nodes)
<1>1. T.todo \in SUBSET Nodes /\ T.answered \in SUBSET Nodes  BY DEF TaskRec
<1>2. new \in SUBSET Nodes /\ ans \in SUBSET Nodes  BY <1>1
<1>3. HandleNodes(T, nodes) = H  BY DEF HandleNodes
<1> HIDE DEF new
<1>4. H \in TaskRec /\ H.st = T.st /\ H.reqs = T.reqs /\ H.answered = T.answered  BY <1>2 DEF TaskRec
<1>5. T.kind \in {"lookup", "announce"}  BY DEF TaskRec
<1> HIDE DEF H
<1>6. R = T \/ R = H \/ R = A
  <2>1. CASE T.kind = "lookup"  BY <1>3, <2>1 DEF CallFinished, LookupFinished
  <2>2. CASE T.kind = "announce" /\ method = "get_peers"  BY <1>3, <1>4, <2>2 DEF CallFinished
  <2>3. CASE T.kind = "announce" /\ method # "get_peers"  BY <2>3 DEF CallFinished
  <2>4. QED  BY <1>5, <2>1, <2>2, <2>3
<1> HIDE DEF ans, R
<1>7. A \in TaskRec /\ A.st = T.st /\ A.reqs = T.reqs  BY <1>2, <1>4 DEF TaskRec
<1>8. QED  BY <1>4, <1>6, <1>7 DEF R

(* The handlers, from the event loop and back. *)

Zero == [t \in TaskIds |-> 0]
Calm == World(Zero, -1, NoCall)

LEMMA ZeroFacts ==
  /\ Zero \in [TaskIds -> Int] /\ \A t \in TaskIds : Zero[t] = 0
  /\ -1 \notin Ids
BY DhtNumbers DEF Zero

\* A server with no calls, and no tasks.
LEMMA Fresh ==
  ASSUME NEW S \in StateRec, S.srv.queue = <<>>, \A m \in Ids : S.srv.calls[m] = NoCall,
         \A t \in TaskIds : S.task[t] = NoTask
  PROVE  S \in Calm
<1>1. NoTask.reqs = 0 /\ NoTask.st = "free"  BY DEF NoTask
<1>2. ASSUME NEW t \in TaskIds PROVE Owed(S.srv, t) = 0
  <2>1. OnWire(S.srv.calls, t) = {}  BY CallFacts, DhtNumbers DEF OnWire
  <2>2. Cardinality(OnWire(S.srv.calls, t)) = 0  BY <2>1, FS_EmptySet
  <2>3. {i \in DOMAIN Listeners(S.srv.queue) : Listeners(S.srv.queue)[i] = t} = {}
    <3>1. DOMAIN S.srv.queue = {}  OBVIOUS
    <3>2. QED  BY <3>1 DEF Listeners
  <2>4. Count(Listeners(S.srv.queue), t) = 0  BY <2>3, FS_EmptySet DEF Count
  <2>5. QED  BY <2>2, <2>4 DEF Owed
<1>3. Balanced(S, Zero)  BY <1>1, <1>2, ZeroFacts DEF Balanced
<1>4. Blank(S) /\ Bounded(S)  BY <1>1, DhtNumbers DEF Blank, Bounded
<1>5. Orderly(S) /\ Held(S, -1, NoCall)  BY ZeroFacts DEF Orderly, Held
<1>6. QED  BY <1>3, <1>4, <1>5 DEF World, Calm

\* Who is on the wire is owed something.
LEMMA OwedOnWire ==
  ASSUME NEW S \in StateRec, NEW m \in Ids, NEW t, S.srv.calls[m].task = t
  PROVE  Owed(S.srv, t) >= 1
<1> DEFINE A == OnWire(S.srv.calls, t)
<1>1. S.srv.calls \in Calls /\ S.srv.queue \in Seq(Call)  BY StateFacts
<1>2. Count(Listeners(S.srv.queue), t) \in Nat  BY <1>1, QueueChanges
<1>3. A \subseteq Ids /\ A # {}  BY DEF OnWire
<1> HIDE DEF A
<1>4. IsFiniteSet(A)  BY <1>3, DhtNumbers, FS_Subset
<1>5. Cardinality(A) \in Nat /\ Cardinality(A) # 0  BY <1>3, <1>4, FS_CardinalityType, FS_EmptySet
<1>6. QED  BY <1>2, <1>5 DEF Owed, A

\* A call leaves the table, and what waits is sent.
LEMMA CallLeaves ==
  ASSUME NEW off \in [TaskIds -> Int], NEW m \in Ids, NEW c, NEW S \in World(off, m, c),
         NEW new \in [TaskIds -> Int],
         \A t \in TaskIds : new[t] = off[t] - (IF c.task = t THEN 1 ELSE 0)
  PROVE  /\ DoQueuedCalls(EraseCall(S, m)) \in World(new, -1, NoCall)
         /\ ServerOnly(S, DoQueuedCalls(EraseCall(S, m)))
<1> DEFINE E == EraseCall(S, m)
           T == DoQueuedCalls(E)
<1>1. /\ S \in StateRec /\ Balanced(S, off) /\ Blank(S) /\ Bounded(S) /\ S.srv.calls[m] = c
      /\ \A t \in TaskIds : S.task[t].reqs \in Nat
  BY WorldFacts DEF Held
<1>2. /\ E \in StateRec /\ ServerOnly(S, E)
      /\ \A t \in TaskIds : Owed(E.srv, t) = Owed(S.srv, t) - (IF c.task = t THEN 1 ELSE 0)
  BY <1>1, EraseFacts
<1> HIDE DEF E
<1>3. /\ T \in StateRec /\ ServerOnly(E, T) /\ Orderly(T)
      /\ \A t \in TaskIds : Owed(T.srv, t) = Owed(E.srv, t)
  BY <1>2, DoQueuedFacts
<1> HIDE DEF T
<1>4. ServerOnly(S, T)  BY <1>2, <1>3 DEF ServerOnly
<1>5. Balanced(T, new)
  <2> SUFFICES ASSUME NEW t \in TaskIds, T.task[t].st # "finished"
               PROVE  T.task[t].reqs + new[t] = Owed(T.srv, t)
    BY DEF Balanced
  <2>1. T.task = S.task  BY <1>4 DEF ServerOnly
  <2>2. S.task[t].reqs + off[t] = Owed(S.srv, t)  BY <1>1, <2>1 DEF Balanced
  <2>3. Owed(T.srv, t) = Owed(S.srv, t) - (IF c.task = t THEN 1 ELSE 0)  BY <1>2, <1>3
  <2>4. S.task[t].reqs \in Nat /\ off[t] \in Int  BY <1>1
  <2>5. QED  BY <2>1, <2>2, <2>3, <2>4
<1>6. Blank(T) /\ Bounded(T)  BY <1>1, <1>4 DEF Blank, Bounded, ServerOnly
<1>7. Held(T, -1, NoCall)  BY ZeroFacts DEF Held
<1>8. QED  BY <1>3, <1>4, <1>5, <1>6, <1>7 DEF World, T, E

\* What a handler may hand to the event loop.
Goes(S, T) == T \in Calm /\ T.dht.running = S.dht.running

LEMMA CalmFacts ==
  ASSUME NEW S \in Calm
  PROVE  /\ S \in World(Zero, -1, NoCall) /\ S \in StateRec /\ Balanced(S, Zero) /\ Blank(S)
         /\ Bounded(S) /\ Orderly(S) /\ S.dht \in DhtRec /\ S.src \in SrcRec /\ S.tman \in TmanRec
         /\ S.task \in [TaskIds -> TaskRec] /\ S.srv \in SrvRec
<1>1. S \in World(Zero, -1, NoCall)  BY DEF Calm
<1>2. S \in StateRec /\ Balanced(S, Zero) /\ Blank(S) /\ Bounded(S) /\ Orderly(S)
  BY <1>1, ZeroFacts, WorldFacts
<1>3. QED  BY <1>1, <1>2, StateFacts

LEMMA NewDht ==
  ASSUME NEW S \in Calm, NEW x \in DhtRec, NEW T, T = [S EXCEPT !.dht = x]
  PROVE  T \in Calm /\ T.task = S.task /\ T.dht = x /\ T.src = S.src
<1>1. S \in World(Zero, -1, NoCall) /\ Zero \in [TaskIds -> Int]  BY CalmFacts, ZeroFacts
<1>2. T \in World(Zero, -1, NoCall) /\ T.task = S.task /\ T.dht = x /\ T.src = S.src  BY <1>1, DhtChanges
<1>3. QED  BY <1>2 DEF Calm

LEMMA NewSrc ==
  ASSUME NEW S \in Calm, NEW x \in SrcRec, NEW T, T = [S EXCEPT !.src = x]
  PROVE  T \in Calm /\ T.task = S.task /\ T.dht = S.dht /\ T.src = x
<1>1. S \in World(Zero, -1, NoCall) /\ Zero \in [TaskIds -> Int]  BY CalmFacts, ZeroFacts
<1>2. T \in World(Zero, -1, NoCall) /\ T.task = S.task /\ T.dht = S.dht /\ T.src = x  BY <1>1, SrcChanges
<1>3. QED  BY <1>2 DEF Calm

LEMMA NewTman ==
  ASSUME NEW S \in Calm, NEW x \in TmanRec, NEW T, T = [S EXCEPT !.tman = x]
  PROVE  T \in Calm /\ T.task = S.task /\ T.dht = S.dht /\ T.src = S.src
<1>1. S \in World(Zero, -1, NoCall) /\ Zero \in [TaskIds -> Int]  BY CalmFacts, ZeroFacts
<1>2. T \in World(Zero, -1, NoCall) /\ T.task = S.task /\ T.dht = S.dht /\ T.src = S.src  BY <1>1, ManagerChanges
<1>3. QED  BY <1>2 DEF Calm

\* DHT::findNode, refreshBucket and announce.
LEMMA NewTaskFacts ==
  ASSUME NEW S \in Calm, CanCreate(S), NEW kind \in {"lookup", "announce"}, NEW close \in SUBSET Nodes
  PROVE  Goes(S, NewTask(S, kind, close).S) /\ NewTask(S, kind, close).new \in TaskIds \cup {0}
<1>1. CASE close = {}  BY <1>1 DEF NewTask, Goes
<1>2. CASE close # {}
  <2> DEFINE t == FreeTask(S)
             queued == ~CanStartTask(S)
             k == [NoTask EXCEPT !.st = "live", !.kind = kind, !.queued = queued, !.todo = close]
             f == [S.task EXCEPT ![t] = k]
             R == [S EXCEPT !.task[t] = k]
             A == [R EXCEPT !.tman.queue = Append(R.tman.queue, t)]
             U == Update(R, t)
             B == [U EXCEPT !.tman.active = U.tman.active + 1]
             N == NewTask(S, kind, close)
  <2>1. N = [S |-> IF queued THEN A ELSE B, new |-> t]  BY <1>2 DEF NewTask
  <2>2. N.S = (IF queued THEN A ELSE B) /\ N.new = t  BY <2>1
  <2>3. t \in TaskIds /\ S.task[t].st = "free"  BY Zenon DEF FreeTask, CanCreate
  <2>4. /\ S \in World(Zero, -1, NoCall) /\ S \in StateRec /\ Balanced(S, Zero) /\ Blank(S)
        /\ S.task \in [TaskIds -> TaskRec]
    BY CalmFacts
  <2>5. k \in TaskRec /\ k.st = "live" /\ k.reqs = 0
    <3>1. queued \in BOOLEAN  OBVIOUS
    <3> HIDE DEF queued
    <3>2. QED  BY <3>1 DEF NoTask, TaskRec
  <2>6. R = [S EXCEPT !.task = f]  BY <2>4 DEF StateRec
  <2>7. f = [S.task EXCEPT ![t] = k]  OBVIOUS
  <2> HIDE DEF t, k, f, R, N, queued
  <2>8. k.st # "free" /\ k.reqs <= MaxReqs  BY <2>5, DhtNumbers
  <2>9. k.st = "finished" \/ k.reqs + Zero[t] = Owed(S.srv, t)
    <3>1. S.task[t].reqs = 0  BY <2>3, <2>4 DEF Blank, NoTask
    <3>2. S.task[t].reqs + Zero[t] = Owed(S.srv, t)  BY <2>3, <2>4 DEF Balanced
    <3>3. QED  BY <2>5, <3>1, <3>2
  <2>10. /\ R \in World(Zero, -1, NoCall) /\ R.tman = S.tman /\ R.dht = S.dht /\ R.src = S.src
         /\ R.task = f /\ f[t] = k
    <3>1. Zero \in [TaskIds -> Int]  BY ZeroFacts
    <3>2. QED  BY <2>3, <2>4, <2>5, <2>6, <2>7, <2>8, <2>9, <3>1, TaskBecomes
  <2>11. R \in Calm  BY <2>10 DEF Calm
  <2>12. Goes(S, A)
    <3> DEFINE x == [R.tman EXCEPT !.queue = Append(R.tman.queue, t)]
    <3>1. R \in StateRec /\ R.tman \in TmanRec /\ R.tman.queue \in Seq(TaskIds)  BY <2>11, CalmFacts DEF TmanRec
    <3>2. Append(R.tman.queue, t) \in Seq(TaskIds)  BY <2>3, <3>1, AppendProperties
    <3>3. x \in TmanRec  BY <3>1, <3>2 DEF TmanRec
    <3>4. A = [R EXCEPT !.tman = x]  BY <3>1 DEF StateRec, TmanRec
    <3> HIDE DEF x, A
    <3>5. A \in Calm /\ A.dht = R.dht  BY <2>11, <3>3, <3>4, NewTman
    <3>6. QED  BY <2>10, <3>5 DEF Goes
  <2>13. Goes(S, B)
    <3>1. U \in World(Zero, -1, NoCall) /\ Moves(R, U, t)
      <4>1. Zero \in [TaskIds -> Int] /\ R.task[t].st = "live"  BY <2>5, <2>10, ZeroFacts
      <4>2. QED  BY <2>3, <2>10, <4>1, UpdateFacts
    <3>2. U \in Calm /\ U.dht.running = S.dht.running  BY <2>10, <3>1 DEF Moves, Calm
    <3> HIDE DEF U
    <3> DEFINE x == [U.tman EXCEPT !.active = U.tman.active + 1]
    <3>3. U \in StateRec /\ U.tman \in TmanRec  BY <3>2, CalmFacts
    <3>4. x \in TmanRec  BY <3>3 DEF TmanRec
    <3>5. B = [U EXCEPT !.tman = x]  BY <3>3 DEF StateRec, TmanRec
    <3> HIDE DEF x, B
    <3>6. B \in Calm /\ B.dht = U.dht  BY <3>2, <3>4, <3>5, NewTman
    <3>7. QED  BY <3>2, <3>6 DEF Goes
  <2> HIDE DEF A, B
  <2>14. Goes(S, N.S) /\ N.new \in TaskIds \cup {0}  BY <2>2, <2>3, <2>12, <2>13
  <2>15. QED  BY <2>14 DEF N
<1>3. QED  BY <1>1, <1>2

LEMMA FindOwnNodeFacts ==
  ASSUME NEW S \in Calm, CanCreate(S), NEW close \in SUBSET Nodes
  PROVE  Goes(S, FindOwnNode(S, close))
<1>1. CASE S.dht.own # 0  BY <1>1 DEF FindOwnNode, Goes
<1>2. CASE S.dht.own = 0
  <2> DEFINE r == NewTask(S, "lookup", close)
             x == [r.S.dht EXCEPT !.own = r.new]
             T == [r.S EXCEPT !.dht.own = r.new]
  <2>1. Goes(S, r.S) /\ r.new \in TaskIds \cup {0}  BY NewTaskFacts
  <2>2. FindOwnNode(S, close) = T  BY <1>2 DEF FindOwnNode
  <2> HIDE DEF r
  <2>3. r.S \in Calm /\ r.S \in StateRec /\ r.S.dht \in DhtRec  BY <2>1, CalmFacts DEF Goes
  <2>4. x \in DhtRec /\ x.running = r.S.dht.running  BY <2>1, <2>3 DEF DhtRec
  <2>5. T = [r.S EXCEPT !.dht = x]  BY <2>3 DEF StateRec, DhtRec
  <2> HIDE DEF x, T
  <2>6. T \in Calm /\ T.dht = x  BY <2>3, <2>4, <2>5, NewDht
  <2>7. QED  BY <2>1, <2>2, <2>4, <2>6 DEF Goes
<1>3. QED  BY <1>1, <1>2

LEMMA DoRequestFacts ==
  ASSUME NEW S \in Calm, CanCreate(S), NEW close \in SUBSET Nodes
  PROVE  Goes(S, DoRequest(S, close))
<1>1. CASE ~S.dht.running \/ S.src.curr # 0  BY <1>1 DEF DoRequest, Goes
<1>2. CASE ~(~S.dht.running \/ S.src.curr # 0)
  <2> DEFINE r == NewTask(S, "announce", close)
             x == [r.S.src EXCEPT !.curr = r.new]
             T == [r.S EXCEPT !.src.curr = r.new]
  <2>1. Goes(S, r.S) /\ r.new \in TaskIds \cup {0}  BY NewTaskFacts
  <2>2. DoRequest(S, close) = T  BY <1>2 DEF DoRequest
  <2> HIDE DEF r
  <2>3. r.S \in Calm /\ r.S \in StateRec /\ r.S.src \in SrcRec  BY <2>1, CalmFacts DEF Goes
  <2>4. x \in SrcRec  BY <2>1, <2>3 DEF SrcRec
  <2>5. T = [r.S EXCEPT !.src = x]  BY <2>3 DEF StateRec, SrcRec
  <2> HIDE DEF x, T
  <2>6. T \in Calm /\ T.dht = r.S.dht  BY <2>3, <2>4, <2>5, NewSrc
  <2>7. QED  BY <2>1, <2>2, <2>6 DEF Goes
<1>3. QED  BY <1>1, <1>2

LEMMA SrcStopFacts ==
  ASSUME NEW S \in Calm
  PROVE  Goes(S, SrcStop(S)) /\ (S.src.curr = 0 => SrcStop(S).src.curr = 0 /\ SrcStop(S).task = S.task)
<1> DEFINE x == [S.src EXCEPT !.started = FALSE]
           R == [S EXCEPT !.src.started = FALSE]
<1>1. S \in StateRec /\ S.src \in SrcRec  BY CalmFacts
<1>2. x \in SrcRec /\ x.curr = S.src.curr  BY <1>1 DEF SrcRec
<1>3. R = [S EXCEPT !.src = x]  BY <1>1 DEF StateRec, SrcRec
<1>4. SrcStop(S) = IF R.src.curr = 0 THEN R ELSE [Finish(R, R.src.curr) EXCEPT !.src.timer = FALSE]
  BY DEF SrcStop
<1> HIDE DEF x, R
<1>5. R \in Calm /\ R.task = S.task /\ R.dht = S.dht /\ R.src = x  BY <1>2, <1>3, NewSrc
<1>6. CASE R.src.curr = 0  BY <1>2, <1>4, <1>5, <1>6 DEF Goes
<1>7. CASE R.src.curr # 0
  <2> DEFINE t == R.src.curr
             F == Finish(R, t)
             y == [F.src EXCEPT !.timer = FALSE]
             T == [F EXCEPT !.src.timer = FALSE]
  <2>1. t \in TaskIds  BY <1>2, <1>5, <1>7 DEF SrcRec
  <2>2. SrcStop(S) = T  BY <1>4, <1>7
  <2> HIDE DEF t
  <2>3. F \in World(Zero, -1, NoCall) /\ Moves(R, F, t)
    <3>1. R \in World(Zero, -1, NoCall) /\ Zero \in [TaskIds -> Int]  BY <1>5, CalmFacts, ZeroFacts
    <3>2. QED  BY <2>1, <3>1, FinishFacts
  <2> HIDE DEF F
  <2>4. F \in Calm /\ F.dht.running = S.dht.running  BY <1>5, <2>3 DEF Moves, Calm
  <2>5. F \in StateRec /\ F.src \in SrcRec  BY <2>4, CalmFacts
  <2>6. y \in SrcRec  BY <2>5 DEF SrcRec
  <2>7. T = [F EXCEPT !.src = y]  BY <2>5 DEF StateRec, SrcRec
  <2> HIDE DEF y, T
  <2>8. T \in Calm /\ T.dht = F.dht  BY <2>4, <2>6, <2>7, NewSrc
  <2>9. S.src.curr # 0  BY <1>2, <1>5, <1>7
  <2>10. QED  BY <2>2, <2>4, <2>8, <2>9 DEF Goes
<1>8. QED  BY <1>6, <1>7

\* Between two handlers no finished task is left, and a DHT that does not run
\* has neither tasks nor a task of the source.
DhtInv ==
  /\ State \in Calm /\ \A t \in TaskIds : task[t].st # "finished"
  /\ ~dht.running => src.curr = 0 /\ \A t \in TaskIds : task[t].st = "free"

\* A call whose listener is deleted stays a call.
LEMMA ForgetFacts ==
  ASSUME NEW c \in Call \cup {NoCall}, NEW dead \in SUBSET TaskIds, NEW d,
         d = IF c.task \in dead THEN [c EXCEPT !.task = 0] ELSE c
  PROVE  /\ d \in Call \cup {NoCall} /\ (d = NoCall <=> c = NoCall)
         /\ d.task = IF c.task \in dead THEN 0 ELSE c.task
<1>1. CASE c.task \notin dead  BY <1>1
<1>2. CASE c.task \in dead
  <2>1. c \in Call  BY <1>2, CallFacts, DhtNumbers
  <2>2. d \in Call /\ d.task = 0  BY <1>2, <2>1 DEF Call
  <2>3. QED  BY <1>2, <2>1, <2>2, CallFacts
<1>3. QED  BY <1>1, <1>2

LEMMA ForgetServer ==
  ASSUME NEW v \in SrvRec, NEW dead \in SUBSET TaskIds,
         NEW w, w = [calls |-> Forget(v.calls, dead), queue |-> Forget(v.queue, dead), next |-> v.next]
  PROVE  /\ w \in SrvRec /\ (w.queue = <<>> <=> v.queue = <<>>)
         /\ \A m \in Ids : w.calls[m] = NoCall <=> v.calls[m] = NoCall
         /\ \A t \in TaskIds : Owed(w, t) = IF t \in dead THEN 0 ELSE Owed(v, t)
<1> DEFINE calls == Forget(v.calls, dead)
           queue == Forget(v.queue, dead)
           n == Len(v.queue)
<1>1. v.calls \in Calls /\ v.queue \in Seq(Call)  BY DEF SrvRec
<1>2. DOMAIN v.calls = Ids /\ \A m \in Ids : v.calls[m] \in Call \cup {NoCall}  BY <1>1 DEF Calls
<1>3. n \in Nat /\ DOMAIN v.queue = 1 .. n /\ \A i \in 1 .. n : v.queue[i] \in Call
  BY <1>1, LenProperties, ElementOfSeq
<1>4. calls = [m \in Ids |-> calls[m]]  BY <1>2 DEF Forget
<1>5. ASSUME NEW m \in Ids
      PROVE  /\ calls[m] \in Call \cup {NoCall} /\ (calls[m] = NoCall <=> v.calls[m] = NoCall)
             /\ calls[m].task = IF v.calls[m].task \in dead THEN 0 ELSE v.calls[m].task
  <2> DEFINE c == v.calls[m]
             d == calls[m]
  <2>1. d = IF c.task \in dead THEN [c EXCEPT !.task = 0] ELSE c  BY <1>2 DEF Forget
  <2>2. c \in Call \cup {NoCall}  BY <1>2
  <2> HIDE DEF c, d
  <2>3. /\ d \in Call \cup {NoCall} /\ (d = NoCall <=> c = NoCall)
        /\ d.task = IF c.task \in dead THEN 0 ELSE c.task
    BY <2>1, <2>2, ForgetFacts
  <2>4. QED  BY <2>3 DEF c, d
<1>6. queue = [i \in 1 .. n |-> queue[i]]  BY <1>3 DEF Forget
<1>7. ASSUME NEW i \in 1 .. n
      PROVE  queue[i] \in Call /\ queue[i].task = IF v.queue[i].task \in dead THEN 0 ELSE v.queue[i].task
  <2> DEFINE c == v.queue[i]
             d == queue[i]
  <2>1. d = IF c.task \in dead THEN [c EXCEPT !.task = 0] ELSE c  BY <1>3 DEF Forget
  <2>2. c \in Call  BY <1>3
  <2> HIDE DEF c, d
  <2>3. c # NoCall  BY <2>2, CallFacts
  <2>4. /\ d \in Call \cup {NoCall} /\ (d = NoCall <=> c = NoCall)
        /\ d.task = IF c.task \in dead THEN 0 ELSE c.task
    BY <2>1, <2>2, ForgetFacts
  <2>5. d \in Call /\ d.task = IF c.task \in dead THEN 0 ELSE c.task  BY <2>3, <2>4
  <2>6. QED  BY <2>5 DEF c, d
<1>8. w.calls = calls /\ w.queue = queue /\ w.next = v.next  BY DEF SrvRec
<1> HIDE DEF calls, queue
<1>9. calls \in Calls  BY <1>4, <1>5 DEF Calls
<1>10. queue \in Seq(Call) /\ Len(queue) = n
  <2>1. queue \in [1 .. n -> Call]  BY <1>6, <1>7
  <2>2. queue \in Seq(Call)  BY <1>3, <2>1, SeqDef
  <2>3. QED  BY <1>3, <2>1, <2>2, LenProperties
<1>11. w \in SrvRec
  <2>1. w = [calls |-> calls, queue |-> queue, next |-> v.next]  BY DEF SrvRec, calls, queue
  <2>2. v.next \in Ids  BY DEF SrvRec
  <2>3. QED  BY <1>9, <1>10, <2>1, <2>2 DEF SrvRec
<1>12. queue = <<>> <=> v.queue = <<>>  BY <1>1, <1>10, EmptySeq
<1>13. ASSUME NEW t \in TaskIds PROVE Owed(w, t) = IF t \in dead THEN 0 ELSE Owed(v, t)
  <2> DEFINE A == OnWire(calls, t)
             P == {i \in DOMAIN Listeners(queue) : Listeners(queue)[i] = t}
             Q == {i \in DOMAIN Listeners(v.queue) : Listeners(v.queue)[i] = t}
  <2>1. t # 0  BY DhtNumbers
  <2>2. A = IF t \in dead THEN {} ELSE OnWire(v.calls, t)  BY <1>5, <2>1 DEF OnWire
  <2>3. DOMAIN queue = 1 .. n  BY <1>10, LenProperties
  <2>4. P = {i \in 1 .. n : queue[i].task = t} /\ Q = {i \in 1 .. n : v.queue[i].task = t}
    BY <1>3, <2>3 DEF Listeners
  <2>5. P = IF t \in dead THEN {} ELSE Q  BY <1>7, <2>1, <2>4
  <2>6. /\ Owed(w, t) = Cardinality(A) + Cardinality(P)
        /\ Owed(v, t) = Cardinality(OnWire(v.calls, t)) + Cardinality(Q)
    BY <1>8 DEF Owed, Count
  <2> HIDE DEF A, P, Q
  <2>7. QED  BY <2>2, <2>5, <2>6, FS_EmptySet
<1>14. QED  BY <1>5, <1>8, <1>11, <1>12, <1>13

LEMMA BecomeFacts ==
  ASSUME NEW S \in Calm, DhtBecome(S),
         ~S.dht.running => S.src.curr = 0 /\ \A t \in TaskIds : S.task[t].st # "live"
  PROVE  DhtInv'
<1> DEFINE dead == {t \in TaskIds : S.task[t].st = "finished"}
           T == State'
           w == srv'
<1>1. /\ S \in StateRec /\ Balanced(S, Zero) /\ Blank(S) /\ Bounded(S) /\ Orderly(S)
      /\ S.dht \in DhtRec /\ S.src \in SrcRec /\ S.tman \in TmanRec
      /\ S.task \in [TaskIds -> TaskRec] /\ S.srv \in SrvRec
  BY CalmFacts
<1>2. /\ dht' = S.dht /\ src' = S.src
      /\ srv' = [S.srv EXCEPT !.calls = Forget(S.srv.calls, dead), !.queue = Forget(S.srv.queue, dead)]
      /\ task' = [t \in TaskIds |-> IF t \in dead THEN NoTask ELSE S.task[t]]
      /\ tman' = [S.tman EXCEPT !.queue = Only(S.tman.queue, TaskIds \ dead)]
  BY DEF DhtBecome
<1>3. dead \in SUBSET TaskIds  OBVIOUS
<1>4. /\ w \in SrvRec /\ (w.queue = <<>> <=> S.srv.queue = <<>>)
      /\ \A m \in Ids : w.calls[m] = NoCall <=> S.srv.calls[m] = NoCall
      /\ \A t \in TaskIds : Owed(w, t) = IF t \in dead THEN 0 ELSE Owed(S.srv, t)
  <2> DEFINE v == S.srv
  <2>1. w = [calls |-> Forget(v.calls, dead), queue |-> Forget(v.queue, dead), next |-> v.next] /\ v \in SrvRec
    BY <1>1, <1>2 DEF SrvRec
  <2> HIDE DEF v, w, dead
  <2>2. /\ w \in SrvRec /\ (w.queue = <<>> <=> v.queue = <<>>)
        /\ \A m \in Ids : w.calls[m] = NoCall <=> v.calls[m] = NoCall
        /\ \A t \in TaskIds : Owed(w, t) = IF t \in dead THEN 0 ELSE Owed(v, t)
    BY <1>3, <2>1, ForgetServer
  <2>3. QED  BY <2>2 DEF v
<1>5. T.dht = dht' /\ T.srv = w /\ T.task = task' /\ T.tman = tman' /\ T.src = src'  BY DEF State
<1>6. NoTask \in TaskRec /\ NoTask.st = "free" /\ NoTask.reqs = 0  BY DEF NoTask, TaskRec
<1>7. \A t \in TaskIds : task'[t] = IF t \in dead THEN NoTask ELSE S.task[t]  BY <1>2
<1>8. task' \in [TaskIds -> TaskRec]  BY <1>1, <1>2, <1>6
<1>9. tman' \in TmanRec
  <2>1. S.tman.queue \in Seq(TaskIds)  BY <1>1 DEF TmanRec
  <2>2. Only(S.tman.queue, TaskIds \ dead) \in Seq(TaskIds)
    <3> DEFINE q == S.tman.queue
               K == TaskIds \ dead
    <3>1. q \in Seq(TaskIds)  BY <2>1
    <3> HIDE DEF q, K
    <3>2. Only(q, K) \in Seq(TaskIds)  BY <3>1, OnlyType
    <3>3. QED  BY <3>2 DEF q, K
  <2> HIDE DEF dead
  <2>3. QED  BY <1>1, <1>2, <2>2 DEF TmanRec
<1>10. T \in StateRec
  <2>1. T = [dht |-> dht', srv |-> w, task |-> task', tman |-> tman', src |-> src']  BY DEF State
  <2>2. dht' \in DhtRec /\ src' \in SrcRec  BY <1>1, <1>2
  <2> HIDE DEF T, w
  <2>3. QED  BY <1>4, <1>8, <1>9, <2>1, <2>2 DEF StateRec
<1>11. \A t \in dead : S.task[t].st = "finished"  OBVIOUS
<1>12. \A t \in TaskIds : t \notin dead => S.task[t].st # "finished"  OBVIOUS
<1> HIDE DEF T, w, dead
<1>13. Balanced(T, Zero)
  <2> SUFFICES ASSUME NEW t \in TaskIds PROVE T.task[t].reqs + Zero[t] = Owed(T.srv, t)  BY DEF Balanced
  <2>1. CASE t \in dead  BY <1>4, <1>5, <1>6, <1>7, <2>1, ZeroFacts
  <2>2. CASE t \notin dead
    <3>1. S.task[t].reqs + Zero[t] = Owed(S.srv, t)  BY <1>1, <1>12, <2>2 DEF Balanced
    <3>2. QED  BY <1>4, <1>5, <1>7, <2>2, <3>1
  <2>3. QED  BY <2>1, <2>2
<1>14. Blank(T) /\ Bounded(T)
  <2>1. Blank(T)  BY <1>1, <1>5, <1>7 DEF Blank
  <2>2. MaxReqs \in Nat /\ 0 <= MaxReqs  BY DhtNumbers
  <2>3. Bounded(T)  BY <1>1, <1>5, <1>6, <1>7, <2>2 DEF Bounded
  <2>4. QED  BY <2>1, <2>3
<1>15. Orderly(T)
  <2>1. InUse(T) = InUse(S)  BY <1>4, <1>5 DEF InUse
  <2>2. QED  BY <1>1, <1>4, <1>5, <2>1 DEF Orderly
<1>16. T \in Calm
  <2>1. Held(T, -1, NoCall)  BY ZeroFacts DEF Held
  <2>2. QED  BY <1>10, <1>13, <1>14, <1>15, <2>1 DEF Calm, World
<1>17. \A t \in TaskIds : task'[t].st # "finished"  BY <1>6, <1>7, <1>12
<1>18. ~dht'.running => src'.curr = 0 /\ \A t \in TaskIds : task'[t].st = "free"
  <2> SUFFICES ASSUME ~dht'.running
               PROVE  src'.curr = 0 /\ \A t \in TaskIds : task'[t].st = "free"
    OBVIOUS
  <2>1. S.src.curr = 0 /\ \A t \in TaskIds : S.task[t].st # "live"  BY <1>2
  <2>2. \A t \in TaskIds : task'[t].st \in {"free", "live", "finished"}  BY <1>8 DEF TaskRec
  <2>3. \A t \in TaskIds : task'[t].st # "live"  BY <1>6, <1>7, <2>1
  <2>4. QED  BY <1>2, <1>17, <2>1, <2>2, <2>3
<1>19. QED  BY <1>16, <1>17, <1>18 DEF DhtInv, T

LEMMA StateNow == State.dht = dht /\ State.srv = srv /\ State.task = task /\ State.tman = tman /\ State.src = src
BY DEF State

\* The handlers that keep the DHT running, and those that leave all but the source.
LEMMA GoesOn ==
  ASSUME NEW N, Goes(State, N), DhtBecome(N), dht.running
  PROVE  DhtInv'
<1>1. N \in Calm /\ N.dht.running = dht.running  BY StateNow DEF Goes
<1>2. N.dht.running  BY <1>1
<1>3. QED  BY <1>1, <1>2, BecomeFacts

LEMMA StaysQuiet ==
  ASSUME DhtInv, NEW N, Goes(State, N), DhtBecome(N), N.src.curr = src.curr, N.task = task
  PROVE  DhtInv'
<1>1. N \in Calm /\ N.dht.running = dht.running  BY StateNow DEF Goes
<1>2. ~N.dht.running => N.src.curr = 0 /\ \A t \in TaskIds : N.task[t].st # "live"
  BY <1>1 DEF DhtInv
<1>3. QED  BY <1>1, <1>2, BecomeFacts

LEMMA DhtStarts ==
  ASSUME DhtInv, NEW close \in SUBSET Nodes, DhtStart(close)
  PROVE  DhtInv'
<1> DEFINE v == [calls |-> [m \in Ids |-> NoCall], queue |-> <<>>, next |-> 0]
           x == [active |-> 0, queue |-> <<>>]
           d == [dht EXCEPT !.running = TRUE]
           S == [State EXCEPT !.dht.running = TRUE, !.srv = v, !.tman = x]
           R == IF src.started THEN DoRequest(S, close) ELSE S
<1>1. ~dht.running /\ CanCreate(State) /\ CanCreate(R) /\ \E N \in {FindOwnNode(R, close)} : DhtBecome(N)
  BY DEF DhtStart
<1>2. State \in Calm /\ State \in StateRec /\ Blank(State) /\ dht \in DhtRec /\ src \in SrcRec /\ task \in [TaskIds -> TaskRec]
  BY CalmFacts, StateNow DEF DhtInv
<1>3. S = [dht |-> d, srv |-> v, task |-> task, tman |-> x, src |-> src]
  <2> HIDE DEF v, x
  <2>1. S = [State EXCEPT !.dht = d, !.srv = v, !.tman = x]  BY <1>2, StateNow DEF StateRec, DhtRec
  <2> HIDE DEF S, d
  <2>2. QED  BY <1>2, <2>1, StateNow DEF StateRec
<1>4. v \in SrvRec /\ v.queue = <<>> /\ \A m \in Ids : v.calls[m] = NoCall
  <2>1. 0 \in Ids /\ <<>> \in Seq(Call)  BY DhtNumbers, EmptySeq
  <2>2. [m \in Ids |-> NoCall] \in Calls  BY DEF Calls
  <2>3. QED  BY <2>1, <2>2 DEF SrvRec
<1>5. x \in TmanRec  BY EmptySeq DEF TmanRec
<1>6. d \in DhtRec /\ d.running = TRUE  BY <1>2 DEF DhtRec
<1> HIDE DEF S, v, x, d
<1>7. S \in StateRec /\ S.srv = v /\ S.task = task /\ S.dht = d  BY <1>2, <1>3, <1>4, <1>5, <1>6 DEF StateRec
<1>8. \A t \in TaskIds : S.task[t] = NoTask
  BY <1>1, <1>2, <1>7, StateNow DEF DhtInv, Blank
<1>9. S \in Calm  BY <1>4, <1>7, <1>8, Fresh
<1>10. CanCreate(S)  BY <1>1, <1>7, StateNow DEF CanCreate
<1>11. R \in Calm /\ R.dht.running = TRUE  BY <1>6, <1>7, <1>9, <1>10, DoRequestFacts DEF Goes
<1> HIDE DEF R
<1>12. PICK N : N = FindOwnNode(R, close) /\ DhtBecome(N)  BY <1>1
<1>13. Goes(R, N)  BY <1>1, <1>11, <1>12, FindOwnNodeFacts
<1>14. N \in Calm /\ N.dht.running = TRUE  BY <1>11, <1>13 DEF Goes
<1>15. QED  BY <1>12, <1>14, BecomeFacts

LEMMA DhtStops ==
  ASSUME DhtInv, DhtStop
  PROVE  DhtInv'
<1> DEFINE v == [calls |-> [m \in Ids |-> NoCall], queue |-> <<>>, next |-> 0]
           x == [active |-> 0, queue |-> <<>>]
           d == [dht EXCEPT !.running = FALSE]
           A == [State EXCEPT !.dht.running = FALSE]
           B == SrcStop(A)
           S == [B EXCEPT !.src.curr = 0]
           e == [S.dht EXCEPT !.own = IF S.dht.own = 0 THEN 0 ELSE -1]
           N == [S EXCEPT !.task = [t \in TaskIds |-> NoTask], !.tman = x, !.srv = v,
                          !.dht.own = IF S.dht.own = 0 THEN 0 ELSE -1]
<1>1. DhtBecome(N)  BY DEF DhtStop
<1>2. State \in Calm /\ State \in StateRec /\ dht \in DhtRec /\ State.dht = dht  BY CalmFacts, StateNow DEF DhtInv
<1>3. d \in DhtRec /\ d.running = FALSE  BY <1>2 DEF DhtRec
<1>4. A = [State EXCEPT !.dht = d]  BY <1>2 DEF StateRec, DhtRec, State
<1> HIDE DEF A, d
<1>5. A \in Calm /\ A.dht = d  BY <1>2, <1>3, <1>4, NewDht
<1>6. B \in Calm /\ B.dht.running = FALSE  BY <1>3, <1>5, SrcStopFacts DEF Goes
<1> HIDE DEF B
<1>7. B \in StateRec /\ B.src \in SrcRec  BY <1>6, CalmFacts
<1> DEFINE y == [B.src EXCEPT !.curr = 0]
<1>8. y \in SrcRec /\ y.curr = 0  BY <1>7 DEF SrcRec
<1>9. S = [B EXCEPT !.src = y]  BY <1>7 DEF StateRec, SrcRec
<1> HIDE DEF S, y
<1>10. S \in Calm /\ S.dht = B.dht /\ S.src = y  BY <1>6, <1>8, <1>9, NewSrc
<1>11. S \in StateRec /\ S.dht \in DhtRec  BY <1>10, CalmFacts
<1>12. e \in DhtRec /\ e.running = FALSE
  <2>1. S.dht.running = FALSE  BY <1>6, <1>10
  <2> DEFINE z == IF S.dht.own = 0 THEN 0 ELSE -1
  <2>2. z \in TaskIds \cup {0, -1}  OBVIOUS
  <2> HIDE DEF z
  <2>3. QED  BY <1>11, <2>1, <2>2 DEF DhtRec
<1> DEFINE none == [t \in TaskIds |-> NoTask]
<1>13. N = [dht |-> e, srv |-> v, task |-> none, tman |-> x, src |-> S.src]
  <2> HIDE DEF v, x, none
  <2>1. S.dht \in [running : BOOLEAN, own : TaskIds \cup {0, -1}]  BY <1>11 DEF DhtRec
  <2>2. N = [S EXCEPT !.task = none, !.tman = x, !.srv = v, !.dht = e]  BY <1>11, <2>1 DEF StateRec, none
  <2> HIDE DEF e, N
  <2>3. QED  BY <1>11, <2>2 DEF StateRec
<1>14. v \in SrvRec /\ v.queue = <<>> /\ \A m \in Ids : v.calls[m] = NoCall
  <2>1. 0 \in Ids /\ <<>> \in Seq(Call)  BY DhtNumbers, EmptySeq
  <2>2. [m \in Ids |-> NoCall] \in Calls  BY DEF Calls
  <2>3. QED  BY <2>1, <2>2 DEF SrvRec
<1>15. x \in TmanRec  BY EmptySeq DEF TmanRec
<1>16. none \in [TaskIds -> TaskRec] /\ \A t \in TaskIds : none[t] = NoTask  BY DEF NoTask, TaskRec
<1> HIDE DEF N, v, x, e, none
<1>17. /\ N \in StateRec /\ N.srv = v /\ N.task = none /\ N.dht = e /\ N.src = y
  BY <1>8, <1>10, <1>12, <1>13, <1>14, <1>15, <1>16 DEF StateRec
<1>18. N \in Calm  BY <1>14, <1>16, <1>17, Fresh
<1>19. N.src.curr = 0 /\ \A t \in TaskIds : N.task[t].st # "live"  BY <1>8, <1>16, <1>17 DEF NoTask
<1>20. QED  BY <1>1, <1>18, <1>19, BecomeFacts

\* The handlers of the DHTPeerSource.
LEMMA SourceSteps ==
  ASSUME DhtInv, NEW close \in SUBSET Nodes
  PROVE  /\ SourceStart(close) => DhtInv'
         /\ SourceTimer(close) => DhtInv'
         /\ ManualUpdate(close) => DhtInv'
         /\ SourceStop => DhtInv'
<1>1. /\ State \in Calm /\ State \in StateRec /\ src \in SrcRec
  BY CalmFacts, StateNow DEF DhtInv
<1>2. ASSUME NEW y \in SrcRec, y.curr = src.curr, NEW S, S = [State EXCEPT !.src = y], CanCreate(State)
      PROVE  /\ Goes(State, S) /\ S.src.curr = src.curr /\ S.task = task
             /\ Goes(State, DoRequest(S, close))
  <2>1. S \in Calm /\ S.task = State.task /\ S.dht = State.dht /\ S.src = y  BY <1>1, <1>2, NewSrc
  <2>2. CanCreate(S)  BY <1>2, <2>1 DEF CanCreate
  <2>3. Goes(S, DoRequest(S, close))  BY <2>1, <2>2, DoRequestFacts
  <2>4. QED  BY <1>2, <2>1, <2>3, StateNow DEF Goes
<1>3. ASSUME SourceStart(close) PROVE DhtInv'
  <2> DEFINE y == [src EXCEPT !.started = TRUE]
             S == [State EXCEPT !.src.started = TRUE]
  <2>1. CanCreate(State) /\ \E N \in {IF dht.running THEN DoRequest(S, close) ELSE S} : DhtBecome(N)
    BY <1>3 DEF SourceStart
  <2>2. y \in SrcRec /\ y.curr = src.curr  BY <1>1 DEF SrcRec
  <2>3. S = [State EXCEPT !.src = y]  BY <1>1, StateNow DEF StateRec, SrcRec
  <2> HIDE DEF S, y
  <2>4. /\ Goes(State, S) /\ S.src.curr = src.curr /\ S.task = task /\ Goes(State, DoRequest(S, close))
    BY <1>2, <2>1, <2>2, <2>3
  <2>5. PICK N : N = (IF dht.running THEN DoRequest(S, close) ELSE S) /\ DhtBecome(N)  BY <2>1
  <2>6. CASE dht.running  BY <2>4, <2>5, <2>6, GoesOn
  <2>7. CASE ~(dht.running)  BY <2>4, <2>5, <2>7, StaysQuiet
  <2>8. QED  BY <2>6, <2>7
<1>4. ASSUME SourceTimer(close) PROVE DhtInv'
  <2> DEFINE y == [src EXCEPT !.timer = FALSE]
             S == [State EXCEPT !.src.timer = FALSE]
  <2>1. CanCreate(State) /\ \E N \in {IF dht.running /\ src.started THEN DoRequest(S, close) ELSE S} : DhtBecome(N)
    BY <1>4 DEF SourceTimer
  <2>2. y \in SrcRec /\ y.curr = src.curr  BY <1>1 DEF SrcRec
  <2>3. S = [State EXCEPT !.src = y]  BY <1>1, StateNow DEF StateRec, SrcRec
  <2> HIDE DEF S, y
  <2>4. /\ Goes(State, S) /\ S.src.curr = src.curr /\ S.task = task /\ Goes(State, DoRequest(S, close))
    BY <1>2, <2>1, <2>2, <2>3
  <2>5. PICK N : N = (IF dht.running /\ src.started THEN DoRequest(S, close) ELSE S) /\ DhtBecome(N)  BY <2>1
  <2>6. CASE dht.running /\ src.started  BY <2>4, <2>5, <2>6, GoesOn
  <2>7. CASE ~(dht.running /\ src.started)  BY <2>4, <2>5, <2>7, StaysQuiet
  <2>8. QED  BY <2>6, <2>7
<1>5. ASSUME ManualUpdate(close) PROVE DhtInv'
  <2>1. dht.running /\ CanCreate(State) /\ \E N \in {DoRequest(State, close)} : DhtBecome(N)
    BY <1>5 DEF ManualUpdate
  <2>2. PICK N : N = DoRequest(State, close) /\ DhtBecome(N)  BY <2>1
  <2>3. Goes(State, N)  BY <1>1, <2>1, <2>2, DoRequestFacts
  <2>4. QED  BY <2>1, <2>2, <2>3, GoesOn
<1>6. ASSUME SourceStop PROVE DhtInv'
  <2>1. \E N \in {SrcStop(State)} : DhtBecome(N)  BY <1>6 DEF SourceStop
  <2>2. PICK N : N = SrcStop(State) /\ DhtBecome(N)  BY <2>1
  <2>3. Goes(State, N) /\ (State.src.curr = 0 => N.src.curr = 0 /\ N.task = State.task)
    BY <1>1, <2>2, SrcStopFacts
  <2>4. CASE dht.running  BY <2>2, <2>3, <2>4, GoesOn
  <2>5. CASE ~dht.running
    <3>1. src.curr = 0  BY <2>5 DEF DhtInv
    <3>2. QED  BY <2>2, <2>3, <3>1, StaysQuiet, StateNow
  <2>6. QED  BY <2>4, <2>5
<1>7. QED  BY <1>3, <1>4, <1>5, <1>6

\* The handlers of the DHT that make tasks, and a ping.
LEMMA NodeSteps ==
  ASSUME DhtInv, NEW close \in SUBSET Nodes
  PROVE  /\ StartOwnLookup(close) => DhtInv'
         /\ RefreshBucket(close) => DhtInv'
         /\ Ping => DhtInv'
<1>1. State \in Calm  BY DEF DhtInv
<1>2. ASSUME StartOwnLookup(close) PROVE DhtInv'
  <2>1. dht.running /\ CanCreate(State) /\ \E N \in {FindOwnNode(State, close)} : DhtBecome(N)
    BY <1>2 DEF StartOwnLookup
  <2>2. PICK N : N = FindOwnNode(State, close) /\ DhtBecome(N)  BY <2>1
  <2>3. Goes(State, N)  BY <1>1, <2>1, <2>2, FindOwnNodeFacts
  <2>4. QED  BY <2>1, <2>2, <2>3, GoesOn
<1>3. ASSUME RefreshBucket(close) PROVE DhtInv'
  <2>1. dht.running /\ CanCreate(State) /\ \E N \in {NewTask(State, "lookup", close).S} : DhtBecome(N)
    BY <1>3 DEF RefreshBucket
  <2>2. PICK N : N = NewTask(State, "lookup", close).S /\ DhtBecome(N)  BY <2>1
  <2>3. Goes(State, N)  BY <1>1, <2>1, <2>2, NewTaskFacts
  <2>4. QED  BY <2>1, <2>2, <2>3, GoesOn
<1>4. ASSUME Ping PROVE DhtInv'
  <2> DEFINE c == [task |-> 0, method |-> "ping"]
             S == State
             T == DoCall(S, c)
  <2>1. dht.running /\ \E N \in {DoCall(State, c)} : DhtBecome(N)  BY <1>4 DEF Ping
  <2>2. c \in Call /\ \A t \in TaskIds : c.task # t  BY DhtNumbers DEF Call, Methods
  <2>3. S \in Calm /\ S \in StateRec /\ Balanced(S, Zero) /\ Blank(S) /\ Bounded(S) /\ Orderly(S) /\ S.srv \in SrvRec
    BY <1>1, CalmFacts
  <2> HIDE DEF c, S
  <2>4. /\ T \in StateRec /\ ServerOnly(S, T) /\ Orderly(T)
        /\ \A t \in TaskIds : Owed(T.srv, t) = Owed(S.srv, t) + (IF c.task = t THEN 1 ELSE 0)
    BY <2>2, <2>3, DoCallFacts
  <2>5. \A t \in TaskIds : Owed(T.srv, t) = Owed(S.srv, t)
    <3>1. \A t \in TaskIds : Owed(S.srv, t) \in Nat  BY <2>3, OwedType
    <3>2. QED  BY <2>2, <2>4, <3>1
  <2> HIDE DEF T
  <2>6. Balanced(T, Zero) /\ Blank(T) /\ Bounded(T)
    BY <2>3, <2>4, <2>5 DEF Balanced, Blank, Bounded, ServerOnly
  <2>7. Held(T, -1, NoCall)  BY ZeroFacts DEF Held
  <2>8. T \in Calm /\ T.dht = S.dht  BY <2>4, <2>6, <2>7 DEF Calm, World, ServerOnly
  <2>9. PICK N : N = T /\ DhtBecome(N)  BY <2>1 DEF T, S
  <2>10. Goes(State, N)  BY <2>8, <2>9 DEF Goes, S
  <2>11. QED  BY <2>1, <2>9, <2>10, GoesOn
<1>5. QED  BY <1>2, <1>3, <1>4

\* The listener of a call on the wire: nobody, or a task that runs.
LEMMA ListenerLives ==
  ASSUME DhtInv, NEW m \in Ids, srv.calls[m] # NoCall
  PROVE  /\ State \in World(Zero, m, srv.calls[m]) /\ srv.calls[m].task \in TaskIds \cup {0}
         /\ Live(State, srv.calls[m].task) <=> srv.calls[m].task \in TaskIds
         /\ srv.calls[m].task \in TaskIds =>
               task[srv.calls[m].task].st = "live" /\ task[srv.calls[m].task].reqs > 0
<1> DEFINE c == srv.calls[m]
           t == c.task
           S == State
<1>1. /\ S \in StateRec /\ Balanced(S, Zero) /\ Blank(S) /\ Bounded(S) /\ Orderly(S)
      /\ S.task \in [TaskIds -> TaskRec]
  BY CalmFacts DEF DhtInv
<1>2. S.srv = srv /\ S.task = task  BY StateNow
<1>3. c \in Call /\ t \in TaskIds \cup {0}  BY <1>1, <1>2, StateFacts, CallFacts
<1>4. S \in World(Zero, m, c)  BY <1>1, <1>2 DEF World, Held
<1>5. ASSUME t \in TaskIds PROVE task[t].st = "live" /\ task[t].reqs > 0
  <2>1. Owed(S.srv, t) >= 1  BY <1>1, <1>2, OwedOnWire
  <2>2. task[t].st # "finished" /\ task[t] \in TaskRec  BY <1>1, <1>2, <1>5 DEF DhtInv
  <2>3. task[t].reqs \in Nat /\ task[t].st \in {"free", "live", "finished"}  BY <2>2 DEF TaskRec
  <2>4. task[t].reqs + Zero[t] = Owed(S.srv, t)  BY <1>1, <1>2, <1>5, <2>2 DEF Balanced
  <2>5. task[t].reqs > 0
    <3> DEFINE n == task[t].reqs
    <3>1. n \in Nat /\ n + 0 >= 1  BY <1>5, <2>1, <2>3, <2>4, ZeroFacts
    <3> HIDE DEF n
    <3>2. n > 0  BY <3>1
    <3>3. QED  BY <3>2 DEF n
  <2>6. task[t].st # "free"
    <3>1. NoTask.reqs = 0  BY DEF NoTask
    <3>2. QED  BY <1>1, <1>2, <1>5, <2>5, <3>1 DEF Blank
  <2>7. QED  BY <2>3, <2>2, <2>5, <2>6
<1>6. Live(S, t) <=> t \in TaskIds
  <2>1. 0 \notin TaskIds  BY DhtNumbers
  <2>2. QED  BY <1>2, <1>3, <1>5, <2>1 DEF Live
<1>7. QED  BY <1>3, <1>4, <1>5, <1>6

\* One unit off at task t.
OffBy(t, d) == [u \in TaskIds |-> IF u = t THEN d ELSE 0]

LEMMA OffFacts ==
  ASSUME NEW t, NEW d \in Int
  PROVE  OffBy(t, d) \in [TaskIds -> Int] /\ \A u \in TaskIds : OffBy(t, d)[u] = IF u = t THEN d ELSE 0
BY DEF OffBy

\* RPCServer::Private::dataReceived: the listener counts the call while it is
\* still in the table, then the call leaves it.
LEMMA ResponseStep ==
  ASSUME DhtInv, NEW m \in Ids, NEW from \in Nodes, NEW nodes \in SUBSET Nodes, Response(m, from, nodes)
  PROVE  DhtInv'
<1> DEFINE c == srv.calls[m]
           t == c.task
           k == CallFinished(task[t], BuildResponse(State, m), from, nodes)
           A == [State EXCEPT !.task[t] = CallFinished(State.task[t], BuildResponse(State, m), from, nodes)]
           S == IF Live(State, t) THEN CallEnded(A, t) ELSE State
           E == DoQueuedCalls(EraseCall(S, m))
           one == OffBy(t, 1)
<1>1. dht.running /\ c # NoCall /\ \E N \in {E} : DhtBecome(N)  BY DEF Response
<1>2. /\ State \in World(Zero, m, c) /\ t \in TaskIds \cup {0} /\ (Live(State, t) <=> t \in TaskIds)
      /\ (t \in TaskIds => task[t].st = "live" /\ task[t].reqs > 0)
  BY <1>1, ListenerLives
<1>3. Zero \in [TaskIds -> Int] /\ (\A u \in TaskIds : Zero[u] = 0) /\ 0 \notin TaskIds  BY ZeroFacts, DhtNumbers
<1>4. one \in [TaskIds -> Int] /\ \A u \in TaskIds : one[u] = IF u = t THEN 1 ELSE 0  BY OffFacts
<1>5. S \in World(one, m, c) /\ S.dht.running = dht.running
  <2>1. CASE t \in TaskIds
    <3> DEFINE f == [task EXCEPT ![t] = k]
               Q == State
    <3>1. /\ Q \in StateRec /\ Balanced(Q, Zero) /\ task \in [TaskIds -> TaskRec] /\ task[t] \in TaskRec
          /\ task[t].reqs <= MaxReqs
      BY <1>2, <1>3, <2>1, WorldFacts, StateNow
    <3>2. k \in TaskRec /\ k.st = "live" /\ k.reqs = task[t].reqs
      <4> DEFINE z == task[t]
                 w == BuildResponse(State, m)
      <4>1. z \in TaskRec /\ z.st = "live"  BY <1>2, <2>1, <3>1
      <4> HIDE DEF z, w
      <4>2. /\ CallFinished(z, w, from, nodes) \in TaskRec /\ CallFinished(z, w, from, nodes).st = "live"
            /\ CallFinished(z, w, from, nodes).reqs = z.reqs
        BY <4>1, CallFinishedFacts
      <4>3. QED  BY <4>2 DEF z, w
    <3>3. A = [Q EXCEPT !.task = f]  BY <3>1, StateNow DEF StateRec
    <3>4. f = [Q.task EXCEPT ![t] = k]  BY StateNow
    <3>5. task[t].reqs + Zero[t] = Owed(Q.srv, t)
      <4>1. Q.task[t].st # "finished" /\ Q.task = task  BY <1>2, <2>1, StateNow
      <4>2. QED  BY <2>1, <3>1, <4>1 DEF Balanced
    <3>6. Q \in World(Zero, m, c) /\ Q.dht = dht  BY <1>2, StateNow
    <3> HIDE DEF k, f, A, Q, one, c, t
    <3>7. k.st # "free" /\ k.reqs <= MaxReqs /\ (k.st = "finished" \/ k.reqs + Zero[t] = Owed(Q.srv, t))
      BY <3>1, <3>2, <3>5
    <3>8. A \in World(Zero, m, c) /\ A.dht = dht /\ A.task[t] = k
      <4>1. /\ f[t] = k
            /\ \A U : U = [Q EXCEPT !.task = f] =>
                       /\ U \in World(Zero, m, c) /\ U.tman = Q.tman /\ U.dht = Q.dht
                       /\ U.src = Q.src /\ U.srv = Q.srv /\ U.task = f
        BY <1>3, <2>1, <3>2, <3>4, <3>6, <3>7, TaskBecomes
      <4>2. QED  BY <3>3, <3>6, <4>1
    <3>9. one[t] = Zero[t] + 1 /\ \A u \in TaskIds : u # t => one[u] = Zero[u]  BY <1>3, <1>4, <2>1
    <3>10. A.task[t].st = "live" /\ A.task[t].reqs > 0  BY <1>2, <2>1, <3>2, <3>8
    <3>11. CallEnded(A, t) \in World(one, m, c) /\ Moves(A, CallEnded(A, t), t)
      BY <1>3, <1>4, <2>1, <3>8, <3>9, <3>10, CallEndedFacts
    <3>12. S = CallEnded(A, t)  BY <1>2, <2>1
    <3>13. QED  BY <3>8, <3>11, <3>12 DEF Moves
  <2>2. CASE t \notin TaskIds
    <3>1. one = Zero  BY <2>2 DEF OffBy, Zero
    <3>2. S = State  BY <1>2, <2>2
    <3>3. QED  BY <1>2, <3>1, <3>2, StateNow
  <2>3. QED  BY <2>1, <2>2
<1>6. \A u \in TaskIds : Zero[u] = one[u] - (IF c.task = u THEN 1 ELSE 0)
  <2> HIDE DEF one
  <2>1. QED  BY <1>3, <1>4
<1> HIDE DEF S, one, c, t
<1>7. E \in World(Zero, -1, NoCall) /\ ServerOnly(S, E)  BY <1>3, <1>4, <1>5, <1>6, CallLeaves
<1> HIDE DEF E
<1>8. PICK N : N = E /\ DhtBecome(N)  BY <1>1
<1>9. Goes(State, N)  BY <1>5, <1>7, <1>8, StateNow DEF Goes, Calm, ServerOnly
<1>10. QED  BY <1>1, <1>8, <1>9, GoesOn

\* RPCCall::onTimeout: the server first, then the listener.
LEMMA TimeoutStep ==
  ASSUME DhtInv, NEW m \in Ids, Timeout(m)
  PROVE  DhtInv'
<1> DEFINE c == srv.calls[m]
           t == c.task
           Q == State
           S == DoQueuedCalls(EraseCall(Q, m))
           N == IF Live(S, t) THEN CallEnded(S, t) ELSE S
           less == OffBy(t, -1)
<1>1. dht.running /\ c # NoCall /\ \E M \in {N} : DhtBecome(M)  BY DEF Timeout
<1>2. /\ Q \in World(Zero, m, c) /\ t \in TaskIds \cup {0}
      /\ (t \in TaskIds => task[t].st = "live" /\ task[t].reqs > 0)
  BY <1>1, ListenerLives
<1>3. Zero \in [TaskIds -> Int] /\ (\A u \in TaskIds : Zero[u] = 0) /\ 0 \notin TaskIds  BY ZeroFacts, DhtNumbers
<1>4. less \in [TaskIds -> Int] /\ \A u \in TaskIds : less[u] = IF u = t THEN -1 ELSE 0
  <2>1. -1 \in Int  OBVIOUS
  <2> HIDE DEF t
  <2>2. QED  BY <2>1, OffFacts
<1>5. Q.task = task /\ Q.dht = dht  BY StateNow
<1>6. t \notin TaskIds => less = Zero  BY DEF OffBy, Zero
<1>7. t = c.task  OBVIOUS
<1> HIDE DEF c, t, Q, less
<1>8. S \in World(less, -1, NoCall) /\ ServerOnly(Q, S)
  <2>1. \A u \in TaskIds : less[u] = Zero[u] - (IF c.task = u THEN 1 ELSE 0)  BY <1>3, <1>4, <1>7
  <2>2. QED  BY <1>2, <1>3, <1>4, <2>1, CallLeaves
<1>9. S.task = task /\ S.dht = dht  BY <1>5, <1>8 DEF ServerOnly
<1> HIDE DEF S
<1>10. N \in Calm /\ N.dht.running = dht.running
  <2>1. CASE t \in TaskIds
    <3>1. S.task[t].st = "live" /\ S.task[t].reqs > 0  BY <1>2, <1>9, <2>1
    <3>2. Zero[t] = less[t] + 1 /\ \A u \in TaskIds : u # t => Zero[u] = less[u]  BY <1>3, <1>4, <2>1
    <3>3. CallEnded(S, t) \in World(Zero, -1, NoCall) /\ Moves(S, CallEnded(S, t), t)
      BY <1>3, <1>4, <1>8, <2>1, <3>1, <3>2, CallEndedFacts
    <3>4. N = CallEnded(S, t)  BY <1>3, <2>1, <3>1 DEF Live
    <3>5. QED  BY <1>9, <3>3, <3>4 DEF Moves, Calm
  <2>2. CASE t \notin TaskIds
    <3>1. N = S  BY <1>2, <2>2 DEF Live
    <3>2. QED  BY <1>6, <1>8, <1>9, <2>2, <3>1 DEF Calm
  <2>3. QED  BY <2>1, <2>2
<1> HIDE DEF N
<1>11. PICK M : M = N /\ DhtBecome(M)  BY <1>1
<1>12. Goes(State, M)  BY <1>10, <1>11, StateNow DEF Goes
<1>13. QED  BY <1>1, <1>11, <1>12, GoesOn

\* Task::addDHTNode.
LEMMA AddNodeStep ==
  ASSUME DhtInv, NEW n \in Nodes, AddDHTNode(n)
  PROVE  DhtInv'
<1> DEFINE t == src.curr
           k == [task[t] EXCEPT !.todo = task[t].todo \cup {n}]
           f == [task EXCEPT ![t] = k]
           Q == State
           T == State'
<1>1. /\ Live(State, t) /\ task' = [task EXCEPT ![t].todo = task[t].todo \cup {n}]
      /\ dht' = dht /\ srv' = srv /\ tman' = tman /\ src' = src
  BY DEF AddDHTNode
<1>2. /\ Q \in World(Zero, -1, NoCall) /\ Q \in StateRec /\ Balanced(Q, Zero) /\ Bounded(Q) /\ Q.task = task
      /\ task \in [TaskIds -> TaskRec] /\ src \in SrcRec /\ Q.srv = srv /\ Q.dht = dht /\ Q.src = src /\ Q.tman = tman
  BY CalmFacts, StateNow DEF DhtInv
<1>3. t \in TaskIds /\ task[t].st = "live"
  <2>1. t \in TaskIds \cup {0}  BY <1>2 DEF SrcRec
  <2>2. QED  BY <1>1, <2>1, StateNow DEF Live
<1>4. task[t] \in TaskRec  BY <1>2, <1>3
<1>5. k \in TaskRec /\ k.st = "live" /\ k.reqs = task[t].reqs
  <2>1. task[t].todo \cup {n} \in SUBSET Nodes  BY <1>4 DEF TaskRec
  <2>2. QED  BY <1>3, <1>4, <2>1 DEF TaskRec
<1>6. task' = f  BY <1>1, <1>2, <1>3
<1>7. T = [dht |-> dht', srv |-> srv', task |-> task', tman |-> tman', src |-> src']  BY DEF State
<1>8. f = [Q.task EXCEPT ![t] = k]  BY <1>2
<1> HIDE DEF t, k, f, Q
<1>9. T = [Q EXCEPT !.task = f]  BY <1>1, <1>2, <1>6, <1>7 DEF StateRec
<1> HIDE DEF T
<1>10. /\ f[t] = k /\ \A u \in TaskIds : u # t => f[u] = Q.task[u]
       /\ T \in World(Zero, -1, NoCall)
  <2>1. k.st # "free" /\ k.reqs <= MaxReqs  BY <1>2, <1>3, <1>5 DEF Bounded
  <2>2. k.st = "finished" \/ k.reqs + Zero[t] = Owed(Q.srv, t)  BY <1>2, <1>3, <1>5 DEF Balanced
  <2>3. Zero \in [TaskIds -> Int]  BY ZeroFacts
  <2>4. /\ f[t] = k /\ \A u \in TaskIds : u # t => f[u] = Q.task[u]
        /\ \A U : U = [Q EXCEPT !.task = f] => U \in World(Zero, -1, NoCall)
    <3>1. Q \in World(Zero, -1, NoCall)  BY <1>2
    <3>2. QED  BY <1>3, <1>5, <1>8, <2>1, <2>2, <2>3, <3>1, TaskBecomes
  <2>5. QED  BY <1>9, <2>4
<1>11. \A u \in TaskIds : task'[u].st = task[u].st  BY <1>2, <1>3, <1>5, <1>6, <1>10
<1>12. T \in Calm  BY <1>10 DEF Calm
<1>13. QED  BY <1>1, <1>11, <1>12 DEF DhtInv, T

LEMMA DhtStep == DhtInv /\ [DhtNext]_dhtVars => DhtInv'
<1> SUFFICES ASSUME DhtInv, [DhtNext]_dhtVars PROVE DhtInv'  OBVIOUS
<1>1. \A close \in CloseSets : close \in SUBSET Nodes  BY DEF CloseSets
<1>2. ASSUME NEW close \in CloseSets, DhtStart(close) PROVE DhtInv'  BY <1>1, <1>2, DhtStarts
<1>3. ASSUME NEW close \in CloseSets, StartOwnLookup(close) PROVE DhtInv'  BY <1>1, <1>3, NodeSteps
<1>4. ASSUME NEW close \in CloseSets, RefreshBucket(close) PROVE DhtInv'  BY <1>1, <1>4, NodeSteps
<1>5. ASSUME NEW close \in CloseSets, SourceStart(close) PROVE DhtInv'  BY <1>1, <1>5, SourceSteps
<1>6. ASSUME NEW close \in CloseSets, SourceTimer(close) PROVE DhtInv'  BY <1>1, <1>6, SourceSteps
<1>7. ASSUME NEW close \in CloseSets, ManualUpdate(close) PROVE DhtInv'  BY <1>1, <1>7, SourceSteps
<1>8. ASSUME DhtStop PROVE DhtInv'  BY <1>8, DhtStops
<1>9. {} \in SUBSET Nodes  OBVIOUS
<1>10. ASSUME SourceStop PROVE DhtInv'  BY <1>9, <1>10, SourceSteps
<1>11. ASSUME Ping PROVE DhtInv'  BY <1>9, <1>11, NodeSteps
<1>12. ASSUME NEW n \in Nodes, AddDHTNode(n) PROVE DhtInv'  BY <1>12, AddNodeStep
<1>13. ASSUME NEW m \in Ids, Timeout(m) PROVE DhtInv'  BY <1>13, TimeoutStep
<1>14. ASSUME NEW m \in Ids, NEW from \in Nodes, NEW nodes \in SUBSET Nodes, Response(m, from, nodes)
       PROVE  DhtInv'
  BY <1>14, ResponseStep
<1>15. CASE UNCHANGED dhtVars
  BY <1>15 DEF dhtVars, DhtInv, State
<1>16. QED
  BY <1>2, <1>3, <1>4, <1>5, <1>6, <1>7, <1>8, <1>10, <1>11, <1>12, <1>13, <1>14, <1>15 DEF DhtNext

LEMMA DhtStartsCalm == DhtInit => DhtInv
<1> SUFFICES ASSUME DhtInit PROVE DhtInv  OBVIOUS
<1>1. /\ dht = [running |-> FALSE, own |-> 0]
      /\ srv = [calls |-> [m \in Ids |-> NoCall], queue |-> <<>>, next |-> 0]
      /\ task = [t \in TaskIds |-> NoTask]
      /\ tman = [active |-> 0, queue |-> <<>>]
      /\ src = [started |-> FALSE, curr |-> 0, timer |-> FALSE]
  BY DEF DhtInit
<1>2. dht \in DhtRec /\ src \in SrcRec  BY <1>1 DEF DhtRec, SrcRec
<1>3. tman \in TmanRec  BY <1>1, EmptySeq DEF TmanRec
<1>4. srv \in SrvRec /\ srv.queue = <<>> /\ \A m \in Ids : srv.calls[m] = NoCall
  <2>1. 0 \in Ids /\ <<>> \in Seq(Call)  BY DhtNumbers, EmptySeq
  <2>2. [m \in Ids |-> NoCall] \in Calls  BY DEF Calls
  <2>3. QED  BY <1>1, <2>1, <2>2 DEF SrvRec
<1>5. task \in [TaskIds -> TaskRec] /\ \A t \in TaskIds : task[t] = NoTask  BY <1>1 DEF NoTask, TaskRec
<1>6. State \in StateRec  BY <1>2, <1>3, <1>4, <1>5 DEF State, StateRec
<1>7. State \in Calm  BY <1>4, <1>5, <1>6, StateNow, Fresh
<1>8. QED  BY <1>1, <1>5, <1>7 DEF DhtInv, NoTask

LEMMA DhtInvExact == DhtInv => OutstandingExact
<1> SUFFICES ASSUME DhtInv PROVE OutstandingExact  OBVIOUS
<1>1. /\ State \in StateRec /\ Balanced(State, Zero) /\ Bounded(State) /\ Orderly(State)
      /\ dht \in DhtRec /\ src \in SrcRec /\ tman \in TmanRec /\ task \in [TaskIds -> TaskRec] /\ srv \in SrvRec
  BY CalmFacts, StateNow DEF DhtInv
<1>2. srv.calls \in [Ids -> Call \cup {NoCall}] /\ srv.queue \in Seq(Call) /\ srv.next \in Ids
  BY <1>1 DEF SrvRec, Calls
<1>3. tman.active \in Nat /\ tman.queue \in Seq(TaskIds)  BY <1>1 DEF TmanRec
<1>4. ASSUME NEW t \in TaskIds PROVE task[t] \in Task
  <2>1. task[t] \in TaskRec /\ task[t].st # "finished" /\ task[t].reqs <= MaxReqs
    BY <1>1, StateNow DEF DhtInv, Bounded
  <2>2. task[t].st \in {"free", "live"} /\ task[t].reqs \in 0 .. MaxReqs  BY <2>1, DhtNumbers DEF TaskRec
  <2>3. QED  BY <2>1, <2>2 DEF TaskRec, Task
<1>5. task \in [TaskIds -> Task]  BY <1>1, <1>4
<1>6. DhtTypeOK  BY <1>1, <1>2, <1>3, <1>5 DEF DhtTypeOK, DhtRec, SrcRec
<1>7. ASSUME NEW t \in TaskIds, task[t].st = "live" PROVE task[t].reqs = Listened(t)
  <2>1. task[t].reqs + Zero[t] = Owed(srv, t) /\ task[t].reqs \in Nat
    BY <1>1, <1>4, <1>7, StateNow DEF Balanced, TaskRec
  <2>2. {i \in DOMAIN Listeners(srv.queue) : Listeners(srv.queue)[i] = t} = {i \in DOMAIN srv.queue : srv.queue[i].task = t}
    BY DEF Listeners
  <2>3. Owed(srv, t) = Listened(t)  BY <2>2 DEF Owed, Count, OnWire, Listened
  <2>4. QED  BY <2>1, <2>3, ZeroFacts
<1>8. srv.queue # <<>> => InUse(State) = Ids  BY <1>1, StateNow DEF Orderly
<1>9. QED  BY <1>6, <1>7, <1>8 DEF OutstandingExact

\* Between two handlers of the event loop the tasks and the server agree, no
\* finished task is left, and a stopped DHT has no task.
THEOREM DhtInvariant == DhtSpec => []DhtInv
<1>1. DhtInit => DhtInv  BY DhtStartsCalm
<1>2. DhtInv /\ [DhtNext]_dhtVars => DhtInv'  BY DhtStep
<1>3. QED  BY <1>1, <1>2, PTL DEF DhtSpec

\* outstanding_reqs counts the calls of a task, and a call waits only while
\* every transaction id is in use.
THEOREM OutstandingStaysExact == DhtSpec => []OutstandingExact
<1>1. DhtInv => OutstandingExact  BY DhtInvExact
<1>2. QED  BY <1>1, DhtInvariant, PTL
=============================================================================
