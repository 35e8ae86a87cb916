------------------------------ MODULE DhtTable ------------------------------
(***************************************************************************)
(* The routing table of the DHT (KBucketTable, KBucket, KBucketEntry) of   *)
(* one address family, with what feeds it: Node::received for every        *)
(* message, Node::onTimeout for every call that times out, the pings a     *)
(* full bucket sends to its questionable entries, and the save and load    *)
(* around a stop of the DHT.  A node is its key: address and id agree.     *)
(***************************************************************************)
EXTENDS Integers, Sequences, FiniteSets, SequencesExt, Lists

CONSTANTS
  MaxKey,     \* keys are 0 .. MaxKey (160 bits)
  OurKey,     \* our own id
  Peers,      \* keys of the nodes that talk to us
  BucketK,    \* entries of a bucket (K, 8)
  Old,        \* an entry not heard from for longer is questionable (15 min);
              \* a bucket not changed for longer is refreshed (15 min)
  BadLimit,   \* failed queries or pings without answer an entry survives (2)
  MaxClock    \* bound on the clock

ASSUME DhtTableAssumption ==
  /\ {MaxKey, BucketK} \subseteq Nat \ {0} /\ OurKey \in 0 .. MaxKey
  /\ Peers \subseteq (0 .. MaxKey) \ {OurKey} /\ {Old, BadLimit, MaxClock} \subseteq Nat

VARIABLES
  buckets,    \* KBucketTable::buckets
  clock       \* CurrentTime()

kbVars == <<buckets, clock>>

MaxPings == 2     \* pings of one bucket at the same time

Entry(n) == [id |-> n, seen |-> clock, failed |-> 0, pings |-> 0]
Bucket(lo, hi) == [min |-> lo, max |-> hi, entries |-> <<>>, pending |-> <<>>,
                   pinging |-> <<>>, modified |-> clock, refreshing |-> FALSE]

Questionable(e) == clock - e.seen > Old
Bad(e) == Questionable(e) /\ (e.failed > BadLimit \/ e.pings > BadLimit)
InRange(b, n) == b.min <= n /\ n <= b.max

Index(list, n) == SelectInSeq(list, LAMBDA e : e.id = n)
Without(list, n) == Only(list, {e \in ToSet(list) : e.id # n})
Within(list, lo, hi) == Only(list, {e \in ToSet(list) : lo <= e.id /\ e.id <= hi})
MoveToEnd(b, i, e) == [b EXCEPT !.entries = Append(RemoveAt(@, i), e), !.modified = clock]

\* KBucket::pingQuestionable: at most two pings; further replacements wait,
\* the freshest first.  The call carries the node pinged.
PingQuestionable(b, e) ==
  LET q == SelectInSeq(b.entries, Questionable)
      others == Without(b.pending, e.id)
      kept == SubSeq(others, 1, IF Len(others) < BucketK THEN Len(others) ELSE BucketK - 1)
  IN IF Len(b.pinging) >= MaxPings THEN [b EXCEPT !.pending = <<e>> \o kept]
     ELSE IF q = 0 THEN b
     ELSE [b EXCEPT !.entries[q].pings = IF @ > BadLimit THEN @ ELSE @ + 1,
                    !.pinging = Append(@, [node |-> b.entries[q].id, by |-> e])]

\* KBucket::replaceBadEntry, else pingQuestionable.
ReplaceBad(b, e) ==
  LET i == SelectInSeq(b.entries, Bad)
  IN IF i # 0 THEN MoveToEnd(b, i, e) ELSE PingQuestionable(b, e)

SplitAllowed(b) == InRange(b, OurKey) /\ b.min + BucketK < b.max

\* KBucket::insert returns true, and changes nothing, when the bucket must split.
MustSplit(b, e) == /\ Index(b.entries, e.id) = 0 /\ Len(b.entries) = BucketK
                   /\ SelectInSeq(b.entries, Bad) = 0 /\ SplitAllowed(b)

KInsert(b, e) ==
  LET i == Index(b.entries, e.id)
  IN IF i # 0 THEN MoveToEnd(b, i, e)
     ELSE IF Len(b.entries) < BucketK
          THEN [b EXCEPT !.entries = Append(@, e), !.modified = clock]
     ELSE IF MustSplit(b, e) THEN b ELSE ReplaceBad(b, e)

Mid(b) == (b.min + b.max) \div 2
\* Mutant: the second half starts at the middle.
SplitOverlapping(b) ==
  LET half(lo, hi) == [Bucket(lo, hi) EXCEPT !.entries = Within(b.entries, lo, hi)]
  IN <<half(b.min, Mid(b)), half(Mid(b), b.max)>>

\* KBucket::split: pending entries and pings die with the old bucket.
Split(b) ==
  LET half(lo, hi) == [Bucket(lo, hi) EXCEPT !.entries = Within(b.entries, lo, hi)]
  IN <<half(b.min, Mid(b)), half(Mid(b) + 1, b.max)>>

FindBucket(T, n) == SelectInSeq(T, LAMBDA b : InRange(b, n))

\* KBucketTable::insert: after a split the entry goes into its half, and a
\* second "must split" of that half is ignored.
TableInsert(T, e) ==
  LET U == IF T = <<>> THEN <<Bucket(0, MaxKey)>> ELSE T
      i == FindBucket(U, e.id)
      b == U[i]
      two == Split(b)
      h == IF InRange(two[1], e.id) THEN 1 ELSE 2
  IN IF ~MustSplit(b, e) THEN [U EXCEPT ![i] = KInsert(b, e)]
     ELSE IF Mid(b) = b.min \/ Mid(b) + 1 = b.max THEN U      \* UnableToSplit
     ELSE SubSeq(U, 1, i - 1) \o [two EXCEPT ![h] = KInsert(@, e)] \o SubSeq(U, i + 1, Len(U))

\* KBucketTable::onTimeout: the first bucket that has the address counts it.
TableTimeout(T, n) ==
  LET i == SelectInSeq(T, LAMBDA b : Index(b.entries, n) # 0)
  IN IF i = 0 THEN T
     ELSE [T EXCEPT ![i].entries[Index(T[i].entries, n)].failed = IF @ > BadLimit THEN @ ELSE @ + 1]

-----------------------------------------------------------------------------
KbInit == buckets = <<>> /\ clock = 0

\* Node::received: any request, or an answer to a search.
Received(n) ==
  /\ \E T \in {TableInsert(buckets, Entry(n))} : buckets' = T
  /\ UNCHANGED clock

\* A call of a search to n times out.
CallTimeout(n) ==
  /\ \E T \in {TableTimeout(buckets, n)} : T # buckets /\ buckets' = T
  /\ UNCHANGED clock

DropPing(b, k) == [b EXCEPT !.pinging = RemoveAt(@, k)]

\* The answer to a ping: Node::received first, then KBucket::onResponse, unless
\* the first has split the bucket that waited for it.
PingAnswered(i, k) ==
  LET p == buckets[i].pinging[k]
      T == TableInsert(buckets, Entry(p.node))
  IN /\ k \in DOMAIN buckets[i].pinging
     /\ \E U \in {IF Len(T) > Len(buckets) THEN T
                  ELSE [T EXCEPT ![i] = ReplaceBad(DropPing([@ EXCEPT !.modified = clock], k), p.by)]} :
          buckets' = U
     /\ UNCHANGED clock

\* A ping times out: Node::onTimeout first, then KBucket::onTimeout puts the
\* waiting entry in the place of the silent one and tries the next pending one.
AfterTimeout(b, k) ==
  LET p == b.pinging[k]
      j == Index(b.entries, p.node)
      replaced == DropPing(IF j = 0 THEN b ELSE MoveToEnd(b, j, p.by), k)
  IN IF Len(replaced.pinging) < MaxPings /\ replaced.pending # <<>>
     THEN ReplaceBad([replaced EXCEPT !.pending = Tail(@)], Head(replaced.pending))
     ELSE replaced

PingTimeout(i, k) ==
  /\ k \in DOMAIN buckets[i].pinging
  /\ \E T \in {TableTimeout(buckets, buckets[i].pinging[k].node)} :
       buckets' = [T EXCEPT ![i] = AfterTimeout(@, k)]
  /\ UNCHANGED clock

\* KBucketTable::refreshBuckets, once a second, and the end of such a lookup.
NeedsRefresh(b) == ~b.refreshing /\ b.entries # <<>> /\ clock - b.modified > Old

RefreshBuckets ==
  /\ \E i \in DOMAIN buckets : NeedsRefresh(buckets[i])
  /\ buckets' = [i \in DOMAIN buckets |->
       IF NeedsRefresh(buckets[i])
       THEN [buckets[i] EXCEPT !.modified = clock, !.refreshing = TRUE] ELSE buckets[i]]
  /\ UNCHANGED clock

RefreshFinished(i) ==
  /\ buckets[i].refreshing
  /\ buckets' = [buckets EXCEPT ![i].refreshing = FALSE]
  /\ UNCHANGED clock

\* DHT::stop saves the ranges and the ids; the entries loaded again count as
\* heard from now.  With a new key the files are removed.
Reloaded(b) == [Bucket(b.min, b.max) EXCEPT
                  !.entries = [i \in DOMAIN b.entries |-> Entry(b.entries[i].id)]]
LoadTable(newKey, saved) ==
  IF newKey THEN <<>> ELSE [i \in DOMAIN saved |-> Reloaded(saved[i])]
Restart(newKey) ==
  /\ buckets # <<>>
  /\ buckets' = LoadTable(newKey, buckets)
  /\ UNCHANGED clock

Tick == clock < MaxClock /\ clock' = clock + 1 /\ UNCHANGED buckets

KbNext ==
  \/ \E n \in Peers : Received(n) \/ CallTimeout(n)
  \/ \E i \in DOMAIN buckets : \/ RefreshFinished(i)
                               \/ \E k \in 1 .. MaxPings : PingAnswered(i, k) \/ PingTimeout(i, k)
  \/ RefreshBuckets \/ Tick
  \/ \E newKey \in BOOLEAN : Restart(newKey)

KbSpec == KbInit /\ [][KbNext]_kbVars

-----------------------------------------------------------------------------
(* Properties. *)

EntryType == [id : Peers, seen : 0 .. MaxClock, failed : 0 .. BadLimit + 1, pings : 0 .. BadLimit + 1]

KbTypeOK ==
  /\ clock \in 0 .. MaxClock
  /\ \A i \in DOMAIN buckets :
       LET b == buckets[i]
       IN /\ b.min \in 0 .. MaxKey /\ b.max \in b.min .. MaxKey
          /\ b.entries \in Seq(EntryType) /\ b.pending \in Seq(EntryType)
          /\ b.pinging \in Seq([node : Peers, by : EntryType])
          /\ b.modified \in 0 .. MaxClock /\ b.refreshing \in BOOLEAN

\* The buckets partition the key space whatever splits, pings and restarts
\* happened, every entry (also one that waits for a ping to fail, and is put
\* into its bucket much later) lies in the range of its bucket, and no bucket
\* outgrows K.
Partition ==
  /\ KbTypeOK
  /\ buckets # <<>> => \A n \in 0 .. MaxKey : \E i \in DOMAIN buckets : InRange(buckets[i], n)
  /\ \A i \in DOMAIN buckets :
       LET b == buckets[i]
       IN /\ \A j \in DOMAIN buckets : j < i => buckets[j].max < b.min
          /\ Len(b.entries) <= BucketK /\ Len(b.pending) <= BucketK /\ Len(b.pinging) <= MaxPings
          /\ \A e \in ToSet(b.entries) \cup ToSet(b.pending) \cup {p.by : p \in ToSet(b.pinging)} :
               InRange(b, e.id)

=============================================================================
