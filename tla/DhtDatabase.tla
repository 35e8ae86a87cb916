----------------------------- MODULE DhtDatabase -----------------------------
(***************************************************************************)
(* What the DHT stores for others (Database): per info hash the addresses  *)
(* that announced themselves, and the tokens handed out with get_peers     *)
(* answers that an announce must show again.  Times are kept as ages, in   *)
(* units of the model's Tick.  A token is a hash of address and time: two  *)
(* of the same address and time are one token.                             *)
(***************************************************************************)
EXTENDS Integers, Sequences, FiniteSets, SequencesExt

CONSTANTS
  Hashes, Addrs,
  MaxAge,     \* MAX_ITEM_AGE, 30 minutes
  Interval,   \* period of the expire timer, 5 minutes
  MaxItems    \* bound on the items of one info hash

ASSUME DhtDatabaseAssumption == {MaxAge, Interval, MaxItems} \subseteq Nat \ {0}

VARIABLES
  items,      \* info hash -> sequence of [addr, age], or NoList
  tokens,     \* set of [addr, age]
  sinceExpire \* age of the last run of expire

dbVars == <<items, tokens, sinceExpire>>

NoList == <<[addr |-> "none", age |-> 0]>>
ListOf(h) == IF items[h] = NoList THEN <<>> ELSE items[h]
Expired(i) == i.age >= MaxAge

DbInit == items = [h \in Hashes |-> NoList] /\ tokens = {} /\ sinceExpire = 0

\* Mutant: new items are put in front.
StoreFront(h, a) == items' = [items EXCEPT ![h] = <<[addr |-> a, age |-> 0]>> \o ListOf(h)]

\* Database::store, for an announce we received and for every peer an
\* AnnounceTask of ours got.
Store(h, a) == items' = [items EXCEPT ![h] = Append(ListOf(h), [addr |-> a, age |-> 0])]

\* DHT::getPeers: the sampled items go out with a new token.
GetPeers(a) ==
  /\ tokens' = tokens \cup {[addr |-> a, age |-> 0]}
  /\ UNCHANGED <<items, sinceExpire>>

\* Database::checkToken: known, and made for the address that shows it.
CheckToken(t, a) == t \in tokens /\ t.addr = a

\* DHT::announce for a request: a good token is spent.
Announce(h, a, t) ==
  /\ CheckToken(t, a) /\ Len(ListOf(h)) < MaxItems
  /\ tokens' = tokens \ {t} /\ Store(h, a)
  /\ UNCHANGED sinceExpire

\* AnnounceTask::callFinished stores the peers of an answer.
TaskStore(h, a) ==
  /\ Len(ListOf(h)) < MaxItems
  /\ Store(h, a)
  /\ UNCHANGED <<tokens, sinceExpire>>

\* DHT::announce for a torrent of ours: an empty list is made.
HasList(h) == items[h] # NoList
InsertList(h) ==
  /\ ~HasList(h)
  /\ items' = [items EXCEPT ![h] = <<>>]
  /\ UNCHANGED <<tokens, sinceExpire>>

\* Database::expire drops from the front, and stops at the first fresh item.
FirstFresh(q) == SelectInSeq(q, LAMBDA i : ~Expired(i))
DropExpired(q) == IF FirstFresh(q) = 0 THEN NoList ELSE SubSeq(q, FirstFresh(q), Len(q))

Expire ==
  /\ sinceExpire = Interval /\ sinceExpire' = 0
  /\ items' = [h \in Hashes |-> IF HasList(h) THEN DropExpired(items[h]) ELSE NoList]
  /\ tokens' = {t \in tokens : ~Expired(t)}

Older(i) == [i EXCEPT !.age = @ + 1]
Pass ==
  /\ sinceExpire < Interval /\ sinceExpire' = sinceExpire + 1
  /\ items' = [h \in Hashes |-> IF HasList(h) THEN [k \in DOMAIN items[h] |-> Older(items[h][k])] ELSE NoList]
  /\ tokens' = {Older(t) : t \in tokens}

DbNext ==
  \/ \E a \in Addrs : GetPeers(a)
  \/ \E a \in Addrs, h \in Hashes, t \in tokens : Announce(h, a, t)
  \/ \E a \in Addrs, h \in Hashes : TaskStore(h, a)
  \/ \E h \in Hashes : InsertList(h)
  \/ Expire \/ Pass

DbSpec == DbInit /\ [][DbNext]_dbVars

-----------------------------------------------------------------------------
ItemType == [addr : Addrs, age : Nat]
DbTypeOK == /\ \A h \in Hashes : items[h] = NoList \/ items[h] \in Seq(ItemType)
            /\ tokens \subseteq ItemType /\ sinceExpire \in 0 .. Interval

\* No peer older than 30 minutes plus one period of the timer is handed out, and
\* no token older than that is accepted: expire may stop at the first fresh item
\* because every way to store keeps the lists in the order of their times.
NothingStale ==
  /\ DbTypeOK
  /\ \A h \in Hashes : \A i \in DOMAIN ListOf(h) : ListOf(h)[i].age <= MaxAge + Interval
  /\ \A t \in tokens : t.age <= MaxAge + Interval
=============================================================================
