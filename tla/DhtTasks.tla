------------------------------ MODULE DhtTasks ------------------------------
(***************************************************************************)
(* The client side of the Kademlia DHT: the RPC server with its one-byte   *)
(* transaction ids and its queue of calls, the search tasks (NodeLookup,   *)
(* AnnounceTask), the TaskManager that lets only a few of them run, and    *)
(* the DHTPeerSource of one torrent that announces through them.           *)
(*                                                                         *)
(* All of this runs in one thread, so a handler is one step; the steps     *)
(* interleave at the event loop: datagrams, timers, deferred deletions.    *)
(* Datagrams may be lost, delayed or duplicated, and answers to calls that *)
(* ended long ago, also to those of an earlier run of the server, still    *)
(* arrive: an answer with any id from any node may come at any time.       *)
(***************************************************************************)
EXTENDS Integers, Sequences, FiniteSets, FiniteSetsExt, Lists

CONSTANTS
  Nodes,       \* the other DHT nodes, a set of integers: the order of KBucketEntry
  NumIds,      \* transaction ids of the RPC server (256: a Uint8)
  MaxReqs,     \* outstanding requests of one task (MAX_CONCURRENT_REQS, 16)
  MaxRunning,  \* tasks that run at the same time (7)
  Reserve,     \* ids that must be free before another task starts (16)
  MaxVisited,  \* a task ends when it visited more nodes than this (200)
  MaxAnnounced, \* or announced to more nodes than this (50)
  CloseK,      \* nodes of the routing table a search starts from (K, 8)
  MaxTasks,    \* bound: task objects alive at the same time
  MaxWaiting   \* bound: length of the queue of calls

ASSUME DhtTasksAssumption ==
  /\ Nodes \subseteq Int /\ IsFiniteSet(Nodes)
  /\ {NumIds, MaxReqs, MaxRunning, MaxTasks} \subseteq Nat \ {0}
  /\ {Reserve, MaxVisited, MaxAnnounced, CloseK, MaxWaiting} \subseteq Nat
  /\ CloseK <= MaxVisited

VARIABLES
  dht,    \* DHT: running, and our_node_lookup (0, a task, or -1: a deleted one)
  srv,    \* RPCServer::Private: calls, call_queue, next_mtid
  task,   \* every Task object
  tman,   \* TaskManager: num_active and the list of queued tasks
  src     \* DHTPeerSource: started, curr_task, its timer

dhtVars == <<dht, srv, task, tman, src>>

Ids == 0 .. NumIds - 1
TaskIds == 1 .. MaxTasks
Methods == {"ping", "find_node", "get_peers", "announce_peer"}
\* An RPCCall: its listener (0 for none) and the method of its request.
Call == [task : TaskIds \cup {0}, method : Methods]
NoCall == [task |-> 0, method |-> "none"]
NoTask == [st |-> "free", kind |-> "lookup", queued |-> FALSE, todo |-> {},
           visited |-> {}, answered |-> {}, announced |-> {}, reqs |-> 0]
Task == [st : {"free", "live"}, kind : {"lookup", "announce"},
         queued : BOOLEAN, todo : SUBSET Nodes, visited : SUBSET Nodes,
         answered : SUBSET Nodes, announced : SUBSET Nodes, reqs : 0 .. MaxReqs]

-----------------------------------------------------------------------------
(* RPCServer.  A handler works on the record of all the state it can reach. *)

State == [dht |-> dht, srv |-> srv, task |-> task, tman |-> tman, src |-> src]

\* Calls nobody listens to any more.
Forget(calls, dead) ==
  [i \in DOMAIN calls |-> IF calls[i].task \in dead THEN [calls[i] EXCEPT !.task = 0] ELSE calls[i]]

\* Back in the event loop the finished tasks are deleted (deleteLater): the
\* QPointers to them in the queue are null from then on.
DhtBecome(S) ==
  LET dead == {t \in TaskIds : S.task[t].st = "finished"}
  IN /\ dht' = S.dht /\ src' = S.src
     /\ srv' = [S.srv EXCEPT !.calls = Forget(@, dead), !.queue = Forget(@, dead)]
     /\ task' = [t \in TaskIds |-> IF t \in dead THEN NoTask ELSE S.task[t]]
     /\ tman' = [S.tman EXCEPT !.queue = Only(@, TaskIds \ dead)]

InUse(S) == {m \in Ids : S.srv.calls[m] # NoCall}

\* The first id that is free from next_mtid on, around the width of the counter.
FreeId(S) == LET free == Ids \ InUse(S)
                 ahead == {m \in free : m >= S.srv.next}
             IN IF ahead # {} THEN Min(ahead) ELSE Min(free)

SendMsg(S, queue, m, c, next) ==
  [S EXCEPT !.srv = [calls |-> [S.srv.calls EXCEPT ![m] = c], queue |-> queue, next |-> next]]

\* doCall leaves next_mtid on the id it used; with all ids in use it goes once
\* around, and the call is queued.
DoCall(S, c) == IF InUse(S) = Ids
                THEN [S EXCEPT !.srv.queue = Append(@, c)]
                ELSE LET m == FreeId(S) IN SendMsg(S, S.srv.queue, m, c, m)

\* One turn of the loop of doQueuedCalls, which advances next_mtid.
SendQueued(S) ==
  IF S.srv.queue = <<>> \/ InUse(S) = Ids THEN S
  ELSE LET m == FreeId(S)
       IN SendMsg(S, Tail(S.srv.queue), m, Head(S.srv.queue), (m + 1) % NumIds)

DoQueuedCalls(S) ==
  LET F[i \in 0 .. Len(S.srv.queue)] == IF i = 0 THEN S ELSE SendQueued(F[i - 1])
  IN F[Len(S.srv.queue)]

EraseCall(S, m) == [S EXCEPT !.srv.calls[m] = NoCall]

-----------------------------------------------------------------------------
(* Task and its two subclasses. *)

\* Task::rpcCall; the callers have checked canDoRequest.
RpcCall(S, c) == [DoCall(S, c) EXCEPT !.task[c.task].reqs = @ + 1]

\* What one of update's loops takes off a list: it stops at `room' requests,
\* and entries that were visited before cost none.
Taken(list, done, room) == {n \in list : Cardinality({m \in list \ done : m < n}) < room}

\* The sends of NodeLookup::update and AnnounceTask::update: first announce to
\* the nodes that answered, then ask the nodes of the todo list.
SendRequests(S, t) ==
  LET T == S.task[t]
      room == MaxReqs - T.reqs
      ann == Taken(T.answered, T.announced, room)
      annNew == ann \ T.announced
      asked == Taken(T.todo, T.visited, room - Cardinality(annNew))
      askNew == asked \ T.visited
      search == IF T.kind = "lookup" THEN "find_node" ELSE "get_peers"
      method(i) == IF i <= Cardinality(annNew) THEN "announce_peer" ELSE search
      n == Cardinality(annNew) + Cardinality(askNew)
      R == [S EXCEPT !.task[t] = [T EXCEPT
             !.answered = T.answered \ ann, !.announced = T.announced \cup annNew,
             !.todo = T.todo \ asked, !.visited = T.visited \cup askNew]]
      F[i \in 0 .. n] == IF i = 0 THEN R
                         ELSE RpcCall(F[i - 1], [task |-> t, method |-> method(i)])
  IN F[n]

\* When update calls done().
Exhausted(T) == \/ T.todo = {} /\ T.answered = {} /\ T.reqs = 0
                \/ Cardinality(T.visited) > MaxVisited
                \/ Cardinality(T.announced) > MaxAnnounced

CanStartTask(S) == /\ S.tman.active < MaxRunning
                   /\ NumIds - Cardinality(InUse(S)) > Reserve

\* One turn of TaskManager::taskFinished's loop: Task::start of a queued task.
StartQueued(S) ==
  IF ~CanStartTask(S) \/ S.tman.queue = <<>> THEN S
  ELSE LET t == Head(S.tman.queue)
           R == [S EXCEPT !.tman.queue = Tail(@)]
           started == IF R.task[t].queued
                      THEN SendRequests([R EXCEPT !.task[t].queued = FALSE], t) ELSE R
       IN [started EXCEPT !.tman.active = @ + 1]

\* TaskManager::taskFinished, first slot of the signal finished.
TaskFinished(S, t) ==
  LET R == IF ~S.task[t].queued /\ S.tman.active > 0
           THEN [S EXCEPT !.tman.active = @ - 1] ELSE S
      F[i \in 0 .. Len(R.tman.queue)] == IF i = 0 THEN R ELSE StartQueued(F[i - 1])
  IN F[Len(R.tman.queue)]

\* DHT::ownNodeLookupFinished and DHTPeerSource::onFinished, the other slots.
OwnNodeLookupFinished(S, t) == IF S.dht.own = t THEN [S EXCEPT !.dht.own = 0] ELSE S

OnFinished(S, t) ==
  IF S.src.curr = t THEN [S EXCEPT !.src.curr = 0, !.src.timer = TRUE] ELSE S

\* Task::done and Task::kill; a finished task ignores the answers to its calls.
Finish(S, t) ==
  OnFinished(OwnNodeLookupFinished(TaskFinished([S EXCEPT !.task[t].st = "finished"], t), t), t)

Update(S, t) == LET R == SendRequests(S, t)
                IN IF Exhausted(R.task[t]) THEN Finish(R, t) ELSE R

Live(S, t) == t # 0 /\ S.task[t].st = "live"

\* Mutant: the calls are counted down while the task has room for more only.
CallEndedKept(S, t) ==
  LET R == [S EXCEPT !.task[t].reqs = IF @ = MaxReqs THEN @ ELSE @ - 1]
  IN IF R.task[t].reqs < MaxReqs THEN Update(R, t) ELSE R

\* Mutant: update is called for a task with room for more than one request only.
CallEndedBusy(S, t) ==
  LET R == [S EXCEPT !.task[t].reqs = IF @ > 0 THEN @ - 1 ELSE 0]
  IN IF R.task[t].reqs > 0 THEN Update(R, t) ELSE R

\* Task::onResponse and Task::onTimeout after callFinished or callTimeout.
CallEnded(S, t) ==
  LET R == [S EXCEPT !.task[t].reqs = IF @ > 0 THEN @ - 1 ELSE 0]
  IN IF R.task[t].reqs < MaxReqs THEN Update(R, t) ELSE R

\* handleNodes: an answer may hold fewer new nodes than it lists (bad data).
HandleNodes(T, nodes) == [T EXCEPT !.todo = @ \cup (nodes \ T.visited)]

\* NodeLookup::callFinished and AnnounceTask::callFinished with the nodes of
\* the answer: only an answer that has the method of the search adds nodes.
LookupFinished(T, method, nodes) == IF method = "find_node" THEN HandleNodes(T, nodes) ELSE T
CallFinished(T, method, from, nodes) ==
  CASE T.kind = "lookup" -> LookupFinished(T, method, nodes)
    [] T.kind = "announce" /\ method = "get_peers" ->
         [HandleNodes(T, nodes) EXCEPT !.answered = @ \cup ({from} \ T.announced)]
    [] OTHER -> T

\* RPCMsgFactory::buildResponse: an answer does not say what it answers, it is
\* read as an answer to the call that has its id now.
BuildResponse(S, m) == S.srv.calls[m].method

-----------------------------------------------------------------------------
(* The actions. *)

DhtInit ==
  /\ dht = [running |-> FALSE, own |-> 0]
  /\ srv = [calls |-> [m \in Ids |-> NoCall], queue |-> <<>>, next |-> 0]
  /\ task = [t \in TaskIds |-> NoTask]
  /\ tman = [active |-> 0, queue |-> <<>>]
  /\ src = [started |-> FALSE, curr |-> 0, timer |-> FALSE]

FreeTask(S) == CHOOSE t \in TaskIds : S.task[t].st = "free"
CanCreate(S) == \E t \in TaskIds : S.task[t].st = "free"

\* DHT::findNode, refreshBucket and announce: the K closest nodes fill the todo
\* list, Task::start runs the task or leaves it queued, TaskManager::addTask.
\* With no close node there is no task; the result is in field `new'.
NewTask(S, kind, close) ==
  IF close = {} THEN [S |-> S, new |-> 0]
  ELSE LET t == FreeTask(S)
           queued == ~CanStartTask(S)
           R == [S EXCEPT !.task[t] = [NoTask EXCEPT !.st = "live", !.kind = kind,
                                                    !.queued = queued, !.todo = close]]
       IN [S |-> IF queued THEN [R EXCEPT !.tman.queue = Append(@, t)]
                 ELSE [Update(R, t) EXCEPT !.tman.active = @ + 1],
           new |-> t]

\* DHT::findOwnNode.
FindOwnNode(S, close) ==
  IF S.dht.own # 0 THEN S
  ELSE LET r == NewTask(S, "lookup", close) IN [r.S EXCEPT !.dht.own = r.new]

\* DHTPeerSource::doRequest; start, manualUpdate and onTimeout lead to it.
DoRequest(S, close) ==
  IF ~S.dht.running \/ S.src.curr # 0 THEN S
  ELSE LET r == NewTask(S, "announce", close) IN [r.S EXCEPT !.src.curr = r.new]

\* DHT::start: new server, table and task manager; the sources hear `started'.
DhtStart(close) ==
  /\ ~dht.running /\ CanCreate(State)
  /\ LET S == [State EXCEPT !.dht.running = TRUE,
                            !.srv = [calls |-> [m \in Ids |-> NoCall], queue |-> <<>>, next |-> 0],
                            !.tman = [active |-> 0, queue |-> <<>>]]
         R == IF src.started THEN DoRequest(S, close) ELSE S
     IN CanCreate(R) /\ \E N \in {FindOwnNode(R, close)} : DhtBecome(N)

\* DHTPeerSource::stop: killing the task ends in onFinished, which starts the
\* timer that is then stopped.
SrcStop(S) ==
  LET R == [S EXCEPT !.src.started = FALSE]
  IN IF R.src.curr = 0 THEN R
     ELSE [Finish(R, R.src.curr) EXCEPT !.src.timer = FALSE]

\* DHT::stop: sources hear `stopped', then the tasks are destroyed with the
\* task manager, without `finished', and the calls with the server.
DhtStop ==
  /\ dht.running
  /\ LET S == [SrcStop([State EXCEPT !.dht.running = FALSE]) EXCEPT !.src.curr = 0]
     IN DhtBecome([S EXCEPT !.task = [t \in TaskIds |-> NoTask],
                         !.tman = [active |-> 0, queue |-> <<>>],
                         !.srv = [calls |-> [m \in Ids |-> NoCall], queue |-> <<>>, next |-> 0],
                         !.dht.own = IF @ = 0 THEN 0 ELSE -1])

\* Node::received after the third message, and DHT::update through
\* KBucketTable::refreshBuckets.
StartOwnLookup(close) ==
  /\ dht.running /\ dht.own = 0 /\ CanCreate(State)
  /\ \E N \in {FindOwnNode(State, close)} : DhtBecome(N)

RefreshBucket(close) ==
  /\ dht.running /\ CanCreate(State)
  /\ \E N \in {NewTask(State, "lookup", close).S} : DhtBecome(N)

SourceStart(close) ==
  /\ ~src.started /\ CanCreate(State)
  /\ LET S == [State EXCEPT !.src.started = TRUE]
     IN \E N \in {IF dht.running THEN DoRequest(S, close) ELSE S} : DhtBecome(N)

SourceStop ==
  /\ src.started
  /\ \E N \in {SrcStop(State)} : DhtBecome(N)

\* DHTPeerSource::onTimeout and manualUpdate.
SourceTimer(close) ==
  /\ src.timer /\ CanCreate(State)
  /\ LET S == [State EXCEPT !.src.timer = FALSE]
     IN \E N \in {IF dht.running /\ src.started THEN DoRequest(S, close) ELSE S} : DhtBecome(N)

ManualUpdate(close) ==
  /\ dht.running /\ src.started /\ src.curr = 0 /\ CanCreate(State)
  /\ \E N \in {DoRequest(State, close)} : DhtBecome(N)

\* Task::addDHTNode and onResolverResults: a node is put on the todo list of
\* the task that runs or waits; nothing is sent.
AddDHTNode(n) ==
  /\ Live(State, src.curr)
  /\ n \notin task[src.curr].todo \cup task[src.curr].visited
  /\ task' = [task EXCEPT ![src.curr].todo = @ \cup {n}]
  /\ UNCHANGED <<dht, srv, tman, src>>

\* DHT::portReceived, addDHTNode and the pings of the buckets: a call nobody
\* of the tasks listens to.
Ping ==
  /\ dht.running /\ Len(srv.queue) < MaxWaiting
  /\ \E N \in {DoCall(State, [task |-> 0, method |-> "ping"])} : DhtBecome(N)

\* RPCServer::Private::dataReceived for an answer: the only link to the call is
\* the id.  The listener works first, with the call still in the table.
Response(m, from, nodes) ==
  LET c == srv.calls[m]
      S == IF Live(State, c.task)
           THEN CallEnded([State EXCEPT !.task[c.task] = CallFinished(@, BuildResponse(State, m), from, nodes)], c.task)
           ELSE State
  IN /\ dht.running /\ c # NoCall
     /\ \E N \in {DoQueuedCalls(EraseCall(S, m))} : DhtBecome(N)

\* RPCCall::onTimeout: callTimeout of the server is the first slot of the
\* signal, the listener the second.
Timeout(m) ==
  LET c == srv.calls[m]
      S == DoQueuedCalls(EraseCall(State, m))
  IN /\ dht.running /\ c # NoCall
     /\ \E N \in {IF Live(S, c.task) THEN CallEnded(S, c.task) ELSE S} : DhtBecome(N)

\* What findKClosestNodes may find in the routing table.
CloseSets == {s \in SUBSET Nodes : Cardinality(s) <= CloseK}

DhtNext ==
  \/ \E close \in CloseSets : \/ DhtStart(close) \/ StartOwnLookup(close) \/ RefreshBucket(close)
                              \/ SourceStart(close) \/ SourceTimer(close) \/ ManualUpdate(close)
  \/ DhtStop \/ SourceStop \/ Ping
  \/ \E n \in Nodes : AddDHTNode(n)
  \/ \E m \in Ids : Timeout(m)
  \/ \E m \in Ids, from \in Nodes, nodes \in SUBSET Nodes : Response(m, from, nodes)

\* The 30 s timers of the calls fire: WF of Timeout(m), with the condition it is
\* enabled under written out.
DhtFairness ==
  \A m \in Ids : \/ []<>~(dht.running /\ srv.calls[m] # NoCall)
                  \/ []<><<Timeout(m)>>_dhtVars

DhtSpec == DhtInit /\ [][DhtNext]_dhtVars /\ DhtFairness

-----------------------------------------------------------------------------
(* Properties. *)

\* Every pointer, id and counter is in its range.
DhtTypeOK ==
  /\ dht \in [running : BOOLEAN, own : TaskIds \cup {0, -1}]
  /\ srv.calls \in [Ids -> Call \cup {NoCall}]
  /\ srv.queue \in Seq(Call) /\ srv.next \in Ids
  /\ task \in [TaskIds -> Task]
  /\ tman.active \in Nat /\ tman.queue \in Seq(TaskIds)
  /\ src \in [started : BOOLEAN, curr : TaskIds \cup {0}, timer : BOOLEAN]

\* The calls a task listens to, on the wire or in the queue of the server.
Listened(t) == Cardinality({m \in Ids : srv.calls[m].task = t})
             + Cardinality({i \in DOMAIN srv.queue : srv.queue[i].task = t})

\* outstanding_reqs of a running task counts its calls: answers of any age,
\* timeouts and calls that had to wait for an id end each call exactly once, so
\* a search neither ends early nor waits for an answer nobody owes it. And a
\* call waits in the queue of the server only while every id is in use:
\* whatever frees an id (dataReceived, timedOut) sends what waits.
OutstandingExact ==
  /\ DhtTypeOK
  /\ \A t \in TaskIds : task[t].st = "live" => task[t].reqs = Listened(t)
  /\ srv.queue # <<>> => InUse(State) = Ids

\* A search that runs comes to its end: every call it made is answered or times
\* out, also the calls that waited for an id, and the last one calls done().
SearchEnds ==
  \A t \in TaskIds :
    (task[t].st = "live" /\ ~task[t].queued) ~> (task[t].st # "live")

=============================================================================
