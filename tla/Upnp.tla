-------------------------------- MODULE Upnp --------------------------------
(***************************************************************************)
(* Forwarding ports on the routers UPnP finds: the discovery of routers    *)
(* (UPnPMCastSocket), the port mappings we ask one for and take back       *)
(* (UPnPRouter), and the WaitJob that waits for the last requests at exit. *)
(* Every request has a connection of its own, so results come in any       *)
(* order. src/src/upnp/{upnpmcastsocket,upnprouter,httprequest}.cpp,       *)
(* src/src/util/waitjob.cpp, src/src/net/portlist.cpp.                     *)
(***************************************************************************)
EXTENDS Integers, FiniteSets, Functions, Lists

CONSTANTS Routers,       \* names of UPnPRouter objects
          Locations,     \* where descriptions are found
          Ports, Services,
          MaxRequests    \* bound: HTTPRequests of a router at one time

ASSUME UnAssumption == IsFiniteSet(Services) /\ MaxRequests \in Nat \ {0}

VARIABLES igd,           \* the UPnPRouter objects
          wait           \* the WaitJob: none, or the requests it waits for

unVars == <<igd, wait>>

ReqIds == 1 .. MaxRequests
\* asked: for each port of each service the request of the forwarding last
\* asked for, Done when it succeeded, 0 when it failed or was taken back
Done == MaxRequests + 1
Fwds == [port : Ports, srv : Services, req : 0 .. MaxRequests]
NoRouter == [st |-> "none", loc |-> "none", wan |-> {}, fwds |-> <<>>,
             reqs |-> {}, error |-> FALSE, ip |-> FALSE,
             asked |-> [ps \in Ports \X Services |-> 0]]
NoWait == [on |-> FALSE, ops |-> {}]

UnInit == igd = [r \in Routers |-> NoRouter] /\ wait = NoWait

(******************************** Discovery ********************************)

Listed == {r \in Routers : igd[r].st = "listed"}
FindDevice(loc) == {r \in Listed : igd[r].loc = loc}
FreeRouters == {r \in Routers : igd[r].st = "none"}

\* A new router object whose description is being downloaded.
NewRouter(loc) ==
    /\ FreeRouters # {}
    /\ LET r == CHOOSE r \in FreeRouters : TRUE
       IN  igd' = [igd EXCEPT ![r] = [NoRouter EXCEPT !.st = "pending", !.loc = loc]]
    /\ UNCHANGED wait

\* An answer to discover(), or a NOTIFY, of a router we do not know yet.
ReadyRead(loc) == FindDevice(loc) = {} /\ NewRouter(loc)
\* loadRouters: those the file names, known or not.
LoadRouters(loc) == NewRouter(loc)

\* A request of a router is sent: a new HTTPRequest for each x of X.
FreeReqs(R) == ReqIds \ {q.id : q \in R.reqs}
CanSend(R, X) == ExistsInjection(X, FreeReqs(R))
NewReqs(R, X) == CHOOSE id \in Injection(X, FreeReqs(R)) : TRUE
Query(id, kind, port, srv) == [id |-> id, kind |-> kind, port |-> port, srv |-> srv]

GetExternalIP(R) ==
    IF R.wan = {} THEN R
    ELSE [R EXCEPT !.reqs = @ \cup {Query(NewReqs(R, {"ip"})["ip"], "ip", "none", "none")}]

\* A second object for a known location is deleted with its requests.
OnXmlFileDownloaded(r, wan) ==
    igd' = [igd EXCEPT ![r] = IF FindDevice(@.loc) # {} THEN NoRouter
                              ELSE GetExternalIP([@ EXCEPT !.st = "listed", !.wan = wan])]

\* The download of the description ends: with the services that forward
\* ports, with a description nobody can parse, or with an error, after which
\* the object stays pending for good.
DownloadFinished(r) ==
    /\ igd[r].st = "pending"
    /\ \/ \E wan \in SUBSET Services : OnXmlFileDownloaded(r, wan)
       \/ igd' = [igd EXCEPT ![r] = NoRouter]
       \/ igd' = [igd EXCEPT ![r].st = "failed", ![r].error = TRUE]
    /\ UNCHANGED wait

(******************************* Forwarding ********************************)

Same(f, port, srv) == f.port = port /\ f.srv = srv

\* UPnPRouterPrivate::forward on each of the services that forward ports: an
\* older forwarding of the same is replaced.
ForwardOn(R, port) ==
    LET id == NewReqs(R, R.wan)
        order == CHOOSE o \in Bijection(1 .. Cardinality(R.wan), R.wan) : TRUE
    IN  [R EXCEPT !.reqs = @ \cup {Query(id[srv], "add", port, srv) : srv \in R.wan},
                  !.fwds = Only(@, {f \in Fwds : f.port # port \/ f.srv \notin R.wan}) \o
                           [i \in DOMAIN order |->
                              [port |-> port, srv |-> order[i], req |-> id[order[i]]]],
                  !.asked = [ps \in Ports \X Services |->
                               IF ps[1] = port /\ ps[2] \in R.wan THEN id[ps[2]] ELSE @[ps]],
                  !.error = R.wan = {}]

Forward(r, port) ==
    /\ r \in Listed /\ CanSend(igd[r], igd[r].wan)
    /\ igd' = [igd EXCEPT ![r] = ForwardOn(@, port)]
    /\ UNCHANGED wait

\* The mappings of a port are taken back; at exit a WaitJob waits for them.
UndoForwardOn(R, port) ==
    LET mine == {i \in DOMAIN R.fwds : R.fwds[i].port = port}
        id == NewReqs(R, mine)
    IN  [R EXCEPT !.reqs = @ \cup {Query(id[i], "delete", port, R.fwds[i].srv) : i \in mine},
                  !.fwds = Only(@, {f \in Fwds : f.port # port}),
                  !.asked = [ps \in Ports \X Services |->
                               IF ps[1] = port /\ \E i \in mine : R.fwds[i].srv = ps[2]
                               THEN 0 ELSE @[ps]]]

UndoForward(r, port) ==
    LET R == igd[r]
        S == UndoForwardOn(R, port)
    IN  /\ r \in Listed /\ CanSend(R, {i \in DOMAIN R.fwds : R.fwds[i].port = port})
        /\ igd' = [igd EXCEPT ![r] = S]
        /\ wait' = IF wait.on THEN [wait EXCEPT !.ops = @ \cup {<<r, q>> : q \in S.reqs \ R.reqs}]
                              ELSE wait

\* Mutant: the forwarding is looked up by its port and service.
HttpRequestDoneByPort(R, q, ok) ==
    LET kept == IF ok THEN R.fwds ELSE Only(R.fwds, {f \in Fwds : ~Same(f, q.port, q.srv)})
    IN  [R EXCEPT !.reqs = @ \ {q},
                  !.fwds = [i \in DOMAIN kept |-> IF Same(kept[i], q.port, q.srv)
                                                  THEN [kept[i] EXCEPT !.req = 0] ELSE kept[i]]]

\* The forwarding that waits for this request is settled, if it still exists.
HttpRequestDone(R, q, ok) ==
    LET kept == IF ok THEN R.fwds ELSE Only(R.fwds, {f \in Fwds : f.req # q.id})
    IN  [R EXCEPT !.reqs = @ \ {q},
                  !.fwds = [i \in DOMAIN kept |-> IF kept[i].req = q.id
                                                  THEN [kept[i] EXCEPT !.req = 0] ELSE kept[i]]]

Answered(asked, q, ok) ==
    [ps \in DOMAIN asked |-> IF asked[ps] # q.id THEN asked[ps] ELSE IF ok THEN Done ELSE 0]

ForwardResult(R, q, ok) ==
    LET S == HttpRequestDone(R, q, ok)
    IN  [S EXCEPT !.error = @ \/ (~ok /\ S.fwds = <<>>), !.asked = Answered(@, q, ok)]

UndoForwardResult(R, q) == [R EXCEPT !.reqs = @ \ {q}]
GetExternalIPResult(R, q, ok) == [R EXCEPT !.reqs = @ \ {q}, !.ip = @ \/ ok]

\* WaitJob::operationFinished: with the last one the job is done.
OperationFinished(op) ==
    LET left == wait.ops \ {op}
    IN  IF wait.ops = {} THEN wait ELSE [on |-> wait.on /\ left # {}, ops |-> left]

ReplyFinished(r, q, ok) ==
    /\ igd' = [igd EXCEPT ![r] = CASE q.kind = "add" -> ForwardResult(@, q, ok)
                                   [] q.kind = "delete" -> UndoForwardResult(@, q)
                                   [] q.kind = "ip" -> GetExternalIPResult(@, q, ok)]
    /\ wait' = OperationFinished(<<r, q>>)

\* The client is about to exit, and does when the job or its timer is done;
\* the job takes the requests it still has with it.
NewWaitJob == ~wait.on /\ wait' = [on |-> TRUE, ops |-> {}] /\ UNCHANGED igd
TimerDone ==
    /\ wait.on /\ wait' = NoWait
    /\ igd' = [r \in Routers |->
                 [igd[r] EXCEPT !.reqs = {q \in @ : <<r, q>> \notin wait.ops}]]

UnNext ==
    \/ \E loc \in Locations : ReadyRead(loc) \/ LoadRouters(loc)
    \/ \E r \in Routers : \/ DownloadFinished(r)
                          \/ \E port \in Ports : Forward(r, port) \/ UndoForward(r, port)
                          \/ \E q \in igd[r].reqs, ok \in BOOLEAN : ReplyFinished(r, q, ok)
    \/ NewWaitJob \/ TimerDone

UnSpec == UnInit /\ [][UnNext]_unVars

-----------------------------------------------------------------------------
(* The forwardings a router object keeps are those that were asked for     *)
(* last: a late result of a request that was replaced or taken back        *)
(* neither settles nor drops a newer one, a pending one has its request on *)
(* the way, and a location has one router (UPnPRouter::forwardResult,      *)
(* UPnPMCastSocket::onXmlFileDownloaded).                                  *)
ForwardingsRight ==
    /\ \A r, s \in Listed : igd[r].loc = igd[s].loc => r = s
    /\ \A r \in Listed, port \in Ports, srv \in Services :
         LET mine == {i \in DOMAIN igd[r].fwds : Same(igd[r].fwds[i], port, srv)}
             asked == igd[r].asked[<<port, srv>>]
         IN  IF asked = 0 THEN mine = {}
             ELSE \E i \in mine :
                    /\ mine = {i}
                    /\ IF asked = Done THEN igd[r].fwds[i].req = 0
                       ELSE /\ igd[r].fwds[i].req = asked
                            /\ Query(asked, "add", port, srv) \in igd[r].reqs
=============================================================================
