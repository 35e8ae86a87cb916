------------------------------ MODULE Trackers ------------------------------
(***************************************************************************)
(* The trackers of a torrent: announcing to each of them, or to one of     *)
(* them when the torrent is private, over HTTP and UDP, the timers that    *)
(* announce again, and the settings saved for the next session.            *)
(* src/src/tracker/{trackermanager,tracker,httptracker,udptracker,         *)
(* udptrackersocket}.cpp. Announces are their events: the URL or datagram  *)
(* built around them, and the peers in the answers, are left out.          *)
(***************************************************************************)
EXTENDS Integers, Sequences, FiniteSets, SequencesExt

CONSTANTS Urls,          \* the trackers there may be
          Udp,           \* those with an udp: URL
          Torrents,      \* [priv, list, custom]: torrents, custom: URLs a user may add
          Rank,          \* tier, then place in the URL order
          MaxFails,      \* bound: failures are counted up to here
          MaxQueue       \* bound: announces or lookups waiting

VARIABLES mgr,   \* TrackerManager: started, priv, curr, trackers, custom
          trk,   \* the Tracker object of each URL
          cfgs   \* the files: trackers (custom URLs), tracker_status (disabled)

tkVars == <<mgr, trk, cfgs>>

None == "none"

ASSUME TrackersAssumption ==
    /\ Udp \subseteq Urls /\ None \notin Urls /\ MaxFails \in Nat \ {0} /\ MaxQueue \in Nat
    /\ Torrents \subseteq [priv : BOOLEAN, list : SUBSET Urls, custom : SUBSET Urls]
    /\ Rank \in [Urls -> Nat] /\ \A a, b \in Urls : a # b => Rank[a] # Rank[b]

Event == {"update", "started", "stopped", "completed"}
Status == {"idle", "announcing", "ok", "error"}

Fresh == [enabled |-> TRUE, started |-> FALSE, event |-> "update", status |-> "idle",
          re |-> FALSE,          \* reannounce_timer runs
          fails |-> 0,
          job |-> None,          \* HTTP: event of active_job
          loose |-> <<>>,        \* HTTP: jobs that run but are no longer active_job
          queue |-> <<>>,        \* HTTP: announce_queue
          resolved |-> FALSE, lookups |-> 0,
          conn |-> FALSE,        \* UDP: connection_id # 0
          tid |-> FALSE,         \* UDP: transaction_id # 0
          out |-> None,          \* UDP: what the socket expects for transaction_id
          timer |-> FALSE,       \* UDP: conn_timer runs
          todo |-> {}]

World == [mgr |-> mgr, trk |-> trk, cfgs |-> cfgs]
TkBecome(W) == mgr' = W.mgr /\ trk' = W.trk /\ cfgs' = W.cfgs
Put(W, t, x) == [W EXCEPT !.trk[t] = x]

(***************************** HTTPTracker *********************************)

\* A job that is still running when active_job is overwritten goes on.
DoAnnounce(x, e) ==
    [x EXCEPT !.loose = IF x.job = None THEN @ ELSE Append(@, x.job),
              !.job = e, !.status = "announcing"]

DoRequestHttp(x) ==
    IF x.job # None THEN [x EXCEPT !.queue = Append(@, x.event)]
    ELSE DoAnnounce(x, x.event)

DoAnnounceQueue(x) ==
    IF x.queue = <<>> THEN x
    ELSE DoAnnounce([x EXCEPT !.queue = Tail(@)], Head(x.queue))

StopHttp(x) ==
    IF x.started
    THEN [DoRequestHttp([x EXCEPT !.re = FALSE, !.event = "stopped"]) EXCEPT !.started = FALSE]
    ELSE [x EXCEPT !.queue = <<>>, !.re = FALSE, !.job = None,
                   !.status = IF x.job # None THEN "idle" ELSE @]

(****************************** UDPTracker *********************************)

SendConnect(x) == [x EXCEPT !.tid = TRUE, !.out = "connect", !.timer = TRUE, !.fails = 0]
SendAnnounce(x) == [x EXCEPT !.todo = @ \ {"announce"}, !.tid = TRUE, !.out = "announce"]
SendScrape(x) == [x EXCEPT !.todo = @ \ {"scrape"}]

\* connectReceived, onResolverResults with a connection.
SendTodo(x) ==
    LET y == IF "announce" \in x.todo THEN SendAnnounce(x) ELSE x
    IN  IF "scrape" \in x.todo THEN SendScrape(y) ELSE y

\* doRequest and scrape: first a lookup, then a connection.
Ask(x, what) ==
    CASE ~x.resolved -> [x EXCEPT !.todo = @ \cup {what}, !.lookups = @ + 1]
      [] x.resolved /\ ~x.conn -> SendConnect([x EXCEPT !.todo = @ \cup {what}])
      [] OTHER -> IF what = "announce" THEN SendAnnounce(x) ELSE SendScrape(x)

DoRequestUdp(x) == [Ask(x, "announce") EXCEPT !.status = "announcing"]

StopUdp(x) ==
    IF x.started
    THEN [DoRequestUdp([x EXCEPT !.event = "stopped", !.re = FALSE, !.timer = FALSE])
            EXCEPT !.started = FALSE]
    ELSE [x EXCEPT !.re = FALSE, !.tid = FALSE,
                   !.out = IF x.tid THEN None ELSE @,
                   !.status = IF x.tid THEN "idle" ELSE @]

(************************* The Tracker interface ***************************)

DoRequest(t, x) ==
    IF t \in Udp THEN DoRequestUdp([x EXCEPT !.timer = FALSE]) ELSE DoRequestHttp(x)
TkStart(t, x) == DoRequest(t, [x EXCEPT !.event = "started"])
TkStop(t, x) == IF t \in Udp THEN StopUdp(x) ELSE StopHttp(x)
Completed(t, x) ==
    LET y == DoRequest(t, [x EXCEPT !.event = "completed"])
    IN  IF t \in Udp THEN y ELSE [y EXCEPT !.event = "update"]
ManualUpdate(t, x) == IF x.started THEN DoRequest(t, x) ELSE TkStart(t, x)
Scrape(t, x) == IF t \in Udp THEN Ask(x, "scrape") ELSE x
\* Mutant: a tracker that failed too often is given up.
GiveUp(x) == IF x.fails < MaxFails THEN [x EXCEPT !.re = TRUE] ELSE x
HandleFailure(x) == [x EXCEPT !.re = TRUE]
Failing(x) == [x EXCEPT !.fails = IF @ < MaxFails THEN @ + 1 ELSE @]

(***************************** TrackerManager ******************************)

\* The enabled tracker with the fewest failures, then the lowest tier.
Before(W, a, b) ==
    LET f == W.trk IN f[a].fails < f[b].fails \/ (f[a].fails = f[b].fails /\ Rank[a] < Rank[b])
SelectTracker(W) ==
    LET on == {t \in W.mgr.trackers : W.trk[t].enabled}
    IN  IF on = {} THEN None
        ELSE CHOOSE t \in on : \A o \in on \ {t} : Before(W, t, o)
SwitchTracker(W, t) == [W EXCEPT !.mgr.curr = t]

StartCurr(W) ==
    IF W.mgr.curr = None THEN W ELSE [W EXCEPT !.trk[W.mgr.curr] = TkStart(W.mgr.curr, @)]

OnTrackerOK(W, t) ==
    IF W.trk[t].started THEN [W EXCEPT !.trk[t] = Scrape(t, @)] ELSE W

OnTrackerError(W, t) ==
    LET n == SelectTracker(W)
        S == SwitchTracker([W EXCEPT !.trk[t] = TkStop(t, @)], n)
    IN  CASE ~W.mgr.started -> W
          [] W.mgr.started /\ (~W.mgr.priv \/ t # W.mgr.curr \/ n = t) ->
                [W EXCEPT !.trk[t] = HandleFailure(@)]
          [] OTHER -> IF S.trk[n].fails > 0 THEN [S EXCEPT !.trk[n] = HandleFailure(@)]
                      ELSE StartCurr(S)

Failed(W, t, x) == OnTrackerError(Put(W, t, [x EXCEPT !.status = "error"]), t)

\* saveCustomURLs, saveTrackerStatus.
SaveCustomURLs(W) == [W EXCEPT !.cfgs.custom = W.mgr.custom]
SaveTrackerStatus(W) ==
    [W EXCEPT !.cfgs.off = {t \in W.mgr.trackers : ~W.trk[t].enabled}]
TkErase(W, t) == [W EXCEPT !.mgr.trackers = @ \ {t}, !.trk[t] = Fresh]

\* The constructor: the trackers of the torrent, the custom ones, which are off.
Load(priv, list, files) ==
    LET all == list \cup files.custom
        W == [mgr |-> [started |-> FALSE, priv |-> priv, curr |-> None, trackers |-> all,
                       list |-> list, custom |-> files.custom],
              trk |-> [t \in Urls |-> [Fresh EXCEPT !.enabled = ~(t \in all /\ t \in files.off)]],
              cfgs |-> files]
    IN  IF priv THEN SwitchTracker(W, SelectTracker(W)) ELSE W

TkInit == \E T \in Torrents :
    \E W \in {Load(T.priv, T.list, [custom |-> {}, off |-> {}])} :
        mgr = W.mgr /\ trk = W.trk /\ cfgs = W.cfgs

\* Unloading the torrent or the end of the process, and loading it again.
TkRestart == \E W \in {Load(mgr.priv, mgr.list, cfgs)} : TkBecome(W)

Enabled == {t \in mgr.trackers : trk[t].enabled}
\* The trackers an operation of the manager is passed on to.
Addressed(S) == IF mgr.priv THEN {mgr.curr} \cap Urls ELSE S
Update(S, Op(_, _)) == [t \in Urls |-> IF t \in S THEN Op(t, trk[t]) ELSE trk[t]]
TkRoom == \A t \in Urls : /\ Len(trk[t].queue) + Len(trk[t].loose) < MaxQueue
                        /\ trk[t].lookups < MaxQueue

StartManager ==
    /\ ~mgr.started /\ TkRoom
    /\ \E W \in {IF mgr.priv /\ mgr.curr = None THEN SwitchTracker(World, SelectTracker(World))
                 ELSE World} :
         TkBecome([(IF mgr.priv THEN StartCurr(W)
                    ELSE [W EXCEPT !.trk = Update(Enabled, TkStart)]) EXCEPT !.mgr.started = TRUE])

\* Tracker::stop, then TrackerInterface::reset for all of them.
StopManager ==
    /\ mgr.started /\ TkRoom
    /\ mgr' = [mgr EXCEPT !.started = FALSE]
    /\ \E f \in {Update(Addressed(mgr.trackers), TkStop)} :
         trk' = [t \in Urls |-> IF t \in mgr.trackers THEN [f[t] EXCEPT !.status = "idle"]
                                ELSE f[t]]
    /\ UNCHANGED cfgs

\* TorrentControl passes these on for a running torrent only.
CompletedAll ==
    /\ mgr.started /\ TkRoom
    /\ trk' = Update(Addressed(mgr.trackers), Completed) /\ UNCHANGED <<mgr, cfgs>>
ManualUpdateAll ==
    /\ mgr.started /\ TkRoom
    /\ trk' = Update(Addressed(Enabled), ManualUpdate) /\ UNCHANGED <<mgr, cfgs>>
ScrapeAll ==
    /\ TkRoom /\ mgr.trackers \cap Udp # {}
    /\ trk' = Update(mgr.trackers, Scrape) /\ UNCHANGED <<mgr, cfgs>>

\* The user interface offers the trackers that are enabled.
SetCurrentTracker(t) ==
    /\ mgr.priv /\ t \in Enabled /\ t # mgr.curr /\ TkRoom
    /\ \E W \in {IF mgr.curr = None THEN World
                 ELSE [World EXCEPT !.trk[mgr.curr] = TkStop(mgr.curr, @)]} :
         TkBecome(StartCurr(SwitchTracker(W, t)))

AddTracker(t) ==
    /\ t \notin mgr.trackers
    /\ TkBecome(SaveTrackerStatus(SaveCustomURLs(
          [World EXCEPT !.mgr.trackers = @ \cup {t}, !.mgr.custom = @ \cup {t},
                        !.trk[t] = Fresh])))

\* A current tracker that is removed says goodbye on its own, and is gone for
\* the manager; the last one of a private torrent would leave curr dangling.
RemoveTracker(t) ==
    /\ t \in mgr.custom /\ TkRoom
    /\ mgr.priv /\ mgr.curr = t => mgr.trackers # {t}
    /\ \E W \in {[TkErase(World, t) EXCEPT !.mgr.custom = @ \ {t}]} :
         TkBecome(SaveCustomURLs(
            IF mgr.priv /\ mgr.curr = t
            THEN StartCurr(SwitchTracker(W, SelectTracker(W))) ELSE W))

RestoreDefault ==
    /\ mgr.custom # {}
    /\ \E W \in {[World EXCEPT !.mgr.trackers = @ \ mgr.custom, !.mgr.custom = {},
                               !.mgr.curr = IF @ \in mgr.custom THEN None ELSE @,
                               !.trk = [t \in Urls |-> IF t \in mgr.custom THEN Fresh ELSE trk[t]]]} :
         TkBecome(SaveCustomURLs(
            IF mgr.priv /\ W.mgr.curr = None THEN SwitchTracker(W, SelectTracker(W)) ELSE W))

SetTrackerEnabled(t) ==
    /\ t \in mgr.trackers /\ TkRoom
    /\ \E W \in {[World EXCEPT !.trk[t].enabled = ~@]} :
       \E V \in {IF trk[t].enabled THEN [W EXCEPT !.trk[t] = TkStop(t, @)] ELSE W} :
         TkBecome(SaveTrackerStatus(
            CASE trk[t].enabled /\ mgr.curr = t -> StartCurr(SwitchTracker(V, SelectTracker(V)))
              [] ~trk[t].enabled /\ ~mgr.priv /\ mgr.started -> [V EXCEPT !.trk[t] = TkStart(t, @)]
              [] OTHER -> V))

(************************** Answers and timers *****************************)

\* onAnnounceResult: an answer, a refusal, or no data (the 60 s timer too).
AnnounceResult(t, x, e, how) ==
    LET ok == [x EXCEPT !.fails = 0, !.status = "ok", !.started = @ \/ e = "started",
                        !.re = @ \/ x.started \/ e = "started"]
        W == CASE e = "stopped" ->
                    Put(World, t, [x EXCEPT !.status = "idle",
                                            !.fails = IF how = "error" THEN @ ELSE 0])
               [] e # "stopped" /\ how = "ok" -> OnTrackerOK(Put(World, t, ok), t)
               [] OTHER -> Failed(World, t, Failing(x))
        cleared == IF e = "stopped" \/ how = "error" THEN W ELSE [W EXCEPT !.trk[t].event = "update"]
    IN  [cleared EXCEPT !.trk[t] = DoAnnounceQueue(@)]

How == {"ok", "refused", "error"}

ActiveResult(t) ==
    /\ trk[t].job # None
    /\ \E how \in How :
         TkBecome(AnnounceResult(t, [trk[t] EXCEPT !.job = None], trk[t].job, how))

\* Its result clears active_job, whichever job that is.
LooseResult(t) ==
    /\ \E i \in DOMAIN trk[t].loose, how \in How :
         \E rest \in {RemoveAt(trk[t].loose, i)} :
            TkBecome(AnnounceResult(t,
               [trk[t] EXCEPT !.job = None,
                              !.loose = IF trk[t].job = None THEN rest ELSE Append(rest, trk[t].job)],
               trk[t].loose[i], how))

\* onScrapeResult (HTTP) of a scrape that went well.
ScrapeResult(t) ==
    /\ t \in mgr.trackers \ Udp /\ trk[t].status = "error"
    /\ TkBecome([World EXCEPT !.trk[t].status = "ok", !.trk[t].fails = 0])

ReannounceTimeout(t) ==
    /\ trk[t].re /\ TkRoom
    /\ TkBecome([World EXCEPT !.trk[t] = ManualUpdate(t, [@ EXCEPT !.re = FALSE])])

\* onResolverResults.
ResolverResult(t) ==
    /\ trk[t].lookups > 0
    /\ \E x \in {[trk[t] EXCEPT !.lookups = @ - 1]} :
       \E r \in {[x EXCEPT !.resolved = TRUE]} :
         \/ TkBecome(Put(World, t, IF r.conn THEN SendTodo(r) ELSE SendConnect(r)))
         \/ TkBecome(Failed(World, t, Failing(x)))

ConnectReceived(t) ==
    /\ trk[t].out = "connect"
    /\ TkBecome(Put(World, t, SendTodo([trk[t] EXCEPT !.out = None, !.conn = TRUE, !.fails = 0])))

AnnounceReceived(t) ==
    /\ trk[t].out = "announce"
    /\ \E x \in {[trk[t] EXCEPT !.out = None, !.conn = FALSE, !.timer = FALSE]} :
         IF x.event = "stopped"
         THEN TkBecome(OnTrackerOK(Put(World, t, [x EXCEPT !.status = "idle"]), t))
         ELSE \E y \in {[x EXCEPT !.started = @ \/ x.event = "started", !.event = "update",
                                  !.status = "ok"]} :
              \E W \in {OnTrackerOK(Put(World, t, y), t)} :
                TkBecome([W EXCEPT !.trk[t].re = @ \/ y.started])

\* An error message, or an answer of another kind than was asked for.
ErrorReceived(t) ==
    /\ trk[t].out # None
    /\ TkBecome(Failed(World, t, [trk[t] EXCEPT !.out = None]))

\* onConnTimeout: the transaction stays open for a late answer.
ConnTimeout(t) ==
    /\ trk[t].timer
    /\ \E x \in {Failing([trk[t] EXCEPT !.timer = FALSE, !.conn = FALSE])} :
         IF trk[t].conn /\ x.event = "stopped"
         THEN TkBecome(Put(World, t, [x EXCEPT !.status = "idle"]))
         ELSE TkBecome(Failed(World, t, x))

TkNext ==
    \/ StartManager \/ StopManager \/ CompletedAll \/ ManualUpdateAll \/ ScrapeAll
    \/ RestoreDefault \/ TkRestart
    \/ \E t \in Urls :
         \/ SetCurrentTracker(t) \/ SetTrackerEnabled(t)
         \/ ActiveResult(t) \/ LooseResult(t) \/ ScrapeResult(t) \/ ReannounceTimeout(t)
         \/ ResolverResult(t) \/ ConnectReceived(t) \/ AnnounceReceived(t)
         \/ ErrorReceived(t) \/ ConnTimeout(t)
    \/ \E T \in Torrents : \E t \in T.custom :
         T.priv = mgr.priv /\ T.list = mgr.list /\ (AddTracker(t) \/ RemoveTracker(t))

TkSpec == TkInit /\ [][TkNext]_tkVars

TkTypeOK ==
    /\ mgr.trackers \subseteq Urls /\ mgr.custom \subseteq mgr.trackers
    /\ mgr.curr \in mgr.trackers \cup {None}
    /\ \A t \in Urls :
         /\ trk[t].event \in Event /\ trk[t].status \in Status /\ trk[t].fails \in 0 .. MaxFails
         /\ trk[t].out \in {None, "connect", "announce"} /\ trk[t].todo \subseteq {"announce", "scrape"}
         /\ trk[t].job \in Event \cup {None} /\ t \in Udp => trk[t].job = None

\* Something is under way that ends in an answer, an error or a timeout.
Waiting(x) == x.job # None \/ x.loose # <<>> \/ x.lookups > 0 \/ x.out # None \/ x.timer

\* A tracker of a started torrent that has accepted us, is being announced to
\* or has failed is never forgotten: an announce is under way, or the timer for the next one runs,
\* whatever order answers, failures, timeouts, switches and user requests
\* come in (handleFailure, onAnnounceResult, announceReceived).
NeverForgotten ==
    TkTypeOK /\ (mgr.started =>
        \A t \in Addressed(Enabled) :
            trk[t].started \/ trk[t].status \in {"announcing", "error"}
                => Waiting(trk[t]) \/ trk[t].re)
=============================================================================
