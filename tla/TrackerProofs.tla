---------------------------- MODULE TrackerProofs ----------------------------
(***************************************************************************)
(* That no tracker of a running torrent is forgotten, for any trackers and *)
(* any torrents: the inductive invariant TkInv and the proof that every    *)
(* step of Trackers keeps it.                                              *)
(***************************************************************************)
EXTENDS Trackers, ListFacts

-----------------------------------------------------------------------------
(* The invariant. *)

\* A Tracker object.
Record == [enabled : BOOLEAN, started : BOOLEAN, event : Event, status : Status, re : BOOLEAN,
           fails : 0 .. MaxFails, job : Event \cup {None}, loose : Seq(Event), queue : Seq(Event),
           resolved : BOOLEAN, lookups : Nat, conn : BOOLEAN, tid : BOOLEAN,
           out : {None, "connect", "announce"}, timer : BOOLEAN,
           todo : SUBSET {"announce", "scrape"}]

\* An object of its class.
Typed(t, x) ==
    /\ x \in Record
    /\ t \in Udp => x.job = None /\ x.loose = <<>> /\ x.queue = <<>>
    /\ t \notin Udp => x.out = None /\ x.lookups = 0 /\ x.timer = FALSE

\* A tracker that has accepted us was not told goodbye since.
Sane(t, x) == Typed(t, x) /\ (x.started => x.event # "stopped")

\* An announce that waits for another one to end.
Queued(x) == x.queue # <<>> => x.job # None

\* Something is under way that ends in a new announce or a timer, whatever
\* its outcome: the goodbye of an HTTP tracker does not.
Useful(t, x) ==
    IF t \in Udp
    THEN x.out = "announce" \/ x.timer \/ ("announce" \in x.todo /\ x.lookups > 0)
    ELSE \/ x.job \in Event \ {"stopped"}
         \/ \E i \in DOMAIN x.loose : x.loose[i] # "stopped"
         \/ \E i \in DOMAIN x.queue : x.queue[i] # "stopped"

\* An HTTP tracker has announces to make.
Pending(x) == x.job # None \/ x.loose # <<>> \/ x.queue # <<>>

Kept(t, x) ==
    \/ x.re \/ Useful(t, x)
    \/ ~x.started /\ (x.status \in {"announcing", "error"} => t \notin Udp /\ Pending(x))

\* The trackers the manager talks to.
Heard(W) == IF W.mgr.priv THEN {W.mgr.curr} \ {None}
            ELSE {t \in W.mgr.trackers : W.trk[t].enabled}

\* The manager and the files.
Manager == [started : BOOLEAN, priv : BOOLEAN, curr : Urls \cup {None}, trackers : SUBSET Urls,
            list : SUBSET Urls, custom : SUBSET Urls]
Files == [custom : SUBSET Urls, off : SUBSET Urls]
Worlds == [mgr : Manager, trk : [Urls -> Record], cfgs : Files]

Fit(W) ==
    /\ W \in Worlds /\ W.mgr.custom \subseteq W.mgr.trackers
    /\ \A t \in Urls : Sane(t, W.trk[t])

\* Only a private torrent has a current tracker, one that is there and enabled.
Current(W) ==
    /\ W.mgr.curr \in W.mgr.trackers \cup {None}
    /\ ~W.mgr.priv => W.mgr.curr = None
    /\ W.mgr.curr # None => W.trk[W.mgr.curr].enabled

\* Every tracker but those of X.
Queues(W, X) == \A t \in Urls \ X : Queued(W.trk[t])
Keeps(W, X) == W.mgr.started => \A t \in Heard(W) \ X : Kept(t, W.trk[t])

Good(W) == Fit(W) /\ Current(W) /\ Queues(W, {}) /\ Keeps(W, {})

TkInv == Good(World)

-----------------------------------------------------------------------------
(* What the operations of a tracker do to its object. *)

LEMMA TrackerConstants ==
    /\ None \notin Urls /\ Udp \subseteq Urls /\ MaxFails \in Nat /\ 0 \in 0 .. MaxFails
    /\ None \notin Event
BY TrackersAssumption DEF None, Event

LEMMA AppendFacts ==
  ASSUME NEW S, NEW s \in Seq(S), NEW e \in S
  PROVE  /\ Append(s, e) \in Seq(S) /\ Append(s, e) # <<>>
         /\ \E i \in DOMAIN Append(s, e) : Append(s, e)[i] = e
         /\ \A k \in DOMAIN s : k \in DOMAIN Append(s, e) /\ Append(s, e)[k] = s[k]
<1>1. /\ Append(s, e) \in Seq(S) /\ Len(Append(s, e)) = Len(s) + 1
      /\ \A i \in 1 .. Len(s) : Append(s, e)[i] = s[i]
      /\ Append(s, e)[Len(s) + 1] = e
  BY AppendProperties
<1>2. Len(s) \in Nat /\ DOMAIN s = 1 .. Len(s) /\ DOMAIN Append(s, e) = 1 .. Len(Append(s, e))
  BY <1>1, LenProperties
<1>3. Append(s, e) # <<>>  BY AppendProperties
<1>4. Len(s) + 1 \in DOMAIN Append(s, e)  BY <1>1, <1>2
<1>5. QED  BY <1>1, <1>2, <1>3, <1>4

\* DoAnnounce makes a job of the event; the job it takes the place of goes on.
LEMMA DoAnnounceFacts ==
  ASSUME NEW t, NEW x, Typed(t, x), t \notin Udp, NEW e \in Event
  PROVE  /\ Typed(t, DoAnnounce(x, e)) /\ Queued(DoAnnounce(x, e)) /\ DoAnnounce(x, e).job = e
         /\ DoAnnounce(x, e).event = x.event /\ DoAnnounce(x, e).started = x.started
         /\ DoAnnounce(x, e).enabled = x.enabled /\ DoAnnounce(x, e).re = x.re
         /\ DoAnnounce(x, e).queue = x.queue
         /\ \A i \in DOMAIN x.loose : /\ i \in DOMAIN DoAnnounce(x, e).loose
                                      /\ DoAnnounce(x, e).loose[i] = x.loose[i]
         /\ x.job # None => \E i \in DOMAIN DoAnnounce(x, e).loose : DoAnnounce(x, e).loose[i] = x.job
<1> DEFINE l == IF x.job = None THEN x.loose ELSE Append(x.loose, x.job)
           y == DoAnnounce(x, e)
<1>1. x \in Record /\ x.out = None /\ x.lookups = 0 /\ x.timer = FALSE  BY DEF Typed
<1>2. x.loose \in Seq(Event) /\ x.job \in Event \cup {None}  BY <1>1 DEF Record
<1>3. /\ l \in Seq(Event)
      /\ \A i \in DOMAIN x.loose : i \in DOMAIN l /\ l[i] = x.loose[i]
      /\ x.job # None => \E i \in DOMAIN l : l[i] = x.job
  <2>1. CASE x.job = None  BY <1>2, <2>1
  <2>2. CASE x.job # None
    <3>1. x.job \in Event /\ l = Append(x.loose, x.job)  BY <1>2, <2>2
    <3>2. QED  BY <1>2, <3>1, AppendFacts
  <2>3. QED  BY <2>1, <2>2
<1>4. y = [x EXCEPT !.loose = l, !.job = e, !.status = "announcing"]  BY DEF DoAnnounce
<1> HIDE DEF l
<1>5. "announcing" \in Status  BY DEF Status
<1> HIDE DEF y
<1>6. /\ y.job = e /\ y.loose = l /\ y.event = x.event /\ y.started = x.started
      /\ y.enabled = x.enabled /\ y.re = x.re /\ y.queue = x.queue /\ y.out = x.out
      /\ y.lookups = x.lookups /\ y.timer = x.timer
  BY <1>1, <1>4 DEF Record
<1>10. y \in Record
  BY <1>1, <1>3, <1>4, <1>5 DEF Record
<1>7. e # None  BY TrackerConstants
<1>8. Typed(t, y) /\ Queued(y)  BY <1>1, <1>6, <1>7, <1>10 DEF Typed, Queued
<1>9. QED  BY <1>3, <1>6, <1>8 DEF y

\* What a request leaves of a tracker.
Requested(t, x, y) ==
    /\ Typed(t, y) /\ y.event = x.event /\ y.started = x.started /\ y.enabled = x.enabled
    /\ Queued(x) => Queued(y)
    /\ x.event # "stopped" => Useful(t, y)

LEMMA RequestHttpFacts ==
  ASSUME NEW t, NEW x, Typed(t, x), t \notin Udp
  PROVE  Requested(t, x, DoRequestHttp(x))
<1> DEFINE y == DoRequestHttp(x)
<1>1. x \in Record /\ x.out = None /\ x.lookups = 0 /\ x.timer = FALSE  BY DEF Typed
<1>2. x.queue \in Seq(Event) /\ x.event \in Event  BY <1>1 DEF Record
<1>3. CASE x.job # None
  <2> DEFINE q == Append(x.queue, x.event)
  <2>1. q \in Seq(Event) /\ \E i \in DOMAIN q : q[i] = x.event  BY <1>2, AppendFacts
  <2>2. y = [x EXCEPT !.queue = q]  BY <1>3 DEF DoRequestHttp
  <2> HIDE DEF y, q
  <2>3. /\ y.event = x.event /\ y.started = x.started /\ y.enabled = x.enabled /\ y.queue = q
        /\ y.job = x.job /\ y.out = x.out /\ y.lookups = x.lookups /\ y.timer = x.timer
    BY <1>1, <2>2 DEF Record
  <2>4. y \in Record  BY <1>1, <2>1, <2>2 DEF Record
  <2>5. Typed(t, y) /\ Queued(y)  BY <1>1, <1>3, <2>3, <2>4 DEF Typed, Queued
  <2>6. x.event # "stopped" => Useful(t, y)  BY <2>1, <2>3 DEF Useful
  <2>7. QED  BY <2>3, <2>5, <2>6 DEF Requested, y
<1>4. CASE x.job = None
  <2>1. y = DoAnnounce(x, x.event)  BY <1>4 DEF DoRequestHttp
  <2>2. /\ Typed(t, y) /\ Queued(y) /\ y.job = x.event /\ y.event = x.event
        /\ y.started = x.started /\ y.enabled = x.enabled
    BY <1>2, <2>1, DoAnnounceFacts
  <2> HIDE DEF y
  <2>3. x.event # "stopped" => Useful(t, y)  BY <1>2, <2>2 DEF Useful
  <2>4. QED  BY <2>2, <2>3 DEF Requested, y
<1>5. QED  BY <1>3, <1>4

\* The next announce of the queue: nothing is lost on the way.
LEMMA DoAnnounceQueueFacts ==
  ASSUME NEW t, NEW x, Sane(t, x)
  PROVE  /\ Sane(t, DoAnnounceQueue(x)) /\ Queued(DoAnnounceQueue(x))
         /\ DoAnnounceQueue(x).enabled = x.enabled
         /\ Kept(t, x) => Kept(t, DoAnnounceQueue(x))
<1> DEFINE y == DoAnnounceQueue(x)
<1>1. CASE x.queue = <<>>
  <2>1. y = x  BY <1>1 DEF DoAnnounceQueue
  <2>2. QED  BY <1>1, <2>1 DEF Queued
<1>2. CASE x.queue # <<>>
  <2>1. x \in Record /\ t \notin Udp /\ Typed(t, x)  BY <1>2 DEF Sane, Typed
  <2>2. x.queue \in Seq(Event) /\ x.loose \in Seq(Event) /\ x.job \in Event \cup {None}
    BY <2>1 DEF Record
  <2> DEFINE e == Head(x.queue)
             q == Tail(x.queue)
             z == [x EXCEPT !.queue = q]
  <2>3. /\ e \in Event /\ q \in Seq(Event)
        /\ \A i \in DOMAIN x.queue : i = 1 \/ (i - 1 \in DOMAIN q /\ q[i - 1] = x.queue[i])
        /\ x.queue[1] = e
    <3>1. /\ e \in Event /\ q \in Seq(Event) /\ Len(q) = Len(x.queue) - 1
          /\ \A i \in 1 .. Len(q) : q[i] = x.queue[i + 1]
          /\ e = x.queue[1]
      BY <1>2, <2>2, HeadTailProperties
    <3>2. Len(x.queue) \in Nat /\ DOMAIN x.queue = 1 .. Len(x.queue) /\ DOMAIN q = 1 .. Len(q)
      BY <2>2, <3>1, LenProperties
    <3> HIDE DEF e, q
    <3>3. ASSUME NEW i \in DOMAIN x.queue, i # 1 PROVE i - 1 \in DOMAIN q /\ q[i - 1] = x.queue[i]
      <4>1. i - 1 \in 1 .. Len(q) /\ (i - 1) + 1 = i  BY <3>1, <3>2, <3>3
      <4>2. QED  BY <3>1, <3>2, <4>1
    <3>4. QED  BY <3>1, <3>3
  <2> HIDE DEF e, q
  <2>4. /\ z.queue = q /\ z.job = x.job /\ z.loose = x.loose /\ z.event = x.event /\ z.re = x.re
        /\ z.started = x.started /\ z.enabled = x.enabled /\ z.out = x.out
        /\ z.lookups = x.lookups /\ z.timer = x.timer
    BY <2>1 DEF Record
  <2>5. z \in Record  BY <2>1, <2>3 DEF Record
  <2>6. y = DoAnnounce(z, e)  BY <1>2 DEF DoAnnounceQueue, e, q
  <2> HIDE DEF z
  <2>7. Typed(t, z)  BY <2>1, <2>4, <2>5 DEF Typed
  <2>8. /\ Typed(t, y) /\ Queued(y) /\ y.job = e /\ y.event = x.event /\ y.started = x.started
        /\ y.enabled = x.enabled /\ y.re = x.re /\ y.queue = q
        /\ \A i \in DOMAIN x.loose : i \in DOMAIN y.loose /\ y.loose[i] = x.loose[i]
        /\ x.job # None => \E i \in DOMAIN y.loose : y.loose[i] = x.job
    BY <2>1, <2>3, <2>4, <2>6, <2>7, DoAnnounceFacts
  <2> HIDE DEF y
  <2>9. Sane(t, y)  BY <2>8 DEF Sane
  <2>10. y.job # None  BY <2>3, <2>8, TrackerConstants
  <2>11. ASSUME Useful(t, x) PROVE Useful(t, y)
    <3>1. CASE x.job \in Event \ {"stopped"}
      <4>1. PICK i \in DOMAIN y.loose : y.loose[i] = x.job  BY <2>8, <3>1, TrackerConstants
      <4>2. QED  BY <2>1, <3>1, <4>1 DEF Useful
    <3>2. ASSUME NEW i \in DOMAIN x.loose, x.loose[i] # "stopped" PROVE Useful(t, y)
      BY <2>1, <2>8, <3>2 DEF Useful
    <3>3. ASSUME NEW i \in DOMAIN x.queue, x.queue[i] # "stopped" PROVE Useful(t, y)
      <4>1. CASE i = 1  BY <2>1, <2>3, <2>8, <3>3, <4>1 DEF Useful
      <4>2. CASE i # 1
        <5>1. i - 1 \in DOMAIN q /\ q[i - 1] # "stopped"  BY <2>3, <3>3, <4>2
        <5>2. QED  BY <2>1, <2>8, <5>1 DEF Useful
      <4>3. QED  BY <4>1, <4>2
    <3>4. QED  BY <2>1, <2>11, <3>1, <3>2, <3>3 DEF Useful
  <2>12. Kept(t, x) => Kept(t, y)  BY <2>1, <2>8, <2>10, <2>11 DEF Kept, Pending
  <2>13. QED  BY <2>8, <2>9, <2>12 DEF y
<1>3. QED  BY <1>1, <1>2

\* What stopping leaves of a tracker.
Stopped(t, x, y) == Sane(t, y) /\ y.enabled = x.enabled /\ (Queued(x) => Queued(y))

LEMMA StopHttpFacts ==
  ASSUME NEW t, NEW x, Sane(t, x), t \notin Udp
  PROVE  Stopped(t, x, StopHttp(x))
<1> DEFINE y == StopHttp(x)
<1>1. x \in Record /\ x.out = None /\ x.lookups = 0 /\ x.timer = FALSE  BY DEF Sane, Typed
<1>2. CASE x.started
  <2> DEFINE z == [x EXCEPT !.re = FALSE, !.event = "stopped"]
             w == DoRequestHttp(z)
  <2>1. "stopped" \in Event  BY DEF Event
  <2>2. /\ z.enabled = x.enabled /\ z.out = x.out /\ z.lookups = x.lookups /\ z.timer = x.timer
        /\ z.queue = x.queue /\ z.job = x.job
    BY <1>1 DEF Record
  <2>3. z \in Record  BY <1>1, <2>1 DEF Record
  <2>4. y = [w EXCEPT !.started = FALSE]  BY <1>2 DEF StopHttp
  <2> HIDE DEF z
  <2>5. Typed(t, z) /\ (Queued(x) => Queued(z))  BY <1>1, <2>2, <2>3 DEF Typed, Queued
  <2>6. Requested(t, z, w)  BY <2>5, RequestHttpFacts
  <2>7. /\ w \in Record /\ w.out = None /\ w.lookups = 0 /\ w.timer = FALSE /\ w.enabled = x.enabled
        /\ Queued(z) => Queued(w)
    BY <2>2, <2>6 DEF Requested, Typed
  <2> HIDE DEF w, y
  <2>8. /\ y.started = FALSE /\ y.enabled = w.enabled /\ y.out = w.out /\ y.lookups = w.lookups
        /\ y.timer = w.timer /\ y.job = w.job /\ y.queue = w.queue
    BY <2>4, <2>7 DEF Record
  <2>9. y \in Record  BY <2>4, <2>7 DEF Record
  <2>10. QED  BY <2>5, <2>7, <2>8, <2>9 DEF Stopped, Sane, Typed, Queued, y
<1>3. CASE ~x.started
  <2> DEFINE st == IF x.job # None THEN "idle" ELSE x.status
  <2>1. st \in Status  BY <1>1 DEF Record, Status
  <2>2. y = [x EXCEPT !.queue = <<>>, !.re = FALSE, !.job = None, !.status = st]
    BY <1>3 DEF StopHttp
  <2>3. <<>> \in Seq(Event)  OBVIOUS
  <2> HIDE DEF st, y
  <2>4. /\ y.started = x.started /\ y.enabled = x.enabled /\ y.out = x.out /\ y.lookups = x.lookups
        /\ y.timer = x.timer /\ y.queue = <<>>
    BY <1>1, <2>2 DEF Record
  <2>5. y \in Record  BY <1>1, <2>1, <2>2, <2>3 DEF Record
  <2>6. QED  BY <1>1, <1>3, <2>4, <2>5 DEF Stopped, Sane, Typed, Queued, y
<1>4. QED  BY <1>2, <1>3

\* What the datagrams of a UDP tracker do not touch.
Sends(x, y) ==
    /\ y \in Record /\ y.job = x.job /\ y.loose = x.loose /\ y.queue = x.queue
    /\ y.event = x.event /\ y.started = x.started /\ y.enabled = x.enabled /\ y.re = x.re
    /\ y.status = x.status

LEMMA SendConnectFacts ==
  ASSUME NEW x \in Record
  PROVE  /\ Sends(x, SendConnect(x)) /\ SendConnect(x).timer = TRUE /\ SendConnect(x).todo = x.todo
         /\ SendConnect(x).lookups = x.lookups
<1> DEFINE y == SendConnect(x)
<1>1. y = [x EXCEPT !.tid = TRUE, !.out = "connect", !.timer = TRUE, !.fails = 0]  BY DEF SendConnect
<1> HIDE DEF y
<1>2. 0 \in 0 .. MaxFails  BY TrackerConstants
<1>3. y \in Record  BY <1>1, <1>2 DEF Record
<1>4. QED  BY <1>1, <1>3 DEF Sends, Record, y

LEMMA SendAnnounceFacts ==
  ASSUME NEW x \in Record
  PROVE  /\ Sends(x, SendAnnounce(x)) /\ SendAnnounce(x).out = "announce"
         /\ SendAnnounce(x).timer = x.timer /\ SendAnnounce(x).lookups = x.lookups
<1> DEFINE y == SendAnnounce(x)
           td == x.todo \ {"announce"}
<1>1. y = [x EXCEPT !.todo = td, !.tid = TRUE, !.out = "announce"]  BY DEF SendAnnounce
<1>2. td \in SUBSET {"announce", "scrape"}  BY DEF Record
<1> HIDE DEF y, td
<1>3. y \in Record  BY <1>1, <1>2 DEF Record
<1>4. QED  BY <1>1, <1>3 DEF Sends, Record, y

LEMMA SendScrapeFacts ==
  ASSUME NEW x \in Record
  PROVE  /\ Sends(x, SendScrape(x)) /\ SendScrape(x).out = x.out
         /\ SendScrape(x).timer = x.timer /\ SendScrape(x).lookups = x.lookups
         /\ SendScrape(x).todo = x.todo \ {"scrape"}
<1> DEFINE y == SendScrape(x)
           td == x.todo \ {"scrape"}
<1>1. y = [x EXCEPT !.todo = td]  BY DEF SendScrape
<1>2. td \in SUBSET {"announce", "scrape"}  BY DEF Record
<1>5. td = x.todo \ {"scrape"}  OBVIOUS
<1> HIDE DEF y, td
<1>3. y \in Record  BY <1>1, <1>2 DEF Record
<1>4. QED  BY <1>1, <1>3, <1>5 DEF Sends, Record, y

\* A connection that is made sends the announce that waits for it, if any.
LEMMA SendTodoFacts ==
  ASSUME NEW x \in Record
  PROVE  /\ Sends(x, SendTodo(x)) /\ SendTodo(x).timer = x.timer
         /\ "announce" \in x.todo => SendTodo(x).out = "announce"
         /\ "announce" \notin x.todo => SendTodo(x).out = x.out
<1> DEFINE y == IF "announce" \in x.todo THEN SendAnnounce(x) ELSE x
           z == SendTodo(x)
<1>1. /\ Sends(x, y) /\ y.timer = x.timer
      /\ "announce" \in x.todo => y.out = "announce"
      /\ "announce" \notin x.todo => y.out = x.out
  <2>1. CASE "announce" \in x.todo  BY <2>1, SendAnnounceFacts
  <2>2. CASE "announce" \notin x.todo  BY <2>2 DEF Sends
  <2>3. QED  BY <2>1, <2>2
<1>2. z = IF "scrape" \in x.todo THEN SendScrape(y) ELSE y  BY DEF SendTodo
<1> HIDE DEF y
<1>3. y \in Record  BY <1>1 DEF Sends
<1>4. CASE "scrape" \in x.todo
  <2>1. z = SendScrape(y) /\ Sends(y, SendScrape(y)) /\ SendScrape(y).out = y.out
        /\ SendScrape(y).timer = y.timer
    BY <1>2, <1>3, <1>4, SendScrapeFacts
  <2> HIDE DEF z
  <2>2. Sends(x, z)  BY <1>1, <2>1 DEF Sends
  <2>3. QED  BY <1>1, <2>1, <2>2 DEF z
<1>5. CASE "scrape" \notin x.todo
  <2>1. z = y  BY <1>2, <1>5
  <2> HIDE DEF z
  <2>2. QED  BY <1>1, <2>1 DEF z
<1>6. QED  BY <1>4, <1>5

\* An announce or a scrape is asked for: at once, over a new connection, or
\* after a lookup. What was under way still is.
LEMMA AskFacts ==
  ASSUME NEW t \in Udp, NEW x \in Record, NEW what \in {"announce", "scrape"}
  PROVE  /\ Sends(x, Ask(x, what))
         /\ what = "announce" => Useful(t, Ask(x, what))
         /\ Useful(t, x) => Useful(t, Ask(x, what))
<1> DEFINE y == Ask(x, what)
           td == x.todo \cup {what}
           n == x.lookups + 1
           z == [x EXCEPT !.todo = td]
<1>1. td \in SUBSET {"announce", "scrape"} /\ n \in Nat /\ n > 0 /\ x.lookups \in Nat  BY DEF Record
<1>2. CASE ~x.resolved
  <2>1. y = [x EXCEPT !.todo = td, !.lookups = n]  BY <1>2 DEF Ask
  <2>2. what \in td /\ x.todo \subseteq td  OBVIOUS
  <2> HIDE DEF y, td, n
  <2>3. y \in Record  BY <1>1, <2>1 DEF Record
  <2>4. Sends(x, y) /\ y.out = x.out /\ y.timer = x.timer /\ y.todo = td /\ y.lookups = n
    BY <2>1, <2>3 DEF Sends, Record
  <2>5. QED  BY <1>1, <2>2, <2>4 DEF Useful, y
<1>3. CASE x.resolved /\ ~x.conn
  <2>1. y = SendConnect(z)  BY <1>3 DEF Ask
  <2> HIDE DEF td
  <2>2. z \in Record  BY <1>1 DEF Record
  <2>3. Sends(x, z)  BY <2>2 DEF Sends, Record
  <2> HIDE DEF z
  <2>4. Sends(z, y) /\ y.timer = TRUE  BY <2>1, <2>2, SendConnectFacts
  <2> HIDE DEF y
  <2>5. Sends(x, y)  BY <2>3, <2>4 DEF Sends
  <2>6. QED  BY <2>4, <2>5 DEF Useful, y
<1>4. CASE x.resolved /\ x.conn
  <2>1. y = IF what = "announce" THEN SendAnnounce(x) ELSE SendScrape(x)  BY <1>4 DEF Ask
  <2>2. CASE what = "announce"
    <3>1. Sends(x, y) /\ y.out = "announce"  BY <2>1, <2>2, SendAnnounceFacts
    <3> HIDE DEF y
    <3>2. QED  BY <3>1 DEF Useful, y
  <2>3. CASE what = "scrape"
    <3>1. /\ Sends(x, y) /\ y.out = x.out /\ y.timer = x.timer /\ y.lookups = x.lookups
          /\ y.todo = x.todo \ {"scrape"}
      BY <2>1, <2>3, SendScrapeFacts
    <3> HIDE DEF y
    <3>2. QED  BY <2>3, <3>1 DEF Useful, y
  <2>4. QED  BY <2>2, <2>3
<1>5. x.resolved \in BOOLEAN /\ x.conn \in BOOLEAN  BY DEF Record
<1>6. QED  BY <1>2, <1>3, <1>4, <1>5

LEMMA RequestUdpFacts ==
  ASSUME NEW t \in Udp, NEW x, Typed(t, x)
  PROVE  Requested(t, x, DoRequestUdp(x)) /\ Useful(t, DoRequestUdp(x))
<1> DEFINE z == Ask(x, "announce")
           y == DoRequestUdp(x)
<1>1. x \in Record /\ x.job = None /\ x.loose = <<>> /\ x.queue = <<>>  BY DEF Typed
<1>2. Sends(x, z) /\ Useful(t, z)  BY <1>1, AskFacts
<1>3. y = [z EXCEPT !.status = "announcing"]  BY DEF DoRequestUdp
<1>4. "announcing" \in Status  BY DEF Status
<1> HIDE DEF y, z
<1>5. z \in Record  BY <1>2 DEF Sends
<1>6. /\ y.job = z.job /\ y.loose = z.loose /\ y.queue = z.queue /\ y.event = z.event
      /\ y.started = z.started /\ y.enabled = z.enabled /\ y.out = z.out /\ y.timer = z.timer
      /\ y.todo = z.todo /\ y.lookups = z.lookups
  BY <1>3, <1>5 DEF Record
<1>7. y \in Record  BY <1>3, <1>4, <1>5 DEF Record
<1>8. Useful(t, y)  BY <1>2, <1>6 DEF Useful
<1>9. Typed(t, y) /\ Queued(y)  BY <1>1, <1>2, <1>6, <1>7 DEF Typed, Queued, Sends
<1>10. QED  BY <1>2, <1>6, <1>8, <1>9 DEF Requested, Sends, y

LEMMA StopUdpFacts ==
  ASSUME NEW t \in Udp, NEW x, Sane(t, x)
  PROVE  Stopped(t, x, StopUdp(x))
<1> DEFINE y == StopUdp(x)
<1>1. x \in Record /\ x.job = None /\ x.loose = <<>> /\ x.queue = <<>>  BY DEF Sane, Typed
<1>2. CASE x.started
  <2> DEFINE z == [x EXCEPT !.event = "stopped", !.re = FALSE, !.timer = FALSE]
             w == DoRequestUdp(z)
  <2>1. "stopped" \in Event  BY DEF Event
  <2>2. z.enabled = x.enabled /\ z.job = x.job /\ z.loose = x.loose /\ z.queue = x.queue
    BY <1>1 DEF Record
  <2>3. z \in Record  BY <1>1, <2>1 DEF Record
  <2>4. y = [w EXCEPT !.started = FALSE]  BY <1>2 DEF StopUdp
  <2> HIDE DEF z
  <2>5. Typed(t, z)  BY <1>1, <2>2, <2>3 DEF Typed
  <2>6. Requested(t, z, w)  BY <2>5, RequestUdpFacts
  <2>7. w \in Record /\ w.job = None /\ w.loose = <<>> /\ w.queue = <<>> /\ w.enabled = x.enabled
    BY <2>2, <2>6 DEF Requested, Typed
  <2> HIDE DEF w, y
  <2>8. /\ y.started = FALSE /\ y.enabled = w.enabled /\ y.job = w.job /\ y.loose = w.loose
        /\ y.queue = w.queue
    BY <2>4, <2>7 DEF Record
  <2>9. y \in Record  BY <2>4, <2>7 DEF Record
  <2>10. QED  BY <2>7, <2>8, <2>9 DEF Stopped, Sane, Typed, Queued, y
<1>3. CASE ~x.started
  <2> DEFINE st == IF x.tid THEN "idle" ELSE x.status
             o == IF x.tid THEN None ELSE x.out
  <2>1. st \in Status /\ o \in {None, "connect", "announce"}  BY <1>1 DEF Record, Status
  <2>2. y = [x EXCEPT !.re = FALSE, !.tid = FALSE, !.out = o, !.status = st]
    BY <1>3 DEF StopUdp
  <2> HIDE DEF st, o, y
  <2>4. /\ y.started = x.started /\ y.enabled = x.enabled /\ y.job = x.job /\ y.loose = x.loose
        /\ y.queue = x.queue
    BY <1>1, <2>2 DEF Record
  <2>5. y \in Record  BY <1>1, <2>1, <2>2 DEF Record
  <2>6. QED  BY <1>1, <1>3, <2>4, <2>5 DEF Stopped, Sane, Typed, Queued, y
<1>4. QED  BY <1>2, <1>3

-----------------------------------------------------------------------------
(* The interface of both classes. *)

LEMMA DoRequestFacts ==
  ASSUME NEW t, NEW x, Typed(t, x)
  PROVE  Requested(t, x, DoRequest(t, x))
<1>1. CASE t \in Udp
  <2> DEFINE z == [x EXCEPT !.timer = FALSE]
  <2>1. x \in Record /\ x.job = None /\ x.loose = <<>> /\ x.queue = <<>>  BY <1>1 DEF Typed
  <2>2. /\ z.job = x.job /\ z.loose = x.loose /\ z.queue = x.queue /\ z.event = x.event
        /\ z.started = x.started /\ z.enabled = x.enabled
    BY <2>1 DEF Record
  <2>3. z \in Record  BY <2>1 DEF Record
  <2>4. DoRequest(t, x) = DoRequestUdp(z)  BY <1>1 DEF DoRequest
  <2> HIDE DEF z
  <2>5. Typed(t, z)  BY <1>1, <2>1, <2>2, <2>3 DEF Typed
  <2>6. Requested(t, z, DoRequest(t, x))  BY <1>1, <2>4, <2>5, RequestUdpFacts
  <2>7. QED  BY <2>2, <2>6 DEF Requested, Queued
<1>2. CASE t \notin Udp
  <2>1. DoRequest(t, x) = DoRequestHttp(x)  BY <1>2 DEF DoRequest
  <2>2. QED  BY <1>2, <2>1, RequestHttpFacts
<1>3. QED  BY <1>1, <1>2

LEMMA TkStopFacts ==
  ASSUME NEW t, NEW x, Sane(t, x)
  PROVE  Stopped(t, x, TkStop(t, x))
<1>1. CASE t \in Udp  BY <1>1, StopUdpFacts DEF TkStop
<1>2. CASE t \notin Udp  BY <1>2, StopHttpFacts DEF TkStop
<1>3. QED  BY <1>1, <1>2

\* What an announce leaves of a tracker.
Announced(t, x, y) ==
    /\ Sane(t, y) /\ y.enabled = x.enabled /\ Useful(t, y)
    /\ Queued(x) => Queued(y)

\* An announce of an event that is not the goodbye.
LEMMA EventFacts ==
  ASSUME NEW t, NEW x, Typed(t, x), NEW e \in Event \ {"stopped"}
  PROVE  /\ Announced(t, x, DoRequest(t, [x EXCEPT !.event = e]))
         /\ DoRequest(t, [x EXCEPT !.event = e]).event = e
<1> DEFINE z == [x EXCEPT !.event = e]
           y == DoRequest(t, z)
<1>1. x \in Record  BY DEF Typed
<1>2. /\ z.job = x.job /\ z.loose = x.loose /\ z.queue = x.queue /\ z.event = e
      /\ z.enabled = x.enabled /\ z.out = x.out /\ z.lookups = x.lookups /\ z.timer = x.timer
  BY <1>1 DEF Record
<1>3. z \in Record  BY <1>1 DEF Record
<1> HIDE DEF z
<1>4. Typed(t, z)  BY <1>2, <1>3 DEF Typed
<1>5. Requested(t, z, y)  BY <1>4, DoRequestFacts
<1> HIDE DEF y
<1>6. QED  BY <1>2, <1>5 DEF Requested, Announced, Sane, Queued, y, z

LEMMA TkStartFacts ==
  ASSUME NEW t, NEW x, Sane(t, x)
  PROVE  Announced(t, x, TkStart(t, x))
<1>1. Typed(t, x) /\ "started" \in Event \ {"stopped"}  BY DEF Sane, Event
<1>2. QED  BY <1>1, EventFacts DEF TkStart

LEMMA CompletedFacts ==
  ASSUME NEW t, NEW x, Sane(t, x)
  PROVE  Announced(t, x, Completed(t, x))
<1> DEFINE y == DoRequest(t, [x EXCEPT !.event = "completed"])
           z == [y EXCEPT !.event = "update"]
<1>1. Typed(t, x) /\ "completed" \in Event \ {"stopped"} /\ "update" \in Event  BY DEF Sane, Event
<1>2. Announced(t, x, y)  BY <1>1, EventFacts
<1>3. Completed(t, x) = IF t \in Udp THEN y ELSE z  BY DEF Completed
<1> HIDE DEF y
<1>4. y \in Record /\ Typed(t, y)  BY <1>2 DEF Announced, Sane, Typed
<1>5. /\ z.job = y.job /\ z.loose = y.loose /\ z.queue = y.queue /\ z.event = "update"
      /\ z.enabled = y.enabled /\ z.out = y.out /\ z.lookups = y.lookups /\ z.timer = y.timer
      /\ z.todo = y.todo
  BY <1>4 DEF Record
<1>6. z \in Record  BY <1>1, <1>4 DEF Record
<1> HIDE DEF z
<1>7. Sane(t, z)  BY <1>4, <1>5, <1>6 DEF Sane, Typed
<1>8. Useful(t, z) /\ (Queued(x) => Queued(z))  BY <1>2, <1>5 DEF Announced, Useful, Queued
<1>9. Announced(t, x, z)  BY <1>2, <1>5, <1>7, <1>8 DEF Announced
<1>10. QED  BY <1>2, <1>3, <1>9

LEMMA ManualUpdateFacts ==
  ASSUME NEW t, NEW x, Sane(t, x)
  PROVE  Announced(t, x, ManualUpdate(t, x))
<1>1. CASE x.started
  <2>1. Requested(t, x, DoRequest(t, x)) /\ x.event # "stopped"  BY <1>1, DoRequestFacts DEF Sane
  <2>2. ManualUpdate(t, x) = DoRequest(t, x)  BY <1>1 DEF ManualUpdate
  <2>3. QED  BY <2>1, <2>2 DEF Requested, Announced, Sane
<1>2. CASE ~x.started
  <2>1. ManualUpdate(t, x) = TkStart(t, x)  BY <1>2 DEF ManualUpdate
  <2>2. QED  BY <2>1, TkStartFacts
<1>3. QED  BY <1>1, <1>2

LEMMA ScrapeFacts ==
  ASSUME NEW t, NEW x, Sane(t, x)
  PROVE  /\ Sane(t, Scrape(t, x)) /\ Scrape(t, x).enabled = x.enabled
         /\ Queued(x) => Queued(Scrape(t, x))
         /\ Kept(t, x) => Kept(t, Scrape(t, x))
         /\ Scrape(t, x).started = x.started /\ Scrape(t, x).re = x.re
         /\ Scrape(t, x).status = x.status
<1> DEFINE y == Scrape(t, x)
<1>1. CASE t \notin Udp  BY <1>1 DEF Scrape
<1>2. CASE t \in Udp
  <2>1. y = Ask(x, "scrape")  BY <1>2 DEF Scrape
  <2>2. x \in Record /\ x.job = None /\ x.loose = <<>> /\ x.queue = <<>>  BY <1>2 DEF Sane, Typed
  <2>3. Sends(x, y) /\ (Useful(t, x) => Useful(t, y))  BY <1>2, <2>1, <2>2, AskFacts
  <2> HIDE DEF y
  <2>4. Sane(t, y) /\ Queued(y)  BY <1>2, <2>2, <2>3 DEF Sane, Typed, Sends, Queued
  <2>5. Kept(t, x) => Kept(t, y)  BY <1>2, <2>3 DEF Kept, Sends
  <2>6. QED  BY <2>3, <2>4, <2>5 DEF Sends, y
<1>3. QED  BY <1>1, <1>2

\* The timer of a failure.
LEMMA HandleFailureFacts ==
  ASSUME NEW t, NEW x, Sane(t, x)
  PROVE  /\ Sane(t, HandleFailure(x)) /\ HandleFailure(x).enabled = x.enabled
         /\ Kept(t, HandleFailure(x)) /\ HandleFailure(x).re = TRUE
         /\ Queued(x) => Queued(HandleFailure(x))
<1> DEFINE y == HandleFailure(x)
<1>1. x \in Record  BY DEF Sane, Typed
<1>2. y = [x EXCEPT !.re = TRUE]  BY DEF HandleFailure
<1> HIDE DEF y
<1>3. /\ y.job = x.job /\ y.loose = x.loose /\ y.queue = x.queue /\ y.event = x.event
      /\ y.enabled = x.enabled /\ y.out = x.out /\ y.lookups = x.lookups /\ y.timer = x.timer
      /\ y.started = x.started /\ y.re = TRUE
  BY <1>1, <1>2 DEF Record
<1>4. y \in Record  BY <1>1, <1>2 DEF Record
<1>5. QED  BY <1>3, <1>4 DEF Sane, Typed, Queued, Kept, y

LEMMA FailingFacts ==
  ASSUME NEW t, NEW x, Sane(t, x)
  PROVE  /\ Sane(t, Failing(x)) /\ Failing(x).enabled = x.enabled
         /\ Queued(x) => Queued(Failing(x))
<1> DEFINE y == Failing(x)
           n == IF x.fails < MaxFails THEN x.fails + 1 ELSE x.fails
<1>1. x \in Record  BY DEF Sane, Typed
<1>2. n \in 0 .. MaxFails
  <2>1. x.fails \in 0 .. MaxFails  BY <1>1 DEF Record
  <2>2. QED  BY <2>1, TrackerConstants
<1>3. y = [x EXCEPT !.fails = n]  BY DEF Failing
<1> HIDE DEF y, n
<1>4. /\ y.job = x.job /\ y.loose = x.loose /\ y.queue = x.queue /\ y.event = x.event
      /\ y.enabled = x.enabled /\ y.out = x.out /\ y.lookups = x.lookups /\ y.timer = x.timer
      /\ y.started = x.started
  BY <1>1, <1>3 DEF Record
<1>5. y \in Record  BY <1>1, <1>2, <1>3 DEF Record
<1>6. QED  BY <1>4, <1>5 DEF Sane, Typed, Queued, y

\* A Tracker object that was just made.
LEMMA FreshFacts ==
  ASSUME NEW t, NEW on \in BOOLEAN
  PROVE  LET x == [Fresh EXCEPT !.enabled = on]
         IN  Sane(t, x) /\ Queued(x) /\ Kept(t, x) /\ x.enabled = on
<1> DEFINE x == [Fresh EXCEPT !.enabled = on]
<1>1. "update" \in Event /\ "idle" \in Status /\ <<>> \in Seq(Event)  BY DEF Event, Status
<1>2. 0 \in 0 .. MaxFails  BY TrackerConstants
<1>3. x \in Record  BY <1>1, <1>2 DEF Fresh, Record
<1>4. /\ x.job = None /\ x.loose = <<>> /\ x.queue = <<>> /\ x.out = None /\ x.lookups = 0
      /\ x.timer = FALSE /\ x.started = FALSE /\ x.status = "idle" /\ x.enabled = on
  BY DEF Fresh
<1> HIDE DEF x
<1>5. Sane(t, x) /\ Queued(x) /\ Kept(t, x)  BY <1>3, <1>4 DEF Sane, Typed, Queued, Kept
<1>6. QED  BY <1>4, <1>5 DEF x

-----------------------------------------------------------------------------
(* What the manager does. *)

LEMMA WorldFacts ==
  ASSUME NEW W, Fit(W)
  PROVE  /\ W.mgr \in Manager /\ W.trk \in [Urls -> Record] /\ W.cfgs \in Files
         /\ W.mgr.trackers \subseteq Urls /\ W.mgr.custom \subseteq W.mgr.trackers
         /\ W.mgr.priv \in BOOLEAN /\ W.mgr.started \in BOOLEAN
         /\ W.mgr.curr \in Urls \cup {None} /\ None \notin Urls
         /\ Heard(W) \subseteq Urls
<1>1. W.mgr \in Manager /\ W.trk \in [Urls -> Record] /\ W.cfgs \in Files  BY DEF Fit, Worlds
<1>2. /\ W.mgr.trackers \subseteq Urls /\ W.mgr.priv \in BOOLEAN /\ W.mgr.started \in BOOLEAN
      /\ W.mgr.curr \in Urls \cup {None}
  BY <1>1 DEF Manager
<1>3. Heard(W) \subseteq Urls  BY <1>2 DEF Heard
<1>4. QED  BY <1>1, <1>2, <1>3, TrackerConstants DEF Fit

\* A tracker object changes and stays enabled or disabled.
Replaced(W, t, x, V) ==
    /\ Fit(V) /\ V.mgr = W.mgr /\ V.cfgs = W.cfgs /\ V.trk = [W.trk EXCEPT ![t] = x]
    /\ V.trk[t] = x /\ \A o \in Urls \ {t} : V.trk[o] = W.trk[o]
    /\ Current(W) => Current(V)
    /\ Heard(V) = Heard(W)
    /\ Queues(W, {t}) => Queues(V, {t})
    /\ Queues(W, {t}) /\ Queued(x) => Queues(V, {})
    /\ Keeps(W, {t}) => Keeps(V, {t})
    /\ Keeps(W, {t}) /\ (W.mgr.started /\ t \in Heard(W) => Kept(t, x)) => Keeps(V, {})

LEMMA PutFacts ==
  ASSUME NEW W, Fit(W), NEW t \in Urls, NEW x, Sane(t, x), x.enabled = W.trk[t].enabled
  PROVE  Replaced(W, t, x, Put(W, t, x))
<1> DEFINE V == Put(W, t, x)
<1>1. /\ W \in Worlds /\ W.trk \in [Urls -> Record] /\ W.mgr.trackers \subseteq Urls
      /\ Heard(W) \subseteq Urls /\ W.mgr.curr \in Urls \cup {None}
  BY WorldFacts DEF Fit
<1>2. x \in Record  BY DEF Sane, Typed
<1>3. V.mgr = W.mgr /\ V.cfgs = W.cfgs /\ V.trk = [W.trk EXCEPT ![t] = x]  BY <1>1 DEF Worlds, Put
<1>4. V.trk[t] = x /\ V.trk \in [Urls -> Record] /\ \A o \in Urls \ {t} : V.trk[o] = W.trk[o]
  BY <1>1, <1>2, <1>3
<1>5. V \in Worlds
  <2> DEFINE f == [W.trk EXCEPT ![t] = x]
  <2>1. f \in [Urls -> Record]  BY <1>3, <1>4
  <2> HIDE DEF f
  <2>2. V = [W EXCEPT !.trk = f]  BY DEF f, Put
  <2>3. QED  BY <1>1, <2>1, <2>2 DEF Worlds
<1>6. \A o \in Urls : V.trk[o].enabled = W.trk[o].enabled  BY <1>4
<1>7. Fit(V)
  <2>1. \A o \in Urls : Sane(o, V.trk[o])  BY <1>4 DEF Fit
  <2>2. QED  BY <1>3, <1>5, <2>1 DEF Fit
<1>8. Current(W) => Current(V)  BY <1>1, <1>3, <1>6 DEF Current
<1>9. Heard(V) = Heard(W)  BY <1>1, <1>3, <1>6 DEF Heard
<1>10. Queues(W, {t}) => Queues(V, {t})  BY <1>4 DEF Queues
<1>11. Queues(W, {t}) /\ Queued(x) => Queues(V, {})  BY <1>4 DEF Queues
<1>12. Keeps(W, {t}) => Keeps(V, {t})  BY <1>1, <1>3, <1>4, <1>9 DEF Keeps
<1>13. Keeps(W, {t}) /\ (W.mgr.started /\ t \in Heard(W) => Kept(t, x)) => Keeps(V, {})
  BY <1>1, <1>3, <1>4, <1>9 DEF Keeps
<1> HIDE DEF V
<1>14. QED  BY <1>3, <1>4, <1>7, <1>8, <1>9, <1>10, <1>11, <1>12, <1>13 DEF Replaced, V

\* A private torrent that has an enabled tracker is offered one of them.
LEMMA SelectFacts ==
  ASSUME NEW W, Fit(W)
  PROVE  LET on == {t \in W.mgr.trackers : W.trk[t].enabled}
         IN  IF on = {} THEN SelectTracker(W) = None ELSE SelectTracker(W) \in on
<1> DEFINE on == {t \in W.mgr.trackers : W.trk[t].enabled}
           f == W.trk
<1>1. on \subseteq Urls /\ f \in [Urls -> Record]  BY WorldFacts
<1>2. CASE on = {}
  <2>1. SelectTracker(W) = None  BY <1>2 DEF SelectTracker
  <2>2. QED  BY <1>2, <2>1
<1>3. CASE on # {}
  <2>1. \A t \in on : f[t].fails \in Nat /\ Rank[t] \in Nat
    <3>1. \A t \in Urls : f[t].fails \in 0 .. MaxFails  BY <1>1 DEF Record
    <3>2. QED  BY <1>1, <3>1, TrackersAssumption
  <2> DEFINE F == {f[t].fails : t \in on}
  <2>2. F \in SUBSET Nat /\ F # {}  BY <1>3, <2>1
  <2>3. PICK m \in F : \A k \in F : m <= k  BY <2>2, LeastNat
  <2> DEFINE G == {t \in on : f[t].fails = m}
             R == {Rank[t] : t \in G}
  <2>4. R \in SUBSET Nat /\ R # {}  BY <2>1, <2>3
  <2>5. PICK r \in R : \A k \in R : r <= k  BY <2>4, LeastNat
  <2>6. PICK t \in G : Rank[t] = r  BY <2>5
  <2>7. ASSUME NEW o \in on \ {t} PROVE Before(W, t, o)
    <3>1. f[t].fails = m /\ m \in Nat /\ f[o].fails \in Nat /\ m <= f[o].fails  BY <2>1, <2>3, <2>6
    <3>2. CASE f[o].fails = m
      <4>1. Rank[t] <= Rank[o] /\ Rank[t] \in Nat /\ Rank[o] \in Nat  BY <2>1, <2>5, <2>6, <3>2
      <4>2. Rank[t] # Rank[o]  BY <1>1, <2>6, TrackersAssumption
      <4>3. QED  BY <3>1, <3>2, <4>1, <4>2 DEF Before
    <3>3. CASE f[o].fails # m  BY <3>1, <3>3 DEF Before
    <3>4. QED  BY <3>2, <3>3
  <2>8. \E t1 \in on : \A o \in on \ {t1} : Before(W, t1, o)  BY <2>6, <2>7
  <2>9. SelectTracker(W) = CHOOSE t1 \in on : \A o \in on \ {t1} : Before(W, t1, o)
    BY <1>3, Zenon DEF SelectTracker
  <2> HIDE DEF on
  <2>10. SelectTracker(W) \in on  BY <2>8, <2>9
  <2>11. QED  BY <1>3, <2>10 DEF on
<1>4. QED  BY <1>2, <1>3

\* Another current tracker, or none.
LEMMA SwitchFacts ==
  ASSUME NEW W, Fit(W), W.mgr.priv,
         NEW n, n = None \/ (n \in W.mgr.trackers /\ W.trk[n].enabled)
  PROVE  /\ Fit(SwitchTracker(W, n)) /\ Current(SwitchTracker(W, n))
         /\ SwitchTracker(W, n).trk = W.trk /\ SwitchTracker(W, n).cfgs = W.cfgs
         /\ SwitchTracker(W, n).mgr.curr = n /\ SwitchTracker(W, n).mgr.priv = W.mgr.priv
         /\ SwitchTracker(W, n).mgr.started = W.mgr.started
         /\ SwitchTracker(W, n).mgr.trackers = W.mgr.trackers
         /\ SwitchTracker(W, n).mgr.custom = W.mgr.custom
<1> DEFINE V == SwitchTracker(W, n)
           m == [W.mgr EXCEPT !.curr = n]
<1>1. W \in Worlds /\ W.mgr \in Manager /\ W.mgr.trackers \subseteq Urls  BY WorldFacts DEF Fit
<1>2. V = [W EXCEPT !.mgr = m]  BY DEF SwitchTracker
<1>3. m \in Manager /\ m.curr = n /\ m.priv = W.mgr.priv /\ m.started = W.mgr.started
      /\ m.trackers = W.mgr.trackers /\ m.custom = W.mgr.custom
  BY <1>1 DEF Manager
<1> HIDE DEF V, m
<1>4. V.trk = W.trk /\ V.cfgs = W.cfgs /\ V.mgr = m /\ V \in Worlds  BY <1>1, <1>2, <1>3 DEF Worlds
<1>5. Fit(V)  BY <1>3, <1>4 DEF Fit
<1>6. Current(V)  BY <1>3, <1>4 DEF Current
<1>7. QED  BY <1>3, <1>4, <1>5, <1>6 DEF V

\* The current tracker is announced to: the only one the manager talks to.
LEMMA StartCurrFacts ==
  ASSUME NEW W, Fit(W), Current(W), W.mgr.priv
  PROVE  /\ Fit(StartCurr(W)) /\ Current(StartCurr(W)) /\ Keeps(StartCurr(W), {})
         /\ StartCurr(W).mgr = W.mgr /\ StartCurr(W).cfgs = W.cfgs
         /\ Heard(StartCurr(W)) = Heard(W)
         /\ \A t \in Heard(W) : Kept(t, StartCurr(W).trk[t])
         /\ \A o \in Urls \ {W.mgr.curr} : StartCurr(W).trk[o] = W.trk[o]
         /\ W.mgr.curr # None /\ Queued(W.trk[W.mgr.curr]) => Queued(StartCurr(W).trk[W.mgr.curr])
<1> DEFINE V == StartCurr(W)
<1>1. CASE W.mgr.curr = None
  <2>1. V = W  BY <1>1 DEF StartCurr
  <2>2. Heard(W) = {}  BY <1>1 DEF Heard
  <2>3. QED  BY <1>1, <2>1, <2>2 DEF Keeps
<1>2. CASE W.mgr.curr # None
  <2> DEFINE t == W.mgr.curr
             x == TkStart(t, W.trk[t])
  <2>1. t \in Urls /\ Sane(t, W.trk[t])  BY <1>2, WorldFacts DEF Fit
  <2>2. Announced(t, W.trk[t], x)  BY <2>1, TkStartFacts
  <2>3. Sane(t, x) /\ x.enabled = W.trk[t].enabled /\ Kept(t, x)  BY <2>2 DEF Announced, Kept
  <2>4. V = Put(W, t, x)  BY <1>2 DEF StartCurr, Put
  <2>5. Heard(W) = {t}  BY <1>2 DEF Heard
  <2> HIDE DEF t, x, V
  <2>6. Keeps(W, {t})  BY <2>5 DEF Keeps
  <2>10. Replaced(W, t, x, V)  BY <2>1, <2>3, <2>4, PutFacts
  <2>7. /\ Fit(V) /\ Current(V) /\ Keeps(V, {}) /\ V.mgr = W.mgr /\ V.cfgs = W.cfgs
        /\ Heard(V) = Heard(W) /\ V.trk[t] = x /\ \A o \in Urls \ {t} : V.trk[o] = W.trk[o]
    BY <2>3, <2>6, <2>10 DEF Replaced
  <2>8. Queued(W.trk[t]) => Queued(V.trk[t])  BY <2>2, <2>7 DEF Announced
  <2>9. QED  BY <2>3, <2>5, <2>7, <2>8 DEF t, V
<1>3. QED  BY <1>1, <1>2

LEMMA BecomeFacts ==
  ASSUME NEW W, Good(W), TkBecome(W)
  PROVE  TkInv'
<1>1. W \in Worlds  BY DEF Good, Fit
<1>2. W = [mgr |-> W.mgr, trk |-> W.trk, cfgs |-> W.cfgs]  BY <1>1 DEF Worlds
<1>3. World' = W  BY <1>2 DEF World, TkBecome
<1>4. QED  BY <1>3 DEF TkInv

LEMMA InvFacts ==
  ASSUME TkInv
  PROVE  /\ Good(World) /\ Fit(World) /\ World.mgr = mgr /\ World.trk = trk /\ World.cfgs = cfgs
         /\ mgr \in Manager /\ trk \in [Urls -> Record] /\ cfgs \in Files
         /\ \A t \in Urls : Sane(t, trk[t]) /\ Queued(trk[t])
         /\ mgr.trackers \subseteq Urls /\ mgr.custom \subseteq mgr.trackers
         /\ mgr.curr \in mgr.trackers \cup {None} /\ None \notin Urls
<1>1. Good(World) /\ Fit(World) /\ World.mgr = mgr /\ World.trk = trk /\ World.cfgs = cfgs
  BY DEF TkInv, Good, World
<1>2. mgr \in Manager /\ trk \in [Urls -> Record] /\ cfgs \in Files  BY <1>1, WorldFacts
<1>3. \A t \in Urls : Sane(t, trk[t]) /\ Queued(trk[t])  BY <1>1 DEF Good, Fit, Queues
<1>4. /\ mgr.trackers \subseteq Urls /\ mgr.custom \subseteq mgr.trackers
      /\ mgr.curr \in mgr.trackers \cup {None}
  BY <1>1, <1>2 DEF Good, Fit, Current, Manager
<1>5. QED  BY <1>1, <1>2, <1>3, <1>4, TrackerConstants

\* After an error of tracker t: it, or the tracker in its place, has a timer
\* or is announced to.
Handled(W, t, V) ==
    /\ Fit(V) /\ Current(V) /\ Keeps(V, {}) /\ Queues(V, {t})
    /\ V.trk[t].enabled = W.trk[t].enabled
    /\ Queued(W.trk[t]) => Queued(V.trk[t])

LEMMA OnTrackerErrorFacts ==
  ASSUME NEW W, Fit(W), Current(W), NEW t \in Urls, Queues(W, {t}), Keeps(W, {t})
  PROVE  Handled(W, t, OnTrackerError(W, t))
<1> DEFINE n == SelectTracker(W)
           x == TkStop(t, W.trk[t])
           S0 == Put(W, t, x)
           S == SwitchTracker(S0, n)
           y == HandleFailure(W.trk[t])
           V == OnTrackerError(W, t)
<1>1. /\ W.mgr.priv \in BOOLEAN /\ W.mgr.started \in BOOLEAN /\ Sane(t, W.trk[t])
      /\ W.trk \in [Urls -> Record] /\ W.mgr.trackers \subseteq Urls /\ None \notin Urls
  BY WorldFacts DEF Fit
<1>2. V = CASE ~W.mgr.started -> W
            [] W.mgr.started /\ (~W.mgr.priv \/ t # W.mgr.curr \/ n = t) -> Put(W, t, y)
            [] OTHER -> IF S.trk[n].fails > 0 THEN [S EXCEPT !.trk[n] = HandleFailure(@)]
                        ELSE StartCurr(S)
  BY DEF OnTrackerError, Put
<1> HIDE DEF V
<1>3. CASE ~W.mgr.started
  <2>1. V = W  BY <1>2, <1>3
  <2>2. QED  BY <1>3, <2>1 DEF Handled, Keeps, V
<1>4. CASE W.mgr.started /\ (~W.mgr.priv \/ t # W.mgr.curr \/ n = t)
  <2>1. V = Put(W, t, y)  BY <1>2, <1>4
  <2>2. /\ Sane(t, y) /\ y.enabled = W.trk[t].enabled /\ Kept(t, y)
        /\ Queued(W.trk[t]) => Queued(y)
    BY <1>1, HandleFailureFacts
  <2> HIDE DEF y
  <2>3. Replaced(W, t, y, V)  BY <2>1, <2>2, PutFacts
  <2>4. QED  BY <2>2, <2>3 DEF Replaced, Handled, V
<1>5. CASE W.mgr.started /\ W.mgr.priv /\ t = W.mgr.curr /\ n # t
  <2>1. V = IF S.trk[n].fails > 0 THEN [S EXCEPT !.trk[n] = HandleFailure(@)] ELSE StartCurr(S)
    BY <1>2, <1>5
  <2>2. t \in W.mgr.trackers /\ W.trk[t].enabled  BY <1>1, <1>5 DEF Current
  <2>3. n \in W.mgr.trackers /\ W.trk[n].enabled  BY <2>2, SelectFacts
  <2>4. n \in Urls /\ n # None  BY <1>1, <2>3
  <2>5. Stopped(t, W.trk[t], x)  BY <1>1, TkStopFacts
  <2> HIDE DEF n, x
  <2>6. Sane(t, x) /\ x.enabled = W.trk[t].enabled /\ (Queued(W.trk[t]) => Queued(x))
    BY <2>5 DEF Stopped
  <2>7. Replaced(W, t, x, S0)  BY <2>6, PutFacts
  <2> HIDE DEF S0
  <2>8. /\ Fit(S0) /\ S0.mgr = W.mgr /\ S0.trk[t] = x /\ Queues(S0, {t})
        /\ \A o \in Urls \ {t} : S0.trk[o] = W.trk[o]
    BY <2>7 DEF Replaced
  <2>9. /\ Fit(S0) /\ S0.mgr.priv /\ n \in S0.mgr.trackers /\ S0.trk[n].enabled
    BY <1>5, <2>3, <2>4, <2>8
  <2>10. /\ Fit(S) /\ Current(S) /\ S.trk = S0.trk /\ S.mgr.curr = n /\ S.mgr.priv
         /\ S.mgr.started
    BY <1>5, <2>8, <2>9, SwitchFacts
  <2> HIDE DEF S
  <2>11. Heard(S) = {n}  BY <2>4, <2>10 DEF Heard
  <2>12. Queues(S, {t})  BY <2>8, <2>10 DEF Queues
  <2>13. S.trk[t] = x  BY <2>8, <2>10
  <2>14. Queued(S.trk[n])  BY <1>5, <2>4, <2>12 DEF Queues
  <2>15. CASE S.trk[n].fails > 0
    <3> DEFINE z == HandleFailure(S.trk[n])
    <3>1. V = Put(S, n, z)  BY <2>1, <2>15 DEF Put
    <3>2. Sane(n, S.trk[n])  BY <2>4, <2>10 DEF Fit
    <3>3. Sane(n, z) /\ z.enabled = S.trk[n].enabled /\ Kept(n, z) /\ Queued(z)
      BY <2>14, <3>2, HandleFailureFacts
    <3> HIDE DEF z
    <3>4. Replaced(S, n, z, V)  BY <2>4, <2>10, <3>1, <3>3, PutFacts
    <3>5. /\ Fit(V) /\ Current(V) /\ V.trk[n] = z /\ \A o \in Urls \ {n} : V.trk[o] = S.trk[o]
          /\ Heard(V) = {n}
      BY <2>10, <2>11, <3>4 DEF Replaced
    <3>6. Keeps(V, {})  BY <3>3, <3>5 DEF Keeps
    <3>7. Queues(V, {t})  BY <2>12, <3>3, <3>5 DEF Queues
    <3>8. V.trk[t] = x  BY <1>5, <2>13, <3>5
    <3>9. QED  BY <2>6, <3>5, <3>6, <3>7, <3>8 DEF Handled, V
  <2>16. CASE ~(S.trk[n].fails > 0)
    <3>1. V = StartCurr(S)  BY <2>1, <2>16
    <3>2. /\ Fit(V) /\ Current(V) /\ Keeps(V, {})
          /\ \A o \in Urls \ {n} : V.trk[o] = S.trk[o]
          /\ Queued(V.trk[n])
      BY <2>4, <2>10, <2>14, <3>1, StartCurrFacts
    <3>3. Queues(V, {t})  BY <2>12, <3>2 DEF Queues
    <3>4. V.trk[t] = x  BY <1>5, <2>13, <3>2
    <3>5. QED  BY <2>6, <3>2, <3>3, <3>4 DEF Handled, V
  <2>17. QED  BY <2>15, <2>16
<1>6. QED  BY <1>1, <1>3, <1>4, <1>5

\* A request of tracker t failed.
LEMMA FailedFacts ==
  ASSUME NEW W, Fit(W), Current(W), NEW t \in Urls, Queues(W, {t}), Keeps(W, {t}),
         NEW x, Sane(t, x), x.enabled = W.trk[t].enabled
  PROVE  /\ Fit(Failed(W, t, x)) /\ Current(Failed(W, t, x)) /\ Keeps(Failed(W, t, x), {})
         /\ Queues(Failed(W, t, x), {t}) /\ Failed(W, t, x).trk[t].enabled = x.enabled
         /\ Queued(x) => Queued(Failed(W, t, x).trk[t])
<1> DEFINE y == [x EXCEPT !.status = "error"]
           S == Put(W, t, y)
           V == Failed(W, t, x)
<1>1. x \in Record /\ "error" \in Status  BY DEF Sane, Typed, Status
<1>2. /\ y.job = x.job /\ y.loose = x.loose /\ y.queue = x.queue /\ y.event = x.event
      /\ y.enabled = x.enabled /\ y.out = x.out /\ y.lookups = x.lookups /\ y.timer = x.timer
      /\ y.started = x.started
  BY <1>1 DEF Record
<1>3. y \in Record  BY <1>1 DEF Record
<1>4. V = OnTrackerError(S, t)  BY DEF Failed
<1> HIDE DEF y, V
<1>5. Sane(t, y) /\ (Queued(x) => Queued(y))  BY <1>2, <1>3 DEF Sane, Typed, Queued
<1>6. Replaced(W, t, y, S)  BY <1>2, <1>5, PutFacts
<1> HIDE DEF S
<1>7. Fit(S) /\ Current(S) /\ S.trk[t] = y /\ Queues(S, {t}) /\ Keeps(S, {t})  BY <1>6 DEF Replaced
<1>8. Handled(S, t, V)  BY <1>4, <1>7, OnTrackerErrorFacts
<1>9. QED  BY <1>2, <1>5, <1>7, <1>8 DEF Handled, V

\* A tracker that answered is asked for its numbers.
LEMMA OnTrackerOKFacts ==
  ASSUME NEW W, Fit(W), Current(W), NEW t \in Urls
  PROVE  /\ Fit(OnTrackerOK(W, t)) /\ Current(OnTrackerOK(W, t))
         /\ OnTrackerOK(W, t).mgr = W.mgr
         /\ \A o \in Urls \ {t} : OnTrackerOK(W, t).trk[o] = W.trk[o]
         /\ Heard(OnTrackerOK(W, t)) = Heard(W)
         /\ Sane(t, OnTrackerOK(W, t).trk[t])
         /\ OnTrackerOK(W, t).trk[t].enabled = W.trk[t].enabled
         /\ OnTrackerOK(W, t).trk[t].started = W.trk[t].started
         /\ OnTrackerOK(W, t).trk[t].re = W.trk[t].re
         /\ OnTrackerOK(W, t).trk[t].status = W.trk[t].status
         /\ Queued(W.trk[t]) => Queued(OnTrackerOK(W, t).trk[t])
         /\ Kept(t, W.trk[t]) => Kept(t, OnTrackerOK(W, t).trk[t])
         /\ Queues(W, {t}) => Queues(OnTrackerOK(W, t), {t})
         /\ Keeps(W, {t}) => Keeps(OnTrackerOK(W, t), {t})
<1> DEFINE V == OnTrackerOK(W, t)
           x == Scrape(t, W.trk[t])
<1>1. Sane(t, W.trk[t])  BY DEF Fit
<1>2. CASE ~W.trk[t].started
  <2>1. V = W  BY <1>2 DEF OnTrackerOK
  <2>2. QED  BY <1>1, <2>1
<1>3. CASE W.trk[t].started
  <2>1. V = Put(W, t, x)  BY <1>3 DEF OnTrackerOK, Put
  <2>2. /\ Sane(t, x) /\ x.enabled = W.trk[t].enabled
        /\ Queued(W.trk[t]) => Queued(x)
        /\ Kept(t, W.trk[t]) => Kept(t, x)
        /\ x.started = W.trk[t].started /\ x.re = W.trk[t].re /\ x.status = W.trk[t].status
    BY <1>1, ScrapeFacts
  <2> HIDE DEF x, V
  <2>3. Replaced(W, t, x, V)  BY <2>1, <2>2, PutFacts
  <2>4. QED  BY <2>2, <2>3 DEF Replaced, V
<1>4. QED  BY <1>2, <1>3

-----------------------------------------------------------------------------
(* The steps that concern one tracker. *)

LEMMA PutStep ==
  ASSUME TkInv, NEW t \in Urls, NEW x, Sane(t, x), Queued(x), x.enabled = trk[t].enabled,
         mgr.started /\ t \in Heard(World) => Kept(t, x), TkBecome(Put(World, t, x))
  PROVE  TkInv'
<1> DEFINE V == Put(World, t, x)
<1>1. Good(World) /\ Fit(World) /\ World.mgr = mgr /\ World.trk = trk  BY InvFacts
<1>2. Replaced(World, t, x, V)  BY <1>1, PutFacts
<1>3. Queues(World, {t}) /\ Keeps(World, {t})  BY <1>1 DEF Good, Queues, Keeps
<1> HIDE DEF V
<1>4. Good(V)  BY <1>1, <1>2, <1>3 DEF Replaced, Good
<1>5. QED  BY <1>4, BecomeFacts DEF V

LEMMA FailedStep ==
  ASSUME TkInv, NEW t \in Urls, NEW x, Sane(t, x), Queued(x), x.enabled = trk[t].enabled,
         TkBecome(Failed(World, t, x))
  PROVE  TkInv'
<1> DEFINE V == Failed(World, t, x)
<1>1. Good(World) /\ Fit(World) /\ World.trk = trk  BY InvFacts
<1>2. Current(World) /\ Queues(World, {t}) /\ Keeps(World, {t})  BY <1>1 DEF Good, Queues, Keeps
<1>3. Fit(V) /\ Current(V) /\ Keeps(V, {}) /\ Queues(V, {t}) /\ Queued(V.trk[t])
  BY <1>1, <1>2, FailedFacts
<1> HIDE DEF V
<1>4. Good(V)  BY <1>3 DEF Good, Queues
<1>5. QED  BY <1>4, BecomeFacts DEF V

\* The end of onAnnounceResult: the next announce of the queue.
LEMMA QueueFacts ==
  ASSUME NEW W, Fit(W), Current(W), NEW t \in Urls, Queues(W, {t}), Keeps(W, {})
  PROVE  Good([W EXCEPT !.trk[t] = DoAnnounceQueue(@)])
<1> DEFINE x == DoAnnounceQueue(W.trk[t])
           V == [W EXCEPT !.trk[t] = DoAnnounceQueue(@)]
<1>1. Sane(t, W.trk[t])  BY DEF Fit
<1>2. Sane(t, x) /\ Queued(x) /\ x.enabled = W.trk[t].enabled /\ (Kept(t, W.trk[t]) => Kept(t, x))
  BY <1>1, DoAnnounceQueueFacts
<1>3. V = Put(W, t, x)  BY DEF Put
<1> HIDE DEF x, V
<1>4. Replaced(W, t, x, V)  BY <1>2, <1>3, PutFacts
<1>5. Keeps(W, {t}) /\ (W.mgr.started /\ t \in Heard(W) => Kept(t, x))  BY <1>2 DEF Keeps
<1>6. Good(V)  BY <1>2, <1>4, <1>5 DEF Replaced, Good
<1>7. QED  BY <1>6 DEF V

\* The event is over.
LEMMA ClearedFacts ==
  ASSUME NEW W, Fit(W), Current(W), NEW t \in Urls, Queues(W, {t}), Keeps(W, {})
  PROVE  /\ Fit([W EXCEPT !.trk[t].event = "update"])
         /\ Current([W EXCEPT !.trk[t].event = "update"])
         /\ Queues([W EXCEPT !.trk[t].event = "update"], {t})
         /\ Keeps([W EXCEPT !.trk[t].event = "update"], {})
<1> DEFINE y == W.trk[t]
           x == [W.trk[t] EXCEPT !.event = "update"]
           V == [W EXCEPT !.trk[t].event = "update"]
<1>1. Sane(t, y)  BY DEF Fit
<1>2. y \in Record /\ "update" \in Event  BY <1>1 DEF Sane, Typed, Event
<1>3. V = Put(W, t, x)  BY DEF Put
<1>4. x = [y EXCEPT !.event = "update"]  OBVIOUS
<1>5. y = W.trk[t]  OBVIOUS
<1> HIDE DEF y, x, V
<1>6. /\ x.job = y.job /\ x.loose = y.loose /\ x.queue = y.queue /\ x.event = "update"
      /\ x.enabled = y.enabled /\ x.out = y.out /\ x.lookups = y.lookups /\ x.timer = y.timer
      /\ x.started = y.started /\ x.todo = y.todo /\ x.re = y.re /\ x.status = y.status
  BY <1>2, <1>4 DEF Record
<1>7. x \in Record  BY <1>2, <1>4 DEF Record
<1>8. Sane(t, x)  BY <1>1, <1>6, <1>7 DEF Sane, Typed
<1>9. Useful(t, y) => Useful(t, x)  BY <1>6 DEF Useful
<1>10. Kept(t, y) => Kept(t, x)  BY <1>6, <1>9 DEF Kept, Pending
<1>11. Replaced(W, t, x, V)  BY <1>3, <1>5, <1>6, <1>8, PutFacts
<1>12. Keeps(W, {t}) /\ (W.mgr.started /\ t \in Heard(W) => Kept(t, x))  BY <1>5, <1>10 DEF Keeps
<1>13. Fit(V) /\ Current(V) /\ Queues(V, {t}) /\ Keeps(V, {})  BY <1>11, <1>12 DEF Replaced
<1>14. QED  BY <1>13 DEF V

\* onAnnounceResult. x is the tracker without the job of the announce.
LEMMA AnnounceResultFacts ==
  ASSUME TkInv, NEW t \in Urls \ Udp, NEW x, Sane(t, x), x.enabled = trk[t].enabled,
         NEW e \in Event, NEW how \in How,
         mgr.started /\ t \in Heard(World) /\ e = "stopped" =>
             x.re \/ Useful(t, x) \/ ~x.started
  PROVE  Good(AnnounceResult(t, x, e, how))
<1> DEFINE ok == [x EXCEPT !.fails = 0, !.status = "ok", !.started = @ \/ e = "started",
                           !.re = @ \/ x.started \/ e = "started"]
           bye == [x EXCEPT !.status = "idle", !.fails = IF how = "error" THEN @ ELSE 0]
           W == CASE e = "stopped" -> Put(World, t, bye)
                  [] e # "stopped" /\ how = "ok" -> OnTrackerOK(Put(World, t, ok), t)
                  [] OTHER -> Failed(World, t, Failing(x))
           C == IF e = "stopped" \/ how = "error" THEN W ELSE [W EXCEPT !.trk[t].event = "update"]
           V == [C EXCEPT !.trk[t] = DoAnnounceQueue(@)]
<1>1. AnnounceResult(t, x, e, how) = V  BY DEF AnnounceResult
<1>2. /\ Fit(World) /\ Current(World) /\ World.mgr = mgr /\ World.trk = trk
      /\ Queues(World, {t}) /\ Keeps(World, {t}) /\ World \in Worlds /\ trk \in [Urls -> Record]
  BY InvFacts DEF Good, Fit, Queues, Keeps
<1>3. /\ x \in Record /\ x.fails \in 0 .. MaxFails /\ 0 \in 0 .. MaxFails /\ x.started \in BOOLEAN
      /\ x.re \in BOOLEAN
  BY TrackerConstants DEF Sane, Typed, Record
<1>4. SUFFICES Fit(C) /\ Current(C) /\ Queues(C, {t}) /\ Keeps(C, {})
  <2> HIDE DEF C
  <2>1. QED  BY <1>1, <1>4, QueueFacts
<1>5. CASE e = "stopped"
  <2> DEFINE f == IF how = "error" THEN x.fails ELSE 0
  <2>1. C = Put(World, t, bye)  BY <1>5
  <2>2. f \in 0 .. MaxFails /\ "idle" \in Status  BY <1>3 DEF Status
  <2>3. bye = [x EXCEPT !.status = "idle", !.fails = f]  OBVIOUS
  <2> HIDE DEF bye, f, C
  <2>4. /\ bye.job = x.job /\ bye.loose = x.loose /\ bye.queue = x.queue /\ bye.event = x.event
        /\ bye.enabled = x.enabled /\ bye.out = x.out /\ bye.lookups = x.lookups
        /\ bye.timer = x.timer /\ bye.started = x.started /\ bye.re = x.re /\ bye.status = "idle"
        /\ bye.todo = x.todo
    BY <1>3, <2>3 DEF Record
  <2>5. bye \in Record  BY <1>3, <2>2, <2>3 DEF Record
  <2>6. Sane(t, bye)  BY <2>4, <2>5 DEF Sane, Typed
  <2>7. Useful(t, x) => Useful(t, bye)  BY <2>4 DEF Useful
  <2>8. mgr.started /\ t \in Heard(World) => Kept(t, bye)  BY <1>5, <2>4, <2>7 DEF Kept
  <2>9. Replaced(World, t, bye, C)  BY <1>2, <2>1, <2>4, <2>6, PutFacts
  <2>10. QED  BY <1>2, <2>8, <2>9 DEF Replaced
<1>6. CASE e # "stopped" /\ how = "ok"
  <2> DEFINE st == x.started \/ e = "started"
             re == x.re \/ st
             P == Put(World, t, ok)
             up == [ok EXCEPT !.event = "update"]
  <2>1. P.trk[t] = ok /\ OnTrackerOK(P, t) = P
    <3>1. P.trk = [trk EXCEPT ![t] = ok]  BY <1>2 DEF Put, Worlds
    <3>2. P.trk[t] = ok  BY <1>2, <3>1
    <3> HIDE DEF ok
    <3>3. [P EXCEPT !.trk[t] = P.trk[t]] = P
      <4>1. P = [mgr |-> mgr, trk |-> P.trk, cfgs |-> World.cfgs]  BY <1>2 DEF Put, World
      <4>2. [P.trk EXCEPT ![t] = P.trk[t]] = P.trk  BY <1>2, <3>1
      <4> HIDE DEF P
      <4>3. [P EXCEPT !.trk = P.trk] = P  BY <4>1
      <4>4. QED  BY <4>2, <4>3
    <3>4. Scrape(t, P.trk[t]) = P.trk[t]  BY DEF Scrape
    <3>5. QED  BY <3>2, <3>3, <3>4 DEF OnTrackerOK
  <2>2. C = [P EXCEPT !.trk[t].event = "update"]
    <3>1. W = OnTrackerOK(P, t)  BY <1>6
    <3>2. C = [W EXCEPT !.trk[t].event = "update"]  BY <1>6
    <3>3. QED  BY <2>1, <3>1, <3>2
  <2>3. C = Put(World, t, up)
    <3> HIDE DEF ok, C
    <3>1. [P EXCEPT !.trk[t].event = "update"] = [P EXCEPT !.trk = [P.trk EXCEPT ![t] = up]]
      BY <2>1
    <3>2. P.trk = [trk EXCEPT ![t] = ok]  BY <1>2 DEF Put, Worlds
    <3>3. [P.trk EXCEPT ![t] = up] = [trk EXCEPT ![t] = up]  BY <1>2, <3>2
    <3>4. [P EXCEPT !.trk = [trk EXCEPT ![t] = up]] = [World EXCEPT !.trk = [trk EXCEPT ![t] = up]]
      BY <1>2 DEF Put, World
    <3>5. Put(World, t, up) = [World EXCEPT !.trk = [trk EXCEPT ![t] = up]]  BY <1>2 DEF Put
    <3>6. QED  BY <2>2, <3>1, <3>3, <3>4, <3>5
  <2>4. st \in BOOLEAN /\ re \in BOOLEAN /\ (st => re)  BY <1>3
  <2>5. ok = [x EXCEPT !.fails = 0, !.status = "ok", !.started = st, !.re = re]  OBVIOUS
  <2>6. "ok" \in Status /\ "update" \in Event  BY DEF Status, Event
  <2> HIDE DEF st, re, ok, C, P
  <2>7. /\ ok.job = x.job /\ ok.loose = x.loose /\ ok.queue = x.queue
        /\ ok.enabled = x.enabled /\ ok.out = x.out /\ ok.lookups = x.lookups
        /\ ok.timer = x.timer /\ ok.started = st /\ ok.re = re /\ ok.status = "ok"
    BY <1>3, <2>5 DEF Record
  <2>8. ok \in Record  BY <1>3, <2>4, <2>5, <2>6 DEF Record
  <2>9. /\ up.job = x.job /\ up.loose = x.loose /\ up.queue = x.queue
        /\ up.enabled = x.enabled /\ up.out = x.out /\ up.lookups = x.lookups
        /\ up.timer = x.timer /\ up.started = st /\ up.re = re /\ up.status = "ok"
        /\ up.event = "update"
    BY <2>7, <2>8 DEF Record
  <2>10. up \in Record  BY <2>6, <2>8 DEF Record
  <2> HIDE DEF up
  <2>11. Sane(t, up)  BY <2>9, <2>10 DEF Sane, Typed
  <2>12. Kept(t, up)  BY <2>4, <2>9 DEF Kept
  <2>13. Replaced(World, t, up, C)  BY <1>2, <2>3, <2>9, <2>11, PutFacts
  <2>14. QED  BY <1>2, <2>12, <2>13 DEF Replaced
<1>7. CASE e # "stopped" /\ how # "ok"
  <2>1. W = Failed(World, t, Failing(x))  BY <1>7
  <2>2. Sane(t, Failing(x)) /\ Failing(x).enabled = x.enabled  BY FailingFacts
  <2>3. Fit(W) /\ Current(W) /\ Keeps(W, {}) /\ Queues(W, {t})
    BY <1>2, <2>1, <2>2, FailedFacts
  <2>4. C = IF how = "error" THEN W ELSE [W EXCEPT !.trk[t].event = "update"]  BY <1>7
  <2> HIDE DEF W, C
  <2>5. CASE how = "error"  BY <2>3, <2>4, <2>5
  <2>6. CASE how # "error"
    <3>1. C = [W EXCEPT !.trk[t].event = "update"]  BY <2>4, <2>6
    <3>2. QED  BY <2>3, <3>1, ClearedFacts
  <2>7. QED  BY <2>5, <2>6
<1>8. QED  BY <1>5, <1>6, <1>7

LEMMA ActiveResultStep == ASSUME TkInv, NEW t \in Urls, ActiveResult(t) PROVE TkInv'
<1> DEFINE y == trk[t]
           x == [y EXCEPT !.job = None]
<1>1. Sane(t, y) /\ Queued(y) /\ Good(World) /\ World.mgr = mgr /\ World.trk = trk  BY InvFacts
<1>2. PICK how \in How : TkBecome(AnnounceResult(t, x, y.job, how)) /\ y.job # None
  BY DEF ActiveResult
<1> HIDE DEF y
<1>3. y \in Record /\ t \notin Udp /\ y.job \in Event  BY <1>1, <1>2 DEF Sane, Typed, Record
<1>4. /\ x.loose = y.loose /\ x.queue = y.queue /\ x.event = y.event /\ x.job = None
      /\ x.enabled = y.enabled /\ x.out = y.out /\ x.lookups = y.lookups /\ x.timer = y.timer
      /\ x.started = y.started /\ x.re = y.re /\ x.status = y.status
  BY <1>3 DEF Record
<1>5. x \in Record  BY <1>3 DEF Record
<1> HIDE DEF x
<1>6. Sane(t, x)  BY <1>1, <1>4, <1>5 DEF Sane, Typed
<1>7. mgr.started /\ t \in Heard(World) /\ y.job = "stopped" => x.re \/ Useful(t, x) \/ ~x.started
  <2> SUFFICES ASSUME mgr.started /\ t \in Heard(World) /\ y.job = "stopped"
               PROVE  x.re \/ Useful(t, x) \/ ~x.started
    OBVIOUS
  <2>1. Kept(t, y)  BY <1>1 DEF Good, Keeps, y
  <2>2. Useful(t, y) => Useful(t, x)  BY <1>3, <1>4 DEF Useful
  <2>3. QED  BY <1>4, <2>1, <2>2 DEF Kept
<1>8. Good(AnnounceResult(t, x, y.job, how))
  <2>1. x.enabled = trk[t].enabled  BY <1>4 DEF y
  <2> DEFINE e == y.job
  <2>2. e \in Event  BY <1>3
  <2>3. mgr.started /\ t \in Heard(World) /\ e = "stopped" => x.re \/ Useful(t, x) \/ ~x.started
    BY <1>7
  <2> HIDE DEF e
  <2>4. Good(AnnounceResult(t, x, e, how))  BY <1>3, <1>6, <2>1, <2>2, <2>3, AnnounceResultFacts
  <2>5. QED  BY <2>4 DEF e
<1>9. QED  BY <1>2, <1>8, BecomeFacts

LEMMA LooseResultStep == ASSUME TkInv, NEW t \in Urls, LooseResult(t) PROVE TkInv'
<1> DEFINE y == trk[t]
<1>1. Sane(t, y) /\ Queued(y) /\ Good(World) /\ World.mgr = mgr /\ World.trk = trk  BY InvFacts
<1>2. y \in Record /\ y.loose \in Seq(Event) /\ y.job \in Event \cup {None}
  BY <1>1 DEF Sane, Typed, Record
<1>3. PICK i \in DOMAIN y.loose, how \in How :
        TkBecome(AnnounceResult(t, [y EXCEPT !.job = None,
                    !.loose = IF y.job = None THEN RemoveAt(y.loose, i)
                              ELSE Append(RemoveAt(y.loose, i), y.job)], y.loose[i], how))
  BY DEF LooseResult
<1> DEFINE rest == RemoveAt(y.loose, i)
           l == IF y.job = None THEN rest ELSE Append(rest, y.job)
           x == [y EXCEPT !.job = None, !.loose = l]
           e == y.loose[i]
<1>4. TkBecome(AnnounceResult(t, x, e, how))  BY <1>3
<1>5. DOMAIN y.loose = 1 .. Len(y.loose) /\ Len(y.loose) \in Nat /\ e \in Event
  BY <1>2, LenProperties, ElementOfSeq
<1> HIDE DEF y
<1>6. t \notin Udp
  <2>1. y.loose # <<>>  BY <1>5
  <2>2. QED  BY <1>1, <2>1 DEF Sane, Typed
<1>7. /\ rest \in Seq(Event) /\ Len(rest) = Len(y.loose) - 1
      /\ \A k \in 1 .. Len(y.loose) - 1 : rest[k] = IF k < i THEN y.loose[k] ELSE y.loose[k + 1]
  BY <1>2, <1>5, RemoveAtFacts
<1> HIDE DEF rest
<1>8. \A k \in DOMAIN y.loose : k # i => \E j \in DOMAIN rest : rest[j] = y.loose[k]
  <2> SUFFICES ASSUME NEW k \in DOMAIN y.loose, k # i PROVE \E j \in DOMAIN rest : rest[j] = y.loose[k]
    OBVIOUS
  <2>1. DOMAIN rest = 1 .. Len(y.loose) - 1  BY <1>7, LenProperties
  <2>2. CASE k < i
    <3>1. k \in 1 .. Len(y.loose) - 1  BY <1>5, <2>2
    <3>2. QED  BY <1>7, <2>1, <2>2, <3>1
  <2>3. CASE k > i
    <3>1. k - 1 \in 1 .. Len(y.loose) - 1 /\ ~(k - 1 < i) /\ (k - 1) + 1 = k  BY <1>5, <2>3
    <3>2. rest[k - 1] = y.loose[k]  BY <1>7, <3>1
    <3>3. QED  BY <2>1, <3>1, <3>2
  <2>4. QED  BY <1>5, <2>2, <2>3
<1>9. /\ l \in Seq(Event)
      /\ \A j \in DOMAIN rest : j \in DOMAIN l /\ l[j] = rest[j]
      /\ y.job # None => \E j \in DOMAIN l : l[j] = y.job
  <2>1. CASE y.job = None  BY <1>7, <2>1
  <2>2. CASE y.job # None
    <3>1. y.job \in Event /\ l = Append(rest, y.job)  BY <1>2, <2>2
    <3>2. QED  BY <1>7, <3>1, AppendFacts
  <2>3. QED  BY <2>1, <2>2
<1> HIDE DEF l
<1>10. /\ x.loose = l /\ x.queue = y.queue /\ x.event = y.event /\ x.job = None
       /\ x.enabled = y.enabled /\ x.out = y.out /\ x.lookups = y.lookups /\ x.timer = y.timer
       /\ x.started = y.started /\ x.re = y.re /\ x.status = y.status
  BY <1>2 DEF Record
<1>11. x \in Record  BY <1>2, <1>9 DEF Record
<1>12. e = y.loose[i]  OBVIOUS
<1> HIDE DEF x, e
<1>13. Sane(t, x)  BY <1>1, <1>6, <1>10, <1>11 DEF Sane, Typed
<1>14. mgr.started /\ t \in Heard(World) /\ e = "stopped" => x.re \/ Useful(t, x) \/ ~x.started
  <2> SUFFICES ASSUME mgr.started /\ t \in Heard(World) /\ e = "stopped"
               PROVE  x.re \/ Useful(t, x) \/ ~x.started
    OBVIOUS
  <2>1. Kept(t, y)  BY <1>1 DEF Good, Keeps, y
  <2>2. ASSUME Useful(t, y) PROVE Useful(t, x)
    <3>1. CASE y.job \in Event \ {"stopped"}
      <4>1. PICK j \in DOMAIN l : l[j] = y.job  BY <1>9, <3>1, TrackerConstants
      <4>2. QED  BY <1>6, <1>10, <3>1, <4>1 DEF Useful
    <3>2. ASSUME NEW k \in DOMAIN y.loose, y.loose[k] # "stopped" PROVE Useful(t, x)
      <4>1. k # i  BY <1>12, <3>2
      <4>2. PICK j \in DOMAIN rest : rest[j] = y.loose[k]  BY <1>8, <4>1
      <4>3. j \in DOMAIN l /\ l[j] # "stopped"  BY <1>9, <3>2, <4>2
      <4>4. QED  BY <1>6, <1>10, <4>3 DEF Useful
    <3>3. ASSUME NEW k \in DOMAIN y.queue, y.queue[k] # "stopped" PROVE Useful(t, x)
      BY <1>6, <1>10, <3>3 DEF Useful
    <3>4. QED  BY <1>6, <2>2, <3>1, <3>2, <3>3 DEF Useful
  <2>3. QED  BY <1>10, <2>1, <2>2 DEF Kept
<1>15. x.enabled = trk[t].enabled  BY <1>10 DEF y
<1>16. Good(AnnounceResult(t, x, e, how))
  <2>1. e \in Event  BY <1>5 DEF e
  <2>2. QED  BY <1>6, <1>13, <1>14, <1>15, <2>1, AnnounceResultFacts
<1>17. QED  BY <1>4, <1>16, BecomeFacts

LEMMA ScrapeResultStep == ASSUME TkInv, NEW t \in Urls, ScrapeResult(t) PROVE TkInv'
<1> DEFINE y == trk[t]
           x == [y EXCEPT !.status = "ok", !.fails = 0]
<1>1. Sane(t, y) /\ Queued(y) /\ Good(World) /\ World.mgr = mgr /\ World.trk = trk  BY InvFacts
<1>2. TkBecome(Put(World, t, x))
  <2>1. [World EXCEPT !.trk[t].status = "ok", !.trk[t].fails = 0] = Put(World, t, x)
    BY <1>1 DEF Put, World
  <2>2. QED  BY <2>1 DEF ScrapeResult
<1> HIDE DEF y
<1>3. y \in Record /\ "ok" \in Status /\ 0 \in 0 .. MaxFails
  BY <1>1, TrackerConstants DEF Sane, Typed, Status
<1>4. /\ x.loose = y.loose /\ x.queue = y.queue /\ x.event = y.event /\ x.job = y.job
      /\ x.enabled = y.enabled /\ x.out = y.out /\ x.lookups = y.lookups /\ x.timer = y.timer
      /\ x.started = y.started /\ x.re = y.re /\ x.status = "ok" /\ x.todo = y.todo
  BY <1>3 DEF Record
<1>5. x \in Record  BY <1>3 DEF Record
<1> HIDE DEF x
<1>6. Sane(t, x) /\ Queued(x)  BY <1>1, <1>4, <1>5 DEF Sane, Typed, Queued
<1>7. mgr.started /\ t \in Heard(World) => Kept(t, x)
  <2> SUFFICES ASSUME mgr.started /\ t \in Heard(World) PROVE Kept(t, x)
    OBVIOUS
  <2>1. Kept(t, y)  BY <1>1 DEF Good, Keeps, y
  <2>2. Useful(t, y) => Useful(t, x)  BY <1>4 DEF Useful
  <2>3. QED  BY <1>4, <2>1, <2>2 DEF Kept
<1>8. x.enabled = trk[t].enabled  BY <1>4 DEF y
<1>9. QED  BY <1>2, <1>6, <1>7, <1>8, PutStep

LEMMA ReannounceTimeoutStep == ASSUME TkInv, NEW t \in Urls, ReannounceTimeout(t) PROVE TkInv'
<1> DEFINE y == trk[t]
           z == [y EXCEPT !.re = FALSE]
           x == ManualUpdate(t, z)
<1>1. Sane(t, y) /\ Queued(y) /\ World.trk = trk  BY InvFacts
<1>2. TkBecome(Put(World, t, x))
  <2>1. [World EXCEPT !.trk[t] = ManualUpdate(t, [@ EXCEPT !.re = FALSE])] = Put(World, t, x)
    BY <1>1 DEF Put, World
  <2>2. QED  BY <2>1 DEF ReannounceTimeout
<1> HIDE DEF y
<1>3. y \in Record  BY <1>1 DEF Sane, Typed
<1>4. /\ z.loose = y.loose /\ z.queue = y.queue /\ z.event = y.event /\ z.job = y.job
      /\ z.enabled = y.enabled /\ z.out = y.out /\ z.lookups = y.lookups /\ z.timer = y.timer
      /\ z.started = y.started
  BY <1>3 DEF Record
<1>5. z \in Record  BY <1>3 DEF Record
<1> HIDE DEF z
<1>6. Sane(t, z) /\ Queued(z)  BY <1>1, <1>4, <1>5 DEF Sane, Typed, Queued
<1>7. Announced(t, z, x)  BY <1>6, ManualUpdateFacts
<1> HIDE DEF x
<1>8. Sane(t, x) /\ Queued(x) /\ Kept(t, x)  BY <1>6, <1>7 DEF Announced, Kept
<1>9. x.enabled = trk[t].enabled  BY <1>4, <1>7 DEF Announced, y
<1>10. QED  BY <1>2, <1>8, <1>9, PutStep

LEMMA ResolverResultStep == ASSUME TkInv, NEW t \in Urls, ResolverResult(t) PROVE TkInv'
<1> DEFINE y == trk[t]
           n == y.lookups - 1
           x == [y EXCEPT !.lookups = n]
           r == [x EXCEPT !.resolved = TRUE]
           z == IF r.conn THEN SendTodo(r) ELSE SendConnect(r)
<1>1. Sane(t, y) /\ Queued(y) /\ Good(World) /\ World.mgr = mgr /\ World.trk = trk  BY InvFacts
<1>2. y.lookups > 0 /\ (TkBecome(Put(World, t, z)) \/ TkBecome(Failed(World, t, Failing(x))))
  BY DEF ResolverResult
<1> HIDE DEF y
<1>3. y \in Record /\ y.lookups \in Nat /\ n \in Nat  BY <1>1, <1>2 DEF Sane, Typed, Record
<1>4. t \in Udp /\ y.job = None /\ y.loose = <<>> /\ y.queue = <<>>  BY <1>1, <1>2 DEF Sane, Typed
<1> HIDE DEF n
<1>5. /\ x.loose = y.loose /\ x.queue = y.queue /\ x.event = y.event /\ x.job = y.job
      /\ x.enabled = y.enabled /\ x.out = y.out /\ x.timer = y.timer /\ x.todo = y.todo
      /\ x.started = y.started /\ x.re = y.re /\ x.status = y.status
  BY <1>3 DEF Record
<1>6. x \in Record  BY <1>3 DEF Record
<1> HIDE DEF x
<1>7. Sane(t, x) /\ Queued(x)  BY <1>1, <1>4, <1>5, <1>6 DEF Sane, Typed, Queued
<1>8. CASE TkBecome(Failed(World, t, Failing(x)))
  <2> DEFINE w == Failing(x)
  <2>1. Sane(t, w) /\ Queued(w) /\ w.enabled = trk[t].enabled  BY <1>5, <1>7, FailingFacts DEF y
  <2> HIDE DEF w
  <2>2. TkBecome(Failed(World, t, w))  BY <1>8 DEF w
  <2>3. QED  BY <2>1, <2>2, FailedStep
<1>9. CASE TkBecome(Put(World, t, z))
  <2>1. /\ r.loose = y.loose /\ r.queue = y.queue /\ r.event = y.event /\ r.job = y.job
        /\ r.enabled = y.enabled /\ r.out = y.out /\ r.timer = y.timer /\ r.todo = y.todo
        /\ r.started = y.started /\ r.re = y.re /\ r.status = y.status
    BY <1>5, <1>6 DEF Record
  <2>2. r \in Record  BY <1>6 DEF Record
  <2> HIDE DEF r
  <2>3. /\ Sends(r, z)
        /\ z.timer \/ /\ z.timer = r.timer
                      /\ "announce" \in r.todo => z.out = "announce"
                      /\ "announce" \notin r.todo => z.out = r.out
    <3>1. CASE r.conn  BY <2>2, <3>1, SendTodoFacts
    <3>2. CASE ~r.conn  BY <2>2, <3>2, SendConnectFacts
    <3>3. QED  BY <3>1, <3>2
  <2> HIDE DEF z
  <2>4. Sane(t, z) /\ Queued(z)  BY <1>1, <1>4, <2>1, <2>3 DEF Sane, Typed, Queued, Sends
  <2>5. mgr.started /\ t \in Heard(World) => Kept(t, z)
    <3> SUFFICES ASSUME mgr.started /\ t \in Heard(World) PROVE Kept(t, z)
      OBVIOUS
    <3>1. Kept(t, y)  BY <1>1 DEF Good, Keeps, y
    <3>2. Useful(t, y) => Useful(t, z)  BY <1>4, <2>1, <2>3 DEF Useful
    <3>3. QED  BY <1>4, <2>1, <2>3, <3>1, <3>2 DEF Kept, Sends
  <2>6. z.enabled = trk[t].enabled  BY <2>1, <2>3 DEF Sends, y
  <2>7. QED  BY <1>9, <2>4, <2>5, <2>6, PutStep
<1>10. QED  BY <1>2, <1>8, <1>9

LEMMA ConnectReceivedStep == ASSUME TkInv, NEW t \in Urls, ConnectReceived(t) PROVE TkInv'
<1> DEFINE y == trk[t]
           x == [y EXCEPT !.out = None, !.conn = TRUE, !.fails = 0]
           z == SendTodo(x)
<1>1. Sane(t, y) /\ Queued(y) /\ Good(World) /\ World.mgr = mgr /\ World.trk = trk  BY InvFacts
<1>2. y.out = "connect" /\ TkBecome(Put(World, t, z))  BY DEF ConnectReceived
<1> HIDE DEF y
<1>3. y \in Record /\ 0 \in 0 .. MaxFails  BY <1>1, TrackerConstants DEF Sane, Typed
<1>4. t \in Udp /\ y.job = None /\ y.loose = <<>> /\ y.queue = <<>>
  BY <1>1, <1>2 DEF Sane, Typed, None
<1>5. /\ x.loose = y.loose /\ x.queue = y.queue /\ x.event = y.event /\ x.job = y.job
      /\ x.enabled = y.enabled /\ x.timer = y.timer /\ x.todo = y.todo
      /\ x.started = y.started /\ x.re = y.re /\ x.status = y.status
  BY <1>3 DEF Record
<1>6. x \in Record  BY <1>3 DEF Record
<1> HIDE DEF x
<1>7. Sends(x, z) /\ z.timer = x.timer /\ ("announce" \in x.todo => z.out = "announce")
  BY <1>6, SendTodoFacts
<1> HIDE DEF z
<1>8. Sane(t, z) /\ Queued(z)  BY <1>1, <1>4, <1>5, <1>7 DEF Sane, Typed, Queued, Sends
<1>9. mgr.started /\ t \in Heard(World) => Kept(t, z)
  <2> SUFFICES ASSUME mgr.started /\ t \in Heard(World) PROVE Kept(t, z)
    OBVIOUS
  <2>1. Kept(t, y)  BY <1>1 DEF Good, Keeps, y
  <2>2. Useful(t, y) => Useful(t, z)  BY <1>2, <1>4, <1>5, <1>7 DEF Useful
  <2>3. QED  BY <1>4, <1>5, <1>7, <2>1, <2>2 DEF Kept, Sends
<1>10. z.enabled = trk[t].enabled  BY <1>5, <1>7 DEF Sends, y
<1>11. QED  BY <1>2, <1>8, <1>9, <1>10, PutStep

LEMMA AnnounceReceivedStep == ASSUME TkInv, NEW t \in Urls, AnnounceReceived(t) PROVE TkInv'
<1> DEFINE y == trk[t]
           x == [y EXCEPT !.out = None, !.conn = FALSE, !.timer = FALSE]
           idle == [x EXCEPT !.status = "idle"]
           st == x.started \/ x.event = "started"
           ok == [x EXCEPT !.started = st, !.event = "update", !.status = "ok"]
           W == OnTrackerOK(Put(World, t, ok), t)
<1>1. /\ Sane(t, y) /\ Queued(y) /\ Good(World) /\ World.mgr = mgr /\ World.trk = trk
      /\ Fit(World) /\ Current(World)
  BY InvFacts DEF Good
<1>2. /\ y.out = "announce"
      /\ x.event = "stopped" => TkBecome(OnTrackerOK(Put(World, t, idle), t))
      /\ x.event # "stopped" => TkBecome([W EXCEPT !.trk[t].re = @ \/ ok.started])
  <2> DEFINE Ok(v) == [v EXCEPT !.started = @ \/ v.event = "started", !.event = "update",
                                !.status = "ok"]
  <2>1. /\ y.out = "announce"
        /\ \E v \in {x} :
             IF v.event = "stopped"
             THEN TkBecome(OnTrackerOK(Put(World, t, [v EXCEPT !.status = "idle"]), t))
             ELSE \E o \in {Ok(v)} : \E S \in {OnTrackerOK(Put(World, t, o), t)} :
                    TkBecome([S EXCEPT !.trk[t].re = @ \/ o.started])
    BY DEF AnnounceReceived
  <2>2. Ok(x) = ok  OBVIOUS
  <2> HIDE DEF x, ok, Ok
  <2>3. IF x.event = "stopped"
        THEN TkBecome(OnTrackerOK(Put(World, t, [x EXCEPT !.status = "idle"]), t))
        ELSE \E o \in {Ok(x)} : \E S \in {OnTrackerOK(Put(World, t, o), t)} :
               TkBecome([S EXCEPT !.trk[t].re = @ \/ o.started])
    BY <2>1
  <2>4. CASE x.event = "stopped"  BY <2>1, <2>3, <2>4
  <2>5. CASE x.event # "stopped"
    <3>1. \E S \in {W} : TkBecome([S EXCEPT !.trk[t].re = @ \/ ok.started])  BY <2>2, <2>3, <2>5
    <3> HIDE DEF W
    <3>2. TkBecome([W EXCEPT !.trk[t].re = @ \/ ok.started])  BY <3>1
    <3>3. QED  BY <2>1, <2>5, <3>2
  <2>6. QED  BY <2>4, <2>5
<1> HIDE DEF y
<1>3. y \in Record /\ {"idle", "ok"} \subseteq Status /\ "update" \in Event
  BY <1>1 DEF Sane, Typed, Status, Event
<1>4. t \in Udp /\ y.job = None /\ y.loose = <<>> /\ y.queue = <<>>
  BY <1>1, <1>2 DEF Sane, Typed, None
<1>5. /\ x.loose = y.loose /\ x.queue = y.queue /\ x.event = y.event /\ x.job = y.job
      /\ x.enabled = y.enabled /\ x.started = y.started /\ x.re = y.re
  BY <1>3 DEF Record
<1>6. x \in Record  BY <1>3 DEF Record
<1> HIDE DEF x
<1>7. Queues(World, {t}) /\ Keeps(World, {t})  BY <1>1 DEF Good, Queues, Keeps
<1>8. CASE x.event = "stopped"
  <2>1. /\ idle.loose = y.loose /\ idle.queue = y.queue /\ idle.event = y.event /\ idle.job = y.job
        /\ idle.enabled = y.enabled /\ idle.started = y.started /\ idle.status = "idle"
    BY <1>5, <1>6 DEF Record
  <2>2. idle \in Record  BY <1>3, <1>6 DEF Record
  <2> DEFINE P == Put(World, t, idle)
             V == OnTrackerOK(P, t)
  <2> HIDE DEF idle
  <2>3. Sane(t, idle) /\ Queued(idle) /\ ~y.started
    BY <1>1, <1>4, <1>5, <1>8, <2>1, <2>2 DEF Sane, Typed, Queued
  <2>4. Kept(t, idle)  BY <2>1, <2>3 DEF Kept
  <2>5. idle.enabled = World.trk[t].enabled  BY <1>1, <2>1 DEF y
  <2>6. Replaced(World, t, idle, P)  BY <1>1, <2>3, <2>5, PutFacts
  <2> HIDE DEF P
  <2>7. Fit(P) /\ Current(P) /\ Queues(P, {}) /\ Keeps(P, {}) /\ P.trk[t] = idle
    BY <1>1, <1>7, <2>3, <2>4, <2>6 DEF Replaced
  <2>8. V = P  BY <2>1, <2>3, <2>7 DEF OnTrackerOK
  <2>9. Good(P)  BY <2>7 DEF Good
  <2>10. QED  BY <1>2, <1>8, <2>8, <2>9, BecomeFacts DEF P
<1>9. CASE x.event # "stopped"
  <2>1. st \in BOOLEAN  OBVIOUS
  <2> DEFINE P == Put(World, t, ok)
  <2> HIDE DEF st
  <2>2. /\ ok.loose = y.loose /\ ok.queue = y.queue /\ ok.event = "update" /\ ok.job = y.job
        /\ ok.enabled = y.enabled /\ ok.started = st /\ ok.status = "ok"
    BY <1>5, <1>6 DEF Record
  <2>3. ok \in Record  BY <1>3, <1>6, <2>1 DEF Record
  <2> HIDE DEF ok
  <2>4. Sane(t, ok) /\ Queued(ok)  BY <1>4, <2>2, <2>3 DEF Sane, Typed, Queued
  <2>5. ok.enabled = World.trk[t].enabled  BY <1>1, <2>2 DEF y
  <2>6. Replaced(World, t, ok, P)  BY <1>1, <2>4, <2>5, PutFacts
  <2> HIDE DEF P
  <2>7. Fit(P) /\ Current(P) /\ Queues(P, {t}) /\ Keeps(P, {t}) /\ P.trk[t] = ok
    BY <1>1, <1>7, <2>6 DEF Replaced
  <2>8. W = OnTrackerOK(P, t)  BY DEF P
  <2> HIDE DEF W
  <2>9. /\ Fit(W) /\ Current(W) /\ Sane(t, W.trk[t]) /\ W.trk[t].started = st
        /\ W.trk[t].status = "ok" /\ Queued(W.trk[t]) /\ Queues(W, {t}) /\ Keeps(W, {t})
    BY <2>2, <2>4, <2>7, <2>8, OnTrackerOKFacts
  <2> DEFINE w == W.trk[t]
             re == w.re \/ st
             z == [w EXCEPT !.re = re]
             V == Put(W, t, z)
  <2>10. [W EXCEPT !.trk[t].re = @ \/ ok.started] = V  BY <2>2 DEF Put
  <2>11. re \in BOOLEAN /\ w \in Record /\ (st => re)  BY <2>9 DEF Sane, Typed
  <2>12. w.enabled = W.trk[t].enabled /\ Sane(t, w) /\ w.started = st /\ w.status = "ok" /\ Queued(w)
    BY <2>9
  <2> HIDE DEF w, re
  <2>13. /\ z.loose = w.loose /\ z.queue = w.queue /\ z.event = w.event /\ z.job = w.job
         /\ z.enabled = w.enabled /\ z.started = w.started /\ z.status = w.status /\ z.re = re
    BY <2>11 DEF Record
  <2>14. z \in Record  BY <2>11 DEF Record
  <2> HIDE DEF z
  <2>15. Sane(t, z) /\ Queued(z)  BY <1>4, <2>12, <2>13, <2>14 DEF Sane, Typed, Queued
  <2>16. Kept(t, z)  BY <2>1, <2>11, <2>12, <2>13 DEF Kept
  <2>17. Replaced(W, t, z, V)  BY <2>9, <2>12, <2>13, <2>15, PutFacts
  <2> HIDE DEF V
  <2>18. Good(V)  BY <2>9, <2>15, <2>16, <2>17 DEF Replaced, Good
  <2>19. TkBecome(V)  BY <1>2, <1>9, <2>10
  <2>20. QED  BY <2>18, <2>19, BecomeFacts
<1>10. QED  BY <1>8, <1>9

LEMMA ErrorReceivedStep == ASSUME TkInv, NEW t \in Urls, ErrorReceived(t) PROVE TkInv'
<1> DEFINE y == trk[t]
           x == [y EXCEPT !.out = None]
<1>1. Sane(t, y) /\ Queued(y)  BY InvFacts
<1>2. y.out # None /\ TkBecome(Failed(World, t, x))  BY DEF ErrorReceived
<1> HIDE DEF y
<1>3. y \in Record  BY <1>1 DEF Sane, Typed
<1>4. /\ x.loose = y.loose /\ x.queue = y.queue /\ x.event = y.event /\ x.job = y.job
      /\ x.enabled = y.enabled /\ x.started = y.started /\ x.out = None
      /\ x.lookups = y.lookups /\ x.timer = y.timer
  BY <1>3 DEF Record
<1>5. x \in Record  BY <1>3 DEF Record
<1> HIDE DEF x
<1>6. Sane(t, x) /\ Queued(x)  BY <1>1, <1>4, <1>5 DEF Sane, Typed, Queued
<1>7. x.enabled = trk[t].enabled  BY <1>4 DEF y
<1>8. QED  BY <1>2, <1>6, <1>7, FailedStep

LEMMA ConnTimeoutStep == ASSUME TkInv, NEW t \in Urls, ConnTimeout(t) PROVE TkInv'
<1> DEFINE y == trk[t]
           w == [y EXCEPT !.timer = FALSE, !.conn = FALSE]
           x == Failing(w)
           idle == [x EXCEPT !.status = "idle"]
<1>1. Sane(t, y) /\ Queued(y)  BY InvFacts
<1>2. /\ y.timer
      /\ y.conn /\ x.event = "stopped" => TkBecome(Put(World, t, idle))
      /\ ~(y.conn /\ x.event = "stopped") => TkBecome(Failed(World, t, x))
  BY DEF ConnTimeout
<1> HIDE DEF y
<1>3. y \in Record /\ "idle" \in Status  BY <1>1 DEF Sane, Typed, Status
<1>4. t \in Udp  BY <1>1, <1>2 DEF Sane, Typed
<1>5. /\ w.loose = y.loose /\ w.queue = y.queue /\ w.event = y.event /\ w.job = y.job
      /\ w.enabled = y.enabled /\ w.started = y.started
  BY <1>3 DEF Record
<1>6. w \in Record  BY <1>3 DEF Record
<1> HIDE DEF w
<1>7. Sane(t, w) /\ Queued(w)  BY <1>1, <1>4, <1>5, <1>6 DEF Sane, Typed, Queued
<1>8. Sane(t, x) /\ Queued(x) /\ x.enabled = trk[t].enabled  BY <1>5, <1>7, FailingFacts DEF y
<1> HIDE DEF x
<1>9. CASE y.conn /\ x.event = "stopped"
  <2>1. x \in Record  BY <1>8 DEF Sane, Typed
  <2>2. /\ idle.loose = x.loose /\ idle.queue = x.queue /\ idle.event = x.event /\ idle.job = x.job
        /\ idle.enabled = x.enabled /\ idle.started = x.started /\ idle.status = "idle"
    BY <2>1 DEF Record
  <2>3. idle \in Record  BY <1>3, <2>1 DEF Record
  <2> HIDE DEF idle
  <2>4. Sane(t, idle) /\ Queued(idle) /\ ~x.started
    BY <1>4, <1>8, <1>9, <2>2, <2>3 DEF Sane, Typed, Queued
  <2>5. Kept(t, idle)  BY <2>2, <2>4 DEF Kept
  <2>6. idle.enabled = trk[t].enabled /\ TkBecome(Put(World, t, idle))  BY <1>2, <1>8, <1>9, <2>2
  <2>7. QED  BY <2>4, <2>5, <2>6, PutStep
<1>10. CASE ~(y.conn /\ x.event = "stopped")
  <2>1. TkBecome(Failed(World, t, x))  BY <1>2, <1>10
  <2>2. QED  BY <1>8, <2>1, FailedStep
<1>11. QED  BY <1>9, <1>10

-----------------------------------------------------------------------------
(* The steps of the manager. *)

LEMMA MakeFacts ==
  ASSUME NEW m \in Manager, NEW f \in [Urls -> Record], NEW c \in Files,
         m.custom \subseteq m.trackers, \A o \in Urls : Sane(o, f[o]),
         NEW V, V = [mgr |-> m, trk |-> f, cfgs |-> c]
  PROVE  Fit(V) /\ V.mgr = m /\ V.trk = f /\ V.cfgs = c
<1>1. V \in Worlds /\ V.mgr = m /\ V.trk = f /\ V.cfgs = c  BY DEF Worlds
<1>2. QED  BY <1>1 DEF Fit

\* Only the files change.
LEMMA SaveFacts ==
  ASSUME NEW W, Good(W)
  PROVE  /\ Good(SaveCustomURLs(W)) /\ SaveCustomURLs(W).mgr = W.mgr
         /\ Good(SaveTrackerStatus(W))
<1>1. Fit(W) /\ Current(W) /\ Queues(W, {}) /\ Keeps(W, {}) /\ W \in Worlds  BY DEF Good, Fit
<1>2. ASSUME NEW c \in Files, NEW V, V = [W EXCEPT !.cfgs = c] PROVE Good(V) /\ V.mgr = W.mgr
  <2>1. V \in Worlds /\ V.mgr = W.mgr /\ V.trk = W.trk  BY <1>1, <1>2 DEF Worlds
  <2>2. Fit(V) /\ Current(V) /\ Queues(V, {})  BY <1>1, <2>1 DEF Fit, Current, Queues
  <2>3. Heard(V) = Heard(W)  BY <2>1 DEF Heard
  <2>4. Keeps(V, {})  BY <1>1, <2>1, <2>3 DEF Keeps
  <2>5. QED  BY <2>1, <2>2, <2>4 DEF Good
<1>3. /\ W.cfgs \in Files /\ W.mgr \in Manager /\ W.mgr.custom \in SUBSET Urls
      /\ W.mgr.trackers \in SUBSET Urls
  BY <1>1, WorldFacts DEF Manager
<1>4. Good(SaveCustomURLs(W)) /\ SaveCustomURLs(W).mgr = W.mgr
  <2> DEFINE c == [W.cfgs EXCEPT !.custom = W.mgr.custom]
  <2>1. c \in Files  BY <1>3 DEF Files
  <2>2. SaveCustomURLs(W) = [W EXCEPT !.cfgs = c]  BY DEF SaveCustomURLs
  <2> HIDE DEF c
  <2>3. QED  BY <1>2, <2>1, <2>2
<1>5. Good(SaveTrackerStatus(W))
  <2> DEFINE off == {t \in W.mgr.trackers : ~W.trk[t].enabled}
             c == [W.cfgs EXCEPT !.off = off]
  <2>1. off \in SUBSET Urls  BY <1>3
  <2>2. SaveTrackerStatus(W) = [W EXCEPT !.cfgs = c]  BY DEF SaveTrackerStatus
  <2> HIDE DEF off
  <2>3. c \in Files  BY <1>3, <2>1 DEF Files
  <2> HIDE DEF c
  <2>4. QED  BY <1>2, <2>2, <2>3
<1>6. QED  BY <1>4, <1>5

\* Every tracker changes, each stays enabled or disabled, and the manager is
\* started or not.
LEMMA AllStep ==
  ASSUME TkInv, NEW b \in BOOLEAN, NEW f \in [Urls -> Record],
         \A o \in Urls : Sane(o, f[o]) /\ Queued(f[o]) /\ f[o].enabled = trk[o].enabled,
         b => \A o \in Heard(World) : Kept(o, f[o]),
         mgr' = [mgr EXCEPT !.started = b], trk' = f, cfgs' = cfgs
  PROVE  TkInv'
<1> DEFINE m == [mgr EXCEPT !.started = b]
           V == [mgr |-> m, trk |-> f, cfgs |-> cfgs]
<1>1. /\ mgr \in Manager /\ trk \in [Urls -> Record] /\ cfgs \in Files /\ Current(World)
      /\ mgr.custom \subseteq mgr.trackers /\ World.mgr = mgr /\ World.trk = trk
      /\ mgr.trackers \subseteq Urls /\ Heard(World) \subseteq Urls
  BY InvFacts, WorldFacts DEF Good
<1>2. /\ m \in Manager /\ m.custom = mgr.custom /\ m.trackers = mgr.trackers /\ m.curr = mgr.curr
      /\ m.priv = mgr.priv /\ m.started = b
  BY <1>1 DEF Manager
<1> HIDE DEF m
<1>3. Fit(V) /\ V.mgr = m /\ V.trk = f  BY <1>1, <1>2, MakeFacts
<1>4. TkBecome(V)  BY DEF TkBecome, m
<1> HIDE DEF V
<1>5. \A o \in Urls : V.trk[o].enabled = World.trk[o].enabled  BY <1>1, <1>3
<1>6. Current(V)
  <2>1. mgr.curr \in Urls \cup {None}  BY <1>1 DEF Manager
  <2>2. QED  BY <1>1, <1>2, <1>3, <1>5, <2>1 DEF Current
<1>7. Heard(V) = Heard(World)  BY <1>1, <1>2, <1>3, <1>5 DEF Heard
<1>8. Queues(V, {})  BY <1>3 DEF Queues
<1>9. Keeps(V, {})  BY <1>1, <1>2, <1>3, <1>7 DEF Keeps
<1>10. Good(V)  BY <1>3, <1>6, <1>8, <1>9 DEF Good
<1>11. QED  BY <1>4, <1>10, BecomeFacts

\* The manager as it is.
LEMMA SameManager ==
  ASSUME TkInv
  PROVE  mgr = [mgr EXCEPT !.started = mgr.started] /\ mgr.started \in BOOLEAN
<1>1. mgr \in Manager  BY InvFacts
<1>2. QED  BY <1>1 DEF Manager

\* The trackers an operation of the manager reaches.
LEMMA AddressedFacts ==
  ASSUME TkInv
  PROVE  /\ Heard(World) \subseteq Addressed(mgr.trackers) /\ Heard(World) = Addressed(Enabled)
         /\ Addressed(mgr.trackers) \subseteq Urls /\ Addressed(Enabled) \subseteq Urls
<1>1. /\ World.mgr = mgr /\ World.trk = trk /\ mgr.trackers \subseteq Urls
      /\ mgr.curr \in mgr.trackers \cup {None} /\ None \notin Urls
  BY InvFacts
<1>2. CASE mgr.priv  BY <1>1, <1>2 DEF Heard, Addressed
<1>3. CASE ~mgr.priv  BY <1>1, <1>3 DEF Heard, Addressed, Enabled
<1>4. QED  BY <1>2, <1>3

LEMMA CompletedAllStep == ASSUME TkInv, CompletedAll PROVE TkInv'
<1> DEFINE S == Addressed(mgr.trackers)
           f == [t \in Urls |-> IF t \in S THEN Completed(t, trk[t]) ELSE trk[t]]
<1>1. trk' = f /\ mgr' = mgr /\ cfgs' = cfgs  BY DEF CompletedAll, Update
<1>2. \A o \in Urls : Sane(o, trk[o]) /\ Queued(trk[o])  BY InvFacts
<1>3. ASSUME NEW o \in Urls
      PROVE  /\ Sane(o, f[o]) /\ Queued(f[o]) /\ f[o].enabled = trk[o].enabled /\ f[o] \in Record
             /\ o \in S => Kept(o, f[o])
  <2>1. CASE o \in S
    <3>1. f[o] = Completed(o, trk[o])  BY <2>1
    <3>2. Announced(o, trk[o], f[o])  BY <1>2, <3>1, CompletedFacts
    <3> HIDE DEF f
    <3>3. QED  BY <1>2, <3>2 DEF Announced, Kept, Sane, Typed
  <2>2. CASE o \notin S
    <3>1. f[o] = trk[o]  BY <2>2
    <3> HIDE DEF f
    <3>2. QED  BY <1>2, <2>2, <3>1 DEF Sane, Typed
  <2>3. QED  BY <2>1, <2>2
<1>4. f \in [Urls -> Record]  BY <1>3
<1>5. Heard(World) \subseteq S /\ S \subseteq Urls  BY AddressedFacts
<1> HIDE DEF f, S
<1>6. \A o \in Heard(World) : Kept(o, f[o])  BY <1>3, <1>5
<1>7. mgr.started \in BOOLEAN /\ mgr' = [mgr EXCEPT !.started = mgr.started]  BY <1>1, SameManager
<1>8. QED  BY <1>1, <1>3, <1>4, <1>6, <1>7, AllStep

LEMMA ManualUpdateAllStep == ASSUME TkInv, ManualUpdateAll PROVE TkInv'
<1> DEFINE S == Addressed(Enabled)
           f == [t \in Urls |-> IF t \in S THEN ManualUpdate(t, trk[t]) ELSE trk[t]]
<1>1. trk' = f /\ mgr' = mgr /\ cfgs' = cfgs  BY DEF ManualUpdateAll, Update
<1>2. \A o \in Urls : Sane(o, trk[o]) /\ Queued(trk[o])  BY InvFacts
<1>3. ASSUME NEW o \in Urls
      PROVE  /\ Sane(o, f[o]) /\ Queued(f[o]) /\ f[o].enabled = trk[o].enabled /\ f[o] \in Record
             /\ o \in S => Kept(o, f[o])
  <2>1. CASE o \in S
    <3>1. f[o] = ManualUpdate(o, trk[o])  BY <2>1
    <3>2. Announced(o, trk[o], f[o])  BY <1>2, <3>1, ManualUpdateFacts
    <3> HIDE DEF f
    <3>3. QED  BY <1>2, <3>2 DEF Announced, Kept, Sane, Typed
  <2>2. CASE o \notin S
    <3>1. f[o] = trk[o]  BY <2>2
    <3> HIDE DEF f
    <3>2. QED  BY <1>2, <2>2, <3>1 DEF Sane, Typed
  <2>3. QED  BY <2>1, <2>2
<1>4. f \in [Urls -> Record]  BY <1>3
<1>5. Heard(World) \subseteq S /\ S \subseteq Urls  BY AddressedFacts
<1> HIDE DEF f, S
<1>6. \A o \in Heard(World) : Kept(o, f[o])  BY <1>3, <1>5
<1>7. mgr.started \in BOOLEAN /\ mgr' = [mgr EXCEPT !.started = mgr.started]  BY <1>1, SameManager
<1>8. QED  BY <1>1, <1>3, <1>4, <1>6, <1>7, AllStep

LEMMA ScrapeAllStep == ASSUME TkInv, ScrapeAll PROVE TkInv'
<1> DEFINE f == [t \in Urls |-> IF t \in mgr.trackers THEN Scrape(t, trk[t]) ELSE trk[t]]
<1>1. trk' = f /\ mgr' = mgr /\ cfgs' = cfgs  BY DEF ScrapeAll, Update
<1>2. \A o \in Urls : Sane(o, trk[o]) /\ Queued(trk[o])  BY InvFacts
<1>3. ASSUME NEW o \in Urls
      PROVE  /\ Sane(o, f[o]) /\ Queued(f[o]) /\ f[o].enabled = trk[o].enabled /\ f[o] \in Record
             /\ Kept(o, trk[o]) => Kept(o, f[o])
  <2>1. CASE o \in mgr.trackers
    <3>1. f[o] = Scrape(o, trk[o])  BY <2>1
    <3> HIDE DEF f
    <3>2. /\ Sane(o, f[o]) /\ Queued(f[o]) /\ f[o].enabled = trk[o].enabled
          /\ Kept(o, trk[o]) => Kept(o, f[o])
      BY <1>2, <3>1, ScrapeFacts
    <3>3. QED  BY <3>2 DEF Sane, Typed
  <2>2. CASE o \notin mgr.trackers
    <3>1. f[o] = trk[o]  BY <2>2
    <3> HIDE DEF f
    <3>2. QED  BY <1>2, <3>1 DEF Sane, Typed
  <2>3. QED  BY <2>1, <2>2
<1>4. f \in [Urls -> Record]  BY <1>3
<1> HIDE DEF f
<1>5. mgr.started => \A o \in Heard(World) : Kept(o, f[o])
  <2>1. Good(World) /\ World.mgr = mgr /\ World.trk = trk /\ Heard(World) \subseteq Urls
    BY InvFacts, WorldFacts
  <2>2. mgr.started => \A o \in Heard(World) : Kept(o, trk[o])  BY <2>1 DEF Good, Keeps
  <2>3. QED  BY <1>3, <2>1, <2>2
<1>6. mgr.started \in BOOLEAN /\ mgr' = [mgr EXCEPT !.started = mgr.started]  BY <1>1, SameManager
<1>7. QED  BY <1>1, <1>3, <1>4, <1>5, <1>6, AllStep

LEMMA StopManagerStep == ASSUME TkInv, StopManager PROVE TkInv'
<1> DEFINE S == Addressed(mgr.trackers)
           g == [t \in Urls |-> IF t \in S THEN TkStop(t, trk[t]) ELSE trk[t]]
           f == [t \in Urls |-> IF t \in mgr.trackers THEN [g[t] EXCEPT !.status = "idle"] ELSE g[t]]
<1>1. trk' = f /\ mgr' = [mgr EXCEPT !.started = FALSE] /\ cfgs' = cfgs
  <2>1. \E h \in {g} : trk' = [t \in Urls |-> IF t \in mgr.trackers
                                 THEN [h[t] EXCEPT !.status = "idle"] ELSE h[t]]
    BY DEF StopManager, Update
  <2> HIDE DEF g
  <2>2. QED  BY <2>1 DEF StopManager
<1>2. \A o \in Urls : Sane(o, trk[o]) /\ Queued(trk[o])  BY InvFacts
<1>3. ASSUME NEW o \in Urls
      PROVE  Sane(o, g[o]) /\ Queued(g[o]) /\ g[o].enabled = trk[o].enabled
  <2>1. CASE o \in S
    <3>1. g[o] = TkStop(o, trk[o])  BY <2>1
    <3> HIDE DEF g
    <3>2. Stopped(o, trk[o], g[o])  BY <1>2, <3>1, TkStopFacts
    <3>3. QED  BY <1>2, <3>2 DEF Stopped
  <2>2. CASE o \notin S
    <3>1. g[o] = trk[o]  BY <2>2
    <3> HIDE DEF g
    <3>2. QED  BY <1>2, <3>1
  <2>3. QED  BY <2>1, <2>2
<1> HIDE DEF g
<1>4. ASSUME NEW o \in Urls
      PROVE  Sane(o, f[o]) /\ Queued(f[o]) /\ f[o].enabled = trk[o].enabled /\ f[o] \in Record
  <2> DEFINE y == g[o]
             x == [y EXCEPT !.status = "idle"]
  <2>1. Sane(o, y) /\ Queued(y) /\ y.enabled = trk[o].enabled  BY <1>3
  <2>2. f[o] = IF o \in mgr.trackers THEN x ELSE y  OBVIOUS
  <2> HIDE DEF f, y
  <2>3. y \in Record /\ "idle" \in Status  BY <2>1 DEF Sane, Typed, Status
  <2>4. /\ x.loose = y.loose /\ x.queue = y.queue /\ x.event = y.event /\ x.job = y.job
        /\ x.enabled = y.enabled /\ x.started = y.started /\ x.out = y.out
        /\ x.lookups = y.lookups /\ x.timer = y.timer
    BY <2>3 DEF Record
  <2>5. x \in Record  BY <2>3 DEF Record
  <2> HIDE DEF x
  <2>6. Sane(o, x) /\ Queued(x)  BY <2>1, <2>4, <2>5 DEF Sane, Typed, Queued
  <2>7. QED  BY <2>1, <2>2, <2>3, <2>4, <2>5, <2>6
<1>5. f \in [Urls -> Record]  BY <1>4
<1> HIDE DEF f
<1>6. QED  BY <1>1, <1>4, <1>5, AllStep

\* The current tracker is announced to and the other trackers stay as they are.
LEMMA StartQueues ==
  ASSUME NEW W, Fit(W), Current(W), W.mgr.priv, Queues(W, {})
  PROVE  Queues(StartCurr(W), {}) /\ Good(StartCurr(W))
<1> DEFINE V == StartCurr(W)
           c == W.mgr.curr
<1>1. /\ Fit(V) /\ Current(V) /\ Keeps(V, {})
      /\ \A o \in Urls \ {c} : V.trk[o] = W.trk[o]
      /\ c # None /\ Queued(W.trk[c]) => Queued(V.trk[c])
  BY StartCurrFacts
<1>2. c \in Urls => c # None  BY TrackerConstants
<1> HIDE DEF V, c
<1>3. ASSUME NEW o \in Urls PROVE Queued(V.trk[o])
  <2>1. Queued(W.trk[o])  BY DEF Queues
  <2>2. CASE o = c  BY <1>1, <1>2, <2>1, <2>2
  <2>3. CASE o # c
    <3>1. V.trk[o] = W.trk[o]  BY <1>1, <2>3
    <3>2. QED  BY <2>1, <3>1
  <2>4. QED  BY <2>2, <2>3
<1>4. Queues(V, {})  BY <1>3 DEF Queues
<1>5. QED  BY <1>1, <1>4 DEF Good, V

\* Another tracker becomes the current one and is announced to.
LEMMA NextCurrFacts ==
  ASSUME NEW W, Fit(W), W.mgr.priv, Queues(W, {}),
         NEW n, n = None \/ (n \in W.mgr.trackers /\ W.trk[n].enabled)
  PROVE  Good(StartCurr(SwitchTracker(W, n)))
<1> DEFINE V == SwitchTracker(W, n)
<1>1. Fit(V) /\ Current(V) /\ V.trk = W.trk /\ V.mgr.priv = W.mgr.priv  BY SwitchFacts
<1> HIDE DEF V
<1>2. Queues(V, {})  BY <1>1 DEF Queues
<1>3. Good(StartCurr(V))  BY <1>1, <1>2, StartQueues
<1>4. QED  BY <1>3 DEF V

LEMMA SelectedFacts ==
  ASSUME NEW W, Fit(W)
  PROVE  \/ SelectTracker(W) = None
         \/ SelectTracker(W) \in W.mgr.trackers /\ W.trk[SelectTracker(W)].enabled
<1> DEFINE on == {t \in W.mgr.trackers : W.trk[t].enabled}
           n == SelectTracker(W)
<1>1. IF on = {} THEN n = None ELSE n \in on  BY SelectFacts
<1> HIDE DEF n
<1>2. n = None \/ n \in on  BY <1>1
<1>3. n = None \/ (n \in W.mgr.trackers /\ W.trk[n].enabled)  BY <1>2
<1>4. QED  BY <1>3 DEF n

\* The manager is started, and the trackers it talks to were announced to.
LEMMA StartedFacts ==
  ASSUME NEW W, Fit(W), Current(W), Queues(W, {}), \A t \in Heard(W) : Kept(t, W.trk[t]),
         NEW V, V = [W EXCEPT !.mgr.started = TRUE]
  PROVE  Good(V)
<1> DEFINE m == [W.mgr EXCEPT !.started = TRUE]
<1>1. W \in Worlds /\ W.mgr \in Manager /\ W.mgr.custom \subseteq W.mgr.trackers
  BY WorldFacts DEF Fit
<1>2. V = [W EXCEPT !.mgr = m]  OBVIOUS
<1>3. /\ m \in Manager /\ m.curr = W.mgr.curr /\ m.priv = W.mgr.priv
      /\ m.trackers = W.mgr.trackers /\ m.custom = W.mgr.custom
  BY <1>1 DEF Manager
<1> HIDE DEF m
<1>4. V.trk = W.trk /\ V.cfgs = W.cfgs /\ V.mgr = m /\ V \in Worlds  BY <1>1, <1>2, <1>3 DEF Worlds
<1>5. Fit(V)  BY <1>1, <1>3, <1>4 DEF Fit
<1>6. Current(V)  BY <1>3, <1>4 DEF Current
<1>7. Heard(V) = Heard(W)  BY <1>3, <1>4 DEF Heard
<1>8. Queues(V, {}) /\ Keeps(V, {})  BY <1>4, <1>7 DEF Queues, Keeps
<1>9. QED  BY <1>5, <1>6, <1>8 DEF Good

LEMMA StartManagerStep == ASSUME TkInv, StartManager PROVE TkInv'
<1>1. /\ Good(World) /\ Fit(World) /\ World.mgr = mgr /\ World.trk = trk /\ World.cfgs = cfgs
      /\ \A o \in Urls : Sane(o, trk[o]) /\ Queued(trk[o])
      /\ Current(World) /\ Queues(World, {}) /\ mgr.priv \in BOOLEAN
  BY InvFacts, WorldFacts DEF Good
<1>2. CASE mgr.priv
  <2> DEFINE W == IF mgr.curr = None THEN SwitchTracker(World, SelectTracker(World)) ELSE World
             U == StartCurr(W)
             V == [U EXCEPT !.mgr.started = TRUE]
  <2>1. TkBecome(V)
    <3> DEFINE X == IF mgr.priv /\ mgr.curr = None THEN SwitchTracker(World, SelectTracker(World))
                    ELSE World
    <3>1. \E w \in {X} :
             TkBecome([(IF mgr.priv THEN StartCurr(w)
                        ELSE [w EXCEPT !.trk = Update(Enabled, TkStart)]) EXCEPT !.mgr.started = TRUE])
      BY DEF StartManager
    <3>2. X = W  BY <1>2
    <3> HIDE DEF X, W
    <3>3. TkBecome([(IF mgr.priv THEN StartCurr(W)
                     ELSE [W EXCEPT !.trk = Update(Enabled, TkStart)]) EXCEPT !.mgr.started = TRUE])
      BY <3>1, <3>2
    <3>4. QED  BY <1>2, <3>3
  <2>2. Fit(W) /\ Current(W) /\ W.mgr.priv /\ Queues(W, {})
    <3>1. CASE mgr.curr = None
      <4> DEFINE n == SelectTracker(World)
                 Y == SwitchTracker(World, n)
      <4>1. n = None \/ (n \in World.mgr.trackers /\ World.trk[n].enabled)  BY <1>1, SelectedFacts
      <4> HIDE DEF n
      <4>2. World.mgr.priv  BY <1>1, <1>2
      <4>3. Fit(Y) /\ Current(Y) /\ Y.trk = World.trk /\ Y.mgr.priv = World.mgr.priv
        BY <1>1, <4>1, <4>2, SwitchFacts
      <4>4. W = Y  BY <3>1 DEF n
      <4> HIDE DEF Y, W
      <4>5. Queues(W, {})  BY <1>1, <4>3, <4>4 DEF Queues
      <4>6. QED  BY <4>2, <4>3, <4>4, <4>5
    <3>2. CASE mgr.curr # None
      <4>1. W = World  BY <3>2
      <4> HIDE DEF W
      <4>2. QED  BY <1>1, <1>2, <4>1
    <3>3. QED  BY <3>1, <3>2
  <2> HIDE DEF W
  <2>3. /\ Fit(U) /\ Current(U) /\ Queues(U, {}) /\ Heard(U) = Heard(W)
        /\ \A t \in Heard(W) : Kept(t, U.trk[t])
    BY <2>2, StartCurrFacts, StartQueues
  <2> HIDE DEF U
  <2>4. Good(V)  BY <2>3, StartedFacts
  <2> HIDE DEF V
  <2>5. QED  BY <2>1, <2>4, BecomeFacts
<1>3. CASE ~mgr.priv
  <2> DEFINE f == [t \in Urls |-> IF t \in Enabled THEN TkStart(t, trk[t]) ELSE trk[t]]
             V == [[World EXCEPT !.trk = f] EXCEPT !.mgr.started = TRUE]
  <2>1. TkBecome(V)
    <3> DEFINE X == IF mgr.priv /\ mgr.curr = None THEN SwitchTracker(World, SelectTracker(World))
                    ELSE World
    <3>1. \E w \in {X} :
             TkBecome([(IF mgr.priv THEN StartCurr(w)
                        ELSE [w EXCEPT !.trk = f]) EXCEPT !.mgr.started = TRUE])
      BY DEF StartManager, Update
    <3>2. X = World  BY <1>3
    <3> HIDE DEF X, f
    <3>3. TkBecome([(IF mgr.priv THEN StartCurr(World)
                     ELSE [World EXCEPT !.trk = f]) EXCEPT !.mgr.started = TRUE])
      BY <3>1, <3>2
    <3>4. QED  BY <1>3, <3>3
  <2>2. ASSUME NEW o \in Urls
        PROVE  /\ Sane(o, f[o]) /\ Queued(f[o]) /\ f[o].enabled = trk[o].enabled /\ f[o] \in Record
               /\ o \in Enabled => Kept(o, f[o])
    <3>1. CASE o \in Enabled
      <4>1. f[o] = TkStart(o, trk[o])  BY <3>1
      <4>2. Announced(o, trk[o], f[o])  BY <1>1, <4>1, TkStartFacts
      <4> HIDE DEF f
      <4>3. QED  BY <1>1, <4>2 DEF Announced, Kept, Sane, Typed
    <3>2. CASE o \notin Enabled
      <4>1. f[o] = trk[o]  BY <3>2
      <4> HIDE DEF f
      <4>2. QED  BY <1>1, <3>2, <4>1 DEF Sane, Typed
    <3>3. QED  BY <3>1, <3>2
  <2>3. f \in [Urls -> Record]  BY <2>2
  <2>4. Heard(World) = Enabled /\ Enabled \subseteq Urls  BY <1>3, AddressedFacts DEF Addressed
  <2> HIDE DEF f
  <2>5. V = [mgr |-> [mgr EXCEPT !.started = TRUE], trk |-> f, cfgs |-> cfgs]
    <3> DEFINE m == [mgr EXCEPT !.started = TRUE]
               X == [World EXCEPT !.trk = f]
    <3>1. X = [mgr |-> mgr, trk |-> f, cfgs |-> cfgs]  BY DEF World
    <3> HIDE DEF X
    <3>2. X.mgr = mgr  BY <3>1
    <3>3. V = [X EXCEPT !.mgr = m]  BY <3>2 DEF X
    <3> HIDE DEF m, V
    <3>4. V = [mgr |-> m, trk |-> f, cfgs |-> cfgs]  BY <3>1, <3>3
    <3>5. QED  BY <3>4 DEF m
  <2> HIDE DEF V
  <2>6. mgr' = [mgr EXCEPT !.started = TRUE] /\ trk' = f /\ cfgs' = cfgs
    BY <2>1, <2>5 DEF TkBecome
  <2>7. \A o \in Heard(World) : Kept(o, f[o])  BY <2>2, <2>4
  <2>8. QED  BY <2>2, <2>3, <2>6, <2>7, AllStep
<1>4. QED  BY <1>1, <1>2, <1>3

LEMMA SetCurrentTrackerStep == ASSUME TkInv, NEW t \in Urls, SetCurrentTracker(t) PROVE TkInv'
<1> DEFINE c == mgr.curr
           x == TkStop(c, trk[c])
           W == IF c = None THEN World ELSE Put(World, c, x)
<1>1. /\ Good(World) /\ Fit(World) /\ World.mgr = mgr /\ World.trk = trk
      /\ \A o \in Urls : Sane(o, trk[o]) /\ Queued(trk[o])
      /\ Queues(World, {}) /\ c \in Urls \cup {None} /\ mgr.priv
  BY InvFacts, WorldFacts DEF Good, SetCurrentTracker
<1>2. \E w \in {W} : TkBecome(StartCurr(SwitchTracker(w, t)))
  BY <1>1 DEF SetCurrentTracker, Put
<1>3. t \in mgr.trackers /\ trk[t].enabled  BY DEF SetCurrentTracker, Enabled
<1>4. Fit(W) /\ W.mgr = mgr /\ Queues(W, {}) /\ W.trk[t].enabled
  <2>1. CASE c = None
    <3>1. W = World  BY <2>1
    <3> HIDE DEF W
    <3>2. QED  BY <1>1, <1>3, <3>1
  <2>2. CASE c # None
    <3>1. W = Put(World, c, x)  BY <2>2
    <3>2. c \in Urls  BY <1>1, <2>2
    <3> HIDE DEF W, c
    <3>3. Stopped(c, trk[c], x)  BY <1>1, <3>2, TkStopFacts
    <3>4. Sane(c, x) /\ Queued(x) /\ x.enabled = World.trk[c].enabled  BY <1>1, <3>2, <3>3 DEF Stopped
    <3> HIDE DEF x
    <3>5. Replaced(World, c, x, W)  BY <1>1, <3>1, <3>2, <3>4, PutFacts
    <3>6. Queues(World, {c})  BY <1>1 DEF Queues
    <3>7. W.trk[c] = x /\ \A o \in Urls \ {c} : W.trk[o] = trk[o]  BY <1>1, <3>5 DEF Replaced
    <3>8. W.trk[t].enabled = trk[t].enabled  BY <1>1, <3>4, <3>7
    <3>9. QED  BY <1>1, <1>3, <3>4, <3>5, <3>6, <3>8 DEF Replaced
  <2>3. QED  BY <2>1, <2>2
<1> HIDE DEF W
<1>5. Good(StartCurr(SwitchTracker(W, t)))  BY <1>1, <1>3, <1>4, NextCurrFacts
<1>6. TkBecome(StartCurr(SwitchTracker(W, t)))  BY <1>2
<1>7. QED  BY <1>5, <1>6, BecomeFacts

\* A tracker object as it is made, which is enabled.
LEMMA FreshTracker ==
  ASSUME NEW t
  PROVE  Sane(t, Fresh) /\ Queued(Fresh) /\ Kept(t, Fresh) /\ Fresh.enabled /\ Fresh \in Record
<1>1. "update" \in Event /\ "idle" \in Status /\ <<>> \in Seq(Event)  BY DEF Event, Status
<1>2. 0 \in 0 .. MaxFails  BY TrackerConstants
<1>3. Fresh \in Record  BY <1>1, <1>2 DEF Fresh, Record
<1>4. /\ Fresh.job = None /\ Fresh.loose = <<>> /\ Fresh.queue = <<>> /\ Fresh.out = None
      /\ Fresh.lookups = 0 /\ Fresh.timer = FALSE /\ Fresh.started = FALSE
      /\ Fresh.status = "idle" /\ Fresh.enabled
  BY DEF Fresh
<1>5. QED  BY <1>3, <1>4 DEF Sane, Typed, Queued, Kept

\* Other trackers are there, and those that are new were just made.
LEMMA OtherTrackers ==
  ASSUME TkInv, NEW m \in Manager, NEW f \in [Urls -> Record],
         m.custom \subseteq m.trackers, m.started = mgr.started, m.priv = mgr.priv,
         m.curr \in m.trackers \cup {None}, m.curr \in {mgr.curr, None},
         \A o \in Urls : f[o] = Fresh \/ f[o] = trk[o],
         m.curr # None => f[m.curr].enabled,
         NEW V, V = [mgr |-> m, trk |-> f, cfgs |-> cfgs]
  PROVE  /\ Fit(V) /\ V.mgr = m /\ V.trk = f /\ V.cfgs = cfgs /\ Current(V) /\ Queues(V, {})
         /\ (\A o \in m.trackers : o \in mgr.trackers \/ f[o] = Fresh) => Keeps(V, {})
<1>1. /\ cfgs \in Files /\ Good(World) /\ World.mgr = mgr /\ World.trk = trk
      /\ \A o \in Urls : Sane(o, trk[o]) /\ Queued(trk[o])
      /\ Current(World) /\ Keeps(World, {}) /\ None \notin Urls
  BY InvFacts DEF Good
<1>2. \A o \in Urls : Sane(o, f[o]) /\ Queued(f[o])  BY <1>1, FreshTracker
<1>3. Fit(V) /\ V.mgr = m /\ V.trk = f /\ V.cfgs = cfgs  BY <1>1, <1>2, MakeFacts
<1>4. Queues(V, {})  BY <1>2, <1>3 DEF Queues
<1>5. Current(V)  BY <1>1, <1>3 DEF Current
<1>6. ASSUME \A o \in m.trackers : o \in mgr.trackers \/ f[o] = Fresh, m.started, NEW o \in Heard(V)
      PROVE  Kept(o, f[o])
  <2>1. o \in Urls /\ o \in m.trackers  BY <1>3, <1>5, WorldFacts DEF Heard, Current
  <2>2. CASE f[o] = Fresh  BY <2>2, FreshTracker
  <2>3. CASE f[o] # Fresh
    <3>1. f[o] = trk[o] /\ o \in mgr.trackers  BY <1>6, <2>1, <2>3
    <3>2. o \in Heard(World)
      <4>1. CASE mgr.priv  BY <1>1, <1>3, <1>6, <4>1 DEF Heard
      <4>2. CASE ~mgr.priv  BY <1>1, <1>3, <1>6, <3>1, <4>2 DEF Heard
      <4>3. QED  BY <4>1, <4>2
    <3>3. QED  BY <1>1, <1>6, <3>1, <3>2 DEF Keeps
  <2>4. QED  BY <2>2, <2>3
<1>7. QED  BY <1>3, <1>4, <1>5, <1>6 DEF Keeps

LEMMA AddTrackerStep == ASSUME TkInv, NEW t \in Urls, AddTracker(t) PROVE TkInv'
<1> DEFINE m == [mgr EXCEPT !.trackers = mgr.trackers \cup {t}, !.custom = mgr.custom \cup {t}]
           f == [trk EXCEPT ![t] = Fresh]
           V == [World EXCEPT !.mgr.trackers = @ \cup {t}, !.mgr.custom = @ \cup {t}, !.trk[t] = Fresh]
<1>1. /\ mgr \in Manager /\ trk \in [Urls -> Record] /\ mgr.custom \subseteq mgr.trackers
      /\ mgr.curr \in mgr.trackers \cup {None} /\ mgr.trackers \subseteq Urls
      /\ Current(World) /\ World.mgr = mgr /\ World.trk = trk
  BY InvFacts DEF Good
<1>2. V = [mgr |-> m, trk |-> f, cfgs |-> cfgs]
  <2> DEFINE m1 == [mgr EXCEPT !.trackers = mgr.trackers \cup {t}]
             m2 == [m1 EXCEPT !.custom = mgr.custom \cup {t}]
             A == [World EXCEPT !.mgr.trackers = @ \cup {t}]
  <2>1. A = [mgr |-> m1, trk |-> trk, cfgs |-> cfgs]  BY DEF World
  <2>2. m1.custom = mgr.custom  BY <1>1 DEF Manager
  <2>3. m = m2  OBVIOUS
  <2>4. V = [A EXCEPT !.mgr.custom = @ \cup {t}, !.trk[t] = Fresh]  OBVIOUS
  <2> HIDE DEF A, m1
  <2>5. A.mgr = m1 /\ A.trk = trk /\ A.cfgs = cfgs  BY <2>1
  <2>6. V = [A EXCEPT !.mgr = m2, !.trk = f]  BY <2>2, <2>4, <2>5
  <2> HIDE DEF m2, f, V
  <2>7. V = [mgr |-> m2, trk |-> f, cfgs |-> cfgs]  BY <2>1, <2>6
  <2>8. QED  BY <2>3, <2>7
<1>3. TkBecome(SaveTrackerStatus(SaveCustomURLs(V)))  BY DEF AddTracker
<1>4. /\ m.trackers = mgr.trackers \cup {t} /\ m.custom = mgr.custom \cup {t}
      /\ m.curr = mgr.curr /\ m.priv = mgr.priv /\ m.started = mgr.started
  BY <1>1 DEF Manager
<1>5. m \in Manager  BY <1>1 DEF Manager
<1>6. f \in [Urls -> Record] /\ f[t] = Fresh /\ \A o \in Urls \ {t} : f[o] = trk[o]
  BY <1>1, FreshTracker
<1> HIDE DEF V, m, f
<1>7. m.curr # None => f[m.curr].enabled
  <2>1. mgr.curr # None => trk[mgr.curr].enabled /\ mgr.curr \in Urls  BY <1>1 DEF Current
  <2>2. QED  BY <1>4, <1>6, <2>1, FreshTracker
<1>8. Good(V)
  <2>1. /\ m.custom \subseteq m.trackers /\ m.curr \in m.trackers \cup {None}
        /\ m.curr \in {mgr.curr, None}
    BY <1>1, <1>4
  <2>2. \A o \in Urls : f[o] = Fresh \/ f[o] = trk[o]  BY <1>6
  <2>3. \A o \in m.trackers : o \in mgr.trackers \/ f[o] = Fresh  BY <1>4, <1>6
  <2>4. QED  BY <1>2, <1>4, <1>5, <1>6, <1>7, <2>1, <2>2, <2>3, OtherTrackers DEF Good
<1>9. Good(SaveTrackerStatus(SaveCustomURLs(V)))  BY <1>8, SaveFacts
<1>10. QED  BY <1>3, <1>9, BecomeFacts

LEMMA RemoveTrackerStep == ASSUME TkInv, NEW t \in Urls, RemoveTracker(t) PROVE TkInv'
<1> DEFINE m == [mgr EXCEPT !.trackers = mgr.trackers \ {t}, !.custom = mgr.custom \ {t}]
           f == [trk EXCEPT ![t] = Fresh]
           W == [TkErase(World, t) EXCEPT !.mgr.custom = @ \ {t}]
           n == SelectTracker(W)
           V == IF mgr.priv /\ mgr.curr = t THEN StartCurr(SwitchTracker(W, n)) ELSE W
<1>1. /\ mgr \in Manager /\ trk \in [Urls -> Record] /\ mgr.custom \subseteq mgr.trackers
      /\ mgr.curr \in mgr.trackers \cup {None} /\ mgr.trackers \subseteq Urls
      /\ Current(World) /\ World.mgr = mgr /\ World.trk = trk /\ cfgs \in Files /\ None \notin Urls
      /\ \A o \in Urls : Sane(o, trk[o]) /\ Queued(trk[o])
      /\ mgr.priv \in BOOLEAN
  BY InvFacts, WorldFacts DEF Good
<1>2. W = [mgr |-> m, trk |-> f, cfgs |-> cfgs]
  <2> DEFINE m1 == [mgr EXCEPT !.trackers = mgr.trackers \ {t}]
             m2 == [m1 EXCEPT !.custom = mgr.custom \ {t}]
             A == TkErase(World, t)
  <2>1. A = [mgr |-> m1, trk |-> f, cfgs |-> cfgs]
    <3> HIDE DEF f, m1
    <3>1. A = [World EXCEPT !.mgr = m1, !.trk = f]  BY <1>1 DEF TkErase, m1, f
    <3> HIDE DEF A
    <3>2. QED  BY <3>1 DEF World
  <2>2. m1.custom = mgr.custom  BY <1>1 DEF Manager
  <2>3. m = m2  OBVIOUS
  <2>4. W = [A EXCEPT !.mgr.custom = @ \ {t}]  OBVIOUS
  <2> HIDE DEF A, m1, f
  <2>5. A.mgr = m1  BY <2>1
  <2>6. W = [A EXCEPT !.mgr = m2]  BY <2>2, <2>4, <2>5
  <2> HIDE DEF m2
  <2>7. W = [mgr |-> m2, trk |-> f, cfgs |-> cfgs]  BY <2>1, <2>6
  <2>8. QED  BY <2>3, <2>7
<1>3. TkBecome(SaveCustomURLs(V))
  <2>1. \E w \in {W} : TkBecome(SaveCustomURLs(
            IF mgr.priv /\ mgr.curr = t THEN StartCurr(SwitchTracker(w, SelectTracker(w))) ELSE w))
    BY DEF RemoveTracker
  <2> HIDE DEF W
  <2>2. QED  BY <2>1
<1>4. /\ m.trackers = mgr.trackers \ {t} /\ m.custom = mgr.custom \ {t}
      /\ m.curr = mgr.curr /\ m.priv = mgr.priv /\ m.started = mgr.started
  BY <1>1 DEF Manager
<1>5. m \in Manager  BY <1>1 DEF Manager
<1>6. f \in [Urls -> Record] /\ f[t] = Fresh /\ \A o \in Urls \ {t} : f[o] = trk[o]
  BY <1>1, FreshTracker
<1>7. m.custom \subseteq m.trackers  BY <1>1, <1>4
<1> HIDE DEF m, f, W
<1>8. \A o \in Urls : Sane(o, f[o]) /\ Queued(f[o])  BY <1>1, <1>6, FreshTracker
<1>9. Fit(W) /\ W.mgr = m /\ W.trk = f  BY <1>1, <1>2, <1>5, <1>6, <1>7, <1>8, MakeFacts
<1>10. Good(V)
  <2>1. CASE mgr.priv /\ mgr.curr = t
    <3>1. Queues(W, {}) /\ W.mgr.priv  BY <1>4, <1>8, <1>9, <2>1 DEF Queues
    <3>2. n = None \/ (n \in W.mgr.trackers /\ W.trk[n].enabled)  BY <1>9, SelectedFacts
    <3> HIDE DEF n
    <3>3. Good(StartCurr(SwitchTracker(W, n)))  BY <1>9, <3>1, <3>2, NextCurrFacts
    <3>4. QED  BY <2>1, <3>3
  <2>2. CASE ~(mgr.priv /\ mgr.curr = t)
    <3>1. mgr.curr # t  BY <1>1, <2>2 DEF Current
    <3>2. m.curr \in m.trackers \cup {None} /\ m.curr \in {mgr.curr, None}  BY <1>1, <1>4, <3>1
    <3>3. m.curr # None => f[m.curr].enabled
      <4>1. mgr.curr # None => trk[mgr.curr].enabled /\ mgr.curr \in Urls \ {t}
        BY <1>1, <3>1 DEF Current
      <4>2. QED  BY <1>4, <1>6, <4>1
    <3>4. \A o \in Urls : f[o] = Fresh \/ f[o] = trk[o]  BY <1>6
    <3>5. \A o \in m.trackers : o \in mgr.trackers \/ f[o] = Fresh  BY <1>4
    <3>6. Good(W)
      BY <1>2, <1>4, <1>5, <1>6, <1>7, <3>2, <3>3, <3>4, <3>5, OtherTrackers DEF Good
    <3>7. QED  BY <2>2, <3>6
  <2>3. QED  BY <2>1, <2>2
<1> HIDE DEF V
<1>11. Good(SaveCustomURLs(V))  BY <1>10, SaveFacts
<1>12. QED  BY <1>3, <1>11, BecomeFacts

\* The trackers of the torrent alone, when that leaves a private torrent with
\* the current tracker it had.
LEMMA RestoreDefaultStep ==
  ASSUME TkInv, RestoreDefault, ~(mgr.priv /\ mgr'.curr # mgr.curr)
  PROVE  TkInv'
<1> DEFINE k == IF mgr.curr \in mgr.custom THEN None ELSE mgr.curr
           m == [mgr EXCEPT !.trackers = mgr.trackers \ mgr.custom, !.custom = {}, !.curr = k]
           f == [t \in Urls |-> IF t \in mgr.custom THEN Fresh ELSE trk[t]]
           W == [World EXCEPT !.mgr.trackers = @ \ mgr.custom, !.mgr.custom = {},
                              !.mgr.curr = IF @ \in mgr.custom THEN None ELSE @, !.trk = f]
           n == SelectTracker(W)
           V == IF mgr.priv /\ W.mgr.curr = None THEN SwitchTracker(W, n) ELSE W
<1>1. /\ mgr \in Manager /\ trk \in [Urls -> Record] /\ mgr.custom \subseteq mgr.trackers
      /\ mgr.curr \in mgr.trackers \cup {None} /\ mgr.trackers \subseteq Urls
      /\ Current(World) /\ World.mgr = mgr /\ World.trk = trk /\ cfgs \in Files /\ None \notin Urls
      /\ mgr.priv \in BOOLEAN
  BY InvFacts, WorldFacts DEF Good
<1>2. W = [mgr |-> m, trk |-> f, cfgs |-> cfgs]
  <2> HIDE DEF f
  <2> DEFINE m1 == [mgr EXCEPT !.trackers = mgr.trackers \ mgr.custom]
             m2 == [m1 EXCEPT !.custom = {}]
             m3 == [m2 EXCEPT !.curr = k]
  <2>1. m2.curr = mgr.curr  BY <1>1 DEF Manager
  <2>2. m = m3  OBVIOUS
  <2>3. W = [World EXCEPT !.mgr = m3, !.trk = f]  BY <1>1, <2>1
  <2> HIDE DEF m3, W
  <2>4. W = [mgr |-> m3, trk |-> f, cfgs |-> cfgs]  BY <2>3 DEF World
  <2>5. QED  BY <2>2, <2>4
<1>3. TkBecome(SaveCustomURLs(V))
  <2>1. \E w \in {W} : TkBecome(SaveCustomURLs(
            IF mgr.priv /\ w.mgr.curr = None THEN SwitchTracker(w, SelectTracker(w)) ELSE w))
    BY DEF RestoreDefault
  <2> HIDE DEF W
  <2>2. QED  BY <2>1
<1>4. /\ m.trackers = mgr.trackers \ mgr.custom /\ m.custom = {}
      /\ m.curr = k /\ m.priv = mgr.priv /\ m.started = mgr.started
  BY <1>1 DEF Manager
<1>5. k \in {mgr.curr, None} /\ k \in (mgr.trackers \ mgr.custom) \cup {None}  BY <1>1
<1> HIDE DEF k
<1>6. m \in Manager  BY <1>1, <1>5 DEF Manager
<1>7. /\ f \in [Urls -> Record] /\ \A o \in Urls : f[o] = Fresh \/ f[o] = trk[o]
      /\ \A o \in Urls \ mgr.custom : f[o] = trk[o]
  BY <1>1, FreshTracker
<1>8. m.curr # None => f[m.curr].enabled
  <2>1. mgr.curr # None => trk[mgr.curr].enabled /\ mgr.curr \in Urls  BY <1>1 DEF Current
  <2>2. QED  BY <1>4, <1>5, <1>7, <2>1
<1> HIDE DEF m, f, W
<1>9. /\ Fit(W) /\ W.mgr = m /\ Current(W) /\ Queues(W, {}) /\ Keeps(W, {})
  <2>1. \A o \in m.trackers : o \in mgr.trackers \/ f[o] = Fresh  BY <1>4
  <2>2. /\ m.custom \subseteq m.trackers /\ m.curr \in m.trackers \cup {None}
        /\ m.curr \in {mgr.curr, None}
    BY <1>4, <1>5
  <2>3. QED  BY <1>2, <1>4, <1>6, <1>7, <1>8, <2>1, <2>2, OtherTrackers
<1>10. Good(V)
  <2>1. CASE mgr.priv /\ W.mgr.curr = None
    <3> DEFINE S == SwitchTracker(W, n)
    <3>1. n = None \/ (n \in W.mgr.trackers /\ W.trk[n].enabled)  BY <1>9, SelectedFacts
    <3>2. V = S  BY <2>1
    <3> HIDE DEF n, V
    <3>3. W.mgr.priv  BY <1>4, <1>9, <2>1
    <3>4. /\ Fit(S) /\ Current(S) /\ S.trk = W.trk /\ S.mgr.curr = n
          /\ S.mgr.priv = W.mgr.priv
      BY <1>9, <3>1, <3>3, SwitchFacts
    <3> HIDE DEF S
    <3>5. mgr'.curr = n
      <4>1. S \in Worlds  BY <3>4 DEF Fit
      <4>2. SaveCustomURLs(S).mgr = S.mgr  BY <4>1 DEF SaveCustomURLs, Worlds
      <4>3. QED  BY <1>3, <3>2, <3>4, <4>2 DEF TkBecome
    <3>6. n = mgr.curr  BY <2>1, <3>5
    <3>7. Queues(S, {})  BY <1>9, <3>4 DEF Queues
    <3>8. n = None
      <4>1. k = None  BY <1>4, <1>9, <2>1
      <4>2. mgr.curr = None \/ mgr.curr \in mgr.custom  BY <4>1 DEF k
      <4>3. W.mgr.trackers = mgr.trackers \ mgr.custom  BY <1>4, <1>9
      <4>4. QED  BY <1>1, <3>1, <3>6, <4>2, <4>3
    <3>9. Heard(S) = {}  BY <3>3, <3>4, <3>8 DEF Heard
    <3>10. Keeps(S, {})  BY <3>9 DEF Keeps
    <3>11. QED  BY <3>2, <3>4, <3>7, <3>10 DEF Good
  <2>2. CASE ~(mgr.priv /\ W.mgr.curr = None)
    <3>1. V = W  BY <2>2
    <3>2. QED  BY <1>9, <3>1 DEF Good
  <2>3. QED  BY <2>1, <2>2
<1> HIDE DEF V
<1>11. Good(SaveCustomURLs(V))  BY <1>10, SaveFacts
<1>12. QED  BY <1>3, <1>11, BecomeFacts

LEMMA SetTrackerEnabledStep == ASSUME TkInv, NEW t \in Urls, SetTrackerEnabled(t) PROVE TkInv'
<1> DEFINE a == trk[t].enabled
           x == [trk[t] EXCEPT !.enabled = ~a]
           f == [trk EXCEPT ![t] = x]
           W == [World EXCEPT !.trk[t].enabled = ~@]
           y == TkStop(t, x)
           V == IF a THEN Put(W, t, y) ELSE W
           n == SelectTracker(V)
           Z == CASE a /\ mgr.curr = t -> StartCurr(SwitchTracker(V, n))
                  [] ~a /\ ~mgr.priv /\ mgr.started -> Put(V, t, TkStart(t, V.trk[t]))
                  [] OTHER -> V
<1>1. /\ mgr \in Manager /\ trk \in [Urls -> Record] /\ mgr.custom \subseteq mgr.trackers
      /\ mgr.curr \in mgr.trackers \cup {None} /\ mgr.trackers \subseteq Urls
      /\ Current(World) /\ Keeps(World, {}) /\ World.mgr = mgr /\ World.trk = trk
      /\ cfgs \in Files /\ None \notin Urls
      /\ \A o \in Urls : Sane(o, trk[o]) /\ Queued(trk[o])
      /\ mgr.priv \in BOOLEAN /\ mgr.started \in BOOLEAN /\ t \in mgr.trackers
      /\ Heard(World) \subseteq Urls
  BY InvFacts, WorldFacts DEF Good, SetTrackerEnabled
<1>2. trk[t] \in Record /\ a \in BOOLEAN  BY <1>1 DEF Record
<1>3. W = [mgr |-> mgr, trk |-> f, cfgs |-> cfgs]  BY DEF World
<1>4. /\ x.loose = trk[t].loose /\ x.queue = trk[t].queue /\ x.event = trk[t].event
      /\ x.job = trk[t].job /\ x.started = trk[t].started /\ x.out = trk[t].out
      /\ x.lookups = trk[t].lookups /\ x.timer = trk[t].timer /\ x.enabled = ~a
  BY <1>2 DEF Record
<1>5. x \in Record  BY <1>2 DEF Record
<1>6. TkBecome(SaveTrackerStatus(Z))
  <2>1. \E w \in {W} :
        \E v \in {IF a THEN [w EXCEPT !.trk[t] = TkStop(t, @)] ELSE w} :
          TkBecome(SaveTrackerStatus(
            CASE a /\ mgr.curr = t -> StartCurr(SwitchTracker(v, SelectTracker(v)))
              [] ~a /\ ~mgr.priv /\ mgr.started -> [v EXCEPT !.trk[t] = TkStart(t, @)]
              [] OTHER -> v))
    BY DEF SetTrackerEnabled
  <2>2. W.trk[t] = x
    <3> HIDE DEF W, x
    <3>1. W.trk = f  BY <1>3
    <3>2. QED  BY <1>1, <3>1
  <2> HIDE DEF W, a, x
  <2>3. \E v \in {IF a THEN [W EXCEPT !.trk[t] = TkStop(t, @)] ELSE W} :
          TkBecome(SaveTrackerStatus(
            CASE a /\ mgr.curr = t -> StartCurr(SwitchTracker(v, SelectTracker(v)))
              [] ~a /\ ~mgr.priv /\ mgr.started -> [v EXCEPT !.trk[t] = TkStart(t, @)]
              [] OTHER -> v))
    BY <2>1
  <2>4. V = IF a THEN [W EXCEPT !.trk[t] = TkStop(t, @)] ELSE W  BY <2>2 DEF Put
  <2> HIDE DEF V
  <2>5. TkBecome(SaveTrackerStatus(
            CASE a /\ mgr.curr = t -> StartCurr(SwitchTracker(V, SelectTracker(V)))
              [] ~a /\ ~mgr.priv /\ mgr.started -> [V EXCEPT !.trk[t] = TkStart(t, @)]
              [] OTHER -> V))
    BY <2>3, <2>4
  <2>6. [V EXCEPT !.trk[t] = TkStart(t, @)] = Put(V, t, TkStart(t, V.trk[t]))  BY DEF Put
  <2>7. QED  BY <2>5, <2>6
<1> HIDE DEF W, x
<1>7. f \in [Urls -> Record] /\ f[t] = x /\ \A o \in Urls \ {t} : f[o] = trk[o]  BY <1>1, <1>5
<1>8. Sane(t, x) /\ Queued(x)
  <2>1. Sane(t, trk[t]) /\ Queued(trk[t])  BY <1>1
  <2>2. QED  BY <1>4, <1>5, <2>1 DEF Sane, Typed, Queued
<1> HIDE DEF f, a
<1>9. Fit(W) /\ W.mgr = mgr /\ W.trk = f
  <2>1. \A o \in Urls : Sane(o, f[o])  BY <1>1, <1>7, <1>8
  <2>2. QED  BY <1>1, <1>3, <1>7, <2>1, MakeFacts
<1>10. Queues(W, {})  BY <1>1, <1>7, <1>8, <1>9 DEF Queues
<1>11. Heard(W) \ {t} \subseteq Heard(World) /\ Heard(W) \subseteq Urls
  <2>1. Heard(W) \subseteq Urls  BY <1>9, WorldFacts
  <2>2. QED  BY <1>1, <1>7, <1>9, <2>1 DEF Heard
<1>12. Keeps(W, {t})  BY <1>1, <1>7, <1>9, <1>11 DEF Keeps
<1>13. mgr.curr # t => Current(W)  BY <1>1, <1>7, <1>9 DEF Current
<1>14. Good(Z)
  <2>1. CASE a
    <3>1. V = Put(W, t, y)  BY <2>1
    <3>2. Stopped(t, x, y)  BY <1>8, TkStopFacts
    <3> HIDE DEF y, V
    <3>3. Sane(t, y) /\ Queued(y) /\ y.enabled = W.trk[t].enabled /\ y.enabled = ~a
      BY <1>4, <1>7, <1>8, <1>9, <3>2 DEF Stopped
    <3>4. Replaced(W, t, y, V)  BY <1>9, <3>1, <3>3, PutFacts
    <3>5. Queues(W, {t})  BY <1>10 DEF Queues
    <3>6. Fit(V) /\ V.mgr = mgr /\ Queues(V, {}) /\ Heard(V) = Heard(W) /\ V.trk[t] = y
          /\ Keeps(V, {t}) /\ (Current(W) => Current(V))
      BY <1>9, <1>12, <3>3, <3>4, <3>5 DEF Replaced
    <3>7. CASE mgr.curr = t
      <4>1. mgr.priv  BY <1>1, <3>7 DEF Current
      <4>2. n = None \/ (n \in V.mgr.trackers /\ V.trk[n].enabled)  BY <3>6, SelectedFacts
      <4>3. Z = StartCurr(SwitchTracker(V, n))  BY <2>1, <3>7
      <4> HIDE DEF n, Z
      <4>4. QED  BY <3>6, <4>1, <4>2, <4>3, NextCurrFacts
    <3>8. CASE mgr.curr # t
      <4>1. Z = V  BY <2>1, <3>8
      <4>2. t \notin Heard(V)  BY <2>1, <3>3, <3>6, <3>8 DEF Heard
      <4> HIDE DEF Z
      <4>3. Keeps(V, {})  BY <3>6, <4>2 DEF Keeps
      <4>4. QED  BY <1>13, <3>6, <3>8, <4>1, <4>3 DEF Good
    <3>9. QED  BY <3>7, <3>8
  <2>2. CASE ~a
    <3>1. V = W  BY <2>2
    <3>2. mgr.curr # t  BY <1>1, <2>2 DEF Current, a
    <3> HIDE DEF V
    <3>3. CASE ~mgr.priv /\ mgr.started
      <4> DEFINE z == TkStart(t, x)
      <4>1. Z = Put(W, t, z)  BY <1>7, <1>9, <2>2, <3>1, <3>3
      <4>2. Announced(t, x, z)  BY <1>8, TkStartFacts
      <4> HIDE DEF z, Z
      <4>3. Sane(t, z) /\ Queued(z) /\ z.enabled = W.trk[t].enabled /\ Kept(t, z)
        BY <1>7, <1>8, <1>9, <4>2 DEF Announced, Kept
      <4>4. Replaced(W, t, z, Z)  BY <1>9, <4>1, <4>3, PutFacts
      <4>5. Queues(W, {t})  BY <1>10 DEF Queues
      <4>6. QED  BY <1>9, <1>12, <1>13, <3>2, <4>3, <4>4, <4>5 DEF Replaced, Good
    <3>4. CASE ~(~mgr.priv /\ mgr.started)
      <4>1. Z = W  BY <2>2, <3>1, <3>4
      <4> HIDE DEF Z
      <4>2. mgr.started => t \notin Heard(W)  BY <1>1, <1>9, <3>2, <3>4 DEF Heard
      <4>3. Keeps(W, {})  BY <1>9, <1>12, <4>2 DEF Keeps
      <4>4. QED  BY <1>9, <1>10, <1>13, <3>2, <4>1, <4>3 DEF Good
    <3>5. QED  BY <3>3, <3>4
  <2>3. QED  BY <2>1, <2>2
<1> HIDE DEF Z
<1>15. Good(SaveTrackerStatus(Z))  BY <1>14, SaveFacts
<1>16. QED  BY <1>6, <1>15, BecomeFacts

\* What the constructor makes of the torrent and the files.
LEMMA LoadFacts ==
  ASSUME NEW priv \in BOOLEAN, NEW list \in SUBSET Urls, NEW files \in Files
  PROVE  Good(Load(priv, list, files))
<1> DEFINE all == list \cup files.custom
           m == [started |-> FALSE, priv |-> priv, curr |-> None, trackers |-> all,
                 list |-> list, custom |-> files.custom]
           f == [t \in Urls |-> [Fresh EXCEPT !.enabled = ~(t \in all /\ t \in files.off)]]
           W == [mgr |-> m, trk |-> f, cfgs |-> files]
           n == SelectTracker(W)
           V == IF priv THEN SwitchTracker(W, n) ELSE W
<1>1. files.custom \in SUBSET Urls /\ None \notin Urls  BY TrackerConstants DEF Files
<1>2. Load(priv, list, files) = V  BY DEF Load
<1>3. /\ m.started = FALSE /\ m.priv = priv /\ m.curr = None /\ m.trackers = all
      /\ m.custom = files.custom /\ m.custom \subseteq m.trackers
  OBVIOUS
<1>4. m \in Manager  BY <1>1 DEF Manager
<1>5. ASSUME NEW o \in Urls PROVE f[o] \in Record /\ Sane(o, f[o]) /\ Queued(f[o])
  <2> DEFINE on == ~(o \in all /\ o \in files.off)
             x == [Fresh EXCEPT !.enabled = on]
  <2>1. on \in BOOLEAN  OBVIOUS
  <2>2. f[o] = x  OBVIOUS
  <2> HIDE DEF on, f
  <2>3. Sane(o, x) /\ Queued(x)  BY <2>1, FreshFacts
  <2>4. QED  BY <2>2, <2>3 DEF Sane, Typed
<1>6. f \in [Urls -> Record]  BY <1>5
<1> HIDE DEF m, f, all
<1>7. Fit(W) /\ W.mgr = m /\ W.trk = f  BY <1>3, <1>4, <1>5, <1>6, MakeFacts
<1> HIDE DEF W
<1>8. Queues(W, {})  BY <1>5, <1>7 DEF Queues
<1>9. Good(V)
  <2>1. CASE priv
    <3>1. n = None \/ (n \in W.mgr.trackers /\ W.trk[n].enabled)  BY <1>7, SelectedFacts
    <3>2. V = SwitchTracker(W, n) /\ W.mgr.priv  BY <1>3, <1>7, <2>1
    <3> HIDE DEF n, V
    <3>3. Fit(V) /\ Current(V) /\ V.trk = W.trk /\ V.mgr.started = W.mgr.started
      BY <1>7, <3>1, <3>2, SwitchFacts
    <3>4. Queues(V, {})  BY <1>8, <3>3 DEF Queues
    <3>5. Keeps(V, {})  BY <1>3, <1>7, <3>3 DEF Keeps
    <3>6. QED  BY <3>3, <3>4, <3>5 DEF Good
  <2>2. CASE ~priv
    <3>1. V = W  BY <2>2
    <3>2. Current(W)  BY <1>3, <1>7, <2>2 DEF Current
    <3>3. Keeps(W, {})  BY <1>3, <1>7 DEF Keeps
    <3>4. QED  BY <1>7, <1>8, <3>1, <3>2, <3>3 DEF Good
  <2>3. QED  BY <2>1, <2>2
<1>10. QED  BY <1>2, <1>9

LEMMA TkRestartStep == ASSUME TkInv, TkRestart PROVE TkInv'
<1> DEFINE W == Load(mgr.priv, mgr.list, cfgs)
<1>1. mgr.priv \in BOOLEAN /\ mgr.list \in SUBSET Urls /\ cfgs \in Files  BY InvFacts DEF Manager
<1>2. Good(W)  BY <1>1, LoadFacts
<1>3. TkBecome(W)  BY DEF TkRestart
<1> HIDE DEF W
<1>4. QED  BY <1>2, <1>3, BecomeFacts

LEMMA TkInitInv == TkInit => TkInv
<1> SUFFICES ASSUME TkInit PROVE TkInv
  OBVIOUS
<1> DEFINE none == [custom |-> {}, off |-> {}]
<1>1. PICK T \in Torrents : \E W \in {Load(T.priv, T.list, none)} :
         mgr = W.mgr /\ trk = W.trk /\ cfgs = W.cfgs
  BY DEF TkInit
<1>2. T.priv \in BOOLEAN /\ T.list \in SUBSET Urls  BY TrackersAssumption
<1>3. none \in Files  BY DEF Files
<1> DEFINE W == Load(T.priv, T.list, none)
<1> HIDE DEF none
<1>4. Good(W)  BY <1>2, <1>3, LoadFacts
<1>5. mgr = W.mgr /\ trk = W.trk /\ cfgs = W.cfgs  BY <1>1
<1> HIDE DEF W
<1>6. W \in Worlds  BY <1>4 DEF Good, Fit
<1>7. World = W  BY <1>5, <1>6 DEF World, Worlds
<1>8. QED  BY <1>4, <1>7 DEF TkInv

-----------------------------------------------------------------------------
(* The theorem. *)

\* RestoreDefault gives a private torrent another current tracker, which is
\* not announced to.
Unannounced == RestoreDefault /\ mgr.priv /\ mgr'.curr # mgr.curr

LEMMA TkStepInv == TkInv /\ [TkNext]_tkVars /\ [~Unannounced]_tkVars => TkInv'
<1> SUFFICES ASSUME TkInv, [TkNext]_tkVars, [~Unannounced]_tkVars PROVE TkInv'
  OBVIOUS
<1>1. CASE UNCHANGED tkVars  BY <1>1 DEF TkInv, World, tkVars
<1>2. CASE TkNext /\ ~Unannounced
  <2>1. CASE StartManager  BY <2>1, StartManagerStep
  <2>2. CASE StopManager  BY <2>2, StopManagerStep
  <2>3. CASE CompletedAll  BY <2>3, CompletedAllStep
  <2>4. CASE ManualUpdateAll  BY <2>4, ManualUpdateAllStep
  <2>5. CASE ScrapeAll  BY <2>5, ScrapeAllStep
  <2>6. CASE RestoreDefault  BY <1>2, <2>6, RestoreDefaultStep DEF Unannounced
  <2>7. CASE TkRestart  BY <2>7, TkRestartStep
  <2>8. ASSUME NEW t \in Urls,
               \/ SetCurrentTracker(t) \/ SetTrackerEnabled(t)
               \/ ActiveResult(t) \/ LooseResult(t) \/ ScrapeResult(t) \/ ReannounceTimeout(t)
               \/ ResolverResult(t) \/ ConnectReceived(t) \/ AnnounceReceived(t)
               \/ ErrorReceived(t) \/ ConnTimeout(t)
        PROVE  TkInv'
    <3>1. CASE SetCurrentTracker(t)  BY <3>1, SetCurrentTrackerStep
    <3>2. CASE SetTrackerEnabled(t)  BY <3>2, SetTrackerEnabledStep
    <3>3. CASE ActiveResult(t)  BY <3>3, ActiveResultStep
    <3>4. CASE LooseResult(t)  BY <3>4, LooseResultStep
    <3>5. CASE ScrapeResult(t)  BY <3>5, ScrapeResultStep
    <3>6. CASE ReannounceTimeout(t)  BY <3>6, ReannounceTimeoutStep
    <3>7. CASE ResolverResult(t)  BY <3>7, ResolverResultStep
    <3>8. CASE ConnectReceived(t)  BY <3>8, ConnectReceivedStep
    <3>9. CASE AnnounceReceived(t)  BY <3>9, AnnounceReceivedStep
    <3>10. CASE ErrorReceived(t)  BY <3>10, ErrorReceivedStep
    <3>11. CASE ConnTimeout(t)  BY <3>11, ConnTimeoutStep
    <3>12. QED
      BY <2>8, <3>1, <3>2, <3>3, <3>4, <3>5, <3>6, <3>7, <3>8, <3>9, <3>10, <3>11
  <2>9. ASSUME NEW T \in Torrents, NEW t \in T.custom, AddTracker(t) \/ RemoveTracker(t)
        PROVE  TkInv'
    <3>1. t \in Urls  BY TrackersAssumption
    <3>2. CASE AddTracker(t)  BY <3>1, <3>2, AddTrackerStep
    <3>3. CASE RemoveTracker(t)  BY <3>1, <3>3, RemoveTrackerStep
    <3>4. QED  BY <2>9, <3>2, <3>3
  <2>10. QED
    BY <1>2, <2>1, <2>2, <2>3, <2>4, <2>5, <2>6, <2>7, <2>8, <2>9 DEF TkNext
<1>3. QED  BY <1>1, <1>2

\* What TkInv says of the trackers the manager talks to.
LEMMA InvNeverForgotten == TkInv => NeverForgotten
<1> SUFFICES ASSUME TkInv PROVE NeverForgotten
  OBVIOUS
<1>1. /\ Good(World) /\ World.mgr = mgr /\ World.trk = trk /\ trk \in [Urls -> Record]
      /\ \A t \in Urls : Sane(t, trk[t]) /\ Queued(trk[t])
      /\ mgr.trackers \subseteq Urls /\ mgr.custom \subseteq mgr.trackers
      /\ mgr.curr \in mgr.trackers \cup {None}
  BY InvFacts
<1>2. ASSUME NEW t \in Urls
      PROVE  /\ trk[t].event \in Event /\ trk[t].status \in Status /\ trk[t].fails \in 0 .. MaxFails
             /\ trk[t].out \in {None, "connect", "announce"}
             /\ trk[t].todo \subseteq {"announce", "scrape"}
             /\ trk[t].job \in Event \cup {None} /\ t \in Udp => trk[t].job = None
  <2> DEFINE x == trk[t]
  <2>1. Sane(t, x)  BY <1>1
  <2> HIDE DEF x
  <2>2. /\ x.event \in Event /\ x.status \in Status /\ x.fails \in 0 .. MaxFails
        /\ x.out \in {None, "connect", "announce"} /\ x.todo \subseteq {"announce", "scrape"}
        /\ x.job \in Event \cup {None} /\ t \in Udp => x.job = None
    BY <2>1 DEF Sane, Typed, Record
  <2>3. QED  BY <2>2 DEF x
<1>3. TkTypeOK  BY <1>1, <1>2 DEF TkTypeOK
<1>4. ASSUME mgr.started, NEW t \in Addressed(Enabled),
             trk[t].started \/ trk[t].status \in {"announcing", "error"}
      PROVE  Waiting(trk[t]) \/ trk[t].re
  <2> DEFINE x == trk[t]
  <2>1. t \in Heard(World) /\ t \in Urls  BY AddressedFacts
  <2>2. Kept(t, x)  BY <1>1, <1>4, <2>1 DEF Good, Keeps
  <2>3. Typed(t, x) /\ Queued(x)  BY <1>1, <2>1 DEF Sane
  <2>4. x.started \/ x.status \in {"announcing", "error"}  BY <1>4
  <2> HIDE DEF x
  <2>5. x \in Record  BY <2>3 DEF Typed
  <2>6. x.lookups \in Nat /\ x.loose \in Seq(Event) /\ x.queue \in Seq(Event)  BY <2>5 DEF Record
  <2>7. Useful(t, x) => Waiting(x)
    <3>1. CASE t \in Udp
      <4>1. "announce" # None  BY DEF None
      <4>2. QED  BY <3>1, <4>1 DEF Useful, Waiting
    <3>2. CASE t \notin Udp
      <4>1. DOMAIN x.loose # {} => x.loose # <<>>  OBVIOUS
      <4>2. DOMAIN x.queue # {} => x.queue # <<>>  OBVIOUS
      <4>3. x.queue # <<>> => x.job # None  BY <2>3 DEF Queued
      <4>4. x.job \in Event => x.job # None  BY TrackerConstants
      <4>5. QED  BY <3>2, <4>1, <4>2, <4>3, <4>4 DEF Useful, Waiting
    <3>3. QED  BY <3>1, <3>2
  <2>8. Pending(x) => Waiting(x)  BY <2>3 DEF Pending, Waiting, Queued
  <2>9. Waiting(x) \/ x.re  BY <2>2, <2>4, <2>7, <2>8 DEF Kept
  <2>10. QED  BY <2>9 DEF x
<1>5. QED  BY <1>3, <1>4 DEF NeverForgotten

\* Whatever the trackers, the torrent and the order in which answers,
\* refusals, timeouts, lookups, restarts and requests of the user come, a
\* tracker of a running torrent that accepted us, is being announced to or
\* failed has an announce under way or a timer for the next one
\* (TrackerManager, HTTPTracker, UDPTracker). The one step this excludes is
\* that of restoreDefault which gives a running private torrent a tracker it
\* does not announce to (trackermanager.cpp:252).
THEOREM TrackersNeverForgotten == TkSpec /\ [][~Unannounced]_tkVars => []NeverForgotten
<1>1. TkInit => TkInv  BY TkInitInv
<1>2. TkInv /\ [TkNext]_tkVars /\ [~Unannounced]_tkVars => TkInv'  BY TkStepInv
<1>3. TkInv => NeverForgotten  BY InvNeverForgotten
<1>4. QED  BY <1>1, <1>2, <1>3, PTL DEF TkSpec

=============================================================================
