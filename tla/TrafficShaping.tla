--------------------------- MODULE TrafficShaping ---------------------------
(***************************************************************************)
(* A network thread: it waits for sockets that are ready, or for its       *)
(* wake-up pipe, and shares what the limits allow between groups of        *)
(* sockets. src/src/net/{networkthread,uploadthread,downloadthread,        *)
(* socketgroup,socketmonitor,poll,wakeuppipe}.cpp. update() holds the lock *)
(* of the monitor while it serves the groups, so that is one step.         *)
(***************************************************************************)
EXTENDS Integers, Sequences, FiniteSets, SequencesExt, FiniteSetsExt

CONSTANTS Threads,      \* of "up" (UploadThread) and "down" (DownloadThread)
          Socks,        \* sockets
          Groups,       \* a number of groups 1 .. Groups, besides group 0
          Caps,         \* global limits, 0 is unlimited; bytes per tick
          Limits,       \* limits of groups, 0 is unlimited
          Assured,      \* assured rates of groups
          MaxBytes,     \* bound: bytes waiting in a socket
          MaxGiven,     \* bound: bytes given to sockets
          MaxChanges,   \* bound: changes of limits and groups
          MaxIdle       \* bound: ticks that allowances add up

VARIABLE sh
shVars == <<sh>>

GroupIds == 0 .. Groups
Lesser(a, b) == IF a < b THEN a ELSE b

(***************************** SocketGroup *********************************)

\* A run over the groups: can (bytes each socket still takes), sent, and
\* grp: the groups with their sockets. al is the allowance that is passed.

\* TrafficShapedSocket write, or read: at most n bytes (0: all).
Write(R, s, n) ==
    LET k == IF n = 0 THEN R.can[s] ELSE Lesser(n, R.can[s])
    IN  [R EXCEPT !.can[s] = @ - k, !.sent[s] = @ + k, !.ret = k]

ProcessUnlimited(R, g) ==
    FoldLeft(LAMBDA X, s : Write(X, s, 0), R, R.grp[g].socks)

\* Mutant: every socket gets its share, also when less is left.
ProcessLimitedOver(R, g, bslot, k) == [Write(R, R.grp[g].socks[k], bslot) EXCEPT
    !.al = IF R.can[R.grp[g].socks[k]] > @ THEN 0 ELSE @ - Lesser(bslot, R.can[R.grp[g].socks[k]]),
    !.grp[g].socks = IF Lesser(bslot, R.can[R.grp[g].socks[k]]) # bslot THEN RemoveAt(@, k) ELSE @]

\* One turn of processLimited: the k-th socket of the list.
Turn(R, g, bslot, k) ==
    LET s == R.grp[g].socks[k]
        as == Lesser(bslot, R.al)
        done == Lesser(as, R.can[s])
    IN  [Write(R, s, as) EXCEPT !.al = @ - done,
                                !.grp[g].socks = IF done # as THEN RemoveAt(@, k) ELSE @]

\* processLimited: turns in a ring, while something is allowed and a socket
\* did all it was asked to.
RECURSIVE Ring(_, _, _, _)
Ring(R, g, bslot, k) ==
    IF R.grp[g].socks = <<>> \/ R.al = 0 THEN R
    ELSE LET T == Turn(R, g, bslot, k)
             n == Len(T.grp[g].socks)
             next == IF n < Len(R.grp[g].socks) THEN k ELSE k + 1
         IN  CHOOSE r \in {Ring(t, g, bslot, IF next > n THEN 1 ELSE next) : t \in {T}} : TRUE
ProcessLimited(R, g, al) ==
    Ring([R EXCEPT !.al = al], g, al \div Len(R.grp[g].socks) + 1, 1)

Clear(R, g) == [R EXCEPT !.grp[g].socks = <<>>]
Sub(a, b) == IF b > a THEN 0 ELSE a - b

\* process: al is the global allowance, of which 0 is unlimited; ready tells
\* whether the group can do more.
DoGroup(R, g, al) ==
    LET G == R.grp[g]
        lim == CASE al = 0 -> G.allow [] al # 0 /\ al <= G.allow -> al [] OTHER -> G.allow
        P == ProcessLimited(R, g, lim)
        done == lim - P.al
        left == Sub(G.allow, done)
        Q == [P EXCEPT !.grp[g].allow = left, !.al = IF al = 0 THEN 0 ELSE Sub(al, done)]
        U == ProcessUnlimited(R, g)
    IN  CASE G.limit > 0 /\ G.allow = 0 -> [Clear(R, g) EXCEPT !.al = al, !.ready = FALSE]
          [] G.limit > 0 /\ G.allow # 0 /\ left = 0 -> [Clear(Q, g) EXCEPT !.ready = FALSE]
          [] G.limit > 0 /\ G.allow # 0 /\ left # 0 -> [Q EXCEPT !.ready = Q.grp[g].socks # <<>>]
          [] G.limit = 0 /\ al > 0 ->
                [ProcessLimited(R, g, al) EXCEPT !.ready = ProcessLimited(R, g, al).grp[g].socks # <<>>]
          [] OTHER -> [U EXCEPT !.al = 0, !.ready = FALSE]

(***************************** NetworkThread *******************************)

ByGroup(Op(_, _), R) == FoldLeft(Op, R, [i \in 1 .. Groups + 1 |-> i - 1])
Idle(R, g) == R.grp[g].socks = <<>>
Strict(Op(_), R) == CHOOSE r \in {Op(x) : x \in {R}} : TRUE

\* The assured rates first; all: what the global limit leaves (0: no limit).
DoAssured(R, g, capped) ==
    LET as == IF capped THEN Lesser(R.grp[g].assured, R.left) ELSE R.grp[g].assured
    IN  IF Idle(R, g) \/ R.grp[g].assured = 0 THEN R
        ELSE Strict(LAMBDA D : [D EXCEPT !.left = @ - (as - D.al)], DoGroup(R, g, as))

\* doGroupsLimited: one pass over the groups, by their share of the sockets.
PassOver(R, g) ==
    LET n == Len(R.grp[g].socks)
        share == (n * R.left + R.num - 1) \div R.num
        ga == IF share > R.left \/ share = 0 THEN R.left ELSE share
    IN  IF Idle(R, g) \/ R.left = 0 THEN R
        ELSE Strict(LAMBDA D :
               Strict(LAMBDA E : [E EXCEPT !.left = Sub(@, ga - D.al),
                                           !.still = IF D.ready THEN TRUE ELSE @],
                      IF D.ready THEN D ELSE Clear(D, g)),
               DoGroup(R, g, ga))
\* Passes while somebody is ready and something is left.
RECURSIVE Passes(_)
Passes(R) ==
    IF R.left = 0 \/ R.num = 0 THEN R
    ELSE Strict(LAMBDA P : Passes([P EXCEPT !.num = IF P.still THEN 1 ELSE 0, !.still = FALSE]),
                ByGroup(LAMBDA X, g : Strict(LAMBDA x : PassOver(x, g), X), R))

\* calcAllowance of every group, for the ticks since the group last ran.
CalcAllowance(grp) ==
    [g \in GroupIds |-> [grp[g] EXCEPT !.allow = IF grp[g].limit > 0 THEN grp[g].limit * grp[g].since ELSE 0,
                                       !.assured = grp[g].rate * grp[g].since, !.since = 0]]
ClearGroups(R) == [R EXCEPT !.grp = [g \in GroupIds |-> [@[g] EXCEPT !.socks = <<>>]]]


DoGroups(R, cap) ==
    IF cap = 0
    THEN Strict(LAMBDA A : ClearGroups(ByGroup(LAMBDA X, g :
                    Strict(LAMBDA x : IF Idle(x, g) THEN x ELSE DoGroup(x, g, 0), X), A)),
                ByGroup(LAMBDA X, g : Strict(LAMBDA x : DoAssured(x, g, FALSE), X), R))
    ELSE Strict(LAMBDA A : ClearGroups(Passes(A)),
                ByGroup(LAMBDA X, g : Strict(LAMBDA x : DoAssured(x, g, TRUE), X), R))

(******************************* The threads *******************************)

NoSock == [in |-> FALSE, gid |-> 0, bytes |-> 0]
NoGroup == [there |-> FALSE, limit |-> 0, rate |-> 0, since |-> 0, allow |-> 0, assured |-> 0,
            socks |-> <<>>]

ShInit == \E t \in Threads :
          sh = [thread |-> t,
                sock |-> [s \in Socks |-> NoSock],
                grp |-> [g \in GroupIds |-> [NoGroup EXCEPT !.there = g = 0]],
                cap |-> 0, since |-> 0,
                pc |-> "wait",           \* waitForSocketsReady, poll, update
                polled |-> {}, pipe |-> FALSE, given |-> 0, changes |-> 0,
                last |-> [over |-> FALSE, assured |-> FALSE]]

ShBecome(N) == sh' = N

In == {s \in Socks : sh.sock[s].in}
Loaded == {s \in In : sh.sock[s].bytes > 0}
\* waitForSocketsReady: the sockets with something to write, or all sockets
\* for reading, are polled.
WaitForSocketsReady ==
    /\ sh.pc = "wait"
    /\ ShBecome([sh EXCEPT !.pc = "poll", !.polled = IF sh.thread = "up" THEN Loaded ELSE In])
\* poll returns for a socket or for the pipe, which handleData empties. A
\* socket whose kernel buffer is full, full, is not ready.
PollReturns(full) ==
    LET ready == IF sh.thread = "up" THEN (sh.polled \cap In) \ full ELSE sh.polled \cap Loaded
    IN  /\ sh.pc = "poll" /\ (sh.pipe \/ ready # {})
        /\ ShBecome([sh EXCEPT !.pc = "update", !.pipe = FALSE, !.polled = ready])

\* To use less CPU the thread sleeps after an update that was limited and came
\* soon after the one before.
Sleep(N, limited, since) ==
    IF limited /\ since = 0
    THEN [N EXCEPT !.since = 1, !.grp = [g \in GroupIds |-> [@[g] EXCEPT !.since = Lesser(@ + 1, MaxIdle)]]]
    ELSE [N EXCEPT !.since = 0]

\* update: the sockets that are ready are put in their groups; stale: sockets
\* that were not polled for writing and look ready by the index of an earlier
\* poll; small: sockets that take one byte only.
UpdateThread(stale, small) ==
    /\ sh.pc = "update" /\ (sh.thread = "down" => stale = {})
    /\ LET ready == (sh.polled \cap In) \cup stale
           gid(s) == IF sh.grp[sh.sock[s].gid].there THEN sh.sock[s].gid ELSE 0
           grp == [g \in GroupIds |->
                     [CalcAllowance(sh.grp)[g] EXCEPT !.socks = SetToSeq({s \in ready : gid(s) = g})]]
           allowance == sh.cap * sh.since
           can == [s \in Socks |-> IF s \in small THEN Lesser(1, sh.sock[s].bytes) ELSE sh.sock[s].bytes]
           R == [can |-> can, sent |-> [s \in Socks |-> 0], ret |-> 0, al |-> 0, ready |-> FALSE,
                 grp |-> grp, left |-> allowance, num |-> Cardinality(ready), still |-> FALSE]
           limited == sh.cap > 0 \/ \E s \in ready : sh.sock[s].gid > 0
       IN  IF ready = {} THEN ShBecome(Sleep([sh EXCEPT !.pc = "wait"], limited, sh.since))
           ELSE \E D \in {DoGroups(R, sh.cap)} :
                  ShBecome(Sleep([sh EXCEPT !.pc = "wait", !.polled = {},
                    !.grp = [g \in GroupIds |-> [D.grp[g] EXCEPT !.allow = 0, !.assured = 0]],
                    !.sock = [s \in Socks |-> [@[s] EXCEPT !.bytes = @ - D.sent[s]]],
                    !.last = [over |-> sh.cap > 0 /\ MapThenSumSet(LAMBDA s : D.sent[s], Socks) > allowance,
                              assured |-> \E g \in GroupIds : grp[g].assured > 0]],
                                 limited, sh.since))

\* Time: the allowances of the groups and of the thread grow.
TimePasses == /\ \/ sh.since < MaxIdle \/ \E g \in GroupIds : sh.grp[g].there /\ sh.grp[g].since < MaxIdle
        /\ ShBecome([sh EXCEPT !.since = Lesser(@ + 1, MaxIdle),
                               !.grp = [g \in GroupIds |-> [@[g] EXCEPT !.since = Lesser(@ + 1, MaxIdle)]]])

\* Mutant: the thread is not woken up.
AddPacketQuietly(s) ==
    /\ sh.sock[s].in /\ sh.sock[s].bytes < MaxBytes /\ sh.given < MaxGiven
    /\ ShBecome([sh EXCEPT !.sock[s].bytes = @ + 1, !.given = @ + 1])

\* addPacket, addData: signalPacketReady wakes the upload thread up. Or data
\* arrives from a peer.
AddPacket(s) ==
    /\ sh.sock[s].in /\ sh.sock[s].bytes < MaxBytes /\ sh.given < MaxGiven
    /\ ShBecome([sh EXCEPT !.sock[s].bytes = @ + 1, !.given = @ + 1,
                           !.pipe = IF sh.thread = "up" THEN TRUE ELSE @])
\* SocketMonitor::add wakes the download thread up.
AddSocket(s) ==
    /\ ~sh.sock[s].in
    /\ ShBecome([sh EXCEPT !.sock[s].in = TRUE, !.pipe = IF sh.thread = "down" THEN TRUE ELSE @])
RemoveSocket(s) == sh.sock[s].in /\ ShBecome([sh EXCEPT !.sock[s] = NoSock])
\* The user's settings.
Change(N) == sh.changes < MaxChanges /\ ShBecome([N EXCEPT !.changes = @ + 1])
SetGroupID(s, g) == sh.sock[s].in /\ Change([sh EXCEPT !.sock[s].gid = g])
\* newGroup, setGroupLimit and setGroupAssuredRate.
SetGroup(g, l, a) ==
    /\ g # 0
    /\ Change([sh EXCEPT !.grp[g] = [(IF @.there THEN @ ELSE [NoGroup EXCEPT !.there = TRUE])
                                      EXCEPT !.limit = l, !.rate = a]])
RemoveGroup(g) == g # 0 /\ sh.grp[g].there /\ Change([sh EXCEPT !.grp[g] = NoGroup])
SetCap(c) == Change([sh EXCEPT !.cap = c])

ShNext == \/ WaitForSocketsReady \/ TimePasses
          \/ \E full \in SUBSET Socks : PollReturns(full)
          \/ \E stale \in SUBSET (In \ sh.polled), small \in SUBSET Socks : UpdateThread(stale, small)
          \/ \E s \in Socks : AddPacket(s) \/ AddSocket(s) \/ RemoveSocket(s) \/ \E g \in GroupIds : SetGroupID(s, g)
          \/ \E g \in GroupIds : RemoveGroup(g) \/ \E l \in Limits, a \in Assured : SetGroup(g, l, a)
          \/ \E c \in Caps : SetCap(c)

\* The thread runs, and a peer that reads makes its socket ready again and
\* again. That time passes is no assumption: the thread itself sleeps.
\* (The first two say WF of WaitForSocketsReady and of UpdateThread: these are
\* enabled until they are taken.)
ShFairness ==
    /\ []<>(sh.pc # "wait") /\ []<>(sh.pc # "update")
    /\ SF_shVars(PollReturns({}))

ShSpec == ShInit /\ [][ShNext]_shVars /\ ShFairness

\* Types: bytes in sockets and groups.
ShTypeOK ==
    /\ sh.pc \in {"wait", "poll", "update"} /\ sh.polled \subseteq Socks
    /\ \A s \in Socks : sh.sock[s].bytes \in 0 .. MaxBytes /\ sh.sock[s].gid \in GroupIds

\* When nobody holds the lock of the monitor no group refers to a socket: the
\* socket may be removed and deleted.
NoDanglingSocket == \A g \in GroupIds : sh.grp[g].socks = <<>>

\* Without assured rates an update sends no more than the global limit allows
\* for the time that passed; and no group keeps a socket after it, which may
\* then be removed and deleted. (With assured rates the limit does not hold:
\* when it is used up the next group is called with 0, which is no limit.)
CapHolds == ShTypeOK /\ NoDanglingSocket /\ (~sh.last.assured => ~sh.last.over)

\* What is given to a socket is sent, and what arrived is read: the wake-up is
\* not lost, however it falls between the steps of the thread, and no group
\* is starved while the limits stay as they are.
DataGoes == \A s \in Socks : (sh.sock[s].in /\ sh.sock[s].bytes > 0) ~> sh.sock[s].bytes = 0
=============================================================================
