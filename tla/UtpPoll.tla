------------------------------ MODULE UtpPoll ------------------------------
(***************************************************************************)
(* How the download thread waits for uTP connections.  They have no file   *)
(* descriptors, so a pipe stands for all of them in the poll call: the uTP *)
(* thread writes to it when a connection that is polled becomes readable.  *)
(* The two threads share the connections and the pipe.  UTPServer's mutex  *)
(* is held while the uTP thread handles a packet and while the download    *)
(* thread prepares a connection, but not while it empties the pipe.        *)
(***************************************************************************)
EXTENDS Naturals

CONSTANTS
  Conns,     \* the connections
  MaxSignals \* how often the wake up pipe or a TCP socket ends a poll call

VARIABLES
  pc,        \* where the download thread is
  todo,      \* the connections its loop has still to visit
  pipe,      \* the PollPipe: woken_up, data in it, poll_index >= 0, conn_ids
  hit,       \* the poll call has found data in the pipe
  other,     \* another descriptor of the poll call is ready
  signals,   \* how often that happened
  avail,     \* connections with bytes available
  readable,  \* Connection::stats.readable
  waking     \* the uTP thread has seen that the pipe is polled and is about to write to it

vars == <<pc, todo, pipe, hit, other, signals, avail, readable, waking>>

Init ==
  /\ pc = "prepare" /\ todo = Conns
  /\ pipe = [woken |-> FALSE, data |-> FALSE, polled |-> FALSE, ids |-> {}]
  /\ hit = FALSE /\ other = FALSE /\ signals = 0
  /\ avail = {} /\ readable = {} /\ waking = FALSE

\* WakeUpPipe::wakeUp
Woken(p) == IF p.woken THEN p ELSE [p EXCEPT !.woken = TRUE, !.data = TRUE]

(***************************************************************************)
(* The download thread.                                                    *)
(***************************************************************************)
\* UTPServer::preparePolling: a pipe that was woken up is not added to the poll call.
Prepare ==
  /\ pc = "prepare" /\ ~waking
  /\ \E c \in todo :
       /\ todo' = todo \ {c}
       /\ pipe' = IF pipe.woken THEN pipe
                  ELSE [(IF c \in avail THEN Woken(pipe) ELSE pipe) EXCEPT !.polled = TRUE, !.ids = @ \cup {c}]
  /\ UNCHANGED <<pc, hit, other, signals, avail, readable, waking>>

EnterPoll ==
  /\ pc = "prepare" /\ todo = {}
  /\ pc' = "poll"
  /\ UNCHANGED <<todo, pipe, hit, other, signals, avail, readable, waking>>

\* the system call returns
PollReturns ==
  /\ pc = "poll"
  /\ (pipe.polled /\ pipe.data) \/ other
  /\ hit' = (pipe.polled /\ pipe.data)
  /\ other' = FALSE
  /\ pc' = "handle"
  /\ UNCHANGED <<todo, pipe, signals, avail, readable, waking>>

\* Poll::poll goes on with WakeUpPipe::handleData for a pipe with data ...
HandleData ==
  /\ pc = "handle"
  /\ pipe' = IF hit THEN [pipe EXCEPT !.data = FALSE, !.woken = FALSE] ELSE pipe
  /\ pc' = "reset"
  /\ UNCHANGED <<todo, hit, other, signals, avail, readable, waking>>

\* ... and PollPipe::reset for every one.
Reset ==
  /\ pc = "reset"
  /\ pipe' = [pipe EXCEPT !.polled = FALSE, !.ids = {}]
  /\ pc' = "read" /\ todo' = Conns
  /\ UNCHANGED <<hit, other, signals, avail, readable, waking>>

\* DownloadThread::update reads from the connections that are ready.
Read ==
  /\ pc = "read"
  /\ \E c \in todo :
       /\ todo' = todo \ {c}
       /\ avail' = avail \ {c}
       /\ readable' = IF c \in avail THEN readable \ {c} ELSE readable
  /\ UNCHANGED <<pc, pipe, hit, other, signals, waking>>

NextRound ==
  /\ pc = "read" /\ todo = {}
  /\ pc' = "prepare" /\ todo' = Conns
  /\ UNCHANGED <<pipe, hit, other, signals, avail, readable, waking>>

(***************************************************************************)
(* The uTP thread.                                                         *)
(***************************************************************************)
\* Connection::checkState after a data packet: the first data are announced, and
\* UTPServer::wakeUpPollPipes asks whether the pipe is polled for the connection.
DataArrives ==
  \E c \in Conns :
    /\ ~waking
    /\ avail' = avail \cup {c} /\ readable' = readable \cup {c}
    /\ waking' = (c \notin readable /\ pipe.polled /\ c \in pipe.ids)
    /\ UNCHANGED <<pc, todo, pipe, hit, other, signals>>

\* It is, so the pipe is woken up.
WakeUp ==
  /\ waking /\ waking' = FALSE
  /\ pipe' = Woken(pipe)
  /\ UNCHANGED <<pc, todo, hit, other, signals, avail, readable>>

\* SocketMonitor::add, or a TCP socket with data
Signal ==
  /\ signals < MaxSignals /\ signals' = signals + 1
  /\ other' = TRUE
  /\ UNCHANGED <<pc, todo, pipe, hit, avail, readable, waking>>

Next ==
  \/ Prepare \/ EnterPoll \/ PollReturns \/ HandleData \/ Reset \/ Read \/ NextRound
  \/ DataArrives \/ WakeUp \/ Signal

Spec == Init /\ [][Next]_vars

\* While the download thread sleeps in its poll call and a connection has data for it, the pipe of
\* the connections is part of that call and has been written to, so that the call returns.
WakesUp == pc = "poll" /\ avail # {} /\ ~waking => pipe.polled /\ pipe.data

============================================================================
