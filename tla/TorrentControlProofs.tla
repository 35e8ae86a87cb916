------------------------ MODULE TorrentControlProofs ------------------------
(***************************************************************************)
(* Proofs about starting, pausing and stopping a torrent and its jobs, for *)
(* any files, directories and length of the queue, and about the ports     *)
(* forwarded on routers, for any routers, ports, services and requests.    *)
(***************************************************************************)
EXTENDS TorrentControl, Upnp, ListFacts

MoveKinds == {"move", "map"}
JobKinds == {"check", "move", "map", "prealloc"}
PartDirs == UNION {[D -> Dirs] : D \in SUBSET DataFiles}       \* files and their directories

JobRec == {j \in [kind : JobKinds, to : Dirs \cup {NoDir}, todo : PartDirs \cup {<<>>},
                  done : SUBSET (DataFiles \X Dirs)] :
             j.kind \in MoveKinds => j.to \in Dirs /\ j.todo \in PartDirs}

TcRec == [running : BOOLEAN, paused : BOOLEAN, completed : BOOLEAN, all : BOOLEAN,
          prealloc : BOOLEAN, saved : BOOLEAN, io_error : BOOLEAN, pman : BOOLEAN,
          psman : BOOLEAN, cman : BOOLEAN, dl : BOOLEAN, jobs : Seq(JobRec), restart : BOOLEAN,
          dest : Dirs, path : Dirs, known : [DataFiles -> Dirs], loc : [DataFiles -> Dirs],
          asked : BOOLEAN]

\* A paused torrent runs with its cache closed, one that does not run has it
\* closed too, and whoever paused it is remembered: the user, or the jobs.
Accounted(S) ==
    /\ S.paused => S.running /\ ~S.cman
    /\ ~S.running => ~S.cman
    /\ S.paused /\ ~S.restart => S.asked

\* With the queue: a job that needs quiet has it, and only jobs restart.
Controlled(S) ==
    /\ Accounted(S)
    /\ S.jobs # <<>> /\ Head(S.jobs).kind \in Quiet => ~S.cman
    /\ S.restart => S.jobs # <<>>

TcInv == tc \in TcRec /\ Controlled(tc)

\* Where the files of a move are: those still to do where the torrent knows
\* them, those done at their new place, and all of them accounted for.
Tracked(S, j) ==
    /\ \A f \in DOMAIN j.todo : /\ j.todo[f] = S.known[f] /\ S.loc[f] = S.known[f]
                                /\ \A p \in j.done : p[1] # f
    /\ \A p \in j.done : p[2] = S.known[p[1]] /\ S.loc[p[1]] = j.to
    /\ \A f \in DataFiles : (\A p \in j.done : p[1] # f) => S.loc[f] = S.known[f]
    /\ j.kind = "move" =>
          /\ S.dest = j.to
          /\ \A f \in DataFiles : \/ f \in DOMAIN j.todo \/ S.known[f] = j.to
                                  \/ \E p \in j.done : p[1] = f

Whereabouts(S) ==
    /\ Moves(S) = {} => S.loc = S.known
    /\ \A i \in Moves(S) : Tracked(S, S.jobs[i])
    /\ \A i, j \in Moves(S) : i = j

FilesInv == TcInv /\ Whereabouts(tc)

\* What the control calls leave alone.
SameFiles(S, T) == T.known = S.known /\ T.loc = S.loc /\ T.dest = S.dest /\ T.path = S.path
SameControl(S, T) == /\ T.jobs = S.jobs /\ T.running = S.running /\ T.paused = S.paused
                     /\ T.cman = S.cman /\ T.restart = S.restart /\ T.asked = S.asked

\* What every step does to the queue that neither adds nor ends a move.
Undisturbed(S, T) ==
    /\ SameFiles(S, T)
    /\ \/ T.jobs = S.jobs
       \/ S.jobs # <<>> /\ Head(S.jobs).kind \notin MoveKinds /\ T.jobs = Tail(S.jobs)
       \/ \E j \in JobRec : j.kind \notin MoveKinds /\ T.jobs = Append(S.jobs, j)

-----------------------------------------------------------------------------
(************************** Calls of the main thread ***********************)

\* The stats file: only the preallocation flag and its saved copy change.
LEMMA StatsFacts ==
  ASSUME NEW S \in TcRec, NEW T \in {SaveStats(S), LoadStats(S)}
  PROVE  /\ T \in TcRec /\ SameFiles(S, T) /\ T.jobs = S.jobs
         /\ T.running = S.running /\ T.paused = S.paused /\ T.cman = S.cman
         /\ T.restart = S.restart /\ T.asked = S.asked
BY DEF SaveStats, LoadStats, TcRec, SameFiles

LEMMA PauseFacts ==
  ASSUME NEW S \in TcRec
  PROVE  /\ Pause(S) \in TcRec
         /\ SameFiles(S, Pause(S)) /\ Pause(S).jobs = S.jobs
         /\ Pause(S).running = S.running /\ Pause(S).restart = S.restart
         /\ Pause(S).asked = S.asked
         /\ S.running => Pause(S).paused
         /\ ~S.running \/ S.paused => Pause(S) = S
         /\ S.running /\ ~S.paused => ~Pause(S).cman
<1>1. CASE ~S.running \/ S.paused
  BY <1>1 DEF Pause, SameFiles, TcRec
<1>2. CASE S.running /\ ~S.paused
  <2> DEFINE P == [S EXCEPT !.dl = FALSE, !.cman = FALSE, !.paused = TRUE]
  <2>1. /\ P \in TcRec /\ SameFiles(S, P) /\ P.jobs = S.jobs /\ P.running = S.running
        /\ P.restart = S.restart /\ P.asked = S.asked /\ P.paused /\ ~P.cman
    BY DEF TcRec, SameFiles
  <2>2. Pause(S) = SaveStats(P)  BY <1>2 DEF Pause
  <2> HIDE DEF P
  <2> DEFINE T == SaveStats(P)
  <2>3. /\ T \in TcRec /\ SameFiles(P, T) /\ T.jobs = P.jobs /\ T.running = P.running
        /\ T.paused = P.paused /\ T.cman = P.cman /\ T.restart = P.restart /\ T.asked = P.asked
    BY <2>1, StatsFacts
  <2> HIDE DEF T
  <2>4. SameFiles(S, T)  BY <2>1, <2>3 DEF SameFiles
  <2>5. QED  BY <1>2, <2>1, <2>2, <2>3, <2>4 DEF T
<1>3. QED  BY <1>1, <1>2 DEF TcRec

LEMMA UnpauseFacts ==
  ASSUME NEW S \in TcRec
  PROVE  /\ TcUnpause(S) \in TcRec
         /\ SameFiles(S, TcUnpause(S)) /\ TcUnpause(S).jobs = S.jobs
         /\ TcUnpause(S).running = S.running /\ TcUnpause(S).restart = S.restart
         /\ TcUnpause(S).asked = S.asked
         /\ S.running /\ S.jobs = <<>> => ~TcUnpause(S).paused
         /\ ~S.running \/ ~S.paused \/ S.jobs # <<>> => TcUnpause(S) = S
<1>1. CASE ~S.running \/ ~S.paused \/ S.jobs # <<>>
  BY <1>1 DEF TcUnpause, SameFiles, TcRec
<1>2. CASE S.running /\ S.paused /\ S.jobs = <<>>
  <2> DEFINE P == [S EXCEPT !.cman = TRUE, !.dl = ~S.completed, !.paused = FALSE]
  <2>1. /\ P \in TcRec /\ SameFiles(S, P) /\ P.jobs = S.jobs /\ P.running = S.running
        /\ P.restart = S.restart /\ P.asked = S.asked /\ ~P.paused
    BY DEF TcRec, SameFiles
  <2>2. TcUnpause(S) = LoadStats(P)  BY <1>2 DEF TcUnpause
  <2> HIDE DEF P
  <2> DEFINE T == LoadStats(P)
  <2>3. /\ T \in TcRec /\ SameFiles(P, T) /\ T.jobs = P.jobs /\ T.running = P.running
        /\ T.paused = P.paused /\ T.cman = P.cman /\ T.restart = P.restart /\ T.asked = P.asked
    BY <2>1, StatsFacts
  <2> HIDE DEF T
  <2>4. SameFiles(S, T)  BY <2>1, <2>3 DEF SameFiles
  <2>5. QED  BY <1>2, <2>1, <2>2, <2>3, <2>4 DEF T
<1>3. QED  BY <1>1, <1>2 DEF TcRec

\* JobQueue::startNextJob makes the torrent quiet for a job that needs it.
LEMMA StartNextJobFacts ==
  ASSUME NEW S \in TcRec, Accounted(S), S.jobs # <<>>
  PROVE  /\ StartNextJob(S) \in TcRec /\ Controlled(StartNextJob(S))
         /\ SameFiles(S, StartNextJob(S)) /\ StartNextJob(S).jobs = S.jobs
<1>1. CASE Head(S.jobs).kind \in Quiet /\ S.running
  <2> DEFINE P == Pause(S)
  <2>1. /\ P \in TcRec /\ SameFiles(S, P) /\ P.jobs = S.jobs /\ P.running /\ P.paused
        /\ ~P.cman
    BY <1>1, PauseFacts DEF Accounted
  <2>2. StartNextJob(S) = [P EXCEPT !.restart = TRUE]  BY <1>1 DEF StartNextJob
  <2> HIDE DEF P
  <2>3. /\ StartNextJob(S) \in TcRec /\ SameFiles(S, StartNextJob(S))
        /\ StartNextJob(S).jobs = S.jobs /\ StartNextJob(S).running
        /\ ~StartNextJob(S).cman /\ StartNextJob(S).restart
    BY <2>1, <2>2 DEF TcRec, SameFiles
  <2>4. QED  BY <2>3 DEF Controlled, Accounted
<1>2. CASE ~(Head(S.jobs).kind \in Quiet /\ S.running)
  <2>1. StartNextJob(S) = S  BY <1>2 DEF StartNextJob
  <2>2. QED  BY <1>2, <2>1 DEF Controlled, Accounted, SameFiles
<1>3. QED  BY <1>1, <1>2

\* JobQueue::jobDone: the next job, or the torrent goes on.
LEMMA JobDoneFacts ==
  ASSUME NEW S \in TcRec, Accounted(S), S.jobs # <<>>
  PROVE  /\ JobDone(S) \in TcRec /\ Controlled(JobDone(S))
         /\ SameFiles(S, JobDone(S)) /\ JobDone(S).jobs = Tail(S.jobs)
<1> DEFINE Q == [S EXCEPT !.jobs = Tail(@)]
<1>1. /\ Q \in TcRec /\ Accounted(Q) /\ SameFiles(S, Q) /\ Q.jobs = Tail(S.jobs)
  <2>1. Tail(S.jobs) \in Seq(JobRec)  BY DEF TcRec
  <2>2. QED  BY <2>1 DEF TcRec, Accounted, SameFiles
<1>2. JobDone(S) = CASE Q.jobs # <<>> -> StartNextJob(Q)
                     [] Q.jobs = <<>> /\ Q.restart -> [TcUnpause(Q) EXCEPT !.restart = FALSE]
                     [] OTHER -> Q
  BY DEF JobDone
<1> HIDE DEF Q
<1>3. CASE Q.jobs # <<>>
  <2>1. JobDone(S) = StartNextJob(Q)  BY <1>2, <1>3
  <2>2. QED  BY <1>1, <1>3, <2>1, StartNextJobFacts DEF SameFiles
<1>4. CASE Q.jobs = <<>> /\ Q.restart
  <2> DEFINE U == TcUnpause(Q)
  <2>1. JobDone(S) = [U EXCEPT !.restart = FALSE]  BY <1>2, <1>4
  <2>2. /\ U \in TcRec /\ SameFiles(Q, U) /\ U.jobs = <<>> /\ ~U.paused
        /\ ~U.running => ~U.cman
    BY <1>1, <1>4, UnpauseFacts DEF Accounted
  <2> HIDE DEF U
  <2>3. /\ JobDone(S) \in TcRec /\ SameFiles(Q, JobDone(S)) /\ JobDone(S).jobs = <<>>
        /\ ~JobDone(S).paused /\ ~JobDone(S).restart
        /\ ~JobDone(S).running => ~JobDone(S).cman
    BY <2>1, <2>2 DEF TcRec, SameFiles
  <2>4. QED  BY <1>1, <1>4, <2>3 DEF Controlled, Accounted, SameFiles
<1>5. CASE Q.jobs = <<>> /\ ~Q.restart
  <2>1. JobDone(S) = Q  BY <1>2, <1>5
  <2>2. QED  BY <1>1, <1>5, <2>1 DEF Controlled
<1>6. QED  BY <1>3, <1>4, <1>5 DEF TcRec

LEMMA EnqueueFacts ==
  ASSUME NEW S \in TcRec, Controlled(S), NEW j \in JobRec
  PROVE  /\ Enqueue(S, j) \in TcRec /\ Controlled(Enqueue(S, j))
         /\ SameFiles(S, Enqueue(S, j)) /\ Enqueue(S, j).jobs = Append(S.jobs, j)
<1> DEFINE Q == [S EXCEPT !.jobs = Append(@, j)]
<1>1. S.jobs \in Seq(JobRec)  BY DEF TcRec
<1>2. /\ Append(S.jobs, j) \in Seq(JobRec) /\ Append(S.jobs, j) # <<>>
      /\ S.jobs # <<>> => Head(Append(S.jobs, j)) = Head(S.jobs) /\ Len(Append(S.jobs, j)) # 1
  <2>1. /\ Append(S.jobs, j) \in Seq(JobRec) /\ Append(S.jobs, j) # <<>>
        /\ Len(Append(S.jobs, j)) = Len(S.jobs) + 1
    BY <1>1, AppendProperties
  <2>2. ASSUME S.jobs # <<>>
        PROVE  Head(Append(S.jobs, j)) = Head(S.jobs) /\ Len(Append(S.jobs, j)) # 1
    BY <1>1, <2>1, <2>2
  <2>3. QED  BY <2>1, <2>2
<1>3. /\ Q \in TcRec /\ Accounted(Q) /\ SameFiles(S, Q) /\ Q.jobs = Append(S.jobs, j)
      /\ Q.cman = S.cman /\ Q.restart = S.restart
  BY <1>2 DEF TcRec, Accounted, Controlled, SameFiles
<1>4. Enqueue(S, j) = IF Len(Q.jobs) = 1 THEN StartNextJob(Q) ELSE Q
  BY DEF Enqueue
<1> HIDE DEF Q
<1>5. CASE Len(Q.jobs) = 1
  <2>1. Enqueue(S, j) = StartNextJob(Q)  BY <1>4, <1>5
  <2>2. QED  BY <1>2, <1>3, <2>1, StartNextJobFacts DEF SameFiles
<1>6. CASE Len(Q.jobs) # 1
  <2>1. Enqueue(S, j) = Q  BY <1>4, <1>6
  <2>2. S.jobs # <<>>
    <3>1. ASSUME S.jobs = <<>> PROVE FALSE
      <4>1. Len(Append(S.jobs, j)) = 1  BY <1>1, <3>1
      <4>2. QED  BY <4>1, <1>3, <1>6
    <3>2. QED  BY <3>1
  <2>3. Controlled(Q)  BY <1>2, <1>3, <2>2 DEF Controlled
  <2>4. QED  BY <1>3, <2>1, <2>3
<1>7. QED  BY <1>5, <1>6

LEMMA ControlKept ==
  ASSUME NEW S \in TcRec, NEW T \in TcRec, SameControl(S, T)
  PROVE  /\ Accounted(S) => Accounted(T)
         /\ Controlled(S) => Controlled(T)
BY DEF SameControl, Accounted, Controlled

\* The jobs without files to move.
LEMMA JobTyped ==
  ASSUME NEW kind \in {"check", "prealloc"}
  PROVE  Job(kind, NoDir, <<>>) \in JobRec /\ Job(kind, NoDir, <<>>).kind = kind
BY DEF Job, JobRec, JobKinds, MoveKinds

\* TorrentControl::continueStart
LEMMA ContinueStartFacts ==
  ASSUME NEW S \in TcRec
  PROVE  /\ ContinueStart(S) \in TcRec /\ SameFiles(S, ContinueStart(S))
         /\ ContinueStart(S).jobs = S.jobs /\ ContinueStart(S).running
         /\ ContinueStart(S).paused = S.paused /\ ContinueStart(S).cman = S.cman
         /\ ContinueStart(S).restart = S.restart /\ ContinueStart(S).asked = S.asked
<1> DEFINE P == [S EXCEPT !.pman = TRUE, !.dl = ~S.completed, !.running = TRUE, !.psman = TRUE]
           T == LoadStats(P)
<1>1. /\ P \in TcRec /\ SameFiles(S, P) /\ P.jobs = S.jobs /\ P.running /\ P.paused = S.paused
      /\ P.cman = S.cman /\ P.restart = S.restart /\ P.asked = S.asked
  BY DEF TcRec, SameFiles
<1>2. ContinueStart(S) = T  BY DEF ContinueStart
<1> HIDE DEF P
<1>3. /\ T \in TcRec /\ SameFiles(P, T) /\ T.jobs = P.jobs /\ T.running = P.running
      /\ T.paused = P.paused /\ T.cman = P.cman /\ T.restart = P.restart /\ T.asked = P.asked
  BY <1>1, StatsFacts
<1> HIDE DEF T
<1>4. QED  BY <1>1, <1>2, <1>3 DEF SameFiles

\* TorrentControl::stop: a preallocation at the head of the queue is killed.
LEMMA StopFacts ==
  ASSUME NEW S \in TcRec, Controlled(S)
  PROVE  /\ Stop(S) \in TcRec /\ Controlled(Stop(S)) /\ ~Stop(S).paused
         /\ Undisturbed(S, Stop(S))
<1> DEFINE K == IF S.jobs # <<>> /\ Head(S.jobs).kind = "prealloc" THEN JobDone(S) ELSE S
           R == IF K.running THEN [K EXCEPT !.psman = FALSE, !.dl = FALSE] ELSE K
           E == [R EXCEPT !.pman = FALSE, !.cman = FALSE, !.running = FALSE, !.paused = FALSE]
           T == SaveStats(E)
<1>1. Stop(S) = T  BY DEF Stop
<1>2. K \in TcRec /\ Controlled(K) /\ Undisturbed(S, K)
  <2>1. CASE S.jobs # <<>> /\ Head(S.jobs).kind = "prealloc"
    <3>1. K = JobDone(S)  BY <2>1
    <3>2. Accounted(S)  BY DEF Controlled
    <3>3. QED  BY <2>1, <3>1, <3>2, JobDoneFacts DEF Undisturbed, MoveKinds
  <2>2. CASE ~(S.jobs # <<>> /\ Head(S.jobs).kind = "prealloc")
    <3>1. K = S  BY <2>2
    <3>2. QED  BY <3>1 DEF Undisturbed, SameFiles
  <2>3. QED  BY <2>1, <2>2
<1> HIDE DEF K
<1>3. /\ R \in TcRec /\ SameFiles(K, R) /\ R.jobs = K.jobs /\ R.restart = K.restart
      /\ R.asked = K.asked
  <2>1. CASE K.running
    <3>1. R = [K EXCEPT !.psman = FALSE, !.dl = FALSE]  BY <2>1
    <3> HIDE DEF R
    <3>2. QED  BY <1>2, <3>1 DEF TcRec, SameFiles
  <2>2. CASE ~K.running
    <3>1. R = K  BY <2>2
    <3>2. QED  BY <1>2, <3>1 DEF SameFiles
  <2>3. QED  BY <2>1, <2>2
<1> HIDE DEF R
<1>4. /\ E \in TcRec /\ SameFiles(R, E) /\ E.jobs = R.jobs /\ E.restart = R.restart
      /\ E.asked = R.asked /\ ~E.cman /\ ~E.running /\ ~E.paused
  BY <1>3 DEF TcRec, SameFiles
<1> HIDE DEF E
<1>5. /\ T \in TcRec /\ SameFiles(E, T) /\ T.jobs = E.jobs /\ T.restart = E.restart
      /\ T.asked = E.asked /\ ~T.cman /\ ~T.running /\ ~T.paused
  BY <1>4, StatsFacts
<1> HIDE DEF T
<1>6. T.jobs = K.jobs /\ T.restart = K.restart /\ SameFiles(K, T)
  BY <1>3, <1>4, <1>5 DEF SameFiles
<1>7. Controlled(T)  BY <1>2, <1>5, <1>6 DEF Controlled, Accounted
<1>8. Undisturbed(S, T)  BY <1>2, <1>6 DEF Undisturbed, SameFiles
<1>9. QED  BY <1>1, <1>5, <1>7, <1>8

\* A preallocation is put in the queue of a torrent that runs from now on.
LEMMA PreallocateFacts ==
  ASSUME NEW S \in TcRec, Controlled([S EXCEPT !.running = TRUE])
  PROVE  /\ Preallocate(S) \in TcRec /\ Controlled(Preallocate(S))
         /\ Undisturbed(S, Preallocate(S))
<1> DEFINE R == [S EXCEPT !.running = TRUE]
           j == Job("prealloc", NoDir, <<>>)
<1>1. R \in TcRec /\ SameFiles(S, R) /\ R.jobs = S.jobs  BY DEF TcRec, SameFiles
<1>2. j \in JobRec /\ j.kind \notin MoveKinds  BY JobTyped DEF MoveKinds
<1>3. Preallocate(S) = Enqueue(R, j)  BY DEF Preallocate
<1>4. Controlled(R)  OBVIOUS
<1> HIDE DEF R, j
<1>5. QED  BY <1>1, <1>2, <1>3, <1>4, EnqueueFacts DEF Undisturbed, SameFiles

\* TorrentControl::start, called only with an empty queue.
LEMMA StartFacts ==
  ASSUME NEW S \in TcRec, Controlled(S), S.jobs = <<>>
  PROVE  /\ Start(S) \in TcRec /\ Controlled([Start(S) EXCEPT !.asked = FALSE])
         /\ Undisturbed(S, Start(S))
<1> DEFINE O == [S EXCEPT !.paused = FALSE, !.io_error = FALSE, !.cman = TRUE]
           P == [O EXCEPT !.prealloc = FALSE]
<1>1. /\ O \in TcRec /\ SameFiles(S, O) /\ O.jobs = <<>> /\ ~O.paused /\ O.cman
      /\ O.restart = S.restart
  BY DEF TcRec, SameFiles
<1>2. Start(S) = IF NeedsPrealloc(O) THEN Preallocate(O) ELSE ContinueStart(P)
  BY DEF Start
<1>3. ~O.restart  BY <1>1 DEF Controlled
<1> HIDE DEF O
<1>4. CASE NeedsPrealloc(O)
  <2>1. Controlled([O EXCEPT !.running = TRUE])
    BY <1>1, <1>3 DEF Controlled, Accounted, TcRec
  <2> DEFINE T == Preallocate(O)
  <2>2. T \in TcRec /\ Controlled(T) /\ Undisturbed(O, T)  BY <1>1, <2>1, PreallocateFacts
  <2> HIDE DEF T
  <2>3. Start(S) = T  BY <1>2, <1>4 DEF T
  <2>4. ~T.paused
    <3> SUFFICES ASSUME T.paused PROVE FALSE
      OBVIOUS
    <3> DEFINE R == [O EXCEPT !.running = TRUE]
               j == Job("prealloc", NoDir, <<>>)
    <3>1. j \in JobRec /\ j.kind = "prealloc"  BY JobTyped
    <3>2. R.jobs = <<>> /\ ~R.paused  BY <1>1 DEF TcRec
    <3> HIDE DEF j
    <3>3. T = Enqueue(R, j)  BY DEF T, Preallocate, j
    <3> DEFINE Q == [R EXCEPT !.jobs = Append(@, j)]
    <3>4. ~Q.paused /\ Head(Q.jobs) = j
      <4>1. R \in TcRec  BY <1>1 DEF TcRec
      <4> HIDE DEF R
      <4>2. ~Q.paused /\ Q.jobs = Append(<<>>, j)  BY <3>2, <4>1 DEF TcRec
      <4>3. Head(Append(<<>>, j)) = j
        <5>1. Append(<<>>, j) = <<j>>  OBVIOUS
        <5>2. QED  BY <5>1
      <4>4. QED  BY <4>2, <4>3
    <3>5. Enqueue(R, j) = IF Len(Q.jobs) = 1 THEN StartNextJob(Q) ELSE Q
      BY DEF Enqueue
    <3> HIDE DEF Q
    <3>6. StartNextJob(Q) = Q  BY <3>1, <3>4 DEF StartNextJob, Quiet
    <3>7. QED  BY <3>3, <3>4, <3>5, <3>6
  <2>5. Controlled([T EXCEPT !.asked = FALSE])
    BY <2>2, <2>4 DEF Controlled, Accounted, TcRec
  <2>6. QED  BY <1>1, <2>2, <2>3, <2>5 DEF Undisturbed, SameFiles
<1>5. CASE ~NeedsPrealloc(O)
  <2> DEFINE T == ContinueStart(P)
  <2>1. /\ P \in TcRec /\ SameFiles(O, P) /\ P.jobs = <<>> /\ ~P.paused /\ ~P.restart
    BY <1>1, <1>3 DEF TcRec, SameFiles
  <2> HIDE DEF P
  <2>2. /\ T \in TcRec /\ SameFiles(P, T) /\ T.jobs = <<>> /\ T.running /\ ~T.paused /\ ~T.restart
    BY <2>1, ContinueStartFacts
  <2> HIDE DEF T
  <2>3. Start(S) = T  BY <1>2, <1>5 DEF T
  <2>4. Controlled([T EXCEPT !.asked = FALSE])
    BY <2>2 DEF Controlled, Accounted, TcRec
  <2>5. QED  BY <1>1, <2>1, <2>2, <2>3, <2>4 DEF Undisturbed, SameFiles
<1>6. QED  BY <1>4, <1>5

(****************************** Moving files *******************************)

\* The files of a job and where they are, as the torrent knows it.
LEMMA MoveJobTyped ==
  ASSUME NEW S \in TcRec, NEW d \in Dirs, NEW kind \in MoveKinds, NEW files \in SUBSET DataFiles
  PROVE  Job(kind, d, [f \in files |-> S.known[f]]) \in JobRec
<1> DEFINE t == [f \in files |-> S.known[f]]
<1>1. t \in [files -> Dirs]  BY DEF TcRec
<1>2. t \in PartDirs  BY <1>1 DEF PartDirs
<1> HIDE DEF t
<1>3. QED  BY <1>2 DEF Job, JobRec, JobKinds, MoveKinds, t

\* TorrentControl::changeOutputDir
LEMMA ChangeDirFacts ==
  ASSUME NEW S \in TcRec, Controlled(S), NEW d \in Dirs
  PROVE  /\ ChangeOutputDir(S, d) \in TcRec /\ Controlled(ChangeOutputDir(S, d))
         /\ ChangeOutputDir(S, d).known = S.known /\ ChangeOutputDir(S, d).loc = S.loc
         /\ \/ ChangeOutputDir(S, d) = S
            \/ ChangeOutputDir(S, d).jobs = S.jobs /\ \A f \in DataFiles : S.known[f] = d
            \/ /\ ChangeOutputDir(S, d).dest = d
               /\ ChangeOutputDir(S, d).jobs = Append(S.jobs,
                     Job("move", d, [f \in {g \in DataFiles : S.known[g] # d} |-> S.known[f]]))
<1> DEFINE files == {g \in DataFiles : S.known[g] # d}
           j == Job("move", d, [f \in files |-> S.known[f]])
<1>1. CASE S.path = d
  <2>1. ChangeOutputDir(S, d) = S  BY <1>1 DEF ChangeOutputDir
  <2>2. QED  BY <2>1
<1>2. CASE S.path # d /\ files # {}
  <2> DEFINE R == [S EXCEPT !.dest = d]
             T == Enqueue(R, j)
  <2>1. j \in JobRec  BY MoveJobTyped DEF MoveKinds
  <2>2. /\ R \in TcRec /\ SameControl(S, R) /\ R.known = S.known /\ R.loc = S.loc /\ R.dest = d
    BY DEF TcRec, SameControl
  <2>3. ChangeOutputDir(S, d) = T  BY <1>2 DEF ChangeOutputDir
  <2> HIDE DEF R, j
  <2>4. Controlled(R)  BY <2>2, ControlKept
  <2>5. T \in TcRec /\ Controlled(T) /\ SameFiles(R, T) /\ T.jobs = Append(R.jobs, j)
    BY <2>1, <2>2, <2>4, EnqueueFacts
  <2> HIDE DEF T
  <2>6. T.jobs = Append(S.jobs, j) /\ T.known = S.known /\ T.loc = S.loc /\ T.dest = d
    BY <2>2, <2>5 DEF SameControl, SameFiles
  <2>7. QED  BY <2>3, <2>5, <2>6 DEF j
<1>3. CASE S.path # d /\ files = {}
  <2> DEFINE R == [S EXCEPT !.dest = d, !.path = d]
  <2>1. ChangeOutputDir(S, d) = R  BY <1>3 DEF ChangeOutputDir
  <2>2. R \in TcRec /\ SameControl(S, R) /\ R.known = S.known /\ R.loc = S.loc
    BY DEF TcRec, SameControl
  <2> HIDE DEF R
  <2>3. Controlled(R)  BY <2>2, ControlKept
  <2>4. \A f \in DataFiles : S.known[f] = d  BY <1>3
  <2>5. QED  BY <2>1, <2>2, <2>3, <2>4 DEF SameControl
<1>4. QED  BY <1>1, <1>2, <1>3

\* The job at the head of the queue changes.
LEMMA HeadReplaced ==
  ASSUME NEW A, NEW q \in Seq(A), q # <<>>, NEW e \in A
  PROVE  /\ [q EXCEPT ![1] = e] \in Seq(A) /\ [q EXCEPT ![1] = e] # <<>>
         /\ Len([q EXCEPT ![1] = e]) = Len(q) /\ Head([q EXCEPT ![1] = e]) = e
         /\ \A i \in 1 .. Len(q) : [q EXCEPT ![1] = e][i] = IF i = 1 THEN e ELSE q[i]
<1> DEFINE r == [q EXCEPT ![1] = e]
<1>1. Len(q) \in Nat \ {0} /\ 1 \in 1 .. Len(q)  BY EmptySeq
<1>2. /\ r \in Seq(A) /\ Len(r) = Len(q)
      /\ \A i \in 1 .. Len(q) : r[i] = IF i = 1 THEN e ELSE q[i]
  BY <1>1, ExceptSeq
<1> HIDE DEF r
<1>3. r # <<>> /\ Head(r) = e  BY <1>1, <1>2
<1>4. QED  BY <1>2, <1>3 DEF r

\* One file of a job is moved: the job that is left.
LEMMA MovedOnFacts ==
  ASSUME NEW j \in JobRec, j.kind \in MoveKinds, NEW f \in DOMAIN j.todo
  PROVE  /\ f \in DataFiles /\ MovedOn(j, f) \in JobRec
         /\ MovedOn(j, f).kind = j.kind /\ MovedOn(j, f).to = j.to /\ j.to \in Dirs
         /\ MovedOn(j, f).done = j.done \cup {<<f, j.todo[f]>>}
         /\ MovedOn(j, f).todo = [g \in DOMAIN j.todo \ {f} |-> j.todo[g]]
<1>1. j.kind \in MoveKinds /\ j.to \in Dirs /\ j.todo \in PartDirs  BY DEF JobRec
<1>2. PICK D \in SUBSET DataFiles : j.todo \in [D -> Dirs]  BY <1>1 DEF PartDirs
<1>3. f \in DataFiles /\ f \in D /\ j.todo[f] \in Dirs /\ DOMAIN j.todo = D  BY <1>2
<1> DEFINE t == [g \in DOMAIN j.todo \ {f} |-> j.todo[g]]
           e == j.done \cup {<<f, j.todo[f]>>}
<1>4. t \in PartDirs
  <2>1. t \in [D \ {f} -> Dirs]  BY <1>2, <1>3
  <2>2. QED  BY <2>1 DEF PartDirs
<1>5. e \in SUBSET (DataFiles \X Dirs)  BY <1>3 DEF JobRec
<1>6. MovedOn(j, f) = [j EXCEPT !.todo = t, !.done = e]  BY DEF JobRec, MovedOn
<1> HIDE DEF t, e
<1>7. QED  BY <1>1, <1>3, <1>4, <1>5, <1>6 DEF JobRec, t, e

\* The torrent with that job at the head of its queue.
LEMMA ArrivedFacts ==
  ASSUME NEW S \in TcRec, Controlled(S), S.jobs # <<>>, NEW k \in JobRec,
         k.kind = Head(S.jobs).kind, NEW f \in DataFiles, k.to \in Dirs
  PROVE  /\ Arrived(S, f, k) \in TcRec /\ Controlled(Arrived(S, f, k))
         /\ Arrived(S, f, k).jobs # <<>>
         /\ Arrived(S, f, k).jobs = [S.jobs EXCEPT ![1] = k] /\ Head(Arrived(S, f, k).jobs) = k
         /\ Arrived(S, f, k).loc = [S.loc EXCEPT ![f] = k.to]
         /\ Arrived(S, f, k).known = S.known /\ Arrived(S, f, k).dest = S.dest
<1> DEFINE js == [S.jobs EXCEPT ![1] = k]
           l == [S.loc EXCEPT ![f] = k.to]
           T == Arrived(S, f, k)
<1>1. S.jobs \in Seq(JobRec)  BY DEF TcRec
<1>2. js \in Seq(JobRec) /\ js # <<>> /\ Head(js) = k  BY <1>1, HeadReplaced
<1>3. l \in [DataFiles -> Dirs]  BY DEF TcRec
<1>4. T = [S EXCEPT !.loc = l, !.jobs = js]  BY DEF TcRec, Arrived
<1> HIDE DEF js, l, T
<1>5. /\ T \in TcRec /\ T.jobs = js /\ T.loc = l /\ T.known = S.known /\ T.dest = S.dest
      /\ T.running = S.running /\ T.paused = S.paused /\ T.cman = S.cman
      /\ T.restart = S.restart /\ T.asked = S.asked
  BY <1>2, <1>3, <1>4 DEF TcRec
<1>6. Controlled(T)  BY <1>2, <1>5 DEF Controlled, Accounted
<1>7. QED  BY <1>2, <1>5, <1>6 DEF js, l, T

\* The end of a move: moveDataFilesFinished, and recover when it fails.
LEMMA MoveFinishedFacts ==
  ASSUME NEW S \in TcRec, NEW j, j.kind \in MoveKinds, j.to \in Dirs
  PROVE  /\ MoveFinished(S, j) \in TcRec /\ SameControl(S, MoveFinished(S, j))
         /\ MoveFinished(S, j).loc = S.loc
         /\ MoveFinished(S, j).known =
                IF j.kind = "move" THEN [f \in DataFiles |-> S.dest]
                ELSE [f \in DataFiles |-> IF f \in j.done THEN j.to ELSE S.known[f]]
<1>1. CASE j.kind = "move"
  <2> DEFINE R == [S EXCEPT !.known = [f \in DataFiles |-> S.dest], !.path = S.dest]
             T == SaveStats(R)
  <2>1. /\ R \in TcRec /\ SameControl(S, R) /\ R.loc = S.loc
        /\ R.known = [f \in DataFiles |-> S.dest]
    BY DEF TcRec, SameControl
  <2>2. MoveFinished(S, j) = T  BY <1>1 DEF MoveFinished
  <2> HIDE DEF R
  <2>3. /\ T \in TcRec /\ SameFiles(R, T) /\ T.jobs = R.jobs /\ T.running = R.running
        /\ T.paused = R.paused /\ T.cman = R.cman /\ T.restart = R.restart /\ T.asked = R.asked
    BY <2>1, StatsFacts
  <2> HIDE DEF T
  <2>4. QED  BY <1>1, <2>1, <2>2, <2>3 DEF SameFiles, SameControl
<1>2. CASE j.kind # "move"
  <2> DEFINE kn == [f \in DataFiles |-> IF f \in j.done THEN j.to ELSE S.known[f]]
  <2>1. kn \in [DataFiles -> Dirs]  BY DEF TcRec
  <2>2. MoveFinished(S, j) = [S EXCEPT !.known = kn]  BY <1>2 DEF MoveFinished
  <2>3. kn = IF j.kind = "move" THEN [f \in DataFiles |-> S.dest]
             ELSE [f \in DataFiles |-> IF f \in j.done THEN j.to ELSE S.known[f]]
    BY <1>2
  <2> HIDE DEF kn
  <2>4. QED  BY <2>1, <2>2, <2>3 DEF TcRec, SameControl
<1>3. QED  BY <1>1, <1>2

LEMMA RecoverFacts ==
  ASSUME NEW S \in TcRec, NEW j \in JobRec
  PROVE  /\ Recover(S, j) \in TcRec /\ SameControl(S, Recover(S, j))
         /\ Recover(S, j).known = S.known
         /\ Recover(S, j).loc = [f \in DataFiles |->
                IF \E p \in j.done : p[1] = f THEN (CHOOSE p \in j.done : p[1] = f)[2]
                ELSE S.loc[f]]
<1> DEFINE l == [f \in DataFiles |->
                IF \E p \in j.done : p[1] = f THEN (CHOOSE p \in j.done : p[1] = f)[2]
                ELSE S.loc[f]]
<1>1. l \in [DataFiles -> Dirs]
  <2> SUFFICES ASSUME NEW f \in DataFiles
               PROVE  (IF \E p \in j.done : p[1] = f THEN (CHOOSE p \in j.done : p[1] = f)[2]
                       ELSE S.loc[f]) \in Dirs
    OBVIOUS
  <2>1. CASE \E p \in j.done : p[1] = f
    <3>1. (CHOOSE p \in j.done : p[1] = f) \in j.done  BY <2>1
    <3>2. j.done \in SUBSET (DataFiles \X Dirs)  BY DEF JobRec
    <3>3. QED  BY <2>1, <3>1, <3>2
  <2>2. CASE ~\E p \in j.done : p[1] = f  BY <2>2 DEF TcRec
  <2>3. QED  BY <2>1, <2>2
<1>2. Recover(S, j) = [S EXCEPT !.loc = l]  BY DEF Recover
<1> HIDE DEF l
<1>3. QED  BY <1>1, <1>2 DEF TcRec, SameControl, l

-----------------------------------------------------------------------------
(******************************** The steps ********************************)

LEMMA TcInitInv == TcInit => TcInv /\ tc.jobs = <<>> /\ tc.loc = tc.known
<1> SUFFICES ASSUME TcInit PROVE TcInv /\ tc.jobs = <<>> /\ tc.loc = tc.known
  OBVIOUS
<1>1. PICK d \in Dirs :
        tc = [running |-> FALSE, paused |-> FALSE, completed |-> FALSE, all |-> FALSE,
              prealloc |-> TRUE, saved |-> TRUE, io_error |-> FALSE,
              pman |-> FALSE, psman |-> FALSE, cman |-> FALSE, dl |-> FALSE,
              jobs |-> <<>>, restart |-> FALSE, dest |-> d, path |-> d,
              known |-> [f \in DataFiles |-> d], loc |-> [f \in DataFiles |-> d],
              asked |-> FALSE]
  BY DEF TcInit
<1>2. <<>> \in Seq(JobRec)  OBVIOUS
<1>3. QED  BY <1>1, <1>2 DEF TcInv, TcRec, Controlled, Accounted

\* The calls of the user, and what happens to the data.
LEMMA UserSteps ==
  ASSUME TcInv, UserStart \/ UserStop \/ UserPause \/ UserUnpause \/ StartDataCheck
  PROVE  TcInv' /\ Undisturbed(tc, tc')
<1> USE DEF TcInv, TcBecome
<1>1. CASE UserStart
  <2>1. tc.jobs = <<>>  BY <1>1 DEF UserStart
  <2>2. CASE tc' = [Start(tc) EXCEPT !.asked = FALSE]
    <3> DEFINE T == Start(tc)
    <3>1. T \in TcRec /\ Controlled([T EXCEPT !.asked = FALSE]) /\ Undisturbed(tc, T)
      BY <2>1, StartFacts
    <3>2. tc' = [T EXCEPT !.asked = FALSE]  BY <2>2
    <3> HIDE DEF T
    <3>3. tc' \in TcRec /\ SameFiles(T, tc') /\ tc'.jobs = T.jobs
      BY <3>1, <3>2 DEF TcRec, SameFiles
    <3>4. Controlled(tc')  BY <3>1, <3>2
    <3>5. QED  BY <3>1, <3>3, <3>4 DEF Undisturbed, SameFiles
  <2>3. CASE tc' = OnIOError([tc EXCEPT !.paused = FALSE])
    <3>1. tc' \in TcRec /\ SameFiles(tc, tc') /\ tc'.jobs = tc.jobs /\ ~tc'.paused
          /\ tc'.running = tc.running /\ tc'.cman = tc.cman /\ tc'.restart = tc.restart
      BY <2>3 DEF OnIOError, TcRec, SameFiles
    <3>2. QED  BY <3>1 DEF Controlled, Accounted, Undisturbed
  <2>4. QED  BY <1>1, <2>2, <2>3 DEF UserStart
<1>2. CASE UserStop
  <2> DEFINE T == Stop(tc)
  <2>1. T \in TcRec /\ Controlled(T) /\ ~T.paused /\ Undisturbed(tc, T)  BY StopFacts
  <2>2. tc' = [T EXCEPT !.asked = FALSE]  BY <1>2 DEF UserStop
  <2> HIDE DEF T
  <2>3. /\ tc' \in TcRec /\ SameFiles(T, tc') /\ tc'.jobs = T.jobs /\ tc'.running = T.running
        /\ tc'.paused = T.paused /\ tc'.cman = T.cman /\ tc'.restart = T.restart
    BY <2>1, <2>2 DEF TcRec, SameFiles
  <2>4. QED  BY <2>1, <2>3 DEF Controlled, Accounted, Undisturbed, SameFiles
<1>3. CASE UserPause
  <2> DEFINE T == Pause(tc)
  <2>1. /\ T \in TcRec /\ SameFiles(tc, T) /\ T.jobs = tc.jobs /\ T.running = tc.running
        /\ T.restart = tc.restart /\ tc.running /\ ~T.cman
    BY <1>3, PauseFacts DEF UserPause, Controlled, Accounted
  <2>2. tc' = [T EXCEPT !.asked = TRUE]  BY <1>3 DEF UserPause
  <2> HIDE DEF T
  <2>3. /\ tc' \in TcRec /\ SameFiles(tc, tc') /\ tc'.jobs = tc.jobs /\ tc'.running
        /\ ~tc'.cman /\ tc'.restart = tc.restart /\ tc'.asked
    BY <2>1, <2>2 DEF TcRec, SameFiles
  <2>4. QED  BY <2>3 DEF Controlled, Accounted, Undisturbed
<1>4. CASE UserUnpause
  <2> DEFINE T == TcUnpause(tc)
             b == T.asked /\ tc.jobs # <<>>
  <2>1. tc' = [T EXCEPT !.asked = b] /\ tc.paused /\ tc.running
    BY <1>4 DEF UserUnpause, Controlled, Accounted
  <2>2. /\ T \in TcRec /\ SameFiles(tc, T) /\ T.jobs = tc.jobs /\ T.running = tc.running
        /\ T.restart = tc.restart /\ T.asked = tc.asked
        /\ tc.jobs = <<>> => ~T.paused
        /\ tc.jobs # <<>> => T = tc
    BY <2>1, UnpauseFacts
  <2>3. b \in BOOLEAN  OBVIOUS
  <2>4. tc.jobs # <<>> => b = tc.asked  BY <2>2 DEF TcRec
  <2> HIDE DEF T, b
  <2>5. /\ tc' \in TcRec /\ SameFiles(tc, tc') /\ tc'.jobs = tc.jobs /\ tc'.running = tc.running
        /\ tc'.restart = tc.restart /\ tc'.asked = b /\ tc'.cman = T.cman /\ tc'.paused = T.paused
    BY <2>1, <2>2, <2>3 DEF TcRec, SameFiles
  <2>6. Controlled(tc')
    <3>1. CASE tc.jobs = <<>>  BY <2>1, <2>2, <2>5, <3>1 DEF Controlled, Accounted
    <3>2. CASE tc.jobs # <<>>  BY <2>2, <2>4, <2>5, <3>2 DEF Controlled, Accounted
    <3>3. QED  BY <3>1, <3>2
  <2>7. QED  BY <2>5, <2>6 DEF Undisturbed
<1>5. CASE StartDataCheck
  <2> DEFINE j == Job("check", NoDir, <<>>)
  <2>1. j \in JobRec /\ j.kind \notin MoveKinds  BY JobTyped DEF MoveKinds
  <2>2. tc' = Enqueue(tc, j)  BY <1>5 DEF StartDataCheck
  <2> HIDE DEF j
  <2>3. QED  BY <2>1, <2>2, EnqueueFacts DEF Undisturbed
<1>6. QED  BY <1>1, <1>2, <1>3, <1>4, <1>5

\* Flags that neither the queue nor the paused state depends on.
LEMMA FlagSteps ==
  ASSUME TcInv, IncludeFile \/ MissingFiles \/ CorruptedChunk \/ ChangeSetting
  PROVE  TcInv' /\ Undisturbed(tc, tc')
<1>1. tc' \in TcRec /\ SameFiles(tc, tc') /\ SameControl(tc, tc')
  <2> USE DEF TcInv, TcBecome, TcRec, SameFiles, SameControl
  <2>1. CASE IncludeFile  BY <2>1 DEF IncludeFile
  <2>2. CASE MissingFiles
    <3>1. CASE tc' = [tc EXCEPT !.prealloc = TRUE, !.all = FALSE]  BY <3>1
    <3>2. CASE tc' = OnIOError(tc)  BY <3>2 DEF OnIOError
    <3>3. QED  BY <2>2, <3>1, <3>2 DEF MissingFiles
  <2>3. CASE CorruptedChunk  BY <2>3 DEF CorruptedChunk
  <2>4. CASE ChangeSetting  BY <2>4 DEF ChangeSetting, SaveStats
  <2>5. QED  BY <2>1, <2>2, <2>3, <2>4
<1>2. QED  BY <1>1, ControlKept DEF TcInv, Undisturbed, SameControl

\* The call that a move to another directory is made with.
Relocates(S, T) ==
    \E R \in TcRec, d \in Dirs : /\ SameFiles(S, R) /\ SameControl(S, R) /\ MoveRoom(R)
                                 /\ T = ChangeOutputDir(R, d)

\* TorrentControl::update, down to the move of a torrent that is complete.
LEMMA UpdateStep ==
  ASSUME TcInv, TcUpdate
  PROVE  TcInv' /\ (Undisturbed(tc, tc') \/ Relocates(tc, tc'))
<1> USE DEF TcInv, TcBecome
<1>1. CASE tc' = Stop(tc)  BY <1>1, StopFacts
<1>2. CASE UNCHANGED tc  BY <1>2 DEF Undisturbed, SameFiles
<1>3. CASE tc.running /\ tc' = Preallocate(tc)
  <2>1. [tc EXCEPT !.running = TRUE] = tc  BY <1>3 DEF TcRec
  <2>2. QED  BY <1>3, <2>1, PreallocateFacts
<1>4. CASE \E S \in {[tc EXCEPT !.prealloc = FALSE]} :
              \/ tc' = SaveStats(S)
              \/ tc' = OnIOError(S)
              \/ S.completed /\ tc' = Stop(S)
              \/ S.completed /\ tc' = [S EXCEPT !.completed = FALSE, !.all = FALSE]
              \/ ~S.completed /\ \E b \in BOOLEAN :
                    tc' = MoveToCompletedDir([S EXCEPT !.completed = TRUE, !.all = b])
  <2> DEFINE S == [tc EXCEPT !.prealloc = FALSE]
  <2>1. S \in TcRec /\ SameFiles(tc, S) /\ SameControl(tc, S)
    BY DEF TcRec, SameFiles, SameControl
  <2>2. \/ tc' = SaveStats(S) \/ tc' = OnIOError(S) \/ tc' = Stop(S)
        \/ tc' = [S EXCEPT !.completed = FALSE, !.all = FALSE]
        \/ \E b \in BOOLEAN : tc' = MoveToCompletedDir([S EXCEPT !.completed = TRUE, !.all = b])
    BY <1>4
  <2> HIDE DEF S
  <2>3. Controlled(S)  BY <2>1, ControlKept
  <2>4. CASE tc' = SaveStats(S) \/ tc' = OnIOError(S)
             \/ tc' = [S EXCEPT !.completed = FALSE, !.all = FALSE]
    <3>1. tc' \in TcRec /\ SameFiles(S, tc') /\ SameControl(S, tc')
      BY <2>1, <2>4 DEF SaveStats, OnIOError, TcRec, SameFiles, SameControl
    <3>2. Controlled(tc')  BY <2>1, <2>3, <3>1, ControlKept
    <3>3. QED  BY <2>1, <3>1, <3>2 DEF Undisturbed, SameFiles, SameControl
  <2>5. CASE tc' = Stop(S)
    <3>1. tc' \in TcRec /\ Controlled(tc') /\ Undisturbed(S, tc')  BY <2>1, <2>3, <2>5, StopFacts
    <3>2. QED  BY <2>1, <3>1 DEF Undisturbed, SameFiles, SameControl
  <2>6. CASE \E b \in BOOLEAN : tc' = MoveToCompletedDir([S EXCEPT !.completed = TRUE, !.all = b])
    <3>1. PICK b \in BOOLEAN : tc' = MoveToCompletedDir([S EXCEPT !.completed = TRUE, !.all = b])
      BY <2>6
    <3> DEFINE R == [S EXCEPT !.completed = TRUE, !.all = b]
    <3>2. R \in TcRec /\ SameFiles(S, R) /\ SameControl(S, R)
      BY <2>1 DEF TcRec, SameFiles, SameControl
    <3>3. tc' = MoveToCompletedDir(R)  BY <3>1
    <3> HIDE DEF R
    <3>4. Controlled(R) /\ SameFiles(tc, R) /\ SameControl(tc, R)
      <4>1. Controlled(R)  BY <2>1, <2>3, <3>2, ControlKept
      <4>2. QED  BY <2>1, <3>2, <4>1 DEF SameFiles, SameControl
    <3>5. CASE CompletedDir # NoDir /\ MoveRoom(R)
      <4>1. CompletedDir \in Dirs /\ tc' = ChangeOutputDir(R, CompletedDir)
        BY <3>3, <3>5, TorrentControlAssumption DEF MoveToCompletedDir
      <4>2. tc' \in TcRec /\ Controlled(tc')  BY <3>2, <3>4, <4>1, ChangeDirFacts
      <4>3. QED  BY <3>2, <3>4, <3>5, <4>1, <4>2 DEF Relocates
    <3>6. CASE ~(CompletedDir # NoDir /\ MoveRoom(R))
      <4>1. tc' = R  BY <3>3, <3>6 DEF MoveToCompletedDir
      <4>2. QED  BY <3>2, <3>4, <4>1 DEF Undisturbed, SameControl
    <3>7. QED  BY <3>5, <3>6
  <2>7. QED  BY <2>2, <2>4, <2>5, <2>6
<1>5. CASE tc.io_error
  <2>1. tc' = Stop(tc)  BY <1>5 DEF TcUpdate
  <2>2. QED  BY <1>1, <2>1
<1>6. CASE ~tc.io_error /\ tc.paused
  <2>1. UNCHANGED tc  BY <1>6 DEF TcUpdate
  <2>2. QED  BY <1>2, <2>1
<1>7. CASE ~tc.io_error /\ ~tc.paused /\ NeedsPrealloc(tc)
  <2>1. tc.running /\ tc' = Preallocate(tc)  BY <1>7 DEF TcUpdate
  <2>2. QED  BY <1>3, <2>1
<1>8. CASE ~tc.io_error /\ ~tc.paused /\ ~NeedsPrealloc(tc)
  <2>1. \E S \in {[tc EXCEPT !.prealloc = FALSE]} :
              \/ tc' = SaveStats(S)
              \/ tc' = OnIOError(S)
              \/ S.completed /\ tc' = Stop(S)
              \/ S.completed /\ tc' = [S EXCEPT !.completed = FALSE, !.all = FALSE]
              \/ ~S.completed /\ \E b \in BOOLEAN :
                    tc' = MoveToCompletedDir([S EXCEPT !.completed = TRUE, !.all = b])
    BY <1>8 DEF TcUpdate
  <2>2. QED  BY <1>4, <2>1
<1>9. QED  BY <1>5, <1>6, <1>7, <1>8

\* A check or a preallocation ends.
LEMMA QuietJobSteps ==
  ASSUME TcInv, CheckEnds \/ PreallocEnds
  PROVE  TcInv' /\ Undisturbed(tc, tc')
<1>1. /\ tc.jobs # <<>> /\ Head(tc.jobs).kind \notin MoveKinds
      /\ \E S \in TcRec : /\ SameFiles(tc, S) /\ S.jobs = tc.jobs /\ Accounted(S)
                          /\ tc' = JobDone(S)
  <2> USE DEF TcInv, TcBecome
  <2>1. CASE CheckEnds
    <3>1. tc.jobs # <<>> /\ Head(tc.jobs).kind \notin MoveKinds
      BY <2>1 DEF CheckEnds, Current, MoveKinds
    <3>2. CASE tc' = JobDone(tc)
      BY <3>1, <3>2 DEF Controlled, SameFiles
    <3>3. ASSUME NEW c \in BOOLEAN, NEW a \in BOOLEAN, tc' = JobDone(AfterDataCheck(tc, c, a))
          PROVE  \E S \in TcRec : /\ SameFiles(tc, S) /\ S.jobs = tc.jobs /\ Accounted(S)
                                  /\ tc' = JobDone(S)
      <4> DEFINE R == [tc EXCEPT !.completed = c, !.all = a]
                 T == SaveStats(R)
      <4>1. R \in TcRec /\ SameFiles(tc, R) /\ SameControl(tc, R)
        BY DEF TcRec, SameFiles, SameControl
      <4>2. tc' = JobDone(T)  BY <3>3 DEF AfterDataCheck
      <4> HIDE DEF R
      <4>3. /\ T \in TcRec /\ SameFiles(R, T) /\ T.jobs = R.jobs /\ T.running = R.running
            /\ T.paused = R.paused /\ T.cman = R.cman /\ T.restart = R.restart
            /\ T.asked = R.asked
        BY <4>1, StatsFacts
      <4> HIDE DEF T
      <4>4. SameFiles(tc, T) /\ SameControl(tc, T)  BY <4>1, <4>3 DEF SameFiles, SameControl
      <4>5. Accounted(T)  BY <4>3, <4>4, ControlKept DEF Controlled
      <4>6. QED  BY <4>2, <4>3, <4>4, <4>5 DEF SameControl
    <3>4. QED  BY <2>1, <3>1, <3>2, <3>3 DEF CheckEnds
  <2>2. CASE PreallocEnds
    <3>1. tc.jobs # <<>> /\ Head(tc.jobs).kind \notin MoveKinds
      BY <2>2 DEF PreallocEnds, Current, MoveKinds
    <3>2. PICK error \in BOOLEAN : tc' = JobDone(PreallocFinished(tc, error))
      BY <2>2 DEF PreallocEnds
    <3>3. CASE error
      <4> DEFINE T == PreallocFinished(tc, error)
      <4>1. T \in TcRec /\ SameFiles(tc, T) /\ SameControl(tc, T)
        <5>1. T = [tc EXCEPT !.prealloc = TRUE, !.io_error = TRUE]
          BY <3>3 DEF PreallocFinished, OnIOError, TcRec
        <5> HIDE DEF T
        <5>2. QED  BY <5>1 DEF TcRec, SameFiles, SameControl
      <4>2. tc' = JobDone(T)  BY <3>2
      <4> HIDE DEF T
      <4>3. Accounted(T)  BY <4>1, ControlKept DEF Controlled
      <4>4. QED  BY <3>1, <4>1, <4>2, <4>3 DEF SameControl
    <3>4. CASE ~error
      <4> DEFINE R == [tc EXCEPT !.prealloc = FALSE]
                 U == SaveStats(R)
                 T == ContinueStart(U)
      <4>1. R \in TcRec /\ SameFiles(tc, R) /\ SameControl(tc, R)
        BY DEF TcRec, SameFiles, SameControl
      <4>2. tc' = JobDone(T)  BY <3>2, <3>4 DEF PreallocFinished
      <4> HIDE DEF R
      <4>3. /\ U \in TcRec /\ SameFiles(R, U) /\ U.jobs = R.jobs /\ U.running = R.running
            /\ U.paused = R.paused /\ U.cman = R.cman /\ U.restart = R.restart
            /\ U.asked = R.asked
        BY <4>1, StatsFacts
      <4> HIDE DEF U
      <4>4. /\ T \in TcRec /\ SameFiles(U, T) /\ T.jobs = U.jobs /\ T.running
            /\ T.paused = U.paused /\ T.cman = U.cman /\ T.restart = U.restart
            /\ T.asked = U.asked
        BY <4>3, ContinueStartFacts
      <4> HIDE DEF T
      <4>5. SameFiles(tc, T) /\ T.jobs = tc.jobs
        BY <4>1, <4>3, <4>4 DEF SameFiles, SameControl
      <4>6. Accounted(T)
        BY <4>1, <4>3, <4>4 DEF Controlled, Accounted, SameControl
      <4>7. QED  BY <3>1, <4>2, <4>4, <4>5, <4>6
    <3>5. QED  BY <3>3, <3>4
  <2>3. QED  BY <2>1, <2>2
<1>2. PICK S \in TcRec : SameFiles(tc, S) /\ S.jobs = tc.jobs /\ Accounted(S) /\ tc' = JobDone(S)
  BY <1>1
<1>3. QED  BY <1>1, <1>2, JobDoneFacts DEF TcInv, Undisturbed, SameFiles

(*************************** Where the files are ***************************)

\* What Tracked looks at of the torrent.
LEMMA TrackedKept ==
  ASSUME NEW S, NEW T, NEW j, Tracked(S, j),
         T.known = S.known, T.loc = S.loc, T.dest = S.dest
  PROVE  Tracked(T, j)
BY DEF Tracked

\* The queue without its head.
LEMMA MovesOfTail ==
  ASSUME NEW S \in TcRec, NEW T \in TcRec, S.jobs # <<>>, T.jobs = Tail(S.jobs)
  PROVE  /\ \A i \in Moves(T) : i \in Nat /\ i > 0 /\ i + 1 \in Moves(S) /\ T.jobs[i] = S.jobs[i + 1]
         /\ \A i \in Moves(S) : i = 1 \/ i - 1 \in Moves(T)
         /\ 1 \in Moves(S) <=> Head(S.jobs).kind \in MoveKinds
<1>1. S.jobs \in Seq(JobRec)  BY DEF TcRec
<1>2. /\ Len(S.jobs) \in Nat \ {0} /\ DOMAIN S.jobs = 1 .. Len(S.jobs)
      /\ Head(S.jobs) = S.jobs[1]
  BY <1>1, EmptySeq, LenProperties
<1>3. /\ T.jobs \in Seq(JobRec) /\ Len(T.jobs) = Len(S.jobs) - 1
      /\ \A i \in 1 .. Len(T.jobs) : T.jobs[i] = S.jobs[i + 1]
  BY <1>1, HeadTailProperties
<1>4. DOMAIN T.jobs = 1 .. Len(S.jobs) - 1  BY <1>3, LenProperties
<1>5. QED  BY <1>2, <1>3, <1>4 DEF Moves, MoveKinds

\* The queue with one more job.
LEMMA MovesOfAppend ==
  ASSUME NEW S \in TcRec, NEW T \in TcRec, NEW j \in JobRec, T.jobs = Append(S.jobs, j)
  PROVE  /\ j.kind \notin MoveKinds => Moves(T) = Moves(S)
         /\ j.kind \in MoveKinds => Moves(T) = Moves(S) \cup {Len(S.jobs) + 1}
         /\ \A i \in Moves(S) : T.jobs[i] = S.jobs[i]
         /\ T.jobs[Len(S.jobs) + 1] = j
<1>1. S.jobs \in Seq(JobRec)  BY DEF TcRec
<1>2. /\ T.jobs \in Seq(JobRec) /\ Len(T.jobs) = Len(S.jobs) + 1
      /\ \A i \in 1 .. Len(S.jobs) : T.jobs[i] = S.jobs[i]
      /\ T.jobs[Len(S.jobs) + 1] = j
  BY <1>1, AppendProperties
<1>3. /\ Len(S.jobs) \in Nat /\ DOMAIN S.jobs = 1 .. Len(S.jobs)
      /\ DOMAIN T.jobs = 1 .. Len(S.jobs) + 1
  BY <1>1, <1>2, LenProperties
<1>4. QED  BY <1>2, <1>3 DEF Moves, MoveKinds

\* Steps that neither add nor end a move leave every file where it is known.
LEMMA UndisturbedWhere ==
  ASSUME NEW S \in TcRec, NEW T \in TcRec, Undisturbed(S, T), Whereabouts(S)
  PROVE  Whereabouts(T)
<1>1. T.known = S.known /\ T.loc = S.loc /\ T.dest = S.dest
  BY DEF Undisturbed, SameFiles
<1>2. CASE T.jobs = S.jobs
  <2>1. Moves(T) = Moves(S)  BY <1>2 DEF Moves
  <2>2. QED  BY <1>1, <1>2, <2>1, TrackedKept DEF Whereabouts
<1>3. CASE S.jobs # <<>> /\ Head(S.jobs).kind \notin MoveKinds /\ T.jobs = Tail(S.jobs)
  <2>1. /\ \A i \in Moves(T) : /\ i \in Nat /\ i > 0 /\ i + 1 \in Moves(S)
                              /\ T.jobs[i] = S.jobs[i + 1]
        /\ \A i \in Moves(S) : i - 1 \in Moves(T)
    BY <1>3, MovesOfTail
  <2>2. \A i \in Moves(T) : Tracked(T, T.jobs[i])
    BY <1>1, <2>1, TrackedKept DEF Whereabouts
  <2>3. \A i, j \in Moves(T) : i = j
    <3> SUFFICES ASSUME NEW i \in Moves(T), NEW j \in Moves(T) PROVE i = j
      OBVIOUS
    <3>1. i \in Nat /\ j \in Nat /\ i + 1 = j + 1  BY <2>1 DEF Whereabouts
    <3>2. QED  BY <3>1
  <2>4. Moves(T) = {} => Moves(S) = {}  BY <2>1
  <2>5. QED  BY <1>1, <2>2, <2>3, <2>4 DEF Whereabouts
<1>4. CASE \E j \in JobRec : j.kind \notin MoveKinds /\ T.jobs = Append(S.jobs, j)
  <2>1. ASSUME NEW j \in JobRec, j.kind \notin MoveKinds, T.jobs = Append(S.jobs, j)
        PROVE  Whereabouts(T)
    <3>1. Moves(T) = Moves(S)  BY <2>1, MovesOfAppend
    <3>2. ASSUME NEW i \in Moves(S) PROVE T.jobs[i] = S.jobs[i]
      <4>1. S.jobs \in Seq(JobRec)  BY DEF TcRec
      <4>2. i \in 1 .. Len(S.jobs)  BY <4>1 DEF Moves
      <4>3. QED  BY <2>1, <4>1, <4>2
    <3>3. QED  BY <1>1, <3>1, <3>2, TrackedKept DEF Whereabouts
  <2>2. QED  BY <1>4, <2>1
<1>5. QED  BY <1>2, <1>3, <1>4 DEF Undisturbed

\* A new move, while no other waits.
LEMMA NewMoveWhere ==
  ASSUME NEW S \in TcRec, NEW T \in TcRec, Moves(S) = {}, S.loc = S.known,
         NEW j \in JobRec, T.jobs = Append(S.jobs, j),
         T.known = S.known, T.loc = S.loc,
         Tracked(T, j)
  PROVE  Whereabouts(T)
<1>1. /\ j.kind \notin MoveKinds => Moves(T) = {}
      /\ j.kind \in MoveKinds => Moves(T) = {Len(S.jobs) + 1}
      /\ T.jobs[Len(S.jobs) + 1] = j
  BY MovesOfAppend
<1>2. QED  BY <1>1 DEF Whereabouts

\* The room for one move only.
LEMMA NoOtherMove ==
  ASSUME NEW S \in TcRec, MoveRoom(S), MaxMoves <= 1
  PROVE  Moves(S) = {}
<1>1. S.jobs \in Seq(JobRec)  BY DEF TcRec
<1>2. Len(S.jobs) \in Nat /\ Moves(S) \subseteq 1 .. Len(S.jobs)  BY <1>1, LenProperties DEF Moves
<1>3. IsFiniteSet(Moves(S))
  <2>1. IsFiniteSet(1 .. Len(S.jobs))  BY <1>2, FS_Interval
  <2>2. QED  BY <1>2, <2>1, FS_Subset
<1>4. Cardinality(Moves(S)) \in Nat /\ Cardinality(Moves(S)) < 1
  BY <1>3, FS_CardinalityType, TorrentControlAssumption DEF MoveRoom
<1>5. QED  BY <1>3, <1>4, FS_EmptySet

\* changeOutputDir with the files where they are known.
LEMMA ChangeDirWhere ==
  ASSUME NEW S \in TcRec, Controlled(S), Whereabouts(S), Moves(S) = {}, NEW d \in Dirs
  PROVE  Whereabouts(ChangeOutputDir(S, d))
<1> DEFINE T == ChangeOutputDir(S, d)
           files == {g \in DataFiles : S.known[g] # d}
           j == Job("move", d, [f \in files |-> S.known[f]])
<1>1. /\ T \in TcRec /\ T.known = S.known /\ T.loc = S.loc
      /\ \/ T = S
         \/ T.jobs = S.jobs /\ \A f \in DataFiles : S.known[f] = d
         \/ T.dest = d /\ T.jobs = Append(S.jobs, j)
  BY ChangeDirFacts
<1>2. S.loc = S.known  BY DEF Whereabouts
<1> HIDE DEF T
<1>3. CASE T.jobs = S.jobs
  <2>1. Moves(T) = {}  BY <1>3 DEF Moves
  <2>2. QED  BY <1>1, <1>2, <2>1 DEF Whereabouts, T
<1>4. CASE T.dest = d /\ T.jobs = Append(S.jobs, j)
  <2>1. j \in JobRec  BY MoveJobTyped DEF MoveKinds
  <2>2. /\ j.kind = "move" /\ j.to = d /\ j.done = {} /\ DOMAIN j.todo = files
        /\ \A f \in files : j.todo[f] = S.known[f]
    BY DEF Job
  <2> HIDE DEF j
  <2>3. Tracked(T, j)  BY <1>1, <1>2, <1>4, <2>2 DEF Tracked
  <2>4. QED  BY <1>1, <1>2, <1>4, <2>1, <2>3, NewMoveWhere DEF T
<1>5. QED  BY <1>1, <1>3, <1>4 DEF T

\* One file has been moved and more are left to do.
LEMMA TrackedMoved ==
  ASSUME NEW S \in TcRec, NEW T \in TcRec, NEW j \in JobRec, NEW k \in JobRec,
         NEW f \in DataFiles, f \in DOMAIN j.todo, Tracked(S, j),
         k.kind = j.kind, k.to = j.to, k.done = j.done \cup {<<f, j.todo[f]>>},
         k.todo = [g \in DOMAIN j.todo \ {f} |-> j.todo[g]],
         T.loc = [S.loc EXCEPT ![f] = j.to], T.known = S.known, T.dest = S.dest
  PROVE  Tracked(T, k)
<1>1. S.loc \in [DataFiles -> Dirs]  BY DEF TcRec
<1>2. j.done \in SUBSET (DataFiles \X Dirs)  BY DEF JobRec
<1>3. /\ DOMAIN k.todo = DOMAIN j.todo \ {f}
      /\ \A g \in DOMAIN k.todo : k.todo[g] = j.todo[g]
  OBVIOUS
<1>4. /\ T.loc[f] = j.to
      /\ \A g \in DataFiles : g # f => T.loc[g] = S.loc[g]
  BY <1>1
<1>5. \A p \in k.done : p \in j.done \/ (p[1] = f /\ p[2] = j.todo[f])  OBVIOUS
<1>6. /\ \A p \in j.done : p[1] # f /\ p[1] \in DataFiles /\ p \in k.done
      /\ <<f, j.todo[f]>> \in k.done
  BY <1>2 DEF Tracked
<1>7. \A g \in DOMAIN k.todo : /\ k.todo[g] = T.known[g] /\ T.loc[g] = T.known[g]
                              /\ \A p \in k.done : p[1] # g
  <2> SUFFICES ASSUME NEW g \in DOMAIN k.todo
               PROVE  /\ k.todo[g] = T.known[g] /\ T.loc[g] = T.known[g]
                      /\ \A p \in k.done : p[1] # g
    OBVIOUS
  <2>1. g \in DOMAIN j.todo /\ g # f  BY <1>3
  <2>2. g \in DataFiles
    <3>1. j.todo \in PartDirs \cup {<<>>}  BY DEF JobRec
    <3>2. CASE j.todo = <<>>  BY <2>1, <3>2
    <3>3. CASE j.todo \in PartDirs  BY <2>1, <3>3 DEF PartDirs
    <3>4. QED  BY <3>1, <3>2, <3>3
  <2>3. QED  BY <1>3, <1>4, <1>5, <2>1, <2>2 DEF Tracked
<1>8. \A p \in k.done : p[2] = T.known[p[1]] /\ T.loc[p[1]] = k.to
  BY <1>4, <1>5, <1>6 DEF Tracked
<1>9. \A g \in DataFiles : (\A p \in k.done : p[1] # g) => T.loc[g] = T.known[g]
  <2> SUFFICES ASSUME NEW g \in DataFiles, \A p \in k.done : p[1] # g
               PROVE  T.loc[g] = T.known[g]
    OBVIOUS
  <2>1. <<f, j.todo[f]>>[1] # g  BY <1>6
  <2>2. g # f /\ \A p \in j.done : p[1] # g  BY <1>6, <2>1
  <2>3. QED  BY <1>4, <2>2 DEF Tracked
<1>10. k.kind = "move" =>
          /\ T.dest = k.to
          /\ \A g \in DataFiles : \/ g \in DOMAIN k.todo \/ T.known[g] = k.to
                                  \/ \E p \in k.done : p[1] = g
  <2> SUFFICES ASSUME k.kind = "move", NEW g \in DataFiles
               PROVE  /\ T.dest = k.to
                      /\ \/ g \in DOMAIN k.todo \/ T.known[g] = k.to
                         \/ \E p \in k.done : p[1] = g
    OBVIOUS
  <2>1. T.dest = k.to  BY DEF Tracked
  <2>2. CASE g = f
    <3>1. <<f, j.todo[f]>>[1] = g  BY <2>2
    <3>2. QED  BY <1>6, <2>1, <3>1
  <2>3. CASE g # f  BY <1>3, <1>6, <2>1, <2>3 DEF Tracked
  <2>4. QED  BY <2>2, <2>3
<1>11. QED  BY <1>7, <1>8, <1>9, <1>10 DEF Tracked

\* The last one has been moved: what the torrent knows catches up.
LEMMA FinishedWhere ==
  ASSUME NEW S \in TcRec, NEW T \in TcRec, NEW k \in JobRec, k.kind \in MoveKinds,
         DOMAIN k.todo = {}, Tracked(S, k), T.loc = S.loc,
         T.known = IF k.kind = "move" THEN [f \in DataFiles |-> S.dest]
                   ELSE [f \in DataFiles |-> IF f \in {p[1] : p \in k.done} THEN k.to ELSE S.known[f]]
  PROVE  T.loc = T.known
<1>1. S.loc \in [DataFiles -> Dirs] /\ T.known \in [DataFiles -> Dirs]  BY DEF TcRec
<1>2. SUFFICES ASSUME NEW f \in DataFiles PROVE S.loc[f] = T.known[f]
  BY <1>1
<1>3. CASE \E p \in k.done : p[1] = f
  <2>1. S.loc[f] = k.to /\ f \in {p[1] : p \in k.done}  BY <1>3 DEF Tracked
  <2>2. QED  BY <2>1 DEF Tracked
<1>4. CASE ~\E p \in k.done : p[1] = f
  <2>1. S.loc[f] = S.known[f] /\ f \notin {p[1] : p \in k.done}  BY <1>4 DEF Tracked
  <2>2. CASE k.kind = "move"
    <3>1. S.dest = k.to /\ S.known[f] = k.to  BY <1>4, <2>2 DEF Tracked
    <3>2. QED  BY <2>1, <2>2, <3>1
  <2>3. CASE k.kind # "move"  BY <2>1, <2>3
  <2>4. QED  BY <2>2, <2>3
<1>5. QED  BY <1>3, <1>4

\* moveDataFilesFinished of a job that has nothing left to move.
LEMMA MoveEnds ==
  ASSUME NEW S \in TcRec, NEW k \in JobRec, k.kind \in MoveKinds, k.to \in Dirs
  PROVE  LET F == MoveFinished(S, [k EXCEPT !.done = {p[1] : p \in @}])
         IN  /\ F \in TcRec /\ SameControl(S, F)
             /\ DOMAIN k.todo = {} /\ Tracked(S, k) => F.loc = F.known
<1> DEFINE D == {p[1] : p \in k.done}
           y == [k EXCEPT !.done = D]
           F == MoveFinished(S, y)
<1>1. F = MoveFinished(S, [k EXCEPT !.done = {p[1] : p \in @}])  OBVIOUS
<1> HIDE DEF D
<1>2. y.kind = k.kind /\ y.to = k.to /\ y.done = D  BY DEF JobRec
<1> HIDE DEF y
<1>3. y.kind \in MoveKinds /\ y.to \in Dirs  BY <1>2
<1>4. /\ F \in TcRec /\ SameControl(S, F) /\ F.loc = S.loc
      /\ F.known = IF y.kind = "move" THEN [f \in DataFiles |-> S.dest]
                   ELSE [f \in DataFiles |-> IF f \in y.done THEN y.to ELSE S.known[f]]
  BY <1>3, MoveFinishedFacts
<1>5. F.known = IF k.kind = "move" THEN [f \in DataFiles |-> S.dest]
                ELSE [f \in DataFiles |-> IF f \in D THEN k.to ELSE S.known[f]]
  BY <1>2, <1>4
<1> HIDE DEF F
<1>6. ASSUME DOMAIN k.todo = {}, Tracked(S, k) PROVE F.loc = F.known
  BY <1>4, <1>5, <1>6, FinishedWhere DEF D
<1>7. QED  BY <1>1, <1>4, <1>6

\* A move that fails: recover puts back the files that had been moved.
LEMMA RecoveredWhere ==
  ASSUME NEW S \in TcRec, NEW j \in JobRec, Tracked(S, j),
         NEW l, l = [f \in DataFiles |->
                IF \E p \in j.done : p[1] = f THEN (CHOOSE p \in j.done : p[1] = f)[2]
                ELSE S.loc[f]]
  PROVE  l = S.known
<1>1. S.known \in [DataFiles -> Dirs]  BY DEF TcRec
<1>2. SUFFICES ASSUME NEW f \in DataFiles PROVE l[f] = S.known[f]
  BY <1>1
<1>3. CASE \E p \in j.done : p[1] = f
  <2> DEFINE c == CHOOSE p \in j.done : p[1] = f
  <2>1. c \in j.done /\ c[1] = f  BY <1>3
  <2>2. l[f] = c[2]  BY <1>3
  <2> HIDE DEF c
  <2>3. QED  BY <2>1, <2>2 DEF Tracked
<1>4. CASE ~\E p \in j.done : p[1] = f  BY <1>4 DEF Tracked
<1>5. QED  BY <1>3, <1>4

\* The only move has ended.
LEMMA EndedWhere ==
  ASSUME NEW S \in TcRec, NEW T \in TcRec, S.jobs # <<>>, Head(S.jobs).kind \in MoveKinds,
         \A i, j \in Moves(S) : i = j, T.jobs = Tail(S.jobs), T.loc = T.known
  PROVE  Whereabouts(T)
<1>1. /\ \A i \in Moves(T) : i \in Nat /\ i > 0 /\ i + 1 \in Moves(S)
      /\ 1 \in Moves(S)
  BY MovesOfTail
<1>2. ASSUME NEW i \in Moves(T) PROVE FALSE
  <2>1. i \in Nat /\ i > 0 /\ i + 1 = 1  BY <1>1
  <2>2. QED  BY <2>1
<1>3. QED  BY <1>2 DEF Whereabouts

\* Moves are asked for.
LEMMA MoveAskedSteps ==
  ASSUME TcInv, UserChangesOutputDir \/ MoveTorrentFiles
  PROVE  /\ TcInv'
         /\ Whereabouts(tc) /\ MaxMoves <= 1 => Whereabouts(tc')
<1> USE DEF TcInv, TcBecome
<1>1. CASE UserChangesOutputDir
  <2>1. PICK d \in Dirs : MoveRoom(tc) /\ tc' = ChangeOutputDir(tc, d)
    BY <1>1 DEF UserChangesOutputDir
  <2>2. TcInv'  BY <2>1, ChangeDirFacts
  <2>3. Whereabouts(tc) /\ MaxMoves <= 1 => Whereabouts(tc')
    BY <2>1, NoOtherMove, ChangeDirWhere
  <2>4. QED  BY <2>2, <2>3
<1>2. CASE MoveTorrentFiles
  <2>1. PICK d \in Dirs, f \in DataFiles :
           MoveRoom(tc) /\ tc.known[f] # d /\ tc' = Enqueue(tc, MapJob(tc, d, {f}))
    BY <1>2 DEF MoveTorrentFiles
  <2> DEFINE files == {g \in {f} : tc.known[g] # d}
             j == Job("map", d, [g \in files |-> tc.known[g]])
  <2>2. j \in JobRec  BY MoveJobTyped DEF MoveKinds
  <2>3. /\ j.kind = "map" /\ j.to = d /\ j.done = {} /\ DOMAIN j.todo = files
        /\ \A g \in files : j.todo[g] = tc.known[g]
    BY DEF Job
  <2>4. tc' = Enqueue(tc, j)  BY <2>1 DEF MapJob
  <2> HIDE DEF j
  <2>5. /\ tc' \in TcRec /\ Controlled(tc') /\ SameFiles(tc, tc')
        /\ tc'.jobs = Append(tc.jobs, j)
    BY <2>2, <2>4, EnqueueFacts
  <2>6. ASSUME Whereabouts(tc), MaxMoves <= 1 PROVE Whereabouts(tc')
    <3>1. Moves(tc) = {}  BY <2>1, <2>6, NoOtherMove
    <3>2. tc.loc = tc.known /\ tc'.known = tc.known /\ tc'.loc = tc.loc
      BY <2>5, <2>6, <3>1 DEF Whereabouts, SameFiles
    <3>3. Tracked(tc', j)  BY <2>3, <3>2 DEF Tracked
    <3>4. QED  BY <2>2, <2>5, <3>1, <3>2, <3>3, NewMoveWhere
  <2>7. QED  BY <2>5, <2>6
<1>3. QED  BY <1>1, <1>2

\* The move at the head of the queue.
LEMMA HeadMove ==
  ASSUME NEW S \in TcRec, S.jobs # <<>>, Head(S.jobs).kind \in MoveKinds
  PROVE  /\ Head(S.jobs) \in JobRec /\ 1 \in Moves(S)
         /\ Whereabouts(S) => Tracked(S, Head(S.jobs)) /\ Moves(S) = {1}
<1>1. S.jobs \in Seq(JobRec)  BY DEF TcRec
<1>2. Len(S.jobs) \in Nat \ {0} /\ DOMAIN S.jobs = 1 .. Len(S.jobs) /\ Head(S.jobs) = S.jobs[1]
  BY <1>1, EmptySeq, LenProperties
<1>3. Head(S.jobs) \in JobRec  BY <1>1, HeadTailProperties
<1>4. 1 \in Moves(S)  BY <1>2 DEF Moves, MoveKinds
<1>5. QED  BY <1>2, <1>3, <1>4 DEF Whereabouts

\* MoveDataFilesJob: a file arrives, the job goes on or ends.
LEMMA FileMovedStep ==
  ASSUME TcInv, FileMoved
  PROVE  TcInv' /\ (Whereabouts(tc) => Whereabouts(tc'))
<1> USE DEF TcInv
<1> DEFINE j == Head(tc.jobs)
<1>1. tc.jobs # <<>> /\ j.kind \in MoveKinds
  BY DEF FileMoved, Current, MoveKinds
<1>2. j \in JobRec /\ (Whereabouts(tc) => Tracked(tc, j) /\ Moves(tc) = {1})
  BY <1>1, HeadMove
<1>3. PICK f \in DOMAIN j.todo : tc' = StartMoving(Arrived(tc, f, MovedOn(j, f)), MovedOn(j, f))
  BY DEF FileMoved, TcBecome
<1> DEFINE x == MovedOn(j, f)
           S == Arrived(tc, f, x)
<1>4. /\ f \in DataFiles /\ x \in JobRec /\ x.kind = j.kind /\ x.to = j.to /\ j.to \in Dirs
      /\ x.done = j.done \cup {<<f, j.todo[f]>>}
      /\ x.todo = [g \in DOMAIN j.todo \ {f} |-> j.todo[g]]
  <2> HIDE DEF j
  <2>1. QED  BY <1>1, <1>2, MovedOnFacts
<1>5. tc' = StartMoving(S, x)  BY <1>3
<1> HIDE DEF x
<1>6. /\ S \in TcRec /\ Controlled(S) /\ S.jobs # <<>> /\ Head(S.jobs) = x
      /\ S.jobs = [tc.jobs EXCEPT ![1] = x] /\ S.loc = [tc.loc EXCEPT ![f] = x.to]
      /\ S.known = tc.known /\ S.dest = tc.dest
  BY <1>1, <1>4, ArrivedFacts
<1> HIDE DEF S
<1>7. Whereabouts(tc) => Tracked(S, x)
  <2> HIDE DEF j
  <2> SUFFICES ASSUME Whereabouts(tc) PROVE Tracked(S, x)
    OBVIOUS
  <2>1. Tracked(tc, j)  BY <1>2
  <2>2. QED  BY <1>2, <1>3, <1>4, <1>6, <2>1, TrackedMoved
<1>8. Moves(S) = Moves(tc)
  <2>1. tc.jobs \in Seq(JobRec)  BY DEF TcRec
  <2>2. /\ Len(S.jobs) = Len(tc.jobs) /\ S.jobs \in Seq(JobRec)
        /\ \A i \in 1 .. Len(tc.jobs) : S.jobs[i] = IF i = 1 THEN x ELSE tc.jobs[i]
    BY <1>1, <1>4, <1>6, <2>1, HeadReplaced
  <2>3. /\ DOMAIN S.jobs = 1 .. Len(tc.jobs) /\ DOMAIN tc.jobs = 1 .. Len(tc.jobs)
        /\ Head(tc.jobs) = tc.jobs[1]
    BY <1>1, <2>1, <2>2, LenProperties
  <2>4. \A i \in 1 .. Len(tc.jobs) : S.jobs[i].kind = tc.jobs[i].kind
    BY <1>4, <2>2, <2>3
  <2>5. QED  BY <2>3, <2>4 DEF Moves
<1>9. CASE DOMAIN x.todo # {}
  <2>1. tc' = S  BY <1>5, <1>9 DEF StartMoving
  <2>2. ASSUME Whereabouts(tc) PROVE Whereabouts(S)
    <3>1. Moves(S) = {1}  BY <1>2, <1>8, <2>2
    <3>2. S.jobs[1] = x
      <4>1. S.jobs \in Seq(JobRec)  BY <1>6 DEF TcRec
      <4>2. QED  BY <1>6, <4>1
    <3>3. Tracked(S, x)  BY <1>7, <2>2
    <3>4. QED  BY <3>1, <3>2, <3>3 DEF Whereabouts
  <2>3. QED  BY <1>6, <2>1, <2>2
<1>10. CASE DOMAIN x.todo = {}
  <2> DEFINE F == MoveFinished(S, [x EXCEPT !.done = {p[1] : p \in @}])
  <2>1. tc' = JobDone(F)  BY <1>5, <1>10 DEF StartMoving
  <2>2. x.kind \in MoveKinds /\ x.to \in Dirs  BY <1>1, <1>4
  <2>3. /\ F \in TcRec /\ SameControl(S, F)
        /\ DOMAIN x.todo = {} /\ Tracked(S, x) => F.loc = F.known
    BY <1>4, <1>6, <2>2, MoveEnds
  <2> HIDE DEF F
  <2>4. Controlled(F) /\ Accounted(F) /\ F.jobs = S.jobs
    <3>1. Controlled(F)  BY <1>6, <2>3, ControlKept
    <3>2. QED  BY <2>3, <3>1 DEF Controlled, SameControl
  <2>5. /\ tc' \in TcRec /\ Controlled(tc') /\ SameFiles(F, tc')
        /\ tc'.jobs = Tail(F.jobs)
    BY <1>6, <2>1, <2>3, <2>4, JobDoneFacts
  <2>6. ASSUME Whereabouts(tc) PROVE Whereabouts(tc')
    <3>1. F.loc = F.known  BY <1>7, <1>10, <2>3, <2>6
    <3>2. tc'.loc = tc'.known  BY <2>5, <3>1 DEF SameFiles
    <3>3. Moves(F) = {1}  BY <1>2, <1>8, <2>4, <2>6 DEF Moves
    <3>4. F.jobs # <<>> /\ Head(F.jobs).kind \in MoveKinds  BY <1>1, <1>4, <1>6, <2>4
    <3>5. QED  BY <2>3, <2>5, <3>2, <3>3, <3>4, EndedWhere
  <2>7. QED  BY <2>5, <2>6
<1>11. QED  BY <1>9, <1>10

\* MoveDataFilesJob: a file cannot be moved.
LEMMA MoveFailsStep ==
  ASSUME TcInv, FileMoveFails
  PROVE  TcInv' /\ (Whereabouts(tc) => Whereabouts(tc'))
<1> USE DEF TcInv
<1> DEFINE j == Head(tc.jobs)
           R == Recover(tc, j)
<1>1. tc.jobs # <<>> /\ j.kind \in MoveKinds /\ tc' = JobDone(R)
  BY DEF FileMoveFails, Current, MoveKinds, TcBecome
<1>2. j \in JobRec /\ (Whereabouts(tc) => Tracked(tc, j) /\ Moves(tc) = {1})
  BY <1>1, HeadMove
<1>3. /\ R \in TcRec /\ SameControl(tc, R) /\ R.known = tc.known
      /\ R.loc = [f \in DataFiles |->
                IF \E p \in j.done : p[1] = f THEN (CHOOSE p \in j.done : p[1] = f)[2]
                ELSE tc.loc[f]]
  BY <1>2, RecoverFacts
<1> HIDE DEF R
<1>4. Accounted(R) /\ R.jobs = tc.jobs
  <2>1. Controlled(R)  BY <1>3, ControlKept
  <2>2. QED  BY <1>3, <2>1 DEF Controlled, SameControl
<1>5. tc' \in TcRec /\ Controlled(tc') /\ SameFiles(R, tc') /\ tc'.jobs = Tail(tc.jobs)
  BY <1>1, <1>3, <1>4, JobDoneFacts
<1>6. ASSUME Whereabouts(tc) PROVE Whereabouts(tc')
  <2>1. R.loc = tc.known  BY <1>2, <1>3, <1>6, RecoveredWhere
  <2>2. tc'.loc = tc'.known  BY <1>3, <1>5, <2>1 DEF SameFiles
  <2>3. \A a, b \in Moves(tc) : a = b  BY <1>2, <1>6
  <2>4. QED  BY <1>1, <1>5, <2>2, <2>3, EndedWhere
<1>7. QED  BY <1>5, <1>6

-----------------------------------------------------------------------------
(******************************* The theorems ******************************)

\* Every step keeps the torrent and its queue in agreement, and with at most one
\* move in the queue also the files and where they are known to be.
LEMMA TcStep ==
  ASSUME TcInv, [TcNext]_tcVars
  PROVE  /\ TcInv'
         /\ Whereabouts(tc) /\ MaxMoves <= 1 => Whereabouts(tc')
<1>1. CASE UserStart \/ UserStop \/ UserPause \/ UserUnpause \/ StartDataCheck
  BY <1>1, UserSteps, UndisturbedWhere DEF TcInv
<1>2. CASE IncludeFile \/ MissingFiles \/ CorruptedChunk \/ ChangeSetting
  BY <1>2, FlagSteps, UndisturbedWhere DEF TcInv
<1>3. CASE TcUpdate
  <2>1. TcInv' /\ (Undisturbed(tc, tc') \/ Relocates(tc, tc'))  BY <1>3, UpdateStep
  <2>2. ASSUME Whereabouts(tc), MaxMoves <= 1, Relocates(tc, tc') PROVE Whereabouts(tc')
    <3>1. PICK R \in TcRec, d \in Dirs : /\ SameFiles(tc, R) /\ SameControl(tc, R) /\ MoveRoom(R)
                                        /\ tc' = ChangeOutputDir(R, d)
      BY <2>2 DEF Relocates
    <3>2. Controlled(R)  BY <3>1, ControlKept DEF TcInv
    <3>3. Undisturbed(tc, R)  BY <3>1 DEF Undisturbed, SameControl
    <3>4. Whereabouts(R)  BY <2>2, <3>3, UndisturbedWhere DEF TcInv
    <3>5. Moves(R) = {}  BY <2>2, <3>1, NoOtherMove
    <3>6. QED  BY <3>1, <3>2, <3>4, <3>5, ChangeDirWhere
  <2>3. QED  BY <2>1, <2>2, UndisturbedWhere DEF TcInv
<1>4. CASE CheckEnds \/ PreallocEnds
  BY <1>4, QuietJobSteps, UndisturbedWhere DEF TcInv
<1>5. CASE UserChangesOutputDir \/ MoveTorrentFiles  BY <1>5, MoveAskedSteps
<1>6. CASE FileMoved  BY <1>6, FileMovedStep
<1>7. CASE FileMoveFails  BY <1>7, MoveFailsStep
<1>8. CASE UNCHANGED tcVars
  BY <1>8 DEF tcVars, TcInv
<1>9. QED  BY <1>1, <1>2, <1>3, <1>4, <1>5, <1>6, <1>7, <1>8 DEF TcNext

\* The inductive invariant of the control calls and the queue of jobs: who paused
\* a torrent is remembered until it goes on (JobQueue::restart, TorrentControl).
THEOREM TorrentControlled == TcSpec => []TcInv
<1>1. TcInv /\ [TcNext]_tcVars => TcInv'  BY TcStep
<1>2. QED  BY TcInitInv, <1>1, PTL DEF TcSpec

\* A job that needs the torrent quiet has the cache closed, and a torrent is not
\* left paused when the last of its jobs has ended, for every length of the queue
\* and every order of the user's calls and the ends of jobs.
THEOREM JobsRestartTorrent == TcSpec => []NotLeftPaused
<1>1. TcInv => NotLeftPaused
  <2> SUFFICES ASSUME TcInv PROVE NotLeftPaused
    OBVIOUS
  <2>1. TcTypeOK
    <3>1. \A b \in {"running", "paused", "completed", "all", "prealloc", "saved", "io_error", "pman",
                    "psman", "cman", "dl", "restart", "asked"} : tc[b] \in BOOLEAN
      BY DEF TcInv, TcRec
    <3>2. tc.known \in [DataFiles -> Dirs] /\ tc.loc \in [DataFiles -> Dirs] /\ tc.path \in Dirs
      BY DEF TcInv, TcRec
    <3>3. ASSUME NEW i \in DOMAIN tc.jobs PROVE tc.jobs[i].kind \in Quiet \cup {"prealloc"}
      <4>1. tc.jobs \in Seq(JobRec)  BY DEF TcInv, TcRec
      <4>2. tc.jobs[i] \in JobRec  BY <4>1, LenProperties, ElementOfSeq
      <4>3. QED  BY <4>2 DEF JobRec, JobKinds, Quiet
    <3>4. QED  BY <3>1, <3>2, <3>3 DEF TcTypeOK
  <2>2. QED  BY <2>1 DEF NotLeftPaused, TcInv, Controlled, Accounted
<1>2. QED  BY TorrentControlled, <1>1, PTL

\* While at most one move is in the queue at a time, every file is where the
\* torrent looks for it when no move is under way, also after moves that failed
\* half way (MoveDataFilesJob::recover, TorrentControl::moveDataFilesFinished).
THEOREM FilesAreFound ==
  ASSUME MaxMoves <= 1
  PROVE  TcSpec => []DataFollowsPath
<1>1. TcInit => FilesInv
  <2> SUFFICES ASSUME TcInit PROVE FilesInv
    OBVIOUS
  <2>1. TcInv /\ tc.jobs = <<>> /\ tc.loc = tc.known  BY TcInitInv
  <2>2. Moves(tc) = {}  BY <2>1 DEF Moves
  <2>3. QED  BY <2>1, <2>2 DEF FilesInv, Whereabouts
<1>2. FilesInv /\ [TcNext]_tcVars => FilesInv'
  <2> SUFFICES ASSUME FilesInv, [TcNext]_tcVars PROVE FilesInv'
    OBVIOUS
  <2>1. TcInv' /\ Whereabouts(tc')  BY TcStep DEF FilesInv
  <2>2. QED  BY <2>1 DEF FilesInv, Whereabouts, Moves, Tracked
<1>3. FilesInv => DataFollowsPath  BY DEF FilesInv, Whereabouts, DataFollowsPath
<1>4. QED  BY <1>1, <1>2, <1>3, PTL DEF TcSpec

(***************************************************************************)
(* The ports forwarded on a router.                                        *)
(***************************************************************************)
ReqRec == [id : ReqIds, kind : {"add", "delete", "ip"}, port : Ports \cup {"none"},
           srv : Services \cup {"none"}]
RouterRec == [st : {"none", "pending", "listed", "failed"}, loc : Locations \cup {"none"},
              wan : SUBSET Services, fwds : Seq(Fwds), reqs : SUBSET ReqRec,
              error : BOOLEAN, ip : BOOLEAN, asked : [Ports \X Services -> 0 .. Done]]

\* What `asked' says of a forwarding.
Stand(f) == IF f.req = 0 THEN Done ELSE f.req

\* A forwarding is the one asked for last, and waits for a request of its own
\* that is under way; what was asked for is there; nothing is there twice.
Settled(R) == \A i \in DOMAIN R.fwds :
                 /\ R.asked[<<R.fwds[i].port, R.fwds[i].srv>>] = Stand(R.fwds[i])
                 /\ R.fwds[i].req # 0 =>
                      Query(R.fwds[i].req, "add", R.fwds[i].port, R.fwds[i].srv) \in R.reqs
Present(R) == \A port \in Ports, srv \in Services : R.asked[<<port, srv>>] # 0 =>
                 \E i \in DOMAIN R.fwds : Same(R.fwds[i], port, srv)
OwnIds(R) == \A x, y \in R.reqs : x.id = y.id => x = y

RouterOK(R) == /\ R \in RouterRec /\ Settled(R) /\ Present(R) /\ Once(R.fwds) /\ OwnIds(R)
               /\ R.st # "listed" => R.fwds = <<>> /\ R.reqs = {}

\* The WaitJob has requests to delete a forwarding only, and a location has one
\* router.
UnInv ==
    /\ igd \in [Routers -> RouterRec] /\ \A r \in Routers : RouterOK(igd[r])
    /\ wait \in [on : BOOLEAN, ops : SUBSET (Routers \X ReqRec)]
    /\ \A op \in wait.ops : op[2].kind = "delete"
    /\ \A r, s \in Listed : igd[r].loc = igd[s].loc => r = s

LEMMA UnNumbers == /\ MaxRequests \in Nat \ {0} /\ ReqIds = 1 .. MaxRequests
                   /\ Done = MaxRequests + 1 /\ IsFiniteSet(Services)
BY UnAssumption DEF ReqIds, Done

LEMMA NewReqsFacts ==
  ASSUME NEW R, NEW X, CanSend(R, X)
  PROVE  /\ \A x \in X : NewReqs(R, X)[x] \in ReqIds /\ \A q \in R.reqs : q.id # NewReqs(R, X)[x]
         /\ \A x, y \in X : NewReqs(R, X)[x] = NewReqs(R, X)[y] => x = y
<1> DEFINE id == NewReqs(R, X)
<1>1. id \in Injection(X, FreeReqs(R))  BY Zenon DEF CanSend, ExistsInjection, NewReqs
<1> HIDE DEF id
<1>2. id \in [X -> FreeReqs(R)] /\ \A x, y \in X : id[x] = id[y] => x = y
  BY <1>1 DEF Injection, IsInjective
<1>3. \A x \in X : id[x] \in FreeReqs(R)  BY <1>2
<1>4. \A x \in X : id[x] \in ReqIds /\ \A q \in R.reqs : q.id # id[x]  BY <1>3 DEF FreeReqs
<1>5. QED  BY <1>2, <1>4 DEF id

\* Two forwardings of the same port and service are one.
LEMMA OneEach ==
  ASSUME NEW R, RouterOK(R), NEW i \in DOMAIN R.fwds, NEW j \in DOMAIN R.fwds,
         R.fwds[i].port = R.fwds[j].port, R.fwds[i].srv = R.fwds[j].srv
  PROVE  i = j
<1> DEFINE f == R.fwds[i]
           g == R.fwds[j]
<1>1. f \in Fwds /\ g \in Fwds  BY ElementOfSeq DEF RouterOK, RouterRec
<1>2. Stand(f) = Stand(g)  BY DEF RouterOK, Settled
<1> HIDE DEF f, g
<1>3. f.req = g.req  BY <1>1, <1>2, UnNumbers DEF Stand, Fwds
<1>4. f = g  BY <1>1, <1>3 DEF Fwds, f, g
<1>5. QED  BY <1>4 DEF RouterOK, Once, f, g

LEMMA RouterFacts ==
  ASSUME NEW R, RouterOK(R)
  PROVE  /\ R \in RouterRec /\ R.wan \subseteq Services /\ R.fwds \in Seq(Fwds) /\ R.reqs \subseteq ReqRec
         /\ R.asked \in [Ports \X Services -> 0 .. Done]
         /\ \A i \in DOMAIN R.fwds : R.fwds[i] \in Fwds /\ Stand(R.fwds[i]) # 0
         /\ Settled(R) /\ Present(R) /\ Once(R.fwds) /\ OwnIds(R)
<1>1. R \in RouterRec  BY DEF RouterOK
<1>2. R.fwds \in Seq(Fwds)  BY <1>1 DEF RouterRec
<1>3. ASSUME NEW i \in DOMAIN R.fwds PROVE R.fwds[i] \in Fwds /\ Stand(R.fwds[i]) # 0
  <2>1. R.fwds[i] \in Fwds  BY <1>2
  <2>2. QED  BY <2>1, UnNumbers DEF Stand
<1>4. QED  BY <1>1, <1>2, <1>3 DEF RouterRec, RouterOK

LEMMA FwdsLeft ==
  ASSUME NEW R, RouterOK(R), NEW K
  PROVE  /\ Only(R.fwds, K) \in Seq(Fwds) /\ Once(Only(R.fwds, K))
         /\ \A i \in DOMAIN Only(R.fwds, K) :
               /\ Only(R.fwds, K)[i] \in K /\ Only(R.fwds, K)[i] \in Fwds
               /\ \E j \in DOMAIN R.fwds : R.fwds[j] = Only(R.fwds, K)[i]
         /\ \A j \in DOMAIN R.fwds :
               R.fwds[j] \in K => \E i \in DOMAIN Only(R.fwds, K) : Only(R.fwds, K)[i] = R.fwds[j]
<1> DEFINE s == R.fwds
<1>1. s \in Seq(Fwds) /\ Once(s) /\ \A j \in DOMAIN s : s[j] \in Fwds  BY RouterFacts
<1> HIDE DEF s
<1>2. /\ Only(s, K) \in Seq(Fwds) /\ Once(Only(s, K))
      /\ \A i \in DOMAIN Only(s, K) :
            Only(s, K)[i] \in K /\ \E j \in DOMAIN s : s[j] = Only(s, K)[i]
      /\ \A j \in DOMAIN s : s[j] \in K => \E i \in DOMAIN Only(s, K) : Only(s, K)[i] = s[j]
  BY <1>1, OnlyOnce
<1>3. QED  BY <1>1, <1>2 DEF s

\* UPnPRouter::undoForward.
LEMMA UndoFacts ==
  ASSUME NEW R, RouterOK(R), R.st = "listed", NEW port \in Ports,
         CanSend(R, {i \in DOMAIN R.fwds : R.fwds[i].port = port})
  PROVE  /\ RouterOK(UndoForwardOn(R, port))
         /\ UndoForwardOn(R, port).st = R.st /\ UndoForwardOn(R, port).loc = R.loc
         /\ \A q \in UndoForwardOn(R, port).reqs \ R.reqs : q.kind = "delete"
<1> DEFINE mine == {i \in DOMAIN R.fwds : R.fwds[i].port = port}
           id == NewReqs(R, mine)
           K == {f \in Fwds : f.port # port}
           left == Only(R.fwds, K)
           new == {Query(id[i], "delete", port, R.fwds[i].srv) : i \in mine}
           asked == [ps \in Ports \X Services |->
                        IF ps[1] = port /\ \E i \in mine : R.fwds[i].srv = ps[2]
                        THEN 0 ELSE R.asked[ps]]
           S == UndoForwardOn(R, port)
<1>1. S = [R EXCEPT !.reqs = R.reqs \cup new, !.fwds = left, !.asked = asked]
  BY DEF UndoForwardOn
<1>2. /\ \A i \in mine : id[i] \in ReqIds /\ \A q \in R.reqs : q.id # id[i]
      /\ \A i, j \in mine : id[i] = id[j] => i = j
  BY NewReqsFacts
<1>3. \A f : f \in K <=> f \in Fwds /\ f.port # port  OBVIOUS
<1> HIDE DEF K
<1>4. /\ left \in Seq(Fwds) /\ Once(left)
      /\ \A i \in DOMAIN left : left[i] \in K /\ \E j \in DOMAIN R.fwds : R.fwds[j] = left[i]
      /\ \A j \in DOMAIN R.fwds : R.fwds[j] \in K => \E i \in DOMAIN left : left[i] = R.fwds[j]
  BY FwdsLeft
<1>5. \A i \in mine : i \in DOMAIN R.fwds /\ R.fwds[i] \in Fwds /\ R.fwds[i].port = port
  BY RouterFacts
<1>6. \A x : x \in new <=> \E i \in mine : x = Query(id[i], "delete", port, R.fwds[i].srv)
  OBVIOUS
<1>7. \A ps \in Ports \X Services : asked[ps] = IF ps[1] = port /\ \E i \in mine : R.fwds[i].srv = ps[2]
                                                THEN 0 ELSE R.asked[ps]
  OBVIOUS
<1>8. \A i \in DOMAIN R.fwds : R.fwds[i].port = port => i \in mine  OBVIOUS
<1>9. asked \in [Ports \X Services -> 0 .. Done]
  <2>1. 0 \in 0 .. Done  BY UnNumbers
  <2>2. \A ps \in Ports \X Services : R.asked[ps] \in 0 .. Done  BY RouterFacts
  <2>3. QED  BY <2>1, <2>2
<1> HIDE DEF mine, id, K, left, new, asked, S
<1>10. \A x \in new : x \in ReqRec /\ x.kind = "delete" /\ \E i \in mine : x.id = id[i]
  BY <1>2, <1>5, <1>6 DEF Query, ReqRec, Fwds
<1>11. R \in RouterRec /\ R.reqs \cup new \in SUBSET ReqRec  BY <1>10, RouterFacts
<1>12. /\ S \in RouterRec /\ S.reqs = R.reqs \cup new /\ S.fwds = left /\ S.asked = asked
       /\ S.st = R.st /\ S.loc = R.loc
  BY <1>1, <1>4, <1>9, <1>11 DEF RouterRec
<1>13. Settled(S)
  <2> SUFFICES ASSUME NEW i \in DOMAIN left
               PROVE  /\ asked[<<left[i].port, left[i].srv>>] = Stand(left[i])
                      /\ left[i].req # 0 =>
                           Query(left[i].req, "add", left[i].port, left[i].srv) \in R.reqs \cup new
    BY <1>12 DEF Settled
  <2>1. PICK j \in DOMAIN R.fwds : R.fwds[j] = left[i]  BY <1>4
  <2>2. left[i] \in Fwds /\ left[i].port # port  BY <1>4, <1>3
  <2>3. <<left[i].port, left[i].srv>> \in Ports \X Services  BY <2>2 DEF Fwds
  <2>4. asked[<<left[i].port, left[i].srv>>] = R.asked[<<left[i].port, left[i].srv>>]
    BY <1>7, <2>2, <2>3
  <2>5. QED  BY <2>1, <2>4, RouterFacts DEF Settled
<1>14. Present(S)
  <2> SUFFICES ASSUME NEW p \in Ports, NEW v \in Services, asked[<<p, v>>] # 0
               PROVE  \E i \in DOMAIN left : Same(left[i], p, v)
    BY <1>12 DEF Present
  <2>1. <<p, v>> \in Ports \X Services  OBVIOUS
  <2>2. asked[<<p, v>>] = R.asked[<<p, v>>] /\ ~(p = port /\ \E i \in mine : R.fwds[i].srv = v)
    BY <1>7, <2>1
  <2>3. PICK j \in DOMAIN R.fwds : Same(R.fwds[j], p, v)  BY <2>2, RouterFacts DEF Present
  <2>4. R.fwds[j] \in K  BY <1>3, <1>8, <2>2, <2>3, RouterFacts DEF Same
  <2>5. QED  BY <1>4, <2>3, <2>4
<1>15. OwnIds(S)
  <2> SUFFICES ASSUME NEW x \in R.reqs \cup new, NEW y \in R.reqs \cup new, x.id = y.id
               PROVE  x = y
    BY <1>12 DEF OwnIds
  <2>1. CASE x \in R.reqs /\ y \in R.reqs  BY <2>1, RouterFacts DEF OwnIds
  <2>2. CASE x \in R.reqs /\ y \in new  BY <2>2, <1>2, <1>10
  <2>3. CASE x \in new /\ y \in R.reqs  BY <2>3, <1>2, <1>10
  <2>4. CASE x \in new /\ y \in new
    <3>1. PICK i \in mine : x = Query(id[i], "delete", port, R.fwds[i].srv)  BY <2>4, <1>6
    <3>2. PICK j \in mine : y = Query(id[j], "delete", port, R.fwds[j].srv)  BY <2>4, <1>6
    <3>3. id[i] = id[j]  BY <3>1, <3>2 DEF Query
    <3>4. QED  BY <1>2, <3>1, <3>2, <3>3
  <2>5. QED  BY <2>1, <2>2, <2>3, <2>4
<1>16. RouterOK(S)  BY <1>4, <1>12, <1>13, <1>14, <1>15 DEF RouterOK
<1>17. \A q \in S.reqs \ R.reqs : q.kind = "delete"  BY <1>10, <1>12
<1>18. QED  BY <1>12, <1>16, <1>17 DEF S

\* UPnPRouter::forward.
LEMMA ForwardFacts ==
  ASSUME NEW R, RouterOK(R), R.st = "listed", NEW port \in Ports, CanSend(R, R.wan)
  PROVE  /\ RouterOK(ForwardOn(R, port))
         /\ ForwardOn(R, port).st = R.st /\ ForwardOn(R, port).loc = R.loc
<1> DEFINE W == R.wan
           n == Cardinality(W)
           id == NewReqs(R, W)
           order == CHOOSE o \in Bijection(1 .. n, W) : TRUE
           K == {f \in Fwds : f.port # port \/ f.srv \notin W}
           left == Only(R.fwds, K)
           new == [i \in DOMAIN order |-> [port |-> port, srv |-> order[i], req |-> id[order[i]]]]
           sent == {Query(id[srv], "add", port, srv) : srv \in W}
           asked == [ps \in Ports \X Services |->
                        IF ps[1] = port /\ ps[2] \in W THEN id[ps[2]] ELSE R.asked[ps]]
           S == ForwardOn(R, port)
<1>1. S = [R EXCEPT !.reqs = R.reqs \cup sent, !.fwds = left \o new, !.asked = asked,
                    !.error = (W = {})]
  BY DEF ForwardOn
<1>2. /\ \A v \in W : id[v] \in ReqIds /\ \A q \in R.reqs : q.id # id[v]
      /\ \A v, w \in W : id[v] = id[w] => v = w
  BY NewReqsFacts
<1>3. \A f : f \in K <=> f \in Fwds /\ (f.port # port \/ f.srv \notin W)  OBVIOUS
<1> HIDE DEF K
<1>4. /\ left \in Seq(Fwds) /\ Once(left)
      /\ \A i \in DOMAIN left :
            /\ left[i] \in K /\ left[i] \in Fwds /\ \E j \in DOMAIN R.fwds : R.fwds[j] = left[i]
      /\ \A j \in DOMAIN R.fwds : R.fwds[j] \in K => \E i \in DOMAIN left : left[i] = R.fwds[j]
  BY FwdsLeft
<1>5. W \subseteq Services /\ IsFiniteSet(W) /\ n \in Nat
  <2>1. W \subseteq Services  BY RouterFacts
  <2>2. IsFiniteSet(W)  BY <2>1, UnNumbers, FS_Subset
  <2>3. QED  BY <2>1, <2>2, FS_CardinalityType
<1>6. /\ DOMAIN order = 1 .. n /\ \A i \in 1 .. n : order[i] \in W
      /\ \A i, j \in 1 .. n : order[i] = order[j] => i = j
      /\ \A v \in W : \E i \in 1 .. n : order[i] = v
  <2>1. ExistsBijection(1 .. n, W)  BY <1>5, FS_CardinalityType
  <2>2. order \in Bijection(1 .. n, W)  BY <2>1, Zenon DEF ExistsBijection
  <2> HIDE DEF order
  <2>3. QED  BY <2>2 DEF Bijection, Injection, Surjection, IsInjective
<1>7. \A x : x \in sent <=> \E v \in W : x = Query(id[v], "add", port, v)  OBVIOUS
<1>8. \A ps \in Ports \X Services : asked[ps] = IF ps[1] = port /\ ps[2] \in W THEN id[ps[2]]
                                                ELSE R.asked[ps]
  OBVIOUS
<1>9. asked \in [Ports \X Services -> 0 .. Done]
  <2>1. \A v \in W : id[v] \in 0 .. Done  BY <1>2, UnNumbers
  <2>2. \A ps \in Ports \X Services : R.asked[ps] \in 0 .. Done  BY RouterFacts
  <2>3. QED  BY <2>1, <2>2
<1>10. /\ DOMAIN new = 1 .. n
       /\ \A i \in 1 .. n : new[i] = [port |-> port, srv |-> order[i], req |-> id[order[i]]]
  BY <1>6
<1> HIDE DEF W, n, id, order, K, left, new, sent, asked, S
<1>11. /\ \A i \in 1 .. n : /\ new[i] \in Fwds /\ new[i].port = port /\ new[i].srv = order[i]
                            /\ new[i].req = id[order[i]] /\ new[i].req # 0
  BY <1>2, <1>5, <1>6, <1>10, UnNumbers DEF Fwds
<1>12. new \in Seq(Fwds) /\ Len(new) = n
  <2>1. new = [i \in 1 .. n |-> new[i]]  BY <1>10 DEF new
  <2>2. new \in [1 .. n -> Fwds]  BY <2>1, <1>10, <1>11
  <2>3. QED  BY <2>2, <1>5, SeqDef, LenProperties
<1> DEFINE all == left \o new
           m == Len(left)
<1>13. /\ all \in Seq(Fwds) /\ m \in Nat /\ DOMAIN left = 1 .. m /\ DOMAIN all = 1 .. m + n
       /\ \A i \in 1 .. m : all[i] = left[i]
       /\ \A i \in 1 .. n : all[m + i] = new[i]
  <2>1. /\ left \o new \in Seq(Fwds) /\ Len(left \o new) = Len(left) + Len(new)
        /\ \A i \in 1 .. Len(left) + Len(new) :
              (left \o new)[i] = IF i <= Len(left) THEN left[i] ELSE new[i - Len(left)]
    BY <1>4, <1>12, ConcatProperties
  <2>2. m \in Nat /\ DOMAIN left = 1 .. m  BY <1>4, LenProperties
  <2>3. all \in Seq(Fwds) /\ Len(all) = m + n  BY <2>1, <1>12
  <2>4. DOMAIN all = 1 .. m + n  BY <2>3, LenProperties
  <2>5. \A i \in 1 .. m + n : all[i] = IF i <= m THEN left[i] ELSE new[i - m]  BY <2>1, <1>12
  <2> HIDE DEF all, m
  <2>6. \A i \in 1 .. m : i \in 1 .. m + n /\ i <= m  BY <2>2, <1>5
  <2>7. \A i \in 1 .. n : m + i \in 1 .. m + n /\ ~(m + i <= m) /\ (m + i) - m = i  BY <2>2, <1>5
  <2>8. \A i \in 1 .. n : all[m + i] = new[(m + i) - m]  BY <2>5, <2>7
  <2>9. QED  BY <2>2, <2>3, <2>4, <2>5, <2>6, <2>7, <2>8
<1> HIDE DEF all, m
<1>14. \A i \in DOMAIN all : \/ i \in DOMAIN left /\ all[i] = left[i]
                             \/ i - m \in 1 .. n /\ all[i] = new[i - m]
  <2> SUFFICES ASSUME NEW i \in 1 .. m + n
               PROVE  \/ i \in 1 .. m /\ all[i] = left[i]
                      \/ i - m \in 1 .. n /\ all[i] = new[i - m]
    BY <1>13
  <2>1. CASE i <= m  BY <2>1, <1>13
  <2>2. CASE i > m
    <3>1. i - m \in 1 .. n /\ m + (i - m) = i  BY <2>2, <1>5, <1>13
    <3>2. QED  BY <3>1, <1>13
  <2>3. QED  BY <2>1, <2>2, <1>13
<1>15. \A i \in 1 .. m : i \in DOMAIN all  BY <1>13, <1>5
<1>16. \A i \in 1 .. n : m + i \in DOMAIN all  BY <1>13, <1>5
<1>17. \A x \in sent : x \in ReqRec /\ \E v \in W : x.id = id[v]
  BY <1>2, <1>5, <1>7 DEF Query, ReqRec
<1>18. R \in RouterRec /\ R.reqs \cup sent \in SUBSET ReqRec  BY <1>17, RouterFacts
<1>19. /\ S \in RouterRec /\ S.reqs = R.reqs \cup sent /\ S.fwds = all /\ S.asked = asked
       /\ S.st = R.st /\ S.loc = R.loc
  <2>1. S = [R EXCEPT !.reqs = R.reqs \cup sent, !.fwds = all, !.asked = asked, !.error = (W = {})]
    BY <1>1 DEF all
  <2>2. (W = {}) \in BOOLEAN  OBVIOUS
  <2>3. QED  BY <2>1, <2>2, <1>9, <1>13, <1>18 DEF RouterRec
<1>20. Settled(S)
  <2> SUFFICES ASSUME NEW i \in DOMAIN all
               PROVE  /\ asked[<<all[i].port, all[i].srv>>] = Stand(all[i])
                      /\ all[i].req # 0 =>
                           Query(all[i].req, "add", all[i].port, all[i].srv) \in R.reqs \cup sent
    BY <1>19 DEF Settled
  <2>1. CASE i \in DOMAIN left /\ all[i] = left[i]
    <3>1. PICK j \in DOMAIN R.fwds : R.fwds[j] = left[i]  BY <1>4, <2>1
    <3>2. left[i] \in Fwds /\ (left[i].port # port \/ left[i].srv \notin W)  BY <1>4, <1>3, <2>1
    <3>3. <<left[i].port, left[i].srv>> \in Ports \X Services  BY <3>2 DEF Fwds
    <3>4. asked[<<left[i].port, left[i].srv>>] = R.asked[<<left[i].port, left[i].srv>>]
      BY <1>8, <3>2, <3>3
    <3>5. QED  BY <2>1, <3>1, <3>4, RouterFacts DEF Settled
  <2>2. CASE i - m \in 1 .. n /\ all[i] = new[i - m]
    <3> DEFINE v == order[i - m]
    <3>1. v \in W /\ v \in Services  BY <1>5, <1>6, <2>2
    <3>2. all[i].port = port /\ all[i].srv = v /\ all[i].req = id[v] /\ all[i].req # 0
      BY <1>11, <2>2
    <3>3. <<port, v>> \in Ports \X Services  BY <3>1
    <3>4. asked[<<port, v>>] = id[v]  BY <1>8, <3>1, <3>3
    <3>5. Query(id[v], "add", port, v) \in sent  BY <1>7, <3>1
    <3>6. QED  BY <3>2, <3>4, <3>5 DEF Stand
  <2>3. QED  BY <2>1, <2>2, <1>14
<1>21. Present(S)
  <2> SUFFICES ASSUME NEW p \in Ports, NEW v \in Services, asked[<<p, v>>] # 0
               PROVE  \E i \in DOMAIN all : Same(all[i], p, v)
    BY <1>19 DEF Present
  <2>1. <<p, v>> \in Ports \X Services  OBVIOUS
  <2>2. CASE p = port /\ v \in W
    <3>1. PICK i \in 1 .. n : order[i] = v  BY <2>2, <1>6
    <3>2. all[m + i] = new[i] /\ m + i \in DOMAIN all  BY <1>13, <1>16
    <3>3. QED  BY <1>11, <2>2, <3>1, <3>2 DEF Same
  <2>3. CASE ~(p = port /\ v \in W)
    <3>1. R.asked[<<p, v>>] # 0  BY <1>8, <2>1, <2>3
    <3>2. PICK j \in DOMAIN R.fwds : Same(R.fwds[j], p, v)  BY <3>1, RouterFacts DEF Present
    <3>3. R.fwds[j] \in K  BY <1>3, <2>3, <3>2, RouterFacts DEF Same
    <3>4. PICK i \in DOMAIN left : left[i] = R.fwds[j]  BY <1>4, <3>3
    <3>5. i \in DOMAIN all /\ all[i] = left[i]  BY <1>13, <1>15
    <3>6. QED  BY <3>2, <3>4, <3>5
  <2>4. QED  BY <2>2, <2>3
<1>22. Once(all)
  <2> SUFFICES ASSUME NEW i \in DOMAIN all, NEW j \in DOMAIN all, all[i] = all[j] PROVE i = j
    BY DEF Once
  <2>1. CASE i \in DOMAIN left /\ all[i] = left[i] /\ j \in DOMAIN left /\ all[j] = left[j]
    BY <2>1, <1>4 DEF Once
  <2>2. \A k \in DOMAIN left, l \in 1 .. n : left[k] # new[l]  BY <1>4, <1>6, <1>3, <1>11
  <2>3. CASE i - m \in 1 .. n /\ all[i] = new[i - m] /\ j - m \in 1 .. n /\ all[j] = new[j - m]
    <3>1. order[i - m] = order[j - m]  BY <2>3, <1>11
    <3>2. i - m = j - m  BY <3>1, <2>3, <1>6
    <3>3. i \in Nat /\ j \in Nat  BY <1>5, <1>13
    <3>4. QED  BY <3>2, <3>3, <1>13
  <2>4. QED  BY <2>1, <2>2, <2>3, <1>14
<1>23. OwnIds(S)
  <2> SUFFICES ASSUME NEW x \in R.reqs \cup sent, NEW y \in R.reqs \cup sent, x.id = y.id
               PROVE  x = y
    BY <1>19 DEF OwnIds
  <2>1. CASE x \in R.reqs /\ y \in R.reqs  BY <2>1, RouterFacts DEF OwnIds
  <2>2. CASE x \in R.reqs /\ y \in sent  BY <2>2, <1>2, <1>17
  <2>3. CASE x \in sent /\ y \in R.reqs  BY <2>3, <1>2, <1>17
  <2>4. CASE x \in sent /\ y \in sent
    <3>1. PICK v \in W : x = Query(id[v], "add", port, v)  BY <2>4, <1>7
    <3>2. PICK w \in W : y = Query(id[w], "add", port, w)  BY <2>4, <1>7
    <3>3. id[v] = id[w]  BY <3>1, <3>2 DEF Query
    <3>4. QED  BY <1>2, <3>1, <3>2, <3>3
  <2>5. QED  BY <2>1, <2>2, <2>3, <2>4
<1>24. RouterOK(S)  BY <1>19, <1>20, <1>21, <1>22, <1>23 DEF RouterOK
<1>25. QED  BY <1>19, <1>24 DEF S

\* UPnPRouterPrivate::httpRequestDone, and what becomes of `asked'.
LEMMA ForwardResultFacts ==
  ASSUME NEW R, RouterOK(R), R.st = "listed", NEW q \in R.reqs, NEW ok \in BOOLEAN
  PROVE  /\ RouterOK(ForwardResult(R, q, ok))
         /\ ForwardResult(R, q, ok).st = R.st /\ ForwardResult(R, q, ok).loc = R.loc
<1> DEFINE K == {f \in Fwds : f.req # q.id}
           kept == IF ok THEN R.fwds ELSE Only(R.fwds, K)
           fw == [i \in DOMAIN kept |-> IF kept[i].req = q.id THEN [kept[i] EXCEPT !.req = 0]
                                        ELSE kept[i]]
           asked == Answered(R.asked, q, ok)
           err == R.error \/ (~ok /\ fw = <<>>)
           S == ForwardResult(R, q, ok)
<1>1. q \in ReqRec /\ q.id \in 1 .. MaxRequests
  <2>1. q \in ReqRec  BY RouterFacts
  <2>2. QED  BY <2>1, UnNumbers DEF ReqRec
<1>2. \A f : f \in K <=> f \in Fwds /\ f.req # q.id  OBVIOUS
<1> HIDE DEF K
<1>3. /\ kept \in Seq(Fwds) /\ Once(kept)
      /\ \A i \in DOMAIN kept : /\ kept[i] \in Fwds /\ (ok \/ kept[i].req # q.id)
                                /\ \E j \in DOMAIN R.fwds : R.fwds[j] = kept[i]
      /\ \A j \in DOMAIN R.fwds :
            ok \/ R.fwds[j].req # q.id => \E i \in DOMAIN kept : kept[i] = R.fwds[j]
  <2>1. CASE ok
    <3>1. kept = R.fwds  BY <2>1
    <3> HIDE DEF kept
    <3>2. QED  BY <2>1, <3>1, RouterFacts
  <2>2. CASE ~ok
    <3>1. kept = Only(R.fwds, K)  BY <2>2
    <3>2. /\ Only(R.fwds, K) \in Seq(Fwds) /\ Once(Only(R.fwds, K))
          /\ \A i \in DOMAIN Only(R.fwds, K) :
                /\ Only(R.fwds, K)[i] \in K /\ Only(R.fwds, K)[i] \in Fwds
                /\ \E j \in DOMAIN R.fwds : R.fwds[j] = Only(R.fwds, K)[i]
          /\ \A j \in DOMAIN R.fwds :
                R.fwds[j] \in K => \E i \in DOMAIN Only(R.fwds, K) : Only(R.fwds, K)[i] = R.fwds[j]
      BY FwdsLeft
    <3>3. \A j \in DOMAIN R.fwds : R.fwds[j] \in Fwds  BY RouterFacts
    <3> HIDE DEF kept
    <3>4. QED  BY <2>2, <3>1, <3>2, <3>3, <1>2
  <2>3. QED  BY <2>1, <2>2
<1>4. /\ DOMAIN fw = DOMAIN kept
      /\ \A i \in DOMAIN kept : fw[i] = IF kept[i].req = q.id THEN [kept[i] EXCEPT !.req = 0]
                                        ELSE kept[i]
  OBVIOUS
<1>5. HttpRequestDone(R, q, ok) = [R EXCEPT !.reqs = R.reqs \ {q}, !.fwds = fw]
  BY Zenon DEF HttpRequestDone, K
<1>6. R \in RouterRec  BY RouterFacts
<1> HIDE DEF kept, fw, asked, err, S
<1>7. \A i \in DOMAIN kept : /\ fw[i] \in Fwds /\ fw[i].port = kept[i].port /\ fw[i].srv = kept[i].srv
                             /\ fw[i].req = IF kept[i].req = q.id THEN 0 ELSE kept[i].req
  BY <1>3, <1>4, UnNumbers DEF Fwds
<1>8. fw \in Seq(Fwds)
  <2>1. DOMAIN kept = 1 .. Len(kept) /\ Len(kept) \in Nat  BY <1>3, LenProperties
  <2>2. fw = [i \in 1 .. Len(kept) |-> fw[i]]  BY <1>4, <2>1 DEF fw
  <2>3. fw \in [1 .. Len(kept) -> Fwds]  BY <2>1, <2>2, <1>7
  <2>4. QED  BY <2>1, <2>3, SeqDef
<1>9. S = [R EXCEPT !.reqs = R.reqs \ {q}, !.fwds = fw, !.error = err, !.asked = asked]
  <2> DEFINE T == HttpRequestDone(R, q, ok)
  <2>1. S = [T EXCEPT !.error = T.error \/ (~ok /\ T.fwds = <<>>), !.asked = Answered(T.asked, q, ok)]
    BY DEF S, ForwardResult
  <2>2. T = [R EXCEPT !.reqs = R.reqs \ {q}, !.fwds = fw]  BY <1>5
  <2> HIDE DEF T
  <2>3. T.error = R.error /\ T.fwds = fw /\ T.asked = R.asked  BY <2>2, <1>6 DEF RouterRec
  <2>4. S = [T EXCEPT !.error = err, !.asked = asked]  BY <2>1, <2>3 DEF err, asked
  <2>5. QED  BY <2>2, <2>4, <1>6 DEF RouterRec
<1>10. /\ asked \in [Ports \X Services -> 0 .. Done]
       /\ \A ps \in Ports \X Services :
             asked[ps] = IF R.asked[ps] # q.id THEN R.asked[ps] ELSE IF ok THEN Done ELSE 0
  <2>1. R.asked \in [Ports \X Services -> 0 .. Done]  BY RouterFacts
  <2>2. asked = [ps \in Ports \X Services |->
                    IF R.asked[ps] # q.id THEN R.asked[ps] ELSE IF ok THEN Done ELSE 0]
    BY <2>1 DEF asked, Answered
  <2>3. Done \in 0 .. Done /\ 0 \in 0 .. Done  BY UnNumbers
  <2>4. QED  BY <2>1, <2>2, <2>3
<1>11. err \in BOOLEAN  BY DEF err
<1>12. /\ S \in RouterRec /\ S.reqs = R.reqs \ {q} /\ S.fwds = fw /\ S.asked = asked
       /\ S.st = R.st /\ S.loc = R.loc
  BY <1>6, <1>8, <1>9, <1>10, <1>11 DEF RouterRec
<1>13. Settled(S)
  <2> SUFFICES ASSUME NEW i \in DOMAIN kept
               PROVE  /\ asked[<<fw[i].port, fw[i].srv>>] = Stand(fw[i])
                      /\ fw[i].req # 0 =>
                           Query(fw[i].req, "add", fw[i].port, fw[i].srv) \in R.reqs \ {q}
    BY <1>4, <1>12 DEF Settled
  <2>1. PICK j \in DOMAIN R.fwds : R.fwds[j] = kept[i]  BY <1>3
  <2> DEFINE f == kept[i]
             key == <<f.port, f.srv>>
  <2>2. f \in Fwds /\ (ok \/ f.req # q.id)  BY <1>3
  <2>3. R.asked[key] = Stand(f) /\ (f.req # 0 => Query(f.req, "add", f.port, f.srv) \in R.reqs)
    BY <2>1, RouterFacts DEF Settled
  <2>4. /\ fw[i].port = f.port /\ fw[i].srv = f.srv
        /\ fw[i].req = IF f.req = q.id THEN 0 ELSE f.req
    BY <1>7
  <2>5. key \in Ports \X Services /\ f.req \in 0 .. MaxRequests  BY <2>2 DEF Fwds
  <2>6. asked[key] = IF R.asked[key] # q.id THEN R.asked[key] ELSE IF ok THEN Done ELSE 0
    BY <1>10, <2>5
  <2> HIDE DEF f, key
  <2>7. CASE f.req = q.id
    <3>1. Stand(f) = q.id  BY <1>1, <2>7 DEF Stand
    <3>2. asked[key] = Done  BY <2>2, <2>3, <2>6, <2>7, <3>1
    <3>3. fw[i].req = 0  BY <2>4, <2>7
    <3>4. QED  BY <2>4, <3>2, <3>3 DEF Stand, key
  <2>8. CASE f.req # q.id
    <3>1. Stand(f) # q.id  BY <1>1, <2>5, <2>8, UnNumbers DEF Stand
    <3>2. asked[key] = Stand(f) /\ fw[i].req = f.req  BY <2>3, <2>4, <2>6, <2>8, <3>1
    <3>3. Query(f.req, "add", f.port, f.srv) # q  BY <2>8 DEF Query
    <3>4. QED  BY <2>3, <2>4, <3>2, <3>3 DEF Stand, key
  <2>9. QED  BY <2>7, <2>8
<1>14. Present(S)
  <2> SUFFICES ASSUME NEW p \in Ports, NEW v \in Services, asked[<<p, v>>] # 0
               PROVE  \E i \in DOMAIN fw : Same(fw[i], p, v)
    BY <1>12 DEF Present
  <2>1. <<p, v>> \in Ports \X Services  OBVIOUS
  <2>2. R.asked[<<p, v>>] # 0 /\ (R.asked[<<p, v>>] = q.id => ok)  BY <1>1, <1>10, <2>1
  <2>3. PICK j \in DOMAIN R.fwds : Same(R.fwds[j], p, v)  BY <2>2, RouterFacts DEF Present
  <2>4. R.asked[<<p, v>>] = Stand(R.fwds[j])  BY <2>3, RouterFacts DEF Settled, Same
  <2>5. ok \/ R.fwds[j].req # q.id  BY <1>1, <2>2, <2>4 DEF Stand
  <2>6. PICK i \in DOMAIN kept : kept[i] = R.fwds[j]  BY <1>3, <2>5
  <2>7. Same(fw[i], p, v)  BY <1>7, <2>3, <2>6 DEF Same
  <2>8. QED  BY <1>4, <2>7
<1>15. Once(fw)
  <2> SUFFICES ASSUME NEW i \in DOMAIN kept, NEW j \in DOMAIN kept, fw[i] = fw[j] PROVE i = j
    BY <1>4 DEF Once
  <2>1. kept[i].port = kept[j].port /\ kept[i].srv = kept[j].srv  BY <1>7
  <2>2. PICK k \in DOMAIN R.fwds : R.fwds[k] = kept[i]  BY <1>3
  <2>3. PICK l \in DOMAIN R.fwds : R.fwds[l] = kept[j]  BY <1>3
  <2>4. k = l  BY <2>1, <2>2, <2>3, OneEach
  <2>5. QED  BY <1>3, <2>2, <2>3, <2>4 DEF Once
<1>16. OwnIds(S)  BY <1>12, RouterFacts DEF OwnIds
<1>17. RouterOK(S)  BY <1>12, <1>13, <1>14, <1>15, <1>16 DEF RouterOK
<1>18. QED  BY <1>12, <1>17 DEF S

\* Requests that no forwarding waits for may go.
LEMMA ReqsGone ==
  ASSUME NEW R, RouterOK(R), NEW X, \A q \in X : q.kind # "add", NEW b \in BOOLEAN
  PROVE  /\ RouterOK([R EXCEPT !.reqs = R.reqs \ X, !.ip = b])
         /\ [R EXCEPT !.reqs = R.reqs \ X, !.ip = b].st = R.st
         /\ [R EXCEPT !.reqs = R.reqs \ X, !.ip = b].loc = R.loc
<1> DEFINE S == [R EXCEPT !.reqs = R.reqs \ X, !.ip = b]
<1>1. R \in RouterRec  BY RouterFacts
<1>2. /\ S \in RouterRec /\ S.reqs = R.reqs \ X /\ S.fwds = R.fwds /\ S.asked = R.asked
      /\ S.st = R.st /\ S.loc = R.loc
  BY <1>1 DEF RouterRec
<1> HIDE DEF S
<1>3. \A i, p, v : Query(i, "add", p, v) \notin X
  <2> SUFFICES ASSUME NEW i, NEW p, NEW v, Query(i, "add", p, v) \in X PROVE FALSE  OBVIOUS
  <2>1. QED  BY DEF Query
<1>4. Settled(S)  BY <1>2, <1>3, RouterFacts DEF Settled
<1>5. Present(S) /\ OwnIds(S)  BY <1>2, RouterFacts DEF Present, OwnIds
<1>6. RouterOK(S)  BY <1>2, <1>4, <1>5 DEF RouterOK
<1>7. QED  BY <1>2, <1>6 DEF S

\* A router that has no forwarding and at most one request.
LEMMA IdleRouter ==
  ASSUME NEW R \in RouterRec, R.fwds = <<>>, \A ps \in Ports \X Services : R.asked[ps] = 0,
         \A x, y \in R.reqs : x = y, R.st = "listed" \/ R.reqs = {}
  PROVE  RouterOK(R)
<1>1. DOMAIN R.fwds = {}  OBVIOUS
<1>2. Settled(R) /\ Once(R.fwds) /\ OwnIds(R)  BY <1>1 DEF Settled, Once, OwnIds
<1>3. Present(R)
  <2> SUFFICES ASSUME NEW p \in Ports, NEW v \in Services PROVE R.asked[<<p, v>>] = 0
    BY DEF Present
  <2>1. <<p, v>> \in Ports \X Services  OBVIOUS
  <2>2. QED  BY <2>1
<1>4. QED  BY <1>2, <1>3 DEF RouterOK

LEMMA NotListed ==
  ASSUME NEW R, RouterOK(R), R.st # "listed"
  PROVE  R.fwds = <<>> /\ R.reqs = {} /\ \A ps \in Ports \X Services : R.asked[ps] = 0
<1>1. R.fwds = <<>> /\ R.reqs = {} /\ DOMAIN R.fwds = {}  BY DEF RouterOK
<1>2. ASSUME NEW p \in Ports, NEW v \in Services PROVE R.asked[<<p, v>>] = 0
  BY <1>1, RouterFacts DEF Present
<1>3. QED  BY <1>1, <1>2

LEMMA NoRouterFacts ==
  /\ NoRouter \in RouterRec /\ NoRouter.fwds = <<>> /\ NoRouter.reqs = {} /\ NoRouter.st = "none"
  /\ \A ps \in Ports \X Services : NoRouter.asked[ps] = 0
<1>1. [ps \in Ports \X Services |-> 0] \in [Ports \X Services -> 0 .. Done]  BY UnNumbers
<1>2. <<>> \in Seq(Fwds)  OBVIOUS
<1>3. QED  BY <1>1, <1>2 DEF NoRouter, RouterRec

\* One router becomes another, at a location no other one has.
LEMMA RouterBecomes ==
  ASSUME UnInv, NEW r \in Routers, NEW S, RouterOK(S), igd' = [igd EXCEPT ![r] = S],
         S.st = "listed" => \A s \in Listed \ {r} : igd[s].loc # S.loc
  PROVE  /\ igd' \in [Routers -> RouterRec] /\ \A s \in Routers : RouterOK(igd'[s])
         /\ \A s, t \in Listed' : igd'[s].loc = igd'[t].loc => s = t
<1>1. S \in RouterRec /\ igd \in [Routers -> RouterRec]  BY DEF RouterOK, UnInv
<1>2. /\ igd' \in [Routers -> RouterRec] /\ igd'[r] = S
      /\ \A s \in Routers \ {r} : igd'[s] = igd[s]
  BY <1>1
<1>3. \A s \in Routers : RouterOK(igd'[s])  BY <1>2 DEF UnInv
<1>4. \A s : s \in Listed' <=> s \in Routers /\ igd'[s].st = "listed"  BY DEF Listed
<1>5. \A s : s \in Listed <=> s \in Routers /\ igd[s].st = "listed"  BY DEF Listed
<1>6. \A s, t \in Listed' : igd'[s].loc = igd'[t].loc => s = t
  BY <1>2, <1>4, <1>5 DEF UnInv
<1>7. QED  BY <1>2, <1>3, <1>6

\* Nor does a router that stays as it was listed.
LEMMA RouterStays ==
  ASSUME UnInv, NEW r \in Listed, NEW S, RouterOK(S), igd' = [igd EXCEPT ![r] = S],
         S.st = igd[r].st, S.loc = igd[r].loc
  PROVE  /\ igd' \in [Routers -> RouterRec] /\ \A s \in Routers : RouterOK(igd'[s])
         /\ \A s, t \in Listed' : igd'[s].loc = igd'[t].loc => s = t
<1>1. r \in Routers  BY DEF Listed
<1>2. \A s \in Listed \ {r} : igd[s].loc # S.loc  BY DEF UnInv
<1>3. QED  BY <1>1, <1>2, RouterBecomes

LEMMA NewRouterStep == ASSUME UnInv, NEW loc \in Locations, NewRouter(loc) PROVE UnInv'
<1> DEFINE r == CHOOSE r \in FreeRouters : TRUE
           S == [NoRouter EXCEPT !.st = "pending", !.loc = loc]
<1>1. r \in Routers /\ igd' = [igd EXCEPT ![r] = S] /\ wait' = wait
  BY DEF NewRouter, FreeRouters
<1>2. /\ S \in RouterRec /\ S.fwds = <<>> /\ S.reqs = {} /\ S.st = "pending"
      /\ \A ps \in Ports \X Services : S.asked[ps] = 0
  BY NoRouterFacts DEF RouterRec
<1> HIDE DEF r, S
<1>3. RouterOK(S)  BY <1>2, IdleRouter
<1>4. /\ igd' \in [Routers -> RouterRec] /\ \A s \in Routers : RouterOK(igd'[s])
      /\ \A s, t \in Listed' : igd'[s].loc = igd'[t].loc => s = t
  BY <1>1, <1>2, <1>3, RouterBecomes
<1>5. QED  BY <1>1, <1>4 DEF UnInv

\* UPnPRouterPrivate::getExternalIP.
LEMMA GetExternalIPFacts ==
  ASSUME NEW R \in RouterRec, R.fwds = <<>>, R.reqs = {}, R.st = "listed",
         \A ps \in Ports \X Services : R.asked[ps] = 0
  PROVE  RouterOK(GetExternalIP(R)) /\ GetExternalIP(R).loc = R.loc
<1>1. CASE R.wan = {}  BY <1>1, IdleRouter DEF GetExternalIP
<1>2. CASE R.wan # {}
  <2> DEFINE id == NewReqs(R, {"ip"})["ip"]
             q == Query(id, "ip", "none", "none")
             S == GetExternalIP(R)
  <2>1. S = [R EXCEPT !.reqs = {q}]  BY <1>2 DEF GetExternalIP
  <2>2. FreeReqs(R) = ReqIds /\ 1 \in ReqIds  BY UnNumbers DEF FreeReqs
  <2>3. [x \in {"ip"} |-> 1] \in Injection({"ip"}, FreeReqs(R))
    BY <2>2 DEF Injection, IsInjective
  <2>4. CanSend(R, {"ip"})  BY <2>3 DEF CanSend, ExistsInjection
  <2>5. id \in ReqIds  BY <2>4, NewReqsFacts
  <2> HIDE DEF id
  <2>6. q \in ReqRec  BY <2>5 DEF Query, ReqRec
  <2> HIDE DEF q, S
  <2>7. /\ S \in RouterRec /\ S.fwds = <<>> /\ S.reqs = {q} /\ S.st = "listed" /\ S.loc = R.loc
        /\ \A ps \in Ports \X Services : S.asked[ps] = 0
    BY <2>1, <2>6 DEF RouterRec
  <2>8. QED  BY <2>7, IdleRouter DEF S
<1>3. QED  BY <1>1, <1>2

LEMMA DownloadStep == ASSUME UnInv, NEW r \in Routers, DownloadFinished(r) PROVE UnInv'
<1> DEFINE R == igd[r]
<1>1. RouterOK(R) /\ R.st = "pending" /\ wait' = wait  BY DEF UnInv, DownloadFinished
<1>2. /\ R \in RouterRec /\ R.fwds = <<>> /\ R.reqs = {}
      /\ \A ps \in Ports \X Services : R.asked[ps] = 0
  BY <1>1, NotListed DEF RouterOK
<1>3. RouterOK(NoRouter) /\ NoRouter.st = "none"  BY NoRouterFacts, IdleRouter
<1>4. CASE igd' = [igd EXCEPT ![r] = NoRouter]
  BY <1>1, <1>3, <1>4, RouterBecomes DEF UnInv
<1>5. CASE igd' = [igd EXCEPT ![r].st = "failed", ![r].error = TRUE]
  <2> DEFINE S == [R EXCEPT !.st = "failed", !.error = TRUE]
  <2>1. igd' = [igd EXCEPT ![r] = S]  BY <1>5 DEF UnInv
  <2>2. /\ S \in RouterRec /\ S.fwds = <<>> /\ S.reqs = {} /\ S.st = "failed"
        /\ \A ps \in Ports \X Services : S.asked[ps] = 0
    BY <1>2 DEF RouterRec
  <2> HIDE DEF S
  <2>3. RouterOK(S)  BY <2>2, IdleRouter
  <2>4. QED  BY <1>1, <2>1, <2>2, <2>3, RouterBecomes DEF UnInv
<1>6. ASSUME NEW wan \in SUBSET Services, OnXmlFileDownloaded(r, wan) PROVE UnInv'
  <2>1. CASE FindDevice(R.loc) # {}  BY <1>4, <1>6, <2>1 DEF OnXmlFileDownloaded
  <2>2. CASE FindDevice(R.loc) = {}
    <3> DEFINE T == [R EXCEPT !.st = "listed", !.wan = wan]
               S == GetExternalIP(T)
    <3>1. igd' = [igd EXCEPT ![r] = S]  BY <1>6, <2>2 DEF OnXmlFileDownloaded
    <3>2. /\ T \in RouterRec /\ T.fwds = <<>> /\ T.reqs = {} /\ T.st = "listed" /\ T.loc = R.loc
          /\ \A ps \in Ports \X Services : T.asked[ps] = 0
      BY <1>2 DEF RouterRec
    <3> HIDE DEF T
    <3>3. RouterOK(S) /\ S.loc = R.loc  BY <3>2, GetExternalIPFacts
    <3> HIDE DEF S
    <3>4. \A s \in Listed \ {r} : igd[s].loc # S.loc  BY <2>2, <3>3 DEF FindDevice
    <3>5. QED  BY <1>1, <3>1, <3>3, <3>4, RouterBecomes DEF UnInv
  <2>3. QED  BY <2>1, <2>2
<1>7. QED  BY <1>4, <1>5, <1>6 DEF DownloadFinished

LEMMA ForwardStep == ASSUME UnInv, NEW r \in Routers, NEW port \in Ports, Forward(r, port) PROVE UnInv'
<1> DEFINE R == igd[r]
           S == ForwardOn(R, port)
<1>1. r \in Listed /\ CanSend(R, R.wan) /\ igd' = [igd EXCEPT ![r] = S] /\ wait' = wait
  BY DEF Forward
<1>2. RouterOK(R) /\ R.st = "listed"  BY <1>1 DEF UnInv, Listed
<1>3. RouterOK(S) /\ S.st = R.st /\ S.loc = R.loc  BY <1>1, <1>2, ForwardFacts
<1> HIDE DEF S
<1>4. QED  BY <1>1, <1>3, RouterStays DEF UnInv

LEMMA UndoStep == ASSUME UnInv, NEW r \in Routers, NEW port \in Ports, UndoForward(r, port) PROVE UnInv'
<1> DEFINE R == igd[r]
           S == UndoForwardOn(R, port)
           more == {<<r, q>> : q \in S.reqs \ R.reqs}
<1>1. /\ r \in Listed /\ CanSend(R, {i \in DOMAIN R.fwds : R.fwds[i].port = port})
      /\ igd' = [igd EXCEPT ![r] = S]
      /\ wait' = IF wait.on THEN [wait EXCEPT !.ops = wait.ops \cup more] ELSE wait
  BY DEF UndoForward
<1>2. RouterOK(R) /\ R.st = "listed"  BY <1>1 DEF UnInv, Listed
<1>3. /\ RouterOK(S) /\ S.st = R.st /\ S.loc = R.loc
      /\ \A q \in S.reqs \ R.reqs : q.kind = "delete"
  BY <1>1, <1>2, UndoFacts
<1>4. /\ igd' \in [Routers -> RouterRec] /\ \A s \in Routers : RouterOK(igd'[s])
      /\ \A s, t \in Listed' : igd'[s].loc = igd'[t].loc => s = t
  <2> HIDE DEF S
  <2>1. QED  BY <1>1, <1>3, RouterStays
<1>5. S.reqs \subseteq ReqRec  BY <1>3, RouterFacts
<1> HIDE DEF S
<1>6. more \in SUBSET (Routers \X ReqRec) /\ \A op \in more : op[2].kind = "delete"
  BY <1>3, <1>5
<1> HIDE DEF more
<1>7. wait \in [on : BOOLEAN, ops : SUBSET (Routers \X ReqRec)] /\ \A op \in wait.ops : op[2].kind = "delete"
  BY DEF UnInv
<1>8. CASE wait.on
  <2>1. wait' = [wait EXCEPT !.ops = wait.ops \cup more]  BY <1>1, <1>8
  <2>2. wait' \in [on : BOOLEAN, ops : SUBSET (Routers \X ReqRec)] /\ wait'.ops = wait.ops \cup more
    BY <2>1, <1>6, <1>7
  <2>3. QED  BY <1>4, <1>6, <1>7, <2>2 DEF UnInv
<1>9. CASE ~wait.on
  <2>1. wait' = wait  BY <1>1, <1>9
  <2>2. QED  BY <1>4, <1>7, <2>1 DEF UnInv
<1>10. QED  BY <1>8, <1>9

LEMMA ReplyStep ==
  ASSUME UnInv, NEW r \in Routers, NEW q \in igd[r].reqs, NEW ok \in BOOLEAN, ReplyFinished(r, q, ok)
  PROVE  UnInv'
<1> DEFINE R == igd[r]
           S == CASE q.kind = "add" -> ForwardResult(R, q, ok)
                  [] q.kind = "delete" -> UndoForwardResult(R, q)
                  [] q.kind = "ip" -> GetExternalIPResult(R, q, ok)
<1>1. RouterOK(R)  BY DEF UnInv
<1>2. R.st = "listed"  BY <1>1 DEF RouterOK
<1>3. r \in Listed  BY <1>2 DEF Listed
<1>4. q \in ReqRec /\ q.kind \in {"add", "delete", "ip"}
  <2>1. q \in ReqRec  BY <1>1, RouterFacts
  <2>2. QED  BY <2>1 DEF ReqRec
<1>5. igd' = [igd EXCEPT ![r] = S] /\ wait' = OperationFinished(<<r, q>>)  BY DEF ReplyFinished
<1>6. R \in RouterRec /\ R.ip \in BOOLEAN  BY <1>1 DEF RouterOK, RouterRec
<1>7. RouterOK(S) /\ S.st = R.st /\ S.loc = R.loc
  <2>1. CASE q.kind = "add"
    <3>1. S = ForwardResult(R, q, ok)  BY <2>1
    <3> HIDE DEF S, R
    <3>2. QED  BY <1>1, <1>2, <3>1, ForwardResultFacts DEF R
  <2>2. CASE q.kind = "delete"
    <3>1. S = [R EXCEPT !.reqs = R.reqs \ {q}]  BY <2>2 DEF UndoForwardResult
    <3>2. [R EXCEPT !.reqs = R.reqs \ {q}] = [R EXCEPT !.reqs = R.reqs \ {q}, !.ip = R.ip]
      BY <1>6 DEF RouterRec
    <3>3. S = [R EXCEPT !.reqs = R.reqs \ {q}, !.ip = R.ip]  BY <3>1, <3>2
    <3> HIDE DEF S, R
    <3>4. \A x \in {q} : x.kind # "add"  BY <2>2
    <3>5. QED  BY <1>1, <1>6, <3>3, <3>4, ReqsGone
  <2>3. CASE q.kind = "ip"
    <3>1. S = [R EXCEPT !.reqs = R.reqs \ {q}, !.ip = R.ip \/ ok]  BY <2>3 DEF GetExternalIPResult
    <3>2. (R.ip \/ ok) \in BOOLEAN  OBVIOUS
    <3> DEFINE b == R.ip \/ ok
    <3> HIDE DEF b, S, R
    <3>3. S = [R EXCEPT !.reqs = R.reqs \ {q}, !.ip = b] /\ b \in BOOLEAN  BY <3>1, <3>2 DEF b
    <3>4. \A x \in {q} : x.kind # "add"  BY <2>3
    <3>5. QED  BY <1>1, <3>3, <3>4, ReqsGone
  <2>4. QED  BY <1>4, <2>1, <2>2, <2>3
<1> HIDE DEF S
<1>8. /\ igd' \in [Routers -> RouterRec] /\ \A s \in Routers : RouterOK(igd'[s])
      /\ \A s, t \in Listed' : igd'[s].loc = igd'[t].loc => s = t
  BY <1>3, <1>5, <1>7, RouterStays
<1>9. /\ wait' \in [on : BOOLEAN, ops : SUBSET (Routers \X ReqRec)]
      /\ \A op \in wait'.ops : op[2].kind = "delete"
  <2> DEFINE left == wait.ops \ {<<r, q>>}
             w == [on |-> wait.on /\ left # {}, ops |-> left]
  <2>1. wait' = IF wait.ops = {} THEN wait ELSE w  BY <1>5 DEF OperationFinished
  <2>2. wait \in [on : BOOLEAN, ops : SUBSET (Routers \X ReqRec)] /\ \A op \in wait.ops : op[2].kind = "delete"
    BY DEF UnInv
  <2>3. w \in [on : BOOLEAN, ops : SUBSET (Routers \X ReqRec)] /\ w.ops \subseteq wait.ops
    BY <2>2
  <2> HIDE DEF w
  <2>4. QED  BY <2>1, <2>2, <2>3
<1>10. QED  BY <1>8, <1>9 DEF UnInv

LEMMA TimerStep == ASSUME UnInv, TimerDone PROVE UnInv'
<1> DEFINE X(r) == {q \in igd[r].reqs : <<r, q>> \in wait.ops}
<1>1. /\ igd' = [r \in Routers |-> [igd[r] EXCEPT !.reqs = {q \in igd[r].reqs : <<r, q>> \notin wait.ops}]]
      /\ wait' = NoWait
  BY DEF TimerDone
<1>2. ASSUME NEW r \in Routers
      PROVE  RouterOK(igd'[r]) /\ igd'[r].st = igd[r].st /\ igd'[r].loc = igd[r].loc
  <2> DEFINE R == igd[r]
             Y == X(r)
  <2>1. RouterOK(R)  BY DEF UnInv
  <2>2. \A q \in Y : q.kind # "add"
    <3> SUFFICES ASSUME NEW q \in Y PROVE q.kind # "add"  OBVIOUS
    <3>1. <<r, q>> \in wait.ops  OBVIOUS
    <3>2. <<r, q>>[2].kind = "delete"  BY <3>1 DEF UnInv
    <3>3. QED  BY <3>2
  <2>3. R \in RouterRec /\ R.ip \in BOOLEAN  BY <2>1 DEF RouterOK, RouterRec
  <2>4. {q \in R.reqs : <<r, q>> \notin wait.ops} = R.reqs \ Y  OBVIOUS
  <2>5. igd'[r] = [R EXCEPT !.reqs = R.reqs \ Y]  BY <1>1, <2>4
  <2> HIDE DEF R, Y
  <2>6. igd'[r] = [R EXCEPT !.reqs = R.reqs \ Y, !.ip = R.ip]  BY <2>3, <2>5 DEF RouterRec
  <2> DEFINE b == R.ip
             T == [R EXCEPT !.reqs = R.reqs \ Y, !.ip = b]
  <2>7. RouterOK(T) /\ T.st = R.st /\ T.loc = R.loc
    <3>1. b \in BOOLEAN  BY <2>3
    <3> HIDE DEF b
    <3>2. QED  BY <2>1, <2>2, <3>1, ReqsGone
  <2>8. QED  BY <2>6, <2>7 DEF R
<1>3. \A r \in Routers : igd'[r] \in RouterRec  BY <1>2 DEF RouterOK
<1>4. igd' \in [Routers -> RouterRec]  BY <1>1, <1>3
<1>5. \A s, t \in Listed' : igd'[s].loc = igd'[t].loc => s = t  BY <1>2 DEF UnInv, Listed
<1>6. wait' \in [on : BOOLEAN, ops : SUBSET (Routers \X ReqRec)] /\ wait'.ops = {}
  BY <1>1 DEF NoWait
<1>7. QED  BY <1>2, <1>4, <1>5, <1>6 DEF UnInv

LEMMA UnInitInv == UnInit => UnInv
<1> SUFFICES ASSUME UnInit PROVE UnInv  OBVIOUS
<1>1. \A r \in Routers : igd[r] = NoRouter  BY DEF UnInit
<1>2. RouterOK(NoRouter) /\ NoRouter \in RouterRec /\ NoRouter.st = "none"
  BY NoRouterFacts, IdleRouter
<1>3. igd \in [Routers -> RouterRec]  BY <1>2 DEF UnInit
<1>4. Listed = {}  BY <1>1, <1>2 DEF Listed
<1>5. wait \in [on : BOOLEAN, ops : SUBSET (Routers \X ReqRec)] /\ wait.ops = {}
  BY DEF UnInit, NoWait
<1>6. QED  BY <1>1, <1>2, <1>3, <1>4, <1>5 DEF UnInv

LEMMA UnStep == UnInv /\ [UnNext]_unVars => UnInv'
<1> SUFFICES ASSUME UnInv, [UnNext]_unVars PROVE UnInv'  OBVIOUS
<1>1. CASE \E loc \in Locations : ReadyRead(loc) \/ LoadRouters(loc)
  BY <1>1, NewRouterStep DEF ReadyRead, LoadRouters
<1>2. CASE \E r \in Routers : DownloadFinished(r)  BY <1>2, DownloadStep
<1>3. CASE \E r \in Routers, port \in Ports : Forward(r, port)  BY <1>3, ForwardStep
<1>4. CASE \E r \in Routers, port \in Ports : UndoForward(r, port)  BY <1>4, UndoStep
<1>5. CASE \E r \in Routers : \E q \in igd[r].reqs, ok \in BOOLEAN : ReplyFinished(r, q, ok)
  BY <1>5, ReplyStep
<1>6. CASE NewWaitJob
  <2>1. igd' = igd /\ wait' = [on |-> TRUE, ops |-> {}]  BY <1>6 DEF NewWaitJob
  <2>2. Listed' = Listed  BY <2>1 DEF Listed
  <2>3. wait' \in [on : BOOLEAN, ops : SUBSET (Routers \X ReqRec)] /\ wait'.ops = {}  BY <2>1
  <2>4. QED  BY <2>1, <2>2, <2>3 DEF UnInv
<1>7. CASE TimerDone  BY <1>7, TimerStep
<1>8. CASE UNCHANGED unVars  BY <1>8 DEF unVars, UnInv, Listed
<1>9. QED  BY <1>1, <1>2, <1>3, <1>4, <1>5, <1>6, <1>7, <1>8 DEF UnNext

\* Whatever the order of answers, replacements, undos and exits, the invariant
\* of the routers and of the WaitJob holds.
THEOREM UnInvariant == UnSpec => []UnInv
BY UnInitInv, UnStep, PTL DEF UnSpec

\* A forwarding is the one asked for last, however late the answers of earlier
\* requests come, and a location has one router: UPnPRouter::forwardResult,
\* UPnPRouter::undoForward, UPnPMCastSocket::onXmlFileDownloaded.
THEOREM ForwardingsStayRight == UnSpec => []ForwardingsRight
<1>1. UnInv => ForwardingsRight
  <2> SUFFICES ASSUME UnInv, NEW r \in Listed, NEW port \in Ports, NEW srv \in Services
               PROVE  LET mine == {i \in DOMAIN igd[r].fwds : Same(igd[r].fwds[i], port, srv)}
                          asked == igd[r].asked[<<port, srv>>]
                      IN  IF asked = 0 THEN mine = {}
                          ELSE \E i \in mine :
                                 /\ mine = {i}
                                 /\ IF asked = Done THEN igd[r].fwds[i].req = 0
                                    ELSE /\ igd[r].fwds[i].req = asked
                                         /\ Query(asked, "add", port, srv) \in igd[r].reqs
    BY DEF UnInv, ForwardingsRight
  <2> DEFINE R == igd[r]
             mine == {i \in DOMAIN R.fwds : Same(R.fwds[i], port, srv)}
             asked == R.asked[<<port, srv>>]
  <2>1. RouterOK(R)  BY DEF UnInv, Listed
  <2>2. \A i : i \in mine <=> i \in DOMAIN R.fwds /\ Same(R.fwds[i], port, srv)  OBVIOUS
  <2> HIDE DEF R, mine
  <2>3. \A i \in mine : /\ R.fwds[i] \in Fwds /\ Stand(R.fwds[i]) # 0 /\ asked = Stand(R.fwds[i])
                        /\ R.fwds[i].req # 0 => Query(R.fwds[i].req, "add", port, srv) \in R.reqs
    BY <2>1, <2>2, RouterFacts DEF Settled, Same
  <2>4. CASE asked = 0  BY <2>3, <2>4 DEF R, mine
  <2>5. CASE asked # 0
    <3>1. PICK i \in mine : TRUE  BY <2>1, <2>2, <2>5, RouterFacts DEF Present
    <3>2. \A j \in mine : j = i  BY <2>1, <2>2, OneEach DEF Same
    <3>3. mine = {i}  BY <3>2
    <3>4. R.fwds[i].req \in 0 .. MaxRequests  BY <2>3 DEF Fwds
    <3>5. CASE R.fwds[i].req = 0
      <4>1. asked = Done  BY <2>3, <3>5 DEF Stand
      <4>2. QED  BY <2>5, <3>3, <3>5, <4>1 DEF R, mine
    <3>6. CASE R.fwds[i].req # 0
      <4>1. asked = R.fwds[i].req /\ asked # Done  BY <2>3, <3>4, <3>6, UnNumbers DEF Stand
      <4>2. Query(asked, "add", port, srv) \in R.reqs  BY <2>3, <3>6, <4>1
      <4>3. QED  BY <2>5, <3>3, <4>1, <4>2 DEF R, mine
    <3>7. QED  BY <3>5, <3>6
  <2>6. QED  BY <2>4, <2>5
<1>2. QED  BY <1>1, UnInvariant, PTL
=============================================================================
