--------------------------- MODULE TorrentControl ---------------------------
(***************************************************************************)
(* Starting, pausing and stopping a torrent, and the jobs that need it     *)
(* quiet: checking the data, moving the files, and preallocating disk      *)
(* space. src/src/torrent/{torrentcontrol,jobqueue,peersourcemanager}.cpp, *)
(* src/src/diskio/{movedatafilesjob,preallocationjob}.cpp and              *)
(* src/src/datachecker/datacheckerjob.cpp. Each control call and each end  *)
(* of a job is one step of the main thread; moving one file is a step.     *)
(***************************************************************************)
EXTENDS Integers, Sequences, FiniteSets

CONSTANTS DataFiles,        \* the files of the torrent
          Dirs,             \* directories the data can be in
          CompletedDir,     \* where it goes when complete, or NoDir
          PreallocOn,       \* Cache::preallocationEnabled
          MaxJobs,          \* bound: jobs in the queue
          MaxMoves          \* bound: moves in the queue

VARIABLE tc

tcVars == <<tc>>

NoDir == "nodir"

ASSUME TorrentControlAssumption ==
    /\ CompletedDir \in Dirs \cup {NoDir} /\ PreallocOn \in BOOLEAN
    /\ MaxJobs \in Nat /\ MaxMoves \in Nat

Job(kind, dir, files) == [kind |-> kind, to |-> dir, todo |-> files, done |-> {}]
Quiet == {"check", "move", "map"}          \* Job::stopTorrent
Moves(S) == {i \in DOMAIN S.jobs : S.jobs[i].kind \in {"move", "map"}}

\* A torrent that was just added, with its data in one directory.
TcInit ==
    \E d \in Dirs \ {CompletedDir} :
        tc = [running |-> FALSE, paused |-> FALSE, completed |-> FALSE, all |-> FALSE,
              prealloc |-> TRUE, saved |-> TRUE,   \* and RESTART_DISK_PREALLOCATION on disk
              io_error |-> FALSE,
              pman |-> FALSE, psman |-> FALSE, cman |-> FALSE,   \* started, cache open
              dl |-> FALSE,                        \* chunk downloads are loaded
              jobs |-> <<>>, restart |-> FALSE,
              dest |-> d,                          \* move_data_files_destination_path
              path |-> d, known |-> [f \in DataFiles |-> d], loc |-> [f \in DataFiles |-> d],
              asked |-> FALSE]                     \* the user paused it

(***************************** Control calls *******************************)

\* What the stats file keeps that a later load changes the behaviour with.
SaveStats(S) == [S EXCEPT !.saved = S.prealloc]
LoadStats(S) == [S EXCEPT !.prealloc = S.saved]
OnIOError(S) == [S EXCEPT !.io_error = TRUE]

Pause(S) ==
    IF ~S.running \/ S.paused THEN S
    ELSE SaveStats([S EXCEPT !.dl = FALSE, !.cman = FALSE, !.paused = TRUE])

TcUnpause(S) ==
    IF ~S.running \/ ~S.paused \/ S.jobs # <<>> THEN S
    ELSE LoadStats([S EXCEPT !.cman = TRUE, !.dl = ~S.completed, !.paused = FALSE])

ContinueStart(S) ==
    LoadStats([S EXCEPT !.pman = TRUE, !.dl = ~S.completed, !.running = TRUE, !.psman = TRUE])

\* Mutant: the torrent is restarted only if the last job found it active.
StartNextJobForgets(S) ==
    IF S.jobs # <<>> /\ Head(S.jobs).kind \in Quiet /\ S.running
    THEN [Pause(S) EXCEPT !.restart = ~S.paused] ELSE S

\* JobQueue::startNextJob
StartNextJob(S) ==
    IF S.jobs # <<>> /\ Head(S.jobs).kind \in Quiet /\ S.running
    THEN [Pause(S) EXCEPT !.restart = TRUE] ELSE S

Enqueue(S, j) ==
    LET Q == [S EXCEPT !.jobs = Append(@, j)]
    IN  IF Len(Q.jobs) = 1 THEN StartNextJob(Q) ELSE Q

\* JobQueue::jobDone of the job at the head.
JobDone(S) ==
    LET Q == [S EXCEPT !.jobs = Tail(@)]
    IN  CASE Q.jobs # <<>> -> StartNextJob(Q)
          [] Q.jobs = <<>> /\ Q.restart -> [TcUnpause(Q) EXCEPT !.restart = FALSE]
          [] OTHER -> Q

\* A preallocation is killed first; that starts the next job.
Stop(S) ==
    LET K == IF S.jobs # <<>> /\ Head(S.jobs).kind = "prealloc" THEN JobDone(S) ELSE S
        R == IF K.running THEN [K EXCEPT !.psman = FALSE, !.dl = FALSE] ELSE K
    IN  SaveStats([R EXCEPT !.pman = FALSE, !.cman = FALSE, !.running = FALSE,
                            !.paused = FALSE])

NeedsPrealloc(S) == S.prealloc /\ PreallocOn /\ ~S.all
Preallocate(S) == Enqueue([S EXCEPT !.running = TRUE], Job("prealloc", NoDir, <<>>))

Start(S) ==
    LET O == [S EXCEPT !.paused = FALSE, !.io_error = FALSE, !.cman = TRUE]
    IN  IF NeedsPrealloc(O) THEN Preallocate(O) ELSE ContinueStart([O EXCEPT !.prealloc = FALSE])

\* changeOutputDir with MOVE_FILES: files that are there already do not move.
ChangeOutputDir(S, d) ==
    LET files == {f \in DataFiles : S.known[f] # d}
    IN  CASE S.path = d -> S
          [] S.path # d /\ files # {} ->
                Enqueue([S EXCEPT !.dest = d], Job("move", d, [f \in files |-> S.known[f]]))
          [] OTHER -> [S EXCEPT !.dest = d, !.path = d]

JobRoom == Len(tc.jobs) < MaxJobs
MoveRoom(S) == Len(S.jobs) < MaxJobs /\ Cardinality(Moves(S)) < MaxMoves
TcBecome(S) == tc' = S

UserStart ==
    /\ ~tc.running /\ tc.jobs = <<>>
    /\ \/ TcBecome([Start(tc) EXCEPT !.asked = FALSE])
       \/ TcBecome(OnIOError([tc EXCEPT !.paused = FALSE]))              \* the cache does not open
UserStop == TcBecome([Stop(tc) EXCEPT !.asked = FALSE])
UserPause == tc.running /\ TcBecome([Pause(tc) EXCEPT !.asked = TRUE])
UserUnpause == tc.paused /\ TcBecome([TcUnpause(tc) EXCEPT !.asked = @ /\ tc.jobs # <<>>])
StartDataCheck == JobRoom /\ TcBecome(Enqueue(tc, Job("check", NoDir, <<>>)))
UserChangesOutputDir == \E d \in Dirs :
    d # tc.path /\ MoveRoom(tc) /\ TcBecome(ChangeOutputDir(tc, d))
\* The job for a map of files: those that are there already do not move.
MapJob(S, d, files) == Job("map", d, [f \in {g \in files : S.known[g] # d} |-> S.known[f]])
MoveTorrentFiles == \E d \in Dirs, f \in DataFiles :
    /\ MoveRoom(tc) /\ tc.known[f] # d
    /\ TcBecome(Enqueue(tc, MapJob(tc, d, {f})))
\* downloadPriorityChanged of a file that was excluded.
IncludeFile == /\ ~tc.all
               /\ TcBecome([tc EXCEPT !.prealloc = TRUE, !.completed = FALSE])

\* Files are missing when the torrent is to be started: they are made again
\* or marked as not to be downloaded, and space is preallocated again.
MissingFiles ==
    /\ ~tc.running /\ tc.jobs = <<>>
    /\ \/ TcBecome([tc EXCEPT !.prealloc = TRUE, !.all = FALSE])
       \/ TcBecome(OnIOError(tc))
\* An upload or a webseed finds a chunk corrupted.
CorruptedChunk == tc.running /\ TcBecome([tc EXCEPT !.completed = FALSE, !.all = FALSE])
\* setMaxShareRatio, setMaxSeedTime, setAllowedToStart...
ChangeSetting == TcBecome(SaveStats(tc))

(******************************** update() *********************************)

MoveToCompletedDir(S) ==
    IF CompletedDir # NoDir /\ MoveRoom(S) THEN ChangeOutputDir(S, CompletedDir) ELSE S

\* The client calls it for a running torrent.
TcUpdate ==
    /\ tc.running
    /\ CASE tc.io_error -> TcBecome(Stop(tc))
         [] ~tc.io_error /\ tc.paused -> UNCHANGED tc
         [] ~tc.io_error /\ ~tc.paused /\ NeedsPrealloc(tc) -> JobRoom /\ TcBecome(Preallocate(tc))
         [] OTHER ->
              \E S \in {[tc EXCEPT !.prealloc = FALSE]} :
                 \/ TcBecome(SaveStats(S))
                 \/ TcBecome(OnIOError(S))
                 \/ S.completed /\ TcBecome(Stop(S))                             \* ratio reached
                 \/ S.completed /\ TcBecome([S EXCEPT !.completed = FALSE, !.all = FALSE])
                 \/ /\ ~S.completed
                    /\ \E b \in BOOLEAN :
                         TcBecome(MoveToCompletedDir([S EXCEPT !.completed = TRUE, !.all = b]))

(********************************* Jobs ************************************)

Current(kind) == tc.jobs # <<>> /\ Head(tc.jobs).kind = kind

\* afterDataCheck with what was found: whether it is complete, and all of it.
AfterDataCheck(S, completed, all) == SaveStats([S EXCEPT !.completed = completed, !.all = all])

\* The thread has ended, or the job was cancelled.
CheckEnds ==
    /\ Current("check")
    /\ \/ \E c, a \in BOOLEAN : (a => c) /\ TcBecome(JobDone(AfterDataCheck(tc, c, a)))
       \/ TcBecome(JobDone(tc))

PreallocFinished(S, error) ==
    IF error THEN OnIOError([S EXCEPT !.prealloc = TRUE])
    ELSE ContinueStart(SaveStats([S EXCEPT !.prealloc = FALSE]))

\* preallocFinished is called before the result is emitted.
PreallocEnds == /\ Current("prealloc")
                /\ \E error \in BOOLEAN : TcBecome(JobDone(PreallocFinished(tc, error)))

\* moveDataFilesFinished, with and without a map of files.
MoveFinished(S, j) ==
    IF j.kind = "move"
    THEN SaveStats([S EXCEPT !.known = [f \in DataFiles |-> S.dest], !.path = S.dest])
    ELSE [S EXCEPT !.known = [f \in DataFiles |-> IF f \in j.done THEN j.to ELSE @[f]]]

\* MoveDataFilesJob::onJobDone: file f of job j is at its new place.
MovedOn(j, f) == [j EXCEPT !.todo = [g \in DOMAIN j.todo \ {f} |-> j.todo[g]],
                           !.done = @ \cup {<<f, j.todo[f]>>}]
Arrived(S, f, k) == [S EXCEPT !.loc[f] = k.to, !.jobs[1] = k]

\* MoveDataFilesJob::startMoving: the next file, or the end of the job.
StartMoving(S, k) ==
    IF DOMAIN k.todo = {}
    THEN JobDone(MoveFinished(S, [k EXCEPT !.done = {p[1] : p \in @}])) ELSE S

FileMoved ==
    /\ Current("move") \/ Current("map")
    /\ \E f \in DOMAIN Head(tc.jobs).todo :
         /\ tc.loc[f] = Head(tc.jobs).todo[f]
         /\ \E k \in {MovedOn(Head(tc.jobs), f)} : TcBecome(StartMoving(Arrived(tc, f, k), k))

\* Mutant: an error ends the job at once.
RecoverNothing(S, j) == S

\* recover: the files that were moved go back, the job ends with an error.
Recover(S, j) ==
    [S EXCEPT !.loc = [f \in DataFiles |->
        IF \E p \in j.done : p[1] = f THEN (CHOOSE p \in j.done : p[1] = f)[2] ELSE @[f]]]

FileMoveFails ==
    /\ Current("move") \/ Current("map")
    /\ TcBecome(JobDone(Recover(tc, Head(tc.jobs))))

TcNext ==
    \/ UserStart \/ UserStop \/ UserPause \/ UserUnpause \/ StartDataCheck
    \/ UserChangesOutputDir \/ MoveTorrentFiles \/ IncludeFile
    \/ MissingFiles \/ CorruptedChunk \/ ChangeSetting
    \/ TcUpdate \/ CheckEnds \/ PreallocEnds \/ FileMoved \/ FileMoveFails

TcSpec == TcInit /\ [][TcNext]_tcVars

TcTypeOK ==
    /\ \A b \in {"running", "paused", "completed", "all", "prealloc", "saved", "io_error", "pman",
                 "psman", "cman", "dl", "restart", "asked"} : tc[b] \in BOOLEAN
    /\ tc.known \in [DataFiles -> Dirs] /\ tc.loc \in [DataFiles -> Dirs] /\ tc.path \in Dirs
    /\ \A i \in DOMAIN tc.jobs : tc.jobs[i].kind \in Quiet \cup {"prealloc"}

\* While the data is checked or moved the cache is closed, whoever starts,
\* pauses or unpauses the torrent meanwhile and whatever other jobs wait; and
\* a torrent that is paused with no job left was paused by the user: the last
\* of several jobs that paused it starts it again (JobQueue::restart).
NotLeftPaused ==
    /\ TcTypeOK
    /\ tc.jobs # <<>> /\ Head(tc.jobs).kind \in Quiet => ~tc.cman
    /\ tc.paused /\ tc.jobs = <<>> => tc.asked

\* When no move is under way, every file is where the torrent looks for it,
\* also after a move that failed half way (recover, moveDataFilesFinished).
DataFollowsPath == Moves(tc) = {} => tc.loc = tc.known
=============================================================================
