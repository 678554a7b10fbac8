----------------------------- MODULE GlobusProps -----------------------------
(***************************************************************************)
(* What the archiving through Globus promises, over the state of           *)
(* GlobusArchive.                                                          *)
(***************************************************************************)
EXTENDS GlobusArchive

Tarballs == UNION {Standard[j] \cup Restricted[j] : j \in Jobs}
Lines == {"SUCCESS", "FAILURE"}

ClientType == [
    pc : {"idle", "mkdir", "init", "check", "send", "status", "log", "rmdir", "gone",
          "done", "dead"},
    try : 0..MAXTRIES, set : Sets,
    wait_count : 0..max_wait_count, check_log_count : 0..max_log_fails,
    completed : SUBSET Tarballs, successes : SUBSET Tarballs]

InstType == [
    pc : {"off", "mkdir", "scan", "touch", "begin", "rmdir", "rmreq"} \cup Doorman,
    ids : SUBSET Attempts, todo : SUBSET Dirs, cur : Dirs \cup {None},
    left : SUBSET Tarballs, ack : Lines \cup {"none"}]

\* Types of the variables of the archiving.
TypeOK ==
    /\ client \in [Jobs -> ClientType]
    /\ netFails \in 0..MaxNetFails /\ kills \in 0..MaxKills /\ reboots \in 0..MaxReboots
    /\ initScript \in BOOLEAN
    /\ mkdirReq \in [Attempts -> Dirs \cup {None}]
    /\ rmdirReq \in [Attempts -> Dirs \cup {None}]
    /\ jobDirs \subseteq Attempts
    /\ scripts \subseteq dirs /\ dirs \subseteq Dirs
    /\ \A d \in dirs : d[1] \in jobDirs
    /\ log \in [Dirs -> {"absent", "empty", "text"} \cup Lines]
    /\ \A d \in Dirs \ dirs : log[d] = "absent"
    /\ todoLog \subseteq Attempts \X Tarballs \X Lines
    /\ status \subseteq Attempts \X Tarballs \X Lines
    /\ hpss \subseteq Tarballs
    /\ active \in {"none", "old", "recent"}
    /\ idle \in 0..MaxDays /\ entry \in BOOLEAN
    /\ inst \in [Inst -> InstType]

-----------------------------------------------------------------------------
(***************************************************************************)
(* "Successfully archived ... to HPSS!": the tasks and the server together *)
(* are an archive on tape.  A failure to send a restricted tarball is      *)
(* noted by the last line of its hpss_status log, of whichever attempt.    *)
(***************************************************************************)
TaskState(pc) ==
    CASE pc = "idle" -> "waiting" [] pc \in {"done", "dead"} -> pc [] OTHER -> "running"
TaskStates == [j \in Jobs |-> TaskState(client[j].pc)]
Tries == [j \in Jobs |-> client[j].try]
Noted == {f \in AllRestricted : \E a \in Attempts : <<a, f, "FAILURE">> \in todoLog}

Tape == INSTANCE TapeArchive WITH
    task <- TaskStates, tries <- Tries, tape <- hpss, noted <- Noted

ArchivesOnTape == Tape!Spec

Archived(j) == Standard[j] \cup Restricted[j] \subseteq hpss

\* A task whose own todo scripts have succeeded to the last has all its
\* tarballs on HPSS.
SentIsArchived ==
    \A j \in Jobs : client[j].pc = "done" /\ verify(jobid(j)) = "SUCCESS" => Archived(j)

\* "Check if the corresponding log has already been written": no script is
\* run by two instances of the service at once.
RunsOnce ==
    \A i, k \in Inst :
        inst[i].pc \in Doorman /\ inst[k].pc \in Doorman /\ inst[i].cur = inst[k].cur => i = k

\* "Remove the temporary directories/files": the directories of a task that
\* has succeeded are gone from the server.
CleanMeansGone ==
    \A j \in Jobs : client[j].pc = "done" => \A d \in dirs : d[1] # jobid(j)

\* The same as long as no transfer has failed, of which clean() takes any for
\* the removal: neither the requests of both sets, one after the other, nor
\* an overlapping instance or an outage leaves a directory behind.
CleanUnlessTransferFails == netFails = 0 => CleanMeansGone

\* "Retrieve the log file (if it exists) from the server and check if it
\* failed": a log that is just being started is not an error.
GivesUp(j) ==
    client[j].pc = "log" /\ client'[j].pc \in {"idle", "dead"} /\ UNCHANGED bounds
StartedLogIsNoError ==
    [][\A j \in Jobs : GivesUp(j) => log[server_job_dir(j)] # "empty"]_vars

\* A script that has been sent is run, and its log ends with a verdict,
\* unless the task has removed it.
ScriptsGetVerdict ==
    \A d \in Dirs : d \in scripts ~> (d \notin scripts \/ log[d] \in Lines)

\* "Check if it has been a while since this script had anything to do": once
\* no task sends anything any more, the service leaves the crontab.
IdleTurnsOff ==
    (initScript /\ \A j \in Jobs : client[j].pc \in {"done", "dead"}) ~> ~entry
=============================================================================
