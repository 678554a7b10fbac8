---------------------------- MODULE GlobusArchive ----------------------------
(***************************************************************************)
(* Archiving to HPSS through Globus.  On the client, a globus task         *)
(* (GlobusHpss) sends requests and scripts to the server and polls for     *)
(* what comes back.  On the server, cron starts init_xfer.sh once a        *)
(* minute; an instance serves the requests it finds and runs the           *)
(* run_doorman.sh scripts that have no log yet.  A doorman run fetches the *)
(* tarballs, puts them on HPSS and sends a status file per tarball back.   *)
(*                                                                         *)
(* The two sides share no memory and no clock, only files.  An attempt of  *)
(* a task that ends leaves everything on the server as it is; the next     *)
(* attempt has a jobid, and so directories, of its own.                    *)
(*                                                                         *)
(* The doorman's own steps, Globus, cron and HPSS are external.            *)
(***************************************************************************)
EXTENDS Integers

CONSTANTS
    Jobs,               \* the globus tasks that share the server home
    Standard,           \* Standard[j]: tarballs of task j without rstprod data
    Restricted,         \* Restricted[j]: those with rstprod data
    Inst,               \* instances of init_xfer.sh that may overlap
    MAXTRIES,           \* rocoto submits a task this many times
    max_wait_count,     \* polls before the client gives up (345 in the code)
    max_log_fails,      \* polls without a log that are tolerated (3 in the code)
    MaxNetFails,        \* bound on the transfers of the clients that fail
    MaxKills,           \* bound on the clients that are killed
    MaxReboots,         \* bound on the reboots of the server
    MaxDays             \* bound on the days that are counted

ASSUME GlobusAssumption ==
    /\ \A j, k \in Jobs : Standard[j] \cap Restricted[k] = {}
    /\ \A j, k \in Jobs : j # k =>
          Standard[j] \cap Standard[k] = {} /\ Restricted[j] \cap Restricted[k] = {}
    /\ MAXTRIES \in Nat \ {0} /\ max_wait_count \in Nat \ {0}
    /\ max_log_fails \in Nat /\ MaxNetFails \in Nat /\ MaxKills \in Nat
    /\ MaxReboots \in Nat /\ MaxDays \in Nat

\* An attempt of a task has a jobid of its own, and each of its two transfer
\* sets a server_job_dir.
Attempts == Jobs \X (1..MAXTRIES)
Sets == {"standard", "rstprod"}
Dirs == Attempts \X Sets
None == <<>>

AllRestricted == UNION {Restricted[j] : j \in Jobs}
locations(d) == IF d[2] = "standard" THEN Standard[d[1][1]] ELSE Restricted[d[1][1]]

VARIABLES
    client,     \* client[j]: the globus task j
    netFails, kills, reboots,
    initScript, \* init_xfer.sh is on the server
    mkdirReq,   \* mkdirReq[a]: the directory that attempt a's request names
    rmdirReq,
    jobDirs,    \* attempts with a directory under doorman/
    dirs,       \* their server_job_dirs
    scripts,    \* those of dirs that hold run_doorman.sh
    log,        \* run_doorman.log of each of dirs
    todoLog,    \* hpss_status logs: attempt, tarball, last line
    status,     \* status files in the clients' dropboxes, likewise
    hpss,       \* tarballs on HPSS
    active,     \* how old crontab_active.log is: "none", "old" or "recent"
    idle,       \* days since the time in last_runtime.log
    entry,      \* the service is in the server's crontab
    inst        \* inst[i]: an instance of init_xfer.sh

bounds == <<netFails, kills, reboots>>
requests == <<mkdirReq, rmdirReq>>
files == <<jobDirs, dirs, scripts, log>>
results == <<todoLog, status, hpss>>
service == <<active, idle, entry>>
vars == <<client, bounds, initScript, requests, files, results, service, inst>>

\* A client in try n, with status lists and counts as new.
Fresh(label, n, s) ==
    [pc |-> label, try |-> n, set |-> s, wait_count |-> 0, check_log_count |-> 0,
     completed |-> {}, successes |-> {}]
Off == [pc |-> "off", ids |-> {}, todo |-> {}, cur |-> None, left |-> {}, ack |-> "none"]

\* An instance with job directories and scripts to look at; and one that is at
\* work on a directory.
Scan(ids, todo) ==
    [pc |-> "scan", ids |-> ids, todo |-> todo, cur |-> None, left |-> {}, ack |-> "none"]
WorkOn(i, label, d, left, ack) ==
    [pc |-> label, ids |-> inst[i].ids, todo |-> inst[i].todo \ {d},
     cur |-> d, left |-> left, ack |-> ack]

Init ==
    /\ client = [j \in Jobs |-> Fresh("idle", 0, "standard")]
    /\ netFails = 0 /\ kills = 0 /\ reboots = 0
    /\ initScript = FALSE
    /\ mkdirReq = [a \in Attempts |-> None] /\ rmdirReq = [a \in Attempts |-> None]
    /\ jobDirs = {} /\ dirs = {} /\ scripts = {} /\ log = [d \in Dirs |-> "absent"]
    /\ todoLog = {} /\ status = {} /\ hpss = {}
    /\ active \in {"none", "old"} /\ idle = 0 /\ entry = TRUE
    /\ inst = [i \in Inst |-> Off]

-----------------------------------------------------------------------------
(***************************************************************************)
(* The client.                                                             *)
(***************************************************************************)
jobid(j) == <<j, client[j].try>>
server_job_dir(j) == <<jobid(j), client[j].set>>
Locations(j) == locations(server_job_dir(j))

\* A minute passes.  In that time an instance of the service does all that is
\* not a doorman run.
Doorman == {"process", "send"}
Minute == \A i \in Inst : inst[i].pc \in {"off"} \cup Doorman

GoTo(j, label) == client' = [client EXCEPT ![j].pc = label]

\* The attempt ends with an error; rocoto may submit the task again.
Abort(j) ==
    client' = [client EXCEPT ![j] =
        Fresh(IF client[j].try < MAXTRIES THEN "idle" ELSE "dead", client[j].try, "standard")]

\* execute_transfer_data starts on a transfer set with new status lists.
BeginSet(j, s, n) == client' = [client EXCEPT ![j] = Fresh("mkdir", n, s)]

Submit(j) ==
    /\ client[j].pc = "idle" /\ client[j].try < MAXTRIES
    /\ BeginSet(j, "standard", client[j].try + 1)
    /\ UNCHANGED <<bounds, initScript, requests, files, results, service, inst>>

\* A transfer the client cannot do without fails.
TransferFails(j) ==
    /\ client[j].pc \in {"mkdir", "init", "check", "send", "rmdir"}
    /\ netFails < MaxNetFails
    /\ netFails' = netFails + 1
    /\ Abort(j)
    /\ UNCHANGED <<kills, reboots, initScript, requests, files, results, service, inst>>

Kill(j) ==
    /\ client[j].pc \notin {"idle", "done", "dead"}
    /\ kills < MaxKills
    /\ kills' = kills + 1
    /\ Abort(j)
    /\ UNCHANGED <<netFails, reboots, initScript, requests, files, results, service, inst>>

\* _init_server: a request for the directory, then the script that cron runs.
RequestDir(j) ==
    /\ client[j].pc = "mkdir"
    /\ mkdirReq' = [mkdirReq EXCEPT ![jobid(j)] = server_job_dir(j)]
    /\ GoTo(j, "init")
    /\ UNCHANGED <<bounds, initScript, rmdirReq, files, results, service, inst>>

SendInitScript(j) ==
    /\ client[j].pc = "init"
    /\ initScript' = TRUE
    /\ GoTo(j, "check")
    /\ UNCHANGED <<bounds, requests, files, results, service, inst>>

\* After a minute, the log of the server's cron has to be recent.
CheckServer(j) ==
    /\ client[j].pc = "check" /\ Minute
    /\ IF active = "recent" THEN GoTo(j, "send") ELSE Abort(j)
    /\ UNCHANGED <<bounds, initScript, requests, files, results, service, inst>>

\* Sven has packed the tarballs; run_doorman.sh goes to the new directory.
SendScript(j) ==
    /\ client[j].pc = "send"
    /\ IF server_job_dir(j) \in dirs
       THEN scripts' = scripts \cup {server_job_dir(j)} /\ GoTo(j, "status")
       ELSE Abort(j) /\ UNCHANGED scripts
    /\ UNCHANGED <<bounds, initScript, requests, jobDirs, dirs, log, results, service, inst>>

\* Mistaken variant: the loop waits for the last status file.
LoopEnds_All(j) == client[j].completed = Locations(j)

LoopEnds(j) ==
    \/ client[j].completed = Locations(j)
    \/ client[j].wait_count = max_wait_count

\* Status files that were not there at an earlier turn.
Returned(j, line) == {f \in Locations(j) \ client[j].completed : <<jobid(j), f, line>> \in status}

\* One turn of the loop reads the new status files, and then the doorman's
\* log; after a failure the log is only for the reader.
ReadStatus(j) ==
    /\ client[j].pc = "status" /\ ~LoopEnds(j) /\ Minute
    /\ IF Returned(j, "FAILURE") = {}
       THEN client' = [client EXCEPT ![j].pc = "log",
                ![j].completed = @ \cup Returned(j, "SUCCESS"),
                ![j].successes = @ \cup Returned(j, "SUCCESS")]
       ELSE Abort(j)
    /\ UNCHANGED <<bounds, initScript, requests, files, results, service, inst>>

NextTurn(j) ==
    client' = [client EXCEPT ![j].pc = "status", ![j].wait_count = @ + 1]

\* The log is looked at as soon as it exists; its last line is the
\* verdict, and a log without a line ends the task with an IndexError.
ReadLog(j) ==
    /\ client[j].pc = "log"
    /\ log[server_job_dir(j)] # "absent"
    /\ IF log[server_job_dir(j)] \in {"empty", "FAILURE"} THEN Abort(j) ELSE NextTurn(j)
    /\ UNCHANGED <<bounds, initScript, requests, files, results, service, inst>>

LogNotRetrieved(j) ==
    /\ client[j].pc = "log"
    /\ \/ log[server_job_dir(j)] = "absent" /\ UNCHANGED netFails
       \/ netFails < MaxNetFails /\ netFails' = netFails + 1
    /\ IF client[j].check_log_count < max_log_fails
       THEN client' = [client EXCEPT ![j].pc = "status", ![j].wait_count = @ + 1,
                                     ![j].check_log_count = @ + 1]
       ELSE Abort(j)
    /\ UNCHANGED <<kills, reboots, initScript, requests, files, results, service, inst>>

\* clean goes on to a directory.
BeginRemoval(j, s) ==
    client' = [client EXCEPT ![j] = Fresh("rmdir", client[j].try, s)]

\* The set is over: the restricted one follows, and then clean.
LeaveLoop(j) ==
    /\ client[j].pc = "status" /\ LoopEnds(j)
    /\ IF client[j].successes # Locations(j) THEN Abort(j)
       ELSE IF client[j].set = "standard" THEN BeginSet(j, "rstprod", client[j].try)
       ELSE BeginRemoval(j, "standard")
    /\ UNCHANGED <<bounds, initScript, requests, files, results, service, inst>>

RequestRemoval(j) ==
    /\ client[j].pc = "rmdir"
    /\ rmdirReq' = [rmdirReq EXCEPT ![jobid(j)] = server_job_dir(j)]
    /\ GoTo(j, "gone")
    /\ UNCHANGED <<bounds, initScript, mkdirReq, files, results, service, inst>>

\* Mistaken variant: only the first directory is removed.
NextToRemove_First(set) == "none"

\* clean goes through _server_job_dirs.
NextToRemove(set) == IF set = "standard" THEN "rstprod" ELSE "none"

\* After five minutes, a request that can still be fetched is an error; one
\* that cannot is taken for served, whatever the reason.
CheckRemoved(j) ==
    /\ client[j].pc = "gone" /\ Minute
    /\ \/ rmdirReq[jobid(j)] # None /\ Abort(j) /\ UNCHANGED netFails
       \/ /\ \/ rmdirReq[jobid(j)] = None /\ UNCHANGED netFails
             \/ netFails < MaxNetFails /\ netFails' = netFails + 1
          /\ LET next == NextToRemove(client[j].set) IN
             IF next \in Sets
             THEN BeginRemoval(j, next)
             ELSE GoTo(j, "done")
    /\ UNCHANGED <<kills, reboots, initScript, requests, files, results, service, inst>>

Client(j) ==
    \/ Submit(j) \/ RequestDir(j) \/ SendInitScript(j) \/ CheckServer(j) \/ SendScript(j)
    \/ ReadStatus(j) \/ ReadLog(j) \/ LogNotRetrieved(j) \/ LeaveLoop(j)
    \/ RequestRemoval(j) \/ CheckRemoved(j)

-----------------------------------------------------------------------------
(***************************************************************************)
(* The server: an instance of init_xfer.sh.                                *)
(***************************************************************************)
\* Cron starts an instance a minute.
Start(i) ==
    /\ inst[i].pc = "off"
    /\ Minute
    /\ entry /\ initScript
    /\ active' = "recent"
    /\ inst' = [inst EXCEPT ![i].pc = "mkdir"]
    /\ UNCHANGED <<client, bounds, initScript, requests, files, results, idle, entry>>

ServeMkdir(i) ==
    /\ inst[i].pc = "mkdir"
    /\ LET asked == {a \in Attempts : mkdirReq[a] # None} IN
       /\ dirs' = dirs \cup {mkdirReq[a] : a \in asked}
       /\ jobDirs' = jobDirs \cup asked
       /\ mkdirReq' = [a \in Attempts |-> None]
       /\ idle' = IF asked = {} THEN idle ELSE 0
    /\ inst' = [inst EXCEPT ![i] = Scan(jobDirs', {})]
    /\ UNCHANGED <<client, bounds, initScript, rmdirReq, scripts, log, results, active, entry>>

Scanning(i) == inst[i].pc = "scan" /\ inst[i].todo = {}

EnterDir(i) ==
    /\ Scanning(i)
    /\ \E a \in inst[i].ids :
          inst' = [inst EXCEPT ![i] = Scan(inst[i].ids \ {a}, {d \in scripts : d[1] = a})]
    /\ idle' = 0
    /\ UNCHANGED <<client, bounds, initScript, requests, files, results, active, entry>>

ToRun(d) == d \in scripts /\ log[d] = "absent"

TestLog(i) ==
    /\ inst[i].pc = "scan"
    /\ \E d \in inst[i].todo :
          inst' = [inst EXCEPT ![i] = IF ToRun(d) THEN WorkOn(i, "touch", d, {}, "none")
                                      ELSE Scan(inst[i].ids, inst[i].todo \ {d})]
    /\ UNCHANGED <<client, bounds, initScript, requests, files, results, service>>

\* What is written to a directory that was removed is lost.
WriteLog(d, line) == log' = IF d \in dirs THEN [log EXCEPT ![d] = line] ELSE log

\* Mistaken variant: a run that fails stops before the last line.
Verdict_Success(d, line) == IF line = "SUCCESS" THEN WriteLog(d, line) ELSE UNCHANGED log

Verdict(d, line) == WriteLog(d, line)

BackToScan(i) == inst' = [inst EXCEPT ![i] = Scan(inst[i].ids, inst[i].todo)]

Touch(i) ==
    /\ inst[i].pc = "touch"
    /\ WriteLog(inst[i].cur, "empty")
    /\ IF inst[i].cur \in scripts THEN inst' = [inst EXCEPT ![i].pc = "begin"] ELSE BackToScan(i)
    /\ UNCHANGED <<client, bounds, initScript, requests, jobDirs, dirs, scripts, results, service>>

-----------------------------------------------------------------------------
(***************************************************************************)
(* run_doorman.sh.                                                         *)
(***************************************************************************)
DoormanBegins(i) ==
    /\ inst[i].pc = "begin"
    /\ WriteLog(inst[i].cur, "text")
    /\ IF inst[i].cur \in dirs
       THEN inst' = [inst EXCEPT ![i] =
                        WorkOn(i, "process", inst[i].cur, locations(inst[i].cur), "none")]
       ELSE BackToScan(i)
    /\ UNCHANGED <<client, bounds, initScript, requests, jobDirs, dirs, scripts, results, service>>

Last(a, f, line) == {r \in todoLog : r[1] # a \/ r[2] # f} \cup {<<a, f, line>>}

\* todo.sh and todo_rstprod.sh, with the tarball in GENERAL_DELIVERY.  A
\* restricted one that could not be sent or protected is removed from HPSS,
\* unless that fails too; a standard one that could not be sent leaves an
\* earlier copy there.
Todo(i, f) ==
    /\ inst[i].pc = "process" /\ f \in inst[i].left
    /\ \/ /\ inst[i].cur \in dirs
          /\ hpss' = hpss \cup {f}
          /\ todoLog' = Last(inst[i].cur[1], f, "SUCCESS")
       \/ /\ hpss' \in IF f \in AllRestricted /\ inst[i].cur \in dirs
                       THEN {hpss, hpss \ {f}, hpss \cup {f}} ELSE {hpss}
          /\ todoLog' = Last(inst[i].cur[1], f, "FAILURE")
    /\ inst' = [inst EXCEPT ![i].left = @ \ {f}]
    /\ UNCHANGED <<client, bounds, initScript, requests, files, status, service>>

\* Mistaken variant: the verdict is that of one of the logs.
verify_One(a) == IF \E r \in todoLog : r[1] = a /\ r[3] = "SUCCESS" THEN "SUCCESS" ELSE "FAILURE"

\* verify.sh looks at all the hpss_status logs of the attempt.
verify(a) == IF \A r \in todoLog : r[1] = a => r[3] = "SUCCESS" THEN "SUCCESS" ELSE "FAILURE"

Acknowledge(i) ==
    /\ inst[i].pc = "process" /\ inst[i].left = {}
    /\ locations(inst[i].cur) # {}
    /\ inst' = [inst EXCEPT ![i] = WorkOn(i, "send", inst[i].cur, locations(inst[i].cur),
                                          verify(inst[i].cur[1]))]
    /\ UNCHANGED <<client, bounds, initScript, requests, files, results, service>>

SendStatus(i, f) ==
    /\ inst[i].pc = "send" /\ f \in inst[i].left
    /\ status' = {r \in status : r[1] # inst[i].cur[1] \/ r[2] # f}
                    \cup {<<inst[i].cur[1], f, inst[i].ack>>}
    /\ inst' = [inst EXCEPT ![i].left = @ \ {f}]
    /\ UNCHANGED <<client, bounds, initScript, requests, files, todoLog, hpss, service>>

DoormanEnds(i) ==
    /\ inst[i].pc = "send" /\ inst[i].left = {}
    /\ Verdict(inst[i].cur, "SUCCESS")
    /\ BackToScan(i)
    /\ UNCHANGED <<client, bounds, initScript, requests, jobDirs, dirs, scripts, results, service>>

\* Any of the doorman's scripts fails; without a package receive.sh does.
DoormanFails(i) ==
    /\ inst[i].pc \in {"process", "send"}
    /\ Verdict(inst[i].cur, "FAILURE")
    /\ BackToScan(i)
    /\ UNCHANGED <<client, bounds, initScript, requests, jobDirs, dirs, scripts, results, service>>

-----------------------------------------------------------------------------
(***************************************************************************)
(* The rest of the instance: removals, and the check for a service that    *)
(* has had nothing to do for more than three days.                         *)
(***************************************************************************)
ScanEnds(i) ==
    /\ Scanning(i) /\ inst[i].ids = {}
    /\ inst' = [inst EXCEPT ![i].pc = "rmdir"]
    /\ UNCHANGED <<client, bounds, initScript, requests, files, results, service>>

RemoveDir(i) ==
    /\ inst[i].pc = "rmdir"
    /\ \E a \in Attempts :
          LET d == rmdirReq[a] IN
          /\ d # None
          /\ dirs' = dirs \ {d} /\ scripts' = scripts \ {d}
          /\ log' = [log EXCEPT ![d] = "absent"]
          /\ inst' = [inst EXCEPT ![i] = WorkOn(i, "rmreq", d, {}, "none")]
    /\ idle' = 0
    /\ UNCHANGED <<client, bounds, initScript, requests, jobDirs, results, active, entry>>

RemoveRequest(i) ==
    /\ inst[i].pc = "rmreq"
    /\ rmdirReq' = [rmdirReq EXCEPT ![inst[i].cur[1]] = None]
    /\ inst' = [inst EXCEPT ![i] = WorkOn(i, "rmdir", None, {}, "none")]
    /\ UNCHANGED <<client, bounds, initScript, mkdirReq, files, results, service>>

\* The crontab without the service is piped into "crontab -l", which lists
\* the crontab and reads nothing.
TurnOff == entry' = entry

CheckIdle(i) ==
    /\ inst[i].pc = "rmdir"
    /\ \A a \in Attempts : rmdirReq[a] = None
    /\ IF idle > 3 THEN TurnOff ELSE entry' = entry
    /\ inst' = [inst EXCEPT ![i] = Off]
    /\ UNCHANGED <<client, bounds, initScript, requests, files, results, active, idle>>

Server(i) ==
    \/ ServeMkdir(i) \/ EnterDir(i) \/ TestLog(i) \/ Touch(i)
    \/ DoormanBegins(i) \/ Acknowledge(i) \/ DoormanEnds(i) \/ DoormanFails(i)
    \/ \E f \in inst[i].left : Todo(i, f) \/ SendStatus(i, f)
    \/ ScanEnds(i) \/ RemoveDir(i) \/ RemoveRequest(i) \/ CheckIdle(i)

-----------------------------------------------------------------------------
\* A day passes, which is longer than any instance runs.
Day ==
    /\ idle < MaxDays /\ \A i \in Inst : inst[i].pc = "off"
    /\ idle' = idle + 1
    /\ UNCHANGED <<client, bounds, initScript, requests, files, results, active, entry, inst>>

\* The server goes down: what runs on it is gone, its files are not, and the
\* log of its cron may become older than ten minutes.
Reboot ==
    /\ reboots < MaxReboots
    /\ reboots' = reboots + 1
    /\ inst' = [i \in Inst |-> Off]
    /\ active' \in {active} \cup (IF active = "recent" THEN {"old"} ELSE {})
    /\ UNCHANGED <<client, netFails, kills, initScript, requests, files, results, idle, entry>>

\* All tasks are over, one way or the other; the service goes on.
Terminated == (\A j \in Jobs : client[j].pc \in {"done", "dead"}) /\ UNCHANGED vars

Next ==
    \/ \E j \in Jobs : Client(j) \/ TransferFails(j) \/ Kill(j)
    \/ \E i \in Inst : Start(i) \/ Server(i)
    \/ Day \/ Reboot \/ Terminated

Spec == Init /\ [][Next]_vars

\* Clients, instances and cron go on, and time passes.
FairSpec ==
    /\ Spec
    /\ \A j \in Jobs : WF_vars(Client(j))
    /\ \A i \in Inst : WF_vars(Start(i)) /\ WF_vars(Server(i))
    /\ SF_vars(Day)
=============================================================================
