---------------------------- MODULE GlobusProofs ----------------------------
(***************************************************************************)
(* Theorems about GlobusArchive, for any tasks, tarballs, instances, tries *)
(* and bounds.                                                             *)
(***************************************************************************)
EXTENDS GlobusProps, TLAPS

-----------------------------------------------------------------------------
(* Types.                                                                  *)

\* A client that polls has polls left; an instance has a directory in the steps
\* that are about one, and a verdict when it sends one; a request names a directory of its own attempt.
Shape ==
    /\ \A j \in Jobs :
          /\ client[j].pc = "log" => client[j].wait_count < max_wait_count
          /\ client[j].pc # "idle" => client[j].try > 0
    /\ \A i \in Inst :
          /\ inst[i].pc \in {"touch", "begin", "rmreq"} \cup Doorman => inst[i].cur \in Dirs
          /\ inst[i].pc = "send" => inst[i].ack \in Lines
    /\ \A a \in Attempts :
          /\ mkdirReq[a] # None => mkdirReq[a][1] = a
          /\ rmdirReq[a] # None => rmdirReq[a][1] = a

LEMMA DirsAreDirs ==
    /\ \A d \in Dirs : d = <<d[1], d[2]>> /\ d[1] \in Attempts /\ d[2] \in Sets
    /\ \A a \in Attempts, s \in Sets : <<a, s>> \in Dirs
    /\ \A a \in Attempts : a = <<a[1], a[2]>> /\ a[1] \in Jobs /\ a[2] \in 1..MAXTRIES
    /\ \A j \in Jobs, n \in 1..MAXTRIES : <<j, n>> \in Attempts
    /\ None \notin Dirs
BY DEF Dirs, Attempts, None

LEMMA LocationsType == \A d \in Dirs : locations(d) \subseteq Tarballs
BY DirsAreDirs DEF locations, Tarballs

LEMMA InitTypeOK == Init => TypeOK /\ Shape
<1> SUFFICES ASSUME Init PROVE TypeOK /\ Shape
    OBVIOUS
<1> USE DEF Init
<1>1. client \in [Jobs -> ClientType]
    BY GlobusAssumption DEF Fresh, ClientType, Sets
<1>2. inst \in [Inst -> InstType]
    BY DEF Off, InstType
<1>3. initScript \in BOOLEAN /\ entry \in BOOLEAN
    OBVIOUS
<1>4. 0 \in 0..MaxNetFails /\ 0 \in 0..MaxKills /\ 0 \in 0..MaxReboots /\ 0 \in 0..MaxDays
    BY GlobusAssumption
<1>5. TypeOK
    BY <1>1, <1>2, <1>3, <1>4 DEF TypeOK
<1>6. Shape
    BY GlobusAssumption DEF Shape, Fresh, Off, Doorman
<1> QED
    BY <1>5, <1>6

\* The clients' part of the types.
ClientsOK ==
    /\ client \in [Jobs -> ClientType]
    /\ \A j \in Jobs :
          /\ client[j].pc = "log" => client[j].wait_count < max_wait_count
          /\ client[j].pc # "idle" => client[j].try > 0

LEMMA AbortOK ==
    ASSUME ClientsOK, NEW j \in Jobs, Abort(j), client[j].pc # "idle"
    PROVE  ClientsOK'
BY GlobusAssumption DEF ClientsOK, Abort, Fresh, ClientType, Sets

LEMMA GoToOK ==
    ASSUME ClientsOK, NEW j \in Jobs, client[j].pc # "idle",
           NEW label \in {"init", "check", "send", "status", "gone", "done"}, GoTo(j, label)
    PROVE  ClientsOK'
BY DEF ClientsOK, GoTo, ClientType

LEMMA NextTurnOK ==
    ASSUME ClientsOK, NEW j \in Jobs, client[j].pc = "log", NextTurn(j)
    PROVE  ClientsOK'
BY GlobusAssumption DEF ClientsOK, NextTurn, ClientType

LEMMA RemovalOK ==
    ASSUME ClientsOK, NEW j \in Jobs, client[j].pc # "idle", NEW s \in Sets,
           BeginRemoval(j, s)
    PROVE  ClientsOK'
BY GlobusAssumption DEF ClientsOK, BeginRemoval, Fresh, ClientType

LEMMA ClientStepOK ==
    ASSUME ClientsOK, NEW j \in Jobs, Client(j) \/ TransferFails(j) \/ Kill(j)
    PROVE  ClientsOK'
<1>1. CASE Submit(j)
    BY <1>1, GlobusAssumption DEF Submit, BeginSet, Fresh, ClientsOK, ClientType, Sets
<1>2. CASE RequestDir(j)
    BY <1>2, GoToOK DEF RequestDir
<1>3. CASE SendInitScript(j)
    BY <1>3, GoToOK DEF SendInitScript
<1>4. CASE CheckServer(j)
    BY <1>4, GoToOK, AbortOK DEF CheckServer
<1>5. CASE SendScript(j)
    BY <1>5, GoToOK, AbortOK DEF SendScript
<1>6. CASE ReadStatus(j)
  <2>1. CASE Returned(j, "FAILURE") = {}
    <3>1. jobid(j) \in Attempts /\ server_job_dir(j) \in Dirs
        BY <1>6, DirsAreDirs, GlobusAssumption
           DEF ReadStatus, ClientsOK, ClientType, jobid, server_job_dir
    <3>2. Returned(j, "SUCCESS") \subseteq Tarballs
        BY <3>1, LocationsType DEF Returned, Locations
    <3>3. client[j].wait_count < max_wait_count
        BY <1>6, GlobusAssumption DEF ReadStatus, LoopEnds, ClientsOK, ClientType
    <3> QED
        BY <1>6, <2>1, <3>2, <3>3 DEF ReadStatus, ClientsOK, ClientType
  <2>2. CASE Returned(j, "FAILURE") # {}
      BY <1>6, <2>2, AbortOK DEF ReadStatus
  <2> QED
      BY <2>1, <2>2
<1>7. CASE ReadLog(j)
    BY <1>7, AbortOK, NextTurnOK DEF ReadLog
<1>8. CASE LogNotRetrieved(j)
  <2>1. CASE client[j].check_log_count < max_log_fails
      BY <1>8, <2>1, GlobusAssumption DEF LogNotRetrieved, ClientsOK, ClientType
  <2>2. CASE ~(client[j].check_log_count < max_log_fails)
      BY <1>8, <2>2, AbortOK DEF LogNotRetrieved
  <2> QED
      BY <2>1, <2>2
<1>9. CASE LeaveLoop(j)
  <2>1. CASE Abort(j)
      BY <1>9, <2>1, AbortOK DEF LeaveLoop
  <2>2. CASE BeginSet(j, "rstprod", client[j].try)
      BY <1>9, <2>2, GlobusAssumption
         DEF LeaveLoop, BeginSet, Fresh, ClientsOK, ClientType, Sets
  <2>3. CASE BeginRemoval(j, "standard")
      BY <1>9, <2>3, RemovalOK DEF LeaveLoop, Sets
  <2> QED
      BY <1>9, <2>1, <2>2, <2>3 DEF LeaveLoop
<1>10. CASE RequestRemoval(j)
    BY <1>10, GoToOK DEF RequestRemoval
<1>11. CASE CheckRemoved(j)
  <2>1. CASE Abort(j)
      BY <1>11, <2>1, AbortOK DEF CheckRemoved
  <2>2. CASE GoTo(j, "done")
      BY <1>11, <2>2, GoToOK DEF CheckRemoved
  <2>3. CASE \E s \in Sets : BeginRemoval(j, s)
      BY <1>11, <2>3, RemovalOK DEF CheckRemoved
  <2> QED
      BY <1>11, <2>1, <2>2, <2>3 DEF CheckRemoved
<1>12. CASE TransferFails(j)
    BY <1>12, AbortOK DEF TransferFails
<1>13. CASE Kill(j)
    BY <1>13, AbortOK DEF Kill
<1> QED
    BY <1>1, <1>2, <1>3, <1>4, <1>5, <1>6, <1>7, <1>8, <1>9, <1>10, <1>11, <1>12, <1>13
       DEF Client

\* The instances' part.
InstsOK ==
    /\ inst \in [Inst -> InstType]
    /\ \A i \in Inst :
          /\ inst[i].pc \in {"touch", "begin", "rmreq"} \cup Doorman => inst[i].cur \in Dirs
          /\ inst[i].pc = "send" => inst[i].ack \in Lines

\* What the two sides share.
FilesOK ==
    /\ mkdirReq \in [Attempts -> Dirs \cup {None}]
    /\ rmdirReq \in [Attempts -> Dirs \cup {None}]
    /\ jobDirs \subseteq Attempts
    /\ scripts \subseteq dirs /\ dirs \subseteq Dirs
    /\ \A d \in dirs : d[1] \in jobDirs
    /\ log \in [Dirs -> {"absent", "empty", "text"} \cup Lines]
    /\ \A d \in Dirs \ dirs : log[d] = "absent"
    /\ \A a \in Attempts :
          /\ mkdirReq[a] # None => mkdirReq[a][1] = a
          /\ rmdirReq[a] # None => rmdirReq[a][1] = a

ResultsOK ==
    /\ todoLog \subseteq Attempts \X Tarballs \X Lines
    /\ status \subseteq Attempts \X Tarballs \X Lines
    /\ hpss \subseteq Tarballs

CountsOK ==
    /\ netFails \in 0..MaxNetFails /\ kills \in 0..MaxKills /\ reboots \in 0..MaxReboots
    /\ active \in {"none", "old", "recent"} /\ idle \in 0..MaxDays

SwitchesOK == initScript \in BOOLEAN /\ entry \in BOOLEAN

LEMMA PartsOfType ==
    TypeOK /\ Shape <=>
        ClientsOK /\ InstsOK /\ FilesOK /\ ResultsOK /\ CountsOK /\ SwitchesOK
BY DEF TypeOK, Shape, ClientsOK, InstsOK, FilesOK, ResultsOK, CountsOK, SwitchesOK

LEMMA BackToScanOK ==
    ASSUME InstsOK, NEW i \in Inst, BackToScan(i)
    PROVE  InstsOK'
BY DEF InstsOK, InstType, BackToScan, Scan, Doorman

LEMMA ServerInstsOK ==
    ASSUME ClientsOK, InstsOK, FilesOK, ResultsOK, NEW i \in Inst, Start(i) \/ Server(i)
    PROVE  InstsOK'
<1> USE DEF InstsOK, InstType, Scan, WorkOn
<1>1. CASE Start(i)
    BY <1>1 DEF Start, Doorman
<1>2. CASE ServeMkdir(i)
  <2>1. jobDirs' \subseteq Attempts
      BY <1>2 DEF ServeMkdir, FilesOK
  <2> QED
      BY <1>2, <2>1 DEF ServeMkdir, Doorman
<1>3. CASE EnterDir(i)
  <2>1. \A a \in Attempts : {d \in scripts : d[1] = a} \subseteq Dirs
      BY DEF FilesOK
  <2> QED
      BY <1>3, <2>1 DEF EnterDir, Scanning, Doorman
<1>4. CASE TestLog(i)
    BY <1>4 DEF TestLog, ToRun, Doorman, None
<1>5. CASE Touch(i)
    BY <1>5, BackToScanOK DEF Touch, Doorman
<1>6. CASE DoormanBegins(i)
    BY <1>6, BackToScanOK, LocationsType DEF DoormanBegins, Doorman
<1>7. CASE Acknowledge(i)
    BY <1>7, LocationsType DEF Acknowledge, Doorman, verify, Lines
<1>8. CASE DoormanEnds(i)
    BY <1>8, BackToScanOK DEF DoormanEnds
<1>9. CASE DoormanFails(i)
    BY <1>9, BackToScanOK DEF DoormanFails
<1>10. CASE \E f \in inst[i].left : Todo(i, f) \/ SendStatus(i, f)
    BY <1>10 DEF Todo, SendStatus
<1>11. CASE ScanEnds(i)
    BY <1>11 DEF ScanEnds, Doorman
<1>12. CASE RemoveDir(i)
    BY <1>12 DEF RemoveDir, FilesOK
<1>13. CASE RemoveRequest(i)
    BY <1>13 DEF RemoveRequest, Doorman
<1>14. CASE CheckIdle(i)
    BY <1>14 DEF CheckIdle, Off, Doorman
<1> QED
    BY <1>1, <1>2, <1>3, <1>4, <1>5, <1>6, <1>7, <1>8, <1>9, <1>10, <1>11, <1>12, <1>13, <1>14
       DEF Server

LEMMA WriteLogOK ==
    ASSUME FilesOK, NEW d \in Dirs, NEW line \in {"empty", "text"} \cup Lines,
           WriteLog(d, line), UNCHANGED <<requests, jobDirs, dirs, scripts>>
    PROVE  FilesOK'
BY DEF FilesOK, WriteLog, requests

LEMMA FilesStepOK ==
    ASSUME ClientsOK, InstsOK, FilesOK, [Next]_vars
    PROVE  FilesOK'
<1>1. ASSUME NEW j \in Jobs, client[j].pc # "idle"
      PROVE  jobid(j) \in Attempts /\ server_job_dir(j) \in Dirs
             /\ server_job_dir(j)[1] = jobid(j)
    BY <1>1, DirsAreDirs, GlobusAssumption
       DEF ClientsOK, ClientType, jobid, server_job_dir
<1>2. CASE UNCHANGED <<requests, files>>
    BY <1>2 DEF FilesOK, requests, files
<1>3. ASSUME NEW j \in Jobs, RequestDir(j)
      PROVE  FilesOK'
    BY <1>1, <1>3 DEF RequestDir, FilesOK, files
<1>4. ASSUME NEW j \in Jobs, SendScript(j)
      PROVE  FilesOK'
    BY <1>1, <1>4 DEF SendScript, FilesOK, requests
<1>5. ASSUME NEW j \in Jobs, RequestRemoval(j)
      PROVE  FilesOK'
    BY <1>1, <1>5 DEF RequestRemoval, FilesOK, files
<1>6. ASSUME NEW i \in Inst, ServeMkdir(i)
      PROVE  FilesOK'
    BY <1>6, DirsAreDirs DEF ServeMkdir, FilesOK
<1>7. ASSUME NEW i \in Inst, Touch(i) \/ DoormanBegins(i) \/ DoormanEnds(i) \/ DoormanFails(i)
      PROVE  FilesOK'
  <2>1. inst[i].cur \in Dirs
      BY <1>7 DEF Touch, DoormanBegins, DoormanEnds, DoormanFails, InstsOK, Doorman
  <2> QED
      BY <1>7, <2>1, WriteLogOK
         DEF Touch, DoormanBegins, DoormanEnds, DoormanFails, Verdict, Lines
<1>8. ASSUME NEW i \in Inst, RemoveDir(i)
      PROVE  FilesOK'
    BY <1>8 DEF RemoveDir, FilesOK, requests
<1>9. ASSUME NEW i \in Inst, RemoveRequest(i)
      PROVE  FilesOK'
    BY <1>9, DirsAreDirs DEF RemoveRequest, FilesOK, files, InstsOK
<1>10. ASSUME NEW j \in Jobs, Client(j) \/ TransferFails(j) \/ Kill(j)
       PROVE  \/ UNCHANGED <<requests, files>>
              \/ RequestDir(j) \/ SendScript(j) \/ RequestRemoval(j)
    BY <1>10 DEF Client, Submit, SendInitScript, CheckServer, ReadStatus, ReadLog,
                 LogNotRetrieved, LeaveLoop, CheckRemoved, TransferFails, Kill
<1>11. ASSUME NEW i \in Inst, Start(i) \/ Server(i)
       PROVE  \/ UNCHANGED <<requests, files>>
              \/ ServeMkdir(i) \/ Touch(i) \/ DoormanBegins(i) \/ DoormanEnds(i)
              \/ DoormanFails(i) \/ RemoveDir(i) \/ RemoveRequest(i)
    BY <1>11 DEF Start, Server, EnterDir, TestLog, Acknowledge, Todo, SendStatus,
                 ScanEnds, CheckIdle
<1>12. CASE Day \/ Reboot \/ UNCHANGED vars
    BY <1>2, <1>12 DEF Day, Reboot, vars
<1> QED
    BY <1>2, <1>3, <1>4, <1>5, <1>6, <1>7, <1>8, <1>9, <1>10, <1>11, <1>12
       DEF Next, Terminated

LEMMA ResultsStepOK ==
    ASSUME ClientsOK, InstsOK, FilesOK, ResultsOK, [Next]_vars
    PROVE  ResultsOK'
<1>1. CASE UNCHANGED results
    BY <1>1 DEF ResultsOK, results
<1>2. ASSUME NEW i \in Inst, NEW f, Todo(i, f)
      PROVE  ResultsOK'
  <2>1. inst[i].cur[1] \in Attempts /\ f \in Tarballs
      BY <1>2, DirsAreDirs DEF Todo, InstsOK, InstType, Doorman
  <2>2. hpss' \subseteq Tarballs
      BY <1>2, <2>1 DEF Todo, ResultsOK
  <2>3. todoLog' = Last(inst[i].cur[1], f, "SUCCESS") \/ todoLog' = Last(inst[i].cur[1], f, "FAILURE")
      BY <1>2 DEF Todo
  <2> QED
      BY <1>2, <2>1, <2>2, <2>3 DEF Todo, Last, ResultsOK, Lines
<1>3. ASSUME NEW i \in Inst, NEW f, SendStatus(i, f)
      PROVE  ResultsOK'
  <2>1. inst[i].cur[1] \in Attempts /\ f \in Tarballs /\ inst[i].ack \in Lines
      BY <1>3, DirsAreDirs DEF SendStatus, InstsOK, InstType, Doorman
  <2> QED
      BY <1>3, <2>1 DEF SendStatus, ResultsOK
<1>4. ASSUME NEW j \in Jobs, Client(j) \/ TransferFails(j) \/ Kill(j)
      PROVE  UNCHANGED results
    BY <1>4 DEF Client, Submit, RequestDir, SendInitScript, CheckServer, SendScript,
                ReadStatus, ReadLog, LogNotRetrieved, LeaveLoop, RequestRemoval,
                CheckRemoved, TransferFails, Kill
<1>5. ASSUME NEW i \in Inst, Start(i) \/ Server(i)
      PROVE  \/ UNCHANGED results
             \/ \E f \in inst[i].left : Todo(i, f) \/ SendStatus(i, f)
    BY <1>5 DEF Start, Server, ServeMkdir, EnterDir, TestLog, Touch, DoormanBegins,
                Acknowledge, DoormanEnds, DoormanFails, ScanEnds, RemoveDir,
                RemoveRequest, CheckIdle
<1>6. CASE Day \/ Reboot \/ UNCHANGED vars
    BY <1>1, <1>6 DEF Day, Reboot, vars
<1> QED
    BY <1>1, <1>2, <1>3, <1>4, <1>5, <1>6 DEF Next, Terminated

LEMMA CountsStepOK ==
    ASSUME CountsOK, [Next]_vars
    PROVE  CountsOK'
<1> USE GlobusAssumption DEF CountsOK
<1>1. ASSUME NEW j \in Jobs, Client(j) \/ TransferFails(j) \/ Kill(j)
      PROVE  CountsOK'
  <2>1. UNCHANGED service
      BY <1>1 DEF Client, Submit, RequestDir, SendInitScript, CheckServer, SendScript,
                  ReadStatus, ReadLog, LogNotRetrieved, LeaveLoop, RequestRemoval,
                  CheckRemoved, TransferFails, Kill
  <2>2. \/ UNCHANGED bounds
        \/ netFails < MaxNetFails /\ netFails' = netFails + 1 /\ UNCHANGED <<kills, reboots>>
        \/ kills < MaxKills /\ kills' = kills + 1 /\ UNCHANGED <<netFails, reboots>>
      BY <1>1 DEF Client, Submit, RequestDir, SendInitScript, CheckServer, SendScript,
                  ReadStatus, ReadLog, LogNotRetrieved, LeaveLoop, RequestRemoval,
                  CheckRemoved, TransferFails, Kill, bounds
  <2> QED
      BY <2>1, <2>2 DEF service, bounds
<1>2. ASSUME NEW i \in Inst, Start(i) \/ Server(i)
      PROVE  CountsOK'
  <2>1. UNCHANGED bounds
      BY <1>2 DEF Start, Server, ServeMkdir, EnterDir, TestLog, Touch, DoormanBegins,
                  Acknowledge, DoormanEnds, DoormanFails, Todo, SendStatus, ScanEnds,
                  RemoveDir, RemoveRequest, CheckIdle
  <2>2. active' \in {active, "recent"} /\ idle' \in {idle, 0}
      BY <1>2 DEF Start, Server, ServeMkdir, EnterDir, TestLog, Touch, DoormanBegins,
                  Acknowledge, DoormanEnds, DoormanFails, Todo, SendStatus, ScanEnds,
                  RemoveDir, RemoveRequest, CheckIdle, service
  <2> QED
      BY <2>1, <2>2 DEF bounds
<1>3. CASE Day
    BY <1>3 DEF Day, bounds
<1>4. CASE Reboot
    BY <1>4 DEF Reboot
<1>5. CASE UNCHANGED vars
    BY <1>5 DEF vars, bounds, service
<1> QED
    BY <1>1, <1>2, <1>3, <1>4, <1>5 DEF Next, Terminated

LEMMA SwitchesStepOK ==
    ASSUME SwitchesOK, [Next]_vars
    PROVE  SwitchesOK'
<1>1. ASSUME NEW j \in Jobs, Client(j) \/ TransferFails(j) \/ Kill(j)
      PROVE  initScript' \in {initScript, TRUE} /\ entry' = entry
    BY <1>1 DEF Client, Submit, RequestDir, SendInitScript, CheckServer, SendScript,
                ReadStatus, ReadLog, LogNotRetrieved, LeaveLoop, RequestRemoval,
                CheckRemoved, TransferFails, Kill, service
<1>2. ASSUME NEW i \in Inst, Start(i) \/ Server(i)
      PROVE  initScript' = initScript /\ entry' = entry
    BY <1>2 DEF Start, Server, ServeMkdir, EnterDir, TestLog, Touch, DoormanBegins,
                Acknowledge, DoormanEnds, DoormanFails, Todo, SendStatus, ScanEnds,
                RemoveDir, RemoveRequest, CheckIdle, TurnOff, service
<1>3. CASE Day \/ Reboot \/ UNCHANGED vars
    BY <1>3 DEF Day, Reboot, vars, service, SwitchesOK
<1> QED
    BY <1>1, <1>2, <1>3 DEF Next, Terminated, SwitchesOK

\* The types and the shape are inductive.
LEMMA StepTypeOK == TypeOK /\ Shape /\ [Next]_vars => TypeOK' /\ Shape'
<1> SUFFICES ASSUME TypeOK, Shape, [Next]_vars PROVE TypeOK' /\ Shape'
    OBVIOUS
<1>1. ClientsOK /\ InstsOK /\ FilesOK /\ ResultsOK /\ CountsOK /\ SwitchesOK
    BY PartsOfType
<1>2. ClientsOK'
  <2>1. ASSUME NEW i \in Inst, Start(i) \/ Server(i)
        PROVE  client' = client
      BY <2>1 DEF Start, Server, ServeMkdir, EnterDir, TestLog, Touch, DoormanBegins,
                  Acknowledge, DoormanEnds, DoormanFails, Todo, SendStatus, ScanEnds,
                  RemoveDir, RemoveRequest, CheckIdle
  <2>2. CASE client' = client
      BY <1>1, <2>2 DEF ClientsOK
  <2> QED
      BY <1>1, <2>1, <2>2, ClientStepOK DEF Next, Day, Reboot, Terminated, vars
<1>3. InstsOK'
  <2>1. ASSUME NEW j \in Jobs, Client(j) \/ TransferFails(j) \/ Kill(j)
        PROVE  inst' = inst
      BY <2>1 DEF Client, Submit, RequestDir, SendInitScript, CheckServer, SendScript,
                  ReadStatus, ReadLog, LogNotRetrieved, LeaveLoop, RequestRemoval,
                  CheckRemoved, TransferFails, Kill
  <2>2. CASE inst' = inst
      BY <1>1, <2>2 DEF InstsOK
  <2>3. CASE Reboot
      BY <2>3 DEF Reboot, InstsOK, InstType, Off, Doorman
  <2> QED
      BY <1>1, <2>1, <2>2, <2>3, ServerInstsOK DEF Next, Day, Terminated, vars
<1> QED
    BY <1>1, <1>2, <1>3, FilesStepOK, ResultsStepOK, CountsStepOK, SwitchesStepOK,
       PartsOfType DEF TypeOK, Shape, ClientsOK, InstsOK, FilesOK, ResultsOK, CountsOK,
       SwitchesOK

\* The variables keep their types: no client polls, tries or tolerates a missing
\* log more often than it may, whatever the server does, and no log of the
\* server outlives its directory.
THEOREM TypeCorrect == Spec => []TypeOK
<1> QED
    BY InitTypeOK, StepTypeOK, PTL DEF Spec

-----------------------------------------------------------------------------
(***************************************************************************)
(* A task that succeeds leaves no directory on the server, as long as no   *)
(* transfer of a client has failed.                                        *)
(***************************************************************************)

Live(j) == client[j].pc \notin {"idle", "dead"}
Transferring == {"mkdir", "init", "check", "send", "status", "log"}

\* The directory of a set is asked for once, and the script goes to it only
\* when it has been made.
AsksForDir(j) ==
    LET a == jobid(j)
        d == server_job_dir(j)
    IN  /\ client[j].pc = "mkdir" => mkdirReq[a] = None /\ d \notin dirs
        /\ client[j].pc \in {"init", "check", "send"} =>
              mkdirReq[a] \in {None, d} /\ (mkdirReq[a] = d => d \notin dirs)
        /\ client[j].pc \in {"status", "log", "rmdir", "gone", "done"} => mkdirReq[a] = None
        /\ client[j].pc \in Transferring /\ client[j].set = "standard" =>
              <<a, "rstprod">> \notin dirs

\* The directories are removed one after the other, and a request that is no
\* longer there was served.
RemovesDirs(j) ==
    LET a == jobid(j)
        d == server_job_dir(j)
    IN  /\ client[j].pc \in Transferring \cup {"rmdir", "done"} => rmdirReq[a] = None
        /\ client[j].pc = "gone" =>
              rmdirReq[a] \in {None, d} /\ (rmdirReq[a] = None => d \notin dirs)
        /\ client[j].pc \in {"rmdir", "gone"} /\ client[j].set = "rstprod" =>
              <<a, "standard">> \notin dirs
        /\ client[j].pc = "done" => \A s \in Sets : <<a, s>> \notin dirs

\* An instance that is about to remove a request of an attempt that goes on
\* has removed the directory the client is waiting for.
ServesRemoval(i, j) ==
    inst[i].pc = "rmreq" /\ Live(j) /\ inst[i].cur[1] = jobid(j) =>
        /\ client[j].pc = "gone"
        /\ inst[i].cur = server_job_dir(j)
        /\ inst[i].cur \notin dirs

\* Nothing is on the server of an attempt before it is made.
NothingAhead(j) ==
    \A n \in 1..MAXTRIES : n > client[j].try =>
        /\ mkdirReq[<<j, n>>] = None /\ rmdirReq[<<j, n>>] = None
        /\ \A s \in Sets : <<<<j, n>>, s>> \notin dirs
        /\ \A i \in Inst : inst[i].pc = "rmreq" => inst[i].cur[1] # <<j, n>>

JobClean(j) ==
    /\ NothingAhead(j)
    /\ Live(j) => AsksForDir(j) /\ RemovesDirs(j)
    /\ \A i \in Inst : ServesRemoval(i, j)

CleanInv == netFails = 0 => \A j \in Jobs : JobClean(j)

-----------------------------------------------------------------------------
LEMMA InitCleanInv == Init => CleanInv
<1> SUFFICES ASSUME Init, NEW j \in Jobs PROVE JobClean(j)
    BY DEF CleanInv
<1>1. NothingAhead(j)
    BY DirsAreDirs DEF Init, NothingAhead, Off
<1>2. ~Live(j) /\ \A i \in Inst : ServesRemoval(i, j)
    BY DEF Init, Live, Fresh, Off, ServesRemoval
<1> QED
    BY <1>1, <1>2 DEF JobClean

\* A live client's attempt and directory are of the kinds that requests name.
LEMMA LiveIds ==
    ASSUME TypeOK, Shape, NEW j \in Jobs, Live(j)
    PROVE  /\ client[j].try \in 1..MAXTRIES /\ client[j].set \in Sets
           /\ jobid(j) \in Attempts /\ server_job_dir(j) \in Dirs
           /\ jobid(j) = <<j, client[j].try>>
           /\ server_job_dir(j) = <<jobid(j), client[j].set>>
BY DirsAreDirs, GlobusAssumption DEF TypeOK, Shape, ClientType, Live, jobid, server_job_dir

\* The server's side as a job sees it: a step that leaves its requests alone,
\* makes no directory and begins no removal.
Quiet(k) ==
    /\ \A n \in 1..MAXTRIES : /\ mkdirReq'[<<k, n>>] = mkdirReq[<<k, n>>]
                               /\ rmdirReq'[<<k, n>>] = rmdirReq[<<k, n>>]
    /\ dirs' \subseteq dirs
    /\ \A i \in Inst : inst'[i].pc = "rmreq" => inst[i].pc = "rmreq" /\ inst'[i].cur = inst[i].cur

LEMMA QuietAhead ==
    ASSUME TypeOK, Shape, NEW k \in Jobs, Quiet(k), NothingAhead(k),
           client'[k].try = client[k].try
    PROVE  NothingAhead(k)'
BY DEF Quiet, NothingAhead

LEMMA QuietJob ==
    ASSUME TypeOK, Shape, NEW k \in Jobs, Quiet(k), JobClean(k), client'[k] = client[k]
    PROVE  JobClean(k)'
<1>1. NothingAhead(k)'
    BY QuietAhead DEF JobClean
<1>2. CASE ~Live(k)
    BY <1>1, <1>2 DEF JobClean, Live, ServesRemoval
<1>3. CASE Live(k)
  <2>1. mkdirReq'[jobid(k)] = mkdirReq[jobid(k)] /\ rmdirReq'[jobid(k)] = rmdirReq[jobid(k)]
      BY <1>3, LiveIds DEF Quiet
  <2>2. jobid(k)' = jobid(k) /\ server_job_dir(k)' = server_job_dir(k) /\ dirs' \subseteq dirs
      BY DEF jobid, server_job_dir, Quiet
  <2>3. AsksForDir(k)'
      BY <1>3, <2>1, <2>2 DEF JobClean, AsksForDir
  <2>4. RemovesDirs(k)'
      BY <1>3, <2>1, <2>2 DEF JobClean, RemovesDirs
  <2>5. \A i \in Inst : ServesRemoval(i, k)'
      BY <1>3, <2>2 DEF JobClean, ServesRemoval, Live, Quiet
  <2> QED
      BY <1>1, <2>3, <2>4, <2>5 DEF JobClean
<1> QED
    BY <1>2, <1>3

\* Requests become directories of their own attempts, and of no others.
LEMMA MkdirClean ==
    ASSUME TypeOK, Shape, NEW i \in Inst, ServeMkdir(i), NEW k \in Jobs, JobClean(k)
    PROVE  JobClean(k)'
<1>1. /\ \A a \in Attempts : mkdirReq'[a] = None
      /\ rmdirReq' = rmdirReq /\ client' = client
    BY DEF ServeMkdir
<1>2. \A a \in Attempts, s \in Sets :
          <<a, s>> \in dirs' => <<a, s>> \in dirs \/ mkdirReq[a] = <<a, s>>
    BY DEF ServeMkdir, Shape
<1>3. \A m \in Inst : inst'[m].pc = "rmreq" => inst[m].pc = "rmreq" /\ inst'[m].cur = inst[m].cur
    BY DEF ServeMkdir, Scan, TypeOK
<1>4. NothingAhead(k)'
  <2>1. ASSUME NEW n \in 1..MAXTRIES, n > client[k].try
        PROVE  /\ mkdirReq'[<<k, n>>] = None /\ rmdirReq'[<<k, n>>] = None
               /\ \A s \in Sets : <<<<k, n>>, s>> \notin dirs'
               /\ \A m \in Inst : inst'[m].pc = "rmreq" => inst'[m].cur[1] # <<k, n>>
    <3>1. <<k, n>> \in Attempts
        BY DirsAreDirs
    <3>2. mkdirReq[<<k, n>>] = None /\ rmdirReq[<<k, n>>] = None
          /\ (\A s \in Sets : <<<<k, n>>, s>> \notin dirs)
          /\ \A m \in Inst : inst[m].pc = "rmreq" => inst[m].cur[1] # <<k, n>>
        BY <2>1 DEF JobClean, NothingAhead
    <3>3. \A s \in Sets : None # <<<<k, n>>, s>>
        BY DEF None
    <3> QED
        BY <1>1, <1>2, <1>3, <3>1, <3>2, <3>3
  <2> QED
      BY <1>1, <2>1 DEF NothingAhead
<1>5. CASE ~Live(k)
    BY <1>1, <1>4, <1>5 DEF JobClean, Live, ServesRemoval
<1>6. CASE Live(k)
  <2> DEFINE a == jobid(k)
             d == server_job_dir(k)
  <2>1. a \in Attempts /\ d \in Dirs /\ client[k].set \in Sets /\ d = <<a, client[k].set>>
        /\ a' = a /\ d' = d
      BY <1>1, <1>6, LiveIds DEF jobid, server_job_dir
  <2>2. AsksForDir(k) /\ RemovesDirs(k)
      BY <1>6 DEF JobClean
  <2>3. None \notin Dirs /\ \A s \in Sets : None # <<a, s>>
      BY DirsAreDirs DEF None
  <2>4. \A s \in Sets : <<a, s>> \in dirs' => <<a, s>> \in dirs \/ mkdirReq[a] = <<a, s>>
      BY <1>2, <2>1
  <2>5. AsksForDir(k)'
    <3>1. client[k].pc = "mkdir" => d \notin dirs'
        BY <2>1, <2>2, <2>3, <2>4 DEF AsksForDir
    <3>2. client[k].pc \in Transferring /\ client[k].set = "standard" =>
              <<a, "rstprod">> \notin dirs'
        BY <2>1, <2>2, <2>3, <2>4 DEF AsksForDir, Transferring, Sets
    <3> QED
        BY <1>1, <2>1, <2>3, <3>1, <3>2 DEF AsksForDir
  <2>6. client[k].pc \in {"rmdir", "gone", "done"} =>
            \A s \in Sets : <<a, s>> \in dirs' => <<a, s>> \in dirs
      BY <2>2, <2>3, <2>4 DEF AsksForDir
  <2>7. RemovesDirs(k)'
      BY <1>1, <2>1, <2>2, <2>6 DEF RemovesDirs, Sets
  <2>8. \A m \in Inst : ServesRemoval(m, k)'
      BY <1>1, <1>3, <1>6, <2>1, <2>6 DEF JobClean, ServesRemoval, Live
  <2> QED
      BY <1>4, <2>5, <2>7, <2>8 DEF JobClean
<1> QED
    BY <1>5, <1>6

LEMMA RemoveDirClean ==
    ASSUME TypeOK, Shape, NEW i \in Inst, RemoveDir(i), NEW k \in Jobs, JobClean(k)
    PROVE  JobClean(k)'
<1>1. PICK b \in Attempts : /\ rmdirReq[b] # None
                            /\ dirs' = dirs \ {rmdirReq[b]}
                            /\ inst' = [inst EXCEPT ![i] = WorkOn(i, "rmreq", rmdirReq[b], {}, "none")]
    BY DEF RemoveDir
<1>2. UNCHANGED <<client, mkdirReq, rmdirReq>>
    BY DEF RemoveDir, requests
<1>3. /\ rmdirReq[b][1] = b
      /\ inst'[i].pc = "rmreq" /\ inst'[i].cur = rmdirReq[b]
      /\ \A m \in Inst : m # i => inst'[m] = inst[m]
    BY <1>1 DEF Shape, TypeOK, WorkOn
<1>4. NothingAhead(k)'
    BY <1>1, <1>2, <1>3 DEF JobClean, NothingAhead
<1>5. CASE ~Live(k)
    BY <1>2, <1>4, <1>5 DEF JobClean, Live, ServesRemoval
<1>6. CASE Live(k)
  <2>1. /\ jobid(k) \in Attempts /\ server_job_dir(k) \in Dirs
        /\ jobid(k)' = jobid(k) /\ server_job_dir(k)' = server_job_dir(k)
      BY <1>2, <1>6, LiveIds DEF jobid, server_job_dir
  <2>2. AsksForDir(k) /\ RemovesDirs(k)
      BY <1>6 DEF JobClean
  <2>3. AsksForDir(k)'
      BY <1>1, <1>2, <2>1, <2>2 DEF AsksForDir
  <2>4. RemovesDirs(k)'
      BY <1>1, <1>2, <2>1, <2>2 DEF RemovesDirs
  <2>5. ServesRemoval(i, k)'
    <3>1. CASE b = jobid(k)
      <4>1. client[k].pc = "gone" /\ rmdirReq[b] = server_job_dir(k)
          BY <1>1, <1>6, <2>2, <3>1 DEF RemovesDirs, Live, Transferring, TypeOK, ClientType
      <4> QED
          BY <1>1, <1>2, <1>3, <2>1, <4>1 DEF ServesRemoval
    <3>2. CASE b # jobid(k)
        BY <1>3, <2>1, <3>2 DEF ServesRemoval
    <3> QED
        BY <3>1, <3>2
  <2>6. ASSUME NEW m \in Inst, m # i
        PROVE  ServesRemoval(m, k)'
      BY <1>1, <1>2, <1>3, <1>6, <2>1, <2>6 DEF JobClean, ServesRemoval, Live
  <2> QED
      BY <1>4, <2>3, <2>4, <2>5, <2>6 DEF JobClean
<1> QED
    BY <1>5, <1>6

LEMMA RemoveRequestClean ==
    ASSUME TypeOK, Shape, NEW i \in Inst, RemoveRequest(i), NEW k \in Jobs, JobClean(k)
    PROVE  JobClean(k)'
<1>1. /\ rmdirReq' = [rmdirReq EXCEPT ![inst[i].cur[1]] = None]
      /\ UNCHANGED <<client, mkdirReq, dirs>>
      /\ inst[i].pc = "rmreq" /\ inst'[i].pc = "rmdir"
      /\ \A m \in Inst : m # i => inst'[m] = inst[m]
    BY DEF RemoveRequest, WorkOn, TypeOK, files
<1>2. NothingAhead(k)'
    BY <1>1 DEF JobClean, NothingAhead, TypeOK
<1>3. CASE ~Live(k)
    BY <1>1, <1>2, <1>3 DEF JobClean, Live, ServesRemoval
<1>4. CASE Live(k)
  <2>1. /\ jobid(k) \in Attempts /\ server_job_dir(k) \in Dirs
        /\ jobid(k)' = jobid(k) /\ server_job_dir(k)' = server_job_dir(k)
      BY <1>1, <1>4, LiveIds DEF jobid, server_job_dir
  <2>2. AsksForDir(k) /\ RemovesDirs(k)
      BY <1>4 DEF JobClean
  <2>3. AsksForDir(k)'
      BY <1>1, <2>1, <2>2 DEF AsksForDir
  <2>4. RemovesDirs(k)'
    <3>1. CASE inst[i].cur[1] = jobid(k)
      <4>1. client[k].pc = "gone" /\ server_job_dir(k) \notin dirs
          BY <1>1, <1>4, <3>1 DEF JobClean, ServesRemoval
      <4>2. rmdirReq'[jobid(k)] = None
          BY <1>1, <2>1, <3>1 DEF TypeOK
      <4> QED
          BY <1>1, <2>1, <2>2, <4>1, <4>2 DEF RemovesDirs, Transferring
    <3>2. CASE inst[i].cur[1] # jobid(k)
      <4>1. rmdirReq'[jobid(k)] = rmdirReq[jobid(k)]
          BY <1>1, <2>1, <3>2 DEF TypeOK
      <4> QED
          BY <1>1, <2>1, <2>2, <4>1 DEF RemovesDirs
    <3> QED
        BY <3>1, <3>2
  <2>5. \A m \in Inst : ServesRemoval(m, k)'
      BY <1>1, <1>4, <2>1 DEF JobClean, ServesRemoval, Live
  <2> QED
      BY <1>2, <2>3, <2>4, <2>5 DEF JobClean
<1> QED
    BY <1>3, <1>4

LEMMA ServerClean ==
    ASSUME TypeOK, Shape, NEW i \in Inst, Start(i) \/ Server(i), NEW k \in Jobs, JobClean(k)
    PROVE  JobClean(k)'
<1>1. CASE ServeMkdir(i) \/ RemoveDir(i) \/ RemoveRequest(i)
    BY <1>1, MkdirClean, RemoveDirClean, RemoveRequestClean
<1>2. CASE Start(i) \/ EnterDir(i) \/ TestLog(i) \/ Touch(i) \/ DoormanBegins(i)
           \/ Acknowledge(i) \/ DoormanEnds(i) \/ DoormanFails(i)
           \/ (\E f \in inst[i].left : Todo(i, f) \/ SendStatus(i, f))
           \/ ScanEnds(i) \/ CheckIdle(i)
  <2>1. UNCHANGED <<client, mkdirReq, rmdirReq, dirs>>
      BY <1>2 DEF Start, EnterDir, TestLog, Touch, DoormanBegins, Acknowledge, DoormanEnds,
                  DoormanFails, Todo, SendStatus, ScanEnds, CheckIdle, requests, files
  <2>2. inst'[i].pc # "rmreq" /\ \A m \in Inst : m # i => inst'[m] = inst[m]
      BY <1>2 DEF Start, EnterDir, TestLog, Touch, DoormanBegins, BackToScan, Acknowledge,
                  DoormanEnds, DoormanFails, Todo, SendStatus, ScanEnds, CheckIdle, Scan,
                  WorkOn, Off, TypeOK, InstType
  <2> QED
      BY <2>1, <2>2, QuietJob DEF Quiet
<1> QED
    BY <1>1, <1>2 DEF Server

\* No instance is removing a request of an attempt whose client does not wait
\* for it, or waits until all are done.
LEMMA NotServing ==
    ASSUME NEW j \in Jobs, JobClean(j), Live(j), client[j].pc # "gone" \/ Minute
    PROVE  \A i \in Inst : inst[i].pc = "rmreq" => inst[i].cur[1] # jobid(j)
BY DEF JobClean, ServesRemoval, Minute, Doorman

\* The steps of a client, on the server's side.
LEMMA ClientOnServer ==
    ASSUME TypeOK, Shape, NEW j \in Jobs, Client(j) \/ TransferFails(j) \/ Kill(j)
    PROVE  /\ UNCHANGED <<dirs, inst>>
           /\ mkdirReq' = mkdirReq \/ RequestDir(j)
           /\ rmdirReq' = rmdirReq \/ RequestRemoval(j)
BY DEF Client, Submit, RequestDir, SendInitScript, CheckServer, SendScript, ReadStatus,
       ReadLog, LogNotRetrieved, LeaveLoop, RequestRemoval, CheckRemoved, TransferFails,
       Kill, requests, files

LEMMA ClientAhead ==
    ASSUME TypeOK, Shape, NEW j \in Jobs, Client(j) \/ TransferFails(j) \/ Kill(j),
           NothingAhead(j)
    PROVE  NothingAhead(j)'
<1>1. client'[j].try \in {client[j].try, client[j].try + 1}
    BY DEF Client, Submit, BeginSet, RequestDir, SendInitScript, CheckServer, SendScript,
           ReadStatus, ReadLog, NextTurn, LogNotRetrieved, LeaveLoop, RequestRemoval,
           CheckRemoved, BeginRemoval, TransferFails, Kill, Abort, GoTo, Fresh, TypeOK,
           ClientType
<1>2. client[j].try \in Nat
    BY DEF TypeOK, ClientType
<1>3. ASSUME NEW n \in 1..MAXTRIES, n > client[j].try
      PROVE  mkdirReq'[<<j, n>>] = mkdirReq[<<j, n>>] /\ rmdirReq'[<<j, n>>] = rmdirReq[<<j, n>>]
  <2>1. <<j, n>> \in Attempts /\ <<j, n>> # jobid(j)
      BY <1>2, <1>3, DirsAreDirs DEF jobid
  <2>2. RequestDir(j) => mkdirReq'[<<j, n>>] = mkdirReq[<<j, n>>]
      BY <2>1 DEF RequestDir, TypeOK
  <2>3. RequestRemoval(j) => rmdirReq'[<<j, n>>] = rmdirReq[<<j, n>>]
      BY <2>1 DEF RequestRemoval, TypeOK
  <2> QED
      BY <2>2, <2>3, ClientOnServer
<1> QED
    BY <1>1, <1>2, <1>3, ClientOnServer DEF NothingAhead

\* What holds of a live client, put together.
AttemptClean(j) ==
    /\ AsksForDir(j) /\ RemovesDirs(j)
    /\ \A i \in Inst : inst[i].pc = "rmreq" => inst[i].cur[1] # jobid(j)

LEMMA SubmitClean ==
    ASSUME TypeOK, Shape, NEW j \in Jobs, Submit(j), JobClean(j)
    PROVE  AttemptClean(j)'
<1>1. /\ client'[j].pc = "mkdir" /\ client'[j].set = "standard"
      /\ client'[j].try = client[j].try + 1 /\ client[j].try < MAXTRIES
      /\ UNCHANGED <<mkdirReq, rmdirReq, dirs, inst>>
    BY DEF Submit, BeginSet, Fresh, TypeOK, requests, files
<1>2. client'[j].try \in 1..MAXTRIES /\ client'[j].try > client[j].try
    BY <1>1, GlobusAssumption DEF TypeOK, ClientType
<1>3. jobid(j)' = <<j, client'[j].try>> /\ server_job_dir(j)' = <<jobid(j)', "standard">>
    BY <1>1 DEF jobid, server_job_dir
<1>4. /\ mkdirReq[jobid(j)'] = None /\ rmdirReq[jobid(j)'] = None
      /\ \A s \in Sets : <<jobid(j)', s>> \notin dirs
      /\ \A i \in Inst : inst[i].pc = "rmreq" => inst[i].cur[1] # jobid(j)'
    BY <1>2, <1>3 DEF JobClean, NothingAhead
<1>5. AsksForDir(j)'
    BY <1>1, <1>3, <1>4 DEF AsksForDir, Sets
<1>6. RemovesDirs(j)'
    BY <1>1, <1>4 DEF RemovesDirs
<1> QED
    BY <1>1, <1>4, <1>5, <1>6 DEF AttemptClean

\* A step of a live client that stays in its attempt.
LEMMA StaysClean ==
    ASSUME TypeOK, Shape, NEW j \in Jobs, JobClean(j), netFails' = 0,
           Client(j), Live(j), Live(j)'
    PROVE  AttemptClean(j)'
<1> DEFINE a == jobid(j)
           d == server_job_dir(j)
<1>1. a \in Attempts /\ d \in Dirs /\ d = <<a, client[j].set>> /\ client[j].set \in Sets
      /\ a = <<j, client[j].try>>
    BY LiveIds
<1>2. AsksForDir(j) /\ RemovesDirs(j)
    BY DEF JobClean
<1>3. ~Abort(j)
    BY DEF Abort, Live, Fresh, TypeOK
<1>4. UNCHANGED <<dirs, inst>>
    BY ClientOnServer
<1>5. client[j].pc # "gone" \/ Minute => \A i \in Inst : inst[i].pc = "rmreq" => inst[i].cur[1] # a
    BY NotServing
<1>6. None # d
    BY <1>1, DirsAreDirs
<1> USE DEF AsksForDir, RemovesDirs, Transferring
<1>7. CASE RequestDir(j)
  <2>1. client[j].pc = "mkdir" /\ client'[j].pc = "init"
        /\ client'[j].set = client[j].set /\ client'[j].try = client[j].try
        /\ mkdirReq'[a] = d /\ rmdirReq' = rmdirReq
      BY <1>1, <1>7 DEF RequestDir, GoTo, TypeOK, ClientType
  <2>2. jobid(j)' = a /\ server_job_dir(j)' = d
      BY <2>1 DEF jobid, server_job_dir
  <2> QED
      BY <1>2, <1>4, <1>5, <2>1, <2>2 DEF AttemptClean
<1>8. CASE SendInitScript(j) \/ CheckServer(j)
  <2>1. client[j].pc \in {"init", "check"} /\ client'[j].pc \in {"check", "send"}
        /\ client'[j].set = client[j].set /\ client'[j].try = client[j].try
        /\ UNCHANGED <<mkdirReq, rmdirReq>>
      BY <1>3, <1>8 DEF SendInitScript, CheckServer, GoTo, TypeOK, ClientType, requests
  <2>2. jobid(j)' = a /\ server_job_dir(j)' = d
      BY <2>1 DEF jobid, server_job_dir
  <2> QED
      BY <1>2, <1>4, <1>5, <2>1, <2>2 DEF AttemptClean
<1>9. CASE SendScript(j)
  <2>1. client[j].pc = "send" /\ d \in dirs /\ client'[j].pc = "status"
        /\ client'[j].set = client[j].set /\ client'[j].try = client[j].try
        /\ UNCHANGED <<mkdirReq, rmdirReq>>
      BY <1>3, <1>9 DEF SendScript, GoTo, TypeOK, ClientType, requests
  <2>2. jobid(j)' = a /\ server_job_dir(j)' = d
      BY <2>1 DEF jobid, server_job_dir
  <2> QED
      BY <1>2, <1>4, <1>5, <2>1, <2>2 DEF AttemptClean
<1>10. CASE ReadStatus(j) \/ ReadLog(j) \/ LogNotRetrieved(j)
  <2>1. client[j].pc \in {"status", "log"} /\ client'[j].pc \in {"status", "log"}
        /\ client'[j].set = client[j].set /\ client'[j].try = client[j].try
        /\ UNCHANGED <<mkdirReq, rmdirReq>>
      BY <1>3, <1>10 DEF ReadStatus, ReadLog, LogNotRetrieved, NextTurn, TypeOK, ClientType, requests
  <2>2. jobid(j)' = a /\ server_job_dir(j)' = d
      BY <2>1 DEF jobid, server_job_dir
  <2> QED
      BY <1>2, <1>4, <1>5, <2>1, <2>2 DEF AttemptClean
<1>11. CASE LeaveLoop(j)
  <2>1. client[j].pc = "status" /\ client'[j].try = client[j].try
        /\ UNCHANGED <<mkdirReq, rmdirReq>>
        /\ \/ client[j].set = "standard" /\ client'[j].pc = "mkdir" /\ client'[j].set = "rstprod"
           \/ client'[j].pc = "rmdir" /\ client'[j].set = "standard"
      BY <1>3, <1>11 DEF LeaveLoop, BeginSet, BeginRemoval, Fresh, TypeOK, requests
  <2>2. jobid(j)' = a /\ server_job_dir(j)' = <<a, client'[j].set>>
      BY <2>1 DEF jobid, server_job_dir
  <2> QED
      BY <1>2, <1>4, <1>5, <2>1, <2>2 DEF AttemptClean
<1>12. CASE RequestRemoval(j)
  <2>1. client[j].pc = "rmdir" /\ client'[j].pc = "gone"
        /\ client'[j].set = client[j].set /\ client'[j].try = client[j].try
        /\ rmdirReq'[a] = d /\ mkdirReq' = mkdirReq
      BY <1>1, <1>12 DEF RequestRemoval, GoTo, TypeOK, ClientType
  <2>2. jobid(j)' = a /\ server_job_dir(j)' = d
      BY <2>1 DEF jobid, server_job_dir
  <2> QED
      BY <1>2, <1>4, <1>5, <1>6, <2>1, <2>2 DEF AttemptClean
<1>13. CASE CheckRemoved(j)
  <2>1. client[j].pc = "gone" /\ Minute /\ rmdirReq[a] = None /\ UNCHANGED <<mkdirReq, rmdirReq>>
      BY <1>3, <1>13 DEF CheckRemoved, TypeOK, requests
  <2>2. client'[j].try = client[j].try
        /\ \/ client[j].set = "standard" /\ client'[j].pc = "rmdir" /\ client'[j].set = "rstprod"
           \/ client[j].set = "rstprod" /\ client'[j].pc = "done" /\ client'[j].set = "rstprod"
      BY <1>1, <1>3, <1>13 DEF CheckRemoved, NextToRemove, BeginRemoval, GoTo, Fresh, TypeOK,
                          ClientType, Sets
  <2>3. jobid(j)' = a /\ server_job_dir(j)' = <<a, client'[j].set>>
      BY <2>2 DEF jobid, server_job_dir
  <2> QED
      BY <1>1, <1>2, <1>4, <1>5, <2>1, <2>2, <2>3 DEF AttemptClean, Sets
<1> QED
    BY <1>7, <1>8, <1>9, <1>10, <1>11, <1>12, <1>13 DEF Client, Submit, Live

LEMMA ClientClean ==
    ASSUME TypeOK, Shape, NEW j \in Jobs, Client(j) \/ TransferFails(j) \/ Kill(j),
           netFails' = 0, JobClean(j)
    PROVE  JobClean(j)'
<1>1. NothingAhead(j)'
    BY ClientAhead DEF JobClean
<1>2. CASE ~Live(j)'
    BY <1>1, <1>2 DEF JobClean, ServesRemoval
<1>3. CASE Live(j)' /\ Live(j)
  <2>1. ~TransferFails(j) /\ ~Kill(j)
      BY <1>3 DEF TransferFails, Kill, Abort, Fresh, Live, TypeOK
  <2>2. AttemptClean(j)'
      BY <1>3, <2>1, StaysClean
  <2> QED
      BY <1>1, <2>2 DEF JobClean, AttemptClean, ServesRemoval
<1>4. CASE Live(j)' /\ ~Live(j)
  <2>1. Submit(j)
      BY <1>4 DEF Client, RequestDir, SendInitScript, CheckServer, SendScript, ReadStatus,
                  ReadLog, LogNotRetrieved, LeaveLoop, RequestRemoval, CheckRemoved,
                  TransferFails, Kill, Live, Abort, Fresh, TypeOK
  <2> QED
      BY <1>1, <2>1, SubmitClean DEF JobClean, AttemptClean, ServesRemoval
<1> QED
    BY <1>2, <1>3, <1>4

LEMMA OtherClean ==
    ASSUME TypeOK, Shape, NEW j \in Jobs, Client(j) \/ TransferFails(j) \/ Kill(j),
           NEW k \in Jobs, k # j, JobClean(k)
    PROVE  JobClean(k)'
<1>1. client'[k] = client[k]
    BY DEF Client, Submit, BeginSet, RequestDir, SendInitScript, CheckServer, SendScript,
           ReadStatus, ReadLog, NextTurn, LogNotRetrieved, LeaveLoop, RequestRemoval,
           CheckRemoved, BeginRemoval, TransferFails, Kill, Abort, GoTo, TypeOK
<1>2. ASSUME NEW n \in 1..MAXTRIES
      PROVE  mkdirReq'[<<k, n>>] = mkdirReq[<<k, n>>] /\ rmdirReq'[<<k, n>>] = rmdirReq[<<k, n>>]
  <2>1. <<k, n>> \in Attempts /\ <<k, n>> # jobid(j)
      BY DirsAreDirs DEF jobid
  <2>2. RequestDir(j) => mkdirReq'[<<k, n>>] = mkdirReq[<<k, n>>]
      BY <2>1 DEF RequestDir, TypeOK
  <2>3. RequestRemoval(j) => rmdirReq'[<<k, n>>] = rmdirReq[<<k, n>>]
      BY <2>1 DEF RequestRemoval, TypeOK
  <2> QED
      BY <2>2, <2>3, ClientOnServer
<1>3. Quiet(k)
    BY <1>2, ClientOnServer DEF Quiet
<1> QED
    BY <1>1, <1>3, QuietJob

LEMMA StepCleanInv == TypeOK /\ Shape /\ CleanInv /\ [Next]_vars => CleanInv'
<1> SUFFICES ASSUME TypeOK, Shape, CleanInv, [Next]_vars, netFails' = 0, NEW k \in Jobs
             PROVE  JobClean(k)'
    BY DEF CleanInv
<1>1. JobClean(k)
  <2>1. netFails \in Nat /\ netFails' \in {netFails, netFails + 1}
    <3>1. ASSUME NEW j \in Jobs, Client(j) \/ TransferFails(j) \/ Kill(j)
          PROVE  netFails' \in {netFails, netFails + 1}
        BY <3>1 DEF Client, Submit, RequestDir, SendInitScript, CheckServer, SendScript,
                    ReadStatus, ReadLog, LogNotRetrieved, LeaveLoop, RequestRemoval,
                    CheckRemoved, TransferFails, Kill, bounds
    <3>2. ASSUME NEW i \in Inst, Start(i) \/ Server(i)
          PROVE  netFails' = netFails
        BY <3>2 DEF Start, Server, ServeMkdir, EnterDir, TestLog, Touch, DoormanBegins,
                    Acknowledge, DoormanEnds, DoormanFails, Todo, SendStatus, ScanEnds,
                    RemoveDir, RemoveRequest, CheckIdle, bounds
    <3> QED
        BY <3>1, <3>2, GlobusAssumption DEF Next, Day, Reboot, Terminated, vars, bounds, TypeOK
  <2> QED
      BY <2>1 DEF CleanInv
<1>2. ASSUME NEW j \in Jobs, Client(j) \/ TransferFails(j) \/ Kill(j)
      PROVE  JobClean(k)'
    BY <1>1, <1>2, ClientClean, OtherClean
<1>3. ASSUME NEW i \in Inst, Start(i) \/ Server(i)
      PROVE  JobClean(k)'
    BY <1>1, <1>3, ServerClean
<1>4. CASE Day \/ Reboot \/ UNCHANGED vars
  <2>1. UNCHANGED <<client, mkdirReq, rmdirReq, dirs>>
        /\ \A i \in Inst : inst'[i] = inst[i] \/ inst'[i].pc = "off"
      BY <1>4 DEF Day, Reboot, vars, requests, files, Off
  <2> QED
      BY <1>1, <2>1, QuietJob DEF Quiet
<1> QED
    BY <1>2, <1>3, <1>4 DEF Next, Terminated

\* "Remove the temporary directories/files": as long as no transfer of a client
\* has failed, the directories of a task that has succeeded are gone from the
\* server, whatever overlaps, is killed, or goes down meanwhile.
THEOREM CleanWithoutFailures == Spec => []CleanUnlessTransferFails
<1>1. Init => TypeOK /\ Shape /\ CleanInv
    BY InitTypeOK, InitCleanInv
<1>2. TypeOK /\ Shape /\ CleanInv /\ [Next]_vars => (TypeOK /\ Shape /\ CleanInv)'
    BY StepTypeOK, StepCleanInv
<1>3. TypeOK /\ Shape /\ CleanInv => CleanUnlessTransferFails
  <2> SUFFICES ASSUME TypeOK, Shape, CleanInv, netFails = 0,
                      NEW j \in Jobs, client[j].pc = "done", NEW d \in dirs
               PROVE  d[1] # jobid(j)
      BY DEF CleanUnlessTransferFails, CleanMeansGone
  <2>1. \A s \in Sets : <<jobid(j), s>> \notin dirs
      BY DEF CleanInv, JobClean, RemovesDirs, Live
  <2>2. d = <<d[1], d[2]>> /\ d[2] \in Sets
      BY DirsAreDirs DEF TypeOK
  <2> QED
      BY <2>1, <2>2
<1> QED
    BY <1>1, <1>2, <1>3, PTL DEF Spec

-----------------------------------------------------------------------------
(* The tasks and the server implement an archive on tape (TapeArchive):    *)
(* what the doormen and the clients take for archived is on tape, or a     *)
(* failure has been noted since.                                           *)

OnTape(f) == f \in hpss \cup Noted

\* Every tarball that some log of the server says was sent is on tape.
LogsTrue ==
    \A a \in Attempts, f \in Tarballs : <<a, f, "SUCCESS">> \in todoLog => OnTape(f)

\* A doorman has tried what is not left to do, and only then acknowledges.
DoormenTrue ==
    \A i \in Inst :
        /\ inst[i].pc \in Doorman => inst[i].left \subseteq locations(inst[i].cur)
        /\ inst[i].pc = "process" =>
              \A f \in locations(inst[i].cur) \ inst[i].left :
                  \E line \in Lines : <<inst[i].cur[1], f, line>> \in todoLog
        /\ inst[i].pc = "send" /\ inst[i].ack = "SUCCESS" =>
              \A f \in locations(inst[i].cur) : OnTape(f)

StatusTrue ==
    \A a \in Attempts, f \in Tarballs : <<a, f, "SUCCESS">> \in status => OnTape(f)

\* What a client takes for archived: what it has counted, the set it is through
\* with, and both of them once it removes its directories.
Claimed(j) ==
    client[j].successes
    \cup (IF client[j].set = "rstprod" THEN Standard[j] ELSE {})
    \cup (IF client[j].pc \in {"rmdir", "gone", "done"} THEN Standard[j] \cup Restricted[j] ELSE {})

ClientsTrue == \A j \in Jobs : \A f \in Claimed(j) : OnTape(f)

TapeInv == LogsTrue /\ DoormenTrue /\ StatusTrue /\ ClientsTrue

-----------------------------------------------------------------------------
LEMMA InitTapeInv == Init => TapeInv
BY DEF Init, TapeInv, LogsTrue, DoormenTrue, StatusTrue, ClientsTrue, Claimed, Fresh, Off, Doorman

\* What a server's step can do to the results.
LEMMA ResultSteps ==
    ASSUME [Next]_vars
    PROVE  \/ UNCHANGED results
           \/ \E i \in Inst : \E f \in inst[i].left : Todo(i, f)
           \/ \E i \in Inst : \E f \in inst[i].left : SendStatus(i, f)
<1>1. ASSUME NEW j \in Jobs, Client(j) \/ TransferFails(j) \/ Kill(j)
      PROVE  UNCHANGED results
    BY <1>1 DEF Client, Submit, RequestDir, SendInitScript, CheckServer, SendScript,
                ReadStatus, ReadLog, LogNotRetrieved, LeaveLoop, RequestRemoval,
                CheckRemoved, TransferFails, Kill
<1>2. ASSUME NEW i \in Inst, Start(i) \/ Server(i)
      PROVE  \/ UNCHANGED results
             \/ \E f \in inst[i].left : Todo(i, f) \/ SendStatus(i, f)
    BY <1>2 DEF Start, Server, ServeMkdir, EnterDir, TestLog, Touch, DoormanBegins,
                Acknowledge, DoormanEnds, DoormanFails, ScanEnds, RemoveDir,
                RemoveRequest, CheckIdle
<1>3. CASE Day \/ Reboot \/ UNCHANGED vars
    BY <1>3 DEF Day, Reboot, vars
<1> QED
    BY <1>1, <1>2, <1>3 DEF Next, Terminated

\* What the step of a doorman that sends a tarball leaves behind.
LEMMA TodoResults ==
    ASSUME TypeOK, Shape, NEW i \in Inst, NEW f \in inst[i].left, Todo(i, f)
    PROVE  /\ inst[i].cur[1] \in Attempts /\ f \in Tarballs
           /\ \A a \in Attempts, g \in Tarballs, line \in Lines :
                 a # inst[i].cur[1] \/ g # f =>
                     (<<a, g, line>> \in todoLog' <=> <<a, g, line>> \in todoLog)
           /\ \A g \in Tarballs : g # f => (g \in hpss' <=> g \in hpss)
           /\ \/ /\ f \in hpss'
                 /\ <<inst[i].cur[1], f, "SUCCESS">> \in todoLog'
              \/ /\ f \notin AllRestricted /\ f \in hpss => f \in hpss'
                 /\ <<inst[i].cur[1], f, "FAILURE">> \in todoLog'
                 /\ <<inst[i].cur[1], f, "SUCCESS">> \notin todoLog'
<1>1. inst[i].cur[1] \in Attempts /\ f \in Tarballs
    BY DirsAreDirs DEF Todo, TypeOK, Shape, InstType, Doorman
<1>2. PICK line \in Lines : todoLog' = Last(inst[i].cur[1], f, line)
                          /\ (line = "SUCCESS" => hpss' = hpss \cup {f})
                          /\ (line = "FAILURE" =>
                                hpss' \in IF f \in AllRestricted /\ inst[i].cur \in dirs
                                          THEN {hpss, hpss \ {f}, hpss \cup {f}} ELSE {hpss})
    BY DEF Todo, Lines
<1>3. \A r : r \in todoLog' <=>
          \/ r \in todoLog /\ (r[1] # inst[i].cur[1] \/ r[2] # f)
          \/ r = <<inst[i].cur[1], f, line>>
    BY <1>2 DEF Last
<1> QED
    BY <1>1, <1>2, <1>3 DEF Lines

\* What is on tape, or was withdrawn with a note, stays so.
LEMMA OnTapeStays ==
    ASSUME TypeOK, Shape, [Next]_vars, NEW g \in Tarballs, OnTape(g)
    PROVE  OnTape(g)'
<1>1. CASE UNCHANGED results
    BY <1>1 DEF results, OnTape, Noted
<1>2. ASSUME NEW i \in Inst, NEW f \in inst[i].left, Todo(i, f)
      PROVE  OnTape(g)'
  <2>1. CASE g # f
    <3>1. g \in hpss => g \in hpss'
        BY <1>2, <2>1, TodoResults
    <3>2. ASSUME NEW a \in Attempts, <<a, g, "FAILURE">> \in todoLog
          PROVE  <<a, g, "FAILURE">> \in todoLog'
        BY <1>2, <2>1, <3>2, TodoResults DEF Lines
    <3> QED
        BY <3>1, <3>2 DEF OnTape, Noted
  <2>2. CASE g = f
    <3>1. CASE f \in hpss'
        BY <2>2, <3>1 DEF OnTape
    <3>2. CASE f \notin hpss'
      <4>1. <<inst[i].cur[1], f, "FAILURE">> \in todoLog' /\ inst[i].cur[1] \in Attempts
          BY <1>2, <3>2, TodoResults
      <4>2. f \in AllRestricted
          BY <1>2, <2>2, <3>2, TodoResults DEF OnTape, Noted
      <4> QED
          BY <2>2, <4>1, <4>2 DEF OnTape, Noted
    <3> QED
        BY <3>1, <3>2
  <2> QED
      BY <2>1, <2>2
<1>3. ASSUME NEW i \in Inst, NEW f \in inst[i].left, SendStatus(i, f)
      PROVE  OnTape(g)'
    BY <1>3 DEF SendStatus, OnTape, Noted
<1> QED
    BY <1>1, <1>2, <1>3, ResultSteps

\* A log that has a line keeps one.
LEMMA EntriesStay ==
    ASSUME TypeOK, Shape, [Next]_vars, NEW a \in Attempts, NEW g \in Tarballs,
           \E line \in Lines : <<a, g, line>> \in todoLog
    PROVE  (\E line \in Lines : <<a, g, line>> \in todoLog)'
<1>1. CASE UNCHANGED todoLog
    BY <1>1 DEF Lines
<1>2. ASSUME NEW i \in Inst, NEW f \in inst[i].left, Todo(i, f)
      PROVE  (\E line \in Lines : <<a, g, line>> \in todoLog)'
  <2>1. CASE a = inst[i].cur[1] /\ g = f
      BY <1>2, <2>1, TodoResults DEF Lines
  <2>2. CASE a # inst[i].cur[1] \/ g # f
      BY <1>2, <2>2, TodoResults
  <2> QED
      BY <2>1, <2>2
<1> QED
    BY <1>1, <1>2, ResultSteps DEF results, SendStatus

LEMMA StepLogsTrue ==
    ASSUME TypeOK, Shape, LogsTrue, [Next]_vars
    PROVE  LogsTrue'
<1>1. SUFFICES ASSUME NEW a \in Attempts, NEW g \in Tarballs, <<a, g, "SUCCESS">> \in todoLog'
               PROVE  OnTape(g)'
    BY DEF LogsTrue
<1>2. CASE <<a, g, "SUCCESS">> \in todoLog
    BY <1>2, OnTapeStays DEF LogsTrue
<1>3. ASSUME NEW i \in Inst, NEW f \in inst[i].left, Todo(i, f),
             <<a, g, "SUCCESS">> \notin todoLog
      PROVE  OnTape(g)'
  <2>1. a = inst[i].cur[1] /\ g = f
      BY <1>1, <1>3, TodoResults DEF Lines
  <2> QED
      BY <1>1, <1>3, <2>1, TodoResults DEF OnTape
<1> QED
    BY <1>1, <1>2, <1>3, ResultSteps DEF results, SendStatus

LEMMA StepStatusTrue ==
    ASSUME TypeOK, Shape, StatusTrue, DoormenTrue, [Next]_vars
    PROVE  StatusTrue'
<1>1. SUFFICES ASSUME NEW a \in Attempts, NEW g \in Tarballs, <<a, g, "SUCCESS">> \in status'
               PROVE  OnTape(g)'
    BY DEF StatusTrue
<1>2. CASE <<a, g, "SUCCESS">> \in status
    BY <1>2, OnTapeStays DEF StatusTrue
<1>3. ASSUME NEW i \in Inst, NEW f \in inst[i].left, SendStatus(i, f),
             <<a, g, "SUCCESS">> \notin status
      PROVE  OnTape(g)'
  <2>1. g = f /\ inst[i].ack = "SUCCESS" /\ inst[i].pc = "send"
      BY <1>1, <1>3 DEF SendStatus
  <2>2. g \in locations(inst[i].cur)
      BY <1>3, <2>1 DEF DoormenTrue, Doorman
  <2> QED
      BY <2>1, <2>2, OnTapeStays DEF DoormenTrue
<1> QED
    BY <1>1, <1>2, <1>3, ResultSteps DEF results, Todo

\* An instance that does not step on, or steps to where nothing is claimed.
DoormanTrue(i) ==
    /\ inst[i].pc \in Doorman => inst[i].left \subseteq locations(inst[i].cur)
    /\ inst[i].pc = "process" =>
          \A f \in locations(inst[i].cur) \ inst[i].left :
              \E line \in Lines : <<inst[i].cur[1], f, line>> \in todoLog
    /\ inst[i].pc = "send" /\ inst[i].ack = "SUCCESS" =>
          \A f \in locations(inst[i].cur) : OnTape(f)

LEMMA SameDoorman ==
    ASSUME TypeOK, Shape, DoormenTrue, [Next]_vars, NEW k \in Inst, inst'[k] = inst[k]
    PROVE  DoormanTrue(k)'
<1>1. CASE inst[k].pc \notin Doorman
    BY <1>1 DEF DoormanTrue, Doorman
<1>2. CASE inst[k].pc \in Doorman
  <2>1. inst[k].cur \in Dirs
      BY <1>2 DEF Shape
  <2>2. inst[k].cur[1] \in Attempts /\ locations(inst[k].cur) \subseteq Tarballs
      BY <2>1, DirsAreDirs, LocationsType
  <2>3. inst'[k].pc = "process" =>
            \A f \in locations(inst[k].cur) \ inst[k].left :
                (\E line \in Lines : <<inst[k].cur[1], f, line>> \in todoLog)'
      BY <2>2, EntriesStay DEF DoormenTrue
  <2>4. inst'[k].pc = "send" /\ inst'[k].ack = "SUCCESS" =>
            \A f \in locations(inst[k].cur) : OnTape(f)'
      BY <2>2, OnTapeStays DEF DoormenTrue
  <2>5. inst'[k].left \subseteq locations(inst'[k].cur)
      BY <1>2 DEF DoormenTrue
  <2> QED
      BY <2>3, <2>4, <2>5 DEF DoormanTrue
<1> QED
    BY <1>1, <1>2

LEMMA StepDoormenTrue ==
    ASSUME TypeOK, Shape, LogsTrue, DoormenTrue, [Next]_vars
    PROVE  DoormenTrue'
<1>1. SUFFICES ASSUME NEW k \in Inst
               PROVE  DoormanTrue(k)'
    BY DEF DoormenTrue, DoormanTrue
<1>2. CASE inst'[k] = inst[k]
    BY <1>2, SameDoorman
<1>3. CASE inst'[k].pc \notin Doorman
    BY <1>3 DEF DoormanTrue, Doorman
<1>4. CASE DoormanBegins(k)
    BY <1>4 DEF DoormanBegins, WorkOn, BackToScan, Scan, DoormanTrue, Doorman, TypeOK
<1>5. ASSUME NEW f, Todo(k, f)
      PROVE  DoormanTrue(k)'
  <2>1. inst[k].cur \in Dirs /\ locations(inst[k].cur) \subseteq Tarballs
        /\ inst[k].cur[1] \in Attempts
      BY <1>5, DirsAreDirs, LocationsType DEF Todo, Shape, Doorman
  <2>2. f \in inst[k].left /\ inst[k].pc = "process" /\ inst'[k].pc = "process"
        /\ inst'[k].cur = inst[k].cur /\ inst'[k].left = inst[k].left \ {f}
      BY <1>5 DEF Todo, TypeOK, InstType
  <2>3. ASSUME NEW g \in locations(inst[k].cur), g \notin inst[k].left
        PROVE  \E line \in Lines : <<inst[k].cur[1], g, line>> \in todoLog'
    <3>1. \E line \in Lines : <<inst[k].cur[1], g, line>> \in todoLog
        BY <2>2, <2>3 DEF DoormenTrue
    <3> QED
        BY <2>1, <2>3, <3>1, EntriesStay
  <2>4. \E line \in Lines : <<inst[k].cur[1], f, line>> \in todoLog'
      BY <1>5, <2>2, TodoResults DEF Lines
  <2>5. inst'[k].left \subseteq locations(inst'[k].cur)
      BY <1>5, <2>2 DEF Todo, DoormenTrue, Doorman
  <2> QED
      BY <2>2, <2>3, <2>4, <2>5 DEF DoormanTrue
<1>6. CASE Acknowledge(k)
  <2>1. inst[k].cur \in Dirs /\ locations(inst[k].cur) \subseteq Tarballs
        /\ inst[k].cur[1] \in Attempts
      BY <1>6, DirsAreDirs, LocationsType DEF Acknowledge, Shape, Doorman
  <2>2. inst'[k].pc = "send" /\ inst'[k].cur = inst[k].cur
        /\ inst'[k].left = locations(inst[k].cur) /\ inst'[k].ack = verify(inst[k].cur[1])
        /\ UNCHANGED <<hpss, todoLog>>
      BY <1>6 DEF Acknowledge, WorkOn, TypeOK, results
  <2>3. ASSUME NEW f \in locations(inst[k].cur), verify(inst[k].cur[1]) = "SUCCESS"
        PROVE  OnTape(f)
    <3>1. PICK line \in Lines : <<inst[k].cur[1], f, line>> \in todoLog
        BY <1>6 DEF Acknowledge, DoormenTrue
    <3>2. line = "SUCCESS"
        BY <2>3, <3>1 DEF verify
    <3> QED
        BY <2>1, <3>1, <3>2 DEF LogsTrue
  <2> QED
      BY <2>2, <2>3 DEF DoormanTrue, OnTape, Noted
<1>7. ASSUME NEW f, SendStatus(k, f)
      PROVE  DoormanTrue(k)'
    BY <1>7 DEF SendStatus, TypeOK, InstType, DoormenTrue, DoormanTrue, OnTape, Noted, Doorman
<1>8. ASSUME NEW j \in Jobs, Client(j) \/ TransferFails(j) \/ Kill(j)
      PROVE  inst' = inst
    BY <1>8 DEF Client, Submit, RequestDir, SendInitScript, CheckServer, SendScript,
                ReadStatus, ReadLog, LogNotRetrieved, LeaveLoop, RequestRemoval,
                CheckRemoved, TransferFails, Kill
<1>9. ASSUME NEW i \in Inst, Start(i) \/ Server(i), i # k
      PROVE  inst'[k] = inst[k]
    BY <1>9 DEF Start, Server, ServeMkdir, EnterDir, TestLog, Touch, DoormanBegins,
                BackToScan, Acknowledge, DoormanEnds, DoormanFails, Todo, SendStatus,
                ScanEnds, RemoveDir, RemoveRequest, CheckIdle, TypeOK
<1>10. CASE Start(k) \/ ServeMkdir(k) \/ EnterDir(k) \/ TestLog(k) \/ Touch(k)
            \/ DoormanEnds(k) \/ DoormanFails(k) \/ ScanEnds(k) \/ RemoveDir(k)
            \/ RemoveRequest(k) \/ CheckIdle(k)
  <2>1. inst'[k].pc \notin Doorman
      BY <1>10 DEF Start, ServeMkdir, EnterDir, TestLog, Touch, DoormanEnds, DoormanFails,
                   ScanEnds, RemoveDir, RemoveRequest, CheckIdle, BackToScan, Scan,
                   WorkOn, Off, TypeOK, InstType, Doorman
  <2> QED
      BY <1>3, <2>1
<1>11. CASE Reboot
    BY <1>3, <1>11 DEF Reboot, Off, Doorman
<1> QED
    BY <1>1, <1>2, <1>4, <1>5, <1>6, <1>7, <1>8, <1>9, <1>10, <1>11
       DEF Next, Server, Day, Terminated, vars

LEMMA ClaimsAreTarballs == TypeOK => \A j \in Jobs : Claimed(j) \subseteq Tarballs
BY DEF TypeOK, ClientType, Claimed, Tarballs

\* The steps of a client that claim no more than before.
LEMMA AbortClaims ==
    ASSUME TypeOK, NEW j \in Jobs, Abort(j)
    PROVE  Claimed(j)' = {}
BY DEF TypeOK, Abort, Fresh, Claimed

LEMMA GoToClaims ==
    ASSUME TypeOK, NEW j \in Jobs, NEW label, GoTo(j, label),
           label \in {"rmdir", "gone", "done"} => client[j].pc \in {"rmdir", "gone", "done"}
    PROVE  Claimed(j)' \subseteq Claimed(j)
BY DEF TypeOK, ClientType, GoTo, Claimed

LEMMA StepClientsTrue ==
    ASSUME TypeOK, Shape, StatusTrue, ClientsTrue, [Next]_vars
    PROVE  ClientsTrue'
<1>1. SUFFICES ASSUME NEW k \in Jobs
               PROVE  \A f \in Claimed(k)' : OnTape(f)'
    BY DEF ClientsTrue
<1>2. \A f \in Claimed(k) : OnTape(f) /\ OnTape(f)'
    BY ClaimsAreTarballs, OnTapeStays DEF ClientsTrue
<1>3. CASE Claimed(k)' \subseteq Claimed(k)
    BY <1>2, <1>3
<1>4. CASE client'[k] = client[k]
    BY <1>3, <1>4 DEF Claimed
<1>5. CASE Abort(k)
    BY <1>5, AbortClaims
<1>6. CASE Submit(k)
  <2>1. Claimed(k)' = {}
      BY <1>6 DEF Submit, BeginSet, Fresh, Claimed, TypeOK
  <2> QED
      BY <2>1
<1>7. CASE RequestDir(k) \/ SendInitScript(k) \/ CheckServer(k) \/ SendScript(k)
           \/ RequestRemoval(k) \/ TransferFails(k) \/ Kill(k)
  <2>1. Abort(k) \/ \E label \in {"init", "check", "send", "status"} : GoTo(k, label)
        \/ (client[k].pc = "rmdir" /\ GoTo(k, "gone"))
      BY <1>7 DEF RequestDir, SendInitScript, CheckServer, SendScript, RequestRemoval,
                  TransferFails, Kill
  <2> QED
      BY <1>3, <1>5, <2>1, GoToClaims
<1>8. CASE ReadStatus(k)
  <2>1. CASE Returned(k, "FAILURE") = {}
    <3>1. client[k].pc # "idle" /\ jobid(k) \in Attempts /\ server_job_dir(k) \in Dirs
        BY <1>8, DirsAreDirs, GlobusAssumption
           DEF ReadStatus, TypeOK, Shape, ClientType, jobid, server_job_dir
    <3>2. \A f \in Returned(k, "SUCCESS") : f \in Tarballs /\ OnTape(f)
        BY <3>1, LocationsType DEF Returned, Locations, StatusTrue
    <3>3. Claimed(k)' \subseteq Claimed(k) \cup Returned(k, "SUCCESS")
        BY <1>8, <2>1 DEF ReadStatus, TypeOK, ClientType, Claimed
    <3> QED
        BY <1>2, <3>2, <3>3, OnTapeStays
  <2>2. CASE Returned(k, "FAILURE") # {}
      BY <1>5, <1>8, <2>2 DEF ReadStatus
  <2> QED
      BY <2>1, <2>2
<1>9. CASE ReadLog(k) \/ LogNotRetrieved(k)
  <2>1. Abort(k) \/ Claimed(k)' \subseteq Claimed(k)
      BY <1>9 DEF ReadLog, LogNotRetrieved, NextTurn, TypeOK, ClientType, Claimed
  <2> QED
      BY <1>3, <1>5, <2>1
<1>10. CASE LeaveLoop(k)
  <2>1. CASE client[k].successes # Locations(k)
      BY <1>5, <1>10, <2>1 DEF LeaveLoop
  <2>2. CASE client[k].successes = Locations(k) /\ client[k].set = "standard"
    <3>1. Standard[k] = client[k].successes
        BY <2>2 DEF Locations, locations, server_job_dir, jobid
    <3>2. Claimed(k)' = Standard[k]
        BY <1>10, <2>2 DEF LeaveLoop, BeginSet, Fresh, TypeOK, Claimed
    <3> QED
        BY <1>3, <3>1, <3>2 DEF Claimed
  <2>3. CASE client[k].successes = Locations(k) /\ client[k].set # "standard"
    <3>1. client[k].set = "rstprod" /\ Restricted[k] = client[k].successes
        BY <2>3 DEF Locations, locations, server_job_dir, jobid, TypeOK, ClientType, Sets
    <3>2. Claimed(k)' = Standard[k] \cup Restricted[k]
        BY <1>10, <2>3 DEF LeaveLoop, BeginRemoval, Fresh, TypeOK, Claimed
    <3> QED
        BY <1>3, <3>1, <3>2 DEF Claimed
  <2> QED
      BY <2>1, <2>2, <2>3
<1>11. CASE CheckRemoved(k)
  <2>1. CASE \E s \in Sets : BeginRemoval(k, s)
    <3>1. Claimed(k)' \subseteq Standard[k] \cup Restricted[k]
        BY <2>1 DEF BeginRemoval, Fresh, TypeOK, Claimed
    <3>2. Standard[k] \cup Restricted[k] \subseteq Claimed(k)
        BY <1>11 DEF CheckRemoved, Claimed
    <3> QED
        BY <1>3, <3>1, <3>2
  <2> QED
      BY <1>3, <1>5, <1>11, <2>1, GoToClaims DEF CheckRemoved
<1>12. ASSUME NEW j \in Jobs, Client(j) \/ TransferFails(j) \/ Kill(j), j # k
       PROVE  client'[k] = client[k]
    BY <1>12 DEF Client, Submit, BeginSet, RequestDir, SendInitScript, CheckServer,
                 SendScript, ReadStatus, ReadLog, NextTurn, LogNotRetrieved, LeaveLoop,
                 RequestRemoval, CheckRemoved, BeginRemoval, TransferFails, Kill, Abort,
                 GoTo, TypeOK
<1>13. ASSUME NEW i \in Inst, Start(i) \/ Server(i)
       PROVE  client' = client
    BY <1>13 DEF Start, Server, ServeMkdir, EnterDir, TestLog, Touch, DoormanBegins,
                 Acknowledge, DoormanEnds, DoormanFails, Todo, SendStatus, ScanEnds,
                 RemoveDir, RemoveRequest, CheckIdle
<1> QED
    BY <1>4, <1>6, <1>7, <1>8, <1>9, <1>10, <1>11, <1>12, <1>13
       DEF Next, Client, Day, Reboot, Terminated, vars

LEMMA StepTapeInv == TypeOK /\ Shape /\ TapeInv /\ [Next]_vars => TapeInv'
BY StepLogsTrue, StepDoormenTrue, StepStatusTrue, StepClientsTrue DEF TapeInv

-----------------------------------------------------------------------------
(* Steps map to steps of the abstract archive, or to none.                 *)

LEMMA InitTape == Init => Tape!Init
BY DEF Init, Tape!Init, TaskStates, Tries, TaskState, Fresh, Noted

\* How the step of a client changes what its task has come to.
LEMMA ClientChanges ==
    ASSUME TypeOK, NEW j \in Jobs, Client(j) \/ TransferFails(j) \/ Kill(j)
    PROVE  /\ \A k \in Jobs : k # j => client'[k] = client[k]
           /\ UNCHANGED results
           /\ DOMAIN client' = Jobs
<1>1. \A k \in Jobs : k # j => client'[k] = client[k]
    BY DEF Client, Submit, BeginSet, RequestDir, SendInitScript, CheckServer, SendScript,
           ReadStatus, ReadLog, NextTurn, LogNotRetrieved, LeaveLoop, RequestRemoval,
           CheckRemoved, BeginRemoval, TransferFails, Kill, Abort, GoTo, TypeOK
<1>2. UNCHANGED results /\ DOMAIN client' = Jobs
    BY DEF Client, Submit, BeginSet, RequestDir, SendInitScript, CheckServer, SendScript,
           ReadStatus, ReadLog, NextTurn, LogNotRetrieved, LeaveLoop, RequestRemoval,
           CheckRemoved, BeginRemoval, TransferFails, Kill, Abort, GoTo, TypeOK
<1> QED
    BY <1>1, <1>2

\* A client whose task is neither waiting nor over.
Running(j) == TaskState(client[j].pc) = "running"

LEMMA ClientSteps ==
    ASSUME TypeOK, Shape, NEW j \in Jobs, Client(j) \/ TransferFails(j) \/ Kill(j)
    PROVE  \/ Submit(j)
           \/ Running(j) /\ Abort(j)
           \/ CheckRemoved(j) /\ GoTo(j, "done")
           \/ /\ Running(j) /\ Running(j)'
              /\ client'[j].try = client[j].try
<1> USE DEF Running, TaskState
<1>1. CASE RequestDir(j) \/ SendInitScript(j) \/ CheckServer(j) \/ SendScript(j)
           \/ RequestRemoval(j)
    BY <1>1 DEF RequestDir, SendInitScript, CheckServer, SendScript, RequestRemoval,
                GoTo, TypeOK, ClientType
<1>2. CASE ReadStatus(j) \/ ReadLog(j) \/ LogNotRetrieved(j)
    BY <1>2 DEF ReadStatus, ReadLog, LogNotRetrieved, NextTurn, TypeOK, ClientType
<1>3. CASE LeaveLoop(j)
    BY <1>3 DEF LeaveLoop, BeginSet, BeginRemoval, Fresh, TypeOK, ClientType
<1>4. CASE CheckRemoved(j)
    BY <1>4 DEF CheckRemoved, BeginRemoval, Fresh, TypeOK, ClientType
<1>5. CASE TransferFails(j) \/ Kill(j)
    BY <1>5 DEF TransferFails, Kill, TypeOK, ClientType
<1> QED
    BY <1>1, <1>2, <1>3, <1>4, <1>5 DEF Client

LEMMA ClientStepTape ==
    ASSUME TypeOK, Shape, TapeInv, NEW j \in Jobs,
           Client(j) \/ TransferFails(j) \/ Kill(j)
    PROVE  [Tape!Next]_(Tape!vars)
<1>1. /\ TaskStates' = [TaskStates EXCEPT ![j] = TaskState(client'[j].pc)]
      /\ Tries' = [Tries EXCEPT ![j] = client'[j].try]
      /\ hpss' = hpss /\ Noted' = Noted
    BY ClientChanges DEF TaskStates, Tries, Noted, results
<1>2. TaskStates[j] = TaskState(client[j].pc) /\ Tries[j] = client[j].try
    BY DEF TaskStates, Tries
<1>3. CASE Submit(j)
  <2>1. client[j].pc = "idle" /\ client[j].try < MAXTRIES
        /\ client'[j].pc = "mkdir" /\ client'[j].try = client[j].try + 1
      BY <1>3 DEF Submit, BeginSet, Fresh, TypeOK
  <2>2. Tape!Try(j)
      BY <1>1, <1>2, <2>1 DEF Tape!Try, TaskState
  <2> QED
      BY <2>2 DEF Tape!Next
<1>4. CASE Running(j) /\ Abort(j)
  <2>1. client'[j].pc = (IF client[j].try < MAXTRIES THEN "idle" ELSE "dead")
        /\ client'[j].try = client[j].try
      BY <1>4 DEF Abort, Fresh, TypeOK
  <2>2. Tries' = Tries
      BY <1>1, <1>2, <2>1 DEF Tries
  <2>3. Tape!GiveUp(j)
      BY <1>1, <1>2, <1>4, <2>1, <2>2 DEF Tape!GiveUp, TaskState, Running
  <2> QED
      BY <2>3 DEF Tape!Next
<1>5. CASE CheckRemoved(j) /\ GoTo(j, "done")
  <2>1. client[j].pc = "gone" /\ client'[j].pc = "done" /\ client'[j].try = client[j].try
      BY <1>5 DEF CheckRemoved, GoTo, TypeOK, ClientType
  <2>2. Tries' = Tries
      BY <1>1, <1>2, <2>1 DEF Tries
  <2>3. Standard[j] \cup Restricted[j] \subseteq hpss \cup Noted
      BY <2>1 DEF TapeInv, ClientsTrue, Claimed, OnTape
  <2>4. Standard[j] \cap Noted = {}
      BY GlobusAssumption DEF Noted, AllRestricted
  <2>5. Tape!Succeed(j)
      BY <1>1, <1>2, <2>1, <2>2, <2>3, <2>4 DEF Tape!Succeed, TaskState
  <2> QED
      BY <2>5 DEF Tape!Next
<1>6. CASE Running(j) /\ Running(j)' /\ client'[j].try = client[j].try
  <2>1. TaskStates' = TaskStates /\ Tries' = Tries
      BY <1>1, <1>2, <1>6 DEF TaskStates, Tries, Running
  <2> QED
      BY <1>1, <2>1 DEF Tape!vars
<1> QED
    BY <1>3, <1>4, <1>5, <1>6, ClientSteps

LEMMA TodoStepTape ==
    ASSUME TypeOK, Shape, NEW i \in Inst, NEW f \in inst[i].left, Todo(i, f)
    PROVE  [Tape!Next]_(Tape!vars)
<1>1. f \in Tarballs
    BY TodoResults
<1>2. ASSUME NEW g, g # f
      PROVE  g \in Noted' <=> g \in Noted
  <2>1. ASSUME NEW a \in Attempts, g \in Tarballs
        PROVE  <<a, g, "FAILURE">> \in todoLog' <=> <<a, g, "FAILURE">> \in todoLog
      BY <1>2, <2>1, TodoResults DEF Lines
  <2>2. AllRestricted \subseteq Tarballs
      BY DEF AllRestricted, Tarballs
  <2> QED
      BY <2>1, <2>2 DEF Noted
<1>3. UNCHANGED <<TaskStates, Tries>>
    BY DEF Todo, TaskStates, Tries
<1>4. CASE /\ hpss' = hpss \cup {f}
           /\ todoLog' = Last(inst[i].cur[1], f, "SUCCESS")
  <2>1. f \in Noted' => f \in Noted
      BY <1>4 DEF Last, Noted
  <2>2. Noted' \in {Noted, Noted \ {f}}
      BY <1>2, <2>1
  <2>3. Tape!Put(f)
      BY <1>3, <1>4, <2>2 DEF Tape!Put
  <2> QED
      BY <1>1, <2>3 DEF Tape!Next, Tape!Tarballs, Tarballs
<1>5. CASE /\ hpss' \in IF f \in AllRestricted /\ inst[i].cur \in dirs
                       THEN {hpss, hpss \ {f}, hpss \cup {f}} ELSE {hpss}
           /\ todoLog' = Last(inst[i].cur[1], f, "FAILURE")
  <2>1. inst[i].cur[1] \in Attempts /\ <<inst[i].cur[1], f, "FAILURE">> \in todoLog'
      BY <1>5, TodoResults DEF Last
  <2>2. CASE f \in AllRestricted
    <3>1. Noted' = Noted \cup {f}
        BY <1>2, <2>1, <2>2 DEF Noted
    <3>2. Tape!Withdraw(f)
        BY <1>3, <1>5, <2>2, <3>1
           DEF Tape!Withdraw, Tape!AllRestricted, AllRestricted
    <3> QED
        BY <1>1, <3>2 DEF Tape!Next, Tape!Tarballs, Tarballs
  <2>3. CASE f \notin AllRestricted
    <3>1. Noted' = Noted
        BY <1>2, <2>3 DEF Noted
    <3> QED
        BY <1>3, <1>5, <2>3, <3>1 DEF Tape!vars
  <2> QED
      BY <2>2, <2>3
<1> QED
    BY <1>4, <1>5 DEF Todo

LEMMA StepTape == TypeOK /\ Shape /\ TapeInv /\ [Next]_vars => [Tape!Next]_(Tape!vars)
<1> SUFFICES ASSUME TypeOK, Shape, TapeInv, [Next]_vars PROVE [Tape!Next]_(Tape!vars)
    OBVIOUS
<1>1. CASE UNCHANGED <<client, hpss, todoLog>>
    BY <1>1 DEF Tape!vars, TaskStates, Tries, Noted
<1>2. CASE \E j \in Jobs : Client(j) \/ TransferFails(j) \/ Kill(j)
    BY <1>2, ClientStepTape
<1>3. ASSUME NEW i \in Inst, Start(i) \/ Server(i)
      PROVE  \/ UNCHANGED <<client, hpss, todoLog>>
             \/ \E f \in inst[i].left : Todo(i, f)
    BY <1>3 DEF Start, Server, ServeMkdir, EnterDir, TestLog, Touch, DoormanBegins,
                Acknowledge, DoormanEnds, DoormanFails, SendStatus, ScanEnds, RemoveDir,
                RemoveRequest, CheckIdle, results
<1>4. CASE Day \/ Reboot \/ UNCHANGED vars
    BY <1>1, <1>4 DEF Day, Reboot, vars, results
<1> QED
    BY <1>1, <1>2, <1>3, <1>4, TodoStepTape DEF Next, Terminated

\* The requests, scripts and status files of any tasks and instances implement
\* an archive on tape, in spite of clients that are killed, transfers that are
\* lost, instances that overlap and servers that go down: a task succeeds only
\* when its tarballs are there, or a failure was noted for a restricted one.
THEOREM ImplementsTape == Spec => ArchivesOnTape
<1>1. Init => TypeOK /\ Shape /\ TapeInv
    BY InitTypeOK, InitTapeInv
<1>2. TypeOK /\ Shape /\ TapeInv /\ [Next]_vars => (TypeOK /\ Shape /\ TapeInv)'
    BY StepTypeOK, StepTapeInv
<1> QED
    BY <1>1, <1>2, InitTape, StepTape, PTL DEF Spec, ArchivesOnTape, Tape!Spec

-----------------------------------------------------------------------------
(* What the abstract archive promises, and therefore this one.             *)

LEMMA TapePromise == Tape!Spec => []Tape!DoneIsOnTape
<1>1. Tape!Init => Tape!DoneIsOnTape
    BY DEF Tape!Init, Tape!DoneIsOnTape
<1>2. Tape!DoneIsOnTape /\ [Tape!Next]_(Tape!vars) => Tape!DoneIsOnTape'
  <2> SUFFICES ASSUME Tape!DoneIsOnTape, [Tape!Next]_(Tape!vars) PROVE Tape!DoneIsOnTape'
      OBVIOUS
  <2> USE DEF Tape!DoneIsOnTape
  <2>1. CASE \E j \in Jobs : Tape!Try(j) \/ Tape!GiveUp(j)
      BY <2>1 DEF Tape!Try, Tape!GiveUp, TaskStates
  <2>2. CASE \E j \in Jobs : Tape!Succeed(j)
      BY <2>2 DEF Tape!Succeed, TaskStates
  <2>3. CASE \E f \in Tape!Tarballs : Tape!Put(f)
      BY <2>3 DEF Tape!Put
  <2>4. CASE \E f \in Tape!Tarballs : Tape!Withdraw(f)
    <3>1. PICK f : Tape!Withdraw(f)
        BY <2>4
    <3>2. \A j \in Jobs : f \notin Standard[j]
        BY <3>1, GlobusAssumption DEF Tape!Withdraw, Tape!AllRestricted
    <3> QED
        BY <3>1, <3>2 DEF Tape!Withdraw
  <2>5. CASE UNCHANGED Tape!vars
      BY <2>5 DEF Tape!vars
  <2> QED
      BY <2>1, <2>2, <2>3, <2>4, <2>5 DEF Tape!Next
<1> QED
    BY <1>1, <1>2, PTL DEF Tape!Spec

\* "Successfully archived ... to HPSS!": from the end of a task on, its
\* tarballs without rstprod data are on HPSS, and one with such data is missing
\* only if the last line of a log says that sending it has failed.
THEOREM DoneIsArchived == Spec => []Tape!DoneIsOnTape
BY ImplementsTape, TapePromise, PTL DEF ArchivesOnTape
=============================================================================
