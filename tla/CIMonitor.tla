------------------------------ MODULE CIMonitor ------------------------------
(* The scripts that watch one experiment of the CI: run_check_gitlab_ci.sh or *)
(* run_check_ci.sh run rocotorun, read the state with rocotostat.py, and end  *)
(* with success, with failure, or go on.  rocotostat.py reads the database    *)
(* two or three times; rocoto, the batch system and whoever else runs         *)
(* rocotorun change it in between.                                            *)
(*                                                                            *)
(* Rocoto and the batch system are external.  A reading is the set of states  *)
(* that some job has: the verdict only asks which counts are zero.  QUEUED    *)
(* stands for SUBMITTING too.                                                 *)
EXTENDS Integers, FiniteSets

CONSTANTS
    Jobs,
    Cycle(_),      \* the cycle of a job
    Needs(_),      \* the jobs a job depends on
    MAXTRIES,
    MaxOutages,    \* bound: times the batch system cannot be asked
    MaxErrors,     \* bound: calls of rocotostat.py whose attempts all fail
    MaxOther       \* bound: rocotorun of others during a call of rocotostat.py

ASSUME MonitorAssumption ==
    /\ MAXTRIES \in Nat \ {0}
    /\ MaxOutages \in Nat /\ MaxErrors \in Nat /\ MaxOther \in Nat
    /\ \A j \in Jobs : Needs(j) \subseteq Jobs \ {j}

VARIABLES
    script,     \* the script that watches: "gitlab" or "check"
    blocked,    \* jobs whose other dependencies are never met
    batch,      \* the jobs in the batch system
    tries,      \* submissions of each job
    server,     \* what the batch system answers: "up", or the state it causes
    outages,
    db,         \* the state of each job in rocoto's database
    pc,         \* the step of the script
    first,      \* the states rocoto_statcount found
    second,     \* the states it found when it read again
    alive,      \* jobs in the batch system at the last reading
    others,     \* rocotorun of others since rocotostat.py was called
    errors,
    ROCOTO_STATE,
    rc          \* the exit status; 99 before the script ends

external == <<blocked, batch, tries, server, outages, db>>
readings == <<first, second, alive>>
vars == <<script, external, pc, readings, others, errors, ROCOTO_STATE, rc>>

InBatch == {"queued", "running"}

Init ==
    /\ script \in {"gitlab", "check"}
    /\ blocked \in SUBSET Jobs
    /\ batch = [j \in Jobs |-> "none"]
    /\ tries = [j \in Jobs |-> 0]
    /\ server = "up" /\ outages = 0
    /\ db = [j \in Jobs |-> "WAITING"]
    /\ pc = "run"
    /\ first = {} /\ second = {} /\ alive = {}
    /\ others = 0 /\ errors = 0
    /\ ROCOTO_STATE = "unset"
    /\ rc = 99

-----------------------------------------------------------------------------
(* The batch system.                                                          *)
JobStarts(j) ==
    /\ batch[j] = "queued"
    /\ batch' = [batch EXCEPT ![j] = "running"]
    /\ UNCHANGED <<script, blocked, tries, server, outages, db, pc, readings, others, errors, ROCOTO_STATE, rc>>

JobEnds(j) ==
    /\ batch[j] = "running"
    /\ \E result \in {"ok", "bad"} : batch' = [batch EXCEPT ![j] = result]
    /\ UNCHANGED <<script, blocked, tries, server, outages, db, pc, readings, others, errors, ROCOTO_STATE, rc>>

ServerChanges ==
    /\ \/ server = "up" /\ outages < MaxOutages
          /\ server' \in {"UNAVAILABLE", "UNKNOWN"} /\ outages' = outages + 1
       \/ server # "up" /\ server' = "up" /\ UNCHANGED outages
    /\ UNCHANGED <<script, blocked, batch, tries, db, pc, readings, others, errors, ROCOTO_STATE, rc>>

(* rocotorun: the jobs it submitted are looked up, then those that failed or  *)
(* whose dependencies are met are submitted.                                  *)
Submitted(j) == db[j] \in {"QUEUED", "RUNNING", "UNAVAILABLE", "UNKNOWN"}
LookedUp(j) ==
    IF ~Submitted(j) THEN db[j]
    ELSE IF server # "up" THEN server
    ELSE CASE batch[j] = "queued" -> "QUEUED"
           [] batch[j] = "running" -> "RUNNING"
           [] batch[j] = "ok" -> "SUCCEEDED"
           [] batch[j] = "bad" -> IF tries[j] < MAXTRIES THEN "FAIL" ELSE "DEAD"
Startable(j) ==
    /\ server = "up"
    /\ \/ LookedUp(j) = "FAIL"
       \/ /\ LookedUp(j) = "WAITING" /\ j \notin blocked
          /\ \A k \in Needs(j) : LookedUp(k) = "SUCCEEDED"

RocotoRun ==
    /\ db' = [j \in Jobs |-> IF Startable(j) THEN "QUEUED" ELSE LookedUp(j)]
    /\ batch' = [j \in Jobs |-> IF Startable(j) THEN "queued" ELSE batch[j]]
    /\ tries' = [j \in Jobs |-> IF Startable(j) THEN tries[j] + 1 ELSE tries[j]]
    /\ UNCHANGED <<blocked, server, outages>>

\* A rocotorun of someone else, a cron job for example.
OtherRun ==
    /\ pc \in {"summary", "again"} /\ others < MaxOther
    /\ RocotoRun
    /\ others' = others + 1
    /\ UNCHANGED <<script, pc, readings, errors, ROCOTO_STATE, rc>>

-----------------------------------------------------------------------------
(* rocotostat.py                                                              *)
Present == {db[j] : j \in Jobs}
AliveNow == {j \in Jobs : batch[j] \in InBatch}
Cycles == {Cycle(j) : j \in Jobs}
CyclesDone == {c \in Cycles : \A j \in Jobs : Cycle(j) = c => db[j] = "SUCCEEDED"}

\* Mistaken variant: some cycle is done.
is_done_Some == CyclesDone # {}

is_done == CyclesDone = Cycles

\* Mistaken variant: running jobs are forgotten.
is_stalled_Waiting(count) == count \cap {"SUBMITTING", "QUEUED"} = {}

is_stalled(count) == count \cap {"RUNNING", "SUBMITTING", "QUEUED"} = {}

Lost == {"UNAVAILABLE", "UNKNOWN"}

\* The script runs rocotorun, and a minute later rocotostat.py.
Run ==
    /\ pc = "run"
    /\ RocotoRun
    /\ pc' = "count" /\ others' = 0
    /\ UNCHANGED <<script, readings, errors, ROCOTO_STATE, rc>>

rocoto_statcount ==
    /\ pc = "count"
    /\ first' = Present /\ second' = {} /\ alive' = AliveNow
    /\ pc' = "summary"
    /\ UNCHANGED <<script, external, others, errors, ROCOTO_STATE, rc>>

\* The summary of the cycles is read after the jobs were counted; the verdict
\* uses both.
rocotostat_summary ==
    /\ pc = "summary"
    /\ \/ /\ is_done
          /\ ROCOTO_STATE' = "DONE" /\ pc' = "judge"
       \/ /\ ~is_done /\ "DEAD" \in first
          /\ ROCOTO_STATE' = "FAIL" /\ pc' = "judge"
       \/ /\ ~is_done /\ "DEAD" \notin first
          /\ first \cap Lost # {} \/ is_stalled(first)
          /\ pc' = "again" /\ UNCHANGED ROCOTO_STATE
       \/ /\ ~is_done /\ "DEAD" \notin first /\ first \cap Lost = {} /\ ~is_stalled(first)
          /\ ROCOTO_STATE' = "RUNNING" /\ pc' = "judge"
    /\ UNCHANGED <<script, external, readings, others, errors, rc>>

\* The jobs are counted once more when a state is lost; UNKNOWN prevails.
RecountLost ==
    /\ pc = "again" /\ first \cap Lost # {}
    /\ second' = Present /\ alive' = AliveNow
    /\ ROCOTO_STATE' = IF "UNKNOWN" \in Present THEN "UNKNOWN"
                       ELSE IF "UNAVAILABLE" \in Present THEN "UNAVAILABLE" ELSE "RUNNING"
    /\ pc' = "judge"
    /\ UNCHANGED <<script, external, first, others, errors, rc>>

\* The same when nothing runs.  If something does now, rocoto_state has no
\* value: the call ends with an error and prints nothing.
RecountStalled ==
    /\ pc = "again" /\ first \cap Lost = {}
    /\ second' = Present /\ alive' = AliveNow
    /\ \/ is_stalled(Present) /\ ROCOTO_STATE' = "STALLED" /\ pc' = "judge"
       \/ ~is_stalled(Present) /\ pc' = "noanswer" /\ UNCHANGED ROCOTO_STATE
    /\ UNCHANGED <<script, external, first, others, errors, rc>>

\* All the attempts to run rocotostat fail.
StatFails ==
    /\ pc \in {"count", "summary", "again"} /\ errors < MaxErrors
    /\ errors' = errors + 1
    /\ pc' = "noanswer"
    /\ UNCHANGED <<script, external, readings, others, ROCOTO_STATE, rc>>

-----------------------------------------------------------------------------
(* The loop of the scripts.                                                   *)

\* Mistaken variant: a stalled experiment is not in the list.
failure_states_NoStalled == {"FAIL", "UNAVAILABLE", "UNKNOWN"}

failure_states == {"FAIL", "UNAVAILABLE", "UNKNOWN", "STALLED"}

\* run_check_gitlab_ci.sh sources what was printed, and nothing was: it goes on
\* with the state of the last time.  run_check_ci.sh looks at the exit status.
NoAnswer ==
    /\ pc = "noanswer"
    /\ \/ script = "gitlab" /\ pc' = "judge" /\ UNCHANGED rc
       \/ script = "check" /\ pc' = "end" /\ rc' = 1
    /\ UNCHANGED <<script, external, readings, others, errors, ROCOTO_STATE>>

Judge ==
    /\ pc = "judge"
    /\ \/ ROCOTO_STATE \in failure_states /\ rc' = 1 /\ pc' = "end"
       \/ ROCOTO_STATE = "DONE" /\ rc' = 0 /\ pc' = "end"
       \/ ROCOTO_STATE \notin failure_states \cup {"DONE"} /\ pc' = "run" /\ UNCHANGED rc
    /\ UNCHANGED <<script, external, readings, others, errors, ROCOTO_STATE>>

Monitor ==
    \/ Run \/ rocoto_statcount \/ rocotostat_summary \/ RecountLost \/ RecountStalled
    \/ StatFails \/ NoAnswer \/ Judge

Next ==
    \/ \E j \in Jobs : JobStarts(j) \/ JobEnds(j)
    \/ ServerChanges \/ OtherRun \/ Monitor

(* The scripts run until they end; a job in the batch system starts and ends. *)
Spec ==
    /\ Init /\ [][Next]_vars
    /\ WF_vars(Monitor)
    /\ \A j \in Jobs : WF_vars(JobStarts(j) \/ JobEnds(j))

-----------------------------------------------------------------------------
(* Success is only reported of an experiment all cycles of which are done,    *)
(* though the state may be the one of an earlier call.                        *)
SuccessIsDone == rc = 0 => \A j \in Jobs : db[j] = "SUCCEEDED"

(* run_check_gitlab_ci.sh reports a failure only for a reason: a dead job; a  *)
(* job whose state could not be had at both readings; or no job in the batch  *)
(* system at the reading that decided, the experiment not being done.  A call *)
(* without an answer is no reason, and no state of an earlier call is.        *)
FailureHasReason ==
    rc = 1 /\ script = "gitlab" =>
        \/ \E j \in Jobs : db[j] = "DEAD"
        \/ first \cap Lost # {} /\ second \cap Lost # {}
        \/ second # {} /\ alive = {} /\ ~is_done

(* Whatever becomes of the jobs, the watch ends: an experiment that is done,  *)
(* dead or stalled is reported, and does not hold the CI for ever.            *)
WatchEnds == <>(pc = "end")
=============================================================================
