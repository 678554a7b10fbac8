--------------------------- MODULE CIMonitorProofs ---------------------------
(* For any number of jobs, cycles, outages and failed calls: what the script  *)
(* that watches an experiment reports is so.                                  *)
EXTENDS CIMonitor, TLAPS

AllSucceeded == \A j \in Jobs : db[j] = "SUCCEEDED"

\* The verdict DONE is only had of a done experiment, and success of it.
DoneInv ==
    /\ ROCOTO_STATE = "DONE" => AllSucceeded
    /\ rc = 0 => pc = "end" /\ ROCOTO_STATE = "DONE"

\* Every cycle is done when every job succeeded, and only then.
LEMMA DoneIsAllSucceeded == is_done <=> AllSucceeded
BY DEF is_done, CyclesDone, Cycles, AllSucceeded

\* A job that succeeded or is dead stays so, whoever runs rocotorun.
LEMMA RunKeepsEnded ==
    ASSUME RocotoRun, NEW j \in Jobs, db[j] \in {"SUCCEEDED", "DEAD"}
    PROVE  db'[j] = db[j]
BY DEF RocotoRun, Startable, LookedUp, Submitted

LEMMA DoneInit == Init => DoneInv
BY DEF Init, DoneInv

LEMMA DoneStep == DoneInv /\ [Next]_vars => DoneInv'
<1> SUFFICES ASSUME DoneInv, [Next]_vars PROVE DoneInv'
  OBVIOUS
<1>1. ASSUME NEW j \in Jobs, JobStarts(j) \/ JobEnds(j) PROVE DoneInv'
  BY <1>1 DEF JobStarts, JobEnds, DoneInv, AllSucceeded
<1>2. CASE ServerChanges
  BY <1>2 DEF ServerChanges, DoneInv, AllSucceeded
<1>3. CASE OtherRun
  BY <1>3, RunKeepsEnded DEF OtherRun, DoneInv, AllSucceeded
<1>4. CASE Run
  BY <1>4, RunKeepsEnded DEF Run, DoneInv, AllSucceeded
<1>5. CASE rocoto_statcount
  BY <1>5 DEF rocoto_statcount, external, DoneInv, AllSucceeded
<1>6. CASE rocotostat_summary
  BY <1>6, DoneIsAllSucceeded DEF rocotostat_summary, external, DoneInv, AllSucceeded
<1>7. CASE RecountLost
  BY <1>7 DEF RecountLost, external, DoneInv, AllSucceeded
<1>8. CASE RecountStalled
  BY <1>8 DEF RecountStalled, external, DoneInv, AllSucceeded
<1>9. CASE StatFails
  BY <1>9 DEF StatFails, external, DoneInv, AllSucceeded
<1>10. CASE NoAnswer
  BY <1>10 DEF NoAnswer, external, DoneInv, AllSucceeded
<1>11. CASE Judge
  BY <1>11 DEF Judge, external, DoneInv, AllSucceeded, failure_states
<1>12. CASE UNCHANGED vars
  BY <1>12 DEF vars, external, DoneInv, AllSucceeded
<1>13. QED
  BY <1>1, <1>2, <1>3, <1>4, <1>5, <1>6, <1>7, <1>8, <1>9, <1>10, <1>11, <1>12
  DEF Next, Monitor

\* The script ends with success only when all the cycles are done, whatever
\* states it kept from earlier calls of rocotostat.py.
THEOREM SuccessMeansDone == Spec => []SuccessIsDone
<1>1. DoneInv => SuccessIsDone
  BY DEF DoneInv, SuccessIsDone, AllSucceeded
<1>2. QED
  BY <1>1, DoneInit, DoneStep, PTL DEF Spec

-----------------------------------------------------------------------------
\* Why a failure may be reported.
Reason ==
    \/ \E j \in Jobs : db[j] = "DEAD"
    \/ first \cap Lost # {} /\ second \cap Lost # {}
    \/ second # {} /\ alive = {} /\ ~AllSucceeded

\* The database never lacks a job that is in the batch system.
BatchKnown ==
    /\ server \in {"up"} \cup Lost
    /\ \A j \in Jobs : batch[j] \in InBatch => Submitted(j)

\* A first reading without active jobs: a rocotorun of another may have
\* submitted jobs since, and did nothing else.
QuietSince ==
    /\ \A j \in Jobs : Submitted(j) => db[j] = "QUEUED" /\ others # 0

\* What the first reading still says while rocotostat.py goes on.
ReadingInv ==
    /\ others \in Nat
    /\ pc = "count" => others = 0
    /\ pc = "summary" /\ "DEAD" \in first => \E j \in Jobs : db[j] = "DEAD"
    /\ pc \in {"summary", "again"} /\ first \cap Lost = {} /\ is_stalled(first) => QuietSince
    /\ pc = "again" /\ first \cap Lost = {} => is_stalled(first) /\ ~AllSucceeded

\* Only a call of this round may have made the state that ends the watch.
VerdictInv ==
    /\ pc \notin {"judge", "end"} => ROCOTO_STATE \notin failure_states
    /\ ROCOTO_STATE \in failure_states => Reason
    /\ rc = 1 /\ script = "gitlab" => pc = "end" /\ ROCOTO_STATE \in failure_states

ReasonInv == BatchKnown /\ ReadingInv /\ VerdictInv

LEMMA ReasonInit == Init => ReasonInv
BY DEF Init, ReasonInv, BatchKnown, ReadingInv, VerdictInv, failure_states, InBatch

\* rocotorun submits every job that it puts into the batch system.
LEMMA RunKnowsBatch ==
    ASSUME BatchKnown, RocotoRun
    PROVE  BatchKnown'
<1> USE DEF BatchKnown, RocotoRun
<1>1. server' \in {"up"} \cup Lost
  BY DEF Lost
<1>2. ASSUME NEW j \in Jobs, batch'[j] \in InBatch PROVE Submitted(j)'
  <2>1. CASE Startable(j)
    BY <2>1 DEF Submitted
  <2>2. CASE ~Startable(j)
    <3>1. batch[j] \in InBatch /\ db'[j] = LookedUp(j) /\ Submitted(j)
      BY <1>2, <2>2
    <3>2. CASE server = "up"
      BY <3>1, <3>2 DEF LookedUp, InBatch, Submitted
    <3>3. CASE server # "up"
      BY <3>1, <3>3 DEF LookedUp, Lost, Submitted
    <3>4. QED
      BY <3>2, <3>3
  <2>3. QED
    BY <2>1, <2>2
<1>3. QED
  BY <1>1, <1>2

\* Where no job was submitted, rocotorun only submits.
LEMMA RunOnlySubmits ==
    ASSUME RocotoRun, NEW j \in Jobs, ~Submitted(j)
    PROVE  db'[j] = db[j] \/ db'[j] = "QUEUED"
BY DEF RocotoRun, LookedUp, Submitted

\* Steps of the batch system do not change the database.
LEMMA BatchKeepsReason ==
    ASSUME ReasonInv, BatchKnown',
           UNCHANGED <<script, db, pc, readings, others, ROCOTO_STATE, rc>>
    PROVE  ReasonInv'
<1>1. Reason' <=> Reason
  BY DEF Reason, readings, AllSucceeded
<1>2. ReadingInv'
  BY DEF ReasonInv, ReadingInv, readings, QuietSince, Submitted, AllSucceeded, is_stalled
<1>3. VerdictInv'
  BY <1>1 DEF ReasonInv, VerdictInv
<1>4. QED
  BY <1>2, <1>3 DEF ReasonInv

LEMMA ReasonStep ==
    ASSUME MaxOther <= 1, ReasonInv, [Next]_vars
    PROVE  ReasonInv'
<1> USE DEF ReasonInv
<1>a. MaxOther \in Nat
  BY MonitorAssumption
<1>1. ASSUME NEW j \in Jobs, JobStarts(j) \/ JobEnds(j) PROVE ReasonInv'
  <2>1. /\ UNCHANGED <<server, db>>
        /\ \A k \in Jobs : batch'[k] \in InBatch => batch[k] \in InBatch
    <3>1. CASE JobStarts(j)
      BY <3>1 DEF JobStarts, InBatch
    <3>2. CASE JobEnds(j)
      BY <3>2 DEF JobEnds, InBatch
    <3>3. QED
      BY <1>1, <3>1, <3>2
  <2>2. BatchKnown'
    BY <2>1 DEF BatchKnown, Submitted
  <2>3. QED
    BY <1>1, <2>2, BatchKeepsReason DEF JobStarts, JobEnds
<1>2. CASE ServerChanges
  <2>1. BatchKnown'
    BY <1>2 DEF ServerChanges, BatchKnown, Submitted, Lost
  <2>2. QED
    BY <1>2, <2>1, BatchKeepsReason DEF ServerChanges
<1>3. CASE OtherRun
  <2>1. BatchKnown'
    BY <1>3, RunKnowsBatch DEF OtherRun
  <2>2. others = 0 /\ others' = 1
    BY <1>3, <1>a DEF OtherRun, ReadingInv
  <2>3. (\E j \in Jobs : db[j] = "DEAD") => \E j \in Jobs : db'[j] = "DEAD"
    BY <1>3, RunKeepsEnded DEF OtherRun
  <2>4. ASSUME first \cap Lost = {}, is_stalled(first)
        PROVE  QuietSince' /\ (~AllSucceeded => ~AllSucceeded')
    <3>1. \A j \in Jobs : ~Submitted(j)
      BY <1>3, <2>2, <2>4 DEF OtherRun, ReadingInv, QuietSince
    <3>2. QED
      BY <1>3, <2>2, <3>1, RunOnlySubmits DEF OtherRun, QuietSince, AllSucceeded, Submitted
  <2>5. ReadingInv'
    BY <1>3, <2>2, <2>3, <2>4 DEF OtherRun, ReadingInv, readings, is_stalled
  <2>6. VerdictInv'
    BY <1>3 DEF OtherRun, VerdictInv
  <2>7. QED
    BY <2>1, <2>5, <2>6
<1>4. CASE Run
  <2>1. BatchKnown'
    BY <1>4, RunKnowsBatch DEF Run
  <2>2. QED
    BY <1>4, <2>1 DEF Run, ReadingInv, VerdictInv
<1>5. CASE rocoto_statcount
  <2>1. BatchKnown'
    BY <1>5 DEF rocoto_statcount, external, BatchKnown, Submitted
  <2>2. "DEAD" \in first' => \E j \in Jobs : db'[j] = "DEAD"
    BY <1>5 DEF rocoto_statcount, external, Present
  <2>3. ASSUME first' \cap Lost = {}, is_stalled(first)' PROVE QuietSince'
    BY <1>5, <2>3 DEF rocoto_statcount, external, Present, QuietSince, Submitted, Lost, is_stalled
  <2>4. QED
    BY <1>5, <2>1, <2>2, <2>3 DEF rocoto_statcount, external, ReadingInv, VerdictInv
<1>6. CASE rocotostat_summary
  <2>1. BatchKnown'
    BY <1>6 DEF rocotostat_summary, external, BatchKnown, Submitted
  <2>2. ReadingInv'
    BY <1>6, DoneIsAllSucceeded
    DEF rocotostat_summary, external, readings, ReadingInv, QuietSince, Submitted,
        AllSucceeded, is_stalled
  <2>3. ROCOTO_STATE' \in failure_states => Reason'
    BY <1>6 DEF rocotostat_summary, external, readings, ReadingInv, VerdictInv, Reason, failure_states
  <2>4. QED
    BY <1>6, <2>1, <2>2, <2>3 DEF rocotostat_summary, VerdictInv
<1>7. CASE RecountLost
  <2>1. BatchKnown' /\ ReadingInv'
    BY <1>7 DEF RecountLost, external, BatchKnown, Submitted, ReadingInv
  <2>2. ROCOTO_STATE' \in failure_states => Reason'
    BY <1>7 DEF RecountLost, external, Reason, Lost, failure_states
  <2>3. QED
    BY <1>7, <2>1, <2>2 DEF RecountLost, VerdictInv
<1>8. CASE RecountStalled
  <2>1. BatchKnown' /\ ReadingInv'
    BY <1>8 DEF RecountStalled, external, BatchKnown, Submitted, ReadingInv
  <2>2. ASSUME is_stalled(Present) PROVE Reason'
    <3>1. \A j \in Jobs : db[j] # "QUEUED"
      BY <2>2 DEF is_stalled, Present
    <3>2. ~AllSucceeded /\ \A j \in Jobs : ~Submitted(j)
      BY <1>8, <3>1 DEF RecountStalled, ReadingInv, QuietSince
    <3>3. AliveNow = {} /\ Present # {}
      BY <3>2 DEF BatchKnown, AliveNow, Present, AllSucceeded
    <3>4. QED
      BY <1>8, <3>2, <3>3 DEF RecountStalled, external, Reason, AllSucceeded
  <2>3. QED
    BY <1>8, <2>1, <2>2 DEF RecountStalled, VerdictInv
<1>9. CASE StatFails
  BY <1>9 DEF StatFails, external, BatchKnown, Submitted, ReadingInv, VerdictInv
<1>10. CASE NoAnswer
  BY <1>10 DEF NoAnswer, external, BatchKnown, Submitted, ReadingInv, VerdictInv
<1>11. CASE Judge
  <2>1. BatchKnown' /\ ReadingInv'
    BY <1>11 DEF Judge, external, BatchKnown, Submitted, ReadingInv
  <2>2. Reason' <=> Reason
    BY <1>11 DEF Judge, external, readings, Reason, AllSucceeded
  <2>3. QED
    BY <1>11, <2>1, <2>2 DEF Judge, VerdictInv
<1>12. CASE UNCHANGED vars
  <2>1. BatchKnown'
    BY <1>12 DEF vars, external, BatchKnown, Submitted
  <2>2. QED
    BY <1>12, <2>1, BatchKeepsReason DEF vars, external
<1>13. QED
  BY <1>1, <1>2, <1>3, <1>4, <1>5, <1>6, <1>7, <1>8, <1>9, <1>10, <1>11, <1>12
  DEF Next, Monitor

\* run_check_gitlab_ci.sh reports a failure only for a reason, when at most one
\* other rocotorun falls between the readings of one call.
THEOREM FailureMeansReason == MaxOther <= 1 /\ Spec => []FailureHasReason
<1>1. ReasonInv => FailureHasReason
  BY DoneIsAllSucceeded DEF ReasonInv, VerdictInv, Reason, FailureHasReason
<1>2. ReasonInv /\ MaxOther <= 1 /\ [Next]_vars => ReasonInv'
  BY ReasonStep
<1>3. SUFFICES ASSUME MaxOther <= 1 PROVE Spec => []FailureHasReason
  OBVIOUS
<1>4. QED
  BY <1>1, <1>2, <1>3, ReasonInit, PTL DEF Spec
=============================================================================
