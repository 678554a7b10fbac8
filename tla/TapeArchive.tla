----------------------------- MODULE TapeArchive -----------------------------
(***************************************************************************)
(* What archiving to tape promises, without servers, scripts or requests:  *)
(* a task is tried a number of times and ends once; when it ends well, its *)
(* tarballs are on tape.  A tarball without rstprod data is never lost     *)
(* from there.  One with rstprod data is withdrawn when it could not be    *)
(* sent or protected, but that has been noted.                             *)
(***************************************************************************)
EXTENDS Integers

CONSTANTS
    Jobs,           \* the tasks
    Standard,       \* Standard[j]: tarballs of task j without rstprod data
    Restricted,     \* Restricted[j]: those with rstprod data
    MAXTRIES        \* a task is tried this many times

VARIABLES
    task,           \* "waiting" for a try, "running", "done" or "dead"
    tries,          \* tries of each task so far
    tape,           \* what is on tape
    noted           \* restricted tarballs whose sending has failed and was noted

vars == <<task, tries, tape, noted>>

AllRestricted == UNION {Restricted[j] : j \in Jobs}
Tarballs == UNION {Standard[j] \cup Restricted[j] : j \in Jobs}

Init ==
    /\ task = [j \in Jobs |-> "waiting"] /\ tries = [j \in Jobs |-> 0]
    /\ tape = {} /\ noted = {}

Try(j) ==
    /\ task[j] = "waiting" /\ tries[j] < MAXTRIES
    /\ task' = [task EXCEPT ![j] = "running"]
    /\ tries' = [tries EXCEPT ![j] = @ + 1]
    /\ UNCHANGED <<tape, noted>>

GiveUp(j) ==
    /\ task[j] = "running"
    /\ task' = [task EXCEPT ![j] = IF tries[j] < MAXTRIES THEN "waiting" ELSE "dead"]
    /\ UNCHANGED <<tries, tape, noted>>

\* "Successfully archived ... to HPSS!"
Succeed(j) ==
    /\ task[j] = "running"
    /\ Standard[j] \subseteq tape
    /\ Restricted[j] \subseteq tape \cup noted
    /\ task' = [task EXCEPT ![j] = "done"]
    /\ UNCHANGED <<tries, tape, noted>>

\* Whichever try it was sent for, even one that was given up.
Put(f) ==
    /\ tape' = tape \cup {f}
    /\ noted' \in {noted, noted \ {f}}
    /\ UNCHANGED <<task, tries>>

Withdraw(f) ==
    /\ f \in AllRestricted
    /\ tape' \in {tape, tape \ {f}, tape \cup {f}}
    /\ noted' = noted \cup {f}
    /\ UNCHANGED <<task, tries>>

Next ==
    \/ \E j \in Jobs : Try(j) \/ GiveUp(j) \/ Succeed(j)
    \/ \E f \in Tarballs : Put(f) \/ Withdraw(f)

Spec == Init /\ [][Next]_vars

-----------------------------------------------------------------------------
\* A task that has ended well has its tarballs on tape from then on, whatever
\* earlier tries of it or other tasks still send or withdraw.
DoneIsOnTape ==
    \A j \in Jobs : task[j] = "done" =>
        Standard[j] \subseteq tape /\ Restricted[j] \subseteq tape \cup noted
=============================================================================
