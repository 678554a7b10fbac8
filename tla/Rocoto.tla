------------------------------- MODULE Rocoto -------------------------------
(* The workflow engine that runs an experiment.  rocoto itself is outside the *)
(* repository: what is modelled is the use dev/workflow makes of it.  The     *)
(* generator writes one document with the cycle definitions, the tasks and    *)
(* their dependencies, and a cron entry that calls rocotorun every five       *)
(* minutes (rocoto_xml.py).  A call reads which jobs have ended, and submits  *)
(* every job of an active cycle whose dependency holds.                       *)
(*                                                                            *)
(* A job is <<run, name, cycle>>.  Jobs of an experiment and the dependencies *)
(* are constants: the modules of the tasks give them their values.            *)
EXTENDS Integers, FiniteSets

CONSTANTS
    Experiments,         \* names of the experiments
    Jobs(_),             \* the jobs of an experiment, over all its cycles
    Ready(_, _, _, _),   \* Ready(e, j, done, begun): the dependency of job j
    CycleThrottle        \* cyclethrottle: cycles that may be active together

ASSUME ThrottleAssumption == CycleThrottle \in Nat \ {0}

VARIABLES
    exp,      \* the experiment that runs
    begun,    \* jobs that were submitted, ended ones included
    done      \* jobs that succeeded

vars == <<exp, begun, done>>

CycleOf(j) == j[3]

\* The cycles of the document, those of every cycledef together.
Cycles(e) == {CycleOf(j) : j \in Jobs(e)}

Incomplete(e, D) == {CycleOf(j) : j \in Jobs(e) \ D}

\* A new cycle is activated when fewer than cyclethrottle cycles are active,
\* in the order of their dates; a cycle is active until its jobs are done.
Active(e, D) ==
    LET open == Incomplete(e, D)
    IN  {c \in Cycles(e) : Cardinality({b \in open : b < c}) < CycleThrottle}

\* What one call may submit, when D is done and B was submitted before it.
Submittable(e, D, B) ==
    LET active == Active(e, D)
    IN  {j \in Jobs(e) \ B : CycleOf(j) \in active /\ Ready(e, j, D, B)}

Init == /\ exp \in Experiments
        /\ begun = {}
        /\ done = {}

\* One call: any running jobs have ended since the last one, and any of the
\* jobs that may be submitted are (taskthrottle and the queues may hold others
\* back).  A job that fails is retried or stays out of done.
Call == /\ exp' = exp
        /\ done \subseteq done'
        /\ done' \subseteq begun
        /\ begun \subseteq begun'
        /\ begun' \ begun \subseteq Submittable(exp, done', begun)

Spec == Init /\ [][Call]_vars

TypeOK == /\ exp \in Experiments
          /\ begun \subseteq Jobs(exp)
          /\ done \subseteq begun
=============================================================================
