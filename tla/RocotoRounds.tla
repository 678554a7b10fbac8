---------------------------- MODULE RocotoRounds ----------------------------
(* The behaviours of Rocoto in which at most one job is late: at every call   *)
(* all the other running jobs have ended, and all that may be submitted is.   *)
(* Which job is late is chosen when it is running.  While it is late the rest *)
(* of the experiment goes as far as the dependencies let it, so the jobs that *)
(* begin are all those which can begin before the late one ends, in any       *)
(* behaviour of Rocoto (RocotoProofs, theorem NothingElseBegins).             *)
EXTENDS Rocoto

CONSTANT NoJob    \* no job is late

VARIABLES
    late,     \* the job that is late
    spent     \* a job has been late

roundVars == <<vars, late, spent>>

\* Mistaken variant: the late job ends as well.
RoundWithout_AllEnd(h) ==
    /\ done' = begun
    /\ begun' = begun \cup Submittable(exp, done', begun)
    /\ exp' = exp

\* Mistaken variant: what has begun is taken for what is done.
RoundWithout_Begun(h) ==
    /\ done' = begun \ {h}
    /\ begun' = begun \cup Submittable(exp, begun, begun)
    /\ exp' = exp

\* A call when every running job but h has ended.
RoundWithout(h) ==
    /\ done' = begun \ {h}
    /\ begun' = begun \cup Submittable(exp, done', begun)
    /\ exp' = exp

RoundsInit == Init /\ late = NoJob /\ spent = FALSE

\* All the jobs that run end.
Round == /\ late = NoJob
         /\ RoundWithout(NoJob)
         /\ UNCHANGED <<late, spent>>

\* From now on job j is late.
Delay(j) == /\ ~spent
            /\ late' = j
            /\ spent' = TRUE
            /\ RoundWithout(j)

RoundBesideLate == /\ late # NoJob
                   /\ RoundWithout(late)
                   /\ UNCHANGED <<late, spent>>

\* Nothing else can begin or end until the late job does.
Waiting == /\ late # NoJob
           /\ done = begun \ {late}
           /\ Submittable(exp, done, begun) = {}

\* The late job ends at last.
LateEnds == /\ Waiting
            /\ RoundWithout(NoJob)
            /\ late' = NoJob
            /\ UNCHANGED spent

RoundsNext == \/ Round
              \/ \E j \in begun \ done : Delay(j)
              \/ RoundBesideLate
              \/ LateEnds

\* cron calls rocotorun every five minutes, and a job ends or is killed at its
\* walltime: some call always finds something new.
RoundsSpec == RoundsInit /\ [][RoundsNext]_roundVars /\ WF_roundVars(RoundsNext)

RoundsTypeOK == /\ TypeOK
                /\ late \in Jobs(exp) \cup {NoJob}
                /\ late # NoJob => late \in begun \ done /\ spent

-----------------------------------------------------------------------------
\* The experiment runs as rocoto runs it.
IsRocoto == INSTANCE Rocoto

Implements == IsRocoto!Spec
=============================================================================
