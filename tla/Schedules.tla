------------------------------ MODULE Schedules ------------------------------
(* What an experiment saves over all of its cycles.  The generator splits the *)
(* forecast hours and the members into jobs once; then the archive jobs of    *)
(* each cycle save what is due at it.  Here the jobs of a cycle succeed;      *)
(* Archive models how they may fail, Workflow their order.                    *)
EXTENDS JobGroups, ArchiveTimes

CONSTANT Experiments      \* the experiments that may be set up

\* Steps that divide what they step through, as in every configuration of the
\* repository.
StepsDivide(f) ==
    /\ f.FHOUT_HF_GFS \in Nat \ {0} /\ f.FHOUT_GFS \in Nat \ {0}
    /\ f.FHMIN = 0
    /\ f.FHMAX_HF_GFS \in Nat /\ f.FHMAX_HF_GFS % f.FHOUT_HF_GFS = 0
    /\ f.FHMAX_GFS \in Nat \ {0} /\ f.FHMAX_HF_GFS <= f.FHMAX_GFS
    /\ (f.FHMAX_GFS - f.FHMAX_HF_GFS) % f.FHOUT_GFS = 0
    /\ f.ocean => f.FHMAX_GFS % f.FHOUT_GFS = 0
    /\ f.DO_AWIPS => /\ f.FHMAX_GFS >= FHMAX_HF_GFS_AWIPS
                     /\ f.FHMAX_GFS >= 240 \/ f.FHMAX_GFS % FHOUT_GFS_AWIPS = 0

\* FCST_SEGMENTS has the break points between the first hour and the last, in
\* order, and output is written at each of them.
SegmentsMeetOutput(f) ==
    LET last == Len(f.FCST_SEGMENTS)
    IN /\ f.FCST_SEGMENTS \in Seq(Nat) /\ last >= 2
       /\ f.FCST_SEGMENTS[1] = f.FHMIN /\ f.FCST_SEGMENTS[last] = f.FHMAX_GFS
       /\ \A i \in 2..last : /\ f.FCST_SEGMENTS[i - 1] < f.FCST_SEGMENTS[i]
                             /\ f.FCST_SEGMENTS[i] \in ToSet(_get_forecast_hours(f))

\* The warm-start archive of the gdas counts its days from the cycle, that of
\* the members from the one after: they agree when the experiment does not
\* start at an hour of ARCH_CYC, or when every day is archived.
SameDays(x) == Hour(x.SDATE) \notin x.ARCH_CYC \/ x.ARCH_WARMICFREQ = 1

\* What setup_expt.py asks of the dates, and the archive scripts of the rest (an
\* ARCH_WARMICFREQ of 0 is divided by).  Without members there are no groups.
Configured(e) ==
    /\ e.SDATE \in Int /\ e.EDATE \in Int /\ e.interval \in Nat \ {0}
    /\ e.SDATE <= e.EDATE
    /\ e.ARCH_CYC \subseteq 0..23 /\ e.ARCH_WARMICFREQ \in Nat \ {0}
    /\ e.ARCH_EXPDIR_FREQ \in Nat
    /\ e.NMEM_ENS \in Nat /\ e.NMEM_EARCGRP \in Nat \ {0}
    /\ {e.DOIAU, e.DOIAU_ENKF, e.DOHYBVAR_OCN} \subseteq BOOLEAN

ASSUME ScheduleAssumption ==
    \A e \in Experiments :
        /\ Configured(e)
        /\ (e.EDATE - e.SDATE) % e.interval = 0
        /\ e.ARCH_FCSTICFREQ = 1
        /\ Cycled(e) => e.interval = assim_freq /\ e.EDATE > e.SDATE /\ SameDays(e)
        /\ e.DOHYBVAR_OCN => e.DOIAU_ENKF
        /\ {e.fcst.ocean, e.fcst.DO_AWIPS} \subseteq BOOLEAN /\ e.fcst.MAX_TASKS \in Nat
        /\ StepsDivide(e.fcst) /\ SegmentsMeetOutput(e.fcst)

VARIABLES
    x,          \* the experiment
    jobs,       \* the jobs the generator made of its hours and members
    cycle,      \* the cycle that runs next
    saved       \* the tarballs of the archive jobs

vars == <<x, jobs, cycle, saved>>

NoGroups == [g \in {} |-> <<>>]
NoJobs == [products |-> NoGroups, awips |-> NoGroups, members |-> 0]

Init ==
    /\ x \in Experiments
    /\ jobs = NoJobs
    /\ cycle = x.SDATE
    /\ saved = {}

\* The workflow is generated; get_job_groups refuses fewer groups than segments.
Generate ==
    /\ jobs = NoJobs
    /\ Splittable(x.fcst.MAX_TASKS, BreakPoints(x.fcst))
    /\ x.fcst.DO_AWIPS => Splittable(ngrps(x.fcst), <<FHMAX_HF_GFS_AWIPS>>)
    /\ jobs' = [products |-> get_grouped_fhr_dict(x.fcst),
                awips |-> IF x.fcst.DO_AWIPS THEN _get_awipsgroups(x.fcst) ELSE NoGroups,
                members |-> n_groups(x)]
    /\ UNCHANGED <<x, cycle, saved>>

\* The archive jobs are not in the first half cycle of a cycled experiment.
Archives(c) == Cycled(x) => c # x.SDATE

RunCycle ==
    /\ jobs # NoJobs
    /\ cycle <= x.EDATE
    /\ saved' = IF Archives(cycle) THEN saved \cup SavedAt(x, cycle) ELSE saved
    /\ cycle' = cycle + x.interval
    /\ UNCHANGED <<x, jobs>>

Next == Generate \/ RunCycle

Spec == Init /\ [][Next]_vars

-----------------------------------------------------------------------------
Done(c) == c < cycle
SavedTypes(c) == {s.type : s \in {t \in saved : t.cycle = c}}
MembersIn(type, c) == UNION {s.members : s \in {t \in saved : t.type = type /\ t.cycle = c}}

\* What a warm start at the cycle after c needs: the restarts of cycle c and
\* the increments of the next cycle.
WarmStartSet(c) ==
    /\ WarmICs \cap TarballTypes(x) \subseteq SavedTypes(c)
    /\ Increments \cap TarballTypes(x) \subseteq SavedTypes(c + assim_freq)
    /\ MembersIn("enkf_restartb_grp", c) = 1..x.NMEM_ENS
    /\ MembersIn("enkf_restarta_grp", c + assim_freq) = 1..x.NMEM_ENS

(* A warm-start archive is never a part of one: once the next cycle ran, the  *)
(* initial conditions that any run saved at a cycle come with those of the    *)
(* other runs and with the increments of the next cycle.  Two modules compute *)
(* the days, one for the gdas and one for the members.                        *)
WarmStartSets ==
    \A s \in saved :
        /\ s.type \in WarmICs \cup {"enkf_restartb_grp"}
        /\ Done(s.cycle + assim_freq)
        => WarmStartSet(s.cycle)

\* The time the model of the next cycle starts from, of the run that saved s.
RunOf(s) == IF s.members = {} THEN "gdas" ELSE "enkfgdas"
NextStart(s) ==
    model_start_date_next_cycle(IF RunOf(s) = "gdas" THEN x.DOIAU ELSE x.DOIAU_ENKF)

(* Every restart a tarball names was copied to COM by the forecast of the     *)
(* cycle, or the archive job would fail, and each component's restarts have   *)
(* the time the next cycle starts at: the intervals of the archive and of the *)
(* forecast are computed from different variables.                            *)
SavedRestartsStart ==
    \A s \in saved :
        /\ s.restarts \subseteq CopiedBy(x, RunOf(s))
        /\ \A r \in s.restarts : <<r[1], NextStart(s)>> \in s.restarts

(* At every cycle that archives, the groups of members have every member,     *)
(* once, and no group is empty (a group without members has no dataset).      *)
MembersPartitioned ==
    \A c \in {s.cycle : s \in saved} :
        LET groups == {s \in saved : s.cycle = c /\ s.type = "enkf_grp"}
        IN Cycled(x) =>
           /\ UNION {s.members : s \in groups} = 1..x.NMEM_ENS
           /\ \A s, t \in groups : s # t => s.members \cap t.members = {}
           /\ \A s \in groups : s.members # {}
           /\ Cardinality(groups) = jobs.members

(* config.arch_tars: the EXPDIR is saved at the first and the last cycle; and *)
(* only then when the frequency is 0, otherwise never less often than asked.  *)
ExpdirArchived ==
    LET at == {s.cycle : s \in {t \in saved : t.type = "expdir"}}
        first == IF Cycled(x) THEN x.SDATE + assim_freq ELSE x.SDATE
    IN /\ Done(x.EDATE) => {first, x.EDATE} \subseteq at
       /\ x.ARCH_EXPDIR_FREQ = 0 => at \subseteq {first, x.EDATE}
       /\ x.ARCH_EXPDIR_FREQ > 0 /\ x.ARCH_EXPDIR_FREQ % x.interval = 0 =>
            \A c \in first..x.EDATE :
                Done(c) => \E a \in at : a <= c /\ c < a + x.ARCH_EXPDIR_FREQ

-----------------------------------------------------------------------------
\* The order of the list of groups.
Before(g, h) == g[1] < h[1] \/ (g[1] = h[1] /\ g[2] < h[2])

InOrder(fhrs) == \A i, j \in DOMAIN fhrs : i < j => fhrs[i] < fhrs[j]

HoursOf(groups) == UNION {ToSet(groups[g]) : g \in DOMAIN groups}

Segments(f) == 0..Len(f.FCST_SEGMENTS) - 2

\* What is written when segment s of forecast f has ended.
ProducedUpTo(f, s) == UNION {Produced(f, r) : r \in 0..s}

(* The jobs of a product have every hour of the forecast once and in order,   *)
(* none is without hours, there are as many as asked for where the hours      *)
(* suffice, and the hours of a job are written when the segment it waits for  *)
(* has ended, the first of them not before.                                   *)
GroupsPartition ==
    jobs # NoJobs =>
        LET f == x.fcst
            groups == jobs.products
        IN /\ HoursOf(groups) = UNION {Produced(f, s) : s \in Segments(f)}
           /\ Cardinality(DOMAIN groups) = Least(f.MAX_TASKS, Cardinality(HoursOf(groups)))
           /\ \A g \in DOMAIN groups :
                LET seg == g[1] - 1
                IN /\ groups[g] # <<>> /\ InOrder(groups[g])
                   /\ ToSet(groups[g]) \subseteq ProducedUpTo(f, seg)
                   /\ seg > 0 => groups[g][1] \notin ProducedUpTo(f, seg - 1)
           /\ \A g, h \in DOMAIN groups : Before(g, h) => Last(groups[g]) < groups[h][1]

(* A comment of _get_awipsgroups: a group never has hours of both steps.  And *)
(* every hour has a parm file and is one of the forecast.                     *)
AwipsGroups ==
    jobs # NoJobs /\ x.fcst.DO_AWIPS =>
        /\ HoursOf(jobs.awips) = {h \in AwipsParmHours : h <= x.fcst.FHMAX_GFS}
        /\ \A g \in DOMAIN jobs.awips :
             LET hs == ToSet(jobs.awips[g])
             IN /\ hs # {}
                /\ (\A h \in hs : h <= FHMAX_HF_GFS_AWIPS) \/ (\A h \in hs : h > FHMAX_HF_GFS_AWIPS)
=============================================================================
