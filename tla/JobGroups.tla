------------------------------ MODULE JobGroups ------------------------------
(* How the workflow generator splits the forecast hours of a run into jobs    *)
(* (dev/workflow/rocoto/tasks.py and _get_awipsgroups of gfs_tasks.py).       *)
(* Hours are numbers, a list of hours is a sequence; f is the configuration   *)
(* of a forecast, its fields named after the variables.                       *)
EXTENDS Integers, Sequences, FiniteSets, SequencesExt

Least(a, b) == IF a < b THEN a ELSE b

\* Python's range(from, to, step): the end is not in it.
Hours(from, to, step) ==
    [i \in 1..(IF to > from THEN (to - from + step - 1) \div step ELSE 0) |->
        from + (i - 1) * step]

\* Hours with two steps: a high-frequency part, then the rest; both parts run
\* to the first hour at or after their end.
TwoSteps(fhmin, fhmax_hf, fhout_hf, fhmax, fhout) ==
    LET hf == Hours(fhmin, fhmax_hf + fhout_hf, fhout_hf)
    IN hf \o Hours(Last(hf) + fhout, fhmax + fhout, fhout)

\* Mistaken variant: the low-frequency hours start at the end of the first part.
_get_forecast_hours_Twice(f) ==
    LET hf == Hours(f.FHMIN, f.FHMAX_HF_GFS + f.FHOUT_HF_GFS, f.FHOUT_HF_GFS)
    IN hf \o Hours(Last(hf), f.FHMAX_GFS + f.FHOUT_GFS, f.FHOUT_GFS)

\* fhrs.remove(0), of hours in order.
WithoutZero(fhrs) == IF fhrs[1] = 0 THEN Tail(fhrs) ELSE fhrs

\* The hours of a forecast run; f.ocean: of its ocean or ice history, which
\* has no high-frequency part and, as it is averaged, no hour 0.
_get_forecast_hours(f) ==
    IF f.ocean
    THEN WithoutZero(TwoSteps(f.FHMIN, 0, f.FHOUT_GFS, f.FHMAX_GFS, f.FHOUT_GFS))
    ELSE TwoSteps(f.FHMIN, f.FHMAX_HF_GFS, f.FHOUT_HF_GFS, f.FHMAX_GFS, f.FHOUT_GFS)

\* numpy.array_split(s, k): k parts, the first of which are one longer.
PartEnd(size, k, i) == i * (size \div k) + Least(i, size % k)

ArraySplit(s, k) ==
    [i \in 1..k |-> SubSeq(s, PartEnd(Len(s), k, i - 1) + 1, PartEnd(Len(s), k, i))]

\* bisect_right(fhrs, bpnt).
AtOrBefore(fhrs, bpnt) == Cardinality({i \in DOMAIN fhrs : fhrs[i] <= bpnt})

\* The break points, which increase, that come before the last hour: others
\* are ignored.
Reached(fhrs, breakpoints) == Cardinality({i \in DOMAIN breakpoints : breakpoints[i] < Last(fhrs)})

\* The positions in fhrs at which the segments end.
SegmentEnds(fhrs, breakpoints) ==
    LET last == Reached(fhrs, breakpoints) + 1
    IN [i \in 0..last |-> IF i = 0 THEN 0
                          ELSE IF i = last THEN Len(fhrs) ELSE AtOrBefore(fhrs, breakpoints[i])]

\* The hours of each segment.
SplitAtBreaks(fhrs, breakpoints) ==
    LET end == SegmentEnds(fhrs, breakpoints)
    IN [i \in 1..Reached(fhrs, breakpoints) + 1 |-> SubSeq(fhrs, end[i - 1] + 1, end[i])]

\* Segment i has more hours per group than j, in w groups each.
Longer(segs, w, i, j) == Len(segs[i]) * w[j] > Len(segs[j]) * w[i]

\* The first of the segments that have the most.
Longest(segs, w) ==
    CHOOSE i \in DOMAIN segs :
        \A j \in DOMAIN segs : j # i => \/ Longer(segs, w, i, j)
                                      \/ (i < j /\ ~Longer(segs, w, j, i))

AddGroup(segs, w) == [w EXCEPT ![Longest(segs, w)] = @ + 1]

\* The number of groups of each segment, by the number of groups that were added
\* to one for each.
ngroups_segs(segs) ==
    LET weights[n \in Nat] ==
            IF n = 0 THEN [i \in DOMAIN segs |-> 1] ELSE AddGroup(segs, weights[n - 1])
    IN weights

\* get_job_groups raises ValueError when there are fewer groups than segments.
Splittable(ngroups, breakpoints) == Len(breakpoints) + 1 <= ngroups

\* Group k of segment i (counted from 1 here), for each of them.
GroupsOf(w) == UNION {{i} \X (1..w[i]) : i \in DOMAIN w}

\* The hours of each group; the list of the code has them in the order of the
\* segments and, of a segment, of its parts.
get_job_groups(fhrs, ngroups, breakpoints) ==
    LET segs == SplitAtBreaks(fhrs, breakpoints)
        w == ngroups_segs(segs)[Least(ngroups, Len(fhrs)) - Len(segs)]
    IN [g \in GroupsOf(w) |-> ArraySplit(segs[g[1]], w[g[1]])[g[2]]]

\* fcst_segments[1:-1]: the inner bounds of the segments.
BreakPoints(f) == SubSeq(f.FCST_SEGMENTS, 2, Len(f.FCST_SEGMENTS) - 1)

\* The groups of a product metatask.
get_grouped_fhr_dict(f) == get_job_groups(_get_forecast_hours(f), f.MAX_TASKS, BreakPoints(f))

-----------------------------------------------------------------------------
(* The AWIPS products.  config.awips gives their steps; the hours come from   *)
(* parm files that exist every 3 hours to 84 and every 6 hours to 240.        *)
FHMAX_HF_GFS_AWIPS == 84
FHOUT_HF_GFS_AWIPS == 3
FHOUT_GFS_AWIPS == 6

AwipsHours(f) ==
    TwoSteps(f.FHMIN, FHMAX_HF_GFS_AWIPS, FHOUT_HF_GFS_AWIPS,
             Least(f.FHMAX_GFS, 240), FHOUT_GFS_AWIPS)

ngrps(f) == Least(f.MAX_TASKS, Len(AwipsHours(f)))

\* Mistaken variant: no break point at the change of the step.
_get_awipsgroups_Whole(f) == get_job_groups(AwipsHours(f), ngrps(f), <<>>)

_get_awipsgroups(f) == get_job_groups(AwipsHours(f), ngrps(f), <<FHMAX_HF_GFS_AWIPS>>)

\* The parm files of the AWIPS products (external).
AwipsParmHours == {h \in 0..240 : h % (IF h <= 84 THEN 3 ELSE 6) = 0}

-----------------------------------------------------------------------------
(* The hours segment s of the forecast writes: config.fcst bounds it by its   *)
(* segment and common_predet lists the hours.                                 *)
WrittenBy(f, s) ==
    LET FHMIN == f.FCST_SEGMENTS[s + 1]
        FHMAX == f.FCST_SEGMENTS[s + 2]
        FHMAX_HF == Least(f.FHMAX_HF_GFS, FHMAX)
        hf == f.FHOUT_HF_GFS > 0 /\ FHMAX_HF > 0
        list == (IF hf THEN ToSet(Hours(FHMIN, FHMAX_HF + 1, f.FHOUT_HF_GFS)) ELSE {})
                \cup ToSet(Hours(IF hf THEN FHMAX_HF ELSE FHMIN, FHMAX + 1, f.FHOUT_GFS))
    IN {h \in list : FHMIN <= h /\ h <= FHMAX}

\* Ocean and ice history: a file at the end of every FHOUT_GFS hours.
AveragedBy(f, s) ==
    {h \in f.FCST_SEGMENTS[s + 1] + 1..f.FCST_SEGMENTS[s + 2] : h % f.FHOUT_GFS = 0}

Produced(f, s) == IF f.ocean THEN AveragedBy(f, s) ELSE WrittenBy(f, s)
=============================================================================
