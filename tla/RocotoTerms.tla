----------------------------- MODULE RocotoTerms -----------------------------
(* The words dependencies are written in (dev/workflow/rocoto/rocoto.py), and *)
(* what they mean to rocoto.                                                  *)
(*                                                                            *)
(* x is what a dependency is read in: x.exp, the experiment; x.done, the jobs *)
(* that succeeded; x.begun, the jobs that were submitted.  A job is <<run,    *)
(* name, cycle>>, the name being that of the document without "<run>_".       *)
(* Cycles are counted from SDATE in steps of assim_freq, six hours.           *)
(*                                                                            *)
(* The jobs of a metatask that differ in forecast hours are one job, that of  *)
(* the last hours; segments and members of a forecast are jobs of their own:  *)
(* x.exp.parts gives, for a run, those of each such metatask.                 *)
EXTENDS Integers, Sequences

\* self.options of the tasks of run r.
Do(x, r, option) == option \in x.exp.options[r]

\* The jobs of metatask n that are jobs of their own here.
Members(e, r, n) == IF n \in DOMAIN e.parts[r] THEN e.parts[r][n] ELSE {n}

\* {'type': 'task', 'name': f'{r}_{n}'} at cycle c.  A job that the document
\* does not have is never done, nor is a metatask taken for a task.
Task(x, r, n, c) == n \notin x.exp.metatasks /\ <<r, n, c>> \in x.done

\* {'type': 'metatask', 'name': f'{r}_{n}'}
Meta(x, r, n, c) == /\ n \in x.exp.metatasks
                    /\ \A m \in Members(x.exp, r, n) : <<r, m, c>> \in x.done

\* A dependency of a job for some forecast hours on that job of metatask n for
\* the same hours: f'{r}_{n}_#dep_fhr_label#'.
Hours(x, r, n, c) == n \in x.exp.metatasks /\ <<r, n, c>> \in x.done

\* {'type': 'data'}: a file that job n writes while it runs.  That it is there,
\* whole and old enough, takes no more than that the job has begun.
Data(x, r, n, c) == <<r, n, c>> \in x.begun

\* Output of the forecast for its last hours: of its last segment.
ForecastData(x, r, c) == Data(x, r, x.exp.lastSegment[r], c)

\* The hour of cycle c, in steps of six hours: 0 .. 3 for 00z, 06z, 12z, 18z.
Hour(e, c) == (e.hour0 + c) % 4

\* {'type': 'cycleexist'}: the cycle is in some cycledef.
CycleExists(x, c) == c \in x.exp.cycles

\* Names of the jobs of a member, and of a segment: f'{t}_mem{m}', f'{t}_seg{k}'.
Mem(t, m) == t \o "_mem" \o m
Seg(t, k) == t \o "_seg" \o k

\* {'type': 'taskvalid'}: the task is in a cycledef of this cycle.
TaskValid(x, r, n, c) == <<r, n, c>> \in x.exp.jobs
==============================================================================
