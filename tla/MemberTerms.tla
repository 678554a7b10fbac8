----------------------------- MODULE MemberTerms -----------------------------
(* What the GEFS and the SFS share: every task of the forecast is repeated for*)
(* each member, and every forecast runs in segments.                          *)
(*                                                                            *)
(* x.exp.members are the members, "000" (the control) among them;             *)
(* x.exp.segments the segments, x.exp.lastSegment the last of them.           *)
EXTENDS RocotoTerms

Control == "000"

\* The metatask f'{t}_{m}' of the jobs of member m, inside metatask t.
Within(t, m) == t \o "_" \o m

\* {run}_fcst_mem{m}, the serial metatask of the segments of a member.
Forecast(m) == Mem("fcst", m)

\* fcst_mem#member#_#seg_dep#: for the last hours, the last segment.
LastForecast(x, m) == Seg(Forecast(m), x.exp.lastSegment)

\* The jobs of the metatasks that are repeated for each member.
MemberParts(tasks, members, segments) ==
    LET pairs == tasks \X members
        forecasts == {Forecast(m) : m \in members}
    IN  [n \in tasks \cup {Within(p[1], p[2]) : p \in pairs} \cup forecasts |->
            IF n \in tasks THEN {Mem(n, m) : m \in members}
            ELSE IF n \in forecasts THEN {Seg(n, k) : k \in segments}
            ELSE {Mem(p[1], p[2]) : p \in {q \in pairs : Within(q[1], q[2]) = n}}]

\* A segment waits for the one before it.
Serial(x, r, m, k, c) == k = "1" => Task(x, r, Seg(Forecast(m), "0"), c)

\* The cycles of cycledef {run}: from SDATE_GFS every INTERVAL_GFS to EDATE.
EnsembleCycles(s) == {c \in 0 .. s.last : c % s.every = 0}

\* One run, with its options, tasks and metatasks, each task at every cycle.
EnsembleExperiment(s, options, metatasks, names) ==
    LET segments == IF s.nseg = 1 THEN {"0"} ELSE {"0", "1"}
        parts == MemberParts(metatasks, s.members, segments)
        cycles == EnsembleCycles(s)
    IN  [net |-> s.net, options |-> [r \in {s.net} |-> options],
         members |-> s.members, segments |-> segments,
         lastSegment |-> IF s.nseg = 1 THEN "0" ELSE "1",
         parts |-> [r \in {s.net} |-> parts],
         metatasks |-> DOMAIN parts \cup {"atmos_ensstat", "awips", "wave_stat"},
         cycles |-> cycles,
         jobs |-> UNION {{<<s.net, n, c>> : n \in
                            IF t = "fcst" THEN parts[Forecast(Control)]
                            ELSE IF t = "efcs"
                            THEN UNION {parts[Forecast(m)] : m \in s.members \ {Control}}
                            ELSE IF t \in metatasks THEN parts[t] ELSE {t}}
                         : t \in names, c \in cycles}]
==============================================================================
