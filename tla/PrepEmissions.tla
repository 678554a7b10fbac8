---------------------------- MODULE PrepEmissions ----------------------------
(* The job prep_emissions: exglobal_prep_emissions.py makes both tasks, runs  *)
(* the fires to their end and then NEXUS.  The job may be killed at any call  *)
(* and is submitted again; DATA is new each time and COM is not.              *)
EXTENDS FireEmissions, NexusEmissions

vars == <<jobVars, fireVars, nexusVars>>

\* The constructors of both tasks come first.
Construct ==
    /\ step = "init"
    /\ GoTo(IF x.NEXUS_DIAG_FREQ \in {"Hourly", "Daily"} THEN "fire_initialize" ELSE "failed")
    /\ UNCHANGED <<fireVars, nexusVars>>

\* Killed, perhaps between two copies.
Kill ==
    /\ step \notin {"done", "failed"}
    /\ GoTo("failed")
    /\ \E k \in 0 .. Len(fire_data_out) :
        fireCom' = IF step = "fire_finalize" THEN Sync(fireCom, SubSeq(fire_data_out, 1, k), fireData)
                                             ELSE fireCom
    /\ IF step = "nexus_finalize" THEN CopiesCut ELSE UNCHANGED <<nexusCom, restartCom>>
    /\ UNCHANGED <<raw, rawfiles, fireData, inputs, hours, daily, restart>>

Resubmit ==
    /\ step = "failed" /\ tries < MaxTries
    /\ step' = "init" /\ tries' = tries + 1 /\ UNCHANGED x
    /\ FireRestart /\ NexusRestart

Init == JobInit /\ FireInit /\ NexusInit

Next ==
    \/ Construct \/ Kill \/ Resubmit
    \/ Arrive /\ UNCHANGED nexusVars
    \/ (FireInitialize \/ FireExecute \/ FireFinalize) /\ UNCHANGED nexusVars
    \/ (NexusInitialize \/ NexusExecute \/ NexusFinalize) /\ UNCHANGED fireVars

Spec == Init /\ [][Next]_vars

-----------------------------------------------------------------------------
(* GOCART takes the fires of a day to hold at noon and interpolates in time   *)
(* (ExtData.gbbepx, ExtData.qfed): the days whose noons enclose the forecast. *)
FireDaysRead == Day(x.cycle - 12) .. Day(x.cycle + x.fhmax - 12) + 1

FiresDone == step \in {"nexus_initialize", "nexus_execute", "nexus_finalize", "done"}

(* Once the task of the fires has ended well, each member has the file of     *)
(* every day the forecast reads, dated that day.  Historical files hold the   *)
(* fires of their own day, although GBBEPx files are paired with the days by  *)
(* their position and some may have been missing in this or an earlier try;   *)
(* in real time all days repeat one file, of the day before the cycle or the  *)
(* one before that.                                                           *)
FireDaysDelivered ==
    FiresDone => \A m \in Members, d \in FireDaysRead :
        /\ <<m, d>> \in DOMAIN fireCom
        /\ LET f == fireCom[<<m, d>>] IN
            /\ f.time = d /\ f.species # {}
            /\ IF x.historical THEN f.data = d
               ELSE /\ f.data = fireCom[<<0, Day(start_date)>>].data
                    /\ f.data \in {Day(start_date), Day(start_date) - 1}

-----------------------------------------------------------------------------
\* The steps of the forecast that fall on a day, its closing midnight included.
HoursOf(d) == {i \in 0 .. x.fhmax : 24 * d <= x.cycle + i /\ x.cycle + i <= 24 * (d + 1)}

\* The entries of the configuration all of whose sections are turned on.
SwitchedOn == {HemcoLines[k].name : k \in LinesOf("switch")}
Sections(k) ==
    {HemcoLines[j].name : j \in {i \in LinesOf("open") : /\ i < k
        /\ \A c \in LinesOf("close") :
               i < c /\ c < k => HemcoLines[c].name # HemcoLines[i].name}}
Used == {HemcoLines[k] : k \in {j \in LinesOf("entry") : Sections(j) \subseteq SwitchedOn}}

\* Their files of a day, every field of the name filled in, for all kinds of day
\* where the name tells them apart.
InputsOf(d) ==
    UNION {{Name(e, d, {"YYYY", "MM", "DD", "DAY"}, p) :
               p \in IF "DAY" \in e.fields THEN e.patterns ELSE {0}} : e \in Used}

(* When the job has ended well with hourly emissions, each member has a file  *)
(* for each day of the forecast that holds the hours of the day in a row from *)
(* the first, all of them if nexus.x wrote all, and the restart for the next  *)
(* job; and they were made with the inventory files of those days of every    *)
(* section turned on.                                                         *)
NexusDaysDelivered ==
    step = "done" /\ x.NEXUS_DIAG_FREQ = "Hourly" =>
        \A m \in Members, d \in {Day(x.cycle + i) : i \in 0 .. x.fhmax} :
            /\ InputsOf(d) \subseteq inputs
            /\ m \in restartCom
            /\ <<m, d>> \in DOMAIN nexusCom
            /\ LET file == nexusCom[<<m, d>>] IN
                /\ file # {} /\ file \subseteq HoursOf(d)
                /\ \A i \in file, j \in HoursOf(d) : j < i => j \in file
                /\ hours = 0 .. x.fhmax => file = HoursOf(d)
=============================================================================
